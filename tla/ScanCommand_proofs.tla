------------------------ MODULE ScanCommand_proofs ------------------------
(* Proofs about ScanCommand and the ParWalker under it, for every number of *)
(* workers, capacity of the channel, list of entries, format and set of     *)
(* fatal errors:                                                            *)
(*   - AbortIsAlwaysExplained and PanicsAreExplained, from Shape and from   *)
(*     Explained, which follows the Abort message from the outbox of a      *)
(*     thread through the channel to the console;                           *)
(*   - OutputIsAlwaysComplete, from CommandInv: as long as no fatal error   *)
(*     is on its way, every message about an entry that its step has        *)
(*     produced (Emitted) is in exactly one of an outbox, the channel, the  *)
(*     buffer and the console (Once, Placed);                               *)
(*   - CountersAreAlwaysExact, from CommandInv and from Counting, which     *)
(*     says which files the counters have counted.                          *)
EXTENDS ScanCommand, SequenceTheorems, TLAPS

FS == INSTANCE FiniteSetTheorems

Files == {i \in DOMAIN Entries : Entries[i].kind = "file"}
Working == {"handle", "scan", "report", "failed"}

-----------------------------------------------------------------------------
\* The shape of the state: which thread can be where, with which file.
Places ==
  /\ \A w \in Workers : pc[w] \in {"recv"} \cup Working \cup Gone
  /\ pc[WalkerThread] \in {"walk", "stop"} \cup Gone
  /\ paths \in Seq(Files)
  /\ \A w \in Workers : pc[w] \in Working => file[w] \in Files
  /\ \A w \in Workers : pc[w] \in {"recv", "ended"} => file[w] = 0
  /\ \A t \in Threads : pc[t] \in Gone => outbox[t] = <<>>
  /\ main # "print" => msgs = <<>>

\* What JsonOutputHandler holds back, lines of finitely many matches.
Held ==
  /\ IsFiniteSet(output_buffer)
  /\ \A m \in output_buffer : m.entry \in Files /\ m.kind = "info" /\ m.n > 0
  /\ format.output # "json" => output_buffer = {}

Shape == TypeOK /\ Places /\ Held

\* A message about an error that ends the walk.
Fatal(m) == m.kind \in FatalErrors

\* Abort comes after such a message, in the same outbox, in the channel or on
\* the console.
Explained ==
  /\ \A k \in 1..Len(msgs) : msgs[k] = Abort =>
       FatalPrinted \/ \E j \in 1..(k - 1) : Fatal(msgs[j])
  /\ \A t \in Threads : \A k \in 1..Len(outbox[t]) : outbox[t][k] = Abort =>
       \/ \E j \in 1..(k - 1) : Fatal(outbox[t][j])
       \/ \E j \in 1..Len(msgs) : Fatal(msgs[j])
       \/ FatalPrinted
  /\ AbortIsExplained
  /\ PanicsOnlyAfterAbort

FatalSeen ==
  \/ FatalPrinted
  \/ \E k \in 1..Len(msgs) : Fatal(msgs[k])
  \/ \E t \in Threads : \E k \in 1..Len(outbox[t]) : Fatal(outbox[t][k])

-----------------------------------------------------------------------------
\* Every file has been found, and is in the channel of paths or with a worker
\* at most once.
Distinct ==
  /\ \A j \in 1..(next - 1) : Entries[j].kind # "broken"
  /\ \A k \in 1..Len(paths) : paths[k] < next
  /\ \A j, k \in 1..Len(paths) : j # k => paths[j] # paths[k]
  /\ \A w \in Workers : file[w] < next /\ \A k \in 1..Len(paths) : paths[k] # file[w]
  /\ \A v, w \in Workers : v # w /\ file[v] = file[w] => file[w] = 0

\* What a worker has decided about its file.
Decided ==
  \A w \in Workers :
    /\ pc[w] = "report" => ~Entries[file[w]].fails
    /\ pc[w] = "failed" => \/ err[w] \in FatalErrors /\ FatalSeen
                           \/ err[w] = "scan" /\ "scan" \notin FatalErrors /\ Entries[file[w]].fails

\* Threads leave only when their work is done, unless the walk is aborted.
Leaving ==
  ~FatalSeen =>
    /\ pc[WalkerThread] \in {"stop", "ended"} =>
         next > Len(Entries) \/ Entries[next].kind = "broken"
    /\ \A w \in Workers : pc[w] = "ended" => paths = <<>> /\ pc[WalkerThread] = "ended"

Queued(i) == \E k \in 1..Len(paths) : paths[k] = i
Reached(i) == i < next \/ (i = next /\ pc[WalkerThread] \in {"stop", "ended"})

\* The lines that the console owes an entry.
Logs(i) == IF Entries[i].logs THEN {Info(i, 0)} ELSE {}
Results(i) == IF Entries[i].fails THEN {Error("scan", i)} ELSE {Info(i, n) : n \in 1..LinesPerFile(i)}
Owed(i) ==
  CASE Entries[i].kind = "file" -> Logs(i) \cup Results(i)
    [] Entries[i].kind = "filtered" -> {}
    [] Entries[i].kind \in {"unreadable", "broken"} -> {Error("walk", i)}

\* m has been produced.
Emitted(m) ==
  /\ m.entry \in DOMAIN Entries
  /\ Reached(m.entry)
  /\ m \in Owed(m.entry)
  /\ ~Queued(m.entry)
  /\ \A w \in Workers : file[w] = m.entry =>
       pc[w] # "handle" /\ (pc[w] = "scan" => m \in Logs(m.entry))

\* m is on its way to the console, or there.
Placed(m) ==
  \/ m \in BagToSet(printed)
  \/ \E k \in 1..Len(msgs) : msgs[k] = m
  \/ \E t \in Threads : \E k \in 1..Len(outbox[t]) : outbox[t][k] = m
  \/ m \in output_buffer

\* No message is in two places.
Once ==
  /\ \A m \in BagToSet(printed) :
       /\ printed[m] = 1
       /\ m \notin output_buffer
       /\ \A k \in 1..Len(msgs) : msgs[k] # m
       /\ \A t \in Threads : \A k \in 1..Len(outbox[t]) : outbox[t][k] # m
  /\ \A k \in 1..Len(msgs) :
       /\ msgs[k] \notin output_buffer
       /\ \A j \in 1..Len(msgs) : j # k => msgs[j] # msgs[k]
       /\ \A t \in Threads : \A j \in 1..Len(outbox[t]) : outbox[t][j] # msgs[k]
  /\ \A t \in Threads : \A k \in 1..Len(outbox[t]) :
       /\ outbox[t][k] \notin output_buffer
       /\ \A u \in Threads : \A j \in 1..Len(outbox[u]) :
            outbox[u][j] = outbox[t][k] => u = t /\ j = k

\* In json with --count the end of the walk replaces messages by totals.
Totalled == main = "done" /\ format.output = "json" /\ format.count_only

Complete == ~FatalSeen /\ ~Totalled => Once /\ \A m : Placed(m) <=> Emitted(m)

-----------------------------------------------------------------------------
\* The files that the counters have counted.
Counted == {i \in 1..(next - 1) :
  /\ Entries[i].kind = "file" /\ ~Entries[i].fails /\ ~Queued(i)
  /\ \A w \in Workers : file[w] = i => pc[w] \notin {"handle", "scan"}}
Returned == {i \in Counted : \A w \in Workers : file[w] = i => pc[w] # "report"}
Matched == {i \in Returned : Entries[i].rules > 0}

Counting ==
  ~FatalSeen =>
    /\ num_scanned_files = Cardinality(Counted)
    /\ num_matching_files >= Cardinality(Matched) /\ num_matching_files <= Cardinality(Returned)
    /\ format.output # "json" =>
         num_matching_files = IF format.count_only THEN Cardinality(Returned) ELSE Cardinality(Matched)

\* What on_file_scanned has told a worker that is about to count its file.
Promised ==
  \A w \in Workers : pc[w] = "report" =>
    /\ Entries[file[w]].rules > 0 => included[w]
    /\ format.output # "json" => (included[w] <=> format.count_only \/ Entries[file[w]].rules > 0)

\* As long as no file has a match, json counts none.
Unmatched ==
  Matching = {} /\ format.output = "json" =>
    output_buffer = {} /\ num_matching_files = 0 /\ \A w \in Workers : ~included[w]

-----------------------------------------------------------------------------
LEMMA Constants ==
  /\ NumThreads \in Nat /\ NumThreads >= 1 /\ WalkerThread \in Nat
  /\ Threads = Workers \cup {WalkerThread} /\ WalkerThread \notin Workers
  /\ Workers \subseteq Nat /\ 1 \in Workers
BY ParWalkerAssumption DEF Workers, Threads, WalkerThread

LEMMA MessagesTyped ==
  ASSUME NEW i \in {0} \cup DOMAIN Entries
  PROVE  /\ \A n \in Nat : Info(i, n) \in Messages
         /\ \A e \in ErrorKinds : Error(e, i) \in Messages /\ Report(e, i) \in Seq(Messages)
         /\ Abort \in Messages
<1>1. \A n \in Nat : Info(i, n) \in Messages
  BY DEF Info, Messages
<1>2. \A e \in ErrorKinds : Error(e, i) \in Messages
  BY DEF Error, Messages
<1>3. Abort \in Messages
  BY DEF Abort, Messages
<1>4. ASSUME NEW e \in ErrorKinds PROVE Report(e, i) \in Seq(Messages)
  <2>1. <<Error(e, i)>> \in Seq(Messages) /\ <<Abort>> \in Seq(Messages) /\ <<>> \in Seq(Messages)
    BY <1>2, <1>3
  <2>2. QED
    BY <2>1, ConcatProperties DEF Report
<1>5. QED
  BY <1>1, <1>2, <1>3, <1>4

LEMMA LinesTyped ==
  ASSUME NEW i \in Files, format \in Formats
  PROVE  Lines(i) \in Seq(Messages)
<1>1. Entries[i].rules \in Nat /\ i \in {0} \cup DOMAIN Entries
  BY ScanCommandAssumption DEF Files
<1>2. TextLines(i) \in Seq(Messages)
  <2>1. \A n \in 1..Entries[i].rules : Info(i, n) \in Messages
    BY <1>1, MessagesTyped
  <2>2. QED
    <3>1. [n \in 1 .. Entries[i].rules |-> Info(i, n)] \in Seq(Messages)
      BY <1>1, <2>1, IsASeq
    <3>2. <<Info(i, 1)>> \in Seq(Messages)
      BY <1>1, MessagesTyped
    <3>3. QED
      BY <3>1, <3>2 DEF TextLines
<1>3. NdjsonLines(i) \in Seq(Messages)
  BY <1>1, MessagesTyped DEF NdjsonLines
<1>4. QED
  BY <1>2, <1>3, ScanCommandAssumption DEF Lines

LEMMA BagAddTyped ==
  ASSUME NEW B, IsABag(B), NEW x
  PROVE  /\ IsABag(BagAdd(B, x)) /\ BagToSet(BagAdd(B, x)) = BagToSet(B) \cup {x}
         /\ \A y \in BagToSet(B) : y # x => BagAdd(B, x)[y] = B[y]
         /\ x \notin BagToSet(B) => BagAdd(B, x)[x] = 1
BY DEF IsABag, BagToSet, BagAdd

LEMMA BagSumTyped ==
  ASSUME NEW B, IsABag(B), NEW S
  PROVE  /\ IsABag(B (+) SetToBag(S)) /\ BagToSet(B (+) SetToBag(S)) = BagToSet(B) \cup S
         /\ \A x \in BagToSet(B) : x \notin S => (B (+) SetToBag(S))[x] = B[x]
         /\ \A x \in S : x \notin BagToSet(B) => (B (+) SetToBag(S))[x] = 1
BY DEF IsABag, BagToSet, SetToBag, (+)

LEMMA FiniteFacts ==
  ASSUME NEW S
  PROVE  /\ IsFiniteSet({}) /\ Cardinality({}) = 0
         /\ IsFiniteSet(S) => Cardinality(S) \in Nat
         /\ IsFiniteSet(S) => \A T \in SUBSET S : IsFiniteSet(T)
         /\ IsFiniteSet(S) => (Cardinality(S) = 0 <=> S = {})
         /\ IsFiniteSet(S) => \A T : IsFiniteSet(T) => IsFiniteSet(S \cup T)
         /\ IsFiniteSet(S) => \A x : x \notin S => Cardinality(S \cup {x}) = Cardinality(S) + 1
         /\ \A n \in Nat : IsFiniteSet(1..n)
<1>1. \A T : (FS!IsFiniteSet(T) <=> IsFiniteSet(T)) /\ FS!Cardinality(T) = Cardinality(T)
  BY DEF FS!IsFiniteSet, FS!Cardinality, IsFiniteSet, Cardinality
<1>2. IsFiniteSet({}) /\ Cardinality({}) = 0
  BY <1>1, FS!FS_EmptySet
<1>3. IsFiniteSet(S) => Cardinality(S) \in Nat
  BY <1>1, FS!FS_CardinalityType
<1>4. IsFiniteSet(S) => \A T \in SUBSET S : IsFiniteSet(T)
  BY <1>1, FS!FS_Subset
<1>5. IsFiniteSet(S) => \A x : x \notin S => Cardinality(S \cup {x}) = Cardinality(S) + 1
  BY <1>1, FS!FS_AddElement
<1>6. \A n \in Nat : IsFiniteSet(1..n)
  BY <1>1, FS!FS_Interval
<1>7. IsFiniteSet(S) => (Cardinality(S) = 0 <=> S = {})
  BY <1>1, FS!FS_EmptySet
<1>8. IsFiniteSet(S) => \A T : IsFiniteSet(T) => IsFiniteSet(S \cup T)
  BY <1>1, FS!FS_Union
<1>9. QED
  BY <1>2, <1>3, <1>4, <1>5, <1>6, <1>7, <1>8

\* What is held back for a file.
LEMMA HeldFacts ==
  ASSUME NEW i \in Files
  PROVE  LET S == {Info(i, n) : n \in 1 .. Entries[i].rules}
         IN  /\ IsFiniteSet(S)
             /\ \A m \in S : m.entry \in Files /\ m.kind = "info" /\ m.n > 0
<1> DEFINE S == {Info(i, n) : n \in 1 .. Entries[i].rules}
           q == [n \in 1 .. Entries[i].rules |-> Info(i, n)]
<1>1. Entries[i].rules \in Nat
  BY ScanCommandAssumption DEF Files
<1>2. \A n \in 1 .. Entries[i].rules : Info(i, n) \in S
  OBVIOUS
<1>3. q \in Seq(S) /\ Len(q) = Entries[i].rules
  <2> HIDE DEF S
  <2>1. q \in Seq(S)
    BY <1>1, <1>2, IsASeq
  <2>2. QED
    BY <1>1, <2>1, LenProperties
<1>4. \A s \in S : \E n \in 1..Len(q) : q[n] = s
  BY <1>3
<1>5. IsFiniteSet(S)
  BY <1>3, <1>4 DEF IsFiniteSet
<1>6. \A m \in S : m.entry \in Files /\ m.kind = "info" /\ m.n > 0
  BY <1>1 DEF Info
<1>7. QED
  BY <1>5, <1>6

\* What --count makes of the matches held back.
LEMMA TotalsTyped ==
  ASSUME NEW S, IsFiniteSet(S), \A m \in S : m.entry \in Files
  PROVE  \A x \in Totals(S) : x \in Messages /\ x.kind = "info" /\ x.n > 0
<1> SUFFICES ASSUME NEW m \in S
             PROVE  LET x == Info(EntryOf(PathOf(m.entry)), Cardinality({y \in S : PathOf(y.entry) = PathOf(m.entry)}))
                    IN  x \in Messages /\ x.kind = "info" /\ x.n > 0
  BY DEF Totals
<1> DEFINE T == {y \in S : PathOf(y.entry) = PathOf(m.entry)}
           e == EntryOf(PathOf(m.entry))
<1>1. T \in SUBSET S /\ m \in T
  OBVIOUS
<1>2. IsFiniteSet(T)
  BY <1>1, FiniteFacts
<1>3. Cardinality(T) \in Nat /\ Cardinality(T) # 0
  BY <1>1, <1>2, FiniteFacts
<1>4. e \in DOMAIN Entries
  BY DEF EntryOf, Files
<1>5. QED
  BY <1>3, <1>4, MessagesTyped DEF Info

LEMMA ShapeInit == Init => Shape
<1> SUFFICES ASSUME Init PROVE Shape
  OBVIOUS
<1> USE DEF Init, WalkInit
<1>1. TypeOK
  <2>1. IsABag(EmptyBag) /\ BagToSet(EmptyBag) = {}
    BY DEF IsABag, BagToSet, EmptyBag, SetToBag
  <2>2. <<>> \in Seq(Messages) /\ <<>> \in Seq(DOMAIN Entries) /\ Len(<<>>) = 0
    OBVIOUS
  <2>3. /\ pc \in [Threads -> {"walk", "stop", "recv", "handle", "scan", "report", "failed"} \cup Gone]
        /\ next \in 1 .. Len(Entries) + 1 /\ 0 <= Capacity /\ joined \in 0 .. WalkerThread
    BY Constants, ParWalkerAssumption
  <2>4. /\ file \in [Workers -> {0} \cup DOMAIN Entries]
        /\ err \in [Workers -> ErrorKinds \cup {NoError}]
        /\ outbox \in [Threads -> Seq(Messages)] /\ included \in [Workers -> BOOLEAN]
    BY <2>2
  <2>5. QED
    BY <2>1, <2>2, <2>3, <2>4 DEF TypeOK
<1>2. Places
  BY Constants DEF Places, Working, Gone
<1>3. Held
  BY FiniteFacts DEF Held
<1>4. QED
  BY <1>1, <1>2, <1>3 DEF Shape

LEMMA ShapeSend ==
  ASSUME Shape, NEW t \in Threads, Send(t), UNCHANGED scanVars
  PROVE  (TypeOK /\ Places)'
<1>1. outbox[t] \in Seq(Messages) /\ outbox[t] # <<>>
  BY DEF Shape, TypeOK, Send
<1>2. Head(outbox[t]) \in Messages /\ Tail(outbox[t]) \in Seq(Messages)
  BY <1>1, HeadTailProperties
<1>3. TypeOK'
  <2>0. msgs \in Seq(Messages) /\ outbox \in [Threads -> Seq(Messages)]
    BY DEF Shape, TypeOK
  <2>0a. Append(msgs, Head(outbox[t])) \in Seq(Messages)
    BY <1>2, <2>0, AppendProperties
  <2>1. outbox' \in [Threads -> Seq(Messages)] /\ msgs' \in Seq(Messages)
    <3>1. outbox' = [outbox EXCEPT ![t] = <<>>] \/ outbox' = [outbox EXCEPT ![t] = Tail(@)]
      BY DEF Send
    <3>2. msgs' = msgs \/ msgs' = Append(msgs, Head(outbox[t]))
      BY DEF Send
    <3>3. outbox' \in [Threads -> Seq(Messages)]
      <4>1. <<>> \in Seq(Messages)
        OBVIOUS
      <4>2. QED
        BY <1>2, <2>0, <3>1, <4>1
    <3>4. QED
      BY <2>0, <2>0a, <3>2, <3>3
  <2>2. pc' \in [Threads -> {"walk", "stop", "recv", "handle", "scan", "report", "failed"} \cup Gone]
    BY DEF Shape, TypeOK, Send, Gone
  <2>3. QED
    BY <2>1, <2>2 DEF Shape, TypeOK, Send, scanVars
<1>4. pc[t] \notin Gone
  BY <1>1 DEF Shape, Places
<1>5. Places'
  BY <1>1, <1>4, Constants, ZenonT(40) DEF Shape, TypeOK, Places, Send, Unwraps, MsgsReceived, Working, Gone
<1>6. QED
  BY <1>3, <1>5 DEF Shape

LEMMA ShapeWalker ==
  ASSUME Shape, WalkerStep, UNCHANGED scanVars
  PROVE  (TypeOK /\ Places)'
<1> USE ParWalkerAssumption DEF Shape, TypeOK, scanVars
<1>1. CASE WalkFile
  <2>1. next \in Files /\ next + 1 \in 1..Len(Entries) + 1
    BY <1>1 DEF WalkFile, Files
  <2>2. Append(paths, next) \in Seq(Files) /\ Len(Append(paths, next)) = Len(paths) + 1
    BY <2>1, AppendProperties DEF Places
  <2>3. Append(paths, next) \in Seq(DOMAIN Entries)
    BY <2>1, AppendProperties DEF Files
  <2>4. TypeOK'
    BY <1>1, <2>1, <2>2, <2>3, LenProperties DEF WalkFile
  <2>5. Places'
    BY <1>1, <2>2 DEF WalkFile, Places
  <2>6. QED
    BY <2>4, <2>5
<1>2. CASE WalkFiltered
  BY <1>2 DEF WalkFiltered, Places
<1>3. ASSUME next <= Len(Entries) PROVE \A e \in ErrorKinds : Report(e, next) \in Seq(Messages)
  <2>1. next \in {0} \cup DOMAIN Entries
    BY <1>3
  <2>2. QED
    BY <2>1, MessagesTyped
<1>4. CASE WalkUnreadable
  <2>1. next <= Len(Entries) /\ "walk" \in ErrorKinds
    BY <1>4 DEF WalkUnreadable, ErrorKinds
  <2>2. Report("walk", next) \in Seq(Messages)
        /\ Report("walk", next) \o Report("walk", next) \in Seq(Messages)
    BY <2>1, <1>3, ConcatProperties
  <2>2a. next' \in 1..Len(Entries) + 1
    BY <1>4, <2>1 DEF WalkUnreadable
  <2>2c. outbox' \in [Threads -> Seq(Messages)]
    BY <1>4, <2>2 DEF WalkUnreadable
  <2>2b. pc' \in [Threads -> {"walk", "stop", "recv", "handle", "scan", "report", "failed"} \cup Gone]
    BY <1>4 DEF WalkUnreadable
  <2>3. TypeOK'
    BY <1>4, <2>2a, <2>2b, <2>2c DEF WalkUnreadable
  <2>4. Places'
    BY <1>4, Constants DEF WalkUnreadable, Places, Ready, Gone, Working
  <2>5. QED
    BY <2>3, <2>4
<1>5. CASE WalkBroken
  <2>1. Report("walk", next) \in Seq(Messages)
    BY <1>5, <1>3 DEF WalkBroken, ErrorKinds
  <2>2. TypeOK'
    BY <1>5, <2>1, Constants DEF WalkBroken
  <2>3. Places'
    BY <1>5, Constants DEF WalkBroken, Places, Ready, Gone, Working
  <2>4. QED
    BY <2>2, <2>3
<1>6. CASE WalkSendError
  <2>1. Report("send", next) \in Seq(Messages)
    BY <1>6, <1>3 DEF WalkSendError, ErrorKinds
  <2>2. TypeOK'
    BY <1>6, <2>1, Constants DEF WalkSendError
  <2>3. Places'
    BY <1>6, Constants DEF WalkSendError, Places, Ready, Gone, Working
  <2>4. QED
    BY <2>2, <2>3
<1>7. CASE WalkEnds
  <2>1. TypeOK'
    BY <1>7, Constants DEF WalkEnds, Gone
  <2>2. Places'
    BY <1>7, Constants DEF WalkEnds, Places, Ready, Gone, Working
  <2>3. QED
    BY <2>1, <2>2
<1>8. QED
  BY <1>1, <1>2, <1>4, <1>5, <1>6, <1>7 DEF WalkerStep

LEMMA ShapeWorker ==
  ASSUME Shape, NEW w \in Workers, Take(w) \/ NoMorePaths(w) \/ AfterError(w), UNCHANGED scanVars
  PROVE  (TypeOK /\ Places)'
<1> USE DEF Shape, TypeOK, scanVars
<1>1. CASE Take(w)
  <2>1. paths # <<>> /\ paths \in Seq(Files) /\ paths \in Seq(DOMAIN Entries)
    BY <1>1 DEF Take, Places
  <2>2. /\ Head(paths) \in Files /\ Tail(paths) \in Seq(Files) /\ Head(paths) \in DOMAIN Entries
        /\ Tail(paths) \in Seq(DOMAIN Entries) /\ Len(Tail(paths)) = Len(paths) - 1
    BY <2>1, HeadTailProperties DEF Files
  <2>2a. Len(Tail(paths)) <= Capacity
    BY <2>1, <2>2, ParWalkerAssumption, LenProperties
  <2>2b. /\ file' \in [Workers -> {0} \cup DOMAIN Entries]
         /\ pc' \in [Threads -> {"walk", "stop", "recv", "handle", "scan", "report", "failed"} \cup Gone]
    BY <1>1, <2>2 DEF Take
  <2>3. TypeOK'
    BY <1>1, <2>2, <2>2a, <2>2b DEF Take
  <2>4. Places'
    BY <1>1, <2>2, Constants DEF Take, Places, Ready, Gone, Working
  <2>5. QED
    BY <2>3, <2>4
<1>2. CASE NoMorePaths(w)
  BY <1>2, Constants DEF NoMorePaths, Places, Ready, Gone, Working
<1>3. CASE AfterError(w)
  BY <1>3, Constants DEF AfterError, Places, Ready, Gone, Working
<1>4. QED
  BY <1>1, <1>2, <1>3

LEMMA ShapeHandle ==
  ASSUME Shape, NEW w \in Workers, Handle(w)
  PROVE  (TypeOK /\ Places)'
<1> USE Constants DEF Shape, TypeOK
<1>1. ASSUME pc[w] \in Working
      PROVE  /\ file[w] \in Files /\ file[w] \in {0} \cup DOMAIN Entries
             /\ Entries[file[w]].rules \in Nat
  BY <1>1, ScanCommandAssumption DEF Places, Files
<1>2. Retain(w) \subseteq files_in_progress
  BY DEF Retain
<1>3. ASSUME pc[w] \in Working, NEW e \in ErrorKinds, Fail(w, e),
             files_in_progress' \subseteq files_in_progress,
             UNCHANGED <<format, expired, num_scanned_files, num_matching_files, output_buffer, included>>
      PROVE  (TypeOK /\ Places)'
  <2>1. Report(e, file[w]) \in Seq(Messages)
    BY <1>1, <1>3, MessagesTyped
  <2>2. TypeOK'
    BY <1>3, <2>1 DEF Fail
  <2>3. Places'
    BY <1>1, <1>3 DEF Fail, Places, Gone, Working
  <2>4. QED
    BY <2>2, <2>3
<1>4. CASE TimeIsOver(w)
  BY <1>3, <1>4 DEF TimeIsOver, Ready, Working, ErrorKinds, scanVars
<1>5. CASE ScanFails(w)
  BY <1>2, <1>3, <1>5 DEF ScanFails, Ready, Working, ErrorKinds
<1>6. CASE ScanTimesOut(w)
  BY <1>2, <1>3, <1>6 DEF ScanTimesOut, Ready, Working, ErrorKinds
<1>7. CASE StartScan(w)
  <2> DEFINE q == IF Entries[file[w]].logs THEN <<Info(file[w], 0)>> ELSE <<>>
  <2>0. file[w] \in Files /\ file[w] \in {0} \cup DOMAIN Entries
    BY <1>1, <1>7 DEF StartScan, Ready, Working
  <2>0a. Info(file[w], 0) \in Messages
    BY <2>0, MessagesTyped
  <2>1. q \in Seq(Messages)
    BY <2>0a
  <2> HIDE DEF q
  <2>2. outbox' = [outbox EXCEPT ![w] = q]
    BY <1>7 DEF StartScan, q
  <2>2a. files_in_progress' \subseteq {PathOf(i) : i \in {j \in DOMAIN Entries : Entries[j].kind = "file"}} \X Workers
    BY <1>7, <2>0 DEF StartScan, Files
  <2>2b. pc' \in [Threads -> {"walk", "stop", "recv", "handle", "scan", "report", "failed"} \cup Gone]
    BY <1>7 DEF StartScan
  <2>2d. outbox' \in [Threads -> Seq(Messages)]
    BY <2>1, <2>2
  <2>2c. /\ UNCHANGED <<next, paths, file, err, msgs, main, joined, printed>>
         /\ UNCHANGED <<format, expired, num_scanned_files, num_matching_files, output_buffer, included>>
    BY <1>7 DEF StartScan
  <2>3. TypeOK'
    BY <2>2a, <2>2b, <2>2c, <2>2d
  <2>4. Places'
    BY <1>7, <2>0, <2>2 DEF StartScan, Ready, Places, Gone, Working
  <2>5. QED
    BY <2>3, <2>4
<1>8. CASE ScanSucceeds(w)
  <2>1. Lines(file[w]) \in Seq(Messages) /\ file[w] \in Files /\ Entries[file[w]].rules \in Nat
        /\ file[w] \in {0} \cup DOMAIN Entries
    BY <1>1, <1>8, LinesTyped DEF ScanSucceeds, Ready, Working
  <2>2. Buffered(file[w]) \subseteq Messages
    BY <2>1, MessagesTyped DEF Buffered
  <2>3. Included(file[w]) \in BOOLEAN
    <3>1. /\ (format.count_only \/ Entries[file[w]].rules > 0) \in BOOLEAN
          /\ (Buffered(file[w]) # {}) \in BOOLEAN
      BY <2>1
    <3>2. QED
      BY <3>1, Zenon DEF Included
  <2>3a. /\ included' \in [Workers -> BOOLEAN] /\ outbox' \in [Threads -> Seq(Messages)]
         /\ pc' \in [Threads -> {"walk", "stop", "recv", "handle", "scan", "report", "failed"} \cup Gone]
    BY <1>8, <2>1, <2>3 DEF ScanSucceeds
  <2>3b. /\ UNCHANGED <<next, paths, file, err, msgs, main, joined, printed, format, expired, num_matching_files>>
         /\ files_in_progress' \subseteq files_in_progress /\ output_buffer' \subseteq Messages
         /\ num_scanned_files' \in Nat
    BY <1>2, <1>8, <2>2 DEF ScanSucceeds
  <2>4. TypeOK'
    BY <2>3a, <2>3b
  <2>5. Places'
    BY <1>8, <2>1 DEF ScanSucceeds, Ready, Places, Gone, Working
  <2>6. QED
    BY <2>4, <2>5
<1>9. CASE Reported(w)
  <2>1. /\ pc' \in [Threads -> {"walk", "stop", "recv", "handle", "scan", "report", "failed"} \cup Gone]
        /\ file' \in [Workers -> {0} \cup DOMAIN Entries] /\ included' \in [Workers -> BOOLEAN]
        /\ num_matching_files' \in Nat
    BY <1>9 DEF Reported
  <2>2. TypeOK'
    BY <1>9, <2>1 DEF Reported
  <2>3. Places'
    BY <1>9 DEF Reported, Ready, Places, Gone, Working
  <2>4. QED
    BY <2>2, <2>3
<1>10. QED
  BY <1>4, <1>5, <1>6, <1>7, <1>8, <1>9 DEF Handle

LEMMA ShapeMain ==
  ASSUME Shape, MainStep
  PROVE  (TypeOK /\ Places)'
<1> USE DEF Shape, TypeOK
<1>1. CASE Display /\ UNCHANGED scanVars
  <2>1. Head(msgs) \in Messages /\ Tail(msgs) \in Seq(Messages)
    BY <1>1, HeadTailProperties DEF Display
  <2>2. IsABag(printed') /\ BagToSet(printed') \subseteq Messages
    BY <1>1, <2>1, BagAddTyped DEF Display
  <2>3. TypeOK'
    BY <1>1, <2>1, <2>2 DEF Display, scanVars
  <2>4. Places'
    BY <1>1 DEF Display, Places
  <2>5. QED
    BY <2>3, <2>4
<1>2. CASE AbortReceived /\ UNCHANGED scanVars
  BY <1>2 DEF AbortReceived, scanVars, Places
<1>3. CASE (Disconnected \/ JoinPanicked \/ Unwound) /\ UNCHANGED scanVars
  BY <1>3 DEF Disconnected, JoinPanicked, Unwound, scanVars, Places
<1>4. CASE JoinThread /\ UNCHANGED scanVars
  BY <1>4, Constants DEF JoinThread, scanVars, Places
<1>5. CASE Done
  <2>0. Totals(output_buffer) \subseteq Messages
    BY TotalsTyped DEF Held
  <2>1. IsABag(printed') /\ BagToSet(printed') \subseteq Messages
    BY <1>5, <2>0, BagSumTyped DEF Done, WalkDone
  <2>2. QED
    BY <1>5, <2>1 DEF Done, WalkDone, Places
<1>6. QED
  BY <1>1, <1>2, <1>3, <1>4, <1>5 DEF MainStep

LEMMA HeldNext ==
  ASSUME Shape, [Next]_vars
  PROVE  Held'
<1>0. IsFiniteSet({})
  BY FiniteFacts
<1>1. CASE UNCHANGED <<format, output_buffer>>
  BY <1>1 DEF Shape, Held
<1>2. CASE Done
  BY <1>0, <1>2 DEF Done, Shape, Held
<1>3. ASSUME NEW w \in Workers, ScanSucceeds(w) PROVE Held'
  <2> DEFINE S == {Info(file[w], n) : n \in 1 .. Entries[file[w]].rules}
  <2>1. file[w] \in Files
    BY <1>3 DEF ScanSucceeds, Ready, Shape, Places, Working
  <2>2. IsFiniteSet(S) /\ \A m \in S : m.entry \in Files /\ m.kind = "info" /\ m.n > 0
    BY <2>1, HeldFacts
  <2>3. format' = format /\ output_buffer' = output_buffer \cup (IF format.output = "json" THEN S ELSE {})
    BY <1>3 DEF ScanSucceeds, Buffered
  <2> HIDE DEF S
  <2>4. IsFiniteSet(output_buffer \cup S) /\ output_buffer \cup {} = output_buffer
    BY <2>2, FiniteFacts DEF Shape, Held
  <2>5. QED
    BY <2>2, <2>3, <2>4 DEF Shape, Held
<1>4. QED
  BY <1>1, <1>2, <1>3
     DEF Next, WorkerStep, Handle, TimeIsOver, StartScan, ScanFails, ScanTimesOut, Reported, WalkerThreadStep,
         MainStep, Expire, Finished, vars, scanVars

LEMMA ShapeNext == Shape /\ [Next]_vars => Shape'
<1> SUFFICES ASSUME Shape, [Next]_vars PROVE (TypeOK /\ Places)'
  BY HeldNext DEF Shape
<1>1. CASE \E w \in Workers : WorkerStep(w)
  BY <1>1, Constants, ShapeSend, ShapeWorker, ShapeHandle DEF WorkerStep
<1>2. CASE WalkerThreadStep
  BY <1>2, Constants, ShapeSend, ShapeWalker DEF WalkerThreadStep
<1>3. CASE MainStep
  BY <1>3, ShapeMain
<1>4. CASE Expire
  BY <1>4 DEF Expire, Shape, TypeOK, Places, walkVars
<1>5. CASE UNCHANGED vars
  BY <1>5 DEF Shape, TypeOK, Places, vars, walkVars, scanVars
<1>6. QED
  BY <1>1, <1>2, <1>3, <1>4, <1>5 DEF Next, Finished

-----------------------------------------------------------------------------
\* An outbox in which Abort follows the error that explains it.
Ordered(q) == \A k \in 1..Len(q) : q[k] = Abort => \E j \in 1..(k - 1) : Fatal(q[j])

LEMMA ReportElements ==
  ASSUME NEW e \in ErrorKinds, NEW i \in {0} \cup DOMAIN Entries
  PROVE  /\ e \in FatalErrors => /\ Len(Report(e, i)) = 2
                                 /\ Report(e, i)[1] = Error(e, i) /\ Report(e, i)[2] = Abort
         /\ e \notin FatalErrors => Len(Report(e, i)) = 1 /\ Report(e, i)[1] = Error(e, i)
         /\ Fatal(Error(e, i)) <=> e \in FatalErrors
         /\ Error(e, i) # Abort
<1>1. Error(e, i).kind = e /\ Abort.kind = "abort" /\ e # "abort"
  BY DEF Error, Abort, ErrorKinds
<1>2. QED
  BY <1>1 DEF Report, Fatal

LEMMA ReportOrdered ==
  ASSUME NEW e \in ErrorKinds, NEW i \in {0} \cup DOMAIN Entries
  PROVE  Ordered(Report(e, i)) /\ Ordered(Report(e, i) \o Report(e, i))
<1> DEFINE r == Report(e, i)
<1>1. r \in Seq(Messages)
  BY MessagesTyped
<1>2. Len(r) \in {1, 2} /\ r[1] # Abort /\ (Len(r) = 2 => Fatal(r[1]))
  BY ReportElements
<1> HIDE DEF r
<1>3. Ordered(r)
  BY <1>2 DEF Ordered
<1>4. /\ Len(r \o r) = Len(r) + Len(r)
      /\ \A k \in 1..(Len(r) + Len(r)) : (r \o r)[k] = IF k <= Len(r) THEN r[k] ELSE r[k - Len(r)]
  BY <1>1, ConcatProperties
<1>5. Ordered(r \o r)
  BY <1>2, <1>4 DEF Ordered
<1>6. QED
  BY <1>3, <1>5 DEF r

LEMMA LinesOrdered ==
  ASSUME NEW i \in Files, format \in Formats
  PROVE  \A k \in 1..Len(Lines(i)) : ~Fatal(Lines(i)[k]) /\ Lines(i)[k] # Abort
<1>1. \A n : Info(i, n).kind = "info" /\ Abort.kind = "abort" /\ "info" \notin FatalErrors
  BY ParWalkerAssumption DEF Info, Abort, ErrorKinds
<1>2. Entries[i].rules \in Nat
  BY ScanCommandAssumption DEF Files
<1>3. \A k \in 1..Len(Lines(i)) : \E n : Lines(i)[k] = Info(i, n)
  <2>1. \A k \in 1..Len(TextLines(i)) : \E n : TextLines(i)[k] = Info(i, n)
    <3>1. CASE format.count_only
      BY <3>1 DEF TextLines
    <3>2. CASE ~format.count_only
      BY <1>2, <3>2 DEF TextLines
    <3>3. QED
      BY <3>1, <3>2
  <2>2. \A k \in 1..Len(NdjsonLines(i)) : \E n : NdjsonLines(i)[k] = Info(i, n)
    BY DEF NdjsonLines
  <2>3. format.output \in {"text", "ndjson", "json"}
    BY ScanCommandAssumption
  <2>4. QED
    BY <2>1, <2>2, <2>3 DEF Lines
<1>4. QED
  BY <1>1, <1>3 DEF Fatal

\* What every step of a thread has in common that does not send: it had
\* nothing left to send, and has q to send afterwards.
Produces(t, q) ==
  /\ outbox[t] = <<>> /\ pc[t] \notin Gone
  /\ outbox' = [outbox EXCEPT ![t] = q]
  /\ \A u \in Threads : u # t => pc'[u] = pc[u]
  /\ pc'[t] # "panicked"
  /\ UNCHANGED <<msgs, main, joined, printed>>

LEMMA WalkerProduces ==
  ASSUME Shape, WalkerStep
  PROVE  \E q \in Seq(Messages) : Produces(WalkerThread, q) /\ Ordered(q)
<1> USE Constants DEF Shape, TypeOK, Produces, Ready, Gone
<1>0. <<>> \in Seq(Messages) /\ Ordered(<<>>) /\ (outbox[WalkerThread] = <<>> => outbox = [outbox EXCEPT ![WalkerThread] = <<>>])
  BY DEF Ordered
<1>1. ASSUME next <= Len(Entries), NEW e \in ErrorKinds
      PROVE  /\ Report(e, next) \in Seq(Messages) /\ Ordered(Report(e, next))
             /\ Report(e, next) \o Report(e, next) \in Seq(Messages)
             /\ Ordered(Report(e, next) \o Report(e, next))
  <2>1. next \in {0} \cup DOMAIN Entries
    BY <1>1, ParWalkerAssumption
  <2>2. QED
    BY <1>1, <2>1, MessagesTyped, ReportOrdered, ConcatProperties
<1>2. CASE WalkFile
  BY <1>0, <1>2 DEF WalkFile
<1>3. CASE WalkFiltered
  BY <1>0, <1>3 DEF WalkFiltered
<1>4. CASE WalkUnreadable
  <2>1. Produces(WalkerThread, Report("walk", next))
        \/ Produces(WalkerThread, Report("walk", next) \o Report("walk", next))
    BY <1>4 DEF WalkUnreadable
  <2>2. next <= Len(Entries) /\ "walk" \in ErrorKinds
    BY <1>4 DEF WalkUnreadable, ErrorKinds
  <2>3. QED
    BY <2>1, <2>2, <1>1
<1>5. CASE WalkBroken
  <2>1. Produces(WalkerThread, Report("walk", next))
    BY <1>5 DEF WalkBroken
  <2>2. next <= Len(Entries) /\ "walk" \in ErrorKinds
    BY <1>5 DEF WalkBroken, ErrorKinds
  <2>3. QED
    BY <2>1, <2>2, <1>1
<1>6. CASE WalkSendError
  <2>1. Produces(WalkerThread, Report("send", next))
    BY <1>6 DEF WalkSendError
  <2>2. next <= Len(Entries) /\ "send" \in ErrorKinds
    BY <1>6 DEF WalkSendError, ErrorKinds
  <2>3. QED
    BY <2>1, <2>2, <1>1
<1>7. CASE WalkEnds
  BY <1>0, <1>7 DEF WalkEnds
<1>8. QED
  BY <1>2, <1>3, <1>4, <1>5, <1>6, <1>7 DEF WalkerStep

LEMMA WorkerProduces ==
  ASSUME Shape, NEW w \in Workers, Take(w) \/ NoMorePaths(w) \/ AfterError(w) \/ Handle(w)
  PROVE  \E q \in Seq(Messages) : Produces(w, q) /\ Ordered(q)
<1> USE Constants DEF Shape, TypeOK, Ready, Gone
<1>0. <<>> \in Seq(Messages) /\ Ordered(<<>>) /\ (outbox[w] = <<>> => outbox = [outbox EXCEPT ![w] = <<>>])
  BY DEF Ordered
<1>1. CASE Take(w) \/ NoMorePaths(w) \/ AfterError(w) \/ Reported(w)
  BY <1>0, <1>1 DEF Take, NoMorePaths, AfterError, Reported, Produces
<1>2. ASSUME pc[w] \in Working, outbox[w] = <<>>, NEW e \in ErrorKinds, Fail(w, e)
      PROVE  \E q \in Seq(Messages) : Produces(w, q) /\ Ordered(q)
  <2>1. file[w] \in {0} \cup DOMAIN Entries
    OBVIOUS
  <2>2. Report(e, file[w]) \in Seq(Messages) /\ Ordered(Report(e, file[w]))
    BY <2>1, <1>2, MessagesTyped, ReportOrdered
  <2>3. Produces(w, Report(e, file[w]))
    BY <1>2 DEF Fail, Produces, Working
  <2>4. QED
    BY <2>2, <2>3
<1>3. CASE TimeIsOver(w) \/ ScanFails(w) \/ ScanTimesOut(w)
  BY <1>2, <1>3 DEF TimeIsOver, ScanFails, ScanTimesOut, Working, ErrorKinds
<1>4. CASE StartScan(w)
  <2> DEFINE q == IF Entries[file[w]].logs THEN <<Info(file[w], 0)>> ELSE <<>>
  <2>1. Info(file[w], 0) \in Messages /\ Info(file[w], 0) # Abort
    BY MessagesTyped DEF Info, Abort
  <2>2. q \in Seq(Messages) /\ Ordered(q)
    BY <2>1 DEF Ordered
  <2> HIDE DEF q
  <2>3. Produces(w, q)
    BY <1>4 DEF StartScan, Produces, q
  <2>4. QED
    BY <2>2, <2>3
<1>5. CASE ScanSucceeds(w)
  <2>1. file[w] \in Files
    BY <1>5 DEF ScanSucceeds, Places, Working
  <2>2. Lines(file[w]) \in Seq(Messages) /\ Ordered(Lines(file[w]))
    BY <2>1, LinesTyped, LinesOrdered DEF Ordered
  <2>3. Produces(w, Lines(file[w]))
    BY <1>5 DEF ScanSucceeds, Produces
  <2>4. QED
    BY <2>2, <2>3
<1>6. QED
  BY <1>1, <1>3, <1>4, <1>5 DEF Handle

LEMMA ExplainedInit == Init => Explained
<1>1. \A t \in Threads : Init => outbox[t] = <<>>
  BY DEF Init, WalkInit
<1>2. Init => main = "print" /\ msgs = <<>> /\ \A t \in Threads : pc[t] # "panicked"
  BY DEF Init, WalkInit
<1>3. QED
  BY <1>1, <1>2 DEF Explained, AbortIsExplained, PanicsOnlyAfterAbort

\* Threads that still run when the printer has gone can read why on the
\* console.
LEMMA GoneMeansPrinted ==
  ASSUME Shape, Explained, NEW t \in Threads, pc[t] \notin Gone, main # "print"
  PROVE  FatalPrinted
BY DEF Explained, AbortIsExplained, Gone

LEMMA ExplainedProduces ==
  ASSUME Shape, Explained, NEW t \in Threads, NEW q \in Seq(Messages), Produces(t, q), Ordered(q)
  PROVE  Explained'
<1>1. FatalPrinted' = FatalPrinted /\ msgs' = msgs /\ main' = main
  BY DEF Produces, FatalPrinted
<1>2. \A u \in Threads : outbox'[u] = IF u = t THEN q ELSE outbox[u]
  BY DEF Produces, Shape, TypeOK
<1>3. main # "print" => FatalPrinted
  BY GoneMeansPrinted DEF Produces
<1>4. AbortIsExplained'
  BY <1>1, <1>3 DEF AbortIsExplained
<1>5. PanicsOnlyAfterAbort'
  BY <1>1 DEF PanicsOnlyAfterAbort, Explained, Produces
<1>6. \A u \in Threads : \A k \in 1..Len(outbox'[u]) : outbox'[u][k] = Abort =>
        \/ \E j \in 1..(k - 1) : Fatal(outbox'[u][j])
        \/ \E j \in 1..Len(msgs) : Fatal(msgs[j])
        \/ FatalPrinted
  BY <1>2 DEF Explained, Ordered
<1>7. QED
  BY <1>1, <1>4, <1>5, <1>6 DEF Explained

LEMMA ExplainedSend ==
  ASSUME Shape, Explained, NEW t \in Threads, Send(t)
  PROVE  Explained'
<1> DEFINE x == Head(outbox[t])
<1>1. /\ outbox[t] \in Seq(Messages) /\ outbox[t] # <<>> /\ msgs \in Seq(Messages)
      /\ outbox \in [Threads -> Seq(Messages)] /\ pc[t] \notin Gone
  BY DEF Shape, TypeOK, Places, Send
<1>2. /\ x = outbox[t][1] /\ Len(outbox[t]) \in Nat /\ Len(outbox[t]) >= 1
      /\ Len(Tail(outbox[t])) = Len(outbox[t]) - 1
      /\ \A k \in 1..(Len(outbox[t]) - 1) : Tail(outbox[t])[k] = outbox[t][k + 1]
  BY <1>1, HeadTailProperties, LenProperties
<1>3. FatalPrinted' = FatalPrinted /\ main' = main
  BY DEF Send, FatalPrinted
<1>4. CASE main # "print"
  <2>1. FatalPrinted /\ FatalPrinted'
    BY <1>1, <1>3, <1>4, GoneMeansPrinted
  <2>2. QED
    BY <2>1 DEF Explained, AbortIsExplained, PanicsOnlyAfterAbort
<1>5. CASE main = "print"
  <2>1. msgs' = Append(msgs, x) /\ outbox' = [outbox EXCEPT ![t] = Tail(@)] /\ pc' = pc
    BY <1>5 DEF Send, MsgsReceived
  <2> DEFINE n == Len(msgs)
  <2>2. n \in Nat /\ Len(msgs') = n + 1 /\ msgs'[n + 1] = x /\ \A k \in 1..n : msgs'[k] = msgs[k]
    BY <1>1, <2>1, AppendProperties, LenProperties
  <2>3. \A u \in Threads : outbox'[u] = IF u = t THEN Tail(outbox[t]) ELSE outbox[u]
    BY <1>1, <2>1
  <2> HIDE DEF x, n
  <2>4. AbortIsExplained' /\ PanicsOnlyAfterAbort'
    BY <1>3, <1>5, <2>1 DEF Explained, AbortIsExplained, PanicsOnlyAfterAbort
  <2>5. ASSUME NEW k \in 1..n, msgs[k] = Abort
        PROVE  FatalPrinted \/ \E j \in 1..(k - 1) : Fatal(msgs'[j])
    <3>1. FatalPrinted \/ \E j \in 1..(k - 1) : Fatal(msgs[j])
      BY <2>5 DEF Explained, n
    <3>2. \A j \in 1..(k - 1) : msgs'[j] = msgs[j]
      BY <2>2
    <3>3. QED
      BY <3>1, <3>2
  <2>6. ASSUME x = Abort
        PROVE  FatalPrinted \/ \E j \in 1..n : Fatal(msgs'[j])
    <3>1. 1 \in 1..Len(outbox[t]) /\ outbox[t][1] = Abort
      BY <1>2, <2>6
    <3>2. \/ \E j \in 1..(1 - 1) : Fatal(outbox[t][j])
          \/ \E j \in 1..Len(msgs) : Fatal(msgs[j])
          \/ FatalPrinted
      BY <3>1 DEF Explained
    <3>3. QED
      BY <3>2, <2>2 DEF n
  <2>7. \A k \in 1..Len(msgs') : msgs'[k] = Abort =>
          FatalPrinted \/ \E j \in 1..(k - 1) : Fatal(msgs'[j])
    <3>1. SUFFICES ASSUME NEW k \in 1..(n + 1), msgs'[k] = Abort
                   PROVE  FatalPrinted \/ \E j \in 1..(k - 1) : Fatal(msgs'[j])
      BY <2>2
    <3>2. CASE k = n + 1
      BY <3>1, <3>2, <2>2, <2>6
    <3>3. CASE k \in 1..n
      BY <3>1, <3>3, <2>2, <2>5
    <3>4. QED
      BY <3>2, <3>3, <2>2
  <2>8. (\E j \in 1..n : Fatal(msgs[j])) \/ Fatal(x) <=> \E j \in 1..Len(msgs') : Fatal(msgs'[j])
    BY <2>2
  <2>9. ASSUME NEW u \in Threads, NEW k \in 1..Len(outbox'[u]), outbox'[u][k] = Abort
        PROVE  \/ \E j \in 1..(k - 1) : Fatal(outbox'[u][j])
               \/ \E j \in 1..Len(msgs') : Fatal(msgs'[j])
               \/ FatalPrinted
    <3>1. CASE u # t
      <4>1. outbox'[u] = outbox[u]
        BY <2>3, <3>1
      <4>2. \/ \E j \in 1..(k - 1) : Fatal(outbox[u][j])
            \/ \E j \in 1..n : Fatal(msgs[j])
            \/ FatalPrinted
        BY <2>9, <4>1 DEF Explained, n
      <4>3. QED
        BY <4>1, <4>2, <2>8
    <3>2. CASE u = t
      <4>1. /\ k \in 1..(Len(outbox[t]) - 1) /\ k + 1 \in 1..Len(outbox[t])
            /\ outbox[t][k + 1] = Abort
        <5>1. outbox'[u] = Tail(outbox[t])
          BY <2>3, <3>2
        <5>2. k \in 1..(Len(outbox[t]) - 1) /\ Tail(outbox[t])[k] = Abort
          BY <5>1, <2>9, <1>2
        <5>3. QED
          BY <5>2, <1>2
      <4>2. \/ \E j \in 1..k : Fatal(outbox[t][j])
            \/ \E j \in 1..n : Fatal(msgs[j])
            \/ FatalPrinted
        <5>1. (k + 1) - 1 = k
          BY <4>1, <1>2
        <5>2. QED
          BY <4>1, <5>1 DEF Explained, n
      <4>3. ASSUME NEW j \in 1..k, Fatal(outbox[t][j])
            PROVE  Fatal(x) \/ \E i \in 1..(k - 1) : Fatal(outbox'[u][i])
        <5>1. CASE j = 1
          BY <4>3, <5>1, <1>2
        <5>2. CASE j # 1
          <6>1. j - 1 \in 1..(k - 1) /\ j - 1 \in 1..(Len(outbox[t]) - 1) /\ (j - 1) + 1 = j
            BY <5>2, <4>1, <1>2
          <6>2. outbox'[u][j - 1] = outbox[t][j]
            BY <6>1, <1>2, <2>3, <3>2
          <6>3. QED
            BY <6>1, <6>2, <4>3
        <5>3. QED
          BY <5>1, <5>2
      <4>4. QED
        BY <4>2, <4>3, <2>8
    <3>3. QED
      BY <3>1, <3>2
  <2>10. QED
    BY <2>4, <2>7, <2>9, <1>3 DEF Explained
<1>6. QED
  BY <1>4, <1>5

LEMMA ExplainedMain ==
  ASSUME Shape, Explained, MainStep
  PROVE  Explained'
<1>0. msgs \in Seq(Messages) /\ Len(msgs) \in Nat /\ IsABag(printed)
  BY LenProperties DEF Shape, TypeOK
<1>1. CASE Display
  <2> DEFINE x == Head(msgs)
  <2>1. /\ msgs # <<>> /\ x = msgs[1] /\ Len(msgs) >= 1 /\ Len(Tail(msgs)) = Len(msgs) - 1
        /\ \A k \in 1..(Len(msgs) - 1) : Tail(msgs)[k] = msgs[k + 1]
    BY <1>0, <1>1, HeadTailProperties DEF Display
  <2>2. /\ x # Abort /\ msgs' = Tail(msgs) /\ printed' = BagAdd(printed, x)
        /\ main = "print" /\ main' = main /\ UNCHANGED <<pc, outbox>>
    BY <1>1 DEF Display
  <2>3. BagToSet(printed') = BagToSet(printed) \cup {x}
    BY <2>2, <1>0, BagAddTyped
  <2> HIDE DEF x
  <2>4. FatalPrinted' <=> FatalPrinted \/ Fatal(x)
    BY <2>3 DEF FatalPrinted, Fatal
  <2>5. ASSUME NEW k \in 1..Len(msgs), NEW j \in 1..k, Fatal(msgs[j])
        PROVE  FatalPrinted' \/ \E i \in 1..(k - 1) : Fatal(msgs'[i])
    <3>1. CASE j = 1
      BY <2>5, <3>1, <2>1, <2>4
    <3>2. CASE j # 1
      <4>1. j - 1 \in 1..(k - 1) /\ j - 1 \in 1..(Len(msgs) - 1) /\ (j - 1) + 1 = j
        BY <3>2, <1>0
      <4>2. msgs'[j - 1] = msgs[j]
        BY <4>1, <2>1, <2>2
      <4>3. QED
        BY <4>1, <4>2, <2>5
    <3>3. QED
      BY <3>1, <3>2
  <2>6. ASSUME NEW k \in 1..Len(msgs'), msgs'[k] = Abort
        PROVE  FatalPrinted' \/ \E j \in 1..(k - 1) : Fatal(msgs'[j])
    <3>1. k + 1 \in 1..Len(msgs) /\ msgs[k + 1] = Abort /\ (k + 1) - 1 = k /\ k \in 1..Len(msgs)
      BY <2>6, <2>1, <2>2, <1>0
    <3>2. FatalPrinted \/ \E j \in 1..k : Fatal(msgs[j])
      BY <3>1 DEF Explained
    <3>3. QED
      BY <3>1, <3>2, <2>4, <2>5
  <2>7. ASSUME NEW j \in 1..Len(msgs), Fatal(msgs[j])
        PROVE  FatalPrinted' \/ \E i \in 1..Len(msgs') : Fatal(msgs'[i])
    BY <2>5, <2>7, <2>1, <2>2, <1>0
  <2>8. AbortIsExplained' /\ PanicsOnlyAfterAbort'
    BY <2>2, <2>4 DEF Explained, AbortIsExplained, PanicsOnlyAfterAbort
  <2>9. QED
    BY <2>2, <2>4, <2>6, <2>7, <2>8 DEF Explained
<1>2. CASE AbortReceived
  <2>1. msgs # <<>> /\ msgs[1] = Abort /\ Len(msgs) >= 1
    BY <1>0, <1>2, HeadTailProperties DEF AbortReceived
  <2>2. FatalPrinted
    BY <2>1, <1>0 DEF Explained
  <2>3. FatalPrinted' /\ msgs' = <<>>
    BY <1>2, <2>2 DEF AbortReceived, FatalPrinted
  <2>4. QED
    BY <2>3 DEF Explained, AbortIsExplained, PanicsOnlyAfterAbort
<1>3. CASE Disconnected
  <2>1. FatalPrinted' = FatalPrinted
    BY <1>3 DEF Disconnected, FatalPrinted
  <2>2. FatalPrinted \/ \A t \in Threads : pc[t] = "ended"
    BY <1>3 DEF Disconnected, MsgsSent, Gone, Explained, PanicsOnlyAfterAbort
  <2>3. QED
    BY <1>3, <2>1, <2>2 DEF Disconnected, Explained, AbortIsExplained, PanicsOnlyAfterAbort
<1>4. CASE JoinThread
  BY <1>4 DEF JoinThread, Explained, AbortIsExplained, PanicsOnlyAfterAbort, FatalPrinted
<1>5. CASE JoinPanicked
  <2>1. joined + 1 \in Threads
    BY <1>5, ParWalkerAssumption DEF JoinPanicked, Shape, TypeOK, Threads, WalkerThread
  <2>2. FatalPrinted
    BY <1>5, <2>1 DEF JoinPanicked, Explained, PanicsOnlyAfterAbort
  <2>3. FatalPrinted'
    BY <1>5, <2>2 DEF JoinPanicked, FatalPrinted
  <2>4. QED
    BY <1>5, <2>3 DEF JoinPanicked, Explained, AbortIsExplained, PanicsOnlyAfterAbort
<1>6. CASE Unwound
  <2>1. FatalPrinted /\ FatalPrinted'
    BY <1>6 DEF Unwound, Explained, PanicsOnlyAfterAbort, FatalPrinted
  <2>2. QED
    BY <1>6, <2>1 DEF Unwound, Explained, AbortIsExplained, PanicsOnlyAfterAbort
<1>7. CASE Done
  <2>1. BagToSet(printed) \subseteq BagToSet(printed') /\ msgs = <<>> /\ msgs' = <<>>
    BY <1>7, <1>0, BagSumTyped DEF Done, WalkDone, Shape, Places
  <2>2. FatalPrinted => FatalPrinted'
    BY <2>1 DEF FatalPrinted
  <2>3. main = "join" /\ main' = "done" /\ UNCHANGED <<pc, outbox>>
    BY <1>7 DEF Done, WalkDone
  <2>4. AbortIsExplained' /\ PanicsOnlyAfterAbort'
    BY <2>2, <2>3 DEF Explained, AbortIsExplained, PanicsOnlyAfterAbort
  <2>5. QED
    BY <2>1, <2>2, <2>3, <2>4 DEF Explained
<1>8. QED
  BY <1>1, <1>2, <1>3, <1>4, <1>5, <1>6, <1>7 DEF MainStep

LEMMA ExplainedNext == Shape /\ Explained /\ [Next]_vars => Explained'
<1> SUFFICES ASSUME Shape, Explained, [Next]_vars PROVE Explained'
  OBVIOUS
<1>1. ASSUME NEW w \in Workers, WorkerStep(w) PROVE Explained'
  <2>1. CASE Send(w)
    BY <2>1, Constants, ExplainedSend
  <2>2. CASE Take(w) \/ NoMorePaths(w) \/ AfterError(w) \/ Handle(w)
    BY <2>2, Constants, WorkerProduces, ExplainedProduces
  <2>3. QED
    BY <1>1, <2>1, <2>2 DEF WorkerStep
<1>2. CASE WalkerThreadStep
  BY <1>2, Constants, ExplainedSend, WalkerProduces, ExplainedProduces DEF WalkerThreadStep
<1>3. CASE MainStep
  BY <1>3, ExplainedMain
<1>4. CASE UNCHANGED walkVars
  BY <1>4 DEF walkVars, Explained, AbortIsExplained, PanicsOnlyAfterAbort, FatalPrinted
<1>5. QED
  BY <1>1, <1>2, <1>3, <1>4 DEF Next, Finished, Expire, vars

\* Any number of workers, any channel, any entries: when the printer has left
\* while threads still run, the error that aborts the walk is on the console.
THEOREM AbortIsAlwaysExplained == Spec => []AbortIsExplained
<1>1. Explained => AbortIsExplained
  BY DEF Explained
<1>2. QED
  BY ShapeInit, ShapeNext, ExplainedInit, ExplainedNext, <1>1, PTL DEF Spec

\* The unwrap of a failed send panics, and the main thread with it, only after
\* an error that aborts the walk was printed.
THEOREM PanicsAreExplained == Spec => []PanicsOnlyAfterAbort
<1>1. Explained => PanicsOnlyAfterAbort
  BY DEF Explained
<1>2. QED
  BY ShapeInit, ShapeNext, ExplainedInit, ExplainedNext, <1>1, PTL DEF Spec

-----------------------------------------------------------------------------
LEMMA ProgressInit == Init => ProgressIsTrue
BY DEF Init, ProgressIsTrue

LEMMA ProgressNext == Shape /\ ProgressIsTrue /\ [Next]_vars => ProgressIsTrue'
<1> SUFFICES ASSUME Shape, ProgressIsTrue, [Next]_vars PROVE ProgressIsTrue'
  OBVIOUS
<1>0. \A e \in files_in_progress : e[2] \in Workers
  BY DEF Shape, TypeOK
<1>1. /\ pc \in [Threads -> {"walk", "stop", "recv", "handle", "scan", "report", "failed"} \cup Gone]
      /\ file \in [Workers -> {0} \cup DOMAIN Entries]
      /\ \A t \in Threads : pc[t] \in Gone => outbox[t] = <<>>
  BY DEF Shape, TypeOK, Places
<1> USE Constants DEF ProgressIsTrue, Ready
<1>2. ASSUME NEW t \in Threads, Send(t), UNCHANGED scanVars PROVE ProgressIsTrue'
  <2>1. /\ file' = file /\ files_in_progress' = files_in_progress
        /\ \A u \in Threads : pc[u] = "scan" => pc'[u] \in {"scan", "panicked"}
        /\ \A u \in Threads : pc[u] = "panicked" => pc'[u] = "panicked"
    BY <1>1, <1>2 DEF Send, scanVars, Unwraps, Gone
  <2>2. SUFFICES ASSUME NEW e \in files_in_progress
                 PROVE  file[e[2]] # 0 /\ PathOf(file[e[2]]) = e[1] /\ pc'[e[2]] \in {"scan", "panicked"}
    BY <2>1 DEF PathOf
  <2>3. e[2] \in Threads
    BY <1>0
  <2>4. file[e[2]] # 0 /\ PathOf(file[e[2]]) = e[1] /\ pc[e[2]] \in {"scan", "panicked"}
    BY <2>2
  <2>5. ASSUME NEW u \in Threads, pc[u] \in {"scan", "panicked"} PROVE pc'[u] \in {"scan", "panicked"}
    BY <2>1, <2>5
  <2>6. QED
    BY <2>3, <2>4, <2>5
<1>3. ASSUME WalkerStep, UNCHANGED scanVars PROVE ProgressIsTrue'
  <2>1. file' = file /\ files_in_progress' = files_in_progress /\ \A w \in Workers : pc'[w] = pc[w]
    BY <1>1, <1>3 DEF WalkerStep, WalkFile, WalkFiltered, WalkUnreadable, WalkBroken, WalkSendError,
                      WalkEnds, scanVars
  <2>2. QED
    BY <2>1, <1>0
<1>4. ASSUME NEW w \in Workers, pc[w] \notin {"scan", "panicked"}, files_in_progress' = files_in_progress,
             \A v \in Workers : v # w => pc'[v] = pc[v] /\ file'[v] = file[v]
      PROVE  ProgressIsTrue'
  BY <1>0, <1>4
<1>5. ASSUME NEW w \in Workers, pc[w] = "scan", files_in_progress' = Retain(w),
             \A v \in Workers : v # w => pc'[v] = pc[v] /\ file'[v] = file[v]
      PROVE  ProgressIsTrue'
  BY <1>0, <1>5 DEF Retain
<1>6. ASSUME NEW w \in Workers, Take(w) \/ NoMorePaths(w) \/ AfterError(w), UNCHANGED scanVars
      PROVE  ProgressIsTrue'
  BY <1>1, <1>4, <1>6 DEF Take, NoMorePaths, AfterError, scanVars
<1>7. ASSUME NEW w \in Workers, Handle(w) PROVE ProgressIsTrue'
  <2>1. CASE TimeIsOver(w) \/ Reported(w)
    BY <1>1, <1>4, <2>1 DEF TimeIsOver, Reported, Fail, scanVars
  <2>2. CASE ScanFails(w) \/ ScanTimesOut(w) \/ ScanSucceeds(w)
    BY <1>1, <1>5, <2>2 DEF ScanFails, ScanTimesOut, ScanSucceeds, Fail
  <2>3. CASE StartScan(w)
    <3>1. file[w] \in Files /\ file[w] # 0
      <4>1. pc[w] \in Working
        BY <2>3 DEF StartScan, Working
      <4>2. file[w] \in Files
        BY <4>1 DEF Shape, Places
      <4>3. 0 \notin Files
        BY ParWalkerAssumption DEF Files
      <4> QED
        BY <4>2, <4>3
    <3>2. /\ files_in_progress' = files_in_progress \cup {<<PathOf(file[w]), w>>} /\ file' = file
          /\ pc'[w] = "scan" /\ \A v \in Workers : v # w => pc'[v] = pc[v]
      BY <1>1, <2>3 DEF StartScan
    <3>3. \A e \in files_in_progress : e[2] # w
      BY <2>3 DEF StartScan
    <3>4. SUFFICES ASSUME NEW e \in files_in_progress'
                   PROVE  file[e[2]] # 0 /\ PathOf(file[e[2]]) = e[1] /\ pc'[e[2]] \in {"scan", "panicked"}
      BY <3>2 DEF PathOf
    <3>5. CASE e \in files_in_progress
      BY <1>0, <3>2, <3>3, <3>5
    <3>6. CASE e = <<PathOf(file[w]), w>>
      BY <3>1, <3>2, <3>6
    <3>7. QED
      BY <3>2, <3>4, <3>5, <3>6
  <2>4. QED
    BY <1>7, <2>1, <2>2, <2>3 DEF Handle
<1>8. CASE MainStep
  BY <1>8 DEF MainStep, Display, AbortReceived, Disconnected, JoinThread, JoinPanicked, Unwound,
              Done, WalkDone, scanVars
<1>9. CASE Expire \/ UNCHANGED vars
  BY <1>9 DEF Expire, vars, walkVars, scanVars
<1>10. QED
  BY <1>2, <1>3, <1>6, <1>7, <1>8, <1>9
     DEF Next, WorkerStep, WalkerThreadStep, Finished

-----------------------------------------------------------------------------
\* A message about a fatal error does not get lost before it is printed.
LEMMA FatalSeenStable ==
  ASSUME Shape, Explained, [Next]_vars, FatalSeen
  PROVE  FatalSeen'
<1>0. /\ msgs \in Seq(Messages) /\ outbox \in [Threads -> Seq(Messages)] /\ IsABag(printed)
      /\ Len(msgs) \in Nat
  BY LenProperties DEF Shape, TypeOK
<1>1. ASSUME NEW t \in Threads, Send(t) PROVE FatalSeen'
  <2>1. outbox[t] \in Seq(Messages) /\ outbox[t] # <<>> /\ pc[t] \notin Gone
    BY <1>1 DEF Shape, TypeOK, Places, Send
  <2>2. FatalPrinted' = FatalPrinted
    BY <1>1 DEF Send, FatalPrinted
  <2>3. CASE main # "print"
    BY <2>1, <2>2, <2>3, GoneMeansPrinted DEF FatalSeen
  <2>4. CASE main = "print"
    <3> DEFINE x == Head(outbox[t])
    <3>1. msgs' = Append(msgs, x) /\ outbox' = [outbox EXCEPT ![t] = Tail(@)]
      BY <1>1, <2>4 DEF Send, MsgsReceived
    <3>2. /\ x = outbox[t][1] /\ Len(outbox[t]) \in Nat /\ Len(Tail(outbox[t])) = Len(outbox[t]) - 1
          /\ \A k \in 1..(Len(outbox[t]) - 1) : Tail(outbox[t])[k] = outbox[t][k + 1]
      BY <2>1, HeadTailProperties, LenProperties
    <3>3. Len(msgs') = Len(msgs) + 1 /\ msgs'[Len(msgs) + 1] = x /\ \A k \in 1..Len(msgs) : msgs'[k] = msgs[k]
      BY <1>0, <3>1, AppendProperties
    <3>4. \A u \in Threads : outbox'[u] = IF u = t THEN Tail(outbox[t]) ELSE outbox[u]
      BY <1>0, <3>1
    <3> HIDE DEF x
    <3>5. ASSUME NEW u \in Threads, NEW k \in 1..Len(outbox[u]), Fatal(outbox[u][k])
          PROVE  FatalSeen'
      <4>1. CASE u # t
        BY <3>4, <3>5, <4>1 DEF FatalSeen
      <4>2. CASE u = t /\ k = 1
        <5>1. Fatal(msgs'[Len(msgs) + 1]) /\ Len(msgs) + 1 \in 1..Len(msgs')
          BY <1>0, <3>2, <3>3, <3>5, <4>2
        <5>2. QED
          BY <5>1 DEF FatalSeen
      <4>3. CASE u = t /\ k # 1
        <5>1. k - 1 \in 1..(Len(outbox[t]) - 1) /\ (k - 1) + 1 = k
          BY <3>2, <4>3
        <5>2. outbox'[t] = Tail(outbox[t]) /\ Tail(outbox[t])[k - 1] = outbox[t][k]
          BY <5>1, <3>2, <3>4
        <5>3. Fatal(outbox'[t][k - 1]) /\ k - 1 \in 1..Len(outbox'[t])
          BY <5>1, <5>2, <3>2, <3>5, <4>3
        <5>4. QED
          BY <5>3 DEF FatalSeen
      <4>4. QED
        BY <4>1, <4>2, <4>3
    <3>6. (\E k \in 1..Len(msgs) : Fatal(msgs[k])) => FatalSeen'
      BY <1>0, <3>3 DEF FatalSeen
    <3>7. QED
      BY <2>2, <3>5, <3>6 DEF FatalSeen
  <2>5. QED
    BY <2>3, <2>4
<1>2. ASSUME NEW t \in Threads, NEW q \in Seq(Messages), Produces(t, q) PROVE FatalSeen'
  <2>1. FatalPrinted' = FatalPrinted /\ msgs' = msgs /\ outbox[t] = <<>>
        /\ \A u \in Threads : u # t => outbox'[u] = outbox[u]
    BY <1>0, <1>2 DEF Produces, FatalPrinted
  <2>2. QED
    BY <2>1 DEF FatalSeen
<1>3. CASE Display
  <2> DEFINE x == Head(msgs)
  <2>1. /\ x = msgs[1] /\ Len(Tail(msgs)) = Len(msgs) - 1
        /\ \A k \in 1..(Len(msgs) - 1) : Tail(msgs)[k] = msgs[k + 1]
    BY <1>0, <1>3, HeadTailProperties DEF Display
  <2>2. msgs' = Tail(msgs) /\ printed' = BagAdd(printed, x) /\ UNCHANGED outbox
    BY <1>3 DEF Display
  <2>3. BagToSet(printed') = BagToSet(printed) \cup {x}
    BY <2>2, <1>0, BagAddTyped
  <2> HIDE DEF x
  <2>4. FatalPrinted' <=> FatalPrinted \/ Fatal(x)
    BY <2>3 DEF FatalPrinted, Fatal
  <2>5. ASSUME NEW k \in 1..Len(msgs), Fatal(msgs[k]) PROVE FatalSeen'
    <3>1. CASE k = 1
      BY <2>1, <2>4, <2>5, <3>1 DEF FatalSeen
    <3>2. CASE k # 1
      <4>1. k - 1 \in 1..(Len(msgs) - 1) /\ (k - 1) + 1 = k
        BY <1>0, <3>2
      <4>2. k - 1 \in 1..Len(msgs') /\ msgs'[k - 1] = msgs[k]
        BY <4>1, <2>1, <2>2
      <4>3. QED
        BY <4>2, <2>5 DEF FatalSeen
    <3>3. QED
      BY <3>1, <3>2
  <2>6. QED
    BY <2>2, <2>4, <2>5 DEF FatalSeen
<1>4. CASE AbortReceived
  <2>1. msgs # <<>> /\ msgs[1] = Abort /\ Len(msgs) >= 1
    BY <1>0, <1>4, HeadTailProperties DEF AbortReceived
  <2>2. FatalPrinted
    BY <2>1, <1>0 DEF Explained
  <2>3. QED
    BY <1>4, <2>2 DEF AbortReceived, FatalPrinted, FatalSeen
<1>5. CASE Done
  <2>1. BagToSet(printed) \subseteq BagToSet(printed') /\ UNCHANGED <<msgs, outbox>>
    BY <1>5, <1>0, BagSumTyped DEF Done, WalkDone
  <2>2. QED
    BY <2>1 DEF FatalSeen, FatalPrinted
<1>6. CASE UNCHANGED <<msgs, outbox, printed>>
  BY <1>6 DEF FatalSeen, FatalPrinted
<1>7. ASSUME NEW w \in Workers, WorkerStep(w) PROVE FatalSeen'
  <2>1. CASE Send(w)
    BY <2>1, <1>1, Constants
  <2>2. CASE Take(w) \/ NoMorePaths(w) \/ AfterError(w) \/ Handle(w)
    BY <2>2, <1>2, Constants, WorkerProduces
  <2>3. QED
    BY <1>7, <2>1, <2>2 DEF WorkerStep
<1>8. CASE WalkerThreadStep
  BY <1>8, <1>1, <1>2, Constants, WalkerProduces DEF WalkerThreadStep
<1>9. CASE MainStep
  BY <1>9, <1>3, <1>4, <1>5, <1>6 DEF MainStep, Disconnected, JoinThread, JoinPanicked, Unwound
<1>10. QED
  BY <1>6, <1>7, <1>8, <1>9 DEF Next, Finished, Expire, vars, walkVars

-----------------------------------------------------------------------------
LEMMA DistinctInit == Init => Distinct
BY ParWalkerAssumption DEF Init, WalkInit, Distinct

LEMMA DistinctNext == Shape /\ Distinct /\ [Next]_vars => Distinct'
<1> SUFFICES ASSUME Shape, Distinct, [Next]_vars PROVE Distinct'
  OBVIOUS
<1>0. /\ file \in [Workers -> {0} \cup DOMAIN Entries] /\ next \in Nat /\ next >= 1
      /\ paths \in Seq(DOMAIN Entries) /\ Len(paths) \in Nat /\ DOMAIN Entries \subseteq Nat
      /\ \A k \in 1..Len(paths) : paths[k] \in Nat
      /\ \A w \in Workers : file[w] \in Nat
  <2>1. /\ file \in [Workers -> {0} \cup DOMAIN Entries] /\ next \in 1..Len(Entries) + 1
        /\ paths \in Seq(DOMAIN Entries)
    BY DEF Shape, TypeOK
  <2>2. DOMAIN Entries \subseteq Nat /\ Len(Entries) \in Nat
    BY ParWalkerAssumption
  <2>3. Len(paths) \in Nat /\ \A k \in 1..Len(paths) : paths[k] \in DOMAIN Entries
    BY <2>1, LenProperties, ElementOfSeq
  <2>4. QED
    BY <2>1, <2>2, <2>3
<1>1. CASE UNCHANGED <<next, paths, file>>
  BY <1>1 DEF Distinct
<1>2. CASE WalkFile
  <2>1. next' = next + 1 /\ paths' = Append(paths, next) /\ file' = file /\ Entries[next].kind # "broken"
    BY <1>2 DEF WalkFile
  <2>2. /\ Len(paths') = Len(paths) + 1 /\ paths'[Len(paths) + 1] = next
        /\ \A k \in 1..Len(paths) : paths'[k] = paths[k]
    BY <1>0, <2>1, AppendProperties
  <2>3. \A k \in 1..Len(paths') : k = Len(paths) + 1 \/ k \in 1..Len(paths)
    BY <1>0, <2>2
  <2>4. \A j \in 1..(next' - 1) : Entries[j].kind # "broken"
    BY <1>0, <2>1 DEF Distinct
  <2>5. \A k \in 1..Len(paths') : paths'[k] < next'
    BY <1>0, <2>1, <2>2, <2>3 DEF Distinct
  <2>6. \A j, k \in 1..Len(paths') : j # k => paths'[j] # paths'[k]
    <3>1. \A k \in 1..Len(paths) : paths[k] # next
      BY <1>0 DEF Distinct
    <3>2. \A j, k \in 1..Len(paths) : j # k => paths[j] # paths[k]
      BY DEF Distinct
    <3> HIDE DEF Distinct
    <3>3. QED
      BY <2>2, <2>3, <3>1, <3>2
  <2>7. \A w \in Workers : file'[w] < next' /\ \A k \in 1..Len(paths') : paths'[k] # file'[w]
    BY <1>0, <2>1, <2>2, <2>3 DEF Distinct
  <2>8. QED
    BY <2>1, <2>4, <2>5, <2>6, <2>7 DEF Distinct
<1>3. CASE WalkFiltered \/ WalkUnreadable
  <2>1. next' = next + 1 /\ paths' = paths /\ file' = file /\ Entries[next].kind # "broken"
    BY <1>3 DEF WalkFiltered, WalkUnreadable
  <2>2. QED
    BY <1>0, <2>1 DEF Distinct
<1>4. ASSUME NEW w \in Workers, Take(w) PROVE Distinct'
  <2>1. next' = next /\ paths' = Tail(paths) /\ file' = [file EXCEPT ![w] = Head(paths)] /\ paths # <<>>
    BY <1>4 DEF Take
  <2>2. /\ Head(paths) = paths[1] /\ Len(paths') = Len(paths) - 1 /\ Len(paths) >= 1
        /\ \A k \in 1..(Len(paths) - 1) : paths'[k] = paths[k + 1]
    BY <1>0, <2>1, HeadTailProperties
  <2>3. \A v \in Workers : file'[v] = IF v = w THEN paths[1] ELSE file[v]
    BY <1>0, <2>1, <2>2
  <2>4. \A k \in 1..Len(paths') : k + 1 \in 1..Len(paths) /\ paths'[k] = paths[k + 1] /\ k + 1 # 1
    BY <1>0, <2>2
  <2>5. 1 \in 1..Len(paths)
    BY <1>0, <2>2
  <2>6. \A k \in 1..Len(paths') : paths'[k] < next'
    BY <2>1, <2>4 DEF Distinct
  <2>7. \A j, k \in 1..Len(paths') : j # k => paths'[j] # paths'[k]
    <3>1. SUFFICES ASSUME NEW j \in 1..Len(paths'), NEW k \in 1..Len(paths'), j # k
                   PROVE  paths[j + 1] # paths[k + 1]
      BY <2>4
    <3>2. j + 1 # k + 1
      BY <3>1, <1>0, <2>2
    <3>3. QED
      BY <3>2, <2>4 DEF Distinct
  <2>8. \A v \in Workers : file'[v] < next' /\ \A k \in 1..Len(paths') : paths'[k] # file'[v]
    BY <2>1, <2>3, <2>4, <2>5 DEF Distinct
  <2>9. \A u, v \in Workers : u # v /\ file'[u] = file'[v] => file'[v] = 0
    BY <2>3, <2>5 DEF Distinct
  <2>10. QED
    BY <2>1, <2>6, <2>7, <2>8, <2>9 DEF Distinct
<1>5. ASSUME NEW w \in Workers, file' = [file EXCEPT ![w] = 0], UNCHANGED <<next, paths>>
      PROVE  Distinct'
  <2>1. \A v \in Workers : file'[v] = IF v = w THEN 0 ELSE file[v]
    BY <1>0, <1>5
  <2>2. \A k \in 1..Len(paths) : paths[k] # 0
    BY <1>0, ParWalkerAssumption, ElementOfSeq
  <2>3. QED
    BY <1>0, <1>5, <2>1, <2>2 DEF Distinct
<1>6. ASSUME NEW w \in Workers, WorkerStep(w) PROVE Distinct'
  <2>1. CASE Take(w)
    BY <2>1, <1>4
  <2>2. CASE AfterError(w) \/ Reported(w)
    BY <2>2, <1>5 DEF AfterError, Reported
  <2>3. CASE Send(w) \/ NoMorePaths(w) \/ TimeIsOver(w) \/ StartScan(w) \/ ScanFails(w)
             \/ ScanTimesOut(w) \/ ScanSucceeds(w)
    BY <2>3, <1>1 DEF Send, NoMorePaths, TimeIsOver, StartScan, ScanFails, ScanTimesOut, ScanSucceeds, Fail
  <2>4. QED
    BY <1>6, <2>1, <2>2, <2>3 DEF WorkerStep, Handle
<1>7. CASE WalkerThreadStep
  BY <1>7, <1>1, <1>2, <1>3 DEF WalkerThreadStep, WalkerStep, Send, WalkBroken, WalkSendError, WalkEnds
<1>8. CASE MainStep
  BY <1>8, <1>1 DEF MainStep, Display, AbortReceived, Disconnected, JoinThread, JoinPanicked, Unwound,
              Done, WalkDone
<1>9. QED
  BY <1>1, <1>6, <1>7, <1>8 DEF Next, Finished, Expire, vars, walkVars

-----------------------------------------------------------------------------
\* A worker that reports a fatal error makes it known.
LEMMA FatalReported ==
  ASSUME Shape, NEW t \in Threads, NEW e \in FatalErrors, NEW i \in {0} \cup DOMAIN Entries,
         NEW q, outbox' = [outbox EXCEPT ![t] = q], q[1] = Error(e, i), Len(q) \in Nat, Len(q) >= 1
  PROVE  FatalSeen'
<1>1. outbox'[t] = q
  BY DEF Shape, TypeOK
<1>2. Fatal(Error(e, i))
  BY ReportElements, ParWalkerAssumption
<1>3. 1 \in 1..Len(q)
  OBVIOUS
<1>4. QED
  BY <1>1, <1>2, <1>3 DEF FatalSeen

LEMMA FailIsFatal ==
  ASSUME Shape, NEW w \in Workers, NEW e \in FatalErrors, Fail(w, e)
  PROVE  FatalSeen'
<1>1. file[w] \in {0} \cup DOMAIN Entries /\ e \in ErrorKinds /\ w \in Threads
  BY ParWalkerAssumption, Constants DEF Shape, TypeOK
<1>2. Len(Report(e, file[w])) = 2 /\ Report(e, file[w])[1] = Error(e, file[w])
  BY <1>1, ReportElements
<1>3. outbox' = [outbox EXCEPT ![w] = Report(e, file[w])]
  BY DEF Fail
<1> DEFINE r == Report(e, file[w])
<1>4. outbox' = [outbox EXCEPT ![w] = r] /\ r[1] = Error(e, file[w]) /\ Len(r) \in Nat /\ Len(r) >= 1
  BY <1>2, <1>3
<1> HIDE DEF r
<1>5. QED
  BY <1>1, <1>4, FatalReported

LEMMA DecidedInit == Init => Decided
BY Constants DEF Init, WalkInit, Decided

LEMMA DecidedNext == Shape /\ Explained /\ Decided /\ [Next]_vars => Decided'
<1> SUFFICES ASSUME Shape, Explained, Decided, [Next]_vars PROVE Decided'
  OBVIOUS
<1>0. /\ file \in [Workers -> {0} \cup DOMAIN Entries] /\ err \in [Workers -> ErrorKinds \cup {NoError}]
      /\ pc \in [Threads -> {"walk", "stop", "recv", "handle", "scan", "report", "failed"} \cup Gone]
      /\ FatalSeen => FatalSeen'
  BY FatalSeenStable DEF Shape, TypeOK
<1> USE Constants
<1>1. ASSUME \A v \in Workers : pc'[v] \in {"report", "failed"} =>
               pc'[v] = pc[v] /\ file'[v] = file[v] /\ err'[v] = err[v]
      PROVE  Decided'
  BY <1>0, <1>1 DEF Decided
<1>2. ASSUME NEW w \in Workers, NEW e, e = "timeout" \/ (e = "scan" /\ Entries[file[w]].fails), Fail(w, e)
      PROVE  Decided'
  <2>1. /\ \A v \in Workers : v # w => pc'[v] = pc[v] /\ file'[v] = file[v] /\ err'[v] = err[v]
        /\ pc'[w] = "failed" /\ err'[w] = e /\ file'[w] = file[w]
    BY <1>0, <1>2 DEF Fail
  <2>2. e \in FatalErrors => FatalSeen'
    BY <1>2, FailIsFatal
  <2>3. "timeout" \in FatalErrors
    BY ScanCommandAssumption
  <2>4. QED
    BY <1>0, <1>2, <2>1, <2>2, <2>3 DEF Decided
<1>3. ASSUME NEW w \in Workers, ScanSucceeds(w) PROVE Decided'
  <2>1. /\ \A v \in Workers : v # w => pc'[v] = pc[v] /\ file'[v] = file[v] /\ err'[v] = err[v]
        /\ pc'[w] = "report" /\ file'[w] = file[w] /\ ~Entries[file[w]].fails
    BY <1>0, <1>3 DEF ScanSucceeds
  <2>2. QED
    BY <1>0, <2>1 DEF Decided
<1>4. ASSUME NEW w \in Workers, WorkerStep(w) PROVE Decided'
  <2>1. CASE Send(w)
    BY <2>1, <1>0, <1>1 DEF Send
  <2>2. CASE Take(w) \/ NoMorePaths(w) \/ AfterError(w) \/ StartScan(w) \/ Reported(w)
    BY <2>2, <1>0, <1>1 DEF Take, NoMorePaths, AfterError, StartScan, Reported
  <2>3. CASE TimeIsOver(w) \/ ScanFails(w) \/ ScanTimesOut(w)
    <3>1. Fail(w, "timeout") \/ (Fail(w, "scan") /\ Entries[file[w]].fails)
      BY <2>3 DEF TimeIsOver, ScanFails, ScanTimesOut
    <3>2. QED
      BY <3>1, <1>2
  <2>4. QED
    BY <1>3, <1>4, <2>1, <2>2, <2>3 DEF WorkerStep, Handle
<1>5. CASE WalkerThreadStep
  <2>1. file' = file /\ err' = err /\ \A v \in Workers : pc'[v] = pc[v]
    BY <1>5, <1>0 DEF WalkerThreadStep, WalkerStep, Send, WalkFile, WalkFiltered, WalkUnreadable,
                      WalkBroken, WalkSendError, WalkEnds
  <2>2. QED
    BY <2>1, <1>1
<1>6. CASE UNCHANGED <<pc, file, err>>
  BY <1>6, <1>1
<1>7. CASE MainStep
  BY <1>7, <1>6 DEF MainStep, Display, AbortReceived, Disconnected, JoinThread, JoinPanicked, Unwound,
              Done, WalkDone
<1>8. QED
  BY <1>4, <1>5, <1>6, <1>7 DEF Next, Finished, Expire, vars, walkVars

-----------------------------------------------------------------------------
LEMMA LeavingInit == Init => Leaving
BY Constants DEF Init, WalkInit, Leaving

\* Without a fatal error the printer stays as long as a thread runs.
LEMMA QuietPrinter ==
  ASSUME Shape, Explained, ~FatalSeen
  PROVE  /\ \A t \in Threads : pc[t] # "panicked"
         /\ \A t \in Threads : pc[t] # "ended" => main = "print"
         /\ main \notin {"unwind", "panicked"}
BY DEF Explained, AbortIsExplained, PanicsOnlyAfterAbort, FatalSeen

LEMMA UnreadableIsFatal ==
  ASSUME Shape, WalkUnreadable, "walk" \in FatalErrors
  PROVE  FatalSeen'
<1>1. next \in {0} \cup DOMAIN Entries /\ "walk" \in ErrorKinds
  BY ParWalkerAssumption DEF WalkUnreadable, Shape, TypeOK, ErrorKinds
<1> DEFINE r == Report("walk", next)
<1>2. r \in Seq(Messages) /\ Len(r) = 2 /\ r[1] = Error("walk", next)
  BY <1>1, MessagesTyped, ReportElements
<1>3. outbox' = [outbox EXCEPT ![WalkerThread] = r \o r]
  BY DEF WalkUnreadable
<1> DEFINE q == r \o r
<1> HIDE DEF r
<1>4. Len(q) \in Nat /\ Len(q) >= 1 /\ q[1] = Error("walk", next)
  BY <1>2, ConcatProperties
<1> HIDE DEF q
<1>5. QED
  BY <1>1, <1>3, <1>4, Constants, FatalReported DEF q

LEMMA LeavingNext == Shape /\ Explained /\ Decided /\ Leaving /\ [Next]_vars => Leaving'
<1> SUFFICES ASSUME Shape, Explained, Decided, Leaving, [Next]_vars, ~FatalSeen' PROVE Leaving'
  BY DEF Leaving
<1> DEFINE W == WalkerThread
<1>0. /\ pc \in [Threads -> {"walk", "stop", "recv", "handle", "scan", "report", "failed"} \cup Gone]
      /\ next \in Nat /\ Len(Entries) \in Nat /\ ~FatalSeen
  BY FatalSeenStable, ParWalkerAssumption DEF Shape, TypeOK
<1>1. /\ pc[W] \in {"stop", "ended"} => next > Len(Entries) \/ Entries[next].kind = "broken"
      /\ \A w \in Workers : pc[w] = "ended" => paths = <<>> /\ pc[W] = "ended"
  BY <1>0 DEF Leaving
<1>2. /\ \A t \in Threads : pc[t] # "panicked"
      /\ \A t \in Threads : pc[t] # "ended" => main = "print"
  BY <1>0, QuietPrinter
<1> USE Constants
<1>3. CASE UNCHANGED <<pc, next, paths>>
  BY <1>1, <1>3 DEF Leaving
<1>4. ASSUME NEW t \in Threads, Send(t) PROVE Leaving'
  <2>1. outbox[t] # <<>> /\ pc[t] # "ended"
    BY <1>4 DEF Send, Shape, Places, Gone
  <2>2. pc' = pc
    BY <1>2, <1>4, <2>1 DEF Send, MsgsReceived
  <2>3. QED
    BY <1>3, <1>4, <2>2 DEF Send
<1>5. CASE WalkerStep
  <2>0. pc[W] \in {"walk", "stop"} /\ \A w \in Workers : pc[w] # "ended"
    BY <1>1, <1>5 DEF WalkerStep, WalkFile, WalkFiltered, WalkUnreadable, WalkBroken, WalkSendError,
                      WalkEnds, Ready
  <2>1. \A w \in Workers : pc'[w] = pc[w]
    BY <1>0, <1>5 DEF WalkerStep, WalkFile, WalkFiltered, WalkUnreadable, WalkBroken, WalkSendError,
                      WalkEnds
  <2>2. CASE WalkFile \/ WalkFiltered \/ WalkUnreadable
    <3>1. pc'[W] = "walk"
      BY <1>0, <2>2, UnreadableIsFatal DEF WalkFile, WalkFiltered, WalkUnreadable, Ready
    <3>2. QED
      BY <2>0, <2>1, <3>1 DEF Leaving
  <2>3. CASE WalkBroken
    BY <2>0, <2>1, <2>3 DEF WalkBroken, Leaving
  <2>4. ~WalkSendError
    BY <1>2, <2>0 DEF WalkSendError, PathsReceived
  <2>5. CASE WalkEnds
    BY <1>0, <1>1, <2>0, <2>1, <2>5 DEF WalkEnds, Leaving, Ready
  <2>6. QED
    BY <1>5, <2>2, <2>3, <2>4, <2>5 DEF WalkerStep
<1>6. ASSUME NEW w \in Workers, UNCHANGED <<next, paths>>, pc'[w] # "ended",
             \A t \in Threads : t # w => pc'[t] = pc[t]
      PROVE  Leaving'
  BY <1>1, <1>6 DEF Leaving
<1>7. ASSUME NEW w \in Workers, Take(w) \/ NoMorePaths(w) \/ AfterError(w) PROVE Leaving'
  <2>1. CASE Take(w)
    <3>1. paths # <<>> /\ pc' = [pc EXCEPT ![w] = "handle"] /\ next' = next
      BY <2>1 DEF Take
    <3>2. \A v \in Workers : pc[v] # "ended"
      BY <1>1, <3>1
    <3>3. QED
      BY <1>0, <1>1, <3>1, <3>2 DEF Leaving
  <2>2. CASE NoMorePaths(w)
    <3>1. paths = <<>> /\ pc[W] = "ended" /\ pc' = [pc EXCEPT ![w] = "ended"] /\ UNCHANGED <<next, paths>>
      BY <1>2, <2>2 DEF NoMorePaths, PathsSent, Gone
    <3>2. QED
      BY <1>0, <1>1, <3>1 DEF Leaving
  <2>3. CASE AfterError(w)
    <3>1. err[w] \notin FatalErrors
      BY <1>0, <2>3 DEF AfterError, Decided, Ready
    <3>2. QED
      BY <1>0, <1>6, <2>3, <3>1 DEF AfterError
  <2>4. QED
    BY <1>7, <2>1, <2>2, <2>3
<1>8. ASSUME NEW w \in Workers, Handle(w) PROVE Leaving'
  BY <1>0, <1>6, <1>8 DEF Handle, TimeIsOver, StartScan, ScanFails, ScanTimesOut, ScanSucceeds, Reported, Fail
<1>9. CASE MainStep
  BY <1>9, <1>3 DEF MainStep, Display, AbortReceived, Disconnected, JoinThread, JoinPanicked, Unwound,
              Done, WalkDone
<1>10. QED
  BY <1>3, <1>4, <1>5, <1>7, <1>8, <1>9
     DEF Next, WorkerStep, WalkerThreadStep, Finished, Expire, vars, walkVars

-----------------------------------------------------------------------------
LEMMA MessageFields ==
  ASSUME NEW i, NEW n
  PROVE  /\ Info(i, n).kind = "info" /\ Info(i, n).entry = i /\ Info(i, n).n = n
         /\ \A e : Error(e, i).kind = e /\ Error(e, i).entry = i
BY DEF Info, Error

LEMMA OwedFacts ==
  ASSUME NEW i \in DOMAIN Entries
  PROVE  /\ \A m \in Owed(i) : m.entry = i
         /\ i \in Files => Owed(i) = Logs(i) \cup Results(i) /\ Logs(i) \cap Results(i) = {}
         /\ Entries[i].kind = "filtered" => Owed(i) = {}
         /\ Entries[i].kind \in {"unreadable", "broken"} => Owed(i) = {Error("walk", i)}
<1>1. \A m \in Logs(i) : m.entry = i /\ m.kind = "info" /\ m.n = 0
  BY MessageFields DEF Logs
<1>2. \A m \in Results(i) : m.entry = i /\ (m.kind = "info" => \E n \in 1..LinesPerFile(i) : m = Info(i, n))
  BY MessageFields DEF Results
<1>3. \A m : m \in Logs(i) /\ m \in Results(i) => FALSE
  <2>1. SUFFICES ASSUME NEW m \in Logs(i), m \in Results(i) PROVE FALSE
    OBVIOUS
  <2>2. PICK n \in 1..LinesPerFile(i) : m = Info(i, n)
    BY <1>1, <1>2, <2>1
  <2>3. n = 0
    BY <1>1, <2>2, MessageFields
  <2>4. QED
    BY <2>3
<1>4. Error("walk", i).entry = i
  BY MessageFields
<1>5. Entries[i].kind \in EntryKinds
  BY ParWalkerAssumption
<1>6. QED
  BY <1>1, <1>2, <1>3, <1>4, <1>5 DEF Owed, Files, EntryKinds

\* A message is sent: it moves from an outbox to the channel.
LEMMA OnceSend ==
  ASSUME Shape, Once, NEW t \in Threads, Send(t), main = "print", UNCHANGED output_buffer
  PROVE  Once' /\ \A m : Placed(m)' <=> Placed(m)
<1> DEFINE x == Head(outbox[t])
<1> DEFINE n == Len(msgs)
<1> DEFINE l == Len(outbox[t])
<1>0. outbox[t] \in Seq(Messages) /\ outbox[t] # <<>> /\ msgs \in Seq(Messages) /\ outbox \in [Threads -> Seq(Messages)]
  BY DEF Shape, TypeOK, Send
<1>1. msgs' = Append(msgs, x) /\ outbox' = [outbox EXCEPT ![t] = Tail(@)] /\ printed' = printed
  BY DEF Send, MsgsReceived
<1>2. /\ x = outbox[t][1] /\ l \in Nat /\ l >= 1 /\ Len(Tail(outbox[t])) = l - 1
      /\ \A k \in 1..(l - 1) : Tail(outbox[t])[k] = outbox[t][k + 1]
  BY <1>0, HeadTailProperties, LenProperties
<1>3. n \in Nat /\ Len(msgs') = n + 1 /\ msgs'[n + 1] = x /\ \A k \in 1..n : msgs'[k] = msgs[k]
  BY <1>0, <1>1, AppendProperties, LenProperties
<1>4. \A u \in Threads : outbox'[u] = IF u = t THEN Tail(outbox[t]) ELSE outbox[u]
  BY <1>0, <1>1
<1> HIDE DEF x
<1>5. \A m : (\E k \in 1..Len(msgs') : msgs'[k] = m) <=> (\E k \in 1..n : msgs[k] = m) \/ m = x
  BY <1>3
<1>6. ASSUME NEW u \in Threads, NEW k \in 1..Len(outbox'[u])
      PROVE  \E j \in 1..Len(outbox[u]) :
                outbox'[u][k] = outbox[u][j] /\ j = (IF u = t THEN k + 1 ELSE k)
  <2>1. CASE u = t
    <3>1. outbox'[u] = Tail(outbox[t])
      BY <1>4, <2>1
    <3>2. k \in 1..(l - 1) /\ k + 1 \in 1..l
      BY <1>2, <3>1
    <3>3. QED
      BY <1>2, <2>1, <3>1, <3>2
  <2>2. CASE u # t
    BY <1>4, <2>2
  <2>3. QED
    BY <2>1, <2>2
<1>7. ASSUME NEW u \in Threads, NEW k \in 1..Len(outbox[u])
      PROVE  outbox[u][k] = x \/ \E j \in 1..Len(outbox'[u]) : outbox'[u][j] = outbox[u][k]
  <2>1. CASE u = t /\ k = 1
    BY <1>2, <2>1
  <2>2. CASE u = t /\ k # 1
    <3>1. outbox'[u] = Tail(outbox[t])
      BY <1>4, <2>2
    <3>2. k - 1 \in 1..(l - 1) /\ (k - 1) + 1 = k
      BY <1>2, <2>2
    <3>3. Tail(outbox[t])[k - 1] = outbox[t][k]
      BY <1>2, <3>2
    <3>4. QED
      BY <1>2, <2>2, <3>1, <3>2, <3>3
  <2>3. CASE u # t
    BY <1>4, <2>3
  <2>4. QED
    BY <2>1, <2>2, <2>3
<1>8. 1 \in 1..l
  BY <1>2
<1> HIDE DEF n, l
<1>9. \A m : Placed(m)' <=> Placed(m)
  <2>1. ASSUME NEW m, Placed(m) PROVE Placed(m)'
    <3>1. CASE m \in BagToSet(printed) \/ m \in output_buffer
      BY <1>1, <3>1 DEF Placed
    <3>2. CASE (\E k \in 1..n : msgs[k] = m) \/ m = x
      BY <1>5, <3>2 DEF Placed
    <3>3. ASSUME NEW u \in Threads, NEW k \in 1..Len(outbox[u]), outbox[u][k] = m PROVE Placed(m)'
      BY <1>7, <3>2, <3>3 DEF Placed
    <3>4. QED
      BY <2>1, <3>1, <3>2, <3>3 DEF Placed, n
  <2>2. ASSUME NEW m, Placed(m)' PROVE Placed(m)
    <3>1. CASE m \in BagToSet(printed') \/ m \in output_buffer'
      BY <1>1, <3>1 DEF Placed
    <3>2. CASE \E k \in 1..Len(msgs') : msgs'[k] = m
      BY <1>2, <1>5, <1>8, <3>2 DEF Placed, n, l
    <3>3. ASSUME NEW u \in Threads, NEW k \in 1..Len(outbox'[u]), outbox'[u][k] = m PROVE Placed(m)
      BY <1>6, <3>3 DEF Placed
    <3>4. QED
      BY <2>2, <3>1, <3>2, <3>3 DEF Placed
  <2>3. QED
    BY <2>1, <2>2
<1>10. Once'
  <2>1. ASSUME NEW m \in BagToSet(printed')
        PROVE  /\ printed'[m] = 1
               /\ m \notin output_buffer'
               /\ \A k \in 1..Len(msgs') : msgs'[k] # m
               /\ \A u \in Threads : \A k \in 1..Len(outbox'[u]) : outbox'[u][k] # m
    <3>1. m \in BagToSet(printed)
      BY <1>1
    <3>2. printed[m] = 1 /\ m \notin output_buffer /\ (\A k \in 1..n : msgs[k] # m)
      BY <3>1 DEF Once, n
    <3>3. \A u \in Threads : \A k \in 1..Len(outbox[u]) : outbox[u][k] # m
      BY <3>1 DEF Once
    <3>4. m # x
      BY <1>2, <1>8, <3>3 DEF l
    <3>5. \A u \in Threads : \A k \in 1..Len(outbox'[u]) : outbox'[u][k] # m
      BY <1>6, <3>3
    <3>6. QED
      BY <1>1, <1>5, <3>2, <3>4, <3>5
  <2>2. /\ x \notin output_buffer /\ (\A k \in 1..n : msgs[k] # x)
        /\ \A u \in Threads : \A k \in 1..Len(outbox[u]) : outbox[u][k] = x => u = t /\ k = 1
    BY <1>2, <1>8 DEF Once, n, l
  <2>3. \A u \in Threads : \A k \in 1..Len(outbox'[u]) : outbox'[u][k] # x
    <3>1. SUFFICES ASSUME NEW u \in Threads, NEW k \in 1..Len(outbox'[u]), outbox'[u][k] = x PROVE FALSE
      OBVIOUS
    <3>2. PICK j \in 1..Len(outbox[u]) : outbox'[u][k] = outbox[u][j] /\ j = (IF u = t THEN k + 1 ELSE k)
      BY <1>6
    <3>3. u = t /\ j = 1
      BY <2>2, <3>1, <3>2
    <3>4. QED
      BY <3>2, <3>3
  <2>4. ASSUME NEW k \in 1..Len(msgs')
        PROVE  /\ msgs'[k] \notin output_buffer'
               /\ \A j \in 1..Len(msgs') : j # k => msgs'[j] # msgs'[k]
               /\ \A u \in Threads : \A j \in 1..Len(outbox'[u]) : outbox'[u][j] # msgs'[k]
    <3>1. k \in 1..n \/ k = n + 1
      BY <1>3
    <3>2. CASE k = n + 1
      <4>1. msgs'[k] = x /\ \A j \in 1..Len(msgs') : j # k => j \in 1..n
        BY <1>3, <3>2
      <4>2. QED
        BY <1>3, <2>2, <2>3, <4>1
    <3>3. CASE k \in 1..n
      <4>1. msgs'[k] = msgs[k] /\ msgs[k] \notin output_buffer
            /\ \A u \in Threads : \A j \in 1..Len(outbox[u]) : outbox[u][j] # msgs[k]
        BY <1>3, <3>3 DEF Once, n
      <4>2. \A u \in Threads : \A j \in 1..Len(outbox'[u]) : outbox'[u][j] # msgs'[k]
        BY <1>6, <4>1
      <4>3. ASSUME NEW j \in 1..Len(msgs'), j # k PROVE msgs'[j] # msgs'[k]
        <5>1. CASE j = n + 1
          BY <1>3, <2>2, <3>3, <4>1, <5>1
        <5>2. CASE j \in 1..n
          BY <1>3, <3>3, <4>1, <4>3, <5>2 DEF Once, n
        <5>3. QED
          BY <1>3, <5>1, <5>2
      <4>4. QED
        BY <4>1, <4>2, <4>3
    <3>4. QED
      BY <3>1, <3>2, <3>3
  <2>5. ASSUME NEW u \in Threads, NEW k \in 1..Len(outbox'[u])
        PROVE  /\ outbox'[u][k] \notin output_buffer'
               /\ \A v \in Threads : \A j \in 1..Len(outbox'[v]) :
                    outbox'[v][j] = outbox'[u][k] => v = u /\ j = k
    <3>1. PICK k0 \in 1..Len(outbox[u]) : outbox'[u][k] = outbox[u][k0] /\ k0 = (IF u = t THEN k + 1 ELSE k)
      BY <1>6
    <3>2. outbox[u][k0] \notin output_buffer
      BY DEF Once
    <3>3. ASSUME NEW v \in Threads, NEW j \in 1..Len(outbox'[v]), outbox'[v][j] = outbox'[u][k]
          PROVE  v = u /\ j = k
      <4>1. PICK j0 \in 1..Len(outbox[v]) : outbox'[v][j] = outbox[v][j0] /\ j0 = (IF v = t THEN j + 1 ELSE j)
        BY <1>6
      <4>2. v = u /\ j0 = k0
        BY <3>1, <3>3, <4>1 DEF Once
      <4>3. QED
        BY <3>1, <4>1, <4>2
    <3>4. QED
      BY <3>1, <3>2, <3>3
  <2>6. QED
    BY <2>1, <2>4, <2>5 DEF Once
<1>11. QED
  BY <1>9, <1>10

\* A message is printed: it moves from the channel to the console.
LEMMA OnceDisplay ==
  ASSUME Shape, Once, Display, UNCHANGED output_buffer
  PROVE  Once' /\ \A m : Placed(m)' <=> Placed(m)
<1> DEFINE x == Head(msgs)
<1> DEFINE n == Len(msgs)
<1>0. msgs \in Seq(Messages) /\ msgs # <<>> /\ IsABag(printed)
  BY DEF Shape, TypeOK, Display
<1>1. msgs' = Tail(msgs) /\ printed' = BagAdd(printed, x) /\ outbox' = outbox
  BY DEF Display
<1>2. /\ x = msgs[1] /\ n \in Nat /\ n >= 1 /\ Len(msgs') = n - 1
      /\ \A k \in 1..(n - 1) : msgs'[k] = msgs[k + 1]
  BY <1>0, <1>1, HeadTailProperties, LenProperties
<1>3. /\ BagToSet(printed') = BagToSet(printed) \cup {x}
      /\ \A m \in BagToSet(printed) : m # x => printed'[m] = printed[m]
      /\ x \notin BagToSet(printed) => printed'[x] = 1
  BY <1>0, <1>1, BagAddTyped
<1> HIDE DEF x
<1>4. \A k \in 1..Len(msgs') : k + 1 \in 1..n /\ k + 1 # 1 /\ msgs'[k] = msgs[k + 1]
  BY <1>2
<1>5. \A k \in 1..n : msgs[k] = x \/ \E j \in 1..Len(msgs') : msgs'[j] = msgs[k]
  <2>1. SUFFICES ASSUME NEW k \in 1..n, k # 1 PROVE \E j \in 1..Len(msgs') : msgs'[j] = msgs[k]
    BY <1>2
  <2>2. k - 1 \in 1..(n - 1) /\ (k - 1) + 1 = k
    BY <1>2, <2>1
  <2>3. QED
    BY <1>2, <2>2
<1>6. 1 \in 1..n
  BY <1>2
<1>7. /\ x \notin BagToSet(printed) /\ x \notin output_buffer
      /\ \A k \in 1..n : k # 1 => msgs[k] # x
      /\ \A t \in Threads : \A j \in 1..Len(outbox[t]) : outbox[t][j] # x
  BY <1>2, <1>6 DEF Once
<1>8. \A m : Placed(m)' <=> Placed(m)
  <2>1. ASSUME NEW m PROVE (m \in BagToSet(printed') \/ \E k \in 1..Len(msgs') : msgs'[k] = m)
                            <=> (m \in BagToSet(printed) \/ \E k \in 1..n : msgs[k] = m)
    BY <1>2, <1>3, <1>4, <1>5, <1>6
  <2>2. QED
    BY <1>1, <2>1 DEF Placed
<1>9. ASSUME NEW m \in BagToSet(printed')
      PROVE  /\ printed'[m] = 1
             /\ m \notin output_buffer'
             /\ \A k \in 1..Len(msgs') : msgs'[k] # m
             /\ \A u \in Threads : \A k \in 1..Len(outbox'[u]) : outbox'[u][k] # m
  <2>1. CASE m = x
    BY <1>1, <1>3, <1>4, <1>7, <2>1
  <2>2. CASE m \in BagToSet(printed) /\ m # x
    BY <1>1, <1>3, <1>4, <2>2 DEF Once
  <2>3. QED
    BY <1>3, <2>1, <2>2
<1>10. ASSUME NEW k \in 1..Len(msgs')
       PROVE  /\ msgs'[k] \notin output_buffer'
              /\ \A j \in 1..Len(msgs') : j # k => msgs'[j] # msgs'[k]
              /\ \A u \in Threads : \A j \in 1..Len(outbox'[u]) : outbox'[u][j] # msgs'[k]
  <2>1. msgs[k + 1] \notin output_buffer
        /\ \A u \in Threads : \A j \in 1..Len(outbox[u]) : outbox[u][j] # msgs[k + 1]
    BY <1>4 DEF Once
  <2>2. ASSUME NEW j \in 1..Len(msgs'), j # k PROVE msgs'[j] # msgs'[k]
    <3>1. j + 1 # k + 1
      BY <2>2, <1>2
    <3>2. QED
      BY <1>4, <3>1 DEF Once
  <2>3. QED
    BY <1>1, <1>4, <2>1, <2>2
<1>11. Once'
  BY <1>1, <1>9, <1>10 DEF Once
<1>12. QED
  BY <1>8, <1>11

\* At the end what was held back is printed.
LEMMA OnceDone ==
  ASSUME Shape, Once, Done, ~(format.output = "json" /\ format.count_only)
  PROVE  Once' /\ \A m : Placed(m)' <=> Placed(m)
<1>0. IsABag(printed) /\ msgs' = msgs /\ outbox' = outbox /\ output_buffer' = {}
      /\ printed' = printed (+) SetToBag(output_buffer)
  <2>1. format.count_only => Totals(output_buffer) = output_buffer
    BY DEF Shape, Held, Totals
  <2>2. QED
    BY <2>1 DEF Shape, TypeOK, Done, WalkDone
<1>1. /\ BagToSet(printed') = BagToSet(printed) \cup output_buffer
      /\ \A x \in BagToSet(printed) : x \notin output_buffer => printed'[x] = printed[x]
      /\ \A x \in output_buffer : x \notin BagToSet(printed) => printed'[x] = 1
  BY <1>0, BagSumTyped
<1>2. \A m : Placed(m)' <=> Placed(m)
  BY <1>0, <1>1 DEF Placed
<1>3. \A m \in BagToSet(printed') :
        /\ printed'[m] = 1
        /\ \A k \in 1..Len(msgs) : msgs[k] # m
        /\ \A u \in Threads : \A k \in 1..Len(outbox[u]) : outbox[u][k] # m
  BY <1>1 DEF Once
<1>4. Once'
  BY <1>0, <1>3 DEF Once
<1>5. QED
  BY <1>2, <1>4

\* New messages, q in an outbox and S held back, that were nowhere before.
LEMMA OnceProduces ==
  ASSUME Shape, Once, NEW t \in Threads, NEW q \in Seq(Messages), Produces(t, q),
         NEW S, output_buffer' = output_buffer \cup S,
         \A k \in 1..Len(q) : ~Placed(q[k]) /\ q[k] \notin S,
         \A j, k \in 1..Len(q) : j # k => q[j] # q[k],
         \A m \in S : ~Placed(m)
  PROVE  Once' /\ \A m : Placed(m)' <=> Placed(m) \/ m \in S \/ \E k \in 1..Len(q) : q[k] = m
<1>0. /\ \A u \in Threads : outbox'[u] = IF u = t THEN q ELSE outbox[u]
      /\ msgs' = msgs /\ printed' = printed
      /\ outbox[t] = <<>>
  BY DEF Produces, Shape, TypeOK
<1>1. \A m : Placed(m)' <=> Placed(m) \/ m \in S \/ \E k \in 1..Len(q) : q[k] = m
  <2>1. ASSUME NEW m
        PROVE  (\E u \in Threads : \E k \in 1..Len(outbox'[u]) : outbox'[u][k] = m)
                 <=> \/ \E u \in Threads : \E k \in 1..Len(outbox[u]) : outbox[u][k] = m
                     \/ \E k \in 1..Len(q) : q[k] = m
    <3>1. \A k \in 1..Len(outbox[t]) : FALSE
      BY <1>0
    <3>2. QED
      BY <1>0, <3>1
  <2>2. QED
    BY <1>0, <2>1 DEF Placed
<1>2. ASSUME NEW m \in BagToSet(printed')
      PROVE  /\ printed'[m] = 1
             /\ m \notin output_buffer'
             /\ \A k \in 1..Len(msgs') : msgs'[k] # m
             /\ \A u \in Threads : \A k \in 1..Len(outbox'[u]) : outbox'[u][k] # m
  <2>1. m \in BagToSet(printed) /\ Placed(m)
    BY <1>0 DEF Placed
  <2>2. m \notin S /\ \A k \in 1..Len(q) : q[k] # m
    BY <2>1
  <2>3. QED
    BY <1>0, <2>1, <2>2 DEF Once
<1>3. ASSUME NEW k \in 1..Len(msgs')
      PROVE  /\ msgs'[k] \notin output_buffer'
             /\ \A j \in 1..Len(msgs') : j # k => msgs'[j] # msgs'[k]
             /\ \A u \in Threads : \A j \in 1..Len(outbox'[u]) : outbox'[u][j] # msgs'[k]
  <2>1. k \in 1..Len(msgs) /\ Placed(msgs[k])
    BY <1>0 DEF Placed
  <2>2. msgs[k] \notin S /\ \A j \in 1..Len(q) : q[j] # msgs[k]
    BY <2>1
  <2>3. /\ msgs[k] \notin output_buffer
        /\ \A j \in 1..Len(msgs) : j # k => msgs[j] # msgs[k]
        /\ \A u \in Threads : \A j \in 1..Len(outbox[u]) : outbox[u][j] # msgs[k]
    BY <2>1 DEF Once
  <2>4. \A u \in Threads : \A j \in 1..Len(outbox'[u]) : outbox'[u][j] # msgs[k]
    BY <1>0, <2>2, <2>3
  <2>5. QED
    BY <1>0, <2>2, <2>3, <2>4
<1>4. ASSUME NEW u \in Threads, NEW k \in 1..Len(outbox'[u])
      PROVE  /\ outbox'[u][k] \notin output_buffer'
             /\ \A v \in Threads : \A j \in 1..Len(outbox'[v]) :
                  outbox'[v][j] = outbox'[u][k] => v = u /\ j = k
  <2>1. ASSUME NEW v \in Threads, v # t, NEW j \in 1..Len(outbox'[v])
        PROVE  /\ outbox'[v][j] = outbox[v][j] /\ j \in 1..Len(outbox[v]) /\ Placed(outbox[v][j])
               /\ outbox[v][j] \notin S /\ \A i \in 1..Len(q) : q[i] # outbox[v][j]
    <3>1. outbox'[v][j] = outbox[v][j] /\ j \in 1..Len(outbox[v])
      BY <1>0, <2>1
    <3>2. Placed(outbox[v][j])
      BY <3>1 DEF Placed
    <3>3. QED
      BY <3>1, <3>2
  <2>2. CASE u = t
    <3>1. outbox'[u][k] = q[k] /\ k \in 1..Len(q) /\ ~Placed(q[k])
      BY <1>0, <2>2
    <3>2. q[k] \notin output_buffer'
      BY <3>1 DEF Placed
    <3>3. ASSUME NEW v \in Threads, NEW j \in 1..Len(outbox'[v]), outbox'[v][j] = q[k]
          PROVE  v = u /\ j = k
      <4>1. v = t
        BY <2>1, <3>1, <3>3
      <4>2. j \in 1..Len(q) /\ q[j] = q[k]
        BY <1>0, <3>3, <4>1
      <4>3. QED
        BY <2>2, <3>1, <4>1, <4>2
    <3>4. QED
      BY <3>1, <3>2, <3>3
  <2>3. CASE u # t
    <3>1. /\ outbox'[u][k] = outbox[u][k] /\ k \in 1..Len(outbox[u])
          /\ outbox[u][k] \notin S /\ \A i \in 1..Len(q) : q[i] # outbox[u][k]
      BY <2>1, <2>3
    <3>2. outbox[u][k] \notin output_buffer'
      BY <3>1 DEF Once
    <3>3. ASSUME NEW v \in Threads, NEW j \in 1..Len(outbox'[v]), outbox'[v][j] = outbox[u][k]
          PROVE  v = u /\ j = k
      <4>1. v # t
        BY <1>0, <3>1, <3>3
      <4>2. outbox[v][j] = outbox[u][k] /\ j \in 1..Len(outbox[v])
        BY <2>1, <3>3, <4>1
      <4>3. QED
        BY <3>1, <4>2 DEF Once
    <3>4. QED
      BY <3>1, <3>2, <3>3
  <2>4. QED
    BY <2>2, <2>3
<1>5. Once'
  BY <1>2, <1>3, <1>4 DEF Once
<1>6. QED
  BY <1>1, <1>5

-----------------------------------------------------------------------------
\* The numbers that the comparisons below are about.
LEMMA Numbers ==
  ASSUME Shape
  PROVE  /\ next \in Nat /\ next >= 1 /\ DOMAIN Entries \subseteq Nat /\ 0 \notin DOMAIN Entries
         /\ DOMAIN Entries = 1..Len(Entries) /\ Len(Entries) \in Nat
         /\ \A w \in Workers : file[w] \in Nat
         /\ paths \in Seq(DOMAIN Entries) /\ Len(paths) \in Nat
         /\ \A k \in 1..Len(paths) : paths[k] \in Nat
         /\ Files \subseteq DOMAIN Entries
<1>1. /\ file \in [Workers -> {0} \cup DOMAIN Entries] /\ next \in 1..Len(Entries) + 1
      /\ paths \in Seq(DOMAIN Entries)
  BY DEF Shape, TypeOK
<1>2. DOMAIN Entries = 1..Len(Entries) /\ Len(Entries) \in Nat
  BY ParWalkerAssumption
<1>3. Len(paths) \in Nat /\ \A k \in 1..Len(paths) : paths[k] \in DOMAIN Entries
  BY <1>1, LenProperties, ElementOfSeq
<1>4. QED
  BY <1>1, <1>2, <1>3 DEF Files

LEMMA OwedSame ==
  ASSUME format' = format
  PROVE  \A i : Owed(i)' = Owed(i) /\ Logs(i)' = Logs(i)
BY DEF Owed, Logs, Results, LinesPerFile

\* What has been produced about a file that a worker has.
LEMMA EmittedHeld ==
  ASSUME Shape, Distinct, NEW w \in Workers, file[w] \in Files, NEW m, m.entry = file[w]
  PROVE  Emitted(m) <=> /\ m \in Owed(file[w]) /\ pc[w] # "handle"
                        /\ pc[w] = "scan" => m \in Logs(file[w])
<1>1. file[w] \in DOMAIN Entries /\ file[w] # 0 /\ Reached(file[w]) /\ ~Queued(file[w])
  BY Numbers DEF Distinct, Reached, Queued
<1>2. \A v \in Workers : file[v] = file[w] => v = w
  BY <1>1 DEF Distinct
<1>3. QED
  BY <1>1, <1>2 DEF Emitted

LEMMA EmittedWorker ==
  ASSUME Shape, Distinct, NEW w \in Workers, file[w] \in Files,
         UNCHANGED <<next, paths, format>>, pc'[WalkerThread] = pc[WalkerThread],
         \A v \in Workers : v # w => pc'[v] = pc[v] /\ file'[v] = file[v],
         file'[w] \in {0, file[w]}, NEW m
  PROVE  /\ m.entry # file[w] => (Emitted(m)' <=> Emitted(m))
         /\ m.entry = file[w] =>
              (Emitted(m)' <=> /\ m \in Owed(file[w])
                               /\ file'[w] = file[w] =>
                                    pc'[w] # "handle" /\ (pc'[w] = "scan" => m \in Logs(file[w])))
<1>0. \A i : /\ Owed(i)' = Owed(i) /\ Logs(i)' = Logs(i)
             /\ Reached(i)' = Reached(i) /\ Queued(i)' = Queued(i)
  BY OwedSame DEF Reached, Queued
<1>1. file[w] \in DOMAIN Entries /\ file[w] # 0 /\ Reached(file[w]) /\ ~Queued(file[w])
  BY Numbers DEF Distinct, Reached, Queued
<1>2. \A v \in Workers : file[v] = file[w] => v = w
  BY <1>1 DEF Distinct
<1>3. CASE m.entry = file[w]
  <2>1. \A v \in Workers : file'[v] = m.entry => v = w
    BY <1>2, <1>3
  <2>2. /\ m.entry \in DOMAIN Entries /\ Reached(m.entry)' /\ ~(Queued(m.entry)')
        /\ Owed(m.entry)' = Owed(file[w]) /\ Logs(m.entry)' = Logs(file[w])
    BY <1>0, <1>1, <1>3
  <2>3. Emitted(m)' <=> /\ m \in Owed(file[w])
                        /\ \A v \in Workers : file'[v] = m.entry =>
                             pc'[v] # "handle" /\ (pc'[v] = "scan" => m \in Logs(file[w]))
    BY <2>2 DEF Emitted
  <2>4. (\A v \in Workers : file'[v] = m.entry =>
           pc'[v] # "handle" /\ (pc'[v] = "scan" => m \in Logs(file[w])))
        <=> (file'[w] = file[w] => pc'[w] # "handle" /\ (pc'[w] = "scan" => m \in Logs(file[w])))
    BY <1>3, <2>1
  <2>5. QED
    BY <1>3, <2>3, <2>4
<1>4. CASE m.entry # file[w]
  <2>1. CASE m.entry \notin DOMAIN Entries
    BY <1>4, <2>1 DEF Emitted
  <2>2. CASE m.entry \in DOMAIN Entries
    <3>1. file'[w] # m.entry
      BY <1>4, <2>2, Numbers
    <3>2. QED
      BY <1>0, <1>4, <3>1 DEF Emitted
  <2>3. QED
    BY <2>1, <2>2
<1>5. QED
  BY <1>3, <1>4

\* A path moves from the channel to a worker.
LEMMA TakeEffect ==
  ASSUME Shape, NEW w \in Workers, Take(w)
  PROVE  /\ file[w] = 0 /\ next' = next /\ pc[w] = "recv"
         /\ paths[1] \in DOMAIN Entries /\ paths[1] # 0 /\ Queued(paths[1])
         /\ \A v \in Workers : file'[v] = IF v = w THEN paths[1] ELSE file[v]
         /\ \A t \in Threads : pc'[t] = IF t = w THEN "handle" ELSE pc[t]
         /\ \A j : j # paths[1] => (Queued(j)' <=> Queued(j))
<1> USE Constants
<1>1. /\ paths # <<>> /\ paths' = Tail(paths) /\ file[w] = 0 /\ next' = next /\ pc[w] = "recv"
      /\ file' = [file EXCEPT ![w] = Head(paths)] /\ pc' = [pc EXCEPT ![w] = "handle"]
  BY DEF Take, Ready, Shape, Places
<1>2. /\ Head(paths) = paths[1] /\ Len(paths') = Len(paths) - 1 /\ Len(paths) >= 1
      /\ \A k \in 1..(Len(paths) - 1) : paths'[k] = paths[k + 1]
  BY <1>1, Numbers, HeadTailProperties
<1> DEFINE i == paths[1]
<1>3. 1 \in 1..Len(paths) /\ i \in DOMAIN Entries /\ i # 0
  BY <1>2, Numbers, ElementOfSeq
<1>4. /\ \A v \in Workers : file'[v] = IF v = w THEN i ELSE file[v]
      /\ \A t \in Threads : pc'[t] = IF t = w THEN "handle" ELSE pc[t]
  BY <1>1, <1>2 DEF Shape, TypeOK
<1>5. \A j : j # i => (Queued(j)' <=> Queued(j))
  <2>1. SUFFICES ASSUME NEW j, j # i PROVE Queued(j)' <=> Queued(j)
    OBVIOUS
  <2>2. ASSUME NEW k \in 1..Len(paths), paths[k] = j PROVE \E l \in 1..Len(paths') : paths'[l] = j
    <3>1. k - 1 \in 1..(Len(paths) - 1) /\ (k - 1) + 1 = k
      BY <2>1, <2>2, Numbers
    <3>2. QED
      BY <1>2, <2>2, <3>1
  <2>3. ASSUME NEW k \in 1..Len(paths'), paths'[k] = j PROVE \E l \in 1..Len(paths) : paths[l] = j
    <3>1. k + 1 \in 1..Len(paths) /\ paths'[k] = paths[k + 1]
      BY <1>2, Numbers
    <3>2. QED
      BY <2>3, <3>1
  <2>4. QED
    BY <2>2, <2>3 DEF Queued
<1>6. Queued(i)
  BY <1>3 DEF Queued
<1>7. QED
  BY <1>1, <1>3, <1>4, <1>5, <1>6

LEMMA EmittedTake ==
  ASSUME Shape, Distinct, NEW w \in Workers, Take(w), format' = format, NEW m
  PROVE  Emitted(m)' <=> Emitted(m)
<1> USE Constants
<1> DEFINE i == paths[1]
<1>1. /\ file[w] = 0 /\ next' = next /\ pc[w] = "recv"
      /\ i \in DOMAIN Entries /\ i # 0
  BY TakeEffect
<1>4. /\ \A v \in Workers : file'[v] = IF v = w THEN i ELSE file[v]
      /\ \A t \in Threads : pc'[t] = IF t = w THEN "handle" ELSE pc[t]
  BY TakeEffect
<1>5. \A j : j # i => (Queued(j)' <=> Queued(j))
  BY TakeEffect
<1>6. Queued(i)
  BY TakeEffect
<1>7. \A j : Owed(j)' = Owed(j) /\ Logs(j)' = Logs(j) /\ Reached(j)' = Reached(j)
  BY <1>1, <1>4, OwedSame DEF Reached
<1> HIDE DEF i
<1>8. CASE m.entry = i
  <2>1. ~Emitted(m)
    BY <1>6, <1>8 DEF Emitted
  <2>2. ~Emitted(m)'
    BY <1>4, <1>8 DEF Emitted
  <2>3. QED
    BY <2>1, <2>2
<1>9. CASE m.entry # i
  <2>1. CASE m.entry \notin DOMAIN Entries
    BY <2>1 DEF Emitted
  <2>2. CASE m.entry \in DOMAIN Entries
    <3>1. m.entry # 0 /\ (Queued(m.entry)' <=> Queued(m.entry))
      BY <1>5, <1>9, <2>2, Numbers
    <3>2. \A v \in Workers : file'[v] = m.entry <=> file[v] = m.entry
      BY <1>1, <1>4, <1>9, <3>1
    <3>3. \A v \in Workers : file[v] = m.entry => pc'[v] = pc[v]
      BY <1>1, <1>4, <3>1
    <3>4. QED
      BY <1>7, <3>1, <3>2, <3>3 DEF Emitted
  <2>3. QED
    BY <2>1, <2>2
<1>10. QED
  BY <1>8, <1>9

\* What the steps of the walker thread add.
LEMMA EmittedWalker ==
  ASSUME Shape, Explained, Distinct, ~FatalSeen, ~FatalSeen', WalkerStep, format' = format, NEW m
  PROVE  Emitted(m)' <=>
           Emitted(m) \/ (/\ WalkUnreadable \/ WalkBroken
                          /\ m = Error("walk", next))
<1> DEFINE W == WalkerThread
<1>0. /\ \A w \in Workers : pc'[w] = pc[w]
      /\ file' = file
      /\ \A i : Owed(i)' = Owed(i) /\ Logs(i)' = Logs(i)
      /\ pc[W] \in {"walk", "stop"}
  BY Constants, OwedSame DEF WalkerStep, WalkFile, WalkFiltered, WalkUnreadable, WalkBroken, WalkSendError,
     WalkEnds, Ready, Shape, TypeOK
<1>1. \A w \in Workers : file[w] # next
  BY Numbers DEF Distinct
<1>2. ~Queued(next)
  BY Numbers DEF Distinct, Queued
<1>3. CASE m.entry \notin DOMAIN Entries
  <2>1. WalkUnreadable \/ WalkBroken => next \in DOMAIN Entries
    BY Numbers DEF WalkUnreadable, WalkBroken
  <2>2. WalkUnreadable \/ WalkBroken => m # Error("walk", next)
    BY <1>3, <2>1 DEF Error
  <2>3. QED
    BY <1>3, <2>2 DEF Emitted
<1>4. CASE m.entry \in DOMAIN Entries /\ m.entry # next
  <2>1. m # Error("walk", next)
    BY <1>4 DEF Error
  <2>2. m.entry \in Nat /\ next \in Nat
    BY <1>4, Numbers
  <2>3. Reached(m.entry)' <=> Reached(m.entry)
    <3>1. next' = next \/ (next' = next + 1 /\ pc[W] = "walk")
      BY DEF WalkerStep, WalkFile, WalkFiltered, WalkUnreadable, WalkBroken, WalkSendError, WalkEnds, Ready
    <3>2. CASE next' = next
      BY <1>4, <3>2 DEF Reached
    <3>3. CASE next' = next + 1
      <4>1. pc'[W] = "walk" \/ WalkUnreadable
        BY <3>3, <2>2 DEF WalkerStep, WalkFile, WalkFiltered, WalkUnreadable, WalkBroken, WalkSendError,
           WalkEnds, Ready
      <4>2. pc'[W] = "walk"
        BY <4>1, UnreadableIsFatal DEF WalkUnreadable, Ready
      <4>3. QED
        BY <1>4, <2>2, <3>3, <4>2 DEF Reached
    <3>4. QED
      BY <3>1, <3>2, <3>3
  <2>4. Queued(m.entry)' <=> Queued(m.entry)
    <3>1. CASE paths' = paths
      BY <3>1 DEF Queued
    <3>2. CASE WalkFile
      <4>1. paths' = Append(paths, next)
        BY <3>2 DEF WalkFile
      <4>2. /\ Len(paths') = Len(paths) + 1 /\ paths'[Len(paths) + 1] = next
            /\ \A k \in 1..Len(paths) : paths'[k] = paths[k]
        BY <4>1, Numbers, AppendProperties
      <4>3. \A k \in 1..Len(paths') : k = Len(paths) + 1 \/ k \in 1..Len(paths)
        BY <4>2, Numbers
      <4>4. 1..Len(paths) \subseteq 1..Len(paths')
        BY <4>2, Numbers
      <4>5. QED
        BY <1>4, <4>2, <4>3, <4>4 DEF Queued
    <3>3. QED
      BY <3>1, <3>2 DEF WalkerStep, WalkFiltered, WalkUnreadable, WalkBroken, WalkSendError, WalkEnds
  <2>5. QED
    BY <1>0, <2>1, <2>3, <2>4 DEF Emitted
<1>5. CASE m.entry \in DOMAIN Entries /\ m.entry = next
  <2>0. next \in DOMAIN Entries /\ next <= Len(Entries) /\ next \in Nat
    BY <1>5, Numbers
  <2>1. CASE WalkFile
    <3>1. paths' = Append(paths, next) /\ pc[W] = "walk"
      BY <2>1 DEF WalkFile, Ready
    <3>2. Len(paths') = Len(paths) + 1 /\ paths'[Len(paths) + 1] = next
      BY <3>1, Numbers, AppendProperties
    <3>3. Len(paths) + 1 \in 1..Len(paths')
      BY <3>2, Numbers
    <3>4. Queued(m.entry)'
      BY <1>5, <3>2, <3>3 DEF Queued
    <3>5. ~Reached(next)
      BY <3>1, <2>0 DEF Reached
    <3>6. ~WalkUnreadable /\ ~WalkBroken
      BY <2>1 DEF WalkFile, WalkUnreadable, WalkBroken
    <3>7. ~(Emitted(m)')
      BY <3>4 DEF Emitted
    <3>8. ~Emitted(m)
      BY <1>5, <3>5 DEF Emitted
    <3>9. QED
      BY <3>6, <3>7, <3>8
  <2>2. CASE WalkFiltered
    <3>1. Owed(next) = {} /\ ~WalkUnreadable /\ ~WalkBroken
      BY <2>0, <2>2, OwedFacts DEF WalkFiltered, WalkUnreadable, WalkBroken
    <3>2. QED
      BY <1>0, <1>5, <3>1 DEF Emitted
  <2>3. CASE WalkUnreadable \/ WalkBroken
    <3>1. Owed(next) = {Error("walk", next)} /\ ~Reached(next) /\ paths' = paths
      BY <2>0, <2>3, OwedFacts DEF WalkUnreadable, WalkBroken, Reached, Ready
    <3>2. ~Emitted(m)
      BY <1>5, <3>1 DEF Emitted
    <3>3. next < next' \/ (next' = next /\ pc'[W] = "stop")
      BY <2>0, <2>3, Constants DEF WalkUnreadable, WalkBroken, Shape, TypeOK
    <3>4. /\ Reached(m.entry)'
          /\ ~(Queued(m.entry)')
      BY <1>2, <1>5, <3>1, <3>3 DEF Reached, Queued
    <3>5. Emitted(m)' <=> m \in Owed(next)
      BY <1>0, <1>1, <1>5, <3>4 DEF Emitted
    <3>6. QED
      BY <2>3, <3>1, <3>2, <3>5
  <2>4. CASE WalkSendError \/ WalkEnds
    <3>1. ~WalkSendError
      <4>1. pc[W] # "ended" => main = "print"
        BY QuietPrinter, Constants
      <4>2. QED
        BY <1>0, <4>1 DEF WalkSendError, PathsReceived
    <3>2. /\ pc[W] = "stop" /\ pc' = [pc EXCEPT ![W] = "ended"] /\ UNCHANGED <<next, paths>>
          /\ ~WalkUnreadable /\ ~WalkBroken
      BY <2>0, <2>4, <3>1 DEF WalkEnds, Ready, WalkUnreadable, WalkBroken
    <3>3. pc'[W] = "ended"
      BY <3>2, Constants DEF Shape, TypeOK
    <3>4. /\ Reached(m.entry)' <=> Reached(m.entry)
          /\ Queued(m.entry)' <=> Queued(m.entry)
      BY <3>2, <3>3 DEF Reached, Queued
    <3>5. QED
      BY <1>0, <3>2, <3>4 DEF Emitted
  <2>5. QED
    BY <2>1, <2>2, <2>3, <2>4 DEF WalkerStep
<1>6. QED
  BY <1>3, <1>4, <1>5

\* What is produced about a file when its worker is there.
Shown(i, at) ==
  CASE at = "handle" -> {}
    [] at = "scan" -> Logs(i)
    [] at \notin {"handle", "scan"} -> Logs(i) \cup Results(i)

\* What a step of a worker adds about its file.
LEMMA WorkerEmits ==
  ASSUME Shape, Distinct, NEW w \in Workers, file[w] \in Files,
         UNCHANGED <<next, paths, format>>, pc'[WalkerThread] = pc[WalkerThread],
         \A v \in Workers : v # w => pc'[v] = pc[v] /\ file'[v] = file[v],
         file'[w] = file[w] \/ (file'[w] = 0 /\ pc'[w] \notin {"handle", "scan"}),
         NEW N, Shown(file[w], pc'[w]) = Shown(file[w], pc[w]) \cup N,
         Shown(file[w], pc[w]) \cap N = {}
  PROVE  /\ \A m : Emitted(m)' <=> Emitted(m) \/ m \in N
         /\ \A m \in N : ~Emitted(m)
<1> DEFINE i == file[w]
<1>0. i \in DOMAIN Entries /\ i # 0 /\ i \in Files
  BY Numbers
<1>1. /\ Owed(i) = Logs(i) \cup Results(i)
      /\ \A m \in Owed(i) : m.entry = i
  BY <1>0, OwedFacts
<1>2. \A p : Shown(i, p) \subseteq Owed(i)
  BY <1>1 DEF Shown
<1>3. N \subseteq Owed(i)
  BY <1>2
<1>4. ASSUME NEW m, m.entry = i PROVE (Emitted(m) <=> m \in Shown(i, pc[w])) /\ (Emitted(m)' <=> m \in Shown(i, pc'[w]))
  <2>1. Emitted(m) <=> /\ m \in Owed(file[w]) /\ pc[w] # "handle"
                       /\ pc[w] = "scan" => m \in Logs(file[w])
    BY <1>4, EmittedHeld
  <2>2. Emitted(m)' <=> /\ m \in Owed(file[w])
                        /\ file'[w] = file[w] =>
                             pc'[w] # "handle" /\ (pc'[w] = "scan" => m \in Logs(file[w]))
    BY <1>4, EmittedWorker
  <2>3. file'[w] # file[w] => pc'[w] \notin {"handle", "scan"}
    BY <1>0
  <2>4. Emitted(m) <=> m \in Shown(i, pc[w])
    BY <1>1, <2>1 DEF Shown
  <2>5. Emitted(m)' <=> m \in Shown(i, pc'[w])
    BY <1>1, <2>2, <2>3 DEF Shown
  <2>6. QED
    BY <2>4, <2>5
<1>5. ASSUME NEW m, m.entry # i PROVE (Emitted(m)' <=> Emitted(m)) /\ m \notin N
  <2>1. Emitted(m)' <=> Emitted(m)
    BY <1>5, EmittedWorker
  <2>2. QED
    BY <1>1, <1>3, <1>5, <2>1
<1>6. ASSUME NEW m PROVE (Emitted(m)' <=> Emitted(m) \/ m \in N) /\ (m \in N => ~Emitted(m))
  <2>1. CASE m.entry = i
    BY <1>4, <2>1
  <2>2. CASE m.entry # i
    <3>1. (Emitted(m)' <=> Emitted(m)) /\ m \notin N
      BY <1>5, <2>2
    <3>2. QED
      BY <3>1
  <2>3. QED
    BY <2>1, <2>2
<1>7. QED
  BY <1>6

\* Without a fatal error every message is in exactly one place from the moment
\* it is produced.
Balanced == Once /\ \A m : Placed(m) <=> Emitted(m)

LEMMA BalancedMoves ==
  ASSUME Balanced, Once', \A m : Placed(m)' <=> Placed(m), \A m : Emitted(m)' <=> Emitted(m)
  PROVE  Balanced'
BY DEF Balanced

LEMMA BalancedProduces ==
  ASSUME Shape, Balanced, NEW t \in Threads, NEW q \in Seq(Messages), Produces(t, q),
         NEW S, output_buffer' = output_buffer \cup S,
         NEW N, \A m : m \in N <=> m \in S \/ \E k \in 1..Len(q) : q[k] = m,
         \A k \in 1..Len(q) : q[k] \notin S,
         \A j, k \in 1..Len(q) : j # k => q[j] # q[k],
         \A m : Emitted(m)' <=> Emitted(m) \/ m \in N,
         \A m \in N : ~Emitted(m)
  PROVE  Balanced'
<1>1. /\ \A k \in 1..Len(q) : ~Placed(q[k]) /\ q[k] \notin S
      /\ \A m \in S : ~Placed(m)
      /\ Once
  BY DEF Balanced
<1>2. Once' /\ \A m : Placed(m)' <=> Placed(m) \/ m \in S \/ \E k \in 1..Len(q) : q[k] = m
  BY <1>1, OnceProduces
<1>3. \A m : Placed(m)' <=> Emitted(m)'
  BY <1>2 DEF Balanced
<1>4. QED
  BY <1>2, <1>3 DEF Balanced

LEMMA BalancedSame ==
  ASSUME Shape, Balanced, NEW t \in Threads, Produces(t, <<>>), output_buffer' = output_buffer,
         \A m : Emitted(m)' <=> Emitted(m)
  PROVE  Balanced'
<1>1. <<>> \in Seq(Messages) /\ Len(<<>>) = 0
  OBVIOUS
<1>2. \A k \in 1..Len(<<>>) : FALSE
  BY <1>1
<1> DEFINE q == <<>>
<1>3. q \in Seq(Messages) /\ Produces(t, q) /\ \A k \in 1..Len(q) : FALSE
  BY <1>1, <1>2
<1> HIDE DEF q
<1> DEFINE S == {}
<1>4. output_buffer' = output_buffer \cup S /\ \A m : m \notin S
  OBVIOUS
<1> HIDE DEF S
<1>5. \A m : m \in S <=> m \in S \/ \E k \in 1..Len(q) : q[k] = m
  BY <1>3
<1>6. \A k \in 1..Len(q) : q[k] \notin S
  BY <1>3
<1>7. \A j, k \in 1..Len(q) : j # k => q[j] # q[k]
  BY <1>3
<1>8. \A m : Emitted(m)' <=> Emitted(m) \/ m \in S
  BY <1>4
<1>9. \A m \in S : ~Emitted(m)
  BY <1>4
<1>10. QED
  BY <1>3, <1>4, <1>5, <1>6, <1>7, <1>8, <1>9, BalancedProduces

\* A worker that has no file.
LEMMA EmittedIdle ==
  ASSUME Shape, NEW w \in Workers, file[w] = 0, UNCHANGED <<next, paths, format, file>>,
         \A t \in Threads : t # w => pc'[t] = pc[t], NEW m
  PROVE  Emitted(m)' <=> Emitted(m)
<1>0. /\ \A i : /\ Owed(i)' = Owed(i) /\ Logs(i)' = Logs(i) /\ Reached(i)' = Reached(i)
                /\ Queued(i)' = Queued(i)
  BY OwedSame, Constants DEF Reached, Queued
<1>1. CASE m.entry \notin DOMAIN Entries
  BY <1>1 DEF Emitted
<1>2. CASE m.entry \in DOMAIN Entries
  <2>1. file[w] # m.entry
    BY <1>2, Numbers
  <2>2. \A v \in Workers : file[v] = m.entry => pc'[v] = pc[v]
    BY <2>1, Constants
  <2>3. QED
    BY <1>0, <2>2 DEF Emitted
<1>3. QED
  BY <1>1, <1>2

LEMMA BalancedWorker ==
  ASSUME Shape, Distinct, Balanced, ~FatalSeen', NEW w \in Workers, UNCHANGED format,
         ((Take(w) \/ NoMorePaths(w) \/ AfterError(w)) /\ UNCHANGED scanVars) \/ Reported(w)
  PROVE  Balanced'
<1> USE Constants
<1>0. /\ w \in Threads /\ outbox[w] = <<>> /\ outbox \in [Threads -> Seq(Messages)]
      /\ pc \in [Threads -> {"walk", "stop", "recv", "handle", "scan", "report", "failed"} \cup Gone]
      /\ file \in [Workers -> {0} \cup DOMAIN Entries]
      /\ output_buffer' = output_buffer
  BY DEF Shape, TypeOK, Take, NoMorePaths, AfterError, Reported, Ready, scanVars
<1>1. Produces(w, <<>>)
  BY <1>0 DEF Produces, Take, NoMorePaths, AfterError, Reported, Ready, Gone
<1>2. ASSUME NEW m PROVE Emitted(m)' <=> Emitted(m)
  <2>1. CASE Take(w)
    BY <2>1, EmittedTake
  <2>2. CASE NoMorePaths(w)
    <3>1. file[w] = 0 /\ UNCHANGED <<next, paths, format, file>> /\ \A t \in Threads : t # w => pc'[t] = pc[t]
      BY <1>0, <2>2 DEF NoMorePaths, Ready, Shape, Places
    <3>2. QED
      BY <3>1, EmittedIdle
  <2>3. CASE AfterError(w) \/ Reported(w)
    <3>1. /\ file[w] \in Files /\ pc[w] \in {"failed", "report"} /\ pc'[w] \in {"ended", "recv"}
          /\ UNCHANGED <<next, paths, format>> /\ pc'[WalkerThread] = pc[WalkerThread]
          /\ \A v \in Workers : v # w => pc'[v] = pc[v] /\ file'[v] = file[v]
          /\ file'[w] = 0
      BY <1>0, <2>3 DEF AfterError, Reported, Ready, Shape, Places, Working
    <3>2. /\ Shown(file[w], pc'[w]) = Shown(file[w], pc[w]) \cup {}
          /\ Shown(file[w], pc[w]) \cap {} = {}
      BY <3>1 DEF Shown
    <3> DEFINE N == {}
    <3>3. /\ Shown(file[w], pc'[w]) = Shown(file[w], pc[w]) \cup N
          /\ Shown(file[w], pc[w]) \cap N = {}
          /\ m \notin N
      BY <3>2
    <3> HIDE DEF N
    <3>4. file'[w] = file[w] \/ (file'[w] = 0 /\ pc'[w] \notin {"handle", "scan"})
      BY <3>1
    <3>5. Emitted(m)' <=> Emitted(m) \/ m \in N
      BY <3>1, <3>3, <3>4, WorkerEmits
    <3>6. QED
      BY <3>3, <3>5
  <2>4. QED
    BY <2>1, <2>2, <2>3
<1>3. QED
  BY <1>0, <1>1, <1>2, BalancedSame

\* The steps of the file handler that make results.
LEMMA BalancedHandle ==
  ASSUME Shape, Distinct, Balanced, ~FatalSeen', NEW w \in Workers,
         StartScan(w) \/ ScanFails(w) \/ ScanSucceeds(w)
  PROVE  Balanced'
<1> USE Constants
<1> DEFINE i == file[w]
<1>0. /\ w \in Threads /\ outbox[w] = <<>> /\ outbox \in [Threads -> Seq(Messages)]
      /\ pc \in [Threads -> {"walk", "stop", "recv", "handle", "scan", "report", "failed"} \cup Gone]
      /\ i \in Files /\ i \in DOMAIN Entries
      /\ UNCHANGED <<format, next, paths, file>>
      /\ \A v \in Threads : v # w => pc'[v] = pc[v]
  BY DEF Shape, TypeOK, Places, Working, Files, StartScan, ScanFails, ScanSucceeds, Fail, Ready
<1>1. Logs(i) \cap Results(i) = {}
  BY <1>0, OwedFacts
<1>2. /\ Entries[i].rules \in Nat /\ Entries[i].fails \in BOOLEAN /\ Entries[i].logs \in BOOLEAN
      /\ format.output \in {"text", "ndjson", "json"} /\ format.count_only \in BOOLEAN /\ format \in Formats
  BY <1>0, ScanCommandAssumption DEF Files, Shape, TypeOK
<1>3. ASSUME NEW q \in Seq(Messages), NEW S, NEW N, outbox' = [outbox EXCEPT ![w] = q],
             UNCHANGED <<msgs, main, joined, printed>>, pc[w] \notin Gone, pc'[w] # "panicked",
             output_buffer' = output_buffer \cup S,
             \A m : m \in N <=> m \in S \/ \E k \in 1..Len(q) : q[k] = m,
             \A k \in 1..Len(q) : q[k] \notin S,
             \A j, k \in 1..Len(q) : j # k => q[j] # q[k],
             Shown(i, pc'[w]) = Shown(i, pc[w]) \cup N, Shown(i, pc[w]) \cap N = {}
      PROVE  Balanced'
  <2>1. Produces(w, q)
    BY <1>0, <1>3 DEF Produces
  <2>2. /\ pc'[WalkerThread] = pc[WalkerThread]
        /\ \A v \in Workers : v # w => pc'[v] = pc[v] /\ file'[v] = file[v]
        /\ file'[w] = file[w] \/ (file'[w] = 0 /\ pc'[w] \notin {"handle", "scan"})
    BY <1>0
  <2>3. /\ \A m : Emitted(m)' <=> Emitted(m) \/ m \in N
        /\ \A m \in N : ~Emitted(m)
    BY <1>0, <1>3, <2>2, WorkerEmits
  <2>4. QED
    BY <1>0, <1>3, <2>1, <2>3, BalancedProduces
<1>4. CASE StartScan(w)
  <2> DEFINE q == IF Entries[i].logs THEN <<Info(i, 0)>> ELSE <<>>
  <2>1. /\ outbox' = [outbox EXCEPT ![w] = q] /\ UNCHANGED <<msgs, main, joined, printed, output_buffer>>
        /\ pc[w] = "handle" /\ pc'[w] = "scan"
    BY <1>0, <1>4 DEF StartScan, Ready
  <2>2. q \in Seq(Messages)
    <3>1. Info(i, 0) \in Messages
      BY <1>0, MessagesTyped
    <3>2. QED
      BY <3>1
  <2>3. /\ \A m : m \in Logs(i) <=> \E k \in 1..Len(q) : q[k] = m
        /\ \A j, k \in 1..Len(q) : j = k
    <3>1. CASE Entries[i].logs
      <4>1. Len(q) = 1 /\ q[1] = Info(i, 0) /\ Logs(i) = {Info(i, 0)}
        BY <3>1 DEF Logs
      <4> HIDE DEF q
      <4>2. 1..Len(q) = {1}
        BY <4>1
      <4>3. QED
        BY <4>1, <4>2
    <3>2. CASE ~Entries[i].logs
      <4>1. Len(q) = 0 /\ Logs(i) = {}
        BY <3>2 DEF Logs
      <4> HIDE DEF q
      <4>2. 1..Len(q) = {}
        BY <4>1
      <4>3. QED
        BY <4>1, <4>2
    <3>3. QED
      BY <3>1, <3>2
  <2> HIDE DEF q
  <2> DEFINE S == {}
  <2>4. output_buffer' = output_buffer \cup S /\ \A m : m \notin S
    BY <2>1
  <2> HIDE DEF S
  <2>5. Shown(i, pc'[w]) = Shown(i, pc[w]) \cup Logs(i) /\ Shown(i, pc[w]) \cap Logs(i) = {}
    BY <2>1 DEF Shown
  <2>6. pc[w] \notin Gone /\ pc'[w] # "panicked"
    BY <2>1 DEF Gone
  <2>7. /\ \A m : m \in Logs(i) <=> m \in S \/ \E k \in 1..Len(q) : q[k] = m
        /\ \A k \in 1..Len(q) : q[k] \notin S
        /\ \A j, k \in 1..Len(q) : j # k => q[j] # q[k]
    BY <2>3, <2>4
  <2>8. QED
    BY <1>3, <2>1, <2>2, <2>4, <2>5, <2>6, <2>7
<1>5. CASE ScanFails(w)
  <2>0. "scan" \notin FatalErrors /\ Entries[i].fails
    BY <1>5, FailIsFatal DEF ScanFails
  <2> DEFINE q == <<Error("scan", i)>>
  <2>1. /\ outbox' = [outbox EXCEPT ![w] = Report("scan", i)] /\ UNCHANGED <<msgs, main, joined, printed, output_buffer>>
        /\ pc[w] = "scan" /\ pc'[w] = "failed"
    BY <1>0, <1>5 DEF ScanFails, Ready, Fail
  <2>2. Error("scan", i) \in Messages
    BY <1>0, MessagesTyped DEF ErrorKinds
  <2>3. q \in Seq(Messages) /\ Len(q) = 1 /\ q[1] = Error("scan", i)
    BY <2>2
  <2>4. Report("scan", i) = q
    BY <2>0 DEF Report
  <2> HIDE DEF q
  <2>5. 1..Len(q) = {1} /\ Results(i) = {Error("scan", i)}
    BY <2>0, <2>3 DEF Results
  <2> DEFINE S == {}
  <2>6. output_buffer' = output_buffer \cup S /\ \A m : m \notin S
    BY <2>1
  <2> HIDE DEF S
  <2>7. Shown(i, pc'[w]) = Shown(i, pc[w]) \cup Results(i) /\ Shown(i, pc[w]) \cap Results(i) = {}
    BY <1>1, <2>1 DEF Shown
  <2>8. pc[w] \notin Gone /\ pc'[w] # "panicked"
    BY <2>1 DEF Gone
  <2>9. /\ \A m : m \in Results(i) <=> m \in S \/ \E k \in 1..Len(q) : q[k] = m
        /\ \A k \in 1..Len(q) : q[k] \notin S
        /\ \A j, k \in 1..Len(q) : j # k => q[j] # q[k]
    BY <2>3, <2>5, <2>6
  <2>10. outbox' = [outbox EXCEPT ![w] = q] /\ UNCHANGED <<msgs, main, joined, printed>>
    BY <2>1, <2>4
  <2>11. q \in Seq(Messages)
    BY <2>3
  <2>12. QED
    BY <1>3, <2>6, <2>7, <2>8, <2>9, <2>10, <2>11
<1>6. CASE ScanSucceeds(w)
  <2> DEFINE q == Lines(i)
  <2> DEFINE S == IF format.output = "json" THEN {Info(i, n) : n \in 1 .. Entries[i].rules} ELSE {}
  <2>1. /\ outbox' = [outbox EXCEPT ![w] = q] /\ UNCHANGED <<msgs, main, joined, printed>>
        /\ output_buffer' = output_buffer \cup S
        /\ pc[w] = "scan" /\ pc'[w] = "report" /\ ~Entries[i].fails
    BY <1>0, <1>6 DEF ScanSucceeds, Ready, Buffered
  <2>2. Results(i) = {Info(i, n) : n \in 1..LinesPerFile(i)} /\ \A n : Info(i, n).n = n
    BY <2>1, MessageFields DEF Results
  <2>3. /\ q \in Seq(Messages)
        /\ \A m : m \in Results(i) <=> m \in S \/ \E k \in 1..Len(q) : q[k] = m
        /\ \A k \in 1..Len(q) : q[k] \notin S
        /\ \A j, k \in 1..Len(q) : j # k => q[j] # q[k]
    <3>0. q \in Seq(Messages)
      BY <1>0, <1>2, LinesTyped
    <3>1. CASE format.output = "text" /\ ~format.count_only
      <4>1. q = [n \in 1 .. Entries[i].rules |-> Info(i, n)]
        BY <3>1 DEF Lines, TextLines
      <4>2. Len(q) = Entries[i].rules /\ S = {} /\ LinesPerFile(i) = Entries[i].rules
        BY <3>0, <3>1, <4>1, <1>2, LenProperties DEF LinesPerFile
      <4>3. \A k \in 1..Len(q) : q[k] = Info(i, k)
        BY <4>1, <4>2
      <4> HIDE DEF q, S
      <4>4. QED
        BY <2>2, <3>0, <4>2, <4>3
    <3>2. CASE format.output = "ndjson" \/ (format.output = "text" /\ format.count_only)
      <4>1. q = <<Info(i, 1)>> /\ S = {} /\ LinesPerFile(i) = 1
        BY <3>2 DEF Lines, TextLines, NdjsonLines, LinesPerFile
      <4>2. Len(q) = 1 /\ q[1] = Info(i, 1)
        BY <4>1
      <4> HIDE DEF q, S
      <4>3. 1..Len(q) = {1} /\ 1..LinesPerFile(i) = {1}
        BY <4>1, <4>2
      <4>4. Results(i) = {Info(i, 1)}
        BY <2>2, <4>3
      <4>5. QED
        BY <3>0, <4>1, <4>2, <4>3, <4>4
    <3>3. CASE format.output = "json"
      <4>1. q = <<>> /\ S = Results(i)
        BY <2>2, <3>3 DEF Lines, LinesPerFile
      <4>2. 1..Len(q) = {}
        BY <4>1
      <4> HIDE DEF q, S
      <4>3. QED
        BY <3>0, <4>1, <4>2
    <3>4. QED
      BY <1>2, <3>1, <3>2, <3>3
  <2> HIDE DEF q, S
  <2>4. Shown(i, pc'[w]) = Shown(i, pc[w]) \cup Results(i) /\ Shown(i, pc[w]) \cap Results(i) = {}
    BY <1>1, <2>1 DEF Shown
  <2>5. pc[w] \notin Gone /\ pc'[w] # "panicked"
    BY <2>1 DEF Gone
  <2>6. QED
    BY <1>3, <2>1, <2>3, <2>4, <2>5
<1>7. QED
  BY <1>4, <1>5, <1>6

\* The walker thread produces the errors of the walk.
LEMMA BalancedWalker ==
  ASSUME Shape, Explained, Distinct, Balanced, ~FatalSeen, ~FatalSeen', WalkerStep, UNCHANGED scanVars
  PROVE  Balanced'
<1> USE Constants
<1> DEFINE W == WalkerThread
<1>0. /\ format' = format /\ output_buffer' = output_buffer /\ W \in Threads
      /\ pc \in [Threads -> {"walk", "stop", "recv", "handle", "scan", "report", "failed"} \cup Gone]
      /\ outbox \in [Threads -> Seq(Messages)]
  BY DEF scanVars, Shape, TypeOK
<1>1. \A m : Emitted(m)' <=>
        Emitted(m) \/ (/\ WalkUnreadable \/ WalkBroken
                       /\ m = Error("walk", next))
  BY <1>0, EmittedWalker
<1>2. ~WalkSendError
  <2>1. WalkSendError => pc[W] # "ended" /\ pc[W] # "panicked"
    BY DEF WalkSendError, Ready
  <2>2. WalkSendError => main = "print"
    BY <1>0, <2>1, QuietPrinter
  <2>3. QED
    BY <2>2 DEF WalkSendError, PathsReceived
<1>3. CASE WalkFile \/ WalkFiltered \/ WalkEnds
  <2>1. ~WalkUnreadable /\ ~WalkBroken
    BY <1>3, Numbers DEF WalkFile, WalkFiltered, WalkEnds, WalkUnreadable, WalkBroken, Ready
  <2>2. Produces(W, <<>>)
    BY <1>0, <1>3 DEF Produces, WalkFile, WalkFiltered, WalkEnds, Ready, Gone
  <2>3. \A m : Emitted(m)' <=> Emitted(m)
    BY <1>1, <2>1
  <2>4. QED
    BY <1>0, <2>2, <2>3, BalancedSame
<1>4. CASE WalkUnreadable \/ WalkBroken
  <2>0. /\ next \in DOMAIN Entries /\ Entries[next].kind \in {"unreadable", "broken"}
        /\ pc[W] = "walk" /\ outbox[W] = <<>>
    BY <1>4, Numbers DEF WalkUnreadable, WalkBroken, Ready
  <2> DEFINE r == Report("walk", next)
  <2>1. r \in Seq(Messages) /\ Error("walk", next) \in Messages
    BY <2>0, MessagesTyped DEF ErrorKinds
  <2>2. WalkBroken => outbox' = [outbox EXCEPT ![W] = r]
    BY DEF WalkBroken
  <2>3. ASSUME WalkBroken, "walk" \in FatalErrors PROVE FALSE
    <3>1. Len(r) = 2 /\ r[1] = Error("walk", next)
      BY <2>0, <2>3, ReportElements DEF ErrorKinds
    <3> HIDE DEF r
    <3>2. /\ outbox' = [outbox EXCEPT ![W] = r] /\ r[1] = Error("walk", next)
          /\ Len(r) \in Nat /\ Len(r) >= 1 /\ next \in {0} \cup DOMAIN Entries
      BY <2>0, <2>2, <2>3, <3>1
    <3>3. FatalSeen'
      BY <1>0, <2>3, <3>2, FatalReported
    <3>4. QED
      BY <3>3
  <2>4. "walk" \notin FatalErrors
    BY <1>4, <2>3, UnreadableIsFatal
  <2> DEFINE q == <<Error("walk", next)>>
  <2>5. r = q
    BY <2>4 DEF Report
  <2>6. q \in Seq(Messages) /\ Len(q) = 1 /\ q[1] = Error("walk", next)
    BY <2>1
  <2>7. outbox' = [outbox EXCEPT ![W] = q]
    BY <1>4, <2>4, <2>5 DEF WalkUnreadable, WalkBroken
  <2> HIDE DEF q, r
  <2>8. Produces(W, q)
    BY <1>0, <1>4, <2>0, <2>4, <2>7 DEF Produces, WalkUnreadable, WalkBroken, Gone
  <2>9. 1..Len(q) = {1}
    BY <2>6
  <2> DEFINE N == {Error("walk", next)}
  <2> DEFINE S == {}
  <2>10. /\ \A m : m \in N <=> m \in S \/ \E k \in 1..Len(q) : q[k] = m
         /\ \A k \in 1..Len(q) : q[k] \notin S
         /\ \A j, k \in 1..Len(q) : j # k => q[j] # q[k]
         /\ output_buffer' = output_buffer \cup S
    BY <1>0, <2>6, <2>9
  <2>11. \A m : Emitted(m)' <=> Emitted(m) \/ m \in N
    BY <1>1, <1>4
  <2>12. ~Reached(next)
    BY <2>0, Numbers DEF Reached
  <2>13. ~Emitted(Error("walk", next))
    <3>1. Error("walk", next).entry = next
      BY DEF Error
    <3> HIDE DEF N, S
    <3>2. QED
      BY <2>12, <3>1 DEF Emitted
  <2>14. \A m \in N : ~Emitted(m)
    BY <2>13
  <2> HIDE DEF N, S
  <2>15. q \in Seq(Messages)
    BY <2>6
  <2>16. QED
    BY <1>0, <2>8, <2>10, <2>11, <2>14, <2>15, BalancedProduces
<1>5. QED
  BY <1>2, <1>3, <1>4 DEF WalkerStep

\* Nothing is produced when no thread changes its place.
LEMMA EmittedSame ==
  ASSUME UNCHANGED <<next, paths, format, file, pc>>
  PROVE  \A m : Emitted(m)' <=> Emitted(m)
<1>1. \A i : /\ Owed(i)' = Owed(i) /\ Logs(i)' = Logs(i) /\ Reached(i)' = Reached(i)
             /\ Queued(i)' = Queued(i)
  BY OwedSame DEF Reached, Queued
<1>2. QED
  BY <1>1 DEF Emitted

LEMMA BalancedMain ==
  ASSUME Shape, Explained, Balanced, ~FatalSeen, MainStep, ~Totalled'
  PROVE  Balanced'
<1>0. \A m : Emitted(m)' <=> Emitted(m)
  <2>1. UNCHANGED <<next, paths, format, file, pc>>
    BY DEF MainStep, Display, AbortReceived, Disconnected, JoinThread, JoinPanicked, Unwound, Done, WalkDone, scanVars
  <2>2. QED
    BY <2>1, EmittedSame
<1>1. Once
  BY DEF Balanced
<1>2. CASE Display /\ UNCHANGED scanVars
  <2>1. Display /\ UNCHANGED output_buffer
    BY <1>2 DEF scanVars
  <2>2. Once' /\ \A m : Placed(m)' <=> Placed(m)
    BY <1>1, <2>1, OnceDisplay
  <2>3. QED
    BY <1>0, <2>2, BalancedMoves
<1>3. CASE Done
  <2>0. ~(format.output = "json" /\ format.count_only)
    BY <1>3 DEF Done, WalkDone, Totalled
  <2>1. Once' /\ \A m : Placed(m)' <=> Placed(m)
    BY <1>1, <1>3, <2>0, OnceDone
  <2>2. QED
    BY <1>0, <2>1, BalancedMoves
<1>4. CASE AbortReceived
  <2>1. msgs \in Seq(Messages) /\ msgs # <<>> /\ Head(msgs) = Abort
    BY <1>4 DEF AbortReceived, Shape, TypeOK
  <2>2. 1 \in 1..Len(msgs) /\ msgs[1] = Abort
    BY <2>1, LenProperties
  <2>3. FatalPrinted \/ \E j \in 1..(1 - 1) : Fatal(msgs[j])
    BY <2>2 DEF Explained
  <2>4. QED
    BY <2>3 DEF FatalSeen
<1>5. CASE UNCHANGED <<printed, msgs, outbox, output_buffer>>
  <2>1. Once' /\ \A m : Placed(m)' <=> Placed(m)
    BY <1>1, <1>5 DEF Once, Placed
  <2>2. QED
    BY <1>0, <2>1, BalancedMoves
<1>6. QED
  BY <1>2, <1>3, <1>4, <1>5 DEF MainStep, Disconnected, JoinThread, JoinPanicked, Unwound, scanVars

LEMMA CompleteInit == Init => Complete
<1> SUFFICES ASSUME Init PROVE Balanced
  BY DEF Complete, Balanced
<1>1. /\ printed = EmptyBag /\ msgs = <<>> /\ output_buffer = {} /\ next = 1
      /\ \A t \in Threads : outbox[t] = <<>>
      /\ pc[WalkerThread] = "walk"
  BY Constants DEF Init, WalkInit
<1>2. BagToSet(printed) = {}
  BY <1>1 DEF BagToSet, EmptyBag, SetToBag
<1>3. \A k \in 1..Len(<<>>) : FALSE
  OBVIOUS
<1>4. \A m : ~Placed(m)
  BY <1>1, <1>2, <1>3 DEF Placed
<1>5. \A m : ~Emitted(m)
  <2>1. \A i \in DOMAIN Entries : ~Reached(i)
    BY <1>1, ParWalkerAssumption DEF Reached
  <2>2. QED
    BY <2>1 DEF Emitted
<1>6. Once
  BY <1>1, <1>2, <1>3 DEF Once
<1>7. QED
  BY <1>4, <1>5, <1>6 DEF Balanced

LEMMA TotalledStable ==
  ASSUME [Next]_vars, Totalled
  PROVE  Totalled'
BY DEF Totalled, Next, WorkerStep, Handle, Send, Take, NoMorePaths, AfterError, TimeIsOver, StartScan, ScanFails,
       ScanTimesOut, ScanSucceeds, Reported, Fail, WalkerThreadStep, WalkerStep, WalkFile, WalkFiltered,
       WalkUnreadable, WalkBroken, WalkSendError, WalkEnds, MainStep, Display, AbortReceived, Disconnected,
       JoinThread, JoinPanicked, Unwound, Done, WalkDone, Expire, Finished, vars, walkVars, scanVars

LEMMA CompleteNext == Shape /\ Explained /\ Distinct /\ Complete /\ [Next]_vars => Complete'
<1> SUFFICES ASSUME Shape, Explained, Distinct, Complete, [Next]_vars, ~FatalSeen', ~Totalled' PROVE Balanced'
  BY DEF Complete, Balanced
<1>0. ~FatalSeen /\ Balanced
  BY FatalSeenStable, TotalledStable DEF Complete, Balanced
<1> USE Constants
<1>1. ASSUME NEW t \in Threads, Send(t), UNCHANGED scanVars PROVE Balanced'
  <2>1. outbox[t] # <<>> /\ pc[t] # "ended"
    BY <1>1 DEF Send, Shape, Places, Gone
  <2>2. main = "print"
    BY <1>0, <2>1, QuietPrinter
  <2>3. UNCHANGED <<next, paths, format, file, pc, output_buffer>>
    BY <1>1, <2>2 DEF Send, MsgsReceived, scanVars
  <2>4. Once' /\ \A m : Placed(m)' <=> Placed(m)
    BY <1>0, <1>1, <2>2, <2>3, OnceSend DEF Balanced
  <2>5. \A m : Emitted(m)' <=> Emitted(m)
    BY <2>3, EmittedSame
  <2>6. QED
    BY <1>0, <2>4, <2>5, BalancedMoves
<1>2. ASSUME NEW w \in Workers, WorkerStep(w) PROVE Balanced'
  <2>1. CASE Send(w) /\ UNCHANGED scanVars
    BY <1>1, <2>1
  <2>2. CASE (Take(w) \/ NoMorePaths(w) \/ AfterError(w)) /\ UNCHANGED scanVars
    <3>1. UNCHANGED format
      BY <2>2 DEF scanVars
    <3>2. QED
      BY <1>0, <2>2, <3>1, BalancedWorker
  <2>3. CASE Reported(w)
    <3>1. UNCHANGED format
      BY <2>3 DEF Reported
    <3>2. QED
      BY <1>0, <2>3, <3>1, BalancedWorker
  <2>4. CASE TimeIsOver(w) \/ ScanTimesOut(w)
    BY <2>4, FailIsFatal, ScanCommandAssumption DEF TimeIsOver, ScanTimesOut
  <2>5. CASE StartScan(w) \/ ScanFails(w) \/ ScanSucceeds(w)
    BY <1>0, <2>5, BalancedHandle
  <2>6. QED
    BY <1>2, <2>1, <2>2, <2>3, <2>4, <2>5 DEF WorkerStep, Handle
<1>3. CASE WalkerThreadStep
  BY <1>0, <1>1, <1>3, BalancedWalker DEF WalkerThreadStep
<1>4. CASE MainStep
  BY <1>0, <1>4, BalancedMain
<1>5. CASE UNCHANGED <<next, paths, format, file, pc, printed, msgs, outbox, output_buffer>>
  <2>1. \A m : Emitted(m)' <=> Emitted(m)
    BY <1>5, EmittedSame
  <2>2. Once /\ UNCHANGED <<printed, msgs, outbox, output_buffer>>
    BY <1>0, <1>5 DEF Balanced
  <2>3. Once' /\ \A m : Placed(m)' <=> Placed(m)
    BY <2>2 DEF Once, Placed
  <2>4. QED
    BY <1>0, <2>1, <2>3, BalancedMoves
<1>6. QED
  BY <1>2, <1>3, <1>4, <1>5 DEF Next, Expire, Finished, vars, walkVars, scanVars

-----------------------------------------------------------------------------

\* When a walk that is not aborted is done nothing is held back any more.
Flushed == main = "done" /\ ~FatalPrinted => output_buffer = {}

LEMMA FlushedInit == Init => Flushed
BY DEF Init, WalkInit, Flushed

LEMMA FlushedNext == Shape /\ Explained /\ Flushed /\ [Next]_vars => Flushed'
<1> SUFFICES ASSUME Shape, Explained, Flushed, [Next]_vars, main' = "done", ~FatalPrinted' PROVE output_buffer' = {}
  BY DEF Flushed
<1>1. CASE Done
  BY <1>1 DEF Done
<1>2. CASE UNCHANGED <<main, printed, output_buffer>>
  BY <1>2 DEF Flushed, FatalPrinted
<1>3. ASSUME NEW w \in Workers, Handle(w) PROVE output_buffer' = {}
  <2>1. UNCHANGED <<main, printed>> /\ pc[w] # "ended"
    BY <1>3 DEF Handle, TimeIsOver, StartScan, ScanFails, ScanTimesOut, ScanSucceeds, Reported, Fail, Ready
  <2>2. QED
    BY <2>1, Constants DEF Explained, AbortIsExplained, FatalPrinted
<1>4. ASSUME MainStep, ~Done PROVE output_buffer' = {}
  <2>1. main' # "done" \/ UNCHANGED <<main, printed, output_buffer>>
    BY <1>4 DEF MainStep, Display, AbortReceived, Disconnected, JoinThread, JoinPanicked, Unwound, scanVars
  <2>2. QED
    BY <1>2, <2>1
<1>5. QED
  BY <1>1, <1>2, <1>3, <1>4
     DEF Next, WorkerStep, WalkerThreadStep, WalkerStep, Send, Take, NoMorePaths, AfterError, WalkFile,
         WalkFiltered, WalkUnreadable, WalkBroken, WalkSendError, WalkEnds, Expire, Finished, vars,
         walkVars, scanVars

\* What belongs on the console besides the results.
Others ==
  {Info(i, 0) : i \in {j \in Walked : Entries[j].kind = "file" /\ Entries[j].logs}}
    \cup {Error("scan", i) : i \in {j \in Walked : Entries[j].kind = "file" /\ Entries[j].fails}}
    \cup {Error("walk", i) : i \in {j \in Walked : Entries[j].kind \in {"unreadable", "broken"}}}

\* What belongs on the console is what the walked entries are owed.
LEMMA ExpectedIsOwed ==
  ASSUME NEW m
  PROVE  m \in Others \cup ResultLines <=> \E i \in Walked : m \in Owed(i)
<1>0. \A i \in Walked : i \in DOMAIN Entries /\ Entries[i].kind \in EntryKinds
  BY ParWalkerAssumption DEF Walked
<1>1. ASSUME NEW i \in Walked, Entries[i].kind = "file", m \in Owed(i) PROVE m \in Others \cup ResultLines
  <2>1. m \in Logs(i) \/ m \in Results(i)
    BY <1>1 DEF Owed
  <2>2. CASE m \in Logs(i)
    BY <1>1, <2>2 DEF Logs, Others
  <2>3. CASE m \in Results(i) /\ Entries[i].fails
    BY <1>1, <2>3 DEF Results, Others
  <2>4. CASE m \in Results(i) /\ ~Entries[i].fails
    <3>1. i \in Scanned /\ m \in {Info(i, n) : n \in 1 .. LinesPerFile(i)}
      BY <1>1, <2>4 DEF Results, Scanned
    <3>2. QED
      BY <3>1 DEF ResultLines
  <2>5. QED
    BY <2>1, <2>2, <2>3, <2>4
<1>2. ASSUME NEW i \in Walked, Entries[i].kind # "file", m \in Owed(i) PROVE m \in Others \cup ResultLines
  BY <1>0, <1>2 DEF Owed, EntryKinds, Others
<1>3. ASSUME m \in Others \cup ResultLines PROVE \E i \in Walked : m \in Owed(i)
  <2>1. CASE m \in {Info(i, 0) : i \in {j \in Walked : Entries[j].kind = "file" /\ Entries[j].logs}}
    BY <2>1 DEF Owed, Logs
  <2>2. CASE m \in {Error("scan", i) : i \in {j \in Walked : Entries[j].kind = "file" /\ Entries[j].fails}}
    BY <2>2 DEF Owed, Results
  <2>3. CASE m \in {Error("walk", i) : i \in {j \in Walked : Entries[j].kind \in {"unreadable", "broken"}}}
    BY <2>3 DEF Owed
  <2>4. CASE m \in ResultLines
    <3>1. PICK i \in Scanned : m \in {Info(i, n) : n \in 1 .. LinesPerFile(i)}
      BY <2>4 DEF ResultLines
    <3>2. i \in Walked /\ m \in Owed(i)
      BY <3>1 DEF Scanned, Owed, Results
    <3>3. QED
      BY <3>2
  <2>5. QED
    BY <1>3, <2>1, <2>2, <2>3, <2>4 DEF Others
<1>4. QED
  BY <1>1, <1>2, <1>3

\* The end of a walk that is not aborted.
LEMMA QuietEnd ==
  ASSUME Shape, Explained, Distinct, Leaving, main # "print", ~FatalPrinted
  PROVE  /\ ~FatalSeen
         /\ \A t \in Threads : pc[t] = "ended" /\ outbox[t] = <<>>
         /\ \A w \in Workers : file[w] = 0
         /\ msgs = <<>> /\ paths = <<>>
         /\ \A i \in DOMAIN Entries : Reached(i) <=> i \in Walked
<1> USE Constants
<1>1. \A t \in Threads : pc[t] = "ended"
  BY DEF Explained, AbortIsExplained
<1>2. /\ \A t \in Threads : outbox[t] = <<>>
      /\ \A w \in Workers : file[w] = 0
      /\ msgs = <<>>
  BY <1>1 DEF Shape, Places, Gone
<1>3. \A k \in 1..Len(<<>>) : FALSE
  OBVIOUS
<1>4. ~FatalSeen
  BY <1>2, <1>3 DEF FatalSeen
<1>5. paths = <<>> /\ (next > Len(Entries) \/ Entries[next].kind = "broken")
  BY <1>1, <1>4 DEF Leaving
<1>6. ASSUME NEW i \in DOMAIN Entries PROVE Reached(i) <=> i \in Walked
  <2>0. i \in Nat /\ next \in Nat /\ i <= Len(Entries) /\ i >= 1
    BY Numbers
  <2>1. Reached(i) <=> i <= next
    BY <1>1, <2>0 DEF Reached
  <2>2. i <= next => i \in Walked
    BY <2>0 DEF Distinct, Walked
  <2>3. CASE next > Len(Entries)
    BY <2>0, <2>1, <2>2, <2>3, Numbers
  <2>4. CASE Entries[next].kind = "broken" /\ next <= Len(Entries)
    <3>1. i > next => i \notin Walked
      BY <2>0, <2>4, Numbers DEF Walked
    <3>2. QED
      BY <2>0, <2>1, <2>2, <3>1
  <2>5. QED
    BY <1>5, <2>0, <2>3, <2>4, Numbers
<1>7. QED
  BY <1>1, <1>2, <1>4, <1>5, <1>6

\* Then every line is on the console or held back.
LEMMA AllPlaced ==
  ASSUME Shape, Explained, Distinct, Leaving, Complete, main # "print", ~Totalled, ~FatalPrinted, NEW m
  PROVE  m \in BagToSet(printed) \/ m \in output_buffer <=> m \in Others \cup ResultLines
<1>1. /\ ~FatalSeen
      /\ \A t \in Threads : outbox[t] = <<>>
      /\ \A w \in Workers : file[w] = 0
      /\ msgs = <<>> /\ paths = <<>>
      /\ \A i \in DOMAIN Entries : Reached(i) <=> i \in Walked
  BY QuietEnd
<1>2. Placed(m) <=> Emitted(m)
  BY <1>1 DEF Complete
<1>3. \A k \in 1..Len(<<>>) : FALSE
  OBVIOUS
<1>4. Placed(m) <=> m \in BagToSet(printed) \/ m \in output_buffer
  BY <1>1, <1>3 DEF Placed
<1>5. Emitted(m) <=> m.entry \in DOMAIN Entries /\ m.entry \in Walked /\ m \in Owed(m.entry)
  <2>1. m.entry \in DOMAIN Entries => \A w \in Workers : file[w] # m.entry
    BY <1>1, Numbers
  <2>2. ~Queued(m.entry)
    BY <1>1, <1>3 DEF Queued
  <2>3. QED
    BY <1>1, <2>1, <2>2 DEF Emitted
<1>6. \A i \in Walked : m \in Owed(i) => m.entry = i
  BY OwedFacts DEF Walked
<1>7. Walked \subseteq DOMAIN Entries
  BY DEF Walked
<1>8. m \in Others \cup ResultLines <=> \E i \in Walked : m \in Owed(i)
  BY ExpectedIsOwed
<1>9. QED
  BY <1>2, <1>4, <1>5, <1>6, <1>7, <1>8

LEMMA BagOfSet ==
  ASSUME NEW B, IsABag(B), NEW S, BagToSet(B) = S, \A m \in S : B[m] = 1
  PROVE  B = SetToBag(S)
BY DEF SetToBag, BagToSet, IsABag

\* Without totals the messages on the console are the ones that belong there.
LEMMA CompleteAtEnd ==
  ASSUME Shape, Explained, Distinct, Leaving, Complete, Flushed, main = "done", ~FatalPrinted, ~Totalled
  PROVE  printed = SetToBag(Expected)
<1>1. ~FatalSeen /\ output_buffer = {}
  BY QuietEnd DEF Flushed
<1>2. \A m : m \in BagToSet(printed) <=> m \in Others \cup ResultLines
  BY <1>1, AllPlaced
<1>3. Expected = Others \cup ResultLines
  BY DEF Expected, Others, Totalled
<1>4. IsABag(printed) /\ \A m \in BagToSet(printed) : printed[m] = 1
  BY <1>1 DEF Complete, Once, Shape, TypeOK
<1>5. BagToSet(printed) = Expected
  BY <1>2, <1>3
<1>6. QED
  BY <1>4, <1>5, BagOfSet

-----------------------------------------------------------------------------
\* In json, results are nowhere but in the buffer until the end.
IsResult(m) == m.kind = "info" /\ m.n > 0

HeldBack ==
  format.output = "json" /\ main # "done" =>
    /\ \A m \in BagToSet(printed) : ~IsResult(m)
    /\ \A k \in 1..Len(msgs) : ~IsResult(msgs[k])
    /\ \A t \in Threads : \A k \in 1..Len(outbox[t]) : ~IsResult(outbox[t][k])

NoResult(q) == \A k \in 1..Len(q) : ~IsResult(q[k])

LEMMA HeldBackInit == Init => HeldBack
<1> SUFFICES ASSUME Init PROVE HeldBack
  OBVIOUS
<1>1. printed = EmptyBag /\ msgs = <<>> /\ \A t \in Threads : outbox[t] = <<>>
  BY DEF Init, WalkInit
<1>2. BagToSet(printed) = {}
  BY <1>1 DEF BagToSet, EmptyBag, SetToBag
<1>3. \A k \in 1..Len(<<>>) : FALSE
  OBVIOUS
<1>4. QED
  BY <1>1, <1>2, <1>3 DEF HeldBack

LEMMA ReportNoResult ==
  ASSUME NEW e \in ErrorKinds, NEW i \in {0} \cup DOMAIN Entries
  PROVE  NoResult(Report(e, i)) /\ NoResult(Report(e, i) \o Report(e, i))
<1> DEFINE r == Report(e, i)
<1>1. r \in Seq(Messages)
  BY MessagesTyped
<1>2. ~IsResult(Error(e, i)) /\ ~IsResult(Abort)
  BY DEF IsResult, Error, Abort, ErrorKinds
<1>3. NoResult(r)
  BY <1>2, ReportElements DEF NoResult
<1> HIDE DEF r
<1>4. Len(r) \in Nat
  BY <1>1, LenProperties
<1>5. /\ Len(r \o r) = Len(r) + Len(r)
      /\ \A k \in 1..(Len(r) + Len(r)) : (r \o r)[k] = IF k <= Len(r) THEN r[k] ELSE r[k - Len(r)]
  BY <1>1, ConcatProperties
<1>6. NoResult(r \o r)
  <2> SUFFICES ASSUME NEW k \in 1..(Len(r) + Len(r)) PROVE ~IsResult((r \o r)[k])
    BY <1>5 DEF NoResult
  <2>1. CASE k <= Len(r)
    BY <1>3, <1>4, <1>5, <2>1 DEF NoResult
  <2>2. CASE k > Len(r)
    <3>1. k - Len(r) \in 1..Len(r) /\ (r \o r)[k] = r[k - Len(r)]
      BY <1>4, <1>5, <2>2
    <3>2. QED
      BY <1>3, <3>1 DEF NoResult
  <2>3. QED
    BY <1>4, <2>1, <2>2
<1>7. QED
  BY <1>3, <1>6 DEF r

\* A step that leaves the printer and the channel alone and puts no result in
\* an outbox.
LEMMA HeldBackQuiet ==
  ASSUME Shape, HeldBack, UNCHANGED <<format, main, msgs, printed>>, NEW t \in Threads, NEW q,
         NoResult(q), outbox' = [outbox EXCEPT ![t] = q]
  PROVE  HeldBack'
<1>1. \A u \in Threads : outbox'[u] = IF u = t THEN q ELSE outbox[u]
  BY DEF Shape, TypeOK
<1>2. QED
  BY <1>1 DEF HeldBack, NoResult

LEMMA HeldBackSend ==
  ASSUME Shape, HeldBack, NEW t \in Threads, Send(t), UNCHANGED scanVars
  PROVE  HeldBack'
<1> SUFFICES ASSUME format.output = "json", main # "done" PROVE HeldBack'
  BY DEF HeldBack, Send, scanVars
<1>0. outbox[t] \in Seq(Messages) /\ outbox[t] # <<>> /\ msgs \in Seq(Messages)
      /\ outbox \in [Threads -> Seq(Messages)]
  BY DEF Shape, TypeOK, Send
<1>1. /\ Head(outbox[t]) = outbox[t][1] /\ 1 \in 1..Len(outbox[t])
      /\ Len(Tail(outbox[t])) = Len(outbox[t]) - 1 /\ Len(outbox[t]) \in Nat
      /\ \A k \in 1..(Len(outbox[t]) - 1) : Tail(outbox[t])[k] = outbox[t][k + 1]
      /\ Head(outbox[t]) \in Messages
  BY <1>0, HeadTailProperties, LenProperties
<1>2. ~IsResult(Head(outbox[t]))
  BY <1>1 DEF HeldBack
<1>3. \A k \in 1..Len(msgs') : ~IsResult(msgs'[k])
  <2>1. CASE msgs' = msgs
    BY <2>1 DEF HeldBack
  <2>2. CASE msgs' = Append(msgs, Head(outbox[t]))
    <3>1. /\ Len(msgs') = Len(msgs) + 1 /\ msgs'[Len(msgs) + 1] = Head(outbox[t]) /\ Len(msgs) \in Nat
          /\ \A k \in 1..Len(msgs) : msgs'[k] = msgs[k]
      BY <1>0, <1>1, <2>2, AppendProperties, LenProperties
    <3>2. QED
      BY <1>2, <3>1 DEF HeldBack
  <2>3. QED
    BY <2>1, <2>2 DEF Send
<1>4. \A u \in Threads : \A k \in 1..Len(outbox'[u]) : ~IsResult(outbox'[u][k])
  <2>1. \A u \in Threads : outbox'[u] = IF u = t THEN outbox'[t] ELSE outbox[u]
    BY <1>0 DEF Send
  <2>2. outbox'[t] = <<>> \/ outbox'[t] = Tail(outbox[t])
    BY <1>0 DEF Send
  <2>3. \A k \in 1..Len(<<>>) : FALSE
    OBVIOUS
  <2>4. \A k \in 1..Len(Tail(outbox[t])) : ~IsResult(Tail(outbox[t])[k])
    <3> SUFFICES ASSUME NEW k \in 1..Len(Tail(outbox[t])) PROVE ~IsResult(Tail(outbox[t])[k])
      OBVIOUS
    <3>1. k + 1 \in 1..Len(outbox[t]) /\ Tail(outbox[t])[k] = outbox[t][k + 1]
      BY <1>1
    <3>2. QED
      BY <3>1 DEF HeldBack
  <2>5. QED
    BY <2>1, <2>2, <2>3, <2>4 DEF HeldBack
<1>5. printed' = printed
  BY DEF Send
<1>6. QED
  BY <1>3, <1>4, <1>5 DEF HeldBack

LEMMA HeldBackNext == Shape /\ HeldBack /\ [Next]_vars => HeldBack'
<1> SUFFICES ASSUME Shape, HeldBack, [Next]_vars PROVE HeldBack'
  OBVIOUS
<1> USE Constants
<1>0. NoResult(<<>>) /\ \A t \in Threads : outbox[t] = <<>> => outbox = [outbox EXCEPT ![t] = <<>>]
  BY DEF NoResult, Shape, TypeOK
<1>1. ASSUME UNCHANGED <<format, main, msgs, printed, outbox>> PROVE HeldBack'
  BY <1>1 DEF HeldBack
<1>2. ASSUME NEW w \in Workers, NEW e \in ErrorKinds, Fail(w, e), UNCHANGED format PROVE HeldBack'
  <2>1. NoResult(Report(e, file[w]))
    BY ReportNoResult DEF Shape, TypeOK
  <2>2. UNCHANGED <<format, main, msgs, printed>> /\ outbox' = [outbox EXCEPT ![w] = Report(e, file[w])]
    BY <1>2 DEF Fail
  <2>3. QED
    BY <2>1, <2>2, HeldBackQuiet
<1>3. ASSUME NEW w \in Workers, Handle(w) PROVE HeldBack'
  <2>1. CASE TimeIsOver(w) \/ ScanFails(w) \/ ScanTimesOut(w)
    BY <1>2, <2>1 DEF TimeIsOver, ScanFails, ScanTimesOut, ErrorKinds, scanVars
  <2>2. CASE StartScan(w)
    <3> DEFINE q == IF Entries[file[w]].logs THEN <<Info(file[w], 0)>> ELSE <<>>
    <3>1. NoResult(q)
      <4>1. ~IsResult(Info(file[w], 0))
        BY DEF IsResult, Info
      <4>2. QED
        BY <4>1 DEF NoResult
    <3> HIDE DEF q
    <3>2. UNCHANGED <<format, main, msgs, printed>> /\ outbox' = [outbox EXCEPT ![w] = q]
      BY <2>2 DEF StartScan, q
    <3>3. QED
      BY <3>1, <3>2, HeldBackQuiet
  <2>3. CASE ScanSucceeds(w)
    <3>1. UNCHANGED <<format, main, msgs, printed>> /\ outbox' = [outbox EXCEPT ![w] = Lines(file[w])]
      BY <2>3 DEF ScanSucceeds
    <3>2. format.output # "json" => HeldBack'
      BY <3>1 DEF HeldBack
    <3>3. format.output = "json" => NoResult(Lines(file[w]))
      BY <1>0 DEF Lines
    <3>4. QED
      BY <3>1, <3>2, <3>3, HeldBackQuiet
  <2>4. CASE Reported(w)
    BY <1>1, <2>4 DEF Reported
  <2>5. QED
    BY <1>3, <2>1, <2>2, <2>3, <2>4 DEF Handle
<1>4. ASSUME NEW w \in Workers, WorkerStep(w) PROVE HeldBack'
  BY <1>1, <1>3, <1>4, HeldBackSend DEF WorkerStep, Take, NoMorePaths, AfterError, scanVars
<1>5. ASSUME WalkerStep, UNCHANGED scanVars PROVE HeldBack'
  <2>1. UNCHANGED <<format, main, msgs, printed>>
    BY <1>5 DEF WalkerStep, WalkFile, WalkFiltered, WalkUnreadable, WalkBroken, WalkSendError, WalkEnds, scanVars
  <2>2. CASE outbox' = outbox
    BY <1>1, <2>1, <2>2
  <2>3. CASE outbox' # outbox
    <3>1. next \in {0} \cup DOMAIN Entries
      BY <1>5, <2>3, ParWalkerAssumption
         DEF WalkerStep, WalkFile, WalkFiltered, WalkUnreadable, WalkBroken, WalkSendError, WalkEnds, Shape, TypeOK
    <3>2. \E e \in ErrorKinds :
            \/ outbox' = [outbox EXCEPT ![WalkerThread] = Report(e, next)]
            \/ outbox' = [outbox EXCEPT ![WalkerThread] = Report(e, next) \o Report(e, next)]
      BY <1>5, <2>3 DEF WalkerStep, WalkFile, WalkFiltered, WalkUnreadable, WalkBroken, WalkSendError, WalkEnds,
                        ErrorKinds
    <3>3. QED
      BY <2>1, <3>1, <3>2, ReportNoResult, HeldBackQuiet
  <2>4. QED
    BY <2>2, <2>3
<1>6. CASE WalkerThreadStep
  BY <1>5, <1>6, HeldBackSend DEF WalkerThreadStep
<1>7. CASE Display /\ UNCHANGED scanVars
  <2>1. msgs \in Seq(Messages) /\ msgs # <<>> /\ IsABag(printed)
    BY <1>7 DEF Display, Shape, TypeOK
  <2>2. /\ Head(msgs) = msgs[1] /\ 1 \in 1..Len(msgs) /\ Len(msgs) \in Nat
        /\ Len(Tail(msgs)) = Len(msgs) - 1
        /\ \A k \in 1..(Len(msgs) - 1) : Tail(msgs)[k] = msgs[k + 1]
    BY <2>1, HeadTailProperties, LenProperties
  <2>3. BagToSet(printed') = BagToSet(printed) \cup {Head(msgs)}
    BY <1>7, <2>1, BagAddTyped DEF Display
  <2>4. msgs' = Tail(msgs) /\ UNCHANGED <<main, outbox, format>>
    BY <1>7 DEF Display, scanVars
  <2>5. \A k \in 1..Len(msgs') : k + 1 \in 1..Len(msgs) /\ msgs'[k] = msgs[k + 1]
    BY <2>2, <2>4
  <2>6. QED
    BY <2>2, <2>3, <2>4, <2>5 DEF HeldBack
<1>8. CASE MainStep
  <2>1. CASE AbortReceived /\ UNCHANGED scanVars
    <3>1. \A k \in 1..Len(<<>>) : FALSE
      OBVIOUS
    <3>2. QED
      BY <2>1, <3>1 DEF AbortReceived, HeldBack, scanVars
  <2>2. CASE (Disconnected \/ JoinThread \/ JoinPanicked \/ Unwound) /\ UNCHANGED scanVars
    BY <2>2 DEF Disconnected, JoinThread, JoinPanicked, Unwound, HeldBack, scanVars
  <2>3. CASE Done
    BY <2>3 DEF Done, WalkDone, HeldBack
  <2>4. QED
    BY <1>7, <1>8, <2>1, <2>2, <2>3 DEF MainStep
<1>9. QED
  BY <1>1, <1>4, <1>6, <1>8 DEF Next, Expire, Finished, vars, walkVars, scanVars

\* What the console shows at the end of a walk in json with --count.
Summed == Totalled /\ ~FatalPrinted => printed = SetToBag(Expected)

LEMMA SummedInit == Init => Summed
BY DEF Init, WalkInit, Summed, Totalled

LEMMA OthersFacts ==
  /\ \A m \in Others : ~IsResult(m)
  /\ \A m \in ResultLines : IsResult(m)
<1>1. ASSUME NEW m \in Others PROVE ~IsResult(m)
  BY DEF Others, IsResult, Info, Error
<1>2. ASSUME NEW m \in ResultLines PROVE IsResult(m)
  <2>1. PICK i \in Scanned : \E n \in 1 .. LinesPerFile(i) : m = Info(i, n)
    BY DEF ResultLines
  <2>2. i \in Files
    BY DEF Scanned, Walked, Files
  <2>3. LinesPerFile(i) \in Nat
    BY <2>2, ScanCommandAssumption DEF LinesPerFile, Files
  <2>4. QED
    BY <2>1, <2>3 DEF IsResult, Info
<1>3. QED
  BY <1>1, <1>2

LEMMA SummedNext ==
  Shape /\ Explained /\ Distinct /\ Leaving /\ Complete /\ HeldBack /\ Summed /\ [Next]_vars => Summed'
<1> SUFFICES ASSUME Shape, Explained, Distinct, Leaving, Complete, HeldBack, Summed, [Next]_vars,
                    Totalled', ~FatalPrinted'
             PROVE  printed' = SetToBag(Expected')
  BY DEF Summed
<1>0. format' = format
  BY DEF Next, WorkerStep, Handle, TimeIsOver, StartScan, ScanFails, ScanTimesOut, ScanSucceeds, Reported,
         WalkerThreadStep, MainStep, Done, Expire, Finished, vars, scanVars
<1>1. Expected' = Expected
  BY <1>0 DEF Expected, ResultLines, LinesPerFile, Totals, EntryOf, PathOf
<1>2. CASE Done
  <2>1. /\ main # "print" /\ main # "done" /\ format.output = "json" /\ format.count_only
        /\ printed' = printed (+) SetToBag(Totals(output_buffer))
    BY <1>0, <1>2 DEF Done, WalkDone, Totalled
  <2>2. IsABag(printed)
    BY DEF Shape, TypeOK
  <2>3. ~FatalPrinted
    <3>1. BagToSet(printed) \subseteq BagToSet(printed')
      BY <2>1, <2>2, BagSumTyped
    <3>2. QED
      BY <3>1 DEF FatalPrinted
  <2>4. \A m : m \in BagToSet(printed) \/ m \in output_buffer <=> m \in Others \cup ResultLines
    BY <2>1, <2>3, AllPlaced DEF Totalled
  <2>5. \A m \in BagToSet(printed) : ~IsResult(m)
    BY <2>1 DEF HeldBack
  <2>6. \A m \in output_buffer : IsResult(m)
    BY DEF Shape, Held, IsResult
  <2>7. BagToSet(printed) = Others /\ output_buffer = ResultLines
    BY <2>4, <2>5, <2>6, OthersFacts
  <2>8. \A m \in Totals(output_buffer) : IsResult(m)
    BY TotalsTyped DEF Shape, Held, IsResult
  <2>9. Expected = Others \cup Totals(output_buffer)
    BY <2>1, <2>7 DEF Expected, Others
  <2>10. \A m \in BagToSet(printed) : printed[m] = 1
    <3>1. ~FatalSeen
      BY <2>1, <2>3, QuietEnd
    <3>2. Once
      BY <2>1, <3>1 DEF Complete, Totalled
    <3>3. QED
      BY <3>2 DEF Once
  <2> DEFINE T == Totals(output_buffer)
  <2>11. /\ IsABag(printed') /\ BagToSet(printed') = BagToSet(printed) \cup T
         /\ \A x \in BagToSet(printed) : x \notin T => printed'[x] = printed[x]
         /\ \A x \in T : x \notin BagToSet(printed) => printed'[x] = 1
    <3> HIDE DEF T
    <3>1. printed' = printed (+) SetToBag(T)
      BY <2>1 DEF T
    <3>2. QED
      BY <2>2, <3>1, BagSumTyped
  <2> HIDE DEF T
  <2>12. \A x \in T : x \notin BagToSet(printed)
    BY <2>5, <2>8 DEF T
  <2>13. BagToSet(printed') = Expected /\ \A x \in Expected : printed'[x] = 1
    BY <2>7, <2>9, <2>10, <2>11, <2>12 DEF T
  <2>14. QED
    BY <1>1, <2>11, <2>13, BagOfSet
<1>3. CASE UNCHANGED <<main, printed>>
  BY <1>0, <1>1, <1>3 DEF Summed, Totalled, FatalPrinted
<1>4. ASSUME MainStep, ~Done PROVE main' # "done" \/ UNCHANGED <<main, printed>>
  BY <1>4 DEF MainStep, Display, AbortReceived, Disconnected, JoinThread, JoinPanicked, Unwound
<1>5. QED
  BY <1>2, <1>3, <1>4
     DEF Totalled, Next, WorkerStep, WalkerThreadStep, WalkerStep, Send, Take, NoMorePaths, AfterError, Handle,
         TimeIsOver, StartScan, ScanFails, ScanTimesOut, ScanSucceeds, Reported, Fail, WalkFile, WalkFiltered,
         WalkUnreadable, WalkBroken, WalkSendError, WalkEnds, Expire, Finished, vars, walkVars

\* All that is needed about the state of the command.
CommandInv ==
  Shape /\ Explained /\ Distinct /\ Decided /\ Leaving /\ Complete /\ Flushed /\ HeldBack /\ Summed

LEMMA CommandInvariant == Spec => []CommandInv
<1>1. Init => CommandInv
  BY ShapeInit, ExplainedInit, DistinctInit, DecidedInit, LeavingInit, CompleteInit, FlushedInit,
     HeldBackInit, SummedInit DEF CommandInv
<1>2. CommandInv /\ [Next]_vars => CommandInv'
  BY ShapeNext, ExplainedNext, DistinctNext, DecidedNext, LeavingNext, CompleteNext, FlushedNext,
     HeldBackNext, SummedNext DEF CommandInv
<1>3. QED
  BY <1>1, <1>2, PTL DEF Spec

\* Whatever the files, the number of threads and the format: a walk that is not
\* aborted prints every result and every error exactly once (walk.rs:440-583,
\* scan.rs:400-480).
THEOREM OutputIsAlwaysComplete == Spec => []OutputIsComplete
<1>1. CommandInv => OutputIsComplete
  BY CompleteAtEnd DEF CommandInv, Summed, Totalled, OutputIsComplete
<1>2. QED
  BY <1>1, CommandInvariant, PTL

-----------------------------------------------------------------------------
\* The counters.

LEMMA PromisedInit == Init => Promised
BY Constants DEF Init, WalkInit, Promised

LEMMA PromisedNext == Shape /\ Promised /\ [Next]_vars => Promised'
<1> SUFFICES ASSUME Shape, Promised, [Next]_vars PROVE Promised'
  OBVIOUS
<1>0. /\ file \in [Workers -> {0} \cup DOMAIN Entries] /\ included \in [Workers -> BOOLEAN]
      /\ pc \in [Threads -> {"walk", "stop", "recv", "handle", "scan", "report", "failed"} \cup Gone]
      /\ format' = format
  BY DEF Shape, TypeOK, Next, WorkerStep, Handle, TimeIsOver, StartScan, ScanFails, ScanTimesOut,
         ScanSucceeds, Reported, WalkerThreadStep, MainStep, Done, Expire, Finished, vars, scanVars
<1> USE Constants
<1>1. ASSUME \A v \in Workers : pc'[v] = "report" =>
               pc'[v] = pc[v] /\ file'[v] = file[v] /\ included'[v] = included[v]
      PROVE  Promised'
  BY <1>0, <1>1 DEF Promised
<1>2. ASSUME NEW w \in Workers, ScanSucceeds(w) PROVE Promised'
  <2>1. /\ \A v \in Workers : v # w => pc'[v] = pc[v] /\ file'[v] = file[v] /\ included'[v] = included[v]
        /\ file'[w] = file[w] /\ included'[w] = Included(file[w]) /\ file[w] \in Files
    BY <1>0, <1>2 DEF ScanSucceeds, Shape, Places, Ready, Working
  <2>2. Entries[file[w]].rules \in Nat
    BY <2>1, ScanCommandAssumption DEF Files
  <2>3. ASSUME format.output = "json", Entries[file[w]].rules > 0 PROVE Included(file[w])
    <3>1. 1 \in 1 .. Entries[file[w]].rules
      BY <2>2, <2>3
    <3>2. Info(file[w], 1) \in Buffered(file[w])
      BY <2>3, <3>1 DEF Buffered
    <3>3. QED
      BY <2>3, <3>2 DEF Included
  <2>4. format.output # "json" => (Included(file[w]) <=> format.count_only \/ Entries[file[w]].rules > 0)
    BY DEF Included
  <2>5. QED
    BY <1>0, <2>1, <2>3, <2>4 DEF Promised
<1>3. ASSUME NEW w \in Workers, WorkerStep(w), ~ScanSucceeds(w) PROVE Promised'
  <2>1. \A v \in Workers : pc'[v] = "report" =>
               pc'[v] = pc[v] /\ file'[v] = file[v] /\ included'[v] = included[v]
    BY <1>0, <1>3 DEF WorkerStep, Send, Take, NoMorePaths, AfterError, Handle, TimeIsOver, StartScan,
       ScanFails, ScanTimesOut, Reported, Fail, scanVars
  <2>2. QED
    BY <1>1, <2>1
<1>4. CASE WalkerThreadStep
  <2>1. \A v \in Workers : pc'[v] = "report" =>
               pc'[v] = pc[v] /\ file'[v] = file[v] /\ included'[v] = included[v]
    BY <1>0, <1>4 DEF WalkerThreadStep, WalkerStep, Send, WalkFile, WalkFiltered, WalkUnreadable,
       WalkBroken, WalkSendError, WalkEnds, scanVars
  <2>2. QED
    BY <1>1, <2>1
<1>5. CASE UNCHANGED <<pc, file, included>>
  BY <1>1, <1>5
<1>6. MainStep \/ Expire \/ Finished => UNCHANGED <<pc, file, included>>
  BY DEF MainStep, Display, AbortReceived, Disconnected, JoinThread, JoinPanicked, Unwound, Done,
         WalkDone, Expire, Finished, vars, walkVars, scanVars
<1>7. QED
  BY <1>2, <1>3, <1>4, <1>5, <1>6 DEF Next, vars, walkVars, scanVars

\* Whether the counters have a file that a worker still has.
LEMMA CountedHeld ==
  ASSUME Shape, Distinct, NEW w \in Workers, file[w] \in Files
  PROVE  /\ file[w] \in Counted <=> ~Entries[file[w]].fails /\ pc[w] \notin {"handle", "scan"}
         /\ file[w] \in Returned <=> ~Entries[file[w]].fails /\ pc[w] \notin {"handle", "scan", "report"}
         /\ file[w] \in Matched <=> /\ ~Entries[file[w]].fails /\ pc[w] \notin {"handle", "scan", "report"}
                                    /\ Entries[file[w]].rules > 0
<1>1. file[w] \in DOMAIN Entries /\ file[w] # 0 /\ ~Queued(file[w]) /\ file[w] \in 1..(next - 1)
  BY Numbers DEF Distinct, Queued
<1>2. \A v \in Workers : file[v] = file[w] => v = w
  BY <1>1 DEF Distinct
<1>3. file[w] \in Counted <=> ~Entries[file[w]].fails /\ pc[w] \notin {"handle", "scan"}
  BY <1>1, <1>2 DEF Counted, Files
<1>4. file[w] \in Returned <=> ~Entries[file[w]].fails /\ pc[w] \notin {"handle", "scan", "report"}
  BY <1>2, <1>3 DEF Returned
<1>5. QED
  BY <1>3, <1>4 DEF Matched

LEMMA CountedWorker ==
  ASSUME Shape, Distinct, NEW w \in Workers, file[w] \in Files,
         UNCHANGED <<next, paths>>,
         \A v \in Workers : v # w => pc'[v] = pc[v] /\ file'[v] = file[v],
         file'[w] = file[w] \/ (file'[w] = 0 /\ pc'[w] \notin {"handle", "scan", "report"}), NEW j
  PROVE  /\ j # file[w] => /\ j \in Counted' <=> j \in Counted
                           /\ j \in Returned' <=> j \in Returned
                           /\ j \in Matched' <=> j \in Matched
         /\ j = file[w] =>
              /\ j \in Counted' <=> ~Entries[j].fails /\ pc'[w] \notin {"handle", "scan"}
              /\ j \in Returned' <=> ~Entries[j].fails /\ pc'[w] \notin {"handle", "scan", "report"}
              /\ j \in Matched' <=> /\ ~Entries[j].fails /\ pc'[w] \notin {"handle", "scan", "report"}
                                    /\ Entries[j].rules > 0
<1>0. \A i : Queued(i)' <=> Queued(i)
  BY DEF Queued
<1>1. file[w] \in DOMAIN Entries /\ file[w] # 0 /\ ~Queued(file[w]) /\ file[w] \in 1..(next - 1)
      /\ 0 \notin 1..(next - 1)
  BY Numbers DEF Distinct, Queued
<1>2. \A v \in Workers : file[v] = file[w] => v = w
  BY <1>1 DEF Distinct
<1>3. CASE j # file[w]
  <2>1. j \in 1..(next - 1) => \A v \in Workers : (file'[v] = j <=> file[v] = j) /\ (file[v] = j => pc'[v] = pc[v])
    BY <1>1, <1>3
  <2>2. j \in Counted' <=> j \in Counted
    BY <1>0, <2>1 DEF Counted
  <2>3. j \in Counted => j \in 1..(next - 1)
    BY DEF Counted
  <2>4. j \in Returned' <=> j \in Returned
    BY <2>1, <2>2, <2>3 DEF Returned
  <2>5. QED
    BY <1>3, <2>2, <2>4 DEF Matched
<1>4. CASE j = file[w]
  <2>1. \A v \in Workers : file'[v] = j => v = w
    BY <1>2, <1>4
  <2>2. j \in Files /\ j \in 1..(next - 1) /\ ~(Queued(j)')
    BY <1>0, <1>1, <1>4
  <2>3. j \in Counted' <=> ~Entries[j].fails /\ pc'[w] \notin {"handle", "scan"}
    BY <1>4, <2>1, <2>2 DEF Counted, Files
  <2>4. j \in Returned' <=> ~Entries[j].fails /\ pc'[w] \notin {"handle", "scan", "report"}
    BY <1>4, <2>1, <2>3 DEF Returned
  <2>5. QED
    BY <1>4, <2>3, <2>4 DEF Matched
<1>5. QED
  BY <1>3, <1>4

\* Other steps leave what is counted alone.
LEMMA CountedTake ==
  ASSUME Shape, Distinct, NEW w \in Workers, Take(w)
  PROVE  Counted' = Counted /\ Returned' = Returned /\ Matched' = Matched
<1> USE Constants
<1> DEFINE i == paths[1]
<1>1. /\ file[w] = 0 /\ next' = next /\ pc[w] = "recv"
      /\ i \in DOMAIN Entries /\ i # 0
  BY TakeEffect
<1>4. /\ \A v \in Workers : file'[v] = IF v = w THEN i ELSE file[v]
      /\ \A t \in Threads : pc'[t] = IF t = w THEN "handle" ELSE pc[t]
  BY TakeEffect
<1>6. \A j : j # i => (Queued(j)' <=> Queued(j))
  BY TakeEffect
<1>5. Queued(i)
  BY TakeEffect
<1>7. 0 \notin 1..(next - 1)
  BY Numbers
<1> HIDE DEF i
<1>8. ASSUME NEW j \in 1..(next - 1), j # i
      PROVE  /\ Queued(j)' <=> Queued(j)
             /\ \A v \in Workers : (file'[v] = j <=> file[v] = j) /\ (file[v] = j => pc'[v] = pc[v])
  BY <1>1, <1>4, <1>6, <1>7, <1>8
<1>9. i \notin Counted /\ i \notin Counted'
  BY <1>4, <1>5 DEF Counted
<1>10. Counted' = Counted
  BY <1>1, <1>8, <1>9 DEF Counted
<1>11. \A j \in Counted : j \in 1..(next - 1) /\ j # i
  BY <1>9 DEF Counted
<1>12. Returned' = Returned
  BY <1>8, <1>10, <1>11 DEF Returned
<1>13. QED
  BY <1>10, <1>12 DEF Matched

LEMMA CountedWalker ==
  ASSUME Shape, Distinct, WalkerStep
  PROVE  Counted' = Counted /\ Returned' = Returned /\ Matched' = Matched
<1> DEFINE W == WalkerThread
<1>0. /\ \A w \in Workers : pc'[w] = pc[w]
      /\ file' = file
  BY Constants DEF WalkerStep, WalkFile, WalkFiltered, WalkUnreadable, WalkBroken, WalkSendError,
     WalkEnds, Ready, Shape, TypeOK
<1>1. CASE UNCHANGED <<next, paths>>
  BY <1>0, <1>1 DEF Counted, Returned, Matched, Queued
<1>2. ASSUME next' = next + 1, Entries[next].kind # "file", paths' = paths
      PROVE  Counted' = Counted /\ Returned' = Returned /\ Matched' = Matched
  <2>1. \A i : Queued(i)' <=> Queued(i)
    BY <1>2 DEF Queued
  <2>2. 1..(next' - 1) = 1..(next - 1) \cup {next}
    BY <1>2, Numbers
  <2>3. Counted' = Counted
    BY <1>0, <1>2, <2>1, <2>2 DEF Counted
  <2>4. QED
    BY <1>0, <2>3 DEF Returned, Matched
<1>3. CASE WalkFile
  <2>1. paths' = Append(paths, next) /\ next' = next + 1
    BY <1>3 DEF WalkFile
  <2>2. /\ Len(paths') = Len(paths) + 1 /\ paths'[Len(paths) + 1] = next
        /\ \A k \in 1..Len(paths) : paths'[k] = paths[k]
    BY <2>1, Numbers, AppendProperties
  <2>3. \A k \in 1..Len(paths') : k = Len(paths) + 1 \/ k \in 1..Len(paths)
    BY <2>2, Numbers
  <2>4. 1..Len(paths) \subseteq 1..Len(paths') /\ Len(paths) + 1 \in 1..Len(paths')
    BY <2>2, Numbers
  <2>5. \A i : Queued(i)' <=> Queued(i) \/ i = next
    BY <2>2, <2>3, <2>4 DEF Queued
  <2>6. 1..(next' - 1) = 1..(next - 1) \cup {next} /\ next \notin 1..(next - 1)
    BY <2>1, Numbers
  <2>7. Counted' = Counted
    BY <1>0, <2>5, <2>6 DEF Counted
  <2>8. QED
    BY <1>0, <2>7 DEF Returned, Matched
<1>4. WalkFiltered \/ WalkUnreadable => next' = next + 1 /\ Entries[next].kind # "file" /\ paths' = paths
  BY DEF WalkFiltered, WalkUnreadable
<1>5. WalkBroken \/ WalkSendError \/ WalkEnds => UNCHANGED <<next, paths>>
  BY DEF WalkBroken, WalkSendError, WalkEnds
<1>6. QED
  BY <1>1, <1>2, <1>3, <1>4, <1>5 DEF WalkerStep

LEMMA CountedIdle ==
  ASSUME Shape, UNCHANGED <<next, paths, file>>,
         \A v \in Workers : pc'[v] = pc[v] \/ file[v] = 0
  PROVE  Counted' = Counted /\ Returned' = Returned /\ Matched' = Matched
<1>1. 0 \notin 1..(next - 1) /\ \A i : Queued(i)' <=> Queued(i)
  BY Numbers DEF Queued
<1>2. Counted' = Counted
  BY <1>1 DEF Counted
<1>3. 0 \notin Counted
  BY <1>1 DEF Counted
<1>4. QED
  BY <1>2, <1>3 DEF Returned, Matched

LEMMA CountedFinite ==
  ASSUME Shape
  PROVE  /\ IsFiniteSet(Counted) /\ Cardinality(Counted) \in Nat
         /\ IsFiniteSet(Returned) /\ Cardinality(Returned) \in Nat
         /\ IsFiniteSet(Matched) /\ Cardinality(Matched) \in Nat
<1>1. IsFiniteSet(1..(next - 1))
  <2>1. next - 1 \in Nat
    BY Numbers
  <2>2. QED
    BY <2>1, FiniteFacts
<1>2. Counted \subseteq 1..(next - 1) /\ Returned \subseteq 1..(next - 1) /\ Matched \subseteq 1..(next - 1)
  BY DEF Counted, Returned, Matched
<1>3. QED
  BY <1>1, <1>2, FiniteFacts

LEMMA CountingInit == Init => Counting
<1> SUFFICES ASSUME Init PROVE Counting
  OBVIOUS
<1>1. Counted = {} /\ Returned = {} /\ Matched = {}
  BY DEF Init, WalkInit, Counted, Returned, Matched
<1>2. QED
  BY <1>1, FiniteFacts DEF Init, WalkInit, Counting

LEMMA CountingSame ==
  ASSUME Counting, ~FatalSeen, Counted' = Counted, Returned' = Returned, Matched' = Matched,
         UNCHANGED <<num_scanned_files, num_matching_files, format>>
  PROVE  Counting'
<1>1. /\ Cardinality(Counted)' = Cardinality(Counted) /\ Cardinality(Matched)' = Cardinality(Matched)
      /\ Cardinality(Returned)' = Cardinality(Returned)
  OBVIOUS
<1>2. QED
  BY <1>1 DEF Counting

LEMMA CountingNext ==
  Shape /\ Explained /\ Distinct /\ Decided /\ Promised /\ Counting /\ [Next]_vars => Counting'
<1> SUFFICES ASSUME Shape, Explained, Distinct, Decided, Promised, Counting, [Next]_vars, ~FatalSeen'
             PROVE  Counting'
  BY DEF Counting
<1>0. /\ ~FatalSeen /\ num_scanned_files \in Nat /\ num_matching_files \in Nat
      /\ pc \in [Threads -> {"walk", "stop", "recv", "handle", "scan", "report", "failed"} \cup Gone]
      /\ file \in [Workers -> {0} \cup DOMAIN Entries] /\ included \in [Workers -> BOOLEAN]
  BY FatalSeenStable DEF Shape, TypeOK
<1> USE Constants
<1>1. ASSUME Counted' = Counted, Returned' = Returned, Matched' = Matched,
             UNCHANGED <<num_scanned_files, num_matching_files, format>>
      PROVE  Counting'
  BY <1>0, <1>1, CountingSame
<1>2. ASSUME NEW t \in Threads, Send(t), UNCHANGED scanVars PROVE Counting'
  <2>1. outbox[t] # <<>> /\ pc[t] # "ended"
    BY <1>2 DEF Send, Shape, Places, Gone
  <2>2. main = "print"
    BY <1>0, <2>1, QuietPrinter
  <2>3. UNCHANGED <<next, paths, file>> /\ pc' = pc
    BY <1>2, <2>2 DEF Send, MsgsReceived
  <2>4. Counted' = Counted /\ Returned' = Returned /\ Matched' = Matched
    BY <2>3, CountedIdle
  <2>5. QED
    BY <1>1, <1>2, <2>4 DEF scanVars
<1>3. CASE WalkerStep /\ UNCHANGED scanVars
  BY <1>1, <1>3, CountedWalker DEF scanVars
<1>4. ASSUME NEW w \in Workers, Take(w) /\ UNCHANGED scanVars PROVE Counting'
  BY <1>1, <1>4, CountedTake DEF scanVars
<1>5. ASSUME NEW w \in Workers, NoMorePaths(w) /\ UNCHANGED scanVars PROVE Counting'
  <2>1. UNCHANGED <<next, paths, file>> /\ \A v \in Workers : pc'[v] = pc[v] \/ file[v] = 0
    BY <1>0, <1>5 DEF NoMorePaths, Ready, Shape, Places
  <2>2. QED
    BY <1>1, <1>5, <2>1, CountedIdle DEF scanVars
<1>6. ASSUME NEW w \in Workers, file[w] \in Files, UNCHANGED <<next, paths, format>>,
             \A v \in Workers : v # w => pc'[v] = pc[v] /\ file'[v] = file[v],
             file'[w] = file[w] \/ (file'[w] = 0 /\ pc'[w] \notin {"handle", "scan", "report"}),
             Entries[file[w]].fails \/ (pc[w] \in {"handle", "scan"} /\ pc'[w] \in {"handle", "scan"}),
             UNCHANGED <<num_scanned_files, num_matching_files>>
      PROVE  Counting'
  <2>1. ASSUME NEW j
        PROVE  /\ j \in Counted' <=> j \in Counted
               /\ j \in Returned' <=> j \in Returned
               /\ j \in Matched' <=> j \in Matched
    <3>1. CASE j # file[w]
      BY <1>6, <3>1, CountedWorker
    <3>2. CASE j = file[w]
      <4>1. j \notin Counted /\ j \notin Returned /\ j \notin Matched
        BY <1>6, <3>2, CountedHeld
      <4>2. j \notin Counted' /\ j \notin Returned' /\ j \notin Matched'
        BY <1>6, <3>2, CountedWorker
      <4>3. QED
        BY <4>1, <4>2
    <3>3. QED
      BY <3>1, <3>2
  <2>2. Counted' = Counted /\ Returned' = Returned /\ Matched' = Matched
    BY <2>1
  <2>3. QED
    BY <1>1, <1>6, <2>2
<1>7. ASSUME NEW w \in Workers, AfterError(w), UNCHANGED scanVars PROVE Counting'
  <2>1. /\ file[w] \in Files /\ pc[w] = "failed"
        /\ \A v \in Workers : v # w => pc'[v] = pc[v] /\ file'[v] = file[v]
        /\ file'[w] = 0 /\ pc'[w] \in {"ended", "recv"}
        /\ UNCHANGED <<next, paths>>
    BY <1>0, <1>7 DEF AfterError, Ready, Shape, Places, Working
  <2>2. Entries[file[w]].fails
    BY <1>0, <2>1 DEF Decided
  <2>3. UNCHANGED <<format, num_scanned_files, num_matching_files>>
    BY <1>7 DEF scanVars
  <2>4. QED
    BY <1>6, <2>1, <2>2, <2>3
<1>8. ASSUME NEW w \in Workers, StartScan(w) \/ ScanFails(w) PROVE Counting'
  <2>1. /\ file[w] \in Files /\ pc[w] \in {"handle", "scan"}
        /\ \A v \in Workers : v # w => pc'[v] = pc[v] /\ file'[v] = file[v]
        /\ file'[w] = file[w]
        /\ Entries[file[w]].fails \/ pc'[w] = "scan"
        /\ UNCHANGED <<next, paths, format, num_scanned_files, num_matching_files>>
    BY <1>0, <1>8 DEF StartScan, ScanFails, Fail, Ready, Shape, Places, Working
  <2>2. QED
    BY <1>6, <2>1
<1>9. ASSUME NEW w \in Workers, ScanSucceeds(w) PROVE Counting'
  <2>1. /\ file[w] \in Files /\ pc[w] = "scan" /\ pc'[w] = "report" /\ ~Entries[file[w]].fails
        /\ \A v \in Workers : v # w => pc'[v] = pc[v] /\ file'[v] = file[v]
        /\ file'[w] = file[w]
        /\ UNCHANGED <<next, paths, format, num_matching_files>>
        /\ num_scanned_files' = num_scanned_files + 1
    BY <1>0, <1>9 DEF ScanSucceeds, Ready, Shape, Places, Working
  <2>2. file[w] \notin Counted /\ file[w] \notin Returned /\ file[w] \notin Matched
    BY <2>1, CountedHeld
  <2>3. ASSUME NEW j
        PROVE  /\ j \in Counted' <=> j \in Counted \/ j = file[w]
               /\ j \in Returned' <=> j \in Returned
               /\ j \in Matched' <=> j \in Matched
    <3>1. CASE j # file[w]
      BY <2>1, <3>1, CountedWorker
    <3>2. CASE j = file[w]
      <4>1. j \in Counted' /\ j \notin Returned' /\ j \notin Matched'
        BY <2>1, <3>2, CountedWorker
      <4>2. QED
        BY <2>2, <3>2, <4>1
    <3>3. QED
      BY <3>1, <3>2
  <2>4. Counted' = Counted \cup {file[w]} /\ Returned' = Returned /\ Matched' = Matched
    BY <2>3
  <2>5. Cardinality(Counted \cup {file[w]}) = Cardinality(Counted) + 1
    BY <2>2, CountedFinite, FiniteFacts
  <2>6. /\ Cardinality(Counted)' = Cardinality(Counted) + 1 /\ Cardinality(Matched)' = Cardinality(Matched)
        /\ Cardinality(Returned)' = Cardinality(Returned)
    BY <2>4, <2>5
  <2>7. QED
    BY <1>0, <2>1, <2>6 DEF Counting
<1>10. ASSUME NEW w \in Workers, Reported(w) PROVE Counting'
  <2>1. /\ file[w] \in Files /\ pc[w] = "report" /\ pc'[w] = "recv"
        /\ \A v \in Workers : v # w => pc'[v] = pc[v] /\ file'[v] = file[v]
        /\ file'[w] = 0
        /\ UNCHANGED <<next, paths, format, num_scanned_files>>
        /\ num_matching_files' = num_matching_files + (IF included[w] THEN 1 ELSE 0)
    BY <1>0, <1>10 DEF Reported, Ready, Shape, Places, Working
  <2>2. /\ ~Entries[file[w]].fails
        /\ Entries[file[w]].rules > 0 => included[w]
        /\ format.output # "json" => (included[w] <=> format.count_only \/ Entries[file[w]].rules > 0)
    BY <2>1 DEF Decided, Promised
  <2>3. file[w] \in Counted /\ file[w] \notin Returned /\ file[w] \notin Matched
    BY <2>1, <2>2, CountedHeld
  <2>4. ASSUME NEW j
        PROVE  /\ j \in Counted' <=> j \in Counted
               /\ j \in Returned' <=> j \in Returned \/ j = file[w]
               /\ j \in Matched' <=> j \in Matched \/ (j = file[w] /\ Entries[file[w]].rules > 0)
    <3>1. CASE j # file[w]
      BY <2>1, <3>1, CountedWorker
    <3>2. CASE j = file[w]
      <4>1. j \in Counted' /\ j \in Returned' /\ (j \in Matched' <=> Entries[j].rules > 0)
        BY <2>1, <2>2, <3>2, CountedWorker
      <4>2. QED
        BY <2>3, <3>2, <4>1
    <3>3. QED
      BY <3>1, <3>2
  <2>5. Counted' = Counted /\ Returned' = Returned \cup {file[w]}
    BY <2>4
  <2>5a. /\ Cardinality(Counted)' = Cardinality(Counted)
         /\ Cardinality(Returned)' = Cardinality(Returned) + 1
    <3>1. Cardinality(Returned \cup {file[w]}) = Cardinality(Returned) + 1
      BY <2>3, CountedFinite, FiniteFacts
    <3>2. QED
      BY <2>5, <3>1
  <2>6. CASE Entries[file[w]].rules > 0
    <3>1. Matched' = Matched \cup {file[w]}
      BY <2>4, <2>6
    <3>2. Cardinality(Matched \cup {file[w]}) = Cardinality(Matched) + 1
      BY <2>3, CountedFinite, FiniteFacts
    <3>3. Cardinality(Matched)' = Cardinality(Matched) + 1
      BY <3>1, <3>2
    <3>4. num_matching_files' = num_matching_files + 1
      BY <2>1, <2>2, <2>6
    <3>5. QED
      BY <1>0, <2>1, <2>5a, <3>3, <3>4, CountedFinite DEF Counting
  <2>7. CASE ~(Entries[file[w]].rules > 0)
    <3>1. Matched' = Matched
      BY <2>4, <2>7
    <3>2. Cardinality(Matched)' = Cardinality(Matched)
      BY <3>1
    <3>3. /\ num_matching_files' >= num_matching_files /\ num_matching_files' <= num_matching_files + 1
          /\ format.output # "json" =>
               num_matching_files' = IF format.count_only THEN num_matching_files + 1 ELSE num_matching_files
      BY <1>0, <2>1, <2>2, <2>7
    <3>4. num_matching_files' \in Nat
      BY <1>0, <2>1
    <3>5. QED
      BY <1>0, <2>1, <2>5a, <3>2, <3>3, <3>4, CountedFinite DEF Counting
  <2>8. QED
    BY <2>6, <2>7
<1>11. ASSUME NEW w \in Workers, TimeIsOver(w) \/ ScanTimesOut(w) PROVE Counting'
  BY <1>11, FailIsFatal, ScanCommandAssumption DEF TimeIsOver, ScanTimesOut
<1>12. CASE UNCHANGED <<next, paths, file, pc, num_scanned_files, num_matching_files, format>>
  BY <1>1, <1>12, CountedIdle
<1>13. MainStep \/ Expire \/ Finished =>
         UNCHANGED <<next, paths, file, pc, num_scanned_files, num_matching_files, format>>
  BY DEF MainStep, Display, AbortReceived, Disconnected, JoinThread, JoinPanicked, Unwound, Done,
         WalkDone, Expire, Finished, vars, walkVars, scanVars
<1>14. QED
  BY <1>2, <1>3, <1>4, <1>5, <1>7, <1>8, <1>9, <1>10, <1>11, <1>12, <1>13
     DEF Next, WorkerStep, Handle, WalkerThreadStep, vars, walkVars, scanVars

LEMMA UnmatchedInit == Init => Unmatched
BY DEF Init, Unmatched

LEMMA UnmatchedNext == Shape /\ Distinct /\ Unmatched /\ [Next]_vars => Unmatched'
<1> SUFFICES ASSUME Shape, Distinct, Unmatched, [Next]_vars PROVE Unmatched'
  OBVIOUS
<1>a. format' = format
  BY DEF Next, WorkerStep, Handle, TimeIsOver, StartScan, ScanFails, ScanTimesOut, ScanSucceeds, Reported,
         WalkerThreadStep, MainStep, Done, Expire, Finished, vars, scanVars
<1>b. Matching' = Matching
  BY DEF Matching, Scanned, Walked
<1> SUFFICES ASSUME Matching = {}, format.output = "json"
             PROVE  output_buffer' = {} /\ num_matching_files' = 0 /\ \A w \in Workers : ~included'[w]
  BY <1>a, <1>b DEF Unmatched
<1>0. /\ output_buffer = {} /\ num_matching_files = 0 /\ \A w \in Workers : ~included[w]
      /\ included \in [Workers -> BOOLEAN]
  BY DEF Unmatched, Shape, TypeOK
<1>1. CASE UNCHANGED <<output_buffer, num_matching_files, included>>
  BY <1>0, <1>1
<1>2. ASSUME NEW w \in Workers, ScanSucceeds(w)
      PROVE  output_buffer' = {} /\ num_matching_files' = 0 /\ \A v \in Workers : ~included'[v]
  <2>1. file[w] \in Files /\ ~Entries[file[w]].fails
    BY <1>2 DEF ScanSucceeds, Ready, Shape, Places, Working
  <2>2. file[w] \in Scanned
    BY <2>1, Numbers DEF Scanned, Walked, Files, Distinct
  <2>3. Entries[file[w]].rules = 0
    BY <2>1, <2>2, ScanCommandAssumption DEF Matching, Files
  <2>4. {Info(file[w], n) : n \in 1 .. Entries[file[w]].rules} = {}
    BY <2>3
  <2>5. Buffered(file[w]) = {}
    BY <1>0, <2>4 DEF Buffered
  <2>6. ~Included(file[w])
    BY <2>5 DEF Included
  <2>7. QED
    BY <1>0, <1>2, <2>5, <2>6 DEF ScanSucceeds
<1>3. ASSUME NEW w \in Workers, Reported(w)
      PROVE  output_buffer' = {} /\ num_matching_files' = 0 /\ \A v \in Workers : ~included'[v]
  BY <1>0, <1>3 DEF Reported
<1>4. CASE Done
  BY <1>0, <1>4 DEF Done
<1>5. QED
  BY <1>1, <1>2, <1>3, <1>4
     DEF Next, WorkerStep, Handle, TimeIsOver, StartScan, ScanFails, ScanTimesOut, WalkerThreadStep,
         MainStep, Expire, Finished, vars, scanVars

LEMMA CountedAtEnd ==
  ASSUME Shape, Explained, Distinct, Leaving, Counting, main = "done", ~FatalPrinted
  PROVE  /\ num_scanned_files = Cardinality(Scanned)
         /\ num_matching_files \in Cardinality(Matching) .. Cardinality(Scanned)
         /\ format.output # "json" =>
              num_matching_files = IF format.count_only THEN Cardinality(Scanned) ELSE Cardinality(Matching)
<1>1. /\ ~FatalSeen
      /\ \A w \in Workers : file[w] = 0
      /\ paths = <<>>
      /\ \A t \in Threads : pc[t] = "ended"
      /\ \A i \in DOMAIN Entries : Reached(i) <=> i \in Walked
  BY QuietEnd
<1>2. \A i : ~Queued(i)
  BY <1>1 DEF Queued
<1>3. next > Len(Entries) \/ Entries[next].kind = "broken"
  BY <1>1, Constants DEF Leaving
<1>4. \A i \in Files : i \in 1..(next - 1) <=> i \in Walked
  <2>1. SUFFICES ASSUME NEW i \in Files PROVE i \in 1..(next - 1) <=> i \in Walked
    OBVIOUS
  <2>2. i \in DOMAIN Entries /\ i \in Nat /\ i >= 1 /\ i <= Len(Entries) /\ Entries[i].kind = "file" /\ next \in Nat
    BY Numbers DEF Files
  <2>3. i # next
    BY <1>3, <2>2, Numbers
  <2>4. QED
    BY <1>1, <2>2, <2>3 DEF Reached
<1>5. 1..(next - 1) \subseteq DOMAIN Entries /\ Walked \subseteq DOMAIN Entries /\ 0 \notin DOMAIN Entries
  <2>1. next \in 1 .. Len(Entries) + 1
    BY DEF Shape, TypeOK
  <2>2. QED
    BY <2>1, Numbers DEF Walked
<1>6. Counted = Scanned
  BY <1>1, <1>2, <1>4, <1>5 DEF Counted, Scanned, Files
<1>7. Returned = Scanned /\ Matched = Matching
  <2>1. \A i \in Counted : \A w \in Workers : file[w] = i => pc[w] # "report"
    BY <1>1, <1>5, <1>6 DEF Scanned
  <2>2. QED
    BY <1>6, <2>1 DEF Returned, Matched, Matching
<1>8. num_matching_files \in Nat /\ Cardinality(Matched) \in Nat /\ Cardinality(Returned) \in Nat
  BY CountedFinite DEF Shape, TypeOK
<1>9. QED
  BY <1>1, <1>6, <1>7, <1>8 DEF Counting

\* Whatever the files, the number of threads and the format: the files shown
\* as in progress are being scanned at every moment, and at the end of a walk
\* that is not aborted the summary counts every scanned file once, and the
\* matching files as CountersAreExact says of each format (scan.rs:360-406).
THEOREM CountersAreAlwaysExact == Spec => []CountersAreExact
<1> DEFINE I == CommandInv /\ ProgressIsTrue /\ Promised /\ Counting /\ Unmatched
<1>1. Init => I
  <2>1. Init => CommandInv
    BY ShapeInit, ExplainedInit, DistinctInit, DecidedInit, LeavingInit, CompleteInit, FlushedInit,
     HeldBackInit, SummedInit DEF CommandInv
  <2>2. QED
    BY <2>1, ProgressInit, PromisedInit, CountingInit, UnmatchedInit
<1>2. I /\ [Next]_vars => I'
  <2>1. CommandInv /\ [Next]_vars => CommandInv'
    BY ShapeNext, ExplainedNext, DistinctNext, DecidedNext, LeavingNext, CompleteNext, FlushedNext,
     HeldBackNext, SummedNext DEF CommandInv
  <2>2. CommandInv => Shape /\ Explained /\ Distinct /\ Decided
    BY DEF CommandInv
  <2>3. QED
    BY <2>1, <2>2, ProgressNext, PromisedNext, CountingNext, UnmatchedNext
<1>3. I => CountersAreExact
  <2> SUFFICES ASSUME I, main = "done", ~FatalPrinted
               PROVE  /\ num_scanned_files = Cardinality(Scanned)
                      /\ CASE format.output = "json" ->
                                /\ num_matching_files \in Cardinality(Matching) .. Cardinality(Scanned)
                                /\ Matching = {} => num_matching_files = 0
                           [] format.output # "json" /\ format.count_only ->
                                num_matching_files = Cardinality(Scanned)
                           [] format.output # "json" /\ ~format.count_only ->
                                num_matching_files = Cardinality(Matching)
    BY DEF CommandInv, CountersAreExact, Shape
  <2>1. /\ num_scanned_files = Cardinality(Scanned)
        /\ num_matching_files \in Cardinality(Matching) .. Cardinality(Scanned)
        /\ format.output # "json" =>
             num_matching_files = IF format.count_only THEN Cardinality(Scanned) ELSE Cardinality(Matching)
    BY CountedAtEnd DEF CommandInv
  <2>2. format.output = "json" /\ Matching = {} => num_matching_files = 0
    BY DEF Unmatched
  <2>3. CASE format.output = "json"
    BY <2>1, <2>2, <2>3
  <2>4. CASE format.output # "json" /\ format.count_only
    BY <2>1, <2>4
  <2>5. CASE format.output # "json" /\ ~format.count_only
    BY <2>1, <2>5
  <2>6. QED
    BY <2>3, <2>4, <2>5
<1>4. QED
  BY <1>1, <1>2, <1>3, PTL DEF Spec
=============================================================================
