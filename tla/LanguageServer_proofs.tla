------------------------ MODULE LanguageServer_proofs ------------------------
(***************************************************************************)
(* Proofs about LanguageServer, for any files, texts, trees, editors and   *)
(* any length of a session.  What holds once nothing is under way follows  *)
(* from what the messages, tasks and events under way will lead to.        *)
(***************************************************************************)
EXTENDS LanguageServer, SequenceTheorems, TLAPS

-----------------------------------------------------------------------------
(* What a queue leads to                                                   *)

\* Taking the elements of q one after the other, each with the effect F[e] on
\* a value, leads from a to b.
Leads(F, q, a, b) ==
  \E h : /\ h[1] = a /\ h[Len(q) + 1] = b
         /\ \A i \in 1..Len(q) : h[i + 1] = F[q[i]][h[i]]

LEMMA LeadsEmpty ==
  ASSUME NEW F, NEW a, NEW b
  PROVE  Leads(F, << >>, a, b) <=> a = b
<1>1. Len(<< >>) = 0 /\ 0 + 1 = 1 /\ 1..0 = {}
  OBVIOUS
<1>2. ASSUME a = b PROVE Leads(F, << >>, a, b)
  <2> DEFINE h == [i \in 1..1 |-> a]
  <2>1. h[1] = a
    OBVIOUS
  <2> QED
    BY <1>1, <1>2, <2>1 DEF Leads
<1>3. ASSUME Leads(F, << >>, a, b) PROVE a = b
  BY <1>1, <1>3 DEF Leads
<1> QED
  BY <1>2, <1>3

LEMMA LeadsAppend ==
  ASSUME NEW F, NEW S, NEW q \in Seq(S), NEW e \in S, NEW a, NEW b, Leads(F, q, a, b)
  PROVE  Leads(F, Append(q, e), a, F[e][b])
<1> DEFINE n == Len(q)
           r == Append(q, e)
<1>1. n \in Nat /\ Len(r) = n + 1 /\ r[n + 1] = e /\ \A i \in 1..n : r[i] = q[i]
  OBVIOUS
<1>2. PICK h : h[1] = a /\ h[n + 1] = b /\ \A i \in 1..n : h[i + 1] = F[q[i]][h[i]]
  BY DEF Leads
<1> HIDE DEF n, r
<1> DEFINE g == [i \in 1..(n + 2) |-> IF i = n + 2 THEN F[e][b] ELSE h[i]]
<1>3. \A i \in 1..(n + 1) : g[i] = h[i]
  BY <1>1
<1>4. g[n + 2] = F[e][b] /\ (n + 1) + 1 = n + 2 /\ 1 \in 1..(n + 1) /\ n + 1 \in 1..(n + 1)
  BY <1>1
<1> HIDE DEF g
<1>5. ASSUME NEW i \in 1..(n + 1) PROVE g[i + 1] = F[r[i]][g[i]]
  <2>1. CASE i = n + 1
    BY <1>1, <1>2, <1>3, <1>4, <2>1
  <2>2. CASE i # n + 1
    <3>1. i \in 1..n /\ i + 1 \in 1..(n + 1) /\ i \in 1..(n + 1)
      BY <1>1, <2>2
    <3> QED
      BY <1>1, <1>2, <1>3, <3>1
  <2> QED
    BY <2>1, <2>2
<1>6. g[1] = a /\ g[Len(r) + 1] = F[e][b]
  BY <1>1, <1>2, <1>3, <1>4
<1>7. Leads(F, r, a, F[e][b])
  BY <1>1, <1>5, <1>6 DEF Leads
<1> QED
  BY <1>7 DEF r

LEMMA LeadsTail ==
  ASSUME NEW F, NEW S, NEW q \in Seq(S), q # << >>, NEW a, NEW b, Leads(F, q, a, b)
  PROVE  Leads(F, Tail(q), F[Head(q)][a], b)
<1> DEFINE n == Len(q)
           r == Tail(q)
<1>1. n \in Nat \ {0} /\ Len(r) = n - 1 /\ Head(q) = q[1] /\ \A i \in 1..(n - 1) : r[i] = q[i + 1]
  BY EmptySeq
<1>2. PICK h : h[1] = a /\ h[n + 1] = b /\ \A i \in 1..n : h[i + 1] = F[q[i]][h[i]]
  BY DEF Leads
<1> HIDE DEF n, r
<1> DEFINE g == [i \in 1..n |-> h[i + 1]]
<1>3. \A i \in 1..n : g[i] = h[i + 1]
  OBVIOUS
<1> HIDE DEF g
<1>4. g[1] = F[q[1]][a] /\ g[n] = b
  <2>1. 1 \in 1..n /\ n \in 1..n
    BY <1>1
  <2>2. g[1] = h[1 + 1] /\ h[1 + 1] = F[q[1]][h[1]]
    BY <1>2, <1>3, <2>1
  <2> QED
    BY <1>2, <1>3, <2>1, <2>2
<1>5. ASSUME NEW i \in 1..(n - 1) PROVE g[i + 1] = F[r[i]][g[i]]
  <2>1. i \in 1..n /\ i + 1 \in 1..n
    BY <1>1
  <2> QED
    BY <1>1, <1>2, <1>3, <2>1
<1>6. Len(r) + 1 = n
  BY <1>1
<1>7. Leads(F, r, F[q[1]][a], b)
  BY <1>1, <1>4, <1>5, <1>6 DEF Leads
<1> QED
  BY <1>1, <1>7 DEF r

\* The elements of t change nothing.
LEMMA LeadsSame ==
  ASSUME NEW F, NEW S, NEW q \in Seq(S), NEW t \in Seq(S), NEW a, NEW b, Leads(F, q, a, b),
         \A i \in 1..Len(t) : F[t[i]][b] = b
  PROVE  Leads(F, q \o t, a, b)
<1> DEFINE n == Len(q)
           k == Len(t)
           r == q \o t
<1>1. /\ n \in Nat /\ k \in Nat /\ Len(r) = n + k
      /\ \A i \in 1..n : r[i] = q[i]
      /\ \A i \in 1..k : r[n + i] = t[i]
  OBVIOUS
<1>2. PICK h : h[1] = a /\ h[n + 1] = b /\ \A i \in 1..n : h[i + 1] = F[q[i]][h[i]]
  BY DEF Leads
<1>3. \A i \in 1..k : F[t[i]][b] = b
  OBVIOUS
<1> HIDE DEF n, k, r
<1> DEFINE g == [i \in 1..(n + k + 1) |-> IF i <= n THEN h[i] ELSE b]
<1>4. \A i \in 1..(n + 1) : g[i] = h[i]
  BY <1>1, <1>2
<1>5. \A i \in (n + 1)..(n + k + 1) : g[i] = b
  BY <1>1
<1> HIDE DEF g
<1>6. ASSUME NEW i \in 1..(n + k) PROVE g[i + 1] = F[r[i]][g[i]]
  <2>1. CASE i <= n
    <3>1. i \in 1..n /\ i + 1 \in 1..(n + 1) /\ i \in 1..(n + 1)
      BY <1>1, <2>1
    <3> QED
      BY <1>1, <1>2, <1>4, <3>1
  <2>2. CASE i > n
    <3>1. i - n \in 1..k /\ n + (i - n) = i
      BY <1>1, <2>2
    <3>2. i \in (n + 1)..(n + k + 1) /\ i + 1 \in (n + 1)..(n + k + 1)
      BY <1>1, <2>2
    <3>3. r[i] = t[i - n]
      BY <1>1, <3>1
    <3> QED
      BY <1>3, <1>5, <3>1, <3>2, <3>3
  <2> QED
    BY <1>1, <2>1, <2>2
<1>7. g[1] = a /\ g[Len(r) + 1] = b
  <2>1. 1 \in 1..(n + 1) /\ n + k + 1 \in (n + 1)..(n + k + 1)
    BY <1>1
  <2> QED
    BY <1>1, <1>2, <1>4, <1>5, <2>1
<1>8. Leads(F, r, a, b)
  <2>1. \A i \in 1..Len(r) : g[i + 1] = F[r[i]][g[i]]
    BY <1>1, <1>6
  <2> QED
    BY <1>7, <2>1 DEF Leads
<1> QED
  BY <1>8 DEF r

LEMMA ElementsOfSeq ==
  ASSUME NEW S, NEW q \in Seq(S), NEW i \in 1..Len(q)
  PROVE  q[i] \in S
OBVIOUS

\* A queue that is empty, or has one more element.
LEMMA ConcatOne ==
  ASSUME NEW S, NEW s \in Seq(S), NEW e \in S
  PROVE  s \o <<e>> = Append(s, e) /\ s \o << >> = s
OBVIOUS

\* What is taken from the front of a queue is of its type, and so is the rest.
LEMMA HeadTail ==
  ASSUME NEW S, NEW q \in Seq(S), q # << >>
  PROVE  /\ Head(q) \in S /\ Tail(q) \in Seq(S)
         /\ \A i \in 1..Len(Tail(q)) : Tail(q)[i] = q[i + 1] /\ i + 1 \in 1..Len(q)
         /\ 1 \in 1..Len(q) /\ Head(q) = q[1]
BY EmptySeq

-----------------------------------------------------------------------------
(* Maps                                                                    *)

LEMMA PutMap ==
  ASSUME NEW X, NEW m, IsMap(m, X), NEW u \in Uris, NEW v \in X
  PROVE  /\ IsMap(Put(m, u, v), X) /\ DOMAIN Put(m, u, v) = DOMAIN m \cup {u}
         /\ Put(m, u, v)[u] = v
         /\ \A w \in DOMAIN m : w # u => Put(m, u, v)[w] = m[w]
BY DEF IsMap, Put

LEMMA DropMap ==
  ASSUME NEW X, NEW m, IsMap(m, X), NEW u
  PROVE  /\ IsMap(Drop(m, u), X) /\ DOMAIN Drop(m, u) = DOMAIN m \ {u}
         /\ \A w \in DOMAIN m : w # u => Drop(m, u)[w] = m[w]
BY DEF IsMap, Drop

LEMMA EmptyMap == \A X : IsMap(<< >>, X) /\ DOMAIN << >> = {}
<1>1. DOMAIN << >> = {}
  OBVIOUS
<1> QED
  BY <1>1 DEF IsMap

-----------------------------------------------------------------------------
(* Type correctness                                                        *)

Caps == {c.caps : c \in Clients}

ToServer ==
  [type : {"initialize"}, caps : Caps, folder : BOOLEAN, config : {"on", "off", "bad", "absent"}]
    \cup [type : {"initialized", "didChangeConfiguration"}]
    \cup [type : {"didOpen", "didChange"}, uri : Uris, text : Texts]
    \cup [type : {"didSave"}, uri : Uris, text : Texts \cup {"absent"}]
    \cup [type : {"didClose"}, uri : Uris]
    \cup [type : {"watched"}, uri : Uris, typ : {"changed", "deleted"}]
    \cup [type : {"answer"}, config : {"on", "off", "bad"}]

ToEditor ==
  [type : {"initializeResult", "watchFiles", "unwatchFiles", "notifyConfig", "configuration"}]
    \cup [type : {"publish"}, uri : Uris, of : Texts \cup {Nothing}]

Tasks ==
  [type : {"watchFiles", "unwatchFiles", "notifyConfig", "loadConfig"}]
    \cup [type : {"diagnostics"}, uri : Uris, config : {"on", "off"}]
    \cup [type : {"configGot"}, config : {"on", "off", "bad"}]

QueuesTyped ==
  /\ in \in Seq(ToServer) /\ out \in Seq(ToEditor)
  /\ ready \in Seq(Tasks) /\ events \in Seq({"on", "off"})

EditorTyped ==
  /\ session \in {"new", "initializing", "ready"}
  /\ IsMap(buffer, Texts) /\ IsMap(disk, Texts)
  /\ shown \in [Uris -> Texts \cup {Nothing}]
  /\ watching \in BOOLEAN /\ notifies \in BOOLEAN
  /\ settings \in {"on", "off", "bad"} /\ ops \in 0..MaxOps

Documents == [text : Texts, cst : Trees]

StorageInv ==
  IsMap(opened, Documents) /\ IsMap(cached, Trees) /\ CacheAndOpenAreDisjoint

ServerTyped ==
  /\ StorageInv /\ workspace \in BOOLEAN
  /\ client_capabilities \in Caps \cup {DefaultCapabilities}
  /\ config \in {"on", "off"}

Typed == QueuesTyped /\ EditorTyped /\ ServerTyped

LEMMA TypedInit == Init => Typed
<1> SUFFICES ASSUME Init PROVE Typed
  OBVIOUS
<1>1. QueuesTyped
  BY DEF Init, QueuesTyped
<1>2. EditorTyped
  <2>1. IsMap(buffer, Texts) /\ IsMap(disk, Texts)
    <3>1. IsMap(<< >>, Texts)
      BY EmptyMap
    <3> QED
      BY <3>1, LanguageServerAssumption DEF Init
  <2>2. shown \in [Uris -> Texts \cup {Nothing}]
    BY DEF Init
  <2>3. ops \in 0..MaxOps
    BY LanguageServerAssumption DEF Init
  <2> QED
    BY <2>1, <2>2, <2>3 DEF Init, EditorTyped
<1>3. ServerTyped
  <2>1. IsMap(opened, Documents) /\ IsMap(cached, Trees) /\ DOMAIN opened = {}
    BY EmptyMap DEF Init
  <2>2. StorageInv
    BY <2>1 DEF StorageInv, CacheAndOpenAreDisjoint
  <2> QED
    BY <2>2 DEF Init, ServerTyped
<1> QED
  BY <1>1, <1>2, <1>3 DEF Typed

\* What the user and other programs do.
UserOp ==
  \/ \E u \in OpenUris : UserOpens(u) \/ UserSaves(u) \/ UserCloses(u)
  \/ \E u \in OpenUris, t \in EditTexts : UserEdits(u, t)
  \/ \E u \in WrittenUris : FileDeleted(u)
  \/ \E u \in WrittenUris, t \in EditTexts : FileWritten(u, t)
  \/ \E c \in {"on", "off", "bad"} : UserConfigures(c)

LEMMA ReportTyped ==
  ASSUME NEW u \in Uris, NEW typ \in {"changed", "deleted"}
  PROVE  /\ Report(u, typ) \in Seq(ToServer)
         /\ \A i \in 1..Len(Report(u, typ)) : Report(u, typ)[i].type = "watched"
<1>1. [type |-> "watched", uri |-> u, typ |-> typ] \in ToServer
  BY DEF ToServer
<1>2. CASE watching
  <2>1. Report(u, typ) = <<[type |-> "watched", uri |-> u, typ |-> typ]>>
    BY <1>2 DEF Report
  <2> QED
    BY <1>1, <2>1
<1>3. CASE ~watching
  <2>1. Report(u, typ) = << >>
    BY <1>3 DEF Report
  <2> QED
    BY <2>1
<1> QED
  BY <1>2, <1>3

LEMMA UserOpTyped ==
  ASSUME Typed, UserOp
  PROVE  Typed'
<1>0. /\ in \in Seq(ToServer) /\ IsMap(buffer, Texts) /\ IsMap(disk, Texts)
      /\ OpenUris \subseteq Uris /\ WrittenUris \subseteq Uris /\ EditTexts \subseteq Texts
  BY LanguageServerAssumption DEF Typed, QueuesTyped, EditorTyped
<1>1. session = "ready" /\ ops' \in 0..MaxOps
  <2>1. session = "ready" /\ ops < MaxOps /\ ops' = ops + 1
    BY DEF UserOp, UserOpens, UserSaves, UserCloses, UserEdits, FileDeleted, FileWritten,
       UserConfigures, Counted
  <2>2. ops \in 0..MaxOps /\ MaxOps \in Nat
    BY LanguageServerAssumption DEF Typed, EditorTyped
  <2> QED
    BY <2>1, <2>2
<1>2. UNCHANGED <<session, shown, watching, notifies, storage, server, out>>
  BY DEF UserOp, UserOpens, UserSaves, UserCloses, UserEdits, FileDeleted, FileWritten, UserConfigures
<1>3. ServerTyped'
  BY <1>2 DEF Typed, ServerTyped, storage, server, StorageInv, CacheAndOpenAreDisjoint
<1>4. /\ in' \in Seq(ToServer) /\ IsMap(buffer', Texts) /\ IsMap(disk', Texts)
      /\ settings' \in {"on", "off", "bad"}
  <2>1. settings \in {"on", "off", "bad"}
    BY DEF Typed, EditorTyped
  <2>2. ASSUME NEW u \in OpenUris, UserOpens(u)
        PROVE  in' \in Seq(ToServer) /\ IsMap(buffer', Texts) /\ UNCHANGED <<disk, settings>>
    <3>1. PICK text \in Texts : buffer' = Put(buffer, u, text)
                               /\ in' = Append(in, [type |-> "didOpen", uri |-> u, text |-> text])
      <4>1. u \in DOMAIN disk => disk[u] \in Texts
        BY <1>0 DEF IsMap
      <4> QED
        BY <1>0, <2>2, <4>1 DEF UserOpens, Send
    <3>2. [type |-> "didOpen", uri |-> u, text |-> text] \in ToServer /\ u \in Uris
      BY <1>0 DEF ToServer
    <3>3. IsMap(buffer', Texts)
      BY <1>0, <3>1, <3>2, PutMap
    <3>4. in' \in Seq(ToServer)
      BY <1>0, <3>1, <3>2
    <3> QED
      BY <2>2, <3>3, <3>4 DEF UserOpens
  <2>3. ASSUME NEW u \in OpenUris, UserSaves(u)
        PROVE  in' \in Seq(ToServer) /\ IsMap(disk', Texts) /\ UNCHANGED <<buffer, settings>>
    <3>1. buffer[u] \in Texts /\ u \in Uris
      BY <1>0, <2>3 DEF UserSaves, IsMap
    <3>2. PICK text \in Texts \cup {"absent"} :
            in' = Append(in, [type |-> "didSave", uri |-> u, text |-> text]) \o Report(u, "changed")
      BY <2>3, <3>1 DEF UserSaves
    <3>3. [type |-> "didSave", uri |-> u, text |-> text] \in ToServer
      BY <3>1 DEF ToServer
    <3>4. Report(u, "changed") \in Seq(ToServer)
      BY <3>1, ReportTyped
    <3>5. in' \in Seq(ToServer)
      BY <1>0, <3>2, <3>3, <3>4
    <3> QED
      BY <1>0, <2>3, <3>1, <3>5, PutMap DEF UserSaves
  <2>4. ASSUME NEW u \in OpenUris, UserCloses(u)
        PROVE  in' \in Seq(ToServer) /\ IsMap(buffer', Texts) /\ UNCHANGED <<disk, settings>>
    <3>1. [type |-> "didClose", uri |-> u] \in ToServer
      BY <1>0 DEF ToServer
    <3>2. buffer' = Drop(buffer, u) /\ in' = Append(in, [type |-> "didClose", uri |-> u])
      BY <2>4 DEF UserCloses, Send
    <3>3. IsMap(buffer', Texts)
      BY <1>0, <3>2, DropMap
    <3>4. in' \in Seq(ToServer)
      BY <1>0, <3>1, <3>2
    <3> QED
      BY <2>4, <3>3, <3>4 DEF UserCloses
  <2>5. ASSUME NEW u \in OpenUris, NEW t \in EditTexts, UserEdits(u, t)
        PROVE  in' \in Seq(ToServer) /\ IsMap(buffer', Texts) /\ UNCHANGED <<disk, settings>>
    <3>1. [type |-> "didChange", uri |-> u, text |-> t] \in ToServer
      BY <1>0 DEF ToServer
    <3>2. in' \in Seq(ToServer)
      BY <1>0, <2>5, <3>1 DEF UserEdits, Send
    <3>3. IsMap(buffer', Texts)
      BY <1>0, <2>5 DEF UserEdits, IsMap
    <3> QED
      BY <2>5, <3>2, <3>3 DEF UserEdits
  <2>6. ASSUME NEW u \in WrittenUris, FileDeleted(u)
        PROVE  in' \in Seq(ToServer) /\ IsMap(disk', Texts) /\ UNCHANGED <<buffer, settings>>
    <3>1. Report(u, "deleted") \in Seq(ToServer)
      BY <1>0, ReportTyped
    <3>2. in' \in Seq(ToServer)
      BY <1>0, <2>6, <3>1 DEF FileDeleted
    <3> QED
      BY <1>0, <2>6, <3>2, DropMap DEF FileDeleted
  <2>7. ASSUME NEW u \in WrittenUris, NEW t \in EditTexts, FileWritten(u, t)
        PROVE  in' \in Seq(ToServer) /\ IsMap(disk', Texts) /\ UNCHANGED <<buffer, settings>>
    <3>1. Report(u, "changed") \in Seq(ToServer)
      BY <1>0, ReportTyped
    <3>2. in' \in Seq(ToServer)
      BY <1>0, <2>7, <3>1 DEF FileWritten
    <3>3. u \in Uris /\ t \in Texts /\ disk' = Put(disk, u, t)
      BY <1>0, <2>7 DEF FileWritten
    <3>4. IsMap(disk', Texts)
      BY <1>0, <3>3, PutMap
    <3> QED
      BY <2>7, <3>2, <3>4 DEF FileWritten
  <2>8. ASSUME NEW c \in {"on", "off", "bad"}, UserConfigures(c)
        PROVE  in' \in Seq(ToServer) /\ settings' = c /\ UNCHANGED <<buffer, disk>>
    <3>1. [type |-> "didChangeConfiguration"] \in ToServer
      BY DEF ToServer
    <3> QED
      BY <1>0, <2>8, <3>1 DEF UserConfigures
  <2> QED
    BY <1>0, <2>1, <2>2, <2>3, <2>4, <2>5, <2>6, <2>7, <2>8 DEF UserOp
<1>5. EditorTyped'
  BY <1>1, <1>2, <1>4 DEF Typed, EditorTyped
<1>6. QueuesTyped'
  BY <1>2, <1>4 DEF Typed, QueuesTyped, server
<1> QED
  BY <1>3, <1>5, <1>6 DEF Typed

-----------------------------------------------------------------------------
(* The storage: each operation keeps its maps typed and disjoint           *)

LEMMA NewDocument ==
  ASSUME NEW t \in Texts
  PROVE  new(t) \in Documents /\ new(t).text = t /\ CST[t] \in Trees
BY DEF new, Documents, Trees

LEMMA InsertStorage ==
  ASSUME StorageInv, NEW u \in Uris, NEW t \in Texts, insert(u, t)
  PROVE  /\ StorageInv' /\ DOMAIN opened' = DOMAIN opened \cup {u}
         /\ opened'[u].text = t
         /\ \A w \in DOMAIN opened : w # u => opened'[w] = opened[w]
<1> DEFINE d == IF u \in DOMAIN cached THEN new_with_cst(t, cached[u]) ELSE new(t)
<1>1. d \in Documents /\ d.text = t
  <2>1. CASE u \in DOMAIN cached
    <3>1. cached[u] \in Trees
      BY <2>1 DEF StorageInv, IsMap
    <3> QED
      BY <2>1, <3>1 DEF new_with_cst, Documents
  <2>2. CASE u \notin DOMAIN cached
    BY <2>2, NewDocument
  <2> QED
    BY <2>1, <2>2
<1>2. opened' = Put(opened, u, d) /\ cached' = Drop(cached, u)
  BY DEF insert
<1>0. IsMap(opened, Documents)
  BY DEF StorageInv
<1> HIDE DEF d
<1>3. /\ IsMap(opened', Documents) /\ DOMAIN opened' = DOMAIN opened \cup {u}
      /\ opened'[u] = d /\ \A w \in DOMAIN opened : w # u => opened'[w] = opened[w]
  <2>1. /\ IsMap(Put(opened, u, d), Documents) /\ DOMAIN Put(opened, u, d) = DOMAIN opened \cup {u}
        /\ Put(opened, u, d)[u] = d
        /\ \A w \in DOMAIN opened : w # u => Put(opened, u, d)[w] = opened[w]
    BY <1>0, <1>1, PutMap
  <2> QED
    BY <1>2, <2>1
<1>4. IsMap(cached', Trees) /\ DOMAIN cached' = DOMAIN cached \ {u}
  BY <1>2, DropMap DEF StorageInv
<1>5. CacheAndOpenAreDisjoint'
  BY <1>3, <1>4 DEF StorageInv, CacheAndOpenAreDisjoint
<1> QED
  BY <1>1, <1>3, <1>4, <1>5 DEF StorageInv

LEMMA UpdateStorage ==
  ASSUME StorageInv, NEW u \in Uris, NEW t \in Texts, update(u, t)
  PROVE  /\ StorageInv' /\ DOMAIN opened' = DOMAIN opened
         /\ u \in DOMAIN opened => opened'[u].text = t
         /\ \A w \in DOMAIN opened : w # u => opened'[w] = opened[w]
<1>1. cached' = cached
  BY DEF update
<1>2. CASE u \in DOMAIN opened
  <2>1. opened' = [opened EXCEPT ![u] = new(t)]
    BY <1>2 DEF update
  <2>2. /\ DOMAIN opened' = DOMAIN opened /\ opened'[u] = new(t)
        /\ \A w \in DOMAIN opened : w # u => opened'[w] = opened[w]
    BY <1>2, <2>1
  <2>3. IsMap(opened', Documents)
    BY <2>2, NewDocument DEF StorageInv, IsMap
  <2> QED
    BY <1>1, <2>2, <2>3, NewDocument DEF StorageInv, CacheAndOpenAreDisjoint
<1>3. CASE u \notin DOMAIN opened
  <2>1. opened' = opened
    BY <1>3 DEF update
  <2> QED
    BY <1>1, <1>3, <2>1 DEF StorageInv, CacheAndOpenAreDisjoint
<1> QED
  BY <1>2, <1>3

LEMMA RemoveStorage ==
  ASSUME StorageInv, NEW u \in Uris, NEW b, remove(u, b)
  PROVE  /\ StorageInv' /\ DOMAIN opened' = DOMAIN opened \ {u}
         /\ \A w \in DOMAIN opened : w # u => opened'[w] = opened[w]
<1>1. opened' = Drop(opened, u)
  BY DEF remove
<1>2. /\ IsMap(opened', Documents) /\ DOMAIN opened' = DOMAIN opened \ {u}
      /\ \A w \in DOMAIN opened : w # u => opened'[w] = opened[w]
  BY <1>1, DropMap DEF StorageInv
<1>3. IsMap(cached', Trees) /\ CacheAndOpenAreDisjoint'
  <2>1. CASE u \in DOMAIN opened /\ b
    <3>1. cached' = Put(cached, u, opened[u].cst)
      BY <2>1 DEF remove
    <3>2. opened[u].cst \in Trees
      BY <2>1 DEF StorageInv, IsMap, Documents
    <3>3. IsMap(cached', Trees) /\ DOMAIN cached' = DOMAIN cached \cup {u}
      <4>1. IsMap(cached, Trees)
        BY DEF StorageInv
      <4> DEFINE x == opened[u].cst
      <4>2. x \in Trees /\ cached' = Put(cached, u, x)
        BY <3>1, <3>2
      <4> HIDE DEF x
      <4>3. IsMap(Put(cached, u, x), Trees) /\ DOMAIN Put(cached, u, x) = DOMAIN cached \cup {u}
        BY <4>1, <4>2, PutMap
      <4> QED
        BY <4>2, <4>3
    <3> QED
      BY <1>2, <3>3 DEF StorageInv, CacheAndOpenAreDisjoint
  <2>2. CASE ~(u \in DOMAIN opened /\ b)
    <3>1. cached' = cached
      BY <2>2 DEF remove
    <3> QED
      BY <1>2, <3>1 DEF StorageInv, CacheAndOpenAreDisjoint
  <2> QED
    BY <2>1, <2>2
<1> QED
  BY <1>2, <1>3 DEF StorageInv

LEMMA DiskTrees ==
  ASSUME NEW u \in DOMAIN disk, IsMap(disk, Texts)
  PROVE  CST[disk[u]] \in Trees
BY DEF IsMap, Trees

LEMMA CacheStorage ==
  ASSUME StorageInv, IsMap(disk, Texts), cache_workspace, opened' = opened
  PROVE  StorageInv'
<1> DEFINE walked == walk_workspace \ DOMAIN opened
<1>1. cached' = [u \in walked \cup DOMAIN cached |->
                   IF u \in walked THEN CST[disk[u]] ELSE cached[u]]
  BY DEF cache_workspace
<1>2. walked \subseteq DOMAIN disk /\ walked \cap DOMAIN opened = {}
  BY DEF walk_workspace
<1>3. DOMAIN disk \subseteq Uris /\ DOMAIN cached \subseteq Uris
  BY DEF IsMap, StorageInv
<1> HIDE DEF walked
<1>4. DOMAIN cached' = walked \cup DOMAIN cached
  BY <1>1
<1>5. IsMap(cached', Trees)
  <2>1. ASSUME NEW u \in walked PROVE cached'[u] \in Trees
    <3>1. cached'[u] = CST[disk[u]] /\ u \in DOMAIN disk
      BY <1>1, <1>2
    <3> QED
      BY <3>1, DiskTrees
  <2>2. ASSUME NEW u \in DOMAIN cached, u \notin walked PROVE cached'[u] \in Trees
    <3>1. cached'[u] = cached[u]
      BY <1>1, <2>2
    <3> QED
      BY <3>1 DEF StorageInv, IsMap
  <2> QED
    BY <1>2, <1>3, <1>4, <2>1, <2>2 DEF IsMap
<1>6. CacheAndOpenAreDisjoint'
  BY <1>2, <1>4 DEF StorageInv, CacheAndOpenAreDisjoint
<1> QED
  BY <1>5, <1>6 DEF StorageInv

LEMMA ClearStorage ==
  ASSUME StorageInv, clear_cache, opened' = opened
  PROVE  StorageInv'
<1>1. cached' = << >>
  BY DEF clear_cache
<1>2. IsMap(cached', Trees) /\ DOMAIN cached' = {}
  BY <1>1, EmptyMap
<1> QED
  BY <1>2 DEF StorageInv, CacheAndOpenAreDisjoint

LEMMA ReactStorage ==
  ASSUME StorageInv, IsMap(disk, Texts), opened' = opened,
         NEW change, NEW u \in Uris, change.uri = u, react_watched_files_changes(change)
  PROVE  StorageInv'
<1>0. IsMap(cached, Trees)
  BY DEF StorageInv
<1>1. CASE u \notin DOMAIN opened /\ change.typ = "deleted"
  <2>1. cached' = Drop(cached, u)
    BY <1>1 DEF react_watched_files_changes, React
  <2>2. IsMap(cached', Trees) /\ DOMAIN cached' = DOMAIN cached \ {u}
    BY <1>0, <2>1, DropMap
  <2> QED
    BY <2>2 DEF StorageInv, CacheAndOpenAreDisjoint
<1>2. CASE u \notin DOMAIN opened /\ change.typ # "deleted" /\ u \in DOMAIN disk
  <2>1. cached' = Put(cached, u, CST[disk[u]]) /\ CST[disk[u]] \in Trees
    BY <1>2, DiskTrees DEF react_watched_files_changes, React
  <2> DEFINE x == CST[disk[u]]
  <2> HIDE DEF x
  <2>3. cached' = Put(cached, u, x)
    BY <2>1 DEF x
  <2>5. x \in Trees
    BY <2>1 DEF x
  <2>4. IsMap(Put(cached, u, x), Trees) /\ DOMAIN Put(cached, u, x) = DOMAIN cached \cup {u}
    BY <1>0, <2>5, PutMap
  <2>2. IsMap(cached', Trees) /\ DOMAIN cached' = DOMAIN cached \cup {u}
    BY <2>3, <2>4
  <2> QED
    BY <1>2, <2>2 DEF StorageInv, CacheAndOpenAreDisjoint
<1>3. CASE u \in DOMAIN opened \/ (change.typ # "deleted" /\ u \notin DOMAIN disk)
  <2>1. cached' = cached
    BY <1>3 DEF react_watched_files_changes, React
  <2> QED
    BY <2>1 DEF StorageInv, CacheAndOpenAreDisjoint
<1> QED
  BY <1>1, <1>2, <1>3

-----------------------------------------------------------------------------
(* The actions of the server and of the editor's side of the channel       *)

\* A message carries what its handler reads.
LEMMA MessageKinds ==
  ASSUME NEW m \in ToServer
  PROVE  /\ m.type \in {"initialize", "initialized", "didChangeConfiguration", "didOpen",
                        "didChange", "didSave", "didClose", "watched", "answer"}
         /\ m.type = "initialize" => /\ m.caps \in Caps /\ m.folder \in BOOLEAN
                                     /\ m.config \in {"on", "off", "bad", "absent"}
         /\ m.type \in {"didOpen", "didChange"} => m.uri \in Uris /\ m.text \in Texts
         /\ m.type = "didSave" => m.uri \in Uris /\ m.text \in Texts \cup {"absent"}
         /\ m.type \in {"didClose", "watched"} => m.uri \in Uris
         /\ m.type = "answer" => m.config \in {"on", "off", "bad"}
<1>1. CASE m \in [type : {"initialize"}, caps : Caps, folder : BOOLEAN,
                  config : {"on", "off", "bad", "absent"}]
  BY <1>1
<1>2. CASE m \in [type : {"initialized", "didChangeConfiguration"}]
  BY <1>2
<1>3. CASE m \in [type : {"didOpen", "didChange"}, uri : Uris, text : Texts]
  BY <1>3
<1>4. CASE m \in [type : {"didSave"}, uri : Uris, text : Texts \cup {"absent"}]
  BY <1>4
<1>5. CASE m \in [type : {"didClose"}, uri : Uris]
  BY <1>5
<1>6. CASE m \in [type : {"watched"}, uri : Uris, typ : {"changed", "deleted"}]
  BY <1>6
<1>7. CASE m \in [type : {"answer"}, config : {"on", "off", "bad"}]
  BY <1>7
<1> QED
  BY <1>1, <1>2, <1>3, <1>4, <1>5, <1>6, <1>7 DEF ToServer

LEMMA AnswerKinds ==
  ASSUME NEW m \in ToEditor
  PROVE  /\ m.type \in {"initializeResult", "watchFiles", "unwatchFiles", "notifyConfig",
                        "configuration", "publish"}
         /\ m.type = "publish" => m.uri \in Uris /\ m.of \in Texts \cup {Nothing}
BY DEF ToEditor

LEMMA TaskKinds ==
  ASSUME NEW m \in Tasks
  PROVE  /\ m.type \in {"watchFiles", "unwatchFiles", "notifyConfig", "loadConfig",
                        "diagnostics", "configGot"}
         /\ m.type = "diagnostics" => m.uri \in Uris
         /\ m.type = "configGot" => m.config \in {"on", "off", "bad"}
BY DEF Tasks

\* HandleMessage takes the first message and runs the handler of its type.
Handled(m) ==
  \/ m.type = "initialize" /\ initialize(m)
  \/ m.type = "initialized" /\ initialized
  \/ m.type = "didOpen" /\ did_open(m)
  \/ m.type = "didSave" /\ did_save(m)
  \/ m.type = "didChange" /\ did_change(m)
  \/ m.type = "didClose" /\ did_close(m)
  \/ m.type = "didChangeConfiguration" /\ did_change_configuration
  \/ m.type = "watched" /\ did_change_watched_files(m)
  \/ m.type = "answer" /\ ConfigurationAnswered(m)

LEMMA HandleHead ==
  ASSUME Typed, HandleMessage
  PROVE  /\ in # << >> /\ Head(in) \in ToServer /\ in' = Tail(in) /\ in' \in Seq(ToServer)
         /\ Handled(Head(in)) /\ UNCHANGED <<editor, disk>>
<1>1. in # << >> /\ in' = Tail(in) /\ UNCHANGED <<editor, disk>> /\ in \in Seq(ToServer)
  BY DEF HandleMessage, Typed, QueuesTyped
<1>2. Head(in) \in ToServer /\ Tail(in) \in Seq(ToServer)
  BY <1>1, HeadTail
<1>3. Handled(Head(in))
  <2> DEFINE m == Head(in)
  <2>1. (CASE m.type = "initialize" -> initialize(m)
          [] m.type = "initialized" -> initialized
          [] m.type = "didOpen" -> did_open(m)
          [] m.type = "didSave" -> did_save(m)
          [] m.type = "didChange" -> did_change(m)
          [] m.type = "didClose" -> did_close(m)
          [] m.type = "didChangeConfiguration" -> did_change_configuration
          [] m.type = "watched" -> did_change_watched_files(m)
          [] m.type = "answer" -> ConfigurationAnswered(m))
    BY DEF HandleMessage
  <2>2. m.type \in {"initialize", "initialized", "didChangeConfiguration", "didOpen",
                    "didChange", "didSave", "didClose", "watched", "answer"}
    BY <1>2, MessageKinds
  <2> HIDE DEF m
  <2>3. Handled(m)
    BY <2>1, <2>2 DEF Handled
  <2> QED
    BY <2>3 DEF m
<1> QED
  BY <1>1, <1>2, <1>3

\* The tasks a handler may spawn.
LEMMA Spawned ==
  ASSUME Typed
  PROVE  /\ load_config \in Seq(Tasks)
         /\ \A u \in Uris : publish_diagnostics(u) \in Seq(Tasks)
         /\ register_fs_watcher \in Seq(Tasks) /\ unregister_fs_watcher \in Seq(Tasks)
         /\ \A c \in {"on", "off", "bad"} : <<[type |-> "configGot", config |-> c]>> \in Seq(Tasks)
         /\ << >> \in Seq(Tasks) /\ <<[type |-> "notifyConfig"]>> \in Seq(Tasks)
<1>1. /\ [type |-> "loadConfig"] \in Tasks /\ [type |-> "watchFiles"] \in Tasks
      /\ [type |-> "unwatchFiles"] \in Tasks /\ [type |-> "notifyConfig"] \in Tasks
      /\ \A c \in {"on", "off", "bad"} : [type |-> "configGot", config |-> c] \in Tasks
  BY DEF Tasks
<1>2. \A u \in Uris : [type |-> "diagnostics", uri |-> u, config |-> config] \in Tasks
  BY DEF Tasks, Typed, ServerTyped
<1>3. << >> \in Seq(Tasks) /\ \A t \in Tasks : <<t>> \in Seq(Tasks)
  OBVIOUS
<1>4. load_config \in Seq(Tasks)
  <2>1. load_config = <<[type |-> "loadConfig"]>> \/ load_config = << >>
    BY DEF load_config
  <2> QED
    BY <1>1, <1>3, <2>1
<1>5. \A u \in Uris : publish_diagnostics(u) \in Seq(Tasks)
  BY <1>2, <1>3 DEF publish_diagnostics
<1> QED
  BY <1>1, <1>3, <1>4, <1>5 DEF register_fs_watcher, unregister_fs_watcher

LEMMA HandleTyped ==
  ASSUME Typed, HandleMessage
  PROVE  Typed'
<1> DEFINE m == Head(in)
<1>0. in # << >> /\ m \in ToServer /\ in' \in Seq(ToServer) /\ Handled(m) /\ UNCHANGED <<editor, disk>>
  BY HandleHead
<1>1. /\ m.type = "initialize" => /\ m.caps \in Caps /\ m.folder \in BOOLEAN
                                  /\ m.config \in {"on", "off", "bad", "absent"}
      /\ m.type \in {"didOpen", "didChange"} => m.uri \in Uris /\ m.text \in Texts
      /\ m.type = "didSave" => m.uri \in Uris /\ m.text \in Texts \cup {"absent"}
      /\ m.type \in {"didClose", "watched"} => m.uri \in Uris
      /\ m.type = "answer" => m.config \in {"on", "off", "bad"}
  BY <1>0, MessageKinds
<1>2. /\ StorageInv /\ IsMap(disk, Texts) /\ workspace \in BOOLEAN
      /\ client_capabilities \in Caps \cup {DefaultCapabilities} /\ config \in {"on", "off"}
      /\ ready \in Seq(Tasks) /\ events \in Seq({"on", "off"}) /\ out \in Seq(ToEditor)
  BY DEF Typed, ServerTyped, QueuesTyped, EditorTyped
<1> DEFINE Kept == UNCHANGED <<workspace, client_capabilities, config, out>>
           Goal == /\ StorageInv' /\ workspace' \in BOOLEAN
                   /\ client_capabilities' \in Caps \cup {DefaultCapabilities}
                   /\ config' \in {"on", "off"}
                   /\ ready' \in Seq(Tasks) /\ events' = events /\ out' \in Seq(ToEditor)
<1> HIDE DEF m
<1>q. SUFFICES Goal
  <2>1. ASSUME Goal PROVE EditorTyped'
    BY <1>0 DEF Typed, EditorTyped, editor
  <2>2. ASSUME Goal PROVE QueuesTyped' /\ ServerTyped'
    BY <1>0, <1>2, <2>2 DEF QueuesTyped, ServerTyped
  <2> QED
    BY <2>1, <2>2 DEF Typed
<1>k. ASSUME StorageInv', ready' \in Seq(Tasks), Kept, events' = events PROVE Goal
  BY <1>2, <1>k
<1>s. ASSUME UNCHANGED <<opened, cached>> PROVE StorageInv'
  BY <1>2, <1>s DEF StorageInv, CacheAndOpenAreDisjoint
<1>a. ASSUME NEW t \in Seq(Tasks), Spawn(t) PROVE ready' \in Seq(Tasks)
  BY <1>2, <1>a DEF Spawn
<1>3. CASE m.type = "initialize" /\ initialize(m)
  <2>1. /\ client_capabilities' = m.caps /\ workspace' = m.folder /\ config' \in {"on", "off"}
        /\ UNCHANGED <<opened, cached, ready, events>>
        /\ out' = Append(out, [type |-> "initializeResult"])
    BY <1>2, <1>3 DEF initialize
  <2>2. [type |-> "initializeResult"] \in ToEditor
    BY DEF ToEditor
  <2>3. out' \in Seq(ToEditor)
    BY <1>2, <2>1, <2>2
  <2>4. StorageInv'
    BY <1>s, <2>1
  <2> QED
    BY <1>1, <1>2, <1>3, <2>1, <2>3, <2>4
<1>4. CASE m.type = "initialized" /\ initialized
  <2> DEFINE cache == config = "on" /\ client_capabilities.dynamic_registration_watched_files
             a == IF client_capabilities.dynamic_registration_config_change
                  THEN <<[type |-> "notifyConfig"]>> ELSE load_config
             b == IF cache THEN register_fs_watcher ELSE << >>
  <2>1. /\ Spawn(a \o b) /\ (IF cache THEN cache_workspace ELSE UNCHANGED cached)
        /\ UNCHANGED <<opened, workspace, client_capabilities, config, events, out>>
    BY <1>4 DEF initialized
  <2>2. a \in Seq(Tasks) /\ b \in Seq(Tasks)
    BY Spawned
  <2> HIDE DEF a, b
  <2>5. a \o b \in Seq(Tasks)
    BY <2>2
  <2>3. ready' \in Seq(Tasks)
    BY <1>a, <2>1, <2>5
  <2>4. StorageInv'
    <3>1. CASE cache
      BY <1>2, <2>1, <3>1, CacheStorage
    <3>2. CASE ~cache
      BY <1>s, <2>1, <3>2
    <3> QED
      BY <3>1, <3>2
  <2> QED
    BY <1>k, <2>1, <2>3, <2>4
<1>5. CASE m.type = "didOpen" /\ did_open(m)
  <2>1. insert(m.uri, m.text) /\ Spawn(publish_diagnostics(m.uri)) /\ Kept /\ events' = events
    BY <1>5 DEF did_open
  <2>2. StorageInv'
    BY <1>1, <1>2, <1>5, <2>1, InsertStorage
  <2>3. ready' \in Seq(Tasks)
    BY <1>1, <1>5, <1>a, <2>1, Spawned
  <2> QED
    BY <1>k, <2>1, <2>2, <2>3
<1>6. CASE m.type = "didSave" /\ did_save(m)
  <2>0. Kept /\ events' = events
    BY <1>6 DEF did_save
  <2>1. CASE m.text # "absent"
    <3>1. insert(m.uri, m.text) /\ Spawn(publish_diagnostics(m.uri))
      BY <1>6, <2>1 DEF did_save
    <3>2. StorageInv'
      BY <1>1, <1>2, <1>6, <2>1, <3>1, InsertStorage
    <3>3. ready' \in Seq(Tasks)
      BY <1>1, <1>6, <1>a, <3>1, Spawned
    <3> QED
      BY <1>k, <2>0, <3>2, <3>3
  <2>2. CASE m.text = "absent"
    <3>1. UNCHANGED <<opened, cached, ready>>
      BY <1>6, <2>2 DEF did_save
    <3> QED
      BY <1>2, <1>k, <1>s, <2>0, <3>1
  <2> QED
    BY <2>1, <2>2
<1>7. CASE m.type = "didChange" /\ did_change(m)
  <2>1. update(m.uri, m.text) /\ Spawn(publish_diagnostics(m.uri)) /\ Kept /\ events' = events
    BY <1>7 DEF did_change
  <2>2. StorageInv'
    BY <1>1, <1>2, <1>7, <2>1, UpdateStorage
  <2>3. ready' \in Seq(Tasks)
    BY <1>1, <1>7, <1>a, <2>1, Spawned
  <2> QED
    BY <1>k, <2>1, <2>2, <2>3
<1>8. CASE m.type = "didClose" /\ did_close(m)
  <2>1. remove(m.uri, config = "on") /\ Kept /\ events' = events /\ ready' = ready
    BY <1>8 DEF did_close, server
  <2>2. StorageInv'
    BY <1>1, <1>2, <1>8, <2>1, RemoveStorage
  <2> QED
    BY <1>2, <1>k, <2>1, <2>2
<1>9. CASE m.type = "didChangeConfiguration" /\ did_change_configuration
  <2>1. Spawn(load_config) /\ Kept /\ events' = events /\ UNCHANGED <<opened, cached>>
    BY <1>9 DEF did_change_configuration, storage
  <2>2. ready' \in Seq(Tasks)
    BY <1>a, <2>1, Spawned
  <2> QED
    BY <1>k, <1>s, <2>1, <2>2
<1>10. CASE m.type = "watched" /\ did_change_watched_files(m)
  <2>1. react_watched_files_changes(m) /\ Kept /\ events' = events /\ UNCHANGED <<opened, ready>>
    BY <1>10 DEF did_change_watched_files, server
  <2>2. StorageInv'
    BY <1>1, <1>2, <1>10, <2>1, ReactStorage
  <2> QED
    BY <1>2, <1>k, <2>1, <2>2
<1>11. CASE m.type = "answer" /\ ConfigurationAnswered(m)
  <2>1. /\ Spawn(<<[type |-> "configGot", config |-> m.config]>>)
        /\ Kept /\ events' = events /\ UNCHANGED <<opened, cached>>
    BY <1>11 DEF ConfigurationAnswered, storage
  <2>2. ready' \in Seq(Tasks)
    BY <1>1, <1>11, <1>a, <2>1, Spawned
  <2> QED
    BY <1>k, <1>s, <2>1, <2>2
<1> HIDE DEF Goal
<1> QED
  BY <1>0, <1>3, <1>4, <1>5, <1>6, <1>7, <1>8, <1>9, <1>10, <1>11 DEF Handled

LEMMA UpdateConfigTyped ==
  ASSUME Typed, update_config
  PROVE  Typed'
<1> DEFINE value == Head(events)
           toggled == value # config /\ client_capabilities.dynamic_registration_watched_files
<1>1. /\ StorageInv /\ IsMap(disk, Texts) /\ ready \in Seq(Tasks) /\ events \in Seq({"on", "off"})
  BY DEF Typed, ServerTyped, QueuesTyped, EditorTyped
<1>2. /\ events # << >> /\ events' = Tail(events) /\ config' = value
      /\ (CASE toggled /\ value = "on" -> Spawn(register_fs_watcher) /\ cache_workspace
            [] toggled /\ value = "off" -> Spawn(unregister_fs_watcher) /\ clear_cache
            [] OTHER -> UNCHANGED <<ready, cached>>)
      /\ UNCHANGED <<opened, workspace, client_capabilities, editor, disk, in, out>>
  BY DEF update_config
<1>3. value \in {"on", "off"} /\ events' \in Seq({"on", "off"})
  BY <1>1, <1>2, HeadTail
<1> HIDE DEF value, toggled
<1>4. StorageInv' /\ ready' \in Seq(Tasks)
  <2>1. CASE toggled /\ value = "on"
    <3>1. Spawn(register_fs_watcher) /\ cache_workspace
      BY <1>2, <2>1
    <3>2. StorageInv'
      BY <1>1, <1>2, <3>1, CacheStorage
    <3> QED
      BY <1>1, <3>1, <3>2, Spawned DEF Spawn
  <2>2. CASE toggled /\ value = "off"
    <3>1. Spawn(unregister_fs_watcher) /\ clear_cache
      BY <1>2, <2>2
    <3>2. StorageInv'
      BY <1>1, <1>2, <3>1, ClearStorage
    <3> QED
      BY <1>1, <3>1, <3>2, Spawned DEF Spawn
  <2>3. CASE ~toggled
    BY <1>1, <1>2, <2>3 DEF StorageInv, CacheAndOpenAreDisjoint
  <2> QED
    BY <1>3, <2>1, <2>2, <2>3
<1>5. EditorTyped'
  BY <1>2 DEF Typed, EditorTyped, editor
<1>6. QueuesTyped' /\ ServerTyped'
  BY <1>2, <1>3, <1>4 DEF Typed, QueuesTyped, ServerTyped
<1> QED
  BY <1>5, <1>6 DEF Typed

\* What a task does: it sends one message or emits at most one event.
LEMMA RunTaskStep ==
  ASSUME Typed, RunTask
  PROVE  /\ ready # << >> /\ ready' = Tail(ready) /\ Head(ready) \in Tasks
         /\ UNCHANGED <<storage, client_capabilities, config, editor, disk, in>>
         /\ \/ /\ Head(ready).type = "diagnostics" /\ events' = events
               /\ out' = Append(out, [type |-> "publish", uri |-> Head(ready).uri,
                                      of |-> diagnostics(Head(ready).uri)])
            \/ /\ Head(ready).type = "loadConfig" /\ events' = events
               /\ out' = Append(out, [type |-> "configuration"])
            \/ /\ Head(ready).type \in {"watchFiles", "unwatchFiles", "notifyConfig"}
               /\ events' = events
               /\ out' = Append(out, [type |-> Head(ready).type])
            \/ /\ Head(ready).type = "configGot" /\ out' = out
               /\ Head(ready).config = "bad" => events' = events
               /\ Head(ready).config # "bad" => events' = Append(events, Head(ready).config)
<1>1. ready \in Seq(Tasks) /\ ready # << >>
  BY DEF Typed, QueuesTyped, RunTask, TaskDiagnoses, TaskSends, TaskEmits
<1>2. Head(ready) \in Tasks
  BY <1>1, HeadTail
<1>3. CASE TaskDiagnoses
  BY <1>1, <1>2, <1>3 DEF TaskDiagnoses
<1>4. CASE TaskSends
  BY <1>1, <1>2, <1>4 DEF TaskSends
<1>5. CASE TaskEmits
  BY <1>1, <1>2, <1>5 DEF TaskEmits
<1> QED
  BY <1>3, <1>4, <1>5 DEF RunTask

LEMMA RunTaskTyped ==
  ASSUME Typed, RunTask
  PROVE  Typed'
<1> DEFINE m == Head(ready)
<1>1. /\ ready \in Seq(Tasks) /\ out \in Seq(ToEditor) /\ events \in Seq({"on", "off"})
      /\ IsMap(opened, Documents)
  BY DEF Typed, QueuesTyped, ServerTyped, StorageInv
<1>2. /\ ready # << >> /\ ready' = Tail(ready) /\ m \in Tasks
      /\ UNCHANGED <<storage, client_capabilities, config, editor, disk, in>>
  BY RunTaskStep
<1>3. ready' \in Seq(Tasks)
  BY <1>1, <1>2, HeadTail
<1>4. m.type = "diagnostics" => m.uri \in Uris
  BY <1>2, TaskKinds
<1>5. m.type = "configGot" => m.config \in {"on", "off", "bad"}
  BY <1>2, TaskKinds
<1>6. out' \in Seq(ToEditor) /\ events' \in Seq({"on", "off"})
  <2>1. CASE /\ m.type = "diagnostics" /\ events' = events
             /\ out' = Append(out, [type |-> "publish", uri |-> m.uri, of |-> diagnostics(m.uri)])
    <3>1. diagnostics(m.uri) \in Texts \cup {Nothing}
      BY <1>1 DEF diagnostics, IsMap, Documents
    <3>2. [type |-> "publish", uri |-> m.uri, of |-> diagnostics(m.uri)] \in ToEditor
      BY <1>4, <2>1, <3>1 DEF ToEditor
    <3> QED
      BY <1>1, <2>1, <3>2
  <2>2. CASE m.type = "loadConfig" /\ events' = events /\ out' = Append(out, [type |-> "configuration"])
    <3>1. [type |-> "configuration"] \in ToEditor
      BY DEF ToEditor
    <3> QED
      BY <1>1, <2>2, <3>1
  <2>3. CASE /\ m.type \in {"watchFiles", "unwatchFiles", "notifyConfig"} /\ events' = events
             /\ out' = Append(out, [type |-> m.type])
    <3>1. [type |-> m.type] \in ToEditor
      BY <2>3 DEF ToEditor
    <3> QED
      BY <1>1, <2>3, <3>1
  <2>4. CASE /\ m.type = "configGot" /\ out' = out
             /\ m.config = "bad" => events' = events
             /\ m.config # "bad" => events' = Append(events, m.config)
    <3>1. CASE m.config = "bad"
      BY <1>1, <2>4, <3>1
    <3>2. CASE m.config # "bad"
      <4>1. events' = Append(events, m.config) /\ m.config \in {"on", "off"}
        BY <1>5, <2>4, <3>2
      <4> QED
        BY <1>1, <2>4, <4>1
    <3> QED
      BY <3>1, <3>2
  <2> QED
    BY <2>1, <2>2, <2>3, <2>4, RunTaskStep
<1>7. EditorTyped'
  BY <1>2 DEF Typed, EditorTyped, editor
<1>8. QueuesTyped' /\ ServerTyped'
  BY <1>2, <1>3, <1>6 DEF Typed, QueuesTyped, ServerTyped, StorageInv, CacheAndOpenAreDisjoint, storage
<1> QED
  BY <1>7, <1>8 DEF Typed

\* What the editor does with a message, by its type.
LEMMA EditorReceivesStep ==
  ASSUME Typed, EditorReceives
  PROVE  /\ out # << >> /\ out' = Tail(out) /\ Head(out) \in ToEditor
         /\ UNCHANGED <<buffer, settings, ops, storage, disk, server>>
         /\ \/ /\ Head(out).type = "initializeResult" /\ session' = "ready"
               /\ in' = Append(in, [type |-> "initialized"])
               /\ UNCHANGED <<shown, watching, notifies>>
            \/ /\ Head(out).type = "publish" /\ in' = in
               /\ shown' = [shown EXCEPT ![Head(out).uri] = Head(out).of]
               /\ UNCHANGED <<session, watching, notifies>>
            \/ /\ Head(out).type = "watchFiles" /\ watching' = TRUE /\ in' = in
               /\ UNCHANGED <<session, shown, notifies>>
            \/ /\ Head(out).type = "unwatchFiles" /\ watching' = FALSE /\ in' = in
               /\ UNCHANGED <<session, shown, notifies>>
            \/ /\ Head(out).type = "notifyConfig" /\ notifies' = TRUE
               /\ in' = Append(in, [type |-> "didChangeConfiguration"])
               /\ UNCHANGED <<session, shown, watching>>
            \/ /\ Head(out).type = "configuration"
               /\ in' = Append(in, [type |-> "answer", config |-> settings])
               /\ UNCHANGED <<session, shown, watching, notifies>>
<1> DEFINE msg == Head(out)
<1>1. out \in Seq(ToEditor) /\ out # << >> /\ notifies \in BOOLEAN
  BY DEF Typed, QueuesTyped, EditorTyped, EditorReceives
<1>2. msg \in ToEditor
  BY <1>1, HeadTail
<1>3. msg.type \in {"initializeResult", "watchFiles", "unwatchFiles", "notifyConfig",
                    "configuration", "publish"}
  BY <1>2, AnswerKinds
<1>4. /\ out' = Tail(out) /\ UNCHANGED <<buffer, settings, ops, storage, disk, server>>
      /\ session' = IF msg.type = "initializeResult" THEN "ready" ELSE session
      /\ shown' = IF msg.type = "publish" THEN [shown EXCEPT ![msg.uri] = msg.of] ELSE shown
      /\ watching' = IF msg.type = "watchFiles" THEN TRUE
                     ELSE IF msg.type = "unwatchFiles" THEN FALSE ELSE watching
      /\ notifies' = (notifies \/ msg.type = "notifyConfig")
      /\ in' = CASE msg.type = "initializeResult" -> Append(in, [type |-> "initialized"])
                 [] msg.type = "notifyConfig" ->
                      Append(in, [type |-> "didChangeConfiguration"])
                 [] msg.type = "configuration" ->
                      Append(in, [type |-> "answer", config |-> settings])
                 [] OTHER -> in
  BY DEF EditorReceives
<1>5. /\ msg.type = "initializeResult" => in' = Append(in, [type |-> "initialized"])
      /\ msg.type = "notifyConfig" => in' = Append(in, [type |-> "didChangeConfiguration"])
      /\ msg.type = "configuration" => in' = Append(in, [type |-> "answer", config |-> settings])
      /\ msg.type \in {"watchFiles", "unwatchFiles", "publish"} => in' = in
  BY <1>3, <1>4
<1>6. /\ msg.type # "notifyConfig" => notifies' = notifies
      /\ msg.type = "notifyConfig" => notifies' = TRUE
  BY <1>1, <1>4
<1>7. /\ session' = IF msg.type = "initializeResult" THEN "ready" ELSE session
      /\ shown' = IF msg.type = "publish" THEN [shown EXCEPT ![msg.uri] = msg.of] ELSE shown
      /\ watching' = IF msg.type = "watchFiles" THEN TRUE
                     ELSE IF msg.type = "unwatchFiles" THEN FALSE ELSE watching
  BY <1>4
<1>8. /\ out # << >> /\ out' = Tail(out) /\ msg \in ToEditor
      /\ UNCHANGED <<buffer, settings, ops, storage, disk, server>>
  BY <1>1, <1>2, <1>4
<1> HIDE DEF msg
<1>9. \/ /\ msg.type = "initializeResult" /\ session' = "ready"
         /\ in' = Append(in, [type |-> "initialized"]) /\ UNCHANGED <<shown, watching, notifies>>
      \/ /\ msg.type = "publish" /\ in' = in /\ shown' = [shown EXCEPT ![msg.uri] = msg.of]
         /\ UNCHANGED <<session, watching, notifies>>
      \/ /\ msg.type = "watchFiles" /\ watching' = TRUE /\ in' = in
         /\ UNCHANGED <<session, shown, notifies>>
      \/ /\ msg.type = "unwatchFiles" /\ watching' = FALSE /\ in' = in
         /\ UNCHANGED <<session, shown, notifies>>
      \/ /\ msg.type = "notifyConfig" /\ notifies' = TRUE
         /\ in' = Append(in, [type |-> "didChangeConfiguration"])
         /\ UNCHANGED <<session, shown, watching>>
      \/ /\ msg.type = "configuration"
         /\ in' = Append(in, [type |-> "answer", config |-> settings])
         /\ UNCHANGED <<session, shown, watching, notifies>>
  BY <1>3, <1>5, <1>6, <1>7
<1> QED
  BY <1>8, <1>9 DEF msg

LEMMA EditorReceivesTyped ==
  ASSUME Typed, EditorReceives
  PROVE  Typed'
<1> DEFINE m == Head(out)
<1>1. /\ in \in Seq(ToServer) /\ out \in Seq(ToEditor)
      /\ shown \in [Uris -> Texts \cup {Nothing}] /\ watching \in BOOLEAN /\ notifies \in BOOLEAN
      /\ settings \in {"on", "off", "bad"} /\ session \in {"new", "initializing", "ready"}
  BY DEF Typed, QueuesTyped, EditorTyped
<1>2. /\ out # << >> /\ out' = Tail(out) /\ m \in ToEditor
      /\ UNCHANGED <<buffer, settings, ops, storage, disk, server>>
  BY EditorReceivesStep
<1>3. out' \in Seq(ToEditor)
  BY <1>1, <1>2, HeadTail
<1>4. m.type = "publish" => m.uri \in Uris /\ m.of \in Texts \cup {Nothing}
  BY <1>2, AnswerKinds
<1>5. /\ [type |-> "initialized"] \in ToServer /\ [type |-> "didChangeConfiguration"] \in ToServer
      /\ [type |-> "answer", config |-> settings] \in ToServer
  BY <1>1 DEF ToServer
<1>6. in' \in Seq(ToServer)
  <2>1. \/ in' = in
        \/ in' = Append(in, [type |-> "initialized"])
        \/ in' = Append(in, [type |-> "didChangeConfiguration"])
        \/ in' = Append(in, [type |-> "answer", config |-> settings])
    BY EditorReceivesStep
  <2>2. \A e \in ToServer : Append(in, e) \in Seq(ToServer)
    BY <1>1
  <2> QED
    BY <1>1, <1>5, <2>1, <2>2, Zenon
<1>7. shown' \in [Uris -> Texts \cup {Nothing}]
  <2>1. \/ shown' = shown
        \/ m.type = "publish" /\ shown' = [shown EXCEPT ![m.uri] = m.of]
    BY EditorReceivesStep
  <2> HIDE DEF m
  <2> QED
    BY <1>1, <1>4, <2>1
<1>8. /\ watching' \in BOOLEAN /\ notifies' \in BOOLEAN
      /\ session' \in {"new", "initializing", "ready"}
  BY <1>1, EditorReceivesStep
<1>9. EditorTyped'
  BY <1>2, <1>7, <1>8 DEF Typed, EditorTyped
<1>10. QueuesTyped' /\ ServerTyped'
  BY <1>2, <1>3, <1>6
  DEF Typed, QueuesTyped, ServerTyped, StorageInv, CacheAndOpenAreDisjoint, storage, server
<1> QED
  BY <1>9, <1>10 DEF Typed

LEMMA EditorInitializeStep ==
  ASSUME Typed, EditorInitialize
  PROVE  /\ session = "new" /\ session' = "initializing"
         /\ \E m \in ToServer : /\ m.type = "initialize" /\ in' = Append(in, m)
                                /\ m.caps.dynamic_registration_config_change \/ notifies'
         /\ notifies' \in BOOLEAN
         /\ UNCHANGED <<buffer, shown, watching, settings, ops, storage, disk, server, out>>
<1>1. PICK c \in Clients :
        /\ in' = Append(in, [type |-> "initialize", caps |-> c.caps, folder |-> c.folder,
                             config |-> IF c.options THEN settings ELSE "absent"])
        /\ notifies' = ~c.caps.dynamic_registration_config_change
  BY DEF EditorInitialize, Send
<1> DEFINE v == IF c.options THEN settings ELSE "absent"
           m == [type |-> "initialize", caps |-> c.caps, folder |-> c.folder, config |-> v]
<1>2. c.caps \in Caps /\ c.folder \in BOOLEAN /\ c.caps \in Capabilities
  BY LanguageServerAssumption DEF Caps
<1>3. v \in {"on", "off", "bad", "absent"}
  BY DEF Typed, EditorTyped
<1>4. in' = Append(in, m)
  BY <1>1
<1> HIDE DEF v
<1>5. m \in ToServer /\ m.type = "initialize" /\ m.caps = c.caps
  BY <1>2, <1>3 DEF ToServer
<1>6. c.caps.dynamic_registration_config_change \in BOOLEAN
  BY <1>2 DEF Capabilities
<1>7. notifies' \in BOOLEAN /\ (m.caps.dynamic_registration_config_change \/ notifies')
  BY <1>1, <1>5, <1>6
<1> HIDE DEF m
<1> QED
  BY <1>4, <1>5, <1>7 DEF EditorInitialize

LEMMA EditorInitializeTyped ==
  ASSUME Typed, EditorInitialize
  PROVE  Typed'
<1>1. PICK m \in ToServer : in' = Append(in, m)
  BY EditorInitializeStep
<1>2. /\ session' = "initializing" /\ notifies' \in BOOLEAN
      /\ UNCHANGED <<buffer, shown, watching, settings, ops, storage, disk, server, out>>
  BY EditorInitializeStep
<1>3. in' \in Seq(ToServer)
  BY <1>1 DEF Typed, QueuesTyped
<1>4. EditorTyped'
  BY <1>2 DEF Typed, EditorTyped
<1>5. QueuesTyped' /\ ServerTyped'
  BY <1>2, <1>3
  DEF Typed, QueuesTyped, ServerTyped, StorageInv, CacheAndOpenAreDisjoint, storage, server
<1> QED
  BY <1>4, <1>5 DEF Typed

LEMMA NextCases ==
  ASSUME [Next]_vars
  PROVE  \/ UserOp \/ EditorInitialize \/ EditorReceives \/ HandleMessage \/ update_config \/ RunTask
         \/ UNCHANGED vars
BY DEF Next, Editor, UserOp

LEMMA TypedNext == Typed /\ [Next]_vars => Typed'
<1> SUFFICES ASSUME Typed, [Next]_vars PROVE Typed'
  OBVIOUS
<1>1. CASE UNCHANGED vars
  BY <1>1 DEF vars, editor, storage, server, Typed, QueuesTyped, EditorTyped, ServerTyped,
     StorageInv, CacheAndOpenAreDisjoint
<1> QED
  BY <1>1, NextCases, UserOpTyped, EditorInitializeTyped, EditorReceivesTyped, HandleTyped,
     UpdateConfigTyped, RunTaskTyped

-----------------------------------------------------------------------------
(* The texts: what the messages to the server make of what it holds is     *)
(* what is open in the editor                                              *)

MaybeText == Texts \cup {"absent"}

View(u) == IF u \in DOMAIN opened THEN opened[u].text ELSE "absent"

Buf(u) == IF u \in DOMAIN buffer THEN buffer[u] ELSE "absent"

\* What message m makes of the text v the server holds for u.
TextAfter(u, m, v) ==
  IF m.type = "didOpen" /\ m.uri = u THEN m.text
  ELSE IF m.type = "didSave" /\ m.uri = u /\ m.text # "absent" THEN m.text
  ELSE IF m.type = "didChange" /\ m.uri = u /\ v # "absent" THEN m.text
  ELSE IF m.type = "didClose" /\ m.uri = u THEN "absent"
  ELSE v

TextEffect(u) == [m \in ToServer |-> [v \in MaybeText |-> TextAfter(u, m, v)]]

TextInv == \A u \in Uris : Leads(TextEffect(u), in, View(u), Buf(u))

LEMMA TextEffectAt ==
  ASSUME NEW u, NEW m \in ToServer, NEW v \in MaybeText
  PROVE  TextEffect(u)[m][v] = TextAfter(u, m, v)
BY DEF TextEffect

LEMMA TextTyped ==
  ASSUME Typed, NEW u
  PROVE  View(u) \in MaybeText /\ Buf(u) \in MaybeText
BY DEF Typed, EditorTyped, ServerTyped, StorageInv, IsMap, Documents, MaybeText, View, Buf

\* The messages that are about no document.
LEMMA TextKept ==
  ASSUME NEW u, NEW m \in ToServer, NEW v \in MaybeText,
         m.type \in {"initialize", "initialized", "didChangeConfiguration", "watched", "answer"}
  PROVE  TextEffect(u)[m][v] = v
BY TextEffectAt DEF TextAfter

\* One more message, and what it makes of the editor's text.
LEMMA TextSent ==
  ASSUME Typed, TextInv, NEW u \in Uris, NEW m \in ToServer, in' = Append(in, m),
         opened' = opened, Buf(u)' = TextAfter(u, m, Buf(u))
  PROVE  Leads(TextEffect(u), in, View(u), Buf(u))'
<1> DEFINE b == Buf(u)
           c == TextAfter(u, m, b)
<1>1. Leads(TextEffect(u), in, View(u), b) /\ in \in Seq(ToServer) /\ b \in MaybeText
  BY TextTyped DEF TextInv, Typed, QueuesTyped
<1>2. Leads(TextEffect(u), Append(in, m), View(u), TextEffect(u)[m][b])
  BY <1>1, LeadsAppend
<1>3. TextEffect(u)[m][b] = c
  BY <1>1, TextEffectAt
<1>4. Leads(TextEffect(u), Append(in, m), View(u), c)
  BY <1>2, <1>3
<1>5. View(u)' = View(u) /\ TextEffect(u)' = TextEffect(u)
  BY DEF View, TextEffect
<1>6. Buf(u)' = c
  OBVIOUS
<1> HIDE DEF b, c
<1>7. Leads(TextEffect(u), in', View(u), c)
  BY <1>4
<1>8. Leads(TextEffect(u)', in', View(u)', Buf(u)')
  BY <1>5, <1>6, <1>7
<1> QED
  BY <1>8

LEMMA TextInit == Init => TextInv
<1> SUFFICES ASSUME Init, NEW u \in Uris PROVE Leads(TextEffect(u), in, View(u), Buf(u))
  BY DEF TextInv
<1>1. View(u) = "absent" /\ Buf(u) = "absent" /\ in = << >>
  <2>1. DOMAIN opened = {} /\ DOMAIN buffer = {}
    BY EmptyMap DEF Init
  <2> QED
    BY <2>1 DEF Init, View, Buf
<1> QED
  BY <1>1, LeadsEmpty

\* Reports about files change no text.
LEMMA TextReported ==
  ASSUME NEW u, NEW w \in Uris, NEW typ \in {"changed", "deleted"}, NEW q \in Seq(ToServer),
         NEW a, NEW b \in MaybeText, Leads(TextEffect(u), q, a, b)
  PROVE  Leads(TextEffect(u), q \o Report(w, typ), a, b)
<1> DEFINE r == Report(w, typ)
<1>1. r \in Seq(ToServer) /\ \A i \in 1..Len(r) : r[i].type = "watched"
  BY ReportTyped
<1> HIDE DEF r
<1>2. \A i \in 1..Len(r) : TextEffect(u)[r[i]][b] = b
  <2> SUFFICES ASSUME NEW i \in 1..Len(r) PROVE TextEffect(u)[r[i]][b] = b
    OBVIOUS
  <2>1. r[i] \in ToServer /\ r[i].type = "watched"
    BY <1>1
  <2> QED
    BY <2>1, TextKept
<1>3. Leads(TextEffect(u), q \o r, a, b)
  BY <1>1, <1>2, LeadsSame
<1> QED
  BY <1>3 DEF r

LEMMA TextUser ==
  ASSUME Typed, TextInv, UserOp
  PROVE  TextInv'
<1> SUFFICES ASSUME NEW u \in Uris PROVE Leads(TextEffect(u), in, View(u), Buf(u))'
  BY DEF TextInv
<1>0. /\ in \in Seq(ToServer) /\ IsMap(buffer, Texts) /\ IsMap(disk, Texts)
      /\ OpenUris \subseteq Uris /\ WrittenUris \subseteq Uris /\ EditTexts \subseteq Texts
      /\ "absent" \notin Texts
  BY LanguageServerAssumption DEF Typed, QueuesTyped, EditorTyped
<1>1. Leads(TextEffect(u), in, View(u), Buf(u)) /\ Buf(u) \in MaybeText
  BY TextTyped DEF TextInv
<1>2. opened' = opened
  BY DEF UserOp, UserOpens, UserSaves, UserCloses, UserEdits, FileDeleted, FileWritten,
     UserConfigures, storage
<1>3. View(u)' = View(u) /\ TextEffect(u)' = TextEffect(u)
  BY <1>2 DEF View, TextEffect
<1>4. ASSUME NEW x \in OpenUris, UserOpens(x) PROVE Leads(TextEffect(u), in, View(u), Buf(u))'
  <2>1. PICK text \in Texts : buffer' = Put(buffer, x, text)
                             /\ in' = Append(in, [type |-> "didOpen", uri |-> x, text |-> text])
    <3>1. x \in DOMAIN disk => disk[x] \in Texts
      BY <1>0 DEF IsMap
    <3> QED
      BY <1>0, <1>4, <3>1 DEF UserOpens, Send
  <2> DEFINE m == [type |-> "didOpen", uri |-> x, text |-> text]
  <2>2. m \in ToServer /\ m.type = "didOpen" /\ m.uri = x /\ m.text = text
    BY <1>0 DEF ToServer
  <2>3. in' = Append(in, m)
    BY <2>1
  <2> HIDE DEF m
  <2>4. Buf(u)' = TextAfter(u, m, Buf(u))
    <3>1. /\ DOMAIN buffer' = DOMAIN buffer \cup {x} /\ buffer'[x] = text
          /\ \A w \in DOMAIN buffer : w # x => buffer'[w] = buffer[w]
      BY <2>1 DEF Put
    <3> QED
      BY <2>2, <3>1 DEF Buf, TextAfter
  <2> QED
    BY <1>2, <2>2, <2>3, <2>4, TextSent
<1>5. ASSUME NEW x \in OpenUris, UserSaves(x) PROVE Leads(TextEffect(u), in, View(u), Buf(u))'
  <2>1. buffer[x] \in Texts /\ x \in Uris /\ x \in DOMAIN buffer /\ buffer' = buffer
    BY <1>0, <1>5 DEF UserSaves, IsMap
  <2>2. PICK text \in {buffer[x], "absent"} :
          in' = Append(in, [type |-> "didSave", uri |-> x, text |-> text]) \o Report(x, "changed")
    BY <1>5 DEF UserSaves
  <2> DEFINE m == [type |-> "didSave", uri |-> x, text |-> text]
  <2>3. m \in ToServer /\ m.type = "didSave" /\ m.uri = x /\ m.text = text
    BY <2>1 DEF ToServer
  <2>4. in' = Append(in, m) \o Report(x, "changed")
    BY <2>2
  <2> HIDE DEF m
  <2>5. TextEffect(u)[m][Buf(u)] = Buf(u)
    <3>1. TextEffect(u)[m][Buf(u)] = TextAfter(u, m, Buf(u))
      BY <1>1, <2>3, TextEffectAt
    <3>2. TextAfter(u, m, Buf(u)) = Buf(u)
      BY <2>1, <2>3 DEF Buf, TextAfter
    <3> QED
      BY <3>1, <3>2
  <2>6. Leads(TextEffect(u), Append(in, m), View(u), Buf(u))
    <3>1. Leads(TextEffect(u), Append(in, m), View(u), TextEffect(u)[m][Buf(u)])
      BY <1>0, <1>1, <2>3, LeadsAppend
    <3> QED
      BY <2>5, <3>1
  <2>7. Append(in, m) \in Seq(ToServer)
    BY <1>0, <2>3
  <2>8. Leads(TextEffect(u), in', View(u), Buf(u))
    BY <1>1, <2>1, <2>4, <2>6, <2>7, TextReported
  <2>9. Buf(u)' = Buf(u)
    BY <2>1 DEF Buf
  <2>10. Leads(TextEffect(u)', in', View(u)', Buf(u)')
    BY <1>3, <2>8, <2>9
  <2> QED
    BY <2>10
<1>6. ASSUME NEW x \in OpenUris, UserCloses(x) PROVE Leads(TextEffect(u), in, View(u), Buf(u))'
  <2> DEFINE m == [type |-> "didClose", uri |-> x]
  <2>1. m \in ToServer /\ m.type = "didClose" /\ m.uri = x
    BY <1>0 DEF ToServer
  <2>2. in' = Append(in, m) /\ buffer' = Drop(buffer, x)
    BY <1>6 DEF UserCloses, Send
  <2> HIDE DEF m
  <2>3. Buf(u)' = TextAfter(u, m, Buf(u))
    <3>1. /\ DOMAIN buffer' = DOMAIN buffer \ {x}
          /\ \A w \in DOMAIN buffer : w # x => buffer'[w] = buffer[w]
      BY <2>2 DEF Drop
    <3> QED
      BY <2>1, <3>1 DEF Buf, TextAfter
  <2> QED
    BY <1>2, <2>1, <2>2, <2>3, TextSent
<1>7. ASSUME NEW x \in OpenUris, NEW t \in EditTexts, UserEdits(x, t)
      PROVE  Leads(TextEffect(u), in, View(u), Buf(u))'
  <2> DEFINE m == [type |-> "didChange", uri |-> x, text |-> t]
  <2>1. m \in ToServer /\ m.type = "didChange" /\ m.uri = x /\ m.text = t
    BY <1>0 DEF ToServer
  <2>2. /\ in' = Append(in, m) /\ buffer' = [buffer EXCEPT ![x] = t] /\ x \in DOMAIN buffer
        /\ buffer[x] \in Texts
    BY <1>0, <1>7 DEF UserEdits, Send, IsMap
  <2> HIDE DEF m
  <2>3. Buf(u)' = TextAfter(u, m, Buf(u))
    <3>1. /\ DOMAIN buffer' = DOMAIN buffer /\ buffer'[x] = t
          /\ \A w \in DOMAIN buffer : w # x => buffer'[w] = buffer[w]
      BY <2>2
    <3>2. buffer[x] # "absent"
      BY <1>0, <2>2
    <3> QED
      BY <2>1, <2>2, <3>1, <3>2 DEF Buf, TextAfter
  <2> QED
    BY <1>2, <2>1, <2>2, <2>3, TextSent
<1>8. ASSUME NEW x \in Uris, NEW typ \in {"changed", "deleted"}, in' = in \o Report(x, typ),
             buffer' = buffer
      PROVE  Leads(TextEffect(u), in, View(u), Buf(u))'
  <2>1. Leads(TextEffect(u), in', View(u), Buf(u))
    BY <1>0, <1>1, <1>8, TextReported
  <2>2. Buf(u)' = Buf(u)
    BY <1>8 DEF Buf
  <2>3. Leads(TextEffect(u)', in', View(u)', Buf(u)')
    BY <1>3, <2>1, <2>2
  <2> QED
    BY <2>3
<1>9. ASSUME NEW x \in WrittenUris, FileDeleted(x) PROVE Leads(TextEffect(u), in, View(u), Buf(u))'
  <2>1. in' = in \o Report(x, "deleted") /\ buffer' = buffer /\ x \in Uris
    BY <1>0, <1>9 DEF FileDeleted
  <2> QED
    BY <1>8, <2>1
<1>10. ASSUME NEW x \in WrittenUris, NEW t \in EditTexts, FileWritten(x, t)
       PROVE  Leads(TextEffect(u), in, View(u), Buf(u))'
  <2>1. in' = in \o Report(x, "changed") /\ buffer' = buffer /\ x \in Uris
    BY <1>0, <1>10 DEF FileWritten
  <2> QED
    BY <1>8, <2>1
<1>11. ASSUME NEW c \in {"on", "off", "bad"}, UserConfigures(c)
       PROVE  Leads(TextEffect(u), in, View(u), Buf(u))'
  <2> DEFINE m == [type |-> "didChangeConfiguration"]
  <2>1. m \in ToServer /\ m.type = "didChangeConfiguration"
    BY DEF ToServer
  <2>2. (in' = Append(in, m) \/ in' = in) /\ buffer' = buffer
    BY <1>11 DEF UserConfigures
  <2> HIDE DEF m
  <2>3. Buf(u)' = Buf(u)
    BY <2>2 DEF Buf
  <2>4. CASE in' = in
    <3>1. Leads(TextEffect(u)', in', View(u)', Buf(u)')
      BY <1>1, <1>3, <2>3, <2>4
    <3> QED
      BY <3>1
  <2>5. CASE in' = Append(in, m)
    <3>1. TextAfter(u, m, Buf(u)) = Buf(u)
      BY <2>1 DEF TextAfter
    <3> QED
      BY <1>2, <2>1, <2>3, <2>5, <3>1, TextSent
  <2> QED
    BY <2>2, <2>4, <2>5
<1> HIDE DEF Leads
<1> QED
  BY <1>4, <1>5, <1>6, <1>7, <1>9, <1>10, <1>11 DEF UserOp

LEMMA TextHandled ==
  ASSUME Typed, TextInv, HandleMessage
  PROVE  TextInv'
<1> SUFFICES ASSUME NEW u \in Uris PROVE Leads(TextEffect(u), in, View(u), Buf(u))'
  BY DEF TextInv
<1> DEFINE m == Head(in)
<1>0. /\ in # << >> /\ m \in ToServer /\ in' = Tail(in) /\ Handled(m) /\ UNCHANGED <<editor, disk>>
      /\ StorageInv /\ in \in Seq(ToServer) /\ "absent" \notin Texts
  BY HandleHead, LanguageServerAssumption DEF Typed, ServerTyped, QueuesTyped
<1>1. Leads(TextEffect(u), in, View(u), Buf(u)) /\ View(u) \in MaybeText
  BY TextTyped DEF TextInv
<1>2. Leads(TextEffect(u), Tail(in), TextEffect(u)[m][View(u)], Buf(u))
  BY <1>0, <1>1, LeadsTail
<1>3. TextEffect(u)[m][View(u)] = TextAfter(u, m, View(u))
  BY <1>0, <1>1, TextEffectAt
<1>4. /\ m.type \in {"didOpen", "didChange"} => m.uri \in Uris /\ m.text \in Texts
      /\ m.type = "didSave" => m.uri \in Uris /\ m.text \in MaybeText
      /\ m.type \in {"didClose", "watched"} => m.uri \in Uris
  BY <1>0, MessageKinds DEF MaybeText
<1> HIDE DEF m
<1>n. u \in DOMAIN opened => opened[u].text # "absent"
  BY <1>0 DEF StorageInv, IsMap, Documents
<1>5. View(u)' = TextAfter(u, m, View(u))
  <2>0. ASSUME opened' = opened,
               m.type \in {"initialize", "initialized", "didChangeConfiguration", "watched", "answer"}
        PROVE  View(u)' = TextAfter(u, m, View(u))
    BY <2>0 DEF View, TextAfter
  <2>1. CASE m.type = "initialize" /\ initialize(m)
    BY <2>0, <2>1 DEF initialize
  <2>2. CASE m.type = "initialized" /\ initialized
    BY <2>0, <2>2 DEF initialized
  <2>3. CASE m.type = "didOpen" /\ did_open(m)
    <3>1. insert(m.uri, m.text)
      BY <2>3 DEF did_open
    <3>2. /\ DOMAIN opened' = DOMAIN opened \cup {m.uri} /\ opened'[m.uri].text = m.text
          /\ \A w \in DOMAIN opened : w # m.uri => opened'[w] = opened[w]
      BY <1>0, <1>4, <2>3, <3>1, InsertStorage
    <3> QED
      BY <2>3, <3>2 DEF View, TextAfter
  <2>4. CASE m.type = "didSave" /\ did_save(m)
    <3>1. CASE m.text # "absent"
      <4>1. insert(m.uri, m.text)
        BY <2>4, <3>1 DEF did_save
      <4>2. m.uri \in Uris /\ m.text \in Texts
        BY <1>4, <2>4, <3>1 DEF MaybeText
      <4>3. /\ DOMAIN opened' = DOMAIN opened \cup {m.uri} /\ opened'[m.uri].text = m.text
            /\ \A w \in DOMAIN opened : w # m.uri => opened'[w] = opened[w]
        BY <1>0, <4>1, <4>2, InsertStorage
      <4> QED
        BY <2>4, <3>1, <4>3 DEF View, TextAfter
    <3>2. CASE m.text = "absent"
      <4>1. opened' = opened
        BY <2>4, <3>2 DEF did_save
      <4> QED
        BY <2>4, <3>2, <4>1 DEF View, TextAfter
    <3> QED
      BY <3>1, <3>2
  <2>5. CASE m.type = "didChange" /\ did_change(m)
    <3>1. update(m.uri, m.text)
      BY <2>5 DEF did_change
    <3>2. /\ DOMAIN opened' = DOMAIN opened /\ (m.uri \in DOMAIN opened => opened'[m.uri].text = m.text)
          /\ \A w \in DOMAIN opened : w # m.uri => opened'[w] = opened[w]
      BY <1>0, <1>4, <2>5, <3>1, UpdateStorage
    <3> QED
      BY <1>n, <2>5, <3>2 DEF View, TextAfter
  <2>6. CASE m.type = "didClose" /\ did_close(m)
    <3>1. remove(m.uri, config = "on")
      BY <2>6 DEF did_close
    <3>2. /\ DOMAIN opened' = DOMAIN opened \ {m.uri}
          /\ \A w \in DOMAIN opened : w # m.uri => opened'[w] = opened[w]
      BY <1>0, <1>4, <2>6, <3>1, RemoveStorage
    <3> QED
      BY <2>6, <3>2 DEF View, TextAfter
  <2>7. CASE m.type = "didChangeConfiguration" /\ did_change_configuration
    BY <2>0, <2>7 DEF did_change_configuration, storage
  <2>8. CASE m.type = "watched" /\ did_change_watched_files(m)
    BY <2>0, <2>8 DEF did_change_watched_files
  <2>9. CASE m.type = "answer" /\ ConfigurationAnswered(m)
    BY <2>0, <2>9 DEF ConfigurationAnswered, storage
  <2> QED
    BY <1>0, <2>1, <2>2, <2>3, <2>4, <2>5, <2>6, <2>7, <2>8, <2>9 DEF Handled
<1>6. Buf(u)' = Buf(u) /\ TextEffect(u)' = TextEffect(u)
  BY <1>0 DEF Buf, editor, TextEffect
<1>7. Leads(TextEffect(u)', in', View(u)', Buf(u)')
  BY <1>0, <1>2, <1>3, <1>5, <1>6
<1> QED
  BY <1>7

LEMMA TextNext == Typed /\ TextInv /\ [Next]_vars => TextInv'
<1> SUFFICES ASSUME Typed, TextInv, [Next]_vars PROVE TextInv'
  OBVIOUS
<1>1. ASSUME UNCHANGED <<in, opened, buffer>> PROVE TextInv'
  <2> SUFFICES ASSUME NEW u \in Uris PROVE Leads(TextEffect(u), in, View(u), Buf(u))'
    BY DEF TextInv
  <2>1. View(u)' = View(u) /\ Buf(u)' = Buf(u) /\ TextEffect(u)' = TextEffect(u) /\ in' = in
    BY <1>1 DEF View, Buf, TextEffect
  <2>2. Leads(TextEffect(u)', in', View(u)', Buf(u)')
    BY <2>1 DEF TextInv
  <2> QED
    BY <2>2
<1>2. ASSUME NEW m \in ToServer, in' = Append(in, m), UNCHANGED <<opened, buffer>>,
             m.type \in {"initialize", "initialized", "didChangeConfiguration", "answer"}
      PROVE  TextInv'
  <2> SUFFICES ASSUME NEW u \in Uris PROVE Leads(TextEffect(u), in, View(u), Buf(u))'
    BY DEF TextInv
  <2>1. Buf(u)' = TextAfter(u, m, Buf(u))
    BY <1>2 DEF Buf, TextAfter
  <2> QED
    BY <1>2, <2>1, TextSent
<1>3. CASE UNCHANGED vars
  BY <1>1, <1>3 DEF vars, editor, storage
<1>4. CASE EditorInitialize
  <2>1. PICK m \in ToServer : m.type = "initialize" /\ in' = Append(in, m)
    BY <1>4, EditorInitializeStep
  <2>2. UNCHANGED <<opened, buffer>>
    BY <1>4, EditorInitializeStep DEF storage
  <2> QED
    BY <1>2, <2>1, <2>2
<1>5. CASE EditorReceives
  <2>1. UNCHANGED <<opened, buffer>>
    BY <1>5, EditorReceivesStep DEF storage
  <2>2. \/ in' = in
        \/ in' = Append(in, [type |-> "initialized"])
        \/ in' = Append(in, [type |-> "didChangeConfiguration"])
        \/ in' = Append(in, [type |-> "answer", config |-> settings])
    BY <1>5, EditorReceivesStep
  <2>3. /\ [type |-> "initialized"] \in ToServer /\ [type |-> "didChangeConfiguration"] \in ToServer
        /\ [type |-> "answer", config |-> settings] \in ToServer
    BY DEF ToServer, Typed, EditorTyped
  <2>4. CASE in' = in
    BY <1>1, <2>1, <2>4
  <2>5. CASE in' = Append(in, [type |-> "initialized"])
    BY <1>2, <2>1, <2>3, <2>5
  <2>6. CASE in' = Append(in, [type |-> "didChangeConfiguration"])
    BY <1>2, <2>1, <2>3, <2>6
  <2>7. CASE in' = Append(in, [type |-> "answer", config |-> settings])
    BY <1>2, <2>1, <2>3, <2>7
  <2> QED
    BY <2>2, <2>4, <2>5, <2>6, <2>7
<1>6. CASE update_config
  BY <1>1, <1>6 DEF update_config, editor
<1>7. CASE RunTask
  BY <1>1, <1>7, RunTaskStep DEF storage, editor
<1> QED
  BY <1>3, <1>4, <1>5, <1>6, <1>7, NextCases, TextUser, TextHandled

-----------------------------------------------------------------------------
LEMMA TypedIsTypeOK == Typed => TypeOK
<1> SUFFICES ASSUME Typed PROVE TypeOK
  OBVIOUS
<1>1. StorageTypeOK
  BY DEF Typed, EditorTyped, ServerTyped, StorageInv, StorageTypeOK, Documents
<1>2. \A i \in DOMAIN events : events[i] \in {"on", "off"}
  BY DEF Typed, QueuesTyped
<1>3. client_capabilities \in {c.caps : c \in Clients} \cup {DefaultCapabilities}
  BY DEF Typed, ServerTyped, Caps
<1> QED
  BY <1>1, <1>2, <1>3 DEF Typed, EditorTyped, ServerTyped, TypeOK

\* TextIsInSync: whenever the server has handled every message, the documents
\* it holds are those open in the editor, with their texts; and no tree of an
\* open document is ever cached.
THEOREM TextIsAlwaysInSync == Spec => []TextIsInSync
<1>1. Init => Typed /\ TextInv
  BY TypedInit, TextInit
<1>2. (Typed /\ TextInv) /\ [Next]_vars => (Typed /\ TextInv)'
  BY TypedNext, TextNext
<1>3. Typed /\ TextInv => TextIsInSync
  <2> SUFFICES ASSUME Typed, TextInv PROVE TextIsInSync
    OBVIOUS
  <2>1. TypeOK /\ CacheAndOpenAreDisjoint
    BY TypedIsTypeOK DEF Typed, ServerTyped, StorageInv
  <2>2. ASSUME in = << >>
        PROVE  DOMAIN opened = DOMAIN buffer /\ \A u \in DOMAIN buffer : opened[u].text = buffer[u]
    <3>1. \A u \in Uris : View(u) = Buf(u)
      BY <2>2, LeadsEmpty DEF TextInv
    <3>2. /\ DOMAIN opened \subseteq Uris /\ DOMAIN buffer \subseteq Uris
          /\ \A u \in DOMAIN opened : opened[u].text # "absent"
          /\ \A u \in DOMAIN buffer : buffer[u] # "absent"
      BY LanguageServerAssumption
      DEF Typed, EditorTyped, ServerTyped, StorageInv, IsMap, Documents
    <3> QED
      BY <3>1, <3>2 DEF View, Buf
  <2> QED
    BY <2>1, <2>2 DEF TextIsInSync
<1> QED
  BY <1>1, <1>2, <1>3, PTL DEF Spec

-----------------------------------------------------------------------------
(* The phases of a session                                                 *)

\* One of the elements of a queue.
Has(q, T) == \E i \in 1..Len(q) : q[i] \in T

LEMMA HasConcat ==
  ASSUME NEW S, NEW q \in Seq(S), NEW t \in Seq(S), NEW T, Has(q, T) \/ Has(t, T)
  PROVE  Has(q \o t, T)
<1>1. /\ Len(q) \in Nat /\ Len(t) \in Nat /\ Len(q \o t) = Len(q) + Len(t)
      /\ \A i \in 1..Len(q) : (q \o t)[i] = q[i]
      /\ \A i \in 1..Len(t) : (q \o t)[Len(q) + i] = t[i]
  OBVIOUS
<1>2. CASE Has(q, T)
  <2>1. PICK i \in 1..Len(q) : q[i] \in T
    BY <1>2 DEF Has
  <2>2. i \in 1..Len(q \o t) /\ (q \o t)[i] \in T
    BY <1>1, <2>1
  <2> QED
    BY <2>2 DEF Has
<1>3. CASE Has(t, T)
  <2>1. PICK i \in 1..Len(t) : t[i] \in T
    BY <1>3 DEF Has
  <2>2. Len(q) + i \in 1..Len(q \o t) /\ (q \o t)[Len(q) + i] \in T
    BY <1>1, <2>1
  <2> QED
    BY <2>2 DEF Has
<1> QED
  BY <1>2, <1>3

LEMMA HasAppend ==
  ASSUME NEW S, NEW q \in Seq(S), NEW e \in S, NEW T, Has(q, T) \/ e \in T
  PROVE  Has(Append(q, e), T)
<1>1. /\ Len(q) \in Nat /\ Len(Append(q, e)) = Len(q) + 1 /\ Append(q, e)[Len(q) + 1] = e
      /\ \A i \in 1..Len(q) : Append(q, e)[i] = q[i]
  OBVIOUS
<1>2. CASE Has(q, T)
  <2>1. PICK i \in 1..Len(q) : q[i] \in T
    BY <1>2 DEF Has
  <2>2. i \in 1..Len(Append(q, e)) /\ Append(q, e)[i] \in T
    BY <1>1, <2>1
  <2> QED
    BY <2>2 DEF Has
<1>3. CASE e \in T
  <2>1. Len(q) + 1 \in 1..Len(Append(q, e))
    BY <1>1
  <2> QED
    BY <1>1, <1>3, <2>1 DEF Has
<1> QED
  BY <1>2, <1>3

LEMMA HasTail ==
  ASSUME NEW S, NEW q \in Seq(S), q # << >>, NEW T, Has(q, T), Head(q) \notin T
  PROVE  Has(Tail(q), T)
<1>1. /\ Len(q) \in Nat \ {0} /\ Len(Tail(q)) = Len(q) - 1 /\ Head(q) = q[1]
      /\ \A i \in 1..(Len(q) - 1) : Tail(q)[i] = q[i + 1]
  BY EmptySeq
<1>2. PICK i \in 1..Len(q) : q[i] \in T
  BY DEF Has
<1>3. i # 1
  BY <1>1, <1>2
<1>4. i - 1 \in 1..(Len(q) - 1) /\ (i - 1) + 1 = i
  BY <1>1, <1>3
<1>5. Tail(q)[i - 1] \in T /\ i - 1 \in 1..Len(Tail(q))
  BY <1>1, <1>2, <1>4
<1> QED
  BY <1>5 DEF Has

LEMMA HasEmpty == \A T : ~Has(<< >>, T)
<1>1. Len(<< >>) = 0 /\ 1..0 = {}
  OBVIOUS
<1> QED
  BY <1>1 DEF Has

LEMMA SeqWider ==
  ASSUME NEW S, NEW T, S \subseteq T, NEW q \in Seq(S)
  PROVE  q \in Seq(T)
OBVIOUS

UserTypes == {"didOpen", "didChange", "didSave", "didClose", "watched", "didChangeConfiguration"}

UserMessages == {m \in ToServer : m.type \in UserTypes}

LaterMessages == {m \in ToServer : m.type \in UserTypes \cup {"answer"}}

LaterAnswers == {m \in ToEditor : m.type # "initializeResult"}

Changed == {m \in ToServer : m.type = "didChangeConfiguration"}

NotifyTask == {m \in Tasks : m.type = "notifyConfig"}

NotifyAnswer == {m \in ToEditor : m.type = "notifyConfig"}

\* The editor tells of changes of the configuration, or is being told to.
Notified == notifies \/ Has(out, NotifyAnswer) \/ Has(ready, NotifyTask)

\* Before `initialized` is handled nothing else is under way.
New ==
  /\ session = "new" /\ in = << >> /\ out = << >> /\ client_capabilities = DefaultCapabilities

Asked ==
  /\ session = "initializing" /\ out = << >> /\ client_capabilities = DefaultCapabilities
  /\ in # << >> /\ Tail(in) = << >> /\ Head(in).type = "initialize"
  /\ Head(in).caps.dynamic_registration_config_change \/ notifies

Answered ==
  /\ session = "initializing" /\ in = << >>
  /\ out # << >> /\ Tail(out) = << >> /\ Head(out).type = "initializeResult"
  /\ client_capabilities.dynamic_registration_config_change \/ notifies

Greeted ==
  /\ session = "ready" /\ out = << >>
  /\ in # << >> /\ Head(in).type = "initialized" /\ Tail(in) \in Seq(UserMessages)
  /\ client_capabilities.dynamic_registration_config_change \/ notifies

Starting ==
  /\ ready = << >> /\ events = << >> /\ watching = FALSE /\ opened = << >>
  /\ New \/ Asked \/ Answered \/ Greeted

Started ==
  /\ session = "ready" /\ in \in Seq(LaterMessages) /\ out \in Seq(LaterAnswers) /\ Notified

Phase == Starting \/ Started

\* What the user does adds messages about documents, files and settings, and a
\* change of the settings is told by an editor that notifies.
LEMMA UserSends ==
  ASSUME Typed, UserOp
  PROVE  /\ session = "ready" /\ UNCHANGED <<session, shown, watching, notifies, storage, server, out>>
         /\ \E t \in Seq(UserMessages) :
               /\ in' = in \o t
               /\ settings' = settings \/ ~notifies \/ Has(t, Changed)
<1>0. /\ in \in Seq(ToServer) /\ IsMap(buffer, Texts) /\ IsMap(disk, Texts)
      /\ OpenUris \subseteq Uris /\ WrittenUris \subseteq Uris /\ EditTexts \subseteq Texts
  BY LanguageServerAssumption DEF Typed, QueuesTyped, EditorTyped
<1>1. session = "ready" /\ UNCHANGED <<session, shown, watching, notifies, storage, server, out>>
  BY DEF UserOp, UserOpens, UserSaves, UserCloses, UserEdits, FileDeleted, FileWritten,
     UserConfigures, Counted
<1> DEFINE Goal == \E t \in Seq(UserMessages) :
                      /\ in' = in \o t
                      /\ settings' = settings \/ ~notifies \/ Has(t, Changed)
<1> SUFFICES Goal
  BY <1>1
<1>2. ASSUME NEW m \in ToServer, m.type \in UserTypes, in' = Append(in, m), settings' = settings
      PROVE  Goal
  <2>1. m \in UserMessages
    BY <1>2 DEF UserMessages
  <2>2. <<m>> \in Seq(UserMessages)
    BY <2>1
  <2>3. in' = in \o <<m>>
    BY <1>0, <1>2, ConcatOne
  <2> QED
    BY <1>2, <2>2, <2>3
<1>3. ASSUME NEW x \in Uris, NEW typ \in {"changed", "deleted"}
      PROVE  Report(x, typ) \in Seq(UserMessages)
  <2>1. Report(x, typ) \in Seq(ToServer) /\ \A i \in 1..Len(Report(x, typ)) : Report(x, typ)[i].type = "watched"
    BY ReportTyped
  <2>2. \A i \in 1..Len(Report(x, typ)) : Report(x, typ)[i] \in UserMessages
    BY <2>1 DEF UserMessages, UserTypes
  <2> QED
    BY <2>1, <2>2
<1>4. ASSUME NEW x \in Uris, NEW typ \in {"changed", "deleted"}, in' = in \o Report(x, typ),
             settings' = settings
      PROVE  Goal
  BY <1>3, <1>4
<1>5. ASSUME NEW x \in OpenUris, UserOpens(x) PROVE Goal
  <2>1. PICK text \in Texts : in' = Append(in, [type |-> "didOpen", uri |-> x, text |-> text])
    <3>1. x \in DOMAIN disk => disk[x] \in Texts
      BY <1>0 DEF IsMap
    <3> QED
      BY <1>0, <1>5, <3>1 DEF UserOpens, Send
  <2> DEFINE m == [type |-> "didOpen", uri |-> x, text |-> text]
  <2>2. m \in ToServer /\ m.type \in UserTypes
    BY <1>0 DEF ToServer, UserTypes
  <2>3. in' = Append(in, m) /\ settings' = settings
    BY <1>5, <2>1 DEF UserOpens
  <2> QED
    BY <1>2, <2>2, <2>3
<1>6. ASSUME NEW x \in OpenUris, UserSaves(x) PROVE Goal
  <2>1. buffer[x] \in Texts /\ x \in Uris /\ settings' = settings
    BY <1>0, <1>6 DEF UserSaves, IsMap
  <2>2. PICK text \in {buffer[x], "absent"} :
          in' = Append(in, [type |-> "didSave", uri |-> x, text |-> text]) \o Report(x, "changed")
    BY <1>6 DEF UserSaves
  <2> DEFINE m == [type |-> "didSave", uri |-> x, text |-> text]
             r == Report(x, "changed")
  <2>3. m \in ToServer /\ m.type \in UserTypes
    BY <2>1 DEF ToServer, UserTypes
  <2>4. r \in Seq(UserMessages) /\ in' = Append(in, m) \o r
    BY <1>3, <2>1, <2>2
  <2> HIDE DEF m, r
  <2>5. m \in UserMessages /\ UserMessages \subseteq ToServer
    BY <2>3 DEF UserMessages
  <2>6. <<m>> \o r \in Seq(UserMessages)
    BY <2>4, <2>5
  <2>7. r \in Seq(ToServer)
    BY <2>4, <2>5, SeqWider
  <2>8. Append(in, m) \o r = in \o (<<m>> \o r)
    BY <1>0, <2>3, <2>7
  <2> QED
    BY <2>1, <2>4, <2>6, <2>8
<1>7. ASSUME NEW x \in OpenUris, UserCloses(x) PROVE Goal
  <2> DEFINE m == [type |-> "didClose", uri |-> x]
  <2>1. m \in ToServer /\ m.type \in UserTypes
    BY <1>0 DEF ToServer, UserTypes
  <2>2. in' = Append(in, m) /\ settings' = settings
    BY <1>7 DEF UserCloses, Send
  <2> QED
    BY <1>2, <2>1, <2>2
<1>8. ASSUME NEW x \in OpenUris, NEW t \in EditTexts, UserEdits(x, t) PROVE Goal
  <2> DEFINE m == [type |-> "didChange", uri |-> x, text |-> t]
  <2>1. m \in ToServer /\ m.type \in UserTypes
    BY <1>0 DEF ToServer, UserTypes
  <2>2. in' = Append(in, m) /\ settings' = settings
    BY <1>8 DEF UserEdits, Send
  <2> QED
    BY <1>2, <2>1, <2>2
<1>9. ASSUME NEW x \in WrittenUris, FileDeleted(x) PROVE Goal
  <2>1. in' = in \o Report(x, "deleted") /\ settings' = settings /\ x \in Uris
    BY <1>0, <1>9 DEF FileDeleted
  <2> QED
    BY <1>4, <2>1
<1>10. ASSUME NEW x \in WrittenUris, NEW t \in EditTexts, FileWritten(x, t) PROVE Goal
  <2>1. in' = in \o Report(x, "changed") /\ settings' = settings /\ x \in Uris
    BY <1>0, <1>10 DEF FileWritten
  <2> QED
    BY <1>4, <2>1
<1>11. ASSUME NEW c \in {"on", "off", "bad"}, UserConfigures(c) PROVE Goal
  <2> DEFINE m == [type |-> "didChangeConfiguration"]
  <2>1. m \in UserMessages /\ m \in Changed /\ m \in ToServer
    BY DEF ToServer, UserTypes, UserMessages, Changed
  <2>2. in' = IF notifies THEN Append(in, m) ELSE in
    BY <1>11 DEF UserConfigures
  <2> HIDE DEF m
  <2>3. CASE notifies
    <3>1. in' = in \o <<m>> /\ <<m>> \in Seq(UserMessages)
      BY <1>0, <2>1, <2>2, <2>3, ConcatOne
    <3>2. Has(<<m>>, Changed)
      <4>1. 1 \in 1..Len(<<m>>) /\ <<m>>[1] = m
        OBVIOUS
      <4> QED
        BY <2>1, <4>1 DEF Has
    <3> QED
      BY <3>1, <3>2
  <2>4. CASE ~notifies
    <3>1. in' = in \o << >> /\ << >> \in Seq(UserMessages)
      BY <1>0, <2>2, <2>4
    <3> QED
      BY <2>4, <3>1
  <2> QED
    BY <2>3, <2>4
<1> HIDE DEF Goal
<1> QED
  BY <1>5, <1>6, <1>7, <1>8, <1>9, <1>10, <1>11 DEF UserOp

\* What handling a message of a started session adds to the tasks: the answer
\* to a configuration request, the loading of a changed configuration, or the
\* diagnostics of a document whose text changed.
TasksFor(m, t) ==
  /\ m.type = "answer" => t = <<[type |-> "configGot", config |-> m.config]>>
  /\ m.type = "didChangeConfiguration" => t = load_config
  /\ m.type \notin {"answer", "didChangeConfiguration"} =>
        \A i \in 1..Len(t) : t[i].type = "diagnostics"

DiagnosticsOf(u) == {m \in Tasks : m.type = "diagnostics" /\ m.uri = u}

DocumentsFor(t) ==
  \A u \in DOMAIN opened' :
     \/ u \in DOMAIN opened /\ opened'[u].text = opened[u].text
     \/ client_capabilities.should_send_diagnostics => Has(t, DiagnosticsOf(u))

\* The diagnostics a handler spawns are of the document it changed.
LEMMA DiagnosticsSpawned ==
  ASSUME Typed, NEW u \in Uris
  PROVE  /\ \A i \in 1..Len(publish_diagnostics(u)) : publish_diagnostics(u)[i].type = "diagnostics"
         /\ client_capabilities.should_send_diagnostics =>
               Has(publish_diagnostics(u), DiagnosticsOf(u))
<1> DEFINE d == [type |-> "diagnostics", uri |-> u, config |-> config]
<1>1. d \in DiagnosticsOf(u)
  BY DEF Typed, ServerTyped, Tasks, DiagnosticsOf
<1>2. d.type = "diagnostics"
  OBVIOUS
<1>3. CASE client_capabilities.should_send_diagnostics
  <2>1. publish_diagnostics(u) = <<d>>
    BY <1>3 DEF publish_diagnostics
  <2> HIDE DEF d
  <2>2. Len(<<d>>) = 1 /\ <<d>>[1] = d /\ 1..1 = {1}
    OBVIOUS
  <2> QED
    BY <1>1, <1>2, <2>1, <2>2 DEF Has
<1>4. CASE ~client_capabilities.should_send_diagnostics
  <2>1. publish_diagnostics(u) = << >>
    BY <1>4 DEF publish_diagnostics
  <2>2. Len(<< >>) = 0 /\ 1..0 = {}
    OBVIOUS
  <2> QED
    BY <1>4, <2>1, <2>2
<1> QED
  BY <1>3, <1>4

LEMMA HandleStarted ==
  ASSUME Typed, HandleMessage, Head(in).type \in UserTypes \cup {"answer"}
  PROVE  /\ in # << >> /\ Head(in) \in ToServer /\ in' = Tail(in)
         /\ UNCHANGED <<client_capabilities, config, events, out, editor>>
         /\ \E t \in Seq(Tasks) : ready' = ready \o t /\ TasksFor(Head(in), t) /\ DocumentsFor(t)
<1> DEFINE m == Head(in)
<1>0. /\ in # << >> /\ m \in ToServer /\ in' = Tail(in) /\ Handled(m) /\ UNCHANGED <<editor, disk>>
      /\ StorageInv /\ ready \in Seq(Tasks)
  BY HandleHead DEF Typed, ServerTyped, QueuesTyped
<1>1. m.type \in UserTypes \cup {"answer"}
  OBVIOUS
<1>4. /\ m.type \in {"didOpen", "didChange"} => m.uri \in Uris /\ m.text \in Texts
      /\ m.type = "didSave" => m.uri \in Uris /\ m.text \in MaybeText
      /\ m.type \in {"didClose", "watched"} => m.uri \in Uris
      /\ m.type = "answer" => m.config \in {"on", "off", "bad"}
  BY <1>0, MessageKinds DEF MaybeText
<1> DEFINE Same == UNCHANGED <<client_capabilities, config, events, out>>
           Goal == Same /\ \E t \in Seq(Tasks) : ready' = ready \o t /\ TasksFor(m, t) /\ DocumentsFor(t)
<1> HIDE DEF m
<1> SUFFICES Goal
  BY <1>0 DEF m
<1>e. << >> \in Seq(Tasks) /\ ready = ready \o << >> /\ \A i \in 1..Len(<< >>) : FALSE
  BY <1>0
<1>k. ASSUME opened' = opened PROVE \A t : DocumentsFor(t)
  BY <1>k DEF DocumentsFor
<1>p. ASSUME NEW u \in Uris, Spawn(publish_diagnostics(u)), Same,
             \A w \in DOMAIN opened' : w # u => w \in DOMAIN opened /\ opened'[w] = opened[w],
             m.type \notin {"answer", "didChangeConfiguration"}
      PROVE  Goal
  <2> DEFINE t == publish_diagnostics(u)
  <2>1. /\ t \in Seq(Tasks) /\ ready' = ready \o t
        /\ \A i \in 1..Len(t) : t[i].type = "diagnostics"
        /\ client_capabilities.should_send_diagnostics => Has(t, DiagnosticsOf(u))
    BY <1>p, DiagnosticsSpawned, Spawned DEF Spawn
  <2> HIDE DEF t
  <2>2. TasksFor(m, t)
    BY <1>p, <2>1 DEF TasksFor
  <2>3. DocumentsFor(t)
    BY <1>p, <2>1 DEF DocumentsFor
  <2> QED
    BY <1>p, <2>1, <2>2, <2>3
<1>q. ASSUME ready' = ready, Same, m.type \notin {"answer", "didChangeConfiguration"},
             \A w \in DOMAIN opened' : w \in DOMAIN opened /\ opened'[w] = opened[w]
      PROVE  Goal
  <2>1. TasksFor(m, << >>)
    BY <1>e, <1>q DEF TasksFor
  <2>2. DocumentsFor(<< >>)
    BY <1>q DEF DocumentsFor
  <2> QED
    BY <1>e, <1>q, <2>1, <2>2
<1>3. CASE m.type = "didOpen" /\ did_open(m)
  <2>1. insert(m.uri, m.text) /\ Spawn(publish_diagnostics(m.uri)) /\ Same
    BY <1>3 DEF did_open
  <2>2. /\ DOMAIN opened' = DOMAIN opened \cup {m.uri}
        /\ \A w \in DOMAIN opened : w # m.uri => opened'[w] = opened[w]
    BY <1>0, <1>3, <1>4, <2>1, InsertStorage
  <2>3. m.uri \in Uris /\ m.type \notin {"answer", "didChangeConfiguration"}
    BY <1>3, <1>4
  <2>4. \A w \in DOMAIN opened' : w # m.uri => w \in DOMAIN opened /\ opened'[w] = opened[w]
    BY <2>2
  <2> QED
    BY <1>p, <2>1, <2>3, <2>4
<1>5. CASE m.type = "didSave" /\ did_save(m)
  <2>0. Same /\ m.uri \in Uris /\ m.type \notin {"answer", "didChangeConfiguration"}
    BY <1>4, <1>5 DEF did_save
  <2>1. CASE m.text # "absent"
    <3>1. insert(m.uri, m.text) /\ Spawn(publish_diagnostics(m.uri))
      BY <1>5, <2>1 DEF did_save
    <3>2. m.text \in Texts
      BY <1>4, <1>5, <2>1 DEF MaybeText
    <3>3. /\ DOMAIN opened' = DOMAIN opened \cup {m.uri}
          /\ \A w \in DOMAIN opened : w # m.uri => opened'[w] = opened[w]
      BY <1>0, <2>0, <3>1, <3>2, InsertStorage
    <3>4. \A w \in DOMAIN opened' : w # m.uri => w \in DOMAIN opened /\ opened'[w] = opened[w]
      BY <3>3
    <3> QED
      BY <1>p, <2>0, <3>1, <3>4
  <2>2. CASE m.text = "absent"
    <3>1. UNCHANGED <<opened, cached, ready>>
      BY <1>5, <2>2 DEF did_save
    <3> QED
      BY <1>q, <2>0, <3>1
  <2> QED
    BY <2>1, <2>2
<1>6. CASE m.type = "didChange" /\ did_change(m)
  <2>1. update(m.uri, m.text) /\ Spawn(publish_diagnostics(m.uri)) /\ Same
    BY <1>6 DEF did_change
  <2>2. /\ DOMAIN opened' = DOMAIN opened
        /\ \A w \in DOMAIN opened : w # m.uri => opened'[w] = opened[w]
    BY <1>0, <1>4, <1>6, <2>1, UpdateStorage
  <2>3. m.uri \in Uris /\ m.type \notin {"answer", "didChangeConfiguration"}
    BY <1>4, <1>6
  <2>4. \A w \in DOMAIN opened' : w # m.uri => w \in DOMAIN opened /\ opened'[w] = opened[w]
    BY <2>2
  <2> QED
    BY <1>p, <2>1, <2>3, <2>4
<1>7. CASE m.type = "didClose" /\ did_close(m)
  <2>1. remove(m.uri, config = "on") /\ Same /\ ready' = ready
    BY <1>7 DEF did_close, server
  <2>2. /\ DOMAIN opened' = DOMAIN opened \ {m.uri}
        /\ \A w \in DOMAIN opened : w # m.uri => opened'[w] = opened[w]
    BY <1>0, <1>4, <1>7, <2>1, RemoveStorage
  <2>3. \A w \in DOMAIN opened' : w \in DOMAIN opened /\ opened'[w] = opened[w]
    BY <2>2
  <2>4. m.type \notin {"answer", "didChangeConfiguration"}
    BY <1>7
  <2> QED
    BY <1>q, <2>1, <2>3, <2>4
<1>8. CASE m.type = "didChangeConfiguration" /\ did_change_configuration
  <2>1. ready' = ready \o load_config /\ Same /\ opened' = opened
    BY <1>8 DEF did_change_configuration, storage, Spawn
  <2>2. load_config \in Seq(Tasks)
    BY Spawned
  <2>3. TasksFor(m, load_config)
    BY <1>8 DEF TasksFor
  <2>4. DocumentsFor(load_config)
    BY <1>k, <2>1
  <2> QED
    BY <2>1, <2>2, <2>3, <2>4
<1>9. CASE m.type = "watched" /\ did_change_watched_files(m)
  <2>1. Same /\ ready' = ready /\ opened' = opened /\ m.type \notin {"answer", "didChangeConfiguration"}
    BY <1>9 DEF did_change_watched_files, server
  <2> QED
    BY <1>q, <2>1
<1>10. CASE m.type = "answer" /\ ConfigurationAnswered(m)
  <2> DEFINE t == <<[type |-> "configGot", config |-> m.config]>>
  <2>1. ready' = ready \o t /\ Same /\ opened' = opened
    BY <1>10 DEF ConfigurationAnswered, storage, Spawn
  <2>2. t \in Seq(Tasks)
    BY <1>4, <1>10, Spawned
  <2>3. TasksFor(m, t)
    BY <1>10 DEF TasksFor
  <2>4. DocumentsFor(t)
    BY <1>k, <2>1
  <2> HIDE DEF t
  <2> QED
    BY <2>1, <2>2, <2>3, <2>4
<1> HIDE DEF Goal
<1> QED
  BY <1>0, <1>1, <1>3, <1>5, <1>6, <1>7, <1>8, <1>9, <1>10 DEF Handled, UserTypes

\* The tasks `initialized` spawns.
FirstTask ==
  IF client_capabilities.dynamic_registration_config_change
  THEN <<[type |-> "notifyConfig"]>> ELSE load_config

SecondTask ==
  IF config = "on" /\ client_capabilities.dynamic_registration_watched_files
  THEN register_fs_watcher ELSE << >>

LEMMA FirstTasksTyped ==
  ASSUME Typed
  PROVE  FirstTask \in Seq(Tasks) /\ SecondTask \in Seq(Tasks)
BY Spawned DEF FirstTask, SecondTask

LEMMA GreetedStep ==
  ASSUME Typed, Starting, Greeted, HandleMessage
  PROVE  /\ in' \in Seq(UserMessages) /\ out' = << >> /\ ready' = FirstTask \o SecondTask
         /\ opened' = << >> /\ events' = << >>
         /\ UNCHANGED <<client_capabilities, config, editor>>
<1>1. /\ in' = Tail(in) /\ Handled(Head(in)) /\ UNCHANGED editor
      /\ Head(in).type = "initialized" /\ Tail(in) \in Seq(UserMessages) /\ out = << >>
      /\ ready = << >> /\ opened = << >> /\ events = << >>
  BY HandleHead DEF Starting, Greeted
<1>2. initialized
  BY <1>1 DEF Handled
<1>3. ready' = ready \o (FirstTask \o SecondTask)
  BY <1>2 DEF initialized, Spawn, FirstTask, SecondTask
<1>4. FirstTask \o SecondTask \in Seq(Tasks)
  BY FirstTasksTyped
<1>5. ready' = FirstTask \o SecondTask
  BY <1>1, <1>3, <1>4
<1> QED
  BY <1>1, <1>2, <1>5 DEF initialized

LEMMA PhaseInit == Init => Starting
BY DEF Init, Starting, New

LEMMA StartingIsNotStarted == Starting => ~Started
<1> SUFFICES ASSUME Starting, Started PROVE FALSE
  OBVIOUS
<1>1. Greeted
  BY DEF Starting, Started, New, Asked, Answered
<1>2. Head(in) \in LaterMessages
  BY <1>1, HeadTail DEF Started, Greeted
<1> QED
  BY <1>1, <1>2 DEF Greeted, LaterMessages, UserTypes

LEMMA NextStartingIsNotStarted == Starting' => ~Started'
BY StartingIsNotStarted, PTL

\* Until `initialized` is handled a session is starting, and then it is started.
LEMMA StartingStep ==
  ASSUME Typed, Starting, [Next]_vars
  PROVE  Starting' \/ (Greeted /\ HandleMessage /\ Started')
<1>0. ready = << >> /\ events = << >> /\ watching = FALSE /\ opened = << >> /\ in \in Seq(ToServer)
  BY DEF Starting, Typed, QueuesTyped
<1>1. CASE UNCHANGED vars
  BY <1>1 DEF Starting, New, Asked, Answered, Greeted, vars, editor, storage, server
<1>2. CASE UserOp
  <2>1. /\ session = "ready" /\ UNCHANGED <<session, watching, notifies, storage, server, out>>
        /\ \E t \in Seq(UserMessages) : in' = in \o t
    BY <1>2, UserSends
  <2>2. Greeted
    BY <2>1 DEF Starting, New, Asked, Answered
  <2>3. PICK t \in Seq(UserMessages) : in' = in \o t
    BY <2>1
  <2>4. t \in Seq(ToServer) /\ in # << >> /\ Tail(in) \in Seq(UserMessages)
    BY <2>2, SeqWider DEF UserMessages, Greeted
  <2>5. in' # << >> /\ Head(in') = Head(in) /\ Tail(in') = Tail(in) \o t
    BY <1>0, <2>3, <2>4
  <2>6. Tail(in') \in Seq(UserMessages)
    <3>1. \A q \in Seq(UserMessages) : q \o t \in Seq(UserMessages)
      BY <2>3
    <3> QED
      BY <2>4, <2>5, <3>1
  <2>7. Greeted'
    BY <2>1, <2>2, <2>5, <2>6 DEF Greeted, server
  <2> QED
    BY <1>0, <2>1, <2>7 DEF Starting, storage, server
<1>3. CASE EditorInitialize
  <2>1. /\ session = "new" /\ session' = "initializing"
        /\ UNCHANGED <<watching, storage, server, out>>
    BY <1>3, EditorInitializeStep
  <2>2. PICK m \in ToServer : /\ m.type = "initialize" /\ in' = Append(in, m)
                              /\ m.caps.dynamic_registration_config_change \/ notifies'
    BY <1>3, EditorInitializeStep
  <2>3. New
    BY <2>1 DEF Starting, Asked, Answered, Greeted
  <2>4. in' # << >> /\ Head(in') = m /\ Tail(in') = << >>
    BY <2>2, <2>3 DEF New
  <2>5. Asked'
    BY <2>1, <2>2, <2>3, <2>4 DEF Asked, New, server
  <2> QED
    BY <1>0, <2>1, <2>5 DEF Starting, storage, server
<1>4. CASE EditorReceives
  <2>1. out # << >> /\ out' = Tail(out) /\ UNCHANGED <<storage, server>>
    BY <1>4, EditorReceivesStep
  <2>2. Answered
    BY <2>1 DEF Starting, New, Asked, Greeted
  <2>3. /\ session' = "ready" /\ in' = Append(in, [type |-> "initialized"])
        /\ UNCHANGED <<shown, watching, notifies>>
    BY <1>4, <2>2, EditorReceivesStep DEF Answered
  <2>4. in' # << >> /\ Head(in').type = "initialized" /\ Tail(in') = << >>
    BY <2>2, <2>3 DEF Answered
  <2>5. Greeted'
    BY <2>1, <2>2, <2>3, <2>4 DEF Answered, Greeted, server
  <2> QED
    BY <1>0, <2>1, <2>3, <2>5 DEF Starting, storage, server
<1>5. CASE HandleMessage
  <2>1. in # << >> /\ in' = Tail(in) /\ Handled(Head(in)) /\ UNCHANGED editor
    BY <1>5, HandleHead
  <2>2. CASE Asked
    <3>1. initialize(Head(in))
      BY <2>1, <2>2 DEF Asked, Handled
    <3>2. /\ client_capabilities' = Head(in).caps /\ UNCHANGED <<opened, ready, events>>
          /\ out' = Append(out, [type |-> "initializeResult"])
      BY <3>1 DEF initialize
    <3>3. out' # << >> /\ Head(out').type = "initializeResult" /\ Tail(out') = << >>
      BY <2>2, <3>2 DEF Asked
    <3>4. Answered'
      BY <2>1, <2>2, <3>2, <3>3 DEF Asked, Answered, editor
    <3> QED
      BY <1>0, <2>1, <3>2, <3>4 DEF Starting, editor
  <2>3. CASE Greeted
    <3>1. /\ in' \in Seq(UserMessages) /\ out' = << >> /\ ready' = FirstTask \o SecondTask
          /\ UNCHANGED <<client_capabilities, editor>>
      BY <1>5, <2>3, GreetedStep
    <3>2. in' \in Seq(LaterMessages)
      BY <3>1, SeqWider DEF UserMessages, LaterMessages
    <3>3. Notified'
      <4>1. CASE notifies
        BY <3>1, <4>1 DEF Notified, editor
      <4>2. CASE ~notifies
        <5>1. FirstTask = <<[type |-> "notifyConfig"]>>
          BY <2>3, <4>2 DEF Greeted, FirstTask
        <5>2. [type |-> "notifyConfig"] \in NotifyTask
          BY DEF NotifyTask, Tasks
        <5>3. Has(FirstTask, NotifyTask)
          <6>1. Len(FirstTask) = 1 /\ FirstTask[1] = [type |-> "notifyConfig"]
            BY <5>1
          <6>2. 1 \in 1..Len(FirstTask)
            BY <6>1
          <6> QED
            BY <5>2, <6>1, <6>2 DEF Has
        <5>4. Has(ready', NotifyTask)
          BY <3>1, <5>3, FirstTasksTyped, HasConcat
        <5>5. NotifyTask' = NotifyTask
          BY DEF NotifyTask, Tasks
        <5> QED
          BY <5>4, <5>5 DEF Notified, Has
      <4> QED
        BY <4>1, <4>2
    <3>4. Started'
      <4>1. session' = "ready"
        BY <2>3, <3>1 DEF Greeted, editor
      <4>2. out' \in Seq(LaterAnswers)
        BY <3>1
      <4> QED
        BY <3>2, <3>3, <4>1, <4>2 DEF Started, LaterMessages, LaterAnswers, ToServer, ToEditor
    <3> QED
      BY <1>5, <2>3, <3>4
  <2> QED
    BY <2>1, <2>2, <2>3 DEF Starting, New, Answered
<1>6. CASE update_config
  BY <1>0, <1>6 DEF update_config
<1>7. CASE RunTask
  BY <1>0, <1>7, RunTaskStep
<1> QED
  BY <1>1, <1>2, <1>3, <1>4, <1>5, <1>6, <1>7, NextCases

\* update_config spawns the registration of the watcher, or its removal, when
\* the configuration turned, and nothing else.
LEMMA UpdateConfigSpawns ==
  ASSUME Typed, update_config
  PROVE  /\ Head(events) \in {"on", "off"}
         /\ \E t \in Seq(Tasks) :
               /\ ready' = ready \o t
               /\ \A i \in 1..Len(t) : t[i].type \in {"watchFiles", "unwatchFiles"}
               /\ \/ t = << >> /\ (client_capabilities.dynamic_registration_watched_files =>
                                     Head(events) = config)
                  \/ t = <<[type |-> "watchFiles"]>> /\ Head(events) = "on"
                  \/ t = <<[type |-> "unwatchFiles"]>> /\ Head(events) = "off"
<1> DEFINE value == Head(events)
           toggled == value # config /\ client_capabilities.dynamic_registration_watched_files
<1>1. ready \in Seq(Tasks) /\ events \in Seq({"on", "off"}) /\ events # << >>
  BY DEF Typed, QueuesTyped, update_config
<1>2. value \in {"on", "off"}
  BY <1>1, HeadTail
<1>3. (CASE toggled /\ value = "on" -> Spawn(register_fs_watcher) /\ cache_workspace
         [] toggled /\ value = "off" -> Spawn(unregister_fs_watcher) /\ clear_cache
         [] OTHER -> UNCHANGED <<ready, cached>>)
  BY DEF update_config
<1> DEFINE Goal(t) == /\ ready' = ready \o t
                      /\ \A i \in 1..Len(t) : t[i].type \in {"watchFiles", "unwatchFiles"}
                      /\ \/ t = << >> /\ (client_capabilities.dynamic_registration_watched_files =>
                                            value = config)
                         \/ t = <<[type |-> "watchFiles"]>> /\ value = "on"
                         \/ t = <<[type |-> "unwatchFiles"]>> /\ value = "off"
<1>q. SUFFICES \E t \in Seq(Tasks) : Goal(t)
  BY <1>2
<1> HIDE DEF value
<1>4. CASE toggled /\ value = "on"
  <2>1. ready' = ready \o <<[type |-> "watchFiles"]>>
    BY <1>3, <1>4 DEF Spawn, register_fs_watcher
  <2>2. <<[type |-> "watchFiles"]>> \in Seq(Tasks)
    BY Spawned DEF register_fs_watcher
  <2>3. Goal(<<[type |-> "watchFiles"]>>)
    BY <1>4, <2>1
  <2> HIDE DEF Goal
  <2> QED
    BY <2>2, <2>3
<1>5. CASE toggled /\ value = "off"
  <2>1. ready' = ready \o <<[type |-> "unwatchFiles"]>>
    BY <1>3, <1>5 DEF Spawn, unregister_fs_watcher
  <2>2. <<[type |-> "unwatchFiles"]>> \in Seq(Tasks)
    BY Spawned DEF unregister_fs_watcher
  <2>3. Goal(<<[type |-> "unwatchFiles"]>>)
    BY <1>5, <2>1
  <2> HIDE DEF Goal
  <2> QED
    BY <2>2, <2>3
<1>6. CASE ~toggled
  <2>1. ready' = ready
    BY <1>3, <1>6
  <2>2. << >> \in Seq(Tasks) /\ ready' = ready \o << >>
    BY <1>1, <2>1
  <2>3. Goal(<< >>)
    BY <1>6, <2>2
  <2> HIDE DEF Goal
  <2> QED
    BY <2>2, <2>3
<1> HIDE DEF Goal
<1> QED
  BY <1>2, <1>4, <1>5, <1>6

\* What a task sends, if anything.
LEMMA RunTaskSends ==
  ASSUME Typed, RunTask
  PROVE  out' = out \/ (\E e \in LaterAnswers : out' = Append(out, e) /\
                          (Head(ready).type = "notifyConfig" => e.type = "notifyConfig"))
<1> DEFINE m == Head(ready)
<1>1. IsMap(opened, Documents) /\ m \in Tasks
  BY RunTaskStep DEF Typed, ServerTyped, StorageInv
<1>2. m.type = "diagnostics" => m.uri \in Uris
  BY <1>1, TaskKinds
<1>3. diagnostics(m.uri) \in Texts \cup {Nothing}
  BY <1>1 DEF diagnostics, IsMap, Documents
<1>4. CASE /\ m.type = "diagnostics"
           /\ out' = Append(out, [type |-> "publish", uri |-> m.uri, of |-> diagnostics(m.uri)])
  <2>1. [type |-> "publish", uri |-> m.uri, of |-> diagnostics(m.uri)] \in LaterAnswers
    BY <1>2, <1>3, <1>4 DEF ToEditor, LaterAnswers
  <2> QED
    BY <1>4, <2>1
<1>5. CASE m.type = "loadConfig" /\ out' = Append(out, [type |-> "configuration"])
  <2>1. [type |-> "configuration"] \in LaterAnswers
    BY DEF ToEditor, LaterAnswers
  <2> QED
    BY <1>5, <2>1
<1>6. CASE m.type \in {"watchFiles", "unwatchFiles", "notifyConfig"} /\ out' = Append(out, [type |-> m.type])
  <2>1. [type |-> m.type] \in LaterAnswers /\ [type |-> m.type].type = m.type
    BY <1>6 DEF ToEditor, LaterAnswers
  <2> QED
    BY <1>6, <2>1
<1> QED
  BY <1>4, <1>5, <1>6, RunTaskStep

LEMMA NotifiedKept ==
  ASSUME notifies => notifies', Has(out, NotifyAnswer) => (notifies' \/ Has(out', NotifyAnswer)),
         Has(ready, NotifyTask) => (Has(out', NotifyAnswer) \/ Has(ready', NotifyTask)), Notified
  PROVE  Notified'
<1>1. NotifyTask' = NotifyTask /\ NotifyAnswer' = NotifyAnswer
  BY DEF NotifyTask, NotifyAnswer, Tasks, ToEditor
<1>2. notifies' \/ Has(out', NotifyAnswer) \/ Has(ready', NotifyTask)
  BY DEF Notified
<1> QED
  BY <1>1, <1>2 DEF Notified, Has

LEMMA StartedStep ==
  ASSUME Typed, Started, [Next]_vars
  PROVE  Started'
<1>0. /\ in \in Seq(LaterMessages) /\ out \in Seq(LaterAnswers) /\ Notified /\ session = "ready"
      /\ ready \in Seq(Tasks)
  BY DEF Started, Typed, QueuesTyped
<1>s. ASSUME session' = "ready", in' \in Seq(LaterMessages), out' \in Seq(LaterAnswers), Notified'
      PROVE  Started'
  BY <1>s DEF Started, LaterMessages, LaterAnswers, ToServer, ToEditor
<1>1. CASE UNCHANGED vars
  <2>1. UNCHANGED <<session, in, out, notifies, ready>>
    BY <1>1 DEF vars, editor, server
  <2>2. Notified'
    BY <1>0, <2>1, NotifiedKept
  <2> QED
    BY <1>0, <1>s, <2>1, <2>2
<1>2. CASE UserOp
  <2>1. UNCHANGED <<session, out, notifies, ready>>
    BY <1>2, UserSends DEF server
  <2>2. PICK t \in Seq(UserMessages) : in' = in \o t
    BY <1>2, UserSends
  <2>3. t \in Seq(LaterMessages)
    BY <2>2, SeqWider DEF UserMessages, LaterMessages
  <2>4. in' \in Seq(LaterMessages)
    BY <1>0, <2>2, <2>3
  <2>5. Notified'
    BY <1>0, <2>1, NotifiedKept
  <2> QED
    BY <1>0, <1>s, <2>1, <2>4, <2>5
<1>3. CASE EditorInitialize
  BY <1>0, <1>3, EditorInitializeStep
<1>4. CASE EditorReceives
  <2> DEFINE m == Head(out)
  <2>1. out # << >> /\ out' = Tail(out) /\ ready' = ready
    BY <1>4, EditorReceivesStep DEF server
  <2>2. m \in LaterAnswers /\ out' \in Seq(LaterAnswers)
    BY <1>0, <2>1, HeadTail
  <2>3. m.type # "initializeResult"
    BY <2>2 DEF LaterAnswers
  <2>4. session' = session
    BY <1>4, <2>3, EditorReceivesStep
  <2>5. \/ in' = in
        \/ in' = Append(in, [type |-> "didChangeConfiguration"])
        \/ in' = Append(in, [type |-> "answer", config |-> settings])
    BY <1>4, <2>3, EditorReceivesStep
  <2>6. /\ [type |-> "didChangeConfiguration"] \in LaterMessages
        /\ [type |-> "answer", config |-> settings] \in LaterMessages
    BY DEF LaterMessages, UserTypes, ToServer, Typed, EditorTyped
  <2>7. in' \in Seq(LaterMessages)
    <3>1. \A e \in LaterMessages : Append(in, e) \in Seq(LaterMessages)
      BY <1>0
    <3> QED
      BY <1>0, <2>5, <2>6, <3>1, Zenon
  <2>8. Notified'
    <3>1. notifies => notifies'
      BY <1>4, EditorReceivesStep
    <3>2. Has(out, NotifyAnswer) => (notifies' \/ Has(out', NotifyAnswer))
      <4>1. CASE m.type = "notifyConfig"
        BY <1>4, <4>1, EditorReceivesStep
      <4>2. CASE m.type # "notifyConfig"
        <5>1. m \notin NotifyAnswer
          BY <4>2 DEF NotifyAnswer
        <5> QED
          BY <1>0, <2>1, <5>1, HasTail
      <4> QED
        BY <4>1, <4>2
    <3>3. Has(ready, NotifyTask) => Has(ready', NotifyTask)
      BY <2>1
    <3> QED
      BY <1>0, <3>1, <3>2, <3>3, NotifiedKept
  <2> QED
    BY <1>0, <1>s, <2>2, <2>4, <2>7, <2>8
<1>5. CASE HandleMessage
  <2>1. in # << >>
    BY <1>5, HandleHead
  <2>2. Head(in) \in LaterMessages /\ Tail(in) \in Seq(LaterMessages)
    BY <1>0, <2>1, HeadTail
  <2>3. Head(in).type \in UserTypes \cup {"answer"}
    BY <2>2 DEF LaterMessages
  <2>4. in' = Tail(in) /\ out' = out /\ UNCHANGED editor
    BY <1>5, <2>3, HandleStarted
  <2>5. PICK t \in Seq(Tasks) : ready' = ready \o t
    BY <1>5, <2>3, HandleStarted
  <2>6. Has(ready, NotifyTask) => Has(ready', NotifyTask)
    BY <1>0, <2>5, HasConcat
  <2>7. Notified'
    BY <1>0, <2>4, <2>6, NotifiedKept DEF editor
  <2> QED
    BY <1>0, <1>s, <2>2, <2>4, <2>7 DEF editor
<1>6. CASE update_config
  <2>1. UNCHANGED <<session, in, out, notifies>>
    BY <1>6 DEF update_config, editor
  <2>4. PICK t \in Seq(Tasks) : ready' = ready \o t
    BY <1>6, UpdateConfigSpawns
  <2>2. Has(ready, NotifyTask) => Has(ready', NotifyTask)
    BY <1>0, <2>4, HasConcat
  <2>3. Notified'
    BY <1>0, <2>1, <2>2, NotifiedKept
  <2> QED
    BY <1>0, <1>s, <2>1, <2>3
<1>7. CASE RunTask
  <2> DEFINE m == Head(ready)
  <2>1. /\ ready # << >> /\ ready' = Tail(ready) /\ m \in Tasks
        /\ UNCHANGED <<editor, in>>
    BY <1>7, RunTaskStep
  <2>2. out' = out \/ (\E e \in LaterAnswers : out' = Append(out, e) /\
                         (m.type = "notifyConfig" => e.type = "notifyConfig"))
    BY <1>7, RunTaskSends
  <2>3. out' \in Seq(LaterAnswers)
    BY <1>0, <2>2, SMTT(30)
  <2>4. Has(out, NotifyAnswer) => Has(out', NotifyAnswer)
    BY <1>0, <2>2, HasAppend, ZenonT(40)
  <2>5. Has(ready, NotifyTask) => (Has(out', NotifyAnswer) \/ Has(ready', NotifyTask))
    <3>1. CASE m.type = "notifyConfig"
      <4>1. out' = Append(out, [type |-> "notifyConfig"])
        BY <1>7, <3>1, RunTaskStep
      <4>2. [type |-> "notifyConfig"] \in LaterAnswers /\ [type |-> "notifyConfig"] \in NotifyAnswer
        BY DEF LaterAnswers, NotifyAnswer, ToEditor
      <4> QED
        BY <1>0, <4>1, <4>2, HasAppend
    <3>2. CASE m.type # "notifyConfig"
      <4>1. m \notin NotifyTask
        BY <3>2 DEF NotifyTask
      <4> QED
        BY <1>0, <2>1, <4>1, HasTail
    <3> QED
      BY <3>1, <3>2
  <2>6. Notified'
    BY <1>0, <2>1, <2>4, <2>5, NotifiedKept DEF editor
  <2> QED
    BY <1>0, <1>s, <2>1, <2>3, <2>6 DEF editor
<1> QED
  BY <1>1, <1>2, <1>3, <1>4, <1>5, <1>6, <1>7, NextCases

LEMMA PhaseNext == Typed /\ Phase /\ [Next]_vars => Phase'
BY StartingStep, StartedStep DEF Phase

\* A started session handles no more of the opening, and keeps the capabilities.
LEMMA StartedHead ==
  ASSUME Typed, Started, HandleMessage
  PROVE  Head(in).type \in UserTypes \cup {"answer"}
<1>1. in # << >> /\ in \in Seq(LaterMessages)
  BY HandleHead DEF Started
<1>2. Head(in) \in LaterMessages
  BY <1>1, HeadTail
<1> QED
  BY <1>2 DEF LaterMessages

LEMMA StartedKeeps ==
  ASSUME Typed, Started, [Next]_vars
  PROVE  client_capabilities' = client_capabilities
<1>1. CASE HandleMessage
  BY <1>1, StartedHead, HandleStarted
<1> QED
  BY <1>1, NextCases, UserSends, EditorInitializeStep, EditorReceivesStep, RunTaskStep
  DEF vars, server, update_config

LEMMA TasksForTypes ==
  ASSUME NEW m, NEW t, TasksFor(m, t), NEW i \in 1..Len(t)
  PROVE  t[i].type \in {"diagnostics", "loadConfig", "configGot"}
<1>1. CASE m.type = "answer"
  <2>1. t = <<[type |-> "configGot", config |-> m.config]>>
    BY <1>1 DEF TasksFor
  <2> QED
    BY <2>1
<1>2. CASE m.type = "didChangeConfiguration"
  <2>1. t = <<[type |-> "loadConfig"]>> \/ t = << >>
    BY <1>2 DEF TasksFor, load_config
  <2> QED
    BY <2>1
<1>3. CASE m.type \notin {"answer", "didChangeConfiguration"}
  BY <1>3 DEF TasksFor
<1> QED
  BY <1>1, <1>2, <1>3

LEMMA RunTaskWatch ==
  ASSUME Typed, RunTask, out' # out \/ Head(ready).type # "configGot"
  PROVE  \E e \in ToEditor :
            /\ out' = Append(out, e)
            /\ e.type = Head(ready).type
                 \/ ({e.type, Head(ready).type} \cap {"watchFiles", "unwatchFiles"} = {})
<1> DEFINE m == Head(ready)
<1>1. IsMap(opened, Documents) /\ m \in Tasks
  BY RunTaskStep DEF Typed, ServerTyped, StorageInv
<1>2. m.type = "diagnostics" => m.uri \in Uris
  BY <1>1, TaskKinds
<1>3. diagnostics(m.uri) \in Texts \cup {Nothing}
  BY <1>1 DEF diagnostics, IsMap, Documents
<1>4. CASE /\ m.type = "diagnostics"
           /\ out' = Append(out, [type |-> "publish", uri |-> m.uri, of |-> diagnostics(m.uri)])
  <2> DEFINE e == [type |-> "publish", uri |-> m.uri, of |-> diagnostics(m.uri)]
  <2>1. e \in ToEditor /\ e.type = "publish"
    BY <1>2, <1>3, <1>4 DEF ToEditor
  <2> QED
    BY <1>4, <2>1
<1>5. CASE m.type = "loadConfig" /\ out' = Append(out, [type |-> "configuration"])
  <2>1. [type |-> "configuration"] \in ToEditor
    BY DEF ToEditor
  <2> QED
    BY <1>5, <2>1
<1>6. CASE m.type \in {"watchFiles", "unwatchFiles", "notifyConfig"} /\ out' = Append(out, [type |-> m.type])
  <2>1. [type |-> m.type] \in ToEditor /\ [type |-> m.type].type = m.type
    BY <1>6 DEF ToEditor
  <2> QED
    BY <1>6, <2>1
<1> QED
  BY <1>4, <1>5, <1>6, RunTaskStep

-----------------------------------------------------------------------------
(* The watcher: what the answers and tasks under way make of it            *)

WatchAfter(m, v) ==
  IF m.type = "watchFiles" THEN TRUE ELSE IF m.type = "unwatchFiles" THEN FALSE ELSE v

WatchEffect == [m \in ToEditor \cup Tasks |-> [v \in BOOLEAN |-> WatchAfter(m, v)]]

Watches(x) ==
  Leads(WatchEffect, out, watching, x) /\ Leads(WatchEffect, ready, x, config = "on")

WatchInv ==
  Started /\ client_capabilities.dynamic_registration_watched_files =>
     \E x \in BOOLEAN : Watches(x)

LEMMA WatchEffectAt ==
  ASSUME NEW m \in ToEditor \cup Tasks, NEW v \in BOOLEAN
  PROVE  WatchEffect[m][v] = WatchAfter(m, v) /\ WatchAfter(m, v) \in BOOLEAN
BY DEF WatchEffect, WatchAfter

LEMMA WatchesFrom ==
  ASSUME NEW x \in BOOLEAN,
         Leads(WatchEffect, out', watching', x), Leads(WatchEffect, ready', x, (config = "on")')
  PROVE  WatchInv'
<1>1. WatchEffect' = WatchEffect
  BY DEF WatchEffect, ToEditor, Tasks, WatchAfter
<1>2. Leads(WatchEffect', out', watching', x) /\ Leads(WatchEffect', ready', x, config' = "on")
  BY <1>1
<1>3. Watches(x)'
  BY <1>2 DEF Watches
<1> QED
  BY <1>3 DEF WatchInv

LEMMA WatchNext == Typed /\ Phase /\ WatchInv /\ [Next]_vars => WatchInv'
<1> SUFFICES ASSUME Typed, Phase, WatchInv, [Next]_vars PROVE WatchInv'
  OBVIOUS
<1> DEFINE Wanted == client_capabilities.dynamic_registration_watched_files
<1>0. out \in Seq(ToEditor) /\ ready \in Seq(Tasks) /\ watching \in BOOLEAN /\ config \in {"on", "off"}
  BY DEF Typed, QueuesTyped, EditorTyped, ServerTyped
<1>1. CASE Starting
  <2>1. CASE Starting'
    BY <2>1, NextStartingIsNotStarted DEF WatchInv
  <2>2. CASE Greeted /\ HandleMessage /\ Started'
    <3>1. /\ ready' = FirstTask \o SecondTask /\ out' = << >>
          /\ UNCHANGED <<client_capabilities, config, editor>>
      BY <1>1, <2>2, GreetedStep
    <3>2. watching' = FALSE
      BY <1>1, <3>1 DEF Starting, editor
    <3>3. CASE ~Wanted
      BY <3>1, <3>3 DEF WatchInv
    <3>4. CASE Wanted
      <4>1. Leads(WatchEffect, out', watching', FALSE)
        BY <3>1, <3>2, LeadsEmpty
      <4>2. Leads(WatchEffect, FirstTask, FALSE, FALSE)
        <5>1. Leads(WatchEffect, << >>, FALSE, FALSE)
          BY LeadsEmpty
        <5>2. \A i \in 1..Len(FirstTask) : WatchEffect[FirstTask[i]][FALSE] = FALSE
          <6> SUFFICES ASSUME NEW i \in 1..Len(FirstTask) PROVE WatchEffect[FirstTask[i]][FALSE] = FALSE
            OBVIOUS
          <6>1. FirstTask[i] \in Tasks
            BY FirstTasksTyped
          <6>2. FirstTask[i].type \in {"notifyConfig", "loadConfig"}
            <7>1. \/ FirstTask = <<[type |-> "notifyConfig"]>> \/ FirstTask = <<[type |-> "loadConfig"]>>
                  \/ FirstTask = << >>
              BY DEF FirstTask, load_config
            <7> QED
              BY <7>1
          <6> QED
            BY <6>1, <6>2, WatchEffectAt DEF WatchAfter
        <5>5. << >> \in Seq(Tasks) /\ FirstTask \in Seq(Tasks)
          BY FirstTasksTyped
        <5>3. Leads(WatchEffect, << >> \o FirstTask, FALSE, FALSE)
          BY <5>1, <5>2, <5>5, LeadsSame
        <5>4. << >> \o FirstTask = FirstTask
          BY FirstTasksTyped
        <5> QED
          BY <5>3, <5>4
      <4>3. Leads(WatchEffect, ready', FALSE, config = "on")
        <5>1. CASE config = "on"
          <6> DEFINE e == [type |-> "watchFiles"]
          <6>1. e \in Tasks /\ e.type = "watchFiles"
            BY DEF Tasks
          <6>2. SecondTask = <<e>>
            BY <3>4, <5>1 DEF SecondTask, register_fs_watcher
          <6> HIDE DEF e
          <6>3. ready' = Append(FirstTask, e)
            BY <3>1, <6>1, <6>2, FirstTasksTyped, ConcatOne
          <6>4. Leads(WatchEffect, ready', FALSE, WatchEffect[e][FALSE])
            BY <4>2, <6>1, <6>3, FirstTasksTyped, LeadsAppend
          <6>5. WatchEffect[e][FALSE] = TRUE
            BY <6>1, WatchEffectAt DEF WatchAfter
          <6>6. (config = "on") = TRUE
            BY <5>1
          <6> QED
            BY <6>4, <6>5, <6>6
        <5>2. CASE config # "on"
          <6>1. SecondTask = << >>
            BY <5>2 DEF SecondTask
          <6>2. ready' = FirstTask
            BY <3>1, <6>1, FirstTasksTyped
          <6>3. (config = "on") = FALSE
            BY <5>2
          <6> QED
            BY <4>2, <6>2, <6>3
        <5> QED
          BY <5>1, <5>2
      <4>4. (config = "on")' = (config = "on")
        BY <3>1
      <4> QED
        BY <4>1, <4>3, <4>4, WatchesFrom
    <3> QED
      BY <3>3, <3>4
  <2> QED
    BY <1>1, <2>1, <2>2, StartingStep
<1>2. CASE Started /\ ~Wanted
  <2>1. client_capabilities' = client_capabilities
    BY <1>2, StartedKeeps
  <2> QED
    BY <1>2, <2>1 DEF WatchInv
<1>3. CASE Started /\ Wanted
  <2>0. PICK x \in BOOLEAN : Leads(WatchEffect, out, watching, x) /\ Leads(WatchEffect, ready, x, config = "on")
    BY <1>3 DEF WatchInv, Watches
  <2>1. ASSUME UNCHANGED <<out, watching, ready, config>> PROVE WatchInv'
    <3>1. (config = "on")' = (config = "on")
      BY <2>1
    <3> QED
      BY <2>0, <2>1, <3>1, WatchesFrom
  <2>2. CASE UNCHANGED vars
    BY <2>1, <2>2 DEF vars, editor, server
  <2>3. CASE UserOp
    BY <2>1, <2>3, UserSends DEF server
  <2>4. CASE EditorInitialize
    BY <1>3, <2>4 DEF Started, EditorInitialize
  <2>5. CASE EditorReceives
    <3> DEFINE m == Head(out)
    <3>1. out # << >> /\ out' = Tail(out) /\ m \in ToEditor /\ UNCHANGED server
      BY <2>5, EditorReceivesStep
    <3>2. watching' = WatchAfter(m, watching)
      BY <2>5, EditorReceivesStep DEF WatchAfter
    <3>3. Leads(WatchEffect, Tail(out), WatchEffect[m][watching], x)
      BY <1>0, <2>0, <3>1, LeadsTail
    <3>4. WatchEffect[m][watching] = watching'
      BY <1>0, <3>1, <3>2, WatchEffectAt
    <3> HIDE DEF m
    <3>5. Leads(WatchEffect, out', watching', x)
      BY <3>1, <3>3, <3>4
    <3>6. ready' = ready /\ (config = "on")' = (config = "on")
      BY <3>1 DEF server
    <3> QED
      BY <2>0, <3>5, <3>6, WatchesFrom
  <2>6. CASE HandleMessage
    <3>1. Head(in).type \in UserTypes \cup {"answer"}
      BY <1>3, <2>6, StartedHead
    <3>2. UNCHANGED <<config, out, editor>>
      BY <2>6, <3>1, HandleStarted
    <3>3. PICK t \in Seq(Tasks) : ready' = ready \o t /\ TasksFor(Head(in), t)
      BY <2>6, <3>1, HandleStarted
    <3>4. \A i \in 1..Len(t) : WatchEffect[t[i]][config = "on"] = (config = "on")
      <4> SUFFICES ASSUME NEW i \in 1..Len(t)
                   PROVE  WatchEffect[t[i]][config = "on"] = (config = "on")
        OBVIOUS
      <4>1. t[i] \in Tasks
        BY <3>3
      <4>2. t[i].type \in {"diagnostics", "loadConfig", "configGot"}
        BY <3>3, TasksForTypes
      <4> DEFINE b == config = "on"
      <4>3. b \in BOOLEAN
        OBVIOUS
      <4> HIDE DEF b
      <4>4. WatchEffect[t[i]][b] = b
        BY <4>1, <4>2, <4>3, WatchEffectAt DEF WatchAfter
      <4> QED
        BY <4>4 DEF b
    <3>5. Leads(WatchEffect, ready', x, config = "on")
      BY <1>0, <2>0, <3>3, <3>4, LeadsSame
    <3>6. (config = "on")' = (config = "on") /\ watching' = watching
      BY <3>2 DEF editor
    <3> QED
      BY <2>0, <3>2, <3>5, <3>6, WatchesFrom
  <2>7. CASE update_config
    <3>1. UNCHANGED <<out, watching>> /\ config' = Head(events)
      BY <2>7 DEF update_config, editor
    <3>2. PICK t \in Seq(Tasks) :
            /\ ready' = ready \o t
            /\ \/ t = << >> /\ Head(events) = config
               \/ t = <<[type |-> "watchFiles"]>> /\ Head(events) = "on"
               \/ t = <<[type |-> "unwatchFiles"]>> /\ Head(events) = "off"
      BY <1>3, <2>7, UpdateConfigSpawns
    <3>3. CASE t = << >> /\ Head(events) = config
      <4>1. ready' = ready /\ config' = config
        BY <1>0, <3>1, <3>2, <3>3
      <4> QED
        BY <2>1, <3>1, <4>1
    <3>4. ASSUME NEW typ \in {"watchFiles", "unwatchFiles"}, t = <<[type |-> typ]>>,
                 Head(events) = IF typ = "watchFiles" THEN "on" ELSE "off"
          PROVE  WatchInv'
      <4> DEFINE e == [type |-> typ]
      <4>1. e \in Tasks /\ e.type = typ
        BY DEF Tasks
      <4> DEFINE b == config = "on"
      <4>2. b \in BOOLEAN
        OBVIOUS
      <4>3. ready' = Append(ready, e)
        BY <1>0, <3>2, <3>4, <4>1, ConcatOne
      <4> HIDE DEF e
      <4>4. Leads(WatchEffect, ready', x, WatchEffect[e][b])
        BY <1>0, <2>0, <4>1, <4>3, LeadsAppend
      <4> HIDE DEF b
      <4>5. WatchEffect[e][b] = WatchAfter(e, b)
        BY <4>1, <4>2, WatchEffectAt
      <4>6. WatchAfter(e, b) = (typ = "watchFiles")
        BY <4>1, <3>4 DEF WatchAfter
      <4>7. (config = "on")' = (typ = "watchFiles")
        BY <3>1, <3>4
      <4>8. Leads(WatchEffect, ready', x, (config = "on")')
        BY <4>4, <4>5, <4>6, <4>7
      <4> QED
        BY <2>0, <3>1, <4>8, WatchesFrom
    <3> QED
      BY <3>2, <3>3, <3>4
  <2>8. CASE RunTask
    <3> DEFINE m == Head(ready)
    <3>1. ready # << >> /\ ready' = Tail(ready) /\ m \in Tasks /\ UNCHANGED <<config, editor>>
      BY <2>8, RunTaskStep
    <3>2. Leads(WatchEffect, ready', WatchEffect[m][x], config = "on")
      BY <1>0, <2>0, <3>1, LeadsTail
    <3>3. WatchEffect[m][x] = WatchAfter(m, x) /\ WatchAfter(m, x) \in BOOLEAN
      BY <3>1, WatchEffectAt
    <3>4. Leads(WatchEffect, out', watching, WatchAfter(m, x))
      <4>1. ASSUME NEW e \in ToEditor, out' = Append(out, e), WatchAfter(e, x) = WatchAfter(m, x)
            PROVE  Leads(WatchEffect, out', watching, WatchAfter(m, x))
        <5>1. Leads(WatchEffect, Append(out, e), watching, WatchEffect[e][x])
          BY <1>0, <2>0, LeadsAppend
        <5>2. WatchEffect[e][x] = WatchAfter(m, x)
          BY <4>1, WatchEffectAt
        <5> QED
          BY <4>1, <5>1, <5>2
      <4>2. CASE out' = out /\ m.type = "configGot"
        <5>1. WatchAfter(m, x) = x
          BY <4>2 DEF WatchAfter
        <5> QED
          BY <2>0, <4>2, <5>1
      <4>3. CASE out' # out \/ m.type # "configGot"
        <5>1. PICK e \in ToEditor :
                /\ out' = Append(out, e)
                /\ e.type = m.type \/ ({e.type, m.type} \cap {"watchFiles", "unwatchFiles"} = {})
          BY <2>8, <4>3, RunTaskWatch
        <5>2. WatchAfter(e, x) = WatchAfter(m, x)
          BY <5>1 DEF WatchAfter
        <5> QED
          BY <4>1, <5>1, <5>2
      <4> QED
        BY <4>2, <4>3
    <3>5. watching' = watching /\ (config = "on")' = (config = "on")
      BY <3>1 DEF editor
    <3> HIDE DEF m
    <3> QED
      BY <3>2, <3>3, <3>4, <3>5, WatchesFrom
  <2> QED
    BY <2>2, <2>3, <2>4, <2>5, <2>6, <2>7, <2>8, NextCases
<1> QED
  BY <1>1, <1>2, <1>3 DEF Phase

-----------------------------------------------------------------------------
(* The configuration: the events, the tasks and the answers under way lead  *)
(* to the settings, unless the settings are about to be asked for          *)

OnOff == {"on", "off"}

ConfigAfter(m, v) ==
  IF m.type \in {"answer", "configGot"} /\ m.config # "bad" THEN m.config ELSE v

ConfigEffect == [m \in ToServer \cup Tasks |-> [v \in OnOff |-> ConfigAfter(m, v)]]

EventEffect == [e \in OnOff |-> [v \in OnOff |-> e]]

LoadTask == {m \in Tasks : m.type \in {"loadConfig", "notifyConfig"}}

LoadAnswer == {m \in ToEditor : m.type \in {"configuration", "notifyConfig"}}

Pending == Has(in, Changed) \/ Has(ready, LoadTask) \/ Has(out, LoadAnswer)

Chain(x, y, z) ==
  /\ Leads(EventEffect, events, config, x)
  /\ Leads(ConfigEffect, ready, x, y) /\ Leads(ConfigEffect, in, y, z)

ConfigInv ==
  Started /\ client_capabilities.support_config_requests =>
     \E x, y, z \in OnOff : Chain(x, y, z) /\ (Pending \/ settings = "bad" \/ z = settings)

LEMMA ConfigEffectAt ==
  ASSUME NEW m \in ToServer \cup Tasks, NEW v \in OnOff
  PROVE  ConfigEffect[m][v] = ConfigAfter(m, v)
BY DEF ConfigEffect

LEMMA ConfigKept ==
  ASSUME NEW S, S \subseteq ToServer \cup Tasks, NEW q \in Seq(S), NEW t \in Seq(S),
         \A i \in 1..Len(t) : t[i].type \notin {"answer", "configGot"},
         NEW a, NEW b \in OnOff, Leads(ConfigEffect, q, a, b)
  PROVE  Leads(ConfigEffect, q \o t, a, b)
<1>1. \A i \in 1..Len(t) : ConfigEffect[t[i]][b] = b
  <2> SUFFICES ASSUME NEW i \in 1..Len(t) PROVE ConfigEffect[t[i]][b] = b
    OBVIOUS
  <2>1. t[i] \in ToServer \cup Tasks /\ t[i].type \notin {"answer", "configGot"}
    BY ElementsOfSeq
  <2> QED
    BY <2>1, ConfigEffectAt DEF ConfigAfter
<1> QED
  BY <1>1, LeadsSame

LEMMA ConfigFrom ==
  ASSUME NEW x \in OnOff, NEW y \in OnOff, NEW z \in OnOff,
         Leads(EventEffect, events', config', x),
         Leads(ConfigEffect, ready', x, y), Leads(ConfigEffect, in', y, z),
         Pending' \/ settings' = "bad" \/ z = settings'
  PROVE  ConfigInv'
<1>1. ConfigEffect' = ConfigEffect /\ EventEffect' = EventEffect /\ OnOff' = OnOff
  BY DEF ConfigEffect, EventEffect, ConfigAfter, ToServer, Tasks, Caps
<1>2. /\ Leads(EventEffect', events', config', x)
      /\ Leads(ConfigEffect', ready', x, y) /\ Leads(ConfigEffect', in', y, z)
  BY <1>1
<1>3. Chain(x, y, z)'
  BY <1>2 DEF Chain
<1> QED
  BY <1>1, <1>3 DEF ConfigInv

LEMMA PendingKept ==
  ASSUME Has(in, Changed) => (Has(in', Changed) \/ Has(ready', LoadTask)),
         Has(ready, LoadTask) => (Has(ready', LoadTask) \/ Has(out', LoadAnswer)),
         Has(out, LoadAnswer) => (Has(out', LoadAnswer) \/ settings' = "bad" \/ Has(in', Changed))
  PROVE  Pending => Pending' \/ settings' = "bad"
<1>1. LoadTask' = LoadTask /\ LoadAnswer' = LoadAnswer /\ Changed' = Changed
  BY DEF LoadTask, LoadAnswer, Changed, Tasks, ToEditor, ToServer, Caps
<1>2. Pending => Has(in', Changed) \/ Has(ready', LoadTask) \/ Has(out', LoadAnswer) \/ settings' = "bad"
  BY DEF Pending
<1> QED
  BY <1>1, <1>2 DEF Pending, Has

LEMMA PendingFrom ==
  ASSUME Has(in', Changed) \/ Has(ready', LoadTask) \/ Has(out', LoadAnswer)
  PROVE  Pending'
<1>1. LoadTask' = LoadTask /\ LoadAnswer' = LoadAnswer /\ Changed' = Changed
  BY DEF LoadTask, LoadAnswer, Changed, Tasks, ToEditor, ToServer, Caps
<1> QED
  BY <1>1 DEF Pending, Has

LEMMA HasOne ==
  ASSUME NEW e, NEW T, e \in T
  PROVE  Has(<<e>>, T)
<1>1. 1 \in 1..Len(<<e>>) /\ <<e>>[1] = e
  OBVIOUS
<1> QED
  BY <1>1 DEF Has

\* The first tasks of a session ask for the configuration and change none.
LEMMA ConfigStarts ==
  ASSUME Typed, Starting, Greeted, HandleMessage, client_capabilities.support_config_requests
  PROVE  ConfigInv'
<1>1. /\ in' \in Seq(UserMessages) /\ ready' = FirstTask \o SecondTask /\ events' = << >>
      /\ config' = config /\ config \in OnOff
  BY GreetedStep DEF Typed, ServerTyped, OnOff
<1>2. Leads(EventEffect, events', config', config)
  BY <1>1, LeadsEmpty
<1>e. Leads(ConfigEffect, << >>, config, config)
  BY LeadsEmpty
<1>3. Leads(ConfigEffect, ready', config, config)
  <2> DEFINE t == FirstTask \o SecondTask
  <2>1. t \in Seq(Tasks) /\ FirstTask \in Seq(Tasks) /\ SecondTask \in Seq(Tasks) /\ << >> \in Seq(Tasks)
    BY FirstTasksTyped
  <2>2. \A i \in 1..Len(t) : t[i].type \notin {"answer", "configGot"}
    <3>1. \/ FirstTask = <<[type |-> "notifyConfig"]>> \/ FirstTask = <<[type |-> "loadConfig"]>>
          \/ FirstTask = << >>
      BY DEF FirstTask, load_config
    <3>2. SecondTask = <<[type |-> "watchFiles"]>> \/ SecondTask = << >>
      BY DEF SecondTask, register_fs_watcher
    <3>3. /\ \A i \in 1..Len(FirstTask) : FirstTask[i].type \notin {"answer", "configGot"}
          /\ \A i \in 1..Len(SecondTask) : SecondTask[i].type \notin {"answer", "configGot"}
      BY <3>1, <3>2
    <3> QED
      BY <2>1, <3>3
  <2>3. << >> \o t = t
    BY <2>1
  <2>4. t = ready'
    BY <1>1
  <2> HIDE DEF t
  <2>5. Leads(ConfigEffect, << >> \o t, config, config)
    BY <1>1, <1>e, <2>1, <2>2, ConfigKept
  <2> QED
    BY <2>3, <2>4, <2>5
<1>4. Leads(ConfigEffect, in', config, config)
  <2>1. in' \in Seq(ToServer) /\ << >> \in Seq(ToServer)
    BY <1>1, SeqWider DEF UserMessages
  <2>2. \A i \in 1..Len(in') : in'[i].type \notin {"answer", "configGot"}
    BY <1>1 DEF UserMessages, UserTypes
  <2>3. Leads(ConfigEffect, << >> \o in', config, config)
    BY <1>1, <1>e, <2>1, <2>2, ConfigKept
  <2>4. << >> \o in' = in'
    BY <2>1
  <2> QED
    BY <2>3, <2>4
<1>5. Pending'
  <2>1. \/ FirstTask = <<[type |-> "notifyConfig"]>> \/ FirstTask = <<[type |-> "loadConfig"]>>
    BY DEF FirstTask, load_config
  <2>2. [type |-> "notifyConfig"] \in LoadTask /\ [type |-> "loadConfig"] \in LoadTask
    BY DEF LoadTask, Tasks
  <2>3. Has(FirstTask, LoadTask)
    BY <2>1, <2>2, HasOne
  <2>4. Has(ready', LoadTask)
    BY <1>1, <2>3, FirstTasksTyped, HasConcat
  <2> QED
    BY <2>4, PendingFrom
<1> QED
  BY <1>1, <1>2, <1>3, <1>4, <1>5, ConfigFrom

LEMMA RunTaskLoads ==
  ASSUME Typed, RunTask, Head(ready).type # "configGot"
  PROVE  \E e \in ToEditor :
            /\ out' = Append(out, e)
            /\ Head(ready).type \in {"loadConfig", "notifyConfig"} => e \in LoadAnswer
<1> DEFINE m == Head(ready)
<1>1. CASE m.type = "loadConfig" /\ out' = Append(out, [type |-> "configuration"])
  <2>1. [type |-> "configuration"] \in LoadAnswer /\ [type |-> "configuration"] \in ToEditor
    BY DEF LoadAnswer, ToEditor
  <2> QED
    BY <1>1, <2>1
<1>2. CASE m.type = "notifyConfig"
  <2>1. out' = Append(out, [type |-> "notifyConfig"])
    BY <1>2, RunTaskStep
  <2>2. [type |-> "notifyConfig"] \in LoadAnswer /\ [type |-> "notifyConfig"] \in ToEditor
    BY DEF LoadAnswer, ToEditor
  <2> QED
    BY <2>1, <2>2
<1>3. CASE m.type \notin {"loadConfig", "notifyConfig"}
  <2>1. \E e \in ToEditor : out' = Append(out, e)
    BY RunTaskWatch
  <2> QED
    BY <1>3, <2>1
<1> QED
  BY <1>1, <1>2, <1>3, RunTaskStep

LEMMA ConfigNext == Typed /\ Phase /\ ConfigInv /\ [Next]_vars => ConfigInv'
<1> SUFFICES ASSUME Typed, Phase, ConfigInv, [Next]_vars PROVE ConfigInv'
  OBVIOUS
<1> DEFINE Asks == client_capabilities.support_config_requests
<1>0. /\ in \in Seq(ToServer) /\ out \in Seq(ToEditor) /\ ready \in Seq(Tasks)
      /\ events \in Seq(OnOff) /\ settings \in OnOff \cup {"bad"} /\ config \in OnOff
  BY DEF Typed, QueuesTyped, EditorTyped, ServerTyped, OnOff
<1>1. CASE Starting
  <2>1. CASE Starting'
    BY <2>1, NextStartingIsNotStarted DEF ConfigInv
  <2>2. CASE Greeted /\ HandleMessage /\ Started'
    <3>1. client_capabilities' = client_capabilities
      BY <1>1, <2>2, GreetedStep
    <3>2. CASE ~Asks
      BY <3>1, <3>2 DEF ConfigInv
    <3>3. CASE Asks
      BY <1>1, <2>2, <3>3, ConfigStarts
    <3> QED
      BY <3>2, <3>3
  <2> QED
    BY <1>1, <2>1, <2>2, StartingStep
<1>2. CASE Started /\ ~Asks
  <2>1. client_capabilities' = client_capabilities
    BY <1>2, StartedKeeps
  <2> QED
    BY <1>2, <2>1 DEF ConfigInv
<1>3. CASE Started /\ Asks
  <2>0. PICK x \in OnOff, y \in OnOff, z \in OnOff :
          Chain(x, y, z) /\ (Pending \/ settings = "bad" \/ z = settings)
    BY <1>3 DEF ConfigInv
  <2>c. /\ Leads(EventEffect, events, config, x)
        /\ Leads(ConfigEffect, ready, x, y) /\ Leads(ConfigEffect, in, y, z)
    BY <2>0 DEF Chain
  <2>1. ASSUME UNCHANGED <<in, out, ready, events, config, settings>> PROVE ConfigInv'
    <3>1. Pending => Pending' \/ settings' = "bad"
      BY <2>1, PendingKept
    <3> QED
      BY <2>0, <2>1, <2>c, <3>1, ConfigFrom
  <2>2. CASE UNCHANGED vars
    BY <2>1, <2>2 DEF vars, editor, server
  <2>3. CASE UserOp
    <3>1. UNCHANGED <<notifies, out, ready, events, config>>
      BY <2>3, UserSends DEF server
    <3>2. PICK t \in Seq(UserMessages) :
            in' = in \o t /\ (settings' = settings \/ ~notifies \/ Has(t, Changed))
      BY <2>3, UserSends
    <3>3. t \in Seq(ToServer) /\ \A i \in 1..Len(t) : t[i].type \notin {"answer", "configGot"}
      <4>1. t \in Seq(ToServer)
        BY <3>2, SeqWider DEF UserMessages
      <4>2. \A i \in 1..Len(t) : t[i] \in UserMessages
        BY <3>2
      <4> QED
        BY <4>1, <4>2 DEF UserMessages, UserTypes
    <3>4. Leads(ConfigEffect, in', y, z)
      BY <1>0, <2>c, <3>2, <3>3, ConfigKept
    <3>5. Has(in, Changed) \/ Has(t, Changed) => Has(in', Changed)
      BY <1>0, <3>2, <3>3, HasConcat
    <3>6. CASE settings' = settings
      <4>1. Pending => Pending' \/ settings' = "bad"
        BY <3>1, <3>5, PendingKept
      <4> QED
        BY <2>0, <2>c, <3>1, <3>4, <3>6, <4>1, ConfigFrom
    <3>7. CASE settings' # settings
      <4>1. Has(t, Changed) \/ Has(out, NotifyAnswer) \/ Has(ready, NotifyTask)
        BY <1>3, <3>2, <3>7 DEF Started, Notified
      <4>2. Has(out, NotifyAnswer) => Has(out, LoadAnswer)
        BY DEF Has, NotifyAnswer, LoadAnswer
      <4>3. Has(ready, NotifyTask) => Has(ready, LoadTask)
        BY DEF Has, NotifyTask, LoadTask
      <4>4. Pending'
        BY <3>1, <3>5, <4>1, <4>2, <4>3, PendingFrom
      <4> QED
        BY <2>c, <3>1, <3>4, <4>4, ConfigFrom
    <3> QED
      BY <3>6, <3>7
  <2>4. CASE EditorInitialize
    BY <1>3, <2>4 DEF Started, EditorInitialize
  <2>5. CASE EditorReceives
    <3> DEFINE m == Head(out)
    <3>1. out # << >> /\ out' = Tail(out) /\ m \in ToEditor /\ UNCHANGED <<server, settings>>
      BY <2>5, EditorReceivesStep
    <3>2. UNCHANGED <<ready, events, config, settings>>
      BY <3>1 DEF server
    <3>3. m.type # "initializeResult"
      <4>1. m \in LaterAnswers
        BY <1>3, <3>1, HeadTail DEF Started
      <4> QED
        BY <4>1 DEF LaterAnswers
    <3>4. CASE m.type = "configuration"
      <4> DEFINE e == [type |-> "answer", config |-> settings]
      <4>1. in' = Append(in, e)
        BY <2>5, <3>4, EditorReceivesStep
      <4>2. e \in ToServer /\ e.type = "answer" /\ e.config = settings
        BY <1>0 DEF ToServer, OnOff
      <4> HIDE DEF e
      <4>3. Leads(ConfigEffect, in', y, ConfigEffect[e][z])
        BY <1>0, <2>c, <4>1, <4>2, LeadsAppend
      <4>4. ConfigEffect[e][z] = ConfigAfter(e, z)
        BY <4>2, ConfigEffectAt
      <4> DEFINE w == ConfigAfter(e, z)
      <4>5. w \in OnOff /\ (settings' = "bad" \/ w = settings')
        BY <1>0, <3>2, <4>2 DEF ConfigAfter
      <4> HIDE DEF w
      <4>6. Leads(ConfigEffect, in', y, w)
        BY <4>3, <4>4 DEF w
      <4> QED
        BY <2>c, <3>2, <4>5, <4>6, ConfigFrom
    <3>5. CASE m.type = "notifyConfig"
      <4> DEFINE e == [type |-> "didChangeConfiguration"]
      <4>1. in' = Append(in, e)
        BY <2>5, <3>5, EditorReceivesStep
      <4>2. e \in ToServer /\ e.type = "didChangeConfiguration" /\ e \in Changed
        BY DEF ToServer, Changed
      <4> HIDE DEF e
      <4>3. Leads(ConfigEffect, in', y, ConfigEffect[e][z])
        BY <1>0, <2>c, <4>1, <4>2, LeadsAppend
      <4>4. ConfigEffect[e][z] = z
        BY <4>2, ConfigEffectAt DEF ConfigAfter
      <4>5. Has(in', Changed)
        BY <1>0, <4>1, <4>2, HasAppend
      <4>6. Pending'
        BY <4>5, PendingFrom
      <4>7. Leads(ConfigEffect, in', y, z)
        BY <4>3, <4>4
      <4> QED
        BY <2>c, <3>2, <4>6, <4>7, ConfigFrom
    <3>6. CASE m.type \notin {"configuration", "notifyConfig"}
      <4>1. in' = in
        BY <2>5, <3>3, <3>6, EditorReceivesStep
      <4>2. m \notin LoadAnswer
        BY <3>6 DEF LoadAnswer
      <4>3. Has(out, LoadAnswer) => Has(out', LoadAnswer)
        BY <1>0, <3>1, <4>2, HasTail
      <4>4. Pending => Pending' \/ settings' = "bad"
        BY <3>2, <4>1, <4>3, PendingKept
      <4> QED
        BY <2>0, <2>c, <3>2, <4>1, <4>4, ConfigFrom
    <3> QED
      BY <3>4, <3>5, <3>6
  <2>6. CASE HandleMessage
    <3> DEFINE m == Head(in)
    <3>1. m.type \in UserTypes \cup {"answer"}
      BY <1>3, <2>6, StartedHead
    <3>2. in # << >> /\ m \in ToServer /\ in' = Tail(in) /\ UNCHANGED <<config, events, out, editor>>
      BY <2>6, <3>1, HandleStarted
    <3>3. PICK t \in Seq(Tasks) : ready' = ready \o t /\ TasksFor(m, t)
      BY <2>6, <3>1, HandleStarted
    <3>4. Leads(ConfigEffect, in', ConfigEffect[m][y], z)
      BY <1>0, <2>c, <3>2, LeadsTail
    <3>5. ConfigEffect[m][y] = ConfigAfter(m, y)
      BY <3>2, ConfigEffectAt
    <3>6. settings' = settings
      BY <3>2 DEF editor
    <3>7. Has(ready, LoadTask) => Has(ready', LoadTask)
      BY <1>0, <3>3, HasConcat
    <3>8. CASE m.type = "answer"
      <4> DEFINE e == [type |-> "configGot", config |-> m.config]
      <4>1. t = <<e>>
        BY <3>3, <3>8 DEF TasksFor
      <4>2. e \in Tasks /\ e.type = "configGot" /\ e.config = m.config /\ m.config \in OnOff \cup {"bad"}
        <5>1. m.config \in {"on", "off", "bad"}
          BY <3>2, <3>8, MessageKinds
        <5> QED
          BY <5>1 DEF Tasks, OnOff
      <4> HIDE DEF e
      <4>3. ready' = Append(ready, e)
        BY <1>0, <3>3, <4>1, <4>2, ConcatOne
      <4>4. Leads(ConfigEffect, ready', x, ConfigEffect[e][y])
        BY <1>0, <2>c, <4>2, <4>3, LeadsAppend
      <4>5. ConfigEffect[e][y] = ConfigAfter(e, y)
        BY <4>2, ConfigEffectAt
      <4>6. ConfigAfter(e, y) = ConfigAfter(m, y) /\ ConfigAfter(m, y) \in OnOff
        BY <3>8, <4>2 DEF ConfigAfter
      <4>7. Has(in, Changed) => Has(in', Changed)
        <5>1. m \notin Changed
          BY <3>8 DEF Changed
        <5> QED
          BY <1>0, <3>2, <5>1, HasTail
      <4>8. Pending => Pending' \/ settings' = "bad"
        BY <3>2, <3>7, <4>7, PendingKept
      <4> DEFINE w == ConfigAfter(m, y)
      <4>9. Leads(ConfigEffect, ready', x, w) /\ Leads(ConfigEffect, in', w, z) /\ w \in OnOff
        BY <3>4, <3>5, <4>4, <4>5, <4>6
      <4> HIDE DEF w
      <4> QED
        BY <2>0, <2>c, <3>2, <3>6, <4>8, <4>9, ConfigFrom
    <3>9. CASE m.type # "answer"
      <4>1. ConfigAfter(m, y) = y
        BY <3>1, <3>9 DEF ConfigAfter, UserTypes
      <4>2. Leads(ConfigEffect, in', y, z)
        BY <3>4, <3>5, <4>1
      <4>3. \A i \in 1..Len(t) : t[i].type \notin {"answer", "configGot"}
        <5>1. CASE m.type = "didChangeConfiguration"
          <6>1. t = <<[type |-> "loadConfig"]>> \/ t = << >>
            BY <3>3, <5>1 DEF TasksFor, load_config
          <6> QED
            BY <6>1
        <5>2. CASE m.type # "didChangeConfiguration"
          BY <3>3, <3>9, <5>2 DEF TasksFor
        <5> QED
          BY <5>1, <5>2
      <4>4. Leads(ConfigEffect, ready', x, y)
        BY <1>0, <2>c, <3>3, <4>3, ConfigKept
      <4>5. Has(in, Changed) => (Has(in', Changed) \/ Has(ready', LoadTask))
        <5>1. CASE m.type = "didChangeConfiguration"
          <6>1. t = <<[type |-> "loadConfig"]>>
            BY <1>3, <3>3, <5>1 DEF TasksFor, load_config
          <6>2. [type |-> "loadConfig"] \in LoadTask
            BY DEF LoadTask, Tasks
          <6>3. Has(t, LoadTask)
            BY <6>1, <6>2, HasOne
          <6> QED
            BY <1>0, <3>3, <6>3, HasConcat
        <5>2. CASE m.type # "didChangeConfiguration"
          <6>1. m \notin Changed
            BY <5>2 DEF Changed
          <6> QED
            BY <1>0, <3>2, <6>1, HasTail
        <5> QED
          BY <5>1, <5>2
      <4>6. Pending => Pending' \/ settings' = "bad"
        BY <3>2, <3>7, <4>5, PendingKept
      <4> QED
        BY <2>0, <2>c, <3>2, <3>6, <4>2, <4>4, <4>6, ConfigFrom
    <3> QED
      BY <3>8, <3>9
  <2>7. CASE update_config
    <3>1. /\ events # << >> /\ events' = Tail(events) /\ config' = Head(events)
          /\ UNCHANGED <<in, out, settings>>
      BY <2>7 DEF update_config, editor
    <3>2. PICK t \in Seq(Tasks) :
            ready' = ready \o t /\ \A i \in 1..Len(t) : t[i].type \in {"watchFiles", "unwatchFiles"}
      BY <2>7, UpdateConfigSpawns
    <3>3. Leads(EventEffect, events', config', x)
      <4>1. Leads(EventEffect, Tail(events), EventEffect[Head(events)][config], x)
        BY <1>0, <2>c, <3>1, LeadsTail
      <4>2. Head(events) \in OnOff
        BY <1>0, <3>1, HeadTail
      <4>3. EventEffect[Head(events)][config] = Head(events)
        BY <1>0, <4>2 DEF EventEffect
      <4> QED
        BY <3>1, <4>1, <4>3
    <3>4. Leads(ConfigEffect, ready', x, y)
      BY <1>0, <2>c, <3>2, ConfigKept
    <3>5. Has(ready, LoadTask) => Has(ready', LoadTask)
      BY <1>0, <3>2, HasConcat
    <3>6. Pending => Pending' \/ settings' = "bad"
      BY <3>1, <3>5, PendingKept
    <3> QED
      BY <2>0, <2>c, <3>1, <3>3, <3>4, <3>6, ConfigFrom
  <2>8. CASE RunTask
    <3> DEFINE m == Head(ready)
    <3>1. ready # << >> /\ ready' = Tail(ready) /\ m \in Tasks /\ UNCHANGED <<config, editor, in>>
      BY <2>8, RunTaskStep
    <3>2. settings' = settings
      BY <3>1 DEF editor
    <3>3. Leads(ConfigEffect, ready', ConfigEffect[m][x], y)
      BY <1>0, <2>c, <3>1, LeadsTail
    <3>4. ConfigEffect[m][x] = ConfigAfter(m, x)
      BY <3>1, ConfigEffectAt
    <3>5. CASE m.type = "configGot"
      <4>1. /\ out' = out /\ m.config \in OnOff \cup {"bad"}
            /\ m.config = "bad" => events' = events
            /\ m.config # "bad" => events' = Append(events, m.config)
        <5>1. m.config \in {"on", "off", "bad"}
          BY <3>1, <3>5, TaskKinds
        <5> QED
          BY <2>8, <3>5, <5>1, RunTaskStep DEF OnOff
      <4> DEFINE w == ConfigAfter(m, x)
      <4>2. w \in OnOff
        BY <3>5, <4>1 DEF ConfigAfter
      <4>3. Leads(EventEffect, events', config', w)
        <5>1. CASE m.config = "bad"
          <6>1. w = x
            BY <5>1 DEF ConfigAfter
          <6> QED
            BY <2>c, <3>1, <4>1, <5>1, <6>1
        <5>2. CASE m.config # "bad"
          <6> DEFINE c == m.config
          <6>1. w = c
            BY <3>5, <5>2 DEF ConfigAfter
          <6>2. c \in OnOff /\ events' = Append(events, c)
            BY <4>1, <5>2
          <6> HIDE DEF c, w
          <6>3. Leads(EventEffect, events', config, EventEffect[c][x])
            BY <1>0, <2>c, <6>2, LeadsAppend
          <6>4. EventEffect[c][x] = c
            BY <6>2 DEF EventEffect
          <6> QED
            BY <3>1, <6>1, <6>3, <6>4
        <5> QED
          BY <5>1, <5>2
      <4>4. Leads(ConfigEffect, ready', w, y)
        BY <3>3, <3>4
      <4>5. Has(ready, LoadTask) => Has(ready', LoadTask)
        <5>1. m \notin LoadTask
          BY <3>5 DEF LoadTask
        <5> QED
          BY <1>0, <3>1, <5>1, HasTail
      <4>6. Pending => Pending' \/ settings' = "bad"
        BY <3>1, <4>1, <4>5, PendingKept
      <4> HIDE DEF w
      <4> QED
        BY <2>0, <2>c, <3>1, <3>2, <4>2, <4>3, <4>4, <4>6, ConfigFrom
    <3>6. CASE m.type # "configGot"
      <4>1. m.type # "answer" /\ events' = events
        <5>1. m.type \in {"watchFiles", "unwatchFiles", "notifyConfig", "loadConfig",
                          "diagnostics", "configGot"}
          BY <3>1, TaskKinds
        <5> QED
          BY <2>8, <3>6, <5>1, RunTaskStep
      <4>2. ConfigAfter(m, x) = x
        BY <3>6, <4>1 DEF ConfigAfter
      <4>3. Leads(ConfigEffect, ready', x, y)
        BY <3>3, <3>4, <4>2
      <4>4. PICK e \in ToEditor :
              /\ out' = Append(out, e)
              /\ m.type \in {"loadConfig", "notifyConfig"} => e \in LoadAnswer
        BY <2>8, <3>6, RunTaskLoads
      <4>5. Has(out, LoadAnswer) => Has(out', LoadAnswer)
        BY <1>0, <4>4, HasAppend
      <4>6. Has(ready, LoadTask) => (Has(ready', LoadTask) \/ Has(out', LoadAnswer))
        <5>1. CASE m \in LoadTask
          <6>1. e \in LoadAnswer
            BY <4>4, <5>1 DEF LoadTask
          <6> QED
            BY <1>0, <4>4, <6>1, HasAppend
        <5>2. CASE m \notin LoadTask
          BY <1>0, <3>1, <5>2, HasTail
        <5> QED
          BY <5>1, <5>2
      <4>7. Pending => Pending' \/ settings' = "bad"
        BY <3>1, <4>5, <4>6, PendingKept
      <4> QED
        BY <2>0, <2>c, <3>1, <3>2, <4>1, <4>3, <4>7, ConfigFrom
    <3> QED
      BY <3>5, <3>6
  <2> QED
    BY <2>2, <2>3, <2>4, <2>5, <2>6, <2>7, <2>8, NextCases
<1> QED
  BY <1>1, <1>2, <1>3 DEF Phase

-----------------------------------------------------------------------------
(* The diagnostics: what the answers under way make of those shown for an  *)
(* open document are those of its text, unless a task is about to publish  *)

ShownAfter(u, m, v) == IF m.type = "publish" /\ m.uri = u THEN m.of ELSE v

Shown == Texts \cup {Nothing}

ShownEffect(u) == [m \in ToEditor |-> [v \in Shown |-> ShownAfter(u, m, v)]]

Diagnosed(u, z) ==
  /\ Leads(ShownEffect(u), out, shown[u], z)
  /\ u \in DOMAIN opened => Has(ready, DiagnosticsOf(u)) \/ z = opened[u].text

DiagInv ==
  Started /\ client_capabilities.should_send_diagnostics =>
     \A u \in Uris : \E z \in Shown : Diagnosed(u, z)

LEMMA ShownEffectAt ==
  ASSUME NEW u, NEW m \in ToEditor, NEW v \in Shown
  PROVE  ShownEffect(u)[m][v] = ShownAfter(u, m, v) /\ ShownAfter(u, m, v) \in Shown
<1>1. m.type = "publish" => m.of \in Shown
  BY AnswerKinds DEF Shown
<1> QED
  BY <1>1 DEF ShownEffect, ShownAfter

LEMMA DiagnosedFrom ==
  ASSUME NEW u \in Uris, NEW z \in Shown, Leads(ShownEffect(u), out', shown'[u], z),
         u \in DOMAIN opened' => Has(ready', DiagnosticsOf(u)) \/ z = opened'[u].text
  PROVE  Diagnosed(u, z)'
<1>1. ShownEffect(u)' = ShownEffect(u) /\ DiagnosticsOf(u)' = DiagnosticsOf(u)
  BY DEF ShownEffect, DiagnosticsOf, ToEditor, Tasks, ShownAfter, Shown
<1>2. Leads(ShownEffect(u)', out', shown'[u], z)
  BY <1>1
<1> QED
  BY <1>1, <1>2 DEF Diagnosed, Has

\* A task publishes the diagnostics of no document but its own.
LEMMA RunTaskPublishes ==
  ASSUME Typed, RunTask, NEW u \in Uris, Head(ready) \notin DiagnosticsOf(u), out' # out
  PROVE  \E e \in ToEditor : out' = Append(out, e) /\ ~(e.type = "publish" /\ e.uri = u)
<1> DEFINE m == Head(ready)
<1>1. IsMap(opened, Documents) /\ m \in Tasks
  BY RunTaskStep DEF Typed, ServerTyped, StorageInv
<1>2. m.type = "diagnostics" => m.uri \in Uris
  BY <1>1, TaskKinds
<1>3. diagnostics(m.uri) \in Texts \cup {Nothing}
  BY <1>1 DEF diagnostics, IsMap, Documents
<1>4. CASE /\ m.type = "diagnostics"
           /\ out' = Append(out, [type |-> "publish", uri |-> m.uri, of |-> diagnostics(m.uri)])
  <2> DEFINE e == [type |-> "publish", uri |-> m.uri, of |-> diagnostics(m.uri)]
  <2>1. e \in ToEditor /\ e.uri = m.uri
    BY <1>2, <1>3, <1>4 DEF ToEditor
  <2>2. m.uri # u
    BY <1>1, <1>4 DEF DiagnosticsOf
  <2> QED
    BY <1>4, <2>1, <2>2
<1>5. CASE m.type = "loadConfig" /\ out' = Append(out, [type |-> "configuration"])
  <2>1. [type |-> "configuration"] \in ToEditor
    BY DEF ToEditor
  <2> QED
    BY <1>5, <2>1
<1>6. CASE m.type \in {"watchFiles", "unwatchFiles", "notifyConfig"} /\ out' = Append(out, [type |-> m.type])
  <2>1. [type |-> m.type] \in ToEditor /\ [type |-> m.type].type = m.type
    BY <1>6 DEF ToEditor
  <2> QED
    BY <1>6, <2>1
<1> QED
  BY <1>4, <1>5, <1>6, RunTaskStep

LEMMA DiagNext == Typed /\ Phase /\ DiagInv /\ [Next]_vars => DiagInv'
<1> SUFFICES ASSUME Typed, Phase, DiagInv, [Next]_vars PROVE DiagInv'
  OBVIOUS
<1> DEFINE Sends == client_capabilities.should_send_diagnostics
<1>0. /\ out \in Seq(ToEditor) /\ ready \in Seq(Tasks) /\ shown \in [Uris -> Shown]
      /\ IsMap(opened, Documents)
  BY DEF Typed, QueuesTyped, EditorTyped, ServerTyped, StorageInv, Shown
<1>s. Shown' = Shown
  BY DEF Shown
<1>1. CASE Starting
  <2>1. CASE Starting'
    BY <2>1, NextStartingIsNotStarted DEF DiagInv
  <2>2. CASE Greeted /\ HandleMessage /\ Started'
    <3>1. out' = << >> /\ opened' = << >> /\ UNCHANGED editor
      BY <1>1, <2>2, GreetedStep
    <3>2. ASSUME NEW u \in Uris PROVE \E z \in Shown : Diagnosed(u, z)'
      <4>2. PICK z \in Shown : z = shown'[u]
        BY <1>0, <3>1 DEF editor
      <4>1. Leads(ShownEffect(u), out', shown'[u], z)
        BY <3>1, <4>2, LeadsEmpty
      <4>3. u \notin DOMAIN opened'
        BY <3>1, EmptyMap
      <4>4. Diagnosed(u, z)'
        BY <4>1, <4>2, <4>3, DiagnosedFrom
      <4> QED
        BY <4>4
    <3> QED
      BY <1>s, <3>2 DEF DiagInv
  <2> QED
    BY <1>1, <2>1, <2>2, StartingStep
<1>2. CASE Started /\ ~Sends
  <2>1. client_capabilities' = client_capabilities
    BY <1>2, StartedKeeps
  <2> QED
    BY <1>2, <2>1 DEF DiagInv
<1>3. CASE Started /\ Sends
  <2> SUFFICES ASSUME NEW u \in Uris PROVE \E z \in Shown : Diagnosed(u, z)'
    BY <1>s DEF DiagInv
  <2>0. PICK z \in Shown :
          /\ Leads(ShownEffect(u), out, shown[u], z)
          /\ u \in DOMAIN opened => Has(ready, DiagnosticsOf(u)) \/ z = opened[u].text
    BY <1>3 DEF DiagInv, Diagnosed
  <2>1. ASSUME UNCHANGED <<out, shown, opened>>,
               Has(ready, DiagnosticsOf(u)) => Has(ready', DiagnosticsOf(u))
        PROVE  \E w \in Shown : Diagnosed(u, w)'
    <3>1. Diagnosed(u, z)'
      BY <2>0, <2>1, DiagnosedFrom
    <3> QED
      BY <3>1
  <2>2. CASE UNCHANGED vars
    <3>1. UNCHANGED <<out, shown, opened, ready>>
      BY <2>2 DEF vars, editor, server, storage
    <3> QED
      BY <2>1, <3>1
  <2>3. CASE UserOp
    <3>1. UNCHANGED <<out, shown, opened, ready>>
      BY <2>3, UserSends DEF server, storage
    <3> QED
      BY <2>1, <3>1
  <2>4. CASE EditorInitialize
    BY <1>3, <2>4 DEF Started, EditorInitialize
  <2>5. CASE EditorReceives
    <3> DEFINE m == Head(out)
    <3>1. out # << >> /\ out' = Tail(out) /\ m \in ToEditor /\ UNCHANGED <<server, storage>>
      BY <2>5, EditorReceivesStep
    <3>2. shown'[u] = ShownAfter(u, m, shown[u])
      <4>1. \/ m.type # "publish" /\ shown' = shown
            \/ m.type = "publish" /\ shown' = [shown EXCEPT ![m.uri] = m.of]
        BY <2>5, EditorReceivesStep
      <4>2. m.type = "publish" => m.uri \in Uris
        BY <3>1, AnswerKinds
      <4> HIDE DEF m
      <4> QED
        BY <1>0, <4>1, <4>2 DEF ShownAfter
    <3>3. shown[u] \in Shown
      BY <1>0
    <3>4. Leads(ShownEffect(u), out', ShownEffect(u)[m][shown[u]], z)
      BY <1>0, <2>0, <3>1, LeadsTail
    <3>5. ShownEffect(u)[m][shown[u]] = shown'[u]
      BY <3>1, <3>2, <3>3, ShownEffectAt
    <3> HIDE DEF m
    <3>6. Leads(ShownEffect(u), out', shown'[u], z)
      BY <3>4, <3>5
    <3>7. opened' = opened /\ ready' = ready
      BY <3>1 DEF server, storage
    <3>8. Diagnosed(u, z)'
      BY <2>0, <3>6, <3>7, DiagnosedFrom
    <3> QED
      BY <3>8
  <2>6. CASE HandleMessage
    <3>1. Head(in).type \in UserTypes \cup {"answer"}
      BY <1>3, <2>6, StartedHead
    <3>2. out' = out /\ shown' = shown
      BY <2>6, <3>1, HandleStarted DEF editor
    <3>3. PICK t \in Seq(Tasks) : ready' = ready \o t /\ DocumentsFor(t)
      BY <2>6, <3>1, HandleStarted
    <3>4. Has(ready, DiagnosticsOf(u)) \/ Has(t, DiagnosticsOf(u)) => Has(ready', DiagnosticsOf(u))
      BY <1>0, <3>3, HasConcat
    <3>5. u \in DOMAIN opened' => Has(ready', DiagnosticsOf(u)) \/ z = opened'[u].text
      BY <1>3, <2>0, <3>3, <3>4 DEF DocumentsFor
    <3>6. Diagnosed(u, z)'
      BY <2>0, <3>2, <3>5, DiagnosedFrom
    <3> QED
      BY <3>6
  <2>7. CASE update_config
    <3>1. UNCHANGED <<out, shown, opened>>
      BY <2>7 DEF update_config, editor
    <3>2. PICK t \in Seq(Tasks) : ready' = ready \o t
      BY <2>7, UpdateConfigSpawns
    <3>3. Has(ready, DiagnosticsOf(u)) => Has(ready', DiagnosticsOf(u))
      BY <1>0, <3>2, HasConcat
    <3> QED
      BY <2>1, <3>1, <3>3
  <2>8. CASE RunTask
    <3> DEFINE m == Head(ready)
    <3>1. ready # << >> /\ ready' = Tail(ready) /\ m \in Tasks /\ UNCHANGED <<storage, editor>>
      BY <2>8, RunTaskStep
    <3>2. opened' = opened /\ shown' = shown
      BY <3>1 DEF storage, editor
    <3>3. CASE m \in DiagnosticsOf(u)
      <4> DEFINE e == [type |-> "publish", uri |-> u, of |-> diagnostics(u)]
      <4>1. m.type = "diagnostics" /\ m.uri = u
        BY <3>3 DEF DiagnosticsOf
      <4>2. out' = Append(out, e)
        BY <2>8, <4>1, RunTaskStep
      <4>3. diagnostics(u) \in Shown
        BY <1>0 DEF diagnostics, IsMap, Documents, Shown
      <4>4. e \in ToEditor /\ e.type = "publish" /\ e.uri = u /\ e.of = diagnostics(u)
        BY <4>3 DEF ToEditor, Shown
      <4> HIDE DEF e
      <4>5. Leads(ShownEffect(u), out', shown[u], ShownEffect(u)[e][z])
        BY <1>0, <2>0, <4>2, <4>4, LeadsAppend
      <4>6. ShownEffect(u)[e][z] = diagnostics(u)
        BY <4>4, ShownEffectAt DEF ShownAfter
      <4>7. Leads(ShownEffect(u), out', shown'[u], diagnostics(u))
        BY <3>2, <4>5, <4>6
      <4>8. u \in DOMAIN opened' => diagnostics(u) = opened'[u].text
        BY <3>2 DEF diagnostics
      <4> DEFINE w == diagnostics(u)
      <4>9. w \in Shown /\ Leads(ShownEffect(u), out', shown'[u], w)
            /\ (u \in DOMAIN opened' => w = opened'[u].text)
        BY <4>3, <4>7, <4>8
      <4> HIDE DEF w
      <4>10. \A v \in Shown : Leads(ShownEffect(u), out', shown'[u], v)
                              /\ (u \in DOMAIN opened' => v = opened'[u].text) => Diagnosed(u, v)'
        BY DiagnosedFrom
      <4> QED
        BY <4>9, <4>10
    <3>4. CASE m \notin DiagnosticsOf(u)
      <4>1. Has(ready, DiagnosticsOf(u)) => Has(ready', DiagnosticsOf(u))
        BY <1>0, <3>1, <3>4, HasTail
      <4>2. Leads(ShownEffect(u), out', shown[u], z)
        <5>1. CASE out' = out
          BY <2>0, <5>1
        <5>2. CASE out' # out
          <6>1. PICK e \in ToEditor : out' = Append(out, e) /\ ~(e.type = "publish" /\ e.uri = u)
            BY <2>8, <3>1, <3>4, <5>2, RunTaskPublishes
          <6>2. Leads(ShownEffect(u), out', shown[u], ShownEffect(u)[e][z])
            BY <1>0, <2>0, <6>1, LeadsAppend
          <6>3. ShownEffect(u)[e][z] = z
            BY <6>1, ShownEffectAt DEF ShownAfter
          <6> QED
            BY <6>2, <6>3
        <5> QED
          BY <5>1, <5>2
      <4>3. Diagnosed(u, z)'
        BY <2>0, <3>2, <4>1, <4>2, DiagnosedFrom
      <4> QED
        BY <4>3
    <3> QED
      BY <3>3, <3>4
  <2> QED
    BY <2>2, <2>3, <2>4, <2>5, <2>6, <2>7, <2>8, NextCases
<1> QED
  BY <1>1, <1>2, <1>3 DEF Phase

-----------------------------------------------------------------------------
(* What holds once nothing is under way                                    *)

SessionInv == Typed /\ TextInv /\ Phase /\ WatchInv /\ ConfigInv /\ DiagInv

LEMMA SessionInvariant == Spec => []SessionInv
<1>1. Init => SessionInv
  <2> SUFFICES ASSUME Init PROVE SessionInv
    OBVIOUS
  <2>1. Typed /\ TextInv /\ Starting
    BY TypedInit, TextInit, PhaseInit
  <2>2. ~Started
    BY <2>1, StartingIsNotStarted
  <2> QED
    BY <2>1, <2>2 DEF SessionInv, Phase, WatchInv, ConfigInv, DiagInv
<1>2. SessionInv /\ [Next]_vars => SessionInv'
  <2> SUFFICES ASSUME SessionInv, [Next]_vars PROVE SessionInv'
    OBVIOUS
  <2>1. Typed' /\ TextInv' /\ Phase' /\ WatchInv' /\ ConfigInv' /\ DiagInv'
    BY TypedNext, TextNext, PhaseNext, WatchNext, ConfigNext, DiagNext DEF SessionInv
  <2> QED
    BY <2>1 DEF SessionInv
<1> QED
  BY <1>1, <1>2, PTL DEF Spec

\* A session in which nothing is under way has not begun, or is started.
LEMMA QuietPhase ==
  ASSUME Phase, Quiet
  PROVE  (session = "new" /\ client_capabilities = DefaultCapabilities) \/ Started
BY DEF Phase, Starting, New, Asked, Answered, Greeted, Quiet

\* WatcherFollowsConfig: however often the setting was toggled and tasks that
\* load the configuration, register and unregister were under way together,
\* ready tasks being run in order, at rest the editor watches the files exactly
\* when the server caches the workspace.
THEOREM WatcherAlwaysFollowsConfig == Spec => []WatcherFollowsConfig
<1>1. SessionInv => WatcherFollowsConfig
  <2> SUFFICES ASSUME SessionInv, Quiet, client_capabilities.dynamic_registration_watched_files
               PROVE  watching = (config = "on" /\ session = "ready")
    BY DEF WatcherFollowsConfig
  <2>1. Started
    BY QuietPhase DEF SessionInv, DefaultCapabilities
  <2>2. PICK x \in BOOLEAN : Watches(x)
    BY <2>1 DEF SessionInv, WatchInv
  <2>3. Leads(WatchEffect, << >>, watching, x) /\ Leads(WatchEffect, << >>, x, config = "on")
    BY <2>2 DEF Watches, Quiet
  <2>4. watching = x /\ x = (config = "on")
    BY <2>3, LeadsEmpty
  <2> QED
    BY <2>1, <2>4 DEF Started
<1> QED
  BY <1>1, SessionInvariant, PTL

\* ConfigIsCurrent: at rest the server's configuration is the editor's, for an
\* editor that answers configuration requests and whose settings parse.
THEOREM ConfigIsAlwaysCurrent == Spec => []ConfigIsCurrent
<1>1. SessionInv => ConfigIsCurrent
  <2> SUFFICES ASSUME SessionInv, Quiet, session = "ready",
                      client_capabilities.support_config_requests, settings # "bad"
               PROVE  config = settings
    BY DEF ConfigIsCurrent
  <2>1. Started
    BY QuietPhase DEF SessionInv
  <2>2. PICK x \in OnOff, y \in OnOff, z \in OnOff :
          Chain(x, y, z) /\ (Pending \/ settings = "bad" \/ z = settings)
    BY <2>1 DEF SessionInv, ConfigInv
  <2>3. ~Pending
    BY HasEmpty DEF Pending, Quiet
  <2>4. /\ Leads(EventEffect, << >>, config, x)
        /\ Leads(ConfigEffect, << >>, x, y) /\ Leads(ConfigEffect, << >>, y, z)
    BY <2>2 DEF Chain, Quiet
  <2>5. config = x /\ x = y /\ y = z
    BY <2>4, LeadsEmpty
  <2> QED
    BY <2>2, <2>3, <2>5
<1> QED
  BY <1>1, SessionInvariant, PTL

\* DiagnosticsAreCurrent: at rest what the editor shows for every open document
\* are the diagnostics of the text it has.
THEOREM DiagnosticsAreAlwaysCurrent == Spec => []DiagnosticsAreCurrent
<1>1. SessionInv => DiagnosticsAreCurrent
  <2> SUFFICES ASSUME SessionInv, Quiet, client_capabilities.should_send_diagnostics,
                      NEW u \in DOMAIN buffer
               PROVE  shown[u] = buffer[u]
    BY DEF DiagnosticsAreCurrent
  <2>1. Started
    BY QuietPhase DEF SessionInv, DefaultCapabilities
  <2>2. u \in Uris /\ buffer[u] \in Texts
    BY DEF SessionInv, Typed, EditorTyped, IsMap
  <2>3. View(u) = Buf(u)
    <3>1. Leads(TextEffect(u), << >>, View(u), Buf(u))
      BY <2>2 DEF SessionInv, TextInv, Quiet
    <3> QED
      BY <3>1, LeadsEmpty
  <2>4. u \in DOMAIN opened /\ opened[u].text = buffer[u]
    BY <2>2, <2>3, LanguageServerAssumption DEF View, Buf
  <2>5. PICK z \in Shown : Diagnosed(u, z)
    BY <2>1, <2>2 DEF SessionInv, DiagInv
  <2>6. ~Has(ready, DiagnosticsOf(u))
    BY HasEmpty DEF Quiet
  <2>7. Leads(ShownEffect(u), << >>, shown[u], z) /\ z = opened[u].text
    BY <2>4, <2>5, <2>6 DEF Diagnosed, Quiet
  <2>8. shown[u] = z
    BY <2>7, LeadsEmpty
  <2> QED
    BY <2>4, <2>7, <2>8
<1> QED
  BY <1>1, SessionInvariant, PTL
=============================================================================
