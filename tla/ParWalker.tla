----------------------------- MODULE ParWalker -----------------------------
(* ParWalker::walk of cli/src/walk.rs: one thread walks a directory or a    *)
(* list of files and puts paths in a bounded channel, NumThreads workers    *)
(* take them, all of them put messages in an unbounded channel, and the     *)
(* main thread prints these until Abort or until every sender is gone.      *)
(* Then it joins the threads in the order in which they were spawned.       *)
(*                                                                          *)
(* What a worker does with a path is the file handler of a command, in      *)
(* ScanCommand.  A thread that has messages to send keeps them in its       *)
(* outbox and does nothing else until they are sent.                        *)
EXTENDS Naturals, Sequences, FiniteSets, Bags, BagsExt

CONSTANTS
  NumThreads,   \* number of workers
  Capacity,     \* room of the channel of paths, 128 in the code
  Entries,      \* what the walk finds, a sequence of records
  FatalErrors   \* errors for which the error handler returns Err

EntryKinds == {"file", "filtered", "unreadable", "broken"}
ErrorKinds == {"timeout", "scan", "walk", "send"}

ASSUME ParWalkerAssumption ==
  /\ NumThreads \in Nat \ {0}
  /\ Capacity \in Nat \ {0}
  /\ Len(Entries) \in Nat /\ DOMAIN Entries = 1 .. Len(Entries)
  /\ \A i \in DOMAIN Entries : Entries[i].kind \in EntryKinds
  /\ FatalErrors \subseteq ErrorKinds \ {"send"}

Workers == 1 .. NumThreads
WalkerThread == NumThreads + 1
Threads == 1 .. NumThreads + 1

VARIABLES
  pc,        \* where each thread is
  next,      \* the entry of the walk that comes next
  paths,     \* the channel of paths, as indices of Entries
  file,      \* the path a worker works on
  err,       \* the error its handler returned
  outbox,    \* what a thread still has to send
  msgs,      \* the channel of messages
  main,      \* where the main thread is
  joined,    \* threads already joined
  printed    \* lines on the console, a bag

walkVars == <<pc, next, paths, file, err, outbox, msgs, main, joined, printed>>

NoError == "none"

\* The n-th line about an entry, an error about it, and the end of the walk.
Info(i, n) == [kind |-> "info", entry |-> i, n |-> n]
Error(e, i) == [kind |-> e, entry |-> i, n |-> 0]
Abort == [kind |-> "abort", entry |-> 0, n |-> 0]

Gone == {"ended", "panicked"}
\* Both channels are closed by dropping handles.  The main thread keeps its
\* own handle of the receiver of paths until its scope ends, also by a panic.
PathsReceived == main \in {"unwind", "panicked", "done"} => \E w \in Workers : pc[w] \notin Gone
PathsSent == pc[WalkerThread] \notin Gone
MsgsReceived == main = "print"
\* Mutant of MsgsSent: the main thread keeps a sender too.
MsgsSentByMain == main = "print"
MsgsSent == \E t \in Threads : pc[t] \notin Gone

\* Mutant of Report: Abort is sent before the message.
ReportLate(e, i) == (IF e \in FatalErrors THEN <<Abort>> ELSE <<>>) \o <<Error(e, i)>>
\* What calling the error handler, and the check of its result, send.
Report(e, i) == <<Error(e, i)>> \o (IF e \in FatalErrors THEN <<Abort>> ELSE <<>>)

WalkInit ==
  /\ pc = [t \in Threads |-> IF t = WalkerThread THEN "walk" ELSE "recv"]
  /\ next = 1
  /\ paths = <<>>
  /\ file = [w \in Workers |-> 0]
  /\ err = [w \in Workers |-> NoError]
  /\ outbox = [t \in Threads |-> <<>>]
  /\ msgs = <<>>
  /\ main = "print"
  /\ joined = 0
  /\ printed = EmptyBag

Ready(t, at) == pc[t] = at /\ outbox[t] = <<>>

----------------------------------------------------------------------------
\* Sending.  ParWalker and the error handler ignore that nobody receives; the
\* file handler unwraps the result, and so panics.
Unwraps(t) == pc[t] \in {"scan", "report"}

Send(t) ==
  /\ outbox[t] # <<>>
  /\ IF MsgsReceived
       THEN msgs' = Append(msgs, Head(outbox[t]))
       ELSE UNCHANGED msgs
  /\ IF ~MsgsReceived /\ Unwraps(t)
       THEN /\ pc' = [pc EXCEPT ![t] = "panicked"]
            /\ outbox' = [outbox EXCEPT ![t] = <<>>]
       ELSE /\ outbox' = [outbox EXCEPT ![t] = Tail(@)]
            /\ UNCHANGED pc
  /\ UNCHANGED <<next, paths, file, err, main, joined, printed>>

----------------------------------------------------------------------------
\* The walker thread.

\* Mutant of WalkFile: one path too many.
WalkFileOver ==
  /\ Ready(WalkerThread, "walk")
  /\ next <= Len(Entries)
  /\ Entries[next].kind = "file"
  /\ PathsReceived
  /\ Len(paths) <= Capacity
  /\ paths' = Append(paths, next)
  /\ next' = next + 1
  /\ UNCHANGED <<pc, file, err, outbox, msgs, main, joined, printed>>

WalkFile ==
  /\ Ready(WalkerThread, "walk")
  /\ next <= Len(Entries)
  /\ Entries[next].kind = "file"
  /\ PathsReceived
  /\ Len(paths) < Capacity
  /\ paths' = Append(paths, next)
  /\ next' = next + 1
  /\ UNCHANGED <<pc, file, err, outbox, msgs, main, joined, printed>>

\* The metadata filter rejects the file.
WalkFiltered ==
  /\ Ready(WalkerThread, "walk")
  /\ next <= Len(Entries)
  /\ Entries[next].kind = "filtered"
  /\ next' = next + 1
  /\ UNCHANGED <<pc, paths, file, err, outbox, msgs, main, joined, printed>>

\* No metadata, or an error of the directory iterator.  If the handler says
\* so the walk ends, and its result is handled as an error once more.
WalkUnreadable ==
  /\ Ready(WalkerThread, "walk")
  /\ next <= Len(Entries)
  /\ Entries[next].kind = "unreadable"
  /\ next' = next + 1
  /\ IF "walk" \in FatalErrors
       THEN /\ outbox' = [outbox EXCEPT ![WalkerThread] = Report("walk", next) \o Report("walk", next)]
            /\ pc' = [pc EXCEPT ![WalkerThread] = "stop"]
       ELSE /\ outbox' = [outbox EXCEPT ![WalkerThread] = Report("walk", next)]
            /\ UNCHANGED pc
  /\ UNCHANGED <<paths, file, err, msgs, main, joined, printed>>

\* An error that walk returns without asking the handler: the list is not a
\* file, cannot be opened, or has a line that is not UTF-8; a bad glob.
WalkBroken ==
  /\ Ready(WalkerThread, "walk")
  /\ next <= Len(Entries)
  /\ Entries[next].kind = "broken"
  /\ outbox' = [outbox EXCEPT ![WalkerThread] = Report("walk", next)]
  /\ pc' = [pc EXCEPT ![WalkerThread] = "stop"]
  /\ UNCHANGED <<next, paths, file, err, msgs, main, joined, printed>>

\* All receivers of paths are gone: SendError aborts the walk.
WalkSendError ==
  /\ Ready(WalkerThread, "walk")
  /\ next <= Len(Entries)
  /\ Entries[next].kind = "file"
  /\ ~PathsReceived
  /\ outbox' = [outbox EXCEPT ![WalkerThread] = Report("send", next)]
  /\ pc' = [pc EXCEPT ![WalkerThread] = "stop"]
  /\ UNCHANGED <<next, paths, file, err, msgs, main, joined, printed>>

WalkEnds ==
  /\ \/ Ready(WalkerThread, "walk") /\ next > Len(Entries)
     \/ Ready(WalkerThread, "stop")
  /\ pc' = [pc EXCEPT ![WalkerThread] = "ended"]
  /\ UNCHANGED <<next, paths, file, err, outbox, msgs, main, joined, printed>>

WalkerStep ==
  WalkFile \/ WalkFiltered \/ WalkUnreadable \/ WalkBroken \/ WalkSendError \/ WalkEnds

----------------------------------------------------------------------------
\* The loop of a worker around the file handler.

Take(w) ==
  /\ Ready(w, "recv")
  /\ paths # <<>>
  /\ file' = [file EXCEPT ![w] = Head(paths)]
  /\ paths' = Tail(paths)
  /\ pc' = [pc EXCEPT ![w] = "handle"]
  /\ UNCHANGED <<next, err, outbox, msgs, main, joined, printed>>

\* Mutant of NoMorePaths: the result of recv is unwrapped.
NoMorePathsPanics(w) ==
  /\ Ready(w, "recv")
  /\ paths = <<>>
  /\ ~PathsSent
  /\ pc' = [pc EXCEPT ![w] = "panicked"]
  /\ UNCHANGED <<next, paths, file, err, outbox, msgs, main, joined, printed>>

\* The walker is gone and the channel is empty.
NoMorePaths(w) ==
  /\ Ready(w, "recv")
  /\ paths = <<>>
  /\ ~PathsSent
  /\ pc' = [pc EXCEPT ![w] = "ended"]
  /\ UNCHANGED <<next, paths, file, err, outbox, msgs, main, joined, printed>>

\* The handler returned an error, and the error handler has been called.
AfterError(w) ==
  /\ Ready(w, "failed")
  /\ pc' = [pc EXCEPT ![w] = IF err[w] \in FatalErrors THEN "ended" ELSE "recv"]
  /\ err' = [err EXCEPT ![w] = NoError]
  /\ file' = [file EXCEPT ![w] = 0]
  /\ UNCHANGED <<next, paths, outbox, msgs, main, joined, printed>>

----------------------------------------------------------------------------
\* The main thread: output_messages, then the joins.

Display ==
  /\ main = "print"
  /\ msgs # <<>>
  /\ Head(msgs) # Abort
  /\ printed' = BagAdd(printed, Head(msgs))
  /\ msgs' = Tail(msgs)
  /\ UNCHANGED <<pc, next, paths, file, err, outbox, main, joined>>

\* output_messages owns the receiver: what is left in the channel is lost.
AbortReceived ==
  /\ main = "print"
  /\ msgs # <<>>
  /\ Head(msgs) = Abort
  /\ main' = "join"
  /\ msgs' = <<>>
  /\ UNCHANGED <<pc, next, paths, file, err, outbox, joined, printed>>

\* Mutant of Disconnected: messages that were sent before are not received.
DisconnectedEarly ==
  /\ main = "print"
  /\ ~MsgsSent
  /\ main' = "join"
  /\ msgs' = <<>>
  /\ UNCHANGED <<pc, next, paths, file, err, outbox, joined, printed>>

Disconnected ==
  /\ main = "print"
  /\ msgs = <<>>
  /\ ~MsgsSent
  /\ main' = "join"
  /\ UNCHANGED <<pc, next, paths, file, err, outbox, msgs, joined, printed>>

JoinThread ==
  /\ main = "join"
  /\ joined < WalkerThread
  /\ pc[joined + 1] = "ended"
  /\ joined' = joined + 1
  /\ UNCHANGED <<pc, next, paths, file, err, outbox, msgs, main, printed>>

\* join().unwrap() of a thread that panicked: the scope is left by a panic,
\* but waits for the other threads first.
JoinPanicked ==
  /\ main = "join"
  /\ joined < WalkerThread
  /\ pc[joined + 1] = "panicked"
  /\ main' = "unwind"
  /\ UNCHANGED <<pc, next, paths, file, err, outbox, msgs, joined, printed>>

Unwound ==
  /\ main = "unwind"
  /\ ~MsgsSent
  /\ main' = "panicked"
  /\ UNCHANGED <<pc, next, paths, file, err, outbox, msgs, joined, printed>>

\* on_walk_done with a channel and a printer of its own, closed and joined.
\* `lines` is what the command prints there, at most one message, so that the
\* channel of 32 never fills.
WalkDone(lines) ==
  /\ main = "join"
  /\ joined = WalkerThread
  /\ main' = "done"
  /\ printed' = printed (+) SetToBag(lines)
  /\ UNCHANGED <<pc, next, paths, file, err, outbox, msgs, joined>>
=============================================================================
