---------------------------- MODULE ScanCommand ----------------------------
(* exec_scan of cli/src/commands/scan.rs on top of ParWalker: the file      *)
(* handler, the error handler, the counters that the progress display       *)
(* shows, and the three formats of output.                                  *)
EXTENDS ParWalker

CONSTANTS
  Formats,     \* the output options to choose from
  HasTimeout   \* whether --timeout was given

\* A file of Entries has a path, the number of rules that match it, whether
\* the scan fails (it cannot be read), and whether rules log to the console.
\* The error handler always ends the walk after a timeout.
ASSUME ScanCommandAssumption ==
  /\ Formats \subseteq [output : {"text", "ndjson", "json"}, count_only : BOOLEAN]
  /\ HasTimeout \in BOOLEAN
  /\ "timeout" \in FatalErrors
  /\ \A i \in DOMAIN Entries : Entries[i].kind = "file" =>
       Entries[i].rules \in Nat /\ Entries[i].fails \in BOOLEAN /\ Entries[i].logs \in BOOLEAN

VARIABLES
  format,              \* the output handler of this walk, and whether with --count
  expired,             \* more time has passed than the timeout
  files_in_progress,   \* pairs of a path and the worker that pushed it
  num_scanned_files,
  num_matching_files,
  output_buffer,       \* rules that JsonOutputHandler holds back, as entries
  included             \* what on_file_scanned returns to each worker

scanVars == <<format, expired, files_in_progress, num_scanned_files, num_matching_files,
              output_buffer, included>>
vars == <<walkVars, scanVars>>

Init ==
  /\ WalkInit
  /\ format \in Formats
  /\ expired = FALSE
  /\ files_in_progress = {}
  /\ num_scanned_files = 0
  /\ num_matching_files = 0
  /\ output_buffer = {}
  /\ included = [w \in Workers |-> FALSE]

PathOf(i) == Entries[i].path

----------------------------------------------------------------------------
\* The file handler.  Its steps are separated where it sends messages; the
\* locks and atomic counters it takes in between commute with other threads.

\* The handler returns an error; the worker calls the error handler.
Fail(w, e) ==
  /\ pc' = [pc EXCEPT ![w] = "failed"]
  /\ err' = [err EXCEPT ![w] = e]
  /\ outbox' = [outbox EXCEPT ![w] = Report(e, file[w])]
  /\ UNCHANGED <<next, paths, file, msgs, main, joined, printed>>

\* checked_sub finds that the time for the whole walk is over.
TimeIsOver(w) ==
  /\ Ready(w, "handle")
  /\ expired
  /\ Fail(w, "timeout")
  /\ UNCHANGED scanVars

\* While it scans, the callback of the console module sends what rules log.
StartScan(w) ==
  /\ Ready(w, "handle")
  /\ ~expired
  /\ files_in_progress' = files_in_progress \cup {<<PathOf(file[w]), w>>}
  /\ pc' = [pc EXCEPT ![w] = "scan"]
  /\ outbox' = [outbox EXCEPT ![w] = IF Entries[file[w]].logs THEN <<Info(file[w], 0)>> ELSE <<>>]
  /\ UNCHANGED <<next, paths, file, err, msgs, main, joined, printed>>
  /\ UNCHANGED <<format, expired, num_scanned_files, num_matching_files, output_buffer, included>>

\* retain() drops every entry with this path, whoever pushed it.
Retain(w) == {e \in files_in_progress : e[1] # PathOf(file[w])}

\* Mutant of ScanFails: the error is returned before the file is counted out.
ScanFailsEarly(w) ==
  /\ Ready(w, "scan")
  /\ Entries[file[w]].fails
  /\ Fail(w, "scan")
  /\ UNCHANGED scanVars

\* Mutant of ScanFails: the file is counted before the error is returned.
ScanFailsCounted(w) ==
  /\ Ready(w, "scan")
  /\ Entries[file[w]].fails
  /\ files_in_progress' = Retain(w)
  /\ num_scanned_files' = num_scanned_files + 1
  /\ Fail(w, "scan")
  /\ UNCHANGED <<format, expired, num_matching_files, output_buffer, included>>

ScanFails(w) ==
  /\ Ready(w, "scan")
  /\ Entries[file[w]].fails
  /\ files_in_progress' = Retain(w)
  /\ Fail(w, "scan")
  /\ UNCHANGED <<format, expired, num_scanned_files, num_matching_files, output_buffer, included>>

ScanTimesOut(w) ==
  /\ Ready(w, "scan")
  /\ expired
  /\ files_in_progress' = Retain(w)
  /\ Fail(w, "timeout")
  /\ UNCHANGED <<format, expired, num_scanned_files, num_matching_files, output_buffer, included>>

\* What on_file_scanned sends: text one message for every matching rule with
\* the wanted tag, ndjson one for every file, json none until the end.  With
\* --count text too sends one for every file, its number of rules.
TextLines(i) ==
  IF format.count_only THEN <<Info(i, 1)>> ELSE [n \in 1 .. Entries[i].rules |-> Info(i, n)]
NdjsonLines(i) == <<Info(i, 1)>>
Lines(i) ==
  CASE format.output = "text" -> TextLines(i)
    [] format.output = "ndjson" -> NdjsonLines(i)
    [] format.output = "json" -> <<>>

Buffered(i) ==
  output_buffer \cup (IF format.output = "json" THEN {Info(i, n) : n \in 1 .. Entries[i].rules} ELSE {})

\* Mutant of Included: with --count too, only files with a matching rule.
IncludedIfMatching(i) ==
  IF format.output = "json" THEN Buffered(i) # {} ELSE Entries[i].rules > 0

\* What on_file_scanned returns: json looks at the whole buffer, the others at
\* this file, which with --count is always in the output.
Included(i) ==
  IF format.output = "json" THEN Buffered(i) # {} ELSE format.count_only \/ Entries[i].rules > 0

ScanSucceeds(w) ==
  /\ Ready(w, "scan")
  /\ ~Entries[file[w]].fails
  /\ files_in_progress' = Retain(w)
  /\ num_scanned_files' = num_scanned_files + 1
  /\ output_buffer' = Buffered(file[w])
  /\ included' = [included EXCEPT ![w] = Included(file[w])]
  /\ outbox' = [outbox EXCEPT ![w] = Lines(file[w])]
  /\ pc' = [pc EXCEPT ![w] = "report"]
  /\ UNCHANGED <<next, paths, file, err, msgs, main, joined, printed>>
  /\ UNCHANGED <<format, expired, num_matching_files>>

Reported(w) ==
  /\ Ready(w, "report")
  /\ num_matching_files' = num_matching_files + (IF included[w] THEN 1 ELSE 0)
  /\ included' = [included EXCEPT ![w] = FALSE]
  /\ pc' = [pc EXCEPT ![w] = "recv"]
  /\ file' = [file EXCEPT ![w] = 0]
  /\ UNCHANGED <<next, paths, err, outbox, msgs, main, joined, printed>>
  /\ UNCHANGED <<format, expired, files_in_progress, num_scanned_files, output_buffer>>

\* With --count the matches in the buffer are counted for each path, however
\* many entries have it; one of them stands for the path.
EntryOf(path) == CHOOSE i \in DOMAIN Entries : Entries[i].kind = "file" /\ PathOf(i) = path
Totals(matches) ==
  {Info(EntryOf(path), Cardinality({m \in matches : PathOf(m.entry) = path})) :
     path \in {PathOf(m.entry) : m \in matches}}

\* on_done of JsonOutputHandler prints what was held back, the others nothing.
Done ==
  /\ WalkDone(IF format.count_only THEN Totals(output_buffer) ELSE output_buffer)
  /\ output_buffer' = {}
  /\ UNCHANGED <<format, expired, files_in_progress, num_scanned_files, num_matching_files, included>>

Expire ==
  /\ HasTimeout
  /\ ~expired
  /\ main \notin {"done", "panicked"}
  /\ expired' = TRUE
  /\ UNCHANGED <<format, files_in_progress, num_scanned_files, num_matching_files, output_buffer, included>>
  /\ UNCHANGED walkVars

----------------------------------------------------------------------------
Handle(w) ==
  \/ TimeIsOver(w)
  \/ StartScan(w)
  \/ ScanFails(w)
  \/ ScanTimesOut(w)
  \/ ScanSucceeds(w)
  \/ Reported(w)

WorkerStep(w) ==
  \/ (Send(w) \/ Take(w) \/ NoMorePaths(w) \/ AfterError(w)) /\ UNCHANGED scanVars
  \/ Handle(w)

WalkerThreadStep == (Send(WalkerThread) \/ WalkerStep) /\ UNCHANGED scanVars

MainStep ==
  \/ (Display \/ AbortReceived \/ Disconnected \/ JoinThread \/ JoinPanicked \/ Unwound) /\ UNCHANGED scanVars
  \/ Done

Finished == main \in {"done", "panicked"} /\ ~MsgsSent /\ UNCHANGED vars

Next ==
  \/ \E w \in Workers : WorkerStep(w)
  \/ WalkerThreadStep
  \/ MainStep
  \/ Expire
  \/ Finished

Spec == Init /\ [][Next]_vars

\* The operating system runs every thread that can run, and time passes.
FairSpec ==
  /\ Spec
  /\ \A w \in Workers : WF_vars(WorkerStep(w))
  /\ WF_vars(WalkerThreadStep)
  /\ WF_vars(MainStep)
  /\ WF_vars(Expire)

----------------------------------------------------------------------------
Messages == [kind : {"info", "abort"} \cup ErrorKinds, entry : {0} \cup DOMAIN Entries, n : Nat]

TypeOK ==
  /\ pc \in [Threads -> {"walk", "stop", "recv", "handle", "scan", "report", "failed"} \cup Gone]
  /\ next \in 1 .. Len(Entries) + 1
  /\ paths \in Seq(DOMAIN Entries) /\ Len(paths) <= Capacity
  /\ file \in [Workers -> {0} \cup DOMAIN Entries]
  /\ err \in [Workers -> ErrorKinds \cup {NoError}]
  /\ outbox \in [Threads -> Seq(Messages)]
  /\ msgs \in Seq(Messages)
  /\ main \in {"print", "join", "unwind", "panicked", "done"}
  /\ joined \in 0 .. WalkerThread
  /\ IsABag(printed) /\ BagToSet(printed) \subseteq Messages
  /\ format \in Formats
  /\ expired \in BOOLEAN
  /\ files_in_progress \subseteq {PathOf(i) : i \in {j \in DOMAIN Entries : Entries[j].kind = "file"}} \X Workers
  /\ num_scanned_files \in Nat
  /\ num_matching_files \in Nat
  /\ output_buffer \subseteq Messages
  /\ included \in [Workers -> BOOLEAN]

\* An error that ends the walk is on the console.
FatalPrinted == \E m \in BagToSet(printed) : m.kind \in FatalErrors

\* The entries the walk comes to: an error that the handler is not asked
\* about ends it.
Walked == {i \in DOMAIN Entries : \A j \in 1 .. i - 1 : Entries[j].kind # "broken"}
Scanned == {i \in Walked : Entries[i].kind = "file" /\ ~Entries[i].fails}
Matching == {i \in Scanned : Entries[i].rules > 0}

\* The lines about the files that were scanned: one for every match, or one
\* for every file or, in json with --count, for every path that has matches.
LinesPerFile(i) ==
  IF format.output = "ndjson" \/ (format.output = "text" /\ format.count_only)
    THEN 1
    ELSE Entries[i].rules
ResultLines == UNION {{Info(i, n) : n \in 1 .. LinesPerFile(i)} : i \in Scanned}

\* What belongs on the console, each line once.
Expected ==
  {Info(i, 0) : i \in {j \in Walked : Entries[j].kind = "file" /\ Entries[j].logs}}
    \cup {Error("scan", i) : i \in {j \in Walked : Entries[j].kind = "file" /\ Entries[j].fails}}
    \cup {Error("walk", i) : i \in {j \in Walked : Entries[j].kind \in {"unreadable", "broken"}}}
    \cup (IF format.output = "json" /\ format.count_only THEN Totals(ResultLines) ELSE ResultLines)

\* A walk that is not aborted prints every result and every error exactly
\* once, whichever worker handled the file and in whatever order, in every
\* format and with --count.
OutputIsComplete ==
  main = "done" /\ ~FatalPrinted => printed = SetToBag(Expected)

\* The list of files in progress shows only files that a thread scans, also
\* when the list of files to scan names one twice.
ProgressIsTrue ==
  \A e \in files_in_progress : file[e[2]] # 0 /\ PathOf(file[e[2]]) = e[1] /\ pc[e[2]] \in {"scan", "panicked"}

\* What the state that the workers share says: the files shown as in progress
\* at every moment are being scanned, and the summary of a walk that is not
\* aborted counts every scanned file once.  num_matching_files counts "only if
\* ... the match is actually included in the output" (scan.rs:394-396): of text
\* and ndjson that holds, where --count includes every file.  It does not hold
\* of json: on_file_scanned looks at the whole buffer, so that every file from
\* the first with a match on is counted, and what is left is that no file with
\* a match is missing, none is counted twice, and without any the count is 0.
CountersAreExact ==
  /\ TypeOK
  /\ ProgressIsTrue
  /\ main = "done" /\ ~FatalPrinted =>
       /\ num_scanned_files = Cardinality(Scanned)
       /\ CASE format.output = "json" ->
                 /\ num_matching_files \in Cardinality(Matching) .. Cardinality(Scanned)
                 /\ Matching = {} => num_matching_files = 0
            [] format.output # "json" /\ format.count_only -> num_matching_files = Cardinality(Scanned)
            [] format.output # "json" /\ ~format.count_only -> num_matching_files = Cardinality(Matching)

\* The printer only leaves while threads still run if the error that aborts
\* the walk has been printed: Abort never overtakes its own message.
AbortIsExplained ==
  main # "print" /\ ~FatalPrinted => \A t \in Threads : pc[t] = "ended"

\* Every worker left after a fatal error, the channel is full, and the
\* receiver of the main thread keeps the channel open: the walker waits.
WalkerStuck ==
  /\ \A w \in Workers : pc[w] = "ended"
  /\ Ready(WalkerThread, "walk")
  /\ Len(paths) = Capacity

\* That is the only thing that keeps the command from ending: "in case of
\* timeout walk is aborted" (scan.rs:447), but the joins at walk.rs:563 wait.
WalkEndsUnlessStuck == ([]~WalkerStuck) => <>(main \in {"done", "panicked"})

\* Every unwrap() of a result of send asserts that somebody receives: it
\* fails, and a thread panics, only after an error that aborts the walk was
\* printed; no other order of the steps makes the command panic.
PanicsOnlyAfterAbort ==
  main \in {"unwind", "panicked"} \/ (\E t \in Threads : pc[t] = "panicked") => FatalPrinted
=============================================================================
