--------------------------- MODULE LanguageServer ----------------------------
(***************************************************************************)
(* The language server (src/ls/src/server.rs) and the editor it talks to.  *)
(* The server runs on a single thread: its main loop handles one message   *)
(* or one event at a time, and the tasks its handlers spawn run in between, *)
(* each from one await to the next, in the order they became ready.        *)
(* Messages between editor and server are delivered in order.              *)
(***************************************************************************)
EXTENDS DocumentStorage, Naturals

CONSTANTS InitialDisks,    \* the file systems a session may start with
          Clients,         \* the editors: capabilities, whether a workspace folder
                           \* is open, whether the options carry the settings
          OpenUris,        \* the documents the user opens
          WrittenUris,     \* the files other programs write and delete
          EditTexts,       \* the texts the user or another program writes
          MaxOps           \* bound on what the user and other programs do

Capabilities ==
    [should_send_diagnostics : BOOLEAN,
     dynamic_registration_config_change : BOOLEAN,
     dynamic_registration_watched_files : BOOLEAN,
     support_config_requests : BOOLEAN]

ASSUME LanguageServerAssumption ==
    /\ \A d \in InitialDisks : IsMap(d, Texts)
    /\ \A c \in Clients :
          c.caps \in Capabilities /\ c.folder \in BOOLEAN /\ c.options \in BOOLEAN
    /\ OpenUris \subseteq Uris /\ WrittenUris \subseteq Uris
    /\ EditTexts \subseteq Texts /\ MaxOps \in Nat
    \* "absent" stands for a text that a message leaves out
    /\ "absent" \notin Texts

VARIABLES
    \* the editor
    session,       \* "new" | "initializing" | "ready"
    buffer,        \* URI -> text, for the documents that are open
    shown,         \* URI -> the diagnostics shown, by the text they are of
    watching,      \* whether the editor reports changes of files
    notifies,      \* whether it reports changes of the configuration
    settings,      \* its configuration: "on" | "off" (cache_workspace) | "bad"
    ops,           \* what the user and other programs did so far
    \* the two channels
    in,            \* the messages to the server
    out,           \* the messages to the editor
    \* the server
    client_capabilities,
    config,        \* Config::cache_workspace : "on" | "off"
    ready,         \* the spawned tasks that can run, in order
    events         \* the UpdateConfig events the main loop has not handled

editor == <<session, buffer, shown, watching, notifies, settings, ops>>
storage == <<opened, cached, workspace>>
server == <<client_capabilities, config, ready, events>>
vars == <<editor, storage, disk, server, in, out>>

DefaultCapabilities ==
    [should_send_diagnostics |-> FALSE,
     dynamic_registration_config_change |-> FALSE,
     dynamic_registration_watched_files |-> FALSE,
     support_config_requests |-> FALSE]

Nothing == "nothing"   \* no diagnostics

Init ==
    /\ disk \in InitialDisks
    /\ session = "new" /\ buffer = << >> /\ ops = 0
    /\ shown = [u \in Uris |-> Nothing]
    /\ watching = FALSE /\ notifies = FALSE
    /\ settings \in {"on", "off"}
    /\ in = << >> /\ out = << >>
    /\ opened = << >> /\ cached = << >> /\ workspace = FALSE
    /\ client_capabilities = DefaultCapabilities
    /\ config = "off"
    /\ ready = << >> /\ events = << >>

-----------------------------------------------------------------------------
(* The editor, the user and other programs. *)

Send(msg) == in' = Append(in, msg)

Counted == session = "ready" /\ ops < MaxOps /\ ops' = ops + 1

(* What the editor sends about a file that changed, if it watches files. *)
Report(uri, typ) ==
    IF watching THEN <<[type |-> "watched", uri |-> uri, typ |-> typ]>> ELSE << >>

(* The configuration may come with the initialization options or not. *)
EditorInitialize ==
    /\ session = "new"
    /\ session' = "initializing"
    /\ \E c \in Clients :
          /\ Send([type |-> "initialize", caps |-> c.caps, folder |-> c.folder,
                   config |-> IF c.options THEN settings ELSE "absent"])
          /\ notifies' = ~c.caps.dynamic_registration_config_change
    /\ UNCHANGED <<buffer, shown, watching, settings, ops, storage, disk, server, out>>

UserOpens(uri) ==
    /\ Counted /\ uri \notin DOMAIN buffer
    /\ \E text \in IF uri \in DOMAIN disk THEN {disk[uri]} ELSE EditTexts :
          /\ buffer' = Put(buffer, uri, text)
          /\ Send([type |-> "didOpen", uri |-> uri, text |-> text])
    /\ UNCHANGED <<session, shown, watching, notifies, settings, storage, disk, server, out>>

UserEdits(uri, text) ==
    /\ Counted /\ uri \in DOMAIN buffer /\ buffer[uri] # text
    /\ buffer' = [buffer EXCEPT ![uri] = text]
    /\ Send([type |-> "didChange", uri |-> uri, text |-> text])
    /\ UNCHANGED <<session, shown, watching, notifies, settings, storage, disk, server, out>>

(* An editor may leave the text out of didSave. *)
UserSaves(uri) ==
    /\ Counted /\ uri \in DOMAIN buffer
    /\ disk' = Put(disk, uri, buffer[uri])
    /\ \E text \in {buffer[uri], "absent"} :
          in' = Append(in, [type |-> "didSave", uri |-> uri, text |-> text])
                \o Report(uri, "changed")
    /\ UNCHANGED <<session, buffer, shown, watching, notifies, settings, storage, server, out>>

UserCloses(uri) ==
    /\ Counted /\ uri \in DOMAIN buffer
    /\ buffer' = Drop(buffer, uri)
    /\ Send([type |-> "didClose", uri |-> uri])
    /\ UNCHANGED <<session, shown, watching, notifies, settings, storage, disk, server, out>>

FileWritten(uri, text) ==
    /\ Counted
    /\ uri \in DOMAIN disk => disk[uri] # text
    /\ disk' = Put(disk, uri, text)
    /\ in' = in \o Report(uri, "changed")
    /\ UNCHANGED <<session, buffer, shown, watching, notifies, settings, storage, server, out>>

FileDeleted(uri) ==
    /\ Counted /\ uri \in DOMAIN disk
    /\ disk' = Drop(disk, uri)
    /\ in' = in \o Report(uri, "deleted")
    /\ UNCHANGED <<session, buffer, shown, watching, notifies, settings, storage, server, out>>

UserConfigures(value) ==
    /\ Counted /\ settings # value
    /\ settings' = value
    /\ in' = IF notifies THEN Append(in, [type |-> "didChangeConfiguration"]) ELSE in
    /\ UNCHANGED <<session, buffer, shown, watching, notifies, storage, disk, server, out>>

(* The editor takes a message.  It answers a configuration request with its *)
(* settings of the moment; once a registration for changes of the           *)
(* configuration arrives it sends one.                                      *)
EditorReceives ==
    /\ out # << >>
    /\ out' = Tail(out)
    /\ LET msg == Head(out) IN
       /\ session' = IF msg.type = "initializeResult" THEN "ready" ELSE session
       /\ shown' = IF msg.type = "publish" THEN [shown EXCEPT ![msg.uri] = msg.of] ELSE shown
       /\ watching' = IF msg.type = "watchFiles" THEN TRUE
                      ELSE IF msg.type = "unwatchFiles" THEN FALSE ELSE watching
       /\ notifies' = (notifies \/ msg.type = "notifyConfig")
       /\ in' = CASE msg.type = "initializeResult" -> Append(in, [type |-> "initialized"])
                  [] msg.type = "notifyConfig" ->
                       Append(in, [type |-> "didChangeConfiguration"])
                  [] msg.type = "configuration" ->
                       Append(in, [type |-> "answer", config |-> settings])
                  [] OTHER -> in
    /\ UNCHANGED <<buffer, settings, ops, storage, disk, server>>

Editor ==
    \/ EditorInitialize
    \/ \E u \in OpenUris : UserOpens(u) \/ UserSaves(u) \/ UserCloses(u)
    \/ \E u \in OpenUris, t \in EditTexts : UserEdits(u, t)
    \/ \E u \in WrittenUris : FileDeleted(u)
    \/ \E u \in WrittenUris, t \in EditTexts : FileWritten(u, t)
    \/ \E c \in {"on", "off", "bad"} : UserConfigures(c)
    \/ EditorReceives

-----------------------------------------------------------------------------
(* The server.  A task is spawned at the end of the queue of ready tasks.  *)

register_fs_watcher == <<[type |-> "watchFiles"]>>
unregister_fs_watcher == <<[type |-> "unwatchFiles"]>>

load_config ==
    IF client_capabilities.support_config_requests
    THEN <<[type |-> "loadConfig"]>> ELSE << >>

(* The task keeps the configuration of the moment it was spawned at and    *)
(* reads the document when it runs.                                        *)
publish_diagnostics(uri) ==
    IF client_capabilities.should_send_diagnostics
    THEN <<[type |-> "diagnostics", uri |-> uri, config |-> config]>> ELSE << >>

Spawn(tasks) == ready' = ready \o tasks

initialize(msg) ==
    /\ client_capabilities' = msg.caps
    /\ workspace' = msg.folder
    \* options that do not parse as a Config are ignored
    /\ config' = IF msg.config \in {"on", "off"} THEN msg.config ELSE config
    /\ out' = Append(out, [type |-> "initializeResult"])
    /\ UNCHANGED <<opened, cached, ready, events>>

initialized ==
    LET cache == config = "on" /\ client_capabilities.dynamic_registration_watched_files
    IN /\ Spawn((IF client_capabilities.dynamic_registration_config_change
                 THEN <<[type |-> "notifyConfig"]>> ELSE load_config)
                \o (IF cache THEN register_fs_watcher ELSE << >>))
       /\ IF cache THEN cache_workspace ELSE UNCHANGED cached
       /\ UNCHANGED <<opened, workspace, client_capabilities, config, events, out>>

did_open(msg) ==
    /\ insert(msg.uri, msg.text)
    /\ Spawn(publish_diagnostics(msg.uri))
    /\ UNCHANGED <<workspace, client_capabilities, config, events, out>>

did_save(msg) ==
    /\ IF msg.text # "absent"
       THEN insert(msg.uri, msg.text) /\ Spawn(publish_diagnostics(msg.uri))
       ELSE UNCHANGED <<opened, cached, ready>>
    /\ UNCHANGED <<workspace, client_capabilities, config, events, out>>

\* Mutant of did_change: the new text is not diagnosed.
DidChangeQuietly(msg) ==
    /\ update(msg.uri, msg.text)
    /\ UNCHANGED <<workspace, server, out>>

did_change(msg) ==
    /\ update(msg.uri, msg.text)
    /\ Spawn(publish_diagnostics(msg.uri))
    /\ UNCHANGED <<workspace, client_capabilities, config, events, out>>

did_close(msg) ==
    /\ remove(msg.uri, config = "on")
    /\ UNCHANGED <<workspace, server, out>>

did_change_configuration ==
    /\ Spawn(load_config)
    /\ UNCHANGED <<storage, client_capabilities, config, events, out>>

did_change_watched_files(msg) ==
    /\ react_watched_files_changes(msg)
    /\ UNCHANGED <<opened, workspace, server, out>>

(* The answer wakes the task that waits for it. *)
ConfigurationAnswered(msg) ==
    /\ Spawn(<<[type |-> "configGot", config |-> msg.config]>>)
    /\ UNCHANGED <<storage, client_capabilities, config, events, out>>

HandleMessage ==
    /\ in # << >>
    /\ in' = Tail(in)
    /\ LET msg == Head(in) IN
       CASE msg.type = "initialize" -> initialize(msg)
         [] msg.type = "initialized" -> initialized
         [] msg.type = "didOpen" -> did_open(msg)
         [] msg.type = "didSave" -> did_save(msg)
         [] msg.type = "didChange" -> did_change(msg)
         [] msg.type = "didClose" -> did_close(msg)
         [] msg.type = "didChangeConfiguration" -> did_change_configuration
         [] msg.type = "watched" -> did_change_watched_files(msg)
         [] msg.type = "answer" -> ConfigurationAnswered(msg)
    /\ UNCHANGED <<editor, disk>>

\* Mutant of update_config: the watcher stays when the cache is turned off.
UpdateConfigKeepsWatcher ==
    /\ events # << >>
    /\ events' = Tail(events)
    /\ LET value == Head(events)
           toggled == value # config /\ client_capabilities.dynamic_registration_watched_files
       IN /\ CASE toggled /\ value = "on" -> Spawn(register_fs_watcher) /\ cache_workspace
               [] toggled /\ value = "off" -> UNCHANGED ready /\ clear_cache
               [] OTHER -> UNCHANGED <<ready, cached>>
          /\ config' = value
    /\ UNCHANGED <<opened, workspace, client_capabilities, editor, disk, in, out>>

\* Mutant of update_config: the new configuration is loaded once more.
UpdateConfigReloads ==
    /\ events # << >>
    /\ events' = Tail(events)
    /\ config' = Head(events)
    /\ Spawn(load_config)
    /\ UNCHANGED <<storage, client_capabilities, editor, disk, in, out>>

(* The event a load_config task emits. *)
update_config ==
    /\ events # << >>
    /\ events' = Tail(events)
    /\ LET value == Head(events)
           toggled == value # config /\ client_capabilities.dynamic_registration_watched_files
       IN /\ CASE toggled /\ value = "on" -> Spawn(register_fs_watcher) /\ cache_workspace
               [] toggled /\ value = "off" -> Spawn(unregister_fs_watcher) /\ clear_cache
               [] OTHER -> UNCHANGED <<ready, cached>>
          /\ config' = value
    /\ UNCHANGED <<opened, workspace, client_capabilities, editor, disk, in, out>>

(* The first ready task runs to its next await or to its end. *)
diagnostics(uri) == IF uri \in DOMAIN opened THEN opened[uri].text ELSE Nothing

TaskDiagnoses ==
    /\ ready # << >> /\ Head(ready).type = "diagnostics"
    /\ ready' = Tail(ready)
    /\ LET uri == Head(ready).uri IN
       out' = Append(out, [type |-> "publish", uri |-> uri, of |-> diagnostics(uri)])
    /\ UNCHANGED <<storage, client_capabilities, config, events, editor, disk, in>>

TaskSends ==
    /\ ready # << >>
    /\ Head(ready).type \in {"watchFiles", "unwatchFiles", "notifyConfig", "loadConfig"}
    /\ ready' = Tail(ready)
    /\ out' = Append(out, [type |-> IF Head(ready).type = "loadConfig"
                                    THEN "configuration" ELSE Head(ready).type])
    /\ UNCHANGED <<storage, client_capabilities, config, events, editor, disk, in>>

\* Mutant of TaskEmits: a configuration that does not parse is emitted.
TaskEmitsAnything ==
    /\ ready # << >> /\ Head(ready).type = "configGot"
    /\ ready' = Tail(ready)
    /\ events' = Append(events, Head(ready).config)
    /\ UNCHANGED <<storage, client_capabilities, config, editor, disk, in, out>>

\* Mutant of TaskEmits: nothing is emitted when the server has that value.
TaskEmitsChanges ==
    /\ ready # << >> /\ Head(ready).type = "configGot"
    /\ ready' = Tail(ready)
    /\ events' = IF Head(ready).config \in {"bad", config} THEN events
                 ELSE Append(events, Head(ready).config)
    /\ UNCHANGED <<storage, client_capabilities, config, editor, disk, in, out>>

(* A configuration that does not parse is reported to the user and dropped. *)
TaskEmits ==
    /\ ready # << >> /\ Head(ready).type = "configGot"
    /\ ready' = Tail(ready)
    /\ events' = IF Head(ready).config = "bad" THEN events
                 ELSE Append(events, Head(ready).config)
    /\ UNCHANGED <<storage, client_capabilities, config, editor, disk, in, out>>

RunTask == TaskDiagnoses \/ TaskSends \/ TaskEmits

Next == Editor \/ HandleMessage \/ update_config \/ RunTask

Spec == Init /\ [][Next]_vars

(* The main loop goes on handling what arrives, the runtime runs the tasks *)
(* that are ready, and the editor goes on reading what it is sent.         *)
FairSpec ==
    /\ Spec
    /\ WF_vars(HandleMessage) /\ WF_vars(update_config) /\ WF_vars(RunTask)
    /\ WF_vars(EditorReceives)

-----------------------------------------------------------------------------
Quiet == in = << >> /\ out = << >> /\ ready = << >> /\ events = << >>

TypeOK ==
    /\ StorageTypeOK
    /\ session \in {"new", "initializing", "ready"}
    /\ IsMap(buffer, Texts)
    /\ shown \in [Uris -> Texts \cup {Nothing}]
    /\ <<watching, notifies>> \in BOOLEAN \X BOOLEAN
    /\ settings \in {"on", "off", "bad"}
    /\ ops \in 0..MaxOps
    /\ client_capabilities \in {c.caps : c \in Clients} \cup {DefaultCapabilities}
    /\ config \in {"on", "off"}
    /\ \A i \in DOMAIN events : events[i] \in {"on", "off"}

(* Once the server has handled every message, the documents it holds are   *)
(* the ones open in the editor, with the same text (did_open, did_change,  *)
(* did_save and did_close together with the storage's insert and remove).  *)
(* No tree of an open document is ever in the cache on the way.            *)
TextIsInSync ==
    /\ TypeOK
    /\ CacheAndOpenAreDisjoint
    /\ in = << >> => /\ DOMAIN opened = DOMAIN buffer
                     /\ \A u \in DOMAIN buffer : opened[u].text = buffer[u]

(* Once nothing is under way, what the editor shows for an open document   *)
(* are the diagnostics of its text: a task spawned for an earlier text     *)
(* never has the last word.                                                *)
DiagnosticsAreCurrent ==
    Quiet /\ client_capabilities.should_send_diagnostics
    => \A u \in DOMAIN buffer : shown[u] = buffer[u]

(* Once nothing is under way, the server's configuration is the editor's,  *)
(* for an editor that answers configuration requests: the configuration is *)
(* pulled, after every change, through a message, two task steps, an       *)
(* answer and an event, and a later change may overtake none of them.      *)
ConfigIsCurrent ==
    /\ Quiet /\ session = "ready"
    /\ client_capabilities.support_config_requests
    /\ settings # "bad"
    => config = settings

(* Once nothing is under way, the editor watches the files exactly when    *)
(* the server caches the workspace: the last of the requests that several  *)
(* toggles of the setting lead to is of the last of them.  Ready tasks run *)
(* in order here, as in the runtime the server is started in.              *)
WatcherFollowsConfig ==
    Quiet /\ client_capabilities.dynamic_registration_watched_files
    => watching = (config = "on" /\ session = "ready")

(* Once the user stops, everything comes to rest: no message, task or      *)
(* event stays unhandled and none keeps causing others (pulling the        *)
(* configuration, say, never leads to pulling it again).  What holds once  *)
(* nothing is under way is therefore reached.                              *)
Settles == <>[]Quiet

(* The tree of an open document is the tree of its text. *)
TreeIsOfText == \A u \in DOMAIN opened : opened[u].cst = CST[opened[u].text]
=============================================================================
