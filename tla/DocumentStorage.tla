--------------------------- MODULE DocumentStorage ---------------------------
(***************************************************************************)
(* The documents of the language server (src/ls/src/documents/storage.rs): *)
(* the documents open in the editor, the cache of the syntax trees of the  *)
(* workspace's files, and the files themselves.  A text is a model value;  *)
(* CST[t] is the part of its syntax tree the searches look at.             *)
(***************************************************************************)
EXTENDS Sequences, FiniteSets

CONSTANTS Uris,            \* the files, by URI
          WorkspaceFiles,  \* the .yar and .yara files under the workspace folder
          Texts,           \* the contents a file or a buffer may have
          CST              \* CST[t] : the tree of text t

VARIABLES disk,       \* the file system: URI -> text, for the files there are
          opened,     \* DocumentStorage::opened : URI -> document
          cached,     \* DocumentStorage::cached : URI -> tree
          workspace   \* whether DocumentStorage::workspace is set

Trees == {CST[t] : t \in Texts}

(* A partial function over URIs, as the maps of the code are. *)
IsMap(m, V) == DOMAIN m \subseteq Uris /\ \A u \in DOMAIN m : m[u] \in V

Put(m, u, v) == [w \in DOMAIN m \cup {u} |-> IF w = u THEN v ELSE m[w]]

Drop(m, u) == [w \in DOMAIN m \ {u} |-> m[w]]

ASSUME StorageAssumption ==
    /\ WorkspaceFiles \subseteq Uris
    /\ DOMAIN CST = Texts
    \* two texts are the same text exactly when they have the same tree
    /\ \A s, t \in Texts : CST[s] = CST[t] => s = t

-----------------------------------------------------------------------------
(* Document::new and Document::new_with_cst: the second is given a tree, it *)
(* does not parse the text.                                                 *)
new(text) == [text |-> text, cst |-> CST[text]]

new_with_cst(text, cst) == [text |-> text, cst |-> cst]

insert(uri, text) ==
    /\ opened' = Put(opened, uri,
                     IF uri \in DOMAIN cached
                     THEN new_with_cst(text, cached[uri])
                     ELSE new(text))
    /\ cached' = Drop(cached, uri)

\* Mutant of update: the text is not replaced.
UpdateTreeOnly(uri, text) ==
    /\ opened' = IF uri \in DOMAIN opened
                 THEN [opened EXCEPT ![uri].cst = CST[text]]
                 ELSE opened
    /\ UNCHANGED cached

update(uri, text) ==
    /\ opened' = IF uri \in DOMAIN opened
                 THEN [opened EXCEPT ![uri] = new(text)]
                 ELSE opened
    /\ UNCHANGED cached

remove(uri, cache_enabled) ==
    /\ opened' = Drop(opened, uri)
    /\ cached' = IF uri \in DOMAIN opened /\ cache_enabled
                 THEN Put(cached, uri, opened[uri].cst)
                 ELSE cached

(* The tree of an open document, else the cached one, else the one of the *)
(* file; a file that cannot be read has none.                             *)
HasTree(uri) == uri \in DOMAIN opened \cup DOMAIN cached \cup DOMAIN disk

get_document_cst_root(uri) ==
    IF uri \in DOMAIN opened THEN opened[uri].cst
    ELSE IF uri \in DOMAIN cached THEN cached[uri]
    ELSE CST[disk[uri]]

walk_workspace == IF workspace THEN WorkspaceFiles \cap DOMAIN disk ELSE {}

cache_workspace ==
    LET walked == walk_workspace \ DOMAIN opened
    IN  cached' = [u \in walked \cup DOMAIN cached |->
                     IF u \in walked THEN CST[disk[u]] ELSE cached[u]]

clear_cache == cached' = << >>

\* Mutant of React: open documents are not skipped.
ReactAlways(cache, change) ==
    IF change.typ = "deleted" THEN Drop(cache, change.uri)
    ELSE IF change.uri \in DOMAIN disk
         THEN Put(cache, change.uri, CST[disk[change.uri]])
    ELSE cache

(* One change of react_watched_files_changes, on the cache `cache`. *)
React(cache, change) ==
    IF change.uri \in DOMAIN opened THEN cache
    ELSE IF change.typ = "deleted" THEN Drop(cache, change.uri)
    ELSE IF change.uri \in DOMAIN disk
         THEN Put(cache, change.uri, CST[disk[change.uri]])
    ELSE cache

react_watched_files_changes(change) == cached' = React(cached, change)

-----------------------------------------------------------------------------
StorageTypeOK ==
    /\ IsMap(disk, Texts)
    /\ IsMap(opened, [text : Texts, cst : Trees])
    /\ IsMap(cached, Trees)
    /\ workspace \in BOOLEAN

(* A tree is in the cache only while its document is not open: opening or  *)
(* saving takes it out, and neither the walk of the workspace nor a report *)
(* of the watcher puts it back, whatever the order they are handled in.    *)
CacheAndOpenAreDisjoint == DOMAIN opened \cap DOMAIN cached = {}
=============================================================================
