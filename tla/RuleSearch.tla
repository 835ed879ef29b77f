----------------------------- MODULE RuleSearch ------------------------------
(***************************************************************************)
(* The searches of the language server across files: the definition of a   *)
(* rule, its occurrences, the rules that includes bring in                 *)
(* (src/ls/src/documents/storage.rs).  A tree has the files it includes,   *)
(* the rules it declares, the identifiers its conditions use, and whether  *)
(* every one of its rules has a condition.                                 *)
(***************************************************************************)
EXTENDS LanguageServer, SequencesExt

NotFound == "not found"

Includes(u) == ToSet(get_document_cst_root(u).includes)

rule_from_ident(root, ident) == ident \in root.rules

(* The usages of a rule in a file; a rule without a condition, as in a     *)
(* file being edited, makes the whole file have none.                      *)
rule_usages(root, ident) == root.whole /\ ident \in root.uses

RECURSIVE SearchDefinition(_, _, _)
SearchDefinition(includes, accessed, ident) ==
    IF includes = << >> THEN NotFound
    ELSE LET curr == Last(includes)
             rest == Front(includes)
         IN IF ~HasTree(curr) THEN SearchDefinition(rest, accessed, ident)
            ELSE LET root == get_document_cst_root(curr)
                 IN IF rule_from_ident(root, ident) THEN curr
                    ELSE SearchDefinition(
                           rest \o SelectSeq(root.includes, LAMBDA u : u \notin accessed),
                           accessed \cup {curr}, ident)

\* Mutant of find_rule_definition: the first include of a file is followed, no other.
FollowFirst(uri, ident) ==
    LET root == get_document_cst_root(uri)
    IN IF rule_from_ident(root, ident) THEN uri
       ELSE IF root.includes = << >> THEN NotFound
       ELSE SearchDefinition(<<Head(root.includes)>>, {uri}, ident)

find_rule_definition(uri, ident) == SearchDefinition(<<uri>>, {}, ident)

(* The files searched for occurrences. *)
file_entries == IF workspace THEN walk_workspace ELSE DOMAIN opened

\* Mutant of include_cache: only the files that include the definition's are kept.
IncludersOnly(rule_uri) ==
    [v \in Uris |-> {e \in file_entries \ {rule_uri} :
                       HasTree(e) /\ {v, rule_uri} \subseteq Includes(e)}]

(* include_cache : for every file, the searched files that include it; the *)
(* includes of the file that defines the rule are left out.                *)
include_cache(rule_uri) ==
    [v \in Uris |-> {e \in file_entries \ {rule_uri} : HasTree(e) /\ v \in Includes(e)}]

(* The loop over nested includes; the order of to_access is immaterial. *)
RECURSIVE NestedIncluders(_, _, _, _)
NestedIncluders(cache, to_access, accessed, usages) ==
    IF to_access = {} THEN usages
    ELSE LET included_in == CHOOSE u \in to_access : TRUE
             next == cache[included_in] \ accessed
         IN NestedIncluders([cache EXCEPT ![included_in] = {}],
                            (to_access \ {included_in}) \cup next,
                            accessed \cup next, usages \cup next)

(* The files with an occurrence of the rule, its definition aside. *)
find_rule_occurrences(uri, ident) ==
    LET rule_uri == find_rule_definition(uri, ident)
        cache == include_cache(rule_uri)
        first == {e \in file_entries : e = rule_uri \/ e \in cache[rule_uri]}
        files == NestedIncluders([cache EXCEPT ![rule_uri] = {}], cache[rule_uri], {}, first)
    IN {e \in files : HasTree(e) /\ rule_usages(get_document_cst_root(e), ident)}

RECURSIVE CollectRules(_, _, _)
CollectRules(includes, accessed, rules) ==
    IF includes = << >> THEN rules
    ELSE LET included == Last(includes)
             rest == Front(includes)
         IN IF included \in accessed THEN CollectRules(rest, accessed, rules)
            ELSE IF ~HasTree(included)
                 THEN CollectRules(rest, accessed \cup {included}, rules)
            ELSE LET root == get_document_cst_root(included)
                 IN CollectRules(rest \o root.includes, accessed \cup {included},
                                 rules \o [i \in 1..Cardinality(root.rules) |->
                                             <<included, SetToSeq(root.rules)[i]>>])

\* Mutant of included_rules: the document itself counts as accessed.
IncludedRulesButBase(base) == CollectRules(get_document_cst_root(base).includes, {base}, << >>)

included_rules(base) == CollectRules(get_document_cst_root(base).includes, {}, << >>)

-----------------------------------------------------------------------------
(* v is u or is included by u, directly or not, by files in F: it is in    *)
(* every set that has u and is closed under the includes of the files in F. *)
Reaches(u, v, F) ==
    \A S \in SUBSET Uris :
       u \in S /\ (\A w \in S \cap F : HasTree(w) => Includes(w) \subseteq S) => v \in S

Idents(root) == root.rules \cup root.uses

Defines(v, ident) == HasTree(v) /\ rule_from_ident(get_document_cst_root(v), ident)

(* "Go to definition" finds a definition exactly when the document or a    *)
(* file it includes, at any depth, has one, and the document's own first;  *)
(* cycles of includes, missing files and files open with other contents    *)
(* than on disk are no exception.                                          *)
DefinitionIsExact ==
    \A u \in DOMAIN opened : \A ident \in Idents(opened[u].cst) :
       LET found == find_rule_definition(u, ident)
       IN IF found = NotFound
          THEN \A v \in Uris : Reaches(u, v, Uris) => ~Defines(v, ident)
          ELSE /\ Reaches(u, found, Uris) /\ Defines(found, ident)
               /\ Defines(u, ident) => found = u

(* The files with a use of the rule that the file rule_uri defines: files  *)
(* of the workspace (the open documents, without one) that include it, at  *)
(* any depth.  These are the uses that find_rule_occurrences is documented *)
(* to find, all of them (documents/storage.rs:183-186).                    *)
Users(rule_uri, ident) ==
    {e \in file_entries : /\ Reaches(e, rule_uri, file_entries)
                          /\ ident \in get_document_cst_root(e).uses}

(* "Find references" and "rename" see the uses of the rule in no file but  *)
(* its users, and miss exactly the users in which some rule, any of them,  *)
(* has no condition: rule_usages gives up on the whole file at the first   *)
(* such rule (cst_traversal.rs:236-240), so that a rename leaves the old   *)
(* name in a file that is half edited, which its documentation excludes.   *)
OccurrencesAreExact ==
    \A u \in DOMAIN opened : \A ident \in Idents(opened[u].cst) :
       LET rule_uri == find_rule_definition(u, ident)
           found == find_rule_occurrences(u, ident)
       IN rule_uri # NotFound =>
            /\ found \subseteq Users(rule_uri, ident)
            /\ Users(rule_uri, ident) \ found =
                 {e \in Users(rule_uri, ident) : ~get_document_cst_root(e).whole}

(* Completion offers every rule of the files the document includes, at any *)
(* depth, and each of them once.                                           *)
IncludedRulesAreExact ==
    \A u \in DOMAIN opened :
       LET rules == included_rules(u)
           included == {v \in Uris : \E w \in Includes(u) : Reaches(w, v, Uris)}
       IN /\ ToSet(rules) = UNION {{v} \X get_document_cst_root(v).rules :
                                      v \in {w \in included : HasTree(w)}}
          /\ IsInjective(rules)

(* The three searches over included files, in every state, while documents *)
(* are opened, changed and closed and the workspace is reread: definitions *)
(* and included rules are exact, and occurrences are but for the files in  *)
(* which a rule has no condition.                                          *)
SearchesAreExact == DefinitionIsExact /\ OccurrencesAreExact /\ IncludedRulesAreExact
=============================================================================
