-------------------------- MODULE MCLanguageServer ---------------------------
(* Three files; texts in which a rule r is defined, used, or reached       *)
(* through includes that nest, that form a cycle and that name a file      *)
(* which is not there.                                                     *)
EXTENDS RuleSearch

Tree(includes, rules, uses, whole) ==
    [includes |-> includes, rules |-> rules, uses |-> uses, whole |-> whole]

MCUris == {"a", "b", "c"}

MCCST ==
    [def  |-> Tree(<< >>, {"r"}, {}, TRUE),
     top  |-> Tree(<<"b">>, {"s"}, {"r"}, TRUE),
     loop |-> Tree(<<"a", "c">>, {}, {"r"}, TRUE),
     mid  |-> Tree(<<"c", "b">>, {"r", "q"}, {"r"}, TRUE),
     half |-> Tree(<<"c">>, {"h"}, {"r"}, FALSE)]

MCTexts == DOMAIN MCCST

MCDisks == {[a |-> "top", b |-> "loop", c |-> "def"],
            [a |-> "top", b |-> "half", c |-> "def"]}

Client(pushed, dynamic, files, requests, folder, options) ==
    [caps |-> [should_send_diagnostics |-> pushed,
               dynamic_registration_config_change |-> dynamic,
               dynamic_registration_watched_files |-> files,
               support_config_requests |-> requests],
     folder |-> folder, options |-> options]

MCClients == {Client(TRUE, TRUE, TRUE, TRUE, TRUE, TRUE),
              Client(TRUE, FALSE, FALSE, TRUE, FALSE, FALSE),
              Client(FALSE, FALSE, TRUE, FALSE, TRUE, TRUE)}

(* An editor that watches no files: the cache has closed documents only. *)
MCUnwatched == {Client(TRUE, FALSE, FALSE, TRUE, FALSE, TRUE)}
=============================================================================
