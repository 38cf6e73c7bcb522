---------------------------- MODULE MCGitBackfill ----------------------------
(***************************************************************************)
(* Instances of GitBackfill for TLC: a public repository with two branches *)
(* that share commits and a tag between them, one without references, a    *)
(* private one that is configured, and a private one that is not.          *)
(***************************************************************************)
EXTENDS GitBackfill

MCListing == <<"lib", "notes", "empty", "secret">>
MCReferences == [lib    |-> <<"main", "v1", "next">>,
                 notes  |-> <<"tag">>,
                 empty  |-> <<>>,
                 secret |-> <<"draft">>,
                 conf   |-> <<"trunk">>]
MCWorld == [main |-> <<1, 2, 3>>, next |-> <<1, 2, 4, 5>>, draft |-> <<6>>, trunk |-> <<7, 8>>]

\* Commit 4 is in the window longer than commit 5, which is later in the log.
MCAuthorTime == <<0, 1, 2, 2, 1, 2, 1, 2, 1>>
=============================================================================
