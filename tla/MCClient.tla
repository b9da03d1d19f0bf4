------------------------------ MODULE MCClient ------------------------------
(* Small instances of Client: endpoints on both sides of every comparison. *)
EXTENDS Client, TLC

At(version, path) == [version |-> version, path |-> path]

History(unstable_paths, stable_paths, deprecated, removed) ==
    [unstable_paths |-> unstable_paths, stable_paths |-> stable_paths,
     deprecated |-> deprecated, removed |-> removed]

Of(authentication, history) == [authentication |-> authentication, history |-> history]

MCEndpoint ==
    [versions |-> Of("AccessTokenOptional", History(<<>>, <<At(0, "versions")>>, {}, {})),
     login    |-> Of("None", History(<<>>, <<At(0, "r0"), At(1, "v3")>>, {}, {})),
     register |-> Of("None", History(<<>>, <<At(0, "r0"), At(1, "v3")>>, {}, {})),
     sync     |-> Of("AccessToken", History(<<>>, <<At(0, "r0"), At(1, "v3")>>, {}, {})),
     rare     |-> Of("AppserviceToken",
                     History(<<"u1", "u2">>, <<At(1, "s1"), At(2, "s2")>>, {3}, {4}))]

MCOthers == {"rare"}

MCRanges == {2..4, 4..5}

MCTold == {0..0}
=============================================================================
