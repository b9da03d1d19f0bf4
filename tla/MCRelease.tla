----------------------------- MODULE MCRelease -----------------------------
(* Small instances of Release. *)
EXTENDS Release, TLC

V(minor, patch, pre) == [major |-> 1, minor |-> minor, patch |-> patch, pre |-> pre]

Version_1_0_1 == V(0, 1, <<>>)
Version_1_1_alpha == V(1, 0, <<"alpha", 1>>)
Version_1_1 == V(1, 0, <<>>)

MCVersions == {Version_1_1_alpha, Version_1_1}

Top(for) == [for |-> for, open |-> TRUE, notes |-> {}]

Old == [for |-> {Version_1_0_1}, open |-> FALSE, notes |-> {}]

MCInitial == {[version |-> Version_1_0_1, log |-> <<Top({Version_1_1}), Old>>],
              [version |-> V(1, 0, <<"alpha", 255>>), log |-> <<Top({}), Old>>]}

MCManifests == [ruma |-> {"m1", "m2"}] @@ ("ruma-macros" :> {"workspace"})
=============================================================================
