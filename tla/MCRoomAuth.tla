----------------------------- MODULE MCRoomAuth -----------------------------
(***************************************************************************)
(* Instances of RoomAuth for TLC: three users on two servers, a handful of *)
(* power levels contents.                                                  *)
(***************************************************************************)
EXTENDS RoomAuth

MCServers == [u \in User |-> IF u = "@alice" THEN "one" ELSE "two"]

Content(users, changes) ==
    [DefaultPowerLevels EXCEPT
        !.users = users,
        !.users_default = changes.users_default,
        !.ban = changes.ban,
        !.kick = changes.kick,
        !.invite = changes.invite,
        !.form = changes.form]

Usual == [users_default |-> 10, ban |-> 45, kick |-> 40, invite |-> 5, form |-> "ints"]

Alice(l) == [u \in {"@alice"} |-> l]
AliceBob(l, m) == [u \in {"@alice", "@bob"} |-> IF u = "@alice" THEN l ELSE m]

\* Levels that have no default value: every comparison is made.
MCPowerContents ==
    {Content(AliceBob(100, 50), Usual),
     Content(AliceBob(100, 100), Usual),
     Content(AliceBob(40, 50), Usual),
     Content(AliceBob(100, 150), Usual),
     Content(Alice(100), [Usual EXCEPT !.users_default = 60]),
     Content(AliceBob(100, 50), [Usual EXCEPT !.form = "strings"]),
     Content(AliceBob(100, 50), [Usual EXCEPT !.form = "bad"])}

\* Levels at their defaults: ban, kick, redact and state_default 50, the rest 0.
MCDefaultContents ==
    {[DefaultPowerLevels EXCEPT !.users = AliceBob(100, 50)],
     [DefaultPowerLevels EXCEPT !.users = AliceBob(100, 50), !.users_default = 150]}

\* One ordinary content.
MCPlainContents == {[DefaultPowerLevels EXCEPT !.users = AliceBob(100, 50)]}

\* Third party invites are tried in version 3, and in version 5, where levels are
\* the defaults, with two tokens, of which the hash map picks one; alias events in
\* version 4.
MCPower ==
    [v \in Versions |-> CASE v \in {3, 4} -> MCPlainContents
                         [] v = 5 -> {}
                         [] OTHER -> MCPowerContents]
MCRules ==
    [v \in Versions |-> CASE v <= 5 -> {}
                         [] v = 6  -> {"public", "restricted"}
                         [] v = 11 -> {"public", "knock", "restricted", "knock_restricted"}]
MCTokens == [v \in Versions |-> CASE v = 3 -> {"t1"} [] v = 5 -> {"t1", "t2"} [] OTHER -> {}]
MCStateTypes == [v \in Versions |-> IF v = 4 THEN {"m.room.aliases"} ELSE {}]

MCDefaultPower == [v \in Versions |-> MCDefaultContents]
MCNone == [v \in Versions |-> {}]
=============================================================================
