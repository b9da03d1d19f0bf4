----------------------------- MODULE MCStateRes -----------------------------
(***************************************************************************)
(* Instances of StateRes for TLC: a room of alice (creator), bob           *)
(* (moderator) and carol, forked into two or three states.  Event ids are  *)
(* numbered so that auth events have smaller numbers.                      *)
(***************************************************************************)
EXTENDS StateResProps

MCServers == [u \in User |-> "one"]

Pl(users) == [DefaultPowerLevels EXCEPT !.users = users]

Ev(id, type, key, sender, content, auth, ts) ==
    [id |-> id, type |-> type, state_key |-> key, sender |-> sender, content |-> content,
     auth_events |-> auth, prev_events |-> IF id = 2 THEN <<1>> ELSE << >>, ts |-> ts]

Mem(m) == [membership |-> m, join_authorised_via |-> None, third_party_invite |-> None]

AliceBob(l, m) == [u \in {"@alice", "@bob"} |-> IF u = "@alice" THEN l ELSE m]

MCEvent ==
    <<Ev(1, Create, "", "@alice",
         [creator |-> "@alice", federate |-> TRUE, room_version_ok |-> TRUE,
          room_server |-> "one"], << >>, 1),
      Ev(2, Member, "@alice", "@alice", Mem("join"), <<1>>, 2),
      Ev(3, PowerLevels, "", "@alice", Pl(AliceBob(100, 50)), <<1, 2>>, 3),
      Ev(4, JoinRules, "", "@alice", [join_rule |-> "public"], <<1, 2, 3>>, 4),
      Ev(5, Member, "@bob", "@bob", Mem("join"), <<1, 3, 4>>, 5),
      \* alice demotes bob, bob promotes carol, alice bans bob
      Ev(6, PowerLevels, "", "@alice", Pl(AliceBob(100, 0)), <<1, 2, 3>>, 20),
      Ev(7, PowerLevels, "", "@bob",
         Pl([u \in {"@alice", "@bob", "@carol"} |-> IF u = "@alice" THEN 100 ELSE 50]),
         <<1, 3, 5>>, 15),
      Ev(8, Member, "@bob", "@alice", Mem("ban"), <<1, 2, 3, 5>>, 25),
      \* topics of bob, just before his ban, and of alice, after her demotion of bob
      Ev(9, "m.room.topic", "", "@bob", [body |-> "b"], <<1, 3, 5>>, 24),
      Ev(10, "m.room.topic", "", "@alice", [body |-> "a"], <<1, 2, 6>>, 22),
      \* a late topic of alice on the old power levels, and alice's new name from
      \* before there were any
      Ev(11, "m.room.topic", "", "@alice", [body |-> "c"], <<1, 2, 3>>, 35),
      Ev(12, Member, "@alice", "@alice", Mem("join"), <<1, 2>>, 3)>>

MCId == 1..12

\* The levels of senders and the timestamps that occur.
MCLevel == {0, 50, 100}
MCAge == {MCEvent[id].ts : id \in MCId}

Base == [k \in {<<Create, "">>, <<Member, "@alice">>, <<JoinRules, "">>} |->
            CASE k[1] = Create -> 1 [] k[1] = Member -> 2 [] OTHER -> 4]

Fork(pl, bob, topic) ==
    LET changes == {<<PowerLevels, "">>, <<Member, "@bob">>}
                       \cup IF topic = 0 THEN {} ELSE {<<"m.room.topic", "">>}
    IN  [k \in DOMAIN Base \cup changes |->
            CASE k = <<PowerLevels, "">> -> pl
              [] k = <<Member, "@bob">> -> bob
              [] k = <<"m.room.topic", "">> -> topic
              [] OTHER -> Base[k]]

\* Forks are numbered so that pairs can be taken without their order.
ForkNo(i) == Fork(<<3, 6, 7>>[(i % 3) + 1], <<5, 8>>[((i \div 3) % 2) + 1],
                  <<9, 10, 11>>[(i \div 6) + 1])

\* Every pair of two forks.
MCPairs == {<<ForkNo(p[1]), ForkNo(p[2])>> : p \in {q \in (0..17) \X (0..17) : q[1] < q[2]}}

\* A few forks in which everything is in conflict, three of them once, one
\* in which bob keeps his level until his ban, one in which the topic alone is
\* in conflict and one in which alice's name is.
MCFew == {<<Fork(6, 5, 10), Fork(7, 8, 9)>>,
          <<Fork(3, 8, 9), Fork(6, 5, 0)>>,
          <<Fork(7, 5, 9), Fork(3, 5, 10), Fork(6, 8, 0)>>,
          <<Fork(3, 8, 9), Fork(3, 5, 0)>>,
          <<Fork(3, 5, 9), Fork(3, 5, 10)>>,
          <<[Fork(7, 5, 9) EXCEPT ![<<Member, "@alice">>] = 12], Fork(6, 5, 0)>>}

Whole == [held |-> Id, known |-> Id]

\* One event missing, or known and not to be had.
MCLossyStores == {[held |-> Id \ {x}, known |-> k] : x \in Id, k \in {Id, Id \ {1}, Id \ {3}, Id \ {7}}}
MCLossy == {s \in MCLossyStores : s.held \subseteq s.known}

\* All that may be late is.
MCLate == [held |-> Id \ Late, known |-> Id \ Late]

Scenario(v, forks, stores) == [version |-> v, state_sets |-> forks, stores |-> stores]

MCScenarios ==
    {Scenario(6, MCPairs \cup MCFew, {Whole}),
     Scenario(11, MCFew, MCLossy \cup {MCLate}),
     Scenario(12, MCFew, {Whole, MCLate})}
=============================================================================
