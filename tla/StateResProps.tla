--------------------------- MODULE StateResProps ---------------------------
(***************************************************************************)
(* What state resolution must achieve, and a reference definition of the   *)
(* state it resolves to: version 2 of the algorithm as the Matrix          *)
(* specification defines it, over sets and orders, without loops, except   *)
(* for what RefState takes over from the code.                             *)
(***************************************************************************)
EXTENDS StateRes

\* Type invariant of resolve.
ResTypeOK ==
    /\ pc \in {"separate", "exists", "control", "graph", "levels", "sort", "auth", "mainline",
               "depth", "extend", "done", "err"}
    /\ todo \subseteq Id /\ all_conflicted \subseteq known /\ control_events \subseteq all_conflicted
    /\ DOMAIN graph \subseteq all_conflicted
    /\ \A e \in DOMAIN graph : graph[e] \subseteq all_conflicted
    /\ Elements(sorted) \subseteq DOMAIN graph
    /\ \A k \in DOMAIN resolved_state :
          k = KeyOf(resolved_state[k])
    /\ DOMAIN order_map \subseteq all_conflicted

-----------------------------------------------------------------------------
(* The reference. *)

FullConflictedSet == known \cap (AuthChainDiff \cup Conflicting)

AuthWithin(id) == IF id \in held THEN AuthEvents(id) \cap FullConflictedSet ELSE {}

\* The power events of the full conflicted set with what they rest on in it.
RefControl ==
    LET Below[id \in Id] == {id} \cup UNION {Below[a] : a \in AuthWithin(id)}
    IN  UNION {Below[c] : c \in {x \in FullConflictedSet \cap held : is_power_event(event[x])}}

\* Each event after what it rests on and, of those that may come next, the one
\* with the least key.
RefSorted(control) ==
    LET refGraph == [e \in control |-> AuthWithin(e)]
        refKeys  == [e \in control |-> [power_level |-> get_power_level_for_sender(e),
                                        age |-> event[e].ts]]
        F[i \in 0..Cardinality(control)] ==
            IF i = 0 THEN << >>
            ELSE LET before == F[i - 1]
                     ready  == Ready(refGraph, Elements(before))
                 IN  Append(before, CHOOSE e \in ready : IsNext(refKeys, ready, e))
    IN  F[Cardinality(control)]

RefAuth(list, start) ==
    LET F[i \in 0..Len(list)] ==
            IF i = 0 THEN start
            ELSE LET ev  == event[list[i]]
                     key == <<ev.type, ev.state_key>>
                     so_far == F[i - 1]
                 IN  IF auth_check(RoomVersion(version), ev, {}, AuthMap(list[i], so_far))
                            = "allow"
                     THEN [k \in DOMAIN so_far \cup {key} |->
                              IF k = key THEN list[i] ELSE so_far[k]]
                     ELSE so_far
    IN  F[Len(list)]

\* The power levels events from id down.
PowerLine[id \in Id] ==
    (IF IsPowerLevels(id) THEN {id} ELSE {})
        \cup UNION {PowerLine[p] : p \in PreviousPowerLevels(id)}

\* The result of a resolution with a complete store.  Two choices are the code's
\* own and are not judged: the level of a sender (get_power_level_for_sender) and
\* that an event which meets no power levels event of the line counts as if it met
\* the oldest one (depth 0; the specification puts such events before all others).
RefState ==
    LET control == RefControl
        controlState == RefAuth(RefSorted(control), clean)
        line   == UNION {PowerLine[p] : p \in Get(controlState, <<PowerLevels, "">>)}
        left   == FullConflictedSet \ control
        \* a place on the line counts the power levels events below it
        Depth(e) == LET met == PowerLine[e] \cap line
                    IN  IF met = {} THEN 0 ELSE Cardinality(met) - 1
        depths == [e \in left |-> Depth(e)]
    IN  Overlay(RefAuth(SortedLeft(depths), controlState), clean, DOMAIN clean)

\* Resolution is a function of the forks: with a complete store the result is
\* the reference state, whatever order the hash maps, the streams and the
\* state sets were gone through in.
ResolvesToReference ==
    /\ ResTypeOK
    /\ pc = "done" /\ missing = {} /\ Conflicting # {} => resolved_state = RefState

-----------------------------------------------------------------------------
(* Properties of every resolution, complete store or not. *)

\* What the forks agree on is in the result unchanged, even where an event of
\* the auth difference for the same key passed its check.
UnconflictedKept ==
    pc = "done" => /\ DOMAIN clean \subseteq DOMAIN resolved_state
                   /\ \A k \in DOMAIN clean : resolved_state[k] = clean[k]

\* Does what an event may do rest on its sender's membership?  Not for creates,
\* for aliases up to version 5 and for invites on a third party's token.
BoundByMembership(ev) ==
    /\ ev.type # Create
    /\ ev.type = Aliases => ~ RoomVersion(version).special_case_aliases_auth
    /\ ev.type = Member /\ ev.content.membership = "invite" => ev.content.third_party_invite = None

\* The forks agree on the event for a key and no other one for it is checked.
Undisputed(key) == \A e \in all_conflicted : KeyOf(e) = key => e = clean[key]

\* Is `ban` the user's ban for as long as the second iterative_auth_check runs?
\* It is if the store had it when resolve was called and it is either a
\* conflicted ban by somebody else, so that it is a control event, or the
\* undisputed member event of the user.
StandingBan(user, ban) ==
    LET key == <<Member, user>> IN
    /\ KeyOf(ban) = key /\ event[ban].content.membership = "ban" /\ ban \notin missing
    /\ IF key \in DOMAIN clean THEN clean[key] = ban /\ Undisputed(key)
       ELSE event[ban].sender # user

\* What the resolved state has of a user with a standing ban, apart from what
\* the forks agree on and from the control events, does not rest on membership.
BannedLose ==
    \A user \in User, k \in DOMAIN resolved_state \ DOMAIN clean :
        /\ <<Member, user>> \in DOMAIN resolved_state
        /\ StandingBan(user, resolved_state[<<Member, user>>])
        /\ resolved_state[k] \in Remaining
        /\ BoundByMembership(event[resolved_state[k]])
        => event[resolved_state[k]].sender # user

\* A user whose ban is in the result keeps none of the state they set on a fork
\* outside the control events, whatever else the store lacked and received
\* meanwhile: the ban is resolved before it.
BannedSenderLoses == pc = "done" => BannedLose

\* No event of the full conflicted set is left unchecked unless it, or an event
\* of its auth chain, was not in the store when resolve was called:
\* mainline_sort drops nothing else.
DroppedOnlyIfLost ==
    pc = "done" =>
        \A id \in Remaining \ DOMAIN order_map : ({id} \cup AuthChain[id]) \cap missing # {}

\* resolve fails only for a room version it does not know or if the store
\* lacked an event of the forks or of their auth chains: with those and readable
\* power levels there is always a result.
FailsOnlyIfLost ==
    pc = "err" =>
        \/ version \notin 1..11
        \/ \E i \in Sets : ({state_sets[i][k] : k \in DOMAIN state_sets[i]} \cup ChainOf(state_sets[i])) \cap missing # {}

\* resolve returns.
Resolves == <>(pc \in {"done", "err"})
=============================================================================
