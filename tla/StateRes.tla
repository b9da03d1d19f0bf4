------------------------------ MODULE StateRes ------------------------------
(***************************************************************************)
(* State resolution, version 2: resolve of ruma-state-res/src/lib.rs and   *)
(* the functions it calls.  Two servers that resolve the same forks must   *)
(* get the same state, whatever order their hash maps iterate in and       *)
(* whatever their stores do meanwhile.                                     *)
(*                                                                         *)
(* Every loop body that awaits the store is a step of its own; loops over  *)
(* hash maps and hash sets take their elements in any order.  The topo-    *)
(* logical sort appears as its abstract specification, TopoOrder, which    *)
(* TopoSort implements.  The store (external: the two closures resolve is  *)
(* given) fetches the events in `held`, says of those in `known` that they *)
(* exist, and may receive the events of Late while resolve runs.           *)
(***************************************************************************)
EXTENDS EventAuth, EventOrder, Lists, FiniteSets

CONSTANTS event,      \* id |-> event, every event there is
          Scenarios,  \* records of a room version (12 is not supported), a set of
                      \* sequences of state maps (key |-> id) to resolve, and a
                      \* set of stores, what is held and what is known in each
          Late        \* events that may arrive during the resolution

VARIABLES version, state_sets,
          missing,        \* ghost: what the store lacked when resolve was called
          held, known,
          pc,             \* the stage resolve is in
          todo,           \* what the stage's loop has not taken yet
          all_conflicted, control_events,
          graph, stack,   \* add_event_and_auth_chain_to_graph
          event_to_pl,
          sorted,         \* sorted_control_levels
          queue,          \* what iterative_auth_check has to check yet
          auth_events,    \* Option: the state map gathered for its first event
          second,         \* in the second iterative_auth_check
          resolved_state,
          mainline,
          cursor,         \* Option: where a walk down the power levels is
          walked,         \* Option: the event whose depth is being found
          order_map       \* event |-> mainline depth

inputVars == <<version, state_sets, missing>>
storeVars == <<held, known>>
sortVars  == <<all_conflicted, control_events, graph, stack, event_to_pl, sorted>>
authVars  == <<queue, auth_events, second, resolved_state>>
lineVars  == <<mainline, cursor, walked, order_map>>
resVars   == <<inputVars, storeVars, pc, todo, sortVars, authVars, lineVars>>

-----------------------------------------------------------------------------
(* Helpers of resolve. *)

AuthEvents(id) == {event[id].auth_events[i] : i \in DOMAIN event[id].auth_events}

\* A set that has the auth events of all its events.
AuthClosed(set) == \A x \in set : AuthEvents(x) \subseteq set

\* The auth chain of an event, its auth events, theirs and so on; callers of
\* resolve hand it in.
AuthChain ==
    [id \in Id |->
        LET chains == {set \in SUBSET Id : AuthEvents(id) \subseteq set /\ AuthClosed(set)}
        IN  {a \in Id : \A set \in chains : a \in set}]

ChainOf(set) == UNION {AuthChain[set[k]] : k \in DOMAIN set}

Sets == DOMAIN state_sets

StateKeys == UNION {DOMAIN state_sets[i] : i \in Sets}

\* separate: a key is conflicted unless every set has the same event for it.
IsConflicted(k) == \E i, j \in Sets : Get(state_sets[i], k) # Get(state_sets[j], k)

clean == [k \in {x \in StateKeys : ~ IsConflicted(x)} |->
             state_sets[CHOOSE i \in Sets : TRUE][k]]

Conflicting ==
    UNION {Get(state_sets[i], k) : i \in Sets, k \in {x \in StateKeys : IsConflicted(x)}}

\* get_auth_chain_diff: in some chain and not in all.
AuthChainDiff ==
    {id \in Id : /\ \E i \in Sets : id \in ChainOf(state_sets[i])
                 /\ \E i \in Sets : id \notin ChainOf(state_sets[i])}

is_power_event(ev) ==
    \/ ev.type \in {PowerLevels, JoinRules, Create} /\ ev.state_key = ""
    \/ /\ ev.type = Member
       /\ ev.content.membership \in {"leave", "ban"}
       /\ ev.sender # ev.state_key

IsPowerLevels(id) == event[id].type = PowerLevels /\ event[id].state_key = ""

Least(S) == CHOOSE i \in S : \A j \in S : i <= j

\* Positions of an event's auth events that can be fetched and are power levels.
PowerLevelsAt(id) ==
    {i \in DOMAIN event[id].auth_events :
        event[id].auth_events[i] \in held /\ IsPowerLevels(event[id].auth_events[i])}

\* The walk of mainline_sort and get_mainline_depth: the first power levels
\* event in auth_events, if any ...
PreviousPowerLevels(id) ==
    IF PowerLevelsAt(id) = {} THEN {} ELSE {event[id].auth_events[Least(PowerLevelsAt(id))]}

\* ... and an error if an auth event looked at before it is not in the store.
WalkLost(id) ==
    \E i \in DOMAIN event[id].auth_events :
        /\ event[id].auth_events[i] \notin held
        /\ \A j \in PowerLevelsAt(id) : i < j

\* get_power_level_for_sender: events it cannot fetch are passed over.
SenderPowerLevels(id) == IF id \in held THEN PreviousPowerLevels(id) ELSE {}

get_power_level_for_sender(id) ==
    IF SenderPowerLevels(id) = {} THEN 0
    ELSE UserLevel(event[CHOOSE p \in SenderPowerLevels(id) : TRUE].content, event[id].sender)

KeyOf(id) == <<event[id].type, event[id].state_key>>

\* Events refer to events, state maps have them under their own keys, and a
\* store knows of what it holds.
ASSUME ResAssumption ==
    /\ IsFiniteSet(Id)
    /\ \A id \in Id : event[id].auth_events \in Seq(Id) /\ event[id].ts \in Age
    /\ 0 \in Level
    /\ \A p, id \in Id :
          IsPowerLevels(p) => UserLevel(event[p].content, event[id].sender) \in Level
    /\ \A scenario \in Scenarios :
          /\ \A sets \in scenario.state_sets : \A i \in DOMAIN sets : \A k \in DOMAIN sets[i] :
                sets[i][k] \in Id /\ k = KeyOf(sets[i][k])
          /\ \A s \in scenario.stores : s.held \subseteq s.known /\ s.known \subseteq Id

-----------------------------------------------------------------------------
ResInit ==
    /\ \E scenario \in Scenarios :
          /\ version = scenario.version
          /\ state_sets \in scenario.state_sets
          /\ \E s \in scenario.stores : held = s.held /\ known = s.known
    /\ missing = Id \ held
    /\ pc = "separate"
    /\ todo = {} /\ all_conflicted = {} /\ control_events = {}
    /\ graph = << >> /\ stack = << >> /\ event_to_pl = << >> /\ sorted = << >>
    /\ queue = << >> /\ auth_events = {} /\ second = FALSE /\ resolved_state = << >>
    /\ mainline = << >> /\ cursor = {} /\ walked = {} /\ order_map = << >>

\* An event reaches the store.
Arrive(id) ==
    /\ pc \notin {"done", "err"}
    /\ id \in Late \ held
    /\ held' = held \cup {id}
    /\ known' = known \cup {id}
    /\ UNCHANGED <<inputVars, pc, todo, sortVars, authVars, lineVars>>

\* The end of a loop: the next stage and what it iterates over.
Advance(stage, over) ==
    pc' = stage /\ todo' = over /\ UNCHANGED <<inputVars, storeVars>>

\* Taking an element of a loop.
Take(stage, id) ==
    /\ pc = stage
    /\ id \in todo
    /\ todo' = todo \ {id}
    /\ UNCHANGED <<inputVars, storeVars>>

\* Without conflicts the clean state is the result.
Separate ==
    /\ pc = "separate"
    /\ IF Conflicting = {}
       THEN Advance("done", {}) /\ resolved_state' = clean
       ELSE Advance("exists", AuthChainDiff \cup Conflicting) /\ UNCHANGED resolved_state
    /\ UNCHANGED <<sortVars, queue, auth_events, second, lineVars>>

Exists(id) ==
    /\ Take("exists", id)
    /\ all_conflicted' = IF id \in known THEN all_conflicted \cup {id} ELSE all_conflicted
    /\ UNCHANGED <<pc, control_events, graph, stack, event_to_pl, sorted, authVars, lineVars>>

ExistsDone ==
    /\ pc = "exists" /\ todo = {}
    /\ Advance("control", all_conflicted)
    /\ UNCHANGED <<sortVars, authVars, lineVars>>

\* is_power_event_id
Control(id) ==
    /\ Take("control", id)
    /\ control_events' = IF id \in held /\ is_power_event(event[id])
                         THEN control_events \cup {id} ELSE control_events
    /\ UNCHANGED <<pc, all_conflicted, graph, stack, event_to_pl, sorted, authVars, lineVars>>

ControlDone ==
    /\ pc = "control" /\ todo = {}
    /\ Advance("graph", control_events)
    /\ UNCHANGED <<sortVars, authVars, lineVars>>

\* reverse_topological_power_sort: the next event to put in the graph ...
GraphRoot(id) ==
    /\ stack = << >>
    /\ Take("graph", id)
    /\ stack' = <<id>>
    /\ UNCHANGED <<pc, all_conflicted, control_events, graph, event_to_pl, sorted, authVars,
                   lineVars>>

\* ... and one iteration of add_event_and_auth_chain_to_graph's loop.
GraphStep ==
    /\ pc = "graph" /\ stack # << >>
    /\ LET eid == stack[Len(stack)]
           rest == SubSeq(stack, 1, Len(stack) - 1)
           aids == IF eid \in held THEN event[eid].auth_events ELSE << >>
           new == all_conflicted \ (DOMAIN graph \cup {eid})
           edges == Get(graph, eid)
       IN  /\ stack' = rest \o retain(aids, new)
           /\ graph' = [e \in DOMAIN graph \cup {eid} |->
                           IF e = eid THEN (UNION edges) \cup (Elements(aids) \cap all_conflicted)
                           ELSE graph[e]]
    /\ UNCHANGED <<inputVars, storeVars, pc, todo, all_conflicted, control_events, event_to_pl,
                   sorted, authVars, lineVars>>

GraphDone ==
    /\ pc = "graph" /\ todo = {} /\ stack = << >>
    /\ Advance("levels", DOMAIN graph)
    /\ UNCHANGED <<sortVars, authVars, lineVars>>

Levels(id) ==
    /\ Take("levels", id)
    /\ IF \E p \in SenderPowerLevels(id) : ~ ParsesLeniently(event[p].content)
       THEN pc' = "err" /\ UNCHANGED event_to_pl
       ELSE /\ event_to_pl' = [e \in DOMAIN event_to_pl \cup {id} |->
                                 IF e = id THEN get_power_level_for_sender(id)
                                 ELSE event_to_pl[e]]
            /\ UNCHANGED pc
    /\ UNCHANGED <<all_conflicted, control_events, graph, stack, sorted, authVars, lineVars>>

LevelsDone ==
    /\ pc = "levels" /\ todo = {}
    /\ Advance("sort", {})
    /\ UNCHANGED <<sortVars, authVars, lineVars>>

-----------------------------------------------------------------------------
(* lexicographical_topological_sort, as TopoOrder specifies it. *)

key_fn ==
    [id \in DOMAIN graph |->
        IF id \in held THEN [power_level |-> event_to_pl[id], age |-> event[id].ts]
        ELSE NotFound]

NextReady == Ready(graph, Elements(sorted))

SortEmit ==
    /\ pc = "sort"
    /\ \A id \in NextReady : key_fn[id] # NotFound
    /\ \E id \in NextReady :
          IsNext(key_fn, NextReady, id) /\ sorted' = Append(sorted, id)
    /\ UNCHANGED <<inputVars, storeVars, pc, todo, all_conflicted, control_events, graph, stack,
                   event_to_pl, authVars, lineVars>>

SortFail ==
    /\ pc = "sort"
    /\ \E id \in NextReady : key_fn[id] = NotFound
    /\ Advance("err", {})
    /\ UNCHANGED <<sortVars, authVars, lineVars>>

\* Bug: the newest supported version is not matched.
SortDoneTo10 ==
    /\ pc = "sort"
    /\ NextReady = {}
    /\ IF version \in 1..10
       THEN Advance("auth", {}) /\ queue' = sorted /\ resolved_state' = clean
       ELSE Advance("err", {}) /\ UNCHANGED <<queue, resolved_state>>
    /\ UNCHANGED <<sortVars, auth_events, second, lineVars>>

\* The room version is looked up, the first iterative_auth_check starts.
SortDone ==
    /\ pc = "sort"
    /\ NextReady = {}
    /\ IF version \in 1..11
       THEN Advance("auth", {}) /\ queue' = sorted /\ resolved_state' = clean
       ELSE Advance("err", {}) /\ UNCHANGED <<queue, resolved_state>>
    /\ UNCHANGED <<sortVars, auth_events, second, lineVars>>

-----------------------------------------------------------------------------
(* iterative_auth_check. *)

\* An event's own auth events: of two with one key, the later in the list.
OwnMap(id) ==
    LET aids == event[id].auth_events
        at == {i \in DOMAIN aids : aids[i] \in held}
        KeyAt(i) == KeyOf(aids[i])
    IN  [k \in {KeyAt(i) : i \in at} |->
            event[aids[CHOOSE i \in at : KeyAt(i) = k /\ \A j \in at : KeyAt(j) = k => j <= i]]]

Fetched(resolved) == [k \in {x \in DOMAIN resolved : resolved[x] \in held} |-> event[resolved[k]]]

\* Bug: an event is checked against its own auth events only.
AuthMapOwn(id, resolved) == OwnMap(id)

AuthMap(id, resolved) == Overlay(OwnMap(id), Fetched(resolved), auth_types_for_event(event[id]))

\* Events the loop cannot even check.
Malformed(id) ==
    \/ id \notin held
    \/ event[id].state_key = NoKey
    \/ \E a \in AuthEvents(id) \cap held : event[a].state_key = NoKey

\* The first event of the queue: what it is checked against is gathered ...
AuthGather ==
    /\ pc = "auth" /\ queue # << >> /\ auth_events = {}
    /\ IF Malformed(Head(queue))
       THEN pc' = "err" /\ UNCHANGED auth_events
       ELSE auth_events' = {AuthMap(Head(queue), resolved_state)} /\ UNCHANGED pc
    /\ UNCHANGED <<inputVars, storeVars, todo, sortVars, queue, second, resolved_state, lineVars>>

\* ... and it is kept if it passes.
AuthStep ==
    /\ pc = "auth"
    /\ \E against \in auth_events :
       \E current \in ThirdPartyInvites(against) :
          LET id == Head(queue)
              key == KeyOf(id)
              verdict == auth_check(RoomVersion(version), event[id], current, against)
          IN  /\ pc' = IF verdict = "err" THEN "err" ELSE pc
              /\ resolved_state' =
                   IF verdict = "allow"
                   THEN [k \in DOMAIN resolved_state \cup {key} |->
                            IF k = key THEN id ELSE resolved_state[k]]
                   ELSE resolved_state
    /\ queue' = Tail(queue)
    /\ auth_events' = {}
    /\ UNCHANGED <<inputVars, storeVars, todo, sortVars, second, lineVars>>

Remaining == all_conflicted \ Elements(sorted)

\* The control events are resolved: mainline_sort starts, unless nothing is left.
ControlResolved ==
    /\ pc = "auth" /\ queue = << >> /\ ~ second
    /\ IF Remaining = {}
       THEN Advance("extend", {}) /\ UNCHANGED cursor
       ELSE Advance("mainline", {}) /\ cursor' = Get(resolved_state, <<PowerLevels, "">>)
    /\ UNCHANGED <<sortVars, authVars, mainline, walked, order_map>>

-----------------------------------------------------------------------------
(* mainline_sort. *)

MainlineStep ==
    /\ pc = "mainline"
    /\ \E p \in cursor :
          /\ mainline' = Append(mainline, p)
          /\ IF p \notin held \/ WalkLost(p)
             THEN pc' = "err" /\ UNCHANGED cursor
             ELSE cursor' = PreviousPowerLevels(p) /\ UNCHANGED pc
    /\ UNCHANGED <<inputVars, storeVars, todo, sortVars, authVars, walked, order_map>>

MainlineDone ==
    /\ pc = "mainline" /\ cursor = {}
    /\ Advance("depth", Remaining)
    /\ UNCHANGED <<sortVars, authVars, lineVars>>

\* The next event whose depth is wanted; one that cannot be fetched is dropped.
DepthStart(id) ==
    /\ walked = {}
    /\ Take("depth", id)
    /\ walked' = {id} \cap held /\ cursor' = {id} \cap held
    /\ UNCHANGED <<pc, sortVars, authVars, mainline, order_map>>

\* Bug: depths counted from the other end, as the comment above mainline_sort has it.
DepthFromNewest(p) == (CHOOSE i \in DOMAIN mainline : mainline[i] = p) - 1

\* mainline_map: the oldest power levels event has depth 0.
MainlineDepth(p) == Len(mainline) - CHOOSE i \in DOMAIN mainline : mainline[i] = p

Record(depth) ==
    order_map' = [e \in DOMAIN order_map \cup walked |->
                     IF e \in walked THEN depth ELSE order_map[e]]

\* Bug: an event without power levels in its past has no depth.
DepthNoDefault ==
    /\ pc = "depth"
    /\ \E c \in cursor :
          \/ /\ c \in Elements(mainline)
             /\ Record(MainlineDepth(c)) /\ cursor' = {} /\ walked' = {}
          \/ /\ c \notin Elements(mainline) /\ ~ WalkLost(c) /\ PreviousPowerLevels(c) = {}
             /\ UNCHANGED order_map /\ cursor' = {} /\ walked' = {}
          \/ /\ c \notin Elements(mainline) /\ WalkLost(c)
             /\ cursor' = {} /\ walked' = {} /\ UNCHANGED order_map
          \/ /\ c \notin Elements(mainline) /\ ~ WalkLost(c) /\ PreviousPowerLevels(c) # {}
             /\ cursor' = PreviousPowerLevels(c) /\ UNCHANGED <<walked, order_map>>
    /\ UNCHANGED <<inputVars, storeVars, pc, todo, sortVars, authVars, mainline>>

\* Bug: the walk does not move on.
DepthStays ==
    /\ pc = "depth"
    /\ \E c \in cursor :
          \/ /\ c \in Elements(mainline)
             /\ Record(MainlineDepth(c)) /\ cursor' = {} /\ walked' = {}
          \/ /\ c \notin Elements(mainline) /\ ~ WalkLost(c) /\ PreviousPowerLevels(c) = {}
             /\ Record(0) /\ cursor' = {} /\ walked' = {}
          \/ /\ c \notin Elements(mainline) /\ WalkLost(c)
             /\ cursor' = {} /\ walked' = {} /\ UNCHANGED order_map
          \/ /\ c \notin Elements(mainline) /\ ~ WalkLost(c) /\ PreviousPowerLevels(c) # {}
             /\ cursor' = cursor /\ UNCHANGED <<walked, order_map>>
    /\ UNCHANGED <<inputVars, storeVars, pc, todo, sortVars, authVars, mainline>>

\* One iteration of get_mainline_depth.
DepthStep ==
    /\ pc = "depth"
    /\ \E c \in cursor :
          \/ /\ c \in Elements(mainline)
             /\ Record(MainlineDepth(c)) /\ cursor' = {} /\ walked' = {}
          \/ /\ c \notin Elements(mainline) /\ ~ WalkLost(c) /\ PreviousPowerLevels(c) = {}
             /\ Record(0) /\ cursor' = {} /\ walked' = {}
          \/ /\ c \notin Elements(mainline) /\ WalkLost(c)
             /\ cursor' = {} /\ walked' = {} /\ UNCHANGED order_map
          \/ /\ c \notin Elements(mainline) /\ ~ WalkLost(c) /\ PreviousPowerLevels(c) # {}
             /\ cursor' = PreviousPowerLevels(c) /\ UNCHANGED <<walked, order_map>>
    /\ UNCHANGED <<inputVars, storeVars, pc, todo, sortVars, authVars, mainline>>

\* sort_by_key (depth, origin_server_ts, event id).
LeftBefore(depths, a, b) ==
    \/ depths[a] < depths[b]
    \/ /\ depths[a] = depths[b]
       /\ \/ event[a].ts < event[b].ts
          \/ event[a].ts = event[b].ts /\ a < b

SortedLeft(depths) ==
    LET Rank(a) == Cardinality({b \in DOMAIN depths : LeftBefore(depths, b, a)}) + 1
    IN  [i \in 1..Cardinality(DOMAIN depths) |-> CHOOSE a \in DOMAIN depths : Rank(a) = i]

\* The second iterative_auth_check goes on from the state of the first.
DepthDone ==
    /\ pc = "depth" /\ todo = {} /\ walked = {}
    /\ Advance("auth", {})
    /\ queue' = SortedLeft(order_map)
    /\ second' = TRUE
    /\ UNCHANGED <<sortVars, auth_events, resolved_state, lineVars>>

LeftResolved ==
    /\ pc = "auth" /\ queue = << >> /\ second
    /\ Advance("extend", {})
    /\ UNCHANGED <<sortVars, authVars, lineVars>>

\* Bug: what was resolved wins over what the forks agree on.
ExtendUnder ==
    /\ pc = "extend"
    /\ Advance("done", {})
    /\ resolved_state' = Overlay(clean, resolved_state, DOMAIN resolved_state)
    /\ UNCHANGED <<sortVars, queue, auth_events, second, lineVars>>

\* resolved_state.extend(clean)
Extend ==
    /\ pc = "extend"
    /\ Advance("done", {})
    /\ resolved_state' = Overlay(resolved_state, clean, DOMAIN clean)
    /\ UNCHANGED <<sortVars, queue, auth_events, second, lineVars>>

ResNext ==
    \/ Separate
    \/ \E id \in Id : Arrive(id) \/ Exists(id) \/ Control(id) \/ GraphRoot(id) \/ Levels(id)
    \/ ExistsDone \/ ControlDone \/ GraphStep \/ GraphDone \/ LevelsDone
    \/ SortEmit \/ SortFail \/ SortDone
    \/ AuthGather \/ AuthStep \/ ControlResolved
    \/ MainlineStep \/ MainlineDone
    \/ \E id \in Id : DepthStart(id)
    \/ DepthStep \/ DepthDone \/ LeftResolved
    \/ Extend

ResSpec == ResInit /\ [][ResNext]_resVars

\* Every future is polled to completion; the store answers.
ResFairSpec == ResSpec /\ WF_resVars(ResNext)
=============================================================================
