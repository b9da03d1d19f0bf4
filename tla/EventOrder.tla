----------------------------- MODULE EventOrder -----------------------------
(***************************************************************************)
(* The order lexicographical_topological_sort (ruma-state-res/src/lib.rs)  *)
(* sorts by, and the graphs it sorts.  An event id is its rank in the      *)
(* lexicographic order of the ids.                                         *)
(***************************************************************************)
EXTENDS Integers, Sequences

CONSTANTS Id,        \* event ids
          Level,     \* power levels of senders
          Age,       \* origin_server_ts values
          NotFound   \* what key_fn answers for an event the store lost

ASSUME OrderAssumption ==
    /\ Id \subseteq Int
    /\ Level \subseteq Int
    /\ Age \subseteq Int
    /\ NotFound \notin [power_level: Level, age: Age]

Key == [power_level: Level, age: Age]

\* Graphs whose keys are events; a public caller may leave an edge dangling.
Graph == UNION {[nodes -> SUBSET Id] : nodes \in SUBSET Id}

\* TieBreaker's derived Ord: (-power_level, age, event_id) lexicographically.
Before(keys, a, b) ==
    LET ka == keys[a]
        kb == keys[b]
    IN  \/ ka.power_level > kb.power_level
        \/ /\ ka.power_level = kb.power_level
           /\ \/ ka.age < kb.age
              \/ ka.age = kb.age /\ a < b

\* The elements of a list.
Elements(s) == {s[i] : i \in 1..Len(s)}

\* The events not in done all of whose references are in done.
Ready(g, done) == {n \in DOMAIN g \ done : g[n] \subseteq done}

IsNext(keys, ready, n) ==
    /\ n \in ready
    /\ \A m \in ready \ {n} : Before(keys, n, m)
=============================================================================
