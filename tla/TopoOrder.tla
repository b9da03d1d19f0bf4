----------------------------- MODULE TopoOrder -----------------------------
(***************************************************************************)
(* What lexicographical_topological_sort (ruma-state-res/src/lib.rs)       *)
(* promises, without its heap, its reverse graph or its iteration orders:  *)
(* the events of a graph come out one at a time, each after every event it *)
(* refers to, and of the events that may come next always the one with the *)
(* least key (greatest power level first, then the oldest, then the least  *)
(* event id).  The order is therefore a function of the graph and the keys *)
(* alone: every server that sorts the same events gets the same list.      *)
(***************************************************************************)
EXTENDS EventOrder

VARIABLES graph,     \* event |-> the events it refers to
          key_fn,    \* event |-> its power level and age, or NotFound
          out,       \* the order produced so far
          status     \* "sorting", "sorted" or "failed"

orderVars == <<graph, key_fn, out, status>>

-----------------------------------------------------------------------------
OrderInit ==
    /\ graph \in Graph
    /\ key_fn \in [DOMAIN graph -> Key \cup {NotFound}]
    /\ out = <<>>
    /\ status = "sorting"

Emit ==
    /\ status = "sorting"
    /\ \A n \in Ready(graph, Elements(out)) : key_fn[n] # NotFound
    /\ \E n \in Ready(graph, Elements(out)) :
          /\ IsNext(key_fn, Ready(graph, Elements(out)), n)
          /\ out' = Append(out, n)
    /\ UNCHANGED <<graph, key_fn, status>>

Finish ==
    /\ status = "sorting"
    /\ Ready(graph, Elements(out)) = {}
    /\ status' = "sorted"
    /\ UNCHANGED <<graph, key_fn, out>>

\* The key of an event that may come next cannot be had: no list at all.
Fail ==
    /\ status = "sorting"
    /\ \E n \in Ready(graph, Elements(out)) : key_fn[n] = NotFound
    /\ status' = "failed"
    /\ UNCHANGED <<graph, key_fn, out>>

OrderNext == Emit \/ Finish \/ Fail

OrderSpec == OrderInit /\ [][OrderNext]_orderVars
=============================================================================
