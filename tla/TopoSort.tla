------------------------------ MODULE TopoSort ------------------------------
(***************************************************************************)
(* lexicographical_topological_sort, ruma-state-res/src/lib.rs: Kahn's     *)
(* algorithm with a heap.  Both loops run over HashMaps and HashSets, so   *)
(* their order is arbitrary, and both await key_fn, which may fail: each   *)
(* iteration is a step of its own.  The heap is a multiset, so that an     *)
(* event pushed twice would be popped twice.                               *)
(***************************************************************************)
EXTENDS EventOrder

CONSTANT None        \* no event popped

ASSUME NoneAssumption == None \notin Id

VARIABLES graph, key_fn,
          pc,            \* "scan", "pop", "visit", "done", "err", "panic"
          unscanned,     \* nodes the first loop has not reached
          outdegree_map, \* node |-> references not emitted yet
          reverse_graph, \* event |-> the nodes seen to refer to it
          heap,          \* event |-> how often it is in the heap
          node,          \* the event popped, or None
          parents,       \* the referrers of node the inner loop has to visit
          sorted

vars == <<graph, key_fn, pc, unscanned, outdegree_map, reverse_graph, heap,
          node, parents, sorted>>

\* The order emitted so far, counting an event as soon as it is popped.
Emitted == IF node = None THEN sorted ELSE Append(sorted, node)

\* How far the sort is, in the words of the abstract specification.
Status == CASE pc = "done"  -> "sorted"
            [] pc = "err"   -> "failed"
            [] pc = "panic" -> "panicked"
            [] OTHER        -> "sorting"

Order == INSTANCE TopoOrder WITH out <- Emitted, status <- Status

Init ==
    /\ graph \in Graph
    /\ key_fn \in [DOMAIN graph -> Key \cup {NotFound}]
    /\ pc = "scan"
    /\ unscanned = DOMAIN graph
    /\ outdegree_map = graph
    /\ reverse_graph = [e \in {} |-> {}]
    /\ heap = [e \in Id |-> 0]
    /\ node = None
    /\ parents = {}
    /\ sorted = <<>>

-----------------------------------------------------------------------------
\* Mutant of Refer: the node itself gets no entry.
ReferNoEntry(n) ==
    [e \in DOMAIN reverse_graph \cup graph[n] |->
        (IF e \in DOMAIN reverse_graph THEN reverse_graph[e] ELSE {})
            \cup (IF e \in graph[n] THEN {n} ELSE {})]

\* reverse_graph after the first loop's body for n: an entry for n and for
\* every event it refers to, n recorded as a referrer of the latter.
Refer(n) ==
    [e \in DOMAIN reverse_graph \cup {n} \cup graph[n] |->
        (IF e \in DOMAIN reverse_graph THEN reverse_graph[e] ELSE {})
            \cup (IF e \in graph[n] THEN {n} ELSE {})]

Push(n) == [heap EXCEPT ![n] = @ + 1]

\* One iteration of `for (node, edges) in graph`.
Scan(n) ==
    /\ pc = "scan"
    /\ n \in unscanned
    /\ unscanned' = unscanned \ {n}
    /\ IF graph[n] = {} /\ key_fn[n] = NotFound
       THEN pc' = "err" /\ UNCHANGED <<heap, reverse_graph>>
       ELSE /\ heap' = IF graph[n] = {} THEN Push(n) ELSE heap
            /\ reverse_graph' = Refer(n)
            /\ pc' = pc
    /\ UNCHANGED <<graph, key_fn, outdegree_map, node, parents, sorted>>

ScanDone ==
    /\ pc = "scan"
    /\ unscanned = {}
    /\ pc' = "pop"
    /\ UNCHANGED <<graph, key_fn, unscanned, outdegree_map, reverse_graph,
                   heap, node, parents, sorted>>

\* Mutant of Pop: the `Reverse` is forgotten, the greatest key comes first.
PopGreatest(n) ==
    /\ pc = "pop"
    /\ heap[n] > 0
    /\ \A m \in Id : heap[m] > 0 => ~ Before(key_fn, n, m)
    /\ heap' = [heap EXCEPT ![n] = @ - 1]
    /\ node' = n
    /\ parents' = reverse_graph[n]
    /\ pc' = "visit"
    /\ UNCHANGED <<graph, key_fn, unscanned, outdegree_map, reverse_graph,
                   sorted>>

\* heap.pop() returns a least TieBreaker; the inner loop runs over its
\* referrers.
Pop(n) ==
    /\ pc = "pop"
    /\ heap[n] > 0
    /\ \A m \in Id : heap[m] > 0 => ~ Before(key_fn, m, n)
    /\ heap' = [heap EXCEPT ![n] = @ - 1]
    /\ node' = n
    /\ IF n \in DOMAIN reverse_graph
       THEN parents' = reverse_graph[n] /\ pc' = "visit"
       ELSE parents' = {} /\ pc' = "panic"
    /\ UNCHANGED <<graph, key_fn, unscanned, outdegree_map, reverse_graph,
                   sorted>>

\* Mutant of Visit: the key is asked for before the references are checked.
VisitEagerKey(parent) ==
    /\ pc = "visit"
    /\ parent \in parents
    /\ parents' = parents \ {parent}
    /\ outdegree_map' = [outdegree_map EXCEPT ![parent] = @ \ {node}]
    /\ IF key_fn[parent] = NotFound
       THEN pc' = "err" /\ UNCHANGED heap
       ELSE /\ heap' = IF outdegree_map[parent] = {node} THEN Push(parent) ELSE heap
            /\ pc' = pc
    /\ UNCHANGED <<graph, key_fn, unscanned, reverse_graph, node, sorted>>

\* Mutant of Visit: a referrer is pushed at its first emitted reference.
VisitNoGuard(parent) ==
    /\ pc = "visit"
    /\ parent \in parents
    /\ parents' = parents \ {parent}
    /\ outdegree_map' = [outdegree_map EXCEPT ![parent] = @ \ {node}]
    /\ IF key_fn[parent] = NotFound
       THEN pc' = "err" /\ UNCHANGED heap
       ELSE heap' = Push(parent) /\ pc' = pc
    /\ UNCHANGED <<graph, key_fn, unscanned, reverse_graph, node, sorted>>

\* One iteration of `for &parent in reverse_graph.get(node)`.
Visit(parent) ==
    /\ pc = "visit"
    /\ parent \in parents
    /\ parents' = parents \ {parent}
    /\ IF parent \notin DOMAIN outdegree_map
       THEN pc' = "panic" /\ UNCHANGED <<outdegree_map, heap>>
       ELSE /\ outdegree_map' = [outdegree_map EXCEPT ![parent] = @ \ {node}]
            /\ IF outdegree_map[parent] \ {node} # {}
               THEN UNCHANGED <<pc, heap>>
               ELSE IF key_fn[parent] = NotFound
                    THEN pc' = "err" /\ UNCHANGED heap
                    ELSE heap' = Push(parent) /\ pc' = pc
    /\ UNCHANGED <<graph, key_fn, unscanned, reverse_graph, node, sorted>>

\* sorted.push(node), back to the head of the loop.
EmitNode ==
    /\ pc = "visit"
    /\ parents = {}
    /\ sorted' = Append(sorted, node)
    /\ node' = None
    /\ pc' = "pop"
    /\ UNCHANGED <<graph, key_fn, unscanned, outdegree_map, reverse_graph,
                   heap, parents>>

\* Mutant of Return: the loop waits until every node has been emitted.
ReturnWhenAll ==
    /\ pc = "pop"
    /\ Elements(sorted) = DOMAIN graph
    /\ pc' = "done"
    /\ UNCHANGED <<graph, key_fn, unscanned, outdegree_map, reverse_graph,
                   heap, node, parents, sorted>>

\* The heap is empty: Ok(sorted).
Return ==
    /\ pc = "pop"
    /\ \A m \in Id : heap[m] = 0
    /\ pc' = "done"
    /\ UNCHANGED <<graph, key_fn, unscanned, outdegree_map, reverse_graph,
                   heap, node, parents, sorted>>

Next ==
    \/ \E n \in Id : Scan(n)
    \/ ScanDone
    \/ \E n \in Id : Pop(n)
    \/ \E n \in Id : Visit(n)
    \/ EmitNode
    \/ Return

Spec == Init /\ [][Next]_vars

-----------------------------------------------------------------------------
(* Type invariant. *)

\* Every variable of the sort keeps its type: the heap and the maps only ever
\* mention events of the graph or events these refer to.
TypeOK ==
    /\ graph \in Graph
    /\ key_fn \in [DOMAIN graph -> Key \cup {NotFound}]
    /\ pc \in {"scan", "pop", "visit", "done", "err", "panic"}
    /\ unscanned \subseteq DOMAIN graph
    /\ outdegree_map \in [DOMAIN graph -> SUBSET Id]
    /\ DOMAIN reverse_graph \subseteq Id
    /\ reverse_graph \in [DOMAIN reverse_graph -> SUBSET DOMAIN graph]
    /\ heap \in [Id -> Nat]
    /\ node \in Id \cup {None}
    /\ parents \subseteq DOMAIN graph
    /\ sorted \in Seq(Id)

-----------------------------------------------------------------------------
(* The inductive invariant. *)

Scanned == DOMAIN graph \ unscanned

\* reverse_graph is the transpose of the part of the graph scanned so far.
ReverseOK ==
    pc # "err" =>
    /\ DOMAIN reverse_graph = Scanned \cup UNION {graph[n] : n \in Scanned}
    /\ \A e \in DOMAIN reverse_graph :
          reverse_graph[e] = {n \in Scanned : e \in graph[n]}

\* What the heap holds, once each: while scanning, the scanned nodes without
\* references; afterwards, the events that may come next, less those the
\* inner loop is still to push.
InHeap ==
    IF pc = "scan" THEN {n \in Scanned : graph[n] = {}}
    ELSE Ready(graph, Elements(Emitted)) \ parents

HeapOK ==
    pc # "err" => \A n \in Id : heap[n] = IF n \in InHeap THEN 1 ELSE 0

KeysOK ==
    /\ pc # "err" => \A n \in InHeap : key_fn[n] # NotFound
    /\ \A n \in Elements(Emitted) : key_fn[n] # NotFound

\* outdegree_map holds the references not emitted yet; a node the inner loop
\* has not visited still holds the event just popped.
OutdegreeOK ==
    pc # "err" =>
    \A n \in DOMAIN graph :
        outdegree_map[n] = graph[n] \ (IF n \in parents THEN Elements(sorted)
                                       ELSE Elements(Emitted))

\* The control state, and what the popped event is.
PhaseOK ==
    /\ pc = "scan" => sorted = <<>>
    /\ pc \notin {"scan", "err"} => unscanned = {}
    /\ pc \in {"scan", "pop", "done"} => node = None /\ parents = {}
    /\ pc = "visit" => /\ node \in DOMAIN graph \ Elements(sorted)
                       /\ parents \subseteq {n \in DOMAIN graph : node \in graph[n]}
    /\ pc = "done" => Ready(graph, Elements(sorted)) = {}

\* Each event emitted was the least of those that could come next: a list
\* that is duplicate free, puts every event after all it refers to, and does
\* not depend on any HashMap's iteration order (reverse_topological_power_sort
\* needs all three to give every server the same list).
GreedyOrder ==
    \A i \in 1..Len(Emitted) :
        IsNext(key_fn,
               Ready(graph, {Emitted[j] : j \in 1..(i - 1)}),
               Emitted[i])

\* Neither of the two `expect`s of the loops panics, and an Ok list leaves out
\* only events on a cycle, below a cycle or below a dangling reference: nothing
\* that could still have been emitted is lost.
NoPanicNoLoss ==
    /\ pc # "panic"
    /\ pc = "done" => Ready(graph, Elements(sorted)) = {}

\* An error is returned only when the key of an event that could come next
\* really cannot be had, and a list is returned only if none was missing.
ErrorJustified ==
    /\ pc = "err" =>
          \E n \in Ready(graph, Elements(Emitted)) : key_fn[n] = NotFound
    /\ pc = "done" => \A n \in Elements(sorted) : key_fn[n] # NotFound

IInv ==
    /\ TypeOK
    /\ PhaseOK
    /\ ReverseOK
    /\ HeapOK
    /\ KeysOK
    /\ OutdegreeOK
    /\ GreedyOrder
    /\ NoPanicNoLoss
    /\ ErrorJustified

\* The algorithm implements the abstract order.
ImplementsOrder == Order!OrderSpec

\* With every future polled to completion the sort returns.
FairSpec == Spec /\ WF_vars(Next)
Termination == <>(pc \in {"done", "err"})
=============================================================================
