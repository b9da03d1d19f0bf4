--------------------------- MODULE TopoSortProofs ---------------------------
(***************************************************************************)
(* Proofs about lexicographical_topological_sort: its inductive invariant, *)
(* and that it implements the abstract order, for any set of event ids,    *)
(* power levels and timestamps and any graph.                              *)
(***************************************************************************)
EXTENDS TopoSort, TLAPS

\* Appending an element adds it to the elements of a list.
LEMMA ElementsAppend ==
    ASSUME NEW S, NEW s \in Seq(S), NEW e \in S
    PROVE  Elements(Append(s, e)) = Elements(s) \cup {e}
<1> DEFINE t == Append(s, e)
<1>1. /\ Len(t) = Len(s) + 1
      /\ \A i \in 1..Len(s) : t[i] = s[i]
      /\ t[Len(s) + 1] = e
      /\ Len(s) \in Nat
  OBVIOUS
<1> HIDE DEF t
<1>2. 1..Len(t) = (1..Len(s)) \cup {Len(s) + 1}
  BY <1>1
<1>3. {t[i] : i \in 1..Len(t)} = {s[i] : i \in 1..Len(s)} \cup {e}
  BY <1>1, <1>2
<1> QED BY <1>3 DEF Elements, t

\* The elements of a list over S are in S.
LEMMA ElementsType ==
    ASSUME NEW S, NEW s \in Seq(S)
    PROVE  Elements(s) \subseteq S
BY DEF Elements

\* Keys of different events never tie: one of the two comes first.
LEMMA BeforeTotal ==
    ASSUME NEW keys, NEW a \in Id, NEW b \in Id, a # b,
           keys[a] \in Key, keys[b] \in Key
    PROVE  Before(keys, a, b) \/ Before(keys, b, a)
<1>1. /\ keys[a].power_level \in Int /\ keys[b].power_level \in Int
      /\ keys[a].age \in Int /\ keys[b].age \in Int
      /\ a \in Int /\ b \in Int
  BY OrderAssumption DEF Key
<1> QED BY <1>1 DEF Before

\* The sort starts in a state of its invariant.
LEMMA InitIInv == Init => IInv
<1> SUFFICES ASSUME Init PROVE IInv
  OBVIOUS
<1> USE DEF Init
<1>0. graph \in [DOMAIN graph -> SUBSET Id] /\ DOMAIN graph \subseteq Id
  BY DEF Graph
<1>1. TypeOK
  BY <1>0 DEF TypeOK
<1>2. Scanned = {} /\ InHeap = {} /\ Emitted = <<>> /\ Elements(<<>>) = {}
  BY DEF Scanned, InHeap, Emitted, Elements
<1>3. PhaseOK /\ ReverseOK /\ HeapOK /\ KeysOK
  BY <1>2 DEF PhaseOK, ReverseOK, HeapOK, KeysOK
<1>4. OutdegreeOK /\ GreedyOrder /\ NoPanicNoLoss /\ ErrorJustified
  BY <1>0, <1>2 DEF OutdegreeOK, GreedyOrder, NoPanicNoLoss, ErrorJustified
<1> QED BY <1>1, <1>3, <1>4 DEF IInv

\* One iteration of the first loop keeps the invariant.
LEMMA ScanIInv ==
    ASSUME IInv, NEW n \in Id, Scan(n)
    PROVE  IInv'
<1> USE DEF Scan
<1>0. /\ TypeOK /\ PhaseOK /\ pc = "scan" /\ sorted = <<>> /\ node = None /\ parents = {}
      /\ n \in DOMAIN graph /\ DOMAIN graph \subseteq Id
      /\ graph \in [DOMAIN graph -> SUBSET Id]
  BY DEF IInv, PhaseOK, TypeOK, Graph
<1>1. /\ Emitted = <<>> /\ Emitted' = <<>> /\ Elements(<<>>) = {}
      /\ Scanned' = Scanned \cup {n} /\ n \notin Scanned
  BY <1>0 DEF Emitted, Elements, Scanned
<1>2. GreedyOrder'
  BY <1>1 DEF GreedyOrder
<1>3. CASE graph[n] = {} /\ key_fn[n] = NotFound
  <2>1. TypeOK' /\ PhaseOK'
    BY <1>0, <1>3 DEF TypeOK, PhaseOK
  <2>2. ErrorJustified'
    BY <1>0, <1>1, <1>3 DEF ErrorJustified, Ready
  <2> QED BY <1>1, <1>2, <1>3, <2>1, <2>2 DEF IInv, ReverseOK, HeapOK, KeysOK, OutdegreeOK, NoPanicNoLoss
<1>4. CASE ~(graph[n] = {} /\ key_fn[n] = NotFound)
  <2>0. /\ pc' = "scan" /\ reverse_graph' = Refer(n)
        /\ heap' = IF graph[n] = {} THEN Push(n) ELSE heap
    BY <1>0, <1>4
  <2>1. /\ DOMAIN reverse_graph' = DOMAIN reverse_graph \cup {n} \cup graph[n]
        /\ \A e \in DOMAIN reverse_graph' :
              reverse_graph'[e] = (IF e \in DOMAIN reverse_graph THEN reverse_graph[e] ELSE {})
                                    \cup (IF e \in graph[n] THEN {n} ELSE {})
        /\ reverse_graph' = [e \in DOMAIN reverse_graph' |-> reverse_graph'[e]]
    BY <2>0 DEF Refer
  <2>2. heap' \in [Id -> Nat]
    BY <1>0, <2>0 DEF Push, TypeOK
  <2>3. reverse_graph' \in [DOMAIN reverse_graph' -> SUBSET DOMAIN graph]
    BY <1>0, <2>1 DEF TypeOK
  <2>4. TypeOK'
    BY <1>0, <2>0, <2>1, <2>2, <2>3 DEF TypeOK
  <2>5. PhaseOK'
    BY <1>0, <2>0 DEF PhaseOK
  <2>6. ReverseOK'
    <3>1. /\ DOMAIN reverse_graph = Scanned \cup UNION {graph[m] : m \in Scanned}
          /\ \A e \in DOMAIN reverse_graph :
                reverse_graph[e] = {m \in Scanned : e \in graph[m]}
      BY <1>0 DEF IInv, ReverseOK
    <3>2. DOMAIN reverse_graph' = Scanned' \cup UNION {graph[m] : m \in Scanned'}
      BY <1>1, <2>1, <3>1
    <3>3. ASSUME NEW e \in DOMAIN reverse_graph'
          PROVE  reverse_graph'[e] = {m \in Scanned' : e \in graph[m]}
      <4>1. CASE e \in DOMAIN reverse_graph
        BY <1>1, <2>1, <3>1, <4>1
      <4>2. CASE e \notin DOMAIN reverse_graph
        <5>1. {m \in Scanned : e \in graph[m]} = {}
          BY <3>1, <4>2
        <5> QED BY <1>1, <2>1, <4>2, <5>1
      <4> QED BY <4>1, <4>2
    <3> QED BY <3>2, <3>3 DEF ReverseOK
  <2>7. InHeap = {m \in Scanned : graph[m] = {}} /\ InHeap' = {m \in Scanned' : graph[m] = {}}
    BY <1>0, <2>0 DEF InHeap
  <2>8. HeapOK'
    <3>1. \A m \in Id : heap[m] = IF m \in InHeap THEN 1 ELSE 0
      BY <1>0 DEF IInv, HeapOK
    <3> QED BY <1>0, <1>1, <2>0, <2>7, <3>1 DEF HeapOK, Push, TypeOK
  <2>9. KeysOK'
    <3>1. \A m \in InHeap : key_fn[m] # NotFound
      BY <1>0 DEF IInv, KeysOK
    <3> QED BY <1>1, <1>4, <2>7, <3>1 DEF KeysOK
  <2>10. OutdegreeOK'
    BY <1>0, <1>1, <2>0 DEF IInv, OutdegreeOK
  <2>11. NoPanicNoLoss' /\ ErrorJustified'
    BY <2>0 DEF NoPanicNoLoss, ErrorJustified
  <2> QED BY <1>2, <2>4, <2>5, <2>6, <2>8, <2>9, <2>10, <2>11 DEF IInv
<1> QED BY <1>3, <1>4

\* Leaving the first loop keeps the invariant: what has no references is
\* exactly what may come first.
LEMMA ScanDoneIInv ==
    ASSUME IInv, ScanDone
    PROVE  IInv'
<1> USE DEF ScanDone
<1>0. /\ TypeOK /\ PhaseOK /\ sorted = <<>> /\ node = None /\ parents = {}
  BY DEF IInv, PhaseOK
<1>1. /\ Emitted = <<>> /\ Emitted' = <<>> /\ Elements(<<>>) = {}
      /\ Scanned = DOMAIN graph /\ Scanned' = Scanned
  BY <1>0 DEF Emitted, Elements, Scanned
<1>2. InHeap' = InHeap
  BY <1>0, <1>1 DEF InHeap, Ready
<1>3. TypeOK' /\ PhaseOK'
  BY <1>0 DEF TypeOK, PhaseOK
<1>4. ReverseOK' /\ HeapOK' /\ KeysOK'
  BY <1>1, <1>2 DEF IInv, ReverseOK, HeapOK, KeysOK
<1>5. OutdegreeOK' /\ GreedyOrder' /\ NoPanicNoLoss' /\ ErrorJustified'
  BY <1>1 DEF IInv, OutdegreeOK, GreedyOrder, NoPanicNoLoss, ErrorJustified
<1> QED BY <1>3, <1>4, <1>5 DEF IInv

\* What the invariant says once the first loop is over.
LEMMA PopFacts ==
    ASSUME IInv, pc = "pop"
    PROVE  /\ node = None /\ parents = {} /\ Emitted = sorted
           /\ InHeap = Ready(graph, Elements(sorted))
           /\ \A m \in Id : heap[m] = IF m \in InHeap THEN 1 ELSE 0
           /\ DOMAIN graph \subseteq DOMAIN reverse_graph
           /\ \A e \in DOMAIN reverse_graph :
                 reverse_graph[e] = {m \in DOMAIN graph : e \in graph[m]}
           /\ \A m \in InHeap : key_fn[m] \in Key
           /\ InHeap \subseteq DOMAIN graph
           /\ DOMAIN graph \subseteq Id
<1>1. node = None /\ parents = {} /\ Emitted = sorted /\ Scanned = DOMAIN graph
  BY DEF IInv, PhaseOK, Emitted, Scanned, TypeOK
<1>2. InHeap = Ready(graph, Elements(sorted)) /\ InHeap \subseteq DOMAIN graph
  BY <1>1 DEF InHeap, Ready
<1>3. DOMAIN graph \subseteq Id
  BY DEF IInv, TypeOK, Graph
<1>4. \A m \in InHeap : key_fn[m] \in Key
  BY <1>2 DEF IInv, TypeOK, KeysOK
<1>5. \A m \in Id : heap[m] = IF m \in InHeap THEN 1 ELSE 0
  BY DEF IInv, HeapOK
<1>6. /\ DOMAIN graph \subseteq DOMAIN reverse_graph
      /\ \A e \in DOMAIN reverse_graph :
            reverse_graph[e] = {m \in DOMAIN graph : e \in graph[m]}
  BY <1>1 DEF IInv, ReverseOK
<1> QED BY <1>1, <1>2, <1>3, <1>4, <1>5, <1>6

\* What heap.pop() returns is the least of the events that may come next.
LEMMA PopIsNext ==
    ASSUME IInv, NEW n \in Id, Pop(n)
    PROVE  IsNext(key_fn, Ready(graph, Elements(sorted)), n)
<1>0. pc = "pop"
  BY DEF Pop
<1>1. n \in InHeap
  BY <1>0, PopFacts DEF Pop
<1>2. ASSUME NEW m \in InHeap, m # n
      PROVE  Before(key_fn, n, m)
  <2>1. m \in Id /\ heap[m] > 0 /\ ~ Before(key_fn, m, n)
    BY <1>0, <1>2, PopFacts DEF Pop
  <2>2. key_fn[m] \in Key /\ key_fn[n] \in Key
    BY <1>0, <1>1, <1>2, PopFacts
  <2> QED BY <1>2, <2>1, <2>2, BeforeTotal
<1> QED BY <1>0, <1>1, <1>2, PopFacts DEF IsNext

\* What the invariant says inside the inner loop: the popped event and every
\* event before it refer only to events emitted earlier.
LEMMA VisitFacts ==
    ASSUME IInv, pc = "visit"
    PROVE  /\ node \in DOMAIN graph /\ node \in Id /\ node \notin Elements(sorted)
           /\ Emitted = Append(sorted, node)
           /\ Elements(Emitted) = Elements(sorted) \cup {node}
           /\ \A m \in Elements(Emitted) : m \in DOMAIN graph /\ graph[m] \subseteq Elements(sorted)
           /\ InHeap = Ready(graph, Elements(Emitted)) \ parents
           /\ \A m \in Id : heap[m] = IF m \in InHeap THEN 1 ELSE 0
           /\ unscanned = {} /\ DOMAIN graph \subseteq Id
           /\ graph \in [DOMAIN graph -> SUBSET Id]
           /\ parents \subseteq {m \in DOMAIN graph : node \in graph[m]}
<1>0. /\ TypeOK /\ PhaseOK /\ GreedyOrder /\ HeapOK
      /\ DOMAIN graph \subseteq Id /\ graph \in [DOMAIN graph -> SUBSET Id]
  BY DEF IInv, TypeOK, Graph
<1>1. /\ node \in DOMAIN graph /\ node \in Id /\ node \notin Elements(sorted)
      /\ Emitted = Append(sorted, node) /\ unscanned = {}
      /\ parents \subseteq {m \in DOMAIN graph : node \in graph[m]}
  BY <1>0, NoneAssumption DEF PhaseOK, Emitted
<1>2. Elements(Emitted) = Elements(sorted) \cup {node}
  BY <1>0, <1>1, ElementsAppend DEF TypeOK
<1>3. ASSUME NEW m \in Elements(Emitted)
      PROVE  m \in DOMAIN graph /\ graph[m] \subseteq Elements(sorted)
  <2>1. PICK i \in 1..Len(Emitted) : m = Emitted[i]
    BY DEF Elements
  <2>2. m \in Ready(graph, {Emitted[j] : j \in 1..(i - 1)})
    BY <1>0, <2>1 DEF GreedyOrder, IsNext
  <2>3. /\ Len(sorted) \in Nat /\ Len(Emitted) = Len(sorted) + 1
        /\ \A j \in 1..Len(sorted) : Emitted[j] = sorted[j]
    BY <1>0, <1>1 DEF TypeOK
  <2>4. {Emitted[j] : j \in 1..(i - 1)} \subseteq Elements(sorted)
    BY <2>1, <2>3 DEF Elements
  <2> QED BY <2>2, <2>4 DEF Ready
<1>4. /\ InHeap = Ready(graph, Elements(Emitted)) \ parents
      /\ \A m \in Id : heap[m] = IF m \in InHeap THEN 1 ELSE 0
  BY <1>0 DEF InHeap, HeapOK
<1> QED BY <1>0, <1>1, <1>2, <1>3, <1>4

\* Popping keeps the invariant, and finds the popped event in reverse_graph.
LEMMA PopIInv ==
    ASSUME IInv, NEW n \in Id, Pop(n)
    PROVE  IInv'
<1> DEFINE D == Elements(sorted)
<1>0. /\ TypeOK /\ PhaseOK /\ pc = "pop" /\ unscanned = {}
  BY DEF IInv, PhaseOK, Pop
<1>1. n \in Ready(graph, D) /\ n \in DOMAIN graph /\ n \notin D /\ n # None
  BY PopIsNext, NoneAssumption DEF IsNext, Ready
<1>2. /\ pc' = "visit" /\ node' = n
      /\ parents' = {m \in DOMAIN graph : n \in graph[m]}
      /\ heap' = [heap EXCEPT ![n] = @ - 1]
      /\ UNCHANGED <<graph, key_fn, unscanned, outdegree_map, reverse_graph, sorted>>
  BY <1>0, <1>1, PopFacts DEF Pop
<1>3. /\ Emitted = sorted /\ Emitted' = Append(sorted, n)
      /\ Elements(Emitted') = D \cup {n}
  BY <1>0, <1>1, <1>2, PopFacts, ElementsAppend DEF Emitted, TypeOK
<1>4. InHeap = Ready(graph, D) /\ InHeap' = InHeap \ {n}
  <2>1. InHeap = Ready(graph, D)
    BY <1>0, PopFacts
  <2>2. InHeap' = Ready(graph, D \cup {n}) \ parents'
    BY <1>2, <1>3 DEF InHeap
  <2> QED BY <1>1, <1>2, <2>1, <2>2 DEF Ready
<1>5. TypeOK'
  <2>1. heap' \in [Id -> Nat]
    BY <1>0, <1>2 DEF TypeOK, Pop
  <2> QED BY <1>0, <1>2, <2>1 DEF TypeOK
<1>6. PhaseOK'
  BY <1>0, <1>1, <1>2 DEF PhaseOK
<1>7. ReverseOK'
  BY <1>0, <1>2 DEF IInv, ReverseOK, Scanned
<1>8. HeapOK'
  BY <1>0, <1>1, <1>2, <1>4, PopFacts DEF HeapOK, TypeOK
<1>9. KeysOK'
  BY <1>0, <1>1, <1>2, <1>3, <1>4 DEF IInv, KeysOK
<1>10. OutdegreeOK'
  <2>1. \A m \in DOMAIN graph : outdegree_map[m] = graph[m] \ D
    BY <1>0, <1>3 DEF IInv, OutdegreeOK
  <2> QED BY <1>2, <1>3, <2>1 DEF OutdegreeOK
<1>11. GreedyOrder'
  <2>1. /\ Len(sorted) \in Nat /\ Len(Emitted') = Len(sorted) + 1
        /\ \A j \in 1..Len(sorted) : Emitted'[j] = sorted[j]
        /\ Emitted'[Len(sorted) + 1] = n
    BY <1>0, <1>3 DEF TypeOK
  <2>2. ASSUME NEW i \in 1..Len(Emitted')
        PROVE  IsNext(key_fn, Ready(graph, {Emitted'[j] : j \in 1..(i - 1)}), Emitted'[i])
    <3>1. {Emitted'[j] : j \in 1..(i - 1)} = {sorted[j] : j \in 1..(i - 1)}
      BY <2>1
    <3>2. CASE i \in 1..Len(sorted)
      BY <1>3, <2>1, <3>1, <3>2 DEF IInv, GreedyOrder
    <3>3. CASE i = Len(sorted) + 1
      <4>1. {sorted[j] : j \in 1..(i - 1)} = D
        BY <2>1, <3>3 DEF Elements
      <4> QED BY <2>1, <3>1, <3>3, <4>1, PopIsNext
    <3> QED BY <2>1, <3>2, <3>3
  <2> QED BY <1>2, <2>2 DEF GreedyOrder
<1>12. NoPanicNoLoss' /\ ErrorJustified'
  BY <1>2 DEF NoPanicNoLoss, ErrorJustified
<1> QED BY <1>5, <1>6, <1>7, <1>8, <1>9, <1>10, <1>11, <1>12 DEF IInv

\* Visiting a referrer of the popped event keeps the invariant: the referrer
\* is pushed exactly when its last reference has been emitted, and only once.
LEMMA VisitIInv ==
    ASSUME IInv, NEW p \in Id, Visit(p)
    PROVE  IInv'
<1> DEFINE E == Elements(Emitted)
<1>0. /\ TypeOK /\ PhaseOK /\ pc = "visit" /\ p \in parents
      /\ DOMAIN outdegree_map = DOMAIN graph
  BY DEF IInv, TypeOK, Visit
<1>1. p \in DOMAIN graph /\ node \in graph[p]
  BY <1>0, VisitFacts
<1>2. p \notin E
  BY <1>0, <1>1, VisitFacts
<1>3. outdegree_map[p] \ {node} = graph[p] \ E
  <2>1. outdegree_map[p] = graph[p] \ Elements(sorted)
    BY <1>0, <1>1 DEF IInv, OutdegreeOK
  <2> QED BY <1>0, <2>1, VisitFacts
<1>4. /\ parents' = parents \ {p}
      /\ outdegree_map' = [outdegree_map EXCEPT ![p] = @ \ {node}]
      /\ UNCHANGED <<graph, key_fn, unscanned, reverse_graph, node, sorted>>
  BY <1>0, <1>1 DEF Visit
<1>5. Emitted' = Emitted /\ E = Elements(sorted) \cup {node}
  BY <1>0, <1>4, VisitFacts DEF Emitted
<1>6. ReverseOK' \/ pc' = "err"
  BY <1>0, <1>4 DEF IInv, ReverseOK, Scanned
<1>7. GreedyOrder'
  BY <1>4, <1>5 DEF IInv, GreedyOrder
<1>8. OutdegreeOK' \/ pc' = "err"
  <2>1. \A m \in DOMAIN graph :
           outdegree_map[m] = graph[m] \ (IF m \in parents THEN Elements(sorted) ELSE E)
    BY <1>0 DEF IInv, OutdegreeOK
  <2>2. ASSUME NEW m \in DOMAIN graph
        PROVE  outdegree_map'[m] = graph[m] \ (IF m \in parents' THEN Elements(sorted) ELSE E)
    BY <1>0, <1>3, <1>4, <2>1 DEF TypeOK
  <2> QED BY <1>4, <1>5, <2>2 DEF OutdegreeOK
<1>9. outdegree_map' \in [DOMAIN graph -> SUBSET Id]
  BY <1>0, <1>4 DEF TypeOK
<1>10. CASE outdegree_map[p] \ {node} # {}
  <2>1. pc' = pc /\ heap' = heap
    BY <1>0, <1>1, <1>10 DEF Visit
  <2>2. InHeap' = InHeap
    <3>1. p \notin Ready(graph, E)
      BY <1>3, <1>10 DEF Ready
    <3>2. InHeap' = Ready(graph, E) \ parents'
      BY <1>0, <1>4, <1>5, <2>1 DEF InHeap
    <3> QED BY <1>0, <1>4, <3>1, <3>2, VisitFacts
  <2>3. TypeOK' /\ PhaseOK'
    BY <1>0, <1>4, <1>9, <2>1 DEF TypeOK, PhaseOK
  <2>4. HeapOK' /\ KeysOK'
    BY <1>4, <1>5, <2>1, <2>2 DEF IInv, HeapOK, KeysOK
  <2>5. NoPanicNoLoss' /\ ErrorJustified'
    BY <1>0, <2>1 DEF NoPanicNoLoss, ErrorJustified
  <2> QED BY <1>0, <1>6, <1>7, <1>8, <2>1, <2>3, <2>4, <2>5 DEF IInv
<1>11. CASE outdegree_map[p] \ {node} = {} /\ key_fn[p] = NotFound
  <2>1. pc' = "err" /\ heap' = heap
    BY <1>0, <1>1, <1>11 DEF Visit
  <2>2. p \in Ready(graph, E)
    BY <1>1, <1>2, <1>3, <1>11 DEF Ready
  <2>3. TypeOK' /\ PhaseOK'
    BY <1>0, <1>4, <1>9, <2>1 DEF TypeOK, PhaseOK
  <2>4. ErrorJustified' /\ NoPanicNoLoss'
    BY <1>4, <1>5, <1>11, <2>1, <2>2 DEF ErrorJustified, NoPanicNoLoss
  <2>5. KeysOK'
    BY <1>4, <1>5, <2>1 DEF IInv, KeysOK
  <2> QED BY <1>7, <2>1, <2>3, <2>4, <2>5 DEF IInv, ReverseOK, HeapOK, OutdegreeOK
<1>12. CASE outdegree_map[p] \ {node} = {} /\ key_fn[p] # NotFound
  <2>1. pc' = pc /\ heap' = Push(p)
    BY <1>0, <1>1, <1>12 DEF Visit
  <2>2. InHeap' = InHeap \cup {p} /\ p \notin InHeap
    <3>1. p \in Ready(graph, E)
      BY <1>1, <1>2, <1>3, <1>12 DEF Ready
    <3>2. InHeap' = Ready(graph, E) \ parents'
      BY <1>0, <1>4, <1>5, <2>1 DEF InHeap
    <3> QED BY <1>0, <1>4, <3>1, <3>2, VisitFacts
  <2>3. heap' \in [Id -> Nat]
    BY <1>0, <2>1 DEF TypeOK, Push
  <2>4. TypeOK' /\ PhaseOK'
    BY <1>0, <1>4, <1>9, <2>1, <2>3 DEF TypeOK, PhaseOK
  <2>5. HeapOK'
    BY <1>0, <2>1, <2>2, VisitFacts DEF HeapOK, Push, TypeOK
  <2>6. KeysOK'
    BY <1>0, <1>4, <1>5, <1>12, <2>2 DEF IInv, KeysOK
  <2>7. NoPanicNoLoss' /\ ErrorJustified'
    BY <1>0, <2>1 DEF NoPanicNoLoss, ErrorJustified
  <2> QED BY <1>0, <1>6, <1>7, <1>8, <2>1, <2>4, <2>5, <2>6, <2>7 DEF IInv
<1> QED BY <1>10, <1>11, <1>12

\* sorted.push(node) keeps the invariant.
LEMMA EmitNodeIInv ==
    ASSUME IInv, EmitNode
    PROVE  IInv'
<1> USE DEF EmitNode
<1>0. /\ TypeOK /\ PhaseOK /\ pc = "visit" /\ pc' = "pop" /\ parents = {}
  BY DEF IInv
<1>1. Emitted' = Emitted /\ sorted' = Emitted
  BY <1>0, VisitFacts DEF Emitted
<1>2. InHeap' = InHeap
  BY <1>0, <1>1 DEF InHeap
<1>3. TypeOK'
  BY <1>0, VisitFacts DEF TypeOK
<1>4. PhaseOK'
  BY <1>0 DEF PhaseOK
<1>5. ReverseOK' /\ HeapOK' /\ KeysOK'
  BY <1>0, <1>1, <1>2 DEF IInv, ReverseOK, Scanned, HeapOK, KeysOK
<1>6. OutdegreeOK' /\ GreedyOrder'
  BY <1>0, <1>1 DEF IInv, OutdegreeOK, GreedyOrder
<1>7. NoPanicNoLoss' /\ ErrorJustified'
  BY <1>0 DEF NoPanicNoLoss, ErrorJustified
<1> QED BY <1>3, <1>4, <1>5, <1>6, <1>7 DEF IInv

\* Returning keeps the invariant: with an empty heap nothing may come next.
LEMMA ReturnIInv ==
    ASSUME IInv, Return
    PROVE  IInv'
<1> USE DEF Return
<1>0. /\ TypeOK /\ PhaseOK /\ pc = "pop" /\ pc' = "done"
  BY DEF IInv
<1>1. Emitted' = Emitted /\ Emitted = sorted
  BY <1>0, PopFacts DEF Emitted
<1>2. InHeap = {} /\ InHeap' = InHeap /\ Ready(graph, Elements(sorted)) = {}
  <2>1. InHeap = Ready(graph, Elements(sorted)) /\ InHeap \subseteq Id
    BY <1>0, PopFacts
  <2>2. \A m \in InHeap : FALSE
    BY <1>0, <2>1, PopFacts
  <2> QED BY <1>0, <1>1, <2>1, <2>2 DEF InHeap
<1>3. TypeOK' /\ PhaseOK'
  BY <1>0, <1>2 DEF TypeOK, PhaseOK
<1>4. ReverseOK' /\ HeapOK' /\ KeysOK'
  BY <1>0, <1>1, <1>2 DEF IInv, ReverseOK, Scanned, HeapOK, KeysOK
<1>5. OutdegreeOK' /\ GreedyOrder'
  BY <1>0, <1>1 DEF IInv, OutdegreeOK, GreedyOrder
<1>6. NoPanicNoLoss' /\ ErrorJustified'
  BY <1>0, <1>1, <1>2 DEF IInv, KeysOK, NoPanicNoLoss, ErrorJustified
<1> QED BY <1>3, <1>4, <1>5, <1>6 DEF IInv

\* Steps that change nothing keep the invariant.
LEMMA StutterIInv ==
    ASSUME IInv, UNCHANGED vars
    PROVE  IInv'
<1> USE DEF vars
<1>1. Emitted' = Emitted /\ Scanned' = Scanned
  BY DEF Emitted, Scanned
<1>2. InHeap' = InHeap
  BY <1>1 DEF InHeap
<1>3. TypeOK' /\ PhaseOK'
  BY DEF IInv, TypeOK, PhaseOK
<1>4. ReverseOK' /\ HeapOK' /\ KeysOK'
  BY <1>1, <1>2 DEF IInv, ReverseOK, HeapOK, KeysOK
<1>5. OutdegreeOK' /\ GreedyOrder' /\ NoPanicNoLoss' /\ ErrorJustified'
  BY <1>1 DEF IInv, OutdegreeOK, GreedyOrder, NoPanicNoLoss, ErrorJustified
<1> QED BY <1>3, <1>4, <1>5 DEF IInv

\* The inductive invariant holds in every reachable state of the sort.
THEOREM Invariance == Spec => []IInv
<1>1. IInv /\ [Next]_vars => IInv'
  BY ScanIInv, ScanDoneIInv, PopIInv, VisitIInv, EmitNodeIInv, ReturnIInv,
     StutterIInv DEF Next
<1> QED BY InitIInv, <1>1, PTL DEF Spec

\* The list is the one greedy order of the graph and its keys, whatever the
\* iteration orders were.
THEOREM GreedyOrderHolds == Spec => []GreedyOrder
BY Invariance, PTL DEF IInv

\* Neither `expect` panics, and a returned list leaves out nothing that could
\* still have been emitted.
THEOREM NoPanicNoLossHolds == Spec => []NoPanicNoLoss
BY Invariance, PTL DEF IInv

\* An error is returned only for a missing key, a list only without one.
THEOREM ErrorJustifiedHolds == Spec => []ErrorJustified
BY Invariance, PTL DEF IInv

\* The sort implements the abstract order: popping emits, returning finishes,
\* failing fails, everything else is a stuttering step.
THEOREM Refinement == Spec => ImplementsOrder
<1>0. /\ Order!Graph = Graph /\ Order!Key = Key
      /\ \A s : Order!Elements(s) = Elements(s)
      /\ \A g, d : Order!Ready(g, d) = Ready(g, d)
      /\ \A k, r, n : Order!IsNext(k, r, n) <=> IsNext(k, r, n)
  BY DEF Order!Graph, Graph, Order!Key, Key, Order!Elements, Elements,
         Order!Ready, Ready, Order!IsNext, IsNext, Order!Before, Before
<1>1. Init => Order!OrderInit
  BY <1>0 DEF Init, Order!OrderInit, Emitted, Status
<1>2. ASSUME IInv, [Next]_vars
      PROVE  [Order!OrderNext]_Order!orderVars
  <2> USE DEF Order!orderVars
  <2>0. TypeOK /\ PhaseOK
    BY <1>2 DEF IInv
  <2>1. ASSUME NEW n \in Id, Scan(n)
        PROVE  Order!Fail \/ UNCHANGED Order!orderVars
    <3>0. /\ pc = "scan" /\ sorted = <<>> /\ node = None /\ Emitted = <<>>
          /\ Emitted' = Emitted /\ Elements(Emitted) = {} /\ Status = "sorting"
          /\ n \in DOMAIN graph
      BY <2>0, <2>1 DEF TypeOK, PhaseOK, Scan, Emitted, Elements, Status
    <3>1. CASE graph[n] = {} /\ key_fn[n] = NotFound
      <4>1. Status' = "failed" /\ n \in Ready(graph, Elements(Emitted))
        BY <2>1, <3>0, <3>1 DEF Scan, Status, Ready
      <4> QED BY <1>0, <2>1, <3>0, <3>1, <4>1 DEF Scan, Order!Fail
    <3>2. CASE ~(graph[n] = {} /\ key_fn[n] = NotFound)
      BY <2>1, <3>0, <3>2 DEF Scan, Status
    <3> QED BY <3>1, <3>2
  <2>2. ASSUME ScanDone PROVE UNCHANGED Order!orderVars
    BY <2>2 DEF ScanDone, Emitted, Status
  <2>3. ASSUME NEW n \in Id, Pop(n) PROVE Order!Emit
    <3>1. IsNext(key_fn, Ready(graph, Elements(sorted)), n)
      BY <1>2, <2>3, PopIsNext
    <3>2. /\ Emitted = sorted /\ pc = "pop"
          /\ \A m \in Ready(graph, Elements(sorted)) : key_fn[m] # NotFound
      BY <1>2, <2>3, PopFacts, OrderAssumption DEF Pop, Key
    <3>3. IInv' BY <1>2, <2>3, PopIInv
    <3>4. pc' # "panic" BY <3>3 DEF IInv, NoPanicNoLoss
    <3>5. /\ Emitted' = Append(sorted, n) /\ Status = "sorting" /\ Status' = "sorting"
          /\ UNCHANGED <<graph, key_fn>>
      BY <2>3, <3>2, <3>4, NoneAssumption DEF Pop, Emitted, Status
    <3> QED BY <1>0, <3>1, <3>2, <3>5 DEF Order!Emit, IsNext
  <2>4. ASSUME NEW n \in Id, Visit(n)
        PROVE  Order!Fail \/ UNCHANGED Order!orderVars
    <3>1. IInv' BY <1>2, <2>4, VisitIInv
    <3>2. /\ pc = "visit" /\ pc' \in {"visit", "err"} /\ Emitted' = Emitted
          /\ Status = "sorting" /\ UNCHANGED <<graph, key_fn>>
      BY <2>4, <3>1 DEF Visit, Emitted, Status, IInv, NoPanicNoLoss
    <3>3. CASE pc' = "visit"
      BY <3>2, <3>3 DEF Status
    <3>4. CASE pc' = "err"
      <4>1. Status' = "failed"
        BY <3>4 DEF Status
      <4>2. \E m \in Ready(graph, Elements(Emitted)) : key_fn[m] = NotFound
        BY <3>1, <3>2, <3>4 DEF IInv, ErrorJustified
      <4> QED BY <1>0, <3>2, <4>1, <4>2 DEF Order!Fail
    <3> QED BY <3>2, <3>3, <3>4
  <2>5. ASSUME EmitNode PROVE UNCHANGED Order!orderVars
    BY <1>2, <2>5, VisitFacts DEF EmitNode, Emitted, Status
  <2>6. ASSUME Return PROVE Order!Finish
    <3>1. IInv' /\ pc' = "done" /\ sorted' = sorted /\ graph' = graph
      BY <1>2, <2>6, ReturnIInv DEF Return
    <3>2. Ready(graph, Elements(sorted)) = {}
      BY <3>1 DEF IInv, NoPanicNoLoss
    <3>3. Emitted = sorted /\ Emitted' = sorted
      BY <1>2, <2>6, PopFacts DEF Return, Emitted
    <3> QED BY <1>0, <2>6, <3>2, <3>3 DEF Return, Order!Finish, Status
  <2>7. ASSUME UNCHANGED vars PROVE UNCHANGED Order!orderVars
    BY <2>7 DEF vars, Emitted, Status
  <2> QED BY <1>2, <2>1, <2>2, <2>3, <2>4, <2>5, <2>6, <2>7 DEF Next, Order!OrderNext
<1> QED BY <1>1, <1>2, Invariance, PTL DEF Spec, ImplementsOrder, Order!OrderSpec
=============================================================================
