--------------------------- MODULE StateResProofs ---------------------------
(***************************************************************************)
(* Proofs about StateRes, for any events, forks and stores, and for every  *)
(* order in which its loops may run: what resolve works on never leaves    *)
(* the events of the forks and their auth chains, what they agree on is    *)
(* kept, events are dropped, or the resolution fails, only because the     *)
(* store lacked an event, and a standing ban is resolved before what the   *)
(* banned user did.                                                        *)
(***************************************************************************)
EXTENDS StateResProps, WellFoundedInduction, SequenceTheorems, FiniteSetTheorems, TLAPS

\* The least number principle, which stands in for induction.
LEMMA LeastNumber ==
    ASSUME NEW B, B \subseteq Nat, B # {}
    PROVE  \E n \in B : \A m \in B : n <= m
<1>1. PICK n \in B : \A m \in B : ~(<<m, n>> \in OpToRel(<, Nat))
  BY NatLessThanWellFounded, WFMin, Zenon
<1>2. \A m \in B : ~(m < n)
  BY <1>1 DEF OpToRel
<1>3. \A m \in B : n <= m
  BY <1>2
<1> QED BY <1>3

\* The equation of the function in retain, up to n.
Unfolds(f, s, w, n) ==
    f = [i \in 0..n |-> IF i = 0 THEN << >>
                        ELSE IF s[i] \in w THEN Append(f[i - 1], s[i]) ELSE f[i - 1]]

LEMMA UnfoldsExists ==
    ASSUME NEW s, NEW w, NEW len \in Nat
    PROVE  \E f : Unfolds(f, s, w, len)
<1> DEFINE Bad == {n \in Nat : ~ \E f : Unfolds(f, s, w, n)}
<1>1. SUFFICES ASSUME Bad # {} PROVE FALSE
  OBVIOUS
<1>2. PICK n \in Bad : \A m \in Bad : n <= m
  <2>1. Bad \subseteq Nat
    OBVIOUS
  <2> HIDE DEF Bad
  <2> QED BY <1>1, <2>1, LeastNumber
<1>3. n \in Nat /\ ~ \E f : Unfolds(f, s, w, n)
  BY <1>2
<1>4. n # 0
  <2> DEFINE f == [i \in 0..0 |-> << >>]
  <2>1. Unfolds(f, s, w, 0)
    BY DEF Unfolds
  <2> QED BY <1>3, <2>1
<1>5. n - 1 \in Nat /\ n - 1 \notin Bad
  BY <1>2, <1>3, <1>4
<1>6. PICK f : Unfolds(f, s, w, n - 1)
  BY <1>5
<1> DEFINE last == IF s[n] \in w THEN Append(f[n - 1], s[n]) ELSE f[n - 1]
           g == [i \in 0..n |-> IF i = n THEN last ELSE f[i]]
<1>7. \A i \in 0..(n - 1) : f[i] = IF i = 0 THEN << >>
                                    ELSE IF s[i] \in w THEN Append(f[i - 1], s[i]) ELSE f[i - 1]
  BY <1>6 DEF Unfolds
<1>8. ASSUME NEW i \in 0..n
      PROVE  g[i] = IF i = 0 THEN << >>
                    ELSE IF s[i] \in w THEN Append(g[i - 1], s[i]) ELSE g[i - 1]
  <2>1. CASE i = n
    <3>1. g[i] = last /\ g[i - 1] = f[n - 1]
      BY <1>3, <1>4, <2>1
    <3> QED BY <1>4, <2>1, <3>1
  <2>2. CASE i = 0
    BY <1>3, <1>4, <1>7, <2>2
  <2>3. CASE i # 0 /\ i # n
    <3>1. g[i] = f[i] /\ g[i - 1] = f[i - 1] /\ i \in 0..(n - 1)
      BY <1>3, <2>3
    <3> HIDE DEF g
    <3> QED BY <1>7, <2>3, <3>1
  <2> QED BY <2>1, <2>2, <2>3
<1>9. Unfolds(g, s, w, n)
  <2>1. g = [i \in 0..n |-> g[i]]
    OBVIOUS
  <2> HIDE DEF g
  <2> QED BY <1>8, <2>1 DEF Unfolds
<1> QED BY <1>3, <1>9

LEMMA RetainUnfolds ==
    ASSUME NEW s, NEW w, Len(s) \in Nat
    PROVE  \E f : Unfolds(f, s, w, Len(s)) /\ retain(s, w) = f[Len(s)]
<1> DEFINE f == CHOOSE f : Unfolds(f, s, w, Len(s))
<1>1. Unfolds(f, s, w, Len(s))
  BY UnfoldsExists
<1>2. retain(s, w) = f[Len(s)]
  BY DEF retain, Unfolds
<1> QED BY <1>1, <1>2

-----------------------------------------------------------------------------
(* What holds in every phase of resolve. *)

\* The events of the forks and of their auth chains.
ForkEvents(i) == {state_sets[i][k] : k \in DOMAIN state_sets[i]} \cup ChainOf(state_sets[i])

Involved == UNION {ForkEvents(i) : i \in Sets}

\* An event of which something was missing when resolve was called.
Lost(id) == ({id} \cup AuthChain[id]) \cap missing # {}

InputOK ==
    \E scenario \in Scenarios : version = scenario.version /\ state_sets \in scenario.state_sets

StoreOK ==
    /\ missing \subseteq Id /\ held \subseteq known /\ known \subseteq Id
    /\ Id \ held \subseteq missing

\* What the loops up to the sort hold.
SortOK ==
    /\ pc \in {"separate", "exists", "control", "graph", "levels", "sort", "auth", "mainline",
               "depth", "extend", "done", "err"}
    /\ todo \subseteq Involved
    /\ all_conflicted \subseteq Involved \cap known /\ (pc = "separate" => all_conflicted = {})
    /\ control_events \subseteq all_conflicted
    /\ pc = "control" => todo \subseteq all_conflicted
    /\ pc = "graph" => todo \subseteq all_conflicted
    /\ stack \in Seq(Id) /\ Elements(stack) \subseteq all_conflicted
    /\ DOMAIN graph \subseteq all_conflicted
    /\ \A e \in DOMAIN graph : graph[e] \subseteq all_conflicted
    /\ pc = "levels" => DOMAIN graph \subseteq DOMAIN event_to_pl \cup todo
    /\ pc = "sort" => DOMAIN graph \subseteq DOMAIN event_to_pl
    /\ \A e \in DOMAIN event_to_pl : event_to_pl[e] \in Level
    /\ sorted \in Seq(Id) /\ Elements(sorted) \subseteq DOMAIN graph

\* A state map has its events under their keys.
Keyed(map) == \A k \in DOMAIN map : \E id \in Id : map[k] = event[id] /\ k = KeyOf(id)

\* What iterative_auth_check holds.
AuthOK ==
    /\ queue \in Seq(Id) /\ Elements(queue) \subseteq all_conflicted
    /\ \A k \in DOMAIN resolved_state :
          resolved_state[k] \in Involved /\ k = KeyOf(resolved_state[k])
    /\ \A map \in auth_events : Keyed(map)
    /\ auth_events # {} => pc = "auth" /\ queue # << >>
    /\ second => pc \in {"auth", "extend", "done", "err"}

\* What mainline_sort holds: the walk for an event is in its auth chain, and an
\* event that is neither waiting nor walked for has a depth or is lost.
LineOK ==
    /\ mainline \in Seq(Id)
    /\ cursor \subseteq Involved
    /\ walked \subseteq Remaining /\ (pc # "depth" => walked = {})
    /\ \A c \in cursor, w \in walked : c \in {w} \cup AuthChain[w]
    /\ DOMAIN order_map \subseteq all_conflicted
    /\ \A e \in DOMAIN order_map : order_map[e] \in Int
    /\ pc = "depth" => /\ todo \subseteq Remaining
                       /\ \A id \in Remaining \ (todo \cup walked \cup DOMAIN order_map) : Lost(id)
    /\ (pc = "auth" /\ second) \/ pc \in {"extend", "done"} =>
          \A id \in Remaining \ DOMAIN order_map : Lost(id)

\* The inductive invariant of resolve.
ResIInv == InputOK /\ StoreOK /\ SortOK /\ AuthOK /\ LineOK

-----------------------------------------------------------------------------
(* Auth chains. *)

LEMMA AuthEventsAreIds ==
    ASSUME NEW id \in Id
    PROVE  AuthEvents(id) \subseteq Id /\ Len(event[id].auth_events) \in Nat
           /\ DOMAIN event[id].auth_events = 1..Len(event[id].auth_events)
<1>1. event[id].auth_events \in Seq(Id)
  BY ResAssumption
<1> DEFINE s == event[id].auth_events
<1> HIDE DEF s
<1>2. ASSUME s \in Seq(Id) PROVE Len(s) \in Nat /\ DOMAIN s = 1..Len(s) /\ \A i \in DOMAIN s : s[i] \in Id
  BY <1>2
<1>3. Len(s) \in Nat /\ DOMAIN s = 1..Len(s) /\ \A i \in DOMAIN s : s[i] \in Id
  BY <1>1, <1>2 DEF s
<1> QED BY <1>3 DEF s, AuthEvents

LEMMA ChainClosed ==
    ASSUME NEW id \in Id
    PROVE  /\ AuthChain[id] \subseteq Id /\ AuthEvents(id) \subseteq AuthChain[id]
           /\ \A a \in AuthChain[id] : AuthEvents(a) \subseteq AuthChain[id]
<1> DEFINE chains == {set \in SUBSET Id : AuthEvents(id) \subseteq set /\ AuthClosed(set)}
<1>1. AuthChain[id] = {a \in Id : \A set \in chains : a \in set}
  BY DEF AuthChain
<1>2. AuthEvents(id) \subseteq AuthChain[id]
  BY <1>1, AuthEventsAreIds
<1>3. ASSUME NEW a \in AuthChain[id] PROVE AuthEvents(a) \subseteq AuthChain[id]
  <2>1. a \in Id /\ \A set \in chains : a \in set
    BY <1>1
  <2>2. AuthEvents(a) \subseteq Id
    BY <2>1, AuthEventsAreIds
  <2>3. \A set \in chains : AuthEvents(a) \subseteq set
    BY <2>1 DEF AuthClosed
  <2> QED BY <1>1, <2>2, <2>3
<1> QED BY <1>1, <1>2, <1>3

\* The events of the forks and of their auth chains are closed under references.
LEMMA InvolvedClosed ==
    ASSUME InputOK
    PROVE  /\ Involved \subseteq Id
           /\ \A x \in Involved : AuthEvents(x) \subseteq Involved
<1>1. \A i \in Sets : \A k \in DOMAIN state_sets[i] : state_sets[i][k] \in Id
  BY ResAssumption DEF InputOK, Sets
<1>2. ASSUME NEW i \in Sets, NEW x \in ForkEvents(i)
      PROVE  x \in Id /\ AuthEvents(x) \subseteq ForkEvents(i)
  <2>1. CASE \E k \in DOMAIN state_sets[i] : x = state_sets[i][k]
    <3>1. PICK k \in DOMAIN state_sets[i] : x = state_sets[i][k]
      BY <2>1
    <3>2. x \in Id
      BY <1>1, <3>1
    <3>3. AuthEvents(x) \subseteq AuthChain[x]
      BY <3>2, ChainClosed
    <3>4. AuthChain[x] \subseteq ForkEvents(i)
      BY <3>1 DEF ForkEvents, ChainOf
    <3> QED BY <3>2, <3>3, <3>4
  <2>2. CASE \E k \in DOMAIN state_sets[i] : x \in AuthChain[state_sets[i][k]]
    <3>1. PICK k \in DOMAIN state_sets[i] : x \in AuthChain[state_sets[i][k]]
      BY <2>2
    <3>2. state_sets[i][k] \in Id
      BY <1>1
    <3>3. x \in Id /\ AuthEvents(x) \subseteq AuthChain[state_sets[i][k]]
      BY <3>1, <3>2, ChainClosed
    <3>4. AuthChain[state_sets[i][k]] \subseteq ForkEvents(i)
      BY <3>1 DEF ForkEvents, ChainOf
    <3> QED BY <3>3, <3>4
  <2> QED BY <2>1, <2>2 DEF ForkEvents, ChainOf
<1> QED BY <1>2 DEF Involved

-----------------------------------------------------------------------------
(* What resolve starts with. *)

LEMMA CleanIs ==
    ASSUME InputOK, NEW k \in DOMAIN clean
    PROVE  clean[k] \in Involved /\ k = KeyOf(clean[k])
<1> DEFINE first == CHOOSE i \in Sets : TRUE
<1>1. k \in StateKeys /\ ~ IsConflicted(k) /\ clean[k] = state_sets[first][k]
  BY DEF clean
<1>2. PICK j \in Sets : k \in DOMAIN state_sets[j]
  BY <1>1 DEF StateKeys
<1>3. first \in Sets
  BY <1>2
<1> HIDE DEF first
<1>4. Get(state_sets[first], k) = Get(state_sets[j], k)
  BY <1>1, <1>2, <1>3 DEF IsConflicted
<1>5. k \in DOMAIN state_sets[first]
  BY <1>2, <1>4 DEF Get
<1>6. clean[k] \in ForkEvents(first)
  BY <1>1, <1>5 DEF ForkEvents
<1>7. k = KeyOf(state_sets[first][k])
  BY <1>3, <1>5, ResAssumption DEF InputOK, Sets
<1> QED BY <1>1, <1>3, <1>6, <1>7 DEF Involved

LEMMA ConflictsInvolved ==
    ASSUME InputOK
    PROVE  AuthChainDiff \cup Conflicting \subseteq Involved
<1>1. AuthChainDiff \subseteq Involved
  BY DEF AuthChainDiff, Involved, ForkEvents
<1>2. ASSUME NEW x \in Conflicting PROVE x \in Involved
  <2>1. PICK i \in Sets, k \in StateKeys : x \in Get(state_sets[i], k)
    BY DEF Conflicting
  <2>2. x \in ForkEvents(i)
    BY <2>1 DEF Get, ForkEvents
  <2> QED BY <2>1, <2>2 DEF Involved
<1> QED BY <1>1, <1>2

-----------------------------------------------------------------------------
(* Walks down the power levels. *)

LEMMA LeastIs ==
    ASSUME NEW S, S \subseteq Nat, S # {}
    PROVE  Least(S) \in S
<1>1. \E n \in S : \A m \in S : n <= m
  BY LeastNumber
<1> QED BY <1>1 DEF Least

LEMMA WalkFacts ==
    ASSUME NEW id \in Id
    PROVE  /\ PreviousPowerLevels(id) \subseteq AuthEvents(id)
           /\ \A p \in PreviousPowerLevels(id) : IsPowerLevels(p)
           /\ WalkLost(id) => \E a \in AuthEvents(id) : a \notin held
<1>1. PowerLevelsAt(id) \subseteq Nat /\ PowerLevelsAt(id) \subseteq DOMAIN event[id].auth_events
  BY AuthEventsAreIds DEF PowerLevelsAt
<1>2. PowerLevelsAt(id) # {} => Least(PowerLevelsAt(id)) \in PowerLevelsAt(id)
  BY <1>1, LeastIs
<1>3. /\ PreviousPowerLevels(id) \subseteq AuthEvents(id)
      /\ \A p \in PreviousPowerLevels(id) : IsPowerLevels(p)
  BY <1>2 DEF PreviousPowerLevels, PowerLevelsAt, AuthEvents
<1>4. WalkLost(id) => \E a \in AuthEvents(id) : a \notin held
  BY DEF WalkLost, AuthEvents
<1> QED BY <1>3, <1>4

LEMMA SenderLevel ==
    ASSUME NEW id \in Id
    PROVE  get_power_level_for_sender(id) \in Level
<1>1. CASE SenderPowerLevels(id) = {}
  BY <1>1, ResAssumption DEF get_power_level_for_sender
<1>2. CASE SenderPowerLevels(id) # {}
  <2> DEFINE p == CHOOSE x \in SenderPowerLevels(id) : TRUE
  <2>1. p \in PreviousPowerLevels(id)
    BY <1>2 DEF SenderPowerLevels
  <2>2. get_power_level_for_sender(id) = UserLevel(event[p].content, event[id].sender)
    BY <1>2 DEF get_power_level_for_sender
  <2> HIDE DEF p
  <2>3. p \in Id /\ IsPowerLevels(p)
    BY <2>1, WalkFacts, AuthEventsAreIds
  <2> QED BY <2>2, <2>3, ResAssumption
<1> QED BY <1>1, <1>2

-----------------------------------------------------------------------------
(* mainline_sort's sort by key. *)

\* A list that has been sorted is a list of what was to be sorted: LeftBefore
\* orders any two events, so that each place has an event.
LEMMA SortedLeftIs ==
    ASSUME NEW depths, DOMAIN depths \subseteq Id, \A e \in DOMAIN depths : depths[e] \in Int
    PROVE  SortedLeft(depths) \in Seq(Id) /\ Elements(SortedLeft(depths)) \subseteq DOMAIN depths
<1> DEFINE D == DOMAIN depths
           n == Cardinality(D)
           Below(a) == {b \in D : LeftBefore(depths, b, a)}
           Rank(a) == Cardinality(Below(a)) + 1
<1>1. IsFiniteSet(D) /\ n \in Nat
  BY ResAssumption, FS_Subset, FS_CardinalityType
<1>2. \A e \in D : depths[e] \in Int /\ event[e].ts \in Int /\ e \in Int
  BY ResAssumption, OrderAssumption
<1>3. \A a, b \in D : a # b => LeftBefore(depths, a, b) \/ LeftBefore(depths, b, a)
  BY <1>2 DEF LeftBefore
<1>4. \A a \in D : ~ LeftBefore(depths, a, a)
  BY <1>2 DEF LeftBefore
<1>5. \A a, b, c \in D : LeftBefore(depths, a, b) /\ LeftBefore(depths, b, c) => LeftBefore(depths, a, c)
  BY <1>2 DEF LeftBefore
<1> HIDE DEF n, D
<1>6. ASSUME NEW a \in D PROVE Rank(a) \in 1..n
  <2> DEFINE B == Below(a)
  <2>1. B \in SUBSET D /\ a \notin B
    BY <1>4
  <2> HIDE DEF B
  <2>2. IsFiniteSet(B) /\ Cardinality(B) <= Cardinality(D) /\ Cardinality(B) # Cardinality(D)
    BY <1>1, <1>6, <2>1, FS_Subset
  <2>3. Cardinality(B) \in Nat
    BY <2>2, FS_CardinalityType
  <2>4. Cardinality(B) + 1 \in 1..n
    BY <1>1, <2>2, <2>3 DEF n
  <2> QED BY <2>4 DEF B
<1>7. ASSUME NEW a \in D, NEW b \in D, LeftBefore(depths, a, b) PROVE Rank(a) # Rank(b)
  <2> DEFINE A == Below(a)
             B == Below(b)
  <2>1. A \subseteq B
    BY <1>5, <1>7
  <2>2. a \in B /\ a \notin A /\ B \in SUBSET D
    BY <1>4, <1>7
  <2> HIDE DEF A, B
  <2>3. IsFiniteSet(B)
    BY <1>1, <2>2, FS_Subset
  <2>4. IsFiniteSet(A) /\ Cardinality(A) # Cardinality(B)
    BY <2>1, <2>2, <2>3, FS_Subset
  <2>5. Cardinality(A) \in Nat /\ Cardinality(B) \in Nat
    BY <2>3, <2>4, FS_CardinalityType
  <2>6. Cardinality(A) + 1 # Cardinality(B) + 1
    BY <2>4, <2>5
  <2> QED BY <2>6 DEF A, B
<1>8. ASSUME NEW i \in 1..n PROVE \E a \in D : Rank(a) = i
  <2> SUFFICES ASSUME \A a \in D : Rank(a) # i PROVE FALSE
    OBVIOUS
  <2> DEFINE T == (1..n) \ {i}
             f == [a \in D |-> Rank(a)]
  <2> HIDE DEF Rank
  <2>1. f \in [D -> T]
    BY <1>6
  <2>2. IsFiniteSet(1..n) /\ Cardinality(1..n) = n
    BY <1>1, FS_Interval
  <2>3. IsFiniteSet(T) /\ Cardinality(T) = n - 1
    BY <1>8, <2>2, FS_RemoveElement
  <2>4. Cardinality(T) < Cardinality(D)
    BY <1>1, <2>3 DEF n
  <2>5. \A a \in D : f[a] = Rank(a)
    OBVIOUS
  <2> HIDE DEF f, T
  <2>6. PICK a \in D, b \in D : a # b /\ f[a] = f[b]
    BY <1>1, <2>1, <2>3, <2>4, FS_PigeonHole
  <2> QED BY <1>3, <1>7, <2>5, <2>6
<1> DEFINE s == [i \in 1..n |-> CHOOSE a \in D : Rank(a) = i]
<1>9. SortedLeft(depths) = s
  BY DEF SortedLeft, D, n
<1> HIDE DEF Rank
<1>10. \A i \in 1..n : s[i] \in D
  BY <1>8
<1>11. s \in Seq(D) /\ Len(s) = n
  BY <1>1, <1>10
<1> HIDE DEF s
<1>12. s \in Seq(Id) /\ Elements(s) \subseteq D
  <2>1. D \subseteq Id
    BY DEF D
  <2> QED BY <1>10, <1>11, <2>1 DEF Elements
<1> QED BY <1>9, <1>12 DEF D

-----------------------------------------------------------------------------
(* The elements of lists. *)

LEMMA RetainIn ==
    ASSUME NEW S, NEW s \in Seq(S), NEW w
    PROVE  retain(s, w) \in Seq(S) /\ Elements(retain(s, w)) \subseteq w
<1>1. PICK f : Unfolds(f, s, w, Len(s)) /\ retain(s, w) = f[Len(s)]
  BY RetainUnfolds
<1> DEFINE Good(n) == f[n] \in Seq(S) /\ \A k \in 1..Len(f[n]) : f[n][k] \in w
           Bad == {n \in 0..Len(s) : ~ Good(n)}
<1>2. Bad = {}
  <2> SUFFICES ASSUME Bad # {} PROVE FALSE
    OBVIOUS
  <2>1. PICK n \in Bad : \A m \in Bad : n <= m
    <3>1. Bad \subseteq Nat
      OBVIOUS
    <3> HIDE DEF Bad
    <3> QED BY <3>1, LeastNumber
  <2>2. n \in 0..Len(s) /\ Len(s) \in Nat /\ ~ Good(n)
    BY <2>1
  <2>3. f[n] = IF n = 0 THEN << >>
               ELSE IF s[n] \in w THEN Append(f[n - 1], s[n]) ELSE f[n - 1]
    BY <1>1, <2>2 DEF Unfolds
  <2>4. n # 0
    BY <2>2, <2>3
  <2>5. n - 1 \in 0..Len(s) /\ s[n] \in S
    BY <2>2, <2>4
  <2>6. n - 1 \notin Bad
    <3> HIDE DEF Bad
    <3> QED BY <2>1, <2>2
  <2>7. Good(n - 1)
    BY <2>5, <2>6
  <2> DEFINE u == f[n - 1]
  <2>8. u \in Seq(S) /\ \A k \in 1..Len(u) : u[k] \in w
    BY <2>7
  <2>9. f[n] = IF s[n] \in w THEN Append(u, s[n]) ELSE u
    BY <2>3, <2>4
  <2> HIDE DEF u
  <2>10. s[n] \in w => /\ Append(u, s[n]) \in Seq(S)
                       /\ \A k \in 1..Len(Append(u, s[n])) : Append(u, s[n])[k] \in w
    BY <2>5, <2>8
  <2>11. Good(n)
    BY <2>8, <2>9, <2>10
  <2> QED BY <2>2, <2>11
<1>3. Good(Len(s))
  BY <1>2
<1> QED BY <1>1, <1>3 DEF Elements

LEMMA ConcatIn ==
    ASSUME NEW S, NEW a \in Seq(S), NEW b \in Seq(S), NEW w,
           Elements(a) \subseteq w, Elements(b) \subseteq w
    PROVE  a \o b \in Seq(S) /\ Elements(a \o b) \subseteq w
<1>1. /\ a \o b \in Seq(S) /\ Len(a \o b) = Len(a) + Len(b)
      /\ \A i \in 1..(Len(a) + Len(b)) : (a \o b)[i] = IF i <= Len(a) THEN a[i] ELSE b[i - Len(a)]
  BY ConcatProperties
<1>2. Len(a) \in Nat /\ Len(b) \in Nat
  OBVIOUS
<1>3. \A i \in 1..(Len(a) + Len(b)) : (a \o b)[i] \in w
  <2> SUFFICES ASSUME NEW i \in 1..(Len(a) + Len(b)) PROVE (a \o b)[i] \in w
    OBVIOUS
  <2>1. CASE i <= Len(a)
    <3>1. i \in 1..Len(a) /\ (a \o b)[i] = a[i]
      BY <1>1, <1>2, <2>1
    <3> QED BY <3>1 DEF Elements
  <2>2. CASE i > Len(a)
    <3>1. i - Len(a) \in 1..Len(b) /\ (a \o b)[i] = b[i - Len(a)]
      BY <1>1, <1>2, <2>2
    <3> QED BY <3>1 DEF Elements
  <2> QED BY <1>2, <2>1, <2>2
<1> QED BY <1>1, <1>3 DEF Elements

LEMMA FrontIn ==
    ASSUME NEW S, NEW s \in Seq(S), s # << >>
    PROVE  /\ SubSeq(s, 1, Len(s) - 1) \in Seq(S) /\ Elements(SubSeq(s, 1, Len(s) - 1)) \subseteq Elements(s)
           /\ Tail(s) \in Seq(S) /\ Elements(Tail(s)) \subseteq Elements(s)
           /\ s[Len(s)] \in Elements(s) /\ Head(s) \in Elements(s)
<1>1. Len(s) \in Nat /\ Len(s) >= 1
  OBVIOUS
<1>2. /\ SubSeq(s, 1, Len(s) - 1) \in Seq(S) /\ Len(SubSeq(s, 1, Len(s) - 1)) = Len(s) - 1
      /\ \A i \in 1..(Len(s) - 1) : SubSeq(s, 1, Len(s) - 1)[i] = s[i]
  <2> DEFINE n == Len(s) - 1
  <2>1. n \in Int /\ 1 \in Int /\ n >= 0 /\ \A i \in 1..n : s[i] \in S
    BY <1>1
  <2> HIDE DEF n
  <2>2. /\ SubSeq(s, 1, n) \in Seq(S) /\ Len(SubSeq(s, 1, n)) = IF 1 <= n THEN n - 1 + 1 ELSE 0
        /\ \A i \in 1..(n - 1 + 1) : SubSeq(s, 1, n)[i] = s[1 + i - 1]
    BY <2>1, SubSeqProperties
  <2>3. /\ SubSeq(s, 1, n) \in Seq(S) /\ Len(SubSeq(s, 1, n)) = n
        /\ \A i \in 1..n : SubSeq(s, 1, n)[i] = s[i]
    BY <2>1, <2>2
  <2> QED BY <2>3 DEF n
<1>3. /\ Tail(s) \in Seq(S) /\ Len(Tail(s)) = Len(s) - 1
      /\ \A i \in 1..(Len(s) - 1) : Tail(s)[i] = s[i + 1]
  BY <1>1, HeadTailProperties
<1>4. Head(s) = s[1]
  OBVIOUS
<1>5. \A i \in 1..(Len(s) - 1) : i \in 1..Len(s) /\ i + 1 \in 1..Len(s)
  BY <1>1
<1>6. Elements(Tail(s)) \subseteq Elements(s)
  BY <1>3, <1>5 DEF Elements
<1>7. Elements(SubSeq(s, 1, Len(s) - 1)) \subseteq Elements(s)
  BY <1>2, <1>5 DEF Elements
<1> QED BY <1>1, <1>2, <1>3, <1>4, <1>6, <1>7 DEF Elements

LEMMA AppendIn ==
    ASSUME NEW S, NEW s \in Seq(S), NEW x \in S
    PROVE  Append(s, x) \in Seq(S) /\ Elements(Append(s, x)) \subseteq Elements(s) \cup {x}
<1>1. /\ Append(s, x) \in Seq(S) /\ Len(Append(s, x)) = Len(s) + 1 /\ Len(s) \in Nat
      /\ \A i \in 1..Len(s) : Append(s, x)[i] = s[i]
      /\ Append(s, x)[Len(s) + 1] = x
  OBVIOUS
<1>2. \A i \in 1..(Len(s) + 1) : i \in 1..Len(s) \/ i = Len(s) + 1
  BY <1>1
<1> QED BY <1>1, <1>2 DEF Elements

-----------------------------------------------------------------------------
(* The steps. *)

\* The inputs do not change.
LEMMA Frame ==
    ASSUME InputOK, UNCHANGED inputVars
    PROVE  /\ InputOK' /\ Involved' = Involved /\ clean' = clean /\ missing' = missing
           /\ \A id : Lost(id) => Lost(id)'
<1>1. version' = version /\ state_sets' = state_sets /\ missing' = missing
  BY DEF inputVars
<1>2. InputOK'
  BY <1>1 DEF InputOK
<1>3. Involved' = Involved
  BY <1>1 DEF Involved, ForkEvents, ChainOf, Sets
<1>4. clean' = clean
  BY <1>1 DEF clean, StateKeys, IsConflicted, Sets
<1>5. \A id : Lost(id) => Lost(id)'
  BY <1>1 DEF Lost
<1> QED BY <1>1, <1>2, <1>3, <1>4, <1>5

LEMMA StoreFrame ==
    ASSUME StoreOK, UNCHANGED <<inputVars, storeVars>>
    PROVE  StoreOK' /\ held' = held /\ known' = known
BY DEF StoreOK, inputVars, storeVars

LEMMA ArriveStep ==
    ASSUME ResIInv, NEW id \in Id, Arrive(id)
    PROVE  ResIInv'
<1>1. InputOK' /\ Involved' = Involved /\ missing' = missing /\ \A x : Lost(x) => Lost(x)'
  BY Frame DEF ResIInv, Arrive
<1>2. StoreOK'
  BY <1>1 DEF ResIInv, Arrive, StoreOK
<1>3. Remaining' = Remaining
  BY DEF Arrive, sortVars, Remaining
<1>4. SortOK'
  BY <1>1 DEF ResIInv, Arrive, SortOK, sortVars
<1>5. AuthOK'
  BY <1>1 DEF ResIInv, Arrive, AuthOK, authVars, sortVars
<1>6. LineOK'
  BY <1>1, <1>3 DEF ResIInv, Arrive, LineOK, authVars, sortVars, lineVars
<1> QED BY <1>1, <1>2, <1>4, <1>5, <1>6 DEF ResIInv

LEMMA SeparateStep ==
    ASSUME ResIInv, Separate
    PROVE  ResIInv'
<1>1. UNCHANGED <<inputVars, storeVars>>
  BY DEF Separate, Advance
<1>2. InputOK' /\ Involved' = Involved /\ missing' = missing /\ \A x : Lost(x) => Lost(x)'
  BY <1>1, Frame DEF ResIInv
<1>3. StoreOK' /\ known' = known
  BY <1>1, StoreFrame DEF ResIInv
<1>4. todo' \subseteq Involved /\ pc' \in {"done", "exists"}
  BY ConflictsInvolved DEF ResIInv, Separate, Advance
<1>5. SortOK'
  BY <1>2, <1>3, <1>4 DEF ResIInv, Separate, SortOK, sortVars
<1>6. \A k \in DOMAIN clean : clean[k] \in Involved /\ k = KeyOf(clean[k])
  BY CleanIs DEF ResIInv
<1>7. AuthOK'
  BY <1>2, <1>4, <1>6 DEF ResIInv, Separate, AuthOK, sortVars
<1>8. Remaining' = {} /\ Remaining = {}
  BY DEF ResIInv, Separate, SortOK, sortVars, Remaining
<1>9. LineOK'
  BY <1>2, <1>4, <1>8 DEF ResIInv, Separate, LineOK, sortVars, lineVars
<1> QED BY <1>2, <1>3, <1>5, <1>7, <1>9 DEF ResIInv

LEMMA ExistsStep ==
    ASSUME ResIInv, NEW id \in Id, Exists(id)
    PROVE  ResIInv'
<1>1. UNCHANGED <<inputVars, storeVars>>
  BY DEF Exists, Take
<1>2. InputOK' /\ Involved' = Involved /\ missing' = missing /\ \A x : Lost(x) => Lost(x)'
  BY <1>1, Frame DEF ResIInv
<1>3. StoreOK' /\ known' = known
  BY <1>1, StoreFrame DEF ResIInv
<1>4. /\ pc = "exists" /\ pc' = pc /\ todo' \subseteq todo /\ id \in todo
      /\ all_conflicted \subseteq all_conflicted'
      /\ all_conflicted' \subseteq all_conflicted \cup ({id} \cap known)
  BY DEF Exists, Take
<1>5. SortOK'
  BY <1>2, <1>3, <1>4 DEF ResIInv, Exists, SortOK
<1>6. AuthOK'
  BY <1>2, <1>4 DEF ResIInv, Exists, AuthOK, authVars
<1>7. walked = {} /\ walked' = {}
  BY <1>4 DEF ResIInv, LineOK, Exists, lineVars
<1>8. LineOK'
  BY <1>2, <1>4, <1>6, <1>7 DEF ResIInv, Exists, LineOK, AuthOK, lineVars, authVars
<1> QED BY <1>2, <1>3, <1>5, <1>6, <1>8 DEF ResIInv

\* The ends of loops that only go on to the next one.
LEMMA LoopDone ==
    ASSUME ResIInv, ExistsDone \/ ControlDone \/ GraphDone \/ LevelsDone
    PROVE  ResIInv'
<1>1. UNCHANGED <<inputVars, storeVars, sortVars, authVars, lineVars>>
  BY DEF ExistsDone, ControlDone, GraphDone, LevelsDone, Advance
<1>2. InputOK' /\ Involved' = Involved /\ missing' = missing /\ \A x : Lost(x) => Lost(x)'
  BY <1>1, Frame DEF ResIInv
<1>3. StoreOK' /\ known' = known
  BY <1>1, StoreFrame DEF ResIInv
<1>4. /\ pc \in {"exists", "control", "graph", "levels"}
      /\ pc' \in {"control", "graph", "levels", "sort"}
  BY DEF ExistsDone, ControlDone, GraphDone, LevelsDone, Advance
<1>5. /\ pc' \in {"control", "graph"} => todo' \subseteq all_conflicted
      /\ pc' = "levels" => todo' = DOMAIN graph
      /\ pc' = "sort" => pc = "levels" /\ todo = {} /\ todo' = {}
  BY DEF ExistsDone, ControlDone, GraphDone, LevelsDone, Advance, ResIInv, SortOK
<1>6. SortOK'
  BY <1>1, <1>2, <1>3, <1>4, <1>5 DEF ResIInv, SortOK, sortVars
<1>7. AuthOK'
  BY <1>1, <1>2, <1>4 DEF ResIInv, AuthOK, authVars, sortVars
<1>8. Remaining' = Remaining
  BY <1>1 DEF Remaining, sortVars
<1>9. LineOK'
  BY <1>1, <1>2, <1>4, <1>8 DEF ResIInv, LineOK, lineVars, sortVars, authVars
<1> QED BY <1>2, <1>3, <1>6, <1>7, <1>9 DEF ResIInv

LEMMA ControlStep ==
    ASSUME ResIInv, NEW id \in Id, Control(id)
    PROVE  ResIInv'
<1>1. UNCHANGED <<inputVars, storeVars>>
  BY DEF Control, Take
<1>2. InputOK' /\ Involved' = Involved /\ missing' = missing /\ \A x : Lost(x) => Lost(x)'
  BY <1>1, Frame DEF ResIInv
<1>3. StoreOK' /\ known' = known
  BY <1>1, StoreFrame DEF ResIInv
<1>4. /\ pc = "control" /\ pc' = pc /\ todo' \subseteq todo /\ id \in todo
      /\ control_events' \subseteq control_events \cup {id} /\ all_conflicted' = all_conflicted
  BY DEF Control, Take
<1>5. SortOK'
  BY <1>2, <1>3, <1>4 DEF ResIInv, Control, SortOK
<1>6. AuthOK'
  BY <1>2, <1>4 DEF ResIInv, Control, AuthOK, authVars
<1>7. Remaining' = Remaining
  BY DEF Control, Remaining
<1>8. LineOK'
  BY <1>2, <1>4, <1>7 DEF ResIInv, Control, LineOK, lineVars, authVars
<1> QED BY <1>2, <1>3, <1>5, <1>6, <1>8 DEF ResIInv

LEMMA GraphRootStep ==
    ASSUME ResIInv, NEW id \in Id, GraphRoot(id)
    PROVE  ResIInv'
<1>1. UNCHANGED <<inputVars, storeVars>>
  BY DEF GraphRoot, Take
<1>2. InputOK' /\ Involved' = Involved /\ missing' = missing /\ \A x : Lost(x) => Lost(x)'
  BY <1>1, Frame DEF ResIInv
<1>3. StoreOK' /\ known' = known
  BY <1>1, StoreFrame DEF ResIInv
<1>4. /\ pc = "graph" /\ pc' = pc /\ todo' \subseteq todo /\ id \in todo
      /\ all_conflicted' = all_conflicted
  BY DEF GraphRoot, Take
<1>5. id \in all_conflicted
  BY <1>4 DEF ResIInv, SortOK
<1>6. stack' \in Seq(Id) /\ Elements(stack') \subseteq all_conflicted
  BY <1>5 DEF GraphRoot, Elements
<1>7. SortOK'
  BY <1>2, <1>3, <1>4, <1>6 DEF ResIInv, GraphRoot, SortOK
<1>8. AuthOK'
  BY <1>2, <1>4 DEF ResIInv, GraphRoot, AuthOK, authVars
<1>9. Remaining' = Remaining
  BY DEF GraphRoot, Remaining
<1>10. LineOK'
  BY <1>2, <1>4, <1>9 DEF ResIInv, GraphRoot, LineOK, lineVars, authVars
<1> QED BY <1>2, <1>3, <1>7, <1>8, <1>10 DEF ResIInv

LEMMA GraphStepStep ==
    ASSUME ResIInv, GraphStep
    PROVE  ResIInv'
<1> DEFINE eid == stack[Len(stack)]
           rest == SubSeq(stack, 1, Len(stack) - 1)
           aids == IF eid \in held THEN event[eid].auth_events ELSE << >>
           new == all_conflicted \ (DOMAIN graph \cup {eid})
           more == (UNION Get(graph, eid)) \cup (Elements(aids) \cap all_conflicted)
<1>1. UNCHANGED <<inputVars, storeVars>>
  BY DEF GraphStep
<1>2. InputOK' /\ Involved' = Involved /\ missing' = missing /\ \A x : Lost(x) => Lost(x)'
  BY <1>1, Frame DEF ResIInv
<1>3. StoreOK' /\ known' = known
  BY <1>1, StoreFrame DEF ResIInv
<1>4. pc = "graph" /\ pc' = pc /\ todo' = todo /\ all_conflicted' = all_conflicted /\ stack # << >>
  BY DEF GraphStep
<1>5. /\ stack' = rest \o retain(aids, new)
      /\ graph' = [e \in DOMAIN graph \cup {eid} |-> IF e = eid THEN more ELSE graph[e]]
  BY DEF GraphStep
<1>6. /\ stack \in Seq(Id) /\ Elements(stack) \subseteq all_conflicted
      /\ all_conflicted \subseteq Id /\ DOMAIN graph \subseteq all_conflicted
      /\ \A e \in DOMAIN graph : graph[e] \subseteq all_conflicted
  BY DEF ResIInv, SortOK, StoreOK
<1>7. rest \in Seq(Id) /\ Elements(rest) \subseteq all_conflicted /\ eid \in all_conflicted
  BY <1>4, <1>6, FrontIn
<1>8. aids \in Seq(Id)
  <2>1. eid \in Id
    BY <1>6, <1>7
  <2>2. event[eid].auth_events \in Seq(Id)
    BY <2>1, ResAssumption
  <2>3. << >> \in Seq(Id)
    OBVIOUS
  <2> QED BY <2>2, <2>3
<1>9. more \subseteq all_conflicted
  <2>1. ASSUME NEW x \in Get(graph, eid) PROVE x \subseteq all_conflicted
    BY <1>6 DEF Get
  <2>2. UNION Get(graph, eid) \subseteq all_conflicted
    BY <2>1
  <2>3. Elements(aids) \cap all_conflicted \subseteq all_conflicted
    OBVIOUS
  <2> HIDE DEF aids, eid
  <2> QED BY <2>2, <2>3
<1> HIDE DEF eid, rest, aids, more
<1>10. retain(aids, new) \in Seq(Id) /\ Elements(retain(aids, new)) \subseteq all_conflicted
  <2>1. retain(aids, new) \in Seq(Id) /\ Elements(retain(aids, new)) \subseteq new
    BY <1>8, RetainIn
  <2> QED BY <2>1
<1>11. stack' \in Seq(Id) /\ Elements(stack') \subseteq all_conflicted
  BY <1>5, <1>7, <1>10, ConcatIn
<1>12. /\ DOMAIN graph' \subseteq all_conflicted /\ DOMAIN graph \subseteq DOMAIN graph'
       /\ \A e \in DOMAIN graph' : graph'[e] \subseteq all_conflicted
  BY <1>5, <1>6, <1>7, <1>9
<1>13. SortOK'
  BY <1>2, <1>3, <1>4, <1>11, <1>12 DEF ResIInv, GraphStep, SortOK
<1>14. AuthOK'
  BY <1>2, <1>4 DEF ResIInv, GraphStep, AuthOK, authVars
<1>15. Remaining' = Remaining
  BY DEF GraphStep, Remaining
<1>16. LineOK'
  BY <1>2, <1>4, <1>15 DEF ResIInv, GraphStep, LineOK, lineVars, authVars
<1> QED BY <1>2, <1>3, <1>13, <1>14, <1>16 DEF ResIInv

LEMMA LevelsStep ==
    ASSUME ResIInv, NEW id \in Id, Levels(id)
    PROVE  ResIInv'
<1>1. UNCHANGED <<inputVars, storeVars>>
  BY DEF Levels, Take
<1>2. InputOK' /\ Involved' = Involved /\ missing' = missing /\ \A x : Lost(x) => Lost(x)'
  BY <1>1, Frame DEF ResIInv
<1>3. StoreOK' /\ known' = known
  BY <1>1, StoreFrame DEF ResIInv
<1>4. /\ pc = "levels" /\ pc' \in {pc, "err"} /\ todo' = todo \ {id} /\ id \in todo
      /\ all_conflicted' = all_conflicted
  BY DEF Levels, Take
<1>5. \/ pc' = "err" /\ event_to_pl' = event_to_pl
      \/ event_to_pl' = [e \in DOMAIN event_to_pl \cup {id} |->
                            IF e = id THEN get_power_level_for_sender(id) ELSE event_to_pl[e]]
  BY DEF Levels
<1>6. get_power_level_for_sender(id) \in Level
  BY SenderLevel
<1>7. \A e \in DOMAIN event_to_pl : event_to_pl[e] \in Level
  BY DEF ResIInv, SortOK
<1>8. /\ pc' # "err" => DOMAIN event_to_pl' = DOMAIN event_to_pl \cup {id}
      /\ \A e \in DOMAIN event_to_pl' : event_to_pl'[e] \in Level
  BY <1>5, <1>6, <1>7
<1>9. SortOK'
  BY <1>2, <1>3, <1>4, <1>8 DEF ResIInv, Levels, SortOK
<1>10. AuthOK'
  BY <1>2, <1>4 DEF ResIInv, Levels, AuthOK, authVars
<1>11. Remaining' = Remaining
  BY DEF Levels, Remaining
<1>12. LineOK'
  BY <1>2, <1>4, <1>11 DEF ResIInv, Levels, LineOK, lineVars, authVars
<1> QED BY <1>2, <1>3, <1>9, <1>10, <1>12 DEF ResIInv

LEMMA SortEmitStep ==
    ASSUME ResIInv, SortEmit
    PROVE  ResIInv'
<1>1. UNCHANGED <<inputVars, storeVars>>
  BY DEF SortEmit
<1>2. InputOK' /\ Involved' = Involved /\ missing' = missing /\ \A x : Lost(x) => Lost(x)'
  BY <1>1, Frame DEF ResIInv
<1>3. StoreOK' /\ known' = known
  BY <1>1, StoreFrame DEF ResIInv
<1>4. pc = "sort" /\ pc' = pc /\ todo' = todo /\ all_conflicted' = all_conflicted
  BY DEF SortEmit
<1>5. PICK id \in DOMAIN graph : sorted' = Append(sorted, id)
  BY DEF SortEmit, NextReady, Ready
<1>6. id \in Id
  BY DEF ResIInv, SortOK, StoreOK
<1>7. sorted \in Seq(Id) /\ Elements(sorted) \subseteq DOMAIN graph
  BY DEF ResIInv, SortOK
<1>8. sorted' \in Seq(Id) /\ Elements(sorted') \subseteq DOMAIN graph
  BY <1>5, <1>6, <1>7, AppendIn
<1>9. SortOK'
  BY <1>2, <1>3, <1>4, <1>8 DEF ResIInv, SortEmit, SortOK
<1>10. AuthOK'
  BY <1>2, <1>4 DEF ResIInv, SortEmit, AuthOK, authVars
<1>11. walked = {} /\ walked' = {}
  BY <1>4 DEF ResIInv, LineOK, SortEmit, lineVars
<1>12. LineOK'
  BY <1>2, <1>4, <1>11 DEF ResIInv, SortEmit, LineOK, lineVars, authVars
<1> QED BY <1>2, <1>3, <1>9, <1>10, <1>12 DEF ResIInv

LEMMA SortEndStep ==
    ASSUME ResIInv, SortFail \/ SortDone
    PROVE  ResIInv'
<1>1. UNCHANGED <<inputVars, storeVars, sortVars, auth_events, second, lineVars>>
  BY DEF SortFail, SortDone, Advance, authVars
<1>2. InputOK' /\ Involved' = Involved /\ missing' = missing /\ \A x : Lost(x) => Lost(x)'
  BY <1>1, Frame DEF ResIInv
<1>3. StoreOK' /\ known' = known
  BY <1>1, StoreFrame DEF ResIInv
<1>4. pc = "sort" /\ pc' \in {"auth", "err"} /\ todo' = {}
  BY DEF SortFail, SortDone, Advance
<1>5. SortOK'
  BY <1>1, <1>2, <1>3, <1>4 DEF ResIInv, SortOK, sortVars
<1>6. \A k \in DOMAIN clean : clean[k] \in Involved /\ k = KeyOf(clean[k])
  BY CleanIs DEF ResIInv
<1>7. /\ queue' = queue \/ queue' = sorted
      /\ resolved_state' = resolved_state \/ resolved_state' = clean
  BY DEF SortFail, SortDone, authVars
<1>8. /\ queue' \in Seq(Id) /\ Elements(queue') \subseteq all_conflicted
      /\ \A k \in DOMAIN resolved_state' :
            resolved_state'[k] \in Involved /\ k = KeyOf(resolved_state'[k])
  BY <1>6, <1>7 DEF ResIInv, SortOK, AuthOK
<1>9. auth_events = {} /\ ~ second
  BY <1>4 DEF ResIInv, AuthOK
<1>10. AuthOK'
  BY <1>1, <1>2, <1>4, <1>8, <1>9 DEF ResIInv, AuthOK, sortVars
<1>11. Remaining' = Remaining
  BY <1>1 DEF Remaining, sortVars
<1>12. LineOK'
  BY <1>1, <1>2, <1>4, <1>9, <1>11 DEF ResIInv, LineOK, lineVars, sortVars
<1> QED BY <1>2, <1>3, <1>5, <1>10, <1>12 DEF ResIInv

-----------------------------------------------------------------------------
(* iterative_auth_check. *)

LEMMA Greatest ==
    ASSUME NEW n \in Nat, NEW S, S \subseteq 1..n, S # {}
    PROVE  \E m \in S : \A j \in S : j <= m
<1> DEFINE B == {n - i : i \in S}
<1>1. B \subseteq Nat /\ B # {}
  <2>1. \A i \in 1..n : n - i \in Nat
    OBVIOUS
  <2>2. \A i \in S : n - i \in Nat
    BY <2>1
  <2>3. PICK i \in S : TRUE
    OBVIOUS
  <2>4. n - i \in B
    BY <2>3
  <2> QED BY <2>2, <2>4
<1>2. PICK b \in B : \A c \in B : b <= c
  <2> HIDE DEF B
  <2> QED BY <1>1, LeastNumber
<1>3. PICK m \in S : b = n - m
  BY <1>2
<1>4. ASSUME NEW j \in S PROVE j <= m
  <2>1. n - j \in B
    OBVIOUS
  <2>2. n - m <= n - j
    BY <1>2, <1>3, <2>1
  <2>3. m \in Int /\ j \in Int
    OBVIOUS
  <2> QED BY <2>2, <2>3
<1> QED BY <1>4

\* What an event is checked against is a state map.
LEMMA OwnMapKeyed ==
    ASSUME NEW id \in Id
    PROVE  Keyed(OwnMap(id))
<1> DEFINE aids == event[id].auth_events
           at == {i \in DOMAIN aids : aids[i] \in held}
           Last(k) == CHOOSE i \in at : KeyOf(aids[i]) = k /\ \A j \in at : KeyOf(aids[j]) = k => j <= i
<1>1. OwnMap(id) = [k \in {KeyOf(aids[i]) : i \in at} |-> event[aids[Last(k)]]]
  BY DEF OwnMap
<1>2. Len(aids) \in Nat /\ DOMAIN aids = 1..Len(aids) /\ \A i \in DOMAIN aids : aids[i] \in Id
  BY AuthEventsAreIds DEF AuthEvents
<1> HIDE DEF aids
<1>3. ASSUME NEW k \in {KeyOf(aids[i]) : i \in at} PROVE Last(k) \in at /\ KeyOf(aids[Last(k)]) = k
  <2> DEFINE S == {i \in at : KeyOf(aids[i]) = k}
  <2>1. S \subseteq 1..Len(aids) /\ S # {}
    BY <1>2, <1>3
  <2>2. PICK m \in S : \A j \in S : j <= m
    <3> HIDE DEF S
    <3> QED BY <1>2, <2>1, Greatest
  <2>3. m \in at /\ KeyOf(aids[m]) = k /\ \A j \in at : KeyOf(aids[j]) = k => j <= m
    BY <2>2
  <2> HIDE DEF at
  <2> QED BY <2>3
<1> HIDE DEF Last
<1>4. DOMAIN OwnMap(id) = {KeyOf(aids[i]) : i \in at}
  BY <1>1
<1>5. ASSUME NEW k \in DOMAIN OwnMap(id)
      PROVE  \E x \in Id : OwnMap(id)[k] = event[x] /\ k = KeyOf(x)
  <2>1. OwnMap(id)[k] = event[aids[Last(k)]]
    BY <1>1, <1>5
  <2>2. Last(k) \in at /\ KeyOf(aids[Last(k)]) = k
    BY <1>3, <1>4, <1>5
  <2>3. aids[Last(k)] \in Id
    BY <1>2, <2>2
  <2> QED BY <2>1, <2>2, <2>3
<1> QED BY <1>5 DEF Keyed

LEMMA AuthMapKeyed ==
    ASSUME NEW id \in Id, held \subseteq Id,
           \A k \in DOMAIN resolved_state : k = KeyOf(resolved_state[k])
    PROVE  Keyed(AuthMap(id, resolved_state))
<1> DEFINE own == OwnMap(id)
           state == Fetched(resolved_state)
           keys == auth_types_for_event(event[id])
           fresh == keys \cap DOMAIN state
           map == AuthMap(id, resolved_state)
<1>1. Keyed(own)
  BY OwnMapKeyed
<1>2. Keyed(state)
  BY DEF Keyed, Fetched
<1>3. map = [k \in DOMAIN own \cup fresh |-> IF k \in fresh THEN state[k] ELSE own[k]]
  BY DEF AuthMap, Overlay
<1> HIDE DEF own, state, keys, map
<1>4. DOMAIN map = DOMAIN own \cup fresh
      /\ \A k \in DOMAIN map : map[k] = IF k \in fresh THEN state[k] ELSE own[k]
  BY <1>3
<1>5. Keyed(map)
  <2> SUFFICES ASSUME NEW k \in DOMAIN map PROVE \E x \in Id : map[k] = event[x] /\ k = KeyOf(x)
    BY DEF Keyed
  <2>1. CASE k \in fresh
    BY <1>2, <1>4, <2>1 DEF Keyed
  <2>2. CASE k \notin fresh
    BY <1>1, <1>4, <2>2 DEF Keyed
  <2> QED BY <2>1, <2>2
<1> QED BY <1>5 DEF map

LEMMA AuthGatherStep ==
    ASSUME ResIInv, AuthGather
    PROVE  ResIInv'
<1>1. UNCHANGED <<inputVars, storeVars, todo, sortVars, queue, second, resolved_state, lineVars>>
  BY DEF AuthGather
<1>2. InputOK' /\ Involved' = Involved /\ missing' = missing /\ \A x : Lost(x) => Lost(x)'
  BY <1>1, Frame DEF ResIInv
<1>3. StoreOK' /\ known' = known
  BY <1>1, StoreFrame DEF ResIInv
<1>4. pc = "auth" /\ pc' \in {"auth", "err"} /\ queue # << >>
  BY DEF AuthGather
<1>5. SortOK'
  BY <1>1, <1>2, <1>3, <1>4 DEF ResIInv, SortOK, sortVars
<1>6. Head(queue) \in Id
  <2>1. queue \in Seq(Id) /\ Elements(queue) \subseteq all_conflicted /\ all_conflicted \subseteq Id
    BY DEF ResIInv, AuthOK, SortOK, StoreOK
  <2> QED BY <1>4, <2>1, FrontIn
<1>7. Keyed(AuthMap(Head(queue), resolved_state))
  <2>1. held \subseteq Id /\ \A k \in DOMAIN resolved_state : k = KeyOf(resolved_state[k])
    BY DEF ResIInv, AuthOK, StoreOK
  <2> QED BY <1>6, <2>1, AuthMapKeyed
<1>8. \/ auth_events' = {} /\ pc' = "err"
      \/ auth_events' = {AuthMap(Head(queue), resolved_state)} /\ pc' = "auth"
  BY <1>4 DEF AuthGather
<1>9. AuthOK'
  BY <1>1, <1>2, <1>4, <1>7, <1>8 DEF ResIInv, AuthOK, sortVars
<1>10. Remaining' = Remaining
  BY <1>1 DEF Remaining, sortVars
<1>11. LineOK'
  BY <1>1, <1>2, <1>4, <1>10 DEF ResIInv, LineOK, lineVars, sortVars
<1> QED BY <1>2, <1>3, <1>5, <1>9, <1>11 DEF ResIInv

LEMMA AuthStepStep ==
    ASSUME ResIInv, AuthStep
    PROVE  ResIInv'
<1> DEFINE id == Head(queue)
<1>1. UNCHANGED <<inputVars, storeVars, todo, sortVars, second, lineVars>>
  BY DEF AuthStep
<1>2. InputOK' /\ Involved' = Involved /\ missing' = missing /\ \A x : Lost(x) => Lost(x)'
  BY <1>1, Frame DEF ResIInv
<1>3. StoreOK' /\ known' = known
  BY <1>1, StoreFrame DEF ResIInv
<1>4. /\ pc = "auth" /\ pc' \in {"auth", "err"} /\ queue' = Tail(queue) /\ auth_events' = {}
      /\ auth_events # {}
      /\ \/ resolved_state' = resolved_state
         \/ resolved_state' = [k \in DOMAIN resolved_state \cup {KeyOf(id)} |->
                                 IF k = KeyOf(id) THEN id ELSE resolved_state[k]]
  BY DEF AuthStep
<1>5. SortOK'
  BY <1>1, <1>2, <1>3, <1>4 DEF ResIInv, SortOK, sortVars
<1>6. queue \in Seq(Id) /\ Elements(queue) \subseteq all_conflicted /\ queue # << >>
  BY <1>4 DEF ResIInv, AuthOK
<1>7. queue' \in Seq(Id) /\ Elements(queue') \subseteq all_conflicted /\ id \in all_conflicted
  BY <1>4, <1>6, FrontIn
<1>8. id \in Involved
  BY <1>7 DEF ResIInv, SortOK
<1> HIDE DEF id
<1>9. \A k \in DOMAIN resolved_state' :
         resolved_state'[k] \in Involved /\ k = KeyOf(resolved_state'[k])
  BY <1>4, <1>8 DEF ResIInv, AuthOK
<1>10. AuthOK'
  BY <1>1, <1>2, <1>4, <1>7, <1>9 DEF ResIInv, AuthOK, sortVars
<1>11. Remaining' = Remaining
  BY <1>1 DEF Remaining, sortVars
<1>12. LineOK'
  BY <1>1, <1>2, <1>4, <1>11 DEF ResIInv, LineOK, lineVars, sortVars
<1> QED BY <1>2, <1>3, <1>5, <1>10, <1>12 DEF ResIInv

LEMMA ControlResolvedStep ==
    ASSUME ResIInv, ControlResolved
    PROVE  ResIInv'
<1>1. UNCHANGED <<inputVars, storeVars, sortVars, authVars, mainline, walked, order_map>>
  BY DEF ControlResolved, Advance
<1>2. InputOK' /\ Involved' = Involved /\ missing' = missing /\ \A x : Lost(x) => Lost(x)'
  BY <1>1, Frame DEF ResIInv
<1>3. StoreOK' /\ known' = known
  BY <1>1, StoreFrame DEF ResIInv
<1>4. /\ pc = "auth" /\ queue = << >> /\ ~ second /\ todo' = {}
      /\ \/ pc' = "extend" /\ Remaining = {} /\ cursor' = cursor
         \/ pc' = "mainline" /\ cursor' = Get(resolved_state, <<PowerLevels, "">>)
  BY DEF ControlResolved, Advance
<1>5. SortOK'
  BY <1>1, <1>2, <1>3, <1>4 DEF ResIInv, SortOK, sortVars
<1>6. AuthOK'
  BY <1>1, <1>2, <1>4 DEF ResIInv, AuthOK, sortVars, authVars
<1>7. Remaining' = Remaining
  BY <1>1 DEF Remaining, sortVars
<1>8. cursor' \subseteq Involved
  <2>1. \A k \in DOMAIN resolved_state : resolved_state[k] \in Involved
    BY DEF ResIInv, AuthOK
  <2>2. Get(resolved_state, <<PowerLevels, "">>) \subseteq Involved
    BY <2>1 DEF Get
  <2>3. cursor \subseteq Involved
    BY DEF ResIInv, LineOK
  <2> QED BY <1>4, <2>2, <2>3
<1>9. walked = {} /\ walked' = {}
  BY <1>1, <1>4 DEF ResIInv, LineOK
<1>10. LineOK'
  BY <1>1, <1>2, <1>4, <1>7, <1>8, <1>9 DEF ResIInv, LineOK, sortVars, authVars
<1> QED BY <1>2, <1>3, <1>5, <1>6, <1>10 DEF ResIInv

-----------------------------------------------------------------------------
(* mainline_sort and the end. *)

LEMMA MainlineStepStep ==
    ASSUME ResIInv, MainlineStep
    PROVE  ResIInv'
<1>1. UNCHANGED <<inputVars, storeVars, todo, sortVars, authVars, walked, order_map>>
  BY DEF MainlineStep
<1>2. InputOK' /\ Involved' = Involved /\ missing' = missing /\ \A x : Lost(x) => Lost(x)'
  BY <1>1, Frame DEF ResIInv
<1>3. StoreOK' /\ known' = known
  BY <1>1, StoreFrame DEF ResIInv
<1>4. PICK p \in cursor : /\ mainline' = Append(mainline, p)
                          /\ \/ pc' = "err" /\ cursor' = cursor
                             \/ pc' = pc /\ cursor' = PreviousPowerLevels(p)
  BY DEF MainlineStep
<1>5. pc = "mainline" /\ pc' \in {"mainline", "err"}
  BY <1>4 DEF MainlineStep
<1>6. SortOK'
  BY <1>1, <1>2, <1>3, <1>5 DEF ResIInv, SortOK, sortVars
<1>7. AuthOK'
  BY <1>1, <1>2, <1>5 DEF ResIInv, AuthOK, sortVars, authVars
<1>8. Remaining' = Remaining
  BY <1>1 DEF Remaining, sortVars
<1>9. cursor \subseteq Involved /\ mainline \in Seq(Id)
  BY DEF ResIInv, LineOK
<1>10. Involved \subseteq Id /\ AuthEvents(p) \subseteq Involved
  BY <1>4, <1>9, InvolvedClosed DEF ResIInv
<1>11. p \in Id /\ PreviousPowerLevels(p) \subseteq Involved
  BY <1>9, <1>10, WalkFacts
<1>12. cursor' \subseteq Involved
  BY <1>4, <1>9, <1>11
<1>13. mainline' \in Seq(Id)
  BY <1>4, <1>9, <1>11, AppendIn
<1>14. walked = {} /\ walked' = {}
  BY <1>1, <1>5 DEF ResIInv, LineOK
<1>15. LineOK'
  BY <1>1, <1>2, <1>5, <1>8, <1>12, <1>13, <1>14 DEF ResIInv, LineOK, sortVars, authVars
<1> QED BY <1>2, <1>3, <1>6, <1>7, <1>15 DEF ResIInv

LEMMA MainlineDoneStep ==
    ASSUME ResIInv, MainlineDone
    PROVE  ResIInv'
<1>1. UNCHANGED <<inputVars, storeVars, sortVars, authVars, lineVars>>
  BY DEF MainlineDone, Advance
<1>2. InputOK' /\ Involved' = Involved /\ missing' = missing /\ \A x : Lost(x) => Lost(x)'
  BY <1>1, Frame DEF ResIInv
<1>3. StoreOK' /\ known' = known
  BY <1>1, StoreFrame DEF ResIInv
<1>4. pc = "mainline" /\ pc' = "depth" /\ todo' = Remaining
  BY DEF MainlineDone, Advance
<1>5. Remaining \subseteq Involved
  BY DEF ResIInv, SortOK, Remaining
<1>6. SortOK'
  BY <1>1, <1>2, <1>3, <1>4, <1>5 DEF ResIInv, SortOK, sortVars
<1>7. AuthOK'
  BY <1>1, <1>2, <1>4 DEF ResIInv, AuthOK, sortVars, authVars
<1>8. Remaining' = Remaining
  BY <1>1 DEF Remaining, sortVars
<1>9. LineOK'
  BY <1>1, <1>2, <1>4, <1>8 DEF ResIInv, LineOK, sortVars, authVars, lineVars
<1> QED BY <1>2, <1>3, <1>6, <1>7, <1>9 DEF ResIInv

LEMMA DepthStartStep ==
    ASSUME ResIInv, NEW id \in Id, DepthStart(id)
    PROVE  ResIInv'
<1>1. UNCHANGED <<inputVars, storeVars, pc, sortVars, authVars, mainline, order_map>>
  BY DEF DepthStart, Take
<1>2. InputOK' /\ Involved' = Involved /\ missing' = missing /\ \A x : Lost(x) => Lost(x)'
  BY <1>1, Frame DEF ResIInv
<1>3. StoreOK' /\ known' = known
  BY <1>1, StoreFrame DEF ResIInv
<1>4. /\ pc = "depth" /\ id \in todo /\ todo' = todo \ {id} /\ walked = {}
      /\ walked' = {id} \cap held /\ cursor' = {id} \cap held
  BY DEF DepthStart, Take
<1>5. SortOK'
  BY <1>1, <1>2, <1>3, <1>4 DEF ResIInv, SortOK, sortVars
<1>6. AuthOK'
  BY <1>1, <1>2, <1>4 DEF ResIInv, AuthOK, sortVars, authVars
<1>7. Remaining' = Remaining
  BY <1>1 DEF Remaining, sortVars
<1>8. todo \subseteq Remaining /\ todo \subseteq Involved
  BY <1>4 DEF ResIInv, LineOK, SortOK
<1>9. \A x \in Remaining \ (todo \cup walked \cup DOMAIN order_map) : Lost(x)
  BY <1>4 DEF ResIInv, LineOK
<1>10. id \notin held => Lost(id)
  BY DEF ResIInv, StoreOK, Lost
<1>11. \A x \in Remaining \ (todo' \cup walked' \cup DOMAIN order_map) : Lost(x)
  BY <1>4, <1>9, <1>10
<1>12. \A c \in cursor', w \in walked' : c \in {w} \cup AuthChain[w]
  BY <1>4
<1>13. LineOK'
  BY <1>1, <1>2, <1>4, <1>7, <1>8, <1>11, <1>12 DEF ResIInv, LineOK, sortVars, authVars
<1> QED BY <1>2, <1>3, <1>5, <1>6, <1>13 DEF ResIInv

LEMMA DepthIsInt ==
    ASSUME mainline \in Seq(Id), NEW c \in Elements(mainline)
    PROVE  MainlineDepth(c) \in Int
<1> DEFINE i == CHOOSE j \in DOMAIN mainline : mainline[j] = c
<1>1. Len(mainline) \in Nat /\ DOMAIN mainline = 1..Len(mainline)
  OBVIOUS
<1>2. i \in DOMAIN mainline
  BY <1>1 DEF Elements
<1>3. MainlineDepth(c) = Len(mainline) - i
  BY DEF MainlineDepth
<1> HIDE DEF i
<1> QED BY <1>1, <1>2, <1>3

LEMMA RecordIs ==
    ASSUME NEW depth \in Int, Record(depth), \A e \in DOMAIN order_map : order_map[e] \in Int
    PROVE  /\ DOMAIN order_map' = DOMAIN order_map \cup walked
           /\ \A e \in DOMAIN order_map' : order_map'[e] \in Int
BY DEF Record

LEMMA DepthStepStep ==
    ASSUME ResIInv, DepthStep
    PROVE  ResIInv'
<1>1. UNCHANGED <<inputVars, storeVars, pc, todo, sortVars, authVars, mainline>>
  BY DEF DepthStep
<1>2. InputOK' /\ Involved' = Involved /\ missing' = missing /\ \A x : Lost(x) => Lost(x)'
  BY <1>1, Frame DEF ResIInv
<1>3. StoreOK' /\ known' = known
  BY <1>1, StoreFrame DEF ResIInv
<1>4. pc = "depth"
  BY DEF DepthStep
<1>5. PICK c \in cursor :
         \/ /\ c \in Elements(mainline)
            /\ Record(MainlineDepth(c)) /\ cursor' = {} /\ walked' = {}
         \/ Record(0) /\ cursor' = {} /\ walked' = {}
         \/ WalkLost(c) /\ cursor' = {} /\ walked' = {} /\ order_map' = order_map
         \/ cursor' = PreviousPowerLevels(c) /\ walked' = walked /\ order_map' = order_map
  BY DEF DepthStep
<1>6. SortOK'
  BY <1>1, <1>2, <1>3, <1>4 DEF ResIInv, SortOK, sortVars
<1>7. AuthOK'
  BY <1>1, <1>2, <1>4 DEF ResIInv, AuthOK, sortVars, authVars
<1>8. Remaining' = Remaining
  BY <1>1 DEF Remaining, sortVars
<1>9. /\ mainline \in Seq(Id) /\ cursor \subseteq Involved /\ walked \subseteq Remaining
      /\ \A x \in cursor, w \in walked : x \in {w} \cup AuthChain[w]
      /\ DOMAIN order_map \subseteq all_conflicted
      /\ \A e \in DOMAIN order_map : order_map[e] \in Int
      /\ todo \subseteq Remaining
      /\ \A x \in Remaining \ (todo \cup walked \cup DOMAIN order_map) : Lost(x)
  BY <1>4 DEF ResIInv, LineOK
<1>10. Involved \subseteq Id /\ AuthEvents(c) \subseteq Involved
  BY <1>5, <1>9, InvolvedClosed DEF ResIInv
<1>11. c \in Id /\ PreviousPowerLevels(c) \subseteq AuthEvents(c)
  BY <1>5, <1>9, <1>10, WalkFacts
<1>12. ASSUME NEW w \in walked PROVE AuthEvents(c) \subseteq AuthChain[w]
  <2>1. w \in Id
    BY <1>9, <1>10 DEF ResIInv, SortOK, Remaining
  <2>2. c = w \/ c \in AuthChain[w]
    BY <1>5, <1>9
  <2> QED BY <2>1, <2>2, ChainClosed
<1>13. cursor' \subseteq Involved /\ walked' \subseteq Remaining
       /\ \A x \in cursor', w \in walked' : x \in {w} \cup AuthChain[w]
  BY <1>5, <1>9, <1>10, <1>11, <1>12
<1>14. WalkLost(c) => \A w \in walked : Lost(w)
  <2> SUFFICES ASSUME WalkLost(c), NEW w \in walked PROVE Lost(w)
    OBVIOUS
  <2>1. PICK a \in AuthEvents(c) : a \notin held
    BY <1>11, WalkFacts
  <2>2. a \in missing
    BY <1>10, <2>1 DEF ResIInv, StoreOK
  <2> QED BY <1>12, <2>1, <2>2 DEF Lost
<1>15. walked \subseteq all_conflicted
  BY <1>9 DEF Remaining
<1>16. /\ DOMAIN order_map' \subseteq all_conflicted
       /\ \A e \in DOMAIN order_map' : order_map'[e] \in Int
       /\ \A x \in Remaining \ (todo \cup walked' \cup DOMAIN order_map') : Lost(x)
  <2>1. CASE c \in Elements(mainline) /\ Record(MainlineDepth(c)) /\ walked' = {}
    <3>1. MainlineDepth(c) \in Int
      BY <1>9, <2>1, DepthIsInt
    <3>2. /\ DOMAIN order_map' = DOMAIN order_map \cup walked
          /\ \A e \in DOMAIN order_map' : order_map'[e] \in Int
      BY <1>9, <2>1, <3>1, RecordIs
    <3> QED BY <1>9, <1>15, <2>1, <3>2
  <2>2. CASE Record(0) /\ walked' = {}
    <3>1. /\ DOMAIN order_map' = DOMAIN order_map \cup walked
          /\ \A e \in DOMAIN order_map' : order_map'[e] \in Int
      <4>1. 0 \in Int
        OBVIOUS
      <4> QED BY <1>9, <2>2, <4>1, RecordIs
    <3> QED BY <1>9, <1>15, <2>2, <3>1
  <2>3. CASE WalkLost(c) /\ walked' = {} /\ order_map' = order_map
    BY <1>9, <1>14, <2>3
  <2>4. CASE walked' = walked /\ order_map' = order_map
    BY <1>9, <2>4
  <2> QED BY <1>5, <2>1, <2>2, <2>3, <2>4
<1>17. LineOK'
  BY <1>1, <1>2, <1>4, <1>8, <1>9, <1>13, <1>16 DEF LineOK, sortVars, authVars
<1> QED BY <1>2, <1>3, <1>6, <1>7, <1>17 DEF ResIInv

LEMMA DepthDoneStep ==
    ASSUME ResIInv, DepthDone
    PROVE  ResIInv'
<1>1. UNCHANGED <<inputVars, storeVars, sortVars, auth_events, resolved_state, lineVars>>
  BY DEF DepthDone, Advance
<1>2. InputOK' /\ Involved' = Involved /\ missing' = missing /\ \A x : Lost(x) => Lost(x)'
  BY <1>1, Frame DEF ResIInv
<1>3. StoreOK' /\ known' = known
  BY <1>1, StoreFrame DEF ResIInv
<1>4. /\ pc = "depth" /\ todo = {} /\ walked = {} /\ pc' = "auth" /\ todo' = {}
      /\ queue' = SortedLeft(order_map) /\ second'
  BY DEF DepthDone, Advance
<1>5. SortOK'
  BY <1>1, <1>2, <1>3, <1>4 DEF ResIInv, SortOK, sortVars
<1>6. /\ DOMAIN order_map \subseteq all_conflicted /\ all_conflicted \subseteq Id
      /\ \A e \in DOMAIN order_map : order_map[e] \in Int
  BY DEF ResIInv, LineOK, SortOK, StoreOK
<1>7. queue' \in Seq(Id) /\ Elements(queue') \subseteq all_conflicted
  <2>1. SortedLeft(order_map) \in Seq(Id)
        /\ Elements(SortedLeft(order_map)) \subseteq DOMAIN order_map
    BY <1>6, SortedLeftIs
  <2> QED BY <1>4, <1>6, <2>1
<1>8. auth_events = {}
  BY <1>4 DEF ResIInv, AuthOK
<1>9. AuthOK'
  BY <1>1, <1>2, <1>4, <1>7, <1>8 DEF ResIInv, AuthOK, sortVars
<1>10. Remaining' = Remaining
  BY <1>1 DEF Remaining, sortVars
<1>11. LineOK'
  BY <1>1, <1>2, <1>4, <1>10 DEF ResIInv, LineOK, sortVars, lineVars
<1> QED BY <1>2, <1>3, <1>5, <1>9, <1>11 DEF ResIInv

LEMMA LeftResolvedStep ==
    ASSUME ResIInv, LeftResolved
    PROVE  ResIInv'
<1>1. UNCHANGED <<inputVars, storeVars, sortVars, authVars, lineVars>>
  BY DEF LeftResolved, Advance
<1>2. InputOK' /\ Involved' = Involved /\ missing' = missing /\ \A x : Lost(x) => Lost(x)'
  BY <1>1, Frame DEF ResIInv
<1>3. StoreOK' /\ known' = known
  BY <1>1, StoreFrame DEF ResIInv
<1>4. pc = "auth" /\ queue = << >> /\ second /\ pc' = "extend" /\ todo' = {}
  BY DEF LeftResolved, Advance
<1>5. SortOK'
  BY <1>1, <1>2, <1>3, <1>4 DEF ResIInv, SortOK, sortVars
<1>6. AuthOK'
  BY <1>1, <1>2, <1>4 DEF ResIInv, AuthOK, sortVars, authVars
<1>7. Remaining' = Remaining
  BY <1>1 DEF Remaining, sortVars
<1>8. LineOK'
  BY <1>1, <1>2, <1>4, <1>7 DEF ResIInv, LineOK, sortVars, authVars, lineVars
<1> QED BY <1>2, <1>3, <1>5, <1>6, <1>8 DEF ResIInv

LEMMA ExtendStep ==
    ASSUME ResIInv, Extend
    PROVE  ResIInv'
<1>1. UNCHANGED <<inputVars, storeVars, sortVars, queue, auth_events, second, lineVars>>
  BY DEF Extend, Advance
<1>2. InputOK' /\ Involved' = Involved /\ missing' = missing /\ \A x : Lost(x) => Lost(x)'
  BY <1>1, Frame DEF ResIInv
<1>3. StoreOK' /\ known' = known
  BY <1>1, StoreFrame DEF ResIInv
<1>4. /\ pc = "extend" /\ pc' = "done" /\ todo' = {}
      /\ resolved_state' = Overlay(resolved_state, clean, DOMAIN clean)
  BY DEF Extend, Advance
<1>5. SortOK'
  BY <1>1, <1>2, <1>3, <1>4 DEF ResIInv, SortOK, sortVars
<1>6. \A k \in DOMAIN clean : clean[k] \in Involved /\ k = KeyOf(clean[k])
  BY CleanIs DEF ResIInv
<1>7. \A k \in DOMAIN resolved_state :
         resolved_state[k] \in Involved /\ k = KeyOf(resolved_state[k])
  BY DEF ResIInv, AuthOK
<1>8. resolved_state' = [k \in DOMAIN resolved_state \cup DOMAIN clean |->
                           IF k \in DOMAIN clean THEN clean[k] ELSE resolved_state[k]]
  BY <1>4 DEF Overlay
<1>9. \A k \in DOMAIN resolved_state' :
         resolved_state'[k] \in Involved /\ k = KeyOf(resolved_state'[k])
  BY <1>6, <1>7, <1>8
<1>10. AuthOK'
  BY <1>1, <1>2, <1>4, <1>9 DEF ResIInv, AuthOK, sortVars
<1>11. Remaining' = Remaining
  BY <1>1 DEF Remaining, sortVars
<1>12. LineOK'
  BY <1>1, <1>2, <1>4, <1>11 DEF ResIInv, LineOK, sortVars, lineVars
<1> QED BY <1>2, <1>3, <1>5, <1>10, <1>12 DEF ResIInv

-----------------------------------------------------------------------------
(* The invariant. *)

LEMMA ResInitOK ==
    ASSUME ResInit
    PROVE  ResIInv
<1>1. PICK scenario \in Scenarios :
         /\ version = scenario.version
         /\ state_sets \in scenario.state_sets
         /\ \E s \in scenario.stores : held = s.held /\ known = s.known
  BY DEF ResInit
<1>2. InputOK
  BY <1>1 DEF InputOK
<1>3. held \subseteq known /\ known \subseteq Id
  BY <1>1, ResAssumption
<1>4. StoreOK
  BY <1>3 DEF ResInit, StoreOK
<1>5. Elements(<< >>) = {} /\ DOMAIN << >> = {} /\ << >> \in Seq(Id)
  BY DEF Elements
<1>6. SortOK
  BY <1>5 DEF ResInit, SortOK
<1>7. AuthOK
  BY <1>5 DEF ResInit, AuthOK
<1>8. Remaining = {}
  BY DEF ResInit, Remaining
<1>9. LineOK
  BY <1>5, <1>8 DEF ResInit, LineOK
<1> QED BY <1>2, <1>4, <1>6, <1>7, <1>9 DEF ResIInv

LEMMA ResStutter ==
    ASSUME ResIInv, UNCHANGED resVars
    PROVE  ResIInv'
<1>1. UNCHANGED <<inputVars, storeVars, pc, todo, sortVars, authVars, lineVars>>
  BY DEF resVars
<1>2. InputOK' /\ Involved' = Involved /\ missing' = missing /\ \A x : Lost(x) => Lost(x)'
  BY <1>1, Frame DEF ResIInv
<1>3. StoreOK' /\ known' = known
  BY <1>1, StoreFrame DEF ResIInv
<1>4. SortOK'
  BY <1>1, <1>2, <1>3 DEF ResIInv, SortOK, sortVars
<1>5. AuthOK'
  BY <1>1, <1>2 DEF ResIInv, AuthOK, sortVars, authVars
<1>6. Remaining' = Remaining
  BY <1>1 DEF Remaining, sortVars
<1>7. LineOK'
  BY <1>1, <1>2, <1>6 DEF ResIInv, LineOK, sortVars, authVars, lineVars
<1> QED BY <1>2, <1>3, <1>4, <1>5, <1>7 DEF ResIInv

LEMMA ResStep ==
    ASSUME ResIInv, [ResNext]_resVars
    PROVE  ResIInv'
<1>1. CASE UNCHANGED resVars
  BY <1>1, ResStutter
<1>2. CASE Separate
  BY <1>2, SeparateStep
<1>3. ASSUME NEW id \in Id,
             Arrive(id) \/ Exists(id) \/ Control(id) \/ GraphRoot(id) \/ Levels(id)
                 \/ DepthStart(id)
      PROVE  ResIInv'
  BY <1>3, ArriveStep, ExistsStep, ControlStep, GraphRootStep, LevelsStep, DepthStartStep
<1>4. CASE ExistsDone \/ ControlDone \/ GraphDone \/ LevelsDone
  BY <1>4, LoopDone
<1>5. CASE GraphStep
  BY <1>5, GraphStepStep
<1>6. CASE SortEmit
  BY <1>6, SortEmitStep
<1>7. CASE SortFail \/ SortDone
  BY <1>7, SortEndStep
<1>8. CASE AuthGather
  BY <1>8, AuthGatherStep
<1>9. CASE AuthStep
  BY <1>9, AuthStepStep
<1>10. CASE ControlResolved
  BY <1>10, ControlResolvedStep
<1>11. CASE MainlineStep
  BY <1>11, MainlineStepStep
<1>12. CASE MainlineDone
  BY <1>12, MainlineDoneStep
<1>13. CASE DepthStep
  BY <1>13, DepthStepStep
<1>14. CASE DepthDone
  BY <1>14, DepthDoneStep
<1>15. CASE LeftResolved
  BY <1>15, LeftResolvedStep
<1>16. CASE Extend
  BY <1>16, ExtendStep
<1> QED
  BY <1>1, <1>2, <1>3, <1>4, <1>5, <1>6, <1>7, <1>8, <1>9, <1>10, <1>11, <1>12, <1>13, <1>14,
     <1>15, <1>16 DEF ResNext

\* Whatever order the loops of resolve take their elements in and whatever
\* arrives in the store meanwhile, every list, graph and map it builds holds
\* events of the forks and their auth chains only, the resolved state has each
\* event under its own key, and a walk down the power levels stays in the auth
\* chain of the event it was started for.
THEOREM ResInvariant == ResSpec => [](ResIInv /\ ResTypeOK)
<1>1. ResInit => ResIInv
  BY ResInitOK
<1>2. ResIInv /\ [ResNext]_resVars => ResIInv'
  BY ResStep
<1>3. ResIInv => ResTypeOK
  <2> SUFFICES ASSUME ResIInv PROVE ResTypeOK
    OBVIOUS
  <2>1. Involved \subseteq Id
    BY InvolvedClosed DEF ResIInv
  <2> QED BY <2>1 DEF ResIInv, ResTypeOK, SortOK, AuthOK, LineOK
<1> QED BY <1>1, <1>2, <1>3, PTL DEF ResSpec

\* mainline_sort drops an event of the full conflicted set only if that event
\* or one of its auth chain was not in the store when resolve was called.
THEOREM NothingElseDropped == ResSpec => []DroppedOnlyIfLost
<1>1. ResIInv => DroppedOnlyIfLost
  BY DEF ResIInv, LineOK, DroppedOnlyIfLost, Lost
<1> QED BY <1>1, ResInvariant, PTL

-----------------------------------------------------------------------------
(* The forks' common state. *)

LEMMA OnlyEndsFinish ==
    ASSUME ResIInv, ResNext, pc' = "done"
    PROVE  Separate \/ Extend
<1>1. pc # "done" => Separate \/ Extend
  BY DEF ResNext, Arrive, Exists, Control, GraphRoot, Levels, ExistsDone, ControlDone, GraphStep,
         GraphDone, LevelsDone, SortEmit, SortFail, SortDone, AuthGather, AuthStep,
         ControlResolved, MainlineStep, MainlineDone, DepthStart, DepthStep, DepthDone,
         LeftResolved, Advance, Take
<1>2. pc # "done"
  BY DEF ResNext, Separate, Extend, Arrive, Exists, Control, GraphRoot, Levels, ExistsDone,
         ControlDone, GraphStep, GraphDone, LevelsDone, SortEmit, SortFail, SortDone, AuthGather,
         AuthStep, ControlResolved, MainlineStep, MainlineDone, DepthStart, DepthStep, DepthDone,
         LeftResolved, Take
<1> QED BY <1>1, <1>2

\* The result of resolve has every key the forks agree on, with the event they
\* agree on, whatever passed the auth checks for that key.
THEOREM CommonStateKept == ResSpec => []UnconflictedKept
<1>1. ResInit => UnconflictedKept
  BY DEF ResInit, UnconflictedKept
<1>2. ResIInv /\ UnconflictedKept /\ [ResNext]_resVars => UnconflictedKept'
  <2> SUFFICES ASSUME ResIInv, UnconflictedKept, [ResNext]_resVars PROVE UnconflictedKept'
    OBVIOUS
  <2>1. CASE UNCHANGED resVars
    <3>1. UNCHANGED <<inputVars, pc, resolved_state>>
      BY <2>1 DEF resVars, authVars
    <3>2. clean' = clean
      BY <3>1, Frame DEF ResIInv
    <3> QED BY <3>1, <3>2 DEF UnconflictedKept
  <2>2. CASE ResNext /\ pc' = "done"
    <3>1. UNCHANGED inputVars
      BY <2>2, OnlyEndsFinish DEF Separate, Extend, Advance
    <3>2. clean' = clean
      BY <3>1, Frame DEF ResIInv
    <3>3. resolved_state' = clean \/ resolved_state' = Overlay(resolved_state, clean, DOMAIN clean)
      BY <2>2, OnlyEndsFinish DEF Separate, Extend, Advance
    <3>4. CASE resolved_state' = clean
      BY <3>2, <3>4 DEF UnconflictedKept
    <3>5. CASE resolved_state' = Overlay(resolved_state, clean, DOMAIN clean)
      <4>1. resolved_state' = [k \in DOMAIN resolved_state \cup DOMAIN clean |->
                                 IF k \in DOMAIN clean THEN clean[k] ELSE resolved_state[k]]
        BY <3>5 DEF Overlay
      <4> QED BY <3>2, <4>1 DEF UnconflictedKept
    <3> QED BY <3>3, <3>4, <3>5
  <2>3. CASE pc' # "done"
    BY <2>3 DEF UnconflictedKept
  <2> QED BY <2>1, <2>2, <2>3
<1> QED BY <1>1, <1>2, ResInvariant, PTL DEF ResSpec

-----------------------------------------------------------------------------
(* Failures. *)

\* What the events must be for a failure to be the store's or the version's:
\* state events, member events of users with a known membership, power levels
\* the room version can read, and a creator where the version asks for one.
Readable ==
    \A id \in Id :
        /\ event[id].state_key # NoKey
        /\ event[id].type = Member =>
              event[id].state_key \in User /\ event[id].content.membership # "bad"
        /\ event[id].type = PowerLevels =>
              \A scenario \in Scenarios : Parses(RoomVersion(scenario.version), event[id].content)
        /\ event[id].type = Create =>
              \/ event[id].content.creator # None
              \/ \A scenario \in Scenarios : RoomVersion(scenario.version).use_room_create_sender

\* The reasons FailsOnlyIfLost gives.
Explained == version \notin 1..11 \/ Involved \cap missing # {}

LEMMA UnheldIsMissing ==
    ASSUME ResIInv, NEW id \in Involved, id \notin held
    PROVE  Explained
<1>1. id \in Id
  BY InvolvedClosed DEF ResIInv
<1>2. id \in missing
  BY <1>1 DEF ResIInv, StoreOK
<1> QED BY <1>2 DEF Explained

\* With readable events auth_check always comes to a verdict.
LEMMA AlwaysAVerdict ==
    ASSUME Readable, InputOK, NEW id \in Id, NEW current, NEW against, Keyed(against)
    PROVE  auth_check(RoomVersion(version), event[id], current, against) # "err"
<1> DEFINE rv == RoomVersion(version)
           ev == event[id]
           creates == Get(against, <<Create, "">>)
           create == CHOOSE c \in creates : TRUE
           pls == Get(against, <<PowerLevels, "">>)
<1>1. \A u : MembershipOf(Get(against, <<Member, u>>)) # "bad"
  <2> SUFFICES ASSUME NEW u PROVE MembershipOf(Get(against, <<Member, u>>)) # "bad"
    OBVIOUS
  <2> DEFINE found == Get(against, <<Member, u>>)
             e == CHOOSE x \in found : TRUE
  <2>1. CASE found = {}
    BY <2>1 DEF MembershipOf
  <2>2. CASE found # {}
    <3>1. <<Member, u>> \in DOMAIN against /\ e = against[<<Member, u>>]
      BY <2>2 DEF Get
    <3>2. PICK x \in Id : e = event[x] /\ <<Member, u>> = KeyOf(x)
      BY <3>1 DEF Keyed
    <3>3. e.content.membership # "bad"
      BY <3>2 DEF KeyOf, Readable
    <3>4. MembershipOf(found) = e.content.membership
      BY <2>2 DEF MembershipOf
    <3> QED BY <3>3, <3>4
  <2> QED BY <2>1, <2>2
<1>2. \A pl \in pls : Parses(rv, pl.content) /\ ParsesLeniently(pl.content)
  <2> SUFFICES ASSUME NEW pl \in pls PROVE Parses(rv, pl.content) /\ ParsesLeniently(pl.content)
    OBVIOUS
  <2>1. <<PowerLevels, "">> \in DOMAIN against /\ pl = against[<<PowerLevels, "">>]
    BY DEF Get
  <2>2. PICK x \in Id : pl = event[x] /\ <<PowerLevels, "">> = KeyOf(x)
    BY <2>1 DEF Keyed
  <2>3. Parses(rv, pl.content)
    BY <2>2 DEF KeyOf, Readable, InputOK
  <2> QED BY <2>3 DEF Parses, ParsesLeniently
<1>3. creates # {} => create.content.creator # None \/ rv.use_room_create_sender
  <2> SUFFICES ASSUME creates # {}
               PROVE  create.content.creator # None \/ rv.use_room_create_sender
    OBVIOUS
  <2>1. <<Create, "">> \in DOMAIN against /\ create = against[<<Create, "">>]
    BY DEF Get
  <2>2. PICK x \in Id : create = event[x] /\ <<Create, "">> = KeyOf(x)
    BY <2>1 DEF Keyed
  <2> QED BY <2>2 DEF KeyOf, Readable, InputOK
<1>4. ev.type = Member => ev.state_key \in User
  BY DEF Readable
<1> HIDE DEF rv, ev, pls, creates
<1>5. creates # {} => ~ MembershipChangeFails(rv, ev, create, against)
  BY <1>1, <1>2, <1>3 DEF MembershipChangeFails, pls
<1>6. auth_check(rv, ev, current, against) # "err"
  BY <1>1, <1>2, <1>3, <1>4, <1>5 DEF auth_check, creates, pls
<1> QED BY <1>6 DEF rv, ev

LEMMA LevelsReadable ==
    ASSUME Readable, ResIInv, NEW id \in Id, Levels(id)
    PROVE  pc' # "err"
<1>1. ASSUME NEW p \in SenderPowerLevels(id) PROVE ParsesLeniently(event[p].content)
  <2>1. p \in PreviousPowerLevels(id)
    BY DEF SenderPowerLevels
  <2>2. p \in Id /\ event[p].type = PowerLevels
    BY <2>1, WalkFacts, AuthEventsAreIds DEF IsPowerLevels
  <2>3. PICK scenario \in Scenarios : TRUE
    BY DEF ResIInv, InputOK
  <2>4. Parses(RoomVersion(scenario.version), event[p].content)
    BY <2>2, <2>3 DEF Readable
  <2> QED BY <2>4 DEF Parses, ParsesLeniently
<1> QED BY <1>1 DEF Levels, Take

LEMMA SortFailsIfLost ==
    ASSUME ResIInv, SortFail
    PROVE  Explained
<1>1. PICK id \in NextReady : key_fn[id] = NotFound
  BY DEF SortFail
<1>2. id \in DOMAIN graph
  BY DEF NextReady, Ready
<1>3. id \in Involved /\ id \in Id /\ event_to_pl[id] \in Level
  BY <1>2 DEF ResIInv, SortOK, StoreOK, SortFail
<1>4. event[id].ts \in Age
  BY <1>3, ResAssumption
<1>5. id \notin held
  BY <1>1, <1>2, <1>3, <1>4, OrderAssumption DEF key_fn
<1> QED BY <1>3, <1>5, UnheldIsMissing

LEMMA GatherFailsIfLost ==
    ASSUME Readable, ResIInv, AuthGather, pc' = "err"
    PROVE  Explained
<1>1. Malformed(Head(queue)) /\ queue # << >>
  BY DEF AuthGather
<1>2. queue \in Seq(Id) /\ Elements(queue) \subseteq Involved
  BY DEF ResIInv, AuthOK, SortOK
<1>3. Head(queue) \in Involved
  BY <1>1, <1>2, FrontIn
<1>4. Involved \subseteq Id /\ AuthEvents(Head(queue)) \subseteq Id
  BY <1>3, InvolvedClosed DEF ResIInv
<1>5. Head(queue) \notin held
  BY <1>1, <1>3, <1>4 DEF Malformed, Readable
<1> QED BY <1>3, <1>5, UnheldIsMissing

LEMMA AuthStepReadable ==
    ASSUME Readable, ResIInv, AuthStep
    PROVE  pc' # "err"
<1>1. PICK against \in auth_events : \E current \in ThirdPartyInvites(against) :
         pc' = IF auth_check(RoomVersion(version), event[Head(queue)], current, against) = "err"
               THEN "err" ELSE pc
  BY DEF AuthStep
<1>2. PICK current \in ThirdPartyInvites(against) :
         pc' = IF auth_check(RoomVersion(version), event[Head(queue)], current, against) = "err"
               THEN "err" ELSE pc
  BY <1>1
<1>3. Keyed(against) /\ queue # << >> /\ pc = "auth" /\ InputOK
  BY <1>1 DEF ResIInv, AuthOK, AuthStep
<1>4. Head(queue) \in Id
  <2>1. queue \in Seq(Id) /\ Elements(queue) \subseteq all_conflicted /\ all_conflicted \subseteq Id
    BY DEF ResIInv, AuthOK, SortOK, StoreOK
  <2> QED BY <1>3, <2>1, FrontIn
<1>5. auth_check(RoomVersion(version), event[Head(queue)], current, against) # "err"
  BY <1>3, <1>4, AlwaysAVerdict
<1> QED BY <1>2, <1>3, <1>5

LEMMA MainlineFailsIfLost ==
    ASSUME ResIInv, MainlineStep, pc' = "err"
    PROVE  Explained
<1>1. PICK p \in cursor : p \notin held \/ WalkLost(p)
  BY DEF MainlineStep
<1>2. p \in Involved /\ p \in Id /\ AuthEvents(p) \subseteq Involved
  BY InvolvedClosed DEF ResIInv, LineOK
<1>3. CASE p \notin held
  BY <1>2, <1>3, UnheldIsMissing
<1>4. CASE WalkLost(p)
  <2>1. PICK a \in AuthEvents(p) : a \notin held
    BY <1>2, <1>4, WalkFacts
  <2> QED BY <1>2, <2>1, UnheldIsMissing
<1> QED BY <1>1, <1>3, <1>4

LEMMA OtherStepsDoNotFail ==
    ASSUME ResNext, pc' = "err"
    PROVE  \/ \E id \in Id : Levels(id)
           \/ SortFail \/ SortDone \/ AuthGather \/ AuthStep \/ MainlineStep
<1>1. pc # "err"
  BY DEF ResNext, Separate, Extend, Arrive, Exists, Control, GraphRoot, Levels, ExistsDone,
         ControlDone, GraphStep, GraphDone, LevelsDone, SortEmit, SortFail, SortDone, AuthGather,
         AuthStep, ControlResolved, MainlineStep, MainlineDone, DepthStart, DepthStep, DepthDone,
         LeftResolved, Take
<1> QED
  BY <1>1 DEF ResNext, Separate, Extend, Arrive, Exists, Control, GraphRoot, ExistsDone,
         ControlDone, GraphStep, GraphDone, LevelsDone, SortEmit, ControlResolved, MainlineDone,
         DepthStart, DepthStep, DepthDone, LeftResolved, Take, Advance

\* If every event can be read, resolve fails only for a room version it does
\* not know, or if the store lacked an event of the forks or their auth chains
\* when it was called: no order of the loops and no late arrival makes it fail.
THEOREM FailuresExplained ==
    ASSUME Readable
    PROVE  ResSpec => []FailsOnlyIfLost
<1>1. ResInit => FailsOnlyIfLost
  BY DEF ResInit, FailsOnlyIfLost
<1>2. ResIInv /\ FailsOnlyIfLost /\ [ResNext]_resVars => FailsOnlyIfLost'
  <2> SUFFICES ASSUME ResIInv, FailsOnlyIfLost, [ResNext]_resVars, pc' = "err"
               PROVE  FailsOnlyIfLost'
    BY DEF FailsOnlyIfLost
  <2>1. CASE UNCHANGED resVars
    BY <2>1 DEF FailsOnlyIfLost, resVars, inputVars, Sets, ChainOf
  <2>2. CASE ResNext
    <3>1. /\ Explained
          /\ UNCHANGED inputVars
      <4>1. ASSUME NEW id \in Id PROVE ~ Levels(id)
        BY <4>1, LevelsReadable
      <4>2. CASE SortFail
        BY <4>2, SortFailsIfLost DEF SortFail, Advance
      <4>3. CASE SortDone
        BY <4>3 DEF SortDone, Advance, Explained
      <4>4. CASE AuthGather
        BY <4>4, GatherFailsIfLost DEF AuthGather
      <4>5. ~ AuthStep
        BY AuthStepReadable
      <4>6. CASE MainlineStep
        BY <4>6, MainlineFailsIfLost DEF MainlineStep
      <4> QED BY <2>2, <4>1, <4>2, <4>3, <4>4, <4>5, <4>6, OtherStepsDoNotFail
    <3>2. \/ version \notin 1..11
          \/ \E i \in Sets : ForkEvents(i) \cap missing # {}
      BY <3>1 DEF Explained, Involved
    <3>3. version' = version /\ state_sets' = state_sets /\ missing' = missing
      BY <3>1 DEF inputVars
    <3> QED BY <3>2, <3>3 DEF FailsOnlyIfLost, ForkEvents, ChainOf, Sets
  <2> QED BY <2>1, <2>2
<1> QED BY <1>1, <1>2, ResInvariant, PTL DEF ResSpec

-----------------------------------------------------------------------------
(* Nothing is lost from lists. *)

LEMMA RetainHas ==
    ASSUME NEW S, NEW s \in Seq(S), NEW w
    PROVE  Elements(s) \cap w \subseteq Elements(retain(s, w))
<1>1. PICK f : Unfolds(f, s, w, Len(s)) /\ retain(s, w) = f[Len(s)]
  BY RetainUnfolds
<1> DEFINE Good(n) == /\ f[n] \in Seq(S)
                      /\ \A i \in 1..n : s[i] \in w => \E k \in 1..Len(f[n]) : f[n][k] = s[i]
           Bad == {n \in 0..Len(s) : ~ Good(n)}
<1>2. Bad = {}
  <2> SUFFICES ASSUME Bad # {} PROVE FALSE
    OBVIOUS
  <2>1. PICK n \in Bad : \A m \in Bad : n <= m
    <3>1. Bad \subseteq Nat
      OBVIOUS
    <3> HIDE DEF Bad
    <3> QED BY <3>1, LeastNumber
  <2>2. n \in 0..Len(s) /\ Len(s) \in Nat /\ ~ Good(n)
    BY <2>1
  <2>3. f[n] = IF n = 0 THEN << >>
               ELSE IF s[n] \in w THEN Append(f[n - 1], s[n]) ELSE f[n - 1]
    BY <1>1, <2>2 DEF Unfolds
  <2>4. n # 0
    BY <2>2, <2>3
  <2>5. n - 1 \in 0..Len(s) /\ s[n] \in S
    BY <2>2, <2>4
  <2>6. n - 1 \notin Bad
    <3> HIDE DEF Bad
    <3> QED BY <2>1, <2>2
  <2>7. Good(n - 1)
    BY <2>5, <2>6
  <2> DEFINE u == f[n - 1]
  <2>8. /\ u \in Seq(S)
        /\ \A i \in 1..(n - 1) : s[i] \in w => \E k \in 1..Len(u) : u[k] = s[i]
    BY <2>7
  <2>9. f[n] = IF s[n] \in w THEN Append(u, s[n]) ELSE u
    BY <2>3, <2>4
  <2>10. \A i \in 1..n : i \in 1..(n - 1) \/ i = n
    BY <2>2
  <2> HIDE DEF u
  <2>11. CASE s[n] \in w
    <3>1. /\ f[n] \in Seq(S) /\ Len(f[n]) = Len(u) + 1 /\ Len(u) \in Nat
          /\ \A k \in 1..Len(u) : f[n][k] = u[k]
          /\ f[n][Len(u) + 1] = s[n]
      BY <2>5, <2>8, <2>9, <2>11
    <3>2. ASSUME NEW i \in 1..n, s[i] \in w PROVE \E k \in 1..Len(f[n]) : f[n][k] = s[i]
      <4>1. CASE i = n
        <5>1. Len(u) + 1 \in 1..Len(f[n])
          BY <3>1
        <5> QED BY <3>1, <4>1, <5>1
      <4>2. CASE i \in 1..(n - 1)
        <5>1. PICK k \in 1..Len(u) : u[k] = s[i]
          BY <2>8, <3>2, <4>2
        <5>2. k \in 1..Len(f[n]) /\ f[n][k] = s[i]
          BY <3>1, <5>1
        <5> QED BY <5>2
      <4> QED BY <2>10, <4>1, <4>2
    <3> QED BY <2>2, <3>1, <3>2
  <2>12. CASE s[n] \notin w
    <3>1. f[n] = u
      BY <2>9, <2>12
    <3>2. Good(n)
      BY <2>8, <2>10, <2>12, <3>1
    <3> QED BY <2>2, <3>2
  <2> QED BY <2>11, <2>12
<1>3. Good(Len(s))
  BY <1>2
<1> QED BY <1>1, <1>3 DEF Elements

LEMMA ConcatHas ==
    ASSUME NEW S, NEW a \in Seq(S), NEW b \in Seq(S)
    PROVE  Elements(a) \cup Elements(b) \subseteq Elements(a \o b)
<1>1. /\ Len(a \o b) = Len(a) + Len(b)
      /\ \A i \in 1..(Len(a) + Len(b)) : (a \o b)[i] = IF i <= Len(a) THEN a[i] ELSE b[i - Len(a)]
  BY ConcatProperties
<1>2. Len(a) \in Nat /\ Len(b) \in Nat
  OBVIOUS
<1>3. ASSUME NEW i \in 1..Len(a) PROVE a[i] \in Elements(a \o b)
  <2>1. i \in 1..Len(a \o b) /\ (a \o b)[i] = a[i]
    BY <1>1, <1>2
  <2> QED BY <2>1 DEF Elements
<1>4. ASSUME NEW i \in 1..Len(b) PROVE b[i] \in Elements(a \o b)
  <2>1. i + Len(a) \in 1..Len(a \o b) /\ ~ (i + Len(a) <= Len(a)) /\ (i + Len(a)) - Len(a) = i
    BY <1>1, <1>2
  <2>2. (a \o b)[i + Len(a)] = b[i]
    BY <1>1, <2>1
  <2> QED BY <2>1, <2>2 DEF Elements
<1> QED BY <1>3, <1>4 DEF Elements

LEMMA FrontHas ==
    ASSUME NEW S, NEW s \in Seq(S), s # << >>
    PROVE  Elements(s) \subseteq Elements(SubSeq(s, 1, Len(s) - 1)) \cup {s[Len(s)]}
<1> DEFINE n == Len(s) - 1
           front == SubSeq(s, 1, n)
<1>1. Len(s) \in Nat /\ Len(s) >= 1
  OBVIOUS
<1>2. n \in Int /\ 1 \in Int /\ n >= 0 /\ \A i \in 1..n : s[i] \in S
  BY <1>1
<1>3. Len(front) = n /\ \A i \in 1..n : front[i] = s[i]
  <2> HIDE DEF n
  <2>1. /\ SubSeq(s, 1, n) \in Seq(S) /\ Len(SubSeq(s, 1, n)) = IF 1 <= n THEN n - 1 + 1 ELSE 0
        /\ \A i \in 1..(n - 1 + 1) : SubSeq(s, 1, n)[i] = s[1 + i - 1]
    BY <1>2, SubSeqProperties
  <2> QED BY <1>2, <2>1
<1>4. \A i \in 1..Len(s) : i \in 1..n \/ i = Len(s)
  BY <1>1
<1> HIDE DEF front, n
<1>5. Elements(s) \subseteq Elements(front) \cup {s[Len(s)]}
  BY <1>3, <1>4 DEF Elements
<1> QED BY <1>5 DEF front, n

-----------------------------------------------------------------------------
(* A graph of events that refer to older ones is sorted to the end. *)

\* No event is among those it refers to, directly or over others: an event is
\* hashed with the ids in it.
Acyclic == \A id \in Id : id \notin AuthChain[id]

LEMMA ChainBelow ==
    ASSUME NEW id \in Id, NEW a \in AuthEvents(id)
    PROVE  AuthChain[a] \subseteq AuthChain[id]
<1>1. AuthChain[id] \subseteq Id /\ a \in AuthChain[id]
  BY ChainClosed
<1>2. AuthEvents(a) \subseteq AuthChain[id] /\ AuthClosed(AuthChain[id])
  BY <1>1, ChainClosed DEF AuthClosed
<1> QED BY <1>1, <1>2 DEF AuthChain

LEMMA Oldest ==
    ASSUME Acyclic, NEW N, N \subseteq Id, N # {}
    PROVE  \E x \in N : AuthEvents(x) \cap N = {}
<1> DEFINE Size(x) == Cardinality(AuthChain[x])
           B == {Size(x) : x \in N}
<1>1. \A x \in Id : IsFiniteSet(AuthChain[x]) /\ Size(x) \in Nat
  BY ResAssumption, ChainClosed, FS_Subset, FS_CardinalityType
<1>2. B \subseteq Nat /\ B # {}
  BY <1>1
<1>3. PICK b \in B : \A c \in B : b <= c
  <2> HIDE DEF B
  <2> QED BY <1>2, LeastNumber
<1>4. PICK x \in N : b = Size(x)
  BY <1>3
<1>5. ASSUME NEW a \in AuthEvents(x) \cap N PROVE FALSE
  <2>1. x \in Id /\ a \in Id
    BY <1>4
  <2>2. AuthChain[a] \subseteq AuthChain[x] /\ a \in AuthChain[x] /\ a \notin AuthChain[a]
    BY <2>1, ChainBelow, ChainClosed DEF Acyclic
  <2> DEFINE A == AuthChain[a]
             X == AuthChain[x]
  <2>3. IsFiniteSet(X) /\ Cardinality(X) \in Nat /\ Cardinality(A) \in Nat
    BY <1>1, <2>1
  <2>4. A \subseteq X /\ A # X
    BY <2>2
  <2>5. Cardinality(X) <= Cardinality(A)
    BY <1>3, <1>4
  <2> HIDE DEF A, X
  <2>6. Cardinality(A) <= Cardinality(X) /\ (Cardinality(A) = Cardinality(X) => A = X)
    BY <2>3, <2>4, FS_Subset
  <2> QED BY <2>3, <2>4, <2>5, <2>6
<1> QED BY <1>4, <1>5

LEMMA SortedWhole ==
    ASSUME Acyclic, DOMAIN graph \subseteq Id, NextReady = {},
           \A e \in DOMAIN graph : graph[e] \subseteq AuthEvents(e) /\ graph[e] \subseteq DOMAIN graph
    PROVE  DOMAIN graph \subseteq Elements(sorted)
<1> DEFINE N == DOMAIN graph \ Elements(sorted)
<1>1. SUFFICES ASSUME N # {} PROVE FALSE
  OBVIOUS
<1>2. PICK x \in N : AuthEvents(x) \cap N = {}
  <2>1. N \subseteq Id
    OBVIOUS
  <2> HIDE DEF N
  <2> QED BY <1>1, <2>1, Oldest
<1>3. graph[x] \subseteq Elements(sorted)
  BY <1>2
<1>4. x \in NextReady
  BY <1>2, <1>3 DEF NextReady, Ready
<1> QED BY <1>4
-----------------------------------------------------------------------------
(* Bans. *)

\* An event of the conflicted set that is_power_event_id must have seen.
PowerEvents == {e \in all_conflicted \ missing : is_power_event(event[e])}

\* No power event escapes the loop over the conflicted set.
ControlWhole ==
    /\ pc = "control" => PowerEvents \ todo \subseteq control_events
    /\ pc \in {"graph", "levels", "sort", "auth", "mainline", "depth", "extend", "done"} =>
          PowerEvents \subseteq control_events

\* The graph gets every control event and, with an event, what it points at;
\* sorting takes all of it.
GraphWhole ==
    /\ pc \in {"separate", "exists", "control"} => DOMAIN graph = {}
    /\ \A e \in DOMAIN graph : graph[e] \subseteq AuthEvents(e)
    /\ pc = "graph" =>
          /\ control_events \subseteq todo \cup Elements(stack) \cup DOMAIN graph
          /\ \A e \in DOMAIN graph : graph[e] \subseteq DOMAIN graph \cup Elements(stack)
    /\ pc \in {"levels", "sort"} =>
          /\ control_events \subseteq DOMAIN graph
          /\ \A e \in DOMAIN graph : graph[e] \subseteq DOMAIN graph
    /\ pc \in {"auth", "mainline", "depth", "extend", "done"} =>
          control_events \subseteq Elements(sorted)

\* The first iterative_auth_check goes through sorted events, the second through
\* the others; the next event is checked against the resolved state.
QueueWhole ==
    /\ pc # "depth" /\ ~ second => DOMAIN order_map = {}
    /\ pc = "depth" => DOMAIN order_map \subseteq Remaining
    /\ pc = "auth" => Elements(queue) \subseteq IF second THEN Remaining ELSE Elements(sorted)
    /\ \A map \in auth_events :
       \A k \in auth_types_for_event(event[Head(queue)]) \cap DOMAIN resolved_state :
          resolved_state[k] \notin missing =>
             k \in DOMAIN map /\ map[k] = event[resolved_state[k]]

\* The member events agreed on stay unless disputed ...
UndisputedStay ==
    \A k \in DOMAIN clean : Undisputed(k) => k \in DOMAIN resolved_state /\ resolved_state[k] = clean[k]

\* ... the first iterative_auth_check adds sorted events ...
OnlySortedAdded == \A k \in DOMAIN resolved_state \ DOMAIN clean : resolved_state[k] \in Elements(sorted)

\* ... and the second nothing of a banned user.
StateWhole ==
    /\ pc \in {"auth", "mainline", "depth", "extend"} =>
          /\ UndisputedStay
          /\ IF second THEN BannedLose ELSE OnlySortedAdded
    /\ BannedSenderLoses

\* The inductive invariant on top of ResIInv.
BanIInv == ControlWhole /\ GraphWhole /\ QueueWhole /\ StateWhole
-----------------------------------------------------------------------------
(* The steps keep what bans rest on. *)

\* Nothing but Exists changes the conflicted set, nothing but SortEmit the list.
LEMMA InputsStay ==
    ASSUME ResIInv, ResNext
    PROVE  /\ version' = version /\ missing' = missing /\ clean' = clean
           /\ pc \notin {"done", "err"}
           /\ all_conflicted' # all_conflicted => pc = "exists" /\ pc' = "exists"
           /\ sorted' # sorted => pc = "sort" /\ pc' = "sort"
           /\ control_events' # control_events => pc = "control"
           /\ graph' # graph => pc = "graph"
<1>1. UNCHANGED inputVars
  BY DEF ResNext, Separate, Extend, Arrive, Exists, Control, GraphRoot, Levels, ExistsDone,
         ControlDone, GraphStep, GraphDone, LevelsDone, SortEmit, SortFail, SortDone, AuthGather,
         AuthStep, ControlResolved, MainlineStep, MainlineDone, DepthStart, DepthStep, DepthDone,
         LeftResolved, Take, Advance
<1>2. clean' = clean /\ missing' = missing /\ version' = version
  BY <1>1, Frame DEF ResIInv, inputVars
<1>3. pc \notin {"done", "err"}
  BY DEF ResNext, Separate, Extend, Arrive, Exists, Control, GraphRoot, Levels, ExistsDone,
         ControlDone, GraphStep, GraphDone, LevelsDone, SortEmit, SortFail, SortDone, AuthGather,
         AuthStep, ControlResolved, MainlineStep, MainlineDone, DepthStart, DepthStep, DepthDone,
         LeftResolved, Take
<1>4. /\ all_conflicted' # all_conflicted => pc = "exists" /\ pc' = "exists"
      /\ sorted' # sorted => pc = "sort" /\ pc' = "sort"
      /\ control_events' # control_events => pc = "control"
      /\ graph' # graph => pc = "graph"
  BY DEF ResNext, Separate, Extend, Arrive, Exists, Control, GraphRoot, Levels, ExistsDone,
         ControlDone, GraphStep, GraphDone, LevelsDone, SortEmit, SortFail, SortDone, AuthGather,
         AuthStep, ControlResolved, MainlineStep, MainlineDone, DepthStart, DepthStep, DepthDone,
         LeftResolved, Take, Advance, sortVars
<1> QED BY <1>2, <1>3, <1>4

\* The order of the stages.
LEMMA Stages ==
    ASSUME ResNext, pc' # pc
    PROVE  \/ pc' = "err"
           \/ pc = "separate" /\ pc' \in {"done", "exists"}
           \/ pc = "exists" /\ pc' = "control" /\ todo' = all_conflicted
           \/ pc = "control" /\ pc' = "graph" /\ todo = {} /\ todo' = control_events
           \/ pc = "graph" /\ pc' = "levels" /\ todo = {} /\ stack = << >>
           \/ pc = "levels" /\ pc' = "sort"
           \/ SortDone /\ pc = "sort" /\ pc' = "auth" /\ NextReady = {}
           \/ ControlResolved /\ pc = "auth" /\ pc' \in {"extend", "mainline"}
           \/ pc = "mainline" /\ pc' = "depth" /\ MainlineDone
           \/ DepthDone /\ pc = "depth" /\ pc' = "auth"
           \/ LeftResolved /\ pc = "auth" /\ pc' = "extend"
           \/ Extend /\ pc = "extend" /\ pc' = "done"
<1>1. \/ Separate \/ ExistsDone \/ ControlDone \/ GraphDone \/ LevelsDone \/ SortDone
      \/ ControlResolved \/ MainlineDone \/ DepthDone \/ LeftResolved \/ Extend \/ pc' = "err"
  BY DEF ResNext, Arrive, Exists, Control, GraphRoot, Levels, GraphStep, SortEmit, SortFail,
         AuthGather, AuthStep, MainlineStep, DepthStart, DepthStep, Take, Advance
<1>2. Separate => pc = "separate" /\ pc' \in {"done", "exists"}
  BY DEF Separate, Advance
<1>3. ExistsDone => pc = "exists" /\ pc' = "control" /\ todo' = all_conflicted
  BY DEF ExistsDone, Advance
<1>4. ControlDone => pc = "control" /\ pc' = "graph" /\ todo = {} /\ todo' = control_events
  BY DEF ControlDone, Advance
<1>5. GraphDone => pc = "graph" /\ pc' = "levels" /\ todo = {} /\ stack = << >>
  BY DEF GraphDone, Advance
<1>6. LevelsDone => pc = "levels" /\ pc' = "sort"
  BY DEF LevelsDone, Advance
<1>7. SortDone => pc = "sort" /\ pc' \in {"auth", "err"} /\ NextReady = {}
  BY DEF SortDone, Advance
<1>8. ControlResolved => pc = "auth" /\ pc' \in {"extend", "mainline"}
  BY DEF ControlResolved, Advance
<1>9. MainlineDone => pc = "mainline" /\ pc' = "depth"
  BY DEF MainlineDone, Advance
<1>10. DepthDone => pc = "depth" /\ pc' = "auth"
  BY DEF DepthDone, Advance
<1>11. LeftResolved => pc = "auth" /\ pc' = "extend"
  BY DEF LeftResolved, Advance
<1>12. Extend => pc = "extend" /\ pc' = "done"
  BY DEF Extend, Advance
<1> QED
  BY <1>1, <1>2, <1>3, <1>4, <1>5, <1>6, <1>7, <1>8, <1>9, <1>10, <1>11, <1>12, Zenon

LEMMA ControlWholeStep ==
    ASSUME ResIInv, BanIInv, ResNext
    PROVE  ControlWhole'
<1>1. CASE pc' = "control" /\ pc = "control" /\ todo' = todo
  <2>1. PowerEvents' = PowerEvents
    BY <1>1, InputsStay DEF PowerEvents
  <2>2. control_events \subseteq control_events'
    BY <1>1 DEF ResNext, Separate, Extend, Arrive, Exists, Control, GraphRoot, Levels, ExistsDone,
         ControlDone, GraphStep, GraphDone, LevelsDone, SortEmit, SortFail, SortDone, AuthGather,
         AuthStep, ControlResolved, MainlineStep, MainlineDone, DepthStart, DepthStep, DepthDone,
         LeftResolved, Take, Advance, sortVars
  <2> QED BY <1>1, <2>1, <2>2 DEF BanIInv, ControlWhole
<1>2. ASSUME NEW id \in Id, Control(id) PROVE ControlWhole'
  <2>1. PowerEvents' = PowerEvents
    BY <1>2, InputsStay DEF PowerEvents, Control, Take
  <2>2. /\ pc = "control" /\ pc' = "control" /\ todo' = todo \ {id}
        /\ control_events' = IF id \in held /\ is_power_event(event[id])
                             THEN control_events \cup {id} ELSE control_events
    BY <1>2 DEF Control, Take
  <2>3. id \in PowerEvents => id \in held /\ is_power_event(event[id])
    BY DEF PowerEvents, ResIInv, StoreOK
  <2> QED BY <2>1, <2>2, <2>3 DEF BanIInv, ControlWhole
<1>3. CASE pc' = "control" /\ pc # "control"
  BY <1>3, Stages, InputsStay DEF PowerEvents, ControlWhole
<1>4. CASE pc' = "graph" /\ pc = "control"
  <2>1. PowerEvents' = PowerEvents /\ todo = {} /\ control_events' = control_events
    BY <1>4, Stages, InputsStay DEF PowerEvents, ResNext, ControlDone, Advance, Separate, Extend,
         Arrive, Exists, Control, GraphRoot, Levels, ExistsDone, GraphStep, GraphDone, LevelsDone,
         SortEmit, SortFail, SortDone, AuthGather, AuthStep, ControlResolved, MainlineStep,
         MainlineDone, DepthStart, DepthStep, DepthDone, LeftResolved, Take, sortVars
  <2> QED BY <1>4, <2>1 DEF BanIInv, ControlWhole
<1>5. CASE pc' \notin {"control"} /\ pc \notin {"control", "separate"}
  <2>1. PowerEvents' = PowerEvents \/ pc' = "exists"
    BY InputsStay DEF PowerEvents
  <2>2. control_events' = control_events
    BY <1>5, InputsStay
  <2>3. pc = "exists" => pc' \in {"exists", "control", "err"}
    BY Stages
  <2>4. pc \in {"exists", "graph", "levels", "sort", "auth", "mainline", "depth", "extend"}
    BY <1>5, InputsStay DEF ResIInv, SortOK
  <2>5. pc \in {"graph", "levels", "sort", "auth", "mainline", "depth", "extend"} =>
           pc' # "exists" /\ PowerEvents \subseteq control_events
    <3>1. pc \in {"graph", "levels", "sort", "auth", "mainline", "depth", "extend"} => pc' # "exists"
      BY Stages
    <3> QED BY <3>1 DEF BanIInv, ControlWhole
  <2>6. CASE pc = "exists"
    BY <1>5, <2>3, <2>6 DEF ControlWhole
  <2>7. CASE pc # "exists"
    <3>1. PowerEvents' \subseteq control_events'
      BY <2>1, <2>2, <2>4, <2>5, <2>7
    <3> QED BY <1>5, <3>1 DEF ControlWhole
  <2> QED BY <2>6, <2>7
<1>6. CASE pc = "separate"
  <2>1. all_conflicted' = {} /\ pc' \in {"done", "exists", "separate", "err"}
    BY <1>6, Stages, InputsStay DEF ResIInv, SortOK
  <2> QED BY <2>1 DEF PowerEvents, ControlWhole
<1>7. pc = "control" /\ pc' = "control" => todo' = todo \/ \E id \in Id : Control(id)
  BY DEF ResNext, Separate, Extend, Arrive, Exists, GraphRoot, Levels, ExistsDone,
         ControlDone, GraphStep, GraphDone, LevelsDone, SortEmit, SortFail, SortDone, AuthGather,
         AuthStep, ControlResolved, MainlineStep, MainlineDone, DepthStart, DepthStep, DepthDone,
         LeftResolved, Take, Advance
<1>8. pc = "control" /\ pc' \notin {"control", "graph"} => pc' = "err"
  BY Stages
<1>9. pc' = "err" => ControlWhole'
  BY DEF ControlWhole
<1> QED BY <1>1, <1>2, <1>3, <1>4, <1>5, <1>6, <1>7, <1>8, <1>9

LEMMA GraphWholeStep ==
    ASSUME Acyclic, ResIInv, BanIInv, ResNext
    PROVE  GraphWhole'
<1>1. CASE GraphStep
  <2> DEFINE eid == stack[Len(stack)]
             rest == SubSeq(stack, 1, Len(stack) - 1)
             aids == IF eid \in held THEN event[eid].auth_events ELSE << >>
             new == all_conflicted \ (DOMAIN graph \cup {eid})
             more == (UNION Get(graph, eid)) \cup (Elements(aids) \cap all_conflicted)
  <2>1. /\ pc = "graph" /\ pc' = pc /\ todo' = todo /\ control_events' = control_events
        /\ stack # << >>
        /\ stack' = rest \o retain(aids, new)
        /\ graph' = [e \in DOMAIN graph \cup {eid} |-> IF e = eid THEN more ELSE graph[e]]
    BY <1>1 DEF GraphStep
  <2>2. /\ stack \in Seq(Id) /\ Elements(stack) \subseteq all_conflicted /\ all_conflicted \subseteq Id
    BY DEF ResIInv, SortOK, StoreOK
  <2>3. /\ rest \in Seq(Id) /\ eid \in Elements(stack) /\ eid \in Id
        /\ Elements(stack) \subseteq Elements(rest) \cup {eid}
    BY <2>1, <2>2, FrontIn, FrontHas
  <2>4. aids \in Seq(Id) /\ Elements(aids) \subseteq AuthEvents(eid)
    <3>1. event[eid].auth_events \in Seq(Id)
      BY <2>3, ResAssumption
    <3>2. Elements(event[eid].auth_events) \subseteq AuthEvents(eid)
      BY <2>3, AuthEventsAreIds DEF Elements, AuthEvents
    <3>3. << >> \in Seq(Id) /\ Elements(<< >>) = {}
      BY DEF Elements
    <3> QED BY <3>1, <3>2, <3>3
  <2>5. /\ \A e \in DOMAIN graph : graph[e] \subseteq AuthEvents(e)
        /\ control_events \subseteq todo \cup Elements(stack) \cup DOMAIN graph
        /\ \A e \in DOMAIN graph : graph[e] \subseteq DOMAIN graph \cup Elements(stack)
    BY <2>1 DEF BanIInv, GraphWhole
  <2>6. UNION Get(graph, eid) \subseteq AuthEvents(eid) \cap (DOMAIN graph \cup Elements(stack))
    <3> HIDE DEF eid
    <3> QED BY <2>5 DEF Get
  <2> HIDE DEF eid, rest, aids, more
  <2>7. /\ retain(aids, new) \in Seq(Id)
        /\ Elements(aids) \cap new \subseteq Elements(retain(aids, new))
    BY <2>4, RetainIn, RetainHas
  <2>8. Elements(rest) \cup (Elements(aids) \cap new) \subseteq Elements(stack')
    BY <2>1, <2>3, <2>7, ConcatHas
  <2>9. /\ DOMAIN graph' = DOMAIN graph \cup {eid}
        /\ \A e \in DOMAIN graph' : graph'[e] = IF e = eid THEN more ELSE graph[e]
    BY <2>1
  <2>10. DOMAIN graph \cup Elements(stack) \subseteq DOMAIN graph' \cup Elements(stack')
    BY <2>3, <2>8, <2>9
  <2>11. more \subseteq AuthEvents(eid) /\ more \subseteq DOMAIN graph' \cup Elements(stack')
    <3>1. Elements(aids) \cap all_conflicted \subseteq DOMAIN graph' \cup (Elements(aids) \cap new)
      BY <2>9
    <3> QED BY <2>4, <2>6, <2>8, <2>10, <3>1 DEF more
  <2>12. \A e \in DOMAIN graph' :
            graph'[e] \subseteq AuthEvents(e) /\ graph'[e] \subseteq DOMAIN graph' \cup Elements(stack')
    BY <2>5, <2>9, <2>10, <2>11
  <2>13. control_events' \subseteq todo' \cup Elements(stack') \cup DOMAIN graph'
    BY <2>1, <2>5, <2>10
  <2> QED BY <2>1, <2>12, <2>13 DEF GraphWhole
<1>2. ASSUME NEW id \in Id, GraphRoot(id) PROVE GraphWhole'
  <2>1. /\ pc = "graph" /\ pc' = pc /\ todo' = todo \ {id} /\ control_events' = control_events
        /\ graph' = graph /\ stack = << >> /\ stack' = <<id>>
    BY <1>2 DEF GraphRoot, Take
  <2>2. Elements(stack) = {} /\ Elements(stack') = {id}
    BY <2>1 DEF Elements
  <2> QED BY <2>1, <2>2 DEF BanIInv, GraphWhole
<1>3. CASE pc = "graph" /\ pc' = "graph" /\ UNCHANGED <<todo, stack, graph>>
  BY <1>3, InputsStay DEF BanIInv, GraphWhole
<1>4. CASE pc' = "graph" /\ pc # "graph"
  <2>1. pc = "control" /\ todo' = control_events /\ graph' = graph
    BY <1>4, Stages, InputsStay
  <2>2. control_events' = control_events
    BY <1>4, <2>1 DEF ResNext, ControlDone, Advance, Separate, Extend,
         Arrive, Exists, Control, GraphRoot, Levels, ExistsDone, GraphStep, GraphDone, LevelsDone,
         SortEmit, SortFail, SortDone, AuthGather, AuthStep, ControlResolved, MainlineStep,
         MainlineDone, DepthStart, DepthStep, DepthDone, LeftResolved, Take, sortVars
  <2>3. DOMAIN graph = {}
    BY <2>1 DEF BanIInv, GraphWhole
  <2> QED BY <1>4, <2>1, <2>2, <2>3 DEF GraphWhole
<1>5. CASE pc = "graph" /\ pc' = "levels"
  <2>1. todo = {} /\ stack = << >> /\ control_events' = control_events
    BY <1>5, Stages, InputsStay
  <2>2. graph' = graph
    BY <1>5 DEF ResNext, ControlDone, Advance, Separate, Extend,
         Arrive, Exists, Control, GraphRoot, Levels, ExistsDone, GraphStep, GraphDone, LevelsDone,
         SortEmit, SortFail, SortDone, AuthGather, AuthStep, ControlResolved, MainlineStep,
         MainlineDone, DepthStart, DepthStep, DepthDone, LeftResolved, Take, sortVars
  <2>3. Elements(stack) = {}
    BY <2>1 DEF Elements
  <2> QED BY <1>5, <2>1, <2>2, <2>3 DEF BanIInv, GraphWhole
<1>6. CASE pc' = "auth" /\ pc = "sort"
  <2>1. NextReady = {} /\ UNCHANGED <<graph, sorted, control_events>>
    BY <1>6, Stages, InputsStay
  <2>2. DOMAIN graph \subseteq Id
    BY DEF ResIInv, SortOK, StoreOK
  <2>3. /\ control_events \subseteq DOMAIN graph
        /\ \A e \in DOMAIN graph : graph[e] \subseteq AuthEvents(e) /\ graph[e] \subseteq DOMAIN graph
    BY <1>6 DEF BanIInv, GraphWhole
  <2>4. DOMAIN graph \subseteq Elements(sorted)
    BY <2>1, <2>2, <2>3, SortedWhole
  <2> QED BY <1>6, <2>1, <2>3, <2>4 DEF GraphWhole
<1>7. CASE pc \notin {"graph", "control", "separate"} /\ ~ (pc = "sort" /\ pc' = "auth")
  <2>1. graph' = graph /\ control_events' = control_events
    BY <1>7, InputsStay
  <2>2. pc \in {"auth", "mainline", "depth", "extend", "done", "err", "levels"} => sorted' = sorted
    BY InputsStay
  <2>3. \/ pc' = pc \/ pc' = "err"
        \/ pc = "exists" /\ pc' = "control"
        \/ pc = "levels" /\ pc' = "sort"
        \/ /\ pc \in {"auth", "mainline", "depth", "extend"}
           /\ pc' \in {"auth", "mainline", "depth", "extend", "done"}
    BY <1>7, Stages
  <2> QED BY <1>7, <2>1, <2>2, <2>3 DEF BanIInv, GraphWhole, ResIInv, SortOK
<1>8. CASE pc = "separate"
  <2>1. /\ pc' \in {"done", "exists", "separate", "err"} /\ graph' = graph
        /\ control_events' = control_events /\ control_events = {}
    BY <1>8, Stages, InputsStay DEF ResIInv, SortOK
  <2> QED BY <1>8, <2>1 DEF BanIInv, GraphWhole
<1>9. CASE pc = "control" /\ pc' \in {"control", "err"}
  <2>1. graph' = graph
    BY <1>9, InputsStay
  <2> QED BY <1>9, <2>1 DEF BanIInv, GraphWhole
<1>10. pc = "graph" /\ pc' = "graph" =>
         \/ GraphStep \/ UNCHANGED <<todo, stack, graph>> \/ \E id \in Id : GraphRoot(id)
  BY DEF ResNext, Separate, Extend, Arrive, Exists, Control, Levels, ExistsDone,
         ControlDone, GraphDone, LevelsDone, SortEmit, SortFail, SortDone, AuthGather,
         AuthStep, ControlResolved, MainlineStep, MainlineDone, DepthStart, DepthStep, DepthDone,
         LeftResolved, Take, Advance, sortVars
<1>11. pc = "graph" /\ pc' \notin {"graph", "levels"} => FALSE
  <2>1. pc = "graph" /\ pc' \notin {"graph", "levels"} => pc' = "err"
    BY Stages
  <2>2. pc = "graph" => pc' # "err"
    BY DEF ResNext, Separate, Extend, Arrive, Exists, Control, GraphRoot, Levels, ExistsDone,
         ControlDone, GraphStep, GraphDone, LevelsDone, SortEmit, SortFail, SortDone, AuthGather,
         AuthStep, ControlResolved, MainlineStep, MainlineDone, DepthStart, DepthStep, DepthDone,
         LeftResolved, Take, Advance
  <2> QED BY <2>1, <2>2
<1>12. pc = "control" => pc' \in {"control", "graph", "err"}
  BY Stages
<1> QED BY <1>1, <1>2, <1>3, <1>4, <1>5, <1>6, <1>7, <1>8, <1>9, <1>10, <1>11, <1>12

\* Reading order_map, queue and auth_events.
LEMMA QueueWholeStep ==
    ASSUME ResIInv, ResIInv', BanIInv, ResNext
    PROVE  QueueWhole'
<1>1. UNCHANGED inputVars /\ missing' = missing
  BY DEF ResNext, Separate, Extend, Arrive, Exists, Control, GraphRoot, Levels, ExistsDone,
         ControlDone, GraphStep, GraphDone, LevelsDone, SortEmit, SortFail, SortDone, AuthGather,
         AuthStep, ControlResolved, MainlineStep, MainlineDone, DepthStart, DepthStep, DepthDone,
         LeftResolved, Take, Advance, inputVars
<1>2. pc \notin {"exists", "sort"} => Remaining' = Remaining /\ sorted' = sorted
  BY InputsStay DEF Remaining
<1>3. second => pc \in {"auth", "extend", "done", "err"}
  BY DEF ResIInv, AuthOK
<1>4. auth_events # {} => pc = "auth" /\ queue # << >>
  BY DEF ResIInv, AuthOK
<1>5. CASE pc \in {"separate", "exists", "control", "graph", "levels", "mainline", "extend"}
  <2>1. UNCHANGED <<queue, auth_events, second, order_map>> /\ auth_events = {}
    BY <1>4, <1>5 DEF ResNext, Separate, Extend, Arrive, Exists, Control, GraphRoot, Levels,
         ExistsDone, ControlDone, GraphStep, GraphDone, LevelsDone, SortEmit, SortFail, SortDone,
         AuthGather, AuthStep, ControlResolved, MainlineStep, MainlineDone, DepthStart, DepthStep,
         DepthDone, LeftResolved, Take, Advance, authVars, lineVars
  <2>2. pc' # "auth"
    BY <1>5, Stages
  <2>3. pc' = "depth" => ~ second /\ DOMAIN order_map = {}
    <3>1. pc' = "depth" => pc = "mainline"
      BY <1>5, Stages
    <3> QED BY <1>3, <3>1 DEF BanIInv, QueueWhole
  <2>4. ~ second => DOMAIN order_map = {}
    BY <1>5 DEF BanIInv, QueueWhole
  <2> QED BY <2>1, <2>2, <2>3, <2>4 DEF QueueWhole
<1>6. CASE pc = "sort"
  <2>1. /\ ~ second /\ UNCHANGED <<auth_events, second, order_map>> /\ auth_events = {}
        /\ pc' # "depth"
    BY <1>3, <1>4, <1>6 DEF ResNext, Separate, Extend, Arrive, Exists, Control, GraphRoot, Levels,
         ExistsDone, ControlDone, GraphStep, GraphDone, LevelsDone, SortEmit, SortFail, SortDone,
         AuthGather, AuthStep, ControlResolved, MainlineStep, MainlineDone, DepthStart, DepthStep,
         DepthDone, LeftResolved, Take, Advance, authVars, lineVars
  <2>2. pc' = "auth" => queue' = sorted /\ sorted' = sorted
    <3>1. pc' = "auth" => SortDone
      BY <1>6, Stages
    <3> QED BY <3>1 DEF SortDone, Advance, sortVars
  <2>3. DOMAIN order_map = {}
    BY <1>6, <2>1 DEF BanIInv, QueueWhole
  <2> QED BY <2>1, <2>2, <2>3 DEF QueueWhole
<1>7. CASE pc = "depth"
  <2>1. DOMAIN order_map \subseteq Remaining /\ ~ second /\ auth_events = {} /\ walked \subseteq Remaining
    BY <1>3, <1>4, <1>7 DEF BanIInv, QueueWhole, ResIInv, LineOK
  <2>2. auth_events' = {}
    BY <1>7, <2>1 DEF ResNext, Separate, Extend, Arrive, Exists, Control, GraphRoot, Levels,
         ExistsDone, ControlDone, GraphStep, GraphDone, LevelsDone, SortEmit, SortFail, SortDone,
         AuthGather, AuthStep, ControlResolved, MainlineStep, MainlineDone, DepthStart, DepthStep,
         DepthDone, LeftResolved, Take, Advance, authVars, lineVars
  <2>3. CASE DepthDone
    <3>1. /\ DOMAIN order_map \subseteq all_conflicted /\ all_conflicted \subseteq Id
          /\ \A e \in DOMAIN order_map : order_map[e] \in Int
      BY DEF ResIInv, LineOK, SortOK, StoreOK
    <3>2. Elements(SortedLeft(order_map)) \subseteq DOMAIN order_map
      BY <3>1, SortedLeftIs
    <3>3. pc' = "auth" /\ queue' = SortedLeft(order_map) /\ second'
      BY <2>3 DEF DepthDone, Advance
    <3> QED BY <1>2, <1>7, <2>1, <2>2, <3>2, <3>3 DEF QueueWhole
  <2>4. CASE ~ DepthDone
    <3>1. pc' = "depth"
      <4>1. pc' # "err"
        BY <1>7 DEF ResNext, Separate, Extend, Arrive, Exists, Control, GraphRoot, Levels,
         ExistsDone, ControlDone, GraphStep, GraphDone, LevelsDone, SortEmit, SortFail, SortDone,
         AuthGather, AuthStep, ControlResolved, MainlineStep, MainlineDone, DepthStart, DepthStep,
         DepthDone, LeftResolved, Take, Advance
      <4> QED BY <1>7, <2>4, <4>1, Stages
    <3>2. \/ order_map' = order_map
          \/ \E d : Record(d)
      BY <1>7, <2>4 DEF ResNext, Separate, Extend, Arrive, Exists, Control, GraphRoot, Levels,
         ExistsDone, ControlDone, GraphStep, GraphDone, LevelsDone, SortEmit, SortFail, SortDone,
         AuthGather, AuthStep, ControlResolved, MainlineStep, MainlineDone, DepthStart, DepthStep,
         LeftResolved, Take, Advance, lineVars
    <3>3. DOMAIN order_map' \subseteq DOMAIN order_map \cup walked
      BY <3>2 DEF Record
    <3> QED BY <1>2, <1>7, <2>1, <2>2, <3>1, <3>3 DEF QueueWhole
  <2> QED BY <2>3, <2>4
<1>8. CASE pc = "auth"
  <2>1. UNCHANGED <<second, order_map>> /\ pc' # "depth"
    BY <1>8 DEF ResNext, Separate, Extend, Arrive, Exists, Control, GraphRoot, Levels,
         ExistsDone, ControlDone, GraphStep, GraphDone, LevelsDone, SortEmit, SortFail, SortDone,
         AuthGather, AuthStep, ControlResolved, MainlineStep, MainlineDone, DepthStart, DepthStep,
         DepthDone, LeftResolved, Take, Advance, authVars, lineVars
  <2>2. ~ second' => DOMAIN order_map' = {}
    BY <1>8, <2>1 DEF BanIInv, QueueWhole
  <2>3. Elements(queue) \subseteq IF second THEN Remaining ELSE Elements(sorted)
    BY <1>8 DEF BanIInv, QueueWhole
  <2>4. /\ queue \in Seq(Id) /\ all_conflicted \subseteq Id /\ Elements(queue) \subseteq all_conflicted
        /\ held \subseteq Id /\ Id \ held \subseteq missing
        /\ \A k \in DOMAIN resolved_state : resolved_state[k] \in Id
    BY InvolvedClosed DEF ResIInv, AuthOK, SortOK, StoreOK
  <2>5. CASE AuthStep
    <3>1. queue' = Tail(queue) /\ auth_events' = {} /\ queue # << >>
      BY <1>4, <2>5 DEF AuthStep
    <3>2. Elements(queue') \subseteq Elements(queue)
      BY <2>4, <3>1, FrontIn
    <3> QED BY <1>2, <1>8, <2>1, <2>2, <2>3, <3>1, <3>2 DEF QueueWhole
  <2>6. CASE AuthGather
    <3> DEFINE id == Head(queue)
               own == OwnMap(id)
               state == Fetched(resolved_state)
               keys == auth_types_for_event(event[id])
               fresh == keys \cap DOMAIN state
               map == AuthMap(id, resolved_state)
    <3>1. queue' = queue /\ auth_events' \subseteq {map} /\ resolved_state' = resolved_state
      BY <2>6 DEF AuthGather
    <3>2. map = [k \in DOMAIN own \cup fresh |-> IF k \in fresh THEN state[k] ELSE own[k]]
      BY DEF AuthMap, Overlay
    <3>3. ASSUME NEW k \in keys \cap DOMAIN resolved_state, resolved_state[k] \notin missing
          PROVE  k \in DOMAIN map /\ map[k] = event[resolved_state[k]]
      <4>1. resolved_state[k] \in held
        BY <2>4, <3>3
      <4>2. k \in DOMAIN state /\ state[k] = event[resolved_state[k]]
        BY <3>3, <4>1 DEF Fetched
      <4> HIDE DEF own, state, keys, map
      <4> QED BY <3>2, <3>3, <4>2
    <3>4. \A m \in auth_events' :
          \A k \in auth_types_for_event(event[Head(queue')]) \cap DOMAIN resolved_state' :
             resolved_state'[k] \notin missing' =>
                k \in DOMAIN m /\ m[k] = event[resolved_state'[k]]
      BY <1>1, <3>1, <3>3
    <3> HIDE DEF id, own, state, keys, map
    <3> QED BY <1>2, <1>8, <2>1, <2>2, <2>3, <3>1, <3>4 DEF QueueWhole
  <2>7. CASE ~ AuthStep /\ ~ AuthGather
    <3>1. UNCHANGED <<queue, auth_events, resolved_state>>
      BY <1>8, <2>7 DEF ResNext, Separate, Extend, Arrive, Exists, Control, GraphRoot, Levels,
         ExistsDone, ControlDone, GraphStep, GraphDone, LevelsDone, SortEmit, SortFail, SortDone,
         ControlResolved, MainlineStep, MainlineDone, DepthStart, DepthStep,
         DepthDone, LeftResolved, Take, Advance, authVars
    <3>2. \A m \in auth_events :
          \A k \in auth_types_for_event(event[Head(queue)]) \cap DOMAIN resolved_state :
             resolved_state[k] \notin missing =>
                k \in DOMAIN m /\ m[k] = event[resolved_state[k]]
      BY DEF BanIInv, QueueWhole
    <3> QED BY <1>1, <1>2, <1>8, <2>1, <2>2, <2>3, <3>1, <3>2 DEF QueueWhole
  <2> QED BY <2>5, <2>6, <2>7
<1> QED BY <1>5, <1>6, <1>7, <1>8, InputsStay DEF ResIInv, SortOK

\* The state of a banned user has no event accepted that is not their own
\* member event, unless what it may do does not rest on membership.
LEMMA BannedRejected ==
    ASSUME NEW id \in Id, NEW current, NEW against, BoundByMembership(event[id]),
           <<Member, event[id].sender>> \in DOMAIN against,
           against[<<Member, event[id].sender>>].content.membership = "ban",
           KeyOf(id) # <<Member, event[id].sender>>
    PROVE  auth_check(RoomVersion(version), event[id], current, against) # "allow"
<1> DEFINE rv == RoomVersion(version)
           ev == event[id]
           creates == Get(against, <<Create, "">>)
           create == CHOOSE c \in creates : TRUE
           members == Get(against, <<Member, ev.sender>>)
           m == MembershipChange(rv, ev, create, against, current)
<1>1. MembershipOf(members) = "ban"
  <2>1. members = {against[<<Member, ev.sender>>]}
    BY DEF Get
  <2> HIDE DEF members
  <2> QED BY <2>1 DEF MembershipOf
<1>2. CASE ev.type = Member
  <2>1. ev.state_key # ev.sender
    BY <1>2 DEF KeyOf
  <2>2. /\ m.sender_membership = "ban" /\ m.sender = ev.sender /\ m.target = ev.state_key
        /\ m.first_join => ev.sender = ev.state_key
        /\ m.third_party_invite = ev.content.third_party_invite
    BY <1>1 DEF MembershipChange
  <2> HIDE DEF m
  <2>3. ~ (ev.content.membership = "join" /\ ValidJoin(rv, m))
    BY <2>1, <2>2 DEF ValidJoin
  <2>4. ~ (ev.content.membership = "invite" /\ ValidInvite(m))
    BY <1>2, <2>2 DEF ValidInvite, BoundByMembership
  <2>5. ~ ValidLeave(m) /\ ~ ValidBan(m) /\ ~ ValidKnock(rv, m)
    BY <2>1, <2>2 DEF ValidLeave, ValidBan, ValidKnock
  <2>6. ~ valid_membership_change(rv, ev, create, against, current)
    BY <2>3, <2>4, <2>5 DEF valid_membership_change, m
  <2> HIDE DEF rv, ev, creates, create
  <2>7. auth_check(rv, ev, current, against) # "allow"
    BY <1>2, <2>6 DEF auth_check, creates, create, Member, Create, Aliases
  <2> QED BY <2>7 DEF rv, ev
<1>3. CASE ev.type # Member
  <2>1. ev.type # Create /\ ~ (ev.type = Aliases /\ rv.special_case_aliases_auth)
    BY DEF BoundByMembership
  <2> HIDE DEF rv, ev, creates, create
  <2>2. auth_check(rv, ev, current, against) # "allow"
    BY <1>1, <1>3, <2>1 DEF auth_check, creates, create, members
  <2> QED BY <2>2 DEF rv, ev
<1> QED BY <1>2, <1>3

\* What a standing ban is does not change any more.
LEMMA BansStay ==
    ASSUME missing' = missing, clean' = clean, all_conflicted' = all_conflicted,
           version' = version
    PROVE  /\ \A user, ban : StandingBan(user, ban)' = StandingBan(user, ban)
           /\ \A ev : BoundByMembership(ev)' = BoundByMembership(ev)
           /\ \A k : Undisputed(k)' = Undisputed(k)
BY DEF StandingBan, Undisputed, BoundByMembership

\* A step of the second iterative_auth_check.
LEMMA AuthStepBans ==
    ASSUME ResIInv, BanIInv, AuthStep, second,
           missing' = missing, clean' = clean, all_conflicted' = all_conflicted,
           version' = version, Remaining' = Remaining
    PROVE  BannedLose'
<1> DEFINE id == Head(queue)
<1>0. PICK against \in auth_events : \E current \in ThirdPartyInvites(against) :
         resolved_state' =
            IF auth_check(RoomVersion(version), event[id], current, against) = "allow"
            THEN [k \in DOMAIN resolved_state \cup {KeyOf(id)} |->
                     IF k = KeyOf(id) THEN id ELSE resolved_state[k]]
            ELSE resolved_state
  BY DEF AuthStep
<1>1. PICK current \in ThirdPartyInvites(against) :
         resolved_state' =
            IF auth_check(RoomVersion(version), event[id], current, against) = "allow"
            THEN [k \in DOMAIN resolved_state \cup {KeyOf(id)} |->
                     IF k = KeyOf(id) THEN id ELSE resolved_state[k]]
            ELSE resolved_state
  BY <1>0
<1>2. pc = "auth" /\ queue # << >>
  BY DEF AuthStep, ResIInv, AuthOK
<1>3. id \in Remaining /\ id \in Id
  <2>1. queue \in Seq(Id) /\ Elements(queue) \subseteq all_conflicted /\ all_conflicted \subseteq Id
    BY DEF ResIInv, AuthOK, SortOK, StoreOK
  <2>2. Elements(queue) \subseteq Remaining
    BY <1>2 DEF BanIInv, QueueWhole
  <2> QED BY <1>2, <2>1, <2>2, FrontIn
<1>4. PowerEvents \subseteq Elements(sorted)
  BY <1>2 DEF BanIInv, ControlWhole, GraphWhole
<1>5. BannedLose /\ UndisputedStay
  BY <1>2 DEF BanIInv, StateWhole
<1>6. \A k \in auth_types_for_event(event[id]) \cap DOMAIN resolved_state :
         resolved_state[k] \notin missing =>
            k \in DOMAIN against /\ against[k] = event[resolved_state[k]]
  BY <1>0 DEF BanIInv, QueueWhole
<1> HIDE DEF id
<1>7. SUFFICES ASSUME NEW user \in User, NEW k \in DOMAIN resolved_state' \ DOMAIN clean,
                      <<Member, user>> \in DOMAIN resolved_state',
                      StandingBan(user, resolved_state'[<<Member, user>>]),
                      resolved_state'[k] \in Remaining,
                      BoundByMembership(event[resolved_state'[k]]),
                      event[resolved_state'[k]].sender = user
               PROVE  FALSE
  BY BansStay DEF BannedLose
<1> DEFINE key == <<Member, user>>
<1>8. CASE resolved_state' = resolved_state
  BY <1>5, <1>7, <1>8 DEF BannedLose
<1>9. CASE auth_check(RoomVersion(version), event[id], current, against) = "allow"
  <2>1. /\ DOMAIN resolved_state' = DOMAIN resolved_state \cup {KeyOf(id)}
        /\ \A x \in DOMAIN resolved_state' :
              resolved_state'[x] = IF x = KeyOf(id) THEN id ELSE resolved_state[x]
    BY <1>1, <1>9
  <2>2. KeyOf(id) # k => k \in DOMAIN resolved_state /\ resolved_state'[k] = resolved_state[k]
    BY <1>7, <2>1
  <2>3. CASE KeyOf(id) = key
    <3>1. StandingBan(user, id)
      BY <1>7, <2>1, <2>3
    <3>2. key \in DOMAIN clean
      <4> SUFFICES ASSUME key \notin DOMAIN clean PROVE FALSE
        OBVIOUS
      <4>1. /\ event[id].sender # user /\ event[id].content.membership = "ban" /\ id \notin missing
            /\ event[id].type = Member /\ event[id].state_key = user
        BY <2>3, <3>1 DEF StandingBan, KeyOf
      <4>2. is_power_event(event[id])
        BY <4>1 DEF is_power_event
      <4>3. id \in PowerEvents
        BY <1>3, <4>1, <4>2 DEF PowerEvents, Remaining
      <4> QED BY <1>3, <1>4, <4>3 DEF Remaining
    <3>3. /\ key \in DOMAIN resolved_state /\ resolved_state[key] = id
          /\ k \in DOMAIN resolved_state /\ resolved_state'[k] = resolved_state[k]
      <4>1. clean[key] = id /\ Undisputed(key)
        BY <3>1, <3>2 DEF StandingBan
      <4>2. k # key
        BY <1>7, <3>2
      <4> QED BY <1>5, <2>2, <2>3, <3>2, <4>1, <4>2 DEF UndisputedStay
    <3> QED BY <1>5, <1>7, <3>1, <3>3 DEF BannedLose
  <2>4. CASE KeyOf(id) # key
    <3>1. key \in DOMAIN resolved_state /\ resolved_state'[key] = resolved_state[key]
      BY <1>7, <2>1, <2>4
    <3>2. CASE KeyOf(id) # k
      BY <1>5, <1>7, <2>2, <3>1, <3>2 DEF BannedLose
    <3>3. CASE KeyOf(id) = k
      <4>1. resolved_state'[k] = id
        BY <1>7, <2>1, <3>3
      <4>2. BoundByMembership(event[id]) /\ event[id].sender = user
        BY <1>7, <4>1
      <4>3. key \in auth_types_for_event(event[id])
        BY <4>2 DEF auth_types_for_event, BoundByMembership
      <4>4. /\ resolved_state[key] \notin missing
            /\ event[resolved_state[key]].content.membership = "ban"
        BY <1>7, <3>1 DEF StandingBan
      <4>5. key \in DOMAIN against /\ against[key].content.membership = "ban"
        BY <1>6, <3>1, <4>3, <4>4
      <4> QED BY <1>3, <1>9, <2>4, <4>2, <4>5, BannedRejected
    <3> QED BY <3>2, <3>3
  <2> QED BY <2>3, <2>4
<1> QED BY <1>1, <1>8, <1>9

LEMMA StateWholeStep ==
    ASSUME ResIInv, BanIInv, ResNext
    PROVE  StateWhole'
<1>1. missing' = missing /\ clean' = clean /\ version' = version /\ pc \notin {"done", "err"}
  BY InputsStay
<1>2. CASE pc = "separate"
  <2>1. pc' \in {"separate", "exists", "done", "err"}
    BY <1>2, Stages
  <2>2. pc' = "done" => resolved_state' = clean
    BY <1>2 DEF ResNext, Separate, Extend, Arrive, Exists, Control, GraphRoot, Levels,
         ExistsDone, ControlDone, GraphStep, GraphDone, LevelsDone, SortEmit, SortFail, SortDone,
         AuthGather, AuthStep, ControlResolved, MainlineStep, MainlineDone, DepthStart, DepthStep,
         DepthDone, LeftResolved, Take, Advance
  <2>3. pc' = "done" => BannedLose'
    BY <1>1, <2>2 DEF BannedLose
  <2> QED BY <2>1, <2>3 DEF StateWhole, BannedSenderLoses
<1>3. CASE pc \in {"exists", "control", "graph", "levels"}
  <2>1. pc' \in {"exists", "control", "graph", "levels", "sort", "err"}
    BY <1>3, Stages
  <2> QED BY <2>1 DEF StateWhole, BannedSenderLoses
<1>4. CASE pc = "sort"
  <2>1. pc' \in {"sort", "auth", "err"}
    BY <1>4, Stages
  <2>2. pc' = "auth" => resolved_state' = clean /\ ~ second'
    <3>1. pc' = "auth" => SortDone
      BY <1>4, Stages
    <3>2. ~ second
      BY <1>4 DEF ResIInv, AuthOK
    <3> QED BY <3>1, <3>2 DEF SortDone, Advance
  <2>3. pc' = "auth" => UndisputedStay' /\ OnlySortedAdded'
    BY <1>1, <2>2 DEF UndisputedStay, OnlySortedAdded
  <2> QED BY <2>1, <2>2, <2>3 DEF StateWhole, BannedSenderLoses
<1>5. CASE pc \in {"auth", "mainline", "depth", "extend"}
  <2>1. all_conflicted' = all_conflicted /\ sorted' = sorted /\ Remaining' = Remaining
    BY <1>5, InputsStay DEF Remaining
  <2>2. UndisputedStay /\ (second => BannedLose) /\ (~ second => OnlySortedAdded)
    BY <1>5 DEF BanIInv, StateWhole
  <2>3. ~ second => BannedLose
    BY <2>2 DEF BannedLose, OnlySortedAdded, Remaining
  <2>4. CASE AuthStep
    <3> DEFINE id == Head(queue)
    <3>1. /\ pc = "auth" /\ pc' \in {"auth", "err"} /\ second' = second /\ queue # << >>
          /\ \/ resolved_state' = resolved_state
             \/ resolved_state' = [k \in DOMAIN resolved_state \cup {KeyOf(id)} |->
                                     IF k = KeyOf(id) THEN id ELSE resolved_state[k]]
      BY <2>4 DEF AuthStep, ResIInv, AuthOK
    <3>2. id \in all_conflicted /\ (~ second => id \in Elements(sorted))
      <4>1. queue \in Seq(Id) /\ Elements(queue) \subseteq all_conflicted
        BY DEF ResIInv, AuthOK
      <4>2. ~ second => Elements(queue) \subseteq Elements(sorted)
        BY <3>1 DEF BanIInv, QueueWhole
      <4> QED BY <3>1, <4>1, <4>2, FrontIn
    <3> HIDE DEF id
    <3>3. UndisputedStay'
      <4> SUFFICES ASSUME NEW k \in DOMAIN clean, Undisputed(k)
                   PROVE  k \in DOMAIN resolved_state' /\ resolved_state'[k] = clean[k]
        BY <1>1, <2>1, BansStay DEF UndisputedStay
      <4>1. k \in DOMAIN resolved_state /\ resolved_state[k] = clean[k]
        BY <2>2 DEF UndisputedStay
      <4>2. KeyOf(id) = k => id = clean[k]
        BY <3>2 DEF Undisputed
      <4> QED BY <3>1, <4>1, <4>2
    <3>4. ~ second => OnlySortedAdded'
      BY <1>1, <2>1, <2>2, <3>1, <3>2 DEF OnlySortedAdded
    <3>5. second => BannedLose'
      BY <1>1, <2>1, <2>4, AuthStepBans
    <3> QED BY <3>1, <3>3, <3>4, <3>5 DEF StateWhole, BannedSenderLoses
  <2>5. CASE Extend
    <3>1. pc' = "done" /\ resolved_state' = Overlay(resolved_state, clean, DOMAIN clean)
      BY <2>5 DEF Extend, Advance
    <3>2. /\ DOMAIN resolved_state' = DOMAIN resolved_state \cup DOMAIN clean
          /\ \A k \in DOMAIN clean : resolved_state'[k] = clean[k]
          /\ \A k \in DOMAIN resolved_state \ DOMAIN clean : resolved_state'[k] = resolved_state[k]
      BY <3>1 DEF Overlay
    <3>3. BannedLose'
      <4> SUFFICES ASSUME NEW user \in User, NEW k \in DOMAIN resolved_state' \ DOMAIN clean,
                          <<Member, user>> \in DOMAIN resolved_state',
                          StandingBan(user, resolved_state'[<<Member, user>>]),
                          resolved_state'[k] \in Remaining,
                          BoundByMembership(event[resolved_state'[k]]),
                          event[resolved_state'[k]].sender = user
                   PROVE  FALSE
        BY <1>1, <2>1, BansStay DEF BannedLose
      <4> DEFINE key == <<Member, user>>
      <4>1. k \in DOMAIN resolved_state /\ resolved_state'[k] = resolved_state[k]
        BY <3>2
      <4>2. key \in DOMAIN resolved_state /\ resolved_state'[key] = resolved_state[key]
        <5>1. CASE key \in DOMAIN clean
          <6>1. Undisputed(key)
            BY <5>1 DEF StandingBan
          <6> QED BY <2>2, <3>2, <5>1, <6>1 DEF UndisputedStay
        <5>2. CASE key \notin DOMAIN clean
          BY <3>2, <5>2
        <5> QED BY <5>1, <5>2
      <4> QED BY <2>2, <2>3, <4>1, <4>2 DEF BannedLose
    <3> QED BY <3>1, <3>3 DEF StateWhole, BannedSenderLoses
  <2>6. CASE DepthDone
    <3>1. pc' = "auth" /\ resolved_state' = resolved_state
      BY <2>6 DEF DepthDone, Advance
    <3>2. UndisputedStay' /\ BannedLose'
      BY <1>1, <2>1, <2>2, <2>3, <3>1, BansStay DEF UndisputedStay, BannedLose
    <3>3. second'
      BY <2>6 DEF DepthDone
    <3> QED BY <3>1, <3>2, <3>3 DEF StateWhole, BannedSenderLoses
  <2>7. CASE ~ AuthStep /\ ~ Extend /\ ~ DepthDone
    <3>1. UNCHANGED <<resolved_state, second>> /\ pc' # "done"
      <4>1. UNCHANGED <<resolved_state, second>>
        BY <1>5, <2>7 DEF ResNext, Separate, Arrive, Exists, Control, GraphRoot, Levels,
         ExistsDone, ControlDone, GraphStep, GraphDone, LevelsDone, SortEmit, SortFail, SortDone,
         AuthGather, ControlResolved, MainlineStep, MainlineDone, DepthStart, DepthStep,
         LeftResolved, Take, Advance, authVars
      <4>2. pc' # "done"
        BY <1>5, <2>7, Stages
      <4> QED BY <4>1, <4>2
    <3>2. UndisputedStay' /\ (second' => BannedLose') /\ (~ second' => OnlySortedAdded')
      BY <1>1, <2>1, <2>2, <3>1, BansStay DEF UndisputedStay, BannedLose, OnlySortedAdded
    <3> QED BY <3>1, <3>2 DEF StateWhole, BannedSenderLoses
  <2> QED BY <2>4, <2>5, <2>6, <2>7
<1> QED BY <1>1, <1>2, <1>3, <1>4, <1>5 DEF ResIInv, SortOK

LEMMA BanStutter ==
    ASSUME ResIInv, BanIInv, UNCHANGED resVars
    PROVE  BanIInv'
<1>1. UNCHANGED <<version, state_sets, missing, held, known, pc, todo, all_conflicted,
                  control_events, graph, stack, event_to_pl, sorted, queue, auth_events, second,
                  resolved_state, mainline, cursor, walked, order_map>>
  BY DEF resVars, inputVars, storeVars, sortVars, authVars, lineVars
<1>2. clean' = clean /\ Remaining' = Remaining
  BY <1>1, Frame DEF ResIInv, Remaining, inputVars
<1>3. ControlWhole'
  BY <1>1 DEF BanIInv, ControlWhole, PowerEvents
<1>4. GraphWhole'
  BY <1>1 DEF BanIInv, GraphWhole
<1>5. QueueWhole'
  BY <1>1, <1>2 DEF BanIInv, QueueWhole
<1>6. BannedLose' = BannedLose /\ UndisputedStay' = UndisputedStay /\ OnlySortedAdded' = OnlySortedAdded
  BY <1>1, <1>2 DEF BannedLose, UndisputedStay, OnlySortedAdded, StandingBan, Undisputed,
                    BoundByMembership
<1>7. StateWhole'
  BY <1>1, <1>6 DEF BanIInv, StateWhole, BannedSenderLoses
<1> QED BY <1>3, <1>4, <1>5, <1>7 DEF BanIInv

\* If no event refers to itself over others, a user whose ban is in the result
\* and stood, known to the store when resolve was called and either a
\* conflicted ban by somebody else or undisputed, keeps nothing they set on a
\* fork outside the control events that rests on membership: whatever else the
\* store lacked, whatever arrived meanwhile and whatever order the loops took.
THEOREM BansComeFirst ==
    ASSUME Acyclic
    PROVE  ResSpec => []BannedSenderLoses
<1>1. ResInit => BanIInv
  <2> SUFFICES ASSUME ResInit PROVE BanIInv
    OBVIOUS
  <2>1. ControlWhole
    BY DEF ResInit, ControlWhole
  <2>2. GraphWhole
    BY DEF ResInit, GraphWhole
  <2>3. QueueWhole
    BY DEF ResInit, QueueWhole
  <2>4. StateWhole
    BY DEF ResInit, StateWhole, BannedSenderLoses
  <2> QED BY <2>1, <2>2, <2>3, <2>4 DEF BanIInv
<1>2. ResIInv /\ ResIInv' /\ BanIInv /\ [ResNext]_resVars => BanIInv'
  <2> SUFFICES ASSUME ResIInv, ResIInv', BanIInv, [ResNext]_resVars PROVE BanIInv'
    OBVIOUS
  <2>1. CASE UNCHANGED resVars
    BY <2>1, BanStutter
  <2>2. CASE ResNext
    <3>1. ControlWhole' /\ GraphWhole' /\ QueueWhole' /\ StateWhole'
      BY <2>2, ControlWholeStep, GraphWholeStep, QueueWholeStep, StateWholeStep
    <3> QED BY <3>1 DEF BanIInv
  <2> QED BY <2>1, <2>2
<1>3. BanIInv => BannedSenderLoses
  BY DEF BanIInv, StateWhole
<1>4. ResSpec => []ResIInv
  BY ResInvariant, PTL
<1> QED BY <1>1, <1>2, <1>3, <1>4, PTL DEF ResSpec

=============================================================================
