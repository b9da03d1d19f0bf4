-------------------------- MODULE PushRulesProofs --------------------------
(***************************************************************************)
(* Proofs about PushRules, for any rule ids, actions and defaults: what    *)
(* holds of a list of rules (well formed, `.m.rule.master` first) is       *)
(* carried through the operations of IndexSet and through insert, and so   *)
(* through every call a user makes.                                        *)
(***************************************************************************)
EXTENDS PushRules, WellFoundedInduction, SequenceTheorems, TLAPS

-----------------------------------------------------------------------------
(* What retain returns, for every list: the library's induction theorems *)
(* cannot be applied, the least number principle can.                    *)

\* The least number principle, which stands in for induction.
LEMMA LeastNumber ==
    ASSUME NEW B, B \subseteq Nat, B # {}
    PROVE  \E n \in B : \A m \in B : n <= m
<1>1. PICK n \in B : \A m \in B : ~(<<m, n>> \in OpToRel(<, Nat))
  BY NatLessThanWellFounded, WFMin, Zenon
<1>2. \A m \in B : ~(m < n)
  BY <1>1 DEF OpToRel
<1>3. \A m \in B : n <= m
  BY <1>2
<1> QED BY <1>3

\* The equation of the function in retain, up to n.
Unfolds(f, s, w, n) ==
    f = [i \in 0..n |-> IF i = 0 THEN << >>
                        ELSE IF s[i] \in w THEN Append(f[i - 1], s[i]) ELSE f[i - 1]]

LEMMA UnfoldsExists ==
    ASSUME NEW s, NEW w, NEW len \in Nat
    PROVE  \E f : Unfolds(f, s, w, len)
<1> DEFINE Bad == {n \in Nat : ~ \E f : Unfolds(f, s, w, n)}
<1>1. SUFFICES ASSUME Bad # {} PROVE FALSE
  OBVIOUS
<1>2. PICK n \in Bad : \A m \in Bad : n <= m
  <2>1. Bad \subseteq Nat
    OBVIOUS
  <2> HIDE DEF Bad
  <2> QED BY <1>1, <2>1, LeastNumber
<1>3. n \in Nat /\ ~ \E f : Unfolds(f, s, w, n)
  BY <1>2
<1>4. n # 0
  <2> DEFINE f == [i \in 0..0 |-> << >>]
  <2>1. Unfolds(f, s, w, 0)
    BY DEF Unfolds
  <2> QED BY <1>3, <2>1
<1>5. n - 1 \in Nat /\ n - 1 \notin Bad
  BY <1>2, <1>3, <1>4
<1>6. PICK f : Unfolds(f, s, w, n - 1)
  BY <1>5
<1> DEFINE last == IF s[n] \in w THEN Append(f[n - 1], s[n]) ELSE f[n - 1]
           g == [i \in 0..n |-> IF i = n THEN last ELSE f[i]]
<1>7. \A i \in 0..(n - 1) : f[i] = IF i = 0 THEN << >>
                                    ELSE IF s[i] \in w THEN Append(f[i - 1], s[i]) ELSE f[i - 1]
  BY <1>6 DEF Unfolds
<1>8. ASSUME NEW i \in 0..n
      PROVE  g[i] = IF i = 0 THEN << >>
                    ELSE IF s[i] \in w THEN Append(g[i - 1], s[i]) ELSE g[i - 1]
  <2>1. CASE i = n
    <3>1. g[i] = last /\ g[i - 1] = f[n - 1]
      BY <1>3, <1>4, <2>1
    <3> QED BY <1>4, <2>1, <3>1
  <2>2. CASE i = 0
    BY <1>3, <1>4, <1>7, <2>2
  <2>3. CASE i # 0 /\ i # n
    <3>1. g[i] = f[i] /\ g[i - 1] = f[i - 1] /\ i \in 0..(n - 1)
      BY <1>3, <2>3
    <3> HIDE DEF g
    <3> QED BY <1>7, <2>3, <3>1
  <2> QED BY <2>1, <2>2, <2>3
<1>9. Unfolds(g, s, w, n)
  <2>1. g = [i \in 0..n |-> g[i]]
    OBVIOUS
  <2> HIDE DEF g
  <2> QED BY <1>8, <2>1 DEF Unfolds
<1> QED BY <1>3, <1>9

LEMMA RetainUnfolds ==
    ASSUME NEW s, NEW w, Len(s) \in Nat
    PROVE  \E f : Unfolds(f, s, w, Len(s)) /\ retain(s, w) = f[Len(s)]
<1> DEFINE f == CHOOSE f : Unfolds(f, s, w, Len(s))
<1>1. Unfolds(f, s, w, Len(s))
  BY UnfoldsExists
<1>2. retain(s, w) = f[Len(s)]
  BY DEF retain, Unfolds
<1> QED BY <1>1, <1>2

\* g lists, in order, the places up to n of what s has in common with w, and t
\* what is there.
Picks(g, t, s, w, n) ==
    /\ g \in [1..Len(t) -> 1..n]
    /\ \A i, j \in 1..Len(t) : i < j => g[i] < g[j]
    /\ \A i \in 1..Len(t) : t[i] = s[g[i]]
    /\ \A k \in 1..n : s[k] \in w <=> \E i \in 1..Len(t) : g[i] = k

LEMMA Retain ==
    ASSUME NEW S, NEW s \in Seq(S), NEW w
    PROVE  /\ retain(s, w) \in Seq(S)
           /\ \E g : Picks(g, retain(s, w), s, w, Len(s))
<1>1. PICK f : Unfolds(f, s, w, Len(s)) /\ retain(s, w) = f[Len(s)]
  BY RetainUnfolds
<1> DEFINE Good(n) == f[n] \in Seq(S) /\ \E g : Picks(g, f[n], s, w, n)
           Bad == {n \in 0..Len(s) : ~ Good(n)}
<1>2. SUFFICES ASSUME Bad # {} PROVE FALSE
  <2>1. Len(s) \in 0..Len(s)
    OBVIOUS
  <2> QED BY <1>1, <1>2, <2>1
<1>3. PICK n \in Bad : \A m \in Bad : n <= m
  <2>1. Bad \subseteq Nat
    OBVIOUS
  <2> HIDE DEF Bad
  <2> QED BY <1>2, <2>1, LeastNumber
<1>4. n \in 0..Len(s) /\ Len(s) \in Nat /\ ~ Good(n)
  BY <1>3
<1>5. \A i \in 0..Len(s) : f[i] = IF i = 0 THEN << >>
                                  ELSE IF s[i] \in w THEN Append(f[i - 1], s[i]) ELSE f[i - 1]
  BY <1>1 DEF Unfolds
<1>6. n # 0
  <2>1. f[0] = << >> /\ Len(f[0]) = 0
    BY <1>4, <1>5
  <2>2. f[0] \in Seq(S)
    BY <2>1
  <2>3. Picks([i \in 1..0 |-> 0], f[0], s, w, 0)
    BY <2>1 DEF Picks
  <2> QED BY <1>4, <2>2, <2>3
<1>7. n - 1 \in 0..Len(s) /\ Good(n - 1) /\ n \in 1..Len(s)
  <2>1. n - 1 \in 0..Len(s) /\ n \in 1..Len(s)
    BY <1>4, <1>6
  <2>2. n - 1 \notin Bad
    <3> HIDE DEF Bad
    <3> QED BY <1>3, <1>4
  <2> QED BY <2>1, <2>2
<1>8. PICK g : Picks(g, f[n - 1], s, w, n - 1)
  BY <1>7
<1> DEFINE u == f[n - 1]
<1>9. u \in Seq(S) /\ Len(u) \in Nat /\ s[n] \in S
  BY <1>7
<1>10. CASE s[n] \notin w
  <2>1. f[n] = u
    BY <1>4, <1>5, <1>6, <1>10
  <2>2. Picks(g, u, s, w, n)
    <3> HIDE DEF u
    <3>1. Picks(g, u, s, w, n - 1)
      BY <1>8 DEF u
    <3>2. \A k \in 1..n : k = n \/ k \in 1..(n - 1)
      BY <1>4
    <3>3. \A i \in 1..Len(u) : g[i] \in 1..(n - 1) /\ g[i] \in 1..n /\ g[i] # n
      BY <1>4, <3>1 DEF Picks
    <3>4. g \in [1..Len(u) -> 1..n]
      BY <3>1, <3>3 DEF Picks
    <3> QED BY <1>10, <3>1, <3>2, <3>3, <3>4 DEF Picks
  <2> QED BY <1>4, <1>9, <2>1, <2>2
<1>11. CASE s[n] \in w
  <2> DEFINE t == Append(u, s[n])
             h == [i \in 1..Len(t) |-> IF i = Len(t) THEN n ELSE g[i]]
  <2>1. f[n] = t
    BY <1>4, <1>5, <1>6, <1>11
  <2>2. /\ t \in Seq(S) /\ Len(t) = Len(u) + 1 /\ t[Len(t)] = s[n]
        /\ \A i \in 1..Len(u) : t[i] = u[i]
    <3> HIDE DEF u
    <3> QED BY <1>9
  <2>3. Picks(g, u, s, w, n - 1)
    BY <1>8
  <2> HIDE DEF u, t
  <2>4. \A i \in 1..Len(t) : i = Len(t) \/ i \in 1..Len(u)
    BY <1>9, <2>2
  <2>5. \A i \in 1..Len(u) : g[i] \in 1..(n - 1) /\ g[i] \in 1..n /\ g[i] < n /\ i \in 1..Len(t) /\ i # Len(t)
    <3>1. ASSUME NEW i \in 1..Len(u) PROVE g[i] \in 1..(n - 1)
      BY <2>3, <3>1 DEF Picks
    <3>2. \A k \in 1..(n - 1) : k \in 1..n /\ k < n
      BY <1>4
    <3>3. \A i \in 1..Len(u) : i \in 1..Len(t) /\ i # Len(t)
      BY <1>9, <2>2
    <3> QED BY <3>1, <3>2, <3>3
  <2>6. h[Len(t)] = n /\ Len(t) \in 1..Len(t) /\ \A i \in 1..Len(u) : h[i] = g[i]
    BY <1>9, <2>2, <2>5
  <2>7. h \in [1..Len(t) -> 1..n]
    BY <1>7, <2>4, <2>5
  <2> HIDE DEF h
  <2>8. ASSUME NEW i \in 1..Len(t), NEW j \in 1..Len(t), i < j PROVE h[i] < h[j]
    <3>1. i \in 1..Len(u)
      BY <1>9, <2>2, <2>8
    <3>2. CASE j = Len(t)
      BY <2>5, <2>6, <3>1, <3>2
    <3>3. CASE j \in 1..Len(u)
      BY <2>3, <2>6, <2>8, <3>1, <3>3 DEF Picks
    <3> QED BY <2>4, <3>2, <3>3
  <2>9. ASSUME NEW i \in 1..Len(t) PROVE t[i] = s[h[i]]
    <3>1. CASE i = Len(t)
      BY <2>2, <2>6, <3>1
    <3>2. CASE i \in 1..Len(u)
      BY <2>2, <2>3, <2>6, <3>2 DEF Picks
    <3> QED BY <2>4, <3>1, <3>2
  <2>10. ASSUME NEW k \in 1..n PROVE s[k] \in w <=> \E i \in 1..Len(t) : h[i] = k
    <3>1. CASE k = n
      BY <1>11, <2>6, <3>1
    <3>2. CASE k # n
      <4>1. k \in 1..(n - 1)
        BY <1>4, <3>2
      <4>2. s[k] \in w <=> \E i \in 1..Len(u) : g[i] = k
        BY <2>3, <4>1 DEF Picks
      <4>3. (\E i \in 1..Len(u) : g[i] = k) <=> \E i \in 1..Len(t) : h[i] = k
        BY <2>4, <2>5, <2>6, <3>2
      <4> QED BY <4>2, <4>3
    <3> QED BY <3>1, <3>2
  <2>11. Picks(h, t, s, w, n)
    BY <2>7, <2>8, <2>9, <2>10 DEF Picks
  <2> QED BY <1>4, <2>1, <2>2, <2>11
<1> QED BY <1>10, <1>11

\* Two lists of the same numbers in increasing order are the same.
Ascends(g, m) ==
    m \in Nat /\ g \in [1..m -> Nat] /\ \A i, j \in 1..m : i < j => g[i] < g[j]

Covers(g, m, h, n) == \A i \in 1..m : \E j \in 1..n : g[i] = h[j]

LEMMA SameOrder ==
    ASSUME NEW m, NEW n, NEW g, NEW h, Ascends(g, m), Ascends(h, n),
           Covers(g, m, h, n), Covers(h, n, g, m)
    PROVE  m = n /\ g = h
<1> USE DEF Ascends, Covers
<1> DEFINE Bad == {i \in 1..m : ~(i \in 1..n /\ g[i] = h[i])}
<1>1. Bad = {}
  <2> SUFFICES ASSUME Bad # {} PROVE FALSE
    OBVIOUS
  <2>1. PICK i \in Bad : \A k \in Bad : i <= k
    <3>1. Bad \subseteq Nat
      OBVIOUS
    <3> HIDE DEF Bad
    <3> QED BY <3>1, LeastNumber
  <2>2. i \in 1..m /\ ~(i \in 1..n /\ g[i] = h[i])
    BY <2>1
  <2>3. ASSUME NEW k \in 1..m, k < i PROVE k \in 1..n /\ g[k] = h[k]
    <3>1. k \notin Bad
      <4> HIDE DEF Bad
      <4> QED BY <2>1, <2>2, <2>3
    <3> QED BY <3>1
  <2>4. PICK j \in 1..n : g[i] = h[j]
    BY <2>2
  <2>5. ~(j < i)
    <3> SUFFICES ASSUME j < i PROVE FALSE
      OBVIOUS
    <3>1. j \in 1..m
      BY <2>2
    <3>2. g[j] = h[j] /\ g[j] < g[i] /\ g[i] \in Nat /\ g[j] \in Nat
      BY <2>2, <2>3, <3>1
    <3> QED BY <2>4, <3>2
  <2>6. i \in 1..n /\ i < j
    <3>1. i \in Nat /\ j \in Nat /\ 1 <= i /\ i <= j /\ j <= n
      BY <2>2, <2>4, <2>5
    <3>2. i \in 1..n
      BY <3>1
    <3>3. i # j
      BY <2>2, <2>4, <3>2
    <3> QED BY <3>1, <3>2, <3>3
  <2>7. PICK k \in 1..m : g[k] = h[i]
    BY <2>6
  <2>8. h[i] < h[j] /\ h[i] \in Nat /\ h[j] \in Nat
    BY <2>4, <2>6
  <2>9. g[k] < g[i] /\ g[k] \in Nat /\ g[i] \in Nat
    BY <2>2, <2>4, <2>7, <2>8
  <2>10. k < i
    <3> SUFFICES ASSUME k >= i PROVE FALSE
      BY <2>2, <2>7
    <3>1. k = i \/ i < k
      BY <2>2, <2>7
    <3>2. g[i] <= g[k]
      <4>1. CASE k = i
        BY <2>9, <4>1
      <4>2. CASE i < k
        <5>1. g[i] < g[k]
          BY <2>2, <2>7, <4>2
        <5> QED BY <2>9, <5>1
      <4> QED BY <3>1, <4>1, <4>2
    <3> QED BY <2>9, <3>2
  <2>11. k \in 1..n /\ g[k] = h[k]
    BY <2>3, <2>7, <2>10
  <2>12. h[k] < h[i]
    BY <2>6, <2>10, <2>11
  <2> QED BY <2>7, <2>8, <2>11, <2>12
<1>2. \A i \in 1..m : i \in 1..n /\ g[i] = h[i]
  BY <1>1
<1>3. m <= n
  BY <1>2
<1>4. n <= m
  <2> SUFFICES ASSUME n > m PROVE FALSE
    OBVIOUS
  <2>1. n \in 1..n
    OBVIOUS
  <2>2. PICK i \in 1..m : g[i] = h[n]
    BY <2>1
  <2>3. h[i] = h[n] /\ i \in 1..n /\ i < n /\ h[i] \in Nat
    BY <1>2, <2>1, <2>2
  <2>4. h[i] < h[n]
    BY <2>1, <2>3
  <2> QED BY <2>3, <2>4
<1>5. m = n
  BY <1>3, <1>4
<1> QED BY <1>2, <1>5

\* retain is the only list of what the list has in common with the set, in order.
LEMMA RetainIs ==
    ASSUME NEW S, NEW s \in Seq(S), NEW t \in Seq(S), NEW w, NEW h, Picks(h, t, s, w, Len(s))
    PROVE  retain(s, w) = t
<1> DEFINE u == retain(s, w)
<1>1. u \in Seq(S)
  BY Retain
<1>2. PICK g : Picks(g, u, s, w, Len(s))
  BY Retain
<1> HIDE DEF u
<1>3. Len(u) \in Nat /\ Len(t) \in Nat /\ Len(s) \in Nat
  BY <1>1
<1>4. \A k \in 1..Len(s) : k \in Nat
  OBVIOUS
<1>5. /\ g \in [1..Len(u) -> Nat] /\ h \in [1..Len(t) -> Nat]
      /\ \A i \in 1..Len(u) : g[i] \in 1..Len(s)
      /\ \A i \in 1..Len(t) : h[i] \in 1..Len(s)
  BY <1>2, <1>4 DEF Picks
<1>6. Covers(g, Len(u), h, Len(t)) /\ Covers(h, Len(t), g, Len(u))
  BY <1>2, <1>5 DEF Picks, Covers
<1>7. Ascends(g, Len(u)) /\ Ascends(h, Len(t))
  BY <1>2, <1>3, <1>5 DEF Picks, Ascends
<1>8. Len(u) = Len(t) /\ g = h
  BY <1>6, <1>7, SameOrder
<1>9. \A i \in 1..Len(t) : u[i] = t[i]
  BY <1>2, <1>8 DEF Picks
<1>10. u = t
  BY <1>1, <1>8, <1>9
<1> QED BY <1>10 DEF u

\* Lists that have the same of the set in the same order: phi leads from the
\* places in the one to those in the other.
LEMMA RetainSame ==
    ASSUME NEW S, NEW s \in Seq(S), NEW r \in Seq(S), NEW w,
           NEW phi \in [1..Len(s) -> 1..Len(r)],
           \A i, j \in 1..Len(s) : s[i] \in w /\ s[j] \in w /\ i < j => phi[i] < phi[j],
           \A i \in 1..Len(s) : s[i] \in w => r[phi[i]] = s[i],
           \A k \in 1..Len(r) : r[k] \in w => \E i \in 1..Len(s) : s[i] \in w /\ phi[i] = k
    PROVE  retain(s, w) = retain(r, w)
<1> DEFINE t == retain(s, w)
<1>1. t \in Seq(S)
  BY Retain
<1>2. PICK g : Picks(g, t, s, w, Len(s))
  BY Retain
<1> HIDE DEF t
<1> DEFINE h == [i \in 1..Len(t) |-> phi[g[i]]]
<1>3. \A i \in 1..Len(t) : g[i] \in 1..Len(s) /\ s[g[i]] \in w /\ t[i] = s[g[i]]
  BY <1>2 DEF Picks
<1>4. h \in [1..Len(t) -> 1..Len(r)]
  BY <1>3
<1>5. \A i \in 1..Len(t) : h[i] = phi[g[i]]
  OBVIOUS
<1> HIDE DEF h
<1>6. ASSUME NEW i \in 1..Len(t), NEW j \in 1..Len(t), i < j PROVE h[i] < h[j]
  <2>1. g[i] < g[j]
    BY <1>2, <1>6 DEF Picks
  <2> QED BY <1>3, <1>5, <2>1
<1>7. \A i \in 1..Len(t) : t[i] = r[h[i]]
  BY <1>3, <1>5
<1>8. ASSUME NEW k \in 1..Len(r) PROVE r[k] \in w <=> \E i \in 1..Len(t) : h[i] = k
  <2>1. ASSUME r[k] \in w PROVE \E i \in 1..Len(t) : h[i] = k
    <3>1. PICK l \in 1..Len(s) : s[l] \in w /\ phi[l] = k
      BY <2>1
    <3>2. PICK i \in 1..Len(t) : g[i] = l
      BY <1>2, <3>1 DEF Picks
    <3> QED BY <1>5, <3>1, <3>2
  <2>2. ASSUME NEW i \in 1..Len(t), h[i] = k PROVE r[k] \in w
    BY <1>3, <1>5, <2>2
  <2> QED BY <2>1, <2>2
<1>9. Picks(h, t, r, w, Len(r))
  BY <1>4, <1>6, <1>7, <1>8 DEF Picks
<1>10. retain(r, w) = t
  BY <1>1, <1>9, RetainIs
<1> QED BY <1>10 DEF t

-----------------------------------------------------------------------------
(* The rules of one kind. *)

\* What is invariant of the rules of one kind.
Proper(s) ==
    /\ s \in Seq(Rule)
    /\ \A i, j \in 1..Len(s) : s[i].rule_id = s[j].rule_id => i = j
    /\ \A i \in 1..Len(s) : s[i].default <=> s[i].rule_id \in DotRule

MasterOnTop(s) == \A i \in 1..Len(s) : s[i].rule_id = Master => i = 1

PushInv ==
    /\ rules \in [Kind -> Seq(Rule)]
    /\ \A k \in Kind : Proper(rules[k])
    /\ MasterOnTop(rules["override"])
    /\ result \in {"ok", "err", "panic"}

-----------------------------------------------------------------------------
\* replace_full yields a proper list in which the rule is, and puts no other
\* rule first.
LEMMA ReplaceFull ==
    ASSUME NEW s, Proper(s), NEW rule \in Rule, rule.rule_id \notin DotRule,
           rule.default = FALSE
    PROVE  LET p == replace_full(s, rule)
           IN  /\ Proper(p)
               /\ \E i \in 1..Len(p) : p[i].rule_id = rule.rule_id
               /\ Len(p) >= 1
               /\ MasterOnTop(s) => MasterOnTop(p)
<1> USE PushAssumption
<1> DEFINE p == replace_full(s, rule)
<1>1. CASE IndexOf(s, rule.rule_id) = {}
  <2>1. p = Append(s, rule)
    BY <1>1 DEF replace_full
  <2>2. /\ p \in Seq(Rule) /\ Len(p) = Len(s) + 1
        /\ \A i \in 1..Len(s) : p[i] = s[i]
        /\ p[Len(p)] = rule
    BY <2>1 DEF Proper
  <2>3. \A i \in 1..Len(s) : s[i].rule_id # rule.rule_id
    BY <1>1 DEF IndexOf
  <2>4. Len(s) \in Nat
    BY DEF Proper
  <2>5. \A i \in 1..Len(p) : p[i] = rule \/ (i \in 1..Len(s) /\ p[i] = s[i])
    BY <2>2, <2>4
  <2>6. \A i, j \in 1..Len(p) : p[i].rule_id = p[j].rule_id => i = j
    BY <2>2, <2>3, <2>4 DEF Proper
  <2>7. \A i \in 1..Len(p) : p[i].default <=> p[i].rule_id \in DotRule
    BY <2>5 DEF Proper
  <2>8. MasterOnTop(s) => MasterOnTop(p)
    BY <2>5 DEF MasterOnTop
  <2>9. Len(p) \in 1..Len(p) /\ Len(p) >= 1
    BY <2>2, <2>4
  <2> QED
    BY <2>2, <2>6, <2>7, <2>8, <2>9 DEF Proper
<1>2. CASE IndexOf(s, rule.rule_id) # {}
  <2>1. p = [i \in 1..Len(s) |-> IF s[i].rule_id = rule.rule_id THEN rule ELSE s[i]]
    BY <1>2 DEF replace_full
  <2>2. Len(s) \in Nat /\ \A i \in 1..Len(s) : s[i] \in Rule
    BY DEF Proper
  <2>3. /\ p \in Seq(Rule) /\ Len(p) = Len(s)
        /\ \A i \in 1..Len(s) : p[i] = IF s[i].rule_id = rule.rule_id THEN rule ELSE s[i]
    BY <2>1, <2>2
  <2>4. PICK i \in 1..Len(s) : s[i].rule_id = rule.rule_id
    BY <1>2 DEF IndexOf
  <2>5. \A j \in 1..Len(s) : p[j].rule_id = s[j].rule_id
    BY <2>3
  <2>6. \A j \in 1..Len(s) : p[j].default <=> p[j].rule_id \in DotRule
    BY <2>3 DEF Proper
  <2> QED
    BY <2>2, <2>3, <2>4, <2>5, <2>6 DEF Proper, MasterOnTop
<1> QED
  BY <1>1, <1>2

\* move_index is a permutation: the list stays proper, and the first rule is
\* first unless the move starts or ends there.
LEMMA MoveIndex ==
    ASSUME NEW s, Proper(s), NEW from \in 1..Len(s), NEW to \in 1..Len(s)
    PROVE  LET m == move_index(s, from, to)
           IN  /\ Proper(m)
               /\ MasterOnTop(s) /\ s[from].rule_id # Master
                     /\ (s[1].rule_id = Master => to # 1) => MasterOnTop(m)
<1> DEFINE m == move_index(s, from, to)
<1>1. Len(s) \in Nat /\ \A i \in 1..Len(s) : s[i] \in Rule
  BY DEF Proper
<1> DEFINE Source == [i \in 1..Len(s) |-> IF i = to THEN from
                                           ELSE IF from <= i /\ i < to THEN i + 1
                                           ELSE IF to < i /\ i <= from THEN i - 1
                                           ELSE i]
<1>2. \A i \in 1..Len(s) : Source[i] \in 1..Len(s)
  BY <1>1
<1>3. \A i, j \in 1..Len(s) : Source[i] = Source[j] => i = j
  BY <1>1
<1>4. m = [i \in 1..Len(s) |-> s[Source[i]]]
  BY DEF move_index
<1>5. m \in Seq(Rule) /\ Len(m) = Len(s) /\ \A i \in 1..Len(s) : m[i] = s[Source[i]]
  BY <1>1, <1>2, <1>4
<1>6. Proper(m)
  <2> HIDE DEF Source, m
  <2>1. \A i, j \in 1..Len(s) : m[i].rule_id = m[j].rule_id => i = j
    <3> SUFFICES ASSUME NEW i \in 1..Len(s), NEW j \in 1..Len(s), m[i].rule_id = m[j].rule_id
                 PROVE  i = j
      OBVIOUS
    <3>1. s[Source[i]].rule_id = s[Source[j]].rule_id
      BY <1>5
    <3>2. Source[i] = Source[j]
      BY <3>1, <1>2 DEF Proper
    <3> QED
      BY <3>2, <1>3
  <2>2. \A i \in 1..Len(s) : m[i].default <=> m[i].rule_id \in DotRule
    BY <1>2, <1>5 DEF Proper
  <2> QED
    BY <1>5, <2>1, <2>2 DEF Proper
<1>7. ASSUME MasterOnTop(s), s[from].rule_id # Master, s[1].rule_id = Master => to # 1
      PROVE  MasterOnTop(m)
  <2> SUFFICES ASSUME NEW i \in 1..Len(s), m[i].rule_id = Master PROVE i = 1
    BY <1>5 DEF MasterOnTop
  <2>1. s[Source[i]].rule_id = Master /\ Source[i] \in 1..Len(s)
    BY <1>2, <1>5
  <2>2. Source[i] = 1
    BY <2>1, <1>7 DEF MasterOnTop
  <2>3. from # 1 /\ to # 1
    BY <2>1, <2>2, <1>7
  <2> QED
    BY <2>2, <2>3, <1>1
<1> QED
  BY <1>6, <1>7

-----------------------------------------------------------------------------
Positions == {1, 2}

\* What may be given as after and before.
UserAnchors == {{}} \cup {{x} : x \in UserRule}

\* The rule is taken from at to where the parameters say.
Moved(out, p, id, default, after, before, at, to) ==
    /\ p[at].rule_id = id
    /\ out = Outcome(move_index(p, at, to), "ok")
    /\ \A x \in before : p[to].rule_id = x
    /\ \A x \in after : \E a \in 1..Len(p) :
          p[a].rule_id = x /\ a < to /\ (before = {} => to = a + 1)
    /\ after \cup before = {} => to = default

Ends(out, s, p, id, default, after, before) ==
    \/ out \in {Outcome(p, "err"), Outcome(p, "panic")}
    \/ out = Outcome(p, "ok") /\ IndexOf(s, id) # {} /\ after \cup before = {}
    \/ /\ IndexOf(s, id) = {} \/ after \cup before # {}
       /\ \E at, to \in 1..Len(p) : Moved(out, p, id, default, after, before, at, to)

\* How insert_and_move_rule ends: with the rule placed and an error or a panic,
\* or replaced, or moved to where the parameters say.
LEMMA InsertForm ==
    ASSUME NEW s, Proper(s), NEW rule \in Rule, rule.rule_id \notin DotRule,
           rule.default = FALSE, NEW default \in Positions,
           NEW after \in UserAnchors, NEW before \in UserAnchors
    PROVE  Ends(insert_and_move_rule(s, rule, default, after, before), s, replace_full(s, rule),
                rule.rule_id, default, after, before)
<1> DEFINE p == replace_full(s, rule)
           At(id) == CHOOSE i \in IndexOf(p, id) : TRUE
           aid == CHOOSE id \in after : TRUE
           bid == CHOOSE id \in before : TRUE
           lowest == IF after = {} THEN default ELSE At(aid) + 1
           to == IF before = {} THEN lowest ELSE At(bid)
           out == insert_and_move_rule(s, rule, default, after, before)
<1>1. Proper(p) /\ \E i \in 1..Len(p) : p[i].rule_id = rule.rule_id
  BY ReplaceFull
<1>2. \A id : IndexOf(p, id) # {} => At(id) \in 1..Len(p) /\ p[At(id)].rule_id = id
  BY DEF IndexOf
<1>3. /\ At(rule.rule_id) \in 1..Len(p)
      /\ p[At(rule.rule_id)].rule_id = rule.rule_id
  BY <1>1, <1>2 DEF IndexOf
<1>4. CASE \E id \in after \cup before : IndexOf(p, id) = {}
  <2>1. out = Outcome(p, "err")
    BY <1>4 DEF insert_and_move_rule
  <2> QED BY <2>1 DEF Ends
<1>5. CASE ~ \E id \in after \cup before : IndexOf(p, id) = {}
  <2>1. after # {} => after = {aid}
    BY DEF UserAnchors
  <2>2. before # {} => before = {bid}
    BY DEF UserAnchors
  <2> HIDE DEF aid, bid, At, p
  <2>3. after # {} => At(aid) \in 1..Len(p) /\ p[At(aid)].rule_id = aid
    BY <1>2, <1>5, <2>1
  <2>4. before # {} => At(bid) \in 1..Len(p) /\ p[At(bid)].rule_id = bid
    BY <1>2, <1>5, <2>2
  <2>5. Len(p) \in Nat
    BY <1>1 DEF Proper
  <2>6. to \in Int /\ to >= 1 /\ lowest \in Int
    BY <2>3, <2>4, <2>5 DEF Positions
  <2>7. /\ after # {} => lowest = At(aid) + 1
        /\ before = {} => to = lowest
        /\ before # {} => to = At(bid)
        /\ after \cup before = {} => to = default
    OBVIOUS
  <2> HIDE DEF to, lowest
  <2>8. \/ out \in {Outcome(p, "err"), Outcome(p, "panic")}
        \/ out = Outcome(p, "ok") /\ IndexOf(s, rule.rule_id) # {} /\ after \cup before = {}
        \/ /\ IndexOf(s, rule.rule_id) = {} \/ after \cup before # {}
           /\ lowest <= to /\ to <= Len(p)
           /\ out = Outcome(move_index(p, At(rule.rule_id), to), "ok")
    <3>1. out = IF \E id \in after \cup before : IndexOf(p, id) = {} THEN Outcome(p, "err")
                ELSE IF to < lowest THEN Outcome(p, "err")
                ELSE IF IndexOf(s, rule.rule_id) # {} /\ after \cup before = {} THEN Outcome(p, "ok")
                ELSE IF to > Len(p) THEN Outcome(p, "panic")
                ELSE Outcome(move_index(p, At(rule.rule_id), to), "ok")
      BY DEF insert_and_move_rule, to, lowest, At, aid, bid, p
    <3> HIDE DEF out
    <3>2. ~(to < lowest) => lowest <= to
      BY <2>6
    <3>3. ~(to > Len(p)) => to <= Len(p)
      BY <2>5, <2>6
    <3> QED BY <1>5, <3>1, <3>2, <3>3
  <2>9. ASSUME lowest <= to, to <= Len(p), out = Outcome(move_index(p, At(rule.rule_id), to), "ok")
        PROVE  \E at, dest \in 1..Len(p) : Moved(out, p, rule.rule_id, default, after, before, at, dest)
    <3> HIDE DEF out
    <3>1. to \in 1..Len(p)
      BY <2>5, <2>6, <2>9
    <3>2. \A x \in before : p[to].rule_id = x
      BY <2>2, <2>4, <2>7
    <3>3. ASSUME NEW x \in after
          PROVE  \E a \in 1..Len(p) : p[a].rule_id = x /\ a < to /\ (before = {} => to = a + 1)
      <4>1. x = aid /\ At(aid) \in 1..Len(p) /\ p[At(aid)].rule_id = aid /\ lowest = At(aid) + 1
        BY <2>1, <2>3, <2>7
      <4>2. At(aid) < to /\ (before = {} => to = At(aid) + 1)
        BY <2>5, <2>6, <2>7, <2>9, <4>1
      <4> QED BY <4>1, <4>2
    <3>4. Moved(out, p, rule.rule_id, default, after, before, At(rule.rule_id), to)
      BY <1>3, <2>7, <2>9, <3>2, <3>3 DEF Moved
    <3> QED BY <1>3, <3>1, <3>4
  <2>10. Ends(out, s, p, rule.rule_id, default, after, before)
    BY <2>8, <2>9 DEF Ends
  <2> QED BY <2>10 DEF p
<1> QED BY <1>4, <1>5

\* Whatever insert_and_move_rule returns, error and panic included, is proper
\* and has `.m.rule.master` on top, if new rules do not go there.
LEMMA InsertAndMove ==
    ASSUME NEW s, Proper(s), NEW rule \in Rule, rule.rule_id \notin DotRule,
           rule.default = FALSE, NEW default \in Positions,
           NEW after \in UserAnchors, NEW before \in UserAnchors
    PROVE  LET out == insert_and_move_rule(s, rule, default, after, before)
           IN  /\ Proper(out.set)
               /\ MasterOnTop(s) /\ default = 2 => MasterOnTop(out.set)
               /\ out.result \in {"ok", "err", "panic"}
<1> DEFINE p == replace_full(s, rule)
           out == insert_and_move_rule(s, rule, default, after, before)
<1>1. Proper(p) /\ (MasterOnTop(s) => MasterOnTop(p))
  BY ReplaceFull
<1>2. ASSUME out \in {Outcome(p, "err"), Outcome(p, "panic"), Outcome(p, "ok")}
      PROVE  /\ Proper(out.set)
             /\ MasterOnTop(s) /\ default = 2 => MasterOnTop(out.set)
             /\ out.result \in {"ok", "err", "panic"}
  BY <1>1, <1>2 DEF Outcome
<1>3. ASSUME NEW at \in 1..Len(p), NEW to \in 1..Len(p),
             Moved(out, p, rule.rule_id, default, after, before, at, to)
      PROVE  /\ Proper(out.set)
             /\ MasterOnTop(s) /\ default = 2 => MasterOnTop(out.set)
             /\ out.result = "ok"
  <2> DEFINE m == move_index(p, at, to)
  <2>1. out.set = m /\ out.result = "ok"
    BY <1>3 DEF Moved, Outcome
  <2> HIDE DEF p, out
  <2>2. p[at].rule_id # Master
    BY <1>3, PushAssumption DEF Moved
  <2>3. ASSUME default = 2, p[1].rule_id = Master PROVE to # 1
    <3>1. CASE before # {}
      <4>1. PICK x \in before : TRUE
        BY <3>1
      <4>2. p[to].rule_id = x /\ x \in UserRule
        BY <1>3, <4>1 DEF Moved, UserAnchors
      <4> QED BY <2>3, <4>2, PushAssumption
    <3>2. CASE after # {}
      <4>1. PICK a \in 1..Len(p) : a < to
        BY <1>3, <3>2 DEF Moved
      <4> QED BY <4>1
    <3>3. CASE after \cup before = {}
      BY <1>3, <2>3, <3>3 DEF Moved
    <3> QED BY <3>1, <3>2, <3>3
  <2>4. /\ Proper(m)
        /\ MasterOnTop(p) /\ p[at].rule_id # Master
              /\ (p[1].rule_id = Master => to # 1) => MasterOnTop(m)
    BY <1>1, <1>3, MoveIndex
  <2> QED BY <1>1, <2>1, <2>2, <2>3, <2>4
<1>4. Ends(out, s, p, rule.rule_id, default, after, before)
  BY InsertForm
<1> HIDE DEF p, out
<1>5. /\ Proper(out.set)
      /\ MasterOnTop(s) /\ default = 2 => MasterOnTop(out.set)
      /\ out.result \in {"ok", "err", "panic"}
  <2>1. CASE \E at, to \in 1..Len(p) : Moved(out, p, rule.rule_id, default, after, before, at, to)
    BY <1>3, <2>1
  <2>2. CASE ~ \E at, to \in 1..Len(p) : Moved(out, p, rule.rule_id, default, after, before, at, to)
    BY <1>2, <1>4, <2>2 DEF Ends
  <2> QED BY <2>1, <2>2
<1> QED BY <1>5 DEF out

\* shift_remove of a user's rule keeps what is proper and on top.
LEMMA ShiftRemove ==
    ASSUME NEW s, Proper(s), NEW at \in 1..Len(s)
    PROVE  LET r == shift_remove(s, at)
           IN  /\ Proper(r)
               /\ MasterOnTop(s) /\ s[at].rule_id \notin DotRule => MasterOnTop(r)
<1> USE PushAssumption
<1> DEFINE r == shift_remove(s, at)
           Source == [i \in 1..(Len(s) - 1) |-> IF i < at THEN i ELSE i + 1]
<1>1. Len(s) \in Nat /\ Len(s) >= 1 /\ \A i \in 1..Len(s) : s[i] \in Rule
  BY DEF Proper
<1>2. \A i \in 1..(Len(s) - 1) : Source[i] \in 1..Len(s)
  BY <1>1
<1>3. \A i, j \in 1..(Len(s) - 1) : Source[i] = Source[j] => i = j
  BY <1>1
<1>4. r = [i \in 1..(Len(s) - 1) |-> s[Source[i]]]
  BY DEF shift_remove
<1>5. /\ r \in Seq(Rule) /\ Len(r) = Len(s) - 1
      /\ \A i \in 1..(Len(s) - 1) : r[i] = s[Source[i]]
  BY <1>1, <1>2, <1>4
<1>6. ASSUME MasterOnTop(s), s[at].rule_id \notin DotRule PROVE MasterOnTop(r)
  <2> SUFFICES ASSUME NEW i \in 1..(Len(s) - 1), r[i].rule_id = Master PROVE i = 1
    BY <1>5 DEF MasterOnTop
  <2>1. Source[i] = 1
    BY <1>2, <1>5, <1>6 DEF MasterOnTop
  <2> QED
    BY <2>1, <1>1
<1> HIDE DEF Source, r
<1>7. \A i, j \in 1..Len(r) : r[i].rule_id = r[j].rule_id => i = j
  <2> SUFFICES ASSUME NEW i \in 1..Len(r), NEW j \in 1..Len(r), r[i].rule_id = r[j].rule_id
               PROVE  i = j
    OBVIOUS
  <2>1. s[Source[i]].rule_id = s[Source[j]].rule_id
    BY <1>5
  <2>2. Source[i] = Source[j]
    BY <2>1, <1>2, <1>5 DEF Proper
  <2> QED
    BY <2>2, <1>3, <1>5
<1>8. \A i \in 1..Len(r) : r[i].default <=> r[i].rule_id \in DotRule
  BY <1>2, <1>5 DEF Proper
<1> QED
  BY <1>5, <1>6, <1>7, <1>8 DEF Proper, r

\* So does replacing a rule by one with the same id and the same origin.
LEMMA Rewrite ==
    ASSUME NEW s, Proper(s), NEW t,
           t \in Seq(Rule), Len(t) = Len(s),
           \A i \in 1..Len(s) : t[i].rule_id = s[i].rule_id /\ t[i].default = s[i].default
    PROVE  Proper(t) /\ (MasterOnTop(s) => MasterOnTop(t))
<1>1. \A i \in 1..Len(t) : t[i].default <=> t[i].rule_id \in DotRule
  BY DEF Proper
<1>2. \A i, j \in 1..Len(t) : t[i].rule_id = t[j].rule_id => i = j
  BY DEF Proper
<1> QED
  BY <1>1, <1>2 DEF Proper, MasterOnTop

-----------------------------------------------------------------------------
\* To keep the invariant a step has to keep it for the kind it changes.
LEMMA OneKind ==
    ASSUME PushInv, NEW kind \in Kind, NEW s, Proper(s),
           MasterOnTop(rules["override"]) /\ kind = "override" => MasterOnTop(s),
           rules' = [rules EXCEPT ![kind] = s], result' \in {"ok", "err", "panic"}
    PROVE  PushInv'
<1>1. s \in Seq(Rule)
  BY DEF Proper
<1>2. rules' \in [Kind -> Seq(Rule)]
  BY <1>1 DEF PushInv
<1>3. \A k \in Kind : rules'[k] = IF k = kind THEN s ELSE rules[k]
  BY DEF PushInv
<1>4. \A k \in Kind : Proper(rules'[k])
  BY <1>3 DEF PushInv
<1>5. MasterOnTop(rules'["override"])
  <2>1. "override" \in Kind
    BY DEF Kind, Kinds
  <2> QED
    BY <2>1, <1>3 DEF PushInv
<1> QED
  BY <1>2, <1>4, <1>5 DEF PushInv, Proper, MasterOnTop

\* insert, with any parameters.
LEMMA InsertStep ==
    ASSUME PushInv, NEW kind \in Kind, NEW id \in RuleId \cup InvalidRule,
           NEW actions \in Actions,
           NEW after \in {{}} \cup {{x} : x \in RuleId},
           NEW before \in {{}} \cup {{x} : x \in RuleId},
           Insert(kind, id, actions, after, before)
    PROVE  PushInv'
<1> USE PushAssumption
<1> DEFINE out == insert(kind, id, actions, after, before)
<1>1. rules' = [rules EXCEPT ![kind] = out.set] /\ result' = out.result
  BY DEF Insert
<1>2. Proper(rules[kind]) /\ rules[kind] \in Seq(Rule)
  BY DEF PushInv
<1>3. CASE id \in DotRule \cup InvalidRule \/ (after \cup before) \cap DotRule # {}
  <2>1. out.set = rules[kind] /\ out.result = "err"
    BY <1>3 DEF insert, Outcome
  <2> QED
    BY <1>1, <1>2, <2>1, OneKind
<1>4. CASE ~ (id \in DotRule \cup InvalidRule \/ (after \cup before) \cap DotRule # {})
  <2> DEFINE rule == NewRule(rules[kind], id, actions)
  <2>1. id \in UserRule
    BY <1>4 DEF RuleId
  <2>2. after \in UserAnchors /\ before \in UserAnchors
    BY <1>4 DEF RuleId, UserAnchors
  <2>3. rule \in Rule /\ rule.rule_id = id /\ rule.default = FALSE
    BY <2>1 DEF NewRule, Rule, RuleId
  <2>4. default_position(kind) \in Positions /\ (kind = "override" => default_position(kind) = 2)
    BY DEF default_position, Positions
  <2>5. out = insert_and_move_rule(rules[kind], rule, default_position(kind), after, before)
    BY <1>4 DEF insert
  <2>6. id \notin DotRule
    BY <1>4
  <2> HIDE DEF rule, out
  <2>7. /\ Proper(out.set)
        /\ MasterOnTop(rules[kind]) /\ default_position(kind) = 2 => MasterOnTop(out.set)
        /\ out.result \in {"ok", "err", "panic"}
    BY <1>2, <2>2, <2>3, <2>4, <2>5, <2>6, InsertAndMove
  <2> QED
    BY <1>1, <2>4, <2>7, OneKind
<1> QED
  BY <1>3, <1>4

\* set_enabled and set_actions.
LEMMA ReplaceStep ==
    ASSUME PushInv, NEW kind \in Kind, NEW id \in RuleId,
           (\E enabled \in BOOLEAN : set_enabled(kind, id, enabled))
              \/ (\E actions \in Actions : set_actions(kind, id, actions))
    PROVE  PushInv'
<1> DEFINE s == rules[kind]
<1>1. Proper(s) /\ s \in Seq(Rule) /\ Len(s) \in Nat /\ \A i \in 1..Len(s) : s[i] \in Rule
  BY DEF PushInv
<1>2. CASE \E enabled \in BOOLEAN : set_enabled(kind, id, enabled)
  <2>1. PICK enabled \in BOOLEAN : set_enabled(kind, id, enabled)
    BY <1>2
  <2> DEFINE t == [i \in 1..Len(s) |->
                      IF s[i].rule_id = id THEN [s[i] EXCEPT !.enabled = enabled] ELSE s[i]]
  <2>2. \/ result' = "err" /\ UNCHANGED rules
        \/ rules' = [rules EXCEPT ![kind] = t] /\ result' = "ok"
    BY <2>1 DEF set_enabled, ReplaceRule, PushInv
  <2>3. t \in Seq(Rule) /\ Len(t) = Len(s)
    BY <1>1 DEF Rule
  <2>4. \A i \in 1..Len(s) : t[i].rule_id = s[i].rule_id /\ t[i].default = s[i].default
    BY <1>1 DEF Rule
  <2>5. Proper(t) /\ (MasterOnTop(s) => MasterOnTop(t))
    <3> HIDE DEF t
    <3> QED BY <1>1, <2>3, <2>4, Rewrite
  <2>6. CASE result' = "err" /\ UNCHANGED rules
    BY <2>6 DEF PushInv, Proper, MasterOnTop
  <2>7. CASE rules' = [rules EXCEPT ![kind] = t] /\ result' = "ok"
    <3> HIDE DEF t
    <3> QED BY <2>5, <2>7, OneKind
  <2> QED
    BY <2>2, <2>6, <2>7
<1>3. CASE \E actions \in Actions : set_actions(kind, id, actions)
  <2>1. PICK actions \in Actions : set_actions(kind, id, actions)
    BY <1>3
  <2> DEFINE t == [i \in 1..Len(s) |->
                      IF s[i].rule_id = id THEN [s[i] EXCEPT !.actions = actions] ELSE s[i]]
  <2>2. \/ result' = "err" /\ UNCHANGED rules
        \/ rules' = [rules EXCEPT ![kind] = t] /\ result' = "ok"
    BY <2>1 DEF set_actions, ReplaceRule, PushInv
  <2>3. t \in Seq(Rule) /\ Len(t) = Len(s)
    BY <1>1 DEF Rule
  <2>4. \A i \in 1..Len(s) : t[i].rule_id = s[i].rule_id /\ t[i].default = s[i].default
    BY <1>1 DEF Rule
  <2>5. Proper(t) /\ (MasterOnTop(s) => MasterOnTop(t))
    <3> HIDE DEF t
    <3> QED BY <1>1, <2>3, <2>4, Rewrite
  <2>6. CASE result' = "err" /\ UNCHANGED rules
    BY <2>6 DEF PushInv, Proper, MasterOnTop
  <2>7. CASE rules' = [rules EXCEPT ![kind] = t] /\ result' = "ok"
    <3> HIDE DEF t
    <3> QED BY <2>5, <2>7, OneKind
  <2> QED
    BY <2>2, <2>6, <2>7
<1> QED
  BY <1>2, <1>3

\* remove.
LEMMA RemoveStep ==
    ASSUME PushInv, NEW kind \in Kind, NEW id \in RuleId, remove(kind, id)
    PROVE  PushInv'
<1> DEFINE s == rules[kind]
<1>1. Proper(s)
  BY DEF PushInv
<1>2. CASE result' = "err" /\ UNCHANGED rules
  BY <1>2 DEF PushInv, Proper, MasterOnTop
<1>3. CASE \E i \in IndexOf(s, id) : ~ s[i].default /\ result' = "ok"
              /\ rules' = [rules EXCEPT ![kind] = shift_remove(s, i)]
  <2>1. PICK i \in 1..Len(s) : /\ ~ s[i].default /\ result' = "ok"
                               /\ rules' = [rules EXCEPT ![kind] = shift_remove(s, i)]
    BY <1>3 DEF IndexOf
  <2>2. s[i].rule_id \notin DotRule
    BY <1>1, <2>1 DEF Proper
  <2>3. /\ Proper(shift_remove(s, i))
        /\ MasterOnTop(s) => MasterOnTop(shift_remove(s, i))
    BY <1>1, <2>2, ShiftRemove
  <2> QED
    BY <2>1, <2>3, OneKind
<1>4. \/ result' = "err" /\ UNCHANGED rules
      \/ \E i \in IndexOf(s, id) : /\ ~ s[i].default /\ result' = "ok"
                                    /\ rules' = [rules EXCEPT ![kind] = shift_remove(s, i)]
  <2>1. \A i, j \in IndexOf(s, id) : i = j
    BY <1>1 DEF IndexOf, Proper
  <2> QED
    BY <2>1 DEF remove, PushInv
<1> QED
  BY <1>2, <1>3, <1>4

-----------------------------------------------------------------------------
(* update_with_server_default. *)

LEMMA RetainProper ==
    ASSUME NEW s, Proper(s), NEW w
    PROVE  /\ Proper(retain(s, w))
           /\ \A i \in 1..Len(retain(s, w)) :
                 /\ retain(s, w)[i] \in w
                 /\ \E k \in 1..Len(s) : retain(s, w)[i] = s[k]
<1> DEFINE t == retain(s, w)
<1>1. s \in Seq(Rule)
  BY DEF Proper
<1>2. t \in Seq(Rule)
  BY <1>1, Retain
<1>3. PICK g : Picks(g, t, s, w, Len(s))
  BY <1>1, Retain
<1> HIDE DEF t
<1>4. \A i \in 1..Len(t) : g[i] \in 1..Len(s) /\ t[i] = s[g[i]] /\ s[g[i]] \in w
  BY <1>3 DEF Picks
<1>5. ASSUME NEW i \in 1..Len(t), NEW j \in 1..Len(t), t[i].rule_id = t[j].rule_id PROVE i = j
  <2>1. g[i] = g[j]
    BY <1>4, <1>5 DEF Proper
  <2>2. ~(i < j) /\ ~(j < i)
    <3>1. g[i] \in Nat /\ g[j] \in Nat
      BY <1>4
    <3> QED BY <1>3, <2>1, <3>1 DEF Picks
  <2> QED BY <1>2, <2>2
<1>6. \A i \in 1..Len(t) : t[i].default <=> t[i].rule_id \in DotRule
  BY <1>4 DEF Proper
<1>7. Proper(t)
  BY <1>2, <1>5, <1>6 DEF Proper
<1> QED BY <1>4, <1>7 DEF t

\* Where the rules of three lists are in the list of all.
LEMMA Concat3 ==
    ASSUME NEW S, NEW a \in Seq(S), NEW b \in Seq(S), NEW c \in Seq(S)
    PROVE  /\ a \o b \o c \in Seq(S)
           /\ Len(a) \in Nat /\ Len(b) \in Nat /\ Len(c) \in Nat
           /\ Len(a \o b \o c) = Len(a) + Len(b) + Len(c)
           /\ \A i \in 1..Len(a) : (a \o b \o c)[i] = a[i]
           /\ \A i \in 1..Len(b) : (a \o b \o c)[Len(a) + i] = b[i]
           /\ \A i \in 1..Len(c) : (a \o b \o c)[Len(a) + Len(b) + i] = c[i]
<1> DEFINE ab == a \o b
           abc == ab \o c
<1>1. /\ ab \in Seq(S) /\ Len(ab) = Len(a) + Len(b)
      /\ \A i \in 1..(Len(a) + Len(b)) : ab[i] = IF i <= Len(a) THEN a[i] ELSE b[i - Len(a)]
  BY ConcatProperties
<1> HIDE DEF ab
<1>2. /\ abc \in Seq(S) /\ Len(abc) = Len(ab) + Len(c)
      /\ \A i \in 1..(Len(ab) + Len(c)) : abc[i] = IF i <= Len(ab) THEN ab[i] ELSE c[i - Len(ab)]
  <2>1. ab \in Seq(S)
    BY <1>1
  <2> QED BY <2>1, ConcatProperties
<1> HIDE DEF abc
<1>3. Len(a) \in Nat /\ Len(b) \in Nat /\ Len(c) \in Nat
  OBVIOUS
<1>4. ASSUME NEW i \in 1..Len(a) PROVE abc[i] = a[i]
  BY <1>1, <1>2, <1>3
<1>5. ASSUME NEW i \in 1..Len(b) PROVE abc[Len(a) + i] = b[i]
  <2>1. /\ Len(a) + i \in 1..(Len(a) + Len(b)) /\ ~(Len(a) + i <= Len(a))
        /\ (Len(a) + i) - Len(a) = i /\ Len(a) + i <= Len(ab)
        /\ Len(a) + i \in 1..(Len(ab) + Len(c))
    BY <1>1, <1>3
  <2>2. abc[Len(a) + i] = ab[Len(a) + i]
    BY <1>2, <2>1
  <2> QED BY <1>1, <2>1, <2>2
<1>6. ASSUME NEW i \in 1..Len(c) PROVE abc[Len(a) + Len(b) + i] = c[i]
  <2> DEFINE n == Len(a) + Len(b) + i
  <2>1. n \in 1..(Len(ab) + Len(c)) /\ ~(n <= Len(ab)) /\ n - Len(ab) = i
    BY <1>1, <1>3
  <2> HIDE DEF n
  <2>2. abc[n] = c[i]
    BY <1>2, <2>1
  <2> QED BY <2>2 DEF n
<1>7. Len(abc) = Len(a) + Len(b) + Len(c)
  BY <1>1, <1>2
<1>8. abc = a \o b \o c
  BY DEF abc, ab
<1> QED BY <1>2, <1>3, <1>4, <1>5, <1>6, <1>7, <1>8

LEMMA Split3 ==
    ASSUME NEW l \in Nat, NEW m \in Nat, NEW n \in Nat, NEW i \in 1..(l + m + n)
    PROVE  \/ i \in 1..l
           \/ \E j \in 1..m : i = l + j
           \/ \E j \in 1..n : i = l + m + j
<1>1. CASE i <= l
  BY <1>1
<1>2. CASE l < i /\ i <= l + m
  <2>1. i - l \in 1..m /\ i = l + (i - l)
    BY <1>2
  <2> QED BY <2>1
<1>3. CASE l + m < i
  <2>1. i - (l + m) \in 1..n /\ i = l + m + (i - (l + m))
    BY <1>3
  <2> QED BY <2>1
<1> QED BY <1>1, <1>2, <1>3

\* A ruleset of the server's, as PushAssumption says.
Predefined == [rule_id: DotRule, default: {TRUE}, enabled: BOOLEAN, actions: Actions]

LEMMA DefaultsProper ==
    ASSUME NEW d \in Defaults, NEW k \in Kind
    PROVE  /\ Proper(d[k]) /\ (k = "override" => MasterOnTop(d[k]))
           /\ \A i \in 1..Len(d[k]) : d[k][i].rule_id \in DotRule /\ d[k][i].default = TRUE
<1>1. Predefined \subseteq Rule
  BY DEF Rule, RuleId, Predefined
<1>2. d \in [Kind -> Seq(Predefined)]
  BY PushAssumption DEF Predefined
<1>3. d[k] \in Seq(Predefined)
  BY <1>2
<1>4. Len(d[k]) \in Nat /\ \A i \in 1..Len(d[k]) : d[k][i] \in Predefined
  BY <1>3
<1>5. d[k] \in Seq(Rule)
  <2>1. d[k] = [i \in 1..Len(d[k]) |-> d[k][i]]
    BY <1>3
  <2>2. \A i \in 1..Len(d[k]) : d[k][i] \in Rule
    BY <1>1, <1>4
  <2> QED BY <1>4, <2>1, <2>2
<1>6. \A i \in 1..Len(d[k]) : d[k][i].rule_id \in DotRule /\ d[k][i].default = TRUE
  <2> SUFFICES ASSUME NEW i \in 1..Len(d[k])
               PROVE  d[k][i].rule_id \in DotRule /\ d[k][i].default = TRUE
    OBVIOUS
  <2>1. d[k][i] \in Predefined
    BY <1>4
  <2> QED BY <2>1 DEF Predefined
<1>7. \A i, j \in 1..Len(d[k]) : d[k][i].rule_id = d[k][j].rule_id => i = j
  BY PushAssumption
<1>8. k = "override" => MasterOnTop(d[k])
  BY PushAssumption DEF MasterOnTop
<1> QED BY <1>5, <1>6, <1>7, <1>8 DEF Proper

\* copy_rules_state changes neither ids nor places, and takes the state of an
\* old rule.
LEMMA CopyStateProper ==
    ASSUME NEW s, Proper(s), NEW n, Proper(n)
    PROVE  /\ Proper(CopyState(s, n)) /\ Len(CopyState(s, n)) = Len(n)
           /\ \A i \in 1..Len(n) :
                 /\ CopyState(s, n)[i].rule_id = n[i].rule_id
                 /\ CopyState(s, n)[i].default = n[i].default
                 /\ \A j \in 1..Len(s) : s[j].rule_id = n[i].rule_id =>
                       CopyState(s, n)[i].enabled = s[j].enabled
<1> DEFINE c == CopyState(s, n)
           Old(i) == CHOOSE j \in IndexOf(s, n[i].rule_id) : TRUE
           New(i) == [n[i] EXCEPT
                        !.enabled = IF IndexOf(s, n[i].rule_id) = {} THEN @ ELSE s[Old(i)].enabled,
                        !.actions = IF IndexOf(s, n[i].rule_id) = {} THEN @ ELSE s[Old(i)].actions]
<1>1. c = [i \in 1..Len(n) |-> New(i)]
  BY DEF CopyState
<1>2. /\ Len(n) \in Nat /\ \A i \in 1..Len(n) : n[i] \in Rule
      /\ \A i \in 1..Len(s) : s[i] \in Rule
  BY DEF Proper
<1>3. ASSUME NEW i \in 1..Len(n), IndexOf(s, n[i].rule_id) # {}
      PROVE  Old(i) \in 1..Len(s) /\ s[Old(i)].rule_id = n[i].rule_id
  BY <1>3 DEF IndexOf
<1> HIDE DEF Old
<1>4. ASSUME NEW i \in 1..Len(n)
      PROVE  /\ New(i) \in Rule /\ New(i).rule_id = n[i].rule_id /\ New(i).default = n[i].default
             /\ \A j \in 1..Len(s) : s[j].rule_id = n[i].rule_id => New(i).enabled = s[j].enabled
  <2>1. CASE IndexOf(s, n[i].rule_id) = {}
    <3>1. \A j \in 1..Len(s) : s[j].rule_id # n[i].rule_id
      BY <2>1 DEF IndexOf
    <3>2. New(i) = n[i]
      BY <1>2, <2>1 DEF Rule
    <3> HIDE DEF New
    <3> QED BY <1>2, <3>1, <3>2
  <2>2. CASE IndexOf(s, n[i].rule_id) # {}
    <3>1. s[Old(i)] \in Rule /\ Old(i) \in 1..Len(s) /\ s[Old(i)].rule_id = n[i].rule_id
      BY <1>2, <1>3, <2>2
    <3>2. New(i) = [n[i] EXCEPT !.enabled = s[Old(i)].enabled, !.actions = s[Old(i)].actions]
      BY <2>2
    <3> HIDE DEF New
    <3>3. /\ New(i) \in Rule /\ New(i).rule_id = n[i].rule_id /\ New(i).default = n[i].default
          /\ New(i).enabled = s[Old(i)].enabled
      BY <1>2, <3>1, <3>2 DEF Rule
    <3>4. ASSUME NEW j \in 1..Len(s), s[j].rule_id = n[i].rule_id PROVE j = Old(i)
      BY <3>1, <3>4 DEF Proper
    <3> QED BY <3>3, <3>4
  <2> QED BY <2>1, <2>2
<1> HIDE DEF New
<1>5. c \in Seq(Rule) /\ Len(c) = Len(n) /\ \A i \in 1..Len(n) : c[i] = New(i)
  BY <1>1, <1>2, <1>4
<1> HIDE DEF c
<1>6. Proper(c)
  BY <1>4, <1>5, Rewrite
<1> QED BY <1>4, <1>5, <1>6 DEF c

\* The rules that are kept: the user's own, which no new default has the id of.
OwnRules == {rule \in Rule : ~ rule.default}

KeptBy(n) == {rule \in Rule : IndexOf(n, rule.rule_id) = {} /\ ~ rule.default}

\* What the rules of a kind are after an update.
LEMMA UpdatedKind ==
    ASSUME PushInv, NEW d \in Defaults, NEW kind \in Kind
    PROVE  /\ Proper(Updated(kind, d[kind]))
           /\ kind = "override" => MasterOnTop(Updated(kind, d[kind]))
           /\ retain(Updated(kind, d[kind]), OwnRules) = retain(rules[kind], OwnRules)
           /\ \A j \in 1..Len(Updated(kind, d[kind])) : \A i \in 1..Len(rules[kind]) :
                 rules[kind][i].rule_id = Updated(kind, d[kind])[j].rule_id =>
                    rules[kind][i].enabled = Updated(kind, d[kind])[j].enabled
<1> DEFINE s == rules[kind]
           n == d[kind]
           c == CopyState(s, n)
           master == {rule \in Rule : kind = "override" /\ rule.rule_id = Master}
           others == Rule \ master
           A == retain(c, master)
           K == retain(s, KeptBy(n))
           B == retain(c, others)
           r == A \o K \o B
<1>1. Updated(kind, d[kind]) = r
  BY DEF Updated, Merge, KeptBy
<1>2. Proper(s) /\ s \in Seq(Rule)
  BY DEF PushInv
<1>3. Proper(n) /\ \A i \in 1..Len(n) : n[i].rule_id \in DotRule /\ n[i].default = TRUE
  BY DefaultsProper
<1> HIDE DEF s, n
<1>4. /\ Proper(c) /\ Len(c) = Len(n)
      /\ \A i \in 1..Len(n) :
            /\ c[i].rule_id = n[i].rule_id /\ c[i].default = n[i].default
            /\ \A j \in 1..Len(s) : s[j].rule_id = n[i].rule_id => c[i].enabled = s[j].enabled
  BY <1>2, <1>3, CopyStateProper
<1> HIDE DEF c
<1>5. /\ \A k \in 1..Len(c) :
            /\ c[k].rule_id \in DotRule /\ c[k].default = TRUE /\ c[k] \in Rule
            /\ \A j \in 1..Len(s) : s[j].rule_id = c[k].rule_id => c[k].enabled = s[j].enabled
      /\ \A k, l \in 1..Len(c) : c[k].rule_id = c[l].rule_id => k = l
  <2>1. \A k \in 1..Len(c) : c[k] \in Rule
    BY <1>4 DEF Proper
  <2>2. \A k, l \in 1..Len(c) : c[k].rule_id = c[l].rule_id => k = l
    BY <1>4 DEF Proper
  <2> QED BY <1>3, <1>4, <2>1, <2>2
<1> HIDE DEF master, others
<1>6. /\ Proper(A) /\ \A i \in 1..Len(A) : A[i] \in master /\ \E k \in 1..Len(c) : A[i] = c[k]
      /\ Proper(B) /\ \A i \in 1..Len(B) : B[i] \in others /\ \E k \in 1..Len(c) : B[i] = c[k]
  BY <1>4, RetainProper
<1>7. Proper(K) /\ \A i \in 1..Len(K) : K[i] \in KeptBy(n) /\ \E k \in 1..Len(s) : K[i] = s[k]
  BY <1>2, RetainProper
<1>8. PICK g : Picks(g, K, s, KeptBy(n), Len(s))
  BY <1>2, Retain
<1> HIDE DEF A, B, K
<1>9. A \in Seq(Rule) /\ B \in Seq(Rule) /\ K \in Seq(Rule)
  BY <1>6, <1>7 DEF Proper
<1>10. /\ r \in Seq(Rule) /\ Len(A) \in Nat /\ Len(K) \in Nat /\ Len(B) \in Nat
       /\ Len(r) = Len(A) + Len(K) + Len(B)
       /\ \A i \in 1..Len(A) : r[i] = A[i]
       /\ \A i \in 1..Len(K) : r[Len(A) + i] = K[i]
       /\ \A i \in 1..Len(B) : r[Len(A) + Len(K) + i] = B[i]
  BY <1>9, Concat3
<1> HIDE DEF r
<1>11. \A i \in 1..Len(r) : \/ i \in 1..Len(A)
                            \/ \E j \in 1..Len(K) : i = Len(A) + j
                            \/ \E j \in 1..Len(B) : i = Len(A) + Len(K) + j
  <2> DEFINE l == Len(A)
             m == Len(K)
             o == Len(B)
  <2>1. l \in Nat /\ m \in Nat /\ o \in Nat /\ Len(r) = l + m + o
    BY <1>10
  <2> HIDE DEF l, m, o
  <2>2. ASSUME NEW i \in 1..Len(r)
        PROVE  i \in 1..l \/ (\E j \in 1..m : i = l + j) \/ (\E j \in 1..o : i = l + m + j)
    BY <2>1, Split3
  <2> QED BY <2>2 DEF l, m, o
<1>12. \A i \in 1..Len(K) : K[i].rule_id \notin DotRule /\ K[i].default = FALSE /\ K[i] \in OwnRules
  <2> SUFFICES ASSUME NEW i \in 1..Len(K)
               PROVE  K[i].rule_id \notin DotRule /\ K[i].default = FALSE /\ K[i] \in OwnRules
    OBVIOUS
  <2>1. K[i] \in Rule /\ ~ K[i].default
    BY <1>7 DEF KeptBy
  <2>2. K[i].rule_id \notin DotRule
    BY <1>7, <2>1 DEF Proper
  <2>3. K[i].default \in BOOLEAN
    BY <2>1 DEF Rule
  <2> QED BY <2>1, <2>2, <2>3 DEF OwnRules
<1>13. /\ \A i \in 1..Len(A) : A[i].rule_id \in DotRule /\ A[i].default = TRUE /\ A[i] \notin OwnRules
       /\ \A i \in 1..Len(B) : B[i].rule_id \in DotRule /\ B[i].default = TRUE /\ B[i] \notin OwnRules
  BY <1>5, <1>6 DEF OwnRules
<1>14. ASSUME NEW i \in 1..Len(A), NEW j \in 1..Len(B) PROVE A[i].rule_id # B[j].rule_id
  <2>1. PICK k \in 1..Len(c) : A[i] = c[k]
    BY <1>6
  <2>2. PICK l \in 1..Len(c) : B[j] = c[l]
    BY <1>6
  <2>3. A[i] # B[j]
    BY <1>6 DEF others
  <2> QED BY <1>5, <2>1, <2>2, <2>3
<1>15. Proper(r)
  <2>1. ASSUME NEW i \in 1..Len(r) PROVE r[i].default <=> r[i].rule_id \in DotRule
    <3>1. CASE i \in 1..Len(A)
      BY <1>10, <1>13, <3>1
    <3>2. ASSUME NEW k \in 1..Len(K), i = Len(A) + k PROVE r[i].default <=> r[i].rule_id \in DotRule
      BY <1>10, <1>12, <3>2
    <3>3. ASSUME NEW k \in 1..Len(B), i = Len(A) + Len(K) + k
          PROVE  r[i].default <=> r[i].rule_id \in DotRule
      BY <1>10, <1>13, <3>3
    <3> QED BY <1>11, <3>1, <3>2, <3>3
  <2>2. ASSUME NEW i \in 1..Len(r), NEW j \in 1..Len(r), r[i].rule_id = r[j].rule_id PROVE i = j
    <3>1. CASE i \in 1..Len(A)
      <4>1. CASE j \in 1..Len(A)
        BY <1>6, <1>10, <2>2, <3>1, <4>1 DEF Proper
      <4>2. ASSUME NEW k \in 1..Len(K), j = Len(A) + k PROVE FALSE
        BY <1>10, <1>12, <1>13, <2>2, <3>1, <4>2
      <4>3. ASSUME NEW k \in 1..Len(B), j = Len(A) + Len(K) + k PROVE FALSE
        BY <1>10, <1>14, <2>2, <3>1, <4>3
      <4> QED BY <1>11, <4>1, <4>2, <4>3
    <3>2. ASSUME NEW l \in 1..Len(K), i = Len(A) + l PROVE i = j
      <4>1. CASE j \in 1..Len(A)
        BY <1>10, <1>12, <1>13, <2>2, <3>2, <4>1
      <4>2. ASSUME NEW k \in 1..Len(K), j = Len(A) + k PROVE i = j
        <5>1. K[l].rule_id = K[k].rule_id
          BY <1>10, <2>2, <3>2, <4>2
        <5>2. l = k
          BY <1>7, <5>1 DEF Proper
        <5> QED BY <3>2, <4>2, <5>2
      <4>3. ASSUME NEW k \in 1..Len(B), j = Len(A) + Len(K) + k PROVE FALSE
        BY <1>10, <1>12, <1>13, <2>2, <3>2, <4>3
      <4> QED BY <1>11, <4>1, <4>2, <4>3
    <3>3. ASSUME NEW l \in 1..Len(B), i = Len(A) + Len(K) + l PROVE i = j
      <4>1. CASE j \in 1..Len(A)
        BY <1>10, <1>14, <2>2, <3>3, <4>1
      <4>2. ASSUME NEW k \in 1..Len(K), j = Len(A) + k PROVE FALSE
        BY <1>10, <1>12, <1>13, <2>2, <3>3, <4>2
      <4>3. ASSUME NEW k \in 1..Len(B), j = Len(A) + Len(K) + k PROVE i = j
        <5>1. B[l].rule_id = B[k].rule_id
          BY <1>10, <2>2, <3>3, <4>3
        <5>2. l = k
          BY <1>6, <5>1 DEF Proper
        <5> QED BY <3>3, <4>3, <5>2
      <4> QED BY <1>11, <4>1, <4>2, <4>3
    <3> QED BY <1>11, <3>1, <3>2, <3>3
  <2> QED BY <1>10, <2>1, <2>2 DEF Proper
<1>16. ASSUME kind = "override" PROVE MasterOnTop(r)
  <2> SUFFICES ASSUME NEW i \in 1..Len(r), r[i].rule_id = Master PROVE i = 1
    BY DEF MasterOnTop
  <2>1. CASE i \in 1..Len(A)
    <3>1. 1 \in 1..Len(A) /\ A[1].rule_id = Master /\ A[i].rule_id = Master
      BY <1>6, <1>10, <1>16, <2>1 DEF master
    <3> QED BY <1>6, <2>1, <3>1 DEF Proper
  <2>2. ASSUME NEW k \in 1..Len(K), i = Len(A) + k PROVE FALSE
    BY <1>10, <1>12, <2>2, PushAssumption
  <2>3. ASSUME NEW k \in 1..Len(B), i = Len(A) + Len(K) + k PROVE FALSE
    <3>1. B[k] \in Rule /\ B[k] \notin master /\ B[k].rule_id = Master
      BY <1>6, <1>10, <2>3 DEF others
    <3> QED BY <1>16, <3>1 DEF master
  <2> QED BY <1>11, <2>1, <2>2, <2>3
<1>17. retain(s, OwnRules) = K
  <2>1. ASSUME NEW k \in 1..Len(s) PROVE s[k] \in KeptBy(n) <=> s[k] \in OwnRules
    <3>1. ASSUME s[k] \in OwnRules PROVE IndexOf(n, s[k].rule_id) = {}
      <4>1. s[k].rule_id \notin DotRule
        BY <1>2, <3>1 DEF Proper, OwnRules
      <4> QED BY <1>3, <4>1 DEF IndexOf
    <3> QED BY <3>1 DEF KeptBy, OwnRules
  <2>2. Picks(g, K, s, OwnRules, Len(s))
    BY <1>8, <2>1 DEF Picks
  <2> QED BY <1>2, <1>9, <2>2, RetainIs
<1>18. retain(r, OwnRules) = K
  <2> DEFINE h == [i \in 1..Len(K) |-> Len(A) + i]
  <2>1. h \in [1..Len(K) -> 1..Len(r)]
    BY <1>10
  <2>2. \A i \in 1..Len(K) : h[i] = Len(A) + i
    OBVIOUS
  <2> HIDE DEF h
  <2>3. \A i, j \in 1..Len(K) : i < j => h[i] < h[j]
    BY <1>10, <2>2
  <2>4. \A i \in 1..Len(K) : K[i] = r[h[i]]
    BY <1>10, <2>2
  <2>5. ASSUME NEW k \in 1..Len(r) PROVE r[k] \in OwnRules <=> \E i \in 1..Len(K) : h[i] = k
    <3>1. ASSUME NEW i \in 1..Len(K), h[i] = k PROVE r[k] \in OwnRules
      BY <1>12, <2>4, <3>1
    <3>2. ASSUME r[k] \in OwnRules PROVE \E i \in 1..Len(K) : h[i] = k
      <4>1. CASE k \in 1..Len(A)
        BY <1>10, <1>13, <3>2, <4>1
      <4>2. ASSUME NEW j \in 1..Len(K), k = Len(A) + j PROVE \E i \in 1..Len(K) : h[i] = k
        BY <2>2, <4>2
      <4>3. ASSUME NEW j \in 1..Len(B), k = Len(A) + Len(K) + j PROVE FALSE
        BY <1>10, <1>13, <3>2, <4>3
      <4> QED BY <1>11, <4>1, <4>2, <4>3
    <3> QED BY <3>1, <3>2
  <2>6. Picks(h, K, r, OwnRules, Len(r))
    BY <2>1, <2>3, <2>4, <2>5 DEF Picks
  <2> QED BY <1>9, <1>10, <2>6, RetainIs
<1>19. ASSUME NEW j \in 1..Len(r), NEW i \in 1..Len(s), s[i].rule_id = r[j].rule_id
       PROVE  s[i].enabled = r[j].enabled
  <2>1. ASSUME NEW k \in 1..Len(c), r[j] = c[k] PROVE s[i].enabled = r[j].enabled
    BY <1>5, <1>19, <2>1
  <2>2. ASSUME NEW k \in 1..Len(s), r[j] = s[k] PROVE s[i].enabled = r[j].enabled
    <3>1. i = k
      BY <1>2, <1>19, <2>2 DEF Proper
    <3> QED BY <2>2, <3>1
  <2>3. (\E k \in 1..Len(c) : r[j] = c[k]) \/ (\E k \in 1..Len(s) : r[j] = s[k])
    <3>1. CASE j \in 1..Len(A)
      BY <1>6, <1>10, <3>1
    <3>2. ASSUME NEW k \in 1..Len(K), j = Len(A) + k PROVE \E l \in 1..Len(s) : r[j] = s[l]
      BY <1>7, <1>10, <3>2
    <3>3. ASSUME NEW k \in 1..Len(B), j = Len(A) + Len(K) + k PROVE \E l \in 1..Len(c) : r[j] = c[l]
      BY <1>6, <1>10, <3>3
    <3> QED BY <1>11, <3>1, <3>2, <3>3
  <2> QED BY <2>1, <2>2, <2>3
<1>20. /\ Proper(r) /\ (kind = "override" => MasterOnTop(r)) /\ retain(r, OwnRules) = retain(s, OwnRules)
       /\ \A j \in 1..Len(r) : \A i \in 1..Len(s) :
             s[i].rule_id = r[j].rule_id => s[i].enabled = r[j].enabled
  BY <1>15, <1>16, <1>17, <1>18, <1>19
<1> QED BY <1>1, <1>20 DEF s

\* update_with_server_default.
LEMMA UpdateStep ==
    ASSUME PushInv, NEW d \in Defaults, update_with_server_default(d)
    PROVE  PushInv'
<1>1. rules' = [k \in Kind |-> Updated(k, d[k])] /\ result' = "ok"
  BY DEF update_with_server_default
<1>2. \A k \in Kind : /\ Proper(Updated(k, d[k]))
                      /\ k = "override" => MasterOnTop(Updated(k, d[k]))
  BY UpdatedKind
<1>3. \A k \in Kind : rules'[k] = Updated(k, d[k])
  BY <1>1
<1>4. "override" \in Kind
  BY DEF Kind, Kinds
<1>5. \A k \in Kind : Proper(rules'[k]) /\ rules'[k] \in Seq(Rule)
  BY <1>2, <1>3 DEF Proper
<1>6. MasterOnTop(rules'["override"])
  BY <1>2, <1>3, <1>4
<1>7. rules' \in [Kind -> Seq(Rule)]
  BY <1>1, <1>3, <1>5
<1> QED BY <1>1, <1>5, <1>6, <1>7 DEF PushInv, Proper, MasterOnTop

-----------------------------------------------------------------------------
(* What insert does to the list. *)

LEMMA ReplaceForm ==
    ASSUME NEW s, Proper(s), NEW rule \in Rule
    PROVE  /\ Len(s) \in Nat /\ Len(replace_full(s, rule)) \in {Len(s), Len(s) + 1}
           /\ \A i \in 1..Len(s) : replace_full(s, rule)[i] = IF s[i].rule_id = rule.rule_id
                                                              THEN rule ELSE s[i]
           /\ Len(replace_full(s, rule)) = Len(s) + 1 =>
                 replace_full(s, rule)[Len(s) + 1] = rule
           /\ IndexOf(s, rule.rule_id) = {} => Len(replace_full(s, rule)) = Len(s) + 1
<1> DEFINE p == replace_full(s, rule)
<1>1. Len(s) \in Nat /\ s \in Seq(Rule) /\ \A i \in 1..Len(s) : s[i] \in Rule
  BY DEF Proper
<1>2. CASE IndexOf(s, rule.rule_id) = {}
  <2>1. p = Append(s, rule)
    BY <1>2 DEF replace_full
  <2>2. Len(p) = Len(s) + 1 /\ p[Len(s) + 1] = rule /\ \A i \in 1..Len(s) : p[i] = s[i]
    BY <1>1, <2>1
  <2>3. \A i \in 1..Len(s) : s[i].rule_id # rule.rule_id
    BY <1>2 DEF IndexOf
  <2> HIDE DEF p
  <2>4. /\ Len(s) \in Nat /\ Len(p) \in {Len(s), Len(s) + 1}
        /\ \A i \in 1..Len(s) : p[i] = IF s[i].rule_id = rule.rule_id THEN rule ELSE s[i]
        /\ Len(p) = Len(s) + 1 => p[Len(s) + 1] = rule
        /\ IndexOf(s, rule.rule_id) = {} => Len(p) = Len(s) + 1
    BY <1>1, <2>2, <2>3
  <2> QED BY <2>4 DEF p
<1>3. CASE IndexOf(s, rule.rule_id) # {}
  <2>1. p = [i \in 1..Len(s) |-> IF s[i].rule_id = rule.rule_id THEN rule ELSE s[i]]
    BY <1>3 DEF replace_full
  <2>2. /\ Len(p) = Len(s)
        /\ \A i \in 1..Len(s) : p[i] = IF s[i].rule_id = rule.rule_id THEN rule ELSE s[i]
    BY <1>1, <2>1
  <2> HIDE DEF p
  <2>3. /\ Len(s) \in Nat /\ Len(p) \in {Len(s), Len(s) + 1}
        /\ \A i \in 1..Len(s) : p[i] = IF s[i].rule_id = rule.rule_id THEN rule ELSE s[i]
        /\ Len(p) = Len(s) + 1 => p[Len(s) + 1] = rule
        /\ IndexOf(s, rule.rule_id) = {} => Len(p) = Len(s) + 1
    BY <1>1, <1>3, <2>2
  <2> QED BY <2>3 DEF p
<1> QED BY <1>2, <1>3

\* Where move_index takes the rule for place i from.
Source(from, to, i) ==
    IF i = to THEN from
    ELSE IF from <= i /\ i < to THEN i + 1
    ELSE IF to < i /\ i <= from THEN i - 1
    ELSE i

LEMMA MoveForm ==
    ASSUME NEW s, Proper(s), NEW from \in 1..Len(s), NEW to \in 1..Len(s)
    PROVE  /\ move_index(s, from, to) \in Seq(Rule) /\ Len(move_index(s, from, to)) = Len(s)
           /\ \A i \in 1..Len(s) : /\ Source(from, to, i) \in 1..Len(s)
                                   /\ move_index(s, from, to)[i] = s[Source(from, to, i)]
<1>1. Len(s) \in Nat /\ \A i \in 1..Len(s) : s[i] \in Rule
  BY DEF Proper
<1>2. \A i \in 1..Len(s) : Source(from, to, i) \in 1..Len(s)
  BY <1>1 DEF Source
<1>3. move_index(s, from, to) = [i \in 1..Len(s) |-> s[Source(from, to, i)]]
  BY DEF move_index, Source
<1> QED BY <1>1, <1>2, <1>3

Others(id) == {rule \in Rule : rule.rule_id # id}

\* Replacing or appending a rule leaves the others where they are.
LEMMA ReplaceOthers ==
    ASSUME NEW s, Proper(s), NEW rule \in Rule, rule.rule_id \notin DotRule, rule.default = FALSE
    PROVE  retain(replace_full(s, rule), Others(rule.rule_id)) = retain(s, Others(rule.rule_id))
<1> DEFINE p == replace_full(s, rule)
           O == Others(rule.rule_id)
           phi == [i \in 1..Len(s) |-> i]
<1>1. Proper(p)
  BY ReplaceFull
<1>2. /\ Len(s) \in Nat /\ Len(p) \in {Len(s), Len(s) + 1}
      /\ \A i \in 1..Len(s) : p[i] = IF s[i].rule_id = rule.rule_id THEN rule ELSE s[i]
      /\ Len(p) = Len(s) + 1 => p[Len(s) + 1] = rule
  BY ReplaceForm
<1> HIDE DEF p
<1>3. p \in Seq(Rule) /\ s \in Seq(Rule)
  BY <1>1 DEF Proper
<1>4. phi \in [1..Len(s) -> 1..Len(p)]
  BY <1>2
<1>5. \A i \in 1..Len(s) : phi[i] = i
  OBVIOUS
<1> HIDE DEF phi
<1>6. rule \notin O
  BY DEF Others
<1>7. \A i \in 1..Len(s) : s[i] \in O => p[i] = s[i]
  BY <1>2 DEF Others
<1>8. ASSUME NEW k \in 1..Len(p), p[k] \in O PROVE k \in 1..Len(s) /\ s[k] \in O
  <2>1. k \in 1..Len(s)
    BY <1>2, <1>6, <1>8
  <2> QED BY <1>2, <1>6, <1>8, <2>1
<1> HIDE DEF O
<1>9. retain(s, O) = retain(p, O)
  <2>1. \A i, j \in 1..Len(s) : s[i] \in O /\ s[j] \in O /\ i < j => phi[i] < phi[j]
    BY <1>5
  <2>2. \A i \in 1..Len(s) : s[i] \in O => p[phi[i]] = s[i]
    BY <1>5, <1>7
  <2>3. \A k \in 1..Len(p) : p[k] \in O => \E i \in 1..Len(s) : s[i] \in O /\ phi[i] = k
    BY <1>5, <1>8
  <2> QED BY <1>3, <1>4, <2>1, <2>2, <2>3, RetainSame
<1> QED BY <1>9 DEF p, O

\* So does moving the rule.
LEMMA MoveOthers ==
    ASSUME NEW s, Proper(s), NEW from \in 1..Len(s), NEW to \in 1..Len(s)
    PROVE  retain(move_index(s, from, to), Others(s[from].rule_id)) = retain(s, Others(s[from].rule_id))
<1> DEFINE m == move_index(s, from, to)
           O == Others(s[from].rule_id)
           phi == [i \in 1..Len(s) |-> Source(from, to, i)]
<1>1. /\ m \in Seq(Rule) /\ Len(m) = Len(s)
      /\ \A i \in 1..Len(s) : Source(from, to, i) \in 1..Len(s) /\ m[i] = s[Source(from, to, i)]
  BY MoveForm
<1> HIDE DEF m
<1>2. s \in Seq(Rule) /\ Len(s) \in Nat
  BY DEF Proper
<1>3. phi \in [1..Len(m) -> 1..Len(s)] /\ \A i \in 1..Len(s) : phi[i] = Source(from, to, i)
  BY <1>1
<1> HIDE DEF phi
<1>4. s[from] \notin O
  BY DEF Others
<1> HIDE DEF O
<1>5. \A i \in 1..Len(m) : m[i] \in O => i # to
  BY <1>1, <1>4 DEF Source
<1>6. ASSUME NEW i \in 1..Len(m), NEW j \in 1..Len(m), m[i] \in O, m[j] \in O, i < j
      PROVE  phi[i] < phi[j]
  <2>1. i # to /\ j # to
    BY <1>5, <1>6
  <2>2. Source(from, to, i) < Source(from, to, j)
    BY <1>1, <1>2, <1>6, <2>1 DEF Source
  <2> QED BY <1>1, <1>3, <2>2
<1>7. \A i \in 1..Len(m) : m[i] \in O => s[phi[i]] = m[i]
  BY <1>1, <1>3
<1>8. ASSUME NEW k \in 1..Len(s), s[k] \in O PROVE \E i \in 1..Len(m) : m[i] \in O /\ phi[i] = k
  <2>1. k # from
    BY <1>4, <1>8
  <2>2. \E i \in 1..Len(s) : Source(from, to, i) = k
    <3>1. CASE from < k /\ k <= to
      <4>1. k - 1 \in 1..Len(s) /\ Source(from, to, k - 1) = k
        BY <1>2, <3>1 DEF Source
      <4> QED BY <4>1
    <3>2. CASE to <= k /\ k < from
      <4>1. k + 1 \in 1..Len(s) /\ Source(from, to, k + 1) = k
        BY <1>2, <3>2 DEF Source
      <4> QED BY <4>1
    <3>3. CASE ~(from < k /\ k <= to) /\ ~(to <= k /\ k < from)
      <4>1. Source(from, to, k) = k
        BY <1>2, <2>1, <3>3 DEF Source
      <4> QED BY <4>1
    <3> QED BY <3>1, <3>2, <3>3
  <2> QED BY <1>1, <1>3, <1>8, <2>2
<1>9. retain(m, O) = retain(s, O)
  BY <1>1, <1>2, <1>3, <1>6, <1>7, <1>8, RetainSame
<1> QED BY <1>9 DEF m, O

\* The rule is enabled as the one of its id in the list.
AsBefore(s, rule) ==
    \A i \in 1..Len(s) : s[i].rule_id = rule.rule_id => rule.enabled = s[i].enabled

\* The rule insert puts in the list.
LEMMA NewRuleType ==
    ASSUME PushInv, NEW kind \in Kind, NEW id \in UserRule, NEW actions \in Actions
    PROVE  /\ NewRule(rules[kind], id, actions) \in Rule
           /\ NewRule(rules[kind], id, actions).rule_id = id
           /\ NewRule(rules[kind], id, actions).default = FALSE
           /\ AsBefore(rules[kind], NewRule(rules[kind], id, actions))
<1> DEFINE s == rules[kind]
           rule == NewRule(s, id, actions)
           on == \A i \in IndexOf(s, id) : s[i].enabled
<1>1. Proper(s) /\ \A i \in 1..Len(s) : s[i] \in Rule
  BY DEF PushInv, Proper
<1>2. on \in BOOLEAN
  OBVIOUS
<1>3. rule = [rule_id |-> id, default |-> FALSE, enabled |-> on, actions |-> actions]
  BY DEF NewRule
<1> HIDE DEF s
<1>4. ASSUME NEW i \in 1..Len(s), s[i].rule_id = id PROVE on = s[i].enabled
  <2>1. \A j \in IndexOf(s, id) : j = i
    BY <1>1, <1>4 DEF IndexOf, Proper
  <2>2. i \in IndexOf(s, id)
    BY <1>4 DEF IndexOf
  <2>3. s[i].enabled \in BOOLEAN
    BY <1>1 DEF Rule
  <2> QED BY <2>1, <2>2, <2>3
<1> HIDE DEF on, rule
<1>5. /\ rule \in Rule /\ rule.rule_id = id /\ rule.default = FALSE
      /\ AsBefore(s, rule)
  BY <1>2, <1>3, <1>4 DEF Rule, RuleId, AsBefore
<1> QED BY <1>5 DEF rule, s

LEMMA NewRuleFacts ==
    ASSUME PushInv, NEW kind \in Kind, NEW id \in UserRule, NEW actions \in Actions
    PROVE  /\ NewRule(rules[kind], id, actions) \in Rule
           /\ NewRule(rules[kind], id, actions).rule_id = id
           /\ NewRule(rules[kind], id, actions).default = FALSE
           /\ Proper(rules[kind]) /\ id \notin DotRule
<1>1. /\ NewRule(rules[kind], id, actions) \in Rule
      /\ NewRule(rules[kind], id, actions).rule_id = id
      /\ NewRule(rules[kind], id, actions).default = FALSE
  BY NewRuleType
<1>2. Proper(rules[kind])
  BY DEF PushInv
<1>3. id \notin DotRule
  BY PushAssumption
<1> QED BY <1>1, <1>2, <1>3

\* How insert ends for a rule id of the user's.
LEMMA InsertOutcome ==
    ASSUME PushInv, NEW kind \in Kind, NEW id \in UserRule, NEW actions \in Actions,
           NEW after \in Anchors, NEW before \in Anchors
    PROVE  \/ insert(kind, id, actions, after, before) = Outcome(rules[kind], "err")
           \/ /\ after \in UserAnchors /\ before \in UserAnchors
              /\ Ends(insert(kind, id, actions, after, before), rules[kind],
                      replace_full(rules[kind], NewRule(rules[kind], id, actions)), id,
                      default_position(kind), after, before)
<1> DEFINE s == rules[kind]
           rule == NewRule(s, id, actions)
           out == insert(kind, id, actions, after, before)
<1>1. id \notin DotRule /\ id \notin InvalidRule
  BY PushAssumption DEF RuleId
<1>2. CASE (after \cup before) \cap DotRule # {}
  BY <1>2 DEF insert
<1>3. CASE (after \cup before) \cap DotRule = {}
  <2>1. after \in UserAnchors /\ before \in UserAnchors
    BY <1>3 DEF UserAnchors, Anchors, RuleId
  <2>2. out = insert_and_move_rule(s, rule, default_position(kind), after, before)
    BY <1>1, <1>3 DEF insert
  <2>3. rule \in Rule /\ rule.rule_id = id /\ rule.default = FALSE /\ Proper(s)
    BY NewRuleType DEF PushInv
  <2>4. default_position(kind) \in Positions
    BY DEF default_position, Positions
  <2> HIDE DEF out, rule, s
  <2>5. Ends(out, s, replace_full(s, rule), id, default_position(kind), after, before)
    BY <1>1, <2>1, <2>2, <2>3, <2>4, InsertForm
  <2> QED BY <2>1, <2>5 DEF out, rule, s
<1> QED BY <1>2, <1>3

LEMMA InsertOthers ==
    ASSUME PushInv, NEW kind \in Kind, NEW id \in UserRule, NEW actions \in Actions,
           NEW after \in Anchors, NEW before \in Anchors
    PROVE  retain(insert(kind, id, actions, after, before).set, Others(id))
              = retain(rules[kind], Others(id))
<1> DEFINE s == rules[kind]
           rule == NewRule(s, id, actions)
           p == replace_full(s, rule)
           out == insert(kind, id, actions, after, before)
<1>1. \/ out = Outcome(s, "err")
      \/ /\ after \in UserAnchors /\ before \in UserAnchors
         /\ Ends(out, s, p, id, default_position(kind), after, before)
  BY InsertOutcome
<1>2. rule \in Rule /\ rule.rule_id = id /\ rule.default = FALSE /\ Proper(s) /\ id \notin DotRule
  BY NewRuleFacts
<1> HIDE DEF s, rule, out
<1>3. Proper(p) /\ retain(p, Others(id)) = retain(s, Others(id))
  BY <1>2, ReplaceFull, ReplaceOthers
<1> HIDE DEF p
<1>4. CASE out.set = s \/ out.set = p
  <2>1. retain(out.set, Others(id)) = retain(s, Others(id))
    BY <1>3, <1>4
  <2> QED BY <2>1 DEF out, s
<1>5. ASSUME NEW at \in 1..Len(p), NEW to \in 1..Len(p),
             Moved(out, p, id, default_position(kind), after, before, at, to)
      PROVE  retain(out.set, Others(id)) = retain(s, Others(id))
  <2>1. p[at].rule_id = id /\ out.set = move_index(p, at, to)
    BY <1>5 DEF Moved, Outcome
  <2> QED BY <1>3, <2>1, MoveOthers
<1>6. CASE \E at, to \in 1..Len(p) : Moved(out, p, id, default_position(kind), after, before, at, to)
  <2>1. retain(out.set, Others(id)) = retain(s, Others(id))
    BY <1>5, <1>6
  <2> QED BY <2>1 DEF out, s
<1> QED BY <1>1, <1>4, <1>6 DEF Ends, Outcome

PlaceIn(set, id) == CHOOSE i \in IndexOf(set, id) : TRUE

\* The place of a rule is where it is.
LEMMA PlaceIs ==
    ASSUME NEW m, Proper(m), NEW i \in 1..Len(m)
    PROVE  PlaceIn(m, m[i].rule_id) = i
<1> DEFINE I == IndexOf(m, m[i].rule_id)
<1>1. i \in I /\ \A j \in I : j = i
  BY DEF IndexOf, Proper
<1> HIDE DEF I
<1>2. (CHOOSE j \in I : TRUE) \in I
  BY <1>1
<1>3. (CHOOSE j \in I : TRUE) = i
  BY <1>1, <1>2
<1> QED BY <1>3 DEF I, PlaceIn

\* What becomes of the places in a list when a rule is put in it.
Kept(s, p, id) ==
    /\ Len(s) \in Nat /\ Len(p) \in Nat
    /\ \A i \in 1..Len(s) : i \in 1..Len(p) /\ p[i].rule_id = s[i].rule_id
    /\ \A i \in 1..Len(p) : i \notin 1..Len(s) => p[i].rule_id = id /\ i = Len(s) + 1

\* An accepted rule stays where it was, or is moved within the list it was put in.
LEMMA RuleMoved ==
    ASSUME PushInv, NEW kind \in Kind, NEW id \in UserRule, NEW actions \in Actions,
           NEW after \in Anchors, NEW before \in Anchors,
           insert(kind, id, actions, after, before).result = "ok"
    PROVE  \E p : /\ Proper(p) /\ Kept(rules[kind], p, id)
                  /\ \/ /\ insert(kind, id, actions, after, before) = Outcome(p, "ok")
                        /\ IndexOf(rules[kind], id) # {} /\ after \cup before = {}
                     \/ /\ IndexOf(rules[kind], id) = {} \/ after \cup before # {}
                        /\ \E at, to \in 1..Len(p) :
                              Moved(insert(kind, id, actions, after, before), p, id,
                                    default_position(kind), after, before, at, to)
<1> DEFINE s == rules[kind]
           rule == NewRule(s, id, actions)
           p == replace_full(s, rule)
           out == insert(kind, id, actions, after, before)
<1>1. \/ out = Outcome(s, "err")
      \/ Ends(out, s, p, id, default_position(kind), after, before)
  BY InsertOutcome
<1>2. rule \in Rule /\ rule.rule_id = id /\ rule.default = FALSE
  BY NewRuleFacts
<1>3. Proper(s) /\ id \notin DotRule
  BY NewRuleFacts
<1>4. out.result = "ok"
  OBVIOUS
<1> HIDE DEF s, rule, out
<1>5. Proper(p)
  BY <1>2, <1>3, ReplaceFull
<1>6. /\ Len(s) \in Nat /\ Len(p) \in {Len(s), Len(s) + 1}
      /\ \A i \in 1..Len(s) : p[i] = IF s[i].rule_id = id THEN rule ELSE s[i]
      /\ Len(p) = Len(s) + 1 => p[Len(s) + 1] = rule
  BY <1>2, <1>3, ReplaceForm
<1> HIDE DEF p
<1>7. Kept(s, p, id)
  BY <1>2, <1>6 DEF Kept
<1>8. \/ out = Outcome(p, "ok") /\ IndexOf(s, id) # {} /\ after \cup before = {}
      \/ /\ IndexOf(s, id) = {} \/ after \cup before # {}
         /\ \E at, to \in 1..Len(p) :
               Moved(out, p, id, default_position(kind), after, before, at, to)
  BY <1>1, <1>4 DEF Ends, Outcome
<1> QED BY <1>5, <1>7, <1>8 DEF out, s

\* A rule that did not rank above another comes to the move from below it.
LEMMA FromBelow ==
    ASSUME NEW kind, NEW id, NEW x, x # id, ~ RanksAbove(kind, id, x),
           NEW p, Kept(rules[kind], p, id),
           NEW at \in 1..Len(p), p[at].rule_id = id, NEW j \in 1..Len(p), p[j].rule_id = x
    PROVE  j < at
<1> DEFINE s == rules[kind]
<1>1. /\ Len(s) \in Nat /\ Len(p) \in Nat
      /\ \A i \in 1..Len(s) : i \in 1..Len(p) /\ p[i].rule_id = s[i].rule_id
      /\ \A i \in 1..Len(p) : i \notin 1..Len(s) => p[i].rule_id = id /\ i = Len(s) + 1
  BY DEF Kept
<1>2. \A i, k \in 1..Len(s) : s[i].rule_id = id /\ s[k].rule_id = x => ~(i < k)
  BY DEF RanksAbove, IndexOf
<1> HIDE DEF s
<1>3. j \in 1..Len(s) /\ s[j].rule_id = x
  BY <1>1
<1>4. CASE at \in 1..Len(s)
  <2>1. s[at].rule_id = id
    BY <1>1, <1>4
  <2>2. ~(at < j) /\ at # j
    BY <1>2, <1>3, <1>4, <2>1
  <2> QED BY <1>1, <2>2
<1>5. CASE at \notin 1..Len(s)
  BY <1>1, <1>3, <1>5
<1> QED BY <1>4, <1>5

\* Where the rule goes, and where the rules end up that were named.
LEMMA MovedPlaces ==
    ASSUME NEW out, NEW p, Proper(p), NEW id, NEW default, NEW after, NEW before,
           NEW at \in 1..Len(p), NEW to \in 1..Len(p),
           Moved(out, p, id, default, after, before, at, to), id \notin after \cup before
    PROVE  /\ PlaceIn(out.set, id) = to /\ to \in Nat
           /\ \A x \in before : p[to].rule_id = x /\ (to < at => PlaceIn(out.set, x) = to + 1)
           /\ \A x \in after : \E a \in 1..Len(p) :
                 /\ p[a].rule_id = x
                 /\ PlaceIn(out.set, x) \in Nat /\ PlaceIn(out.set, x) < to
                 /\ a < at /\ before = {} => to = PlaceIn(out.set, x) + 1
<1> DEFINE m == move_index(p, at, to)
<1>1. Len(p) \in Nat /\ at \in Nat /\ to \in Nat
  BY DEF Proper
<1>2. out.set = m /\ p[at].rule_id = id
  BY DEF Moved, Outcome
<1>3. Proper(m)
  BY MoveIndex
<1>4. Len(m) = Len(p) /\ \A i \in 1..Len(p) : m[i] = p[Source(at, to, i)]
  BY MoveForm
<1> HIDE DEF m
<1>5. m[to].rule_id = id
  BY <1>2, <1>4 DEF Source
<1>6. PlaceIn(m, id) = to
  BY <1>3, <1>4, <1>5, PlaceIs
<1>7. ASSUME NEW x \in before
      PROVE  p[to].rule_id = x /\ (to < at => PlaceIn(m, x) = to + 1)
  <2>1. p[to].rule_id = x
    BY DEF Moved
  <2>2. ASSUME to < at PROVE PlaceIn(m, x) = to + 1
    <3>1. to + 1 \in 1..Len(p)
      BY <1>1, <2>2
    <3>2. m[to + 1].rule_id = x
      BY <1>1, <1>4, <2>1, <2>2, <3>1 DEF Source
    <3> QED BY <1>3, <1>4, <3>1, <3>2, PlaceIs
  <2> QED BY <2>1, <2>2
<1>8. ASSUME NEW x \in after
      PROVE  \E a \in 1..Len(p) : /\ p[a].rule_id = x
                                  /\ PlaceIn(m, x) \in Nat /\ PlaceIn(m, x) < to
                                  /\ a < at /\ before = {} => to = PlaceIn(m, x) + 1
  <2>1. PICK a \in 1..Len(p) : p[a].rule_id = x /\ a < to /\ (before = {} => to = a + 1)
    BY DEF Moved
  <2>2. a # at
    BY <1>2, <2>1
  <2>3. CASE a < at
    <3>1. m[a].rule_id = x
      BY <1>1, <1>4, <2>1, <2>3 DEF Source
    <3>2. PlaceIn(m, x) = a
      BY <1>3, <1>4, <3>1, PlaceIs
    <3> QED BY <1>1, <2>1, <3>2
  <2>4. CASE at < a
    <3>1. a - 1 \in 1..Len(p)
      BY <1>1, <2>4
    <3>2. m[a - 1].rule_id = x
      <4>1. Source(at, to, a - 1) = a
        BY <1>1, <2>1, <2>4 DEF Source
      <4> QED BY <1>4, <2>1, <3>1, <4>1
    <3>3. PlaceIn(m, x) = a - 1
      BY <1>3, <1>4, <3>1, <3>2, PlaceIs
    <3> QED BY <1>1, <2>1, <2>4, <3>3
  <2> QED BY <1>1, <2>2, <2>3, <2>4
<1> QED BY <1>1, <1>2, <1>6, <1>7, <1>8

\* A new rule that is given no place: what ends up before it is `.m.rule.master`.
LEMMA NewOnTop ==
    ASSUME PushInv, NEW kind \in Kind, NEW id \in UserRule, NEW out, NEW p, Proper(p),
           Kept(rules[kind], p, id), IndexOf(rules[kind], id) = {},
           kind # "override" \/ IndexOf(rules[kind], Master) # {},
           NEW at \in 1..Len(p), NEW to \in 1..Len(p),
           Moved(out, p, id, default_position(kind), {}, {}, at, to)
    PROVE  OnTop(out.set, id)
<1> DEFINE s == rules[kind]
           m == move_index(p, at, to)
<1>1. Len(p) \in Nat /\ at \in Nat /\ to \in Nat
  BY DEF Proper
<1>2. out.set = m /\ p[at].rule_id = id /\ to = default_position(kind)
  BY DEF Moved, Outcome
<1>3. Proper(m)
  BY MoveIndex
<1>4. Len(m) = Len(p) /\ \A i \in 1..Len(p) : m[i] = p[Source(at, to, i)]
  BY MoveForm
<1>5. /\ Len(s) \in Nat
      /\ \A i \in 1..Len(s) : i \in 1..Len(p) /\ p[i].rule_id = s[i].rule_id
      /\ \A i \in 1..Len(p) : i \notin 1..Len(s) => p[i].rule_id = id /\ i = Len(s) + 1
  BY DEF Kept
<1>6. \A i \in 1..Len(s) : s[i].rule_id # id
  BY DEF IndexOf
<1>7. kind = "override" => \E i \in 1..Len(s) : i = 1 /\ s[i].rule_id = Master
  BY DEF PushInv, MasterOnTop, IndexOf
<1> HIDE DEF m, s
<1>8. m[to].rule_id = id
  BY <1>2, <1>4 DEF Source
<1>9. \A j \in IndexOf(m, id) : j = to
  BY <1>3, <1>4, <1>8 DEF IndexOf, Proper
<1>10. ASSUME NEW i \in 1..Len(m), i < to PROVE m[i].rule_id = Master
  <2>1. kind = "override" /\ to = 2 /\ i = 1
    BY <1>1, <1>2, <1>4, <1>10 DEF default_position
  <2>2. 1 \in 1..Len(s) /\ 1 \in 1..Len(p) /\ p[1].rule_id = Master /\ p[1].rule_id # id
    BY <1>5, <1>6, <1>7, <2>1
  <2>3. at # 1
    BY <1>2, <2>2
  <2>4. Source(at, to, 1) = 1
    BY <1>1, <2>1, <2>3 DEF Source
  <2> QED BY <1>4, <2>1, <2>2, <2>4
<1> QED BY <1>2, <1>9, <1>10 DEF OnTop

-----------------------------------------------------------------------------
(* The theorems. *)

\* The invariant of a ruleset, through every call of the user's and every update
\* with new server defaults: each list of rules is proper, and `.m.rule.master`
\* is on top.
THEOREM PushInvariant == PushSpec => []PushInv
<1>1. PushInit => PushInv
  <2> SUFFICES ASSUME PushInit PROVE PushInv
    OBVIOUS
  <2>1. CASE rules \in Defaults
    <3>1. \A k \in Kind : Proper(rules[k]) /\ (k = "override" => MasterOnTop(rules[k]))
      BY <2>1, DefaultsProper
    <3>2. rules \in [Kind -> Seq(Predefined)]
      BY <2>1, PushAssumption DEF Predefined
    <3>3. \A k \in Kind : rules[k] \in Seq(Rule)
      BY <3>1 DEF Proper
    <3>4. rules \in [Kind -> Seq(Rule)]
      BY <3>2, <3>3
    <3>5. "override" \in Kind
      BY DEF Kind, Kinds
    <3> QED BY <3>1, <3>4, <3>5 DEF PushInv, PushInit
  <2>2. CASE rules = [k \in Kind |-> << >>]
    <3>1. << >> \in Seq(Rule) /\ Len(<< >>) = 0
      OBVIOUS
    <3>2. Proper(<< >>) /\ MasterOnTop(<< >>)
      BY <3>1 DEF Proper, MasterOnTop
    <3>3. "override" \in Kind
      BY DEF Kind, Kinds
    <3>4. \A k \in Kind : rules[k] = << >>
      BY <2>2
    <3> QED BY <2>2, <3>1, <3>2, <3>3, <3>4 DEF PushInv, PushInit
  <2> QED BY <2>1, <2>2 DEF PushInit
<1>2. PushInv /\ [PushNext]_pushVars => PushInv'
  <2> SUFFICES ASSUME PushInv, [PushNext]_pushVars PROVE PushInv'
    OBVIOUS
  <2>1. CASE UNCHANGED pushVars
    BY <2>1 DEF pushVars, PushInv, Proper, MasterOnTop
  <2>2. CASE UserNext
    <3>1. PICK kind \in UserKinds :
             \/ \E id \in RuleId \cup InvalidRule, actions \in Actions :
                \E after, before \in {{}} \cup {{x} : x \in RuleId} :
                   Insert(kind, id, actions, after, before)
             \/ \E id \in RuleId :
                   \/ \E enabled \in BOOLEAN : set_enabled(kind, id, enabled)
                   \/ \E actions \in Actions : set_actions(kind, id, actions)
                   \/ remove(kind, id)
      BY <2>2 DEF UserNext
    <3>2. kind \in Kind
      BY PushAssumption
    <3> QED BY <3>1, <3>2, InsertStep, ReplaceStep, RemoveStep
  <2>3. CASE \E new \in Defaults : update_with_server_default(new)
    BY <2>3, UpdateStep
  <2> QED BY <2>1, <2>2, <2>3 DEF PushNext
<1> QED BY <1>1, <1>2, PTL DEF PushSpec

\* insert, "`m.rule.master` should always be the rule with the highest priority":
\* no sequence of calls and updates puts a rule before it.
THEOREM MasterStaysFirst == PushSpec => []MasterFirst
<1>1. PushInv => MasterFirst
  BY DEF PushInv, MasterOnTop, MasterFirst
<1> QED BY <1>1, PushInvariant, PTL

\* insert, however it ends, keeps the other rules of the kind in their order and
\* state; update_with_server_default keeps the user's own.
THEOREM CallsKeepOthers == PushSpec => []OthersKept
<1>1. PushInv => OthersKept
  <2> SUFFICES ASSUME PushInv PROVE OthersKept
    OBVIOUS
  <2>1. PushTypeOK
    BY DEF PushInv, Proper, PushTypeOK
  <2>2. ASSUME NEW kind \in UserKinds, NEW id \in UserRule, NEW actions \in Actions,
               NEW after \in Anchors, NEW before \in Anchors
        PROVE  retain(insert(kind, id, actions, after, before).set, Others(id))
                  = retain(rules[kind], Others(id))
    <3>1. kind \in Kind
      BY PushAssumption
    <3> QED BY <3>1, InsertOthers
  <2>3. ASSUME NEW new \in Defaults, NEW kind \in Kind
        PROVE  retain(Updated(kind, new[kind]), OwnRules) = retain(rules[kind], OwnRules)
    BY UpdatedKind
  <2> QED BY <2>1, <2>2, <2>3, Zenon DEF OthersKept, Others, OwnRules
<1> QED BY <1>1, PushInvariant, PTL

\* Where insert puts a rule it accepts, new or not: below the rule named after, and
\* unless it ranked above it, directly before the one named before; a new rule
\* without a place goes to the top, where `.m.rule.master` is the only one above it.
THEOREM RulesPlaced == PushSpec => []RulePlaced
<1>1. PushInv => RulePlaced
  <2> SUFFICES ASSUME PushInv, NEW kind \in UserKinds, NEW id \in UserRule,
                      NEW actions \in Actions, NEW after \in Anchors, NEW before \in Anchors,
                      insert(kind, id, actions, after, before).result = "ok",
                      id \notin after \cup before
               PROVE  WellPlaced(kind, id, after, before,
                                 insert(kind, id, actions, after, before).set)
    BY DEF RulePlaced
  <2> DEFINE s == rules[kind]
             out == insert(kind, id, actions, after, before)
             Place(x) == CHOOSE i \in IndexOf(out.set, x) : TRUE
  <2>1. kind \in Kind
    BY PushAssumption
  <2>2. PICK p : /\ Proper(p) /\ Kept(s, p, id)
                 /\ \/ out = Outcome(p, "ok") /\ IndexOf(s, id) # {} /\ after \cup before = {}
                    \/ /\ IndexOf(s, id) = {} \/ after \cup before # {}
                       /\ \E at, to \in 1..Len(p) :
                             Moved(out, p, id, default_position(kind), after, before, at, to)
    BY <2>1, RuleMoved
  <2> HIDE DEF out
  <2>3. CASE out = Outcome(p, "ok") /\ IndexOf(s, id) # {} /\ after \cup before = {}
    <3>1. after = {} /\ before = {} /\ out.set = p
      BY <2>3 DEF Outcome
    <3>2. ASSUME NEW i \in IndexOf(s, id) PROVE Place(id) = i
      <4>1. i \in 1..Len(p) /\ p[i].rule_id = id
        BY <2>2 DEF Kept, IndexOf
      <4>2. PlaceIn(p, p[i].rule_id) = i
        BY <2>2, <4>1, PlaceIs
      <4> QED BY <3>1, <4>1, <4>2 DEF PlaceIn
    <3> HIDE DEF Place
    <3>3. \A x : x \notin after /\ x \notin before
      BY <3>1
    <3>4. IndexOf(s, id) # {}
      BY <2>3
    <3> QED BY <3>2, <3>3, <3>4 DEF WellPlaced, Place, out, s
  <2>4. ASSUME NEW at \in 1..Len(p), NEW to \in 1..Len(p),
               IndexOf(s, id) = {} \/ after \cup before # {},
               Moved(out, p, id, default_position(kind), after, before, at, to)
        PROVE  WellPlaced(kind, id, after, before, out.set)
    <3>1. Proper(p) /\ p[at].rule_id = id
      BY <2>2, <2>4 DEF Moved
    <3>2. /\ PlaceIn(out.set, id) = to /\ to \in Nat
          /\ \A x \in before : p[to].rule_id = x /\ (to < at => PlaceIn(out.set, x) = to + 1)
          /\ \A x \in after : \E a \in 1..Len(p) :
                /\ p[a].rule_id = x
                /\ PlaceIn(out.set, x) \in Nat /\ PlaceIn(out.set, x) < to
                /\ a < at /\ before = {} => to = PlaceIn(out.set, x) + 1
      BY <2>4, <3>1, MovedPlaces
    <3>3. \A x : Place(x) = PlaceIn(out.set, x)
      BY DEF PlaceIn
    <3> HIDE DEF Place
    <3>4. ASSUME NEW x \in before, ~ RanksAbove(kind, id, x) PROVE Place(x) = Place(id) + 1
      <4>1. to < at
        BY <2>2, <3>1, <3>2, <3>4, FromBelow
      <4> QED BY <3>2, <3>3, <4>1
    <3>5. ASSUME NEW x \in after, before = {}, ~ RanksAbove(kind, id, x)
          PROVE  Place(id) = Place(x) + 1
      <4>1. PICK a \in 1..Len(p) : /\ p[a].rule_id = x
                                   /\ a < at /\ before = {} => to = PlaceIn(out.set, x) + 1
        BY <3>2
      <4>2. a < at
        BY <2>2, <3>1, <3>5, <4>1, FromBelow
      <4> QED BY <3>2, <3>3, <3>5, <4>1, <4>2
    <3>6. ASSUME NEW x \in after PROVE Place(x) < Place(id)
      BY <3>2, <3>3
    <3>7. ASSUME after \cup before = {}, kind # "override" \/ IndexOf(s, Master) # {}
          PROVE  OnTop(out.set, id)
      <4>1. after = {} /\ before = {} /\ IndexOf(s, id) = {}
        BY <2>4, <3>7
      <4>2. Moved(out, p, id, default_position(kind), {}, {}, at, to)
        BY <2>4, <4>1
      <4> QED BY <2>1, <2>2, <3>7, <4>1, <4>2, NewOnTop
    <3>8. after \cup before = {} => \A i \in IndexOf(s, id) : Place(id) = i
      BY <2>4
    <3> QED BY <3>4, <3>5, <3>6, <3>7, <3>8 DEF WellPlaced, Place, s
  <2> QED BY <2>2, <2>3, <2>4 DEF out, s
<1> QED BY <1>1, PushInvariant, PTL

-----------------------------------------------------------------------------
(* The decision about an event. *)

LEMMA Concat2 ==
    ASSUME NEW S, NEW a \in Seq(S), NEW b \in Seq(S)
    PROVE  a \o b \in Seq(S) /\ (Len(a) >= 1 => Len(a \o b) >= 1 /\ (a \o b)[1] = a[1])
<1>1. /\ a \o b \in Seq(S) /\ Len(a \o b) = Len(a) + Len(b)
      /\ \A i \in 1..(Len(a) + Len(b)) : (a \o b)[i] = IF i <= Len(a) THEN a[i] ELSE b[i - Len(a)]
  BY ConcatProperties
<1>2. Len(a) \in Nat /\ Len(b) \in Nat
  OBVIOUS
<1> QED BY <1>1, <1>2

\* The first override rule is asked first.
LEMMA IterFirst ==
    ASSUME PushInv, Len(rules["override"]) >= 1
    PROVE  Len(iter) \in Nat /\ Len(iter) >= 1 /\ iter[1] = rules["override"][1]
<1> DEFINE o == rules["override"]
           c == rules["content"]
           r == rules["room"]
           s == rules["sender"]
           u == rules["underride"]
<1>1. {"override", "content", "room", "sender", "underride"} \subseteq Kind
  BY DEF Kind, Kinds
<1>2. o \in Seq(Rule) /\ c \in Seq(Rule) /\ r \in Seq(Rule) /\ s \in Seq(Rule) /\ u \in Seq(Rule)
  BY <1>1 DEF PushInv
<1>3. Len(o) >= 1
  OBVIOUS
<1>4. iter = o \o c \o r \o s \o u
  BY DEF iter
<1> HIDE DEF o, c, r, s, u
<1>5. o \o c \in Seq(Rule) /\ Len(o \o c) >= 1 /\ (o \o c)[1] = o[1]
  BY <1>2, <1>3, Concat2
<1>6. o \o c \o r \in Seq(Rule) /\ Len(o \o c \o r) >= 1 /\ (o \o c \o r)[1] = o[1]
  BY <1>2, <1>5, Concat2
<1>7. /\ o \o c \o r \o s \in Seq(Rule) /\ Len(o \o c \o r \o s) >= 1
      /\ (o \o c \o r \o s)[1] = o[1]
  BY <1>2, <1>6, Concat2
<1>8. iter \in Seq(Rule) /\ Len(iter) >= 1 /\ iter[1] = o[1]
  BY <1>2, <1>4, <1>7, Concat2
<1>9. Len(iter) \in Nat
  BY <1>8
<1> QED BY <1>8, <1>9 DEF o

\* While `.m.rule.master` is enabled, something decides about every event, and that
\* is this rule or an override rule of the user's.
THEOREM OnlyOverridesDecide == PushSpec => []MasterSilences
<1>1. PushInv => MasterSilences
  <2> SUFFICES ASSUME PushInv, NEW i \in 1..Len(rules["override"]),
                      rules["override"][i].rule_id = Master, rules["override"][i].enabled,
                      NEW e \in Events
               PROVE  get_match(e) = {rules["override"][i]}
    BY DEF MasterSilences
  <2>1. i = 1
    BY DEF PushInv, MasterOnTop
  <2>2. Len(rules["override"]) >= 1
    <3>1. "override" \in Kind
      BY DEF Kind, Kinds
    <3>2. rules["override"] \in Seq(Rule)
      BY <3>1 DEF PushInv
    <3> QED BY <3>2
  <2>3. Len(iter) \in Nat /\ Len(iter) >= 1 /\ iter[1] = rules["override"][i]
    BY <2>1, <2>2, IterFirst
  <2>4. matches[Master] = Events
    BY PushAssumption
  <2>5. applies(iter[1], e)
    BY <2>3, <2>4 DEF applies
  <2> DEFINE J == {j \in 1..Len(iter) : /\ applies(iter[j], e)
                                        /\ \A h \in 1..(j - 1) : ~ applies(iter[h], e)}
  <2>6. J = {1}
    <3>1. 1 \in J
      BY <2>3, <2>5
    <3>2. ASSUME NEW j \in J PROVE j = 1
      <4>1. j \in 1..Len(iter) /\ \A h \in 1..(j - 1) : ~ applies(iter[h], e)
        BY <3>2
      <4>2. ~(1 \in 1..(j - 1))
        BY <2>5, <4>1
      <4> QED BY <2>3, <4>1, <4>2
    <3> QED BY <3>1, <3>2
  <2>7. get_match(e) = {iter[j] : j \in J}
    BY DEF get_match
  <2> HIDE DEF J
  <2> QED BY <2>3, <2>6, <2>7
<1> QED BY <1>1, PushInvariant, PTL

-----------------------------------------------------------------------------
(* What switches a rule on or off. *)

\* The rules that are in both lists are enabled in both or in none.
SameSwitch(s, t) ==
    \A i \in 1..Len(s), j \in 1..Len(t) :
        s[i].rule_id = t[j].rule_id => s[i].enabled = t[j].enabled

LEMMA SwitchKept ==
    ASSUME NEW s, Proper(s), NEW t,
           \A j \in 1..Len(t) : \E k \in 1..Len(s) :
              t[j].rule_id = s[k].rule_id /\ t[j].enabled = s[k].enabled
    PROVE  SameSwitch(s, t)
<1> SUFFICES ASSUME NEW i \in 1..Len(s), NEW j \in 1..Len(t), s[i].rule_id = t[j].rule_id
             PROVE  s[i].enabled = t[j].enabled
  BY DEF SameSwitch
<1>1. PICK k \in 1..Len(s) : t[j].rule_id = s[k].rule_id /\ t[j].enabled = s[k].enabled
  OBVIOUS
<1>2. i = k
  BY <1>1 DEF Proper
<1> QED BY <1>1, <1>2

LEMMA SameSwitchSame ==
    ASSUME NEW s, Proper(s)
    PROVE  SameSwitch(s, s)
BY SwitchKept

LEMMA MoveSwitch ==
    ASSUME NEW s, NEW p, Proper(p), NEW at \in 1..Len(p), NEW to \in 1..Len(p), SameSwitch(s, p)
    PROVE  SameSwitch(s, move_index(p, at, to))
<1> DEFINE m == move_index(p, at, to)
<1>1. /\ Len(m) = Len(p)
      /\ \A i \in 1..Len(p) : Source(at, to, i) \in 1..Len(p) /\ m[i] = p[Source(at, to, i)]
  BY MoveForm
<1> HIDE DEF m
<1> SUFFICES ASSUME NEW i \in 1..Len(s), NEW j \in 1..Len(m), s[i].rule_id = m[j].rule_id
             PROVE  s[i].enabled = m[j].enabled
  BY DEF SameSwitch, m
<1>2. PICK k \in 1..Len(p) : m[j] = p[k]
  BY <1>1
<1> QED BY <1>2 DEF SameSwitch

\* insert keeps the switch of the rule it replaces.
LEMMA InsertSwitch ==
    ASSUME PushInv, NEW kind \in Kind, NEW id \in UserRule, NEW actions \in Actions,
           NEW after \in Anchors, NEW before \in Anchors
    PROVE  SameSwitch(rules[kind], insert(kind, id, actions, after, before).set)
<1> DEFINE s == rules[kind]
           rule == NewRule(s, id, actions)
           p == replace_full(s, rule)
           out == insert(kind, id, actions, after, before)
<1>1. \/ out = Outcome(s, "err")
      \/ /\ after \in UserAnchors /\ before \in UserAnchors
         /\ Ends(out, s, p, id, default_position(kind), after, before)
  BY InsertOutcome
<1>2. rule \in Rule /\ rule.rule_id = id /\ rule.default = FALSE /\ Proper(s) /\ id \notin DotRule
  BY NewRuleFacts
<1>3. AsBefore(s, rule)
  BY NewRuleType
<1> HIDE DEF s, rule, out
<1>4. Proper(p)
  BY <1>2, ReplaceFull
<1>5. /\ Len(s) \in Nat /\ Len(p) \in {Len(s), Len(s) + 1}
      /\ \A i \in 1..Len(s) : p[i] = IF s[i].rule_id = rule.rule_id THEN rule ELSE s[i]
      /\ Len(p) = Len(s) + 1 => p[Len(s) + 1] = rule
  BY <1>2, ReplaceForm
<1> HIDE DEF p
<1>6. SameSwitch(s, p)
  <2> SUFFICES ASSUME NEW i \in 1..Len(s), NEW j \in 1..Len(p), s[i].rule_id = p[j].rule_id
               PROVE  s[i].enabled = p[j].enabled
    BY DEF SameSwitch
  <2>1. CASE p[j] = rule
    BY <1>2, <1>3, <2>1 DEF AsBefore
  <2>2. CASE j \in 1..Len(s) /\ p[j] = s[j]
    BY <1>2, <2>2 DEF Proper
  <2>3. j \in 1..Len(s) \/ (j = Len(s) + 1 /\ Len(p) = Len(s) + 1)
    <3>1. CASE Len(p) = Len(s)
      BY <1>5, <3>1
    <3>2. CASE Len(p) = Len(s) + 1
      BY <1>5, <3>2
    <3> QED BY <1>5, <3>1, <3>2
  <2> QED BY <1>5, <2>1, <2>2, <2>3
<1>7. SameSwitch(s, s)
  BY <1>2, SameSwitchSame
<1>8. ASSUME NEW at \in 1..Len(p), NEW to \in 1..Len(p),
             Moved(out, p, id, default_position(kind), after, before, at, to)
      PROVE  SameSwitch(s, out.set)
  <2>1. out.set = move_index(p, at, to)
    BY <1>8 DEF Moved, Outcome
  <2>2. SameSwitch(s, move_index(p, at, to))
    BY <1>4, <1>6, MoveSwitch
  <2> QED BY <2>1, <2>2
<1>9. SameSwitch(s, out.set)
  BY <1>1, <1>6, <1>7, <1>8 DEF Ends, Outcome
<1> QED BY <1>9 DEF s, out

\* A step that keeps the switches of the kind it changes keeps them all.
LEMMA OneKindSwitch ==
    ASSUME PushInv, NEW kind \in Kind, NEW s, SameSwitch(rules[kind], s),
           rules' = [rules EXCEPT ![kind] = s], NEW k \in Kind
    PROVE  SameSwitch(rules[k], rules'[k])
<1>1. rules'[k] = IF k = kind THEN s ELSE rules[k]
  BY DEF PushInv
<1>2. CASE k = kind
  <2>1. rules'[k] = s /\ rules[k] = rules[kind]
    BY <1>1, <1>2
  <2> QED BY <2>1
<1>3. CASE k # kind
  <2>1. rules'[k] = rules[k]
    BY <1>1, <1>3
  <2>2. Proper(rules[k])
    BY DEF PushInv
  <2>3. SameSwitch(rules[k], rules[k])
    BY <2>2, SameSwitchSame
  <2> QED BY <2>1, <2>3
<1> QED BY <1>2, <1>3

LEMMA UnchangedSwitch ==
    ASSUME PushInv, UNCHANGED rules, NEW k \in Kind
    PROVE  SameSwitch(rules[k], rules'[k])
<1>1. Proper(rules[k])
  BY DEF PushInv
<1>2. SameSwitch(rules[k], rules[k])
  BY <1>1, SameSwitchSame
<1> QED BY <1>2

LEMMA InsertSwitchStep ==
    ASSUME PushInv, NEW kind \in Kind, NEW id \in RuleId \cup InvalidRule, NEW actions \in Actions,
           NEW after \in Anchors, NEW before \in Anchors,
           Insert(kind, id, actions, after, before), NEW k \in Kind
    PROVE  SameSwitch(rules[k], rules'[k])
<1> DEFINE out == insert(kind, id, actions, after, before)
<1>1. rules' = [rules EXCEPT ![kind] = out.set]
  BY DEF Insert
<1>2. CASE id \in UserRule
  <2>1. SameSwitch(rules[kind], out.set)
    BY <1>2, InsertSwitch
  <2> HIDE DEF out
  <2> QED BY <1>1, <2>1, OneKindSwitch
<1>3. CASE id \notin UserRule
  <2>1. id \in DotRule \cup InvalidRule
    BY <1>3 DEF RuleId
  <2>2. out.set = rules[kind]
    BY <2>1 DEF insert, Outcome
  <2>3. Proper(rules[kind])
    BY DEF PushInv
  <2>4. SameSwitch(rules[kind], rules[kind])
    BY <2>3, SameSwitchSame
  <2> QED BY <1>1, <2>2, <2>4, OneKindSwitch
<1> QED BY <1>2, <1>3

LEMMA ActionsSwitchStep ==
    ASSUME PushInv, NEW kind \in Kind, NEW id \in RuleId, NEW actions \in Actions,
           set_actions(kind, id, actions), NEW k \in Kind
    PROVE  SameSwitch(rules[k], rules'[k])
<1> DEFINE s == rules[kind]
           t == [i \in 1..Len(s) |->
                    IF s[i].rule_id = id THEN [s[i] EXCEPT !.actions = actions] ELSE s[i]]
<1>1. Proper(s) /\ s \in Seq(Rule) /\ Len(s) \in Nat /\ \A i \in 1..Len(s) : s[i] \in Rule
  BY DEF PushInv
<1>2. UNCHANGED rules \/ rules' = [rules EXCEPT ![kind] = t]
  BY DEF set_actions, ReplaceRule, PushInv
<1>3. Len(t) = Len(s) /\ \A i \in 1..Len(s) : t[i].rule_id = s[i].rule_id /\ t[i].enabled = s[i].enabled
  BY <1>1 DEF Rule
<1> HIDE DEF t
<1>4. SameSwitch(s, t)
  BY <1>1, <1>3, SwitchKept
<1> QED BY <1>2, <1>4, OneKindSwitch, UnchangedSwitch

LEMMA RemoveSwitchStep ==
    ASSUME PushInv, NEW kind \in Kind, NEW id \in RuleId, remove(kind, id), NEW k \in Kind
    PROVE  SameSwitch(rules[k], rules'[k])
<1> DEFINE s == rules[kind]
<1>1. Proper(s) /\ s \in Seq(Rule) /\ Len(s) \in Nat
  BY DEF PushInv
<1>2. UNCHANGED rules \/ \E at \in 1..Len(s) : rules' = [rules EXCEPT ![kind] = shift_remove(s, at)]
  BY DEF remove, IndexOf, PushInv
<1>3. ASSUME NEW at \in 1..Len(s), rules' = [rules EXCEPT ![kind] = shift_remove(s, at)]
      PROVE  SameSwitch(rules[k], rules'[k])
  <2> DEFINE r == shift_remove(s, at)
  <2>1. /\ Len(r) = Len(s) - 1
        /\ \A i \in 1..Len(r) : r[i] = s[i] \/ r[i] = s[i + 1]
    BY <1>1 DEF shift_remove
  <2> HIDE DEF r
  <2>2. \A i \in 1..Len(r) : \E j \in 1..Len(s) : r[i] = s[j]
    BY <1>1, <2>1
  <2> HIDE DEF s
  <2>3. SameSwitch(s, r)
    BY <1>1, <2>2, SwitchKept
  <2> USE DEF s
  <2>4. rules' = [rules EXCEPT ![kind] = r]
    BY <1>3 DEF r
  <2> QED BY <2>3, <2>4, OneKindSwitch
<1> QED BY <1>2, <1>3, UnchangedSwitch

LEMMA UpdateSwitchStep ==
    ASSUME PushInv, NEW d \in Defaults, update_with_server_default(d), NEW k \in Kind
    PROVE  SameSwitch(rules[k], rules'[k])
<1>1. rules'[k] = Updated(k, d[k])
  BY DEF update_with_server_default
<1>2. SameSwitch(rules[k], Updated(k, d[k]))
  BY UpdatedKind DEF SameSwitch
<1> QED BY <1>1, <1>2

\* What set_enabled switches.
LEMMA EnabledStep ==
    ASSUME PushInv, NEW kind \in Kind, NEW id \in RuleId, NEW enabled \in BOOLEAN,
           set_enabled(kind, id, enabled), NEW k \in Kind,
           NEW i \in 1..Len(rules[k]), NEW j \in 1..Len(rules'[k]),
           rules[k][i].rule_id = rules'[k][j].rule_id,
           rules[k][i].enabled # rules'[k][j].enabled
    PROVE  k = kind /\ rules[k][i].rule_id = id /\ rules'[k][j].enabled = enabled
<1> DEFINE s == rules[kind]
           t == [l \in 1..Len(s) |->
                    IF s[l].rule_id = id THEN [s[l] EXCEPT !.enabled = enabled] ELSE s[l]]
<1>1. Proper(s) /\ s \in Seq(Rule) /\ Len(s) \in Nat /\ \A l \in 1..Len(s) : s[l] \in Rule
  BY DEF PushInv
<1>2. UNCHANGED rules \/ rules' = [rules EXCEPT ![kind] = t]
  BY DEF set_enabled, ReplaceRule, PushInv
<1>3. ~ SameSwitch(rules[k], rules'[k])
  BY DEF SameSwitch
<1>4. rules' = [rules EXCEPT ![kind] = t]
  BY <1>2, <1>3, UnchangedSwitch
<1>5. k = kind
  <2>1. SUFFICES ASSUME k # kind PROVE FALSE
    OBVIOUS
  <2>2. rules'[k] = rules[k]
    BY <1>4, <2>1 DEF PushInv
  <2>3. Proper(rules[k])
    BY DEF PushInv
  <2>4. SameSwitch(rules[k], rules[k])
    BY <2>3, SameSwitchSame
  <2> QED BY <1>3, <2>2, <2>4
<1>6. rules'[k] = t
  BY <1>4, <1>5 DEF PushInv
<1>7. /\ Len(t) = Len(s)
      /\ \A l \in 1..Len(s) : IF s[l].rule_id = id THEN t[l].rule_id = id /\ t[l].enabled = enabled
                                                  ELSE t[l] = s[l]
  BY <1>1 DEF Rule
<1> HIDE DEF t
<1>8. j \in 1..Len(s) /\ i \in 1..Len(s) /\ s[i].rule_id = t[j].rule_id /\ s[i].enabled # t[j].enabled
  BY <1>5, <1>6, <1>7
<1>9. t[j].rule_id = s[j].rule_id
  BY <1>7, <1>8
<1>10. i = j
  BY <1>1, <1>8, <1>9 DEF Proper
<1> QED BY <1>5, <1>6, <1>7, <1>8, <1>10

\* A rule that stays is switched on or off by set_enabled only: not by being
\* replaced by insert, nor by new server defaults.
THEOREM SwitchedBySetEnabled == PushSpec => OnlySetEnabledSwitches
<1> DEFINE Switched == \A k \in Kind : \A i \in 1..Len(rules[k]), j \in 1..Len(rules'[k]) :
                          /\ rules[k][i].rule_id = rules'[k][j].rule_id
                          /\ rules[k][i].enabled # rules'[k][j].enabled
                          => set_enabled(k, rules[k][i].rule_id, rules'[k][j].enabled)
<1>1. ASSUME \A k \in Kind : SameSwitch(rules[k], rules'[k]) PROVE Switched
  BY <1>1 DEF SameSwitch
<1>2. ASSUME PushInv, PushNext PROVE Switched
  <2>1. CASE \E new \in Defaults : update_with_server_default(new)
    <3>1. \A k \in Kind : SameSwitch(rules[k], rules'[k])
      BY <1>2, <2>1, UpdateSwitchStep
    <3> QED BY <1>1, <3>1
  <2>2. CASE UserNext
    <3>1. PICK kind \in UserKinds :
             \/ \E id \in RuleId \cup InvalidRule, actions \in Actions, after, before \in Anchors :
                   Insert(kind, id, actions, after, before)
             \/ \E id \in RuleId :
                   \/ \E enabled \in BOOLEAN : set_enabled(kind, id, enabled)
                   \/ \E actions \in Actions : set_actions(kind, id, actions)
                   \/ remove(kind, id)
      BY <2>2 DEF UserNext, Anchors
    <3>2. kind \in Kind
      BY PushAssumption
    <3>3. CASE \E id \in RuleId \cup InvalidRule, actions \in Actions, after, before \in Anchors :
                  Insert(kind, id, actions, after, before)
      <4>1. \A k \in Kind : SameSwitch(rules[k], rules'[k])
        BY <1>2, <3>2, <3>3, InsertSwitchStep
      <4> QED BY <1>1, <4>1
    <3>4. CASE \E id \in RuleId, actions \in Actions : set_actions(kind, id, actions)
      <4>1. \A k \in Kind : SameSwitch(rules[k], rules'[k])
        BY <1>2, <3>2, <3>4, ActionsSwitchStep
      <4> QED BY <1>1, <4>1
    <3>5. CASE \E id \in RuleId : remove(kind, id)
      <4>1. \A k \in Kind : SameSwitch(rules[k], rules'[k])
        BY <1>2, <3>2, <3>5, RemoveSwitchStep
      <4> QED BY <1>1, <4>1
    <3>6. ASSUME NEW id \in RuleId, NEW enabled \in BOOLEAN, set_enabled(kind, id, enabled)
          PROVE  Switched
      <4> SUFFICES ASSUME NEW k \in Kind, NEW i \in 1..Len(rules[k]), NEW j \in 1..Len(rules'[k]),
                          rules[k][i].rule_id = rules'[k][j].rule_id,
                          rules[k][i].enabled # rules'[k][j].enabled
                   PROVE  set_enabled(k, rules[k][i].rule_id, rules'[k][j].enabled)
        OBVIOUS
      <4>1. k = kind /\ rules[k][i].rule_id = id /\ rules'[k][j].enabled = enabled
        BY <1>2, <3>2, <3>6, EnabledStep
      <4> QED BY <3>6, <4>1
    <3> QED BY <3>1, <3>3, <3>4, <3>5, <3>6
  <2> QED BY <1>2, <2>1, <2>2 DEF PushNext
<1>3. PushInv /\ [PushNext]_pushVars => [Switched]_pushVars
  BY <1>2
<1> QED BY <1>3, PushInvariant, PTL DEF PushSpec, OnlySetEnabledSwitches

=============================================================================
