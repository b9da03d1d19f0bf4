--------------------------- MODULE MessageProofs ---------------------------
(***************************************************************************)
(* Proofs about what is done with the text of a message: WordMatch, the    *)
(* search for a word or a glob in it, for any alphabet, value and pattern, *)
(* and Sanitizer, the pass over the tree of its formatted body, for any    *)
(* number of nodes and any configuration.                                  *)
(***************************************************************************)
EXTENDS WordMatch, Sanitizer, WellFoundedInduction, SequenceTheorems, FiniteSetTheorems, TLAPS

-----------------------------------------------------------------------------
(* WordMatch: a word is found exactly where it stands between characters   *)
(* that belong to no word.                                                 *)

In(p) == p \in DOMAIN value /\ value[p] \in WordChars

Occurs(p) ==
    /\ p \in 1..(Len(value) - Len(pattern) + 1)
    /\ \A k \in 1..Len(pattern) : value[p + k - 1] = pattern[k]

ChunkType == [text : Seq(Chars), least : Nat, more : BOOLEAN]

WordType ==
    /\ value \in Seq(Chars) /\ pattern \in Seq(Chars)
    /\ from \in Positions
    /\ pc \in {"call", "chunks", "regex", "done"}

NoneBefore(stop) == \A p \in 1..(stop - 1) : Occurs(p) => ~Separate(p, p + Len(pattern))

\* What the calls so far have settled.
CallInv ==
    /\ from > 1 => pattern # <<>> /\ ~has_wildcards /\ value # pattern /\ ~In(from - 1)
    /\ NoneBefore(from)

\* The chunks so far, with the one that is being collected, match as the
\* pattern does up to the character that is next.
Cut(list, n) == \A p \in Positions : Reach(ChunkSteps(list), p) = Reach(GlobSteps(n), p)

LoopInv ==
    /\ i \in 1..(Len(pattern) + 1) /\ chunk_start \in 1..i
    /\ chunks \in Seq(ChunkType)
    /\ prev_wildcard \in BOOLEAN
    /\ i = 1 => chunks = <<>> /\ chunk_start = 1 /\ ~prev_wildcard
    /\ prev_wildcard => chunk_start = i - 1 /\ is_wildcard(pattern[i - 1])
    /\ ~prev_wildcard /\ ~AdjacentWildcards => \A k \in chunk_start..(i - 1) : ~is_wildcard(pattern[k])
    /\ ~prev_wildcard /\ i > 1 => chunk_start < i

WordInv ==
    /\ WordType
    /\ pc = "call" => CallInv /\ i = 1 /\ chunks = <<>> /\ prev_wildcard = FALSE /\ chunk_start = 1
    /\ pc \in {"chunks", "regex"} => from = 1 /\ has_wildcards /\ value # pattern
    /\ pc = "chunks" => LoopInv /\ (~AdjacentWildcards => Cut(Chunk(i), i - 1))
    /\ pc = "regex" /\ ~AdjacentWildcards => Cut(chunks, Len(pattern))
    /\ FindsWholeWords

-----------------------------------------------------------------------------
(* What is reached. *)

LEMMA LeastNumber ==
    ASSUME NEW B, B \subseteq Nat, B # {}
    PROVE  \E n \in B : \A m \in B : n <= m
<1>1. PICK n \in B : \A m \in B : ~(<<m, n>> \in OpToRel(<, Nat))
  BY NatLessThanWellFounded, WFMin, Zenon
<1>2. \A m \in B : ~(m < n)
  BY <1>1 DEF OpToRel
<1>3. \A m \in B : n <= m
  BY <1>2
<1> QED BY <1>3

\* The equation of the function in Reach, up to n.
Ends(f, steps, start, n) ==
    f = [k \in 0..n |-> IF k = 0 THEN {start} ELSE UNION {steps[k][p] : p \in f[k - 1]}]

LEMMA EndsExtends ==
    ASSUME NEW steps, NEW start, NEW n \in Nat, n # 0, NEW f, Ends(f, steps, start, n - 1)
    PROVE  Ends([k \in 0..n |-> IF k = n THEN UNION {steps[n][p] : p \in f[n - 1]} ELSE f[k]],
                steps, start, n)
<1> DEFINE last == UNION {steps[n][p] : p \in f[n - 1]}
           g == [k \in 0..n |-> IF k = n THEN last ELSE f[k]]
<1>1. \A k \in 0..(n - 1) : f[k] = IF k = 0 THEN {start} ELSE UNION {steps[k][p] : p \in f[k - 1]}
  BY DEF Ends
<1>2. ASSUME NEW k \in 0..n
      PROVE  g[k] = IF k = 0 THEN {start} ELSE UNION {steps[k][p] : p \in g[k - 1]}
  <2>1. CASE k = n
    <3>1. g[k] = last /\ g[k - 1] = f[n - 1]
      BY <2>1
    <3> QED BY <2>1, <3>1
  <2>2. CASE k = 0
    <3>1. g[k] = f[0] /\ 0 \in 0..(n - 1)
      BY <2>2
    <3> QED BY <1>1, <2>2, <3>1
  <2>3. CASE k # 0 /\ k # n
    <3>1. g[k] = f[k] /\ g[k - 1] = f[k - 1] /\ k \in 0..(n - 1)
      BY <2>3
    <3> HIDE DEF g
    <3> QED BY <1>1, <2>3, <3>1
  <2> QED BY <2>1, <2>2, <2>3
<1>3. g = [k \in 0..n |-> g[k]]
  OBVIOUS
<1> HIDE DEF g
<1>4. Ends(g, steps, start, n)
  BY <1>2, <1>3 DEF Ends
<1> QED BY <1>4 DEF g

LEMMA EndsExists ==
    ASSUME NEW steps, NEW start, NEW len \in Nat
    PROVE  \E f : Ends(f, steps, start, len)
<1> DEFINE Bad == {n \in Nat : ~ \E f : Ends(f, steps, start, n)}
<1>1. SUFFICES ASSUME Bad # {} PROVE FALSE
  OBVIOUS
<1>2. PICK n \in Bad : \A m \in Bad : n <= m
  <2>1. Bad \subseteq Nat
    OBVIOUS
  <2> HIDE DEF Bad
  <2> QED BY <1>1, <2>1, LeastNumber
<1>3. n \in Nat /\ ~ \E f : Ends(f, steps, start, n)
  BY <1>2
<1>4. n # 0
  <2> DEFINE f == [k \in 0..0 |-> {start}]
  <2>1. Ends(f, steps, start, 0)
    BY DEF Ends
  <2> QED BY <1>3, <2>1
<1>5. n - 1 \in Nat /\ n - 1 \notin Bad
  BY <1>2, <1>3, <1>4
<1>6. PICK f : Ends(f, steps, start, n - 1)
  BY <1>5
<1> QED BY <1>3, <1>4, <1>6, EndsExtends

\* The equation has one solution.
LEMMA EndsUnique ==
    ASSUME NEW steps, NEW other, NEW start, NEW len \in Nat, NEW f, NEW g,
           Ends(f, steps, start, len), Ends(g, other, start, len),
           \A k \in 1..len : steps[k] = other[k]
    PROVE  f = g
<1> DEFINE Bad == {n \in 0..len : f[n] # g[n]}
<1>1. ASSUME Bad # {} PROVE FALSE
  <2>1. PICK n \in Bad : \A m \in Bad : n <= m
    <3>1. Bad \subseteq Nat
      OBVIOUS
    <3> HIDE DEF Bad
    <3> QED BY <1>1, <3>1, LeastNumber
  <2>2. n \in 0..len /\ f[n] # g[n]
    BY <2>1
  <2>3. n # 0
    BY <2>2 DEF Ends
  <2>4. n - 1 \in 0..len /\ n \in 1..len
    BY <2>2, <2>3
  <2>5. f[n - 1] = g[n - 1]
    BY <2>1, <2>4
  <2>6. f[n] = UNION {steps[n][p] : p \in f[n - 1]} /\ g[n] = UNION {other[n][p] : p \in g[n - 1]}
    BY <2>2, <2>3 DEF Ends
  <2>7. steps[n] = other[n]
    BY <2>4
  <2> QED BY <2>2, <2>5, <2>6, <2>7
<1>2. \A n \in 0..len : f[n] = g[n]
  BY <1>1
<1>3. f = [n \in 0..len |-> f[n]] /\ g = [n \in 0..len |-> g[n]]
  BY DEF Ends
<1> QED BY <1>2, <1>3, Zenon

LEMMA ReachUnfolds ==
    ASSUME NEW steps, NEW start, Len(steps) \in Nat
    PROVE  \E f : Ends(f, steps, start, Len(steps)) /\ Reach(steps, start) = f[Len(steps)]
<1> DEFINE f == CHOOSE f : Ends(f, steps, start, Len(steps))
<1>1. Ends(f, steps, start, Len(steps))
  BY EndsExists
<1>2. Reach(steps, start) = f[Len(steps)]
  BY DEF Reach, Ends
<1> QED BY <1>1, <1>2

LEMMA ReachNone ==
    ASSUME NEW steps, Len(steps) = 0, NEW start
    PROVE  Reach(steps, start) = {start}
<1>1. PICK f : Ends(f, steps, start, Len(steps)) /\ Reach(steps, start) = f[Len(steps)]
  BY ReachUnfolds
<1>2. f[0] = {start}
  BY <1>1 DEF Ends
<1> QED BY <1>1, <1>2

\* One step more.
LEMMA ReachMore ==
    ASSUME NEW steps, NEW more, NEW start, Len(steps) \in Nat, Len(more) = Len(steps) + 1,
           \A k \in 1..Len(steps) : more[k] = steps[k]
    PROVE  \A q : q \in Reach(more, start) <=> \E p \in Reach(steps, start) : q \in more[Len(more)][p]
<1>1. PICK f : Ends(f, steps, start, Len(steps)) /\ Reach(steps, start) = f[Len(steps)]
  BY ReachUnfolds
<1>2. PICK g : Ends(g, more, start, Len(more)) /\ Reach(more, start) = g[Len(more)]
  BY ReachUnfolds
<1> DEFINE n == Len(steps)
           h == [k \in 0..n |-> g[k]]
<1>3. \A k \in 0..(n + 1) : g[k] = IF k = 0 THEN {start} ELSE UNION {more[k][p] : p \in g[k - 1]}
  BY <1>2 DEF Ends
<1>4. Ends(h, more, start, n)
  <2>1. ASSUME NEW k \in 0..n
        PROVE  h[k] = IF k = 0 THEN {start} ELSE UNION {more[k][p] : p \in h[k - 1]}
    <3>1. h[k] = g[k] /\ k \in 0..(n + 1) /\ (k # 0 => h[k - 1] = g[k - 1])
      OBVIOUS
    <3> HIDE DEF h
    <3> QED BY <1>3, <3>1
  <2>2. h = [k \in 0..n |-> h[k]]
    OBVIOUS
  <2> HIDE DEF h
  <2> QED BY <2>1, <2>2 DEF Ends
<1>5. f = h
  <2> HIDE DEF h
  <2> QED BY <1>1, <1>4, EndsUnique
<1>6. f[n] = g[n]
  BY <1>5
<1>7. g[n + 1] = UNION {more[n + 1][p] : p \in g[n]}
  <2>1. n + 1 \in 0..(n + 1) /\ n + 1 # 0 /\ (n + 1) - 1 = n
    OBVIOUS
  <2>2. g[n + 1] = UNION {more[n + 1][p] : p \in g[(n + 1) - 1]}
    BY <1>3, <2>1, Zenon
  <2> QED BY <2>1, <2>2, Zenon
<1> QED BY <1>1, <1>2, <1>6, <1>7

\* Steps among some positions do not lead out of them.
LEMMA ReachStays ==
    ASSUME NEW steps, NEW start, NEW P, Len(steps) \in Nat, start \in P,
           \A k \in 1..Len(steps) : \A p \in P : steps[k][p] \subseteq P
    PROVE  Reach(steps, start) \subseteq P
<1>1. PICK f : Ends(f, steps, start, Len(steps)) /\ Reach(steps, start) = f[Len(steps)]
  BY ReachUnfolds
<1> DEFINE Bad == {n \in 0..Len(steps) : ~(f[n] \subseteq P)}
<1>2. ASSUME Bad # {} PROVE FALSE
  <2>1. PICK n \in Bad : \A m \in Bad : n <= m
    <3>1. Bad \subseteq Nat
      OBVIOUS
    <3> HIDE DEF Bad
    <3> QED BY <1>2, <3>1, LeastNumber
  <2>2. n \in 0..Len(steps) /\ ~(f[n] \subseteq P)
    BY <2>1
  <2>3. n # 0
    BY <1>1, <2>2 DEF Ends
  <2>4. n - 1 \in 0..Len(steps) /\ n \in 1..Len(steps)
    BY <2>2, <2>3
  <2>5. f[n - 1] \subseteq P
    BY <2>1, <2>4
  <2>6. f[n] = UNION {steps[n][p] : p \in f[n - 1]}
    BY <1>1, <2>2, <2>3 DEF Ends
  <2> QED BY <2>2, <2>4, <2>5, <2>6
<1>3. Len(steps) \in 0..Len(steps)
  OBVIOUS
<1> QED BY <1>1, <1>2, <1>3

-----------------------------------------------------------------------------
(* Chunks and globs. *)

LEMMA StepsStay ==
    ASSUME NEW c, NEW p \in Positions, Len(value) \in Nat
    PROVE  GlobStep(c, p) \subseteq Positions
  BY DEF GlobStep, Positions

LEMMA ChunkStays ==
    ASSUME NEW c \in ChunkType, NEW p \in Positions, Len(value) \in Nat
    PROVE  ChunkEnds(c, p) \subseteq Positions
<1>1. c.least \in Nat
  BY DEF ChunkType
<1> QED BY <1>1 DEF ChunkEnds, Positions

LEMMA GlobMore ==
    ASSUME WordType, NEW n \in 0..(Len(pattern) - 1), NEW p \in Positions
    PROVE  Reach(GlobSteps(n + 1), p) = UNION {GlobStep(pattern[n + 1], q) : q \in Reach(GlobSteps(n), p)}
<1> DEFINE s == GlobSteps(n)
           t == GlobSteps(n + 1)
<1>1. Len(pattern) \in Nat /\ Len(value) \in Nat /\ n \in Nat
  BY DEF WordType
<1>2. Len(s) = n /\ Len(t) = n + 1
  BY <1>1 DEF GlobSteps
<1>3. \A k \in 1..n : s[k] = t[k] /\ \A q \in Positions : s[k][q] = GlobStep(pattern[k], q)
  BY <1>1 DEF GlobSteps
<1>4. \A q \in Positions : t[n + 1][q] = GlobStep(pattern[n + 1], q)
  BY <1>1 DEF GlobSteps
<1> HIDE DEF s, t
<1>5. Reach(t, p) = UNION {t[n + 1][q] : q \in Reach(s, p)}
  <2>1. Len(s) \in Nat /\ Len(t) = Len(s) + 1 /\ \A k \in 1..Len(s) : t[k] = s[k]
    BY <1>1, <1>2, <1>3
  <2>2. \A q : q \in Reach(t, p) <=> \E r \in Reach(s, p) : q \in t[Len(t)][r]
    BY <2>1, ReachMore
  <2> QED BY <1>2, <2>2
<1>6. Reach(s, p) \subseteq Positions
  BY <1>1, <1>2, <1>3, ReachStays, StepsStay
<1>7. Reach(t, p) = UNION {GlobStep(pattern[n + 1], q) : q \in Reach(s, p)}
  BY <1>4, <1>5, <1>6
<1> QED BY <1>7 DEF s, t

LEMMA GlobStays ==
    ASSUME WordType, NEW n \in 0..Len(pattern), NEW p \in Positions
    PROVE  Reach(GlobSteps(n), p) \subseteq Positions
<1> DEFINE s == GlobSteps(n)
<1>1. Len(pattern) \in Nat /\ Len(value) \in Nat /\ n \in Nat
  BY DEF WordType
<1>2. Len(s) = n
  BY <1>1 DEF GlobSteps
<1>3. \A k \in 1..n : \A q \in Positions : s[k][q] = GlobStep(pattern[k], q)
  BY <1>1 DEF GlobSteps
<1> HIDE DEF s
<1>6. Reach(s, p) \subseteq Positions
  BY <1>1, <1>2, <1>3, ReachStays, StepsStay
<1> QED BY <1>6 DEF s

LEMMA ChunkMore ==
    ASSUME WordType, NEW list \in Seq(ChunkType), NEW c \in ChunkType, NEW p \in Positions
    PROVE  /\ Reach(ChunkSteps(list), p) \subseteq Positions
           /\ Reach(ChunkSteps(Append(list, c)), p) = UNION {ChunkEnds(c, q) : q \in Reach(ChunkSteps(list), p)}
<1> DEFINE s == ChunkSteps(list)
           t == ChunkSteps(Append(list, c))
           n == Len(list)
<1>1. n \in Nat /\ Len(value) \in Nat /\ DOMAIN list = 1..n
  BY DEF WordType
<1>2. DOMAIN Append(list, c) = 1..(n + 1) /\ Append(list, c)[n + 1] = c /\ \A k \in 1..n : Append(list, c)[k] = list[k]
  BY <1>1
<1>3. Len(s) = n /\ Len(t) = n + 1
  BY <1>1, <1>2 DEF ChunkSteps
<1>4. \A k \in 1..n : s[k] = t[k] /\ \A q \in Positions : s[k][q] = ChunkEnds(list[k], q)
  BY <1>1, <1>2 DEF ChunkSteps
<1>5. \A q \in Positions : t[n + 1][q] = ChunkEnds(c, q)
  BY <1>1, <1>2 DEF ChunkSteps
<1>6. \A k \in 1..n : list[k] \in ChunkType
  BY <1>1
<1> HIDE DEF s, t, n
<1>7. Reach(t, p) = UNION {t[n + 1][q] : q \in Reach(s, p)}
  <2>1. Len(s) \in Nat /\ Len(t) = Len(s) + 1 /\ \A k \in 1..Len(s) : t[k] = s[k]
    BY <1>1, <1>3, <1>4
  <2>2. \A q : q \in Reach(t, p) <=> \E r \in Reach(s, p) : q \in t[Len(t)][r]
    BY <2>1, ReachMore
  <2> QED BY <1>3, <2>2
<1>8. Reach(s, p) \subseteq Positions
  BY <1>1, <1>3, <1>4, <1>6, ReachStays, ChunkStays
<1>9. Reach(t, p) = UNION {ChunkEnds(c, q) : q \in Reach(s, p)}
  BY <1>5, <1>7, <1>8
<1> QED BY <1>8, <1>9 DEF s, t

\* A chunk of one wildcard matches as the wildcard does.
LEMMA WildChunk ==
    ASSUME WordType, NEW c, is_wildcard(c), NEW p \in Positions
    PROVE  /\ wildcards_to_regex(<<c>>) \in ChunkType
           /\ ChunkEnds(wildcards_to_regex(<<c>>), p) = GlobStep(c, p)
<1> DEFINE marks == Cardinality({k \in DOMAIN <<c>> : <<c>>[k] = "?"})
           star == \E k \in DOMAIN <<c>> : <<c>>[k] = "*"
           w == [text |-> <<>>, least |-> marks, more |-> star]
<1>1. wildcards_to_regex(<<c>>) = w
  BY DEF wildcards_to_regex
<1>2. marks = (IF c = "?" THEN 1 ELSE 0)
  <2>1. {k \in DOMAIN <<c>> : <<c>>[k] = "?"} = IF c = "?" THEN {1} ELSE {}
    OBVIOUS
  <2>2. Cardinality({1}) = 1 /\ Cardinality({}) = 0
    BY FS_Singleton, FS_EmptySet
  <2> QED BY <2>1, <2>2
<1>3. star \in BOOLEAN /\ (star <=> c = "*")
  OBVIOUS
<1> HIDE DEF marks, star
<1>4. w \in ChunkType
  <2>1. <<>> \in Seq(Chars) /\ marks \in Nat
    BY <1>2
  <2> QED BY <1>3, <2>1 DEF ChunkType
<1>5. w.text = <<>> /\ w.least = marks /\ w.more = star
  BY Zenon
<1>6. w.more <=> c = "*"
  BY <1>3, <1>5, Zenon
<1> HIDE DEF w
<1>7. Len(value) \in Nat /\ p \in Nat
  BY DEF WordType, Positions
<1>8. CASE c = "?"
  <2>1. ~w.more /\ w.least = 1
    BY <1>2, <1>5, <1>6, <1>8
  <2>2. ChunkEnds(w, p) = {q \in (p + 1)..(Len(value) + 1) : q = p + 1 /\ \A k \in p..(q - 1) : value[k] # Newline}
    BY <1>5, <2>1, Zenon DEF ChunkEnds
  <2> QED BY <1>1, <1>4, <1>7, <1>8, <2>2 DEF GlobStep
<1>9. CASE c = "*"
  <2>1. w.more /\ w.least = 0
    BY <1>2, <1>5, <1>6, <1>9
  <2>2. ChunkEnds(w, p) = {q \in (p + 0)..(Len(value) + 1) : \A k \in p..(q - 1) : value[k] # Newline}
    BY <1>5, <2>1, Zenon DEF ChunkEnds
  <2> QED BY <1>1, <1>4, <1>7, <1>9, <2>2 DEF GlobStep
<1> QED BY <1>8, <1>9 DEF is_wildcard

LEMMA LiteralType ==
    ASSUME NEW text \in Seq(Chars)
    PROVE  Literal(text) \in ChunkType
  BY DEF Literal, ChunkType

\* Where literal text ends.
LEMMA LiteralEnds ==
    ASSUME WordType, NEW text \in Seq(Chars), NEW p \in Positions
    PROVE  ChunkEnds(Literal(text), p) =
               {q \in Positions : q = p + Len(text) /\ \A k \in 1..Len(text) : value[p + k - 1] = text[k]}
<1>1. Len(value) \in Nat /\ p \in Nat /\ Len(text) \in Nat /\ value \in Seq(Chars) /\ p >= 1
  BY DEF WordType, Positions
<1>2. CASE text = <<>>
  BY <1>1, <1>2 DEF ChunkEnds, Literal, Positions
<1>3. CASE text # <<>>
  <2>1. ASSUME NEW q, q = p + Len(text), q \in Positions
        PROVE  SubSeq(value, p, q - 1) = text <=> \A k \in 1..Len(text) : value[p + k - 1] = text[k]
    <3>1. q \in Nat /\ q - 1 <= Len(value)
      BY <1>1, <2>1 DEF Positions
    <3>2. Len(SubSeq(value, p, q - 1)) = Len(text) /\ SubSeq(value, p, q - 1) \in Seq(Chars)
      BY <1>1, <2>1, <3>1, SubSeqProperties
    <3>3. \A k \in 1..Len(text) : SubSeq(value, p, q - 1)[k] = value[p + k - 1]
      BY <1>1, <2>1, <3>1, <3>2, SubSeqProperties
    <3> QED BY <1>1, <3>2, <3>3, SeqEqual
  <2>2. Literal(text).text = text
    BY DEF Literal
  <2> QED BY <1>1, <1>3, <2>1, <2>2 DEF ChunkEnds, Positions
<1> QED BY <1>2, <1>3

\* Literal text that grows by a character.
LEMMA LiteralGrows ==
    ASSUME WordType, NEW text \in Seq(Chars), NEW c \in Chars, ~is_wildcard(c), NEW p \in Positions
    PROVE  ChunkEnds(Literal(Append(text, c)), p) = UNION {GlobStep(c, q) : q \in ChunkEnds(Literal(text), p)}
<1> DEFINE n == Len(text)
           more == Append(text, c)
<1>1. Len(value) \in Nat /\ p \in Nat /\ n \in Nat /\ value \in Seq(Chars) /\ p >= 1
  BY DEF WordType, Positions
<1>2. more \in Seq(Chars) /\ Len(more) = n + 1 /\ more[n + 1] = c /\ \A k \in 1..n : more[k] = text[k]
  BY <1>1
<1> HIDE DEF n, more
<1>3. \A q \in Positions : GlobStep(c, q) = {r \in Positions : r = q + 1 /\ value[q] = c}
  BY <1>1 DEF GlobStep, is_wildcard, Positions
<1>4. /\ ChunkEnds(Literal(text), p) = {q \in Positions : q = p + n /\ \A k \in 1..n : value[p + k - 1] = text[k]}
      /\ ChunkEnds(Literal(more), p) =
            {q \in Positions : q = p + (n + 1) /\ \A k \in 1..(n + 1) : value[p + k - 1] = more[k]}
  BY <1>2, LiteralEnds DEF n
<1>5. (\A k \in 1..(n + 1) : value[p + k - 1] = more[k])
      <=> /\ \A k \in 1..n : value[p + k - 1] = text[k]
          /\ value[p + n] = c
  <2>1. \A k \in 1..(n + 1) : k \in 1..n \/ k = n + 1
    BY <1>1
  <2>2. n + 1 \in 1..(n + 1) /\ p + (n + 1) - 1 = p + n /\ \A k \in 1..n : k \in 1..(n + 1)
    BY <1>1
  <2> QED BY <1>2, <2>1, <2>2
<1>6. p + (n + 1) \in Positions => p + n \in Positions
  BY <1>1 DEF Positions
<1>7. p + (n + 1) = (p + n) + 1
  BY <1>1
<1>8. ChunkEnds(Literal(more), p) = UNION {GlobStep(c, q) : q \in ChunkEnds(Literal(text), p)}
  <2> DEFINE T == \A k \in 1..n : value[p + k - 1] = text[k]
  <2>1. ChunkEnds(Literal(more), p) = {q \in Positions : q = (p + n) + 1 /\ T /\ value[p + n] = c}
    BY <1>4, <1>5, <1>7
  <2>2. ChunkEnds(Literal(text), p) = {q \in Positions : q = p + n /\ T}
    BY <1>4
  <2> HIDE DEF T
  <2> QED BY <1>3, <1>6, <1>7, <2>1, <2>2
<1> QED BY <1>8 DEF more

\* The positions literal text at the start of the pattern is found at.
LEMMA GlobOfLiteral ==
    ASSUME WordType, ~has_wildcards, NEW p \in Positions
    PROVE  GlobEnds(p) = ChunkEnds(Literal(pattern), p)
<1> DEFINE Good(n) == Reach(GlobSteps(n), p) = ChunkEnds(Literal(SubSeq(pattern, 1, n)), p)
           Bad == {n \in 0..Len(pattern) : ~Good(n)}
<1>1. pattern \in Seq(Chars) /\ Len(pattern) \in Nat
  BY DEF WordType
<1>2. SubSeq(pattern, 1, Len(pattern)) = pattern
  BY <1>1
<1>3. SUFFICES ASSUME Bad # {} PROVE FALSE
  <2>1. Len(pattern) \in 0..Len(pattern)
    BY <1>1
  <2>2. Bad = {} => Good(Len(pattern))
    BY <2>1
  <2> QED BY <1>2, <2>2 DEF GlobEnds
<1>4. PICK n \in Bad : \A m \in Bad : n <= m
  <2>1. Bad \subseteq Nat
    BY <1>1
  <2> HIDE DEF Bad
  <2> QED BY <1>3, <2>1, LeastNumber
<1>5. n \in 0..Len(pattern) /\ ~Good(n)
  BY <1>4
<1>6. n # 0
  <2>1. SubSeq(pattern, 1, 0) = <<>>
    BY <1>1
  <2>2. Len(value) \in Nat
    BY DEF WordType
  <2>4. ChunkEnds(Literal(<<>>), p) = {p}
    BY <2>2 DEF ChunkEnds, Literal, Positions
  <2>5. Len(GlobSteps(0)) = 0
    BY DEF GlobSteps
  <2>6. Reach(GlobSteps(0), p) = {p}
    BY <2>5, ReachNone
  <2> QED BY <1>5, <2>1, <2>4, <2>6
<1>7. n - 1 \in 0..(Len(pattern) - 1) /\ (n - 1) + 1 = n /\ n \in 1..Len(pattern) /\ Good(n - 1)
  <2>1. n - 1 \in 0..(Len(pattern) - 1) /\ (n - 1) + 1 = n /\ n \in 1..Len(pattern) /\ n - 1 \in 0..Len(pattern)
    BY <1>1, <1>5, <1>6
  <2>2. n - 1 \notin Bad
    <3> HIDE DEF Bad
    <3> QED BY <1>4, <2>1
  <2> QED BY <2>1, <2>2
<1> DEFINE text == SubSeq(pattern, 1, n - 1)
<1>8. text \in Seq(Chars) /\ SubSeq(pattern, 1, n) = Append(text, pattern[n]) /\ pattern[n] \in Chars
  BY <1>1, <1>7
<1>9. ~is_wildcard(pattern[n])
  BY <1>1, <1>7 DEF has_wildcards
<1>10. Reach(GlobSteps((n - 1) + 1), p) = UNION {GlobStep(pattern[(n - 1) + 1], q) : q \in Reach(GlobSteps(n - 1), p)}
  BY <1>7, GlobMore
<1>11. Reach(GlobSteps(n), p) = UNION {GlobStep(pattern[n], q) : q \in ChunkEnds(Literal(text), p)}
  BY <1>7, <1>10, Zenon
<1> HIDE DEF text
<1>12. ChunkEnds(Literal(Append(text, pattern[n])), p) = UNION {GlobStep(pattern[n], q) : q \in ChunkEnds(Literal(text), p)}
  BY <1>8, <1>9, LiteralGrows
<1> QED BY <1>5, <1>8, <1>11, <1>12

-----------------------------------------------------------------------------
(* The search for literal text. *)

LEMMA FirstIs ==
    ASSUME NEW S, S \subseteq Nat
    PROVE  /\ S # {} => First(S) # {}
           /\ \A p \in First(S) : p \in S /\ \A q \in S : p <= q
<1>1. ASSUME S # {} PROVE First(S) # {}
  BY <1>1, LeastNumber DEF First
<1> QED BY <1>1 DEF First

LEMMA WordAt ==
    ASSUME WordType, NEW p \in Int
    PROVE  /\ IsWordAt(p) <=> p >= from /\ In(p)
           /\ In(p) => p \in 1..Len(value)
  BY DEF WordType, Positions, IsWordAt, is_word_char, In

LEMMA OccursIs ==
    ASSUME WordType, NEW p \in Nat, p >= 1, p <= Len(value) - Len(pattern) + 1
    PROVE  SubSeq(value, p, p + Len(pattern) - 1) = pattern <=> Occurs(p)
<1> DEFINE q == p + Len(pattern) - 1
<1>1. Len(value) \in Nat /\ Len(pattern) \in Nat /\ value \in Seq(Chars) /\ pattern \in Seq(Chars)
  BY DEF WordType
<1>2. p \in 1..(Len(value) - Len(pattern) + 1) /\ q \in Int /\ q <= Len(value) /\ q - p + 1 = Len(pattern)
  BY <1>1
<1>3. \A k \in p..q : value[k] \in Chars
  BY <1>1, <1>2
<1> HIDE DEF q
<1>4. Len(SubSeq(value, p, q)) = Len(pattern) /\ SubSeq(value, p, q) \in Seq(Chars)
  BY <1>1, <1>2, <1>3, SubSeqProperties
<1>5. \A k \in 1..Len(pattern) : SubSeq(value, p, q)[k] = value[p + k - 1]
  BY <1>1, <1>2, <1>3, SubSeqProperties
<1>6. SubSeq(value, p, q) = pattern <=> \A k \in 1..Len(pattern) : value[p + k - 1] = pattern[k]
  BY <1>1, <1>4, <1>5, SeqEqual
<1> QED BY <1>2, <1>6 DEF Occurs, q

LEMMA FindIs ==
    ASSUME WordType
    PROVE  /\ find = {} => \A p : Occurs(p) => p < from
           /\ \A start \in find : /\ Occurs(start) /\ start >= from
                                  /\ \A p : Occurs(p) => p < from \/ start <= p
<1> DEFINE S == {p \in from..(Len(value) - Len(pattern) + 1) : SubSeq(value, p, p + Len(pattern) - 1) = pattern}
<1>1. Len(value) \in Nat /\ Len(pattern) \in Nat /\ from \in Nat /\ from >= 1
  BY DEF WordType, Positions
<1>2. \A p : p \in S <=> Occurs(p) /\ p >= from
  <2>1. \A p : Occurs(p) => p \in Nat /\ p >= 1 /\ p <= Len(value) - Len(pattern) + 1
    BY <1>1 DEF Occurs
  <2>2. ASSUME NEW p, p \in S PROVE Occurs(p) /\ p >= from
    <3>1. p \in Nat /\ p >= 1 /\ p <= Len(value) - Len(pattern) + 1 /\ p >= from
      BY <1>1, <2>2
    <3>2. SubSeq(value, p, p + Len(pattern) - 1) = pattern
      BY <2>2
    <3> QED BY <3>1, <3>2, OccursIs
  <2>3. ASSUME NEW p, Occurs(p), p >= from PROVE p \in S
    <3>1. p \in Nat /\ p >= 1 /\ p <= Len(value) - Len(pattern) + 1
      BY <2>1, <2>3
    <3>2. p \in from..(Len(value) - Len(pattern) + 1)
      BY <1>1, <2>3, <3>1
    <3>3. SubSeq(value, p, p + Len(pattern) - 1) = pattern
      BY <2>3, <3>1, OccursIs
    <3> QED BY <3>2, <3>3
  <2> QED BY <2>2, <2>3
<1>3. find = First(S)
  BY DEF find
<1>4. S \subseteq Nat
  BY <1>1
<1> HIDE DEF S
<1>5. \A p : Occurs(p) => p \in Nat
  BY <1>1 DEF Occurs
<1>6. /\ S # {} => First(S) # {}
      /\ \A p \in First(S) : p \in S /\ \A q \in S : p <= q
  BY <1>4, FirstIs
<1> QED BY <1>1, <1>2, <1>3, <1>5, <1>6

\* The boundaries the code looks at are those of the words.
LEMMA Boundaries ==
    ASSUME WordType, CallInv, pattern # <<>>, NEW start, Occurs(start), start >= from
    PROVE  word_boundaries(start) <=> Separate(start, start + Len(pattern))
<1> DEFINE end == start + Len(pattern)
<1>1. /\ Len(value) \in Nat /\ Len(pattern) \in Nat /\ Len(pattern) > 0 /\ from \in Nat /\ from >= 1
      /\ start \in Nat /\ end \in Nat /\ end <= Len(value) + 1 /\ end - 1 >= start
  <2>1. Len(pattern) # 0
    BY DEF WordType
  <2> QED BY <2>1 DEF WordType, Positions, Occurs
<1>2. IsWordAt(start) <=> In(start)
  BY <1>1, WordAt
<1>3. IsWordAt(end - 1) <=> In(end - 1)
  BY <1>1, WordAt
<1>4. IsWordAt(end) <=> In(end)
  BY <1>1, WordAt
<1>5. end = Len(value) + 1 => ~In(end)
  BY <1>1, WordAt
<1>6. IsWordAt(start - 1) <=> In(start - 1)
  <2>1. CASE start > from
    BY <1>1, <2>1, WordAt
  <2>2. CASE start = from
    <3>1. ~In(start - 1)
      <4>1. CASE from = 1
        BY <1>1, <2>2, <4>1, WordAt
      <4>2. CASE from > 1
        BY <2>2, <4>2 DEF CallInv
      <4> QED BY <1>1, <4>1, <4>2
    <3> QED BY <1>1, <3>1, WordAt
  <2> QED BY <1>1, <2>1, <2>2
<1>7. Separate(start, end) <=> ~(In(start - 1) /\ In(start)) /\ ~(In(end - 1) /\ In(end))
  BY DEF Separate, In
<1>8. word_boundaries(start) <=> /\ ~IsWordAt(start) \/ ~IsWordAt(start - 1)
                                 /\ end = Len(value) + 1 \/ ~IsWordAt(end - 1) \/ ~IsWordAt(end)
  BY DEF word_boundaries
<1> HIDE DEF end
<1> QED BY <1>2, <1>3, <1>4, <1>5, <1>6, <1>7, <1>8 DEF end

\* No occurrence is separate that begins after the one that is not, and before the next word.
LEMMA SkipsNone ==
    ASSUME WordType, CallInv, pattern # <<>>, NEW start, Occurs(start), start >= from, ~word_boundaries(start),
           NEW stop \in Nat, stop <= Len(value) => In(stop),
           NEW non_word \in Nat, start <= non_word, non_word <= stop,
           \A p \in start..(non_word - 1) : In(p),
           \A p \in non_word..(stop - 1) : ~In(p),
           NEW q \in Nat, start < q, q < stop, Occurs(q)
    PROVE  ~Separate(q, q + Len(pattern))
<1> DEFINE m == Len(pattern)
           end == start + m
<1>1. /\ Len(value) \in Nat /\ m \in Nat /\ m > 0 /\ from \in Nat /\ from >= 1
      /\ start \in Nat /\ start >= 1 /\ end <= Len(value) + 1 /\ q + m <= Len(value) + 1
  <2>1. Len(pattern) # 0
    BY DEF WordType
  <2> QED BY <2>1 DEF WordType, Positions, Occurs
<1>2. /\ \A k \in 1..m : value[start + k - 1] = pattern[k]
      /\ \A k \in 1..m : value[q + k - 1] = pattern[k]
  BY DEF Occurs
<1>3. Separate(q, q + m) => ~(In(q - 1) /\ In(q))
  BY DEF Separate, In
<1> HIDE DEF m
<1>4. CASE q < non_word
  <2>1. In(q - 1) /\ In(q)
    BY <1>1, <1>4
  <2> QED BY <1>3, <2>1 DEF m
<1>5. CASE q >= non_word
  <2>1. ~In(q) /\ value[q] = pattern[1] /\ value[start] = pattern[1]
    <3>1. 1 \in 1..m /\ q + 1 - 1 = q /\ start + 1 - 1 = start
      BY <1>1
    <3> QED BY <1>1, <1>2, <1>5, <3>1
  <2>2. \A p \in 1..Len(value) : In(p) <=> value[p] \in WordChars
    BY <1>1 DEF In, WordType
  <2>3. ~In(start)
    BY <1>1, <2>1, <2>2
  <2>4. non_word = start
    BY <1>1, <2>3
  <2>5. In(end - 1) /\ In(end)
    <3>1. ~Separate(start, end)
      BY Boundaries DEF m
    <3> QED BY <2>3, <3>1 DEF Separate, In
  <2>6. end - 1 >= stop
    BY <1>1, <2>4, <2>5
  <2>7. In(stop) /\ stop \in 1..Len(value)
    BY <1>1, <2>6
  <2> DEFINE k == stop - q + 1
  <2>8. k \in 1..m /\ q + k - 1 = stop /\ start + k - 1 \in non_word..(stop - 1) /\ start + k - 1 \in 1..Len(value)
    BY <1>1, <2>4, <2>6, <2>7
  <2>9. value[stop] = pattern[k] /\ value[start + k - 1] = pattern[k]
    BY <1>2, <2>8
  <2> HIDE DEF k
  <2>10. FALSE
    BY <2>2, <2>7, <2>8, <2>9
  <2> QED BY <2>10
<1> QED BY <1>1, <1>4, <1>5

\* The search may go on from the next word, and end if there is none.
LEMMA Skips ==
    ASSUME WordType, CallInv, pattern # <<>>, NEW start \in find, ~word_boundaries(start)
    PROVE  /\ next_word(start) = {} => NoneBefore(Len(value) + 2)
           /\ \A stop \in next_word(start) : /\ stop \in from..Len(value) /\ stop > 1
                                             /\ ~In(stop - 1) /\ NoneBefore(stop)
<1>1. Occurs(start) /\ start >= from /\ \A p : Occurs(p) => p < from \/ start <= p
  BY FindIs
<1>2. /\ Len(value) \in Nat /\ Len(pattern) \in Nat /\ from \in Nat /\ from >= 1
      /\ start \in Nat /\ start <= Len(value) + 1 /\ start >= 1
  BY <1>1 DEF WordType, Positions, Occurs
<1>3. ASSUME NEW stop \in Nat, stop <= Len(value) => In(stop), NEW non_word \in Nat, start <= non_word,
             non_word <= stop, \A p \in start..(non_word - 1) : In(p), \A p \in non_word..(stop - 1) : ~In(p)
      PROVE  NoneBefore(stop)
  <2> SUFFICES ASSUME NEW q \in 1..(stop - 1), Occurs(q) PROVE ~Separate(q, q + Len(pattern))
    BY DEF NoneBefore
  <2>1. q \in Nat /\ q < stop
    BY <1>3
  <2>2. CASE q < from
    BY <1>2, <2>1, <2>2 DEF CallInv, NoneBefore
  <2>3. CASE q = start
    BY <1>1, <2>3, Boundaries
  <2>4. CASE start < q
    BY <1>1, <1>3, <2>1, <2>4, SkipsNone
  <2> QED BY <1>1, <1>2, <2>1, <2>2, <2>3, <2>4
<1> DEFINE N == {p \in start..Len(value) : ~IsWordAt(p)}
           W(n) == {p \in n..Len(value) : IsWordAt(p)}
<1>4. next_word(start) = UNION {First(W(n)) : n \in First(N)}
  BY DEF next_word
<1>5. \A p \in start..Len(value) : IsWordAt(p) <=> In(p)
  <2>1. \A p \in start..Len(value) : p \in Int /\ p >= from
    BY <1>1, <1>2
  <2> QED BY <2>1, WordAt
<1>6. CASE N = {}
  <2>1. \A p \in start..Len(value) : In(p)
    BY <1>5, <1>6
  <2>2. First(N) = {}
    BY <1>6 DEF First
  <2>3. NoneBefore(Len(value) + 2)
    <3>1. ~In(Len(value) + 1)
      BY <1>2, WordAt
    <3>2. \A p \in (Len(value) + 1)..((Len(value) + 2) - 1) : ~In(p)
      <4>1. \A p \in (Len(value) + 1)..((Len(value) + 2) - 1) : p = Len(value) + 1
        BY <1>2
      <4> QED BY <3>1, <4>1
    <3>3. /\ Len(value) + 2 \in Nat /\ Len(value) + 1 \in Nat /\ ~(Len(value) + 2 <= Len(value))
          /\ (Len(value) + 1) - 1 = Len(value) /\ start <= Len(value) + 1 /\ Len(value) + 1 <= Len(value) + 2
      BY <1>2
    <3>4. \A p \in start..((Len(value) + 1) - 1) : In(p)
      BY <2>1, <3>3
    <3> QED BY <1>2, <1>3, <3>1, <3>2, <3>3, <3>4
  <2> QED BY <1>4, <2>2, <2>3
<1>7. CASE N # {}
  <2>1. N \subseteq Nat
    BY <1>2
  <2>2. First(N) # {} /\ \A n \in First(N) : n \in N /\ \A p \in N : n <= p
    <3> HIDE DEF N
    <3> QED BY <1>7, <2>1, FirstIs
  <2>3. PICK n \in First(N) : TRUE
    BY <2>2
  <2>4. n \in start..Len(value) /\ ~In(n) /\ \A p \in start..(n - 1) : In(p)
    <3>1. n \in start..Len(value) /\ ~In(n)
      BY <1>5, <2>2, <2>3
    <3>2. ASSUME NEW p \in start..(n - 1) PROVE In(p)
      <4>1. p \in start..Len(value) /\ p < n
        BY <1>2, <3>1
      <4>2. p \notin N
        <5> HIDE DEF N
        <5> QED BY <1>2, <2>2, <2>3, <3>1, <4>1
      <4> QED BY <1>5, <4>1, <4>2
    <3> QED BY <3>1, <3>2
  <2>5. First(N) = {n}
    <3> HIDE DEF N
    <3>1. ASSUME NEW k \in First(N) PROVE k = n
      <4>1. k \in N /\ n \in N /\ n <= k /\ k <= n
        BY <2>2, <2>3
      <4> QED BY <2>1, <4>1
    <3> QED BY <2>3, <3>1
  <2>6. next_word(start) = First(W(n))
    <3> HIDE DEF N, W
    <3> QED BY <1>4, <2>5
  <2>7. W(n) \subseteq Nat /\ \A p : p \in W(n) <=> p \in n..Len(value) /\ In(p)
    BY <1>2, <1>5, <2>4
  <2>8. ASSUME next_word(start) = {} PROVE NoneBefore(Len(value) + 2)
    <3>1. W(n) = {}
      <4> HIDE DEF W
      <4> QED BY <2>6, <2>7, <2>8, FirstIs
    <3>2. ASSUME NEW p \in n..((Len(value) + 2) - 1) PROVE ~In(p)
      <4>1. CASE p = Len(value) + 1
        BY <1>2, <4>1, WordAt
      <4>2. CASE p \in n..Len(value)
        BY <2>7, <3>1, <4>2
      <4> QED BY <1>2, <2>4, <4>1, <4>2
    <3>3. Len(value) + 2 \in Nat /\ ~(Len(value) + 2 <= Len(value)) /\ n \in Nat /\ start <= n /\ n <= Len(value) + 2
      BY <1>2, <2>4
    <3> QED BY <1>3, <2>4, <3>2, <3>3
  <2>9. ASSUME NEW stop \in next_word(start)
        PROVE  stop \in from..Len(value) /\ stop > 1 /\ ~In(stop - 1) /\ NoneBefore(stop)
    <3>1. stop \in W(n) /\ \A p \in W(n) : stop <= p
      <4> HIDE DEF W
      <4> QED BY <2>6, <2>7, <2>9, FirstIs
    <3>2. stop \in n..Len(value) /\ In(stop) /\ stop # n
      BY <2>4, <2>7, <3>1
    <3>3. stop \in Nat /\ n \in Nat /\ start <= n /\ n <= stop /\ n <= stop - 1 /\ stop > 1 /\ stop \in from..Len(value)
      BY <1>1, <1>2, <2>4, <3>2
    <3>4. ASSUME NEW p \in n..(stop - 1) PROVE ~In(p)
      <4>1. p \in n..Len(value) /\ ~(stop <= p)
        BY <1>2, <2>4, <3>2
      <4> QED BY <2>7, <3>1, <4>1
    <3>5. NoneBefore(stop)
      BY <1>3, <2>4, <3>2, <3>3, <3>4
    <3>6. ~In(stop - 1)
      BY <3>3, <3>4
    <3> QED BY <3>3, <3>5, <3>6
  <2> QED BY <2>8, <2>9
<1> QED BY <1>6, <1>7

\* What the search looks for is what the glob finds.
LEMMA LiteralFound ==
    ASSUME WordType, ~has_wildcards, pattern # <<>>
    PROVE  ContainsWord <=> value = pattern \/ \E p : Occurs(p) /\ Separate(p, p + Len(pattern))
<1>1. Len(value) \in Nat /\ Len(pattern) \in Nat /\ pattern \in Seq(Chars)
  BY DEF WordType
<1>2. \A p \in Positions : GlobEnds(p) = {q \in Positions : q = p + Len(pattern) /\ \A k \in 1..Len(pattern) : value[p + k - 1] = pattern[k]}
  BY <1>1, GlobOfLiteral, LiteralEnds
<1>3. \A p : Occurs(p) <=> p \in Positions /\ p + Len(pattern) \in Positions
                           /\ \A k \in 1..Len(pattern) : value[p + k - 1] = pattern[k]
  BY <1>1 DEF Occurs, Positions
<1> QED BY <1>2, <1>3 DEF ContainsWord

-----------------------------------------------------------------------------
(* The loop over a pattern with wildcards. *)

\* One chunk more, which matches as the next character does.
LEMMA CutMore ==
    ASSUME WordType, NEW list \in Seq(ChunkType), NEW c \in ChunkType, NEW n \in 0..(Len(pattern) - 1),
           Cut(list, n), \A q \in Positions : ChunkEnds(c, q) = GlobStep(pattern[n + 1], q)
    PROVE  Cut(Append(list, c), n + 1)
<1> SUFFICES ASSUME NEW p \in Positions
             PROVE  Reach(ChunkSteps(Append(list, c)), p) = Reach(GlobSteps(n + 1), p)
  BY DEF Cut
<1>1. /\ Reach(ChunkSteps(list), p) \subseteq Positions
      /\ Reach(ChunkSteps(Append(list, c)), p) = UNION {ChunkEnds(c, q) : q \in Reach(ChunkSteps(list), p)}
  BY ChunkMore
<1>2. Reach(GlobSteps(n + 1), p) = UNION {GlobStep(pattern[n + 1], q) : q \in Reach(GlobSteps(n), p)}
  BY GlobMore
<1>3. Reach(ChunkSteps(list), p) = Reach(GlobSteps(n), p)
  BY DEF Cut
<1> QED BY <1>1, <1>2, <1>3

\* The last chunk, literal text, longer by the next character.
LEMMA CutLonger ==
    ASSUME WordType, NEW list \in Seq(ChunkType), NEW text \in Seq(Chars), NEW n \in 0..(Len(pattern) - 1),
           Cut(Append(list, Literal(text)), n), ~is_wildcard(pattern[n + 1])
    PROVE  Cut(Append(list, Literal(Append(text, pattern[n + 1]))), n + 1)
<1> SUFFICES ASSUME NEW p \in Positions
             PROVE  Reach(ChunkSteps(Append(list, Literal(Append(text, pattern[n + 1])))), p) = Reach(GlobSteps(n + 1), p)
  BY DEF Cut
<1> DEFINE c == pattern[n + 1]
           old == Literal(text)
           new == Literal(Append(text, c))
           R == Reach(ChunkSteps(list), p)
<1>1. c \in Chars /\ Append(text, c) \in Seq(Chars)
  BY DEF WordType
<1>2. old \in ChunkType /\ new \in ChunkType
  BY <1>1, LiteralType
<1>3. \A q \in Positions : ChunkEnds(new, q) = UNION {GlobStep(c, r) : r \in ChunkEnds(old, q)}
  <2> HIDE DEF c
  <2> QED BY <1>1, LiteralGrows DEF c
<1> HIDE DEF old, new, c
<1>4. /\ R \subseteq Positions
      /\ Reach(ChunkSteps(Append(list, old)), p) = UNION {ChunkEnds(old, q) : q \in R}
      /\ Reach(ChunkSteps(Append(list, new)), p) = UNION {ChunkEnds(new, q) : q \in R}
  BY <1>2, ChunkMore
<1>5. Reach(GlobSteps(n + 1), p) = UNION {GlobStep(c, q) : q \in Reach(GlobSteps(n), p)}
  BY GlobMore DEF c
<1>6. Reach(ChunkSteps(Append(list, old)), p) = Reach(GlobSteps(n), p)
  BY DEF Cut, old
<1> HIDE DEF R
<1>7. Reach(ChunkSteps(Append(list, new)), p) = Reach(GlobSteps(n + 1), p)
  BY <1>3, <1>4, <1>5, <1>6
<1> QED BY <1>7 DEF new, c

LEMMA CutNone ==
    ASSUME WordType
    PROVE  Cut(<<>>, 0) /\ Cut(<<Literal(<<>>)>>, 0)
<1>1. Len(ChunkSteps(<<>>)) = 0 /\ Len(GlobSteps(0)) = 0
  BY DEF ChunkSteps, GlobSteps
<1>2. ASSUME NEW p \in Positions
      PROVE  Reach(ChunkSteps(<<>>), p) = {p} /\ Reach(GlobSteps(0), p) = {p}
  BY <1>1, ReachNone
<1>3. <<>> \in Seq(Chars) /\ <<>> \in Seq(ChunkType) /\ Append(<<>>, Literal(<<>>)) = <<Literal(<<>>)>>
  OBVIOUS
<1>4. ASSUME NEW p \in Positions
      PROVE  Reach(ChunkSteps(<<Literal(<<>>)>>), p) = {p}
  <2>1. Len(value) \in Nat
    BY DEF WordType
  <2>2. ChunkEnds(Literal(<<>>), p) = {p}
    BY <2>1 DEF ChunkEnds, Literal, Positions
  <2>3. Literal(<<>>) \in ChunkType
    BY <1>3, LiteralType
  <2>4. Reach(ChunkSteps(Append(<<>>, Literal(<<>>))), p) =
            UNION {ChunkEnds(Literal(<<>>), q) : q \in Reach(ChunkSteps(<<>>), p)}
    BY <1>3, <2>3, ChunkMore
  <2>5. Reach(ChunkSteps(Append(<<>>, Literal(<<>>))), p) = UNION {ChunkEnds(Literal(<<>>), q) : q \in {p}}
    BY <1>2, <2>4
  <2> QED BY <1>3, <2>2, <2>5
<1> QED BY <1>2, <1>4 DEF Cut

\* A character that is no wildcard, as a chunk.
LEMMA LiteralChunk ==
    ASSUME WordType, NEW c \in Chars, ~is_wildcard(c), NEW p \in Positions
    PROVE  Literal(<<c>>) \in ChunkType /\ ChunkEnds(Literal(<<c>>), p) = GlobStep(c, p)
<1>1. Len(value) \in Nat
  BY DEF WordType
<1>2. ChunkEnds(Literal(<<>>), p) = {p}
  BY <1>1 DEF ChunkEnds, Literal, Positions
<1>3. <<>> \in Seq(Chars) /\ Append(<<>>, c) = <<c>> /\ <<c>> \in Seq(Chars)
  OBVIOUS
<1>4. ChunkEnds(Literal(Append(<<>>, c)), p) = UNION {GlobStep(c, q) : q \in ChunkEnds(Literal(<<>>), p)}
  BY <1>3, LiteralGrows
<1> QED BY <1>2, <1>3, <1>4, LiteralType

\* What is about the value and the pattern only.
LEMMA SameStrings ==
    ASSUME value' = value, pattern' = pattern
    PROVE  /\ ContainsWord' <=> ContainsWord
           /\ AdjacentWildcards' <=> AdjacentWildcards
           /\ has_wildcards' <=> has_wildcards
           /\ \A list, n : Cut(list, n)' <=> Cut(list, n)
           /\ \A p : Occurs(p)' <=> Occurs(p)
           /\ \A p : In(p)' <=> In(p)
           /\ \A p, q : Separate(p, q)' <=> Separate(p, q)
<1>1. Positions' = Positions
  BY DEF Positions
<1>2. \A c, p : GlobStep(c, p)' = GlobStep(c, p)
  BY DEF GlobStep
<1>3. \A n : GlobSteps(n)' = GlobSteps(n)
  BY <1>1, <1>2 DEF GlobSteps
<1>4. \A p : GlobEnds(p)' = GlobEnds(p)
  BY <1>3 DEF GlobEnds
<1>5. \A p, q : Separate(p, q)' <=> Separate(p, q)
  BY DEF Separate
<1>6. ContainsWord' <=> ContainsWord
  BY <1>1, <1>4, <1>5 DEF ContainsWord
<1>7. \A c, p : ChunkEnds(c, p)' = ChunkEnds(c, p)
  BY DEF ChunkEnds
<1>8. \A list : ChunkSteps(list)' = ChunkSteps(list)
  BY <1>1, <1>7 DEF ChunkSteps
<1>9. \A list, n : Cut(list, n)' <=> Cut(list, n)
  BY <1>1, <1>3, <1>8 DEF Cut
<1> QED BY <1>5, <1>6, <1>9 DEF AdjacentWildcards, has_wildcards, is_wildcard, Occurs, In

LEMMA SubSeqOne ==
    ASSUME NEW S, NEW s \in Seq(S), NEW k \in 1..Len(s)
    PROVE  SubSeq(s, k, k) = <<s[k]>>
<1>1. k \in Int /\ \A j \in k..k : s[j] \in S
  OBVIOUS
<1>2. SubSeq(s, k, k) \in Seq(S) /\ Len(SubSeq(s, k, k)) = 1 /\ \A j \in 1..(k - k + 1) : SubSeq(s, k, k)[j] = s[k + j - 1]
  BY <1>1, SubSeqProperties
<1>3. 1 \in 1..(k - k + 1) /\ k + 1 - 1 = k
  BY <1>1
<1>4. SubSeq(s, k, k)[1] = s[k]
  BY <1>2, <1>3
<1>5. <<s[k]>> \in Seq(S) /\ Len(<<s[k]>>) = 1 /\ <<s[k]>>[1] = s[k]
  BY <1>1
<1>6. \A j \in 1..1 : SubSeq(s, k, k)[j] = <<s[k]>>[j]
  BY <1>4, <1>5
<1> QED BY <1>2, <1>5, <1>6, SeqEqual

\* Without adjacent wildcards the chunks are the pattern.
LEMMA ChunkStepInv ==
    ASSUME WordInv, ChunkStep
    PROVE  LoopInv' /\ (~AdjacentWildcards => Cut(Chunk(i)', i))
<1> USE DEF WordInv
<1>1. /\ pc = "chunks" /\ i <= Len(pattern) /\ i' = i + 1 /\ value' = value /\ pattern' = pattern /\ LoopInv /\ WordType
      /\ ~AdjacentWildcards => Cut(Chunk(i), i - 1)
  BY DEF ChunkStep
<1> DEFINE c == pattern[i]
           text == SubSeq(pattern, chunk_start, i - 1)
<1>2. /\ i \in Nat /\ i >= 1 /\ Len(pattern) \in Nat /\ pattern \in Seq(Chars) /\ c \in Chars
      /\ i - 1 \in 0..(Len(pattern) - 1) /\ (i - 1) + 1 = i /\ chunk_start \in Nat /\ chunk_start >= 1
      /\ chunks \in Seq(ChunkType) /\ i + 1 - 1 = i
  BY <1>1 DEF WordType, LoopInv
<1>3. text \in Seq(Chars) /\ SubSeq(pattern, i, i) = <<c>>
  <2>1. i \in 1..Len(pattern)
    BY <1>1, <1>2
  <2>2. chunk_start \in Int /\ i - 1 \in Int /\ \A k \in chunk_start..(i - 1) : pattern[k] \in Chars
    BY <1>1, <1>2
  <2> QED BY <1>2, <2>1, <2>2, SubSeqOne, SubSeqProperties
<1>4. AdjacentWildcards' <=> AdjacentWildcards
  BY <1>1, SameStrings
<1>5. prev_wildcard => text = <<pattern[i - 1]>> /\ i - 1 \in DOMAIN pattern
  <2> SUFFICES ASSUME prev_wildcard PROVE text = <<pattern[i - 1]>> /\ i - 1 \in DOMAIN pattern
    OBVIOUS
  <2>1. chunk_start = i - 1 /\ i - 1 >= 1
    BY <1>1, <1>2 DEF LoopInv
  <2>2. i - 1 \in 1..Len(pattern)
    BY <1>1, <1>2, <2>1
  <2> QED BY <1>2, <2>1, <2>2, SubSeqOne
<1>6. /\ Chunk(i) = Append(chunks, IF prev_wildcard THEN wildcards_to_regex(text) ELSE Literal(text))
      /\ Chunk(i)' = Append(chunks', IF prev_wildcard' THEN wildcards_to_regex(SubSeq(pattern, chunk_start', i))
                                    ELSE Literal(SubSeq(pattern, chunk_start', i)))
  <2>1. i' - 1 = i
    BY <1>1, <1>2
  <2>2. Chunk(i)' = Append(chunks', IF prev_wildcard' THEN wildcards_to_regex(SubSeq(pattern', chunk_start', i' - 1))
                                   ELSE Literal(SubSeq(pattern', chunk_start', i' - 1)))
    BY DEF Chunk
  <2> QED BY <1>1, <2>1, <2>2 DEF Chunk
<1>7. Chunk(i) \in Seq(ChunkType)
  <2>1. (IF prev_wildcard THEN wildcards_to_regex(text) ELSE Literal(text)) \in ChunkType
    <3>1. CASE prev_wildcard
      <4>1. is_wildcard(pattern[i - 1]) /\ 1 \in Positions
        BY <1>1, <3>1 DEF LoopInv, WordType, Positions
      <4> HIDE DEF text
      <4> QED BY <1>1, <1>5, <3>1, <4>1, WildChunk
    <3>2. CASE ~prev_wildcard
      <4> HIDE DEF text
      <4> QED BY <1>3, <3>2, LiteralType
    <3> QED BY <3>1, <3>2
  <2> QED BY <1>2, <1>6, <2>1
<1> HIDE DEF text
<1>8. CASE is_wildcard(c) /\ ~prev_wildcard
  <2> DEFINE w == wildcards_to_regex(<<c>>)
  <2>1. w \in ChunkType /\ \A q \in Positions : ChunkEnds(w, q) = GlobStep(c, q)
    <3>1. 1 \in Positions
      BY <1>1 DEF WordType, Positions
    <3> QED BY <1>1, <1>8, <3>1, WildChunk
  <2>2. CASE i = 1
    <3>1. prev_wildcard' = TRUE /\ chunks' = <<>> /\ chunk_start' = 1 /\ chunks = <<>>
      BY <1>1, <1>8, <2>2 DEF ChunkStep, LoopInv
    <3>2. Chunk(i)' = Append(<<>>, w)
      BY <1>3, <1>6, <2>2, <3>1
    <3>3. Cut(<<>>, i - 1) /\ <<>> \in Seq(ChunkType)
      BY <1>1, <1>2, <2>2, CutNone
    <3>4. Cut(Append(<<>>, w), (i - 1) + 1)
      <4> HIDE DEF w
      <4> QED BY <1>1, <1>2, <2>1, <3>3, CutMore
    <3>5. LoopInv'
      BY <1>1, <1>2, <1>8, <2>2, <3>1, <3>3 DEF LoopInv, is_wildcard
    <3> QED BY <1>2, <3>2, <3>4, <3>5
  <2>3. CASE i # 1
    <3>1. chunks' = Chunk(i) /\ prev_wildcard' = TRUE /\ chunk_start' = i
      BY <1>1, <1>8, <2>3 DEF ChunkStep, Begin
    <3>2. Chunk(i)' = Append(Chunk(i), w)
      BY <1>3, <1>6, <3>1
    <3>3. ~AdjacentWildcards => Cut(Append(Chunk(i), w), (i - 1) + 1)
      <4> HIDE DEF w
      <4> QED BY <1>1, <1>2, <1>7, <2>1, CutMore
    <3>4. LoopInv'
      BY <1>1, <1>2, <1>7, <1>8, <3>1 DEF LoopInv, is_wildcard
    <3> QED BY <1>2, <3>2, <3>3, <3>4
  <2> QED BY <2>2, <2>3
<1>9. CASE prev_wildcard
  <2> DEFINE w == Literal(<<c>>)
  <2>1. chunks' = Chunk(i) /\ prev_wildcard' = FALSE /\ chunk_start' = i
    BY <1>1, <1>9 DEF ChunkStep, Begin
  <2>2. ~AdjacentWildcards => ~is_wildcard(c)
    <3>1. i \in 2..Len(pattern) /\ is_wildcard(pattern[i - 1])
      BY <1>1, <1>2, <1>9 DEF LoopInv
    <3> QED BY <3>1 DEF AdjacentWildcards
  <2>3. Chunk(i)' = Append(Chunk(i), w)
    BY <1>3, <1>6, <2>1
  <2>4. ASSUME ~AdjacentWildcards PROVE Cut(Append(Chunk(i), w), (i - 1) + 1)
    <3>1. 1 \in Positions
      BY <1>1 DEF WordType, Positions
    <3>2. w \in ChunkType /\ \A q \in Positions : ChunkEnds(w, q) = GlobStep(c, q)
      BY <1>1, <1>2, <2>2, <2>4, <3>1, LiteralChunk
    <3> HIDE DEF w
    <3> QED BY <1>1, <1>2, <1>7, <2>4, <3>2, CutMore
  <2>5. LoopInv'
    <3>1. \A k \in i..((i + 1) - 1) : k = i
      BY <1>2
    <3>2. ~AdjacentWildcards' => \A k \in chunk_start'..(i' - 1) : ~is_wildcard(pattern'[k])
      BY <1>1, <1>4, <2>1, <2>2, <3>1
    <3>3. i' \in 1..(Len(pattern') + 1) /\ chunk_start' \in 1..i' /\ chunk_start' < i' /\ i' # 1
      BY <1>1, <1>2, <2>1
    <3> QED BY <1>7, <2>1, <3>2, <3>3 DEF LoopInv
  <2> QED BY <1>2, <2>3, <2>4, <2>5
<1>10. CASE ~is_wildcard(c) /\ ~prev_wildcard
  <2>1. chunks' = chunks /\ prev_wildcard' = FALSE /\ chunk_start' = chunk_start
    BY <1>1, <1>10 DEF ChunkStep, LoopInv
  <2>2. SubSeq(pattern, chunk_start, i) = Append(text, c)
    BY <1>1, <1>2 DEF text, LoopInv
  <2>3. Chunk(i)' = Append(chunks, Literal(Append(text, c)))
    BY <1>6, <2>1, <2>2
  <2>4. ASSUME ~AdjacentWildcards PROVE Cut(Append(chunks, Literal(Append(text, pattern[(i - 1) + 1]))), (i - 1) + 1)
    <3>1. Cut(Append(chunks, Literal(text)), i - 1)
      BY <1>1, <1>6, <1>10, <2>4
    <3> QED BY <1>1, <1>2, <1>3, <1>10, <3>1, CutLonger
  <2>5. LoopInv'
    <3>1. \A k \in chunk_start..((i + 1) - 1) : k = i \/ k \in chunk_start..(i - 1)
      BY <1>2
    <3>2. ~AdjacentWildcards => \A k \in chunk_start..(i - 1) : ~is_wildcard(pattern[k])
      BY <1>1, <1>10 DEF LoopInv
    <3>3. ~AdjacentWildcards' => \A k \in chunk_start'..(i' - 1) : ~is_wildcard(pattern'[k])
      BY <1>1, <1>4, <1>10, <2>1, <3>1, <3>2
    <3>4. i' \in 1..(Len(pattern') + 1) /\ chunk_start' \in 1..i' /\ chunk_start' < i' /\ i' # 1
      BY <1>1, <1>2, <1>10, <2>1 DEF LoopInv
    <3> QED BY <1>2, <2>1, <3>3, <3>4 DEF LoopInv
  <2> QED BY <1>2, <2>3, <2>4, <2>5
<1> QED BY <1>8, <1>9, <1>10

-----------------------------------------------------------------------------
(* The invariant. *)

LEMMA ReturnInv ==
    ASSUME WordInv, NEW answer \in BOOLEAN, Return(answer), ~AdjacentWildcards => (answer <=> ContainsWord)
    PROVE  WordInv'
<1>1. value' = value /\ pattern' = pattern /\ from' = from /\ pc' = "done" /\ result' = answer /\ WordType
  BY DEF Return, WordInv
<1>2. WordType'
  BY <1>1 DEF WordType, Positions
<1>3. (ContainsWord' <=> ContainsWord) /\ (AdjacentWildcards' <=> AdjacentWildcards)
  BY <1>1, SameStrings
<1>4. ContainsWord' \in BOOLEAN
  BY DEF ContainsWord
<1>5. ~AdjacentWildcards' => result' = ContainsWord'
  <2>1. ASSUME ~AdjacentWildcards' PROVE answer = ContainsWord'
    <3>1. answer <=> ContainsWord'
      BY <1>3, <2>1
    <3> QED BY <1>4, <3>1
  <2> QED BY <1>1, <2>1
<1>6. FindsWholeWords'
  BY <1>5 DEF FindsWholeWords
<1> QED BY <1>1, <1>2, <1>6 DEF WordInv

\* The call is about the value, or about its end from a place that is not
\* inside a word.
LEMMA SelfIs ==
    ASSUME WordType, CallInv
    PROVE  /\ from = 1 => Self = value
           /\ Self = pattern /\ from > 1 => Occurs(from) /\ from + Len(pattern) = Len(value) + 1
<1>1. Len(value) \in Nat /\ value \in Seq(Chars) /\ from \in Nat /\ from >= 1 /\ from <= Len(value) + 1 /\ pattern \in Seq(Chars)
  BY DEF WordType, Positions
<1>2. from = 1 => Self = value
  BY <1>1 DEF Self
<1>3. \A k \in from..Len(value) : value[k] \in Chars
  BY <1>1
<1>4. Len(Self) = Len(value) - from + 1
  BY <1>1, <1>3, SubSeqProperties DEF Self
<1>5. ASSUME Self = pattern PROVE Occurs(from) /\ from + Len(pattern) = Len(value) + 1
  <2>1. Len(pattern) = Len(value) - from + 1 /\ SubSeq(value, from, Len(value)) = pattern
    BY <1>4, <1>5 DEF Self
  <2>2. from + Len(pattern) - 1 = Len(value) /\ from + Len(pattern) = Len(value) + 1 /\ from <= Len(value) - Len(pattern) + 1
    BY <1>1, <2>1
  <2> QED BY <1>1, <2>1, <2>2, OccursIs
<1> QED BY <1>2, <1>5

LEMMA CallInvStep ==
    ASSUME WordInv, pc = "call",
           Equal \/ EmptyPattern \/ NotFound \/ \E start \in find : WholeWord(start) \/ LastWord(start)
    PROVE  WordInv'
<1>1. WordType /\ CallInv
  BY DEF WordInv
<1>2. Len(value) \in Nat /\ Len(pattern) \in Nat /\ from \in Nat /\ from >= 1
  BY <1>1 DEF WordType, Positions
<1>3. CASE Equal
  <2>1. ContainsWord
    <3>1. CASE from = 1
      BY <1>1, <1>3, <3>1, SelfIs DEF Equal, ContainsWord
    <3>2. CASE from > 1
      <4>1. Occurs(from) /\ from + Len(pattern) = Len(value) + 1 /\ pattern # <<>> /\ ~has_wildcards /\ ~In(from - 1)
        BY <1>1, <1>3, <3>2, SelfIs DEF Equal, CallInv
      <4>2. ~In(from + Len(pattern))
        BY <1>1, <1>2, <4>1, WordAt
      <4>3. Separate(from, from + Len(pattern))
        BY <4>1, <4>2 DEF Separate, In
      <4> QED BY <1>1, <4>1, <4>3, LiteralFound
    <3> QED BY <1>2, <3>1, <3>2
  <2> QED BY <1>3, <2>1, ReturnInv DEF Equal
<1>4. Searching => value # pattern
  <2>1. CASE from = 1
    BY <1>1, <2>1, SelfIs DEF Searching
  <2>2. CASE from > 1
    BY <1>1, <2>2 DEF CallInv
  <2> QED BY <1>2, <2>1, <2>2
<1>5. CASE EmptyPattern
  <2>1. ~ContainsWord
    BY <1>4, <1>5 DEF EmptyPattern, ContainsWord
  <2> QED BY <1>5, <2>1, ReturnInv DEF EmptyPattern
<1>6. ASSUME Searching, pattern # <<>>, ~has_wildcards, NoneBefore(Len(value) + 2)
      PROVE  ~ContainsWord
  <2>1. \A p : Occurs(p) => p \in 1..((Len(value) + 2) - 1)
    BY <1>2 DEF Occurs
  <2>2. \A p : Occurs(p) => ~Separate(p, p + Len(pattern))
    BY <1>6, <2>1 DEF NoneBefore
  <2> QED BY <1>1, <1>4, <1>6, <2>2, LiteralFound
<1>7. CASE NotFound
  <2>1. \A p : Occurs(p) => p < from
    BY <1>1, <1>7, FindIs DEF NotFound
  <2>2. ASSUME NEW p \in 1..((Len(value) + 2) - 1), Occurs(p) PROVE ~Separate(p, p + Len(pattern))
    <3>1. p \in 1..(from - 1)
      BY <1>2, <2>1, <2>2
    <3> QED BY <1>1, <2>2, <3>1 DEF CallInv, NoneBefore
  <2>3. ~ContainsWord
    BY <1>6, <1>7, <2>2 DEF NotFound, NoneBefore
  <2> QED BY <1>7, <2>3, ReturnInv DEF NotFound
<1>8. ASSUME NEW start \in find, WholeWord(start) PROVE WordInv'
  <2>1. pattern # <<>> /\ ~has_wildcards /\ word_boundaries(start) /\ Occurs(start) /\ start >= from
    BY <1>1, <1>8, FindIs DEF WholeWord, Found
  <2>2. Separate(start, start + Len(pattern))
    BY <1>1, <2>1, Boundaries
  <2>3. ContainsWord
    BY <1>1, <2>1, <2>2, LiteralFound
  <2> QED BY <1>8, <2>3, ReturnInv DEF WholeWord
<1>9. ASSUME NEW start \in find, LastWord(start) PROVE WordInv'
  <2>1. Searching /\ pattern # <<>> /\ ~has_wildcards /\ ~word_boundaries(start) /\ next_word(start) = {}
    BY <1>9 DEF LastWord, Found
  <2>2. NoneBefore(Len(value) + 2)
    BY <1>1, <2>1, Skips
  <2>3. ~ContainsWord
    BY <1>6, <2>1, <2>2
  <2> QED BY <1>9, <2>3, ReturnInv DEF LastWord
<1> QED BY <1>3, <1>5, <1>7, <1>8, <1>9

LEMMA NextWordInv ==
    ASSUME WordInv, NEW start \in find, NextWord(start)
    PROVE  WordInv'
<1>1. /\ pc = "call" /\ pc' = "call" /\ WordType /\ CallInv /\ value' = value /\ pattern' = pattern
      /\ Searching /\ pattern # <<>> /\ ~has_wildcards /\ ~word_boundaries(start) /\ from' \in next_word(start)
  BY DEF WordInv, NextWord, Found, Searching
<1>2. from' \in from..Len(value) /\ from' > 1 /\ ~In(from' - 1) /\ NoneBefore(from')
  BY <1>1, Skips
<1>3. from \in Nat /\ from >= 1 /\ Len(value) \in Nat
  BY <1>1 DEF WordType, Positions
<1>4. value # pattern
  <2>1. CASE from = 1
    BY <1>1, <2>1, SelfIs DEF Searching
  <2>2. CASE from > 1
    BY <1>1, <2>2 DEF CallInv
  <2> QED BY <1>3, <2>1, <2>2
<1>5. WordType'
  BY <1>1, <1>2, <1>3 DEF WordType, Positions
<1>6. /\ has_wildcards' <=> has_wildcards
      /\ \A p : Occurs(p)' <=> Occurs(p)
      /\ \A p : In(p)' <=> In(p)
      /\ \A p, q : Separate(p, q)' <=> Separate(p, q)
  BY <1>1, SameStrings
<1>7. CallInv'
  <2>1. (\A p \in 1..(from - 1) : Occurs(p) => ~Separate(p, p + Len(pattern)))'
    BY <1>1, <1>2, <1>6 DEF NoneBefore
  <2>2. ~In(from - 1)'
    BY <1>2, <1>6
  <2> QED BY <1>1, <1>2, <1>4, <1>6, <2>1, <2>2 DEF CallInv, NoneBefore
<1> QED BY <1>1, <1>5, <1>7 DEF WordInv, FindsWholeWords, NextWord, loopVars

LEMMA GlobInv ==
    ASSUME WordInv, CutPattern \/ ChunkStep \/ ChunkEnd \/ Match
    PROVE  WordInv'
<1>1. WordType
  BY DEF WordInv
<1>2. ASSUME value' = value, pattern' = pattern, from' = from, pc' \in {"chunks", "regex"}
      PROVE  /\ WordType' /\ FindsWholeWords'
             /\ AdjacentWildcards' <=> AdjacentWildcards
             /\ has_wildcards' <=> has_wildcards
             /\ \A list, n : Cut(list, n)' <=> Cut(list, n)
  <2>1. WordType'
    BY <1>1, <1>2 DEF WordType, Positions
  <2>2. FindsWholeWords'
    BY <1>2 DEF FindsWholeWords
  <2> QED BY <1>2, <2>1, <2>2, SameStrings
<1>3. CASE CutPattern
  <2>1. /\ pc = "call" /\ pc' = "chunks" /\ value' = value /\ pattern' = pattern /\ from' = from /\ has_wildcards
        /\ i = 1 /\ chunks = <<>> /\ prev_wildcard = FALSE /\ chunk_start = 1 /\ CallInv /\ Searching
        /\ i' = 1 /\ chunks' = <<>> /\ prev_wildcard' = FALSE /\ chunk_start' = 1
    BY <1>3 DEF CutPattern, Searching, loopVars, WordInv
  <2>2. from = 1 /\ value # pattern
    <3>1. from = 1
      BY <1>1, <2>1 DEF CallInv, WordType, Positions
    <3> QED BY <1>1, <2>1, <3>1, SelfIs DEF Searching
  <2>3. Chunk(i)' = <<Literal(<<>>)>>
    <3>1. SubSeq(pattern', 1, 1 - 1) = <<>>
      BY <1>1, <2>1 DEF WordType
    <3>2. Chunk(i)' = Append(<<>>, Literal(SubSeq(pattern', 1, 1 - 1)))
      BY <2>1 DEF Chunk
    <3>3. Append(<<>>, Literal(<<>>)) = <<Literal(<<>>)>>
      OBVIOUS
    <3> QED BY <3>1, <3>2, <3>3
  <2>4. (Cut(Chunk(i), i - 1))'
    <3>1. Cut(<<Literal(<<>>)>>, 0)
      BY <1>1, CutNone
    <3>2. i' - 1 = 0
      BY <2>1
    <3> QED BY <1>2, <2>1, <2>3, <3>1, <3>2
  <2>5. LoopInv'
    <3>1. Len(pattern) \in Nat /\ <<>> \in Seq(ChunkType)
      BY <1>1 DEF WordType
    <3>2. i' \in 1..(Len(pattern') + 1) /\ chunk_start' \in 1..i' /\ ~(i' > 1)
      BY <2>1, <3>1
    <3>3. \A k \in chunk_start'..(i' - 1) : FALSE
      BY <2>1
    <3> QED BY <2>1, <3>1, <3>2, <3>3 DEF LoopInv
  <2> QED BY <1>2, <2>1, <2>2, <2>4, <2>5 DEF WordInv
<1>4. CASE ChunkStep
  <2>1. /\ pc = "chunks" /\ pc' = "chunks" /\ value' = value /\ pattern' = pattern /\ from' = from
        /\ has_wildcards /\ from = 1 /\ value # pattern /\ LoopInv /\ i' = i + 1
    BY <1>4 DEF ChunkStep, WordInv
  <2>2. LoopInv' /\ (~AdjacentWildcards => Cut(Chunk(i)', i))
    BY <1>4, ChunkStepInv
  <2>3. i' - 1 = i
    BY <1>1, <2>1 DEF LoopInv, WordType
  <2>4. ~AdjacentWildcards' => (Cut(Chunk(i), i - 1))'
    BY <1>2, <2>1, <2>2, <2>3
  <2> QED BY <1>2, <2>1, <2>2, <2>4 DEF WordInv
<1>5. CASE ChunkEnd
  <2>1. /\ pc = "chunks" /\ pc' = "regex" /\ value' = value /\ pattern' = pattern /\ from' = from
        /\ has_wildcards /\ from = 1 /\ value # pattern /\ chunks' = Chunk(i) /\ i = Len(pattern) + 1
        /\ ~AdjacentWildcards => Cut(Chunk(i), i - 1)
    BY <1>5 DEF ChunkEnd, WordInv
  <2>2. i - 1 = Len(pattern)
    BY <1>1, <2>1 DEF WordType
  <2>3. ~AdjacentWildcards' => (Cut(chunks, Len(pattern)))'
    BY <1>2, <2>1, <2>2
  <2> QED BY <1>2, <2>1, <2>3 DEF WordInv
<1>6. CASE Match
  <2>1. /\ pc = "regex" /\ has_wildcards /\ from = 1 /\ value # pattern /\ Return(is_match)
        /\ ~AdjacentWildcards => Cut(chunks, Len(pattern))
    BY <1>6 DEF Match, WordInv
  <2>2. Len(value) \in Nat /\ pattern # <<>>
    BY <1>1, <2>1 DEF WordType, has_wildcards
  <2>3. \A p \in Positions : /\ RegexStart(p) <=> ~(In(p - 1) /\ In(p))
                             /\ RegexEnd(p) <=> ~(In(p - 1) /\ In(p))
    <3> SUFFICES ASSUME NEW p \in Positions
                 PROVE  /\ RegexStart(p) <=> ~(In(p - 1) /\ In(p))
                        /\ RegexEnd(p) <=> ~(In(p - 1) /\ In(p))
      OBVIOUS
    <3>1. p \in Int /\ p - 1 \in Int /\ p >= 1
      BY <2>2 DEF Positions
    <3>2. (IsWordAt(p) <=> In(p)) /\ (IsWordAt(p - 1) <=> In(p - 1))
      BY <1>1, <2>1, <3>1, WordAt
    <3>3. (p = 1 => ~In(p - 1)) /\ (p = Len(value) + 1 => ~In(p))
      BY <1>1, <2>2, <3>1, WordAt
    <3>4. word_boundary(p) <=> ~(IsWordAt(p - 1) <=> IsWordAt(p))
      BY DEF word_boundary, IsWordAt
    <3> QED BY <3>2, <3>3, <3>4 DEF RegexStart, RegexEnd
  <2>4. ASSUME ~AdjacentWildcards PROVE is_match <=> ContainsWord
    <3>1. \A p \in Positions : Reach(ChunkSteps(chunks), p) = GlobEnds(p) /\ GlobEnds(p) \subseteq Positions
      <4>1. Len(pattern) \in 0..Len(pattern)
        BY <1>1 DEF WordType
      <4> QED BY <1>1, <2>1, <2>4, <4>1, GlobStays DEF Cut, GlobEnds
    <3>2. \A p, q : Separate(p, q) <=> ~(In(p - 1) /\ In(p)) /\ ~(In(q - 1) /\ In(q))
      BY DEF Separate, In
    <3> QED BY <2>1, <2>2, <2>3, <3>1, <3>2 DEF is_match, ContainsWord
  <2>5. is_match \in BOOLEAN
    BY DEF is_match
  <2> QED BY <2>1, <2>4, <2>5, ReturnInv
<1> QED BY <1>3, <1>4, <1>5, <1>6

\* matches_word, without loss and without invention: whatever the value and
\* the pattern, unless the pattern has wildcards next to each other, it answers
\* whether the value contains the pattern as a word.
THEOREM WordsAreFound == WordSpec => []FindsWholeWords
<1>1. WordInit => WordInv
  <2> SUFFICES ASSUME WordInit PROVE WordInv
    OBVIOUS
  <2>1. WordType
    <3>1. value \in Seq(Chars) /\ pattern \in Seq(Chars)
      BY WordAssumption DEF WordInit
    <3> QED BY <3>1 DEF WordInit, WordType, Positions
  <2>2. CallInv
    BY DEF WordInit, CallInv, NoneBefore
  <2> QED BY <2>1, <2>2 DEF WordInit, WordInv, FindsWholeWords
<1>2. WordInv /\ [WordNext]_wordVars => WordInv'
  <2> SUFFICES ASSUME WordInv, [WordNext]_wordVars PROVE WordInv'
    OBVIOUS
  <2>1. CASE Equal \/ EmptyPattern \/ NotFound \/ \E start \in find : WholeWord(start) \/ LastWord(start)
    <3>1. pc = "call"
      BY <2>1 DEF Equal, EmptyPattern, NotFound, WholeWord, LastWord, Found, Searching
    <3> QED BY <2>1, <3>1, CallInvStep
  <2>2. CASE \E start \in find : NextWord(start)
    BY <2>2, NextWordInv
  <2>3. CASE CutPattern \/ ChunkStep \/ ChunkEnd \/ Match
    BY <2>3, GlobInv
  <2>4. CASE UNCHANGED wordVars
    <3>1. /\ value' = value /\ pattern' = pattern /\ from' = from /\ pc' = pc /\ i' = i /\ chunks' = chunks
          /\ prev_wildcard' = prev_wildcard /\ chunk_start' = chunk_start /\ result' = result
      BY <2>4 DEF wordVars, loopVars
    <3>2. /\ ContainsWord' <=> ContainsWord
          /\ AdjacentWildcards' <=> AdjacentWildcards
          /\ has_wildcards' <=> has_wildcards
          /\ \A list, n : Cut(list, n)' <=> Cut(list, n)
          /\ \A p : Occurs(p)' <=> Occurs(p)
          /\ \A p : In(p)' <=> In(p)
          /\ \A p, q : Separate(p, q)' <=> Separate(p, q)
      BY <3>1, SameStrings
    <3>3. WordType'
      BY <3>1 DEF WordInv, WordType, Positions
    <3>4. CallInv' <=> CallInv
      BY <3>1, <3>2 DEF CallInv, NoneBefore
    <3>5. LoopInv' <=> LoopInv
      BY <3>1, <3>2 DEF LoopInv
    <3>6. Chunk(i)' = Chunk(i)
      BY <3>1 DEF Chunk
    <3>7. FindsWholeWords'
      <4>1. ContainsWord \in BOOLEAN /\ ContainsWord' \in BOOLEAN
        BY DEF ContainsWord
      <4>2. ContainsWord' = ContainsWord
        BY <3>2, <4>1
      <4> QED BY <3>1, <3>2, <4>2 DEF WordInv, FindsWholeWords
    <3>8. Cut(Chunk(i), i - 1)' <=> Cut(Chunk(i), i - 1)
      BY <3>1, <3>2, <3>6
    <3>9. Cut(chunks, Len(pattern))' <=> Cut(chunks, Len(pattern))
      BY <3>1, <3>2
    <3> QED BY <3>1, <3>2, <3>3, <3>4, <3>5, <3>7, <3>8, <3>9 DEF WordInv
  <2> QED BY <2>1, <2>2, <2>3, <2>4 DEF WordNext
<1>3. WordInv => FindsWholeWords
  BY DEF WordInv
<1> QED BY <1>1, <1>2, <1>3, PTL DEF WordSpec

-----------------------------------------------------------------------------
(* Sanitizer: the links of the tree stay consistent while a pass over it   *)
(* removes, replaces and unwraps the nodes it is iterating over.           *)

\* The data of a node.
IsData(d) ==
    /\ d = [kind |-> d.kind, name |-> d.name, attrs |-> d.attrs]
    /\ d.kind \in {"Element", "Text", "Other"}

Labels(d) == DOMAIN d = Nodes /\ d = [n \in Nodes |-> d[n]] /\ \A n \in Nodes : IsData(d[n])

IsTree(t) ==
    /\ t = [parent |-> t.parent, children |-> t.children, data |-> t.data]
    /\ t.parent \in [Nodes -> Nodes \cup {NoParent}]
    /\ t.children \in [Nodes -> Seq(Nodes)]
    /\ Labels(t.data)

\* Parents and children agree.
Agrees(t) ==
    /\ \A p \in Nodes : IsInjective(t.children[p])
    /\ \A p, n \in Nodes : t.parent[n] = p <=> n \in ToSet(t.children[p])
    /\ t.parent[Root] = NoParent

TreeInv(t) == IsTree(t) /\ Agrees(t)

\* Nothing has been made of the node yet.
Blank(t, n) == t.parent[n] = NoParent /\ t.children[n] = <<>>

Later(m, n) == m[1] = n[1] /\ m[2] > n[2]

Attached(t, n) == t.parent[n] # NoParent

\* What the pass has been to, and what it has put in its place.
Touched(vs, n) == n \in ToSet(vs) \/ \E v \in ToSet(vs) : n = Replacement(v)

\* The children from x on.
From(s, x) == {s[k] : k \in {j \in DOMAIN s : \E l \in DOMAIN s : l <= j /\ s[l] = x}}

\* The list a has, from x on, only what the list b has there.
Within(a, b, x) == From(a, x) \subseteq From(b, x)

\* From any node on the lists only lose nodes, but for those of a and b, which are moved,
\* and for the children of q from the mark on.
KeepsOrder(t, u, a, b, q, mark) ==
    \A p \in Nodes \ {a, b} : \A x : x # a /\ x # b /\ (p = q => mark \notin From(t.children[q], x)) =>
        Within(u.children[p], t.children[p], x)

\* The parents differ in that of n.
Hung(t, u, n, q) == \A m \in Nodes : u.parent[m] = IF m = n THEN q ELSE t.parent[m]

\* The parents after c has been replaced by h and hung under q.
Rehung(t, u, c, h, q) ==
    \A m \in Nodes : u.parent[m] = IF m = h THEN q ELSE IF m = c THEN NoParent
                                   ELSE IF t.parent[m] = c THEN h ELSE t.parent[m]

SameChildren(t, u, p) == u.children[p] = t.children[p]

ParseInv ==
    /\ effort = [nodes |-> effort.nodes, moves |-> effort.moves, created |-> effort.created]
    /\ effort.created \in Nat /\ effort.nodes \in 0..MaxNodes /\ effort.moves \in Nat
    /\ effort.created <= effort.nodes
    /\ passes = 0
    /\ \A n \in Nodes : n[1] > effort.created \/ n[2] > 0 => Blank(tree, n)

\* Replacements are new.
NewInv ==
    /\ \A n \in Nodes : Attached(tree, n) => n[2] <= passes
    /\ \A n, m \in Nodes : Attached(tree, n) /\ Later(m, n) => Blank(tree, m)

StackInv ==
    /\ Len(stack) > 0 /\ stack[1].node = Root /\ stack[1].action = "None"
    /\ \A j, k \in DOMAIN stack : stack[j].node = stack[k].node => j = k
    /\ \A k \in DOMAIN stack : k > 1 => /\ Touched(visited, stack[k].node)
                                       /\ \E j \in 1..(k - 1) : tree.parent[stack[k].node] = stack[j].node
    /\ \A k \in DOMAIN stack : \A x \in stack[k].next :
          /\ x \in ToSet(tree.children[stack[k].node]) /\ stack[k].next = {x}
          /\ \A y \in From(tree.children[stack[k].node], x) : ~Touched(visited, y)

WalkInv ==
    /\ passes >= 1
    /\ StackInv
    /\ \A n \in Nodes : Attached(tree, n) /\ n[2] = passes => Touched(visited, n)
    /\ \A n \in Nodes : Touched(visited, n) /\ Attached(tree, n) => tree.parent[n] = Root \/ Touched(visited, tree.parent[n])
    /\ \A n, m \in Nodes : Attached(tree, n) /\ Later(m, n) => \A k \in DOMAIN stack : stack[k].node # m

HtmlInv ==
    /\ phase \in {"parse", "clean", "done"}
    /\ config \in Configs
    /\ passes \in 0..MaxPasses
    /\ TreeInv(tree) /\ TreeInv(before) /\ TreeInv(first)
    /\ visited \in Seq(Nodes) /\ IsInjective(visited)
    /\ stack \in Seq(Frames)
    /\ NewInv
    /\ phase = "parse" => ParseInv
    /\ phase = "clean" => WalkInv
    /\ phase # "clean" => stack = <<>>

-----------------------------------------------------------------------------
(* Lists of children. *)

LEMMA RemoveAtIs ==
    ASSUME NEW S, NEW s \in Seq(S), NEW k \in 1..Len(s)
    PROVE  /\ RemoveAt(s, k) \in Seq(S) /\ Len(RemoveAt(s, k)) = Len(s) - 1
           /\ \A j \in 1..(Len(s) - 1) : RemoveAt(s, k)[j] = IF j < k THEN s[j] ELSE s[j + 1]
<1> DEFINE a == SubSeq(s, 1, k - 1)
           b == SubSeq(s, k + 1, Len(s))
<1>1. Len(s) \in Nat /\ k \in Int /\ \A j \in 1..Len(s) : s[j] \in S
  OBVIOUS
<1>2. a \in Seq(S) /\ Len(a) = k - 1 /\ \A j \in 1..(k - 1) : a[j] = s[j]
  <2>1. \A j \in 1..(k - 1) : s[j] \in S
    BY <1>1
  <2>2. a \in Seq(S) /\ Len(a) = (IF 1 <= k - 1 THEN (k - 1) - 1 + 1 ELSE 0) /\ \A j \in 1..((k - 1) - 1 + 1) : a[j] = s[1 + j - 1]
    BY <1>1, <2>1, SubSeqProperties
  <2> HIDE DEF a
  <2> QED BY <1>1, <2>2
<1>3. b \in Seq(S) /\ Len(b) = Len(s) - k /\ \A j \in 1..(Len(s) - k) : b[j] = s[k + j]
  <2>1. \A j \in (k + 1)..Len(s) : s[j] \in S
    BY <1>1
  <2>2. /\ b \in Seq(S) /\ Len(b) = (IF k + 1 <= Len(s) THEN Len(s) - (k + 1) + 1 ELSE 0)
        /\ \A j \in 1..(Len(s) - (k + 1) + 1) : b[j] = s[(k + 1) + j - 1]
    BY <1>1, <2>1, SubSeqProperties
  <2> HIDE DEF b
  <2>3. \A j \in 1..(Len(s) - k) : (k + 1) + j - 1 = k + j /\ j \in 1..(Len(s) - (k + 1) + 1)
    BY <1>1
  <2> QED BY <1>1, <2>2, <2>3
<1>4. RemoveAt(s, k) = a \o b
  BY DEF RemoveAt
<1> HIDE DEF a, b
<1>5. /\ a \o b \in Seq(S) /\ Len(a \o b) = Len(a) + Len(b)
      /\ \A j \in 1..(Len(a) + Len(b)) : (a \o b)[j] = IF j <= Len(a) THEN a[j] ELSE b[j - Len(a)]
  BY <1>2, <1>3, ConcatProperties
<1>6. Len(a) + Len(b) = Len(s) - 1
  BY <1>1, <1>2, <1>3
<1>7. ASSUME NEW j \in 1..(Len(s) - 1) PROVE (a \o b)[j] = IF j < k THEN s[j] ELSE s[j + 1]
  <2>1. CASE j < k
    <3>1. j <= Len(a) /\ j \in 1..(k - 1)
      BY <1>1, <1>2, <2>1
    <3> QED BY <1>2, <1>5, <1>6, <2>1, <3>1
  <2>2. CASE ~(j < k)
    <3>1. ~(j <= Len(a)) /\ j - Len(a) \in 1..(Len(s) - k) /\ k + (j - Len(a)) = j + 1
      BY <1>1, <1>2, <2>2
    <3>2. (a \o b)[j] = b[j - Len(a)]
      BY <1>5, <1>6, <3>1
    <3> QED BY <1>3, <2>2, <3>1, <3>2
  <2> QED BY <2>1, <2>2
<1> QED BY <1>4, <1>5, <1>6, <1>7

LEMMA InsertAtIs ==
    ASSUME NEW S, NEW s \in Seq(S), NEW k \in 1..Len(s), NEW e \in S
    PROVE  /\ InsertAt(s, k, e) \in Seq(S) /\ Len(InsertAt(s, k, e)) = Len(s) + 1
           /\ \A j \in 1..(Len(s) + 1) : InsertAt(s, k, e)[j] = IF j < k THEN s[j] ELSE IF j = k THEN e ELSE s[j - 1]
<1> DEFINE a == SubSeq(s, 1, k - 1)
           b == SubSeq(s, k, Len(s))
           c == a \o <<e>>
<1>1. Len(s) \in Nat /\ k \in Int /\ \A j \in 1..Len(s) : s[j] \in S
  OBVIOUS
<1>2. a \in Seq(S) /\ Len(a) = k - 1 /\ \A j \in 1..(k - 1) : a[j] = s[j]
  <2>1. \A j \in 1..(k - 1) : s[j] \in S
    BY <1>1
  <2>2. a \in Seq(S) /\ Len(a) = (IF 1 <= k - 1 THEN (k - 1) - 1 + 1 ELSE 0) /\ \A j \in 1..((k - 1) - 1 + 1) : a[j] = s[1 + j - 1]
    BY <1>1, <2>1, SubSeqProperties
  <2> HIDE DEF a
  <2> QED BY <1>1, <2>2
<1>3. b \in Seq(S) /\ Len(b) = Len(s) - k + 1 /\ \A j \in 1..(Len(s) - k + 1) : b[j] = s[k + j - 1]
  <2>1. \A j \in k..Len(s) : s[j] \in S
    BY <1>1
  <2>2. /\ b \in Seq(S) /\ Len(b) = (IF k <= Len(s) THEN Len(s) - k + 1 ELSE 0)
        /\ \A j \in 1..(Len(s) - k + 1) : b[j] = s[k + j - 1]
    BY <1>1, <2>1, SubSeqProperties
  <2> HIDE DEF b
  <2> QED BY <1>1, <2>2
<1>4. InsertAt(s, k, e) = c \o b
  BY DEF InsertAt
<1> HIDE DEF a, b
<1>5. c \in Seq(S) /\ Len(c) = k /\ c[k] = e /\ \A j \in 1..(k - 1) : c[j] = s[j]
  <2>1. <<e>> \in Seq(S) /\ Len(<<e>>) = 1 /\ <<e>>[1] = e
    OBVIOUS
  <2>2. /\ c \in Seq(S) /\ Len(c) = Len(a) + 1
        /\ \A j \in 1..(Len(a) + 1) : c[j] = IF j <= Len(a) THEN a[j] ELSE <<e>>[j - Len(a)]
    BY <1>2, <2>1, ConcatProperties
  <2> HIDE DEF c
  <2>3. k \in 1..(Len(a) + 1) /\ ~(k <= Len(a)) /\ k - Len(a) = 1 /\ Len(a) + 1 = k
    BY <1>1, <1>2
  <2>4. \A j \in 1..(k - 1) : j \in 1..(Len(a) + 1) /\ j <= Len(a)
    BY <1>1, <1>2
  <2>5. c[k] = e
    BY <2>1, <2>2, <2>3
  <2> QED BY <1>2, <2>2, <2>3, <2>4, <2>5
<1> HIDE DEF c
<1>6. /\ c \o b \in Seq(S) /\ Len(c \o b) = Len(c) + Len(b)
      /\ \A j \in 1..(Len(c) + Len(b)) : (c \o b)[j] = IF j <= Len(c) THEN c[j] ELSE b[j - Len(c)]
  BY <1>3, <1>5, ConcatProperties
<1>7. Len(c) + Len(b) = Len(s) + 1
  BY <1>1, <1>3, <1>5
<1>8. ASSUME NEW j \in 1..(Len(s) + 1) PROVE (c \o b)[j] = IF j < k THEN s[j] ELSE IF j = k THEN e ELSE s[j - 1]
  <2>1. CASE j < k
    <3>1. j <= Len(c) /\ j \in 1..(k - 1)
      BY <1>1, <1>5, <2>1
    <3> QED BY <1>5, <1>6, <1>7, <2>1, <3>1
  <2>2. CASE j = k
    <3>1. j <= Len(c)
      BY <1>1, <1>5, <2>2
    <3> QED BY <1>1, <1>5, <1>6, <1>7, <2>2, <3>1
  <2>3. CASE j > k
    <3>1. ~(j <= Len(c)) /\ j - Len(c) \in 1..(Len(s) - k + 1) /\ k + (j - Len(c)) - 1 = j - 1
      BY <1>1, <1>5, <2>3
    <3>2. (c \o b)[j] = b[j - Len(c)]
      BY <1>6, <1>7, <3>1
    <3>3. ~(j < k) /\ j # k
      BY <1>1, <2>3
    <3> QED BY <1>3, <3>1, <3>2, <3>3
  <2>4. j < k \/ j = k \/ j > k
    BY <1>1
  <2> QED BY <2>1, <2>2, <2>3, <2>4
<1> QED BY <1>4, <1>6, <1>7, <1>8

LEMMA Removed ==
    ASSUME NEW S, NEW s \in Seq(S), IsInjective(s), NEW k \in 1..Len(s)
    PROVE  /\ RemoveAt(s, k) \in Seq(S) /\ IsInjective(RemoveAt(s, k))
           /\ ToSet(RemoveAt(s, k)) = ToSet(s) \ {s[k]}
           /\ \A x : x # s[k] => From(RemoveAt(s, k), x) \subseteq From(s, x)
<1> DEFINE r == RemoveAt(s, k)
           m == Len(s) - 1
           At(j) == IF j < k THEN j ELSE j + 1
<1>1. /\ r \in Seq(S) /\ Len(r) = m /\ \A j \in 1..m : r[j] = IF j < k THEN s[j] ELSE s[j + 1]
  BY RemoveAtIs
<1>2. Len(s) \in Nat /\ k \in Nat /\ DOMAIN s = 1..Len(s)
  OBVIOUS
<1> HIDE DEF r
<1>3. DOMAIN r = 1..m
  BY <1>1
<1>4. \A j \in 1..m : r[j] = s[At(j)] /\ At(j) \in 1..Len(s) /\ At(j) # k
  BY <1>1, <1>2
<1>5. \A j, l \in 1..m : (At(j) = At(l) => j = l) /\ (l <= j => At(l) <= At(j))
  BY <1>2
<1>6. \A l \in 1..Len(s) : l # k => \E j \in 1..m : At(j) = l
  <2> SUFFICES ASSUME NEW l \in 1..Len(s), l # k PROVE \E j \in 1..m : At(j) = l
    OBVIOUS
  <2>1. CASE l < k
    BY <1>2, <2>1
  <2>2. CASE l > k
    <3>1. l - 1 \in 1..m /\ At(l - 1) = l
      BY <1>2, <2>2
    <3> QED BY <3>1
  <2> QED BY <1>2, <2>1, <2>2
<1> HIDE DEF At, m
<1>7. \A j, l \in 1..Len(s) : s[j] = s[l] => j = l
  BY <1>2 DEF IsInjective
<1>8. IsInjective(r)
  BY <1>3, <1>4, <1>5, <1>7 DEF IsInjective
<1>9. ToSet(r) = ToSet(s) \ {s[k]}
  <2>1. ASSUME NEW y \in ToSet(r) PROVE y \in ToSet(s) \ {s[k]}
    <3>1. PICK j \in 1..m : y = r[j]
      BY <1>3, <2>1 DEF ToSet
    <3>2. y = s[At(j)] /\ At(j) \in DOMAIN s /\ s[At(j)] # s[k]
      BY <1>2, <1>4, <1>7, <3>1
    <3> QED BY <3>2 DEF ToSet
  <2>2. ASSUME NEW y \in ToSet(s), y # s[k] PROVE y \in ToSet(r)
    <3>1. PICK l \in 1..Len(s) : y = s[l]
      BY <1>2, <2>2 DEF ToSet
    <3>2. PICK j \in 1..m : At(j) = l
      BY <1>6, <2>2, <3>1
    <3>3. y = r[j] /\ j \in DOMAIN r
      BY <1>3, <1>4, <3>1, <3>2
    <3> QED BY <3>3 DEF ToSet
  <2> QED BY <2>1, <2>2
<1>10. ASSUME NEW x, x # s[k], NEW y \in From(r, x) PROVE y \in From(s, x)
  <2>1. PICK j \in 1..m, l \in 1..m : l <= j /\ r[l] = x /\ y = r[j]
    BY <1>3, <1>10 DEF From
  <2>2. At(l) \in DOMAIN s /\ At(j) \in DOMAIN s /\ At(l) <= At(j) /\ s[At(l)] = x /\ y = s[At(j)]
    BY <1>2, <1>4, <1>5, <2>1
  <2> QED BY <2>2 DEF From
<1> QED BY <1>1, <1>8, <1>9, <1>10 DEF r

LEMMA Inserted ==
    ASSUME NEW S, NEW s \in Seq(S), IsInjective(s), NEW k \in 1..Len(s), NEW e \in S, e \notin ToSet(s)
    PROVE  /\ InsertAt(s, k, e) \in Seq(S) /\ IsInjective(InsertAt(s, k, e))
           /\ ToSet(InsertAt(s, k, e)) = ToSet(s) \cup {e}
           /\ \A x : x # e /\ s[k] \notin From(s, x) => From(InsertAt(s, k, e), x) \subseteq From(s, x)
<1> DEFINE r == InsertAt(s, k, e)
           m == Len(s) + 1
           At(j) == IF j < k THEN j ELSE j - 1
<1>1. /\ r \in Seq(S) /\ Len(r) = m /\ \A j \in 1..m : r[j] = IF j < k THEN s[j] ELSE IF j = k THEN e ELSE s[j - 1]
  BY InsertAtIs
<1>2. Len(s) \in Nat /\ k \in Nat /\ DOMAIN s = 1..Len(s) /\ m \in Nat
  OBVIOUS
<1> HIDE DEF r
<1>3. DOMAIN r = 1..m /\ k \in 1..m /\ r[k] = e
  <2>1. k \in 1..m /\ ~(k < k)
    BY <1>2
  <2> QED BY <1>1, <1>2, <2>1
<1>4. \A j \in 1..m : j # k => r[j] = s[At(j)] /\ At(j) \in 1..Len(s)
  BY <1>1, <1>2
<1>5. \A j, l \in 1..m : j # k /\ l # k => (At(j) = At(l) => j = l) /\ (l <= j => At(l) <= At(j))
  BY <1>2
<1>6. \A l \in 1..Len(s) : \E j \in 1..m : j # k /\ At(j) = l
  <2> SUFFICES ASSUME NEW l \in 1..Len(s) PROVE \E j \in 1..m : j # k /\ At(j) = l
    OBVIOUS
  <2>1. CASE l < k
    BY <1>2, <2>1
  <2>2. CASE l >= k
    <3>1. l + 1 \in 1..m /\ At(l + 1) = l /\ l + 1 # k
      BY <1>2, <2>2
    <3> QED BY <3>1
  <2> QED BY <1>2, <2>1, <2>2
<1>7. \A j \in 1..m : (j < k => At(j) <= k) /\ j \in Nat /\ (j > k => j # k)
  BY <1>2
<1> HIDE DEF At, m
<1>8. (\A j, l \in 1..Len(s) : s[j] = s[l] => j = l) /\ \A j \in 1..Len(s) : s[j] # e
  BY <1>2 DEF IsInjective, ToSet
<1>9. IsInjective(r)
  BY <1>3, <1>4, <1>5, <1>8 DEF IsInjective
<1>10. ToSet(r) = ToSet(s) \cup {e}
  <2>1. ASSUME NEW y \in ToSet(r) PROVE y \in ToSet(s) \cup {e}
    <3>1. PICK j \in 1..m : y = r[j]
      BY <1>3, <2>1 DEF ToSet
    <3>2. j # k => y = s[At(j)] /\ At(j) \in DOMAIN s
      BY <1>2, <1>4, <3>1
    <3> QED BY <1>3, <3>1, <3>2 DEF ToSet
  <2>2. ASSUME NEW y \in ToSet(s) PROVE y \in ToSet(r)
    <3>1. PICK l \in 1..Len(s) : y = s[l]
      BY <1>2, <2>2 DEF ToSet
    <3>2. PICK j \in 1..m : j # k /\ At(j) = l
      BY <1>6, <3>1
    <3>3. y = r[j] /\ j \in DOMAIN r
      BY <1>3, <1>4, <3>1, <3>2
    <3> QED BY <3>3 DEF ToSet
  <2>3. e \in ToSet(r)
    BY <1>3 DEF ToSet
  <2> QED BY <2>1, <2>2, <2>3
<1>11. ASSUME NEW x, x # e, s[k] \notin From(s, x), NEW y \in From(r, x) PROVE y \in From(s, x)
  <2>1. PICK j \in 1..m, l \in 1..m : l <= j /\ r[l] = x /\ y = r[j]
    BY <1>3, <1>11 DEF From
  <2>2. l # k
    BY <1>3, <1>11, <2>1
  <2>3. At(l) \in DOMAIN s /\ s[At(l)] = x
    BY <1>2, <1>4, <2>1, <2>2
  <2>4. ~(l < k)
    <3> SUFFICES ASSUME l < k PROVE FALSE
      OBVIOUS
    <3>1. At(l) <= k /\ k \in DOMAIN s
      BY <1>2, <1>7
    <3>2. s[k] \in From(s, x)
      BY <2>3, <3>1 DEF From
    <3> QED BY <1>11, <3>2
  <2>5. j # k
    BY <1>2, <1>7, <2>1, <2>2, <2>4
  <2>6. At(j) \in DOMAIN s /\ At(l) <= At(j) /\ y = s[At(j)]
    BY <1>2, <1>4, <1>5, <2>1, <2>2, <2>5
  <2> QED BY <2>3, <2>6 DEF From
<1> QED BY <1>1, <1>9, <1>10, <1>11 DEF r

LEMMA Appended ==
    ASSUME NEW S, NEW s \in Seq(S), IsInjective(s), NEW e \in S, e \notin ToSet(s)
    PROVE  /\ Append(s, e) \in Seq(S) /\ IsInjective(Append(s, e))
           /\ ToSet(Append(s, e)) = ToSet(s) \cup {e}
<1> DEFINE r == Append(s, e)
           m == Len(s)
<1>1. /\ r \in Seq(S) /\ Len(r) = m + 1 /\ r[m + 1] = e /\ \A j \in 1..m : r[j] = s[j]
  OBVIOUS
<1>2. DOMAIN s = 1..m /\ DOMAIN r = 1..(m + 1) /\ m \in Nat /\ m + 1 \in 1..(m + 1)
  BY <1>1
<1>3. \A j \in 1..(m + 1) : j = m + 1 \/ j \in 1..m
  BY <1>2
<1>4. \A j \in 1..m : j \in 1..(m + 1)
  BY <1>2
<1> HIDE DEF r, m
<1>5. (\A j, l \in 1..m : s[j] = s[l] => j = l) /\ \A j \in 1..m : s[j] # e
  BY <1>2 DEF IsInjective, ToSet
<1>6. IsInjective(r)
  BY <1>1, <1>2, <1>3, <1>5 DEF IsInjective
<1>7. ToSet(r) = ToSet(s) \cup {e}
  BY <1>1, <1>2, <1>3, <1>4 DEF ToSet
<1> QED BY <1>1, <1>6, <1>7 DEF r

LEMMA Concatenated ==
    ASSUME NEW S, NEW s \in Seq(S), NEW t \in Seq(S), IsInjective(s), IsInjective(t), ToSet(s) \cap ToSet(t) = {}
    PROVE  /\ s \o t \in Seq(S) /\ IsInjective(s \o t)
           /\ ToSet(s \o t) = ToSet(s) \cup ToSet(t)
<1> DEFINE r == s \o t
           m == Len(s)
           n == Len(t)
<1>1. r \in Seq(S) /\ Len(r) = m + n /\ \A j \in 1..(m + n) : r[j] = IF j <= m THEN s[j] ELSE t[j - m]
  BY ConcatProperties
<1>2. DOMAIN s = 1..m /\ DOMAIN t = 1..n /\ DOMAIN r = 1..(m + n) /\ m \in Nat /\ n \in Nat
  BY <1>1
<1> HIDE DEF r, m, n
<1>3. \A j \in 1..m : j \in 1..(m + n) /\ r[j] = s[j]
  BY <1>1, <1>2
<1>4. \A j \in 1..n : j + m \in 1..(m + n) /\ r[j + m] = t[j]
  <2> SUFFICES ASSUME NEW j \in 1..n PROVE j + m \in 1..(m + n) /\ r[j + m] = t[j]
    OBVIOUS
  <2>1. j + m \in 1..(m + n) /\ ~(j + m <= m) /\ (j + m) - m = j
    BY <1>2
  <2> QED BY <1>1, <2>1
<1>5. \A j \in 1..(m + n) : j \in 1..m \/ \E l \in 1..n : j = l + m
  <2> SUFFICES ASSUME NEW j \in 1..(m + n), j \notin 1..m PROVE \E l \in 1..n : j = l + m
    OBVIOUS
  <2>1. j - m \in 1..n /\ j = (j - m) + m
    BY <1>2
  <2> QED BY <2>1
<1>6. /\ \A j, l \in 1..m : s[j] = s[l] => j = l
      /\ \A j, l \in 1..n : t[j] = t[l] => j = l
      /\ \A j \in 1..m, l \in 1..n : s[j] # t[l]
  <2>1. /\ \A j, l \in 1..m : s[j] = s[l] => j = l
        /\ \A j, l \in 1..n : t[j] = t[l] => j = l
    BY <1>2 DEF IsInjective
  <2>2. \A j \in 1..m : s[j] \in ToSet(s)
    BY <1>2 DEF ToSet
  <2>3. \A l \in 1..n : t[l] \in ToSet(t)
    BY <1>2 DEF ToSet
  <2> QED BY <2>1, <2>2, <2>3
<1>7. IsInjective(r)
  <2> SUFFICES ASSUME NEW j \in 1..(m + n), NEW l \in 1..(m + n), r[j] = r[l] PROVE j = l
    BY <1>2 DEF IsInjective
  <2> QED BY <1>3, <1>4, <1>5, <1>6
<1>8. ToSet(r) = ToSet(s) \cup ToSet(t)
  <2>1. ASSUME NEW y \in ToSet(r) PROVE y \in ToSet(s) \cup ToSet(t)
    <3>1. PICK j \in 1..(m + n) : y = r[j]
      BY <1>2, <2>1 DEF ToSet
    <3>2. CASE j \in 1..m
      <4>1. y = s[j]
        BY <1>3, <3>1, <3>2
      <4> QED BY <1>2, <3>2, <4>1 DEF ToSet
    <3>3. CASE j \notin 1..m
      <4>1. PICK l \in 1..n : j = l + m
        BY <1>5, <3>3
      <4>2. y = t[l]
        BY <1>4, <3>1, <4>1
      <4> QED BY <1>2, <4>2 DEF ToSet
    <3> QED BY <3>2, <3>3
  <2>2. ASSUME NEW y \in ToSet(s) PROVE y \in ToSet(r)
    BY <1>2, <1>3, <2>2 DEF ToSet
  <2>3. ASSUME NEW y \in ToSet(t) PROVE y \in ToSet(r)
    BY <1>2, <1>4, <2>3 DEF ToSet
  <2> QED BY <2>1, <2>2, <2>3
<1> QED BY <1>1, <1>7, <1>8 DEF r

\* What comes from an element on, and from the next.
LEMMA FromIs ==
    ASSUME NEW S, NEW s \in Seq(S), IsInjective(s)
    PROVE  /\ \A x : From(s, x) \subseteq ToSet(s)
           /\ \A x \in ToSet(s) : x \in From(s, x)
           /\ \A k \in 1..Len(s) : k + 1 \in 1..Len(s) =>
                 From(s, s[k + 1]) \subseteq From(s, s[k]) \ {s[k]}
<1>1. Len(s) \in Nat /\ DOMAIN s = 1..Len(s) /\ \A j, l \in 1..Len(s) : s[j] = s[l] => j = l
  BY DEF IsInjective
<1>2. \A x : From(s, x) \subseteq ToSet(s)
  BY DEF From, ToSet
<1>3. ASSUME NEW x \in ToSet(s) PROVE x \in From(s, x)
  <2>1. PICK j \in DOMAIN s : s[j] = x
    BY <1>3 DEF ToSet
  <2>2. j <= j
    BY <1>1, <2>1
  <2> QED BY <2>1, <2>2 DEF From
<1>4. ASSUME NEW k \in 1..Len(s), k + 1 \in 1..Len(s), NEW y \in From(s, s[k + 1])
      PROVE  y \in From(s, s[k]) /\ y # s[k]
  <2>1. PICK j \in 1..Len(s), l \in 1..Len(s) : l <= j /\ s[l] = s[k + 1] /\ y = s[j]
    BY <1>1, <1>4 DEF From
  <2>2. l = k + 1 /\ k <= j /\ j # k
    BY <1>1, <1>4, <2>1
  <2> QED BY <1>1, <2>1, <2>2 DEF From
<1> QED BY <1>2, <1>3, <1>4

-----------------------------------------------------------------------------
(* The operations keep parents and children in agreement. *)

LEMMA NodesAre ==
    /\ Root \in Nodes /\ NoParent \notin Nodes
    /\ \A n \in Nodes : n = <<n[1], n[2]>> /\ n[1] \in 0..MaxNodes /\ n[2] \in 0..MaxPasses
    /\ \A a \in 0..MaxNodes, b \in 0..MaxPasses : <<a, b>> \in Nodes
<1>1. MaxNodes \in Nat /\ MaxPasses \in Nat
  BY TreeAssumption
<1>2. \A n \in Nodes : n = <<n[1], n[2]>> /\ n[1] \in 0..MaxNodes /\ n[2] \in 0..MaxPasses
  BY DEF Nodes
<1>3. \A a \in 0..MaxNodes, b \in 0..MaxPasses : <<a, b>> \in Nodes
  BY DEF Nodes
<1>4. Root \in Nodes
  BY <1>1, <1>3 DEF Root
<1>5. NoParent \notin Nodes
  <2> SUFFICES ASSUME NoParent \in Nodes PROVE FALSE
    OBVIOUS
  <2>1. <<>> = <<NoParent[1], NoParent[2]>>
    BY <1>2 DEF NoParent
  <2>2. Len(<<>>) = 0 /\ Len(<<NoParent[1], NoParent[2]>>) = 2
    OBVIOUS
  <2> QED BY <2>1, <2>2
<1> QED BY <1>2, <1>3, <1>4, <1>5

\* What a tree is, one fact at a time.
LEMMA TreeIs ==
    ASSUME NEW t, TreeInv(t)
    PROVE  /\ t = [parent |-> t.parent, children |-> t.children, data |-> t.data]
           /\ t.parent \in [Nodes -> Nodes \cup {NoParent}] /\ t.children \in [Nodes -> Seq(Nodes)]
           /\ \A p \in Nodes : t.children[p] \in Seq(Nodes) /\ IsInjective(t.children[p])
           /\ \A p, n \in Nodes : t.parent[n] = p <=> n \in ToSet(t.children[p])
           /\ \A p \in Nodes : ToSet(t.children[p]) \subseteq Nodes
           /\ t.parent[Root] = NoParent
           /\ Labels(t.data)
<1>1. \A p \in Nodes : t.children[p] \in Seq(Nodes)
  BY DEF TreeInv, IsTree
<1>2. \A p \in Nodes : ToSet(t.children[p]) \subseteq Nodes
  <2> SUFFICES ASSUME NEW p \in Nodes, NEW x \in ToSet(t.children[p]) PROVE x \in Nodes
    OBVIOUS
  <2>1. PICK k \in DOMAIN t.children[p] : x = t.children[p][k]
    BY DEF ToSet
  <2>2. t.children[p] \in Seq(Nodes)
    BY <1>1
  <2> QED BY <2>1, <2>2
<1>3. /\ t = [parent |-> t.parent, children |-> t.children, data |-> t.data]
      /\ t.parent \in [Nodes -> Nodes \cup {NoParent}] /\ t.children \in [Nodes -> Seq(Nodes)]
      /\ Labels(t.data)
  BY DEF TreeInv, IsTree
<1>4. /\ \A p \in Nodes : IsInjective(t.children[p])
      /\ \A p, n \in Nodes : t.parent[n] = p <=> n \in ToSet(t.children[p])
      /\ t.parent[Root] = NoParent
  BY DEF TreeInv, Agrees
<1> QED BY <1>1, <1>2, <1>3, <1>4

\* A tree of other parents and children.
LEMMA TreeOf ==
    ASSUME NEW u, NEW f, NEW g, NEW d, u = [parent |-> f, children |-> g, data |-> d],
           f \in [Nodes -> Nodes \cup {NoParent}], g \in [Nodes -> Seq(Nodes)], Labels(d),
           \A p \in Nodes : IsInjective(g[p]),
           \A p, n \in Nodes : f[n] = p <=> n \in ToSet(g[p]),
           f[Root] = NoParent
    PROVE  TreeInv(u) /\ u.parent = f /\ u.children = g /\ u.data = d
<1>1. u.parent = f /\ u.children = g /\ u.data = d
  OBVIOUS
<1>2. u = [parent |-> u.parent, children |-> u.children, data |-> u.data]
  OBVIOUS
<1>3. IsTree(u)
  BY <1>1, <1>2 DEF IsTree
<1>4. Agrees(u)
  BY <1>1 DEF Agrees
<1> QED BY <1>1, <1>3, <1>4 DEF TreeInv

LEMMA IndexIs ==
    ASSUME NEW t, TreeInv(t), NEW n \in Nodes, t.parent[n] # NoParent
    PROVE  /\ t.parent[n] \in Nodes
           /\ IndexIn(t, n) \in 1..Len(t.children[t.parent[n]])
           /\ t.children[t.parent[n]][IndexIn(t, n)] = n
<1>1. t.parent[n] \in Nodes
  <2>1. t.parent \in [Nodes -> Nodes \cup {NoParent}]
    BY TreeIs
  <2> QED BY <2>1
<1>2. n \in ToSet(t.children[t.parent[n]])
  BY <1>1, TreeIs
<1>3. \E k \in DOMAIN t.children[t.parent[n]] : t.children[t.parent[n]][k] = n
  BY <1>2 DEF ToSet
<1>4. IndexIn(t, n) \in DOMAIN t.children[t.parent[n]] /\ t.children[t.parent[n]][IndexIn(t, n)] = n
  BY <1>3 DEF IndexIn
<1>5. t.children[t.parent[n]] \in Seq(Nodes)
  BY <1>1, TreeIs
<1> QED BY <1>1, <1>4, <1>5

LEMMA DetachIs ==
    ASSUME NEW t, TreeInv(t), NEW n \in Nodes, NEW u, u = detach(t, n)
    PROVE  /\ TreeInv(u) /\ u.data = t.data
           /\ Hung(t, u, n, NoParent)
           /\ \A p \in Nodes : p # t.parent[n] => SameChildren(t, u, p)
           /\ \A p \in Nodes : \A x : x # n => Within(u.children[p], t.children[p], x)
<1>1. CASE t.parent[n] = NoParent
  <2>1. u = t
    BY <1>1 DEF detach
  <2>2. Hung(t, t, n, NoParent)
    BY <1>1 DEF Hung
  <2>3. \A a, x : Within(a, a, x)
    BY DEF Within
  <2> QED BY <2>1, <2>2, <2>3 DEF SameChildren
<1>2. CASE t.parent[n] # NoParent
  <2> DEFINE q == t.parent[n]
             k == IndexIn(t, n)
             s == t.children[q]
             f == [t.parent EXCEPT ![n] = NoParent]
             g == [t.children EXCEPT ![q] = RemoveAt(s, k)]
  <2>1. q \in Nodes /\ k \in 1..Len(s) /\ s[k] = n
    BY <1>2, IndexIs
  <2>2. /\ t = [parent |-> t.parent, children |-> t.children, data |-> t.data]
        /\ t.parent \in [Nodes -> Nodes \cup {NoParent}] /\ t.children \in [Nodes -> Seq(Nodes)]
    BY TreeIs
  <2>3. u = [parent |-> f, children |-> g, data |-> t.data]
    <3>1. u = [t EXCEPT !.children[q] = RemoveAt(@, k), !.parent[n] = NoParent]
      BY <1>2 DEF detach
    <3>2. u = [t EXCEPT !.children = g, !.parent = f]
      BY <2>2, <3>1
    <3> QED BY <2>2, <3>2
  <2>4. s \in Seq(Nodes) /\ IsInjective(s)
    BY <2>1, TreeIs
  <2>5. /\ RemoveAt(s, k) \in Seq(Nodes) /\ IsInjective(RemoveAt(s, k))
        /\ ToSet(RemoveAt(s, k)) = ToSet(s) \ {n}
        /\ \A x : x # n => From(RemoveAt(s, k), x) \subseteq From(s, x)
    <3> HIDE DEF s, k
    <3> QED BY <2>1, <2>4, Removed
  <2>6. /\ f \in [Nodes -> Nodes \cup {NoParent}] /\ g \in [Nodes -> Seq(Nodes)]
        /\ f[n] = NoParent /\ \A m \in Nodes : m # n => f[m] = t.parent[m]
        /\ g[q] = RemoveAt(s, k) /\ \A p \in Nodes : p # q => g[p] = t.children[p]
    BY <2>1, <2>2, <2>5
  <2> HIDE DEF f, g, k
  <2>7. \A p \in Nodes : ToSet(g[p]) = ToSet(t.children[p]) \ {n}
    <3> SUFFICES ASSUME NEW p \in Nodes PROVE ToSet(g[p]) = ToSet(t.children[p]) \ {n}
      OBVIOUS
    <3>1. CASE p = q
      BY <2>5, <2>6, <3>1
    <3>2. CASE p # q
      <4>1. t.parent[n] = p <=> n \in ToSet(t.children[p])
        BY TreeIs
      <4> QED BY <2>6, <3>2, <4>1
    <3> QED BY <3>1, <3>2
  <2>8. \A p \in Nodes : IsInjective(g[p])
    BY <2>5, <2>6, TreeIs
  <2>9. \A p, m \in Nodes : f[m] = p <=> m \in ToSet(g[p])
    <3> SUFFICES ASSUME NEW p \in Nodes, NEW m \in Nodes PROVE f[m] = p <=> m \in ToSet(g[p])
      OBVIOUS
    <3>1. t.parent[m] = p <=> m \in ToSet(t.children[p])
      BY TreeIs
    <3> QED BY <2>6, <2>7, <3>1, NodesAre
  <2>10. f[Root] = NoParent
    BY <2>6, NodesAre, TreeIs
  <2>11. TreeInv(u)
    <3>1. Labels(t.data)
      BY TreeIs
    <3>2. f \in [Nodes -> Nodes \cup {NoParent}] /\ g \in [Nodes -> Seq(Nodes)]
      BY <2>6
    <3> HIDE DEF q, s
    <3> QED BY <2>3, <2>8, <2>9, <2>10, <3>1, <3>2, TreeOf
  <2>12. \A p \in Nodes : \A x : x # n => Within(g[p], t.children[p], x)
    BY <2>5, <2>6 DEF Within
  <2>13. u.parent = f /\ u.children = g /\ u.data = t.data
    BY <2>3
  <2> QED BY <2>6, <2>11, <2>12, <2>13 DEF Hung, SameChildren
<1> QED BY <1>1, <1>2

\* A node out of the tree gets a parent.
Placed(t, n, q, r) == [t EXCEPT !.children[q] = r, !.parent[n] = q]

LEMMA PlaceIs ==
    ASSUME NEW t, TreeInv(t), NEW n \in Nodes, n # Root, t.parent[n] = NoParent, NEW q \in Nodes,
           NEW r, r \in Seq(Nodes), IsInjective(r), ToSet(r) = ToSet(t.children[q]) \cup {n},
           NEW u, u = Placed(t, n, q, r)
    PROVE  /\ TreeInv(u) /\ u.data = t.data
           /\ Hung(t, u, n, q)
           /\ u.children[q] = r /\ \A p \in Nodes : p # q => u.children[p] = t.children[p]
<1> DEFINE f == [t.parent EXCEPT ![n] = q]
           g == [t.children EXCEPT ![q] = r]
<1>1. /\ t = [parent |-> t.parent, children |-> t.children, data |-> t.data]
      /\ t.parent \in [Nodes -> Nodes \cup {NoParent}] /\ t.children \in [Nodes -> Seq(Nodes)]
  BY TreeIs
<1>2. u = [parent |-> f, children |-> g, data |-> t.data]
  <2>1. u = [t EXCEPT !.children = g, !.parent = f]
    BY <1>1 DEF Placed
  <2> QED BY <1>1, <2>1
<1>3. /\ f \in [Nodes -> Nodes \cup {NoParent}] /\ g \in [Nodes -> Seq(Nodes)]
      /\ f[n] = q /\ \A m \in Nodes : m # n => f[m] = t.parent[m]
      /\ g[q] = r /\ \A p \in Nodes : p # q => g[p] = t.children[p]
  BY <1>1
<1> HIDE DEF f, g
<1>4. \A p \in Nodes : IsInjective(g[p])
  BY <1>3, TreeIs
<1>5. \A p, m \in Nodes : f[m] = p <=> m \in ToSet(g[p])
  <2> SUFFICES ASSUME NEW p \in Nodes, NEW m \in Nodes PROVE f[m] = p <=> m \in ToSet(g[p])
    OBVIOUS
  <2>1. (t.parent[m] = p <=> m \in ToSet(t.children[p])) /\ ~(n \in ToSet(t.children[p]))
    <3>1. \A a, b \in Nodes : t.parent[b] = a <=> b \in ToSet(t.children[a])
      BY TreeIs
    <3> QED BY <3>1, NodesAre
  <2> QED BY <1>3, <2>1
<1>6. f[Root] = NoParent
  BY <1>3, NodesAre, TreeIs
<1>7. u.parent = f /\ u.children = g /\ u.data = t.data
  BY <1>2
<1>8. TreeInv(u)
  <2>1. Labels(t.data)
    BY TreeIs
  <2>2. Agrees(u)
    BY <1>4, <1>5, <1>6, <1>7 DEF Agrees
  <2>3. IsTree(u)
    BY <1>2, <1>3, <1>7, <2>1 DEF IsTree
  <2> QED BY <2>2, <2>3 DEF TreeInv
<1> QED BY <1>3, <1>7, <1>8 DEF Hung

\* append_child.
LEMMA AppendIs ==
    ASSUME NEW t, TreeInv(t), NEW n \in Nodes, n # Root, NEW p \in Nodes, NEW u, u = append_child(t, p, n)
    PROVE  TreeInv(u) /\ Hung(t, u, n, p)
<1>0. PICK v : v = detach(t, n)
  OBVIOUS
<1> DEFINE r == Append(v.children[p], n)
<1>1. TreeInv(v) /\ Hung(t, v, n, NoParent)
  BY <1>0, DetachIs
<1>3. u = Placed(v, n, p, r)
  BY <1>0 DEF append_child, Placed
<1>5. v.parent[n] = NoParent
  BY <1>1 DEF Hung
<1>6. v.children[p] \in Seq(Nodes) /\ IsInjective(v.children[p])
  BY <1>1, TreeIs
<1>2. n \notin ToSet(v.children[p])
  <2>1. v.parent[n] = p <=> n \in ToSet(v.children[p])
    BY <1>1, TreeIs
  <2> QED BY <1>5, <2>1, NodesAre
<1>7. r \in Seq(Nodes) /\ IsInjective(r) /\ ToSet(r) = ToSet(v.children[p]) \cup {n}
  BY <1>2, <1>6, Appended
<1> HIDE DEF r
<1>8. TreeInv(u) /\ Hung(v, u, n, p)
  <2>1. TreeInv(v) /\ v.parent[n] = NoParent
    BY <1>1, <1>5
  <2> QED BY <1>3, <1>7, <2>1, PlaceIs
<1> QED BY <1>1, <1>8 DEF Hung

\* insert_before_sibling: the lists from any node but the moved one on only lose nodes,
\* if the sibling is not in them.
LEMMA InsertIs ==
    ASSUME NEW t, TreeInv(t), NEW n \in Nodes, n # Root, NEW sib \in Nodes, sib # n, t.parent[sib] # NoParent,
           NEW q, q = t.parent[sib], NEW u, u = insert_before_sibling(t, n, sib)
    PROVE  /\ q \in Nodes /\ TreeInv(u) /\ u.data = t.data
           /\ Hung(t, u, n, q)
           /\ \A p \in Nodes : p # q /\ p # t.parent[n] => SameChildren(t, u, p)
           /\ KeepsOrder(t, u, n, n, q, sib)
<1>0. PICK v : v = detach(t, n)
  OBVIOUS
<1> DEFINE k == IndexIn(v, sib)
           r == InsertAt(v.children[q], k, n)
<1>1. /\ TreeInv(v) /\ v.data = t.data /\ Hung(t, v, n, NoParent)
      /\ \A p \in Nodes : p # t.parent[n] => v.children[p] = t.children[p]
      /\ \A p \in Nodes : \A x : x # n => Within(v.children[p], t.children[p], x)
  <2>1. TreeInv(v) /\ v.data = t.data /\ Hung(t, v, n, NoParent)
    BY <1>0, DetachIs
  <2>2. \A p \in Nodes : p # t.parent[n] => SameChildren(t, v, p)
    BY <1>0, DetachIs
  <2>3. ASSUME NEW p \in Nodes, NEW x, x # n PROVE Within(v.children[p], t.children[p], x)
    BY <1>0, <2>3, DetachIs
  <2> QED BY <2>1, <2>2, <2>3 DEF SameChildren
<1>2. q \in Nodes
  <2>1. t.parent \in [Nodes -> Nodes \cup {NoParent}]
    BY TreeIs
  <2> QED BY <2>1
<1>5. v.parent[sib] = q /\ v.parent[n] = NoParent
  BY <1>1 DEF Hung
<1>3. n \notin ToSet(v.children[q])
  <2>1. v.parent[n] = q <=> n \in ToSet(v.children[q])
    BY <1>1, <1>2, TreeIs
  <2> QED BY <1>2, <1>5, <2>1, NodesAre
<1>6. u = Placed(v, n, q, r)
  BY <1>0, <1>5 DEF insert_before_sibling, Placed
<1>7. k \in 1..Len(v.children[q]) /\ v.children[q][k] = sib
  <2>1. TreeInv(v) /\ v.parent[sib] # NoParent
    BY <1>1, <1>5
  <2>2. /\ IndexIn(v, sib) \in 1..Len(v.children[v.parent[sib]])
        /\ v.children[v.parent[sib]][IndexIn(v, sib)] = sib
    BY <2>1, IndexIs
  <2> QED BY <1>5, <2>2
<1>8. v.children[q] \in Seq(Nodes) /\ IsInjective(v.children[q])
  BY <1>1, <1>2, TreeIs
<1> HIDE DEF k
<1>9. /\ r \in Seq(Nodes) /\ IsInjective(r) /\ ToSet(r) = ToSet(v.children[q]) \cup {n}
      /\ \A x : x # n /\ sib \notin From(v.children[q], x) => From(r, x) \subseteq From(v.children[q], x)
  BY <1>3, <1>7, <1>8, Inserted
<1> HIDE DEF r
<1>10. /\ TreeInv(u) /\ u.data = v.data /\ Hung(v, u, n, q)
       /\ u.children[q] = r /\ \A p \in Nodes : p # q => u.children[p] = v.children[p]
  <2>1. TreeInv(v) /\ v.parent[n] = NoParent
    BY <1>1, <1>5
  <2>2. r \in Seq(Nodes) /\ IsInjective(r) /\ ToSet(r) = ToSet(v.children[q]) \cup {n}
    BY <1>9
  <2> HIDE DEF r
  <2> QED BY <1>2, <1>6, <2>1, <2>2, PlaceIs
<1>11. ASSUME NEW p \in Nodes, NEW x, x # n, p = q => sib \notin From(t.children[q], x)
       PROVE  Within(u.children[p], t.children[p], x)
  <2>1. From(v.children[p], x) \subseteq From(t.children[p], x)
    BY <1>1, <1>11 DEF Within
  <2>2. CASE p = q
    <3>1. sib \notin From(v.children[q], x)
      BY <1>11, <2>1, <2>2
    <3> QED BY <1>9, <1>10, <1>11, <2>1, <2>2, <3>1 DEF Within
  <2>3. CASE p # q
    BY <1>10, <2>1, <2>3 DEF Within
  <2> QED BY <2>2, <2>3
<1>12. KeepsOrder(t, u, n, n, q, sib)
  BY <1>11 DEF KeepsOrder
<1> QED BY <1>1, <1>2, <1>10, <1>12 DEF Hung, SameChildren

\* reparent_children.
HandedOver(t, u, n, q) ==
    /\ \A m \in Nodes : u.parent[m] = IF t.parent[m] = n THEN q ELSE t.parent[m]
    /\ n # q => u.children[q] = t.children[q] \o t.children[n]

LEMMA ReparentIs ==
    ASSUME NEW t, TreeInv(t), NEW n \in Nodes, NEW q \in Nodes, NEW u, u = reparent_children(t, n, q)
    PROVE  /\ TreeInv(u) /\ u.data = t.data
           /\ HandedOver(t, u, n, q)
           /\ \A p \in Nodes : p # n /\ p # q => SameChildren(t, u, p)
<1> DEFINE f == [m \in Nodes |-> IF m \in ToSet(t.children[n]) THEN q ELSE t.parent[m]]
           g == [[t.children EXCEPT ![n] = <<>>] EXCEPT ![q] = @ \o t.children[n]]
<1>1. /\ t = [parent |-> t.parent, children |-> t.children, data |-> t.data]
      /\ t.parent \in [Nodes -> Nodes \cup {NoParent}] /\ t.children \in [Nodes -> Seq(Nodes)]
  BY TreeIs
<1>2. u = [parent |-> f, children |-> g, data |-> t.data]
  <2>1. u = [t EXCEPT !.children = g, !.parent = f]
    BY DEF reparent_children
  <2> HIDE DEF f, g
  <2> QED BY <1>1, <2>1
<1>3. t.children[n] \in Seq(Nodes) /\ t.children[q] \in Seq(Nodes) /\ IsInjective(t.children[n]) /\ IsInjective(t.children[q])
  BY TreeIs
<1>4. \A p, m \in Nodes : t.parent[m] = p <=> m \in ToSet(t.children[p])
  BY TreeIs
<1>5. f \in [Nodes -> Nodes \cup {NoParent}] /\ \A m \in Nodes : f[m] = IF t.parent[m] = n THEN q ELSE t.parent[m]
  BY <1>1, <1>4
<1>6. \A p \in Nodes : p # n /\ p # q => g[p] = t.children[p]
  BY <1>1
<1>7. n # q => g[n] = <<>> /\ g[q] = t.children[q] \o t.children[n]
  BY <1>1
<1>8. n = q => g[n] = t.children[n]
  <2>1. n = q => g[n] = <<>> \o t.children[n]
    BY <1>1
  <2>2. <<>> \o t.children[n] = t.children[n]
    BY <1>3, ConcatEmptySeq
  <2> QED BY <2>1, <2>2
<1>9. DOMAIN g = Nodes /\ g = [p \in Nodes |-> g[p]]
  BY <1>1
<1>10. Labels(t.data) /\ t.parent[Root] = NoParent
  BY TreeIs
<1> HIDE DEF f, g
<1>11. n # q => /\ g[q] \in Seq(Nodes) /\ IsInjective(g[q])
                /\ ToSet(g[q]) = ToSet(t.children[q]) \cup ToSet(t.children[n])
  <2> SUFFICES ASSUME n # q
               PROVE  /\ g[q] \in Seq(Nodes) /\ IsInjective(g[q])
                      /\ ToSet(g[q]) = ToSet(t.children[q]) \cup ToSet(t.children[n])
    OBVIOUS
  <2>1. ToSet(t.children[q]) \cap ToSet(t.children[n]) = {}
    <3>1. ToSet(t.children[q]) \subseteq Nodes
      BY TreeIs
    <3> QED BY <1>4, <3>1
  <2>2. PICK a \in Seq(Nodes) : a = t.children[q]
    BY <1>3
  <2>3. PICK b \in Seq(Nodes) : b = t.children[n]
    BY <1>3
  <2>4. IsInjective(a) /\ IsInjective(b) /\ ToSet(a) \cap ToSet(b) = {}
    BY <1>3, <2>1, <2>2, <2>3
  <2>5. a \o b \in Seq(Nodes) /\ IsInjective(a \o b) /\ ToSet(a \o b) = ToSet(a) \cup ToSet(b)
    BY <2>4, Concatenated
  <2> QED BY <1>7, <2>2, <2>3, <2>5
<1>12. <<>> \in Seq(Nodes) /\ IsInjective(<<>>) /\ ToSet(<<>>) = {}
  BY DEF IsInjective, ToSet
<1>13. ASSUME NEW p \in Nodes
       PROVE  /\ g[p] \in Seq(Nodes) /\ IsInjective(g[p])
              /\ \A m \in Nodes : f[m] = p <=> m \in ToSet(g[p])
  <2>1. t.children[p] \in Seq(Nodes) /\ IsInjective(t.children[p])
    BY TreeIs
  <2>2. CASE n = q
    <3>1. g[p] = t.children[p]
      BY <1>6, <1>8, <2>2
    <3>2. \A m \in Nodes : f[m] = t.parent[m]
      BY <1>5, <2>2
    <3> QED BY <1>4, <2>1, <3>1, <3>2
  <2>3. CASE n # q /\ p # q
    <3>1. CASE p = n
      <4>1. g[p] = <<>>
        BY <1>7, <2>3, <3>1
      <4>2. \A m \in Nodes : f[m] # p
        BY <1>5, <2>3, <3>1
      <4> QED BY <1>12, <4>1, <4>2
    <3>2. CASE p # n
      <4>1. g[p] = t.children[p]
        BY <1>6, <2>3, <3>2
      <4>2. \A m \in Nodes : f[m] = p <=> t.parent[m] = p
        BY <1>5, <2>3, <3>2
      <4> QED BY <1>4, <2>1, <4>1, <4>2
    <3> QED BY <3>1, <3>2
  <2>4. CASE n # q /\ p = q
    <3>1. \A m \in Nodes : f[m] = p <=> t.parent[m] = q \/ t.parent[m] = n
      BY <1>5, <2>4
    <3>2. \A m \in Nodes : m \in ToSet(g[p]) <=> t.parent[m] = q \/ t.parent[m] = n
      BY <1>4, <1>11, <2>4
    <3> QED BY <1>11, <2>4, <3>1, <3>2
  <2> QED BY <2>2, <2>3, <2>4
<1>14. g \in [Nodes -> Seq(Nodes)]
  BY <1>9, <1>13
<1>15. f[Root] = NoParent
  BY <1>5, <1>10, NodesAre
<1>16. u.parent = f /\ u.children = g /\ u.data = t.data
  BY <1>2
<1>17. TreeInv(u)
  <2>1. f \in [Nodes -> Nodes \cup {NoParent}]
    BY <1>5
  <2>2. \A p \in Nodes : IsInjective(g[p])
    BY <1>13
  <2>3. \A p, m \in Nodes : f[m] = p <=> m \in ToSet(g[p])
    BY <1>13
  <2>4. Labels(t.data)
    BY <1>10
  <2>5. Agrees(u)
    BY <1>15, <1>16, <2>2, <2>3 DEF Agrees
  <2>6. IsTree(u)
    BY <1>2, <1>14, <1>16, <2>1, <2>4 DEF IsTree
  <2> QED BY <2>5, <2>6 DEF TreeInv
<1> QED BY <1>5, <1>6, <1>7, <1>16, <1>17 DEF HandedOver, SameChildren

\* A blank node is nobody's child and nobody's parent.
LEMMA BlankIs ==
    ASSUME NEW t, TreeInv(t), NEW n \in Nodes
    PROVE  Blank(t, n) <=> t.parent[n] = NoParent /\ \A x \in Nodes : t.parent[x] # n
<1>1. t.children[n] \in Seq(Nodes) /\ ToSet(t.children[n]) \subseteq Nodes
  BY TreeIs
<1>2. \A x \in Nodes : t.parent[x] = n <=> x \in ToSet(t.children[n])
  BY TreeIs
<1>3. t.children[n] = <<>> <=> ToSet(t.children[n]) = {}
  <2>1. PICK s \in Seq(Nodes) : s = t.children[n]
    BY <1>1
  <2>2. s = <<>> => ToSet(s) = {}
    BY DEF ToSet
  <2>3. s # <<>> => s[1] \in ToSet(s)
    BY DEF ToSet
  <2> QED BY <2>1, <2>2, <2>3
<1> QED BY <1>1, <1>2, <1>3 DEF Blank

\* A node gets other data.
Labelled(t, n, d) == [t EXCEPT !.data[n] = d]

LEMMA LabelIs ==
    ASSUME NEW t, TreeInv(t), NEW n \in Nodes, NEW d, IsData(d), NEW u, u = Labelled(t, n, d)
    PROVE  TreeInv(u) /\ u.parent = t.parent /\ u.children = t.children
<1> DEFINE e == [t.data EXCEPT ![n] = d]
<1>1. t = [parent |-> t.parent, children |-> t.children, data |-> t.data] /\ Labels(t.data)
  BY TreeIs
<1>2. Labels(e)
  <2>1. DOMAIN t.data = Nodes /\ t.data = [m \in Nodes |-> t.data[m]] /\ \A m \in Nodes : IsData(t.data[m])
    BY <1>1 DEF Labels
  <2>2. DOMAIN e = Nodes /\ e = [m \in Nodes |-> e[m]] /\ \A m \in Nodes : e[m] = IF m = n THEN d ELSE t.data[m]
    BY <2>1
  <2> HIDE DEF e
  <2>3. \A m \in Nodes : IsData(e[m])
    BY <2>1, <2>2
  <2> QED BY <2>2, <2>3 DEF Labels
<1>3. u = [t EXCEPT !.data = e]
  BY DEF Labelled
<1> HIDE DEF e
<1>4. u = [parent |-> t.parent, children |-> t.children, data |-> e]
  BY <1>1, <1>3
<1>5. u.parent = t.parent /\ u.children = t.children /\ u.data = e
  BY <1>4
<1>6. IsTree(u)
  <2>1. t.parent \in [Nodes -> Nodes \cup {NoParent}] /\ t.children \in [Nodes -> Seq(Nodes)]
    BY TreeIs
  <2> QED BY <1>2, <1>4, <1>5, <2>1 DEF IsTree
<1>7. Agrees(u)
  BY <1>5 DEF Agrees, TreeInv
<1> QED BY <1>5, <1>6, <1>7 DEF TreeInv

LEMMA DataIs ==
    ASSUME NEW t, TreeInv(t), NEW n \in Nodes, NEW x
    PROVE  /\ IsData([t.data[n] EXCEPT !.name = x]) /\ IsData([t.data[n] EXCEPT !.attrs = x])
           /\ [t EXCEPT !.data[n].attrs = x] = Labelled(t, n, [t.data[n] EXCEPT !.attrs = x])
<1>1. IsData(t.data[n])
  <2>1. Labels(t.data)
    BY TreeIs
  <2> QED BY <2>1 DEF Labels
<1>2. PICK d : d = t.data[n]
  OBVIOUS
<1>3. d = [kind |-> d.kind, name |-> d.name, attrs |-> d.attrs] /\ d.kind \in {"Element", "Text", "Other"}
  BY <1>1, <1>2 DEF IsData
<1>4. IsData([d EXCEPT !.name = x]) /\ IsData([d EXCEPT !.attrs = x])
  <2>1. [d EXCEPT !.name = x] = [kind |-> d.kind, name |-> x, attrs |-> d.attrs]
    BY <1>3
  <2>2. [d EXCEPT !.attrs = x] = [kind |-> d.kind, name |-> d.name, attrs |-> x]
    BY <1>3
  <2>3. \A a, b, c : c \in {"Element", "Text", "Other"} => IsData([kind |-> c, name |-> a, attrs |-> b])
    BY DEF IsData
  <2> QED BY <1>3, <2>1, <2>2, <2>3
<1> QED BY <1>2, <1>4 DEF Labelled

LEMMA ReplacementIs ==
    ASSUME NEW n \in Nodes
    PROVE  /\ Replacement(n) # n /\ Replacement(n) # Root
           /\ Replacement(n)[1] = n[1] /\ Replacement(n)[2] = n[2] + 1
<1>1. n[2] \in Nat
  <2>1. n[2] \in 0..MaxPasses
    BY NodesAre
  <2> QED BY <2>1
<1>2. Replacement(n)[1] = n[1] /\ Replacement(n)[2] = n[2] + 1
  BY DEF Replacement
<1>3. n[2] + 1 # n[2] /\ n[2] + 1 # 0
  BY <1>1
<1>4. Root[2] = 0
  BY DEF Root
<1> QED BY <1>2, <1>3, <1>4

\* replace_with_element_name.
LEMMA ReplaceIs ==
    ASSUME NEW t, TreeInv(t), NEW n \in Nodes, NEW r \in Nodes, r = Replacement(n), Blank(t, r),
           NEW q \in Nodes, t.parent[n] = q, q # n, NEW name, NEW u, u = replace_with_element_name(t, n, name)
    PROVE  /\ TreeInv(u)
           /\ Rehung(t, u, n, r, q)
           /\ u.children[r] = t.children[n]
           /\ KeepsOrder(t, u, n, r, q, n)
<1>1. r # n /\ r # Root
  BY ReplacementIs
<1>2. t.parent[r] = NoParent /\ t.children[r] = <<>> /\ q # r
  <2>1. t.parent[r] = NoParent /\ \A x \in Nodes : t.parent[x] # r
    BY BlankIs
  <2> QED BY <2>1 DEF Blank
<1>3. PICK made : made = [t EXCEPT !.data[r] = [t.data[n] EXCEPT !.name = name]]
  OBVIOUS
<1>4. PICK moved : moved = reparent_children(made, n, r)
  OBVIOUS
<1>5. PICK ins : ins = insert_before_sibling(moved, r, n)
  OBVIOUS
<1>6. u = detach(ins, n)
  BY <1>3, <1>4, <1>5 DEF replace_with_element_name
<1>7. TreeInv(made) /\ made.parent = t.parent /\ made.children = t.children
  <2>1. PICK d : d = [t.data[n] EXCEPT !.name = name]
    OBVIOUS
  <2>2. IsData(d)
    BY <2>1, DataIs
  <2>3. made = Labelled(t, r, d)
    BY <1>3, <2>1 DEF Labelled
  <2> QED BY <2>2, <2>3, LabelIs
<1>8. /\ TreeInv(moved)
      /\ \A m \in Nodes : moved.parent[m] = IF t.parent[m] = n THEN r ELSE t.parent[m]
      /\ moved.children[r] = t.children[r] \o t.children[n]
      /\ \A p \in Nodes : p # n /\ p # r => moved.children[p] = t.children[p]
  <2>1. TreeInv(made)
    BY <1>7
  <2>2. TreeInv(moved) /\ HandedOver(made, moved, n, r)
    BY <1>4, <2>1, ReparentIs
  <2>3. \A p \in Nodes : p # n /\ p # r => SameChildren(made, moved, p)
    BY <1>4, <2>1, ReparentIs
  <2> QED BY <1>1, <1>7, <2>2, <2>3 DEF HandedOver, SameChildren
<1>9. moved.parent[n] = q /\ moved.parent[r] = NoParent /\ moved.children[q] = t.children[q]
  <2>1. n # NoParent
    BY NodesAre
  <2> QED BY <1>2, <1>8, <2>1
<1>10. moved.children[r] = t.children[n]
  <2>1. t.children[n] \in Seq(Nodes)
    BY TreeIs
  <2>2. <<>> \o t.children[n] = t.children[n]
    BY <2>1, ConcatEmptySeq
  <2> QED BY <1>2, <1>8, <2>2
<1>11. /\ TreeInv(ins) /\ Hung(moved, ins, r, q)
       /\ \A p \in Nodes : p # q => SameChildren(moved, ins, p)
       /\ KeepsOrder(moved, ins, r, r, q, n)
  <2>1. moved.parent[n] # NoParent /\ q = moved.parent[n] /\ TreeInv(moved) /\ n # r
    BY <1>1, <1>8, <1>9, NodesAre
  <2>2. TreeInv(ins) /\ Hung(moved, ins, r, q)
    BY <1>1, <1>5, <2>1, InsertIs
  <2>3. \A p \in Nodes : p # q /\ p # moved.parent[r] => SameChildren(moved, ins, p)
    BY <1>1, <1>5, <2>1, InsertIs
  <2>4. KeepsOrder(moved, ins, r, r, q, n)
    BY <1>1, <1>5, <2>1, InsertIs
  <2> QED BY <1>9, <2>2, <2>3, <2>4, NodesAre
<1>12. \A m \in Nodes : ins.parent[m] = IF m = r THEN q ELSE moved.parent[m]
  BY <1>11 DEF Hung
<1>13. /\ TreeInv(u) /\ Hung(ins, u, n, NoParent)
       /\ \A p \in Nodes : p # q => SameChildren(ins, u, p)
       /\ \A p \in Nodes : \A x : x # n => Within(u.children[p], ins.children[p], x)
  <2>1. TreeInv(ins) /\ ins.parent[n] = q
    BY <1>1, <1>9, <1>11, <1>12
  <2>2. TreeInv(u) /\ Hung(ins, u, n, NoParent)
    BY <1>6, <2>1, DetachIs
  <2>3. \A p \in Nodes : p # ins.parent[n] => SameChildren(ins, u, p)
    BY <1>6, <2>1, DetachIs
  <2>4. \A p \in Nodes : \A x : x # n => Within(u.children[p], ins.children[p], x)
    BY <1>6, <2>1, DetachIs
  <2> QED BY <2>1, <2>2, <2>3, <2>4
<1>14. \A m \in Nodes : u.parent[m] = IF m = n THEN NoParent ELSE ins.parent[m]
  BY <1>13 DEF Hung
<1>15. Rehung(t, u, n, r, q)
  BY <1>1, <1>8, <1>12, <1>14 DEF Rehung
<1>16. u.children[r] = t.children[n]
  BY <1>2, <1>10, <1>11, <1>13 DEF SameChildren
<1>17. ASSUME NEW p \in Nodes \ {n, r}, NEW x, x # n, x # r, p = q => n \notin From(t.children[q], x)
       PROVE  Within(u.children[p], t.children[p], x)
  <2>1. Within(u.children[p], ins.children[p], x)
    BY <1>13, <1>17
  <2>2. Within(ins.children[p], moved.children[p], x)
    BY <1>9, <1>11, <1>17 DEF KeepsOrder
  <2>3. moved.children[p] = t.children[p]
    BY <1>8
  <2> QED BY <2>1, <2>2, <2>3 DEF Within
<1>18. TreeInv(u)
  BY <1>13
<1>19. KeepsOrder(t, u, n, r, q, n)
  BY <1>17 DEF KeepsOrder
<1> QED BY <1>15, <1>16, <1>18, <1>19

-----------------------------------------------------------------------------
(* The parser. *)

IsNew(created, n) == n[1] > created \/ n[2] > 0

\* A blank node stays blank when nothing is hung on it.
LEMMA StaysBlank ==
    ASSUME NEW t, TreeInv(t), NEW u, TreeInv(u), NEW n \in Nodes, NEW q, Hung(t, u, n, q),
           NEW m \in Nodes, m # n, m # q, Blank(t, m)
    PROVE  Blank(u, m)
<1>1. t.parent[m] = NoParent /\ \A x \in Nodes : t.parent[x] # m
  BY BlankIs
<1>2. u.parent[m] = NoParent
  BY <1>1 DEF Hung
<1>3. \A x \in Nodes : u.parent[x] # m
  BY <1>1 DEF Hung
<1> QED BY <1>2, <1>3, BlankIs

\* A parent is no blank node.
LEMMA ParentIsNotNew ==
    ASSUME NEW t, TreeInv(t), NEW n \in Nodes, t.parent[n] # NoParent
    PROVE  t.parent[n] \in Nodes /\ ~Blank(t, t.parent[n])
<1>1. t.parent[n] \in Nodes
  BY IndexIs
<1>2. Blank(t, t.parent[n]) => t.parent[n] # t.parent[n]
  BY <1>1, BlankIs
<1> QED BY <1>1, <1>2

\* The parser makes a node: Fresh gets its data and a place.
LEMMA GrowIs ==
    ASSUME HtmlInv, phase = "parse", 1 <= effort.nodes - effort.created, NEW d, IsData(d),
           NEW p \in Nodes, ~IsNew(effort.created, p), NEW u,
           \/ u = append_child(With(d), p, Fresh)
           \/ tree.parent[p] # NoParent /\ u = insert_before_sibling(With(d), Fresh, p)
    PROVE  TreeInv(u) /\ \A m \in Nodes : IsNew(effort.created + 1, m) => Blank(u, m)
<1>1. /\ effort.created \in Nat /\ effort.created + 1 \in 0..MaxNodes
      /\ \A m \in Nodes : IsNew(effort.created, m) => Blank(tree, m)
  <2>1. ParseInv
    BY DEF HtmlInv
  <2>2. effort.created \in Nat /\ effort.nodes \in 0..MaxNodes /\ MaxNodes \in Nat
    BY <2>1, TreeAssumption DEF ParseInv
  <2> QED BY <2>1, <2>2 DEF ParseInv, IsNew
<1>2. Fresh \in Nodes /\ Fresh # Root /\ Fresh[1] = effort.created + 1 /\ Fresh[2] = 0
  <2>1. 0 \in 0..MaxPasses
    BY TreeAssumption
  <2>2. Fresh \in Nodes
    BY <1>1, <2>1, NodesAre DEF Fresh
  <2>3. Fresh[1] = effort.created + 1 /\ Fresh[2] = 0 /\ Root[1] = 0
    BY DEF Fresh, Root
  <2>4. effort.created + 1 # 0
    BY <1>1
  <2> QED BY <2>2, <2>3, <2>4
<1>3. IsNew(effort.created, Fresh)
  <2>1. effort.created + 1 > effort.created
    BY <1>1
  <2> QED BY <1>2, <2>1 DEF IsNew
<1>4. TreeInv(tree)
  BY DEF HtmlInv
<1>5. PICK t : t = With(d)
  OBVIOUS
<1>6. TreeInv(t) /\ t.parent = tree.parent /\ t.children = tree.children
  <2>1. t = Labelled(tree, Fresh, d)
    BY <1>5 DEF With, Labelled
  <2> QED BY <1>2, <1>4, <2>1, LabelIs
<1>7. PICK q \in Nodes : TreeInv(u) /\ Hung(t, u, Fresh, q) /\ ~IsNew(effort.created, q)
  <2>1. CASE u = append_child(With(d), p, Fresh)
    <3>1. u = append_child(t, p, Fresh) /\ TreeInv(t)
      BY <1>5, <1>6, <2>1
    <3>2. TreeInv(u) /\ Hung(t, u, Fresh, p)
      BY <1>2, <3>1, AppendIs
    <3> QED BY <3>2
  <2>2. CASE tree.parent[p] # NoParent /\ u = insert_before_sibling(With(d), Fresh, p)
    <3>1. u = insert_before_sibling(t, Fresh, p) /\ TreeInv(t) /\ p # Fresh /\ t.parent[p] # NoParent
      BY <1>3, <1>5, <1>6, <2>2
    <3>2. t.parent[p] \in Nodes /\ TreeInv(u) /\ Hung(t, u, Fresh, t.parent[p])
      BY <1>2, <3>1, InsertIs
    <3>3. ~Blank(tree, tree.parent[p])
      BY <1>4, <2>2, ParentIsNotNew
    <3>4. ~IsNew(effort.created, t.parent[p])
      BY <1>1, <1>6, <3>2, <3>3
    <3> QED BY <3>2, <3>4
  <2> QED BY <2>1, <2>2
<1>8. ASSUME NEW m \in Nodes, IsNew(effort.created + 1, m) PROVE Blank(u, m)
  <2>1. m[1] \in 0..MaxNodes /\ m[2] \in 0..MaxPasses
    BY NodesAre
  <2>2. IsNew(effort.created, m) /\ m # Fresh
    BY <1>1, <1>2, <1>8, <2>1 DEF IsNew
  <2>3. m # q
    BY <1>7, <2>2
  <2>4. Blank(t, m)
    BY <1>1, <1>6, <2>2 DEF Blank
  <2>5. TreeInv(u) /\ Hung(t, u, Fresh, q) /\ TreeInv(t)
    BY <1>6, <1>7
  <2> QED BY <1>2, <2>2, <2>3, <2>4, <2>5, StaysBlank
<1> QED BY <1>7, <1>8

\* The parser hangs a node elsewhere, or takes it out.
LEMMA MoveIs ==
    ASSUME HtmlInv, phase = "parse", NEW u, TreeInv(u), NEW n \in Nodes, ~IsNew(effort.created, n),
           NEW q, Hung(tree, u, n, q), q \in Nodes => ~IsNew(effort.created, q)
    PROVE  \A m \in Nodes : IsNew(effort.created, m) => Blank(u, m)
<1> SUFFICES ASSUME NEW m \in Nodes, IsNew(effort.created, m) PROVE Blank(u, m)
  OBVIOUS
<1>1. Blank(tree, m) /\ TreeInv(tree)
  BY DEF HtmlInv, ParseInv, IsNew
<1>2. m # n /\ m # q
  OBVIOUS
<1> QED BY <1>1, <1>2, StaysBlank

LEMMA ParseStep ==
    ASSUME HtmlInv, NEW c \in {0, 1}, NEW mv \in {0, 1}, Parsing(c, mv), TreeInv(tree'),
           \A m \in Nodes : IsNew(effort.created + c, m) => Blank(tree', m)
    PROVE  HtmlInv'
<1>1. /\ phase = "parse" /\ c <= effort.nodes - effort.created /\ mv <= effort.moves
      /\ effort' = [effort EXCEPT !.created = @ + c, !.moves = @ - mv]
      /\ phase' = phase /\ config' = config /\ stack' = stack /\ passes' = passes
      /\ visited' = visited /\ before' = before /\ first' = first
  BY DEF Parsing
<1>2. ParseInv
  BY <1>1 DEF HtmlInv
<1>3. ParseInv'
  <2>1. effort' = [nodes |-> effort.nodes, moves |-> effort.moves - mv, created |-> effort.created + c]
    <3>1. effort = [nodes |-> effort.nodes, moves |-> effort.moves, created |-> effort.created]
      BY <1>2 DEF ParseInv
    <3> QED BY <1>1, <3>1
  <2>2. /\ effort'.nodes = effort.nodes /\ effort'.moves = effort.moves - mv
        /\ effort'.created = effort.created + c
        /\ effort' = [nodes |-> effort'.nodes, moves |-> effort'.moves, created |-> effort'.created]
    BY <2>1
  <2>3. effort.created \in Nat /\ effort.nodes \in 0..MaxNodes /\ effort.moves \in Nat /\ MaxNodes \in Nat
    BY <1>2, TreeAssumption DEF ParseInv
  <2>4. /\ effort'.created \in Nat /\ effort'.nodes \in 0..MaxNodes /\ effort'.moves \in Nat
        /\ effort'.created <= effort'.nodes
    BY <1>1, <2>2, <2>3
  <2>5. passes' = 0
    BY <1>1, <1>2 DEF ParseInv
  <2>6. \A n \in Nodes : n[1] > effort'.created \/ n[2] > 0 => Blank(tree', n)
    BY <2>2 DEF IsNew
  <2> QED BY <2>2, <2>4, <2>5, <2>6 DEF ParseInv
<1>4. NewInv'
  <2>1. \A n \in Nodes : n[2] > 0 => Blank(tree', n)
    BY <1>3 DEF ParseInv
  <2>2. ASSUME NEW n \in Nodes, Attached(tree', n) PROVE n[2] = 0
    <3>1. ~(n[2] > 0)
      BY <2>1, <2>2 DEF Attached, Blank
    <3>2. n[2] \in 0..MaxPasses /\ MaxPasses \in Nat
      BY NodesAre, TreeAssumption
    <3> QED BY <3>1, <3>2
  <2>3. passes' = 0
    BY <1>3 DEF ParseInv
  <2>4. \A n \in Nodes : Attached(tree', n) => n[2] <= passes'
    BY <2>2, <2>3
  <2>5. \A n, m \in Nodes : Attached(tree', n) /\ Later(m, n) => Blank(tree', m)
    BY <2>1, <2>2 DEF Later
  <2> QED BY <2>4, <2>5 DEF NewInv
<1>5. /\ phase' \in {"parse", "clean", "done"} /\ config' \in Configs /\ passes' \in 0..MaxPasses
      /\ TreeInv(before') /\ TreeInv(first') /\ visited' \in Seq(Nodes) /\ IsInjective(visited')
      /\ stack' \in Seq(Frames)
      /\ phase' # "clean" /\ stack' = <<>>
  BY <1>1 DEF HtmlInv
<1> QED BY <1>3, <1>4, <1>5 DEF HtmlInv

LEMMA ParseKeeps == HtmlInv /\ Parse => HtmlInv'
<1> SUFFICES ASSUME HtmlInv, Parse PROVE HtmlInv'
  OBVIOUS
<1>1. phase = "parse"
  BY DEF Parse, AppendNode, AppendText, AppendBasedOnParent, TextBasedOnParent, RemoveFromParent,
         ReparentChildren, MoveNode, Parsing
<1>2. TreeInv(tree) /\ ParseInv /\ config \in Configs
  BY <1>1 DEF HtmlInv
<1>3. \A m \in Nodes : IsNew(effort.created, m) => Blank(tree, m)
  BY <1>2 DEF ParseInv, IsNew
<1>4. effort.created \in Nat /\ effort.created <= MaxNodes
  BY <1>2, TreeAssumption DEF ParseInv
<1>5. \A n \in Created \cup {Root} : n \in Nodes /\ ~IsNew(effort.created, n)
  <2>1. ASSUME NEW n \in Created PROVE n \in Nodes /\ ~IsNew(effort.created, n)
    <3>1. PICK a \in 1..effort.created : n = <<a, 0>>
      BY <2>1 DEF Created
    <3>2. a \in 0..MaxNodes /\ 0 \in 0..MaxPasses /\ ~(a > effort.created)
      BY <1>4, TreeAssumption
    <3>3. n \in Nodes
      BY <3>1, <3>2, NodesAre
    <3> QED BY <3>1, <3>2, <3>3 DEF IsNew
  <2>2. ~IsNew(effort.created, Root)
    BY <1>4 DEF IsNew, Root
  <2> QED BY <2>1, <2>2, NodesAre
<1>6. \A n \in Elements : n \in Created
  BY DEF Elements
<1>7. \A n \in Open : n \in Created \cup {Root}
  BY DEF Open
<1>8. \A d \in Tags[config] : IsData(d)
  <2> SUFFICES ASSUME NEW d \in Tags[config] PROVE IsData(d)
    OBVIOUS
  <2>1. d \in {Text, Other} \/ d = Element(d.name, d.attrs)
    BY <1>2, HtmlAssumption
  <2>2. \A a, b, k : k \in {"Element", "Text", "Other"} => IsData([kind |-> k, name |-> a, attrs |-> b])
    BY DEF IsData
  <2> QED BY <2>1, <2>2 DEF Text, Other, Element
<1>9. IsData(Text)
  <2>1. \A a, b, k : k \in {"Element", "Text", "Other"} => IsData([kind |-> k, name |-> a, attrs |-> b])
    BY DEF IsData
  <2> QED BY <2>1 DEF Text
<1>10. ASSUME NEW p \in Nodes, ~IsNew(effort.created, p), NEW d, IsData(d), NEW mv \in {0, 1}, Parsing(1, mv),
              \/ tree' = append_child(With(d), p, Fresh)
              \/ tree.parent[p] # NoParent /\ tree' = insert_before_sibling(With(d), Fresh, p)
       PROVE  HtmlInv'
  <2>1. 1 <= effort.nodes - effort.created
    BY <1>10 DEF Parsing
  <2>2. TreeInv(tree') /\ \A m \in Nodes : IsNew(effort.created + 1, m) => Blank(tree', m)
    BY <1>1, <1>10, <2>1, GrowIs
  <2> QED BY <1>10, <2>2, ParseStep
<1>11. ASSUME Parsing(0, 1), TreeInv(tree'), \A m \in Nodes : IsNew(effort.created, m) => Blank(tree', m)
       PROVE  HtmlInv'
  <2>1. effort.created + 0 = effort.created
    BY <1>4
  <2> QED BY <1>11, <2>1, ParseStep
<1>12. ASSUME Parsing(0, 1), tree' = tree PROVE HtmlInv'
  BY <1>2, <1>3, <1>11, <1>12
<1>13. ASSUME NEW p \in Open, NEW data \in Tags[config] \ {Text}, AppendNode(p, data) PROVE HtmlInv'
  BY <1>5, <1>7, <1>8, <1>10, <1>13 DEF AppendNode
<1>14. ASSUME NEW p \in Open, AppendText(p) PROVE HtmlInv'
  <2>1. CASE IsText(last_child(tree, p))
    BY <1>12, <1>14, <2>1 DEF AppendText
  <2>2. CASE ~IsText(last_child(tree, p))
    BY <1>5, <1>7, <1>9, <1>10, <1>14, <2>2 DEF AppendText
  <2> QED BY <2>1, <2>2
<1>15. ASSUME NEW e \in Elements, NEW p \in Open, NEW data \in Tags[config] \ {Text}, AppendBasedOnParent(e, p, data)
       PROVE  HtmlInv'
  <2>1. CASE tree.parent[e] = NoParent
    BY <1>5, <1>7, <1>8, <1>10, <1>15, <2>1 DEF AppendBasedOnParent
  <2>2. CASE tree.parent[e] # NoParent
    BY <1>5, <1>6, <1>8, <1>10, <1>15, <2>2 DEF AppendBasedOnParent
  <2> QED BY <2>1, <2>2
<1>16. ASSUME NEW e \in Elements, NEW p \in Open, TextBasedOnParent(e, p) PROVE HtmlInv'
  <2>1. CASE Parsing(0, 1) /\ tree' = tree
    BY <1>12, <2>1
  <2>2. CASE Parsing(1, 1) /\ tree' = append_child(With(Text), p, Fresh)
    BY <1>5, <1>7, <1>9, <1>10, <2>2
  <2>3. CASE tree.parent[e] # NoParent /\ Parsing(1, 1) /\ tree' = insert_before_sibling(With(Text), Fresh, e)
    BY <1>5, <1>6, <1>9, <1>10, <2>3
  <2> QED BY <1>16, <2>1, <2>2, <2>3 DEF TextBasedOnParent
<1>17. ASSUME NEW n \in Created, RemoveFromParent(n) PROVE HtmlInv'
  <2>1. Parsing(0, 1) /\ tree' = detach(tree, n) /\ n \in Nodes /\ ~IsNew(effort.created, n)
    BY <1>5, <1>17 DEF RemoveFromParent
  <2>2. TreeInv(tree') /\ Hung(tree, tree', n, NoParent)
    BY <1>2, <2>1, DetachIs
  <2>3. \A m \in Nodes : IsNew(effort.created, m) => Blank(tree', m)
    BY <1>1, <2>1, <2>2, NodesAre, MoveIs
  <2> QED BY <1>11, <2>1, <2>2, <2>3
<1>18. ASSUME NEW n \in Elements, NEW p \in Elements, ReparentChildren(n, p) PROVE HtmlInv'
  <2>1. /\ Parsing(0, 1) /\ tree' = reparent_children(tree, n, p) /\ n \in Nodes /\ p \in Nodes
        /\ ~IsNew(effort.created, p)
    BY <1>5, <1>6, <1>18 DEF ReparentChildren
  <2>2. TreeInv(tree') /\ HandedOver(tree, tree', n, p)
    BY <1>2, <2>1, ReparentIs
  <2>3. ASSUME NEW m \in Nodes, IsNew(effort.created, m) PROVE Blank(tree', m)
    <3>1. tree.parent[m] = NoParent /\ \A x \in Nodes : tree.parent[x] # m
      BY <1>2, <1>3, <2>3, BlankIs
    <3>2. m # p /\ n # NoParent
      BY <2>1, <2>3, NodesAre
    <3>3. \A x \in Nodes : tree'.parent[x] = IF tree.parent[x] = n THEN p ELSE tree.parent[x]
      BY <2>2 DEF HandedOver
    <3>4. tree'.parent[m] = NoParent /\ \A x \in Nodes : tree'.parent[x] # m
      BY <3>1, <3>2, <3>3
    <3> QED BY <2>2, <3>4, BlankIs
  <2> QED BY <1>11, <2>1, <2>2, <2>3
<1>19. ASSUME NEW n \in Created, NEW p \in Elements \cup {Root}, MoveNode(n, p) PROVE HtmlInv'
  <2>1. Parsing(0, 1) /\ tree' = append_child(tree, p, n)
    BY <1>19 DEF MoveNode
  <2>2. n \in Nodes /\ p \in Nodes /\ ~IsNew(effort.created, n) /\ ~IsNew(effort.created, p)
    BY <1>5, <1>6
  <2>3. n # Root
    <3>1. PICK a \in 1..effort.created : n = <<a, 0>>
      BY DEF Created
    <3>2. a # 0 /\ n[1] = a /\ Root[1] = 0
      BY <1>4, <3>1 DEF Root
    <3> QED BY <3>2
  <2>4. TreeInv(tree') /\ Hung(tree, tree', n, p)
    BY <1>2, <2>1, <2>2, <2>3, AppendIs
  <2>5. \A m \in Nodes : IsNew(effort.created, m) => Blank(tree', m)
    BY <1>1, <2>2, <2>4, MoveIs
  <2> QED BY <1>11, <2>1, <2>4, <2>5
<1> QED BY <1>13, <1>14, <1>15, <1>16, <1>17, <1>18, <1>19 DEF Parse

-----------------------------------------------------------------------------
(* The walk. *)

\* The frames of the stack are functions of its positions.
LEMMA StackIs ==
    ASSUME HtmlInv
    PROVE  /\ stack \in Seq(Frames) /\ Len(stack) \in Nat /\ DOMAIN stack = 1..Len(stack)
           /\ \A k \in DOMAIN stack : stack[k] \in Frames /\ stack[k].node \in Nodes /\ stack[k].next \subseteq Nodes
<1>1. stack \in Seq(Frames)
  BY DEF HtmlInv
<1>2. Len(stack) \in Nat /\ DOMAIN stack = 1..Len(stack) /\ \A k \in DOMAIN stack : stack[k] \in Frames
  BY <1>1
<1>3. \A f \in Frames : f.node \in Nodes /\ f.next \subseteq Nodes
  BY DEF Frames
<1> QED BY <1>1, <1>2, <1>3

LEMMA FirstChildIs ==
    ASSUME NEW s \in Seq(Nodes), NEW x \in {s[k] : k \in DOMAIN s \cap {1}}
    PROVE  x = s[1] /\ x \in ToSet(s) /\ {s[k] : k \in DOMAIN s \cap {1}} = {x}
<1>1. 1 \in DOMAIN s /\ x = s[1]
  OBVIOUS
<1> QED BY <1>1 DEF ToSet

LEMMA InitKeeps == Init => HtmlInv
<1> SUFFICES ASSUME Init PROVE HtmlInv
  OBVIOUS
<1>1. TreeInv(EmptyTree)
  <2> DEFINE f == [n \in Nodes |-> NoParent]
             g == [n \in Nodes |-> <<>>]
             d == [n \in Nodes |-> IF n = Root THEN Element("html", {}) ELSE Other]
  <2>1. EmptyTree = [parent |-> f, children |-> g, data |-> d]
    BY DEF EmptyTree
  <2>2. <<>> \in Seq(Nodes) /\ IsInjective(<<>>) /\ ToSet(<<>>) = {}
    BY DEF IsInjective, ToSet
  <2>3. f \in [Nodes -> Nodes \cup {NoParent}] /\ g \in [Nodes -> Seq(Nodes)] /\ f[Root] = NoParent
    BY <2>2, NodesAre
  <2>4. Labels(d)
    <3>1. \A a, b, k : k \in {"Element", "Text", "Other"} => IsData([kind |-> k, name |-> a, attrs |-> b])
      BY DEF IsData
    <3>2. IsData(Element("html", {})) /\ IsData(Other)
      BY <3>1 DEF Element, Other
    <3>3. DOMAIN d = Nodes /\ d = [n \in Nodes |-> d[n]] /\ \A n \in Nodes : IsData(d[n])
      BY <3>2
    <3> HIDE DEF d
    <3> QED BY <3>3 DEF Labels
  <2>5. (\A p \in Nodes : IsInjective(g[p])) /\ \A p, n \in Nodes : f[n] = p <=> n \in ToSet(g[p])
    BY <2>2, NodesAre
  <2> HIDE DEF f, g, d
  <2> QED BY <2>1, <2>3, <2>4, <2>5, TreeOf
<1>2. \A n \in Nodes : Blank(EmptyTree, n)
  BY DEF Blank, EmptyTree
<1>3. /\ phase = "parse" /\ config \in Configs /\ tree = EmptyTree /\ before = EmptyTree /\ first = EmptyTree
      /\ stack = <<>> /\ passes = 0 /\ visited = <<>>
  BY DEF Init
<1>4. NewInv
  BY <1>2, <1>3 DEF NewInv, Attached, Blank
<1>5. ParseInv
  <2>1. PICK e \in Efforts : effort = [nodes |-> e[1], moves |-> e[2], created |-> 0]
    BY DEF Init
  <2>2. e[1] \in 0..MaxNodes /\ e[2] \in Nat /\ MaxNodes \in Nat
    BY HtmlAssumption, TreeAssumption
  <2>3. effort.nodes = e[1] /\ effort.moves = e[2] /\ effort.created = 0
    BY <2>1
  <2>4. effort = [nodes |-> effort.nodes, moves |-> effort.moves, created |-> effort.created]
    BY <2>1
  <2>5. effort.created <= effort.nodes /\ effort.created \in Nat
    BY <2>2, <2>3
  <2> QED BY <1>2, <1>3, <2>2, <2>3, <2>4, <2>5 DEF ParseInv
<1>6. passes \in 0..MaxPasses
  BY <1>3, TreeAssumption
<1>7. visited \in Seq(Nodes) /\ IsInjective(visited) /\ stack \in Seq(Frames)
  BY <1>3 DEF IsInjective
<1> QED BY <1>1, <1>3, <1>4, <1>5, <1>6, <1>7 DEF HtmlInv

LEMMA SanitizeKeeps == HtmlInv /\ SanitizeWith => HtmlInv'
<1> SUFFICES ASSUME HtmlInv, SanitizeWith PROVE HtmlInv'
  OBVIOUS
<1> DEFINE frame == [node |-> Root, action |-> "None", depth |-> -1, next |-> first_child(tree, Root)]
           s == tree.children[Root]
<1>1. /\ passes < MaxPasses /\ phase' = "clean" /\ passes' = passes + 1 /\ stack' = <<frame>>
      /\ visited' = <<>> /\ before' = tree /\ config' = config /\ tree' = tree /\ first' = first
  BY DEF SanitizeWith
<1>2. /\ config \in Configs /\ passes \in 0..MaxPasses /\ TreeInv(tree) /\ TreeInv(first) /\ NewInv
  BY DEF HtmlInv
<1>3. passes \in Nat /\ passes + 1 \in 0..MaxPasses /\ passes + 1 >= 1
  BY <1>1, <1>2, TreeAssumption
<1>4. s \in Seq(Nodes) /\ ToSet(s) \subseteq Nodes
  BY <1>2, NodesAre, TreeIs
<1>5. frame \in Frames
  <2>1. first_child(tree, Root) \subseteq Nodes
    BY <1>4 DEF first_child
  <2> QED BY <2>1, NodesAre DEF Frames
<1>6. frame.node = Root /\ frame.action = "None" /\ frame.next = first_child(tree, Root)
  OBVIOUS
<1> HIDE DEF frame
<1>7. stack' \in Seq(Frames) /\ Len(stack') = 1 /\ DOMAIN stack' = {1} /\ stack'[1] = frame
  BY <1>1, <1>5
<1>8. \A n : ~Touched(visited', n)
  BY <1>1 DEF Touched, ToSet
<1>9. StackInv'
  <2>1. ASSUME NEW x \in frame.next
        PROVE  x \in ToSet(s) /\ frame.next = {x}
    BY <1>4, <1>6, <2>1, FirstChildIs DEF first_child
  <2>2. /\ Len(stack') > 0 /\ stack'[1].node = Root /\ stack'[1].action = "None"
        /\ \A j, k \in DOMAIN stack' : stack'[j].node = stack'[k].node => j = k
    BY <1>6, <1>7
  <2>3. \A k \in DOMAIN stack' : ~(k > 1)
    BY <1>7
  <2>4. \A k \in DOMAIN stack' : \A x \in stack'[k].next :
           /\ x \in ToSet(tree'.children[stack'[k].node]) /\ stack'[k].next = {x}
           /\ \A y \in From(tree'.children[stack'[k].node], x) : ~Touched(visited', y)
    BY <1>1, <1>6, <1>7, <1>8, <2>1
  <2> QED BY <2>2, <2>3, <2>4 DEF StackInv
<1>10. \A n \in Nodes : Attached(tree, n) => n[2] <= passes /\ n[2] \in Nat
  <2>1. \A n \in Nodes : n[2] \in Nat
    BY NodesAre, TreeAssumption
  <2> QED BY <1>2, <2>1 DEF NewInv
<1>11. WalkInv'
  <2>1. \A n \in Nodes : Attached(tree', n) /\ n[2] = passes' => Touched(visited', n)
    BY <1>1, <1>3, <1>10
  <2>2. \A n, m \in Nodes : Attached(tree', n) /\ Later(m, n) => \A k \in DOMAIN stack' : stack'[k].node # m
    <3> SUFFICES ASSUME NEW n \in Nodes, NEW m \in Nodes, Attached(tree, n), Later(m, n) PROVE m # Root
      BY <1>1, <1>6, <1>7
    <3>1. m[2] > n[2] /\ n[2] \in Nat /\ Root[2] = 0
      BY <1>10 DEF Later, Root
    <3> QED BY <3>1
  <2> QED BY <1>1, <1>3, <1>8, <1>9, <2>1, <2>2 DEF WalkInv
<1>12. NewInv'
  BY <1>1, <1>2, <1>3, <1>10 DEF NewInv
<1>13. visited' \in Seq(Nodes) /\ IsInjective(visited')
  BY <1>1 DEF IsInjective
<1> QED BY <1>1, <1>2, <1>3, <1>7, <1>11, <1>12, <1>13 DEF HtmlInv

LEMMA FinishKeeps == HtmlInv /\ Finish => HtmlInv'
<1> SUFFICES ASSUME HtmlInv, Finish PROVE HtmlInv'
  OBVIOUS
<1>1. /\ phase' = "done" /\ stack' = <<>> /\ first' \in {tree, first}
      /\ config' = config /\ tree' = tree /\ passes' = passes /\ visited' = visited /\ before' = before
  BY DEF Finish
<1>2. NewInv'
  BY <1>1 DEF HtmlInv, NewInv
<1>3. TreeInv(first')
  BY <1>1 DEF HtmlInv
<1>4. stack' \in Seq(Frames)
  BY <1>1
<1> QED BY <1>1, <1>2, <1>3, <1>4 DEF HtmlInv

\* The end of clean_node takes at most its own node out of the tree.
AtMostOut(t, u, n) == \A m \in Nodes : u.parent[m] = t.parent[m] \/ (m = n /\ u.parent[m] = NoParent)

LEMMA LeftIs ==
    ASSUME NEW t, TreeInv(t), NEW n \in Nodes, NEW c, NEW u,
           \/ u = detach(t, n)
           \/ u = [t EXCEPT !.data[n] = clean_element_attributes(c, @)]
           \/ u = t
    PROVE  /\ TreeInv(u)
           /\ AtMostOut(t, u, n)
           /\ \A p \in Nodes : \A x : x # n => Within(u.children[p], t.children[p], x)
<1>1. CASE u = detach(t, n)
  <2>1. TreeInv(u) /\ Hung(t, u, n, NoParent)
    BY <1>1, DetachIs
  <2>2. \A p \in Nodes : \A x : x # n => Within(u.children[p], t.children[p], x)
    BY <1>1, DetachIs
  <2>3. AtMostOut(t, u, n)
    BY <2>1 DEF AtMostOut, Hung
  <2> QED BY <2>1, <2>2, <2>3
<1>2. CASE u = [t EXCEPT !.data[n] = clean_element_attributes(c, @)]
  <2>1. PICK d : d = clean_element_attributes(c, t.data[n])
    OBVIOUS
  <2>2. PICK a : d = [t.data[n] EXCEPT !.attrs = a]
    BY <2>1 DEF clean_element_attributes
  <2>3. IsData(d)
    BY <2>2, DataIs
  <2>4. u = Labelled(t, n, d)
    BY <1>2, <2>1 DEF Labelled
  <2>5. TreeInv(u) /\ u.parent = t.parent /\ u.children = t.children
    BY <2>3, <2>4, LabelIs
  <2> QED BY <2>5 DEF AtMostOut, Within
<1>3. CASE u = t
  BY <1>3 DEF AtMostOut, Within
<1> QED BY <1>1, <1>2, <1>3

LEMMA FrontIs ==
    ASSUME HtmlInv, Len(stack) > 1
    PROVE  /\ Front(stack) \in Seq(Frames) /\ Len(Front(stack)) = Len(stack) - 1
           /\ DOMAIN Front(stack) = 1..(Len(stack) - 1)
           /\ \A k \in 1..(Len(stack) - 1) : Front(stack)[k] = stack[k]
<1> DEFINE K == Len(stack)
<1>1. stack \in Seq(Frames) /\ K \in Nat /\ K - 1 \in Int /\ \A j \in 1..(K - 1) : stack[j] \in Frames
  BY StackIs
<1>2. /\ SubSeq(stack, 1, K - 1) \in Seq(Frames)
      /\ Len(SubSeq(stack, 1, K - 1)) = (IF 1 <= K - 1 THEN (K - 1) - 1 + 1 ELSE 0)
      /\ \A j \in 1..((K - 1) - 1 + 1) : SubSeq(stack, 1, K - 1)[j] = stack[1 + j - 1]
  BY <1>1, SubSeqProperties
<1>3. (K - 1) - 1 + 1 = K - 1 /\ \A j \in 1..(K - 1) : 1 + j - 1 = j
  BY <1>1
<1>4. /\ Front(stack) \in Seq(Frames) /\ Len(Front(stack)) = K - 1
      /\ \A k \in 1..(K - 1) : Front(stack)[k] = stack[k]
  BY <1>1, <1>2, <1>3 DEF Front
<1> QED BY <1>4

LEMMA LeaveKeeps == HtmlInv /\ Leave => HtmlInv'
<1> SUFFICES ASSUME HtmlInv, Leave PROVE HtmlInv'
  OBVIOUS
<1> DEFINE K == Len(stack)
           T == stack[K].node
<1>1. /\ phase = "clean" /\ K > 1 /\ stack' = Front(stack) /\ tree' = Left
      /\ phase' = phase /\ config' = config /\ passes' = passes /\ visited' = visited
      /\ before' = before /\ first' = first
  BY DEF Leave
<1>2. TreeInv(tree) /\ NewInv /\ WalkInv /\ StackInv
  BY <1>1 DEF HtmlInv, WalkInv
<1>3. K \in Nat /\ K \in DOMAIN stack /\ T \in Nodes /\ DOMAIN stack = 1..K
  BY <1>1, StackIs
<1>4. Touched(visited, T)
  BY <1>1, <1>2, <1>3 DEF StackInv
<1>5. /\ TreeInv(tree')
      /\ \A m \in Nodes : tree'.parent[m] = tree.parent[m] \/ (m = T /\ tree'.parent[m] = NoParent)
      /\ \A p \in Nodes : \A x : x # T => Within(tree'.children[p], tree.children[p], x)
  <2>1. \/ tree' = detach(tree, T)
        \/ tree' = [tree EXCEPT !.data[T] = clean_element_attributes(config, @)]
        \/ tree' = tree
    BY <1>1 DEF Left, Top, Last
  <2>2. TreeInv(tree) /\ T \in Nodes
    BY <1>2, <1>3
  <2> HIDE DEF T, K
  <2>3. TreeInv(tree') /\ AtMostOut(tree, tree', T)
    BY <2>1, <2>2, LeftIs
  <2>4. \A p \in Nodes : \A x : x # T => Within(tree'.children[p], tree.children[p], x)
    BY <2>1, <2>2, LeftIs
  <2> QED BY <2>3, <2>4 DEF AtMostOut
<1>6. /\ stack' \in Seq(Frames) /\ Len(stack') = K - 1 /\ DOMAIN stack' = 1..(K - 1)
      /\ \A k \in 1..(K - 1) : stack'[k] = stack[k]
  BY <1>1, FrontIs
<1>7. \A n : Touched(visited', n) <=> Touched(visited, n)
  BY <1>1
<1>8. \A k \in 1..(K - 1) : k \in DOMAIN stack /\ stack[k].node \in Nodes /\ stack[k].node # T /\ k # K
  <2> SUFFICES ASSUME NEW k \in 1..(K - 1)
               PROVE  k \in DOMAIN stack /\ stack[k].node \in Nodes /\ stack[k].node # T /\ k # K
    OBVIOUS
  <2>1. k \in DOMAIN stack /\ k # K
    <3> HIDE DEF K, T
    <3> QED BY <1>3
  <2>2. stack[k].node \in Nodes
    BY <2>1, StackIs
  <2>3. stack[k].node # T
    BY <1>2, <1>3, <2>1 DEF StackInv
  <2> QED BY <2>1, <2>2, <2>3
<1>9. \A n \in Nodes : Attached(tree', n) => Attached(tree, n) /\ tree'.parent[n] = tree.parent[n]
  BY <1>5 DEF Attached
<1>10. ASSUME NEW m \in Nodes, Blank(tree, m) PROVE Blank(tree', m)
  <2>1. tree.parent[m] = NoParent /\ \A x \in Nodes : tree.parent[x] # m
    BY <1>2, <1>10, BlankIs
  <2>2. tree'.parent[m] = NoParent /\ \A x \in Nodes : tree'.parent[x] # m
    BY <1>5, <2>1, NodesAre
  <2> QED BY <1>5, <2>2, BlankIs
<1> HIDE DEF K, T
<1>11. StackInv'
  <2>1. /\ Len(stack') > 0 /\ stack'[1].node = Root /\ stack'[1].action = "None"
    <3>1. 1 \in 1..(K - 1) /\ K - 1 > 0
      BY <1>1, <1>3
    <3> QED BY <1>2, <1>6, <3>1 DEF StackInv
  <2>2. \A j, k \in DOMAIN stack' : stack'[j].node = stack'[k].node => j = k
    BY <1>2, <1>6, <1>8 DEF StackInv
  <2>3. ASSUME NEW k \in DOMAIN stack', k > 1
        PROVE  Touched(visited', stack'[k].node) /\ \E j \in 1..(k - 1) : tree'.parent[stack'[k].node] = stack'[j].node
    <3>1. k \in 1..(K - 1) /\ stack'[k] = stack[k] /\ k \in DOMAIN stack
      BY <1>6, <1>8
    <3>2. PICK j \in 1..(k - 1) : tree.parent[stack[k].node] = stack[j].node
      BY <1>2, <2>3, <3>1 DEF StackInv
    <3>3. j \in 1..(K - 1) /\ stack'[j] = stack[j]
      BY <1>3, <1>6, <3>1, <3>2
    <3>4. tree'.parent[stack[k].node] = tree.parent[stack[k].node]
      BY <1>5, <1>8, <3>1
    <3>5. Touched(visited, stack[k].node)
      BY <1>2, <2>3, <3>1 DEF StackInv
    <3> QED BY <1>7, <3>1, <3>2, <3>3, <3>4, <3>5
  <2>4. ASSUME NEW k \in DOMAIN stack', NEW x \in stack'[k].next
        PROVE  /\ x \in ToSet(tree'.children[stack'[k].node]) /\ stack'[k].next = {x}
               /\ \A y \in From(tree'.children[stack'[k].node], x) : ~Touched(visited', y)
    <3>1. k \in 1..(K - 1) /\ stack'[k] = stack[k] /\ k \in DOMAIN stack /\ stack[k].node \in Nodes
      BY <1>6, <1>8
    <3>2. /\ x \in ToSet(tree.children[stack[k].node]) /\ stack[k].next = {x}
          /\ \A y \in From(tree.children[stack[k].node], x) : ~Touched(visited, y)
      BY <1>2, <2>4, <3>1 DEF StackInv
    <3>3. x \in From(tree.children[stack[k].node], x) /\ x \in Nodes
      <4>1. tree.children[stack[k].node] \in Seq(Nodes) /\ IsInjective(tree.children[stack[k].node])
        BY <1>2, <3>1, TreeIs
      <4>2. x \in Nodes
        BY <1>2, <3>1, <3>2, TreeIs
      <4> QED BY <3>2, <4>1, <4>2, FromIs
    <3>4. x # T
      BY <1>4, <3>2, <3>3
    <3>5. Within(tree'.children[stack[k].node], tree.children[stack[k].node], x)
      BY <1>5, <3>1, <3>4
    <3>6. x \in ToSet(tree'.children[stack[k].node])
      <4>1. tree.parent[x] = stack[k].node
        BY <1>2, <3>1, <3>2, <3>3, TreeIs
      <4>2. tree'.parent[x] = stack[k].node
        BY <1>5, <3>3, <3>4, <4>1
      <4> QED BY <1>5, <3>1, <3>3, <4>2, TreeIs
    <3> QED BY <1>7, <3>1, <3>2, <3>5, <3>6 DEF Within
  <2> QED BY <2>1, <2>2, <2>3, <2>4 DEF StackInv
<1>12. NewInv'
  BY <1>1, <1>2, <1>9, <1>10 DEF NewInv
<1>13. WalkInv'
  <2>1. passes' >= 1 /\ \A n \in Nodes : Attached(tree', n) /\ n[2] = passes' => Touched(visited', n)
    BY <1>1, <1>2, <1>7, <1>9 DEF WalkInv
  <2>2. \A n \in Nodes : Touched(visited', n) /\ Attached(tree', n) => tree'.parent[n] = Root \/ Touched(visited', tree'.parent[n])
    BY <1>2, <1>7, <1>9 DEF WalkInv
  <2>3. \A n, m \in Nodes : Attached(tree', n) /\ Later(m, n) => \A k \in DOMAIN stack' : stack'[k].node # m
    BY <1>2, <1>6, <1>8, <1>9 DEF WalkInv
  <2> QED BY <1>11, <2>1, <2>2, <2>3 DEF WalkInv
<1> QED BY <1>1, <1>5, <1>6, <1>12, <1>13 DEF HtmlInv

LEMMA NextIs ==
    ASSUME NEW t, TreeInv(t), NEW n \in Nodes, NEW p \in Nodes, t.parent[n] = p, NEW x \in next_sibling(t, n)
    PROVE  /\ x \in ToSet(t.children[p]) /\ next_sibling(t, n) = {x}
           /\ From(t.children[p], x) \subseteq From(t.children[p], n) \ {n}
<1>1. PICK s \in Seq(Nodes) : s = t.children[p] /\ IsInjective(s)
  BY TreeIs
<1>2. PICK k : k = IndexIn(t, n)
  OBVIOUS
<1>3. p # NoParent
  BY NodesAre
<1>4. k \in 1..Len(s) /\ s[k] = n
  <2>1. t.parent[n] # NoParent
    BY <1>3
  <2>2. IndexIn(t, n) \in 1..Len(t.children[t.parent[n]]) /\ t.children[t.parent[n]][IndexIn(t, n)] = n
    BY <2>1, IndexIs
  <2> QED BY <1>1, <1>2, <2>2
<1>5. next_sibling(t, n) = {s[j] : j \in DOMAIN s \cap {k + 1}}
  BY <1>1, <1>2, <1>3 DEF next_sibling, SiblingAt
<1>6. DOMAIN s = 1..Len(s)
  OBVIOUS
<1>7. k + 1 \in 1..Len(s) /\ x = s[k + 1] /\ next_sibling(t, n) = {x}
  BY <1>5, <1>6
<1>8. From(s, s[k + 1]) \subseteq From(s, s[k]) \ {s[k]}
  BY <1>1, <1>4, <1>7, FromIs
<1>9. x \in ToSet(s)
  BY <1>6, <1>7 DEF ToSet
<1> QED BY <1>1, <1>4, <1>7, <1>8, <1>9

\* From x on the list holds nothing the pass has been to.
Ahead(vs, s, x) == \A y \in From(s, x) : ~Touched(vs, y)

\* The frame K of the node T is the innermost, and it is c's turn.
Visiting(c, T, K) ==
    /\ K = Len(stack) /\ K \in DOMAIN stack /\ T = stack[K].node /\ stack[K].next = {c}
    /\ c \in Nodes /\ c # Root /\ T \in Nodes /\ tree.parent[c] = T /\ ~Touched(visited, c)
    /\ \A k \in DOMAIN stack : stack[k].node # c /\ stack[k].node # Replacement(c)
    /\ Replacement(c) \in Nodes /\ Blank(tree, Replacement(c)) /\ c[2] + 1 <= passes

LEMMA VisitingIs ==
    ASSUME HtmlInv, phase = "clean", Top.next # {}
    PROVE  Visiting(Child, Top.node, Len(stack))
<1> DEFINE K == Len(stack)
           T == stack[K].node
           s == tree.children[T]
<1>1. TreeInv(tree) /\ NewInv /\ WalkInv /\ StackInv /\ passes \in 0..MaxPasses
  BY DEF HtmlInv, WalkInv
<1>2. K \in Nat /\ K > 0 /\ DOMAIN stack = 1..K
  BY <1>1, StackIs DEF StackInv
<1>3. K \in DOMAIN stack
  BY <1>2
<1>4. Top = stack[K] /\ T \in Nodes
  BY <1>3, StackIs DEF Top, Last
<1>5. Child \in stack[K].next
  BY <1>4 DEF Child
<1> HIDE DEF K
<1>6. PICK c : c = Child
  OBVIOUS
<1>7. c \in ToSet(s) /\ stack[K].next = {c} /\ \A y \in From(s, c) : ~Touched(visited, y)
  BY <1>1, <1>3, <1>5, <1>6 DEF StackInv
<1>8. s \in Seq(Nodes) /\ IsInjective(s) /\ ToSet(s) \subseteq Nodes
  BY <1>1, <1>4, TreeIs
<1>9. c \in Nodes /\ ~Touched(visited, c)
  BY <1>7, <1>8, FromIs
<1>10. tree.parent[c] = T
  BY <1>1, <1>4, <1>7, <1>9, TreeIs
<1>11. tree.parent[c] # NoParent
  BY <1>4, <1>10, NodesAre
<1>12. c # Root
  BY <1>1, <1>11, TreeIs
<1>13. Attached(tree, c)
  BY <1>11 DEF Attached
<1>14. c[2] \in Nat /\ c[1] \in 0..MaxNodes
  BY <1>9, NodesAre, TreeAssumption
<1>15. c[2] + 1 <= passes
  <2>1. c[2] <= passes /\ c[2] # passes
    BY <1>1, <1>9, <1>13 DEF NewInv, WalkInv
  <2> QED BY <1>1, <1>14, <2>1
<1>16. Replacement(c) \in Nodes /\ Later(Replacement(c), c)
  <2>1. c[2] + 1 \in 0..MaxPasses /\ c[2] + 1 > c[2]
    BY <1>1, <1>14, <1>15, TreeAssumption
  <2>2. Replacement(c) \in Nodes
    BY <1>14, <2>1, NodesAre DEF Replacement
  <2>3. Replacement(c)[1] = c[1] /\ Replacement(c)[2] = c[2] + 1
    BY <1>9, ReplacementIs
  <2> QED BY <2>1, <2>2, <2>3 DEF Later
<1>17. Blank(tree, Replacement(c))
  BY <1>1, <1>9, <1>13, <1>16 DEF NewInv
<1>18. \A k \in DOMAIN stack : stack[k].node # Replacement(c)
  BY <1>1, <1>9, <1>13, <1>16 DEF WalkInv
<1>19. \A k \in DOMAIN stack : stack[k].node # c
  <2> SUFFICES ASSUME NEW k \in DOMAIN stack PROVE stack[k].node # c
    OBVIOUS
  <2>1. CASE k > 1
    BY <1>1, <1>9, <2>1 DEF StackInv
  <2>2. CASE k = 1
    BY <1>1, <1>12, <2>2 DEF StackInv
  <2> QED BY <1>2, <2>1, <2>2
<1>20. Visiting(c, T, Len(stack))
  BY <1>3, <1>4, <1>7, <1>9, <1>10, <1>12, <1>15, <1>16, <1>17, <1>18, <1>19 DEF Visiting, K
<1> QED BY <1>4, <1>6, <1>20

\* The iterator has gone on: every frame's next node is still ahead of the pass, and not c.
LEMMA AdvancedIs ==
    ASSUME HtmlInv, phase = "clean", Top.next # {}, NEW c, c = Child, NEW T, NEW K, Visiting(c, T, K)
    PROVE  /\ Advanced \in Seq(Frames) /\ Len(Advanced) = K
           /\ \A k \in 1..K : Advanced[k].node = stack[k].node /\ Advanced[k].action = stack[k].action
           /\ \A k \in 1..K : /\ Advanced[k].depth = stack[k].depth
                              /\ Advanced[k].next = IF k = K THEN next_sibling(tree, c) ELSE stack[k].next
           /\ \A k \in 1..K : \A x \in Advanced[k].next :
                 /\ x \in ToSet(tree.children[stack[k].node]) /\ Advanced[k].next = {x}
                 /\ Ahead(visited, tree.children[stack[k].node], x) /\ c \notin From(tree.children[stack[k].node], x)
<1>1. TreeInv(tree) /\ StackInv
  BY DEF HtmlInv, WalkInv
<1>2. /\ K = Len(stack) /\ K \in DOMAIN stack /\ T = stack[K].node /\ stack[K].next = {c}
      /\ c \in Nodes /\ T \in Nodes /\ tree.parent[c] = T
  BY DEF Visiting
<1>3. stack \in Seq(Frames) /\ K \in Nat /\ DOMAIN stack = 1..K /\ \A k \in 1..K : stack[k] \in Frames
  BY <1>2, StackIs
<1>4. PICK N : N = next_sibling(tree, c)
  OBVIOUS
<1>5. N \subseteq Nodes
  <2>1. ToSet(tree.children[T]) \subseteq Nodes
    BY <1>1, <1>2, TreeIs
  <2> QED BY <1>1, <1>2, <1>4, <2>1, NextIs
<1>6. Advanced = [stack EXCEPT ![K].next = N]
  BY <1>2, <1>4 DEF Advanced
<1>7. [stack[K] EXCEPT !.next = N] \in Frames /\ [stack[K] EXCEPT !.next = N].node = stack[K].node
      /\ [stack[K] EXCEPT !.next = N].action = stack[K].action /\ [stack[K] EXCEPT !.next = N].next = N
      /\ [stack[K] EXCEPT !.next = N].depth = stack[K].depth
  <2>1. stack[K] \in Frames
    BY <1>2, <1>3
  <2>2. PICK f \in Frames : f = stack[K]
    BY <2>1
  <2>3. f = [node |-> f.node, action |-> f.action, depth |-> f.depth, next |-> f.next]
    BY DEF Frames
  <2>4. f.node \in Nodes /\ f.action \in {"None", "Ignore", "Remove"} /\ f.depth \in Nat \cup {-1}
    BY DEF Frames
  <2>5. [f EXCEPT !.next = N] = [node |-> f.node, action |-> f.action, depth |-> f.depth, next |-> N]
    BY <2>3
  <2>6. [f EXCEPT !.next = N] \in Frames
    BY <1>5, <2>4, <2>5 DEF Frames
  <2> QED BY <2>2, <2>5, <2>6
<1>8. PICK f \in Frames : f = [stack[K] EXCEPT !.next = N]
  BY <1>7
<1>9. Advanced = [stack EXCEPT ![K] = f]
  BY <1>6, <1>8
<1>10. Advanced \in Seq(Frames) /\ Len(Advanced) = K /\ Advanced[K] = f /\ \A k \in 1..K : k # K => Advanced[k] = stack[k]
  BY <1>2, <1>3, <1>9
<1>11. f.node = stack[K].node /\ f.action = stack[K].action /\ f.next = N /\ f.depth = stack[K].depth
  BY <1>7, <1>8
<1>12. \A k \in 1..K : Advanced[k].node = stack[k].node /\ Advanced[k].action = stack[k].action
  BY <1>10, <1>11
<1>13. ASSUME NEW k \in 1..K, NEW x \in Advanced[k].next
       PROVE  /\ x \in ToSet(tree.children[stack[k].node]) /\ Advanced[k].next = {x}
              /\ Ahead(visited, tree.children[stack[k].node], x) /\ c \notin From(tree.children[stack[k].node], x)
  <2>1. CASE k = K
    <3>1. x \in N /\ Advanced[k].next = N
      BY <1>10, <1>11, <1>13, <2>1
    <3>2. x \in ToSet(tree.children[T]) /\ N = {x} /\ From(tree.children[T], x) \subseteq From(tree.children[T], c) \ {c}
      BY <1>1, <1>2, <1>4, <3>1, NextIs
    <3>3. \A y \in From(tree.children[T], c) : ~Touched(visited, y)
      BY <1>1, <1>2 DEF StackInv
    <3> QED BY <1>2, <2>1, <3>1, <3>2, <3>3 DEF Ahead
  <2>2. CASE k # K
    <3>1. Advanced[k] = stack[k] /\ k \in DOMAIN stack
      BY <1>3, <1>10, <2>2
    <3>2. /\ x \in ToSet(tree.children[stack[k].node]) /\ stack[k].next = {x}
          /\ \A y \in From(tree.children[stack[k].node], x) : ~Touched(visited, y)
      BY <1>1, <1>13, <3>1 DEF StackInv
    <3>3. stack[k].node # T /\ stack[k].node \in Nodes
      BY <1>1, <1>2, <2>2, <3>1, StackIs DEF StackInv
    <3>4. c \notin ToSet(tree.children[stack[k].node])
      BY <1>1, <1>2, <3>3, TreeIs
    <3>5. From(tree.children[stack[k].node], x) \subseteq ToSet(tree.children[stack[k].node])
      <4>1. tree.children[stack[k].node] \in Seq(Nodes) /\ IsInjective(tree.children[stack[k].node])
        BY <1>1, <3>3, TreeIs
      <4> QED BY <4>1, FromIs
    <3> QED BY <3>1, <3>2, <3>4, <3>5 DEF Ahead
  <2> QED BY <2>1, <2>2
<1>14. \A k \in 1..K : /\ Advanced[k].depth = stack[k].depth
                       /\ Advanced[k].next = IF k = K THEN next_sibling(tree, c) ELSE stack[k].next
  BY <1>4, <1>10, <1>11
<1> QED BY <1>10, <1>12, <1>13, <1>14

HasChild(t, p) == \E x \in Nodes : t.parent[x] = p

\* A child of an ignored node goes to the parent of that node, which is the node of an outer
\* frame; whatever is ahead of the pass stays so.
LEMMA MovedIs ==
    ASSUME HtmlInv, phase = "clean", Top.next # {}, NEW c, c = Child, NEW T, NEW K, Visiting(c, T, K)
    PROVE  \E j \in DOMAIN stack :
              /\ HasChild(tree, stack[j].node)
              /\ TreeInv(Moved) /\ Hung(tree, Moved, c, stack[j].node) /\ SameChildren(tree, Moved, c)
              /\ \A k \in DOMAIN stack : \A x : x # c /\ Ahead(visited, tree.children[stack[k].node], x) =>
                    Within(Moved.children[stack[k].node], tree.children[stack[k].node], x)
<1>1. TreeInv(tree) /\ StackInv
  BY DEF HtmlInv, WalkInv
<1>2. /\ K = Len(stack) /\ K \in DOMAIN stack /\ T = stack[K].node
      /\ c \in Nodes /\ c # Root /\ T \in Nodes /\ tree.parent[c] = T
      /\ \A k \in DOMAIN stack : stack[k].node # c
  BY DEF Visiting
<1>3. K \in Nat /\ DOMAIN stack = 1..K /\ \A k \in DOMAIN stack : stack[k].node \in Nodes
  BY <1>2, StackIs
<1>4. Top = stack[K]
  BY <1>2 DEF Top, Last
<1>5. CASE Top.action # "Ignore"
  <2>1. Moved = tree
    BY <1>5 DEF Moved
  <2>2. Hung(tree, tree, c, stack[K].node)
    BY <1>2 DEF Hung
  <2>3. SameChildren(tree, tree, c) /\ \A a, x : Within(a, a, x)
    BY DEF SameChildren, Within
  <2>4. HasChild(tree, stack[K].node)
    BY <1>2 DEF HasChild
  <2> QED BY <1>1, <1>2, <2>1, <2>2, <2>3, <2>4
<1>6. CASE Top.action = "Ignore"
  <2>1. K # 1 /\ K > 1
    BY <1>1, <1>2, <1>3, <1>4, <1>6 DEF StackInv
  <2>2. PICK j \in 1..(K - 1) : tree.parent[T] = stack[j].node
    BY <1>1, <1>2, <2>1 DEF StackInv
  <2>3. j \in DOMAIN stack
    BY <1>3, <2>2
  <2>4. Touched(visited, T)
    BY <1>1, <1>2, <2>1 DEF StackInv
  <2>5. PICK q \in Nodes : q = stack[j].node
    BY <1>3, <2>3
  <2>6. PICK u : u = insert_before_sibling(tree, c, T)
    OBVIOUS
  <2>7. Moved = u
    BY <1>2, <1>4, <1>6, <2>6 DEF Moved
  <2>8. T # c /\ tree.parent[T] # NoParent /\ q = tree.parent[T]
    BY <1>2, <2>2, <2>5, NodesAre
  <2>. TreeInv(tree) /\ c \in Nodes /\ c # Root /\ T \in Nodes
    BY <1>1, <1>2
  <2>9. TreeInv(u) /\ Hung(tree, u, c, q)
    BY <2>6, <2>8, InsertIs
  <2>10. \A p \in Nodes : p # q /\ p # tree.parent[c] => SameChildren(tree, u, p)
    BY <2>6, <2>8, InsertIs
  <2>11. KeepsOrder(tree, u, c, c, q, T)
    BY <2>6, <2>8, InsertIs
  <2>12. SameChildren(tree, u, c)
    BY <1>2, <2>3, <2>5, <2>8, <2>10
  <2>13. ASSUME NEW k \in DOMAIN stack, NEW x, x # c, Ahead(visited, tree.children[stack[k].node], x)
         PROVE  Within(u.children[stack[k].node], tree.children[stack[k].node], x)
    <3>1. T \notin From(tree.children[stack[k].node], x)
      BY <2>4, <2>13 DEF Ahead
    <3> QED BY <1>2, <1>3, <2>11, <2>13, <3>1 DEF KeepsOrder
  <2>14. HasChild(tree, stack[j].node)
    BY <2>2 DEF HasChild
  <2> QED BY <2>3, <2>5, <2>7, <2>9, <2>12, <2>13, <2>14
<1> QED BY <1>5, <1>6

\* apply_replacements, whether or not the element is replaced.
LEMMA ApplyIs ==
    ASSUME NEW t, TreeInv(t), NEW c \in Nodes, NEW r \in Nodes, r = Replacement(c), Blank(t, r),
           NEW q \in Nodes, t.parent[c] = q, q # c, NEW cfg, NEW u, NEW h,
           u = apply_replacements(cfg, t, c).tree, h = apply_replacements(cfg, t, c).node
    PROVE  /\ TreeInv(u) /\ h \in {c, r} /\ Rehung(t, u, c, h, q)
           /\ u.children[h] = t.children[c]
           /\ KeepsOrder(t, u, c, r, q, c)
<1>1. PICK v : v = IF t.data[c].kind = "Element" THEN [t EXCEPT !.data[c].attrs = ReplacedAttrs(cfg, t.data[c])] ELSE t
  OBVIOUS
<1>2. PICK names : names = ElementReplacement(cfg, t.data[c])
  OBVIOUS
<1>3. apply_replacements(cfg, t, c) =
        IF names = {} THEN [tree |-> v, node |-> c]
        ELSE [tree |-> replace_with_element_name(v, c, CHOOSE x \in names : TRUE), node |-> r]
  BY <1>1, <1>2 DEF apply_replacements
<1>4. TreeInv(v) /\ v.parent = t.parent /\ v.children = t.children
  <2>1. CASE t.data[c].kind = "Element"
    <3>1. PICK a : a = ReplacedAttrs(cfg, t.data[c])
      OBVIOUS
    <3>2. PICK d : d = [t.data[c] EXCEPT !.attrs = a]
      OBVIOUS
    <3>3. v = [t EXCEPT !.data[c].attrs = a]
      BY <1>1, <2>1, <3>1
    <3>4. IsData(d)
      BY <3>2, DataIs
    <3>5. v = Labelled(t, c, d)
      BY <3>2, <3>3 DEF Labelled
    <3> QED BY <3>4, <3>5, LabelIs
  <2>2. CASE t.data[c].kind # "Element"
    BY <1>1, <2>2
  <2> QED BY <2>1, <2>2
<1>5. CASE names = {}
  <2>1. u = v /\ h = c
    BY <1>3, <1>5
  <2>2. Rehung(t, u, c, h, q)
    BY <1>4, <2>1 DEF Rehung
  <2>3. KeepsOrder(t, u, c, r, q, c)
    BY <1>4, <2>1 DEF KeepsOrder, Within
  <2> QED BY <1>4, <2>1, <2>2, <2>3
<1>6. CASE names # {}
  <2>1. PICK name : name = CHOOSE x \in names : TRUE
    OBVIOUS
  <2>2. u = replace_with_element_name(v, c, name) /\ h = r
    BY <1>3, <1>6, <2>1
  <2>3. TreeInv(v) /\ Blank(v, r) /\ v.parent[c] = q
    BY <1>4 DEF Blank
  <2>4. TreeInv(u) /\ u.children[r] = v.children[c]
    BY <2>2, <2>3, ReplaceIs
  <2>5. Rehung(v, u, c, r, q)
    BY <2>2, <2>3, ReplaceIs
  <2>6. KeepsOrder(v, u, c, r, q, c)
    BY <2>2, <2>3, ReplaceIs
  <2>8. KeepsOrder(t, u, c, r, q, c)
    BY <1>4, <2>6 DEF KeepsOrder
  <2>7. Rehung(t, u, c, h, q)
    BY <1>4, <2>2, <2>5 DEF Rehung
  <2> QED BY <1>4, <2>2, <2>4, <2>7, <2>8
<1> QED BY <1>5, <1>6

\* Both, from the tree before the visit to the tree after it.
LEMMA EnterIs ==
    ASSUME HtmlInv, phase = "clean", Top.next # {}, NEW c, c = Child, NEW T, NEW K, Visiting(c, T, K),
           NEW u, NEW h, u = apply_replacements(config, Moved, c).tree, h = apply_replacements(config, Moved, c).node
    PROVE  /\ TreeInv(u) /\ h \in {c, Replacement(c)} /\ u.children[h] = tree.children[c]
           /\ \E j \in DOMAIN stack : HasChild(tree, stack[j].node) /\ Rehung(tree, u, c, h, stack[j].node)
           /\ \A k \in DOMAIN stack : \A x :
                 x # c /\ x # Replacement(c) /\ Ahead(visited, tree.children[stack[k].node], x)
                       /\ c \notin From(tree.children[stack[k].node], x) =>
                    Within(u.children[stack[k].node], tree.children[stack[k].node], x)
<1>1. PICK r \in Nodes : r = Replacement(c)
  BY DEF Visiting
<1>2. /\ c \in Nodes /\ TreeInv(tree) /\ Blank(tree, r) /\ tree.parent[c] \in Nodes
      /\ \A k \in DOMAIN stack : stack[k].node # c /\ stack[k].node # r /\ stack[k].node \in Nodes
  <2>1. \A k \in DOMAIN stack : stack[k].node \in Nodes
    BY StackIs
  <2> QED BY <1>1, <2>1 DEF Visiting, HtmlInv
<1>3. PICK t : t = Moved
  OBVIOUS
<1>4. PICK j \in DOMAIN stack :
         /\ HasChild(tree, stack[j].node)
         /\ TreeInv(t) /\ Hung(tree, t, c, stack[j].node) /\ SameChildren(tree, t, c)
         /\ \A k \in DOMAIN stack : \A x : x # c /\ Ahead(visited, tree.children[stack[k].node], x) =>
               Within(t.children[stack[k].node], tree.children[stack[k].node], x)
  BY <1>3, MovedIs
<1>5. PICK q \in Nodes : q = stack[j].node
  BY <1>2
<1>6. r # c /\ q # c /\ q # r /\ t.parent[c] = q
  <2>1. r # c
    BY <1>1, <1>2, ReplacementIs
  <2> QED BY <1>2, <1>4, <1>5, <2>1 DEF Hung
<1>7. Blank(t, r)
  <2>1. TreeInv(t) /\ Hung(tree, t, c, q)
    BY <1>4, <1>5
  <2> QED BY <1>2, <1>6, <2>1, StaysBlank
<1>8. u = apply_replacements(config, t, c).tree /\ h = apply_replacements(config, t, c).node /\ TreeInv(t)
  BY <1>3, <1>4
<1>9. TreeInv(u) /\ h \in {c, r} /\ Rehung(t, u, c, h, q) /\ u.children[h] = t.children[c]
  <2>1. c \in Nodes /\ t.parent[c] = q /\ q # c
    BY <1>2, <1>6
  <2>2. TreeInv(u) /\ Rehung(t, u, c, h, q)
    BY <1>1, <1>7, <1>8, <2>1, ApplyIs
  <2>3. h \in {c, r}
    BY <1>1, <1>7, <1>8, <2>1, ApplyIs
  <2>4. u.children[h] = t.children[c]
    BY <1>1, <1>7, <1>8, <2>1, ApplyIs
  <2> QED BY <2>2, <2>3, <2>4
<1>10. KeepsOrder(t, u, c, r, q, c)
  <2>1. c \in Nodes /\ t.parent[c] = q /\ q # c
    BY <1>2, <1>6
  <2> QED BY <1>1, <1>7, <1>8, <2>1, ApplyIs
<1>11. Rehung(tree, u, c, h, q)
  BY <1>4, <1>5, <1>9 DEF Rehung, Hung
<1>12. u.children[h] = tree.children[c]
  BY <1>4, <1>9 DEF SameChildren
<1>13. ASSUME NEW k \in DOMAIN stack, NEW x, x # c, x # r, Ahead(visited, tree.children[stack[k].node], x),
              c \notin From(tree.children[stack[k].node], x)
       PROVE  Within(u.children[stack[k].node], tree.children[stack[k].node], x)
  <2>1. Within(t.children[stack[k].node], tree.children[stack[k].node], x)
    BY <1>4, <1>13
  <2>2. c \notin From(t.children[stack[k].node], x)
    BY <1>13, <2>1 DEF Within
  <2>3. stack[k].node \in Nodes \ {c, r}
    BY <1>2
  <2>4. Within(u.children[stack[k].node], t.children[stack[k].node], x)
    BY <1>10, <1>13, <2>2, <2>3 DEF KeepsOrder
  <2> QED BY <2>1, <2>4 DEF Within
<1>14. \E l \in DOMAIN stack : HasChild(tree, stack[l].node) /\ Rehung(tree, u, c, h, stack[l].node)
  BY <1>4, <1>5, <1>11
<1> QED BY <1>1, <1>9, <1>12, <1>13, <1>14

\* A turn of the loop: the child c is entered as the node h of the tree u.
Entering(c, K, u, h) ==
    /\ phase = "clean" /\ Top.next # {} /\ c = Child /\ Visiting(c, Top.node, K)
    /\ K \in Nat /\ K > 0 /\ DOMAIN stack = 1..K /\ K \in 1..K /\ Top = stack[K]
    /\ u = apply_replacements(config, Moved, c).tree /\ h = apply_replacements(config, Moved, c).node

\* The frame of the node.
EnteredWith(c, u, h, act, N, frame) ==
    /\ act = node_action(config, u.data[h], Top.depth + 1)
    /\ N = IF act = "Remove" THEN {} ELSE first_child(u, h)
    /\ frame = [node |-> h, action |-> act, depth |-> Top.depth + 1, next |-> N]
    /\ phase' = phase /\ visited' = Append(visited, c)
    /\ tree' = u /\ stack' = Append(Advanced, frame)
    /\ config' = config /\ passes' = passes /\ before' = before /\ first' = first

LEMMA VisitIs ==
    ASSUME HtmlInv, Visit
    PROVE  \E c, K, u, h, act, N, frame : Entering(c, K, u, h) /\ EnteredWith(c, u, h, act, N, frame)
<1>1. phase = "clean" /\ Top.next # {}
  BY DEF Visit
<1>2. PICK c, T, K : c = Child /\ T = Top.node /\ K = Len(stack)
  OBVIOUS
<1>3. Visiting(c, T, K)
  BY <1>1, <1>2, VisitingIs
<1>4. T = stack[K].node
  BY <1>3 DEF Visiting
<1>5. StackInv
  BY <1>1 DEF HtmlInv, WalkInv
<1>6. /\ K \in Nat /\ K > 0 /\ DOMAIN stack = 1..K /\ K \in 1..K /\ Top = stack[K]
      /\ \A k \in 1..K : stack[k].node \in Nodes
  <2>1. Len(stack) > 0
    BY <1>5 DEF StackInv
  <2> QED BY <1>2, <2>1, StackIs DEF Top, Last
<1>7. ~(Top.action = "Ignore" /\ InsertPanics(tree, Top.node))
  <2> SUFFICES ASSUME Top.action = "Ignore" PROVE tree.parent[T] # NoParent
    BY <1>2 DEF InsertPanics
  <2>1. K > 1
    BY <1>5, <1>6 DEF StackInv
  <2>2. PICK j \in 1..(K - 1) : tree.parent[T] = stack[j].node
    BY <1>4, <1>5, <1>6, <2>1 DEF StackInv
  <2>3. j \in 1..K
    BY <1>6, <2>2
  <2> QED BY <1>6, <2>2, <2>3, NodesAre
<1>8. /\ phase' = phase /\ visited' = Append(visited, c) /\ Enter
      /\ config' = config /\ passes' = passes /\ before' = before /\ first' = first
  BY <1>2, <1>7 DEF Visit
<1>9. PICK u, h : u = apply_replacements(config, Moved, c).tree /\ h = apply_replacements(config, Moved, c).node
  OBVIOUS
<1>10. PICK act, N : /\ act = node_action(config, u.data[h], Top.depth + 1)
                     /\ N = IF act = "Remove" THEN {} ELSE first_child(u, h)
  OBVIOUS
<1>11. PICK frame : frame = [node |-> h, action |-> act, depth |-> Top.depth + 1, next |-> N]
  OBVIOUS
<1>12. tree' = u /\ stack' = Append(Advanced, frame)
  BY <1>2, <1>8, <1>9, <1>10, <1>11 DEF Enter
<1>13. Entering(c, K, u, h)
  BY <1>1, <1>2, <1>3, <1>6, <1>9 DEF Entering
<1>14. EnteredWith(c, u, h, act, N, frame)
  BY <1>8, <1>10, <1>11, <1>12 DEF EnteredWith
<1> QED BY <1>13, <1>14

LEMMA VisitKeeps == HtmlInv /\ Visit => HtmlInv'
<1> SUFFICES ASSUME HtmlInv, Visit PROVE HtmlInv'
  OBVIOUS
<1>0. PICK c, K, u, h, act, N, frame : Entering(c, K, u, h) /\ EnteredWith(c, u, h, act, N, frame)
  BY VisitIs
<1>1. phase = "clean" /\ Top.next # {}
  BY <1>0 DEF Entering
<1>2. PICK T : c = Child /\ T = Top.node /\ K = Len(stack)
  BY <1>0 DEF Entering, Visiting
<1>3. Visiting(c, T, K)
  BY <1>0, <1>2 DEF Entering
<1>4. /\ T = stack[K].node /\ c \in Nodes /\ c # Root /\ tree.parent[c] = T /\ T \in Nodes /\ ~Touched(visited, c)
      /\ \A k \in DOMAIN stack : stack[k].node # c /\ stack[k].node # Replacement(c)
      /\ Replacement(c) \in Nodes /\ Blank(tree, Replacement(c)) /\ c[2] + 1 <= passes
  BY <1>3 DEF Visiting
<1>5. TreeInv(tree) /\ NewInv /\ WalkInv /\ StackInv /\ passes \in 0..MaxPasses
  BY <1>1 DEF HtmlInv, WalkInv
<1>6. /\ K \in Nat /\ K > 0 /\ DOMAIN stack = 1..K /\ K \in 1..K /\ Top = stack[K]
      /\ \A k \in 1..K : stack[k] \in Frames /\ stack[k].node \in Nodes
  BY <1>0, StackIs DEF Entering
<1>8. /\ phase' = phase /\ visited' = Append(visited, c)
      /\ config' = config /\ passes' = passes /\ before' = before /\ first' = first
  BY <1>0 DEF EnteredWith
<1>9. u = apply_replacements(config, Moved, c).tree /\ h = apply_replacements(config, Moved, c).node
  BY <1>0 DEF Entering
<1>10. /\ act = node_action(config, u.data[h], Top.depth + 1)
       /\ N = IF act = "Remove" THEN {} ELSE first_child(u, h)
  BY <1>0 DEF EnteredWith
<1>11. frame = [node |-> h, action |-> act, depth |-> Top.depth + 1, next |-> N]
  BY <1>0 DEF EnteredWith
<1>12. tree' = u /\ stack' = Append(Advanced, frame)
  BY <1>0 DEF EnteredWith
<1>13. TreeInv(u) /\ h \in {c, Replacement(c)} /\ u.children[h] = tree.children[c]
  BY <1>1, <1>2, <1>3, <1>9, EnterIs
<1>14. PICK i0 \in DOMAIN stack : HasChild(tree, stack[i0].node) /\ Rehung(tree, u, c, h, stack[i0].node)
  BY <1>1, <1>2, <1>3, <1>9, EnterIs
<1>15. PICK q \in Nodes : q = stack[i0].node
  BY <1>6, <1>14
<1>16. h \in Nodes /\ h # Root /\ q # c /\ q # Replacement(c) /\ Replacement(c) # c
  BY <1>4, <1>13, <1>14, <1>15, ReplacementIs
<1>17. \A m \in Nodes : u.parent[m] = IF m = h THEN q ELSE IF m = c THEN NoParent
                                      ELSE IF tree.parent[m] = c THEN h ELSE tree.parent[m]
  BY <1>14, <1>15 DEF Rehung
<1>18. q = Root \/ Touched(visited, q)
  <2>1. i0 = 1 \/ i0 > 1
    BY <1>6, <1>14
  <2> QED BY <1>5, <1>14, <1>15, <2>1 DEF StackInv
<1>19. \A n : Touched(visited', n) <=> Touched(visited, n) \/ n = c \/ n = Replacement(c)
  <2>1. ToSet(visited') = ToSet(visited) \cup {c}
    <3>1. visited \in Seq(Nodes)
      BY DEF HtmlInv
    <3>2. /\ Len(visited') = Len(visited) + 1 /\ DOMAIN visited' = 1..(Len(visited) + 1) /\ Len(visited) \in Nat
          /\ DOMAIN visited = 1..Len(visited)
          /\ visited'[Len(visited) + 1] = c /\ \A j \in 1..Len(visited) : visited'[j] = visited[j]
      BY <1>4, <1>8, <3>1
    <3>3. \A j \in 1..(Len(visited) + 1) : j = Len(visited) + 1 \/ j \in 1..Len(visited)
      BY <3>2
    <3>4. Len(visited) + 1 \in 1..(Len(visited) + 1) /\ \A j \in 1..Len(visited) : j \in 1..(Len(visited) + 1)
      BY <3>2
    <3> QED BY <3>2, <3>3, <3>4 DEF ToSet
  <2> QED BY <2>1 DEF Touched
<1>20. visited' \in Seq(Nodes) /\ IsInjective(visited')
  <2>1. visited \in Seq(Nodes) /\ IsInjective(visited)
    BY DEF HtmlInv
  <2>2. c \notin ToSet(visited)
    BY <1>4 DEF Touched
  <2> QED BY <1>4, <1>8, <2>1, <2>2, Appended
<1>21. Attached(tree, c) /\ Later(Replacement(c), c)
  <2>1. Replacement(c)[1] = c[1] /\ Replacement(c)[2] = c[2] + 1
    BY <1>4, ReplacementIs
  <2>2. c[2] \in Nat
    BY <1>4, NodesAre, TreeAssumption
  <2>3. c[2] + 1 > c[2]
    BY <2>2
  <2> QED BY <1>4, <2>1, <2>3, NodesAre DEF Attached, Later
\* A node attached before is not the replacement.
<1>22. \A n \in Nodes : Attached(tree, n) => n # Replacement(c)
  BY <1>4 DEF Attached, Blank
<1>23. \A n \in Nodes : Attached(u, n) => n = h \/ (n # c /\ Attached(tree, n))
  <2>1. c # NoParent
    BY <1>4, NodesAre
  <2> QED BY <1>17, <2>1 DEF Attached
<1>24. ASSUME NEW m \in Nodes, Blank(tree, m), m # h PROVE Blank(u, m)
  <2>1. tree.parent[m] = NoParent /\ \A x \in Nodes : tree.parent[x] # m
    BY <1>5, <1>24, BlankIs
  <2>2. m # q
    BY <1>14, <1>15, <2>1 DEF HasChild
  <2>3. m # c
    BY <1>21, <2>1 DEF Attached
  <2>4. c # NoParent /\ m # NoParent
    BY <1>4, NodesAre
  <2>5. u.parent[m] = NoParent
    BY <1>17, <1>24, <2>1, <2>3, <2>4
  <2>6. \A x \in Nodes : u.parent[x] # m
    BY <1>17, <1>24, <2>1, <2>2, <2>4
  <2> QED BY <1>13, <2>5, <2>6, BlankIs
\* No attached node is earlier than what takes the child's place.
<1>25. ASSUME NEW n \in Nodes, Attached(u, n), Later(h, n) PROVE FALSE
  <2>1. n # h /\ n # c /\ Attached(tree, n)
    <3>1. n # h
      <4>1. n[2] \in Nat
        BY NodesAre, TreeAssumption
      <4> QED BY <1>25, <4>1 DEF Later
    <3> QED BY <1>23, <1>25, <3>1
  <2>2. ~Blank(tree, c)
    BY <1>21 DEF Attached, Blank
  <2>3. ~Later(c, n)
    BY <1>4, <1>5, <2>1, <2>2 DEF NewInv
  <2>4. h = Replacement(c)
    BY <1>13, <1>25, <2>3
  <2>5. h[1] = c[1] /\ h[2] = c[2] + 1
    BY <1>4, <2>4, ReplacementIs
  <2>6. n[2] \in Nat /\ c[2] \in Nat
    BY <1>4, NodesAre, TreeAssumption
  <2>7. n[1] = c[1] /\ n[2] <= c[2]
    BY <1>25, <2>5, <2>6 DEF Later
  <2>8. n[2] = c[2]
    BY <2>3, <2>6, <2>7 DEF Later
  <2>9. n = c
    <3>1. n = <<n[1], n[2]>> /\ c = <<c[1], c[2]>>
      BY <1>4, NodesAre
    <3> QED BY <2>7, <2>8, <3>1
  <2> QED BY <2>1, <2>9
\* What is later than the new node was later than the child.
<1>26. \A m \in Nodes : Later(m, h) => Later(m, c)
  <2> SUFFICES ASSUME NEW m \in Nodes, Later(m, h) PROVE Later(m, c)
    OBVIOUS
  <2>1. m[2] \in Nat /\ c[2] \in Nat
    BY <1>4, NodesAre, TreeAssumption
  <2>2. h[1] = c[1] /\ (h[2] = c[2] \/ h[2] = c[2] + 1)
    BY <1>4, <1>13, ReplacementIs
  <2> QED BY <2>1, <2>2 DEF Later
<1>27. NewInv'
  <2>1. ASSUME NEW n \in Nodes, Attached(u, n) PROVE n[2] <= passes
    <3>1. CASE n = h
      <4>1. h[2] = c[2] \/ h[2] = c[2] + 1
        BY <1>4, <1>13, ReplacementIs
      <4>2. c[2] \in Nat /\ passes \in Nat
        BY <1>4, <1>5, NodesAre, TreeAssumption
      <4> QED BY <1>4, <3>1, <4>1, <4>2
    <3>2. CASE n # h
      BY <1>5, <1>23, <2>1, <3>2 DEF NewInv
    <3> QED BY <3>1, <3>2
  <2>2. ASSUME NEW n \in Nodes, NEW m \in Nodes, Attached(u, n), Later(m, n) PROVE Blank(u, m)
    <3>1. m # h
      BY <1>25, <2>2
    <3>2. Blank(tree, m)
      <4>1. CASE n = h
        BY <1>4, <1>5, <1>21, <1>26, <2>2, <4>1 DEF NewInv
      <4>2. CASE n # h
        BY <1>5, <1>23, <2>2, <4>2 DEF NewInv
      <4> QED BY <4>1, <4>2
    <3> QED BY <1>24, <3>1, <3>2
  <2> QED BY <1>8, <1>12, <2>1, <2>2 DEF NewInv
\* The stack.
<1>28. /\ Advanced \in Seq(Frames) /\ Len(Advanced) = K
       /\ \A k \in 1..K : Advanced[k].node = stack[k].node /\ Advanced[k].action = stack[k].action
  BY <1>1, <1>2, <1>3, AdvancedIs
<1>29. frame \in Frames /\ frame.node = h /\ frame.action = act /\ frame.next = N
  <2>1. act \in {"None", "Ignore", "Remove"}
    BY <1>10 DEF node_action
  <2>2. Top.depth + 1 \in Nat
    <3>1. Top.depth \in Nat \cup {-1}
      BY <1>6 DEF Frames
    <3> QED BY <3>1
  <2>3. N \subseteq Nodes
    <3>1. u.children[h] \in Seq(Nodes)
      BY <1>13, <1>16, TreeIs
    <3> QED BY <1>10, <3>1 DEF first_child
  <2> QED BY <1>11, <1>16, <2>1, <2>2, <2>3 DEF Frames
<1>30. /\ stack' \in Seq(Frames) /\ Len(stack') = K + 1 /\ DOMAIN stack' = 1..(K + 1)
       /\ stack'[K + 1] = frame /\ \A k \in 1..K : stack'[k] = Advanced[k]
  BY <1>6, <1>12, <1>28, <1>29
<1>31. \A k \in 1..(K + 1) : k = K + 1 \/ k \in 1..K
  BY <1>6
<1>32. \A k \in 1..K : stack'[k].node = stack[k].node /\ stack'[k].node # h /\ k \in DOMAIN stack
  BY <1>4, <1>6, <1>13, <1>28, <1>30
<1>33. stack'[K + 1].node = h /\ stack'[K + 1].next = N
  BY <1>29, <1>30
<1>34. StackInv'
  <2>1. Len(stack') > 0 /\ stack'[1].node = Root /\ stack'[1].action = "None"
    <3>1. 1 \in 1..K /\ K + 1 > 0
      BY <1>6
    <3> QED BY <1>5, <1>28, <1>30, <3>1 DEF StackInv
  <2>2. \A j, k \in DOMAIN stack' : stack'[j].node = stack'[k].node => j = k
    <3>1. \A j, k \in 1..K : stack[j].node = stack[k].node => j = k
      BY <1>5, <1>6 DEF StackInv
    <3> QED BY <1>30, <1>31, <1>32, <1>33, <3>1
  <2>3. ASSUME NEW k \in DOMAIN stack', k > 1
        PROVE  /\ Touched(visited', stack'[k].node)
               /\ \E j \in 1..(k - 1) : tree'.parent[stack'[k].node] = stack'[j].node
    <3>1. CASE k = K + 1
      <4>1. Touched(visited', h)
        BY <1>13, <1>19
      <4>2. i0 \in 1..(k - 1) /\ stack'[i0].node = q
        BY <1>6, <1>14, <1>15, <1>32, <3>1
      <4>3. u.parent[h] = q
        BY <1>16, <1>17
      <4> QED BY <1>12, <1>33, <3>1, <4>1, <4>2, <4>3
    <3>2. CASE k \in 1..K
      <4>1. PICK n \in Nodes : n = stack[k].node /\ stack'[k].node = n /\ n # h /\ n # c
        BY <1>4, <1>6, <1>32, <3>2
      <4>2. Touched(visited, n)
        BY <1>5, <1>6, <2>3, <3>2, <4>1 DEF StackInv
      <4>3. PICK j \in 1..(k - 1) : tree.parent[n] = stack[j].node
        BY <1>5, <1>6, <2>3, <3>2, <4>1 DEF StackInv
      <4>4. j \in 1..K
        BY <1>6, <3>2, <4>3
      <4>5. u.parent[n] = stack'[j].node
        BY <1>4, <1>6, <1>17, <1>32, <4>1, <4>3, <4>4
      <4> QED BY <1>12, <1>19, <4>1, <4>2, <4>3, <4>5
    <3> QED BY <1>30, <1>31, <3>1, <3>2
  <2>4. ASSUME NEW k \in 1..K, NEW x \in Advanced[k].next
        PROVE  /\ x \in ToSet(u.children[stack[k].node]) /\ Advanced[k].next = {x}
               /\ \A y \in From(u.children[stack[k].node], x) : ~Touched(visited', y)
    <3>1. /\ x \in ToSet(tree.children[stack[k].node]) /\ Advanced[k].next = {x}
          /\ Ahead(visited, tree.children[stack[k].node], x) /\ c \notin From(tree.children[stack[k].node], x)
      BY <1>1, <1>2, <1>3, <2>4, AdvancedIs
    <3>2. PICK n \in Nodes : n = stack[k].node /\ n # c
      BY <1>4, <1>6
    <3>3. tree.children[n] \in Seq(Nodes) /\ IsInjective(tree.children[n]) /\ ToSet(tree.children[n]) \subseteq Nodes
      BY <1>5, <3>2, TreeIs
    <3>4. x \in From(tree.children[n], x) /\ From(tree.children[n], x) \subseteq ToSet(tree.children[n]) /\ x \in Nodes
      BY <3>1, <3>2, <3>3, FromIs
    <3>5. \A y \in From(tree.children[n], x) : y \in Nodes /\ Attached(tree, y) /\ y # Replacement(c)
      <4> SUFFICES ASSUME NEW y \in From(tree.children[n], x) PROVE y \in Nodes /\ Attached(tree, y) /\ y # Replacement(c)
        OBVIOUS
      <4>1. y \in Nodes /\ y \in ToSet(tree.children[n])
        BY <3>3, <3>4
      <4>2. tree.parent[y] = n
        BY <1>5, <3>2, <4>1, TreeIs
      <4>3. Attached(tree, y)
        BY <3>2, <4>2, NodesAre DEF Attached
      <4> QED BY <1>22, <4>1, <4>3
    <3>6. x # c /\ x # Replacement(c)
      BY <3>1, <3>2, <3>4, <3>5
    <3>7. Within(u.children[n], tree.children[n], x)
      <4>1. k \in DOMAIN stack
        BY <1>6
      <4>2. \A l \in DOMAIN stack : \A z :
                 z # c /\ z # Replacement(c) /\ Ahead(visited, tree.children[stack[l].node], z)
                       /\ c \notin From(tree.children[stack[l].node], z) =>
                    Within(u.children[stack[l].node], tree.children[stack[l].node], z)
        BY <1>1, <1>2, <1>3, <1>9, EnterIs
      <4> QED BY <3>1, <3>2, <3>6, <4>1, <4>2
    <3>8. \A y \in From(u.children[n], x) : ~Touched(visited', y)
      BY <1>19, <3>1, <3>2, <3>5, <3>7 DEF Ahead, Within
    <3>9. x \in ToSet(u.children[n])
      <4>1. tree.parent[x] = n
        BY <1>5, <3>1, <3>2, <3>4, TreeIs
      <4>2. x # h
        BY <1>13, <3>6
      <4>3. u.parent[x] = n
        BY <1>17, <3>2, <3>4, <3>6, <4>1, <4>2
      <4> QED BY <1>13, <3>2, <3>4, <4>3, TreeIs
    <3> QED BY <3>1, <3>2, <3>8, <3>9
  <2>5. ASSUME NEW x \in N
        PROVE  /\ x \in ToSet(u.children[h]) /\ N = {x}
               /\ \A y \in From(u.children[h], x) : ~Touched(visited', y)
    <3>1. PICK s \in Seq(Nodes) : s = tree.children[c] /\ IsInjective(s) /\ ToSet(s) \subseteq Nodes
      BY <1>4, <1>5, TreeIs
    <3>2. N = first_child(u, h) /\ u.children[h] = s
      BY <1>10, <1>13, <2>5, <3>1
    <3>3. x \in ToSet(s) /\ N = {x}
      BY <2>5, <3>2, FirstChildIs DEF first_child
    <3>4. ASSUME NEW y \in From(s, x) PROVE ~Touched(visited', y)
      <4>1. y \in ToSet(s) /\ y \in Nodes
        BY <3>1, <3>4, FromIs
      <4>2. tree.parent[y] = c
        BY <1>4, <1>5, <3>1, <4>1, TreeIs
      <4>3. Attached(tree, y)
        BY <1>4, <4>2, NodesAre DEF Attached
      <4>4. ~Touched(visited, y)
        BY <1>4, <1>5, <4>1, <4>2, <4>3 DEF WalkInv
      <4>5. y # c
        BY <1>3, <1>4, <1>6, <4>2
      <4> QED BY <1>19, <1>22, <4>1, <4>3, <4>4, <4>5
    <3> QED BY <3>2, <3>3, <3>4
  <2>6. ASSUME NEW k \in DOMAIN stack', NEW x \in stack'[k].next
        PROVE  /\ x \in ToSet(tree'.children[stack'[k].node]) /\ stack'[k].next = {x}
               /\ \A y \in From(tree'.children[stack'[k].node], x) : ~Touched(visited', y)
    <3>1. CASE k = K + 1
      BY <1>12, <1>33, <2>5, <2>6, <3>1
    <3>2. CASE k \in 1..K
      BY <1>12, <1>30, <1>32, <2>4, <2>6, <3>2
    <3> QED BY <1>30, <1>31, <3>1, <3>2
  <2> QED BY <2>1, <2>2, <2>3, <2>6 DEF StackInv
<1>35. WalkInv'
  <2>1. ASSUME NEW n \in Nodes, Attached(u, n), n[2] = passes PROVE Touched(visited', n)
    BY <1>5, <1>13, <1>19, <1>23, <2>1 DEF WalkInv
  <2>2. ASSUME NEW n \in Nodes, Touched(visited', n), Attached(u, n)
        PROVE  u.parent[n] = Root \/ Touched(visited', u.parent[n])
    <3>1. CASE n = h
      BY <1>16, <1>17, <1>18, <1>19, <3>1
    <3>2. CASE n # h
      <4>1. n # c /\ Attached(tree, n)
        BY <1>23, <2>2, <3>2
      <4>2. Touched(visited, n)
        BY <1>19, <1>22, <2>2, <4>1
      <4>3. tree.parent[n] = Root \/ Touched(visited, tree.parent[n])
        BY <1>5, <4>1, <4>2 DEF WalkInv
      <4>4. u.parent[n] = tree.parent[n]
        BY <1>4, <1>17, <3>2, <4>1, <4>3
      <4> QED BY <1>19, <4>3, <4>4
    <3> QED BY <3>1, <3>2
  <2>3. ASSUME NEW n \in Nodes, NEW m \in Nodes, Attached(u, n), Later(m, n), NEW k \in DOMAIN stack'
        PROVE  stack'[k].node # m
    <3>1. CASE k = K + 1
      BY <1>25, <1>33, <2>3, <3>1
    <3>2. CASE k \in 1..K
      <4>1. CASE n = h
        BY <1>4, <1>5, <1>21, <1>26, <1>32, <2>3, <3>2, <4>1 DEF WalkInv
      <4>2. CASE n # h
        BY <1>5, <1>23, <1>32, <2>3, <3>2, <4>2 DEF WalkInv
      <4> QED BY <4>1, <4>2
    <3> QED BY <1>30, <1>31, <3>1, <3>2
  <2>4. passes' >= 1
    BY <1>5, <1>8 DEF WalkInv
  <2> QED BY <1>8, <1>12, <1>34, <2>1, <2>2, <2>3, <2>4 DEF WalkInv
<1> QED BY <1>1, <1>8, <1>12, <1>13, <1>20, <1>27, <1>30, <1>35 DEF HtmlInv

-----------------------------------------------------------------------------

\* What the run checks follows from the invariant.
LEMMA ConsistentIs == HtmlInv => TreeConsistent
<1> SUFFICES ASSUME HtmlInv PROVE TreeConsistent
  OBVIOUS
<1>1. \A t : TreeInv(t) => TreeTypeOK(t)
  <2> SUFFICES ASSUME NEW t, TreeInv(t) PROVE TreeTypeOK(t)
    OBVIOUS
  <2>1. t.parent \in [Nodes -> Nodes \cup {NoParent}] /\ \A n \in Nodes : t.children[n] \in Seq(Nodes)
    BY TreeIs
  <2>2. Labels(t.data)
    BY TreeIs
  <2>3. \A n \in Nodes : t.data[n].kind \in {"Element", "Text", "Other"}
    BY <2>2 DEF Labels, IsData
  <2> QED BY <2>1, <2>3 DEF TreeTypeOK
<1>2. /\ TreeInv(tree) /\ TreeInv(before) /\ TreeInv(first) /\ IsInjective(visited)
      /\ phase \in {"parse", "clean", "done"} /\ config \in Configs /\ passes \in 0..MaxPasses /\ stack \in Seq(Frames)
  BY DEF HtmlInv
<1>3. ASSUME NEW k \in DOMAIN stack, NEW x \in stack[k].next
      PROVE  x \in ToSet(tree.children[stack[k].node]) /\ stack[k].next = {x}
  <2>1. phase = "clean"
    BY <1>3 DEF HtmlInv
  <2> QED BY <1>3, <2>1 DEF HtmlInv, WalkInv, StackInv
<1>4. \A k \in DOMAIN stack : Cardinality(stack[k].next) <= 1
  <2> SUFFICES ASSUME NEW k \in DOMAIN stack PROVE Cardinality(stack[k].next) <= 1
    OBVIOUS
  <2>1. CASE stack[k].next = {}
    BY <2>1, FS_EmptySet
  <2>2. CASE stack[k].next # {}
    <3>1. PICK x \in stack[k].next : stack[k].next = {x}
      BY <1>3, <2>2
    <3>2. Cardinality({x}) = 1
      BY FS_Singleton
    <3> QED BY <3>1, <3>2
  <2> QED BY <2>1, <2>2
<1>5. HtmlTypeOK
  BY <1>1, <1>2, <1>4 DEF HtmlTypeOK
<1>6. /\ \A p \in Nodes : IsInjective(tree.children[p])
      /\ \A p, n \in Nodes : tree.parent[n] = p <=> n \in ToSet(tree.children[p])
  BY <1>2, TreeIs
<1>7. phase # "panicked"
  BY <1>2
<1> QED BY <1>2, <1>3, <1>5, <1>6, <1>7 DEF TreeConsistent

LEMMA NextKeeps == HtmlInv /\ [Next]_vars => HtmlInv'
<1> SUFFICES ASSUME HtmlInv, [Next]_vars PROVE HtmlInv'
  OBVIOUS
<1>1. CASE Next
  BY <1>1, ParseKeeps, SanitizeKeeps, VisitKeeps, LeaveKeeps, FinishKeeps DEF Next
<1>2. CASE UNCHANGED vars
  BY <1>2 DEF vars, HtmlInv, NewInv, ParseInv, WalkInv, StackInv
<1> QED BY <1>1, <1>2

\* Whatever the parser builds and however a configuration makes clean_node move, drop and
\* replace the nodes it walks on, parents and children agree at every step, no expect fails,
\* the sibling put aside by an iterator stays a child of the node it walks, and no pass
\* enters a node twice.
THEOREM TreeStaysConsistent == Spec => []TreeConsistent
<1>1. Init => HtmlInv
  BY InitKeeps
<1>2. HtmlInv /\ [Next]_vars => HtmlInv'
  BY NextKeeps
<1>3. HtmlInv => TreeConsistent
  BY ConsistentIs
<1> QED BY <1>1, <1>2, <1>3, PTL DEF Spec

-----------------------------------------------------------------------------
(* Sanitizer: a second pass changes nothing.                               *)

\* The equation of the function in retain, up to n.
Unfolds(f, s, w, n) ==
    f = [j \in 0..n |-> IF j = 0 THEN << >>
                        ELSE IF s[j] \in w THEN Append(f[j - 1], s[j]) ELSE f[j - 1]]

LEMMA UnfoldsExists ==
    ASSUME NEW s, NEW w, NEW len \in Nat
    PROVE  \E f : Unfolds(f, s, w, len)
<1> DEFINE Bad == {n \in Nat : ~ \E f : Unfolds(f, s, w, n)}
<1>1. SUFFICES ASSUME Bad # {} PROVE FALSE
  OBVIOUS
<1>2. PICK n \in Bad : \A m \in Bad : n <= m
  <2>1. Bad \subseteq Nat
    OBVIOUS
  <2> HIDE DEF Bad
  <2> QED BY <1>1, <2>1, LeastNumber
<1>3. n \in Nat /\ ~ \E f : Unfolds(f, s, w, n)
  BY <1>2
<1>4. n # 0
  <2> DEFINE f == [j \in 0..0 |-> << >>]
  <2>1. Unfolds(f, s, w, 0)
    BY DEF Unfolds
  <2> QED BY <1>3, <2>1
<1>5. n - 1 \in Nat /\ n - 1 \notin Bad
  BY <1>2, <1>3, <1>4
<1>6. PICK f : Unfolds(f, s, w, n - 1)
  BY <1>5
<1> DEFINE last == IF s[n] \in w THEN Append(f[n - 1], s[n]) ELSE f[n - 1]
           g == [j \in 0..n |-> IF j = n THEN last ELSE f[j]]
<1>7. \A j \in 0..(n - 1) : f[j] = IF j = 0 THEN << >>
                                    ELSE IF s[j] \in w THEN Append(f[j - 1], s[j]) ELSE f[j - 1]
  BY <1>6 DEF Unfolds
<1>8. ASSUME NEW j \in 0..n
      PROVE  g[j] = IF j = 0 THEN << >>
                    ELSE IF s[j] \in w THEN Append(g[j - 1], s[j]) ELSE g[j - 1]
  <2>1. CASE j = n
    <3>1. g[j] = last /\ g[j - 1] = f[n - 1]
      BY <1>3, <1>4, <2>1
    <3> QED BY <1>4, <2>1, <3>1
  <2>2. CASE j = 0
    BY <1>3, <1>4, <1>7, <2>2
  <2>3. CASE j # 0 /\ j # n
    <3>1. g[j] = f[j] /\ g[j - 1] = f[j - 1] /\ j \in 0..(n - 1)
      BY <1>3, <2>3
    <3> HIDE DEF g
    <3> QED BY <1>7, <2>3, <3>1
  <2> QED BY <2>1, <2>2, <2>3
<1>9. Unfolds(g, s, w, n)
  <2>1. g = [j \in 0..n |-> g[j]]
    OBVIOUS
  <2> HIDE DEF g
  <2> QED BY <1>8, <2>1 DEF Unfolds
<1> QED BY <1>3, <1>9

LEMMA RetainUnfolds ==
    ASSUME NEW s, NEW w, Len(s) \in Nat
    PROVE  \E f : Unfolds(f, s, w, Len(s)) /\ retain(s, w) = f[Len(s)]
<1> DEFINE f == CHOOSE f : Unfolds(f, s, w, Len(s))
<1>1. Unfolds(f, s, w, Len(s))
  BY UnfoldsExists
<1>2. retain(s, w) = f[Len(s)]
  BY DEF retain, Unfolds
<1> QED BY <1>1, <1>2

\* retain keeps a list all of whose entries are wanted, and what it keeps is wanted.
LEMMA RetainIn ==
    ASSUME NEW S, NEW s \in Seq(S), NEW w
    PROVE  /\ retain(s, w) \in Seq(S) /\ \A k \in 1..Len(retain(s, w)) : retain(s, w)[k] \in w
           /\ (\A k \in 1..Len(s) : s[k] \in w) => retain(s, w) = s
<1>1. PICK f : Unfolds(f, s, w, Len(s)) /\ retain(s, w) = f[Len(s)]
  BY RetainUnfolds
<1> DEFINE Good(n) == /\ f[n] \in Seq(S) /\ \A k \in 1..Len(f[n]) : f[n][k] \in w
                      /\ (\A k \in 1..Len(s) : s[k] \in w) => Len(f[n]) = n /\ \A k \in 1..n : f[n][k] = s[k]
           Bad == {n \in 0..Len(s) : ~ Good(n)}
<1>2. Bad = {}
  <2> SUFFICES ASSUME Bad # {} PROVE FALSE
    OBVIOUS
  <2>1. PICK n \in Bad : \A m \in Bad : n <= m
    <3>1. Bad \subseteq Nat
      OBVIOUS
    <3> HIDE DEF Bad
    <3> QED BY <3>1, LeastNumber
  <2>2. n \in 0..Len(s) /\ Len(s) \in Nat /\ ~ Good(n)
    BY <2>1
  <2>3. f[n] = IF n = 0 THEN << >>
               ELSE IF s[n] \in w THEN Append(f[n - 1], s[n]) ELSE f[n - 1]
    BY <1>1, <2>2 DEF Unfolds
  <2>4. n # 0
    BY <2>2, <2>3
  <2>5. n - 1 \in 0..Len(s) /\ s[n] \in S /\ n \in 1..Len(s)
    BY <2>2, <2>4
  <2>6. n - 1 \notin Bad
    <3> HIDE DEF Bad
    <3> QED BY <2>1, <2>2
  <2>7. Good(n - 1)
    BY <2>5, <2>6
  <2> DEFINE u == f[n - 1]
  <2>8. /\ u \in Seq(S) /\ \A k \in 1..Len(u) : u[k] \in w
        /\ (\A k \in 1..Len(s) : s[k] \in w) => Len(u) = n - 1 /\ \A k \in 1..(n - 1) : u[k] = s[k]
    BY <2>7
  <2>9. f[n] = IF s[n] \in w THEN Append(u, s[n]) ELSE u
    BY <2>3, <2>4
  <2> HIDE DEF u
  <2>10. s[n] \in w => /\ Append(u, s[n]) \in Seq(S)
                       /\ \A k \in 1..Len(Append(u, s[n])) : Append(u, s[n])[k] \in w
    BY <2>5, <2>8
  <2>11. f[n] \in Seq(S) /\ \A k \in 1..Len(f[n]) : f[n][k] \in w
    BY <2>8, <2>9, <2>10
  <2>12. ASSUME \A k \in 1..Len(s) : s[k] \in w PROVE Len(f[n]) = n /\ \A k \in 1..n : f[n][k] = s[k]
    <3>1. f[n] = Append(u, s[n])
      BY <2>5, <2>9, <2>12
    <3>2. Len(u) = n - 1 /\ \A k \in 1..(n - 1) : u[k] = s[k]
      BY <2>8, <2>12
    <3>3. Len(Append(u, s[n])) = n /\ \A k \in 1..n : Append(u, s[n])[k] = s[k]
      BY <2>5, <2>8, <3>2
    <3> QED BY <3>1, <3>3
  <2> QED BY <2>2, <2>11, <2>12
<1>3. Good(Len(s))
  BY <1>2
<1>4. ASSUME \A k \in 1..Len(s) : s[k] \in w PROVE f[Len(s)] = s
  <2>1. f[Len(s)] \in Seq(S) /\ Len(f[Len(s)]) = Len(s) /\ \A k \in 1..Len(s) : f[Len(s)][k] = s[k]
    BY <1>3, <1>4
  <2> QED BY <2>1
<1> QED BY <1>1, <1>3, <1>4

-----------------------------------------------------------------------------
(* What cleaning makes of the data of a node. *)

\* No lists of the user rename anything.
KeepsNames(cfg) == cfg.replace_elements = {} /\ cfg.replace_attrs = {}

AttrsOK(d) == \A a \in d.attrs : IsAttr(a)

\* The name is none that a mode replaces.
Renamed(cfg, d) == d.kind = "Element" /\ use_strict(cfg) => d.name \notin {"font", "strike"}

\* What the node is entered with if it stays.
Accepted(cfg, d, depth) == Renamed(cfg, d) /\ node_action(cfg, d, depth) = "None"

\* What it is left with: there is nothing more to do about it at that depth.
CleanAt(cfg, d, depth) ==
    /\ Renamed(cfg, d)
    /\ ~ForbiddenScheme(cfg, d) => node_action(cfg, d, depth) = "None"
    /\ d.kind = "Element" => clean_element_attributes(cfg, d) = d

LEMMA ClassesAre ==
    ASSUME NEW cfg, NEW name, NEW a, IsAttr(a), NEW b, b = CleanClasses(cfg, name, a)
    PROVE  IsAttr(b) /\ b.name = a.name /\ b.scheme = a.scheme /\ CleanClasses(cfg, name, b) = b
<1> DEFINE Good(x) == AllowedClass(cfg, name, x)
           S == ToSet(a.classes)
           w == {x \in S : Good(x)}
           r == retain(a.classes, w)
<1>1. a = [name |-> a.name, scheme |-> a.scheme, classes |-> a.classes] /\ a.classes \in Seq(S)
  BY DEF IsAttr
<1>2. b = [name |-> a.name, scheme |-> a.scheme, classes |-> r]
  BY <1>1 DEF CleanClasses
<1>3. b.name = a.name /\ b.scheme = a.scheme /\ b.classes = r
  BY <1>2
<1>4. r \in Seq(S) /\ \A k \in 1..Len(r) : r[k] \in w
  <2> HIDE DEF S, w
  <2> QED BY <1>1, RetainIn
<1> DEFINE v == {x \in ToSet(r) : Good(x)}
<1>5. r \in Seq(ToSet(r)) /\ \A k \in 1..Len(r) : r[k] \in v
  <2> HIDE DEF r, S, Good
  <2>1. DOMAIN r = 1..Len(r) /\ \A k \in 1..Len(r) : r[k] \in ToSet(r)
    BY <1>4 DEF ToSet
  <2> QED BY <1>4, <2>1
<1>6. retain(r, v) = r
  <2> HIDE DEF r, v
  <2> QED BY <1>5, RetainIn
<1>7. CleanClasses(cfg, name, b) = [b EXCEPT !.classes = retain(r, v)]
  <2> HIDE DEF r
  <2> QED BY <1>2, <1>3 DEF CleanClasses
<1> HIDE DEF r, v
<1> QED BY <1>2, <1>3, <1>5, <1>6, <1>7 DEF IsAttr

\* The attributes that clean_element_attributes leaves.
CleanAttrs(cfg, name, attrs) ==
    LET allowed == {a \in attrs : AllowedAttr(cfg, name, a)}
        emptied(a) == a.classes # <<>> /\ CleanClasses(cfg, name, a).classes = <<>>
    IN  {a \in allowed : a.name # "class"}
            \cup {CleanClasses(cfg, name, a) : a \in {b \in allowed : b.name = "class" /\ ~emptied(b)}}

LEMMA CleanAttrsAre ==
    ASSUME NEW cfg, NEW d
    PROVE  clean_element_attributes(cfg, d) = [d EXCEPT !.attrs = CleanAttrs(cfg, d.name, d.attrs)]
  BY DEF clean_element_attributes, CleanAttrs

LEMMA CleanedIs ==
    ASSUME NEW cfg, NEW d, IsData(d), AttrsOK(d), NEW e, e = clean_element_attributes(cfg, d)
    PROVE  /\ IsData(e) /\ AttrsOK(e) /\ e.kind = d.kind /\ e.name = d.name
           /\ \A b \in e.attrs : \E a \in d.attrs : b.name = a.name /\ b.scheme = a.scheme
           /\ clean_element_attributes(cfg, e) = e
<1> DEFINE nm == d.name
           CC(a) == CleanClasses(cfg, nm, a)
           OK(a) == AllowedAttr(cfg, nm, a)
           Empt(a) == a.classes # <<>> /\ CC(a).classes = <<>>
           A == {a \in {b \in d.attrs : OK(b)} : a.name # "class"}
           B == {CC(a) : a \in {b \in {g \in d.attrs : OK(g)} : b.name = "class" /\ ~Empt(b)}}
           At == A \cup B
<1>1. d = [kind |-> d.kind, name |-> nm, attrs |-> d.attrs] /\ d.kind \in {"Element", "Text", "Other"}
  BY DEF IsData
<1>2. e = [d EXCEPT !.attrs = At]
  BY DEF clean_element_attributes
<1>3. e = [kind |-> d.kind, name |-> nm, attrs |-> At]
  <2> HIDE DEF At, nm
  <2> QED BY <1>1, <1>2
<1>4. e.kind = d.kind /\ e.name = nm /\ e.attrs = At
  <2> HIDE DEF At, nm
  <2> QED BY <1>3
<1>5. \A a \in d.attrs : IsAttr(a) /\ IsAttr(CC(a)) /\ CC(a).name = a.name /\ CC(a).scheme = a.scheme /\ CC(CC(a)) = CC(a)
  BY ClassesAre DEF AttrsOK
<1>6. \A a \in d.attrs : OK(a) => OK(CC(a))
  BY <1>5 DEF AllowedAttr
<1> HIDE DEF CC, OK
<1>7. \A b \in At : \E a \in d.attrs : IsAttr(b) /\ b.name = a.name /\ b.scheme = a.scheme
  BY <1>5
<1>8. ASSUME NEW b \in At PROVE OK(b) /\ (b.name = "class" => CC(b) = b /\ ~Empt(b))
  <2>1. CASE b \in A
    BY <2>1
  <2>2. CASE b \in B
    <3>1. PICK a \in d.attrs : OK(a) /\ ~Empt(a) /\ b = CC(a) /\ a.name = "class"
      BY <2>2
    <3>2. CC(b) = b /\ OK(b)
      BY <1>5, <1>6, <3>1
    <3> QED BY <3>1, <3>2
  <2> QED BY <1>8, <2>1, <2>2
<1> DEFINE A2 == {a \in {b \in At : OK(b)} : a.name # "class"}
           B2 == {CC(a) : a \in {b \in {g \in At : OK(g)} : b.name = "class" /\ ~Empt(b)}}
<1>9. A2 \cup B2 = At
  <2> HIDE DEF At, Empt
  <2>1. \A b \in At : OK(b) /\ (b.name = "class" => CC(b) = b /\ ~Empt(b))
    BY <1>8
  <2>2. A2 = {b \in At : b.name # "class"}
    BY <2>1
  <2>3. ASSUME NEW y \in B2 PROVE y \in At
    <3>1. PICK b \in At : b.name = "class" /\ y = CC(b)
      BY <2>3
    <3> QED BY <2>1, <3>1
  <2>4. ASSUME NEW y \in At, y.name = "class" PROVE y \in B2
    <3>1. OK(y) /\ ~Empt(y) /\ CC(y) = y
      BY <2>1, <2>4
    <3> QED BY <2>4, <3>1
  <2> HIDE DEF A2, B2
  <2> QED BY <2>2, <2>3, <2>4
<1>10. clean_element_attributes(cfg, e) = [e EXCEPT !.attrs = A2 \cup B2]
  <2> HIDE DEF At, nm
  <2>1. e.attrs = At /\ e.name = nm
    BY <1>4
  <2>2. CleanAttrs(cfg, nm, At) = A2 \cup B2
    BY DEF CleanAttrs, CC, OK
  <2> QED BY <2>1, <2>2, CleanAttrsAre
<1>11. clean_element_attributes(cfg, e) = e
  <2> HIDE DEF At, A2, B2, nm
  <2> QED BY <1>3, <1>9, <1>10
<1>12. IsData(e)
  <2> HIDE DEF At, nm
  <2> QED BY <1>1, <1>3, <1>4 DEF IsData
<1>13. AttrsOK(e)
  <2>1. \A b \in At : IsAttr(b)
    BY <1>7
  <2> HIDE DEF At
  <2> QED BY <1>4, <2>1 DEF AttrsOK
<1>14. \A b \in e.attrs : \E a \in d.attrs : b.name = a.name /\ b.scheme = a.scheme
  <2> HIDE DEF At
  <2> QED BY <1>4, <1>7
<1> HIDE DEF At
<1> QED BY <1>4, <1>11, <1>12, <1>13, <1>14

\* A node that was accepted is clean when it is left.
LEMMA AcceptedIsClean ==
    ASSUME NEW cfg, NEW d, IsData(d), AttrsOK(d), NEW depth, Accepted(cfg, d, depth)
    PROVE  IF d.kind = "Element" THEN CleanAt(cfg, clean_element_attributes(cfg, d), depth)
           ELSE CleanAt(cfg, d, depth)
<1>1. CASE d.kind # "Element"
  BY <1>1 DEF CleanAt, Accepted
<1>2. CASE d.kind = "Element"
  <2> DEFINE e == clean_element_attributes(cfg, d)
  <2>1. /\ e.kind = d.kind /\ e.name = d.name
        /\ \A b \in e.attrs : \E a \in d.attrs : b.name = a.name /\ b.scheme = a.scheme
        /\ clean_element_attributes(cfg, e) = e
    BY CleanedIs
  <2> HIDE DEF e
  <2>2. Renamed(cfg, e)
    BY <2>1 DEF Accepted, Renamed
  <2>3. DeniedScheme(cfg, e) => DeniedScheme(cfg, d)
    BY <2>1 DEF DeniedScheme
  <2>4. /\ d.kind # "Other" /\ d.name \notin cfg.remove_elements /\ ~(cfg.remove_reply_fallback /\ d.name = "mx-reply")
        /\ ~TooDeep(cfg, depth) /\ d.name \notin cfg.ignore_elements /\ AllowedName(cfg, d.name) /\ ~DeniedScheme(cfg, d)
    BY <1>2 DEF Accepted, node_action
  <2>5. ~ForbiddenScheme(cfg, e) => node_action(cfg, e, depth) = "None"
    BY <2>1, <2>3, <2>4 DEF node_action
  <2>6. CleanAt(cfg, e, depth)
    BY <2>1, <2>2, <2>5 DEF CleanAt
  <2> QED BY <1>2, <2>6 DEF e
<1> QED BY <1>1, <1>2

\* What is clean is so nearer to the root.
LEMMA Shallower ==
    ASSUME NEW cfg \in Configs, NEW d, NEW depth \in Int, NEW less \in Int, less <= depth,
           CleanAt(cfg, d, depth)
    PROVE  CleanAt(cfg, d, less)
<1>1. \A max \in max_depth_value(cfg) : max \in Int
  <2>1. cfg.max_depth \subseteq Nat
    BY HtmlAssumption
  <2> QED BY <2>1 DEF max_depth_value, MAX_DEPTH_STRICT
<1>2. TooDeep(cfg, less) => TooDeep(cfg, depth)
  BY <1>1 DEF TooDeep
<1>3. node_action(cfg, d, depth) = "None" => node_action(cfg, d, less) = "None"
  BY <1>2 DEF node_action
<1> QED BY <1>3 DEF CleanAt

\* The data after apply_replacements.
Replacing(cfg, d) ==
    LET e == IF d.kind = "Element" THEN [d EXCEPT !.attrs = ReplacedAttrs(cfg, d)] ELSE d
        names == ElementReplacement(cfg, d)
    IN  IF names = {} THEN e ELSE [e EXCEPT !.name = CHOOSE x \in names : TRUE]

\* A mode replaces font and strike, and only these.
LEMMA ModeReplaces ==
    ASSUME NEW cfg, KeepsNames(cfg), NEW d
    PROVE  /\ ElementReplacement(cfg, d) = IF d.kind # "Element" \/ ~use_strict(cfg) THEN {}
                                            ELSE IF d.name = "font" THEN {"span"}
                                            ELSE IF d.name = "strike" THEN {"s"} ELSE {}
           /\ d.name # "font" \/ ~use_strict(cfg) => ReplacedAttrs(cfg, d) = d.attrs
<1>1. Content({}) = {} /\ ~IsOverride({})
  BY DEF Content, IsOverride
<1>2. \A x : x \in DEPRECATED_ELEMENTS <=> x = <<"font", "span">> \/ x = <<"strike", "s">>
  BY DEF DEPRECATED_ELEMENTS
<1>3. \A x : x \in DEPRECATED_ATTRS <=> x = <<"font", "color", "data-mx-color">>
  BY DEF DEPRECATED_ATTRS
<1> DEFINE re(table) == {r[2] : r \in {x \in table : x[1] = d.name}}
           ra(table, a) == {r[3] : r \in {x \in table : x[1] = d.name /\ x[2] = a.name}}
<1>4. /\ cfg.replace_elements = {} /\ cfg.replace_attrs = {}
      /\ ModeContent(cfg, {}, DEPRECATED_ELEMENTS) = IF use_strict(cfg) THEN DEPRECATED_ELEMENTS ELSE {}
      /\ ModeContent(cfg, {}, DEPRECATED_ATTRS) = IF use_strict(cfg) THEN DEPRECATED_ATTRS ELSE {}
  BY <1>1 DEF KeepsNames, ModeContent
<1>5. re({}) = {} /\ \A a : ra({}, a) = {}
  OBVIOUS
<1>6. re(DEPRECATED_ELEMENTS) = IF d.name = "font" THEN {"span"} ELSE IF d.name = "strike" THEN {"s"} ELSE {}
  <2>1. CASE d.name = "font"
    <3>1. {x \in DEPRECATED_ELEMENTS : x[1] = d.name} = {<<"font", "span">>}
      BY <1>2, <2>1
    <3>2. re(DEPRECATED_ELEMENTS) = {r[2] : r \in {<<"font", "span">>}}
      BY <3>1
    <3>3. {r[2] : r \in {<<"font", "span">>}} = {"span"}
      OBVIOUS
    <3> HIDE DEF re
    <3> QED BY <2>1, <3>2, <3>3
  <2>2. CASE d.name = "strike"
    <3>1. {x \in DEPRECATED_ELEMENTS : x[1] = d.name} = {<<"strike", "s">>}
      BY <1>2, <2>2
    <3>2. re(DEPRECATED_ELEMENTS) = {r[2] : r \in {<<"strike", "s">>}}
      BY <3>1
    <3>3. {r[2] : r \in {<<"strike", "s">>}} = {"s"}
      OBVIOUS
    <3> HIDE DEF re
    <3> QED BY <2>2, <3>2, <3>3
  <2>3. CASE d.name # "font" /\ d.name # "strike"
    BY <1>2, <2>3
  <2> QED BY <2>1, <2>2, <2>3
<1>7. d.name # "font" => \A a : ra(DEPRECATED_ATTRS, a) = {}
  BY <1>3
<1>8. ElementReplacement(cfg, d) =
         IF d.kind # "Element" THEN {} ELSE OrElse(re({}), re(ModeContent(cfg, {}, DEPRECATED_ELEMENTS)))
  BY <1>1, <1>4 DEF ElementReplacement
<1>9. ASSUME d.name # "font" \/ ~use_strict(cfg) PROVE ReplacedAttrs(cfg, d) = d.attrs
  <2> DEFINE N(a) == OrElse(ra(Content(cfg.replace_attrs), a), ra(ModeContent(cfg, cfg.replace_attrs, DEPRECATED_ATTRS), a))
  <2>1. \A a : N(a) = {}
    <3>1. \A a : ra(Content(cfg.replace_attrs), a) = {} /\ ra(ModeContent(cfg, cfg.replace_attrs, DEPRECATED_ATTRS), a) = {}
      BY <1>1, <1>4, <1>5, <1>7, <1>9
    <3> QED BY <3>1 DEF OrElse
  <2>2. ReplacedAttrs(cfg, d) = {IF N(a) = {} THEN a ELSE [a EXCEPT !.name = CHOOSE x \in N(a) : TRUE] : a \in d.attrs}
    BY DEF ReplacedAttrs
  <2> HIDE DEF N
  <2> QED BY <2>1, <2>2
<1> HIDE DEF re, ra
<1> QED BY <1>4, <1>5, <1>6, <1>8, <1>9 DEF OrElse

\* Replacing is done once.
LEMMA ReplacingIs ==
    ASSUME NEW cfg, NEW d, IsData(d), AttrsOK(d)
    PROVE  /\ IsData(Replacing(cfg, d)) /\ AttrsOK(Replacing(cfg, d))
           /\ KeepsNames(cfg) => Renamed(cfg, Replacing(cfg, d))
           /\ KeepsNames(cfg) /\ Renamed(cfg, d) =>
                 ElementReplacement(cfg, d) = {} /\ (d.kind = "Element" => ReplacedAttrs(cfg, d) = d.attrs)
<1> DEFINE e == IF d.kind = "Element" THEN [d EXCEPT !.attrs = ReplacedAttrs(cfg, d)] ELSE d
           names == ElementReplacement(cfg, d)
           nm == CHOOSE x \in names : TRUE
           g == Replacing(cfg, d)
<1>1. d = [kind |-> d.kind, name |-> d.name, attrs |-> d.attrs] /\ d.kind \in {"Element", "Text", "Other"}
  BY DEF IsData
<1>2. e = [kind |-> d.kind, name |-> d.name, attrs |-> IF d.kind = "Element" THEN ReplacedAttrs(cfg, d) ELSE d.attrs]
  BY <1>1
<1>3. g = [kind |-> d.kind, name |-> IF names = {} THEN d.name ELSE nm,
           attrs |-> IF d.kind = "Element" THEN ReplacedAttrs(cfg, d) ELSE d.attrs]
  <2>1. g = IF names = {} THEN e ELSE [e EXCEPT !.name = nm]
    BY DEF Replacing
  <2> HIDE DEF e, g, nm, names
  <2> QED BY <1>2, <2>1
<1>4. IsData(g)
  <2> HIDE DEF g, nm, names
  <2> QED BY <1>1, <1>3 DEF IsData
<1>5. \A b \in ReplacedAttrs(cfg, d) : IsAttr(b)
  <2> SUFFICES ASSUME NEW b \in ReplacedAttrs(cfg, d) PROVE IsAttr(b)
    OBVIOUS
  <2>1. PICK a \in d.attrs : b = a \/ \E x : b = [a EXCEPT !.name = x]
    BY DEF ReplacedAttrs
  <2>2. a = [name |-> a.name, scheme |-> a.scheme, classes |-> a.classes] /\ a.classes \in Seq(ToSet(a.classes))
    BY DEF AttrsOK, IsAttr
  <2>3. ASSUME NEW x, b = [a EXCEPT !.name = x] PROVE IsAttr(b)
    <3>1. b = [name |-> x, scheme |-> a.scheme, classes |-> a.classes]
      BY <2>2, <2>3
    <3> QED BY <2>2, <3>1 DEF IsAttr
  <2> QED BY <2>1, <2>3 DEF AttrsOK
<1>6. AttrsOK(g)
  <2>1. g.attrs = IF d.kind = "Element" THEN ReplacedAttrs(cfg, d) ELSE d.attrs
    <3> HIDE DEF g, nm, names
    <3> QED BY <1>3
  <2> HIDE DEF g
  <2> QED BY <1>5, <2>1 DEF AttrsOK
<1>7. ASSUME KeepsNames(cfg) PROVE Renamed(cfg, g)
  <2>1. g.kind = d.kind /\ g.name = IF names = {} THEN d.name ELSE nm
    <3> HIDE DEF g, nm, names
    <3> QED BY <1>3
  <2>2. names = IF d.kind # "Element" \/ ~use_strict(cfg) THEN {}
                ELSE IF d.name = "font" THEN {"span"} ELSE IF d.name = "strike" THEN {"s"} ELSE {}
    BY <1>7, ModeReplaces
  <2>3. names # {} => nm \in names
    OBVIOUS
  <2> HIDE DEF g, nm, names
  <2> QED BY <2>1, <2>2, <2>3 DEF Renamed
<1>8. ASSUME KeepsNames(cfg), Renamed(cfg, d)
      PROVE  names = {} /\ (d.kind = "Element" => ReplacedAttrs(cfg, d) = d.attrs)
  BY <1>8, ModeReplaces DEF Renamed
<1> QED BY <1>4, <1>6, <1>7, <1>8

-----------------------------------------------------------------------------
(* What the operations on trees do to the data. *)

IsRecord(t) == t = [parent |-> t.parent, children |-> t.children, data |-> t.data]

LEMMA RecordIs ==
    ASSUME NEW t, IsRecord(t), NEW f, NEW g, NEW u, u = [t EXCEPT !.children = g, !.parent = f]
    PROVE  IsRecord(u) /\ u.data = t.data
<1>1. t = [parent |-> t.parent, children |-> t.children, data |-> t.data]
  BY DEF IsRecord
<1>2. u = [parent |-> f, children |-> g, data |-> t.data]
  BY <1>1
<1> QED BY <1>2 DEF IsRecord

LEMMA DetachData ==
    ASSUME NEW t, IsRecord(t), NEW n
    PROVE  IsRecord(detach(t, n)) /\ detach(t, n).data = t.data
<1>1. CASE t.parent[n] = NoParent
  BY <1>1 DEF detach
<1>2. CASE t.parent[n] # NoParent
  <2> DEFINE q == t.parent[n]
             g == [t.children EXCEPT ![q] = RemoveAt(t.children[q], IndexIn(t, n))]
             f == [t.parent EXCEPT ![n] = NoParent]
  <2>1. detach(t, n) = [t EXCEPT !.children[q] = RemoveAt(@, IndexIn(t, n)), !.parent[n] = NoParent]
    BY <1>2 DEF detach
  <2>2. detach(t, n) = [t EXCEPT !.children = g, !.parent = f]
    BY <2>1 DEF IsRecord
  <2> HIDE DEF g, f
  <2> QED BY <2>2, RecordIs
<1> QED BY <1>1, <1>2

LEMMA PlacedData ==
    ASSUME NEW t, IsRecord(t), NEW n, NEW p, NEW r
    PROVE  IsRecord(Placed(t, n, p, r)) /\ Placed(t, n, p, r).data = t.data
<1> DEFINE g == [t.children EXCEPT ![p] = r]
           f == [t.parent EXCEPT ![n] = p]
<1>1. Placed(t, n, p, r) = [t EXCEPT !.children = g, !.parent = f]
  BY DEF Placed, IsRecord
<1> HIDE DEF g, f
<1> QED BY <1>1, RecordIs

LEMMA AppendData ==
    ASSUME NEW t, IsRecord(t), NEW p, NEW n
    PROVE  IsRecord(append_child(t, p, n)) /\ append_child(t, p, n).data = t.data
<1>1. PICK v : v = detach(t, n)
  OBVIOUS
<1>2. IsRecord(v) /\ v.data = t.data
  BY <1>1, DetachData
<1>3. append_child(t, p, n) = Placed(v, n, p, Append(v.children[p], n))
  BY <1>1 DEF append_child, Placed
<1> QED BY <1>2, <1>3, PlacedData

LEMMA InsertData ==
    ASSUME NEW t, IsRecord(t), NEW n, NEW sib
    PROVE  IsRecord(insert_before_sibling(t, n, sib)) /\ insert_before_sibling(t, n, sib).data = t.data
<1>1. PICK v : v = detach(t, n)
  OBVIOUS
<1>2. IsRecord(v) /\ v.data = t.data
  BY <1>1, DetachData
<1>3. PICK q : q = v.parent[sib]
  OBVIOUS
<1>4. insert_before_sibling(t, n, sib) = Placed(v, n, q, InsertAt(v.children[q], IndexIn(v, sib), n))
  BY <1>1, <1>3 DEF insert_before_sibling, Placed
<1> QED BY <1>2, <1>4, PlacedData

LEMMA ReparentData ==
    ASSUME NEW t, IsRecord(t), NEW n, NEW p
    PROVE  IsRecord(reparent_children(t, n, p)) /\ reparent_children(t, n, p).data = t.data
<1> DEFINE g == [[t.children EXCEPT ![n] = <<>>] EXCEPT ![p] = @ \o t.children[n]]
           f == [m \in Nodes |-> IF m \in ToSet(t.children[n]) THEN p ELSE t.parent[m]]
<1>1. reparent_children(t, n, p) = [t EXCEPT !.children = g, !.parent = f]
  BY DEF reparent_children
<1> HIDE DEF g, f
<1> QED BY <1>1, RecordIs

LEMMA LabelData ==
    ASSUME NEW t, IsRecord(t), NEW n, NEW d, NEW u, u = Labelled(t, n, d)
    PROVE  IsRecord(u) /\ u.data = [t.data EXCEPT ![n] = d] /\ u.parent = t.parent /\ u.children = t.children
<1> DEFINE e == [t.data EXCEPT ![n] = d]
<1>1. u = [t EXCEPT !.data = e]
  BY DEF Labelled
<1> HIDE DEF e
<1>2. t = [parent |-> t.parent, children |-> t.children, data |-> t.data]
  BY DEF IsRecord
<1>3. u = [parent |-> t.parent, children |-> t.children, data |-> e]
  BY <1>1, <1>2
<1>4. IsRecord(u) /\ u.data = e /\ u.parent = t.parent /\ u.children = t.children
  BY <1>3 DEF IsRecord
<1> QED BY <1>4 DEF e

LEMMA ReplaceData ==
    ASSUME NEW t, IsRecord(t), NEW n, NEW name
    PROVE  /\ IsRecord(replace_with_element_name(t, n, name))
           /\ replace_with_element_name(t, n, name).data = [t.data EXCEPT ![Replacement(n)] = [t.data[n] EXCEPT !.name = name]]
<1>1. PICK made : made = Labelled(t, Replacement(n), [t.data[n] EXCEPT !.name = name])
  OBVIOUS
<1>2. PICK moved : moved = reparent_children(made, n, Replacement(n))
  OBVIOUS
<1>3. PICK ins : ins = insert_before_sibling(moved, Replacement(n), n)
  OBVIOUS
<1>4. replace_with_element_name(t, n, name) = detach(ins, n)
  BY <1>1, <1>2, <1>3 DEF replace_with_element_name, Labelled
<1>5. IsRecord(made) /\ made.data = [t.data EXCEPT ![Replacement(n)] = [t.data[n] EXCEPT !.name = name]]
  <2>1. PICK d : d = [t.data[n] EXCEPT !.name = name]
    OBVIOUS
  <2>2. PICK r : r = Replacement(n)
    OBVIOUS
  <2>3. made = Labelled(t, r, d)
    BY <1>1, <2>1, <2>2
  <2>4. IsRecord(made)
    BY <2>3, LabelData
  <2>5. made.data = [t.data EXCEPT ![r] = d]
    <3> DEFINE e == [t.data EXCEPT ![r] = d]
    <3>1. made = [t EXCEPT !.data = e]
      BY <2>3 DEF Labelled
    <3> HIDE DEF e
    <3>2. t = [parent |-> t.parent, children |-> t.children, data |-> t.data]
      BY DEF IsRecord
    <3>3. made.data = e
      BY <3>1, <3>2
    <3> QED BY <3>3 DEF e
  <2> QED BY <2>1, <2>2, <2>4, <2>5
<1>6. IsRecord(moved) /\ moved.data = made.data
  BY <1>2, <1>5, ReparentData
<1>7. IsRecord(ins) /\ ins.data = moved.data
  BY <1>3, <1>6, InsertData
<1>8. IsRecord(detach(ins, n)) /\ detach(ins, n).data = ins.data
  BY <1>7, DetachData
<1> QED BY <1>4, <1>5, <1>6, <1>7, <1>8

\* All data of the nodes that a parser can make, and that cleaning can make of them.
GoodData(t) == \A m \in Nodes : IsData(t.data[m]) /\ AttrsOK(t.data[m])

LEMMA GoodIs ==
    ASSUME NEW t, TreeInv(t)
    PROVE  /\ IsRecord(t) /\ DOMAIN t.data = Nodes
           /\ GoodData(t) <=> \A m \in Nodes : AttrsOK(t.data[m])
  BY DEF TreeInv, IsTree, Labels, IsRecord, GoodData

LEMMA LabelGood ==
    ASSUME NEW t, TreeInv(t), GoodData(t), NEW n \in Nodes, NEW d, IsData(d), AttrsOK(d), NEW u, u = Labelled(t, n, d)
    PROVE  GoodData(u) /\ u.data[n] = d /\ \A m \in Nodes : m # n => u.data[m] = t.data[m]
<1>1. IsRecord(t) /\ DOMAIN t.data = Nodes
  BY GoodIs
<1>2. u.data = [t.data EXCEPT ![n] = d]
  BY <1>1, LabelData
<1>3. u.data[n] = d /\ \A m \in Nodes : m # n => u.data[m] = t.data[m]
  BY <1>1, <1>2
<1> QED BY <1>3 DEF GoodData

LEMMA ApplyData ==
    ASSUME NEW t, TreeInv(t), GoodData(t), NEW c \in Nodes, NEW r \in Nodes, r = Replacement(c), NEW cfg, NEW u, NEW h,
           u = apply_replacements(cfg, t, c).tree, h = apply_replacements(cfg, t, c).node
    PROVE  /\ GoodData(u) /\ u.data[h] = Replacing(cfg, t.data[c])
           /\ \A m \in Nodes : m # c /\ m # r => u.data[m] = t.data[m]
<1>1. PICK d : d = t.data[c] /\ IsData(d) /\ AttrsOK(d)
  BY DEF GoodData
<1>2. PICK e : e = IF d.kind = "Element" THEN [d EXCEPT !.attrs = ReplacedAttrs(cfg, d)] ELSE d
  OBVIOUS
<1>3. PICK v : v = IF d.kind = "Element" THEN [t EXCEPT !.data[c].attrs = ReplacedAttrs(cfg, d)] ELSE t
  OBVIOUS
<1>4. PICK names : names = ElementReplacement(cfg, d)
  OBVIOUS
<1>5. apply_replacements(cfg, t, c) =
        IF names = {} THEN [tree |-> v, node |-> c]
        ELSE [tree |-> replace_with_element_name(v, c, CHOOSE x \in names : TRUE), node |-> r]
  BY <1>1, <1>3, <1>4 DEF apply_replacements
<1>6. Replacing(cfg, d) = IF names = {} THEN e ELSE [e EXCEPT !.name = CHOOSE x \in names : TRUE]
  BY <1>2, <1>4 DEF Replacing
<1>7. IsRecord(t) /\ DOMAIN t.data = Nodes
  BY GoodIs
<1>8. /\ IsRecord(v) /\ DOMAIN v.data = Nodes /\ v.data[c] = e
      /\ \A m \in Nodes : m # c => v.data[m] = t.data[m]
  <2>1. CASE d.kind = "Element"
    <3>1. v = Labelled(t, c, e)
      BY <1>1, <1>2, <1>3, <2>1 DEF Labelled
    <3>2. IsRecord(v) /\ v.data = [t.data EXCEPT ![c] = e]
      BY <1>7, <3>1, LabelData
    <3> QED BY <1>7, <3>2
  <2>2. CASE d.kind # "Element"
    BY <1>1, <1>2, <1>3, <1>7, <2>2
  <2> QED BY <2>1, <2>2
<1>9. IsData(Replacing(cfg, d)) /\ AttrsOK(Replacing(cfg, d))
  BY <1>1, ReplacingIs
<1>10. CASE names = {}
  <2>1. u = v /\ h = c /\ Replacing(cfg, d) = e
    BY <1>5, <1>6, <1>10
  <2>2. \A m \in Nodes : IsData(v.data[m]) /\ AttrsOK(v.data[m])
    BY <1>8, <1>9, <2>1 DEF GoodData
  <2> QED BY <1>1, <1>8, <2>1, <2>2 DEF GoodData
<1>11. CASE names # {}
  <2>1. PICK name : name = CHOOSE x \in names : TRUE
    OBVIOUS
  <2>2. u = replace_with_element_name(v, c, name) /\ h = r
    BY <1>5, <1>11, <2>1
  <2>3. u.data = [v.data EXCEPT ![r] = [v.data[c] EXCEPT !.name = name]]
    BY <1>8, <2>2, ReplaceData
  <2>4. u.data[r] = Replacing(cfg, d) /\ \A m \in Nodes : m # r => u.data[m] = v.data[m]
    BY <1>6, <1>8, <1>11, <2>1, <2>3
  <2>5. IsData(e) /\ AttrsOK(e)
    <3>1. d.kind = "Element"
      BY <1>4, <1>11 DEF ElementReplacement
    <3>2. d = [kind |-> d.kind, name |-> d.name, attrs |-> d.attrs]
      BY <1>1 DEF IsData
    <3>3. PICK g : g = Replacing(cfg, d)
      OBVIOUS
    <3>4. e = [kind |-> d.kind, name |-> d.name, attrs |-> ReplacedAttrs(cfg, d)]
      BY <1>2, <3>1, <3>2
    <3>5. g = [e EXCEPT !.name = name]
      BY <1>6, <1>11, <2>1, <3>3
    <3>6. g.attrs = e.attrs
      BY <3>4, <3>5
    <3>7. AttrsOK(e)
      BY <1>9, <3>3, <3>6 DEF AttrsOK
    <3>8. IsData(e)
      BY <3>1, <3>4 DEF IsData
    <3> QED BY <3>7, <3>8
  <2>6. \A m \in Nodes : IsData(u.data[m]) /\ AttrsOK(u.data[m])
    <3> SUFFICES ASSUME NEW m \in Nodes PROVE IsData(u.data[m]) /\ AttrsOK(u.data[m])
      OBVIOUS
    <3>1. CASE m = r
      BY <1>9, <2>4, <3>1
    <3>2. CASE m # r /\ m = c
      BY <1>8, <2>4, <2>5, <3>2
    <3>3. CASE m # r /\ m # c
      BY <1>8, <2>4, <3>3 DEF GoodData
    <3> QED BY <3>1, <3>2, <3>3
  <2> QED BY <1>1, <1>8, <2>2, <2>4, <2>6 DEF GoodData
<1> QED BY <1>10, <1>11

-----------------------------------------------------------------------------
(* The order of the children. *)

LEMMA FromTotal ==
    ASSUME NEW S, NEW s \in Seq(S), IsInjective(s)
    PROVE  /\ \A x, y \in ToSet(s) : y \in From(s, x) \/ x \in From(s, y)
           /\ \A x, y : y \in From(s, x) /\ x \in From(s, y) => x = y
           /\ \A x, y : y \in From(s, x) => From(s, y) \subseteq From(s, x)
           /\ \A x, y : y \in From(s, x) => y \in ToSet(s) /\ x \in ToSet(s)
<1>1. DOMAIN s = 1..Len(s) /\ Len(s) \in Nat /\ \A k, l \in 1..Len(s) : s[k] = s[l] => k = l
  BY DEF IsInjective
<1>2. \A x, y : y \in From(s, x) <=> \E k, l \in 1..Len(s) : l <= k /\ s[l] = x /\ s[k] = y
  BY <1>1 DEF From
<1>3. \A x : x \in ToSet(s) <=> \E k \in 1..Len(s) : s[k] = x
  BY <1>1 DEF ToSet
<1>4. \A k, l \in 1..Len(s) : (k <= l \/ l <= k) /\ (k <= l /\ l <= k => k = l)
  BY <1>1
<1>5. \A k, l, m \in 1..Len(s) : k <= l /\ l <= m => k <= m
  BY <1>1
<1>6. ASSUME NEW x \in ToSet(s), NEW y \in ToSet(s) PROVE y \in From(s, x) \/ x \in From(s, y)
  BY <1>2, <1>3, <1>4, <1>6
<1>7. ASSUME NEW x, NEW y, y \in From(s, x), x \in From(s, y) PROVE x = y
  <2>1. PICK k, l \in 1..Len(s) : l <= k /\ s[l] = x /\ s[k] = y
    BY <1>2, <1>7
  <2>2. PICK a, b \in 1..Len(s) : b <= a /\ s[b] = y /\ s[a] = x
    BY <1>2, <1>7
  <2>3. a = l /\ b = k
    BY <1>1, <2>1, <2>2
  <2> QED BY <1>4, <2>1, <2>2, <2>3
<1>8. ASSUME NEW x, NEW y, y \in From(s, x), NEW z \in From(s, y) PROVE z \in From(s, x)
  <2>1. PICK k, l \in 1..Len(s) : l <= k /\ s[l] = x /\ s[k] = y
    BY <1>2, <1>8
  <2>2. PICK a, b \in 1..Len(s) : b <= a /\ s[b] = y /\ s[a] = z
    BY <1>2, <1>8
  <2>3. b = k
    BY <1>1, <2>1, <2>2
  <2>4. l <= a
    BY <1>5, <2>1, <2>2, <2>3
  <2> QED BY <1>2, <2>1, <2>2, <2>4
<1>9. \A x, y : y \in From(s, x) => y \in ToSet(s) /\ x \in ToSet(s)
  BY <1>2, <1>3
<1> QED BY <1>6, <1>7, <1>8, <1>9

\* What comes after x still does if the list from it on has only lost nodes.
LEMMA StillAhead ==
    ASSUME NEW S, NEW a \in Seq(S), NEW b \in Seq(S), IsInjective(a), IsInjective(b),
           NEW x \in ToSet(a), NEW y \in ToSet(a), y \in From(b, x), Within(a, b, y)
    PROVE  y \in From(a, x)
<1>1. CASE x = y
  BY <1>1, FromIs
<1>2. CASE x # y
  <2>1. x \notin From(b, y)
    BY <1>2, FromTotal
  <2>2. x \notin From(a, y)
    BY <2>1 DEF Within
  <2> QED BY <2>2, FromTotal
<1> QED BY <1>1, <1>2

LEMMA NextCovers ==
    ASSUME NEW t, TreeInv(t), NEW n \in Nodes, NEW p \in Nodes, t.parent[n] = p,
           NEW y \in From(t.children[p], n), y # n
    PROVE  \E x \in next_sibling(t, n) : y \in From(t.children[p], x)
<1>1. PICK s \in Seq(Nodes) : s = t.children[p] /\ IsInjective(s)
  BY TreeIs
<1>2. PICK k : k = IndexIn(t, n)
  OBVIOUS
<1>3. p # NoParent
  BY NodesAre
<1>4. k \in 1..Len(s) /\ s[k] = n
  <2>1. t.parent[n] # NoParent
    BY <1>3
  <2>2. IndexIn(t, n) \in 1..Len(t.children[t.parent[n]]) /\ t.children[t.parent[n]][IndexIn(t, n)] = n
    BY <2>1, IndexIs
  <2> QED BY <1>1, <1>2, <2>2
<1>5. next_sibling(t, n) = {s[j] : j \in DOMAIN s \cap {k + 1}}
  BY <1>1, <1>2, <1>3 DEF next_sibling, SiblingAt
<1>6. DOMAIN s = 1..Len(s) /\ Len(s) \in Nat /\ \A j, l \in 1..Len(s) : s[j] = s[l] => j = l
  BY <1>1 DEF IsInjective
<1>7. PICK j, l \in 1..Len(s) : l <= j /\ s[l] = n /\ y = s[j]
  BY <1>1, <1>6 DEF From
<1>8. l = k /\ j # k
  BY <1>4, <1>6, <1>7
<1>9. k + 1 \in 1..Len(s) /\ k + 1 <= j
  BY <1>4, <1>6, <1>7, <1>8
<1>10. s[k + 1] \in next_sibling(t, n)
  BY <1>5, <1>6, <1>9
<1>11. y \in From(s, s[k + 1])
  BY <1>6, <1>7, <1>9 DEF From
<1> QED BY <1>1, <1>10, <1>11

LEMMA FirstCovers ==
    ASSUME NEW s \in Seq(Nodes), NEW y \in ToSet(s)
    PROVE  \E x \in {s[k] : k \in DOMAIN s \cap {1}} : y \in From(s, x)
<1>1. DOMAIN s = 1..Len(s) /\ Len(s) \in Nat
  OBVIOUS
<1>2. PICK j \in 1..Len(s) : y = s[j]
  BY <1>1 DEF ToSet
<1>3. 1 \in DOMAIN s /\ 1 <= j
  BY <1>1, <1>2
<1>4. y \in From(s, s[1])
  BY <1>1, <1>2, <1>3 DEF From
<1> QED BY <1>3, <1>4

-----------------------------------------------------------------------------
(* A second pass: the invariant. *)

\* The kept nodes, with the least depth of their levels, need no more cleaning, nor do their children.
Clean(cfg, t, kept, lv) ==
    \A n \in kept : /\ CleanAt(cfg, t.data[n], lv[n])
                    /\ \A c \in ToSet(t.children[n]) : c \in kept /\ lv[c] > lv[n]

\* A child of a node being walked is kept, or being walked, or still to come.
ChildOK(t, st, vs, kept, lv, k, c) ==
    IF Touched(vs, c)
    THEN (c \in kept /\ lv[c] > k - 2) \/ \E j \in DOMAIN st : j > k /\ c = st[j].node
    ELSE \E x \in st[k].next : c \in From(t.children[st[k].node], x)

FrameOK(cfg, t, st, vs, kept, lv, k) ==
    /\ st[k].node \notin kept /\ st[k].depth = k - 2
    /\ k > 1 /\ st[k].action = "None" => Accepted(cfg, t.data[st[k].node], k - 2)
    /\ st[k].action # "Remove" => \A c \in ToSet(t.children[st[k].node]) : ChildOK(t, st, vs, kept, lv, k, c)

\* The first pass: what it has left is clean.
FirstPass(cfg, t, st, vs, kept, lv) ==
    /\ \A n \in kept : Attached(t, n) /\ Touched(vs, n)
    /\ Clean(cfg, t, kept, lv)
    /\ \A k \in DOMAIN st : FrameOK(cfg, t, st, vs, kept, lv, k)

\* What it has left at the end.
AllClean(cfg, t, kept, lv) ==
    /\ Clean(cfg, t, kept, lv)
    /\ \A c \in ToSet(t.children[Root]) : c \in kept /\ lv[c] >= 0

\* The second pass: it walks on kept nodes, no deeper than the first.
SecondPass(st, kept, lv) ==
    \A k \in DOMAIN st :
        /\ st[k].action = "None" /\ st[k].depth = k - 2
        /\ k > 1 => st[k].node \in kept /\ k - 2 <= lv[st[k].node]

Unforbidden(cfg, t, vs) == \A n \in ToSet(vs) : ~ForbiddenScheme(cfg, t.data[n])

Levels == [Nodes -> Int]

IdemInv ==
    /\ GoodData(tree)
    /\ KeepsNames(config) =>
        /\ phase = "clean" /\ passes = 1 =>
              \E kept \in SUBSET Nodes, lv \in Levels : FirstPass(config, tree, stack, visited, kept, lv)
        /\ phase = "done" /\ passes = 1 =>
              tree = first /\ \E kept \in SUBSET Nodes, lv \in Levels : AllClean(config, first, kept, lv)
        /\ phase \in {"clean", "done"} /\ passes = 2 /\ Unforbidden(config, first, visited) =>
              /\ tree = first
              /\ \E kept \in SUBSET Nodes, lv \in Levels :
                    AllClean(config, first, kept, lv) /\ SecondPass(stack, kept, lv)

-----------------------------------------------------------------------------
(* The data of the nodes. *)

LEMMA EmptyGood == GoodData(EmptyTree)
<1>1. ASSUME NEW m \in Nodes
      PROVE  EmptyTree.data[m] \in {Element("html", {}), Other}
  BY DEF EmptyTree
<1>2. /\ Element("html", {}).kind = "Element" /\ Element("html", {}).name = "html" /\ Element("html", {}).attrs = {}
      /\ Other.kind = "Other" /\ Other.name = "" /\ Other.attrs = {}
  BY DEF Element, Other
<1>3. IsData(Element("html", {})) /\ IsData(Other)
  BY <1>2 DEF IsData, Element, Other
<1>4. AttrsOK(Element("html", {})) /\ AttrsOK(Other)
  BY <1>2 DEF AttrsOK
<1> QED BY <1>1, <1>3, <1>4 DEF GoodData

LEMMA TagGood ==
    ASSUME HtmlInv, NEW d, d \in Tags[config] \/ d = Text
    PROVE  IsData(d) /\ AttrsOK(d)
<1>1. config \in Configs
  BY DEF HtmlInv
<1>2. Text.attrs = {} /\ Other.attrs = {} /\ Text.kind = "Text" /\ Text.name = "" /\ Other.kind = "Other" /\ Other.name = ""
  BY DEF Text, Other
<1>3. IsData(Text) /\ IsData(Other) /\ AttrsOK(Text)
  BY <1>2 DEF IsData, AttrsOK, Text, Other
<1>4. CASE d \in Tags[config]
  <2>1. (\A a \in d.attrs : IsAttr(a)) /\ (d \in {Text, Other} \/ d = Element(d.name, d.attrs))
    BY <1>1, <1>4, HtmlAssumption
  <2>2. ASSUME d = Element(d.name, d.attrs) PROVE IsData(d)
    <3>1. d = [kind |-> "Element", name |-> d.name, attrs |-> d.attrs]
      BY <2>2 DEF Element
    <3> QED BY <3>1 DEF IsData
  <2> QED BY <1>3, <2>1, <2>2 DEF AttrsOK
<1> QED BY <1>3, <1>4

\* Hanging a new node somewhere.
LEMMA GrowGood ==
    ASSUME HtmlInv, GoodData(tree), Fresh \in Nodes, NEW d, d \in Tags[config] \/ d = Text, NEW p, NEW u,
           u = append_child(With(d), p, Fresh) \/ u = insert_before_sibling(With(d), Fresh, p)
    PROVE  GoodData(u)
<1>1. TreeInv(tree) /\ IsRecord(tree)
  BY GoodIs DEF HtmlInv
<1>2. PICK v : v = With(d)
  OBVIOUS
<1>3. v = Labelled(tree, Fresh, d)
  BY <1>2 DEF With, Labelled
<1>4. IsRecord(v)
  BY <1>1, <1>3, LabelData
<1>5. GoodData(v)
  BY <1>1, <1>3, TagGood, LabelGood
<1>6. u.data = v.data
  BY <1>2, <1>4, AppendData, InsertData
<1> QED BY <1>5, <1>6 DEF GoodData

LEMMA ParseGood == ASSUME HtmlInv, GoodData(tree), Parse PROVE GoodData(tree')
<1>1. TreeInv(tree) /\ IsRecord(tree)
  BY GoodIs DEF HtmlInv
<1>2. ASSUME NEW m, Parsing(1, m) PROVE Fresh \in Nodes
  <2>1. phase = "parse" /\ 1 <= effort.nodes - effort.created
    BY <1>2 DEF Parsing
  <2>2. effort.created \in Nat /\ effort.nodes \in 0..MaxNodes
    BY <2>1 DEF HtmlInv, ParseInv
  <2> QED BY <2>1, <2>2, TreeAssumption DEF Fresh, Nodes
<1>3. ASSUME NEW p, NEW d \in Tags[config], AppendNode(p, d) PROVE GoodData(tree')
  BY <1>2, <1>3, GrowGood DEF AppendNode
<1>4. ASSUME NEW p, AppendText(p) PROVE GoodData(tree')
  BY <1>2, <1>4, GrowGood DEF AppendText
<1>5. ASSUME NEW e, NEW p, NEW d \in Tags[config], AppendBasedOnParent(e, p, d) PROVE GoodData(tree')
  BY <1>2, <1>5, GrowGood DEF AppendBasedOnParent
<1>6. ASSUME NEW e, NEW p, TextBasedOnParent(e, p) PROVE GoodData(tree')
  BY <1>2, <1>6, GrowGood DEF TextBasedOnParent
<1>7. ASSUME NEW n, RemoveFromParent(n) PROVE GoodData(tree')
  BY <1>1, <1>7, DetachData DEF RemoveFromParent, GoodData
<1>8. ASSUME NEW n, NEW p, ReparentChildren(n, p) PROVE GoodData(tree')
  BY <1>1, <1>8, ReparentData DEF ReparentChildren, GoodData
<1>9. ASSUME NEW n, NEW p, MoveNode(n, p) PROVE GoodData(tree')
  BY <1>1, <1>9, AppendData DEF MoveNode, GoodData
<1> QED BY <1>3, <1>4, <1>5, <1>6, <1>7, <1>8, <1>9 DEF Parse

LEMMA MovedData ==
    ASSUME HtmlInv, GoodData(tree)
    PROVE  Moved.data = tree.data /\ GoodData(Moved)
<1>1. IsRecord(tree)
  BY GoodIs DEF HtmlInv
<1>2. Moved.data = tree.data
  BY <1>1, InsertData DEF Moved
<1> QED BY <1>2 DEF GoodData

-----------------------------------------------------------------------------
(* The second pass leaves the tree as it is. *)

LEMMA SameLabel ==
    ASSUME NEW t, TreeInv(t), NEW c \in Nodes, NEW u, u = Labelled(t, c, t.data[c])
    PROVE  u = t
<1>1. IsRecord(t)
  BY GoodIs
<1>2. PICK d : d = t.data[c]
  OBVIOUS
<1>3. IsRecord(u) /\ u.data = [t.data EXCEPT ![c] = d] /\ u.parent = t.parent /\ u.children = t.children
  <2>1. u = Labelled(t, c, d)
    BY <1>2
  <2> QED BY <1>1, <2>1, LabelData
<1>4. u.data = t.data
  <2>1. DOMAIN t.data = Nodes /\ t.data = [n \in Nodes |-> t.data[n]]
    BY TreeIs DEF Labels
  <2> QED BY <1>2, <1>3, <2>1
<1> QED BY <1>1, <1>3, <1>4 DEF IsRecord

LEMMA NothingReplaced ==
    ASSUME NEW t, TreeInv(t), GoodData(t), NEW c \in Nodes, NEW cfg, KeepsNames(cfg), Renamed(cfg, t.data[c])
    PROVE  apply_replacements(cfg, t, c).tree = t /\ apply_replacements(cfg, t, c).node = c
<1>1. PICK d : d = t.data[c] /\ IsData(d) /\ AttrsOK(d)
  BY DEF GoodData
<1>2. ElementReplacement(cfg, d) = {} /\ (d.kind = "Element" => ReplacedAttrs(cfg, d) = d.attrs)
  BY <1>1, ReplacingIs
<1>3. PICK v : v = IF d.kind = "Element" THEN [t EXCEPT !.data[c].attrs = d.attrs] ELSE t
  OBVIOUS
<1>4. apply_replacements(cfg, t, c) = [tree |-> v, node |-> c]
  BY <1>1, <1>2, <1>3 DEF apply_replacements
<1>5. v = t
  <2>1. CASE d.kind = "Element"
    <3>1. [d EXCEPT !.attrs = d.attrs] = d
      BY <1>1 DEF IsData
    <3>2. v = Labelled(t, c, [d EXCEPT !.attrs = d.attrs])
      <4>1. v = [t EXCEPT !.data[c].attrs = d.attrs]
        BY <1>3, <2>1
      <4> QED BY <1>1, <4>1 DEF Labelled
    <3>3. v = Labelled(t, c, t.data[c])
      BY <1>1, <3>1, <3>2
    <3> QED BY <3>3, SameLabel
  <2>2. CASE d.kind # "Element"
    BY <1>3, <2>2
  <2> QED BY <2>1, <2>2
<1> QED BY <1>4, <1>5

LEMMA SecondVisit ==
    ASSUME HtmlInv, GoodData(tree), KeepsNames(config), tree = first, NEW kept \in SUBSET Nodes, NEW lv \in Levels,
           AllClean(config, first, kept, lv), SecondPass(stack, kept, lv), Visit, Unforbidden(config, first, visited')
    PROVE  tree' = tree /\ SecondPass(stack', kept, lv)
<1>1. PICK c, K, u, h, act, N, frame : Entering(c, K, u, h) /\ EnteredWith(c, u, h, act, N, frame)
  BY VisitIs
<1>2. PICK T : /\ T = Top.node /\ Visiting(c, T, K) /\ T = stack[K].node /\ T \in Nodes /\ c \in Nodes
               /\ tree.parent[c] = T
  BY <1>1 DEF Entering, Visiting
<1>3. K \in Nat /\ K > 0 /\ DOMAIN stack = 1..K /\ K \in 1..K /\ Top = stack[K]
  BY <1>1 DEF Entering
<1>4. TreeInv(tree) /\ config \in Configs /\ StackInv /\ visited \in Seq(Nodes)
  BY <1>1 DEF HtmlInv, WalkInv, Entering
<1>5. stack[K].action = "None" /\ stack[K].depth = K - 2 /\ (K > 1 => T \in kept /\ K - 2 <= lv[T])
  BY <1>2, <1>3 DEF SecondPass
<1>6. Moved = tree
  BY <1>3, <1>5 DEF Moved
<1>7. c \in ToSet(tree.children[T])
  BY <1>2, <1>4, TreeIs
<1>8. c \in kept /\ lv[c] \in Int /\ K - 1 <= lv[c]
  <2>1. lv[c] \in Int /\ lv[T] \in Int
    BY <1>2 DEF Levels
  <2>2. CASE K = 1
    <3>1. T = Root
      BY <1>2, <1>4, <2>2 DEF StackInv
    <3> QED BY <1>7, <2>1, <2>2, <3>1 DEF AllClean
  <2>3. CASE K > 1
    <3>1. T \in kept /\ K - 2 <= lv[T]
      BY <1>5, <2>3
    <3>2. c \in kept /\ lv[c] > lv[T]
      BY <1>7, <3>1 DEF AllClean, Clean
    <3> QED BY <1>3, <2>1, <3>1, <3>2
  <2> QED BY <1>3, <2>2, <2>3
<1>9. CleanAt(config, tree.data[c], lv[c])
  BY <1>8 DEF AllClean, Clean
<1>10. CleanAt(config, tree.data[c], K - 1)
  <2>1. K - 1 \in Int
    BY <1>3
  <2> QED BY <1>4, <1>8, <1>9, <2>1, Shallower
<1>11. u = tree /\ h = c
  <2>1. Renamed(config, tree.data[c])
    BY <1>9 DEF CleanAt
  <2> QED BY <1>1, <1>2, <1>4, <1>6, <2>1, NothingReplaced DEF Entering
<1>12. ~ForbiddenScheme(config, tree.data[c])
  <2>1. c \in ToSet(visited')
    <3>1. visited' = Append(visited, c)
      BY <1>1 DEF EnteredWith
    <3>2. Len(visited) + 1 \in DOMAIN visited' /\ visited'[Len(visited) + 1] = c
      BY <1>2, <1>4, <3>1
    <3> QED BY <3>2 DEF ToSet
  <2> QED BY <2>1 DEF Unforbidden
<1>13. act = "None" /\ frame = [node |-> c, action |-> act, depth |-> K - 1, next |-> N]
  <2>1. Top.depth + 1 = K - 1
    BY <1>3, <1>5
  <2> QED BY <1>1, <1>10, <1>11, <1>12, <2>1 DEF EnteredWith, CleanAt
<1>14. /\ Advanced \in Seq(Frames) /\ Len(Advanced) = K
       /\ \A k \in 1..K : /\ Advanced[k].node = stack[k].node /\ Advanced[k].action = stack[k].action
                          /\ Advanced[k].depth = stack[k].depth
  <2>1. phase = "clean" /\ Top.next # {} /\ c = Child
    BY <1>1 DEF Entering
  <2> QED BY <1>2, <2>1, AdvancedIs
<1>15. /\ DOMAIN stack' = 1..(K + 1) /\ stack'[K + 1] = frame /\ \A k \in 1..K : stack'[k] = Advanced[k]
  <2>1. stack' = Append(Advanced, frame)
    BY <1>1 DEF EnteredWith
  <2> QED BY <1>3, <1>14, <2>1
<1>16. ASSUME NEW k \in DOMAIN stack'
       PROVE  /\ stack'[k].action = "None" /\ stack'[k].depth = k - 2
              /\ k > 1 => stack'[k].node \in kept /\ k - 2 <= lv[stack'[k].node]
  <2>1. CASE k = K + 1
    <3>1. stack'[k].action = "None" /\ stack'[k].depth = K - 1 /\ stack'[k].node = c
      BY <1>13, <1>15, <2>1
    <3>2. k - 2 = K - 1
      BY <1>3, <2>1
    <3> QED BY <1>8, <3>1, <3>2
  <2>2. CASE k \in 1..K
    BY <1>3, <1>14, <1>15, <2>2 DEF SecondPass
  <2>3. k = K + 1 \/ k \in 1..K
    BY <1>3, <1>15
  <2> QED BY <2>1, <2>2, <2>3
<1>17. tree' = tree
  BY <1>1, <1>11 DEF EnteredWith
<1> QED BY <1>16, <1>17 DEF SecondPass

LEMMA SecondLeave ==
    ASSUME HtmlInv, tree = first, NEW kept \in SUBSET Nodes, NEW lv \in Levels,
           AllClean(config, first, kept, lv), SecondPass(stack, kept, lv), Leave
    PROVE  tree' = tree /\ SecondPass(stack', kept, lv)
<1>1. Len(stack) > 1 /\ stack' = Front(stack) /\ tree' = Left
  BY DEF Leave
<1>2. PICK K : K = Len(stack) /\ K \in Nat /\ K > 1 /\ DOMAIN stack = 1..K /\ K \in DOMAIN stack /\ Top = stack[K]
  BY <1>1, StackIs DEF Top, Last
<1>3. PICK n \in Nodes : n = Top.node
  BY <1>2, StackIs
<1>4. Top.action = "None" /\ n \in kept
  BY <1>2, <1>3 DEF SecondPass
<1>5. tree.data[n].kind = "Element" => clean_element_attributes(config, tree.data[n]) = tree.data[n]
  BY <1>4 DEF AllClean, Clean, CleanAt
<1>6. tree' = tree
  <2>1. CASE tree.data[n].kind = "Element"
    <3>1. tree' = Labelled(tree, n, clean_element_attributes(config, tree.data[n]))
      BY <1>1, <1>3, <1>4, <2>1 DEF Left, Labelled
    <3>2. tree' = Labelled(tree, n, tree.data[n])
      BY <1>5, <2>1, <3>1
    <3>3. TreeInv(tree)
      BY DEF HtmlInv
    <3>4. PICK u : u = tree'
      OBVIOUS
    <3>5. u = tree
      BY <3>2, <3>3, <3>4, SameLabel
    <3> QED BY <3>4, <3>5
  <2>2. CASE tree.data[n].kind # "Element"
    BY <1>1, <1>3, <1>4, <2>2 DEF Left
  <2> QED BY <2>1, <2>2
<1>7. /\ DOMAIN stack' = 1..(K - 1) /\ \A k \in 1..(K - 1) : stack'[k] = stack[k]
  BY <1>1, <1>2, FrontIs
<1>8. \A k \in 1..(K - 1) : k \in DOMAIN stack
  BY <1>2
<1> QED BY <1>6, <1>7, <1>8 DEF SecondPass

-----------------------------------------------------------------------------
(* What the first pass leaves is clean. *)

LEMMA EnterData ==
    ASSUME HtmlInv, GoodData(tree), NEW c, NEW K, NEW u, NEW h, Entering(c, K, u, h)
    PROVE  /\ GoodData(u) /\ u.data[h] = Replacing(config, tree.data[c])
           /\ \A m \in Nodes : m # c /\ m # Replacement(c) => u.data[m] = tree.data[m]
<1>1. PICK t : t = Moved
  OBVIOUS
<1>2. t.data = tree.data /\ GoodData(t)
  BY <1>1, MovedData
<1>3. /\ phase = "clean" /\ Top.next # {} /\ c = Child /\ Visiting(c, Top.node, K)
      /\ u = apply_replacements(config, t, c).tree /\ h = apply_replacements(config, t, c).node
  BY <1>1 DEF Entering
<1>4. TreeInv(t)
  BY <1>1, <1>3, MovedIs
<1>5. c \in Nodes /\ Replacement(c) \in Nodes
  BY <1>3 DEF Visiting
<1>6. PICK r \in Nodes : r = Replacement(c)
  BY <1>5
<1>7. /\ GoodData(u) /\ u.data[h] = Replacing(config, t.data[c])
      /\ \A m \in Nodes : m # c /\ m # r => u.data[m] = t.data[m]
  BY <1>2, <1>3, <1>4, <1>5, <1>6, ApplyData
<1> QED BY <1>2, <1>6, <1>7

LEMMA VisitGood == ASSUME HtmlInv, GoodData(tree), Visit PROVE GoodData(tree')
<1>1. PICK c, K, u, h, act, N, frame : Entering(c, K, u, h) /\ EnteredWith(c, u, h, act, N, frame)
  BY VisitIs
<1>2. GoodData(u)
  BY <1>1, EnterData
<1>3. tree' = u
  BY <1>1 DEF EnteredWith
<1> QED BY <1>2, <1>3

\* Where the nodes of the tree hang once the child has been entered.
LEMMA EnterParents ==
    ASSUME HtmlInv, NEW c, NEW K, NEW u, NEW h, Entering(c, K, u, h)
    PROVE  /\ TreeInv(u) /\ h \in {c, Replacement(c)} /\ h \in Nodes /\ u.children[h] = tree.children[c]
           /\ \A n \in Nodes : Attached(tree, n) => n # Replacement(c)
           /\ \E k \in DOMAIN stack : u.parent[h] = stack[k].node
           /\ \A n, m \in Nodes : m # h /\ n # h /\ u.parent[m] = n => m # c /\ tree.parent[m] = n
           /\ \A n, m \in Nodes : m # h /\ m # c /\ n # c /\ tree.parent[m] = n => u.parent[m] = n
           /\ \A n \in Nodes : n # c /\ n # Replacement(c) /\ Attached(tree, n) => Attached(u, n)
<1>1. /\ phase = "clean" /\ Top.next # {} /\ c = Child /\ Visiting(c, Top.node, K)
      /\ u = apply_replacements(config, Moved, c).tree /\ h = apply_replacements(config, Moved, c).node
  BY DEF Entering
<1>2. c \in Nodes /\ Replacement(c) \in Nodes /\ Blank(tree, Replacement(c))
  BY <1>1 DEF Visiting
<1>3. TreeInv(u) /\ h \in {c, Replacement(c)} /\ u.children[h] = tree.children[c]
  BY <1>1, EnterIs
<1>4. PICK k \in DOMAIN stack : Rehung(tree, u, c, h, stack[k].node)
  BY <1>1, EnterIs
<1>5. PICK q : q = stack[k].node
  OBVIOUS
<1>6. \A m \in Nodes : u.parent[m] = IF m = h THEN q ELSE IF m = c THEN NoParent
                                     ELSE IF tree.parent[m] = c THEN h ELSE tree.parent[m]
  BY <1>4, <1>5 DEF Rehung
<1>7. h \in Nodes /\ u.parent[h] = q
  BY <1>2, <1>3, <1>6
<1>8. \A n \in Nodes : n # NoParent
  BY NodesAre
<1>9. \A n \in Nodes : Attached(tree, n) => n # Replacement(c)
  BY <1>2 DEF Attached, Blank
<1>10. \A n, m \in Nodes : m # h /\ n # h /\ u.parent[m] = n => m # c /\ tree.parent[m] = n
  BY <1>6, <1>8
<1>11. \A n, m \in Nodes : m # h /\ m # c /\ n # c /\ tree.parent[m] = n => u.parent[m] = n
  BY <1>6
<1>12. \A n \in Nodes : n # c /\ n # Replacement(c) /\ Attached(tree, n) => Attached(u, n)
  BY <1>3, <1>6, <1>7, <1>8 DEF Attached
<1> QED BY <1>3, <1>4, <1>5, <1>7, <1>9, <1>10, <1>11, <1>12

\* A child that was to come before is to come still.
LEMMA EnterAhead ==
    ASSUME HtmlInv, NEW c, NEW K, NEW u, NEW h, Entering(c, K, u, h), NEW k \in 1..K,
           NEW n \in Nodes, n = stack[k].node, NEW x \in Advanced[k].next,
           NEW y \in From(tree.children[n], x), y \in ToSet(u.children[n])
    PROVE  y \in From(u.children[n], x)
<1>1. /\ phase = "clean" /\ Top.next # {} /\ c = Child /\ Visiting(c, Top.node, K) /\ DOMAIN stack = 1..K
      /\ u = apply_replacements(config, Moved, c).tree /\ h = apply_replacements(config, Moved, c).node
  BY DEF Entering
<1>2. /\ x \in ToSet(tree.children[n]) /\ Ahead(visited, tree.children[n], x) /\ c \notin From(tree.children[n], x)
  BY <1>1, AdvancedIs
<1>3. TreeInv(tree) /\ TreeInv(u) /\ c \in Nodes /\ n # c /\ n # Replacement(c)
  BY <1>1, EnterParents DEF HtmlInv, Visiting
<1>4. PICK a \in Seq(Nodes) : a = u.children[n] /\ IsInjective(a)
  BY <1>3, TreeIs
<1>5. PICK b \in Seq(Nodes) : b = tree.children[n] /\ IsInjective(b) /\ ToSet(b) \subseteq Nodes
  BY <1>3, TreeIs
<1>6. x \in From(b, x) /\ From(b, x) \subseteq ToSet(b) /\ From(b, y) \subseteq From(b, x) /\ y \in From(b, x)
  BY <1>2, <1>5, FromIs, FromTotal
<1>7. \A z \in From(b, x) : z # c /\ z # Replacement(c) /\ z \in Nodes /\ tree.parent[z] = n
  <2> SUFFICES ASSUME NEW z \in From(b, x) PROVE z # c /\ z # Replacement(c) /\ z \in Nodes /\ tree.parent[z] = n
    OBVIOUS
  <2>1. z # c /\ z \in Nodes /\ z \in ToSet(tree.children[n])
    BY <1>2, <1>5, <1>6
  <2>2. tree.parent[z] = n
    BY <1>3, <2>1, TreeIs
  <2>3. Attached(tree, z)
    BY <2>2, NodesAre DEF Attached
  <2>4. z # Replacement(c)
    BY <2>1, <2>3, EnterParents
  <2> QED BY <2>1, <2>2, <2>4
<1>8. x \in ToSet(a)
  <2>1. x \in Nodes /\ x # h /\ x # c /\ tree.parent[x] = n
    BY <1>6, <1>7, EnterParents
  <2>2. u.parent[x] = n
    BY <1>3, <2>1, EnterParents
  <2> QED BY <1>3, <1>4, <2>1, <2>2, TreeIs
<1>9. Within(a, b, y)
  <2>1. Ahead(visited, tree.children[n], y) /\ c \notin From(tree.children[n], y) /\ y # c /\ y # Replacement(c)
    BY <1>2, <1>5, <1>6, <1>7 DEF Ahead
  <2>2. \A l \in DOMAIN stack : \A z :
             z # c /\ z # Replacement(c) /\ Ahead(visited, tree.children[stack[l].node], z)
                   /\ c \notin From(tree.children[stack[l].node], z) =>
                Within(u.children[stack[l].node], tree.children[stack[l].node], z)
    BY <1>1, EnterIs
  <2> QED BY <1>1, <1>4, <1>5, <2>1, <2>2
<1>10. y \in ToSet(a)
  BY <1>4
<1>11. y \in From(a, x)
  BY <1>4, <1>5, <1>6, <1>8, <1>9, <1>10, StillAhead
<1> QED BY <1>4, <1>11

LEMMA TouchedMore ==
    ASSUME NEW vs \in Seq(Nodes), NEW c \in Nodes, NEW ws, ws = Append(vs, c)
    PROVE  \A n : Touched(ws, n) <=> Touched(vs, n) \/ n = c \/ n = Replacement(c)
<1>1. /\ DOMAIN ws = 1..(Len(vs) + 1) /\ Len(vs) \in Nat /\ DOMAIN vs = 1..Len(vs)
      /\ ws[Len(vs) + 1] = c /\ \A j \in 1..Len(vs) : ws[j] = vs[j]
  OBVIOUS
<1>2. \A j \in 1..(Len(vs) + 1) : j = Len(vs) + 1 \/ j \in 1..Len(vs)
  BY <1>1
<1>3. Len(vs) + 1 \in 1..(Len(vs) + 1) /\ \A j \in 1..Len(vs) : j \in 1..(Len(vs) + 1)
  BY <1>1
<1>4. ToSet(ws) = ToSet(vs) \cup {c}
  BY <1>1, <1>2, <1>3 DEF ToSet
<1> QED BY <1>4 DEF Touched

LEMMA FirstVisit ==
    ASSUME HtmlInv, GoodData(tree), KeepsNames(config), NEW kept \in SUBSET Nodes, NEW lv \in Levels,
           FirstPass(config, tree, stack, visited, kept, lv), Visit
    PROVE  FirstPass(config, tree', stack', visited', kept, lv)
<1>1. PICK c, K, u, h, act, N, frame : Entering(c, K, u, h) /\ EnteredWith(c, u, h, act, N, frame)
  BY VisitIs
<1>2. /\ phase = "clean" /\ Top.next # {} /\ c = Child /\ Visiting(c, Top.node, K)
      /\ K \in Nat /\ K > 0 /\ DOMAIN stack = 1..K /\ K \in 1..K /\ Top = stack[K]
  BY <1>1 DEF Entering
<1>3. /\ act = node_action(config, u.data[h], Top.depth + 1)
      /\ N = IF act = "Remove" THEN {} ELSE first_child(u, h)
      /\ frame = [node |-> h, action |-> act, depth |-> Top.depth + 1, next |-> N]
      /\ visited' = Append(visited, c) /\ tree' = u /\ stack' = Append(Advanced, frame)
  BY <1>1 DEF EnteredWith
<1>4. TreeInv(tree) /\ StackInv /\ WalkInv /\ visited \in Seq(Nodes)
  BY <1>2 DEF HtmlInv, WalkInv
<1>5. PICK T \in Nodes : T = Top.node /\ T = stack[K].node /\ tree.parent[c] = T
  BY <1>2 DEF Visiting
<1>6. /\ c \in Nodes /\ c # Root /\ ~Touched(visited, c) /\ stack[K].next = {c}
      /\ \A k \in 1..K : stack[k].node # c /\ stack[k].node # Replacement(c)
  BY <1>2 DEF Visiting
<1>7. \A n : Touched(visited', n) <=> Touched(visited, n) \/ n = c \/ n = Replacement(c)
  BY <1>3, <1>4, <1>6, TouchedMore
<1>8. /\ TreeInv(u) /\ h \in {c, Replacement(c)} /\ h \in Nodes /\ u.children[h] = tree.children[c]
      /\ \A n \in Nodes : Attached(tree, n) => n # Replacement(c)
  BY <1>1, EnterParents
<1>9. PICK q \in 1..K : u.parent[h] = stack[q].node
  BY <1>1, <1>2, EnterParents
<1>10. \A n, m \in Nodes : m # h /\ n # h /\ u.parent[m] = n => m # c /\ tree.parent[m] = n
  BY <1>1, EnterParents
<1>11. /\ GoodData(u) /\ u.data[h] = Replacing(config, tree.data[c])
       /\ \A m \in Nodes : m # c /\ m # Replacement(c) => u.data[m] = tree.data[m]
  BY <1>1, EnterData
<1>12. \A n \in kept : n \in Nodes /\ Attached(tree, n) /\ Touched(visited, n) /\ n # c /\ n # Replacement(c) /\ n # h
  BY <1>6, <1>8 DEF FirstPass
<1>13. \A k \in 1..K : /\ stack[k].node \in Nodes /\ stack[k].node \notin kept /\ stack[k].node # h
                       /\ FrameOK(config, tree, stack, visited, kept, lv, k)
  BY <1>2, <1>6, <1>8, StackIs DEF FirstPass, FrameOK
<1>14. \A n \in kept : Attached(u, n) /\ Touched(visited', n)
  <2>1. \A n \in Nodes : n # c /\ n # Replacement(c) /\ Attached(tree, n) => Attached(u, n)
    BY <1>1, EnterParents
  <2> QED BY <1>7, <1>12, <2>1
<1>15. Clean(config, u, kept, lv)
  <2> SUFFICES ASSUME NEW n \in kept
               PROVE  /\ CleanAt(config, u.data[n], lv[n])
                      /\ \A m \in ToSet(u.children[n]) : m \in kept /\ lv[m] > lv[n]
    BY DEF Clean
  <2>1. CleanAt(config, tree.data[n], lv[n]) /\ \A m \in ToSet(tree.children[n]) : m \in kept /\ lv[m] > lv[n]
    BY DEF FirstPass, Clean
  <2>2. u.data[n] = tree.data[n]
    BY <1>11, <1>12
  <2>3. ASSUME NEW m \in ToSet(u.children[n]) PROVE m \in ToSet(tree.children[n])
    <3>1. m \in Nodes /\ u.parent[m] = n /\ n \in Nodes
      BY <1>8, <1>12, <2>3, TreeIs
    <3>2. m # h
      BY <1>9, <1>13, <3>1
    <3>3. tree.parent[m] = n
      BY <1>10, <1>12, <3>1, <3>2
    <3> QED BY <1>4, <3>1, <3>3, TreeIs
  <2> QED BY <2>1, <2>2, <2>3
<1>16. /\ Advanced \in Seq(Frames) /\ Len(Advanced) = K
       /\ \A k \in 1..K : Advanced[k].node = stack[k].node /\ Advanced[k].action = stack[k].action
       /\ \A k \in 1..K : /\ Advanced[k].depth = stack[k].depth
                          /\ Advanced[k].next = IF k = K THEN next_sibling(tree, c) ELSE stack[k].next
  BY <1>2, AdvancedIs
<1>17. DOMAIN stack' = 1..(K + 1) /\ stack'[K + 1] = frame /\ \A k \in 1..K : stack'[k] = Advanced[k]
  BY <1>2, <1>3, <1>16
<1>18. /\ \A k \in 1..(K + 1) : k = K + 1 \/ k \in 1..K
       /\ K + 1 \in 1..(K + 1) /\ \A k \in 1..K : k \in 1..(K + 1) /\ K + 1 > k
  BY <1>2
<1>19. stack'[K + 1].node = h /\ stack'[K + 1].action = act /\ stack'[K + 1].depth = K - 1 /\ stack'[K + 1].next = N
  <2>1. Top.depth = K - 2
    BY <1>2, <1>13 DEF FrameOK
  <2>2. Top.depth + 1 = K - 1
    BY <1>2, <2>1
  <2>3. frame.node = h /\ frame.action = act /\ frame.depth = Top.depth + 1 /\ frame.next = N
    BY <1>3
  <2> QED BY <1>17, <2>2, <2>3
\* The new frame.
<1>20. FrameOK(config, u, stack', visited', kept, lv, K + 1)
  <2>1. (K + 1) - 2 = K - 1
    BY <1>2
  <2>2. h \notin kept
    BY <1>12
  <2>3. ASSUME act = "None" PROVE Accepted(config, u.data[h], K - 1)
    <3>1. IsData(tree.data[c]) /\ AttrsOK(tree.data[c])
      BY <1>6 DEF GoodData
    <3>2. Renamed(config, u.data[h])
      BY <1>11, <3>1, ReplacingIs
    <3>3. Top.depth + 1 = K - 1
      <4>1. Top.depth = K - 2
        BY <1>2, <1>13 DEF FrameOK
      <4> QED BY <1>2, <4>1
    <3> QED BY <1>3, <2>3, <3>2, <3>3 DEF Accepted
  <2>4. ASSUME act # "Remove", NEW y \in ToSet(u.children[h])
        PROVE  ~Touched(visited', y) /\ \E x \in N : y \in From(u.children[h], x)
    <3>1. y \in ToSet(tree.children[c]) /\ y \in Nodes
      BY <1>4, <1>6, <1>8, <2>4, TreeIs
    <3>2. tree.parent[y] = c
      BY <1>4, <1>6, <3>1, TreeIs
    <3>3. Attached(tree, y)
      BY <1>6, <3>2, NodesAre DEF Attached
    <3>4. ~Touched(visited, y)
      BY <1>4, <1>6, <3>1, <3>2, <3>3 DEF WalkInv
    <3>5. y # c
      BY <1>2, <1>5, <1>6, <3>2
    <3>6. ~Touched(visited', y)
      BY <1>7, <1>8, <3>1, <3>3, <3>4, <3>5
    <3>7. u.children[h] \in Seq(Nodes)
      BY <1>8, TreeIs
    <3>8. N = first_child(u, h)
      BY <1>3, <2>4
    <3> QED BY <2>4, <3>6, <3>7, <3>8, FirstCovers DEF first_child
  <2>5. act # "Remove" => \A y \in ToSet(u.children[h]) : ChildOK(u, stack', visited', kept, lv, K + 1, y)
    BY <1>19, <2>4 DEF ChildOK
  <2> QED BY <1>19, <2>1, <2>2, <2>3, <2>5 DEF FrameOK
\* The frames below it.
<1>21. ASSUME NEW k \in 1..K PROVE FrameOK(config, u, stack', visited', kept, lv, k)
  <2>1. PICK n \in Nodes : n = stack[k].node /\ n # h /\ n # c /\ n # Replacement(c) /\ n \notin kept
    BY <1>6, <1>13
  <2>2. stack'[k].node = n /\ stack'[k].action = stack[k].action /\ stack'[k].depth = stack[k].depth
    BY <1>16, <1>17, <2>1
  <2>3. /\ stack[k].depth = k - 2
        /\ k > 1 /\ stack[k].action = "None" => Accepted(config, tree.data[n], k - 2)
        /\ stack[k].action # "Remove" => \A y \in ToSet(tree.children[n]) : ChildOK(tree, stack, visited, kept, lv, k, y)
    BY <1>13, <2>1 DEF FrameOK
  <2>4. u.data[n] = tree.data[n]
    BY <1>11, <2>1
  <2>5. ASSUME stack[k].action # "Remove", NEW y \in ToSet(u.children[n])
        PROVE  ChildOK(u, stack', visited', kept, lv, k, y)
    <3>1. y \in Nodes /\ u.parent[y] = n
      BY <1>8, <2>1, <2>5, TreeIs
    <3>2. CASE y = h
      <4>1. Touched(visited', y)
        BY <1>7, <1>8, <3>2
      <4>2. \E j \in DOMAIN stack' : j > k /\ y = stack'[j].node
        BY <1>17, <1>18, <1>19, <1>21, <3>2
      <4> QED BY <4>1, <4>2 DEF ChildOK
    <3>3. CASE y # h
      <4>1. y # c /\ tree.parent[y] = n
        BY <1>10, <2>1, <3>1, <3>3
      <4>2. y \in ToSet(tree.children[n])
        BY <1>4, <2>1, <3>1, <4>1, TreeIs
      <4>3. ChildOK(tree, stack, visited, kept, lv, k, y)
        BY <2>3, <2>5, <4>2
      <4>4. y # Replacement(c)
        BY <1>8, <2>1, <3>1, <4>1, NodesAre DEF Attached
      <4>5. CASE Touched(visited, y)
        <5>1. Touched(visited', y)
          BY <1>7, <4>5
        <5>2. (y \in kept /\ lv[y] > k - 2) \/ \E j \in DOMAIN stack : j > k /\ y = stack[j].node
          BY <4>3, <4>5 DEF ChildOK
        <5>3. \A j \in DOMAIN stack : j \in DOMAIN stack' /\ stack'[j].node = stack[j].node
          BY <1>2, <1>16, <1>17, <1>18
        <5> QED BY <5>1, <5>2, <5>3 DEF ChildOK
      <4>6. CASE ~Touched(visited, y)
        <5>1. ~Touched(visited', y)
          BY <1>7, <4>1, <4>4, <4>6
        <5>2. PICK x \in stack[k].next : y \in From(tree.children[n], x)
          BY <2>1, <4>3, <4>6 DEF ChildOK
        <5>3. \E z \in Advanced[k].next : y \in From(tree.children[n], z)
          <6>1. CASE k = K
            <7>1. x = c /\ n = T
              BY <1>5, <1>6, <2>1, <5>2, <6>1
            <7>2. \E z \in next_sibling(tree, c) : y \in From(tree.children[T], z)
              BY <1>4, <1>5, <1>6, <4>1, <5>2, <7>1, NextCovers
            <7> QED BY <1>16, <6>1, <7>1, <7>2
          <6>2. CASE k # K
            BY <1>16, <5>2, <6>2
          <6> QED BY <6>1, <6>2
        <5>4. PICK z \in Advanced[k].next : y \in From(tree.children[n], z)
          BY <5>3
        <5>5. y \in From(u.children[n], z)
          BY <1>1, <2>1, <2>5, <5>4, EnterAhead
        <5> QED BY <1>17, <2>2, <5>1, <5>4, <5>5 DEF ChildOK
      <4> QED BY <4>5, <4>6
    <3> QED BY <3>2, <3>3
  <2> QED BY <2>1, <2>2, <2>3, <2>4, <2>5 DEF FrameOK
<1>22. \A k \in DOMAIN stack' : FrameOK(config, u, stack', visited', kept, lv, k)
  BY <1>17, <1>18, <1>20, <1>21
<1> QED BY <1>3, <1>14, <1>15, <1>22 DEF FirstPass

LEMMA LeaveData ==
    ASSUME HtmlInv, GoodData(tree), Leave, NEW n \in Nodes, n = Top.node
    PROVE  /\ GoodData(tree')
           /\ \A m \in Nodes : m # n => tree'.data[m] = tree.data[m]
           /\ Top.action # "None" => tree' = detach(tree, n)
           /\ Top.action = "None" =>
                 /\ tree'.children = tree.children /\ tree'.parent = tree.parent
                 /\ \A depth : Accepted(config, tree.data[n], depth) => CleanAt(config, tree'.data[n], depth)
<1>1. tree' = Left
  BY DEF Leave
<1>2. TreeInv(tree) /\ IsRecord(tree)
  BY GoodIs DEF HtmlInv
<1>3. PICK d : d = tree.data[n] /\ IsData(d) /\ AttrsOK(d)
  BY DEF GoodData
<1>4. PICK e : e = clean_element_attributes(config, d) /\ IsData(e) /\ AttrsOK(e)
  BY <1>3, CleanedIs
<1>5. CASE Top.action # "None"
  <2>1. tree' = detach(tree, n)
    BY <1>1, <1>5 DEF Left
  <2>2. tree'.data = tree.data
    BY <1>2, <2>1, DetachData
  <2> QED BY <1>5, <2>1, <2>2 DEF GoodData
<1>6. CASE Top.action = "None" /\ d.kind = "Element"
  <2>1. tree' = Labelled(tree, n, e)
    BY <1>1, <1>3, <1>4, <1>6 DEF Left, Labelled
  <2>2. PICK u : u = tree'
    OBVIOUS
  <2>3. u = Labelled(tree, n, e)
    BY <2>1, <2>2
  <2>4. GoodData(u) /\ u.data[n] = e /\ \A m \in Nodes : m # n => u.data[m] = tree.data[m]
    BY <1>2, <1>4, <2>3, LabelGood
  <2>5. u.children = tree.children /\ u.parent = tree.parent
    BY <1>2, <1>4, <2>3, LabelIs
  <2>6. \A depth : Accepted(config, d, depth) => CleanAt(config, e, depth)
    BY <1>3, <1>4, <1>6, AcceptedIsClean
  <2> QED BY <1>3, <1>6, <2>2, <2>4, <2>5, <2>6
<1>7. CASE Top.action = "None" /\ d.kind # "Element"
  <2>1. tree' = tree
    BY <1>1, <1>3, <1>7 DEF Left
  <2>2. \A depth : Accepted(config, d, depth) => CleanAt(config, d, depth)
    BY <1>3, <1>7, AcceptedIsClean
  <2> QED BY <1>3, <1>7, <2>1, <2>2
<1> QED BY <1>5, <1>6, <1>7

\* The end of clean_node keeps its node.
LEMMA FirstKeep ==
    ASSUME HtmlInv, GoodData(tree), NEW kept \in SUBSET Nodes, NEW lv \in Levels,
           FirstPass(config, tree, stack, visited, kept, lv), Leave, Top.action = "None"
    PROVE  \E more \in SUBSET Nodes, up \in Levels : FirstPass(config, tree', stack', visited', more, up)
<1>1. Len(stack) > 1 /\ stack' = Front(stack) /\ Top.next = {} /\ phase = "clean" /\ visited' = visited
  BY DEF Leave
<1>2. PICK K : K = Len(stack) /\ K \in Nat /\ K > 1 /\ DOMAIN stack = 1..K /\ K \in 1..K /\ Top = stack[K]
  BY <1>1, StackIs DEF Top, Last
<1>3. PICK n \in Nodes : n = Top.node /\ n = stack[K].node
  BY <1>2, StackIs
<1>4. TreeInv(tree) /\ StackInv
  BY <1>1 DEF HtmlInv, WalkInv
<1>5. /\ tree'.children = tree.children /\ tree'.parent = tree.parent
      /\ \A m \in Nodes : m # n => tree'.data[m] = tree.data[m]
      /\ \A depth : Accepted(config, tree.data[n], depth) => CleanAt(config, tree'.data[n], depth)
  BY <1>3, LeaveData
<1>6. DOMAIN stack' = 1..(K - 1) /\ \A k \in 1..(K - 1) : stack'[k] = stack[k]
  BY <1>1, <1>2, FrontIs
<1>7. \A k \in 1..(K - 1) : k \in 1..K /\ k # K /\ K > k
  BY <1>2
<1>8. \A k \in 1..K : FrameOK(config, tree, stack, visited, kept, lv, k)
  BY <1>2 DEF FirstPass
<1>9. /\ n \notin kept /\ Accepted(config, tree.data[n], K - 2)
      /\ \A c \in ToSet(tree.children[n]) : ChildOK(tree, stack, visited, kept, lv, K, c)
  BY <1>2, <1>3, <1>8 DEF FrameOK
<1>10. \A c \in ToSet(tree.children[n]) : c \in kept /\ lv[c] > K - 2
  <2>1. \A j \in DOMAIN stack : ~(j > K)
    BY <1>2
  <2>2. stack[K].next = {}
    BY <1>1, <1>2
  <2> QED BY <1>9, <2>1, <2>2 DEF ChildOK
<1> DEFINE more == kept \cup {n}
           up == [lv EXCEPT ![n] = K - 2]
<1>11. more \in SUBSET Nodes /\ up \in Levels
  BY <1>2 DEF Levels
<1>12. up[n] = K - 2 /\ \A m \in kept : up[m] = lv[m]
  BY <1>9 DEF Levels
<1> HIDE DEF up
<1>13. Attached(tree, n) /\ Touched(visited, n)
  <2>1. PICK j \in 1..(K - 1) : tree.parent[n] = stack[j].node
    BY <1>2, <1>3, <1>4 DEF StackInv
  <2>2. stack[j].node \in Nodes
    BY <1>2, <1>7, <2>1, StackIs
  <2>3. Touched(visited, n)
    BY <1>2, <1>3, <1>4 DEF StackInv
  <2> QED BY <2>1, <2>2, <2>3, NodesAre DEF Attached
<1>14. \A m \in more : Attached(tree', m) /\ Touched(visited', m)
  BY <1>1, <1>5, <1>13 DEF FirstPass, Attached
<1>15. Clean(config, tree', more, up)
  <2>1. CleanAt(config, tree'.data[n], up[n]) /\ \A c \in ToSet(tree'.children[n]) : c \in more /\ up[c] > up[n]
    BY <1>5, <1>9, <1>10, <1>12
  <2>2. ASSUME NEW m \in kept
        PROVE  CleanAt(config, tree'.data[m], up[m]) /\ \A c \in ToSet(tree'.children[m]) : c \in more /\ up[c] > up[m]
    <3>1. CleanAt(config, tree.data[m], lv[m]) /\ \A c \in ToSet(tree.children[m]) : c \in kept /\ lv[c] > lv[m]
      BY DEF FirstPass, Clean
    <3>2. tree'.data[m] = tree.data[m]
      BY <1>5, <1>9
    <3> QED BY <1>5, <1>12, <3>1, <3>2
  <2> QED BY <2>1, <2>2 DEF Clean
<1>16. ASSUME NEW k \in 1..(K - 1) PROVE FrameOK(config, tree', stack', visited', more, up, k)
  <2>1. PICK p \in Nodes : p = stack[k].node /\ p # n
    <3>1. stack[k].node # n
      BY <1>2, <1>3, <1>4, <1>7, <1>16 DEF StackInv
    <3> QED BY <1>2, <1>7, <1>16, <3>1, StackIs
  <2>2. /\ p \notin kept /\ stack[k].depth = k - 2
        /\ k > 1 /\ stack[k].action = "None" => Accepted(config, tree.data[p], k - 2)
        /\ stack[k].action # "Remove" => \A c \in ToSet(tree.children[p]) : ChildOK(tree, stack, visited, kept, lv, k, c)
    BY <1>7, <1>8, <1>16, <2>1 DEF FrameOK
  <2>3. stack'[k] = stack[k] /\ tree'.data[p] = tree.data[p]
    BY <1>5, <1>6, <1>16, <2>1
  <2>4. ASSUME stack[k].action # "Remove", NEW c \in ToSet(tree.children[p])
        PROVE  ChildOK(tree', stack', visited', more, up, k, c)
    <3>1. ChildOK(tree, stack, visited, kept, lv, k, c)
      BY <2>2, <2>4
    <3>2. CASE ~Touched(visited, c)
      BY <1>1, <1>5, <2>1, <2>3, <3>1, <3>2 DEF ChildOK
    <3>3. CASE Touched(visited, c) /\ c \in kept /\ lv[c] > k - 2
      BY <1>1, <1>12, <3>3 DEF ChildOK
    <3>4. CASE Touched(visited, c) /\ \E j \in DOMAIN stack : j > k /\ c = stack[j].node
      <4>1. PICK j \in 1..K : j > k /\ c = stack[j].node
        BY <1>2, <3>4
      <4>2. CASE j = K
        <5>1. c = n /\ K - 2 > k - 2
          BY <1>2, <1>3, <1>16, <4>1, <4>2
        <5> QED BY <1>1, <1>12, <3>4, <5>1 DEF ChildOK
      <4>3. CASE j # K
        <5>1. j \in 1..(K - 1)
          BY <1>2, <4>1, <4>3
        <5>2. \E l \in DOMAIN stack' : l > k /\ c = stack'[l].node
          BY <1>6, <4>1, <5>1
        <5> QED BY <1>1, <3>4, <5>2 DEF ChildOK
      <4> QED BY <4>2, <4>3
    <3> QED BY <3>1, <3>2, <3>3, <3>4 DEF ChildOK
  <2> QED BY <1>5, <2>1, <2>2, <2>3, <2>4 DEF FrameOK
<1>17. \A k \in DOMAIN stack' : FrameOK(config, tree', stack', visited', more, up, k)
  BY <1>6, <1>16
<1>18. FirstPass(config, tree', stack', visited', more, up)
  BY <1>14, <1>15, <1>17 DEF FirstPass
<1> QED BY <1>11, <1>18

\* Or takes it out of the tree.
LEMMA FirstDrop ==
    ASSUME HtmlInv, GoodData(tree), NEW kept \in SUBSET Nodes, NEW lv \in Levels,
           FirstPass(config, tree, stack, visited, kept, lv), Leave, Top.action # "None"
    PROVE  FirstPass(config, tree', stack', visited', kept, lv)
<1>1. Len(stack) > 1 /\ stack' = Front(stack) /\ phase = "clean" /\ visited' = visited
  BY DEF Leave
<1>2. PICK K : K = Len(stack) /\ K \in Nat /\ K > 1 /\ DOMAIN stack = 1..K /\ K \in 1..K /\ Top = stack[K]
  BY <1>1, StackIs DEF Top, Last
<1>3. PICK n \in Nodes : n = Top.node /\ n = stack[K].node
  BY <1>2, StackIs
<1>4. TreeInv(tree) /\ StackInv
  BY <1>1 DEF HtmlInv, WalkInv
<1>5. PICK u : u = tree' /\ u = detach(tree, n)
  BY <1>3, LeaveData
<1>6. /\ TreeInv(u) /\ u.data = tree.data /\ Hung(tree, u, n, NoParent)
      /\ \A p \in Nodes : \A x : x # n => Within(u.children[p], tree.children[p], x)
  BY <1>4, <1>5, DetachIs
<1>7. \A m \in Nodes : u.parent[m] = IF m = n THEN NoParent ELSE tree.parent[m]
  BY <1>6 DEF Hung
<1>8. DOMAIN stack' = 1..(K - 1) /\ \A k \in 1..(K - 1) : stack'[k] = stack[k]
  BY <1>1, <1>2, FrontIs
<1>9. \A k \in 1..(K - 1) : k \in 1..K /\ k # K
  BY <1>2
<1>10. \A k \in 1..K : FrameOK(config, tree, stack, visited, kept, lv, k)
  BY <1>2 DEF FirstPass
<1>11. n \notin kept /\ Touched(visited, n)
  BY <1>2, <1>3, <1>4, <1>10 DEF FrameOK, StackInv
<1>12. \A p \in Nodes : \A c \in ToSet(u.children[p]) : c \in Nodes /\ c # n /\ c \in ToSet(tree.children[p])
  <2> SUFFICES ASSUME NEW p \in Nodes, NEW c \in ToSet(u.children[p])
               PROVE  c \in Nodes /\ c # n /\ c \in ToSet(tree.children[p])
    OBVIOUS
  <2>1. c \in Nodes /\ u.parent[c] = p
    BY <1>6, TreeIs
  <2>2. c # n /\ tree.parent[c] = p
    BY <1>7, <2>1, NodesAre
  <2> QED BY <1>4, <2>1, <2>2, TreeIs
<1>13. \A m \in kept : Attached(u, m) /\ Touched(visited', m)
  BY <1>1, <1>7, <1>11 DEF FirstPass, Attached
<1>14. Clean(config, u, kept, lv)
  BY <1>6, <1>12 DEF FirstPass, Clean
<1>15. ASSUME NEW k \in 1..(K - 1) PROVE FrameOK(config, u, stack', visited', kept, lv, k)
  <2>1. PICK p \in Nodes : p = stack[k].node
    BY <1>2, <1>9, <1>15, StackIs
  <2>2. /\ p \notin kept /\ stack[k].depth = k - 2
        /\ k > 1 /\ stack[k].action = "None" => Accepted(config, tree.data[p], k - 2)
        /\ stack[k].action # "Remove" => \A c \in ToSet(tree.children[p]) : ChildOK(tree, stack, visited, kept, lv, k, c)
    BY <1>9, <1>10, <1>15, <2>1 DEF FrameOK
  <2>3. stack'[k] = stack[k]
    BY <1>8, <1>15
  <2>4. ASSUME stack[k].action # "Remove", NEW c \in ToSet(u.children[p])
        PROVE  ChildOK(u, stack', visited', kept, lv, k, c)
    <3>1. c \in Nodes /\ c # n /\ c \in ToSet(tree.children[p])
      BY <1>12, <2>4
    <3>2. ChildOK(tree, stack, visited, kept, lv, k, c)
      BY <2>2, <2>4, <3>1
    <3>3. CASE Touched(visited, c)
      <4>1. (c \in kept /\ lv[c] > k - 2) \/ \E j \in DOMAIN stack : j > k /\ c = stack[j].node
        BY <3>2, <3>3 DEF ChildOK
      <4>2. ASSUME NEW j \in DOMAIN stack, j > k, c = stack[j].node
            PROVE  \E l \in DOMAIN stack' : l > k /\ c = stack'[l].node
        <5>1. j \in 1..K /\ j # K
          BY <1>2, <1>3, <3>1, <4>2
        <5>2. j \in 1..(K - 1)
          BY <1>2, <5>1
        <5> QED BY <1>8, <4>2, <5>2
      <4> QED BY <1>1, <3>3, <4>1, <4>2 DEF ChildOK
    <3>4. CASE ~Touched(visited, c)
      <4>1. PICK x \in stack[k].next : c \in From(tree.children[p], x)
        BY <2>1, <3>2, <3>4 DEF ChildOK
      <4>2. x \in ToSet(tree.children[p]) /\ \A y \in From(tree.children[p], x) : ~Touched(visited, y)
        BY <1>2, <1>4, <1>9, <1>15, <2>1, <4>1 DEF StackInv
      <4>3. PICK a \in Seq(Nodes) : a = u.children[p] /\ IsInjective(a)
        BY <1>6, TreeIs
      <4>4. PICK b \in Seq(Nodes) : b = tree.children[p] /\ IsInjective(b) /\ ToSet(b) \subseteq Nodes
        BY <1>4, TreeIs
      <4>5. x \in From(b, x) /\ x \in Nodes
        BY <4>2, <4>4, FromIs
      <4>6. x # n
        BY <1>11, <4>2, <4>4, <4>5
      <4>7. x \in ToSet(a)
        <5>1. tree.parent[x] = p
          BY <1>4, <4>2, <4>5, TreeIs
        <5>2. u.parent[x] = p
          BY <1>7, <4>5, <4>6, <5>1
        <5> QED BY <1>6, <4>3, <4>5, <5>2, TreeIs
      <4>8. Within(a, b, c)
        BY <1>6, <3>1, <4>3, <4>4
      <4>9. c \in ToSet(a) /\ c \in From(b, x)
        BY <2>4, <4>1, <4>3, <4>4
      <4>10. c \in From(a, x)
        BY <4>3, <4>4, <4>7, <4>8, <4>9, StillAhead
      <4> QED BY <1>1, <2>1, <2>3, <3>4, <4>1, <4>3, <4>10 DEF ChildOK
    <3> QED BY <3>3, <3>4
  <2> QED BY <1>6, <2>1, <2>2, <2>3, <2>4 DEF FrameOK
<1>16. \A k \in DOMAIN stack' : FrameOK(config, u, stack', visited', kept, lv, k)
  BY <1>8, <1>15
<1> QED BY <1>5, <1>13, <1>14, <1>16 DEF FirstPass

-----------------------------------------------------------------------------
(* The invariant. *)

LEMMA FirstBegins ==
    ASSUME HtmlInv, SanitizeWith, NEW lv
    PROVE  FirstPass(config, tree, stack', visited', {}, lv)
<1> DEFINE frame == [node |-> Root, action |-> "None", depth |-> -1, next |-> first_child(tree, Root)]
<1>1. stack' = <<frame>> /\ visited' = <<>>
  BY DEF SanitizeWith
<1>2. frame.node = Root /\ frame.action = "None" /\ frame.depth = -1 /\ frame.next = first_child(tree, Root)
  OBVIOUS
<1> HIDE DEF frame
<1>3. DOMAIN stack' = {1} /\ stack'[1] = frame /\ -1 = 1 - 2 /\ ~(1 > 1)
  BY <1>1
<1>4. \A n : ~Touched(visited', n)
  BY <1>1 DEF Touched, ToSet
<1>5. tree.children[Root] \in Seq(Nodes)
  BY NodesAre, TreeIs DEF HtmlInv
<1>6. \A c \in ToSet(tree.children[Root]) : \E x \in frame.next : c \in From(tree.children[Root], x)
  BY <1>2, <1>5, FirstCovers DEF first_child
<1>7. \A c \in ToSet(tree.children[Root]) : ChildOK(tree, stack', visited', {}, lv, 1, c)
  BY <1>2, <1>3, <1>4, <1>6 DEF ChildOK
<1>8. FrameOK(config, tree, stack', visited', {}, lv, 1)
  BY <1>2, <1>3, <1>7 DEF FrameOK
<1> QED BY <1>3, <1>8 DEF FirstPass, Clean

\* A pass that began with the tree the first one left.
LEMMA SecondBegins ==
    ASSUME HtmlInv, SanitizeWith, NEW kept, NEW lv
    PROVE  SecondPass(stack', kept, lv)
<1> DEFINE frame == [node |-> Root, action |-> "None", depth |-> -1, next |-> first_child(tree, Root)]
<1>1. stack' = <<frame>>
  BY DEF SanitizeWith
<1>2. frame.action = "None" /\ frame.depth = -1
  OBVIOUS
<1> HIDE DEF frame
<1>3. DOMAIN stack' = {1} /\ stack'[1] = frame /\ -1 = 1 - 2 /\ ~(1 > 1)
  BY <1>1
<1> QED BY <1>2, <1>3 DEF SecondPass

LEMMA FirstEnds ==
    ASSUME HtmlInv, Finish, NEW kept \in SUBSET Nodes, NEW lv \in Levels,
           FirstPass(config, tree, stack, visited, kept, lv)
    PROVE  AllClean(config, tree, kept, lv)
<1>1. phase = "clean" /\ Top.next = {} /\ Len(stack) = 1
  BY DEF Finish
<1>2. DOMAIN stack = {1} /\ Top = stack[1]
  <2>1. DOMAIN stack = 1..Len(stack)
    BY StackIs
  <2> QED BY <1>1, <2>1 DEF Top, Last
<1>3. stack[1].node = Root /\ stack[1].action = "None" /\ stack[1].next = {}
  BY <1>1, <1>2 DEF HtmlInv, WalkInv, StackInv
<1>4. \A c \in ToSet(tree.children[Root]) : ChildOK(tree, stack, visited, kept, lv, 1, c)
  BY <1>2, <1>3 DEF FirstPass, FrameOK
<1>5. \A j \in DOMAIN stack : ~(j > 1)
  BY <1>2
<1>6. \A c \in ToSet(tree.children[Root]) : c \in kept /\ lv[c] > 1 - 2
  BY <1>3, <1>4, <1>5 DEF ChildOK
<1>7. \A c \in kept : lv[c] \in Int
  BY DEF Levels
<1>8. \A c \in ToSet(tree.children[Root]) : c \in kept /\ lv[c] >= 0
  BY <1>6, <1>7
<1> QED BY <1>8 DEF AllClean, FirstPass

LEMMA InitIdem == Init => IdemInv
  BY EmptyGood DEF Init, IdemInv

LEMMA NextIdem == ASSUME HtmlInv, HtmlInv', IdemInv, [Next]_vars PROVE IdemInv'
<1>1. CASE Parse
  <2>1. phase = "parse" /\ phase' = phase
    BY <1>1 DEF Parse, AppendNode, AppendText, AppendBasedOnParent, TextBasedOnParent, RemoveFromParent,
                ReparentChildren, MoveNode, Parsing
  <2>2. GoodData(tree')
    BY <1>1, ParseGood DEF IdemInv
  <2> QED BY <2>1, <2>2 DEF IdemInv
<1>2. CASE SanitizeWith
  <2>1. /\ phase \in {"parse", "done"} /\ phase' = "clean" /\ passes' = passes + 1
        /\ tree' = tree /\ first' = first /\ config' = config
    BY <1>2 DEF SanitizeWith
  <2>2. passes \in Nat /\ (phase = "parse" => passes = 0)
    BY TreeAssumption DEF HtmlInv, ParseInv
  <2>3. GoodData(tree')
    BY <2>1 DEF IdemInv
  <2>4. CASE passes = 0
    <3>1. passes' = 1
      BY <2>1, <2>4
    <3>2. PICK lv \in Levels : TRUE
      <4>1. [n \in Nodes |-> 0] \in Levels
        BY DEF Levels
      <4> QED BY <4>1
    <3>3. FirstPass(config, tree, stack', visited', {}, lv)
      BY <1>2, FirstBegins
    <3> QED BY <2>1, <2>3, <3>1, <3>3 DEF IdemInv
  <2>5. CASE passes = 1
    <3>1. passes' = 2 /\ phase = "done"
      BY <2>1, <2>2, <2>5
    <3>2. ASSUME KeepsNames(config)
          PROVE  /\ tree = first
                 /\ \E kept \in SUBSET Nodes, lv \in Levels :
                       AllClean(config, first, kept, lv) /\ SecondPass(stack', kept, lv)
      <4>1. tree = first /\ \E kept \in SUBSET Nodes, lv \in Levels : AllClean(config, first, kept, lv)
        BY <2>5, <3>1, <3>2 DEF IdemInv
      <4> QED BY <1>2, <4>1, SecondBegins
    <3> QED BY <2>1, <2>3, <3>1, <3>2 DEF IdemInv
  <2>6. CASE passes > 1
    <3>1. passes' # 1 /\ passes' # 2
      BY <2>1, <2>2, <2>6
    <3> QED BY <2>1, <2>3, <3>1 DEF IdemInv
  <2> QED BY <2>2, <2>4, <2>5, <2>6
<1>3. CASE Visit
  <2>1. phase = "clean" /\ passes' = passes /\ config' = config /\ first' = first
    BY <1>3 DEF Visit
  <2>2. PICK c, K, u, h, act, N, frame : Entering(c, K, u, h) /\ EnteredWith(c, u, h, act, N, frame)
    BY <1>3, VisitIs
  <2>3. phase' = "clean" /\ visited' = Append(visited, c) /\ c \in Nodes
    BY <2>1, <2>2 DEF Entering, EnteredWith, Visiting
  <2>4. GoodData(tree) /\ GoodData(tree')
    BY <1>3, VisitGood DEF IdemInv
  <2>5. ASSUME KeepsNames(config), passes = 1
        PROVE  \E kept \in SUBSET Nodes, lv \in Levels : FirstPass(config, tree', stack', visited', kept, lv)
    <3>1. PICK kept \in SUBSET Nodes, lv \in Levels : FirstPass(config, tree, stack, visited, kept, lv)
      BY <2>1, <2>5 DEF IdemInv
    <3>2. FirstPass(config, tree', stack', visited', kept, lv)
      BY <1>3, <2>4, <2>5, <3>1, FirstVisit
    <3> QED BY <3>2
  <2>6. Unforbidden(config, first, visited') => Unforbidden(config, first, visited)
    <3>1. visited \in Seq(Nodes)
      BY DEF HtmlInv
    <3>2. ToSet(visited) \subseteq ToSet(visited')
      <4>1. /\ DOMAIN visited' = 1..(Len(visited) + 1) /\ Len(visited) \in Nat /\ DOMAIN visited = 1..Len(visited)
            /\ \A j \in 1..Len(visited) : visited'[j] = visited[j]
        BY <2>3, <3>1
      <4>2. \A j \in 1..Len(visited) : j \in 1..(Len(visited) + 1)
        BY <4>1
      <4> QED BY <4>1, <4>2 DEF ToSet
    <3> QED BY <3>2 DEF Unforbidden
  <2>7. ASSUME KeepsNames(config), passes = 2, Unforbidden(config, first, visited')
        PROVE  /\ tree' = first
               /\ \E kept \in SUBSET Nodes, lv \in Levels :
                     AllClean(config, first, kept, lv) /\ SecondPass(stack', kept, lv)
    <3>1. Unforbidden(config, first, visited)
      BY <2>6, <2>7
    <3>2. tree = first
      BY <2>1, <2>7, <3>1 DEF IdemInv
    <3>3. PICK kept \in SUBSET Nodes, lv \in Levels : AllClean(config, first, kept, lv) /\ SecondPass(stack, kept, lv)
      BY <2>1, <2>7, <3>1 DEF IdemInv
    <3>4. tree' = tree /\ SecondPass(stack', kept, lv)
      BY <1>3, <2>4, <2>7, <3>2, <3>3, SecondVisit
    <3> QED BY <3>2, <3>3, <3>4
  <2> QED BY <2>1, <2>3, <2>4, <2>5, <2>7 DEF IdemInv
<1>4. CASE Leave
  <2>1. phase = "clean" /\ phase' = phase /\ passes' = passes /\ config' = config /\ first' = first /\ visited' = visited
    BY <1>4 DEF Leave
  <2>2. PICK n \in Nodes : n = Top.node
    <3>1. Len(stack) > 1
      BY <1>4 DEF Leave
    <3> QED BY <3>1, StackIs DEF Top, Last
  <2>3. GoodData(tree) /\ GoodData(tree')
    BY <1>4, <2>2, LeaveData DEF IdemInv
  <2>4. ASSUME KeepsNames(config), passes = 1
        PROVE  \E kept \in SUBSET Nodes, lv \in Levels : FirstPass(config, tree', stack', visited', kept, lv)
    <3>1. PICK kept \in SUBSET Nodes, lv \in Levels : FirstPass(config, tree, stack, visited, kept, lv)
      BY <2>1, <2>4 DEF IdemInv
    <3>2. CASE Top.action = "None"
      BY <1>4, <2>3, <3>1, <3>2, FirstKeep
    <3>3. CASE Top.action # "None"
      <4>1. FirstPass(config, tree', stack', visited', kept, lv)
        BY <1>4, <2>3, <3>1, <3>3, FirstDrop
      <4> QED BY <4>1
    <3> QED BY <3>2, <3>3
  <2>5. ASSUME KeepsNames(config), passes = 2, Unforbidden(config, first, visited)
        PROVE  /\ tree' = first
               /\ \E kept \in SUBSET Nodes, lv \in Levels :
                     AllClean(config, first, kept, lv) /\ SecondPass(stack', kept, lv)
    <3>1. tree = first
      BY <2>1, <2>5 DEF IdemInv
    <3>2. PICK kept \in SUBSET Nodes, lv \in Levels : AllClean(config, first, kept, lv) /\ SecondPass(stack, kept, lv)
      BY <2>1, <2>5 DEF IdemInv
    <3>3. tree' = tree /\ SecondPass(stack', kept, lv)
      BY <1>4, <3>1, <3>2, SecondLeave
    <3> QED BY <3>1, <3>2, <3>3
  <2> QED BY <2>1, <2>3, <2>4, <2>5 DEF IdemInv
<1>5. CASE Finish
  <2>1. /\ phase = "clean" /\ phase' = "done" /\ stack' = <<>> /\ first' = IF passes = 1 THEN tree ELSE first
        /\ config' = config /\ tree' = tree /\ passes' = passes /\ visited' = visited
    BY <1>5 DEF Finish
  <2>2. GoodData(tree')
    BY <2>1 DEF IdemInv
  <2>3. ASSUME KeepsNames(config), passes = 1
        PROVE  first' = tree /\ \E kept \in SUBSET Nodes, lv \in Levels : AllClean(config, tree, kept, lv)
    <3>1. PICK kept \in SUBSET Nodes, lv \in Levels : FirstPass(config, tree, stack, visited, kept, lv)
      BY <2>1, <2>3 DEF IdemInv
    <3>2. AllClean(config, tree, kept, lv)
      BY <1>5, <3>1, FirstEnds
    <3> QED BY <2>1, <2>3, <3>2
  <2>4. \A kept, lv : SecondPass(stack', kept, lv)
    BY <2>1 DEF SecondPass
  <2>5. passes = 2 => first' = first
    BY <2>1
  <2> QED BY <2>1, <2>2, <2>3, <2>4, <2>5 DEF IdemInv
<1>6. CASE UNCHANGED vars
  BY <1>6 DEF IdemInv, vars
<1> QED BY <1>1, <1>2, <1>3, <1>4, <1>5, <1>6 DEF Next

LEMMA IdempotentIs == HtmlInv /\ IdemInv => CleaningIsIdempotent
  BY DEF IdemInv, CleaningIsIdempotent, KeepsNames, Unforbidden

\* Cleaning is idempotent: whatever the document and however the parser moved
\* its nodes about, a second pass with the same configuration (no lists of
\* replacements of the user's, and no element whose scheme check had ended
\* early) leaves the tree, its data included, as the first one left it.
THEOREM CleanStaysClean == Spec => []CleaningIsIdempotent
<1>1. Init => HtmlInv /\ IdemInv
  BY InitKeeps, InitIdem
<1>2. HtmlInv /\ [Next]_vars => HtmlInv'
  BY NextKeeps
<1>3. HtmlInv /\ IdemInv /\ [Next]_vars => HtmlInv' /\ IdemInv'
  BY <1>2, NextIdem
<1>4. HtmlInv /\ IdemInv => CleaningIsIdempotent
  BY IdempotentIs
<1> QED BY <1>1, <1>3, <1>4, PTL DEF Spec

=============================================================================
