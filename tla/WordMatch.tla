----------------------------- MODULE WordMatch -----------------------------
(***************************************************************************)
(* Does a message contain the pattern of a content rule, or the display    *)
(* name of the user, as a word of its own?  StrExt::matches_word of        *)
(* ruma-common/src/push/condition.rs, one step per call and per iteration. *)
(*                                                                         *)
(* A pattern without wildcards is searched for: if its first occurrence is *)
(* part of a longer word, the function calls itself on what begins with    *)
(* the next word.  A pattern with wildcards is cut into chunks, literal    *)
(* text and runs of wildcards, that are made into a regular expression.    *)
(*                                                                         *)
(* A string is a sequence of characters.  Byte indices are not modelled:   *)
(* those the code computes are all ends of characters.                     *)
(***************************************************************************)
EXTENDS Integers, Sequences, FiniteSets

CONSTANTS Values, Patterns,  \* strings, in lower case
          Chars,             \* the characters they are made of
          WordChars,         \* letters, digits and _
          Newline            \* the character that `.` does not match

ASSUME WordAssumption ==
    /\ Values \subseteq Seq(Chars) /\ Patterns \subseteq Seq(Chars)
    /\ WordChars \cap {"?", "*", Newline} = {} /\ Newline \notin {"?", "*"}

VARIABLES value, pattern,
          from,           \* the call is about what begins here in value
          pc,             \* "call", "chunks", "regex" or "done"
          i,              \* the character the loop over the pattern is at
          chunks, prev_wildcard, chunk_start,
          result

loopVars == <<i, chunks, prev_wildcard, chunk_start>>
wordVars == <<value, pattern, from, pc, loopVars, result>>

-----------------------------------------------------------------------------
(* The string of the call, self in the code. *)

is_word_char(c) == c \in WordChars

is_wildcard(c) == c \in {"?", "*"}

Self == SubSeq(value, from, Len(value))

IsWordAt(p) == p \in from..Len(value) /\ is_word_char(value[p])

Positions == 1..(Len(value) + 1)

\* The positions that are reached from one by a list of steps, each of which
\* says which positions it leads to from where.
Reach(steps, start) ==
    LET ends[k \in 0..Len(steps)] ==
            IF k = 0 THEN {start} ELSE UNION {steps[k][p] : p \in ends[k - 1]}
    IN  ends[Len(steps)]

\* Least of a set of positions, as an Option.
First(positions) == {p \in positions : \A q \in positions : p <= q}

\* Where str::find finds the pattern.
find == First({p \in from..(Len(value) - Len(pattern) + 1) :
                  SubSeq(value, p, p + Len(pattern) - 1) = pattern})

has_wildcards == \E k \in DOMAIN pattern : is_wildcard(pattern[k])

\* The occurrence at `start` is not part of a longer word.
word_boundaries(start) ==
    LET end == start + Len(pattern)
    IN  /\ ~IsWordAt(start) \/ ~IsWordAt(start - 1)
        /\ end = Len(value) + 1 \/ ~IsWordAt(end - 1) \/ ~IsWordAt(end)

\* Bug: the search goes on after the occurrence.
next_word_After(start) == First({p \in (start + Len(pattern))..Len(value) : IsWordAt(p)})

\* The first word that begins after a character at or after `start` that is of none.
next_word(start) ==
    UNION {First({p \in non_word..Len(value) : IsWordAt(p)}) :
              non_word \in First({p \in start..Len(value) : ~IsWordAt(p)})}

-----------------------------------------------------------------------------
(* A call. *)

Return(answer) ==
    /\ pc' = "done" /\ result' = answer
    /\ UNCHANGED <<value, pattern, from, loopVars>>

Equal == pc = "call" /\ Self = pattern /\ Return(TRUE)

Searching == pc = "call" /\ Self # pattern

EmptyPattern == Searching /\ pattern = <<>> /\ Return(FALSE)

NotFound == Searching /\ pattern # <<>> /\ ~has_wildcards /\ find = {} /\ Return(FALSE)

Found(start) == Searching /\ pattern # <<>> /\ ~has_wildcards /\ start \in find

WholeWord(start) == Found(start) /\ word_boundaries(start) /\ Return(TRUE)

LastWord(start) == Found(start) /\ ~word_boundaries(start) /\ next_word(start) = {} /\ Return(FALSE)

\* The recursive call.
NextWord(start) ==
    /\ Found(start) /\ ~word_boundaries(start)
    /\ from' \in next_word(start)
    /\ UNCHANGED <<value, pattern, pc, loopVars, result>>

-----------------------------------------------------------------------------
(* Wildcards. *)

CutPattern ==
    /\ Searching /\ has_wildcards
    /\ pc' = "chunks"
    /\ UNCHANGED <<value, pattern, from, loopVars, result>>

Literal(text) == [text |-> text, least |-> 0, more |-> FALSE]

\* `.{n}` or `.{n,}`
wildcards_to_regex(text) ==
    [text |-> <<>>, least |-> Cardinality({k \in DOMAIN text : text[k] = "?"}),
     more |-> \E k \in DOMAIN text : text[k] = "*"]

\* The pattern from chunk_start up to `end`, exclusive, as a chunk of the kind
\* the loop takes it for.
Chunk(end) ==
    LET text == SubSeq(pattern, chunk_start, end - 1)
    IN  Append(chunks, IF prev_wildcard THEN wildcards_to_regex(text) ELSE Literal(text))

Begin(is) == chunk_start' = i /\ prev_wildcard' = is

\* One character of the pattern.  A wildcard after another one ends the chunk.
ChunkStep ==
    /\ pc = "chunks" /\ i <= Len(pattern) /\ i' = i + 1
    /\ \/ /\ is_wildcard(pattern[i]) /\ ~prev_wildcard
          /\ IF i = 1 THEN prev_wildcard' = TRUE /\ UNCHANGED <<chunks, chunk_start>>
             ELSE chunks' = Chunk(i) /\ Begin(TRUE)
       \/ prev_wildcard /\ chunks' = Chunk(i) /\ Begin(FALSE)
       \/ ~is_wildcard(pattern[i]) /\ ~prev_wildcard /\ UNCHANGED <<chunks, prev_wildcard, chunk_start>>
    /\ UNCHANGED <<value, pattern, from, pc, result>>

ChunkEnd ==
    /\ pc = "chunks" /\ i = Len(pattern) + 1
    /\ chunks' = Chunk(i) /\ pc' = "regex"
    /\ UNCHANGED <<value, pattern, from, i, prev_wildcard, chunk_start, result>>

\* \b at position p, and the alternatives on either side of the chunks.
word_boundary(p) == IsWordAt(p - 1) # IsWordAt(p)

RegexStart(p) == p = 1 \/ ~IsWordAt(p - 1) \/ word_boundary(p)

RegexEnd(p) == p = Len(value) + 1 \/ ~IsWordAt(p) \/ word_boundary(p)

\* The positions a chunk may end before, if it begins at p (regex, external).
ChunkEnds(chunk, p) ==
    IF chunk.text # <<>>
    THEN {p + Len(chunk.text)} \cap {q \in p..(Len(value) + 1) : SubSeq(value, p, q - 1) = chunk.text}
    ELSE {q \in (p + chunk.least)..(Len(value) + 1) :
             /\ chunk.more \/ q = p + chunk.least
             /\ \A k \in p..(q - 1) : value[k] # Newline}

ChunkSteps(list) == [k \in DOMAIN list |-> [p \in Positions |-> ChunkEnds(list[k], p)]]

is_match ==
    \E p \in Positions : RegexStart(p) /\ \E q \in Reach(ChunkSteps(chunks), p) : RegexEnd(q)

Match == pc = "regex" /\ Return(is_match)

-----------------------------------------------------------------------------

WordInit ==
    /\ value \in Values /\ pattern \in Patterns
    /\ from = 1 /\ pc = "call" /\ result = FALSE
    /\ i = 1 /\ chunks = <<>> /\ prev_wildcard = FALSE /\ chunk_start = 1

WordNext ==
    \/ Equal \/ EmptyPattern \/ NotFound
    \/ \E start \in find : WholeWord(start) \/ LastWord(start) \/ NextWord(start)
    \/ CutPattern \/ ChunkStep \/ ChunkEnd \/ Match

WordSpec == WordInit /\ [][WordNext]_wordVars

-----------------------------------------------------------------------------
(* What a match is, without an algorithm. *)

\* The value between two positions, the second exclusive, is cut off from the
\* words around it: neither end is between two word characters.
Separate(start, end) ==
    LET In(p) == p \in DOMAIN value /\ value[p] \in WordChars
    IN  ~(In(start - 1) /\ In(start)) /\ ~(In(end - 1) /\ In(end))

\* The positions a character of a glob may end before if it begins at p: it
\* stands for itself, ? for one and * for any number of characters of a line.
GlobStep(c, p) ==
    LET SameLine(q) == \A k \in p..(q - 1) : value[k] # Newline
    IN  {q \in p..(Len(value) + 1) : CASE c = "*" -> SameLine(q)
                                       [] c = "?" -> q = p + 1 /\ SameLine(q)
                                       [] OTHER   -> q = p + 1 /\ value[p] = c}

GlobSteps(n) == [k \in 1..n |-> [p \in Positions |-> GlobStep(pattern[k], p)]]

GlobEnds(start) == Reach(GlobSteps(Len(pattern)), start)

\* An empty pattern is found in an empty value only; a value matches a pattern
\* it is equal to even where a wildcard would have to stand for a newline.
ContainsWord ==
    \/ value = pattern
    \/ /\ pattern # <<>>
       /\ \E start \in Positions : \E end \in GlobEnds(start) : Separate(start, end)

AdjacentWildcards == \E k \in 2..Len(pattern) : is_wildcard(pattern[k - 1]) /\ is_wildcard(pattern[k])

\* Searching on from the next word misses no occurrence and the chunks make the
\* glob: whatever precedes it in longer words, a pattern is found if and only if
\* the value contains it as a word.  Patterns with wildcards next to each other
\* are left to GlobsMatch.
FindsWholeWords == pc = "done" /\ ~AdjacentWildcards => result = ContainsWord

\* matches_word, "The pattern can be a glob with wildcards `*` and `?`": any.  The
\* code does not do that, and TLC refutes it: a wildcard that follows another one
\* is taken literally (condition.rs 374-397), so `**` does not match an empty text.
GlobsMatch == pc = "done" => result = ContainsWord

=============================================================================
