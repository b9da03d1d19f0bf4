---------------------------- MODULE MCWordMatch ----------------------------
(* Strings over two word characters, one that is none, and a newline. *)
EXTENDS WordMatch

Strings(chars, n) == UNION {[1..k -> chars] : k \in 0..n}

MCValues == Strings({"a", "b", "-"}, 5) \cup Strings({"a", "-"}, 7) \cup Strings({"a", "*", "nl"}, 4)

MCPatterns == Strings({"a", "b", "-", "?", "*"}, 3) \cup Strings({"a", "-"}, 4)
=============================================================================
