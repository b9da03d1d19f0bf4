------------------------------- MODULE Lists -------------------------------
(***************************************************************************)
(* Lists from which some entries are taken.                                *)
(***************************************************************************)
EXTENDS Integers, Sequences

\* The entries that are wanted, in their order.
retain(list, wanted) ==
    LET kept[i \in 0..Len(list)] ==
            IF i = 0 THEN << >>
            ELSE IF list[i] \in wanted THEN Append(kept[i - 1], list[i]) ELSE kept[i - 1]
    IN  kept[Len(list)]
=============================================================================
