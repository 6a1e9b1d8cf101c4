------------------------------- MODULE QList -------------------------------
(***************************************************************************)
(* QList::removeAll(), which Qt provides and the browsers call: what is    *)
(* left of a list without the elements that compare equal to the given     *)
(* one.  It is SelectSeq with a set for the test, as a recursive function  *)
(* of the length, which proofs can reason about (ListFacts).               *)
(***************************************************************************)
EXTENDS Naturals, Sequences

RemoveAll(list, equal) ==
    LET kept[n \in 0 .. Len(list)] ==
            IF n = 0 THEN << >>
            ELSE IF list[n] \in equal THEN kept[n - 1] ELSE Append(kept[n - 1], list[n])
    IN  kept[Len(list)]
=============================================================================
