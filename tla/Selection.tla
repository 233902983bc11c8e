----------------------------- MODULE Selection -----------------------------
(***************************************************************************)
(* A loop that pushes some of the elements it goes over.  SelectSeq with a *)
(* set for the test, written as a recursive function so that its result    *)
(* can be reasoned about.                                                  *)
(***************************************************************************)
EXTENDS Naturals, Sequences

SelectIn(s, T) ==
    LET kept[n \in 0..Len(s)] ==
            IF n = 0 THEN << >>
            ELSE IF s[n] \in T THEN Append(kept[n - 1], s[n]) ELSE kept[n - 1]
    IN  kept[Len(s)]
=============================================================================
