-------------------------------- MODULE Lists --------------------------------
(* What the models of several components do to lists. *)
EXTENDS Integers, Sequences

\* The elements of s that are in S, in their order: a loop over s that copies
\* them (a recursive function, which the proofs can unfold).
Keep(s, S) ==
  LET kept[i \in 0 .. Len(s)] ==
        IF i = 0 THEN << >>
        ELSE IF s[i] \in S THEN Append(kept[i - 1], s[i]) ELSE kept[i - 1]
  IN kept[Len(s)]
=============================================================================
