------------------------------ MODULE Selection ------------------------------
(***************************************************************************)
(* The subsequence of the elements that are in a set.                      *)
(***************************************************************************)
EXTENDS Naturals, Sequences

Chosen(s, T) ==
  LET run[i \in 0 .. Len(s)] ==
        IF i = 0 THEN << >>
        ELSE IF s[i] \in T THEN Append(run[i - 1], s[i]) ELSE run[i - 1]
  IN  run[Len(s)]
=============================================================================
