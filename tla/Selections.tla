------------------------------ MODULE Selections ------------------------------
(***************************************************************************)
(* What a loop makes that appends some elements of a slice to another one. *)
(***************************************************************************)
EXTENDS Naturals, Sequences

(* The elements of s that are in S, in their order: SelectSeq with a set    *)
(* for its test, which makes it a function one can prove about.             *)
Selected(s, S) ==
  LET upTo[n \in 0..Len(s)] ==
        IF n = 0 THEN <<>>
        ELSE IF s[n] \in S THEN Append(upTo[n - 1], s[n]) ELSE upTo[n - 1]
  IN upTo[Len(s)]

===============================================================================
