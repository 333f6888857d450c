---------------------------- MODULE OrderedFilter ---------------------------
(***************************************************************************)
(* Filtering a list by a set, as a recursive function that proofs can      *)
(* unfold.                                                                 *)
(***************************************************************************)
EXTENDS Naturals, Sequences

\* The elements of s that are in S, in their order.
Among(s, S) ==
    LET upTo[i \in 0..Len(s)] ==
          IF i = 0 THEN <<>>
          ELSE IF s[i] \in S THEN Append(upTo[i - 1], s[i]) ELSE upTo[i - 1]
    IN  upTo[Len(s)]

=============================================================================
