---------------------------- MODULE Subsequences ----------------------------
(***************************************************************************)
(* Array.prototype.filter: what is left of a sequence at the positions kept.*)
(* SelectSeq says the same of a test; the recursion is spelled out here so  *)
(* that it can be reasoned about (SubsequenceProofs).                       *)
(***************************************************************************)
EXTENDS Naturals, Sequences

Subsequence(s, positions) ==
    LET upTo[n \in 0..Len(s)] ==
          IF n = 0 THEN <<>>
          ELSE IF n \in positions THEN Append(upTo[n - 1], s[n])
          ELSE upTo[n - 1]
    IN  upTo[Len(s)]
=============================================================================
