----------------------------- MODULE Selection -----------------------------
(***************************************************************************)
(* Array.prototype.filter, as a recursive function of the positions that   *)
(* are kept: rows of a query, messages of a conversation.                  *)
(***************************************************************************)
EXTENDS Naturals, Sequences

(* The members of the sequence at the kept positions, in their order.      *)
Kept(seq, kept) ==
  LET upTo[n \in 0..Len(seq)] ==
        IF n = 0 THEN <<>>
        ELSE IF n \in kept THEN Append(upTo[n - 1], seq[n]) ELSE upTo[n - 1]
  IN  upTo[Len(seq)]
=============================================================================
