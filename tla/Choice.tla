-------------------------------- MODULE Choice --------------------------------
(***************************************************************************)
(* What a filter keeps of a sequence, as a recursive function: the records  *)
(* a resume reads of a journal, and the pieces a reply is put together of.  *)
(***************************************************************************)
EXTENDS Naturals, Sequences

\* The elements of a sequence at the indices chosen, in order.
Chosen(seq, indices) ==
  LET chosen[i \in 0..Len(seq)] ==
        IF i = 0 THEN <<>>
        ELSE IF i \in indices THEN Append(chosen[i - 1], seq[i]) ELSE chosen[i - 1]
  IN  chosen[Len(seq)]
=============================================================================
