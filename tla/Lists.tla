-------------------------------- MODULE Lists --------------------------------
(***************************************************************************)
(* Python's [x for x in seq if x in S].                                    *)
(***************************************************************************)
EXTENDS Naturals, Sequences

Filtered(seq, S) ==
  LET filtered[k \in 0..Len(seq)] ==
        IF k = 0 THEN <<>>
        ELSE IF seq[k] \in S THEN Append(filtered[k - 1], seq[k]) ELSE filtered[k - 1]
  IN  filtered[Len(seq)]
===============================================================================
