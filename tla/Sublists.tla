------------------------------ MODULE Sublists ------------------------------
(* The elements of a sequence that stay when those of a set leave it.      *)
EXTENDS Naturals, Sequences

Without(s, S) ==
  LET kept[n \in 0 .. Len(s)] ==
        IF n = 0 THEN <<>>
        ELSE IF s[n] \in S THEN kept[n - 1] ELSE Append(kept[n - 1], s[n])
  IN  kept[Len(s)]
=============================================================================
