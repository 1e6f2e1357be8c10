-------------------------------- MODULE Lists --------------------------------
(***************************************************************************)
(* What a list comprehension leaves, "[x for x in s if ...]".  It is a     *)
(* recursive function, and not SelectSeq, so that what it leaves can be    *)
(* proved.                                                                 *)
(***************************************************************************)
EXTENDS Integers, Sequences, SequencesExt, FiniteSetsExt

\* The members of s that are in S, in their order.
Among(s, S) ==
  LET kept[i \in 0..Len(s)] ==
        IF i = 0 THEN <<>> ELSE IF s[i] \in S THEN Append(kept[i - 1], s[i]) ELSE kept[i - 1]
  IN kept[Len(s)]
=============================================================================
