------------------------- MODULE MCTranslationCache -------------------------
(***************************************************************************)
(* Blocks for the model checker.  0 and 2 share a line; 1 is in the ROM.   *)
(***************************************************************************)
EXTENDS TranslationCache

Ends(to, sum) == [to |-> to, sum |-> sum]

\* 0 is a loop with an exit or ends in a jump, 2 ends in a jump or is too long for a
\* checksum and ends in a return, and the ROM calls 2.
SomeCode ==
  [a \in 0..2 |-> CASE a = 0 -> {Ends(<<0, 2>>, 1), Ends(<<1>>, 2)}
                    [] a = 1 -> {Ends(<<2>>, 1)}
                    [] a = 2 -> {Ends(<<0>>, 1), Ends(<<>>, 0)}]

\* Two contents of 0 have the same longwords in another order, and so the same sum and
\* exclusive-or.
SameSumCode == [SomeCode EXCEPT ![0] = {[c EXCEPT !.sum = 1] : c \in @}]
=============================================================================
