------------------------------- MODULE MCFssFrame -------------------------------
(***************************************************************************)
(* Every damage of one byte to messages with a few telling floats.         *)
(***************************************************************************)
EXTENDS FssFrame

Word(b3, b2, b1, b0) ==
    [i \in 0 .. 3 |-> CASE i = 3 -> b3 [] i = 2 -> b2 [] i = 1 -> b1 [] i = 0 -> b0]

\* 5.0, and a float whose bytes all differ and add up past 256.
MCWords == {Five, Word(191, 73, 15, 219)}

\* The floats of the documented frame.
MCDocumentedWords == {Five, Ten}
===============================================================================
