-------------------------------- MODULE MCInputs --------------------------------
(* Model checking of Inputs on small instances.                             *)
EXTENDS Inputs

CONSTANTS a, b, x, yes, no

\* Texts up to one character longer than can be typed.
MCTexts == UNION {[1 .. n -> Chars] : n \in 0 .. 3}

\* Without options, with one, with three of which two are the same.
MCOptionLists == {<<>>, <<yes>>, <<yes, no, yes>>}
=============================================================================
