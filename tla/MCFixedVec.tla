---------------------------- MODULE MCFixedVec ----------------------------
(* One memory of three slots, used by one vector or string after another:  *)
(* five items are moved in and out until all are dropped or forgotten.     *)
EXTENDS FixedVec

CONSTANTS x1, x2, x3, x4, x5, b1, b2, b3

MCItems == {x1, x2, x3, x4, x5}
MCBytes == {b1, b2, b3}

\* A character of one byte, one of two, and one after the other; nothing.
MCStrings == {<< >>, <<b1>>, <<b2, b3>>, <<b1, b2, b3>>}
===========================================================================
