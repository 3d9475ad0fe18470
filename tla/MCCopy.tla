------------------------------- MODULE MCCopy -------------------------------
(* Copy on small instances. *)
EXTENDS Copy

CONSTANTS a, b, left, right

OneEach == [c \in Client |-> IF c = a THEN {left} ELSE {right}]
=============================================================================
