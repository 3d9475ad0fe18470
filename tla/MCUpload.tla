------------------------------ MODULE MCUpload ------------------------------
(* Upload on a small instance. *)
EXTENDS Upload

CONSTANTS raw, web, p1, p2

\* Each client writes files of its own.
OwnPaths == [s \in Slot |-> IF s = raw THEN {p1} ELSE {p2}]
=============================================================================
