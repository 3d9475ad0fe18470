----------------------------- MODULE MCFolders -----------------------------
(* Folders on a small instance. *)
EXTENDS Folders

CONSTANTS raw, web, l1, l2

\* The root holds a folder (2) with two files; the trash (1) is made when needed.
SmallTree == <<Gone, Root, 2, 2>>

\* One listing of the root, one of the folder in it.
WantedFolders == [l \in Lister |-> IF l = l1 THEN {Root} ELSE {2}]

OneConnection == [l \in Lister |-> raw]
TwoConnections == [l \in Lister |-> IF l = l1 THEN raw ELSE web]
=============================================================================
