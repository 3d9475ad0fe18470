------------------------------ MODULE Versions ------------------------------
(***************************************************************************)
(* What the small config files of the console promise (ndp_atomic_file.h): *)
(* what a load would return, and the version it would fall back to.  A     *)
(* save replaces the current version in one step, at some point between    *)
(* its beginning and its end; an interrupted one may have done so or not.  *)
(***************************************************************************)
EXTENDS Integers

CONSTANT MaxSaves

VARIABLES
  current,    \* what a load returns; None when there is nothing to load
  previous,   \* what it falls back to once the current version is damaged
  saving,     \* the version being saved; None when no save runs
  fallback    \* the current version is one a load had to fall back to

versions == <<current, previous, saving, fallback>>

None == 0
Version == 1..MaxSaves

Init == current = None /\ previous = None /\ saving = None /\ fallback = FALSE

Begin ==
  /\ saving = None
  /\ saving' \in Version
  /\ UNCHANGED <<current, previous, fallback>>

\* Room for the version about to become the previous one; past this point even
\* a fallback is kept.
Trim ==
  /\ saving # None
  /\ previous' = None
  /\ fallback' \in {fallback, FALSE}
  /\ UNCHANGED <<current, saving>>

\* The save ends with the new version in place, and the one it replaces is kept
\* if it can be.
Take ==
  /\ saving # None
  /\ current' = saving
  /\ previous' \in {current, previous, None}
  /\ saving' = None
  /\ fallback' = FALSE

\* The save fails, or is cut short by a crash.
End ==
  /\ saving # None
  /\ saving' = None
  /\ fallback' \in BOOLEAN
  /\ UNCHANGED <<current, previous>>

\* A save that starts from a fallback gives it up before it has another.
Lose ==
  /\ saving # None
  /\ fallback
  /\ current' = None /\ previous' = None /\ fallback' = FALSE
  /\ UNCHANGED saving

\* A medium on which every call fails but the last may put the older one back.
Revert ==
  /\ saving # None
  /\ current' = previous /\ previous' = None
  /\ UNCHANGED <<saving, fallback>>

\* The medium damages the current version, or the previous one.
Damage ==
  /\ saving = None
  /\ \/ current' = previous /\ fallback' \in BOOLEAN
     \/ UNCHANGED <<current, fallback>>
  /\ previous' = None
  /\ UNCHANGED saving

Next == Begin \/ Trim \/ Take \/ End \/ Lose \/ Revert \/ Damage

Spec == Init /\ [][Next]_versions
=============================================================================
