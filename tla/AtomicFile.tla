------------------------------ MODULE AtomicFile ------------------------------
(***************************************************************************)
(* Saving and loading the key store and the folder list (ndp_atomic_file.c,*)
(* ndp_keystore_file.c, ndp_access_file.c): a save writes "<path>.tmp",    *)
(* reads it back, gives up the backup, moves the file to "<path>.bak" and  *)
(* the new one into its place, while any call may fail and the console may *)
(* lose power between two of them.                                         *)
(*                                                                         *)
(* Versions are numbered in the order they are saved.  What verify()       *)
(* refuses (half written, or damaged later) is Bad.  A crash leaves the    *)
(* names as they are; data a crash may tear is a damaged file.             *)
(***************************************************************************)
EXTENDS Integers

CONSTANTS
  MaxSaves,       \* bound: versions saved in a behaviour
  MaxCrashes,     \* bound: power losses
  MaxFailures,    \* bound: calls that fail
  MaxDamages      \* bound: files the medium damages

ASSUME AtomicFileAssumption ==
  /\ MaxSaves \in Nat /\ MaxCrashes \in Nat
  /\ MaxFailures \in Nat /\ MaxDamages \in Nat

VARIABLES
  main, bak, tmp,   \* what the three files hold
  mem,              \* the version the program holds
  pc,               \* the next call of ndp_atomic_save; "off" without power
  told,             \* the last version whose save reported success
  saves, crashes, failures, damages

files == <<main, bak, tmp>>
counters == <<saves, crashes, failures, damages>>
fileVars == <<files, mem, pc, told, counters>>

None == 0
Bad == -1
Version == 1..MaxSaves

Steps == {"write", "verify", "clean", "aside", "place", "restore", "discard"}

TypeOK ==
  /\ main \in Version \cup {None, Bad}
  /\ bak \in Version \cup {None, Bad}
  /\ tmp \in Version \cup {None, Bad}
  /\ mem \in Version \cup {None}
  /\ pc \in Steps \cup {"idle", "off"}
  /\ told \in Version \cup {None}
  /\ saves \in 0..MaxSaves
  /\ crashes \in 0..MaxCrashes
  /\ failures \in 0..MaxFailures
  /\ damages \in 0..MaxDamages

FileInit ==
  /\ main = None /\ bak = None /\ tmp = None
  /\ mem = None
  /\ pc = "off"
  /\ told = None
  /\ saves = 0 /\ crashes = 0 /\ failures = 0 /\ damages = 0

\* ndp_atomic_load: the file, or the backup when the file is missing or refused.
LoadBackupFirst == IF bak > 0 THEN bak ELSE IF main > 0 THEN main ELSE None    \* mutant
Load == IF main > 0 THEN main ELSE IF bak > 0 THEN bak ELSE None

Fails == failures < MaxFailures /\ failures' = failures + 1
Works == UNCHANGED failures

At(step) == pc = step /\ UNCHANGED <<mem, saves, crashes, damages>>
-----------------------------------------------------------------------------
Boot ==
  /\ pc = "off"
  /\ pc' = "idle"
  /\ mem' = Load
  /\ UNCHANGED <<files, told, counters>>

\* A pairing, a forgotten one, or a folder the owner opened or closed.
Change ==
  /\ pc = "idle"
  /\ saves < MaxSaves
  /\ saves' = saves + 1
  /\ mem' = saves + 1
  /\ pc' = "write"
  /\ UNCHANGED <<files, told, crashes, failures, damages>>

\* fopen, fwrite, fflush: what reaches the medium may be less than was written.
Write ==
  /\ At("write")
  /\ \/ Works /\ tmp' = mem /\ pc' = "verify"
     \/ Fails /\ tmp' = Bad /\ pc' = "verify"
     \/ Fails /\ UNCHANGED tmp /\ pc' = "idle"        \* fopen failed
     \/ Fails /\ tmp' = None /\ pc' = "idle"          \* fwrite failed: removed
  /\ UNCHANGED <<main, bak, told>>

\* The file is read back and compared before anything is given up for it.
VerifiedUnread == pc' = "clean" /\ UNCHANGED tmp      \* mutant: not read back
Verified ==
  \/ tmp = mem /\ pc' = "clean" /\ UNCHANGED tmp
  \/ tmp # mem /\ pc' = "idle" /\ tmp' = None

Verify == At("verify") /\ Works /\ Verified /\ UNCHANGED <<main, bak, told>>

\* remove(bak)
Clean ==
  /\ At("clean")
  /\ \/ Works /\ bak' = None
     \/ bak # None /\ Fails /\ UNCHANGED bak
  /\ pc' = "aside"
  /\ UNCHANGED <<main, tmp, told>>

\* rename(path, bak): "fine if there was no previous file".
Aside == bak' = main /\ main' = None

MoveAside ==
  /\ At("aside")
  /\ \/ main # None /\ Works /\ Aside
     \/ main # None /\ Fails /\ UNCHANGED <<main, bak>>
     \/ main = None /\ Works /\ UNCHANGED <<main, bak>>
  /\ pc' = "place"
  /\ UNCHANGED <<tmp, told>>

\* rename(tmp, path): the new version is in place.
Place ==
  /\ At("place")
  /\ \/ Works /\ main' = tmp /\ tmp' = None /\ pc' = "idle"
        /\ told' = mem
     \/ Fails /\ UNCHANGED <<main, tmp, told>> /\ pc' = "restore"
  /\ UNCHANGED bak

\* rename(bak, path): put the old one back.
Restore ==
  /\ At("restore")
  /\ \/ bak # None /\ Works /\ main' = bak /\ bak' = None
     \/ bak # None /\ Fails /\ UNCHANGED <<main, bak>>
     \/ bak = None /\ Works /\ UNCHANGED <<main, bak>>
  /\ pc' = "discard"
  /\ UNCHANGED <<tmp, told>>

\* remove(tmp), and the save reports that it failed.
Discard ==
  /\ At("discard")
  /\ \/ Works /\ tmp' = None
     \/ Fails /\ UNCHANGED tmp
  /\ pc' = "idle"
  /\ UNCHANGED <<main, bak, told>>

Crash ==
  /\ pc # "off"
  /\ crashes < MaxCrashes
  /\ crashes' = crashes + 1
  /\ pc' = "off"
  /\ UNCHANGED <<files, mem, told, saves, failures, damages>>

\* The medium damages a file, at a moment no save runs.
Damage ==
  /\ pc \in {"idle", "off"}
  /\ damages < MaxDamages
  /\ damages' = damages + 1
  /\ \/ main > 0 /\ main' = Bad /\ UNCHANGED bak
     \/ bak > 0 /\ bak' = Bad /\ UNCHANGED main
  /\ UNCHANGED <<tmp, mem, pc, told, saves, crashes, failures>>

Save == Write \/ Verify \/ Clean \/ MoveAside \/ Place \/ Restore \/ Discard

FileNext == Boot \/ Change \/ Save \/ Crash \/ Damage

FileSpec == FileInit /\ [][FileNext]_fileVars
-----------------------------------------------------------------------------
(***************************************************************************)
(* The versions a reader of the files sees.                                *)
(***************************************************************************)

Previous == IF main > 0 /\ bak > 0 THEN bak ELSE None
Saving == IF pc \in Steps THEN mem ELSE None

\* The save that runs started from a file that was missing or damaged (after it
\* moved a good one aside, the backup is that file), or the next one would.
FromFallback == ~ main > 0 /\ bak > 0 /\ pc \notin {"place", "restore", "discard"}

Promise == INSTANCE Versions WITH
  current <- Load, previous <- Previous, saving <- Saving, fallback <- FromFallback

\* The files behave as two versions that a save replaces in one step.
KeepsVersions == Promise!Spec

\* What a save reported done is what a load finds, or something newer, whatever
\* was interrupted since: the older version never comes back.  (A load may find
\* nothing: see Lose in Versions; and three failed calls of one save may revert it.)
NoRollback == damages = 0 /\ failures < 3 /\ Load # None => Load >= told

\* While a save runs that did not start from a fallback, wherever the power goes,
\* a load finds the version before it or the new one, as long as fewer than
\* three calls fail (then rename(bak, path) may put back what remove(bak) left).
SaveIsAllOrNothing ==
  [][Saving # None /\ ~FromFallback /\ failures' < 3 => Load' \in {Load, Saving}]_fileVars
=============================================================================
