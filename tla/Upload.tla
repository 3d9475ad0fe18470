------------------------------- MODULE Upload -------------------------------
(***************************************************************************)
(* FS_WRITE (ndp_agent_write.c): a client announces a file, streams it in  *)
(* DATA frames and ends it; the agent writes "<path>.ndp-tmp" and, once    *)
(* size and hash are verified, moves the existing file to "<path>.ndp-old",*)
(* the new one into its place, and drops the old one or keeps it as        *)
(* "<path>.bak".  Two connections share the card; meanwhile files are      *)
(* moved away and in by other commands, the mode changes, connections      *)
(* break, calls fail and the power goes.                                   *)
(*                                                                         *)
(* An upload is named by its number, and so is the file it writes: the     *)
(* name tells who wrote a file, "wrote" how much of it.  A handle stays on *)
(* its file when the name is removed or moved (POSIX: the host agent; the  *)
(* 3DS card refuses to remove an open file).  The loop serves one request  *)
(* at a time: while the calls of a commit run, only the power can          *)
(* interfere.                                                              *)
(***************************************************************************)
EXTENDS Integers, FiniteSets

CONSTANTS
  Slot,         \* the connections of the server
  Path,         \* files the clients write
  PathsOf,      \* the files each client writes
  Moved,        \* the files other commands move away and in
  Chunks,       \* DATA frames a whole file takes (its size)
  MaxFiles,     \* bound: files uploaded, or moved in by other commands
  MaxCrashes,   \* bound: power losses
  MaxFaults,    \* bound: calls of the file system that fail
  MaxModes      \* bound: changes of the mode

ASSUME UploadAssumption ==
  /\ Slot # {} /\ IsFiniteSet(Slot) /\ Path # {}
  /\ PathsOf \in [Slot -> SUBSET Path] /\ Moved \subseteq Path
  /\ Chunks \in Nat \ {0}
  /\ MaxFiles \in Nat /\ MaxCrashes \in Nat /\ MaxFaults \in Nat /\ MaxModes \in Nat

VARIABLES
  dir,        \* the file behind every name of the card; NoFile when there is none
  wrote,      \* per file: chunks written, whether garbled, whether synced
  up,         \* per connection: the agent's upload (a->up)
  commit,     \* the commit that runs: its connection and its next call
  mode,       \* READ_ONLY or DEVELOPMENT
  files,      \* files so far
  answers,    \* per upload: final answers sent (RES or ERR)
  ended,      \* the uploads whose END the agent has consumed
  newest,     \* per path: the file last put under it
  stray,      \* the paths whose temporary file a crash or a failed removal left behind
  crashes, faults, modes

card == <<dir, wrote>>
history == <<answers, ended, newest, stray>>
counters == <<files, crashes, faults, modes>>
vars == <<card, up, commit, mode, history, counters>>

File == 1..MaxFiles
NoFile == 0

\* A path, its temporary name, the name it is moved aside to, its backup.
Names == [path : Path, suffix : {"", "tmp", "old", "bak"}]
Target(p) == [path |-> p, suffix |-> ""]
Temp(p) == [path |-> p, suffix |-> "tmp"]
Old(p) == [path |-> p, suffix |-> "old"]
Bak(p) == [path |-> p, suffix |-> "bak"]

NoUpload == [active |-> FALSE, discard |-> FALSE, id |-> NoFile, path |-> CHOOSE p \in Path : TRUE,
             received |-> 0, backup |-> FALSE, exists |-> FALSE]

Calls == {"sync", "clean", "aside", "place", "restore", "keep", "rename_bak", "drop", "probe"}
NoCommit == [slot |-> CHOOSE s \in Slot : TRUE, call |-> "none"]

Whole(f) == wrote[f].chunks = Chunks /\ ~wrote[f].garbled

TypeOK ==
  /\ dir \in [Names -> File \cup {NoFile}]
  /\ wrote \in [File -> [chunks : 0..Chunks, garbled : BOOLEAN, synced : BOOLEAN]]
  /\ up \in [Slot -> [active : BOOLEAN, discard : BOOLEAN, id : File \cup {NoFile}, path : Path,
                      received : 0..Chunks, backup : BOOLEAN, exists : BOOLEAN]]
  /\ commit \in [slot : Slot, call : Calls] \cup {NoCommit}
  /\ mode \in {"READ_ONLY", "DEVELOPMENT"}
  /\ answers \in [File -> Nat]
  /\ ended \subseteq File /\ stray \subseteq Path
  /\ newest \in [Path -> File \cup {NoFile}]
  /\ files \in 0..MaxFiles
  /\ crashes \in 0..MaxCrashes /\ faults \in 0..MaxFaults /\ modes \in 0..MaxModes

Init ==
  /\ dir = [n \in Names |-> NoFile]
  /\ wrote = [f \in File |-> [chunks |-> 0, garbled |-> FALSE, synced |-> FALSE]]
  /\ up = [s \in Slot |-> NoUpload]
  /\ commit = NoCommit
  /\ mode = "DEVELOPMENT"
  /\ files = 0 /\ crashes = 0 /\ faults = 0 /\ modes = 0
  /\ answers = [f \in File |-> 0]
  /\ ended = {} /\ stray = {}
  /\ newest = [p \in Path |-> NoFile]
-----------------------------------------------------------------------------
(***************************************************************************)
(* The calls of the file system, and the end of an upload.                 *)
(***************************************************************************)

Removed(d, n) == [d EXCEPT ![n] = NoFile]
Renamed(d, from, to) == [d EXCEPT ![to] = d[from], ![from] = NoFile]

\* n calls of this step fail.
Failing(n) == faults + n <= MaxFaults /\ faults' = faults + n

\* remove_file(temp): best effort.  d is the directory the step has so far left,
\* and n the calls that already failed in it.
TempKept(p, d, n) == dir' = d /\ UNCHANGED stray /\ Failing(n)           \* mutant: kept
TempRemoved(p, d, n) ==
  \/ dir' = Removed(d, Temp(p)) /\ UNCHANGED stray /\ Failing(n)
  \/ /\ d[Temp(p)] # NoFile
     /\ dir' = d
     /\ stray' = stray \cup {p}
     /\ Failing(n + 1)

\* fail_upload: the temporary file goes, the client is told, and what it still
\* sends of this upload is discarded.  Of an upload that is over, the agent reads
\* nothing again but whether to discard.
Over(u, discard) == [NoUpload EXCEPT !.id = u.id, !.path = u.path, !.discard = discard]
IgnoreRest(s) == up' = [up EXCEPT ![s] = Over(up[s], FALSE)]
ForgetRest(s) == IgnoreRest(s)                          \* mutant: discard not set
DiscardRest(s) == up' = [up EXCEPT ![s] = Over(up[s], TRUE)]

Answer(s) == answers' = [answers EXCEPT ![up[s].id] = @ + 1]

FailUpload(s, d, n) == TempRemoved(up[s].path, d, n) /\ Answer(s)

Idle == commit = NoCommit
-----------------------------------------------------------------------------
(***************************************************************************)
(* What the clients send.                                                  *)
(***************************************************************************)

\* FS_WRITE: refused while the mode is READ_ONLY, or when the file exists and
\* overwriting it was not asked for.  A stale temporary file is replaced.
Begin(s, p, overwrite, backup) ==
  /\ Idle
  /\ ~up[s].active
  /\ mode # "READ_ONLY"
  /\ p \in PathsOf[s]
  /\ files < MaxFiles
  /\ dir[Target(p)] # NoFile => overwrite
  /\ \/ /\ Failing(0)
        /\ files' = files + 1
        /\ dir' = [dir EXCEPT ![Temp(p)] = files + 1]
        /\ up' = [up EXCEPT ![s] = [active |-> TRUE, discard |-> FALSE, id |-> files + 1, path |-> p,
                                   received |-> 0, backup |-> backup,
                                   exists |-> dir[Target(p)] # NoFile]]
     \/ /\ Failing(1)                                   \* file_create failed
        /\ dir' = Removed(dir, Temp(p))
        /\ up' = [up EXCEPT ![s] = NoUpload]
        /\ UNCHANGED files
  /\ stray' = stray \ {p}
  /\ UNCHANGED <<wrote, commit, mode, answers, ended, newest, crashes, modes>>

\* Any other request: the client has stopped sending the upload that failed.
OtherRequest(s) ==
  /\ Idle
  /\ ~up[s].active
  /\ up[s].id # NoFile
  /\ up' = [up EXCEPT ![s] = NoUpload]
  /\ UNCHANGED <<card, commit, mode, history, counters>>

Fits(s) == up[s].received < Chunks

\* A DATA frame; its bytes may not be those the client computed the hash of.
Data(s, garbled) ==
  /\ Idle
  /\ up[s].active
  /\ \/ /\ Fits(s)
        /\ wrote' = [wrote EXCEPT ![up[s].id] = [chunks |-> @.chunks + 1, synced |-> @.synced,
                                                 garbled |-> @.garbled \/ garbled]]
        /\ up' = [up EXCEPT ![s].received = @ + 1]
        /\ UNCHANGED <<dir, faults, answers, stray>>
     \/ /\ Fits(s)                                      \* file_write failed
        /\ FailUpload(s, dir, 1)
        /\ DiscardRest(s)
        /\ UNCHANGED wrote
     \/ /\ ~Fits(s)
        /\ FailUpload(s, dir, 0)
        /\ DiscardRest(s)
        /\ UNCHANGED wrote
  /\ UNCHANGED <<commit, mode, ended, newest, files, crashes, modes>>

\* Size and hash are those the client declared.
CompleteUnhashed(s) == up[s].received = Chunks          \* mutant: hash not checked
Complete(s) == up[s].received = Chunks /\ ~wrote[up[s].id].garbled

\* END: the upload is committed, or fails, or is one that failed before.
End(s) ==
  /\ Idle
  /\ up[s].id # NoFile /\ up[s].id \notin ended
  /\ ended' = ended \cup {up[s].id}
  /\ \/ /\ up[s].active /\ Complete(s)
        /\ commit' = [slot |-> s, call |-> "sync"]
        /\ UNCHANGED <<card, up, answers, stray, faults>>
     \/ /\ up[s].active /\ ~Complete(s)
        /\ FailUpload(s, dir, 0)
        /\ IgnoreRest(s)
        /\ UNCHANGED <<wrote, commit>>
     \/ /\ ~up[s].active
        /\ up' = [up EXCEPT ![s].discard = FALSE]
        /\ IF up[s].discard THEN UNCHANGED answers ELSE Answer(s)     \* "expected REQ"
        /\ UNCHANGED <<card, commit, stray, faults>>
  /\ UNCHANGED <<mode, newest, files, crashes, modes>>

\* The connection closes, and its upload is aborted.
Disconnect(s) ==
  /\ Idle
  /\ up[s].id # NoFile
  /\ \/ up[s].active /\ TempRemoved(up[s].path, dir, 0)
     \/ ~up[s].active /\ UNCHANGED <<dir, stray, faults>>
  /\ up' = [up EXCEPT ![s] = NoUpload]
  /\ UNCHANGED <<wrote, commit, mode, answers, ended, newest, files, crashes, modes>>
-----------------------------------------------------------------------------
(***************************************************************************)
(* commit_upload, one call of the file system per step.                    *)
(***************************************************************************)

Call(s, call) == commit = [slot |-> s, call |-> call] /\ UNCHANGED <<mode, ended, files, crashes, modes>>
Then(s, call) == commit' = [slot |-> s, call |-> call]

Fail(s, d, n) ==
  /\ FailUpload(s, d, n)
  /\ IgnoreRest(s)
  /\ commit' = NoCommit
  /\ UNCHANGED newest

Succeed(s) ==
  /\ Answer(s)
  /\ IgnoreRest(s)
  /\ commit' = NoCommit
  /\ UNCHANGED stray

Proceed(s, call) == Then(s, call) /\ UNCHANGED <<up, answers, stray>>

Synced(f) == [wrote EXCEPT ![f].synced = TRUE]

Sync(s) ==
  /\ Call(s, "sync")
  /\ \/ /\ Failing(0)
        /\ wrote' = Synced(up[s].id)
        /\ Proceed(s, IF up[s].exists THEN "clean" ELSE "probe")
        /\ UNCHANGED <<dir, newest>>
     \/ Fail(s, dir, 1) /\ UNCHANGED wrote

\* "stale leftover from an earlier crash"
Clean(s) ==
  /\ Call(s, "clean")
  /\ \/ Failing(0) /\ dir' = Removed(dir, Old(up[s].path))
     \/ dir[Old(up[s].path)] # NoFile /\ Failing(1) /\ UNCHANGED dir
  /\ Proceed(s, "aside")
  /\ UNCHANGED <<wrote, newest>>

\* "move the existing file aside"
ThrownAway(p) == Removed(dir, Target(p))                \* mutant: removed instead
SetAside(p) == Renamed(dir, Target(p), Old(p))

Aside(s) ==
  /\ Call(s, "aside")
  /\ \/ /\ dir[Target(up[s].path)] # NoFile
        /\ Failing(0)
        /\ dir' = SetAside(up[s].path)
        /\ Proceed(s, "place")
        /\ UNCHANGED newest
     \/ dir[Target(up[s].path)] = NoFile /\ Fail(s, dir, 0)
     \/ dir[Target(up[s].path)] # NoFile /\ Fail(s, dir, 1)
  /\ UNCHANGED wrote

InPlace(p) ==
  /\ dir[Temp(p)] # NoFile
  /\ dir' = Renamed(dir, Temp(p), Target(p))
  /\ newest' = [newest EXCEPT ![p] = dir[Temp(p)]]

\* "put the new one in place"
Place(s) ==
  /\ Call(s, "place")
  /\ \/ /\ InPlace(up[s].path)
        /\ Failing(0)
        /\ Proceed(s, IF up[s].backup THEN "keep" ELSE "drop")
     \/ /\ Failing(IF dir[Temp(up[s].path)] = NoFile THEN 0 ELSE 1)
        /\ Proceed(s, "restore")
        /\ UNCHANGED <<dir, newest>>
  /\ UNCHANGED wrote

\* The old file is put back, and the upload fails.
NotPutBack(p) == dir                                    \* mutant: not restored
PutBack(p) == Renamed(dir, Old(p), Target(p))

Restore(s) ==
  /\ Call(s, "restore")
  /\ Fail(s, PutBack(up[s].path), 0) \/ Fail(s, dir, 1)
  /\ UNCHANGED wrote

\* "drop (or keep) the old one"
Keep(s) ==
  /\ Call(s, "keep")
  /\ \/ Failing(0) /\ dir' = Removed(dir, Bak(up[s].path))
     \/ dir[Bak(up[s].path)] # NoFile /\ Failing(1) /\ UNCHANGED dir
  /\ Proceed(s, "rename_bak")
  /\ UNCHANGED <<wrote, newest>>

RenameBak(s) ==
  /\ Call(s, "rename_bak")
  /\ \/ /\ Failing(0)
        /\ dir' = Renamed(dir, Old(up[s].path), Bak(up[s].path))
        /\ Succeed(s)
     \/ /\ Failing(1)
        /\ Proceed(s, "drop")
        /\ UNCHANGED dir
  /\ UNCHANGED <<wrote, newest>>

Drop(s) ==
  /\ Call(s, "drop")
  /\ \/ Failing(0) /\ dir' = Removed(dir, Old(up[s].path))
     \/ Failing(1) /\ UNCHANGED dir
  /\ Succeed(s)
  /\ UNCHANGED <<wrote, newest>>

\* No file was there when the upload began; "someone created it meanwhile" fails it.
AppearedUnseen(p) == FALSE                              \* mutant: not looked at
Appeared(p) == dir[Target(p)] # NoFile

Settle(s) ==
  /\ Call(s, "probe")
  /\ \/ Appeared(up[s].path) /\ Fail(s, dir, 0)
     \/ ~Appeared(up[s].path) /\ InPlace(up[s].path) /\ Failing(0) /\ Succeed(s)
     \/ ~Appeared(up[s].path) /\ dir[Temp(up[s].path)] # NoFile /\ Fail(s, dir, 1)
     \/ ~Appeared(up[s].path) /\ dir[Temp(up[s].path)] = NoFile /\ Fail(s, dir, 0)
  /\ UNCHANGED wrote

Commit(s) == \/ Sync(s) \/ Clean(s) \/ Aside(s) \/ Place(s) \/ Restore(s)
             \/ Keep(s) \/ RenameBak(s) \/ Drop(s) \/ Settle(s)
-----------------------------------------------------------------------------
(***************************************************************************)
(* Everything else that happens to the card.                               *)
(***************************************************************************)

\* FS_DELETE or FS_RENAME of another request moves the file away.
MoveAway(p) ==
  /\ Idle
  /\ mode # "READ_ONLY"
  /\ \E s \in Slot : ~up[s].active
  /\ dir[Target(p)] # NoFile
  /\ dir' = Removed(dir, Target(p))
  /\ newest' = [newest EXCEPT ![p] = NoFile]
  /\ UNCHANGED <<wrote, up, commit, mode, answers, ended, stray, counters>>

\* FS_RENAME or FS_COPY of another request puts a whole file where none was.
MoveIn(p) ==
  /\ Idle
  /\ mode # "READ_ONLY"
  /\ \E s \in Slot : ~up[s].active
  /\ dir[Target(p)] = NoFile
  /\ files < MaxFiles
  /\ files' = files + 1
  /\ dir' = [dir EXCEPT ![Target(p)] = files + 1]
  /\ wrote' = [wrote EXCEPT ![files + 1] = [chunks |-> Chunks, garbled |-> FALSE, synced |-> TRUE]]
  /\ newest' = [newest EXCEPT ![p] = files + 1]
  /\ UNCHANGED <<up, commit, mode, answers, ended, stray, crashes, faults, modes>>

\* The owner changes the mode; READ_ONLY aborts the uploads, and the removal of
\* their temporary files may fail.
SwitchMode ==
  LET aborted == {s \in Slot : mode # "READ_ONLY" /\ up[s].active}
      temps   == {t \in {Temp(up[s].path) : s \in aborted} : dir[t] # NoFile}
  IN  /\ Idle
      /\ modes < MaxModes
      /\ modes' = modes + 1
      /\ mode' = IF mode = "READ_ONLY" THEN "DEVELOPMENT" ELSE "READ_ONLY"
      /\ \E kept \in SUBSET temps :
           /\ Failing(Cardinality(kept))
           /\ dir' = [n \in Names |-> IF n \in temps \ kept THEN NoFile ELSE dir[n]]
           /\ stray' = stray \cup {t.path : t \in kept}
      /\ up' = [s \in Slot |-> IF s \in aborted THEN Over(up[s], TRUE) ELSE up[s]]
      /\ UNCHANGED <<wrote, commit, answers, ended, newest, files, crashes>>

\* The power goes, at any call: what was not synced is lost with it.
Crash ==
  /\ crashes < MaxCrashes
  /\ crashes' = crashes + 1
  /\ wrote' = [f \in File |-> IF wrote[f].synced THEN wrote[f] ELSE [wrote[f] EXCEPT !.chunks = 0]]
  /\ up' = [s \in Slot |-> NoUpload]
  /\ commit' = NoCommit
  /\ stray' = {p \in Path : dir[Temp(p)] # NoFile}
  /\ UNCHANGED <<dir, mode, answers, ended, newest, files, faults, modes>>

Next ==
  \/ \E s \in Slot :
       \/ \E p \in Path, overwrite, backup \in BOOLEAN : Begin(s, p, overwrite, backup)
       \/ \E garbled \in BOOLEAN : Data(s, garbled)
       \/ OtherRequest(s) \/ End(s) \/ Disconnect(s) \/ Commit(s)
  \/ \E p \in Moved : MoveAway(p) \/ MoveIn(p)
  \/ SwitchMode
  \/ Crash

Spec == Init /\ [][Next]_vars
-----------------------------------------------------------------------------
(***************************************************************************)
(* Properties.                                                             *)
(***************************************************************************)

\* Only verified files ever stand under a path, or under the names its earlier
\* versions are kept: "replace the target only after size and hash are verified"
\* (ndp_agent_write.c:1), whatever connections, commands and crashes interleave.
WholeFiles ==
  \A p \in Path : \A n \in {Target(p), Old(p), Bak(p)} : dir[n] # NoFile => Whole(dir[n])

\* The last file put under a path is still on the card, under the path itself or
\* set aside next to it, wherever a commit was cut short and whatever failed.
NewestKept == \A p \in Path : newest[p] # NoFile => newest[p] \in {dir[Target(p)], dir[Old(p)]}

\* A failed upload leaves the target as it was ("destino intacto", ndp-v1.md
\* section 14), even if a call of the file system failed: between two requests
\* the last file put under a path is there, unless the power went or two calls
\* failed.
TargetIntact ==
  Idle /\ crashes = 0 /\ faults < 2 => \A p \in Path : dir[Target(p)] = newest[p]

\* An upload never gets two final answers, and one whose END was consumed gets
\* one, unless the power went or the owner changed the mode.
AnsweredOnce ==
  \A f \in File : /\ answers[f] <= 1
                  /\ f \in ended /\ Idle /\ crashes = 0 /\ modes = 0 => answers[f] = 1

\* A temporary file belongs to an upload that runs, or a crash or a failed
\* removal left it: no way of ending an upload forgets it.
NoForgottenTemp ==
  \A p \in Path : dir[Temp(p)] # NoFile =>
    p \in stray \/ \E s \in Slot : up[s].active /\ up[s].id = dir[Temp(p)]

\* A file under a path is never replaced in place: it is moved away or set aside
\* first, so no step destroys the only copy of a file nobody asked to replace.
NeverOverwritten ==
  [][\A p \in Path : dir[Target(p)] # NoFile => dir'[Target(p)] \in {dir[Target(p)], NoFile}]_vars
=============================================================================
