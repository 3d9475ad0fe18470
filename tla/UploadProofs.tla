---------------------------- MODULE UploadProofs ----------------------------
(***************************************************************************)
(* The safety of uploads, for every number of connections, paths, files,   *)
(* frames, crashes and failed calls, when no two clients write the same    *)
(* path.                                                                   *)
(***************************************************************************)
EXTENDS Upload, FiniteSetTheorems, TLAPS

\* Two clients never write the same file: two uploads of one path share its
\* temporary file.
OwnFiles == \A s, t \in Slot : s # t => PathsOf[s] \cap PathsOf[t] = {}

Ours(s, calls) == commit.slot = s /\ commit.call \in calls

\* A number not used yet names no file, no upload and no bytes.
FreshInv ==
  /\ \A f \in File : f > files => wrote[f] = [chunks |-> 0, garbled |-> FALSE, synced |-> FALSE]
  /\ \A n \in Names : dir[n] <= files
  /\ \A s \in Slot : up[s].id <= files

\* A file has one name.
OneNameInv == \A m, n \in Names : dir[m] = dir[n] /\ dir[m] # NoFile => m = n

\* What stands under a path was synced, so that no crash can harm it.
KeptAt(p) ==
  \A n \in {Target(p), Old(p), Bak(p)} : dir[n] # NoFile => Whole(dir[n]) /\ wrote[dir[n]].synced
KeptInv == \A p \in Path : KeptAt(p)

\* A running upload has its own temporary file, with the bytes it counted,
\* until its commit has moved it into place.
RunningAt(s) ==
  up[s].active =>
    /\ up[s].path \in PathsOf[s]
    /\ up[s].id # NoFile
    /\ wrote[up[s].id].chunks = up[s].received
    /\ dir[Temp(up[s].path)] = up[s].id \/ Ours(s, {"keep", "rename_bak", "drop"})
RunningInv == \A s \in Slot : RunningAt(s)

\* A commit runs for a verified upload, and past its first call a synced one.
CommitAt(s) ==
  Ours(s, Calls) =>
    /\ up[s].active
    /\ Whole(up[s].id)
    /\ commit.call # "sync" => wrote[up[s].id].synced
CommitInv == \A s \in Slot : CommitAt(s)

\* Where the last file of a path is: under the path whenever there is one, set
\* aside only while the commit may still put it back or when that failed.
NewestAt(s) ==
  /\ up[s].active /\ up[s].exists => \/ newest[up[s].path] \in {NoFile, dir[Target(up[s].path)]}
                                     \/ Ours(s, {"place", "restore"})
  /\ Ours(s, {"place", "restore"}) =>
       dir[Target(up[s].path)] = NoFile /\ newest[up[s].path] = dir[Old(up[s].path)]
  /\ Ours(s, {"clean", "aside"}) => up[s].exists
  /\ Ours(s, {"keep", "rename_bak", "drop"}) => newest[up[s].path] = dir[Target(up[s].path)]
FoundAt(p) == dir[Target(p)] # NoFile => dir[Target(p)] = newest[p]
NewestInv == (\A p \in Path : FoundAt(p)) /\ (\A s \in Slot : NewestAt(s))

SafeInv == FreshInv /\ OneNameInv /\ KeptInv /\ RunningInv /\ CommitInv /\ NewestInv /\ NewestKept

IInv == TypeOK /\ SafeInv
-----------------------------------------------------------------------------
(***************************************************************************)
(* Names, and what the calls of the file system do to them.                *)
(***************************************************************************)

\* The four names of a path differ, and so do those of two paths.
LEMMA NamesDiffer ==
  /\ \A p \in Path : {Target(p), Temp(p), Old(p), Bak(p)} \subseteq Names
  /\ \A n \in Names : \E p \in Path : n \in {Target(p), Temp(p), Old(p), Bak(p)}
  /\ \A p, q \in Path : /\ Target(p) # Temp(q) /\ Target(p) # Old(q) /\ Target(p) # Bak(q)
                        /\ Temp(p) # Old(q) /\ Temp(p) # Bak(q) /\ Old(p) # Bak(q)
                        /\ Target(p) = Target(q) => p = q
                        /\ Temp(p) = Temp(q) => p = q
                        /\ Old(p) = Old(q) => p = q
                        /\ Bak(p) = Bak(q) => p = q
<1>1. \A p \in Path : {Target(p), Temp(p), Old(p), Bak(p)} \subseteq Names
  BY DEF Names, Target, Temp, Old, Bak
<1>2. ASSUME NEW n \in Names
      PROVE  \E p \in Path : n \in {Target(p), Temp(p), Old(p), Bak(p)}
  <2>1. n = [path |-> n.path, suffix |-> n.suffix] /\ n.path \in Path
        /\ n.suffix \in {"", "tmp", "old", "bak"}
    BY DEF Names
  <2> QED BY <2>1 DEF Target, Temp, Old, Bak
<1>3. ASSUME NEW p \in Path, NEW q \in Path
      PROVE  /\ Target(p) # Temp(q) /\ Target(p) # Old(q) /\ Target(p) # Bak(q)
             /\ Temp(p) # Old(q) /\ Temp(p) # Bak(q) /\ Old(p) # Bak(q)
             /\ Target(p) = Target(q) => p = q
             /\ Temp(p) = Temp(q) => p = q
             /\ Old(p) = Old(q) => p = q
             /\ Bak(p) = Bak(q) => p = q
  BY DEF Target, Temp, Old, Bak
<1> QED BY <1>1, <1>2, <1>3

Directory == [Names -> File \cup {NoFile}]

LEMMA RemovedProperties ==
  ASSUME NEW d \in Directory, NEW n \in Names
  PROVE  /\ Removed(d, n) \in Directory
         /\ \A m \in Names : Removed(d, n)[m] = IF m = n THEN NoFile ELSE d[m]
BY DEF Removed, Directory

LEMMA RenamedProperties ==
  ASSUME NEW d \in Directory, NEW from \in Names, NEW to \in Names, from # to
  PROVE  /\ Renamed(d, from, to) \in Directory
         /\ \A m \in Names : Renamed(d, from, to)[m] = IF m = from THEN NoFile
                                                       ELSE IF m = to THEN d[from] ELSE d[m]
BY DEF Renamed, Directory

LEMMA InitInv == Init => IInv
<1> SUFFICES ASSUME Init PROVE IInv
  OBVIOUS
<1> USE UploadAssumption
<1>1. TypeOK
  BY DEF Init, TypeOK, NoUpload, NoCommit, NoFile, File
<1>2. SafeInv
  BY NamesDiffer DEF Init, SafeInv, FreshInv, OneNameInv, KeptInv, KeptAt, RunningInv, RunningAt,
     CommitInv, CommitAt, NewestInv, NewestAt, FoundAt, NewestKept, NoUpload, NoCommit, NoFile, File, Ours, Calls
<1> QED BY <1>1, <1>2 DEF IInv
-----------------------------------------------------------------------------
(***************************************************************************)
(* Types.                                                                  *)
(***************************************************************************)
LEMMA DirectoryOps ==
  ASSUME NEW d \in Directory, NEW p \in Path
  PROVE  /\ Removed(d, Temp(p)) \in Directory /\ Removed(d, Old(p)) \in Directory
         /\ Removed(d, Bak(p)) \in Directory /\ Removed(d, Target(p)) \in Directory
         /\ Renamed(d, Target(p), Old(p)) \in Directory
         /\ Renamed(d, Temp(p), Target(p)) \in Directory
         /\ Renamed(d, Old(p), Target(p)) \in Directory
         /\ Renamed(d, Old(p), Bak(p)) \in Directory
BY NamesDiffer, RemovedProperties, RenamedProperties

\* Removing a temporary file touches no other name.
LEMMA TempRemovedProperties ==
  ASSUME TypeOK, NEW p \in Path, NEW d \in Directory, NEW n \in Nat, TempRemoved(p, d, n)
  PROVE  /\ dir' \in Directory
         /\ \A m \in Names : m # Temp(p) => dir'[m] = d[m]
         /\ dir'[Temp(p)] \in {NoFile, d[Temp(p)]}
         /\ faults' \in 0..MaxFaults
         /\ stray' \subseteq Path
<1> USE UploadAssumption
<1>1. Temp(p) \in Names
  BY NamesDiffer
<1>2. d[Temp(p)] \in File \cup {NoFile}
  BY <1>1 DEF Directory
<1>3. CASE dir' = Removed(d, Temp(p)) /\ UNCHANGED stray /\ Failing(n)
  <2> DEFINE r == Removed(d, Temp(p))
  <2>1. r \in Directory /\ \A m \in Names : r[m] = IF m = Temp(p) THEN NoFile ELSE d[m]
    BY <1>1, RemovedProperties
  <2> HIDE DEF r
  <2>3. dir' = r
    BY <1>3 DEF r
  <2>2. faults' \in 0..MaxFaults /\ stray' \subseteq Path
    BY <1>3 DEF TypeOK, Failing
  <2> QED BY <2>1, <2>2, <2>3, <1>1
<1>4. CASE d[Temp(p)] # NoFile /\ dir' = d /\ stray' = stray \cup {p} /\ Failing(n + 1)
  <2>2. stray' \subseteq Path
    BY <1>4 DEF TypeOK
  <2>3. faults' \in 0..MaxFaults
    BY <1>4 DEF TypeOK, Failing
  <2>4. dir' = d
    BY <1>4
  <2> QED BY <2>2, <2>3, <2>4
<1> QED BY <1>3, <1>4 DEF TempRemoved

\* The uploads of the connections, typed.
Uploads == [active : BOOLEAN, discard : BOOLEAN, id : File \cup {NoFile}, path : Path,
            received : 0..Chunks, backup : BOOLEAN, exists : BOOLEAN]

LEMMA NoUploadType == NoUpload \in Uploads /\ NoUpload.active = FALSE /\ NoUpload.id = NoFile
BY UploadAssumption DEF NoUpload, Uploads

\* What is left of an upload that is over.
LEMMA OverProperties ==
  ASSUME NEW u \in Uploads, NEW discard \in BOOLEAN
  PROVE  /\ Over(u, discard) \in Uploads
         /\ Over(u, discard).active = FALSE
         /\ Over(u, discard).id = u.id /\ Over(u, discard).path = u.path
BY NoUploadType DEF Over, Uploads

LEMMA AnswerType ==
  ASSUME TypeOK, NEW s \in Slot, Answer(s)
  PROVE  answers' \in [File -> Nat]
<1> DEFINE f == up[s].id
<1>1. answers \in [File -> Nat] /\ answers' = [answers EXCEPT ![f] = answers[f] + 1]
  BY DEF TypeOK, Answer
<1> HIDE DEF f
<1>2. CASE f \in File
  <2>1. answers[f] + 1 \in Nat
    BY <1>1, <1>2
  <2> QED BY <1>1, <1>2, <2>1
<1>3. CASE f \notin File
  BY <1>1, <1>3
<1> QED BY <1>2, <1>3

LEMMA IgnoreRestProperties ==
  ASSUME TypeOK, NEW s \in Slot, IgnoreRest(s) \/ DiscardRest(s)
  PROVE  /\ up' \in [Slot -> Uploads]
         /\ \A t \in Slot \ {s} : up'[t] = up[t]
         /\ up'[s].active = FALSE /\ up'[s].id = up[s].id /\ up'[s].path = up[s].path
<1>1. up[s] \in Uploads /\ up \in [Slot -> Uploads]
  BY DEF TypeOK, Uploads
<1>2. up' = [up EXCEPT ![s] = Over(up[s], FALSE)] \/ up' = [up EXCEPT ![s] = Over(up[s], TRUE)]
  BY DEF IgnoreRest, DiscardRest
<1> QED BY <1>1, <1>2, OverProperties

LEMMA NoCommitType == NoCommit.call = "none" /\ "none" \notin Calls
BY DEF NoCommit, Calls
LEMMA FailUploadProperties ==
  ASSUME TypeOK, NEW s \in Slot, NEW d \in Directory, NEW n \in Nat, FailUpload(s, d, n)
  PROVE  /\ dir' \in Directory /\ answers' \in [File -> Nat]
         /\ \A m \in Names : m # Temp(up[s].path) => dir'[m] = d[m]
         /\ dir'[Temp(up[s].path)] \in {NoFile, d[Temp(up[s].path)]}
         /\ faults' \in 0..MaxFaults
         /\ stray' \subseteq Path
<1>1. up[s].path \in Path
  BY DEF TypeOK
<1>2. TempRemoved(up[s].path, d, n) /\ Answer(s)
  BY DEF FailUpload
<1> QED BY <1>1, <1>2, TempRemovedProperties, AnswerType

\* A commit that fails ends its upload, and leaves the card as the calls before
\* left it, but for the temporary file.
LEMMA FailProperties ==
  ASSUME TypeOK, NEW s \in Slot, NEW d \in Directory, NEW n \in Nat, Fail(s, d, n)
  PROVE  /\ dir' \in Directory /\ answers' \in [File -> Nat]
         /\ \A m \in Names : m # Temp(up[s].path) => dir'[m] = d[m]
         /\ dir'[Temp(up[s].path)] \in {NoFile, d[Temp(up[s].path)]}
         /\ faults' \in 0..MaxFaults
         /\ stray' \subseteq Path
         /\ up' \in [Slot -> Uploads]
         /\ \A t \in Slot \ {s} : up'[t] = up[t]
         /\ up'[s].active = FALSE /\ up'[s].id = up[s].id /\ up'[s].path = up[s].path
         /\ commit' = NoCommit
         /\ newest' = newest
<1>1. FailUpload(s, d, n) /\ IgnoreRest(s) /\ commit' = NoCommit /\ newest' = newest
  BY DEF Fail
<1> QED BY <1>1, FailUploadProperties, IgnoreRestProperties

LEMMA SucceedProperties ==
  ASSUME TypeOK, NEW s \in Slot, Succeed(s)
  PROVE  /\ answers' \in [File -> Nat]
         /\ up' \in [Slot -> Uploads]
         /\ \A t \in Slot \ {s} : up'[t] = up[t]
         /\ up'[s].active = FALSE /\ up'[s].id = up[s].id /\ up'[s].path = up[s].path
         /\ commit' = NoCommit
         /\ stray' = stray
<1>1. Answer(s) /\ IgnoreRest(s) /\ commit' = NoCommit /\ stray' = stray
  BY DEF Succeed
<1> QED BY <1>1, AnswerType, IgnoreRestProperties

\* TypeOK, in the words of these lemmas.
Contents == [File -> [chunks : 0..Chunks, garbled : BOOLEAN, synced : BOOLEAN]]
Commits == [slot : Slot, call : Calls] \cup {NoCommit}

LEMMA TypeParts ==
  TypeOK <=> /\ dir \in Directory /\ wrote \in Contents /\ up \in [Slot -> Uploads]
             /\ commit \in Commits /\ mode \in {"READ_ONLY", "DEVELOPMENT"}
             /\ answers \in [File -> Nat]
             /\ ended \subseteq File /\ stray \subseteq Path
             /\ newest \in [Path -> File \cup {NoFile}]
             /\ files \in 0..MaxFiles
             /\ crashes \in 0..MaxCrashes /\ faults \in 0..MaxFaults /\ modes \in 0..MaxModes
BY DEF TypeOK, Directory, Contents, Uploads, Commits

LEMMA TypePartsNext ==
  ASSUME dir' \in Directory, wrote' \in Contents, up' \in [Slot -> Uploads],
         commit' \in Commits, mode' \in {"READ_ONLY", "DEVELOPMENT"},
         answers' \in [File -> Nat],
         ended' \subseteq File, stray' \subseteq Path,
         newest' \in [Path -> File \cup {NoFile}],
         files' \in 0..MaxFiles,
         crashes' \in 0..MaxCrashes, faults' \in 0..MaxFaults, modes' \in 0..MaxModes
  PROVE  TypeOK'
BY DEF TypeOK, Directory, Contents, Uploads, Commits

-----------------------------------------------------------------------------
(***************************************************************************)
(* Every action preserves the invariant.                                   *)
(***************************************************************************)

\* The end of an upload that fails, whichever call of its commit it was at: only
\* its temporary file may go.
LEMMA EndedUpload ==
  ASSUME OwnFiles, IInv, NEW s \in Slot, up[s].active,
         commit = NoCommit \/ (commit.slot = s /\ commit.call \in {"sync", "clean", "aside", "probe"}),
         dir' \in Directory,
         \A m \in Names : m # Temp(up[s].path) => dir'[m] = dir[m],
         dir'[Temp(up[s].path)] \in {NoFile, dir[Temp(up[s].path)]},
         \A t \in Slot \ {s} : up'[t] = up[t],
         up'[s].active = FALSE, up'[s].id \in {NoFile, up[s].id},
         commit' = NoCommit,
         newest' = newest, wrote' = wrote, files' = files
  PROVE  SafeInv'
<1> USE UploadAssumption DEF IInv, SafeInv
<1>0. /\ dir \in Directory /\ up \in [Slot -> Uploads] /\ newest \in [Path -> File \cup {NoFile}]
      /\ files \in 0..MaxFiles
      /\ \A t \in Slot : up[t].path \in Path
  BY TypeParts DEF Uploads
<1>1. FreshInv'
  BY <1>0 DEF FreshInv, NoFile
<1>2. OneNameInv'
  BY <1>0 DEF OneNameInv
<1>3. KeptInv'
  BY <1>0, NamesDiffer DEF KeptInv, KeptAt, Whole
<1>4. ASSUME NEW t \in Slot \ {s}, up[t].active
      PROVE  /\ up[t].path # up[s].path
             /\ dir'[Temp(up[t].path)] = up[t].id
             /\ dir'[Target(up[t].path)] = dir[Target(up[t].path)]
  BY <1>0, <1>4, NamesDiffer, NoCommitType DEF RunningInv, RunningAt, OwnFiles, Ours, Calls
<1>5. RunningInv'
  BY <1>0, <1>4 DEF RunningInv, RunningAt
<1>6. \A t \in Slot : ~Ours(t, Calls)'
  BY NoCommitType DEF Ours
<1>7. CommitInv'
  BY <1>6 DEF CommitInv, CommitAt
<1>8. NewestKept'
  BY <1>0, NamesDiffer DEF NewestKept
<1>9. NewestInv'
  <2>1. \A p \in Path : (dir[Target(p)] # NoFile => dir[Target(p)] = newest[p])'
    BY <1>0, NamesDiffer DEF NewestInv, NewestAt, FoundAt
  <2>2. ASSUME NEW t \in Slot, (up[t].active /\ up[t].exists)'
        PROVE  (newest[up[t].path] \in {NoFile, dir[Target(up[t].path)]})'
    <3>1. t # s
      BY <2>2
    <3>2. up'[t] = up[t] /\ ~Ours(t, {"place", "restore"})
      BY <3>1, NoCommitType DEF Ours, Calls
    <3> QED BY <3>1, <3>2, <2>2, <1>4 DEF NewestInv, NewestAt, FoundAt
  <2>3. \A t \in Slot : /\ ~Ours(t, {"place", "restore"})' /\ ~Ours(t, {"clean", "aside"})'
                        /\ ~Ours(t, {"keep", "rename_bak", "drop"})'
    BY NoCommitType DEF Ours, Calls
  <2> QED BY <2>1, <2>2, <2>3 DEF NewestInv, NewestAt, FoundAt
<1> QED BY <1>1, <1>2, <1>3, <1>5, <1>7, <1>8, <1>9
LEMMA BeginStep ==
  ASSUME OwnFiles, IInv, NEW s \in Slot, NEW p \in Path, NEW overwrite \in BOOLEAN, NEW backup \in BOOLEAN,
         Begin(s, p, overwrite, backup)
  PROVE  IInv'
<1> USE UploadAssumption DEF IInv, SafeInv
<1>1. /\ wrote' = wrote /\ commit' = commit /\ mode' = mode /\ answers' = answers /\ ended' = ended
      /\ newest' = newest /\ stray' \subseteq Path /\ crashes' = crashes /\ modes' = modes
      /\ files < MaxFiles /\ p \in PathsOf[s] /\ commit = NoCommit /\ ~up[s].active
  BY DEF Begin, Idle, TypeOK
<1>2. /\ dir \in Directory /\ up \in [Slot -> Uploads] /\ files \in 0..MaxFiles /\ Temp(p) \in Names
      /\ newest \in [Path -> File \cup {NoFile}]
      /\ \A t \in Slot : up[t].path \in Path /\ up[t].id \in File \cup {NoFile}
  BY TypeParts, NamesDiffer DEF Uploads
<1>3. files + 1 \in File
  BY <1>1, <1>2 DEF File
<1>4. \A t \in Slot : ~Ours(t, Calls)' /\ ~Ours(t, Calls)
  BY <1>1, NoCommitType DEF Ours
<1>5. CommitInv'
  BY <1>4 DEF CommitInv, CommitAt
<1>6. ASSUME NEW t \in Slot \ {s}, up[t].active
      PROVE  up[t].path # p /\ dir[Temp(up[t].path)] = up[t].id
  BY <1>1, <1>2, <1>6, <1>4 DEF RunningInv, RunningAt, OwnFiles, Ours, Calls
<1>7. \A t \in Slot : /\ ~Ours(t, {"place", "restore"})' /\ ~Ours(t, {"clean", "aside"})'
                      /\ ~Ours(t, {"keep", "rename_bak", "drop"})'
                      /\ ~Ours(t, {"place", "restore"})
  BY <1>1, NoCommitType DEF Ours, Calls
<1>8. CASE /\ Failing(0) /\ files' = files + 1 /\ dir' = [dir EXCEPT ![Temp(p)] = files + 1]
           /\ up' = [up EXCEPT ![s] = [active |-> TRUE, discard |-> FALSE, id |-> files + 1, path |-> p,
                                       received |-> 0, backup |-> backup,
                                       exists |-> dir[Target(p)] # NoFile]]
  <2>1. faults' \in 0..MaxFaults /\ files' \in 0..MaxFiles
    BY <1>8, <1>1 DEF TypeOK, Failing
  <2>2. dir' \in Directory /\ dir'[Temp(p)] = files + 1 /\ \A m \in Names : m # Temp(p) => dir'[m] = dir[m]
    BY <1>2, <1>3, <1>8 DEF Directory
  <2>3. [active |-> TRUE, discard |-> FALSE, id |-> files + 1, path |-> p, received |-> 0,
         backup |-> backup, exists |-> dir[Target(p)] # NoFile] \in Uploads
    BY <1>3 DEF Uploads
  <2>4. /\ up' \in [Slot -> Uploads]
        /\ up'[s].active /\ up'[s].id = files + 1 /\ up'[s].path = p /\ up'[s].received = 0
        /\ up'[s].exists <=> dir[Target(p)] # NoFile
        /\ \A t \in Slot \ {s} : up'[t] = up[t]
    BY <1>2, <1>8, <2>3
  <2>5. TypeOK'
    BY <1>1, <2>1, <2>2, <2>4, TypeParts, TypePartsNext
  <2>6. FreshInv'
    <3>1. (\A f \in File : f > files => wrote[f] = [chunks |-> 0, garbled |-> FALSE, synced |-> FALSE])'
      BY <1>1, <1>2, <1>8 DEF FreshInv, File
    <3>2. \A n \in Names : dir'[n] <= files'
      BY <1>2, <1>8, <2>2 DEF FreshInv, Directory, NoFile, File
    <3>3. \A t \in Slot : up'[t].id <= files'
      BY <1>2, <1>8, <2>4 DEF FreshInv, NoFile, File
    <3> QED BY <3>1, <3>2, <3>3 DEF FreshInv
  <2>7. \A m \in Names : dir[m] # files + 1
    BY <1>2 DEF FreshInv
  <2>8. OneNameInv'
    BY <2>2, <2>7 DEF OneNameInv
  <2>9. KeptInv'
    BY <1>1, <2>2, NamesDiffer DEF KeptInv, KeptAt, Whole
  <2>10. RunningInv'
    <3>1. wrote[files + 1].chunks = 0
      BY <1>2, <1>3 DEF FreshInv
    <3>2. ASSUME NEW t \in Slot \ {s}, up[t].active
          PROVE  dir'[Temp(up[t].path)] = up[t].id
      BY <3>2, <1>2, <1>6, <2>2, NamesDiffer
    <3> QED BY <3>1, <3>2, <1>1, <1>3, <2>2, <2>4 DEF RunningInv, RunningAt, NoFile, File
  <2>11. NewestKept'
    BY <1>1, <2>2, NamesDiffer DEF NewestKept
  <2>12. \A q \in Path : dir'[Target(q)] = dir[Target(q)]
    BY <2>2, NamesDiffer
  <2>13. NewestInv'
    BY <1>1, <1>2, <1>7, <2>4, <2>12 DEF NewestInv, NewestAt, FoundAt
  <2> QED BY <2>5, <2>6, <2>8, <2>9, <2>10, <2>11, <2>13, <1>5
<1>9. CASE /\ Failing(1) /\ dir' = Removed(dir, Temp(p)) /\ up' = [up EXCEPT ![s] = NoUpload]
           /\ files' = files
  <2>1. faults' \in 0..MaxFaults /\ files' \in 0..MaxFiles
    BY <1>9 DEF TypeOK, Failing
  <2>2. dir' \in Directory /\ \A m \in Names : dir'[m] = IF m = Temp(p) THEN NoFile ELSE dir[m]
    BY <1>2, <1>9, RemovedProperties
  <2>3. /\ up' \in [Slot -> Uploads] /\ up'[s].active = FALSE /\ up'[s].id = NoFile
        /\ \A t \in Slot \ {s} : up'[t] = up[t]
    BY <1>2, <1>9, NoUploadType
  <2>4. TypeOK'
    BY <1>1, <2>1, <2>2, <2>3, TypeParts, TypePartsNext
  <2>5. FreshInv'
    BY <1>1, <1>2, <1>9, <2>2, <2>3 DEF FreshInv, NoFile
  <2>6. OneNameInv'
    BY <2>2 DEF OneNameInv
  <2>7. \A q \in Path : /\ dir'[Target(q)] = dir[Target(q)] /\ dir'[Old(q)] = dir[Old(q)]
                        /\ dir'[Bak(q)] = dir[Bak(q)]
    BY <2>2, NamesDiffer
  <2>8. KeptInv' /\ NewestKept'
    BY <1>1, <2>7 DEF KeptInv, KeptAt, Whole, NewestKept
  <2>9. RunningInv'
    BY <1>1, <1>2, <1>6, <2>2, <2>3, NamesDiffer DEF RunningInv, RunningAt
  <2>10. NewestInv'
    BY <1>1, <1>2, <1>7, <2>3, <2>7 DEF NewestInv, NewestAt, FoundAt
  <2> QED BY <2>4, <2>5, <2>6, <2>8, <2>9, <2>10, <1>5
<1> QED BY <1>8, <1>9 DEF Begin

\* An upload that ended is forgotten, or no longer remembered as failed.
LEMMA RestForgotten ==
  ASSUME OwnFiles, IInv, NEW s \in Slot, ~up[s].active, commit = NoCommit,
         dir' = dir, wrote' = wrote, commit' = commit, newest' = newest, files' = files,
         up' \in [Slot -> Uploads], up'[s].active = FALSE, up'[s].id \in {NoFile, up[s].id},
         \A t \in Slot \ {s} : up'[t] = up[t]
  PROVE  SafeInv'
<1> USE UploadAssumption DEF IInv, SafeInv
<1>1. files \in Nat
  BY TypeParts
<1>2. FreshInv'
  BY <1>1 DEF FreshInv, NoFile
<1>3. OneNameInv' /\ KeptInv' /\ NewestKept'
  BY DEF OneNameInv, KeptInv, KeptAt, Whole, NewestKept
<1>4. RunningInv' /\ CommitInv' /\ NewestInv'
  BY NoCommitType DEF RunningInv, RunningAt, CommitInv, CommitAt, NewestInv, NewestAt, FoundAt, Ours, Calls
<1> QED BY <1>2, <1>3, <1>4

LEMMA OtherRequestStep ==
  ASSUME OwnFiles, IInv, NEW s \in Slot, OtherRequest(s)
  PROVE  IInv'
<1>1. /\ ~up[s].active /\ commit = NoCommit /\ up' = [up EXCEPT ![s] = NoUpload]
      /\ UNCHANGED <<card, commit, mode, history, counters>>
  BY DEF OtherRequest, Idle
<1>2. TypeOK
  BY DEF IInv
<1>3. /\ up' \in [Slot -> Uploads] /\ up'[s].active = FALSE /\ up'[s].id = NoFile
      /\ \A t \in Slot \ {s} : up'[t] = up[t]
  BY <1>1, <1>2, NoUploadType, TypeParts
<1>4. TypeOK'
  BY <1>1, <1>2, <1>3, TypeParts, TypePartsNext DEF card, history, counters
<1>5. SafeInv'
  BY <1>1, <1>3, RestForgotten DEF card, history, counters
<1> QED BY <1>4, <1>5 DEF IInv
LEMMA DataStep ==
  ASSUME OwnFiles, IInv, NEW s \in Slot, NEW garbled \in BOOLEAN, Data(s, garbled)
  PROVE  IInv'
<1> USE UploadAssumption DEF IInv, SafeInv
<1> DEFINE f == up[s].id
<1>1. /\ commit = NoCommit /\ up[s].active /\ commit' = commit /\ mode' = mode /\ ended' = ended
      /\ newest' = newest /\ files' = files /\ crashes' = crashes /\ modes' = modes
  BY DEF Data, Idle
<1>2. /\ dir \in Directory /\ wrote \in Contents /\ up \in [Slot -> Uploads] /\ files \in 0..MaxFiles
      /\ \A t \in Slot : up[t].path \in Path /\ up[t].id \in File \cup {NoFile} /\ up[t].received \in 0..Chunks
  BY TypeParts DEF Uploads
<1>3. \A t \in Slot : ~Ours(t, Calls) /\ ~Ours(t, {"keep", "rename_bak", "drop"}) /\ ~Ours(t, {"place", "restore"})
                      /\ ~Ours(t, {"clean", "aside"})
  BY <1>1, NoCommitType DEF Ours, Calls
<1>4. f \in File /\ wrote[f].chunks = up[s].received /\ dir[Temp(up[s].path)] = f /\ f <= files
  BY <1>1, <1>2, <1>3 DEF RunningInv, RunningAt, FreshInv
<1>5. CASE /\ Fits(s)
           /\ wrote' = [wrote EXCEPT ![f] = [chunks |-> @.chunks + 1, synced |-> @.synced,
                                             garbled |-> @.garbled \/ garbled]]
           /\ up' = [up EXCEPT ![s].received = @ + 1]
           /\ UNCHANGED <<dir, faults, answers, stray>>
  <2> HIDE DEF f
  <2> DEFINE w == [chunks |-> wrote[f].chunks + 1, garbled |-> wrote[f].garbled \/ garbled,
                   synced |-> wrote[f].synced]
             u == [up[s] EXCEPT !.received = @ + 1]
  <2>1. wrote[f].chunks < Chunks /\ wrote[f].chunks \in 0..Chunks
    BY <1>2, <1>4, <1>5 DEF Fits
  <2>2. w \in [chunks : 0..Chunks, garbled : BOOLEAN, synced : BOOLEAN]
    <3>1. wrote[f] \in [chunks : 0..Chunks, garbled : BOOLEAN, synced : BOOLEAN]
      BY <1>2, <1>4 DEF Contents
    <3>2. wrote[f].chunks + 1 \in 0..Chunks
      BY <2>1
    <3> QED BY <3>1, <3>2
  <2>3. wrote' = [wrote EXCEPT ![f] = w]
    BY <1>2, <1>4, <1>5
  <2>4. /\ u \in Uploads /\ u.received = up[s].received + 1 /\ u.active = up[s].active
        /\ u.id = up[s].id /\ u.path = up[s].path /\ u.exists = up[s].exists
    <3>1. up[s] \in Uploads /\ up[s].received + 1 \in 0..Chunks
      BY <1>2, <1>4, <2>1
    <3> QED BY <3>1 DEF Uploads
  <2>5. up' = [up EXCEPT ![s] = u]
    BY <1>2, <1>5
  <2>6. w.chunks = wrote[f].chunks + 1
    OBVIOUS
  <2> HIDE DEF w, u
  <2>7. wrote' \in Contents /\ wrote'[f] = w /\ \A g \in File \ {f} : wrote'[g] = wrote[g]
    BY <1>2, <1>4, <2>2, <2>3 DEF Contents
  <2>8. /\ up' \in [Slot -> Uploads] /\ up'[s] = u
        /\ \A t \in Slot \ {s} : up'[t] = up[t]
    BY <1>2, <2>4, <2>5
  <2>9. TypeOK'
    BY <1>1, <1>5, <2>7, <2>8, TypeParts, TypePartsNext
  <2>10. \A t \in Slot : /\ up'[t].active = up[t].active /\ up'[t].id = up[t].id
                         /\ up'[t].path = up[t].path /\ up'[t].exists = up[t].exists
    BY <2>8, <2>4
  <2>11. FreshInv'
    <3>1. (\A g \in File : g > files => wrote[g] = [chunks |-> 0, garbled |-> FALSE, synced |-> FALSE])'
      BY <1>1, <1>2, <1>4, <2>7 DEF FreshInv, File
    <3> QED BY <1>1, <1>5, <2>10, <3>1 DEF FreshInv
  <2>12. OneNameInv' /\ NewestKept' /\ NewestInv'
    BY <1>1, <1>3, <1>5, <2>10 DEF OneNameInv, NewestKept, NewestInv, NewestAt, FoundAt, Ours
  <2>13. \A p \in Path : \A n \in {Target(p), Old(p), Bak(p)} : dir[n] # f
    BY <1>2, <1>4, NamesDiffer DEF OneNameInv, NoFile, File
  <2>14. KeptInv'
    <3> SUFFICES ASSUME NEW p \in Path, NEW n \in {Target(p), Old(p), Bak(p)}, dir[n] # NoFile
                 PROVE  (Whole(dir[n]) /\ wrote[dir[n]].synced)'
      BY <1>5 DEF KeptInv, KeptAt
    <3>1. dir[n] \in File \ {f}
      BY <1>2, <2>13, NamesDiffer DEF Directory
    <3>2. wrote'[dir'[n]] = wrote[dir[n]]
      BY <3>1, <1>5, <2>7
    <3>3. Whole(dir[n]) /\ wrote[dir[n]].synced
      BY DEF KeptInv, KeptAt
    <3> QED BY <3>2, <3>3 DEF Whole
  <2>15. RunningInv'
    <3> SUFFICES ASSUME NEW t \in Slot, up[t].active
                 PROVE  /\ up[t].path \in PathsOf[t]
                        /\ up[t].id # NoFile
                        /\ wrote'[up[t].id].chunks = up'[t].received
                        /\ dir[Temp(up[t].path)] = up[t].id
      BY <1>5, <2>10 DEF RunningInv, RunningAt
    <3>1. /\ up[t].path \in PathsOf[t] /\ up[t].id # NoFile /\ wrote[up[t].id].chunks = up[t].received
          /\ dir[Temp(up[t].path)] = up[t].id
      BY <1>3 DEF RunningInv, RunningAt
    <3>2. CASE t = s
      BY <3>1, <3>2, <1>4, <2>4, <2>6, <2>7, <2>8 DEF f
    <3>3. CASE t # s
      <4>1. up[t].path # up[s].path
        BY <1>1, <3>1, <3>3 DEF RunningInv, RunningAt, OwnFiles
      <4>2. up[t].id \in File \ {f}
        BY <1>2, <1>4, <3>1, <4>1, NamesDiffer DEF OneNameInv
      <4> QED BY <3>1, <3>3, <4>2, <2>7, <2>8
    <3> QED BY <3>2, <3>3
  <2>16. CommitInv'
    BY <1>1, <1>3 DEF CommitInv, CommitAt, Ours
  <2> QED BY <2>9, <2>11, <2>12, <2>14, <2>15, <2>16
<1>6. ASSUME NEW n \in Nat, FailUpload(s, dir, n), DiscardRest(s), wrote' = wrote
      PROVE  IInv'
  <2>1. TypeOK'
    BY <1>1, <1>2, <1>6, FailUploadProperties, IgnoreRestProperties, TypeParts, TypePartsNext
  <2>2. SafeInv'
    <3> HIDE DEF IInv, SafeInv
    <3>1. TypeOK
      BY DEF IInv
    <3>2. /\ dir' \in Directory
          /\ \A m \in Names : m # Temp(up[s].path) => dir'[m] = dir[m]
          /\ dir'[Temp(up[s].path)] \in {NoFile, dir[Temp(up[s].path)]}
      BY <1>2, <1>6, <3>1, FailUploadProperties
    <3>3. /\ \A t \in Slot \ {s} : up'[t] = up[t]
          /\ up'[s].active = FALSE /\ up'[s].id = up[s].id
      BY <1>6, <3>1, IgnoreRestProperties
    <3> QED BY <1>1, <1>6, <3>2, <3>3, EndedUpload
  <2> QED BY <2>1, <2>2
<1> QED BY <1>5, <1>6 DEF Data

LEMMA EndStep ==
  ASSUME OwnFiles, IInv, NEW s \in Slot, End(s)
  PROVE  IInv'
<1> USE UploadAssumption DEF IInv, SafeInv
<1>1. /\ commit = NoCommit /\ up[s].id # NoFile /\ mode' = mode /\ ended' = ended \cup {up[s].id}
      /\ newest' = newest /\ files' = files /\ crashes' = crashes /\ modes' = modes
  BY DEF End, Idle
<1>2. /\ dir \in Directory /\ wrote \in Contents /\ up \in [Slot -> Uploads] /\ up[s] \in Uploads
      /\ up[s].id \in File
  BY <1>1, TypeParts DEF Uploads
<1>3. ended' \subseteq File
  BY <1>1, <1>2, TypeParts
<1>4. CASE /\ up[s].active /\ Complete(s) /\ commit' = [slot |-> s, call |-> "sync"]
           /\ UNCHANGED <<card, up, answers, stray, faults>>
  <2>1. dir' = dir /\ wrote' = wrote /\ up' = up
    BY <1>4 DEF card
  <2>2. commit' \in Commits
    BY <1>4 DEF Commits, Calls
  <2>3. TypeOK'
    BY <1>1, <1>3, <1>4, <2>1, <2>2, TypeParts, TypePartsNext
  <2>4. FreshInv' /\ OneNameInv' /\ KeptInv' /\ NewestKept'
    BY <1>1, <2>1 DEF FreshInv, OneNameInv, KeptInv, KeptAt, NewestKept, Whole
  <2>5. Whole(up[s].id)
    BY <1>1, <1>4, NoCommitType DEF Complete, Whole, RunningInv, RunningAt, Ours, Calls
  <2>6. \A t \in Slot : Ours(t, Calls)' => t = s
    BY <1>4 DEF Ours
  <2>7. CommitInv'
    BY <1>4, <2>1, <2>5, <2>6 DEF CommitInv, CommitAt, Whole
  <2>8. \A t \in Slot : /\ ~Ours(t, {"place", "restore"})' /\ ~Ours(t, {"clean", "aside"})'
                        /\ ~Ours(t, {"keep", "rename_bak", "drop"})'
                        /\ ~Ours(t, {"place", "restore"}) /\ ~Ours(t, {"keep", "rename_bak", "drop"})
    BY <1>1, <1>4, NoCommitType DEF Ours, Calls
  <2>9. RunningInv' /\ NewestInv'
    BY <1>1, <2>1, <2>8 DEF RunningInv, RunningAt, NewestInv, NewestAt, FoundAt
  <2> QED BY <2>3, <2>4, <2>7, <2>9
<1>5. CASE /\ up[s].active /\ FailUpload(s, dir, 0) /\ IgnoreRest(s) /\ UNCHANGED <<wrote, commit>>
  <2>1. TypeOK'
    BY <1>1, <1>2, <1>3, <1>5, FailUploadProperties, IgnoreRestProperties, TypeParts, TypePartsNext
  <2>2. SafeInv'
    <3> HIDE DEF IInv, SafeInv
    <3>1. TypeOK
      BY DEF IInv
    <3>2. /\ dir' \in Directory
          /\ \A m \in Names : m # Temp(up[s].path) => dir'[m] = dir[m]
          /\ dir'[Temp(up[s].path)] \in {NoFile, dir[Temp(up[s].path)]}
      BY <1>2, <1>5, <3>1, FailUploadProperties
    <3>3. /\ \A t \in Slot \ {s} : up'[t] = up[t]
          /\ up'[s].active = FALSE /\ up'[s].id = up[s].id
      BY <1>5, <3>1, IgnoreRestProperties
    <3> QED BY <1>1, <1>5, <3>2, <3>3, EndedUpload
  <2> QED BY <2>1, <2>2
<1>6. CASE /\ ~up[s].active /\ up' = [up EXCEPT ![s].discard = FALSE]
           /\ (UNCHANGED answers \/ Answer(s))
           /\ UNCHANGED <<card, commit, stray, faults>>
  <2>1. dir' = dir /\ wrote' = wrote
    BY <1>6 DEF card
  <2>2. answers' \in [File -> Nat]
    BY <1>6, AnswerType, TypeParts
  <2> DEFINE u == [up[s] EXCEPT !.discard = FALSE]
  <2>3. u \in Uploads /\ u.active = up[s].active /\ u.id = up[s].id
    BY <1>2 DEF Uploads
  <2>4. up' = [up EXCEPT ![s] = u]
    BY <1>2, <1>6
  <2> HIDE DEF u
  <2>5. /\ up' \in [Slot -> Uploads] /\ up'[s].active = up[s].active /\ up'[s].id = up[s].id
        /\ \A t \in Slot \ {s} : up'[t] = up[t]
    BY <1>2, <2>3, <2>4
  <2>6. up'[s].active = FALSE
    BY <2>5, <1>2, <1>6 DEF Uploads
  <2>7. TypeOK'
    BY <1>1, <1>3, <1>6, <2>1, <2>2, <2>5, TypeParts, TypePartsNext
  <2>8. SafeInv'
    BY <1>1, <1>6, <2>1, <2>5, <2>6, RestForgotten
  <2> QED BY <2>7, <2>8
<1> QED BY <1>4, <1>5, <1>6 DEF End

LEMMA DisconnectStep ==
  ASSUME OwnFiles, IInv, NEW s \in Slot, Disconnect(s)
  PROVE  IInv'
<1> USE UploadAssumption DEF IInv
<1>1. /\ commit = NoCommit /\ up' = [up EXCEPT ![s] = NoUpload]
      /\ UNCHANGED <<wrote, commit, mode, answers, ended, newest, files, crashes, modes>>
  BY DEF Disconnect, Idle
<1>2. /\ dir \in Directory /\ up \in [Slot -> Uploads] /\ up[s].path \in Path
  BY TypeParts DEF Uploads
<1>3. /\ up' \in [Slot -> Uploads] /\ up'[s].active = FALSE /\ up'[s].id = NoFile
      /\ \A t \in Slot \ {s} : up'[t] = up[t]
  BY <1>1, <1>2, NoUploadType
<1>4. CASE up[s].active /\ TempRemoved(up[s].path, dir, 0)
  <2>1. TypeOK'
    BY <1>1, <1>2, <1>3, <1>4, TempRemovedProperties, TypeParts, TypePartsNext
  <2>2. SafeInv'
    BY <1>1, <1>2, <1>3, <1>4, TempRemovedProperties, EndedUpload
  <2> QED BY <2>1, <2>2
<1>5. CASE ~up[s].active /\ UNCHANGED <<dir, stray, faults>>
  <2>1. TypeOK'
    BY <1>1, <1>3, <1>5, TypeParts, TypePartsNext
  <2>2. SafeInv'
    BY <1>1, <1>3, <1>5, RestForgotten
  <2> QED BY <2>1, <2>2
<1> QED BY <1>4, <1>5 DEF Disconnect-----------------------------------------------------------------------------
(***************************************************************************)
(* The calls of a commit.                                                  *)
(***************************************************************************)

\* What holds while the commit of connection s makes this call.
LEMMA CallFacts ==
  ASSUME OwnFiles, IInv, NEW s \in Slot, NEW call \in Calls, Call(s, call)
  PROVE  /\ commit.slot = s /\ commit.call = call
         /\ mode' = mode /\ ended' = ended /\ files' = files /\ crashes' = crashes /\ modes' = modes
         /\ TypeOK
         /\ dir \in Directory /\ wrote \in Contents /\ up \in [Slot -> Uploads]
         /\ newest \in [Path -> File \cup {NoFile}] /\ files \in Nat
         /\ up[s].path \in Path /\ up[s].path \in PathsOf[s] /\ up[s].active
         /\ up[s].id \in File
         /\ Whole(up[s].id)
         /\ call # "sync" => wrote[up[s].id].synced
         /\ call \notin {"keep", "rename_bak", "drop"} => dir[Temp(up[s].path)] = up[s].id
<1>1. /\ commit.slot = s /\ commit.call = call
      /\ mode' = mode /\ ended' = ended /\ files' = files /\ crashes' = crashes /\ modes' = modes
  BY DEF Call
<1>2. /\ TypeOK
      /\ dir \in Directory /\ wrote \in Contents /\ up \in [Slot -> Uploads]
      /\ newest \in [Path -> File \cup {NoFile}] /\ files \in Nat
      /\ up[s].path \in Path /\ up[s].id \in File \cup {NoFile}
  BY UploadAssumption, TypeParts DEF IInv, Uploads
<1>3. CommitAt(s) /\ RunningAt(s)
  BY DEF IInv, SafeInv, CommitInv, RunningInv
<1> QED BY <1>1, <1>2, <1>3 DEF CommitAt, RunningAt, Ours

LEMMA SyncedProperties ==
  ASSUME wrote \in Contents, NEW f \in File
  PROVE  /\ Synced(f) \in Contents
         /\ \A g \in File : /\ Synced(f)[g].chunks = wrote[g].chunks
                            /\ Synced(f)[g].garbled = wrote[g].garbled
                            /\ wrote[g].synced => Synced(f)[g].synced
                            /\ g # f => Synced(f)[g] = wrote[g]
         /\ Synced(f)[f].synced
<1> DEFINE w == [wrote[f] EXCEPT !.synced = TRUE]
<1>1. /\ w \in [chunks : 0..Chunks, garbled : BOOLEAN, synced : BOOLEAN]
      /\ w.chunks = wrote[f].chunks /\ w.garbled = wrote[f].garbled /\ w.synced
  BY DEF Contents
<1>2. Synced(f) = [wrote EXCEPT ![f] = w]
  BY DEF Synced, Contents
<1> HIDE DEF w
<1> QED BY <1>1, <1>2 DEF Contents

\* A call of a commit, or its end, concerns the names of one path only: what is
\* left to show is what becomes of that path and of that connection.
LEMMA OnePathChanges ==
  ASSUME OwnFiles, IInv, NEW s \in Slot, NEW call \in Calls, Call(s, call),
         NEW p \in Path, p = up[s].path,
         dir' \in Directory,
         \A m \in Names \ {Target(p), Temp(p), Old(p), Bak(p)} : dir'[m] = dir[m],
         \A m \in Names : dir'[m] = NoFile \/ \E n \in Names : dir'[m] = dir[n],
         OneNameInv',
         wrote' = wrote \/ wrote' = Synced(up[s].id),
         \A t \in Slot \ {s} : up'[t] = up[t],
         up'[s].id = up[s].id, up'[s].path = p,
         commit' = NoCommit \/ commit'.slot = s,
         \A q \in Path \ {p} : newest'[q] = newest[q],
         KeptAt(p)', RunningAt(s)', CommitAt(s)', NewestAt(s)', FoundAt(p)',
         newest'[p] # NoFile => newest'[p] \in {dir'[Target(p)], dir'[Old(p)]}
  PROVE  SafeInv'
<1> USE UploadAssumption
<1>1. /\ commit.slot = s /\ commit.call = call /\ files' = files
      /\ dir \in Directory /\ wrote \in Contents /\ up \in [Slot -> Uploads]
      /\ files \in Nat /\ p \in PathsOf[s] /\ up[s].active /\ up[s].id \in File
      /\ \A t \in Slot : up[t].path \in Path /\ up[t].id \in File \cup {NoFile}
      /\ dir[Temp(p)] = up[s].id \/ call \in {"keep", "rename_bak", "drop"}
  BY CallFacts, TypeParts DEF IInv, Uploads
<1>2. /\ FreshInv /\ OneNameInv /\ KeptInv /\ RunningInv /\ CommitInv /\ NewestInv /\ NewestKept
  BY DEF IInv, SafeInv
<1>3. /\ wrote' \in Contents
      /\ \A f \in File : /\ wrote'[f].chunks = wrote[f].chunks /\ wrote'[f].garbled = wrote[f].garbled
                         /\ wrote[f].synced => wrote'[f].synced
                         /\ f # up[s].id => wrote'[f] = wrote[f]
  BY <1>1, SyncedProperties
<1>4. \A f \in File : Whole(f) => Whole(f)'
  BY <1>3 DEF Whole
<1>5. FreshInv'
  <2>1. up[s].id <= files
    BY <1>2 DEF FreshInv
  <2>2. \A f \in File : f > files => wrote'[f] = [chunks |-> 0, garbled |-> FALSE, synced |-> FALSE]
    BY <1>1, <1>2, <1>3, <2>1 DEF FreshInv, File
  <2>3. \A m \in Names : dir'[m] <= files
    BY <1>1, <1>2 DEF FreshInv, NoFile
  <2>4. \A t \in Slot : up'[t].id <= files
    BY <1>2 DEF FreshInv
  <2> QED BY <1>1, <2>2, <2>3, <2>4 DEF FreshInv
<1>6. ASSUME NEW q \in Path \ {p}
      PROVE  /\ dir'[Target(q)] = dir[Target(q)] /\ dir'[Temp(q)] = dir[Temp(q)]
             /\ dir'[Old(q)] = dir[Old(q)] /\ dir'[Bak(q)] = dir[Bak(q)]
  BY NamesDiffer
<1>7. KeptInv'
  <2> SUFFICES ASSUME NEW q \in Path \ {p}, NEW n \in {Target(q), Old(q), Bak(q)}, dir'[n] # NoFile
               PROVE  (Whole(dir[n]) /\ wrote[dir[n]].synced)'
    BY DEF KeptInv, KeptAt
  <2>1. dir'[n] = dir[n] /\ dir[n] \in File
    BY <1>1, <1>6, NamesDiffer DEF Directory
  <2>2. Whole(dir[n]) /\ wrote[dir[n]].synced
    BY <1>2, <2>1 DEF KeptInv, KeptAt
  <2>3. Whole(dir[n])'
    BY <2>1, <2>2, <1>3 DEF Whole
  <2> QED BY <2>1, <2>2, <2>3, <1>3
<1>8. ASSUME NEW t \in Slot \ {s}
      PROVE  /\ up'[t] = up[t]
             /\ ~Ours(t, Calls) /\ ~Ours(t, {"keep", "rename_bak", "drop"})
             /\ ~Ours(t, {"place", "restore"}) /\ ~Ours(t, {"clean", "aside"})
             /\ ~Ours(t, Calls)' /\ ~Ours(t, {"keep", "rename_bak", "drop"})'
             /\ ~Ours(t, {"place", "restore"})' /\ ~Ours(t, {"clean", "aside"})'
             /\ up[t].active => up[t].path \in Path \ {p}
  BY <1>1, <1>2, NoCommitType DEF Ours, Calls, OwnFiles, RunningInv, RunningAt
<1>9. RunningInv'
  <2> SUFFICES ASSUME NEW t \in Slot \ {s}, up[t].active
               PROVE  /\ up[t].path \in PathsOf[t]
                      /\ up[t].id # NoFile
                      /\ wrote'[up[t].id].chunks = up[t].received
                      /\ dir'[Temp(up[t].path)] = up[t].id
    BY <1>8 DEF RunningInv, RunningAt
  <2> QED BY <1>1, <1>2, <1>3, <1>6, <1>8 DEF RunningInv, RunningAt
<1>10. CommitInv'
  BY <1>8 DEF CommitInv, CommitAt
<1>11. NewestInv'
  BY <1>2, <1>6, <1>8 DEF NewestInv, NewestAt, FoundAt
<1>12. NewestKept'
  BY <1>2, <1>6 DEF NewestKept
<1> QED BY <1>5, <1>7, <1>9, <1>10, <1>11, <1>12 DEF SafeInv
\* A commit that fails before it has touched the target.
LEMMA CommitFails ==
  ASSUME OwnFiles, IInv, NEW s \in Slot, NEW call \in {"sync", "aside", "probe"}, Call(s, call),
         NEW n \in Nat, Fail(s, dir, n), wrote' = wrote
  PROVE  IInv'
<1>1. call \in Calls
  BY DEF Calls
<1>2. /\ commit.slot = s /\ commit.call = call
      /\ mode' = mode /\ ended' = ended /\ files' = files /\ crashes' = crashes /\ modes' = modes
      /\ TypeOK /\ dir \in Directory /\ up[s].active
  BY <1>1, CallFacts
<1>3. /\ dir' \in Directory /\ answers' \in [File -> Nat]
      /\ \A m \in Names : m # Temp(up[s].path) => dir'[m] = dir[m]
      /\ dir'[Temp(up[s].path)] \in {NoFile, dir[Temp(up[s].path)]}
      /\ faults' \in 0..MaxFaults /\ stray' \subseteq Path /\ up' \in [Slot -> Uploads]
      /\ \A t \in Slot \ {s} : up'[t] = up[t]
      /\ up'[s].active = FALSE /\ up'[s].id = up[s].id
      /\ commit' = NoCommit /\ newest' = newest
  BY <1>2, FailProperties
<1>4. TypeOK'
  <2>1. commit' \in Commits
    BY <1>3 DEF Commits
  <2> QED BY <1>2, <1>3, <2>1, TypeParts, TypePartsNext
<1>5. SafeInv'
  BY <1>2, <1>3, EndedUpload
<1> QED BY <1>4, <1>5 DEF IInv

\* A commit that goes on to its next call.
LEMMA CommitProceeds ==
  ASSUME OwnFiles, IInv, NEW s \in Slot, NEW call \in Calls, Call(s, call),
         NEW next \in Calls, Proceed(s, next), NEW n \in Nat, Failing(n),
         dir' \in Directory, wrote' \in Contents, newest' \in [Path -> File \cup {NoFile}]
  PROVE  /\ TypeOK'
         /\ up' = up /\ commit'.slot = s /\ commit'.call = next
<1>1. /\ mode' = mode /\ ended' = ended /\ files' = files /\ crashes' = crashes /\ modes' = modes
      /\ TypeOK
  BY CallFacts
<1>2. commit' = [slot |-> s, call |-> next] /\ up' = up /\ answers' = answers /\ stray' = stray
  BY DEF Proceed, Then
<1>3. faults' \in 0..MaxFaults
  BY <1>1, UploadAssumption DEF TypeOK, Failing
<1>4. commit' \in Commits
  BY <1>2 DEF Commits
<1> QED BY <1>1, <1>2, <1>3, <1>4, TypeParts, TypePartsNext

LEMMA SyncStep ==
  ASSUME OwnFiles, IInv, NEW s \in Slot, Sync(s)
  PROVE  IInv'
<1> DEFINE p == up[s].path
           next == IF up[s].exists THEN "clean" ELSE "probe"
<1>1. Call(s, "sync") /\ "sync" \in Calls /\ next \in Calls
  BY DEF Sync, Calls
<1>2. /\ commit.slot = s /\ commit.call = "sync"
      /\ dir \in Directory /\ wrote \in Contents /\ newest \in [Path -> File \cup {NoFile}]
      /\ p \in Path /\ p \in PathsOf[s] /\ up[s].active /\ up[s].id \in File /\ Whole(up[s].id)
      /\ dir[Temp(p)] = up[s].id
  BY <1>1, CallFacts
<1>3. CASE Failing(0) /\ wrote' = Synced(up[s].id) /\ Proceed(s, next) /\ UNCHANGED <<dir, newest>>
  <2> HIDE DEF next
  <2>1. /\ wrote' \in Contents
        /\ \A g \in File : /\ wrote'[g].chunks = wrote[g].chunks /\ wrote'[g].garbled = wrote[g].garbled
                           /\ wrote[g].synced => wrote'[g].synced
        /\ wrote'[up[s].id].synced
    BY <1>2, <1>3, SyncedProperties
  <2>2. TypeOK' /\ up' = up /\ commit'.slot = s /\ commit'.call = next
    BY <1>1, <1>2, <1>3, <2>1, CommitProceeds
  <2>3. OneNameInv' /\ KeptAt(p)' /\ FoundAt(p)'
    <3>1. OneNameInv /\ KeptAt(p) /\ FoundAt(p)
      BY <1>2 DEF IInv, SafeInv, KeptInv, NewestInv
    <3>2. \A m \in {Target(p), Old(p), Bak(p)} : dir[m] \in File \cup {NoFile}
      BY <1>2, NamesDiffer DEF Directory
    <3>3. KeptAt(p)'
      BY <1>3, <2>1, <2>2, <3>1, <3>2 DEF KeptAt, Whole
    <3>4. OneNameInv'
      BY <1>3, <3>1 DEF OneNameInv
    <3>5. FoundAt(p)'
      BY <1>3, <2>2, <3>1 DEF FoundAt
    <3> QED BY <3>3, <3>4, <3>5
  <2>4. RunningAt(s)' /\ CommitAt(s)'
    <3>1. RunningAt(s)
      BY DEF IInv, SafeInv, RunningInv
    <3> QED BY <1>2, <1>3, <2>1, <2>2, <3>1 DEF RunningAt, CommitAt, Whole
  <2>5. NewestAt(s)'
    <3>1. NewestAt(s)
      BY DEF IInv, SafeInv, NewestInv
    <3> QED BY <1>2, <1>3, <2>2, <3>1 DEF NewestAt, Ours, next
  <2>6. newest[p] # NoFile => newest[p] \in {dir[Target(p)], dir[Old(p)]}
    BY <1>2 DEF IInv, SafeInv, NewestKept
  <2>7. SafeInv'
    BY <1>1, <1>2, <1>3, <2>2, <2>3, <2>4, <2>5, <2>6, OnePathChanges
  <2> QED BY <2>2, <2>7 DEF IInv
<1>4. CASE Fail(s, dir, 1) /\ UNCHANGED wrote
  BY <1>1, <1>4, CommitFails
<1> QED BY <1>3, <1>4 DEF Sync

LEMMA CleanStep ==
  ASSUME OwnFiles, IInv, NEW s \in Slot, Clean(s)
  PROVE  IInv'
<1> DEFINE p == up[s].path
<1>1. /\ Call(s, "clean") /\ "clean" \in Calls /\ "aside" \in Calls /\ Proceed(s, "aside")
      /\ wrote' = wrote /\ newest' = newest
      /\ Failing(0) \/ Failing(1)
      /\ dir' = Removed(dir, Old(p)) \/ dir' = dir
  BY DEF Clean, Calls
<1>2. /\ commit.slot = s /\ commit.call = "clean"
      /\ dir \in Directory /\ wrote \in Contents /\ newest \in [Path -> File \cup {NoFile}]
      /\ p \in Path /\ up[s].active /\ Whole(up[s].id) /\ wrote[up[s].id].synced
      /\ dir[Temp(p)] = up[s].id
  BY <1>1, CallFacts
<1>3. /\ dir' \in Directory
      /\ \A m \in Names : m # Old(p) => dir'[m] = dir[m]
      /\ dir'[Old(p)] \in {NoFile, dir[Old(p)]}
  <2>1. Old(p) \in Names
    BY <1>2, NamesDiffer
  <2> DEFINE r == Removed(dir, Old(p))
  <2>2. r \in Directory /\ \A m \in Names : r[m] = IF m = Old(p) THEN NoFile ELSE dir[m]
    BY <1>2, <2>1, RemovedProperties
  <2>3. dir' = r \/ dir' = dir
    BY <1>1
  <2> HIDE DEF r
  <2> QED BY <1>2, <2>1, <2>2, <2>3
<1>4. TypeOK' /\ up' = up /\ commit'.slot = s /\ commit'.call = "aside"
  BY <1>1, <1>2, <1>3, CommitProceeds
<1>5. OneNameInv /\ KeptAt(p) /\ RunningAt(s) /\ NewestAt(s) /\ FoundAt(p)
      /\ (newest[p] # NoFile => newest[p] \in {dir[Target(p)], dir[Old(p)]})
  BY <1>2 DEF IInv, SafeInv, KeptInv, RunningInv, NewestInv, NewestKept
<1>6. OneNameInv'
  BY <1>3, <1>5 DEF OneNameInv
<1>7. /\ dir'[Target(p)] = dir[Target(p)] /\ dir'[Temp(p)] = dir[Temp(p)] /\ dir'[Bak(p)] = dir[Bak(p)]
  BY <1>2, <1>3, NamesDiffer
<1>8. KeptAt(p)' /\ FoundAt(p)'
  BY <1>1, <1>3, <1>4, <1>5, <1>7 DEF KeptAt, FoundAt, Whole
<1>9. RunningAt(s)' /\ CommitAt(s)'
  BY <1>1, <1>2, <1>4, <1>5, <1>7 DEF RunningAt, CommitAt, Whole
<1>10. newest[p] \in {NoFile, dir[Target(p)]} /\ up[s].exists
  BY <1>2, <1>5 DEF NewestAt, Ours
<1>11. NewestAt(s)'
  BY <1>1, <1>4, <1>7, <1>10 DEF NewestAt, Ours
<1>12. SafeInv'
  BY <1>1, <1>2, <1>3, <1>4, <1>6, <1>7, <1>8, <1>9, <1>10, <1>11, OnePathChanges
<1> QED BY <1>4, <1>12 DEF IInv
LEMMA AsideStep ==
  ASSUME OwnFiles, IInv, NEW s \in Slot, Aside(s)
  PROVE  IInv'
<1> DEFINE p == up[s].path
<1>1. /\ Call(s, "aside") /\ "aside" \in Calls /\ "place" \in Calls /\ wrote' = wrote
  BY DEF Aside, Calls
<1>2. /\ commit.slot = s /\ commit.call = "aside"
      /\ dir \in Directory /\ wrote \in Contents /\ newest \in [Path -> File \cup {NoFile}]
      /\ p \in Path /\ up[s].active /\ Whole(up[s].id) /\ wrote[up[s].id].synced
      /\ dir[Temp(p)] = up[s].id
  BY <1>1, CallFacts
<1>3. CASE /\ dir[Target(p)] # NoFile /\ Failing(0) /\ dir' = SetAside(p)
           /\ Proceed(s, "place") /\ newest' = newest
  <2>1. /\ dir' \in Directory
        /\ \A m \in Names : dir'[m] = IF m = Target(p) THEN NoFile
                                      ELSE IF m = Old(p) THEN dir[Target(p)] ELSE dir[m]
    <3> DEFINE r == Renamed(dir, Target(p), Old(p))
    <3>1. Target(p) \in Names /\ Old(p) \in Names /\ Target(p) # Old(p)
      BY <1>2, NamesDiffer
    <3>2. r \in Directory /\ \A m \in Names : r[m] = IF m = Target(p) THEN NoFile
                                                     ELSE IF m = Old(p) THEN dir[Target(p)] ELSE dir[m]
      BY <1>2, <3>1, RenamedProperties
    <3>3. dir' = r
      BY <1>3 DEF SetAside
    <3> HIDE DEF r
    <3> QED BY <3>2, <3>3
  <2>2. TypeOK' /\ up' = up /\ commit'.slot = s /\ commit'.call = "place"
    BY <1>1, <1>2, <1>3, <2>1, CommitProceeds
  <2>3. OneNameInv /\ KeptAt(p) /\ RunningAt(s) /\ FoundAt(p)
    BY <1>2 DEF IInv, SafeInv, KeptInv, RunningInv, NewestInv
  <2>4. /\ dir'[Target(p)] = NoFile /\ dir'[Old(p)] = dir[Target(p)]
        /\ dir'[Temp(p)] = dir[Temp(p)] /\ dir'[Bak(p)] = dir[Bak(p)]
        /\ Target(p) \in Names
    BY <1>2, <2>1, NamesDiffer
  <2>5. OneNameInv'
    BY <2>1, <2>3, <2>4 DEF OneNameInv
  <2>6. KeptAt(p)' /\ FoundAt(p)'
    BY <1>1, <2>2, <2>3, <2>4 DEF KeptAt, FoundAt, Whole
  <2>7. RunningAt(s)' /\ CommitAt(s)'
    BY <1>1, <1>2, <2>2, <2>3, <2>4 DEF RunningAt, CommitAt, Whole
  <2>8. newest[p] = dir[Target(p)]
    BY <1>3, <2>3 DEF FoundAt
  <2>9. NewestAt(s)'
    BY <1>3, <2>2, <2>4, <2>8 DEF NewestAt, Ours
  <2>10. \A m \in Names : dir'[m] = NoFile \/ \E n \in Names : dir'[m] = dir[n]
    BY <2>1, <2>4
  <2>11. SafeInv'
    BY <1>1, <1>2, <1>3, <2>1, <2>2, <2>4, <2>5, <2>6, <2>7, <2>8, <2>9, <2>10, OnePathChanges
  <2> QED BY <2>2, <2>11 DEF IInv
<1>4. ASSUME NEW n \in Nat, Fail(s, dir, n)
      PROVE  IInv'
  BY <1>1, <1>4, CommitFails
<1> QED BY <1>1, <1>3, <1>4 DEF Aside

\* The temporary file of a verified upload takes the place of a target that is
\* not there.
LEMMA InPlaceProperties ==
  ASSUME OwnFiles, IInv, NEW s \in Slot, NEW call \in {"place", "probe"}, Call(s, call),
         NEW p \in Path, p = up[s].path, InPlace(p), dir[Target(p)] = NoFile
  PROVE  /\ dir' \in Directory /\ newest' \in [Path -> File \cup {NoFile}]
         /\ \A m \in Names : dir'[m] = IF m = Temp(p) THEN NoFile
                                       ELSE IF m = Target(p) THEN dir[Temp(p)] ELSE dir[m]
         /\ \A m \in Names : dir'[m] = NoFile \/ \E n \in Names : dir'[m] = dir[n]
         /\ dir'[Target(p)] = up[s].id /\ newest'[p] = up[s].id
         /\ dir'[Old(p)] = dir[Old(p)] /\ dir'[Bak(p)] = dir[Bak(p)]
         /\ \A q \in Path \ {p} : newest'[q] = newest[q]
         /\ OneNameInv'
         /\ wrote' = wrote => KeptAt(p)' /\ FoundAt(p)'
<1>1. call \in Calls
  BY DEF Calls
<1>2. /\ dir \in Directory /\ wrote \in Contents /\ newest \in [Path -> File \cup {NoFile}]
      /\ up[s].id \in File /\ Whole(up[s].id) /\ wrote[up[s].id].synced
      /\ dir[Temp(p)] = up[s].id
  BY <1>1, CallFacts
<1>3. /\ dir' \in Directory
      /\ \A m \in Names : dir'[m] = IF m = Temp(p) THEN NoFile
                                    ELSE IF m = Target(p) THEN dir[Temp(p)] ELSE dir[m]
  <2> DEFINE r == Renamed(dir, Temp(p), Target(p))
  <2>1. Target(p) \in Names /\ Temp(p) \in Names /\ Temp(p) # Target(p)
    BY NamesDiffer
  <2>2. r \in Directory /\ \A m \in Names : r[m] = IF m = Temp(p) THEN NoFile
                                                   ELSE IF m = Target(p) THEN dir[Temp(p)] ELSE dir[m]
    BY <1>2, <2>1, RenamedProperties
  <2>3. dir' = r
    BY DEF InPlace
  <2> HIDE DEF r
  <2> QED BY <2>2, <2>3
<1>4. newest' = [newest EXCEPT ![p] = up[s].id]
  BY <1>2 DEF InPlace
<1>5. /\ newest' \in [Path -> File \cup {NoFile}] /\ newest'[p] = up[s].id
      /\ \A q \in Path \ {p} : newest'[q] = newest[q]
  BY <1>2, <1>4
<1>6. /\ dir'[Target(p)] = up[s].id /\ dir'[Old(p)] = dir[Old(p)] /\ dir'[Bak(p)] = dir[Bak(p)]
      /\ Temp(p) \in Names
  BY <1>2, <1>3, NamesDiffer
<1>7. \A m \in Names : dir'[m] = NoFile \/ \E n \in Names : dir'[m] = dir[n]
  BY <1>3, <1>6
<1>8. OneNameInv /\ KeptAt(p)
  BY DEF IInv, SafeInv, KeptInv
<1>9. OneNameInv'
  BY <1>3, <1>6, <1>8 DEF OneNameInv
<1>10. ASSUME wrote' = wrote
       PROVE  KeptAt(p)' /\ FoundAt(p)'
  BY <1>2, <1>5, <1>6, <1>8, <1>10 DEF KeptAt, FoundAt, Whole
<1> QED BY <1>3, <1>5, <1>6, <1>7, <1>9, <1>10

LEMMA PlaceStep ==
  ASSUME OwnFiles, IInv, NEW s \in Slot, Place(s)
  PROVE  IInv'
<1>0. PICK p \in Path : p = up[s].path
  BY TypeParts DEF IInv, Uploads
<1> DEFINE next == IF up[s].backup THEN "keep" ELSE "drop"
<1>1. Call(s, "place") /\ "place" \in Calls /\ next \in Calls /\ "restore" \in Calls /\ wrote' = wrote
  BY DEF Place, Calls
<1>2. /\ commit.slot = s /\ commit.call = "place"
      /\ dir \in Directory /\ wrote \in Contents /\ newest \in [Path -> File \cup {NoFile}]
      /\ p \in Path /\ p \in PathsOf[s] /\ up[s].active /\ up[s].id \in File
      /\ Whole(up[s].id) /\ wrote[up[s].id].synced /\ dir[Temp(p)] = up[s].id
  BY <1>0, <1>1, CallFacts
<1>3. OneNameInv /\ KeptAt(p) /\ RunningAt(s) /\ NewestAt(s) /\ FoundAt(p)
  BY <1>0, <1>2 DEF IInv, SafeInv, KeptInv, RunningInv, NewestInv
<1>4. dir[Target(p)] = NoFile /\ newest[p] = dir[Old(p)]
  BY <1>0, <1>2, <1>3 DEF NewestAt, Ours
<1>5. CASE InPlace(p) /\ Failing(0) /\ Proceed(s, next)
  <2>1. /\ dir' \in Directory /\ newest' \in [Path -> File \cup {NoFile}]
        /\ \A m \in Names : dir'[m] = IF m = Temp(p) THEN NoFile
                                      ELSE IF m = Target(p) THEN dir[Temp(p)] ELSE dir[m]
        /\ \A m \in Names : dir'[m] = NoFile \/ \E n \in Names : dir'[m] = dir[n]
        /\ dir'[Target(p)] = up[s].id /\ newest'[p] = up[s].id
        /\ \A q \in Path \ {p} : newest'[q] = newest[q]
        /\ OneNameInv' /\ KeptAt(p)' /\ FoundAt(p)'
    BY <1>0, <1>1, <1>4, <1>5, InPlaceProperties
  <2>2. TypeOK' /\ up' = up /\ commit'.slot = s /\ commit'.call = next
    <3> HIDE DEF next
    <3> QED BY <1>0, <1>1, <1>2, <1>5, <2>1, CommitProceeds
  <2>3. Ours(s, {"keep", "rename_bak", "drop"})' /\ ~Ours(s, {"place", "restore"})'
        /\ ~Ours(s, {"clean", "aside"})'
    BY <2>2 DEF Ours
  <2>4. RunningAt(s)' /\ CommitAt(s)'
    BY <1>0, <1>1, <1>2, <1>3, <2>2, <2>3 DEF RunningAt, CommitAt, Whole
  <2>5. NewestAt(s)'
    BY <1>0, <2>1, <2>2, <2>3 DEF NewestAt
  <2>6. SafeInv'
    <3> HIDE DEF next
    <3> QED BY <1>0, <1>1, <1>2, <2>1, <2>2, <2>4, <2>5, OnePathChanges
  <2> QED BY <2>2, <2>6 DEF IInv
<1>6. ASSUME NEW n \in Nat, Failing(n), Proceed(s, "restore"), UNCHANGED <<dir, newest>>
      PROVE  IInv'
  <2>1. TypeOK' /\ up' = up /\ commit'.slot = s /\ commit'.call = "restore"
    BY <1>1, <1>2, <1>6, CommitProceeds
  <2>2. OneNameInv' /\ KeptAt(p)' /\ FoundAt(p)'
    BY <1>1, <1>3, <1>6, <2>1 DEF OneNameInv, KeptAt, FoundAt, Whole
  <2>3. RunningAt(s)' /\ CommitAt(s)'
    BY <1>0, <1>1, <1>2, <1>3, <1>6, <2>1 DEF RunningAt, CommitAt, Whole
  <2>4. NewestAt(s)'
    BY <1>0, <1>4, <1>6, <2>1 DEF NewestAt, Ours
  <2>5. SafeInv'
    BY <1>0, <1>1, <1>2, <1>4, <1>6, <2>1, <2>2, <2>3, <2>4, OnePathChanges
  <2> QED BY <2>1, <2>5 DEF IInv
<1> QED BY <1>0, <1>5, <1>6 DEF Place
\* A connection whose upload has ended promises nothing.
LEMMA NothingPromised ==
  ASSUME NEW s \in Slot, up'[s].active = FALSE, commit' = NoCommit
  PROVE  RunningAt(s)' /\ CommitAt(s)' /\ NewestAt(s)'
BY NoCommitType DEF RunningAt, CommitAt, NewestAt, Ours, Calls

LEMMA RestoreStep ==
  ASSUME OwnFiles, IInv, NEW s \in Slot, Restore(s)
  PROVE  IInv'
<1>0. PICK p \in Path : p = up[s].path
  BY TypeParts DEF IInv, Uploads
<1>1. Call(s, "restore") /\ "restore" \in Calls /\ wrote' = wrote
  BY DEF Restore, Calls
<1>2. /\ commit.slot = s /\ commit.call = "restore"
      /\ mode' = mode /\ ended' = ended /\ files' = files /\ crashes' = crashes /\ modes' = modes
      /\ TypeOK /\ dir \in Directory /\ wrote \in Contents /\ newest \in [Path -> File \cup {NoFile}]
  BY <1>1, CallFacts
<1>3. OneNameInv /\ KeptAt(p) /\ NewestAt(s) /\ FoundAt(p)
  BY <1>2 DEF IInv, SafeInv, KeptInv, NewestInv
<1>4. dir[Target(p)] = NoFile /\ newest[p] = dir[Old(p)]
  BY <1>0, <1>2, <1>3 DEF NewestAt, Ours
<1>5. /\ Target(p) \in Names /\ Old(p) \in Names /\ Temp(p) \in Names /\ Bak(p) \in Names
      /\ Target(p) # Old(p) /\ Target(p) # Bak(p) /\ Target(p) # Temp(p)
      /\ Old(p) # Bak(p) /\ Temp(p) # Old(p) /\ Temp(p) # Bak(p)
  BY NamesDiffer
<1>6. ASSUME NEW d \in Directory, NEW failed \in Nat, Fail(s, d, failed),
             \/ d = dir
             \/ \A m \in Names : d[m] = IF m = Old(p) THEN NoFile
                                        ELSE IF m = Target(p) THEN dir[Old(p)] ELSE dir[m]
      PROVE  IInv'
  <2>1. /\ dir' \in Directory /\ answers' \in [File -> Nat]
        /\ \A m \in Names : m # Temp(p) => dir'[m] = d[m]
        /\ dir'[Temp(p)] \in {NoFile, d[Temp(p)]}
        /\ faults' \in 0..MaxFaults /\ stray' \subseteq Path /\ up' \in [Slot -> Uploads]
        /\ \A t \in Slot \ {s} : up'[t] = up[t]
        /\ up'[s].active = FALSE /\ up'[s].id = up[s].id /\ up'[s].path = up[s].path
        /\ commit' = NoCommit /\ newest' = newest
    BY <1>0, <1>2, <1>6, FailProperties
  <2>2. TypeOK'
    <3>1. commit' \in Commits
      BY <2>1 DEF Commits
    <3> QED BY <1>1, <1>2, <2>1, <3>1, TypeParts, TypePartsNext
  <2>3. OneNameInv'
    <3>1. \A m, n \in Names : d[m] = d[n] /\ d[m] # NoFile => m = n
      BY <1>3, <1>5, <1>6 DEF OneNameInv
    <3> QED BY <2>1, <3>1 DEF OneNameInv
  <2>4. \/ dir'[Target(p)] = NoFile /\ dir'[Old(p)] = dir[Old(p)]
        \/ dir'[Target(p)] = dir[Old(p)] /\ dir'[Old(p)] = NoFile
    BY <1>4, <1>5, <1>6, <2>1
  <2>5. dir'[Bak(p)] = dir[Bak(p)]
    BY <1>5, <1>6, <2>1
  <2>6. KeptAt(p)' /\ FoundAt(p)'
    BY <1>1, <1>3, <1>4, <2>1, <2>4, <2>5 DEF KeptAt, FoundAt, Whole
  <2>7. \A m \in Names : dir'[m] = NoFile \/ \E n \in Names : dir'[m] = dir[n]
    BY <1>5, <1>6, <2>1
  <2>8. \A m \in Names \ {Target(p), Temp(p), Old(p), Bak(p)} : dir'[m] = dir[m]
    BY <1>6, <2>1
  <2>9. RunningAt(s)' /\ CommitAt(s)' /\ NewestAt(s)'
    BY <2>1, NothingPromised
  <2>10. newest'[p] # NoFile => newest'[p] \in {dir'[Target(p)], dir'[Old(p)]}
    BY <1>4, <2>1, <2>4
  <2>11. SafeInv'
    BY <1>0, <1>1, <2>1, <2>3, <2>6, <2>7, <2>8, <2>9, <2>10, OnePathChanges
  <2> QED BY <2>2, <2>11 DEF IInv
<1>7. CASE Fail(s, dir, 1)
  BY <1>2, <1>6, <1>7
<1>8. CASE Fail(s, PutBack(up[s].path), 0)
  <2> DEFINE d == Renamed(dir, Old(p), Target(p))
  <2>1. /\ d \in Directory
        /\ \A m \in Names : d[m] = IF m = Old(p) THEN NoFile
                                   ELSE IF m = Target(p) THEN dir[Old(p)] ELSE dir[m]
    BY <1>2, <1>5, RenamedProperties
  <2>2. Fail(s, d, 0)
    BY <1>0, <1>8 DEF PutBack
  <2> HIDE DEF d
  <2> QED BY <1>6, <2>1, <2>2
<1> QED BY <1>7, <1>8 DEF Restore

\* After the new file is in place, the old one is moved or removed: neither the
\* target nor any other path is touched.
LEMMA OldFileGoes ==
  ASSUME OwnFiles, IInv, NEW s \in Slot, NEW call \in {"keep", "rename_bak", "drop"}, Call(s, call),
         NEW p \in Path, p = up[s].path,
         dir' \in {dir, Removed(dir, Old(p)), Removed(dir, Bak(p)), Renamed(dir, Old(p), Bak(p))}
  PROVE  /\ dir' \in Directory
         /\ \A m \in Names \ {Target(p), Temp(p), Old(p), Bak(p)} : dir'[m] = dir[m]
         /\ \A m \in Names : dir'[m] = NoFile \/ \E n \in Names : dir'[m] = dir[n]
         /\ OneNameInv'
         /\ dir'[Target(p)] = dir[Target(p)] /\ newest[p] = dir[Target(p)]
         /\ wrote' = wrote /\ newest' = newest => KeptAt(p)' /\ FoundAt(p)'
<1>1. call \in Calls
  BY DEF Calls
<1>2. commit.slot = s /\ commit.call = call /\ dir \in Directory
  BY <1>1, CallFacts
<1>3. OneNameInv /\ KeptAt(p) /\ NewestAt(s) /\ FoundAt(p)
  BY DEF IInv, SafeInv, KeptInv, NewestInv
<1>4. newest[p] = dir[Target(p)]
  BY <1>2, <1>3 DEF NewestAt, Ours
<1>5. /\ Target(p) \in Names /\ Old(p) \in Names /\ Temp(p) \in Names /\ Bak(p) \in Names
      /\ Target(p) # Old(p) /\ Target(p) # Bak(p) /\ Old(p) # Bak(p)
  BY NamesDiffer
<1>6. ASSUME NEW d \in Directory, NEW x \in {Old(p), Bak(p)},
             \/ \A m \in Names : d[m] = IF m = x THEN NoFile ELSE dir[m]
             \/ \A m \in Names : d[m] = IF m = Old(p) THEN NoFile ELSE IF m = Bak(p) THEN dir[Old(p)] ELSE dir[m]
      PROVE  /\ \A m \in Names \ {Target(p), Temp(p), Old(p), Bak(p)} : d[m] = dir[m]
             /\ \A m \in Names : d[m] = NoFile \/ \E n \in Names : d[m] = dir[n]
             /\ \A m, n \in Names : d[m] = d[n] /\ d[m] # NoFile => m = n
             /\ d[Target(p)] = dir[Target(p)]
             /\ d[Old(p)] \in {NoFile, dir[Old(p)]}
             /\ d[Bak(p)] \in {NoFile, dir[Old(p)], dir[Bak(p)]}
  BY <1>3, <1>5, <1>6 DEF OneNameInv
<1>7. /\ dir' \in Directory
      /\ \A m \in Names \ {Target(p), Temp(p), Old(p), Bak(p)} : dir'[m] = dir[m]
      /\ \A m \in Names : dir'[m] = NoFile \/ \E n \in Names : dir'[m] = dir[n]
      /\ \A m, n \in Names : dir'[m] = dir'[n] /\ dir'[m] # NoFile => m = n
      /\ dir'[Target(p)] = dir[Target(p)]
      /\ dir'[Old(p)] \in {NoFile, dir[Old(p)]}
      /\ dir'[Bak(p)] \in {NoFile, dir[Old(p)], dir[Bak(p)]}
  <2>1. CASE dir' = dir
    BY <1>2, <1>3, <2>1 DEF OneNameInv
  <2>2. ASSUME NEW d, dir' = d, d \in Directory, NEW x \in {Old(p), Bak(p)},
               \/ \A m \in Names : d[m] = IF m = x THEN NoFile ELSE dir[m]
               \/ \A m \in Names : d[m] = IF m = Old(p) THEN NoFile
                                          ELSE IF m = Bak(p) THEN dir[Old(p)] ELSE dir[m]
        PROVE  /\ dir' \in Directory
               /\ \A m \in Names \ {Target(p), Temp(p), Old(p), Bak(p)} : dir'[m] = dir[m]
               /\ \A m \in Names : dir'[m] = NoFile \/ \E n \in Names : dir'[m] = dir[n]
               /\ \A m, n \in Names : dir'[m] = dir'[n] /\ dir'[m] # NoFile => m = n
               /\ dir'[Target(p)] = dir[Target(p)]
               /\ dir'[Old(p)] \in {NoFile, dir[Old(p)]}
               /\ dir'[Bak(p)] \in {NoFile, dir[Old(p)], dir[Bak(p)]}
    BY <1>6, <2>2
  <2>3. Removed(dir, Old(p)) \in Directory
        /\ \A m \in Names : Removed(dir, Old(p))[m] = IF m = Old(p) THEN NoFile ELSE dir[m]
    BY <1>2, <1>5, RemovedProperties
  <2>4. Removed(dir, Bak(p)) \in Directory
        /\ \A m \in Names : Removed(dir, Bak(p))[m] = IF m = Bak(p) THEN NoFile ELSE dir[m]
    BY <1>2, <1>5, RemovedProperties
  <2>5. Renamed(dir, Old(p), Bak(p)) \in Directory
        /\ \A m \in Names : Renamed(dir, Old(p), Bak(p))[m] =
             IF m = Old(p) THEN NoFile ELSE IF m = Bak(p) THEN dir[Old(p)] ELSE dir[m]
    BY <1>2, <1>5, RenamedProperties
  <2>6. CASE dir' = Removed(dir, Old(p))
    BY <2>2, <2>3, <2>6
  <2>7. CASE dir' = Removed(dir, Bak(p))
    BY <2>2, <2>4, <2>7
  <2>8. CASE dir' = Renamed(dir, Old(p), Bak(p))
    BY <2>2, <2>5, <2>8
  <2> QED BY <2>1, <2>6, <2>7, <2>8
<1> QED BY <1>3, <1>4, <1>7 DEF KeptAt, FoundAt, Whole, OneNameInv
\* A commit that succeeds ends its upload.
LEMMA CommitSucceeds ==
  ASSUME OwnFiles, IInv, NEW s \in Slot, NEW call \in Calls, Call(s, call), Succeed(s),
         NEW n \in Nat, Failing(n),
         dir' \in Directory, wrote' \in Contents, newest' \in [Path -> File \cup {NoFile}]
  PROVE  /\ TypeOK'
         /\ \A t \in Slot \ {s} : up'[t] = up[t]
         /\ up'[s].active = FALSE /\ up'[s].id = up[s].id /\ up'[s].path = up[s].path
         /\ commit' = NoCommit
         /\ RunningAt(s)' /\ CommitAt(s)' /\ NewestAt(s)'
<1>1. /\ mode' = mode /\ ended' = ended /\ files' = files /\ crashes' = crashes /\ modes' = modes
      /\ TypeOK
  BY CallFacts
<1>2. /\ answers' \in [File -> Nat]
      /\ up' \in [Slot -> Uploads]
      /\ \A t \in Slot \ {s} : up'[t] = up[t]
      /\ up'[s].active = FALSE /\ up'[s].id = up[s].id /\ up'[s].path = up[s].path
      /\ commit' = NoCommit
      /\ stray' = stray
  BY <1>1, SucceedProperties
<1>3. faults' \in 0..MaxFaults /\ commit' \in Commits
  BY <1>1, <1>2, UploadAssumption DEF TypeOK, Failing, Commits
<1>4. TypeOK'
  BY <1>1, <1>2, <1>3, TypeParts, TypePartsNext
<1> QED BY <1>2, <1>4, NothingPromised

LEMMA OldFileProceeds ==
  ASSUME OwnFiles, IInv, NEW s \in Slot, NEW call \in {"keep", "rename_bak"}, Call(s, call),
         NEW next \in {"rename_bak", "drop"}, Proceed(s, next), NEW n \in Nat, Failing(n),
         dir' \in {dir, Removed(dir, Bak(up[s].path))}, wrote' = wrote, newest' = newest
  PROVE  IInv'
<1>0. PICK p \in Path : p = up[s].path
  BY TypeParts DEF IInv, Uploads
<1>1. call \in Calls /\ next \in Calls
  BY DEF Calls
<1>2. /\ commit.slot = s /\ commit.call = call
      /\ wrote \in Contents /\ newest \in [Path -> File \cup {NoFile}]
      /\ up[s].active /\ Whole(up[s].id) /\ wrote[up[s].id].synced
  BY <1>1, CallFacts
<1>3. /\ dir' \in Directory
      /\ \A m \in Names \ {Target(p), Temp(p), Old(p), Bak(p)} : dir'[m] = dir[m]
      /\ \A m \in Names : dir'[m] = NoFile \/ \E k \in Names : dir'[m] = dir[k]
      /\ OneNameInv'
      /\ dir'[Target(p)] = dir[Target(p)] /\ newest[p] = dir[Target(p)]
      /\ KeptAt(p)' /\ FoundAt(p)'
  <2>1. dir' \in {dir, Removed(dir, Old(p)), Removed(dir, Bak(p)), Renamed(dir, Old(p), Bak(p))}
    BY <1>0
  <2> QED BY <1>0, <2>1, OldFileGoes
<1>4. TypeOK' /\ up' = up /\ commit'.slot = s /\ commit'.call = next
  BY <1>1, <1>2, <1>3, CommitProceeds
<1>5. /\ Ours(s, {"keep", "rename_bak", "drop"})' /\ ~Ours(s, {"place", "restore"})'
      /\ ~Ours(s, {"clean", "aside"})'
  BY <1>4 DEF Ours
<1>6. RunningAt(s)' /\ CommitAt(s)'
  <2>1. RunningAt(s)
    BY DEF IInv, SafeInv, RunningInv
  <2> QED BY <1>2, <1>4, <1>5, <2>1 DEF RunningAt, CommitAt, Whole
<1>7. NewestAt(s)'
  BY <1>0, <1>3, <1>4, <1>5 DEF NewestAt
<1>8. SafeInv'
  BY <1>0, <1>1, <1>3, <1>4, <1>6, <1>7, OnePathChanges
<1> QED BY <1>4, <1>8 DEF IInv

LEMMA OldFileSettled ==
  ASSUME OwnFiles, IInv, NEW s \in Slot, NEW call \in {"rename_bak", "drop"}, Call(s, call),
         Succeed(s), NEW n \in Nat, Failing(n),
         dir' \in {dir, Removed(dir, Old(up[s].path)), Renamed(dir, Old(up[s].path), Bak(up[s].path))},
         wrote' = wrote, newest' = newest
  PROVE  IInv'
<1>0. PICK p \in Path : p = up[s].path
  BY TypeParts DEF IInv, Uploads
<1>1. call \in Calls
  BY DEF Calls
<1>2. wrote \in Contents /\ newest \in [Path -> File \cup {NoFile}]
  BY <1>1, CallFacts
<1>3. /\ dir' \in Directory
      /\ \A m \in Names \ {Target(p), Temp(p), Old(p), Bak(p)} : dir'[m] = dir[m]
      /\ \A m \in Names : dir'[m] = NoFile \/ \E k \in Names : dir'[m] = dir[k]
      /\ OneNameInv'
      /\ dir'[Target(p)] = dir[Target(p)] /\ newest[p] = dir[Target(p)]
      /\ KeptAt(p)' /\ FoundAt(p)'
  <2>1. dir' \in {dir, Removed(dir, Old(p)), Removed(dir, Bak(p)), Renamed(dir, Old(p), Bak(p))}
    BY <1>0
  <2> QED BY <1>0, <2>1, OldFileGoes
<1>4. /\ TypeOK'
      /\ \A t \in Slot \ {s} : up'[t] = up[t]
      /\ up'[s].id = up[s].id /\ up'[s].path = up[s].path
      /\ commit' = NoCommit
      /\ RunningAt(s)' /\ CommitAt(s)' /\ NewestAt(s)'
  BY <1>1, <1>2, <1>3, CommitSucceeds
<1>5. SafeInv'
  BY <1>0, <1>1, <1>3, <1>4, OnePathChanges
<1> QED BY <1>4, <1>5 DEF IInv

LEMMA KeepStep ==
  ASSUME OwnFiles, IInv, NEW s \in Slot, Keep(s)
  PROVE  IInv'
<1>1. /\ Call(s, "keep") /\ Proceed(s, "rename_bak") /\ wrote' = wrote /\ newest' = newest
      /\ dir' \in {dir, Removed(dir, Bak(up[s].path))}
      /\ Failing(0) \/ Failing(1)
  BY DEF Keep
<1> QED BY <1>1, OldFileProceeds

LEMMA RenameBakStep ==
  ASSUME OwnFiles, IInv, NEW s \in Slot, RenameBak(s)
  PROVE  IInv'
<1>1. Call(s, "rename_bak") /\ wrote' = wrote /\ newest' = newest
  BY DEF RenameBak
<1>2. CASE Failing(0) /\ dir' = Renamed(dir, Old(up[s].path), Bak(up[s].path)) /\ Succeed(s)
  BY <1>1, <1>2, OldFileSettled
<1>3. CASE Failing(1) /\ Proceed(s, "drop") /\ dir' = dir
  BY <1>1, <1>3, OldFileProceeds
<1> QED BY <1>2, <1>3 DEF RenameBak

LEMMA DropStep ==
  ASSUME OwnFiles, IInv, NEW s \in Slot, Drop(s)
  PROVE  IInv'
<1>1. /\ Call(s, "drop") /\ Succeed(s) /\ wrote' = wrote /\ newest' = newest
      /\ dir' \in {dir, Removed(dir, Old(up[s].path))}
      /\ Failing(0) \/ Failing(1)
  BY DEF Drop
<1> QED BY <1>1, OldFileSettled

LEMMA SettleStep ==
  ASSUME OwnFiles, IInv, NEW s \in Slot, Settle(s)
  PROVE  IInv'
<1>0. PICK p \in Path : p = up[s].path
  BY TypeParts DEF IInv, Uploads
<1>1. Call(s, "probe") /\ "probe" \in Calls /\ wrote' = wrote
  BY DEF Settle, Calls
<1>2. wrote \in Contents /\ newest \in [Path -> File \cup {NoFile}]
  BY <1>1, CallFacts
<1>3. CASE ~Appeared(up[s].path) /\ InPlace(up[s].path) /\ Failing(0) /\ Succeed(s)
  <2>1. InPlace(p) /\ dir[Target(p)] = NoFile
    BY <1>0, <1>3 DEF Appeared
  <2>2. /\ dir' \in Directory /\ newest' \in [Path -> File \cup {NoFile}]
        /\ \A m \in Names : dir'[m] = IF m = Temp(p) THEN NoFile
                                      ELSE IF m = Target(p) THEN dir[Temp(p)] ELSE dir[m]
        /\ \A m \in Names : dir'[m] = NoFile \/ \E n \in Names : dir'[m] = dir[n]
        /\ dir'[Target(p)] = up[s].id /\ newest'[p] = up[s].id
        /\ \A q \in Path \ {p} : newest'[q] = newest[q]
        /\ OneNameInv' /\ KeptAt(p)' /\ FoundAt(p)'
    BY <1>0, <1>1, <2>1, InPlaceProperties
  <2>3. /\ TypeOK'
        /\ \A t \in Slot \ {s} : up'[t] = up[t]
        /\ up'[s].id = up[s].id /\ up'[s].path = up[s].path
        /\ commit' = NoCommit
        /\ RunningAt(s)' /\ CommitAt(s)' /\ NewestAt(s)'
    BY <1>1, <1>2, <1>3, <2>2, CommitSucceeds
  <2>4. SafeInv'
    BY <1>0, <1>1, <2>2, <2>3, OnePathChanges
  <2> QED BY <2>3, <2>4 DEF IInv
<1>4. ASSUME NEW n \in Nat, Fail(s, dir, n)
      PROVE  IInv'
  BY <1>1, <1>4, CommitFails
<1> QED BY <1>1, <1>3, <1>4 DEF Settle-----------------------------------------------------------------------------
(***************************************************************************)
(* Everything else that happens to the card.                               *)
(***************************************************************************)

\* No commit runs: no connection is at any of its calls.
LEMMA IdleFacts ==
  ASSUME commit = NoCommit, NEW t \in Slot
  PROVE  /\ ~Ours(t, Calls) /\ ~Ours(t, {"keep", "rename_bak", "drop"})
         /\ ~Ours(t, {"place", "restore"}) /\ ~Ours(t, {"clean", "aside"})
BY NoCommitType DEF Ours, Calls

LEMMA MoveAwayStep ==
  ASSUME OwnFiles, IInv, NEW p \in Path, MoveAway(p)
  PROVE  IInv'
<1> USE UploadAssumption DEF IInv, SafeInv
<1>1. /\ commit = NoCommit /\ dir' = Removed(dir, Target(p)) /\ newest' = [newest EXCEPT ![p] = NoFile]
      /\ UNCHANGED <<wrote, up, commit, mode, answers, ended, stray, counters>>
  BY DEF MoveAway, Idle
<1>2. /\ dir \in Directory /\ wrote \in Contents /\ up \in [Slot -> Uploads]
      /\ newest \in [Path -> File \cup {NoFile}] /\ files \in Nat
      /\ \A t \in Slot : up[t].path \in Path
      /\ Target(p) \in Names
  BY TypeParts, NamesDiffer DEF Uploads
<1>3. dir' \in Directory /\ \A m \in Names : dir'[m] = IF m = Target(p) THEN NoFile ELSE dir[m]
  BY <1>1, <1>2, RemovedProperties
<1>4. newest' \in [Path -> File \cup {NoFile}] /\ \A q \in Path : newest'[q] = IF q = p THEN NoFile ELSE newest[q]
  BY <1>1, <1>2
<1>5. TypeOK'
  BY <1>1, <1>3, <1>4, TypeParts, TypePartsNext DEF counters
<1>6. /\ wrote' = wrote /\ up' = up /\ commit' = NoCommit /\ files' = files
  BY <1>1 DEF counters
<1>7. FreshInv'
  BY <1>2, <1>3, <1>6 DEF FreshInv, NoFile
<1>8. OneNameInv'
  BY <1>3 DEF OneNameInv
<1>9. \A q \in Path : /\ dir'[Target(q)] = (IF q = p THEN NoFile ELSE dir[Target(q)])
                      /\ dir'[Old(q)] = dir[Old(q)] /\ dir'[Bak(q)] = dir[Bak(q)]
                      /\ dir'[Temp(q)] = dir[Temp(q)]
  BY <1>3, NamesDiffer
<1>10. KeptInv' /\ NewestKept'
  BY <1>4, <1>6, <1>9 DEF KeptInv, KeptAt, Whole, NewestKept
<1>11. RunningInv'
  BY <1>1, <1>2, <1>6, <1>9 DEF RunningInv, RunningAt, Ours
<1>12. CommitInv'
  BY <1>6, NoCommitType DEF CommitInv, CommitAt, Ours
<1>13. NewestInv'
  <2>1. \A t \in Slot : /\ ~Ours(t, {"place", "restore"})' /\ ~Ours(t, {"clean", "aside"})'
                        /\ ~Ours(t, {"keep", "rename_bak", "drop"})' /\ ~Ours(t, {"place", "restore"})
    BY <1>1, <1>6, NoCommitType DEF Ours
  <2> QED BY <1>2, <1>4, <1>6, <1>9, <2>1 DEF NewestInv, NewestAt, FoundAt
<1> QED BY <1>5, <1>7, <1>8, <1>10, <1>11, <1>12, <1>13

LEMMA MoveInStep ==
  ASSUME OwnFiles, IInv, NEW p \in Path, MoveIn(p)
  PROVE  IInv'
<1> USE UploadAssumption DEF IInv, SafeInv
<1> DEFINE f == files + 1
           moved == [chunks |-> Chunks, garbled |-> FALSE, synced |-> TRUE]
<1>1. /\ commit = NoCommit /\ dir[Target(p)] = NoFile /\ files < MaxFiles /\ files' = f
      /\ dir' = [dir EXCEPT ![Target(p)] = f]
      /\ wrote' = [wrote EXCEPT ![f] = moved]
      /\ newest' = [newest EXCEPT ![p] = f]
      /\ UNCHANGED <<up, commit, mode, answers, ended, stray, crashes, faults, modes>>
  BY DEF MoveIn, Idle
<1>2. /\ dir \in Directory /\ wrote \in Contents /\ up \in [Slot -> Uploads]
      /\ newest \in [Path -> File \cup {NoFile}] /\ files \in 0..MaxFiles /\ files \in Nat
      /\ \A t \in Slot : up[t].path \in Path /\ up[t].id \in File \cup {NoFile}
      /\ Target(p) \in Names
  BY TypeParts, NamesDiffer DEF Uploads
<1>3. f \in File /\ f # NoFile /\ f \in 0..MaxFiles
  BY <1>1, <1>2 DEF File, NoFile
<1>4. moved \in [chunks : 0..Chunks, garbled : BOOLEAN, synced : BOOLEAN]
  OBVIOUS
<1>5. /\ \A m \in Names : dir[m] # f
      /\ \A t \in Slot : up[t].id # f
  BY <1>2 DEF FreshInv
<1> HIDE DEF f, moved
<1>6. dir' \in Directory /\ \A m \in Names : dir'[m] = IF m = Target(p) THEN f ELSE dir[m]
  BY <1>1, <1>2, <1>3 DEF Directory
<1>7. wrote' \in Contents /\ wrote'[f] = moved /\ \A g \in File \ {f} : wrote'[g] = wrote[g]
  BY <1>1, <1>2, <1>3, <1>4 DEF Contents
<1>8. newest' \in [Path -> File \cup {NoFile}] /\ \A q \in Path : newest'[q] = IF q = p THEN f ELSE newest[q]
  BY <1>1, <1>2, <1>3
<1>9. TypeOK'
  BY <1>1, <1>3, <1>6, <1>7, <1>8, TypeParts, TypePartsNext
<1>10. FreshInv'
  <2>1. f = files + 1
    BY DEF f
  <2>2. \A g \in File : g > f => wrote'[g] = [chunks |-> 0, garbled |-> FALSE, synced |-> FALSE]
    BY <1>2, <1>7, <2>1 DEF FreshInv, File
  <2>3. \A m \in Names : dir'[m] <= f
    BY <1>2, <1>6, <2>1 DEF FreshInv, Directory, NoFile, File
  <2>4. \A t \in Slot : up[t].id <= f
    BY <1>2, <2>1 DEF FreshInv, NoFile, File
  <2> QED BY <1>1, <2>2, <2>3, <2>4 DEF FreshInv
<1>11. OneNameInv'
  BY <1>5, <1>6 DEF OneNameInv
<1>12. \A q \in Path : /\ dir'[Target(q)] = (IF q = p THEN f ELSE dir[Target(q)])
                       /\ dir'[Old(q)] = dir[Old(q)] /\ dir'[Bak(q)] = dir[Bak(q)]
                       /\ dir'[Temp(q)] = dir[Temp(q)]
  BY <1>6, NamesDiffer
<1>13. KeptInv'
  <2> SUFFICES ASSUME NEW q \in Path, NEW n \in {Target(q), Old(q), Bak(q)}, dir'[n] # NoFile
               PROVE  (Whole(dir[n]) /\ wrote[dir[n]].synced)'
    BY DEF KeptInv, KeptAt
  <2>1. n \in Names
    BY NamesDiffer
  <2>2. CASE n = Target(p)
    <3>1. dir'[n] = f
      BY <1>6, <2>1, <2>2
    <3>2. wrote'[f].chunks = Chunks /\ ~wrote'[f].garbled /\ wrote'[f].synced
      BY <1>7 DEF moved
    <3> QED BY <3>1, <3>2 DEF Whole
  <2>3. CASE n # Target(p)
    <3>1. dir'[n] = dir[n] /\ dir[n] \in File \ {f}
      BY <1>2, <1>5, <1>6, <2>1, <2>3 DEF Directory
    <3>2. Whole(dir[n]) /\ wrote[dir[n]].synced
      BY <3>1 DEF KeptInv, KeptAt
    <3>3. wrote'[dir'[n]] = wrote[dir[n]]
      BY <1>7, <3>1
    <3> QED BY <3>2, <3>3 DEF Whole
  <2> QED BY <2>2, <2>3
<1>14. NewestKept'
  BY <1>8, <1>12 DEF NewestKept
<1>15. RunningInv'
  <2> SUFFICES ASSUME NEW t \in Slot, up[t].active
               PROVE  /\ up[t].path \in PathsOf[t]
                      /\ up[t].id # NoFile
                      /\ wrote'[up[t].id].chunks = up[t].received
                      /\ dir'[Temp(up[t].path)] = up[t].id
    BY <1>1 DEF RunningInv, RunningAt
  <2>1. /\ up[t].path \in PathsOf[t] /\ up[t].id # NoFile
        /\ wrote[up[t].id].chunks = up[t].received /\ dir[Temp(up[t].path)] = up[t].id
    BY <1>1, IdleFacts DEF RunningInv, RunningAt
  <2>2. up[t].id \in File \ {f}
    BY <1>2, <1>5, <2>1
  <2> QED BY <1>2, <1>7, <1>12, <2>1, <2>2
<1>16. CommitInv'
  BY <1>1, NoCommitType DEF CommitInv, CommitAt, Ours
<1>17. NewestInv'
  <2>1. \A t \in Slot : /\ ~Ours(t, {"place", "restore"})' /\ ~Ours(t, {"clean", "aside"})'
                        /\ ~Ours(t, {"keep", "rename_bak", "drop"})' /\ ~Ours(t, {"place", "restore"})
    BY <1>1, NoCommitType DEF Ours
  <2> QED BY <1>1, <1>2, <1>8, <1>12, <2>1 DEF NewestInv, NewestAt, FoundAt
<1> QED BY <1>9, <1>10, <1>11, <1>13, <1>14, <1>15, <1>16, <1>17

\* However many temporary files go at once, they can be counted.
LEMMA SomeTempsCounted ==
  ASSUME NEW aborted \in SUBSET Slot, NEW kept \in SUBSET {Temp(up[s].path) : s \in aborted}
  PROVE  Cardinality(kept) \in Nat
<1> DEFINE names == {Temp(up[s].path) : s \in aborted}
           named == [s \in aborted |-> Temp(up[s].path)]
<1>1. IsFiniteSet(aborted)
  BY UploadAssumption, FS_Subset
<1>2. named \in Surjection(aborted, names)
  BY DEF Surjection
<1> HIDE DEF named
<1>3. IsFiniteSet(names)
  BY <1>1, <1>2, FS_Surjection
<1>4. IsFiniteSet(kept)
  BY <1>3, FS_Subset
<1> QED BY <1>4, FS_CardinalityType

LEMMA SwitchModeStep ==
  ASSUME OwnFiles, IInv, SwitchMode
  PROVE  IInv'
<1> USE UploadAssumption DEF IInv, SafeInv
<1> DEFINE aborted == {s \in Slot : mode # "READ_ONLY" /\ up[s].active}
           names == {Temp(up[s].path) : s \in aborted}
           temps == {t \in names : dir[t] # NoFile}
<1>0. /\ commit = NoCommit /\ modes < MaxModes /\ modes' = modes + 1
      /\ mode' \in {"READ_ONLY", "DEVELOPMENT"}
      /\ wrote' = wrote /\ commit' = commit /\ answers' = answers /\ ended' = ended
      /\ newest' = newest /\ files' = files /\ crashes' = crashes
  BY DEF SwitchMode, Idle
<1>1. /\ up' = [s \in Slot |-> IF s \in aborted THEN Over(up[s], TRUE) ELSE up[s]]
  BY DEF SwitchMode
<1>2. PICK kept \in SUBSET temps :
        /\ Failing(Cardinality(kept))
        /\ dir' = [n \in Names |-> IF n \in temps \ kept THEN NoFile ELSE dir[n]]
        /\ stray' = stray \cup {t.path : t \in kept}
  BY DEF SwitchMode
<1>3. /\ dir \in Directory /\ up \in [Slot -> Uploads] /\ files \in Nat
      /\ \A s \in Slot : up[s] \in Uploads /\ up[s].path \in Path
      /\ TypeOK
  BY TypeParts DEF Uploads
<1>4. names \subseteq Names
  BY <1>3, NamesDiffer
<1>5. Cardinality(kept) \in Nat
  BY SomeTempsCounted
<1>6. /\ dir' \in Directory
      /\ \A m \in Names : dir'[m] \in {NoFile, dir[m]}
      /\ \A m \in Names : m \notin names => dir'[m] = dir[m]
  BY <1>2, <1>3 DEF Directory
<1>7. stray' \subseteq Path
  <2>1. \A t \in kept : t.path \in Path
    BY <1>4 DEF Names
  <2> QED BY <1>2, <1>3, <2>1, TypeParts
<1>8. faults' \in 0..MaxFaults
  BY <1>2, <1>3, <1>5 DEF TypeOK, Failing
<1>10. /\ up' \in [Slot -> Uploads]
       /\ \A s \in Slot : up'[s].id = up[s].id /\ (s \notin aborted => up'[s] = up[s])
       /\ \A s \in aborted : up'[s].active = FALSE
  BY <1>1, <1>3, OverProperties
<1>11. TypeOK'
  <2>1. modes' \in 0..MaxModes
    BY <1>0, TypeParts
  <2> QED BY <1>0, <1>6, <1>7, <1>8, <1>10, <2>1, TypeParts, TypePartsNext
<1>12. FreshInv'
  BY <1>0, <1>3, <1>6, <1>10 DEF FreshInv, NoFile
<1>13. OneNameInv'
  BY <1>6 DEF OneNameInv
<1>14. \A q \in Path : /\ dir'[Target(q)] = dir[Target(q)] /\ dir'[Old(q)] = dir[Old(q)]
                       /\ dir'[Bak(q)] = dir[Bak(q)]
  BY <1>3, <1>6, NamesDiffer
<1>15. KeptInv' /\ NewestKept'
  BY <1>0, <1>14 DEF KeptInv, KeptAt, Whole, NewestKept
<1>16. \A t \in Slot : /\ ~Ours(t, Calls)' /\ ~Ours(t, {"keep", "rename_bak", "drop"})'
                       /\ ~Ours(t, {"place", "restore"})' /\ ~Ours(t, {"clean", "aside"})'
                       /\ ~Ours(t, {"place", "restore"}) /\ ~Ours(t, {"keep", "rename_bak", "drop"})
  BY <1>0, NoCommitType DEF Ours, Calls
<1>17. RunningInv'
  <2> SUFFICES ASSUME NEW t \in Slot, up'[t].active
               PROVE  /\ up[t].path \in PathsOf[t]
                      /\ up[t].id # NoFile
                      /\ wrote[up[t].id].chunks = up[t].received
                      /\ dir'[Temp(up[t].path)] = up[t].id
                      /\ up'[t] = up[t]
    BY <1>0 DEF RunningInv, RunningAt
  <2>1. t \notin aborted /\ up'[t] = up[t]
    BY <1>10
  <2>2. /\ up[t].path \in PathsOf[t] /\ up[t].id # NoFile
        /\ wrote[up[t].id].chunks = up[t].received /\ dir[Temp(up[t].path)] = up[t].id
    BY <1>16, <2>1 DEF RunningInv, RunningAt
  <2>3. Temp(up[t].path) \in Names /\ Temp(up[t].path) \notin names
    <3>1. \A s \in aborted : s # t /\ up[s].path \in PathsOf[s]
      BY <2>1, <1>16 DEF RunningInv, RunningAt
    <3>2. \A s \in aborted : up[s].path # up[t].path
      BY <2>2, <3>1 DEF OwnFiles
    <3> QED BY <1>3, <3>2, NamesDiffer
  <2> QED BY <1>6, <2>1, <2>2, <2>3
<1>18. CommitInv'
  BY <1>16 DEF CommitInv, CommitAt
<1>19. NewestInv'
  BY <1>0, <1>3, <1>10, <1>14, <1>16 DEF NewestInv, NewestAt, FoundAt
<1> QED BY <1>11, <1>12, <1>13, <1>15, <1>17, <1>18, <1>19

LEMMA CrashStep ==
  ASSUME OwnFiles, IInv, Crash
  PROVE  IInv'
<1> USE UploadAssumption DEF IInv, SafeInv
<1>1. /\ crashes < MaxCrashes /\ crashes' = crashes + 1
      /\ wrote' = [f \in File |-> IF wrote[f].synced THEN wrote[f] ELSE [wrote[f] EXCEPT !.chunks = 0]]
      /\ up' = [s \in Slot |-> NoUpload] /\ commit' = NoCommit
      /\ stray' = {p \in Path : dir[Temp(p)] # NoFile}
      /\ UNCHANGED <<dir, mode, answers, ended, newest, files, faults, modes>>
  BY DEF Crash
<1>2. dir \in Directory /\ wrote \in Contents /\ files \in Nat
  BY TypeParts
<1>3. ASSUME NEW w \in [chunks : 0..Chunks, garbled : BOOLEAN, synced : BOOLEAN]
      PROVE  /\ [w EXCEPT !.chunks = 0] \in [chunks : 0..Chunks, garbled : BOOLEAN, synced : BOOLEAN]
             /\ w = [chunks |-> 0, garbled |-> FALSE, synced |-> FALSE] => [w EXCEPT !.chunks = 0] = w
  OBVIOUS
<1>4. /\ wrote' \in Contents
      /\ \A f \in File : wrote[f].synced => wrote'[f] = wrote[f]
      /\ \A f \in File : wrote[f] = [chunks |-> 0, garbled |-> FALSE, synced |-> FALSE] => wrote'[f] = wrote[f]
  BY <1>1, <1>2, <1>3 DEF Contents
<1>5. TypeOK'
  <2>1. up' \in [Slot -> Uploads] /\ commit' \in Commits
    BY <1>1, NoUploadType DEF Commits
  <2>3. stray' \subseteq Path
    BY <1>1
  <2>4. crashes' \in 0..MaxCrashes
    BY <1>1 DEF TypeOK
  <2> QED BY <1>1, <1>4, <2>1, <2>3, <2>4, TypeParts, TypePartsNext
<1>6. FreshInv'
  BY <1>1, <1>2, <1>4, NoUploadType DEF FreshInv, NoFile
<1>7. OneNameInv' /\ NewestKept'
  BY <1>1 DEF OneNameInv, NewestKept
<1>8. KeptInv'
  <2> SUFFICES ASSUME NEW p \in Path, NEW n \in {Target(p), Old(p), Bak(p)}, dir[n] # NoFile
               PROVE  (Whole(dir[n]) /\ wrote[dir[n]].synced)'
    BY <1>1 DEF KeptInv, KeptAt
  <2>1. dir[n] \in File
    BY <1>2, NamesDiffer DEF Directory
  <2>2. Whole(dir[n]) /\ wrote[dir[n]].synced
    BY DEF KeptInv, KeptAt
  <2>3. wrote'[dir'[n]] = wrote[dir[n]]
    BY <1>1, <1>4, <2>1, <2>2
  <2> QED BY <2>2, <2>3 DEF Whole
<1>9. \A s \in Slot : RunningAt(s)' /\ CommitAt(s)' /\ NewestAt(s)'
  <2> SUFFICES ASSUME NEW s \in Slot
               PROVE  RunningAt(s)' /\ CommitAt(s)' /\ NewestAt(s)'
    OBVIOUS
  <2>1. up'[s].active = FALSE /\ commit' = NoCommit
    BY <1>1, NoUploadType
  <2> QED BY <2>1, NothingPromised
<1>10. \A p \in Path : FoundAt(p)'
  BY <1>1 DEF NewestInv, FoundAt
<1> QED BY <1>5, <1>6, <1>7, <1>8, <1>9, <1>10 DEF RunningInv, CommitInv, NewestInv
-----------------------------------------------------------------------------
(***************************************************************************)
(* Every step preserves the invariant.                                     *)
(***************************************************************************)

LEMMA StepInv == OwnFiles /\ IInv /\ [Next]_vars => IInv'
<1> SUFFICES ASSUME OwnFiles, IInv, [Next]_vars PROVE IInv'
  OBVIOUS
<1>1. ASSUME NEW s \in Slot, NEW p \in Path, NEW overwrite \in BOOLEAN, NEW backup \in BOOLEAN,
             Begin(s, p, overwrite, backup)
      PROVE  IInv'
  BY <1>1, BeginStep
<1>2. ASSUME NEW s \in Slot, NEW garbled \in BOOLEAN, Data(s, garbled)
      PROVE  IInv'
  BY <1>2, DataStep
<1>3. ASSUME NEW s \in Slot, OtherRequest(s) \/ End(s) \/ Disconnect(s)
      PROVE  IInv'
  BY <1>3, OtherRequestStep, EndStep, DisconnectStep
<1>4. ASSUME NEW s \in Slot, Commit(s)
      PROVE  IInv'
  BY <1>4, SyncStep, CleanStep, AsideStep, PlaceStep, RestoreStep, KeepStep, RenameBakStep, DropStep,
     SettleStep DEF Commit
<1>5. ASSUME NEW p \in Moved, MoveAway(p) \/ MoveIn(p)
      PROVE  IInv'
  BY <1>5, UploadAssumption, MoveAwayStep, MoveInStep
<1>6. CASE SwitchMode
  BY <1>6, SwitchModeStep
<1>7. CASE Crash
  BY <1>7, CrashStep
<1>8. CASE UNCHANGED vars
  <2>1. /\ dir' = dir /\ wrote' = wrote /\ up' = up /\ commit' = commit /\ mode' = mode /\ files' = files
        /\ answers' = answers /\ ended' = ended /\ newest' = newest /\ stray' = stray
        /\ crashes' = crashes /\ faults' = faults /\ modes' = modes
    BY <1>8 DEF vars, card, history, counters
  <2>2. TypeOK'
    BY <2>1 DEF IInv, TypeOK
  <2>3. SafeInv'
    BY <2>1 DEF IInv, SafeInv, FreshInv, OneNameInv, KeptInv, KeptAt, RunningInv, RunningAt, CommitInv,
       CommitAt, NewestInv, NewestAt, FoundAt, NewestKept, Whole, Ours
  <2> QED BY <2>2, <2>3 DEF IInv
<1> QED BY <1>1, <1>2, <1>3, <1>4, <1>5, <1>6, <1>7, <1>8 DEF Next
-----------------------------------------------------------------------------
(***************************************************************************)
(* No step replaces a file in place.                                       *)
(***************************************************************************)

\* What one step may do to the file under a path: leave it, or take it away.
Spared(p) == dir[Target(p)] # NoFile => dir'[Target(p)] \in {dir[Target(p)], NoFile}

\* The temporary file of a failing upload is not the target of any path.
LEMMA TempRemovedSpares ==
  ASSUME TypeOK, NEW q \in Path, NEW n \in Nat, TempRemoved(q, dir, n)
  PROVE  \A p \in Path : Spared(p)
<1>1. dir \in Directory
  BY TypeParts
<1>2. \A m \in Names : m # Temp(q) => dir'[m] = dir[m]
  BY <1>1, TempRemovedProperties
<1> QED BY <1>2, NamesDiffer DEF Spared

LEMMA FailSpares ==
  ASSUME TypeOK, NEW s \in Slot, NEW n \in Nat, FailUpload(s, dir, n) \/ Fail(s, dir, n)
  PROVE  \A p \in Path : Spared(p)
<1>1. up[s].path \in Path
  BY TypeParts DEF Uploads
<1>2. TempRemoved(up[s].path, dir, n)
  BY DEF Fail, FailUpload
<1> QED BY <1>1, <1>2, TempRemovedSpares

\* Taking a name away spares every target, and so does moving a file to a name
\* that is no target, or to one under which nothing is.
LEMMA CallsSpare ==
  ASSUME dir \in Directory, NEW q \in Path,
         \/ \E n \in Names : dir' = Removed(dir, n)
         \/ dir' = Renamed(dir, Target(q), Old(q))
         \/ dir' = Renamed(dir, Old(q), Bak(q))
         \/ dir' = Renamed(dir, Temp(q), Target(q)) /\ dir[Target(q)] = NoFile
  PROVE  \A p \in Path : Spared(p)
<1> SUFFICES ASSUME NEW p \in Path PROVE Spared(p)
  OBVIOUS
<1>1. Target(p) \in Names
  BY NamesDiffer
<1>2. ASSUME NEW n \in Names, dir' = Removed(dir, n)
      PROVE  Spared(p)
  <2>1. dir'[Target(p)] = IF Target(p) = n THEN NoFile ELSE dir[Target(p)]
    BY <1>1, <1>2, RemovedProperties
  <2> QED BY <2>1 DEF Spared
<1>3. ASSUME NEW from \in Names, NEW to \in Names, from # to, dir' = Renamed(dir, from, to),
             to = Target(p) => dir[to] = NoFile
      PROVE  Spared(p)
  <2> DEFINE r == Renamed(dir, from, to)
  <2>1. \A m \in Names : r[m] = IF m = from THEN NoFile ELSE IF m = to THEN dir[from] ELSE dir[m]
    BY <1>3, RenamedProperties
  <2>2. dir' = r
    BY <1>3
  <2> HIDE DEF r
  <2> QED BY <1>1, <1>3, <2>1, <2>2 DEF Spared
<1>4. /\ {Target(q), Temp(q), Old(q), Bak(q)} \subseteq Names
      /\ Target(q) # Old(q) /\ Old(q) # Bak(q) /\ Temp(q) # Target(q)
      /\ Old(q) # Target(p) /\ Bak(q) # Target(p)
  BY NamesDiffer
<1> QED BY <1>2, <1>3, <1>4

\* The calls of a commit: the new file goes under a path only where the old one
\* was set aside, or none was found, and the old one is put back only there.
LEMMA CommitSpares ==
  ASSUME OwnFiles, IInv, NEW s \in Slot, Commit(s)
  PROVE  \A p \in Path : Spared(p)
<1>1. /\ TypeOK /\ dir \in Directory /\ NewestAt(s)
      /\ dir' = dir => \A p \in Path : Spared(p)
  BY TypeParts DEF IInv, SafeInv, NewestInv, Spared
<1>2. PICK q \in Path : q = up[s].path
  BY <1>1, TypeParts DEF Uploads
<1>3. {Target(q), Temp(q), Old(q), Bak(q)} \subseteq Names
  BY NamesDiffer
<1>4. CASE Sync(s)
  BY <1>1, <1>4, FailSpares DEF Sync
<1>5. CASE Clean(s)
  BY <1>1, <1>2, <1>3, <1>5, CallsSpare DEF Clean
<1>6. CASE Aside(s)
  <2>1. dir' = Renamed(dir, Target(q), Old(q)) \/ \E n \in {0, 1} : Fail(s, dir, n)
    BY <1>2, <1>6 DEF Aside, SetAside
  <2> QED BY <1>1, <2>1, CallsSpare, FailSpares
<1>7. CASE Place(s)
  <2>1. dir[Target(q)] = NoFile
    BY <1>1, <1>2, <1>7 DEF Place, Call, NewestAt, Ours
  <2>2. dir' = Renamed(dir, Temp(q), Target(q)) \/ dir' = dir
    BY <1>2, <1>7 DEF Place, InPlace
  <2> QED BY <1>1, <2>1, <2>2, CallsSpare
<1>8. CASE Restore(s)
  <2>1. dir[Target(q)] = NoFile
    BY <1>1, <1>2, <1>8 DEF Restore, Call, NewestAt, Ours
  <2>2. CASE Fail(s, PutBack(q), 0)
    <3> DEFINE d == Renamed(dir, Old(q), Target(q))
    <3>1. d \in Directory
          /\ \A m \in Names : d[m] = IF m = Old(q) THEN NoFile
                                     ELSE IF m = Target(q) THEN dir[Old(q)] ELSE dir[m]
      <4>1. Old(q) \in Names /\ Target(q) \in Names /\ Old(q) # Target(q)
        BY <1>3, NamesDiffer
      <4> QED BY <1>1, <4>1, RenamedProperties
    <3>2. Fail(s, d, 0)
      BY <2>2 DEF PutBack
    <3> HIDE DEF d
    <3>3. \A m \in Names : m # Temp(q) => dir'[m] = d[m]
      BY <1>1, <1>2, <3>1, <3>2, FailProperties
    <3>4. ASSUME NEW p \in Path \ {q}
          PROVE  dir'[Target(p)] = dir[Target(p)]
      BY <3>1, <3>3, NamesDiffer
    <3> QED BY <2>1, <3>4 DEF Spared
  <2>3. CASE Fail(s, dir, 1)
    BY <1>1, <2>3, FailSpares
  <2> QED BY <1>2, <1>8, <2>2, <2>3 DEF Restore
<1>9. CASE Keep(s)
  BY <1>1, <1>2, <1>3, <1>9, CallsSpare DEF Keep
<1>10. CASE RenameBak(s)
  BY <1>1, <1>2, <1>10, CallsSpare DEF RenameBak
<1>11. CASE Drop(s)
  BY <1>1, <1>2, <1>3, <1>11, CallsSpare DEF Drop
<1>12. CASE Settle(s)
  <2>1. \/ dir[Target(q)] = NoFile /\ dir' = Renamed(dir, Temp(q), Target(q))
        \/ \E n \in {0, 1} : Fail(s, dir, n)
    BY <1>2, <1>12 DEF Settle, Appeared, InPlace
  <2> QED BY <1>1, <2>1, CallsSpare, FailSpares
<1> QED BY <1>4, <1>5, <1>6, <1>7, <1>8, <1>9, <1>10, <1>11, <1>12 DEF Commit

LEMMA StepSpares == OwnFiles /\ IInv /\ [Next]_vars => \A p \in Path : Spared(p)
<1> SUFFICES ASSUME OwnFiles, IInv, [Next]_vars PROVE \A p \in Path : Spared(p)
  OBVIOUS
<1>0. /\ TypeOK /\ dir \in Directory
      /\ dir' = dir => \A p \in Path : Spared(p)
      /\ \A p \in Path : Target(p) \in Names /\ Temp(p) \in Names
  BY TypeParts, NamesDiffer DEF IInv, Spared
<1>1. ASSUME NEW s \in Slot, NEW q \in Path, NEW overwrite \in BOOLEAN, NEW backup \in BOOLEAN,
             Begin(s, q, overwrite, backup)
      PROVE  \A p \in Path : Spared(p)
  <2>1. dir' = [dir EXCEPT ![Temp(q)] = files + 1] \/ dir' = Removed(dir, Temp(q))
    BY <1>1 DEF Begin
  <2>2. \A p \in Path : dir'[Target(p)] = dir[Target(p)]
    BY <1>0, <2>1, NamesDiffer, RemovedProperties DEF Directory
  <2> QED BY <2>2 DEF Spared
<1>2. ASSUME NEW s \in Slot, NEW garbled \in BOOLEAN, Data(s, garbled)
      PROVE  \A p \in Path : Spared(p)
  BY <1>0, <1>2, FailSpares DEF Data
<1>3. ASSUME NEW s \in Slot, OtherRequest(s) \/ End(s) \/ Disconnect(s)
      PROVE  \A p \in Path : Spared(p)
  <2>1. up[s].path \in Path
    BY <1>0, TypeParts DEF Uploads
  <2>2. dir' = dir \/ FailUpload(s, dir, 0) \/ TempRemoved(up[s].path, dir, 0)
    BY <1>3 DEF OtherRequest, End, Disconnect, card
  <2> QED BY <1>0, <2>1, <2>2, FailSpares, TempRemovedSpares
<1>4. ASSUME NEW s \in Slot, Commit(s)
      PROVE  \A p \in Path : Spared(p)
  BY <1>4, CommitSpares
<1>5. ASSUME NEW q \in Moved, MoveAway(q) \/ MoveIn(q)
      PROVE  \A p \in Path : Spared(p)
  <2>1. q \in Path
    BY UploadAssumption
  <2>2. CASE MoveAway(q)
    BY <1>0, <2>1, <2>2, CallsSpare DEF MoveAway
  <2>3. CASE MoveIn(q)
    <3>1. dir[Target(q)] = NoFile /\ dir' = [dir EXCEPT ![Target(q)] = files + 1]
      BY <2>3 DEF MoveIn
    <3>2. \A p \in Path \ {q} : dir'[Target(p)] = dir[Target(p)]
      BY <1>0, <2>1, <3>1, NamesDiffer DEF Directory
    <3> QED BY <3>1, <3>2 DEF Spared
  <2> QED BY <1>5, <2>2, <2>3
<1>6. CASE SwitchMode
  <2>1. PICK gone : dir' = [n \in Names |-> IF n \in gone THEN NoFile ELSE dir[n]]
    BY <1>6 DEF SwitchMode
  <2> QED BY <1>0, <2>1 DEF Spared
<1>7. CASE Crash \/ UNCHANGED vars
  BY <1>0, <1>7 DEF Crash, vars, card
<1> QED BY <1>1, <1>2, <1>3, <1>4, <1>5, <1>6, <1>7 DEF Next
-----------------------------------------------------------------------------
(***************************************************************************)
(* Between two requests the last file put under a path is there.           *)
(***************************************************************************)

\* Unless the power went or two calls failed, a path lacks its last file only
\* while a commit may still put it back; and to have to is one failed call.
TargetInv ==
  /\ \A s \in Slot : Ours(s, {"restore"}) => faults > 0
  /\ crashes = 0 /\ faults < 2 =>
       \A p \in Path : \/ dir[Target(p)] = newest[p]
                       \/ \E s \in Slot : Ours(s, {"place", "restore"}) /\ up[s].path = p

\* Failed calls are counted.
LEMMA FaultsCounted ==
  ASSUME TypeOK, NEW n \in Nat, Failing(n) \/ \E q \in Path, d \in Directory : TempRemoved(q, d, n)
  PROVE  faults' \in Nat /\ faults' >= faults + n
<1>1. faults \in Nat
  BY UploadAssumption DEF TypeOK
<1>2. faults' = faults + n \/ faults' = faults + (n + 1)
  BY DEF TempRemoved, Failing
<1> QED BY <1>1, <1>2

\* A step that touches no target, outside the two calls with the target away.
LEMMA TargetsSame ==
  ASSUME TypeOK, TargetInv, \A p \in Path : dir'[Target(p)] = dir[Target(p)],
         newest' = newest, crashes' = crashes, faults' \in Nat, faults' >= faults,
         commit.call \notin {"place", "restore"}, commit'.call # "restore"
  PROVE  TargetInv'
<1>1. faults \in Nat
  BY UploadAssumption DEF TypeOK
<1> QED BY <1>1 DEF TargetInv, Ours

LEMMA TempRemovedTargets ==
  ASSUME TypeOK, TargetInv, NEW q \in Path, NEW n \in Nat, TempRemoved(q, dir, n),
         newest' = newest, crashes' = crashes,
         commit.call \notin {"place", "restore"}, commit'.call # "restore"
  PROVE  TargetInv'
<1>1. dir \in Directory
  BY TypeParts
<1>2. \A p \in Path : dir'[Target(p)] = dir[Target(p)]
  BY <1>1, TempRemovedProperties, NamesDiffer
<1>3. faults' \in Nat /\ faults' >= faults + n /\ faults \in Nat
  BY <1>1, FaultsCounted, UploadAssumption DEF TypeOK
<1> QED BY <1>2, <1>3, TargetsSame

LEMMA FailTargets ==
  ASSUME TypeOK, TargetInv, NEW s \in Slot, NEW n \in Nat, Fail(s, dir, n), crashes' = crashes,
         commit.call \notin {"place", "restore"}
  PROVE  TargetInv'
<1>1. up[s].path \in Path
  BY TypeParts DEF Uploads
<1>2. TempRemoved(up[s].path, dir, n) /\ newest' = newest /\ commit' = NoCommit
  BY DEF Fail, FailUpload
<1> QED BY <1>1, <1>2, NoCommitType, TempRemovedTargets

\* The new file comes under the path of the commit, and the commit goes on.
LEMMA InPlaceTargets ==
  ASSUME OwnFiles, IInv, TargetInv, NEW s \in Slot, NEW call \in {"place", "probe"}, Call(s, call),
         InPlace(up[s].path), dir[Target(up[s].path)] = NoFile, Failing(0),
         commit'.call \notin {"place", "restore"}
  PROVE  TargetInv'
<1> DEFINE p == up[s].path
<1>1. call \in Calls
  BY DEF Calls
<1>2. /\ commit.slot = s /\ crashes' = crashes /\ TypeOK /\ p \in Path /\ dir \in Directory
  BY <1>1, CallFacts
<1>3. /\ \A m \in Names : dir'[m] = IF m = Temp(p) THEN NoFile
                                    ELSE IF m = Target(p) THEN dir[Temp(p)] ELSE dir[m]
      /\ dir'[Target(p)] = up[s].id /\ newest'[p] = up[s].id
      /\ \A q \in Path \ {p} : newest'[q] = newest[q]
  BY <1>2, InPlaceProperties
<1>4. \A q \in Path \ {p} : dir'[Target(q)] = dir[Target(q)]
  BY <1>2, <1>3, NamesDiffer
<1>5. faults' = faults
  BY <1>2, UploadAssumption DEF Failing, TypeOK
<1>6. ASSUME NEW q \in Path, crashes = 0, faults < 2
      PROVE  dir'[Target(q)] = newest'[q]
  <2>1. CASE q = p
    BY <1>3, <2>1
  <2>2. CASE q # p
    BY <1>2, <1>3, <1>4, <1>6, <2>2 DEF TargetInv, Ours
  <2> QED BY <2>1, <2>2
<1> QED BY <1>2, <1>5, <1>6 DEF TargetInv, Ours

LEMMA CommitTargets ==
  ASSUME OwnFiles, IInv, TargetInv, NEW s \in Slot, Commit(s)
  PROVE  TargetInv'
<1> DEFINE p == up[s].path
<1>1. /\ TypeOK /\ dir \in Directory /\ p \in Path /\ faults \in Nat
      /\ {Target(p), Temp(p), Old(p), Bak(p)} \subseteq Names
      /\ NewestAt(s) /\ RunningAt(s) /\ CommitAt(s)
  BY UploadAssumption, TypeParts, NamesDiffer DEF IInv, SafeInv, NewestInv, RunningInv, CommitInv, Uploads
<1>2. ASSUME NEW call \in Calls, Call(s, call)
      PROVE  crashes' = crashes /\ commit.slot = s /\ commit.call = call /\ up[s].active
  BY <1>2, CallFacts
<1>3. CASE Sync(s)
  <2>1. Call(s, "sync") /\ "sync" \in Calls
    BY <1>3 DEF Sync, Calls
  <2>2. CASE Fail(s, dir, 1)
    BY <1>1, <1>2, <2>1, <2>2, FailTargets
  <2>3. CASE Failing(0) /\ Proceed(s, IF up[s].exists THEN "clean" ELSE "probe") /\ UNCHANGED <<dir, newest>>
    <3>1. commit'.call # "restore"
      BY <2>3 DEF Proceed, Then
    <3> QED BY <1>1, <1>2, <2>1, <2>3, <3>1, FaultsCounted, TargetsSame
  <2> QED BY <1>3, <2>2, <2>3 DEF Sync
<1>4. ASSUME Clean(s) \/ Keep(s) \/ RenameBak(s) \/ Drop(s)
      PROVE  TargetInv'
  <2>1. PICK call \in {"clean", "keep", "rename_bak", "drop"} : Call(s, call)
    BY <1>4 DEF Clean, Keep, RenameBak, Drop
  <2>2. \E n \in {0, 1} : Failing(n)
    BY <1>4 DEF Clean, Keep, RenameBak, Drop
  <2>3. commit'.call # "restore" /\ newest' = newest
    BY <1>4, NoCommitType DEF Clean, Keep, RenameBak, Drop, Proceed, Then, Succeed, Calls
  <2>4. \/ dir' = dir \/ dir' = Removed(dir, Old(p)) \/ dir' = Removed(dir, Bak(p))
        \/ dir' = Renamed(dir, Old(p), Bak(p))
    BY <1>4 DEF Clean, Keep, RenameBak, Drop
  <2>5. ASSUME NEW q \in Path
        PROVE  dir'[Target(q)] = dir[Target(q)]
    <3>1. Target(q) \in Names /\ Target(q) # Old(p) /\ Target(q) # Bak(p) /\ Old(p) # Bak(p)
      BY <1>1, NamesDiffer
    <3>2. \A n \in {Old(p), Bak(p)} : Removed(dir, n)[Target(q)] = dir[Target(q)]
      BY <1>1, <3>1, RemovedProperties
    <3>3. Renamed(dir, Old(p), Bak(p))[Target(q)] = dir[Target(q)]
      BY <1>1, <3>1, RenamedProperties
    <3> QED BY <2>4, <3>2, <3>3
  <2>6. call \in Calls /\ call \notin {"place", "restore"}
    BY DEF Calls
  <2>7. faults' \in Nat /\ faults' >= faults
    BY <1>1, <2>2, FaultsCounted
  <2> QED BY <1>1, <1>2, <2>1, <2>3, <2>5, <2>6, <2>7, TargetsSame
<1>5. CASE Aside(s)
  <2>1. Call(s, "aside") /\ "aside" \in Calls
    BY <1>5 DEF Aside, Calls
  <2>2. CASE dir' = SetAside(p) /\ Proceed(s, "place") /\ newest' = newest /\ Failing(0)
    <3>1. ASSUME NEW q \in Path \ {p}
          PROVE  dir'[Target(q)] = dir[Target(q)]
      <4>1. Target(q) \in Names /\ Target(q) # Old(p) /\ Target(q) # Target(p) /\ Target(p) # Old(p)
        BY <1>1, NamesDiffer
      <4>2. Renamed(dir, Target(p), Old(p))[Target(q)] = dir[Target(q)]
        BY <1>1, <4>1, RenamedProperties
      <4> QED BY <2>2, <4>2 DEF SetAside
    <3>2. commit'.slot = s /\ commit'.call = "place" /\ up' = up
      BY <2>2 DEF Proceed, Then
    <3>3. Ours(s, {"place", "restore"})' /\ \A t \in Slot : ~Ours(t, {"restore"})'
      BY <3>2 DEF Ours
    <3>4. crashes' = crashes /\ faults' = faults /\ \A t \in Slot : ~Ours(t, {"place", "restore"})
      BY <1>1, <1>2, <2>1, <2>2 DEF Ours, Failing
    <3>5. ASSUME NEW q \in Path, crashes = 0, faults < 2
          PROVE  dir'[Target(q)] = newest'[q] \/ q = p
      BY <2>2, <3>1, <3>4, <3>5 DEF TargetInv
    <3> QED BY <3>2, <3>3, <3>4, <3>5 DEF TargetInv
  <2>3. ASSUME NEW n \in {0, 1}, Fail(s, dir, n)
        PROVE  TargetInv'
    BY <1>1, <1>2, <2>1, <2>3, FailTargets
  <2> QED BY <1>5, <2>2, <2>3 DEF Aside
<1>6. CASE Place(s)
  <2>1. Call(s, "place") /\ "place" \in Calls
    BY <1>6 DEF Place, Calls
  <2>2. dir[Target(p)] = NoFile /\ dir[Temp(p)] # NoFile
    BY <1>1, <1>2, <2>1 DEF NewestAt, RunningAt, Ours
  <2>3. CASE InPlace(p) /\ Failing(0) /\ Proceed(s, IF up[s].backup THEN "keep" ELSE "drop")
    <3>1. commit'.call \notin {"place", "restore"}
      BY <2>3 DEF Proceed, Then
    <3> QED BY <2>1, <2>2, <2>3, <3>1, InPlaceTargets
  <2>4. CASE /\ Failing(IF dir[Temp(p)] = NoFile THEN 0 ELSE 1)
             /\ Proceed(s, "restore") /\ UNCHANGED <<dir, newest>>
    <3>1. faults' = faults + 1
      BY <2>2, <2>4 DEF Failing
    <3>2. commit'.slot = s /\ commit'.call = "restore" /\ up' = up
      BY <2>4 DEF Proceed, Then
    <3>3. crashes' = crashes /\ commit.slot = s
      BY <1>2, <2>1
    <3>4. \A t \in Slot : Ours(t, {"place", "restore"}) => Ours(t, {"place", "restore"})'
      BY <3>2, <3>3 DEF Ours
    <3> QED BY <1>1, <2>4, <3>1, <3>2, <3>3, <3>4 DEF TargetInv
  <2> QED BY <1>6, <2>3, <2>4 DEF Place
<1>7. CASE Restore(s)
  <2>1. Call(s, "restore") /\ "restore" \in Calls
    BY <1>7 DEF Restore, Calls
  <2>2. /\ crashes' = crashes /\ commit.slot = s /\ commit.call = "restore" /\ commit' = NoCommit
        /\ newest' = newest /\ newest[p] = dir[Old(p)] /\ faults > 0
    BY <1>1, <1>2, <1>7, <2>1 DEF Restore, Fail, NewestAt, Ours, TargetInv
  <2>3. \A t \in Slot : ~Ours(t, {"place", "restore"})' /\ ~Ours(t, {"restore"})'
    BY <2>2, NoCommitType DEF Ours, Calls
  <2>4. CASE Fail(s, PutBack(p), 0)
    <3> DEFINE d == Renamed(dir, Old(p), Target(p))
    <3>1. d \in Directory
          /\ \A m \in Names : d[m] = IF m = Old(p) THEN NoFile
                                     ELSE IF m = Target(p) THEN dir[Old(p)] ELSE dir[m]
      <4>1. Old(p) \in Names /\ Target(p) \in Names /\ Old(p) # Target(p)
        BY <1>1, NamesDiffer
      <4> QED BY <1>1, <4>1, RenamedProperties
    <3>2. Fail(s, d, 0)
      BY <2>4 DEF PutBack
    <3> HIDE DEF d
    <3>3. \A m \in Names : m # Temp(p) => dir'[m] = d[m]
      BY <1>1, <3>1, <3>2, FailProperties
    <3>4. faults' >= faults /\ faults' \in Nat
      BY <1>1, <3>1, <3>2, FaultsCounted DEF Fail, FailUpload
    <3>5. dir'[Target(p)] = newest'[p]
      BY <1>1, <2>2, <3>1, <3>3, NamesDiffer
    <3>6. \A q \in Path \ {p} : dir'[Target(q)] = dir[Target(q)]
      BY <1>1, <3>1, <3>3, NamesDiffer
    <3>7. ASSUME NEW q \in Path, crashes = 0, faults < 2
          PROVE  dir'[Target(q)] = newest'[q]
      <4>1. CASE q # p
        BY <2>2, <3>6, <3>7, <4>1 DEF TargetInv, Ours
      <4> QED BY <3>5, <4>1
    <3> QED BY <1>1, <2>2, <2>3, <3>4, <3>7 DEF TargetInv
  <2>5. CASE Fail(s, dir, 1)
    <3>1. faults' >= faults + 1 /\ faults' \in Nat
      BY <1>1, <2>5, FaultsCounted DEF Fail, FailUpload
    <3> QED BY <1>1, <2>2, <2>3, <3>1 DEF TargetInv
  <2> QED BY <1>7, <2>4, <2>5 DEF Restore
<1>8. CASE Settle(s)
  <2>1. Call(s, "probe") /\ "probe" \in Calls
    BY <1>8 DEF Settle, Calls
  <2>2. CASE dir[Target(p)] = NoFile /\ InPlace(p) /\ Failing(0) /\ Succeed(s)
    <3>1. commit'.call \notin {"place", "restore"}
      BY <2>2, NoCommitType DEF Succeed, Calls
    <3> QED BY <2>1, <2>2, <3>1, InPlaceTargets
  <2>3. ASSUME NEW n \in {0, 1}, Fail(s, dir, n)
        PROVE  TargetInv'
    BY <1>1, <1>2, <2>1, <2>3, FailTargets
  <2> QED BY <1>8, <2>2, <2>3 DEF Settle, Appeared
<1> QED BY <1>3, <1>4, <1>5, <1>6, <1>7, <1>8 DEF Commit

LEMMA TargetStep == OwnFiles /\ IInv /\ TargetInv /\ [Next]_vars => TargetInv'
<1> SUFFICES ASSUME OwnFiles, IInv, TargetInv, [Next]_vars PROVE TargetInv'
  OBVIOUS
<1>0. /\ TypeOK /\ dir \in Directory /\ faults \in Nat
      /\ \A p \in Path : Target(p) \in Names /\ Temp(p) \in Names
      /\ \A s \in Slot : up[s].path \in Path
  BY UploadAssumption, TypeParts, NamesDiffer DEF IInv, Uploads
<1>1. ASSUME Idle
      PROVE  commit.call \notin {"place", "restore"} /\ commit.call \notin Calls
  BY <1>1, NoCommitType DEF Idle, Calls
<1>2. ASSUME NEW s \in Slot, NEW q \in Path, NEW overwrite \in BOOLEAN, NEW backup \in BOOLEAN,
             Begin(s, q, overwrite, backup)
      PROVE  TargetInv'
  <2>1. /\ dir' = [dir EXCEPT ![Temp(q)] = files + 1] \/ dir' = Removed(dir, Temp(q))
        /\ Failing(0) \/ Failing(1)
        /\ Idle /\ commit' = commit /\ newest' = newest /\ crashes' = crashes
    BY <1>2 DEF Begin
  <2>2. \A p \in Path : dir'[Target(p)] = dir[Target(p)]
    BY <1>0, <2>1, NamesDiffer, RemovedProperties DEF Directory
  <2>3. faults' \in Nat /\ faults' >= faults
    BY <1>0, <2>1, FaultsCounted
  <2> QED BY <1>0, <1>1, <2>1, <2>2, <2>3, TargetsSame
<1>3. ASSUME NEW s \in Slot, (\E garbled \in BOOLEAN : Data(s, garbled)) \/ OtherRequest(s) \/ End(s) \/ Disconnect(s)
      PROVE  TargetInv'
  <2>1. Idle /\ newest' = newest /\ crashes' = crashes
    BY <1>3 DEF Data, OtherRequest, End, Disconnect, history, counters
  <2>2. commit'.call # "restore"
    <3>1. commit' = commit \/ commit' = [slot |-> s, call |-> "sync"]
      BY <1>3 DEF Data, OtherRequest, End, Disconnect
    <3> QED BY <1>1, <2>1, <3>1 DEF Calls
  <2>3. \/ dir' = dir /\ faults' = faults
        \/ \E n \in {0, 1} : TempRemoved(up[s].path, dir, n)
    BY <1>3 DEF Data, OtherRequest, End, Disconnect, FailUpload, card, counters
  <2>4. CASE dir' = dir /\ faults' = faults
    BY <1>0, <1>1, <2>1, <2>2, <2>4, TargetsSame
  <2>5. ASSUME NEW n \in {0, 1}, TempRemoved(up[s].path, dir, n)
        PROVE  TargetInv'
    BY <1>0, <1>1, <2>1, <2>2, <2>5, TempRemovedTargets
  <2> QED BY <2>3, <2>4, <2>5
<1>4. ASSUME NEW s \in Slot, Commit(s)
      PROVE  TargetInv'
  BY <1>4, CommitTargets
<1>5. ASSUME NEW q \in Moved, MoveAway(q) \/ MoveIn(q)
      PROVE  TargetInv'
  <2>1. /\ Idle /\ commit' = commit /\ crashes' = crashes /\ faults' = faults /\ q \in Path
        /\ \E v \in File \cup {NoFile} : /\ dir' = [dir EXCEPT ![Target(q)] = v]
                                         /\ newest' = [newest EXCEPT ![q] = v]
    <3>1. files < MaxFiles => files + 1 \in File
      BY UploadAssumption, TypeParts, <1>0 DEF File
    <3> QED BY <1>5, <3>1, UploadAssumption DEF MoveAway, MoveIn, Removed, counters
  <2>2. \A p \in Path : \/ dir'[Target(p)] = newest'[p]
                        \/ dir'[Target(p)] = dir[Target(p)] /\ newest'[p] = newest[p]
    BY <1>0, <2>1, NamesDiffer, TypeParts DEF Directory
  <2>3. \A t \in Slot : ~Ours(t, {"place", "restore"}) /\ ~Ours(t, {"restore"})'
    BY <1>1, <2>1 DEF Ours
  <2> QED BY <2>1, <2>2, <2>3 DEF TargetInv
<1>6. CASE SwitchMode
  <2> DEFINE aborted == {s \in Slot : mode # "READ_ONLY" /\ up[s].active}
             names == {Temp(up[s].path) : s \in aborted}
             temps == {t \in names : dir[t] # NoFile}
  <2>1. Idle /\ commit' = commit /\ newest' = newest /\ crashes' = crashes
    BY <1>6 DEF SwitchMode
  <2>4. PICK kept \in SUBSET temps :
          /\ Failing(Cardinality(kept))
          /\ dir' = [n \in Names |-> IF n \in temps \ kept THEN NoFile ELSE dir[n]]
    BY <1>6 DEF SwitchMode
  <2>2. ASSUME NEW p \in Path
        PROVE  dir'[Target(p)] = dir[Target(p)]
    <3>1. Target(p) \notin names
      BY <1>0, NamesDiffer
    <3> QED BY <1>0, <2>4, <3>1
  <2>3. faults' \in Nat /\ faults' >= faults
    <3>1. Cardinality(kept) \in Nat
      BY SomeTempsCounted
    <3> QED BY <1>0, <2>4, <3>1, FaultsCounted
  <2> QED BY <1>0, <1>1, <2>1, <2>2, <2>3, TargetsSame
<1>7. CASE Crash
  <2>1. crashes' # 0 /\ commit' = NoCommit
    BY <1>7, UploadAssumption DEF Crash, IInv, TypeOK
  <2> QED BY <2>1, NoCommitType DEF TargetInv, Ours
<1>8. CASE UNCHANGED vars
  BY <1>8 DEF vars, card, history, counters, TargetInv, Ours
<1> QED BY <1>2, <1>3, <1>4, <1>5, <1>6, <1>7, <1>8 DEF Next
-----------------------------------------------------------------------------
(***************************************************************************)
(* Every temporary file is somebody's.                                     *)
(***************************************************************************)

\* A commit that has placed its file has no temporary file left to leave behind.
PlacedAt(s) == Ours(s, {"keep", "rename_bak", "drop"}) => dir[Target(up[s].path)] = up[s].id
TempInv == NoForgottenTemp /\ \A s \in Slot : PlacedAt(s)

\* A step that touches no temporary file and ends no upload that has one.
LEMMA TempsSame ==
  ASSUME NoForgottenTemp, stray \subseteq stray',
         \A p \in Path : dir'[Temp(p)] \in {dir[Temp(p)], NoFile},
         \A t \in Slot : /\ up[t].active
                         /\ \E p \in Path : dir[Temp(p)] = up[t].id /\ dir'[Temp(p)] # NoFile
                         => up'[t].active /\ up'[t].id = up[t].id
  PROVE  NoForgottenTemp'
<1> SUFFICES ASSUME NEW p \in Path, dir'[Temp(p)] # NoFile, p \notin stray'
             PROVE  \E s \in Slot : up'[s].active /\ up'[s].id = dir'[Temp(p)]
  BY DEF NoForgottenTemp
<1>1. dir'[Temp(p)] = dir[Temp(p)] /\ p \notin stray
  OBVIOUS
<1>2. PICK s \in Slot : up[s].active /\ up[s].id = dir[Temp(p)]
  BY <1>1 DEF NoForgottenTemp
<1> QED BY <1>1, <1>2

\* An upload that ends takes its temporary file with it, or leaves it known.
LEMMA UploadEndsClean ==
  ASSUME IInv, NoForgottenTemp, NEW s \in Slot, NEW q \in Path, dir[Temp(q)] = up[s].id, up[s].id # NoFile,
         NEW d \in Directory, \A p \in Path : d[Temp(p)] = dir[Temp(p)],
         NEW n \in Nat, TempRemoved(q, d, n),
         \A t \in Slot \ {s} : up'[t] = up[t]
  PROVE  NoForgottenTemp'
<1>1. TypeOK /\ OneNameInv
  BY DEF IInv, SafeInv
<1>2. /\ \A m \in Names : m # Temp(q) => dir'[m] = d[m]
      /\ dir'[Temp(q)] = NoFile \/ q \in stray'
      /\ stray \subseteq stray'
  <2>1. Temp(q) \in Names
    BY NamesDiffer
  <2>2. Removed(d, Temp(q))[Temp(q)] = NoFile
    BY <2>1, RemovedProperties
  <2> QED BY <1>1, <2>2, TempRemovedProperties DEF TempRemoved
<1> SUFFICES ASSUME NEW p \in Path, dir'[Temp(p)] # NoFile, p \notin stray'
             PROVE  \E t \in Slot : up'[t].active /\ up'[t].id = dir'[Temp(p)]
  BY DEF NoForgottenTemp
<1>3. p # q /\ Temp(p) # Temp(q) /\ Temp(p) \in Names /\ Temp(q) \in Names
  BY <1>2, NamesDiffer
<1>4. dir'[Temp(p)] = dir[Temp(p)] /\ p \notin stray
  BY <1>2, <1>3
<1>5. PICK t \in Slot : up[t].active /\ up[t].id = dir[Temp(p)]
  BY <1>4 DEF NoForgottenTemp
<1>6. t # s
  BY <1>1, <1>3, <1>4, <1>5 DEF OneNameInv
<1> QED BY <1>4, <1>5, <1>6

\* Outside the last calls of a commit there is nothing more to show.
LEMMA NotPlaced ==
  ASSUME commit'.call \notin {"keep", "rename_bak", "drop"}
  PROVE  \A s \in Slot : PlacedAt(s)'
BY DEF PlacedAt, Ours

LEMMA FailTemps ==
  ASSUME IInv, TempInv, NEW s \in Slot, commit.call \notin {"keep", "rename_bak", "drop"}, up[s].active,
         NEW d \in Directory, \A p \in Path : d[Temp(p)] = dir[Temp(p)],
         NEW n \in Nat, Fail(s, d, n)
  PROVE  TempInv'
<1>1. /\ TypeOK /\ up[s].path \in Path /\ RunningAt(s)
  BY TypeParts DEF IInv, SafeInv, RunningInv, Uploads
<1>2. dir[Temp(up[s].path)] = up[s].id /\ up[s].id # NoFile
  BY <1>1 DEF RunningAt, Ours
<1>3. \A t \in Slot \ {s} : up'[t] = up[t]
  BY <1>1, FailProperties
<1>4. TempRemoved(up[s].path, d, n) /\ commit' = NoCommit
  BY DEF Fail, FailUpload
<1>5. NoForgottenTemp'
  BY <1>1, <1>2, <1>3, <1>4, UploadEndsClean DEF TempInv
<1> QED BY <1>4, <1>5, NoCommitType, NotPlaced DEF TempInv, Calls

\* A commit that goes on leaves the temporary files alone, or has moved its own
\* into place.
LEMMA ProceedTemps ==
  ASSUME TempInv, NEW s \in Slot, NEW next \in Calls, Proceed(s, next),
         \A p \in Path : dir'[Temp(p)] \in {dir[Temp(p)], NoFile},
         next \in {"keep", "rename_bak", "drop"} => dir'[Target(up[s].path)] = up[s].id
  PROVE  TempInv'
<1>1. up' = up /\ stray' = stray /\ commit' = [slot |-> s, call |-> next]
  BY DEF Proceed, Then
<1>2. NoForgottenTemp'
  BY <1>1, TempsSame DEF TempInv
<1>3. \A t \in Slot : PlacedAt(t)'
  BY <1>1 DEF PlacedAt, Ours
<1> QED BY <1>2, <1>3 DEF TempInv

LEMMA CommitTemps ==
  ASSUME OwnFiles, IInv, TempInv, NEW s \in Slot, Commit(s)
  PROVE  TempInv'
<1> DEFINE p == up[s].path
<1>1. /\ TypeOK /\ dir \in Directory /\ p \in Path /\ up[s] \in Uploads
      /\ {Target(p), Temp(p), Old(p), Bak(p)} \subseteq Names
      /\ NewestAt(s) /\ RunningAt(s) /\ PlacedAt(s) /\ OneNameInv
      /\ \A q \in Path : Temp(q) \in Names /\ Temp(q) \notin {Target(p), Old(p), Bak(p)}
      /\ \A q \in Path \ {p} : Temp(q) # Temp(p)
      /\ Target(p) \notin {Old(p), Bak(p), Temp(p)} /\ Old(p) # Bak(p)
  BY TypeParts, NamesDiffer DEF IInv, SafeInv, NewestInv, RunningInv, Uploads, TempInv
<1>2. ASSUME NEW call \in Calls, Call(s, call)
      PROVE  commit.slot = s /\ commit.call = call /\ up[s].active
  BY <1>2, CallFacts
<1>3. ASSUME NEW call \in Calls, Call(s, call), call \notin {"keep", "rename_bak", "drop"},
             NEW n \in {0, 1}, Fail(s, dir, n)
      PROVE  TempInv'
  BY <1>1, <1>2, <1>3, FailTemps
<1>4. ASSUME NEW from \in Names, NEW to \in Names, from # to,
             from \in {Target(p), Old(p)}, to \in {Target(p), Old(p), Bak(p)}
      PROVE  /\ Renamed(dir, from, to) \in Directory
             /\ \A q \in Path : Renamed(dir, from, to)[Temp(q)] = dir[Temp(q)]
             /\ Target(p) \notin {from, to} => Renamed(dir, from, to)[Target(p)] = dir[Target(p)]
  <2> DEFINE r == Renamed(dir, from, to)
  <2>1. /\ r \in Directory
        /\ \A m \in Names : r[m] = IF m = from THEN NoFile ELSE IF m = to THEN dir[from] ELSE dir[m]
    BY <1>1, <1>4, RenamedProperties
  <2>2. \A q \in Path : Temp(q) \in Names /\ Temp(q) # from /\ Temp(q) # to
    BY <1>1, <1>4
  <2>3. r = Renamed(dir, from, to)
    OBVIOUS
  <2> HIDE DEF r
  <2> QED BY <1>1, <2>1, <2>2, <2>3
<1>5. ASSUME NEW n \in {Old(p), Bak(p)}
      PROVE  /\ \A q \in Path : Removed(dir, n)[Temp(q)] = dir[Temp(q)]
             /\ Removed(dir, n)[Target(p)] = dir[Target(p)]
  <2> DEFINE r == Removed(dir, n)
  <2>1. \A m \in Names : r[m] = IF m = n THEN NoFile ELSE dir[m]
    <3>1. n \in Names
      BY <1>1
    <3> QED BY <1>1, <3>1, RemovedProperties
  <2>2. \A q \in Path : Temp(q) \in Names /\ Temp(q) # n /\ Target(p) # n
    BY <1>1, <1>5
  <2>3. r = Removed(dir, n)
    OBVIOUS
  <2> HIDE DEF r
  <2> QED BY <1>1, <2>1, <2>2, <2>3
<1>6. ASSUME InPlace(p), NEW call \in {"place", "probe"}, Call(s, call)
      PROVE  /\ \A q \in Path \ {p} : dir'[Temp(q)] = dir[Temp(q)]
             /\ dir'[Temp(p)] = NoFile /\ dir[Temp(p)] = up[s].id /\ dir'[Target(p)] = up[s].id
  <2> DEFINE r == Renamed(dir, Temp(p), Target(p))
  <2>1. \A m \in Names : r[m] = IF m = Temp(p) THEN NoFile
                                ELSE IF m = Target(p) THEN dir[Temp(p)] ELSE dir[m]
    BY <1>1, RenamedProperties
  <2>2. dir' = r
    BY <1>6 DEF InPlace
  <2>3. call \in Calls /\ call \notin {"keep", "rename_bak", "drop"}
    BY DEF Calls
  <2>4. dir[Temp(p)] = up[s].id
    BY <1>6, <2>3, CallFacts
  <2> HIDE DEF r
  <2> QED BY <1>1, <2>1, <2>2, <2>4
<1>7. ASSUME Succeed(s), \A q \in Path : dir[Temp(q)] = up[s].id => dir'[Temp(q)] = NoFile,
             \A q \in Path : dir'[Temp(q)] \in {dir[Temp(q)], NoFile}
      PROVE  TempInv'
  <2>1. stray' = stray /\ commit' = NoCommit /\ \A t \in Slot \ {s} : up'[t] = up[t]
    BY <1>1, <1>7, SucceedProperties
  <2>2. NoForgottenTemp'
    BY <1>7, <2>1, TempsSame DEF TempInv
  <2> QED BY <2>1, <2>2, NoCommitType, NotPlaced DEF TempInv, Calls
<1>8. CASE Sync(s)
  <2>1. Call(s, "sync") /\ "sync" \in Calls
    BY <1>8 DEF Sync, Calls
  <2>2. CASE Proceed(s, IF up[s].exists THEN "clean" ELSE "probe") /\ dir' = dir
    BY <2>2, ProceedTemps DEF Calls
  <2> QED BY <1>3, <1>8, <2>1, <2>2 DEF Sync
<1>9. CASE Clean(s)
  <2>1. Proceed(s, "aside") /\ "aside" \in Calls
    BY <1>9 DEF Clean, Calls
  <2>2. dir' = dir \/ dir' = Removed(dir, Old(p))
    BY <1>9 DEF Clean
  <2> QED BY <1>5, <2>1, <2>2, ProceedTemps
<1>10. CASE Aside(s)
  <2>1. Call(s, "aside") /\ "aside" \in Calls /\ "place" \in Calls
    BY <1>10 DEF Aside, Calls
  <2>2. CASE dir' = Renamed(dir, Target(p), Old(p)) /\ Proceed(s, "place")
    BY <1>1, <1>4, <2>1, <2>2, ProceedTemps
  <2> QED BY <1>3, <1>10, <2>1, <2>2 DEF Aside, SetAside
<1>11. CASE Place(s)
  <2>1. Call(s, "place") /\ {"keep", "drop", "restore"} \subseteq Calls
    BY <1>11 DEF Place, Calls
  <2>2. CASE InPlace(p) /\ Proceed(s, IF up[s].backup THEN "keep" ELSE "drop")
    BY <1>6, <2>1, <2>2, ProceedTemps
  <2>3. CASE dir' = dir /\ Proceed(s, "restore")
    BY <2>1, <2>3, ProceedTemps
  <2> QED BY <1>11, <2>2, <2>3 DEF Place
<1>12. CASE Restore(s)
  <2>1. Call(s, "restore") /\ "restore" \in Calls
    BY <1>12 DEF Restore, Calls
  <2>2. CASE Fail(s, PutBack(p), 0)
    <3>1. PutBack(p) \in Directory /\ \A q \in Path : PutBack(p)[Temp(q)] = dir[Temp(q)]
      BY <1>1, <1>4 DEF PutBack
    <3> QED BY <1>2, <2>1, <2>2, <3>1, FailTemps
  <2> QED BY <1>3, <1>12, <2>1, <2>2 DEF Restore
<1>13. ASSUME Keep(s) \/ RenameBak(s) \/ Drop(s)
       PROVE  TempInv'
  <2>1. PICK call \in {"keep", "rename_bak", "drop"} : Call(s, call)
    BY <1>13 DEF Keep, RenameBak, Drop
  <2>2. dir[Target(p)] = up[s].id /\ up[s].id # NoFile
    BY <1>1, <1>2, <2>1 DEF PlacedAt, RunningAt, Ours, Calls
  <2>3. \/ dir' = dir \/ dir' = Removed(dir, Old(p)) \/ dir' = Removed(dir, Bak(p))
        \/ dir' = Renamed(dir, Old(p), Bak(p))
    BY <1>13 DEF Keep, RenameBak, Drop
  <2>4. dir'[Target(p)] = up[s].id /\ \A q \in Path : dir'[Temp(q)] = dir[Temp(q)]
    BY <1>1, <1>4, <1>5, <2>2, <2>3
  <2>5. \A q \in Path : dir[Temp(q)] # up[s].id
    BY <1>1, <2>2 DEF OneNameInv
  <2>6. \/ Succeed(s)
        \/ \E next \in {"rename_bak", "drop"} : Proceed(s, next)
    BY <1>13 DEF Keep, RenameBak, Drop
  <2> QED BY <1>7, <2>4, <2>5, <2>6, ProceedTemps DEF Calls
<1>14. CASE Settle(s)
  <2>1. Call(s, "probe") /\ "probe" \in Calls
    BY <1>14 DEF Settle, Calls
  <2>2. CASE InPlace(p) /\ Succeed(s)
    <3>1. up[s].id # NoFile
      BY <1>1, <1>2, <2>1 DEF RunningAt
    <3>2. \A q \in Path \ {p} : dir[Temp(q)] # up[s].id
      BY <1>1, <1>6, <2>1, <2>2, <3>1 DEF OneNameInv
    <3> QED BY <1>6, <1>7, <2>1, <2>2, <3>2
  <2> QED BY <1>3, <1>14, <2>1, <2>2 DEF Settle
<1> QED BY <1>8, <1>9, <1>10, <1>11, <1>12, <1>13, <1>14 DEF Commit

LEMMA TempStep == OwnFiles /\ IInv /\ TempInv /\ [Next]_vars => TempInv'
<1> SUFFICES ASSUME OwnFiles, IInv, TempInv, [Next]_vars PROVE TempInv'
  OBVIOUS
<1>0. /\ TypeOK /\ dir \in Directory /\ OneNameInv /\ RunningInv /\ NoForgottenTemp
      /\ up \in [Slot -> Uploads]
      /\ \A p \in Path : Target(p) \in Names /\ Temp(p) \in Names
      /\ \A s \in Slot : up[s].path \in Path
  BY TypeParts, NamesDiffer DEF IInv, SafeInv, TempInv, Uploads
<1>1. ASSUME Idle
      PROVE  /\ commit.call \notin Calls
             /\ \A s \in Slot : up[s].active => dir[Temp(up[s].path)] = up[s].id /\ up[s].id # NoFile
  BY <1>0, <1>1, NoCommitType DEF Idle, RunningInv, RunningAt, Ours, Calls
<1>2. ASSUME Idle, NoForgottenTemp', commit' = commit \/ commit'.call = "sync"
      PROVE  TempInv'
  BY <1>1, <1>2, NotPlaced DEF TempInv, Calls
<1>3. ASSUME NEW s \in Slot, NEW q \in Path, NEW overwrite \in BOOLEAN, NEW backup \in BOOLEAN,
             Begin(s, q, overwrite, backup)
      PROVE  TempInv'
  <2>1. Idle /\ ~up[s].active /\ commit' = commit /\ stray' = stray \ {q}
    BY <1>3 DEF Begin
  <2>2. \A p \in Path \ {q} : dir'[Temp(p)] = dir[Temp(p)]
    <3>1. dir' = [dir EXCEPT ![Temp(q)] = files + 1] \/ dir' = Removed(dir, Temp(q))
      BY <1>3 DEF Begin
    <3> QED BY <1>0, <3>1, NamesDiffer, RemovedProperties DEF Directory
  <2>3. \A t \in Slot \ {s} : up'[t] = up[t]
    BY <1>0, <1>3 DEF Begin
  <2>4. \/ dir'[Temp(q)] = NoFile
        \/ up'[s].active /\ up'[s].id = dir'[Temp(q)]
    <3>1. CASE dir' = Removed(dir, Temp(q))
      BY <1>0, <3>1, RemovedProperties
    <3>2. CASE /\ dir' = [dir EXCEPT ![Temp(q)] = files + 1]
               /\ up' = [up EXCEPT ![s] = [active |-> TRUE, discard |-> FALSE, id |-> files + 1, path |-> q,
                                           received |-> 0, backup |-> backup,
                                           exists |-> dir[Target(q)] # NoFile]]
      BY <1>0, <3>2 DEF Directory
    <3> QED BY <1>3, <3>1, <3>2 DEF Begin
  <2>5. NoForgottenTemp'
    <3> SUFFICES ASSUME NEW p \in Path, dir'[Temp(p)] # NoFile, p \notin stray'
                 PROVE  \E t \in Slot : up'[t].active /\ up'[t].id = dir'[Temp(p)]
      BY DEF NoForgottenTemp
    <3>1. CASE p = q
      BY <2>4, <3>1
    <3>2. CASE p # q
      <4>1. PICK t \in Slot : up[t].active /\ up[t].id = dir[Temp(p)]
        BY <1>0, <2>1, <2>2, <3>2 DEF NoForgottenTemp
      <4> QED BY <2>1, <2>2, <2>3, <3>2, <4>1
    <3> QED BY <3>1, <3>2
  <2> QED BY <1>2, <2>1, <2>5
<1>4. ASSUME NEW s \in Slot, (\E garbled \in BOOLEAN : Data(s, garbled)) \/ OtherRequest(s) \/ End(s) \/ Disconnect(s)
      PROVE  TempInv'
  <2>1. Idle /\ (commit' = commit \/ commit'.call = "sync")
    <3>1. Idle /\ (commit' = commit \/ commit' = [slot |-> s, call |-> "sync"])
      BY <1>4 DEF Data, OtherRequest, End, Disconnect
    <3> QED BY <3>1
  <2> DEFINE Untouched == /\ dir' = dir /\ stray' = stray
                           /\ \A t \in Slot : up[t].active => up'[t].active /\ up'[t].id = up[t].id
             Ended == /\ up[s].active /\ \E n \in {0, 1} : TempRemoved(up[s].path, dir, n)
                      /\ \A t \in Slot \ {s} : up'[t] = up[t]
  <2>2. Untouched \/ Ended
    <3>1. CASE OtherRequest(s) \/ Disconnect(s)
      BY <1>0, <3>1 DEF OtherRequest, Disconnect, card, history
    <3>2. CASE End(s)
      BY <1>0, <3>2, IgnoreRestProperties DEF End, card, FailUpload
    <3>3. ASSUME NEW garbled \in BOOLEAN, Data(s, garbled)
          PROVE  Untouched \/ Ended
      <4>1. CASE dir' = dir /\ stray' = stray /\ up' = [up EXCEPT ![s].received = @ + 1]
        BY <1>0, <4>1 DEF Uploads
      <4>2. ASSUME NEW n \in {0, 1}, FailUpload(s, dir, n), DiscardRest(s), up[s].active
            PROVE  Ended
        BY <1>0, <4>2, IgnoreRestProperties DEF FailUpload
      <4> QED BY <3>3, <4>1, <4>2 DEF Data
    <3> QED BY <1>4, <3>1, <3>2, <3>3
  <2>3. CASE Untouched
    BY <1>0, <1>2, <2>1, <2>3, TempsSame
  <2>4. CASE Ended
    BY <1>0, <1>1, <1>2, <2>1, <2>4, UploadEndsClean
  <2> QED BY <2>2, <2>3, <2>4
<1>5. ASSUME NEW s \in Slot, Commit(s)
      PROVE  TempInv'
  BY <1>5, CommitTemps
<1>6. ASSUME NEW q \in Moved, MoveAway(q) \/ MoveIn(q)
      PROVE  TempInv'
  <2>1. /\ Idle /\ commit' = commit /\ up' = up /\ stray' = stray /\ q \in Path
        /\ \E v : dir' = [dir EXCEPT ![Target(q)] = v]
    BY <1>6, UploadAssumption DEF MoveAway, MoveIn, Removed
  <2>2. \A p \in Path : dir'[Temp(p)] = dir[Temp(p)]
    BY <1>0, <2>1, NamesDiffer DEF Directory
  <2> QED BY <1>0, <1>2, <2>1, <2>2, TempsSame
<1>7. CASE SwitchMode
  <2> DEFINE aborted == {s \in Slot : mode # "READ_ONLY" /\ up[s].active}
             names == {Temp(up[s].path) : s \in aborted}
             temps == {t \in names : dir[t] # NoFile}
  <2>1. Idle /\ commit' = commit /\ up' = [s \in Slot |-> IF s \in aborted THEN Over(up[s], TRUE) ELSE up[s]]
    BY <1>7 DEF SwitchMode
  <2>2. PICK kept \in SUBSET temps :
          /\ dir' = [n \in Names |-> IF n \in temps \ kept THEN NoFile ELSE dir[n]]
          /\ stray' = stray \cup {t.path : t \in kept}
    BY <1>7 DEF SwitchMode
  <2>3. NoForgottenTemp'
    <3> SUFFICES ASSUME NEW p \in Path, dir'[Temp(p)] # NoFile, p \notin stray'
                 PROVE  \E t \in Slot : up'[t].active /\ up'[t].id = dir'[Temp(p)]
      BY DEF NoForgottenTemp
    <3>1. dir'[Temp(p)] = dir[Temp(p)] /\ Temp(p) \notin temps \ kept
      BY <1>0, <2>2
    <3>2. p \notin stray /\ Temp(p) \notin kept
      BY <2>2 DEF Temp
    <3>3. PICK t \in Slot : up[t].active /\ up[t].id = dir[Temp(p)]
      BY <1>0, <3>1, <3>2 DEF NoForgottenTemp
    <3>4. t \notin aborted
      <4> SUFFICES ASSUME t \in aborted PROVE FALSE
        OBVIOUS
      <4>1. dir[Temp(up[t].path)] = dir[Temp(p)]
        BY <1>1, <2>1, <3>3
      <4>2. Temp(up[t].path) = Temp(p)
        BY <1>0, <3>1, <4>1 DEF OneNameInv
      <4> QED BY <3>1, <3>2, <4>2
    <3> QED BY <2>1, <3>1, <3>3, <3>4
  <2> QED BY <1>2, <2>1, <2>3
<1>8. CASE Crash
  <2>1. commit' = NoCommit /\ dir' = dir /\ stray' = {p \in Path : dir[Temp(p)] # NoFile}
    BY <1>8 DEF Crash
  <2>2. NoForgottenTemp'
    BY <2>1 DEF NoForgottenTemp
  <2> QED BY <2>1, <2>2, NoCommitType, NotPlaced DEF TempInv, Calls
<1>9. CASE UNCHANGED vars
  BY <1>9 DEF vars, card, history, counters, TempInv, NoForgottenTemp, PlacedAt, Ours
<1> QED BY <1>3, <1>4, <1>5, <1>6, <1>7, <1>8, <1>9 DEF Next
-----------------------------------------------------------------------------
(***************************************************************************)
(* Every upload is answered once.                                          *)
(***************************************************************************)

\* The upload a connection has: one that runs owes its answer, and its END was
\* consumed only if its commit runs; of one that failed, what still comes is
\* discarded.
OwedAt(s) ==
  /\ up[s].active => answers[up[s].id] = 0 /\ (up[s].id \in ended <=> Ours(s, Calls))
  /\ ~up[s].active /\ up[s].id # NoFile /\ up[s].id \notin ended =>
       up[s].discard /\ (modes = 0 => answers[up[s].id] = 1)

\* Unless the power went or the mode changed, an upload whose END was consumed has
\* its answer or is being committed.
ClosedAt(f) == f \in ended /\ crashes = 0 /\ modes = 0 =>
                 answers[f] = 1 \/ \E s \in Slot : Ours(s, Calls) /\ up[s].id = f

AnswersInv ==
  /\ \A f \in File : answers[f] <= 1 /\ ClosedAt(f) /\ (f > files => answers[f] = 0 /\ f \notin ended)
  /\ \A s, t \in Slot : up[s].id = up[t].id /\ up[s].id # NoFile => s = t
  /\ \A s \in Slot : OwedAt(s)

LEMMA AnswerFacts ==
  ASSUME IInv
  PROVE  /\ TypeOK /\ answers \in [File -> Nat] /\ up \in [Slot -> Uploads] /\ files \in 0..MaxFiles
         /\ crashes \in Nat /\ modes \in Nat
         /\ \A s \in Slot : up[s].id \in File \cup {NoFile} /\ up[s].id <= files
         /\ \A s \in Slot : up[s].active => up[s].id \in File
         /\ NoFile \notin File
BY UploadAssumption, TypeParts DEF IInv, SafeInv, FreshInv, RunningInv, RunningAt, Uploads, File, NoFile

\* A connection takes up a fresh number or has none left; nothing is answered.
LEMMA UploadReplaced ==
  ASSUME IInv, AnswersInv, NEW s \in Slot, Idle, commit' = commit,
         answers' = answers, ended' = ended, crashes' = crashes, modes' = modes,
         \A t \in Slot \ {s} : up'[t] = up[t],
         \/ up'[s].active = FALSE /\ up'[s].id = NoFile /\ files' = files
         \/ up'[s].active /\ up'[s].id = files + 1 /\ files' = files + 1 /\ files < MaxFiles
  PROVE  AnswersInv'
<1>1. \A t \in Slot : ~Ours(t, Calls) /\ ~Ours(t, Calls)'
  BY NoCommitType DEF Idle, Ours
<1>2. /\ files \in Nat /\ MaxFiles \in Nat
      /\ files < MaxFiles => files + 1 \in File /\ files + 1 > files
  BY UploadAssumption, AnswerFacts DEF File
<1>3. \A f \in File : (answers[f] <= 1 /\ ClosedAt(f) /\ (f > files => answers[f] = 0 /\ f \notin ended))'
  BY <1>1, <1>2 DEF AnswersInv, ClosedAt, File
<1>4. \A t \in Slot \ {s} : up[t].id # files + 1
  BY AnswerFacts
<1>5. \A t, u \in Slot : up'[t].id = up'[u].id /\ up'[t].id # NoFile => t = u
  BY <1>4, AnswerFacts DEF AnswersInv
<1>6. \A t \in Slot \ {s} : OwedAt(t)'
  BY <1>1 DEF AnswersInv, OwedAt
<1>7. OwedAt(s)'
  <2>1. CASE up'[s].active = FALSE /\ up'[s].id = NoFile
    BY <2>1 DEF OwedAt
  <2>2. CASE up'[s].active /\ up'[s].id = files + 1 /\ files' = files + 1 /\ files < MaxFiles
    <3>1. answers[files + 1] = 0 /\ files + 1 \notin ended
      BY <1>2, <2>2 DEF AnswersInv
    <3> QED BY <1>1, <2>2, <3>1 DEF OwedAt
  <2> QED BY <2>1, <2>2
<1> QED BY <1>3, <1>5, <1>6, <1>7 DEF AnswersInv

\* The upload of a connection ends with its answer.
LEMMA UploadAnswered ==
  ASSUME IInv, AnswersInv, NEW s \in Slot, up[s].active, Answer(s),
         commit.slot = s \/ commit = NoCommit,
         \/ commit' = commit /\ up'[s].discard /\ Idle
         \/ commit' = NoCommit /\ up[s].id \in ended',
         ended' \in {ended, ended \cup {up[s].id}},
         files' = files, crashes' = crashes, modes' = modes,
         \A t \in Slot \ {s} : up'[t] = up[t],
         up'[s].active = FALSE, up'[s].id = up[s].id
  PROVE  AnswersInv'
<1> DEFINE f == up[s].id
<1>1. f \in File /\ answers \in [File -> Nat] /\ answers[f] = 0
  BY AnswerFacts DEF AnswersInv, OwedAt
<1>2. answers'[f] = 1 /\ \A g \in File \ {f} : answers'[g] = answers[g]
  BY <1>1 DEF Answer
<1>3. \A t \in Slot \ {s} : ~Ours(t, Calls)
  BY NoCommitType DEF Ours
<1>4. \A t \in Slot : ~Ours(t, Calls)'
  BY NoCommitType DEF Ours, Idle
<1>5. \A t \in Slot \ {s} : up[t].id # f
  BY <1>1, AnswerFacts DEF AnswersInv
<1>6. ASSUME NEW g \in File
      PROVE  (answers[g] <= 1 /\ ClosedAt(g) /\ (g > files => answers[g] = 0 /\ g \notin ended))'
  <2>1. f <= files
    BY AnswerFacts
  <2>2. CASE g = f
    BY <1>2, <2>1, <2>2, AnswerFacts DEF ClosedAt, File
  <2>3. CASE g # f
    BY <1>2, <1>3, <1>4, <2>3 DEF AnswersInv, ClosedAt, Ours
  <2> QED BY <2>2, <2>3
<1>7. \A t, u \in Slot : up'[t].id = up'[u].id /\ up'[t].id # NoFile => t = u
  BY <1>5 DEF AnswersInv
<1>8. OwedAt(s)'
  BY <1>2 DEF OwedAt
<1>9. ASSUME NEW t \in Slot \ {s}
      PROVE  OwedAt(t)'
  <2>1. OwedAt(t) /\ up'[t] = up[t] /\ up[t].id # f /\ up[t].id \in File \cup {NoFile}
        /\ (up[t].active => up[t].id \in File)
    BY <1>5, AnswerFacts DEF AnswersInv
  <2> QED BY <1>2, <1>3, <1>4, <2>1 DEF OwedAt
<1> QED BY <1>6, <1>7, <1>8, <1>9 DEF AnswersInv

LEMMA CommitAnswers ==
  ASSUME OwnFiles, IInv, AnswersInv, NEW s \in Slot, Commit(s)
  PROVE  AnswersInv'
<1>1. PICK call \in Calls : Call(s, call)
  BY DEF Commit, Sync, Clean, Aside, Place, Restore, Keep, RenameBak, Drop, Settle, Calls
<1>2. /\ commit.slot = s /\ commit.call \in Calls /\ ended' = ended
      /\ files' = files /\ crashes' = crashes /\ modes' = modes
      /\ up[s].active /\ TypeOK /\ dir \in Directory /\ up[s].path \in Path
  BY <1>1, CallFacts
<1>3. up[s].id \in ended
  BY <1>2 DEF AnswersInv, OwedAt, Ours
<1>4. \/ \E next \in Calls : Proceed(s, next)
      \/ Answer(s) /\ IgnoreRest(s) /\ commit' = NoCommit
  BY DEF Commit, Sync, Clean, Aside, Place, Restore, Keep, RenameBak, Drop, Settle, Fail, Succeed,
         FailUpload, Calls
<1>5. ASSUME NEW next \in Calls, Proceed(s, next)
      PROVE  AnswersInv'
  <2>1. up' = up /\ answers' = answers /\ commit'.slot = s /\ commit'.call \in Calls
    BY <1>5 DEF Proceed, Then
  <2>2. \A t \in Slot : Ours(t, Calls)' <=> Ours(t, Calls)
    BY <1>2, <2>1 DEF Ours
  <2> QED BY <1>2, <2>1, <2>2 DEF AnswersInv, ClosedAt, OwedAt
<1>6. CASE Answer(s) /\ IgnoreRest(s) /\ commit' = NoCommit
  BY <1>2, <1>3, <1>6, IgnoreRestProperties, UploadAnswered
<1> QED BY <1>4, <1>5, <1>6

LEMMA AnswersStep == OwnFiles /\ IInv /\ AnswersInv /\ [Next]_vars => AnswersInv'
<1> SUFFICES ASSUME OwnFiles, IInv, AnswersInv, [Next]_vars PROVE AnswersInv'
  OBVIOUS
<1>0. TypeOK /\ up \in [Slot -> Uploads]
  BY AnswerFacts
<1>1. ASSUME Idle
      PROVE  \A t \in Slot : ~Ours(t, Calls)
  BY <1>1, NoCommitType DEF Idle, Ours
<1>2. ASSUME NEW s \in Slot, NEW q \in Path, NEW overwrite \in BOOLEAN, NEW backup \in BOOLEAN,
             Begin(s, q, overwrite, backup)
      PROVE  AnswersInv'
  <2>1. /\ Idle /\ commit' = commit /\ answers' = answers /\ ended' = ended
        /\ crashes' = crashes /\ modes' = modes /\ files < MaxFiles
    BY <1>2 DEF Begin
  <2>2. /\ \A t \in Slot \ {s} : up'[t] = up[t]
        /\ \/ up'[s].active = FALSE /\ up'[s].id = NoFile /\ files' = files
           \/ up'[s].active /\ up'[s].id = files + 1 /\ files' = files + 1
    BY <1>0, <1>2, NoUploadType DEF Begin
  <2> QED BY <2>1, <2>2, UploadReplaced
<1>3. ASSUME NEW s \in Slot, OtherRequest(s) \/ Disconnect(s)
      PROVE  AnswersInv'
  <2>1. /\ Idle /\ commit' = commit /\ answers' = answers /\ ended' = ended
        /\ crashes' = crashes /\ modes' = modes /\ files' = files
        /\ up' = [up EXCEPT ![s] = NoUpload]
    BY <1>3 DEF OtherRequest, Disconnect, history, counters
  <2>2. up'[s].active = FALSE /\ up'[s].id = NoFile /\ \A t \in Slot \ {s} : up'[t] = up[t]
    BY <1>0, <2>1, NoUploadType
  <2> QED BY <2>1, <2>2, UploadReplaced
<1>4. ASSUME NEW s \in Slot, NEW garbled \in BOOLEAN, Data(s, garbled)
      PROVE  AnswersInv'
  <2>1. /\ Idle /\ up[s].active /\ commit' = commit /\ ended' = ended
        /\ crashes' = crashes /\ modes' = modes /\ files' = files
    BY <1>4 DEF Data
  <2>2. CASE up' = [up EXCEPT ![s].received = @ + 1] /\ answers' = answers
    <3>1. \A t \in Slot : up'[t].id = up[t].id /\ up'[t].active = up[t].active /\ up'[t].discard = up[t].discard
      BY <1>0, <2>2 DEF Uploads
    <3> QED BY <2>1, <2>2, <3>1 DEF AnswersInv, ClosedAt, OwedAt, Ours
  <2>3. CASE Answer(s) /\ DiscardRest(s)
    <3>1. up'[s] = Over(up[s], TRUE)
      BY <1>0, <2>3 DEF DiscardRest
    <3>2. up'[s].discard
      BY <3>1 DEF Over, NoUpload
    <3>3. /\ \A t \in Slot \ {s} : up'[t] = up[t]
          /\ up'[s].active = FALSE /\ up'[s].id = up[s].id
      BY <1>0, <2>3, IgnoreRestProperties
    <3>4. /\ commit.slot = s \/ commit = NoCommit
          /\ ended' \in {ended, ended \cup {up[s].id}}
      BY <2>1 DEF Idle
    <3>5. commit' = commit /\ up'[s].discard /\ Idle
      BY <2>1, <3>2
    <3>6. Answer(s) /\ up[s].active /\ files' = files /\ crashes' = crashes /\ modes' = modes
      BY <2>1, <2>3
    <3> QED BY <3>3, <3>4, <3>5, <3>6, UploadAnswered
  <2> QED BY <1>4, <2>2, <2>3 DEF Data, FailUpload
<1>5. ASSUME NEW s \in Slot, End(s)
      PROVE  AnswersInv'
  <2> DEFINE f == up[s].id
  <2>1. /\ Idle /\ f # NoFile /\ f \notin ended /\ ended' = ended \cup {f}
        /\ crashes' = crashes /\ modes' = modes /\ files' = files
    BY <1>5 DEF End
  <2>2. f \in File /\ f <= files /\ f \in ended' /\ files \in Nat
    BY <2>1, AnswerFacts
  <2>3. CASE up[s].active /\ commit' = [slot |-> s, call |-> "sync"] /\ up' = up /\ answers' = answers
    <3>1. Ours(s, Calls)' /\ \A t \in Slot \ {s} : ~Ours(t, Calls)'
      BY <2>3 DEF Ours, Calls
    <3>2. \A g \in File : (answers[g] <= 1 /\ ClosedAt(g) /\ (g > files => answers[g] = 0 /\ g \notin ended))'
      BY <1>1, <2>1, <2>2, <2>3, <3>1 DEF AnswersInv, ClosedAt, File
    <3>3. \A t \in Slot : OwedAt(t)'
      BY <1>1, <2>1, <2>3, <3>1 DEF AnswersInv, OwedAt
    <3> QED BY <2>3, <3>2, <3>3 DEF AnswersInv
  <2>4. CASE up[s].active /\ Answer(s) /\ IgnoreRest(s) /\ commit' = commit
    BY <1>0, <2>1, <2>2, <2>4, IgnoreRestProperties, UploadAnswered DEF Idle
  <2>5. CASE ~up[s].active /\ up' = [up EXCEPT ![s].discard = FALSE] /\ answers' = answers /\ commit' = commit
    <3>1. \A t \in Slot : up'[t].id = up[t].id /\ up'[t].active = up[t].active
      BY <1>0, <2>5 DEF Uploads
    <3>2. \A t \in Slot \ {s} : up'[t] = up[t] /\ up[t].id # f
      BY <1>0, <2>1, <2>5 DEF AnswersInv
    <3>3. modes = 0 => answers[f] = 1
      BY <2>1, <2>5 DEF AnswersInv, OwedAt
    <3>4. \A t \in Slot : ~Ours(t, Calls)'
      BY <1>1, <2>1, <2>5 DEF Ours
    <3>5. \A g \in File : (answers[g] <= 1 /\ ClosedAt(g) /\ (g > files => answers[g] = 0 /\ g \notin ended))'
      BY <1>1, <2>1, <2>2, <2>5, <3>3, <3>4 DEF AnswersInv, ClosedAt, File
    <3>6. \A t \in Slot \ {s} : OwedAt(t)'
      BY <1>1, <2>1, <2>5, <3>2, <3>4 DEF AnswersInv, OwedAt
    <3>7. OwedAt(s)'
      BY <2>2, <2>5, <3>1 DEF OwedAt
    <3> QED BY <3>1, <3>5, <3>6, <3>7 DEF AnswersInv
  <2>6. ~up[s].active => up[s].discard
    BY <2>1 DEF AnswersInv, OwedAt
  <2> QED BY <1>5, <2>3, <2>4, <2>5, <2>6 DEF End, FailUpload
<1>6. ASSUME NEW s \in Slot, Commit(s)
      PROVE  AnswersInv'
  BY <1>6, CommitAnswers
<1>7. ASSUME NEW q \in Moved, MoveAway(q) \/ MoveIn(q)
      PROVE  AnswersInv'
  <2>1. /\ up' = up /\ commit' = commit /\ answers' = answers /\ ended' = ended
        /\ crashes' = crashes /\ modes' = modes /\ files' \in {files, files + 1}
    BY <1>7 DEF MoveAway, MoveIn, counters
  <2>2. \A f \in File : f > files' => f > files
    BY <2>1, AnswerFacts DEF File
  <2> QED BY <2>1, <2>2 DEF AnswersInv, ClosedAt, OwedAt, Ours
<1>8. CASE SwitchMode
  <2> DEFINE aborted == {s \in Slot : mode # "READ_ONLY" /\ up[s].active}
  <2>1. /\ Idle /\ commit' = commit /\ answers' = answers /\ ended' = ended /\ files' = files
        /\ modes' = modes + 1
        /\ up' = [s \in Slot |-> IF s \in aborted THEN Over(up[s], TRUE) ELSE up[s]]
    BY <1>8 DEF SwitchMode
  <2>2. modes' # 0
    BY <2>1, AnswerFacts
  <2>3. \A t \in Slot : /\ up'[t].id = up[t].id
                        /\ t \in aborted => up'[t].discard /\ up'[t].active = FALSE
                        /\ t \notin aborted => up'[t] = up[t]
    <3>1. \A u \in Uploads : Over(u, TRUE).discard /\ Over(u, TRUE).active = FALSE /\ Over(u, TRUE).id = u.id
      BY OverProperties DEF Over, NoUpload
    <3> QED BY <1>0, <2>1, <3>1
  <2>4. \A t \in Slot : ~Ours(t, Calls)'
    BY <1>1, <2>1 DEF Ours
  <2>5. ASSUME NEW t \in Slot
        PROVE  OwedAt(t)'
    <3>1. OwedAt(t) /\ ~Ours(t, Calls) /\ ~Ours(t, Calls)'
      BY <1>1, <2>1, <2>4 DEF AnswersInv
    <3>2. CASE t \in aborted
      BY <2>2, <2>3, <3>2 DEF OwedAt
    <3>3. CASE t \notin aborted
      BY <2>1, <2>2, <2>3, <3>1, <3>3 DEF OwedAt
    <3> QED BY <3>2, <3>3
  <2>6. \A t \in Slot : up'[t].id = up[t].id
    BY <2>3
  <2>7. \A f \in File : ClosedAt(f)'
    BY <2>2 DEF ClosedAt
  <2>8. \A f \in File : (answers[f] <= 1 /\ (f > files => answers[f] = 0 /\ f \notin ended))'
    BY <2>1 DEF AnswersInv
  <2>9. \A t, u \in Slot : up'[t].id = up'[u].id /\ up'[t].id # NoFile => t = u
    BY <2>6 DEF AnswersInv
  <2> QED BY <2>5, <2>7, <2>8, <2>9 DEF AnswersInv
<1>9. CASE Crash
  <2>1. /\ crashes' # 0 /\ answers' = answers /\ ended' = ended /\ files' = files
        /\ \A t \in Slot : up'[t] = NoUpload
    BY <1>9, AnswerFacts DEF Crash
  <2> QED BY <2>1, NoUploadType DEF AnswersInv, ClosedAt, OwedAt
<1>10. CASE UNCHANGED vars
  BY <1>10 DEF vars, history, counters, AnswersInv, ClosedAt, OwedAt, Ours
<1> QED BY <1>2, <1>3, <1>4, <1>5, <1>6, <1>7, <1>8, <1>9, <1>10 DEF Next
-----------------------------------------------------------------------------
(***************************************************************************)
(* The theorems.                                                           *)
(***************************************************************************)

\* The invariant holds in every behaviour in which no two clients write the same
\* path: it is what the code of ndp_agent_write.c relies on between two calls.
THEOREM UploadInvariant ==
  ASSUME OwnFiles
  PROVE  Spec => []IInv
<1>1. Init => IInv
  BY InitInv
<1>2. IInv /\ [Next]_vars => IInv'
  BY StepInv
<1> QED BY <1>1, <1>2, PTL DEF Spec

\* Every variable of the upload path keeps its type: no upload counts more bytes
\* than it announced.
THEOREM UploadTypes ==
  ASSUME OwnFiles
  PROVE  Spec => []TypeOK
<1>1. IInv => TypeOK
  BY DEF IInv
<1>2. Spec => []IInv
  BY UploadInvariant
<1> QED BY <1>1, <1>2, PTL

\* Only whole, verified files ever stand under a path, or are kept as its earlier
\* version: "replace the target only after size and hash are verified", through
\* crashes, failed calls, aborted uploads and commands of the other clients.
THEOREM UploadWholeFiles ==
  ASSUME OwnFiles
  PROVE  Spec => []WholeFiles
<1>1. IInv => WholeFiles
  BY DEF IInv, SafeInv, KeptInv, KeptAt, WholeFiles
<1>2. Spec => []IInv
  BY UploadInvariant
<1> QED BY <1>1, <1>2, PTL

\* The last file put under a path is always on the card, under the path or set
\* aside next to it.
THEOREM UploadNewestKept ==
  ASSUME OwnFiles
  PROVE  Spec => []NewestKept
<1>1. IInv => NewestKept
  BY DEF IInv, SafeInv
<1>2. Spec => []IInv
  BY UploadInvariant
<1> QED BY <1>1, <1>2, PTL

\* No step of any command, commit or crash replaces a file in place: under a path
\* that names a file, the next thing is that file or nothing.
THEOREM UploadNeverOverwritten ==
  ASSUME OwnFiles
  PROVE  Spec => NeverOverwritten
<1>1. IInv /\ [Next]_vars =>
        [\A p \in Path : dir[Target(p)] # NoFile => dir'[Target(p)] \in {dir[Target(p)], NoFile}]_vars
  BY StepSpares DEF Spared
<1>2. Spec => []IInv
  BY UploadInvariant
<1> QED BY <1>1, <1>2, PTL DEF Spec, NeverOverwritten

\* What the history of a card and of its uploads shows, beyond what the code
\* relies on.
HistoryInv == TargetInv /\ TempInv /\ AnswersInv

LEMMA InitHistory == Init => HistoryInv
<1> SUFFICES ASSUME Init PROVE HistoryInv
  OBVIOUS
<1>1. /\ \A s \in Slot : up[s].active = FALSE /\ up[s].id = NoFile
      /\ \A calls \in {Calls, {"restore"}, {"keep", "rename_bak", "drop"}}, s \in Slot : ~Ours(s, calls)
  BY NoUploadType, NoCommitType DEF Init, Ours, Calls
<1>2. \A p \in Path : dir[Target(p)] = NoFile /\ dir[Temp(p)] = NoFile /\ newest[p] = NoFile
  BY NamesDiffer DEF Init
<1>3. TargetInv
  BY <1>1, <1>2 DEF TargetInv
<1>4. TempInv
  BY <1>1, <1>2 DEF TempInv, NoForgottenTemp, PlacedAt
<1>5. AnswersInv
  BY <1>1 DEF Init, AnswersInv, ClosedAt, OwedAt
<1> QED BY <1>3, <1>4, <1>5 DEF HistoryInv

\* The history keeps its invariant, with the card, in every behaviour in which no
\* two clients write the same path.
THEOREM UploadHistory ==
  ASSUME OwnFiles
  PROVE  Spec => []HistoryInv
<1>1. Init => HistoryInv
  BY InitHistory
<1>2. IInv /\ HistoryInv /\ [Next]_vars => HistoryInv'
  BY TargetStep, TempStep, AnswersStep DEF HistoryInv
<1>3. Spec => []IInv
  BY UploadInvariant
<1> QED BY <1>1, <1>2, <1>3, PTL DEF Spec

\* A failed upload leaves the target as it was: between two requests the last file
\* put under a path is there, unless the power went or two calls failed.
THEOREM UploadTargetIntact ==
  ASSUME OwnFiles
  PROVE  Spec => []TargetIntact
<1>1. HistoryInv => TargetIntact
  BY NoCommitType DEF HistoryInv, TargetInv, TargetIntact, Idle, Ours, Calls
<1>2. Spec => []HistoryInv
  BY UploadHistory
<1> QED BY <1>1, <1>2, PTL

\* No upload gets two final answers, and one whose END was consumed gets one
\* before the next request, unless the power went or the mode changed.
THEOREM UploadAnsweredOnce ==
  ASSUME OwnFiles
  PROVE  Spec => []AnsweredOnce
<1>1. HistoryInv => AnsweredOnce
  BY NoCommitType DEF HistoryInv, AnswersInv, ClosedAt, AnsweredOnce, Idle, Ours
<1>2. Spec => []HistoryInv
  BY UploadHistory
<1> QED BY <1>1, <1>2, PTL

\* No way of ending an upload forgets its temporary file: what is on the card is a
\* running upload's, or a crash or a failed removal left it.
THEOREM UploadNoForgottenTemp ==
  ASSUME OwnFiles
  PROVE  Spec => []NoForgottenTemp
<1>1. HistoryInv => NoForgottenTemp
  BY DEF HistoryInv, TempInv
<1>2. Spec => []HistoryInv
  BY UploadHistory
<1> QED BY <1>1, <1>2, PTL
=============================================================================
