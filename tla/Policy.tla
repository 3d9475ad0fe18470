------------------------------- MODULE Policy -------------------------------
(***************************************************************************)
(* Paths (ndp_path.c), the protected zones and the access policy an agent  *)
(* asks for every path (ndp_policy.c).                                     *)
(*                                                                         *)
(* A path is the sequence of its names from the root: / is <<>>.  Fold     *)
(* gives the spelling of a name in lower case.                             *)
(***************************************************************************)
EXTENDS Integers, Sequences

CONSTANTS
  Name,         \* names of files and folders, in every spelling
  Fold,         \* the lower case of a name
  BadName,      \* those no path may hold (bad_component)
  Workspace,    \* the agent's own folder
  NeverRead,    \* the zones of the platform: never read,
  NeverWrite,   \* never written,
  WriteExcept,  \* and writable although inside a zone that is not
  PolicyMax     \* roots of a policy (NDP_POLICY_MAX_ENTRIES)

ASSUME PolicyAssumption ==
  /\ Fold \in [Name -> Name] /\ BadName \subseteq Name
  /\ Workspace \in Seq(Name \ BadName)
  /\ NeverRead \subseteq Seq(Name) /\ NeverWrite \subseteq Seq(Name) /\ WriteExcept \subseteq Seq(Name)
  /\ PolicyMax \in Nat

NONE == 0
READ == 1
WRITE == 2

Mode == {"READ_ONLY", "DEVELOPMENT"}
-----------------------------------------------------------------------------
Inside(p, r) ==
  /\ Len(r) <= Len(p)
  /\ \A i \in 1..Len(r) : Fold[p[i]] = Fold[r[i]]

Normal(p) == \A i \in DOMAIN p : p[i] \notin BadName

\* A zone protects what lies in it, except inside an exception deeper than it.
Lifted(p, z) ==
  \E e \in WriteExcept : Inside(p, e) /\ Inside(e, z) /\ ~Inside(z, e)
WriteProtected(p) == \E z \in NeverWrite : Inside(p, z) /\ ~Lifted(p, z)

NeverReadable(p) == \E z \in NeverRead : Inside(p, z)
-----------------------------------------------------------------------------
(***************************************************************************)
(* A policy lists its roots; a root to write is one to read as well.       *)
(***************************************************************************)
Root == [path : Seq(Name), level : {READ, WRITE}]

DefaultPolicy == << [path |-> <<>>, level |-> READ], [path |-> Workspace, level |-> WRITE] >>

\* ndp_pathlist_add, one after the other
Listed(roots) == SubSeq(roots, 1, IF Len(roots) < PolicyMax THEN Len(roots) ELSE PolicyMax)

InAny(policy, level, p) ==
  \E i \in DOMAIN policy : policy[i].level >= level /\ Inside(p, policy[i].path)

Check(policy, mode, level, p) ==
  IF ~Normal(p) THEN "PATH_INVALID"
  ELSE IF level = WRITE /\ mode = "READ_ONLY" THEN "FORBIDDEN_MODE"
  ELSE IF IF level = WRITE THEN WriteProtected(p) ELSE NeverReadable(p) THEN "PROTECTED_PATH"
  ELSE IF ~InAny(policy, level, p) THEN "PROTECTED_PATH" ELSE "OK"

\* A folder above a root: what a listing of it shows leads there.
Traversable(policy, p) ==
  /\ ~NeverReadable(p)
  /\ \E i \in DOMAIN policy : Inside(policy[i].path, p) /\ ~Inside(p, policy[i].path)

\* resolve_path of FS_LIST and FS_STAT
MayList(policy, mode, p) ==
  LET verdict == Check(policy, mode, READ, p)
  IN  verdict = "OK" \/ (verdict = "PROTECTED_PATH" /\ Normal(p) /\ Traversable(policy, p))

RootsOnly(policy, p) == ~NeverReadable(p) /\ InAny(policy, READ, p)    \* mutant: the way to a root is hidden
ChildVisible(policy, p) ==
  ~NeverReadable(p) /\ (InAny(policy, READ, p) \/ Traversable(policy, p))
=============================================================================
