------------------------------- MODULE Access -------------------------------
(***************************************************************************)
(* The folders the console's owner opens to the clients: the list          *)
(* (ndp_access.c), its file (ndp_access_file.c), the menu that edits it    *)
(* (access_ui.c of the 3DS and of the DSi, the same code), the policy made *)
(* of it and the copies of that policy the agents of the connections       *)
(* enforce (ndp_server_set_policy, ndp_agent_init).                        *)
(***************************************************************************)
EXTENDS Policy, SequencesExt, FiniteSetsExt

CONSTANTS
  Slot,         \* the connections of the server
  Path,         \* the paths asked about
  Order,        \* the names of folders, as the menu sorts them
  Start,        \* the folders the card has at first
  Loose,        \* those that come and go
  AccessMax,    \* entries of the list (NDP_ACCESS_MAX)
  Page,         \* rows L and R move by
  MaxFaults     \* bound: saves that fail, damage to the file

ASSUME AccessAssumption ==
  /\ Slot # {} /\ Path \subseteq Seq(Name) /\ Order \in Seq(Name)
  /\ Start \subseteq Seq(Name) /\ Loose \subseteq Seq(Name)
  /\ AccessMax \in Nat /\ AccessMax < PolicyMax         \* 6 and 8
  /\ Page \in Nat \ {0} /\ MaxFaults \in Nat
  \* the agent's own folder is in no zone that is never read
  /\ ~NeverReadable(Workspace)
  \* what is never read lies in a zone nothing lifts: nobody writes what nobody reads
  /\ \A z \in NeverRead : \E w \in NeverWrite :
       Inside(z, w) /\ \A e \in WriteExcept : Inside(e, w) => Inside(w, e)

VARIABLES
  list,       \* g_access: the opened folders
  file,       \* the list the card holds, or Damaged
  policy,     \* the policy in force (s->policy)
  agents,     \* per connection: its agent's own copy of the policy and of the mode
  mode,       \* agent_cfg.mode
  menu,       \* the menu: the folder it shows, its rows as they were read, the row chosen
  dirs,       \* the folders of the card
  faults

vars == <<list, file, policy, agents, mode, menu, dirs, faults>>

Damaged == << [path |-> <<>>, level |-> NONE] >>        \* no file of ndp_access_serialize
Closed == [open |-> FALSE, path |-> <<>>, rows |-> {}, sel |-> 0]
-----------------------------------------------------------------------------
(***************************************************************************)
(* The list.                                                               *)
(***************************************************************************)
Same(p, q) == Inside(p, q) /\ Inside(q, p)

FindAround(l, p) ==                                     \* mutant: an entry around p is taken for p's
  IF \E i \in DOMAIN l : Inside(p, l[i].path) THEN Min({i \in DOMAIN l : Inside(p, l[i].path)}) ELSE 0
FindEntry(l, p) ==
  IF \E i \in DOMAIN l : Same(p, l[i].path) THEN Min({i \in DOMAIN l : Same(p, l[i].path)}) ELSE 0

Explicit(l, p) == IF FindEntry(l, p) = 0 THEN NONE ELSE l[FindEntry(l, p)].level

Given(l, p, skip, level) ==
  Inside(p, Workspace) \/ \E i \in DOMAIN l : i # skip /\ l[i].level >= level /\ Inside(p, l[i].path)
LevelFrom(l, p, skip) ==
  IF Given(l, p, skip, WRITE) THEN WRITE ELSE IF Given(l, p, skip, READ) THEN READ ELSE NONE

Allowed(p, level) ==
  /\ level # NONE => ~NeverReadable(p)
  /\ level = WRITE => ~WriteProtected(p)

\* ndp_access_level: the level of p the menu goes by
Level(l, p) ==
  LET eff == LevelFrom(l, p, 0)
      cap == IF eff = WRITE /\ ~Allowed(p, WRITE) THEN READ ELSE eff
  IN  IF Allowed(p, READ) THEN cap ELSE NONE

\* ndp_access_next: the level after the explicit one among those that would change something
NextLevel(l, p) ==
  LET now == Explicit(l, p)
      useful == {v \in {READ, WRITE} : v > LevelFrom(l, p, FindEntry(l, p)) /\ Allowed(p, v)}
      above == {v \in useful : v > now}
  IN  IF above = {} \/ now \notin useful \cup {NONE} THEN NONE ELSE Min(above)

\* ndp_access_set: the list that results, and whether it was accepted
NothingRemoved(l, p, level) ==                          \* mutant: the entry stays, closed
  LET i == FindEntry(l, p)
  IN  IF ~Normal(p) \/ ~Allowed(p, level) THEN <<FALSE, l>>
      ELSE IF i # 0 THEN <<TRUE, [l EXCEPT ![i].level = level]>>
      ELSE IF Len(l) >= AccessMax THEN <<FALSE, l>>
      ELSE <<TRUE, Append(l, [path |-> p, level |-> level])>>
Set(l, p, level) ==
  LET i == FindEntry(l, p)
  IN  IF ~Normal(p) \/ ~Allowed(p, level) THEN <<FALSE, l>>
      ELSE IF level = NONE THEN <<TRUE, IF i = 0 THEN l ELSE RemoveAt(l, i)>>
      ELSE IF i # 0 THEN <<TRUE, [l EXCEPT ![i].level = level]>>
      ELSE IF Len(l) >= AccessMax THEN <<FALSE, l>>
      ELSE <<TRUE, Append(l, [path |-> p, level |-> level])>>

ToPolicy(l) == Listed(<< [path |-> Workspace, level |-> WRITE] >> \o l)

\* ndp_access_parse refuses any entry ndp_access_set would
Accepted(l) ==
  /\ Len(l) <= AccessMax
  /\ \A i \in DOMAIN l :
       /\ l[i].level \in {READ, WRITE} /\ Normal(l[i].path) /\ Allowed(l[i].path, l[i].level)
       /\ \A j \in 1..(i - 1) : ~Same(l[i].path, l[j].path)
Parse(l) == IF Accepted(l) THEN l ELSE <<>>
-----------------------------------------------------------------------------
(***************************************************************************)
(* The server and its connections.                                         *)
(***************************************************************************)
Copy(p, m) == [policy |-> p, mode |-> m]

Init ==
  /\ list = <<>> /\ file = <<>>
  /\ policy = ToPolicy(<<>>) /\ agents = [s \in Slot |-> Copy(ToPolicy(<<>>), "READ_ONLY")]
  /\ mode = "READ_ONLY" /\ menu = Closed /\ dirs = Start /\ faults = 0

\* ndp_server_set_policy
OnlyNewClients(l) == policy' = ToPolicy(l) /\ UNCHANGED agents               \* mutant: the live agents keep theirs
SetPolicy(l) ==
  /\ policy' = ToPolicy(l)
  /\ agents' = [s \in Slot |-> [agents[s] EXCEPT !.policy = ToPolicy(l)]]

\* A client connects: its agent starts from the server's settings.
Connect(s) ==
  /\ agents' = [agents EXCEPT ![s] = Copy(policy, mode)]
  /\ UNCHANGED <<list, file, policy, mode, menu, dirs, faults>>

\* X outside the menu.
SetMode ==
  /\ ~menu.open
  /\ mode' = IF mode = "READ_ONLY" THEN "DEVELOPMENT" ELSE "READ_ONLY"
  /\ agents' = [s \in Slot |-> [agents[s] EXCEPT !.mode = mode']]
  /\ UNCHANGED <<list, file, policy, menu, dirs, faults>>

\* The agent starts again: it reads the file before it serves anyone.
Boot ==
  /\ list' = Parse(file)
  /\ policy' = ToPolicy(Parse(file)) /\ agents' = [s \in Slot |-> Copy(policy', "READ_ONLY")]
  /\ mode' = "READ_ONLY" /\ menu' = Closed
  /\ UNCHANGED <<file, dirs, faults>>

Damage ==
  /\ faults < MaxFaults /\ faults' = faults + 1
  /\ file' = Damaged
  /\ UNCHANGED <<list, policy, agents, mode, menu, dirs>>

\* Folders come and go while the menu shows them.
CardChanges(d) ==
  /\ dirs' = IF d \in dirs THEN {e \in dirs : ~Inside(e, d)} ELSE dirs \cup {d}
  /\ d \in dirs \/ (Front(d) \in dirs \cup {<<>>} /\ \A e \in dirs : ~Same(d, e))
  /\ UNCHANGED <<list, file, policy, agents, mode, menu, faults>>
-----------------------------------------------------------------------------
(***************************************************************************)
(* The menu.                                                               *)
(***************************************************************************)

\* load_dir: the folders of p, each by its place in Order; the cursor is on one
\* of them or, 0, on "." (a card has no two names that differ in case only)
Rows(p) == {i \in DOMAIN Order : \E d \in dirs : Len(d) = Len(p) + 1 /\ Inside(d, p) /\ Last(d) = Order[i]}
Shown(p, name) ==
  LET at == {i \in Rows(p) : \E n \in name : Fold[Order[i]] = Fold[n]}
  IN  [open |-> TRUE, path |-> p, rows |-> Rows(p), sel |-> IF at = {} THEN 0 ELSE CHOOSE i \in at : TRUE]

RowPath(m) == IF m.sel = 0 THEN m.path ELSE Append(m.path, Order[m.sel])

Open ==
  /\ ~menu.open
  /\ menu' = Shown(<<>>, {})
  /\ UNCHANGED <<list, file, policy, agents, mode, dirs, faults>>

\* One row or a page, up or down, as far as there are rows.
Move ==
  LET between(i, j) == {r \in menu.rows : i < r /\ r <= j}
      down(i) == Cardinality(between(menu.sel, i))
      up(i) == Cardinality(between(i, menu.sel))
  IN  /\ menu.open
      /\ \E i \in menu.rows \cup {0}, k \in {1, Page} :
           /\ \/ i >= menu.sel /\ (down(i) = k \/ (down(i) < k /\ between(i, Len(Order)) = {}))
              \/ i <= menu.sel /\ (up(i) = k \/ (up(i) < k /\ i = 0))
           /\ menu' = [menu EXCEPT !.sel = i]
      /\ UNCHANGED <<list, file, policy, agents, mode, dirs, faults>>

Enter ==
  /\ menu.open /\ menu.sel > 0
  /\ menu' = Shown(RowPath(menu), {})
  /\ UNCHANGED <<list, file, policy, agents, mode, dirs, faults>>

Back ==
  /\ menu.open
  /\ menu' = IF menu.path = <<>> THEN Closed ELSE Shown(Front(menu.path), {Last(menu.path)})
  /\ UNCHANGED <<list, file, policy, agents, mode, dirs, faults>>

\* START
Close ==
  /\ menu.open
  /\ menu' = Closed
  /\ UNCHANGED <<list, file, policy, agents, mode, dirs, faults>>

\* access_changed: the policy is in force whether or not the card takes the list.
Changed(l) ==
  /\ list' = l
  /\ SetPolicy(l)
  /\ \/ file' = l /\ UNCHANGED faults
     \/ faults < MaxFaults /\ faults' = faults + 1 /\ UNCHANGED file

\* Y on the chosen row.
CycleSelected ==
  LET p == RowPath(menu)
      next == NextLevel(list, p)
      set == Set(list, p, next)
  IN  /\ menu.open
      /\ next # Explicit(list, p) /\ set[1]
      /\ Changed(set[2])
      /\ UNCHANGED <<mode, menu, dirs>>

Next ==
  \/ \E s \in Slot : Connect(s)
  \/ SetMode \/ Boot \/ Damage
  \/ \E d \in Loose : CardChanges(d)
  \/ Open \/ Move \/ Enter \/ Back \/ Close
  \/ CycleSelected

Spec == Init /\ [][Next]_vars
-----------------------------------------------------------------------------
(***************************************************************************)
(* Properties.                                                             *)
(***************************************************************************)
\* The level the menu goes by is what every agent does with the path: after an
\* edit, a client that connects, a new mode, a full list, a restart with a
\* damaged file ("the level the agent will really allow", ndp_access.h:36).
Rights(a, p) == {v \in {READ, WRITE} : Check(a.policy, a.mode, v, p) = "OK"}
LevelIsReal ==
  \A s \in Slot : \A p \in Path : Normal(p) =>
    Rights(agents[s], p) =
      {v \in {READ, WRITE} : v <= Level(list, p) /\ (v = WRITE => mode # "READ_ONLY")}

\* A listing shows a folder just when something in it may be read, and just
\* those folders may be listed: a client finds its way to every folder it may
\* read, meets none it cannot enter, and learns of no other.
ListingsLeadThere ==
  \A s \in Slot : \A p \in Path :
    LET somethingToRead ==
          \E q \in Path : Inside(q, p) /\ ~NeverReadable(q) /\ InAny(agents[s].policy, READ, q)
    IN  /\ ChildVisible(agents[s].policy, p) <=> somethingToRead
        /\ Normal(p) => (MayList(agents[s].policy, agents[s].mode, p) <=> somethingToRead)

\* Y changes what clients may do in the chosen folder and what it contains,
\* and nowhere else, whatever other entries the list has.
OnlyThatFolder ==
  [][ CycleSelected =>
        \A p \in Path : ~Inside(p, RowPath(menu)) => Level(list', p) = Level(list, p) ]_vars

\* A file the menu wrote is one a restart accepts whole: no sequence of edits
\* makes a list that is refused, and with it every folder closed.
SavedIsAccepted == file # Damaged => Accepted(file)

=============================================================================
