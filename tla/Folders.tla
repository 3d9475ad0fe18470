------------------------------ MODULE Folders ------------------------------
(***************************************************************************)
(* The folders of the card: FS_LIST page by page (ndp_agent_fs.c), and     *)
(* FS_MKDIR, FS_DELETE into the trash, FS_RENAME and FS_PURGE              *)
(* (ndp_agent_write.c), for the clients of two connections.                *)
(*                                                                         *)
(* A listing is a sequence of requests with a cursor; between them the     *)
(* agent keeps the folder open.  Each connection has an agent, and all of  *)
(* them share the one directory handle of the platform (p_dir_open), which *)
(* FS_PURGE opens too.  A purge removes a bounded number of items per      *)
(* request, and its client repeats it until nothing is left.               *)
(*                                                                         *)
(* A file or folder is a number, and so is its name: no two have one name. *)
(* A path is the sequence of names from the item up to the root.  Names    *)
(* are read from a folder in the order of their numbers.                   *)
(***************************************************************************)
EXTENDS Integers, Sequences, SequencesExt, FiniteSets, FiniteSetsExt

CONSTANTS
  Slot,         \* the connections of the server
  Nodes,        \* files and folders
  Folder,       \* those that are folders
  Trash,        \* the trash folder, under the root
  Start,        \* the tree the card has at first
  Ways,         \* folders outside the read roots that lead to one
  Hidden,       \* items a listing of a way does not show
  Lister,       \* the listings of the clients
  Purger,       \* the connections whose clients purge
  SlotOf,       \* the connection of a listing
  Wanted,       \* the folders it may list
  Apart,        \* TRUE: nobody opens a folder while the agent of another client keeps one open
  PageMax,      \* entries of a page (NDP_LIST_PAGE_MAX)
  ScanMax,      \* names read for a page of a way (NDP_TRAVERSAL_SCAN_MAX)
  Budget,       \* removals of one request (PURGE_BUDGET)
  MaxMoves,     \* bound: items created or moved
  MaxFaults     \* bound: calls of the file system that fail

Node == 1..Nodes
Root == 0
Gone == -1

ASSUME FoldersAssumption ==
  /\ Slot # {} /\ Nodes \in Nat /\ Folder \subseteq Node /\ Trash \in Folder
  /\ Start \in [Node -> Folder \cup {Root, Gone}] /\ Start[Trash] \in {Root, Gone}
  /\ Ways \subseteq Folder \cup {Root} /\ Hidden \subseteq Node
  /\ SlotOf \in [Lister -> Slot] /\ Wanted \in [Lister -> SUBSET (Folder \cup {Root})]
  /\ Purger \subseteq Slot /\ Apart \in BOOLEAN
  /\ PageMax \in Nat \ {0} /\ ScanMax \in Nat \ {0} /\ Budget \in Nat \ {0}
  /\ MaxMoves \in Nat /\ MaxFaults \in Nat

VARIABLES
  tree,       \* the folder every item is in; Root, or Gone when it does not exist
  stream,     \* the static handle: whether it is open, the folder it reads, the last name read
  dir,        \* per agent: the folder a listing keeps open (a->dir)
  listing,    \* per listing: what its client asks next, and what it has been told
  purging,    \* per connection: the purge its client repeats
  work,       \* the FS_PURGE that runs
  moves, faults

vars == <<tree, stream, dir, listing, purging, work, moves, faults>>

NoStream == [open |-> FALSE, of |-> Root, last |-> 0]
NoDir == [open |-> FALSE, path |-> <<>>, pos |-> 0]
NoListing == [phase |-> "off", path |-> <<>>, cursor |-> 0, seen |-> {}, changed |-> FALSE]
NoPurge == [phase |-> "off", path |-> <<>>]
NoWork == [slot |-> CHOOSE s \in Slot : TRUE, cur |-> <<>>, budget |-> 0]

Idle == work = NoWork
-----------------------------------------------------------------------------
(***************************************************************************)
(* Paths, and the folders of a tree.                                       *)
(***************************************************************************)

Children(t, d) == {n \in Node : t[n] = d}

PathOf(t, n) ==
  LET up[k \in 0..Nodes] ==
        IF k = 0 THEN <<n>>
        ELSE LET p == up[k - 1]
             IN  IF t[Last(p)] \in Node THEN Append(p, t[Last(p)]) ELSE p
  IN  IF n = Root THEN <<>> ELSE up[Nodes]

NodeAt(p) == IF p = <<>> THEN Root ELSE Head(p)

Present(t, p) == p # <<>> => PathOf(t, Head(p)) = p /\ t[Last(p)] = Root

\* The file system of the card is sound when the agent comes to it.
ASSUME StartAssumption == \A n \in Node : Start[n] # Gone => Present(Start, PathOf(Start, n))

TrashPath == <<Trash>>
Inside(p, q) == IsSuffix(q, p)                          \* ndp_path_inside

Failing(n) == faults + n <= MaxFaults /\ faults' = faults + n

\* The card becomes t.  (A listing of a folder that changes is told apart from
\* one of a folder that does not; no code does this.)
Becomes(t) ==
  /\ tree' = t
  /\ listing' = [l \in Lister |->
       LET p == listing[l].path
           same == Present(t, p) = Present(tree, p) /\ Children(t, NodeAt(p)) = Children(tree, NodeAt(p))
       IN  [listing[l] EXCEPT !.changed = @ \/ (listing[l].phase = "asking" /\ ~same)]]

Paths == UNION {[1..k -> Node] : k \in 0..Nodes}

TypeOK ==
  /\ tree \in [Node -> Folder \cup {Root, Gone}]
  /\ stream \in [open : BOOLEAN, of : Folder \cup {Root}, last : 0..Nodes]
  /\ dir \in [Slot -> [open : BOOLEAN, path : Seq(Node), pos : 0..Nodes]]
  /\ listing \in [Lister -> [phase : {"off", "asking", "complete"}, path : Seq(Node), cursor : 0..Nodes,
                             seen : SUBSET Node, changed : BOOLEAN]]
  /\ purging \in [Slot -> [phase : {"off", "asking", "complete"}, path : Seq(Node)]]
  /\ work \in [slot : Slot, cur : Seq(Node), budget : 0..Budget]
  /\ moves \in 0..MaxMoves /\ faults \in 0..MaxFaults

Init ==
  /\ tree = Start
  /\ stream = NoStream
  /\ dir = [s \in Slot |-> NoDir]
  /\ listing = [l \in Lister |-> NoListing]
  /\ purging = [s \in Slot |-> NoPurge]
  /\ work = NoWork
  /\ moves = 0 /\ faults = 0
-----------------------------------------------------------------------------
(***************************************************************************)
(* FS_LIST.                                                                *)
(***************************************************************************)

\* The client begins a listing.
BeginListing(l, d) ==
  /\ listing[l].phase # "asking"
  /\ Present(tree, PathOf(tree, d))
  /\ listing' = [listing EXCEPT ![l] = [NoListing EXCEPT !.phase = "asking", !.path = PathOf(tree, d)]]
  /\ UNCHANGED <<tree, stream, dir, purging, work, moves, faults>>

\* close_dir, on whatever the handle is by now.
Released(s) == [dir EXCEPT ![s] = NoDir]
Closed(s) == IF dir[s].open THEN NoStream ELSE stream

\* The agent has the folder open, at the cursor asked for.
KeepsOther(s, p, cursor) == dir[s].open /\ dir[s].pos = cursor                \* mutant: path not compared
Keeps(s, p, cursor) == dir[s].open /\ dir[s].pos = cursor /\ dir[s].path = p

\* dir_open, and the names before the cursor read again.
Reopened(d, cursor) ==
  LET skipped == {n \in Children(tree, d) : Cardinality({m \in Children(tree, d) : m < n}) < cursor}
  IN  [open |-> TRUE, of |-> d, last |-> Max(skipped \cup {0})]
Skipped(d, cursor) == Min({cursor, Cardinality(Children(tree, d))})

Shown(d, n) == d \notin Ways \/ n \notin Hidden

\* The names one page reads, in the order the handle gives them; what a closed
\* handle gives is undefined.
Left(h) == {n \in Children(tree, h.of) : n > h.last}
Room(h, d, before) ==
  /\ Cardinality({n \in before : Shown(d, n)}) < PageMax
  /\ d \in Ways => Cardinality(before) < ScanMax
Read(h, d) == {n \in Left(h) : Room(h, d, {m \in Left(h) : m < n})}
Reads(h, d) == IF h.open THEN {Read(h, d)} ELSE SUBSET Node
Ends(h, d, read) == IF h.open THEN {read = Left(h) /\ Room(h, d, read)} ELSE BOOLEAN

\* A page of the handle h, whose position is pos.
Page(l, h, pos) ==
  LET s == SlotOf[l]
      p == listing[l].path
      d == NodeAt(p)
  IN  \E read \in Reads(h, d) : \E end \in Ends(h, d, read) :
        LET after == Min({pos + Cardinality(read), Nodes})
            seen == listing[l].seen \cup {n \in read : Shown(d, n)}
        IN  /\ listing' = [listing EXCEPT ![l] =
                 IF end THEN [NoListing EXCEPT !.phase = "complete", !.cursor = after, !.seen = seen]
                 ELSE [@ EXCEPT !.cursor = after, !.seen = seen]]
            /\ dir' = [dir EXCEPT ![s] = IF end THEN NoDir ELSE [open |-> TRUE, path |-> p, pos |-> after]]
            /\ stream' = IF end \/ ~h.open THEN NoStream ELSE [h EXCEPT !.last = Max(read \cup {@})]

Refuse(l) ==
  /\ stream' = Closed(SlotOf[l])
  /\ dir' = Released(SlotOf[l])
  /\ listing' = [listing EXCEPT ![l] = NoListing]

List(l) ==
  LET s == SlotOf[l]
      p == listing[l].path
      cursor == listing[l].cursor
  IN  /\ Idle
      /\ listing[l].phase = "asking"
      /\ Apart => \A o \in Slot : purging[o].phase # "asking" /\ (dir[o].open => o = s)
      /\ \/ /\ ~Present(tree, p)
            /\ Refuse(l)
            /\ Failing(0)
         \/ /\ Present(tree, p) /\ Keeps(s, p, cursor)
            /\ Page(l, stream, cursor)
            /\ Failing(0)
         \/ /\ Present(tree, p) /\ ~Keeps(s, p, cursor)
            /\ Page(l, Reopened(NodeAt(p), cursor), Skipped(NodeAt(p), cursor))
            /\ Failing(0)
         \/ /\ Present(tree, p)                         \* dir_open or dir_next failed
            /\ Refuse(l)
            /\ Failing(1)
      /\ UNCHANGED <<tree, purging, work, moves>>
-----------------------------------------------------------------------------
(***************************************************************************)
(* FS_MKDIR, FS_DELETE, FS_RENAME.                                         *)
(***************************************************************************)

Move ==
  /\ Idle
  /\ moves < MaxMoves
  /\ moves' = moves + 1
  /\ UNCHANGED <<stream, dir, purging, work>>

Mkdir(n, d) ==
  /\ Move
  /\ n # Trash /\ tree[n] = Gone
  /\ Present(tree, PathOf(tree, d)) /\ ~Inside(PathOf(tree, d), TrashPath)
  /\ Failing(0)
  /\ Becomes([tree EXCEPT ![n] = d])

\* "MOVING the item (file or whole directory) into <write root>/.ndp-trash", a
\* folder made when it is first needed.
Delete(n) ==
  /\ Move
  /\ Present(tree, PathOf(tree, n)) /\ ~Inside(PathOf(tree, n), TrashPath)
  /\ \/ Failing(0) /\ Becomes([tree EXCEPT ![Trash] = Root, ![n] = Trash])
     \/ Failing(1) /\ Becomes([tree EXCEPT ![Trash] = Root])         \* the rename failed

IntoItself(n, d) == FALSE                               \* mutant: not refused
Swallows(n, d) == Inside(PathOf(tree, d), PathOf(tree, n))

\* FS_RENAME: never into the trash, never a folder into itself; out of the trash
\* is how an item is restored.
Rename(n, d) ==
  /\ Move
  /\ n # Trash
  /\ Present(tree, PathOf(tree, n)) /\ Present(tree, PathOf(tree, d))
  /\ ~Inside(PathOf(tree, d), TrashPath)
  /\ ~Swallows(n, d)
  /\ tree[n] # d
  /\ Failing(0)
  /\ Becomes([tree EXCEPT ![n] = d])
-----------------------------------------------------------------------------
(***************************************************************************)
(* FS_PURGE.                                                               *)
(***************************************************************************)

BeginPurge(s, n) ==
  /\ purging[s].phase # "asking"
  /\ Apart => ~stream.open
  /\ Present(tree, PathOf(tree, n))
  /\ purging' = [purging EXCEPT ![s] = [phase |-> "asking", path |-> PathOf(tree, n)]]
  /\ UNCHANGED <<tree, stream, dir, listing, work, moves, faults>>

Stop(s) == purging' = [purging EXCEPT ![s] = NoPurge]
Finish(s) == purging' = [purging EXCEPT ![s] = [NoPurge EXCEPT !.phase = "complete"]]
AnswerMore(s) == UNCHANGED purging                      \* mutant: "more" of an empty trash
AnswerDone(s) == Finish(s)
Repeat(s) == UNCHANGED purging

Anywhere(p) == TRUE                                     \* mutant: outside the trash too
Purgeable(p) == Inside(p, TrashPath)

\* A request: refused, or a file deleted, or a folder emptied in steps.
Purge(s) ==
  LET p == purging[s].path
      n == NodeAt(p)
  IN  /\ Idle
      /\ purging[s].phase = "asking"
      /\ \/ /\ ~Purgeable(p) \/ ~Present(tree, p)
            /\ Stop(s)
            /\ Failing(0)
            /\ UNCHANGED <<tree, listing, work>>
         \/ /\ Purgeable(p) /\ Present(tree, p) /\ n \notin Folder
            /\ \/ Finish(s) /\ Failing(0) /\ Becomes([tree EXCEPT ![n] = Gone])
               \/ Stop(s) /\ Failing(1) /\ UNCHANGED <<tree, listing>>
            /\ UNCHANGED work
         \/ /\ Purgeable(p) /\ Present(tree, p) /\ n \in Folder
            /\ work' = [slot |-> s, cur |-> p, budget |-> Budget]
            /\ Failing(0)
            /\ UNCHANGED <<tree, listing, purging>>
      /\ UNCHANGED <<stream, dir, moves>>

Spend == [work EXCEPT !.budget = @ - 1]

\* One turn of the loop: the handle is opened, one name read, and closed.
Turn ==
  LET s == work.slot
      p == purging[s].path
      d == NodeAt(work.cur)
      here == Children(tree, d)
      Destroy(n, then) ==
        \/ Failing(0) /\ Becomes([tree EXCEPT ![n] = Gone]) /\ then
        \/ Failing(1) /\ Stop(s) /\ work' = NoWork /\ UNCHANGED <<tree, listing>>
  IN  /\ ~Idle
      /\ work.budget > 0
      /\ \/ /\ here # {}
            /\ \/ /\ Min(here) \in Folder
                  /\ work' = [work EXCEPT !.cur = <<Min(here)>> \o @]
                  /\ Failing(0)
                  /\ UNCHANGED <<tree, listing, purging>>
               \/ /\ Min(here) \notin Folder
                  /\ Destroy(Min(here), work' = Spend /\ UNCHANGED purging)
         \/ /\ here = {}
            /\ \/ /\ work.cur = p /\ p = TrashPath
                  /\ AnswerDone(s) /\ work' = NoWork
                  /\ Failing(0)
                  /\ UNCHANGED <<tree, listing>>
               \/ /\ work.cur = p /\ p # TrashPath
                  /\ Destroy(d, AnswerDone(s) /\ work' = NoWork)
               \/ /\ work.cur # p
                  /\ Destroy(d, work' = [Spend EXCEPT !.cur = Tail(@)] /\ UNCHANGED purging)
         \/ /\ Stop(s) /\ work' = NoWork                    \* dir_open or dir_next failed
            /\ Failing(1)
            /\ UNCHANGED <<tree, listing>>
      /\ stream' = NoStream
      /\ UNCHANGED <<dir, moves>>

\* The budget is spent: "more", and the client repeats the request.
Pause ==
  /\ ~Idle
  /\ work.budget = 0
  /\ work' = NoWork
  /\ Repeat(work.slot)
  /\ UNCHANGED <<tree, stream, dir, listing, moves, faults>>
-----------------------------------------------------------------------------
(***************************************************************************)
(* Connections and power.                                                  *)
(***************************************************************************)

Disconnect(s) ==
  /\ Idle
  /\ dir[s].open \/ purging[s].phase = "asking"
  /\ stream' = Closed(s)
  /\ dir' = Released(s)
  /\ listing' = [l \in Lister |-> IF SlotOf[l] = s THEN NoListing ELSE listing[l]]
  /\ Stop(s)
  /\ UNCHANGED <<tree, work, moves, faults>>

Crash ==
  /\ stream' = NoStream
  /\ dir' = [s \in Slot |-> NoDir]
  /\ listing' = [l \in Lister |-> NoListing]
  /\ purging' = [s \in Slot |-> NoPurge]
  /\ work' = NoWork
  /\ UNCHANGED <<tree, moves, faults>>

Next ==
  \/ \E l \in Lister : List(l) \/ \E d \in Wanted[l] : BeginListing(l, d)
  \/ \E d \in Folder \cup {Root} : \/ \E n \in Folder : Mkdir(n, d)
                                   \/ \E n \in Node : Rename(n, d)
  \/ \E n \in Node : Delete(n)
  \/ \E s \in Purger : Purge(s) \/ \E n \in Node : BeginPurge(s, n)
  \/ \E s \in Slot : Disconnect(s)
  \/ Turn
  \/ Pause
  \/ Crash

\* A handler that runs goes on; the loop of the server comes to every connection
\* that has a request waiting.
Fairness ==
  /\ WF_vars(Turn \/ Pause)
  /\ \A s \in Purger : SF_vars(Purge(s))

Spec == Init /\ [][Next]_vars /\ Fairness
-----------------------------------------------------------------------------
(***************************************************************************)
(* Properties.                                                             *)
(***************************************************************************)

\* The handle of the platform is the one of the agent that uses it: "one directory
\* open at a time (the agent keeps at most one)" (ndp_posix_fs.c:82).
HandleSound ==
  \A s \in Slot : dir[s].open => /\ stream.open /\ stream.of = NodeAt(dir[s].path)
                                 /\ \A o \in Slot \ {s} : ~dir[o].open

\* A listing that completes has shown every item of its folder that may be seen,
\* each once and nothing else, however many requests it took and whatever was
\* listed between them, if the folder did not change meanwhile.
ListingExact ==
  [][\A l \in Lister :
       LET d == NodeAt(listing[l].path)
       IN  /\ listing[l].phase = "asking" /\ listing'[l].phase = "complete" /\ ~listing[l].changed
           => /\ listing'[l].seen = {n \in Children(tree, d) : Shown(d, n)}
              /\ listing'[l].cursor = Cardinality(Children(tree, d))]_vars

\* Every item that exists can be reached from the root: no move, removal or
\* power loss detaches a folder, or leaves the content of one that is gone.
NoOrphans == \A n \in Node : tree[n] # Gone => Present(tree, PathOf(tree, n))

\* Only what a client asked to purge is destroyed, and only in the trash: "permanent
\* deletion, ONLY of what is inside a trash" (ndp_agent_write.c), although items
\* leave and enter the trash between the requests of one purge.
OnlyTrashPurged ==
  [][\A n \in Node : tree[n] # Gone /\ tree'[n] = Gone =>
       LET p == PathOf(tree, n)
       IN  Inside(p, TrashPath) /\ \E s \in Slot : purging[s].phase = "asking" /\ Inside(p, purging[s].path)]_vars

\* A purge whose client is told that nothing is left has left nothing.
PurgeComplete ==
  [][\A s \in Slot : purging[s].phase = "asking" /\ purging'[s].phase = "complete" =>
       LET p == purging[s].path
       IN  IF p = TrashPath THEN Children(tree', Trash) = {} ELSE tree'[NodeAt(p)] = Gone]_vars

\* "the caller repeats the same request until it says 0": every purge ends.
PurgeEnds == \A s \in Slot : purging[s].phase = "asking" ~> purging[s].phase # "asking"
=============================================================================
