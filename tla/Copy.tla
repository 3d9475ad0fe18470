-------------------------------- MODULE Copy --------------------------------
(***************************************************************************)
(* FS_COPY (ndp_agent_copy) and the clients that repeat it (copy() of      *)
(* client.ts).  Each request appends a bounded part of the source to       *)
(* "<dest>.ndp-tmp", whose size is all that is remembered of a copy; the   *)
(* one that reaches the size of the source renames it into place.  Calls   *)
(* of the file system fail, answers come too late, connections and power   *)
(* are lost, and other commands change the files between two requests.     *)
(*                                                                         *)
(* A handler runs alone, but power may go between its calls: it is Ask,    *)
(* then Write once per block, then More, or Sync and Place.                *)
(***************************************************************************)
EXTENDS Integers, Sequences

CONSTANTS
  Client,       \* those that copy, each on a connection
  Source, Dest, \* the files they copy, and the paths they copy them to
  Wants,        \* the destinations of each
  Sizes,        \* the sizes a source may have, in blocks
  Budget,       \* blocks one request copies (COPY_BUDGET)
  MaxCopies,    \* bound: copies begun
  MaxEdits,     \* bound: changes that other commands make
  MaxFaults     \* bound: calls that fail and answers that come too late

ASSUME CopyAssumption ==
  /\ Client # {} /\ Source # {} /\ Dest # {}
  /\ Wants \in [Client -> SUBSET Dest]
  /\ Sizes \subseteq Nat /\ Budget \in Nat \ {0}
  /\ MaxCopies \in Nat /\ MaxEdits \in Nat /\ MaxFaults \in Nat

VARIABLES
  source,     \* the file of every source
  temp,       \* the file "<dest>.ndp-tmp" of every destination
  dest,       \* the file of every destination
  copy,       \* what each client is doing
  work,       \* the request that runs
  promise,    \* history: what the copy that made a destination was to give
  cut,        \* history: destinations to which a copy was cut off
  copies, edits, faults

vars == <<source, temp, dest, copy, work, promise, cut, copies, edits, faults>>

\* A file is a sequence of blocks; a block tells its file, and the edit that wrote it.
Block == (Source \cup Dest) \X (0..MaxEdits)
Content(x, v, n) == [there |-> TRUE, data |-> [i \in 1..n |-> <<x, v>>], synced |-> TRUE]
NoFile == [there |-> FALSE, data |-> <<>>, synced |-> TRUE]
Cut(file, n) == IF n < Len(file.data) THEN [file EXCEPT !.data = SubSeq(@, 1, n)] ELSE file

\* What a copy is to give: "sure" while its source has not changed, "firm" while
\* the code has passed over no failure.
NoPromise == [due |-> <<>>, sure |-> FALSE, firm |-> FALSE]
NoCopy == [phase |-> "off", first |-> FALSE, from |-> CHOOSE f \in Source : TRUE,
           to |-> CHOOSE d \in Dest : TRUE, gives |-> NoPromise]
NoWork == [at |-> "idle", by |-> CHOOSE c \in Client : TRUE, start |-> 0, pos |-> 0, left |-> 0]

Idle == work.at = "idle"
Running(c) == copy[c].phase \in {"asking", "dropping"}
Failing(n) == faults + n <= MaxFaults /\ faults' = faults + n

File == [there : BOOLEAN, data : Seq(Block), synced : BOOLEAN]
Promise == [due : Seq(Block), sure : BOOLEAN, firm : BOOLEAN]

TypeOK ==
  /\ source \in [Source -> File] /\ temp \in [Dest -> File] /\ dest \in [Dest -> File]
  /\ copy \in [Client -> [phase : {"off", "asking", "dropping", "complete"}, first : BOOLEAN,
                          from : Source, to : Dest, gives : Promise]]
  /\ work \in [at : {"idle", "write", "place"}, by : Client, start : Nat, pos : Nat, left : 0..Budget]
  /\ ~Idle => work.start <= work.pos /\ work.pos <= Len(source[copy[work.by].from].data)
  /\ promise \in [Dest -> Promise] /\ cut \in SUBSET Dest
  /\ copies \in 0..MaxCopies /\ edits \in 0..MaxEdits /\ faults \in 0..MaxFaults

Init ==
  /\ \E size \in [Source -> Sizes] : source = [f \in Source |-> Content(f, 0, size[f])]
  /\ temp = [d \in Dest |-> NoFile] /\ dest = [d \in Dest |-> NoFile]
  /\ copy = [c \in Client |-> NoCopy]
  /\ work = NoWork
  /\ promise = [d \in Dest |-> NoPromise] /\ cut = {}
  /\ copies = 0 /\ edits = 0 /\ faults = 0
-----------------------------------------------------------------------------
(***************************************************************************)
(* The client: mode 1 in the first request, 0 in the next ones, and 2 when *)
(* a later one fails or is aborted.                                        *)
(***************************************************************************)

BeginCopy(c, f, d) ==
  /\ ~Running(c) /\ copies < MaxCopies
  /\ copies' = copies + 1
  /\ copy' = [copy EXCEPT ![c] = [phase |-> "asking", first |-> TRUE, from |-> f, to |-> d,
                                  gives |-> [due |-> source[f].data, sure |-> TRUE, firm |-> TRUE]]]
  /\ UNCHANGED <<source, temp, dest, work, promise, cut, edits, faults>>

GiveUpOnly(c) == copy' = [copy EXCEPT ![c].phase = "off"]        \* mutant: never drops the partial copy
GiveUp(c) == copy' = [copy EXCEPT ![c].phase = IF @ = "asking" /\ ~copy[c].first THEN "dropping" ELSE "off"]

\* The request ended in an error, or its answer came too late.
Fails(c) ==
  /\ GiveUp(c)
  /\ cut' = IF copy[c].first THEN cut \cup {copy[c].to} ELSE cut
  /\ work' = NoWork

\* The removal may fail, or be refused by a mode that has changed.
Drop(c) ==
  LET d == copy[c].to
  IN  /\ Idle /\ copy[c].phase = "dropping"
      /\ copy' = [copy EXCEPT ![c].phase = "off"]
      /\ \/ /\ temp' = [temp EXCEPT ![d] = NoFile] /\ cut' = cut \ {d}
            /\ Failing(0)
         \/ /\ temp[d].there /\ UNCHANGED temp /\ cut' = cut \cup {d}
            /\ Failing(1)
      /\ UNCHANGED <<source, dest, work, promise, copies, edits>>
-----------------------------------------------------------------------------
(***************************************************************************)
(* The handler.                                                            *)
(***************************************************************************)

TakenAtFirst(c, d) == copy[c].first /\ dest[d].there             \* mutant: not looked at again
Taken(c, d) == dest[d].there

TooBig(file, f) == Len(file.data) > Len(source[f].data)

\* What a request finds under the temporary name, once mode 1 has dropped it.
LeftoverKept(c) == temp[copy[c].to]                              \* mutant: the leftover is continued
Leftover(c) == IF copy[c].first THEN NoFile ELSE temp[copy[c].to]

\* The temporary file, opened to append to it.
Opened(c, file) ==
  /\ temp' = [temp EXCEPT ![copy[c].to] = [file EXCEPT !.there = TRUE, !.synced = FALSE]]
  /\ work' = [at |-> "write", by |-> c, start |-> Len(file.data), pos |-> Len(file.data), left |-> Budget]
  /\ UNCHANGED cut

Ask(c) ==
  LET f == copy[c].from
      d == copy[c].to
      possible == source[f].there /\ ~Taken(c, d)
  IN  /\ Idle /\ copy[c].phase = "asking"
      /\ \/ /\ ~possible
            /\ Fails(c) /\ Failing(0)
            /\ UNCHANGED temp
         \/ /\ possible
            /\ \E kept \in IF copy[c].first /\ temp[d].there THEN BOOLEAN ELSE {FALSE} :
                 LET file == IF kept THEN temp[d] ELSE Leftover(c)         \* kept: its removal failed
                     failed == IF kept THEN 1 ELSE 0
                 IN  \/ /\ TooBig(file, f)
                        /\ Fails(c) /\ Failing(failed)
                        /\ temp' = [temp EXCEPT ![d] = NoFile]
                     \/ /\ ~TooBig(file, f)
                        /\ Opened(c, file) /\ Failing(failed)
                        /\ copy' = [copy EXCEPT ![c].gives.firm = @ /\ ~kept]
                     \/ /\ ~TooBig(file, f)             \* the temporary file could not be opened
                        /\ Fails(c) /\ Failing(failed + 1)
                        /\ temp' = [temp EXCEPT ![d] = file]
      /\ UNCHANGED <<source, dest, promise, copies, edits>>

Write ==
  LET c == work.by
      d == copy[c].to
      from == source[copy[c].from].data
  IN  /\ work.at = "write" /\ work.left > 0 /\ work.pos < Len(from)
      /\ \/ /\ temp' = [temp EXCEPT ![d].data = Append(@, from[work.pos + 1])]
            /\ work' = [work EXCEPT !.pos = @ + 1, !.left = @ - 1]
            /\ Failing(0)
            /\ UNCHANGED <<copy, cut>>
         \/ /\ Fails(c) /\ Failing(1)                   \* file_open, file_read or file_write failed
            /\ UNCHANGED temp
      /\ UNCHANGED <<source, dest, promise, copies, edits>>

ReachedPast(pos, total) == pos > total                           \* mutant: off by one
Reached(pos, total) == pos >= total

\* What was still buffered may be lost when the file is closed, or flushed.
Shortened(file) == {Cut(file, n) : n \in work.start..(work.pos - 1)}

\* "more": the client asks again, or its user stops it.
More ==
  LET c == work.by
      d == copy[c].to
      total == Len(source[copy[c].from].data)
  IN  /\ work.at = "write" /\ (work.left = 0 \/ work.pos >= total) /\ ~Reached(work.pos, total)
      /\ \/ /\ \E phase \in {"asking", "dropping"} :
                 copy' = [copy EXCEPT ![c].first = FALSE, ![c].phase = phase]
            /\ work' = NoWork
            /\ \/ UNCHANGED temp /\ Failing(0)
               \/ temp' \in {[temp EXCEPT ![d] = file] : file \in Shortened(temp[d])} /\ Failing(1)
            /\ UNCHANGED cut
         \/ /\ Fails(c) /\ Failing(1)                   \* the answer comes too late
            /\ UNCHANGED temp
      /\ UNCHANGED <<source, dest, promise, copies, edits>>

\* The last request: the result of file_sync is not looked at.
Sync ==
  LET c == work.by
      d == copy[c].to
  IN  /\ work.at = "write" /\ Reached(work.pos, Len(source[copy[c].from].data))
      /\ work' = [work EXCEPT !.at = "place"]
      /\ \/ /\ temp' = [temp EXCEPT ![d].synced = TRUE]
            /\ Failing(0)
            /\ UNCHANGED copy
         \/ /\ temp' \in {[temp EXCEPT ![d] = file] : file \in {temp[d]} \cup Shortened(temp[d])}
            /\ Failing(1)
            /\ copy' = [copy EXCEPT ![c].gives.firm = FALSE]
      /\ UNCHANGED <<source, dest, promise, cut, copies, edits>>

Place ==
  LET c == work.by
      d == copy[c].to
  IN  /\ work.at = "place"
      /\ \/ /\ dest' = [dest EXCEPT ![d] = temp[d]]
            /\ temp' = [temp EXCEPT ![d] = NoFile]
            /\ promise' = [promise EXCEPT ![d] = copy[c].gives]
            /\ \/ /\ copy' = [copy EXCEPT ![c].phase = "complete", ![c].first = FALSE]
                  /\ work' = NoWork
                  /\ cut' = cut \ {d}
                  /\ Failing(0)
               \/ Fails(c) /\ Failing(1)                \* the answer comes too late
         \/ /\ Fails(c) /\ Failing(1)                   \* the rename failed
            /\ UNCHANGED <<temp, dest, promise>>
      /\ UNCHANGED <<source, copies, edits>>
-----------------------------------------------------------------------------
(***************************************************************************)
(* Other commands, connections and power.                                  *)
(***************************************************************************)

\* The source is replaced, made again, or moved away.
Edit(f) ==
  /\ Idle /\ edits < MaxEdits /\ edits' = edits + 1
  /\ source' \in {[source EXCEPT ![f] = file] : file \in {NoFile} \cup {Content(f, edits', n) : n \in Sizes}}
  /\ copy' = [c \in Client |-> IF copy[c].phase = "asking" /\ copy[c].from = f
                               THEN [copy[c] EXCEPT !.gives.sure = FALSE] ELSE copy[c]]
  /\ UNCHANGED <<temp, dest, work, promise, cut, copies, faults>>

\* Another file takes the destination, or the one there is moved away.
Occupy(d) ==
  /\ Idle /\ edits < MaxEdits /\ edits' = edits + 1
  /\ dest' = [dest EXCEPT ![d] = IF @.there THEN NoFile ELSE Content(d, edits', 1)]
  /\ promise' = [promise EXCEPT ![d] = NoPromise]
  /\ UNCHANGED <<source, temp, copy, work, cut, copies, faults>>

Disconnect(c) ==
  /\ Idle /\ Running(c)
  /\ copy' = [copy EXCEPT ![c].phase = "off"]
  /\ cut' = cut \cup {copy[c].to}
  /\ UNCHANGED <<source, temp, dest, work, promise, copies, edits, faults>>

\* What was not flushed may be lost.
Survivors(files) ==
  {[d \in Dest |-> IF keeps[d] \/ files[d].synced THEN files[d] ELSE Cut(files[d], 0)] : keeps \in [Dest -> BOOLEAN]}

Crash ==
  /\ temp' \in Survivors(temp) /\ dest' \in Survivors(dest)
  /\ copy' = [c \in Client |-> NoCopy]
  /\ work' = NoWork
  /\ cut' = cut \cup {copy[c].to : c \in {c \in Client : Running(c)}}
  /\ UNCHANGED <<source, promise, copies, edits, faults>>

Next ==
  \/ \E c \in Client : \/ \E f \in Source : \E d \in Wants[c] : BeginCopy(c, f, d)
                       \/ Ask(c)
                       \/ Drop(c)
                       \/ Disconnect(c)
  \/ Write
  \/ More
  \/ Sync
  \/ Place
  \/ \E f \in Source : Edit(f)
  \/ \E d \in Dest : Occupy(d)
  \/ Crash

\* A handler that runs goes on; the server comes to every request.
Fairness ==
  /\ WF_vars(Write \/ More \/ Sync \/ Place)
  /\ \A c \in Client : SF_vars(Ask(c)) /\ SF_vars(Drop(c))

Spec == Init /\ [][Next]_vars /\ Fairness
-----------------------------------------------------------------------------
(***************************************************************************)
(* Properties.                                                             *)
(***************************************************************************)

\* A destination a copy made has what its source had when the copy began, block
\* for block, through every interruption before it and every power loss after it
\* (if the source has not changed meanwhile, and no failure was passed over).
CopyExact ==
  \A d \in Dest : dest[d].there /\ promise[d].sure /\ promise[d].firm => dest[d].data = promise[d].due

\* "so an interrupted copy never leaves a half-written destination"
\* (ndp_agent_write.c:477), whatever call has failed.
NeverHalfWritten ==
  \A d \in Dest : dest[d].there /\ promise[d].sure => Len(dest[d].data) = Len(promise[d].due)

\* No copy replaces a file, one that came after the copy began included.
NeverReplaced ==
  [][\A d \in Dest : dest[d].there /\ dest[d].synced => dest'[d] = dest[d] \/ ~dest'[d].there]_vars

\* A copy that failed or was stopped leaves no temporary file, but one that was
\* cut off: by power, by its connection, in its first request or when it was dropped.
NoForgottenTemp ==
  \A d \in Dest : temp[d].there => d \in cut \/ \E c \in Client : Running(c) /\ copy[c].to = d

\* Every copy ends.
CopyEnds == \A c \in Client : Running(c) ~> ~Running(c)
=============================================================================
