----------------------------- MODULE CopyProofs -----------------------------
(***************************************************************************)
(* What holds of copies for any number of clients, files and blocks, any   *)
(* budget, and any number of copies, changes, failures and power losses.   *)
(***************************************************************************)
EXTENDS Copy, TLAPS

USE CopyAssumption

\* The request that runs is one its client waits for.
WorkAsked == ~Idle => copy[work.by].phase = "asking"
TypeInv == TypeOK /\ WorkAsked

Copies == [phase : {"off", "asking", "dropping", "complete"}, first : BOOLEAN,
           from : Source, to : Dest, gives : Promise]

-----------------------------------------------------------------------------
(***************************************************************************)
(* Types.                                                                  *)
(***************************************************************************)

\* What other commands write is a file.
LEMMA ContentIsFile ==
  ASSUME NEW x \in Source \cup Dest, NEW v \in 0..MaxEdits, NEW n \in Nat
  PROVE  Content(x, v, n) \in File
BY DEF Content, File, Block

\* So is what a removal leaves.
LEMMA NoFileIsFile == NoFile \in File
BY DEF NoFile, File

\* Losing the end of a file leaves a file, of the same name and still (not) flushed.
LEMMA CutIsFile ==
  ASSUME NEW file \in File, NEW n \in Nat
  PROVE  Cut(file, n) \in File /\ Cut(file, n).there = file.there /\ Cut(file, n).synced = file.synced
PROOF
<1>1. CASE n < Len(file.data)
  <2>1. SubSeq(file.data, 1, n) \in Seq(Block)
    BY <1>1 DEF File
  <2> QED
    BY <1>1, <2>1 DEF Cut, File
<1>2. CASE ~(n < Len(file.data))
  BY <1>2 DEF Cut
<1> QED
  BY <1>1, <1>2

\* The field that is written is what was written.
LEMMA DataChanged ==
  ASSUME NEW file \in File, NEW data
  PROVE  [file EXCEPT !.data = data].data = data
BY DEF File

\* Opening a file to append, and flushing it, leave a file.
LEMMA FileChanged ==
  ASSUME NEW file \in File
  PROVE  /\ [file EXCEPT !.synced = TRUE] \in File
         /\ [file EXCEPT !.there = TRUE, !.synced = FALSE] \in File
BY DEF File

\* Noting that the source changed, or that a failure was passed over, leaves a promise.
LEMMA PromiseChanged ==
  ASSUME NEW gives \in Promise, NEW b \in BOOLEAN
  PROVE  [gives EXCEPT !.firm = b] \in Promise /\ [gives EXCEPT !.sure = b] \in Promise
BY DEF Promise

\* Between two requests nothing runs.
LEMMA NoWorkType == NoWork.at = "idle" /\ NoWork \in
  [at : {"idle", "write", "place"}, by : Client, start : Nat, pos : Nat, left : 0..Budget]
BY DEF NoWork

\* A client that copies nothing.
LEMMA NoCopyType == /\ NoCopy.phase = "off"
                    /\ NoCopy \in Copies
BY DEF NoCopy, NoPromise, Promise, Copies

\* What a request leaves of a copy is a copy.
LEMMA CopyChanged ==
  ASSUME NEW k \in Copies
  PROVE  /\ \A gives \in Promise : [k EXCEPT !.gives = gives] \in Copies
         /\ \A phase \in {"asking", "dropping"} : [k EXCEPT !.first = FALSE, !.phase = phase] \in Copies
BY DEF Copies

\* A request that fails leaves its types.
LEMMA FailsTypes ==
  ASSUME TypeInv, NEW c \in Client, Fails(c)
  PROVE  /\ copy' \in [Client -> Copies]
         /\ work' = NoWork /\ cut' \in SUBSET Dest
BY DEF Fails, GiveUp, TypeInv, TypeOK, Copies

\* The types hold when the agent starts.
LEMMA TypeInit == Init => TypeInv
PROOF
<1> SUFFICES ASSUME Init PROVE TypeInv
  OBVIOUS
<1>1. source \in [Source -> File]
  <2>1. PICK size \in [Source -> Sizes] : source = [f \in Source |-> Content(f, 0, size[f])]
    BY DEF Init
  <2>2. 0 \in 0..MaxEdits
    OBVIOUS
  <2>3. \A f \in Source : size[f] \in Nat
    OBVIOUS
  <2> QED
    BY <2>1, <2>2, <2>3, ContentIsFile
<1> QED
  BY <1>1, NoFileIsFile, NoWorkType, NoCopyType DEF Init, TypeInv, TypeOK, WorkAsked, Idle, NoPromise, Promise, Copies

\* Every call of a handler, every client and every power loss keeps the types.
LEMMA TypeStep == TypeInv /\ [Next]_vars => TypeInv'
PROOF
<1> SUFFICES ASSUME TypeInv, [Next]_vars PROVE TypeInv'
  OBVIOUS
<1>0. faults \in Nat /\ MaxFaults \in Nat
  BY DEF TypeInv, TypeOK
<1>c. copy \in [Client -> Copies]
  BY DEF TypeInv, TypeOK, Copies
<1>1. ASSUME NEW c \in Client, NEW f \in Source, NEW d \in Wants[c], BeginCopy(c, f, d) PROVE TypeInv'
  <2>1. d \in Dest /\ source[f].data \in Seq(Block)
    BY DEF TypeInv, TypeOK, File, Copies
  <2>2. copy' \in [Client -> Copies]
    BY <1>1, <2>1 DEF BeginCopy, TypeInv, TypeOK, Promise, Copies
  <2>3. ~Idle => copy'[work.by] = copy[work.by]
    BY <1>1 DEF BeginCopy, Running, TypeInv, TypeOK, WorkAsked, Copies
  <2> QED
    BY <1>1, <2>2, <2>3 DEF BeginCopy, TypeInv, TypeOK, WorkAsked, Idle, Copies
<1>2. ASSUME NEW c \in Client, Ask(c) PROVE TypeInv'
  <2> DEFINE d == copy[c].to
             f == copy[c].from
  <2>1. d \in Dest /\ f \in Source /\ temp[d] \in File /\ Leftover(c) \in File
    BY NoFileIsFile DEF TypeInv, TypeOK, Leftover, Copies
  <2>2. faults' \in 0..MaxFaults
    <3>1. \/ Failing(0)
          \/ \E kept \in BOOLEAN : \/ Failing(IF kept THEN 1 ELSE 0)
                                  \/ Failing((IF kept THEN 1 ELSE 0) + 1)
      <4>1. CASE ~(source[f].there /\ ~Taken(c, d))
        BY <1>2, <4>1 DEF Ask
      <4>2. CASE source[f].there /\ ~Taken(c, d)
        BY <1>2, <4>2 DEF Ask
      <4> QED
        BY <4>1, <4>2
    <3> QED
      BY <1>0, <3>1 DEF Failing
  <2>3. /\ UNCHANGED <<source, dest, promise, copies, edits>>
        /\ \/ Fails(c) /\ (\E file \in File : temp' = [temp EXCEPT ![d] = file])
           \/ \E file \in File, firm \in BOOLEAN :
                 ~TooBig(file, f) /\ Opened(c, file) /\ copy' = [copy EXCEPT ![c].gives.firm = firm]
    <3>1. temp = [temp EXCEPT ![d] = temp[d]]
      BY <2>1 DEF TypeInv, TypeOK, Copies
    <3>2. copy[c].gives.firm \in BOOLEAN
      BY DEF TypeInv, TypeOK, Promise, Copies
    <3>3. CASE Fails(c) /\ UNCHANGED temp
      BY <1>2, <2>1, <3>1, <3>3 DEF Ask
    <3>4. CASE \E kept \in BOOLEAN :
                 LET file == IF kept THEN temp[d] ELSE Leftover(c)
                 IN  \/ Fails(c) /\ temp' = [temp EXCEPT ![d] = NoFile]
                     \/ ~TooBig(file, f) /\ Opened(c, file) /\ copy' = [copy EXCEPT ![c].gives.firm = @ /\ ~kept]
                     \/ Fails(c) /\ temp' = [temp EXCEPT ![d] = file]
      BY <1>2, <2>1, <3>2, <3>4, NoFileIsFile DEF Ask
    <3> QED
      BY <1>2, <3>3, <3>4 DEF Ask
  <2>4. CASE Fails(c) /\ (\E file \in File : temp' = [temp EXCEPT ![d] = file])
    <3>1. temp' \in [Dest -> File]
      BY <2>1, <2>4 DEF TypeInv, TypeOK, Copies
    <3> QED
      BY <2>2, <2>3, <2>4, <3>1, FailsTypes, NoWorkType DEF TypeInv, TypeOK, WorkAsked, Idle, Copies
  <2>5. CASE \E file \in File, firm \in BOOLEAN :
               ~TooBig(file, f) /\ Opened(c, file) /\ copy' = [copy EXCEPT ![c].gives.firm = firm]
    <3> PICK file \in File, firm \in BOOLEAN :
               ~TooBig(file, f) /\ Opened(c, file) /\ copy' = [copy EXCEPT ![c].gives.firm = firm]
      BY <2>5
    <3>0. source[f] \in File
      BY <2>1 DEF TypeInv, TypeOK, Copies
    <3>1. [file EXCEPT !.there = TRUE, !.synced = FALSE] \in File /\ Len(file.data) \in Nat
          /\ Len(source[f].data) \in Nat
      <4>1. [file EXCEPT !.there = TRUE, !.synced = FALSE] \in File
        BY FileChanged
      <4> QED
        BY <3>0, <4>1 DEF File
    <3>2. temp' \in [Dest -> File]
      BY <2>1, <3>1 DEF Opened, TypeInv, TypeOK, Copies
    <3>3. copy' \in [Client -> Copies] /\ copy'[c].from = f /\ copy'[c].phase = "asking"
      <4>1. copy[c] \in Copies /\ copy[c].phase = "asking" /\ [copy[c].gives EXCEPT !.firm = firm] \in Promise
        BY <1>2, PromiseChanged DEF Ask, TypeInv, TypeOK, Copies
      <4>2. copy' = [copy EXCEPT ![c] = [copy[c] EXCEPT !.gives = [copy[c].gives EXCEPT !.firm = firm]]]
        OBVIOUS
      <4> QED
        <5>1. [copy[c] EXCEPT !.gives = [copy[c].gives EXCEPT !.firm = firm]] \in Copies
          BY <4>1, CopyChanged
        <5>2. copy' \in [Client -> Copies]
          BY <1>c, <4>2, <5>1
        <5> QED
          BY <1>c, <4>1, <4>2, <5>2 DEF Copies
    <3>4. /\ work' = [at |-> "write", by |-> c, start |-> Len(file.data), pos |-> Len(file.data), left |-> Budget]
          /\ Len(file.data) <= Len(source[f].data) /\ cut' = cut
      BY <3>1 DEF Opened, TooBig
    <3> QED
      BY <2>2, <2>3, <3>1, <3>2, <3>3, <3>4 DEF TypeInv, TypeOK, WorkAsked, Idle, Copies
  <2> QED
    BY <2>3, <2>4, <2>5
<1>3. ASSUME NEW c \in Client, Drop(c) PROVE TypeInv'
  <2>1. Idle /\ copy[c].to \in Dest
    BY <1>3 DEF Drop, TypeInv, TypeOK, Copies
  <2>2. temp' \in [Dest -> File] /\ cut' \in SUBSET Dest /\ faults' \in 0..MaxFaults
    BY <1>0, <1>3, <2>1, NoFileIsFile DEF Drop, Failing, TypeInv, TypeOK, Copies
  <2>3. copy' \in [Client -> Copies]
    <3>1. copy \in [Client -> Copies] /\ copy' = [copy EXCEPT ![c].phase = "off"]
      BY <1>3 DEF Drop, TypeInv, TypeOK, Copies
    <3>2. [copy[c] EXCEPT !.phase = "off"] \in Copies
      BY <3>1 DEF Copies
    <3> QED
      BY <3>1, <3>2
  <2> QED
    BY <1>3, <2>1, <2>2, <2>3 DEF Drop, TypeInv, TypeOK, WorkAsked, Idle, Copies
<1>4. CASE Write
  <2> DEFINE c == work.by
             d == copy[c].to
             from == source[copy[c].from].data
  <2>1. /\ c \in Client /\ d \in Dest /\ from \in Seq(Block) /\ Len(from) \in Nat
        /\ temp[d] \in File /\ ~Idle /\ work.pos < Len(from) /\ work.pos \in Nat /\ work.start <= work.pos
    BY <1>4 DEF Write, TypeInv, TypeOK, Idle, File, Copies
  <2>2. faults' \in 0..MaxFaults
    BY <1>0, <1>4 DEF Write, Failing
  <2>3. CASE Fails(c) /\ UNCHANGED temp
    BY <1>4, <2>1, <2>2, <2>3, FailsTypes, NoWorkType DEF Write, TypeInv, TypeOK, WorkAsked, Idle, Copies
  <2>4. CASE /\ temp' = [temp EXCEPT ![d].data = Append(@, from[work.pos + 1])]
             /\ work' = [work EXCEPT !.pos = @ + 1, !.left = @ - 1]
             /\ UNCHANGED <<copy, cut>>
    <3>1. from[work.pos + 1] \in Block
      BY <2>1
    <3>2. Append(temp[d].data, from[work.pos + 1]) \in Seq(Block)
      BY <2>1, <3>1 DEF File
    <3>3. temp' \in [Dest -> File]
      BY <2>1, <2>4, <3>2 DEF TypeInv, TypeOK, File, Copies
    <3>4. /\ work' \in [at : {"idle", "write", "place"}, by : Client, start : Nat, pos : Nat, left : 0..Budget]
          /\ work'.by = c /\ work'.start <= work'.pos /\ work'.pos <= Len(from)
      <4>1. /\ work \in [at : {"idle", "write", "place"}, by : Client, start : Nat, pos : Nat, left : 0..Budget]
            /\ work.left > 0
        BY <1>4 DEF Write, TypeInv, TypeOK, Copies
      <4>2. work.pos + 1 \in Nat /\ work.left - 1 \in 0..Budget /\ work.start <= work.pos + 1
            /\ work.pos + 1 <= Len(from)
        BY <2>1, <4>1
      <4> QED
        BY <2>1, <2>4, <4>1, <4>2
    <3> QED
      BY <1>4, <2>1, <2>2, <2>4, <3>3, <3>4 DEF Write, TypeInv, TypeOK, WorkAsked, Idle, Copies
  <2> QED
    BY <1>4, <2>3, <2>4 DEF Write
<1> DEFINE c == work.by
           d == copy[c].to
<1>a. ~Idle => c \in Client /\ d \in Dest /\ temp[d] \in File /\ work.start \in Nat
  BY DEF TypeInv, TypeOK, Copies
<1>b. ASSUME ~Idle, NEW file \in Shortened(temp[d]) PROVE file \in File /\ file.there = temp[d].there
  <2>1. PICK n \in work.start..(work.pos - 1) : file = Cut(temp[d], n)
    BY DEF Shortened
  <2>2. n \in Nat
    BY <1>a, <1>b
  <2> QED
    BY <1>a, <1>b, <2>1, <2>2, CutIsFile
<1>5. CASE More
  <2>1. ~Idle /\ faults' \in 0..MaxFaults
    BY <1>0, <1>5 DEF More, Idle, Failing
  <2>2. temp' \in [Dest -> File]
    BY <1>5, <1>a, <1>b, <2>1 DEF More, TypeInv, TypeOK, Copies
  <2>3. CASE Fails(c)
    BY <1>5, <1>a, <2>1, <2>2, <2>3, FailsTypes, NoWorkType DEF More, TypeInv, TypeOK, WorkAsked, Idle, Copies
  <2>4. CASE /\ \E phase \in {"asking", "dropping"} : copy' = [copy EXCEPT ![c].first = FALSE, ![c].phase = phase]
             /\ work' = NoWork /\ UNCHANGED cut
    <3>1. copy' \in [Client -> Copies]
      <4>1. copy[c] \in Copies
        BY <1>a, <2>1 DEF TypeInv, TypeOK, Copies
      <4>2. \A phase \in {"asking", "dropping"} : [copy[c] EXCEPT !.first = FALSE, !.phase = phase] \in Copies
        BY <4>1, CopyChanged
      <4>3. PICK phase \in {"asking", "dropping"} :
              copy' = [copy EXCEPT ![c] = [copy[c] EXCEPT !.first = FALSE, !.phase = phase]]
        BY <1>a, <1>c, <2>1, <2>4 DEF Copies
      <4> QED
        BY <1>c, <4>2, <4>3
    <3> QED
      BY <1>5, <2>1, <2>2, <2>4, <3>1, NoWorkType DEF More, TypeInv, TypeOK, WorkAsked, Idle, Copies
  <2> QED
    BY <1>5, <2>3, <2>4 DEF More
<1>6. CASE Sync
  <2>1. ~Idle /\ faults' \in 0..MaxFaults
    BY <1>0, <1>6 DEF Sync, Idle, Failing
  <2>2. temp' \in [Dest -> File]
    <3>1. [temp[d] EXCEPT !.synced = TRUE] \in File
      BY <1>a, <2>1, FileChanged
    <3>2. \E file \in File : temp' = [temp EXCEPT ![d] = file]
      BY <1>6, <1>a, <1>b, <2>1, <3>1 DEF Sync
    <3> QED
      BY <3>2 DEF TypeInv, TypeOK, Copies
  <2>3. copy' \in [Client -> Copies] /\ copy'[c].phase = copy[c].phase /\ copy'[c].from = copy[c].from
    <3>1. copy[c] \in Copies /\ [copy[c].gives EXCEPT !.firm = FALSE] \in Promise
      BY <1>a, <2>1, PromiseChanged DEF TypeInv, TypeOK, Copies
    <3>2. copy' = copy \/ copy' = [copy EXCEPT ![c] = [copy[c] EXCEPT !.gives = [copy[c].gives EXCEPT !.firm = FALSE]]]
      BY <1>6 DEF Sync
    <3> QED
      <4>1. [copy[c] EXCEPT !.gives = [copy[c].gives EXCEPT !.firm = FALSE]] \in Copies
        BY <3>1, CopyChanged
      <4>2. copy' \in [Client -> Copies]
        BY <1>c, <3>2, <4>1
      <4> QED
        BY <1>a, <1>c, <2>1, <3>1, <3>2, <4>2 DEF Copies
  <2>4. /\ work' \in [at : {"idle", "write", "place"}, by : Client, start : Nat, pos : Nat, left : 0..Budget]
        /\ work'.by = c /\ work'.start = work.start /\ work'.pos = work.pos
    BY <1>6 DEF Sync, TypeInv, TypeOK, Copies
  <2> QED
    BY <1>6, <2>1, <2>2, <2>3, <2>4 DEF Sync, TypeInv, TypeOK, WorkAsked, Idle, Copies
<1>7. CASE Place
  <2>1. ~Idle /\ faults' \in 0..MaxFaults
    BY <1>0, <1>7 DEF Place, Idle, Failing
  <2>2. dest' \in [Dest -> File] /\ temp' \in [Dest -> File] /\ promise' \in [Dest -> Promise]
    <3>1. d \in Dest /\ temp[d] \in File /\ copy[c].gives \in Promise
      BY <1>a, <2>1 DEF TypeInv, TypeOK, Copies
    <3>2. /\ dest' = dest \/ dest' = [dest EXCEPT ![d] = temp[d]]
          /\ temp' = temp \/ temp' = [temp EXCEPT ![d] = NoFile]
          /\ promise' = promise \/ promise' = [promise EXCEPT ![d] = copy[c].gives]
      BY <1>7 DEF Place
    <3>3. /\ dest \in [Dest -> File] /\ temp \in [Dest -> File] /\ promise \in [Dest -> Promise]
      BY DEF TypeInv, TypeOK
    <3> HIDE DEF d, c
    <3> QED
      BY <3>1, <3>2, <3>3, NoFileIsFile
  <2>3. CASE Fails(c)
    BY <1>7, <1>a, <2>1, <2>2, <2>3, FailsTypes, NoWorkType DEF Place, TypeInv, TypeOK, WorkAsked, Idle, Copies
  <2>4. CASE copy' = [copy EXCEPT ![c].phase = "complete", ![c].first = FALSE] /\ work' = NoWork /\ cut' = cut \ {d}
    <3>1. copy' \in [Client -> Copies]
      BY <1>a, <2>1, <2>4 DEF TypeInv, TypeOK, Copies
    <3> QED
      BY <1>7, <2>1, <2>2, <2>4, <3>1, NoWorkType DEF Place, TypeInv, TypeOK, WorkAsked, Idle, Copies
  <2> QED
    BY <1>7, <2>3, <2>4 DEF Place
<1>8. ASSUME NEW f \in Source, Edit(f) PROVE TypeInv'
  <2>1. Idle /\ edits' \in 0..MaxEdits
    BY <1>8 DEF Edit, TypeInv, TypeOK, Copies
  <2>2. source' \in [Source -> File]
    BY <1>8, <2>1, NoFileIsFile, ContentIsFile DEF Edit, TypeInv, TypeOK, Copies
  <2>3. copy' \in [Client -> Copies]
    <3>1. \A e \in Client : copy[e] \in Copies /\ [copy[e].gives EXCEPT !.sure = FALSE] \in Promise
      BY PromiseChanged DEF TypeInv, TypeOK, Copies
    <3>2. \A e \in Client : [copy[e] EXCEPT !.gives = [copy[e].gives EXCEPT !.sure = FALSE]] \in Copies
      BY <3>1, CopyChanged
    <3>3. \A e \in Client : \/ copy'[e] = copy[e]
                            \/ copy'[e] = [copy[e] EXCEPT !.gives = [copy[e].gives EXCEPT !.sure = FALSE]]
      BY <1>8 DEF Edit
    <3>4. copy' = [e \in Client |-> copy'[e]]
      BY <1>8 DEF Edit
    <3> QED
      BY <3>1, <3>2, <3>3, <3>4
  <2> QED
    BY <1>8, <2>1, <2>2, <2>3 DEF Edit, TypeInv, TypeOK, WorkAsked, Idle, Copies
<1>9. ASSUME NEW o \in Dest, Occupy(o) PROVE TypeInv'
  <2>1. Idle /\ edits' \in 0..MaxEdits
    BY <1>9 DEF Occupy, TypeInv, TypeOK, Copies
  <2>2. dest' \in [Dest -> File]
    BY <1>9, <2>1, NoFileIsFile, ContentIsFile DEF Occupy, TypeInv, TypeOK, Copies
  <2>3. promise' \in [Dest -> Promise]
    BY <1>9 DEF Occupy, TypeInv, TypeOK, NoPromise, Promise, Copies
  <2> QED
    BY <1>9, <2>1, <2>2, <2>3 DEF Occupy, TypeInv, TypeOK, WorkAsked, Idle, Copies
<1>10. ASSUME NEW e \in Client, Disconnect(e) PROVE TypeInv'
  <2>1. copy' \in [Client -> Copies] /\ cut' \in SUBSET Dest
    BY <1>10 DEF Disconnect, TypeInv, TypeOK, Copies
  <2> QED
    BY <1>10, <2>1 DEF Disconnect, TypeInv, TypeOK, WorkAsked, Idle, Copies
<1>11. CASE Crash
  <2>1. ASSUME NEW files \in [Dest -> File], NEW out \in Survivors(files) PROVE out \in [Dest -> File]
    BY <2>1, CutIsFile DEF Survivors
  <2>2. temp' \in [Dest -> File] /\ dest' \in [Dest -> File]
    BY <1>11, <2>1 DEF Crash, TypeInv, TypeOK, Copies
  <2>3. cut' \in SUBSET Dest
    BY <1>11 DEF Crash, TypeInv, TypeOK, Copies
  <2>4. copy' \in [Client -> Copies]
    BY <1>11, NoCopyType DEF Crash
  <2> QED
    BY <1>11, <2>2, <2>3, <2>4, NoWorkType DEF Crash, TypeInv, TypeOK, WorkAsked, Idle, Copies
<1>12. CASE UNCHANGED vars
  BY <1>12 DEF vars, TypeInv, TypeOK, WorkAsked, Idle, Copies
<1> QED
  BY <1>1, <1>2, <1>3, <1>4, <1>5, <1>6, <1>7, <1>8, <1>9, <1>10, <1>11, <1>12 DEF Next

(***************************************************************************)
(* Every variable keeps its type; no request reads past its source.        *)
(***************************************************************************)
THEOREM CopyTypes == Spec => []TypeOK
PROOF
<1>1. TypeInv => TypeOK
  BY DEF TypeInv
<1> QED
  BY TypeInit, TypeStep, <1>1, PTL DEF Spec

-----------------------------------------------------------------------------
(***************************************************************************)
(* Nothing is replaced: a destination is looked at in the very request     *)
(* that places the copy.                                                   *)
(***************************************************************************)
Vacant == ~Idle => ~dest[copy[work.by].to].there

\* A crash cuts only what was not flushed.
LEMMA CrashKeeps ==
  ASSUME TypeInv, Crash
  PROVE  \A d \in Dest : /\ dest'[d].there = dest[d].there /\ (dest[d].synced => dest'[d] = dest[d])
                         /\ temp'[d].there = temp[d].there
PROOF
<1>1. ASSUME NEW files \in [Dest -> File], NEW out \in Survivors(files), NEW d \in Dest
      PROVE  out[d].there = files[d].there /\ (files[d].synced => out[d] = files[d])
  <2>1. PICK keeps \in [Dest -> BOOLEAN] :
          out = [o \in Dest |-> IF keeps[o] \/ files[o].synced THEN files[o] ELSE Cut(files[o], 0)]
    BY DEF Survivors
  <2>2. out[d] = IF keeps[d] \/ files[d].synced THEN files[d] ELSE Cut(files[d], 0)
    BY <2>1
  <2>3. files[d] \in File /\ Cut(files[d], 0).there = files[d].there
    BY CutIsFile
  <2> QED
    BY <2>2, <2>3
<1> QED
  BY <1>1 DEF Crash, TypeInv, TypeOK

\* The destination that a request found free is free until it is placed: no other
\* handler runs meanwhile.
LEMMA VacantStep == TypeInv /\ Vacant /\ [Next]_vars => Vacant'
PROOF
<1> SUFFICES ASSUME TypeInv, Vacant, [Next]_vars PROVE Vacant'
  OBVIOUS
<1>1. ASSUME NEW c \in Client, NEW f \in Source, NEW d \in Wants[c], BeginCopy(c, f, d) PROVE Vacant'
  <2>1. ~Idle => copy'[work.by] = copy[work.by]
    BY <1>1 DEF BeginCopy, Running, TypeInv, TypeOK, WorkAsked
  <2> QED
    BY <1>1, <2>1 DEF BeginCopy, Vacant, Idle
<1>2. ASSUME NEW c \in Client, Ask(c) PROVE Vacant'
  <2>1. /\ dest' = dest
        /\ \/ work' = NoWork
           \/ ~dest[copy[c].to].there /\ work'.by = c /\ copy'[c].to = copy[c].to
    <3>1. CASE ~(source[copy[c].from].there /\ ~Taken(c, copy[c].to))
      BY <1>2, <3>1 DEF Ask, Fails
    <3>2. CASE source[copy[c].from].there /\ ~Taken(c, copy[c].to)
      <4>1. \/ work' = NoWork
            \/ /\ work'.by = c
               /\ \E kept \in BOOLEAN : copy' = [copy EXCEPT ![c].gives.firm = @ /\ ~kept]
        <5>1. \/ Fails(c)
              \/ \E kept \in BOOLEAN : /\ Opened(c, IF kept THEN temp[copy[c].to] ELSE Leftover(c))
                                      /\ copy' = [copy EXCEPT ![c].gives.firm = @ /\ ~kept]
          BY <1>2, <3>2 DEF Ask
        <5> QED
          <6>1. CASE Fails(c)
            BY <6>1 DEF Fails
          <6>2. ASSUME NEW kept \in BOOLEAN, NEW file, Opened(c, file) PROVE work'.by = c
            BY <6>2 DEF Opened
          <6> QED
            BY <5>1, <6>1, <6>2
      <4> QED
        BY <1>2, <3>2, <4>1 DEF Ask, Taken, TypeInv, TypeOK
    <3> QED
      BY <3>1, <3>2
  <2> QED
    BY <2>1, NoWorkType DEF Vacant, Idle
<1>3. ASSUME NEW c \in Client, Drop(c) \/ Disconnect(c) PROVE Vacant'
  BY <1>3 DEF Drop, Disconnect, Vacant, Idle
<1>4. CASE Write
  BY <1>4, NoWorkType DEF Write, Fails, Vacant, Idle, TypeInv, TypeOK
<1>5. CASE More
  BY <1>5, NoWorkType DEF More, Fails, Vacant, Idle
<1>6. CASE Sync
  <2>1. work.by \in Client /\ ~Idle /\ dest' = dest
    BY <1>6 DEF Sync, Idle, TypeInv, TypeOK
  <2>2. work'.by = work.by /\ copy'[work.by].to = copy[work.by].to
    BY <1>6, <2>1 DEF Sync, TypeInv, TypeOK
  <2> QED
    BY <2>1, <2>2 DEF Vacant
<1>7. CASE Place
  BY <1>7, NoWorkType DEF Place, Fails, Vacant, Idle
<1>8. ASSUME NEW f \in Source, Edit(f) PROVE Vacant'
  BY <1>8 DEF Edit, Vacant, Idle
<1>9. ASSUME NEW o \in Dest, Occupy(o) PROVE Vacant'
  BY <1>9 DEF Occupy, Vacant, Idle
<1>10. CASE Crash
  BY <1>10, NoWorkType DEF Crash, Vacant, Idle
<1>11. CASE UNCHANGED vars
  BY <1>11 DEF vars, Vacant, Idle
<1> QED
  BY <1>1, <1>2, <1>3, <1>4, <1>5, <1>6, <1>7, <1>8, <1>9, <1>10, <1>11 DEF Next

(***************************************************************************)
(* No copy replaces a file, one that came after the copy began included.   *)
(***************************************************************************)
THEOREM NothingReplaced == Spec => NeverReplaced
PROOF
<1> DEFINE Stays == \A d \in Dest : dest[d].there /\ dest[d].synced => dest'[d] = dest[d] \/ ~dest'[d].there
<1>1. ASSUME TypeInv, Vacant, [Next]_vars PROVE Stays
  <2>1. CASE Place
    <3>1. work.by \in Client /\ copy[work.by].to \in Dest /\ ~dest[copy[work.by].to].there
      BY <1>1, <2>1 DEF Place, Vacant, Idle, TypeInv, TypeOK
    <3> QED
      BY <1>1, <2>1, <3>1 DEF Place, TypeInv, TypeOK
  <2>2. ASSUME NEW o \in Dest, Occupy(o) PROVE Stays
    BY <1>1, <2>2 DEF Occupy, NoFile, TypeInv, TypeOK
  <2>3. CASE Crash
    BY <1>1, <2>3, CrashKeeps
  <2>4. CASE dest' = dest
    BY <2>4
  <2> QED
    BY <1>1, <2>1, <2>2, <2>3, <2>4
       DEF Next, vars, BeginCopy, Ask, Drop, Disconnect, Write, More, Sync, Edit
<1>2. Init => Vacant
  BY NoWorkType DEF Init, Vacant, Idle
<1>3. TypeInv /\ Vacant /\ [Next]_vars => [Stays]_vars
  BY <1>1
<1> QED
  BY <1>2, <1>3, TypeInit, TypeStep, VacantStep, PTL DEF Spec, NeverReplaced

-----------------------------------------------------------------------------
(***************************************************************************)
(* Temporary files.                                                        *)
(***************************************************************************)
Kept(d) == d \in cut \/ \E c \in Client : Running(c) /\ copy[c].to = d

\* A request that fails leaves someone who drops the temporary file, or cuts the copy off.
LEMMA FailsKeeps ==
  ASSUME TypeInv, NEW c \in Client, copy[c].phase = "asking", Fails(c), NEW d \in Dest, Kept(d)
  PROVE  Kept(d)'
PROOF
<1>1. /\ \A k \in Client \ {c} : copy'[k] = copy[k]
      /\ copy'[c].to = copy[c].to
      /\ IF copy[c].first THEN cut' = cut \cup {copy[c].to} ELSE copy'[c].phase = "dropping" /\ cut' = cut
  BY DEF Fails, GiveUp, TypeInv, TypeOK
<1> QED
  BY <1>1 DEF Kept, Running

\* No step leaves a temporary file to nobody.
LEMMA TempStep == TypeInv /\ NoForgottenTemp /\ [Next]_vars => NoForgottenTemp'
PROOF
<1> SUFFICES ASSUME TypeInv, NoForgottenTemp, [Next]_vars, NEW d \in Dest, temp'[d].there PROVE Kept(d)'
  BY DEF NoForgottenTemp, Kept, Running
<1>0. temp[d].there => Kept(d)
  BY DEF NoForgottenTemp, Kept
<1>1. ASSUME NEW c \in Client, NEW f \in Source, NEW o \in Wants[c], BeginCopy(c, f, o) PROVE Kept(d)'
  BY <1>0, <1>1 DEF BeginCopy, Kept, Running, TypeInv, TypeOK
<1>2. ASSUME NEW c \in Client, Ask(c) PROVE Kept(d)'
  <2>1. copy[c].phase = "asking" /\ (copy[c].to = d => Kept(d)) /\ (copy[c].to # d => temp'[d] = temp[d])
    BY <1>2 DEF Ask, Opened, Kept, Running, TypeInv, TypeOK
  <2>2. CASE Fails(c)
    BY <1>0, <2>1, <2>2, FailsKeeps
  <2>3. CASE UNCHANGED cut /\ \E kept \in BOOLEAN : copy' = [copy EXCEPT ![c].gives.firm = @ /\ ~kept]
    BY <1>0, <2>1, <2>3 DEF Kept, Running, TypeInv, TypeOK
  <2> QED
    BY <1>2, <2>2, <2>3 DEF Ask, Opened
<1>3. ASSUME NEW c \in Client, Drop(c) PROVE Kept(d)'
  <2>1. /\ \A k \in Client \ {c} : copy'[k] = copy[k]
        /\ \/ temp' = [temp EXCEPT ![copy[c].to] = NoFile] /\ cut' = cut \ {copy[c].to}
           \/ temp' = temp /\ cut' = cut \cup {copy[c].to}
    BY <1>3 DEF Drop, TypeInv, TypeOK
  <2> QED
    BY <1>0, <2>1 DEF Kept, Running, NoFile, TypeInv, TypeOK
<1> DEFINE c == work.by
           o == copy[c].to
<1>a. ~Idle => c \in Client /\ o \in Dest /\ temp[o] \in File /\ copy[c].phase = "asking" /\ work.start \in Nat
  BY DEF TypeInv, TypeOK, WorkAsked
<1>b. ~Idle /\ (o = d \/ temp'[d] = temp[d]) => Kept(d)
  BY <1>0, <1>a DEF Kept, Running
<1>4. CASE Write
  <2>1. ~Idle /\ (o # d => temp'[d] = temp[d]) /\ (Fails(c) \/ UNCHANGED <<copy, cut>>)
    BY <1>4 DEF Write, Idle, TypeInv, TypeOK
  <2> QED
    BY <1>a, <1>b, <2>1, FailsKeeps DEF Kept, Running
<1>5. CASE More
  <2>1. ~Idle /\ (o # d => temp'[d] = temp[d])
    BY <1>5 DEF More, Idle, TypeInv, TypeOK
  <2>2. CASE Fails(c)
    BY <1>a, <1>b, <2>1, <2>2, FailsKeeps
  <2>3. CASE UNCHANGED cut /\ \E phase \in {"asking", "dropping"} :
                                 copy' = [copy EXCEPT ![c].first = FALSE, ![c].phase = phase]
    BY <1>a, <1>b, <2>1, <2>3 DEF Kept, Running, TypeInv, TypeOK
  <2> QED
    BY <1>5, <2>2, <2>3 DEF More
<1>6. CASE Sync
  <2>1. ~Idle /\ (o # d => temp'[d] = temp[d]) /\ cut' = cut
    BY <1>6 DEF Sync, Idle, TypeInv, TypeOK
  <2>2. \A k \in Client : copy'[k].phase = copy[k].phase /\ copy'[k].to = copy[k].to
    <3>1. copy' = copy \/ copy' = [copy EXCEPT ![c] = [copy[c] EXCEPT !.gives = [copy[c].gives EXCEPT !.firm = FALSE]]]
      BY <1>6 DEF Sync
    <3>2. /\ copy = [k \in Client |-> copy[k]]
          /\ [copy[c] EXCEPT !.gives = [copy[c].gives EXCEPT !.firm = FALSE]].phase = copy[c].phase
          /\ [copy[c] EXCEPT !.gives = [copy[c].gives EXCEPT !.firm = FALSE]].to = copy[c].to
      BY <1>a, <2>1 DEF TypeInv, TypeOK
    <3> QED
      BY <3>1, <3>2
  <2> QED
    BY <1>b, <2>1, <2>2 DEF Kept, Running
<1>7. CASE Place
  <2>1. ~Idle
    BY <1>7 DEF Place, Idle
  <2>2. CASE Fails(c)
    <3>1. o # d => temp'[d] = temp[d]
      BY <1>7 DEF Place, TypeInv, TypeOK
    <3> QED
      BY <1>a, <1>b, <2>1, <2>2, <3>1, FailsKeeps
  <2>3. CASE /\ temp' = [temp EXCEPT ![o] = NoFile] /\ cut' = cut \ {o}
             /\ copy' = [copy EXCEPT ![c].phase = "complete", ![c].first = FALSE]
    <3>1. o # d /\ temp'[d] = temp[d] /\ \A k \in Client \ {c} : copy'[k] = copy[k]
      BY <1>a, <2>1, <2>3 DEF NoFile, TypeInv, TypeOK
    <3> QED
      BY <1>b, <2>1, <2>3, <3>1 DEF Kept, Running
  <2> QED
    BY <1>7, <2>2, <2>3 DEF Place
<1>8. ASSUME NEW f \in Source, Edit(f) PROVE Kept(d)'
  <2>1. /\ cut' = cut /\ temp' = temp
        /\ \A k \in Client : copy'[k].phase = copy[k].phase /\ copy'[k].to = copy[k].to
    BY <1>8 DEF Edit, TypeInv, TypeOK
  <2> QED
    BY <1>0, <2>1 DEF Kept, Running
<1>9. ASSUME NEW p \in Dest, Occupy(p) PROVE Kept(d)'
  BY <1>0, <1>9 DEF Occupy, Kept, Running
<1>10. ASSUME NEW k \in Client, Disconnect(k) PROVE Kept(d)'
  <2>1. temp' = temp /\ cut' = cut \cup {copy[k].to} /\ \A l \in Client \ {k} : copy'[l] = copy[l]
    BY <1>10 DEF Disconnect, TypeInv, TypeOK
  <2> QED
    BY <1>0, <2>1 DEF Kept, Running
<1>11. CASE Crash
  <2>1. temp[d].there
    BY <1>11, CrashKeeps
  <2> QED
    BY <1>0, <1>11, <2>1 DEF Crash, Kept
<1>12. CASE UNCHANGED vars
  BY <1>0, <1>12 DEF vars, Kept, Running
<1> QED
  BY <1>1, <1>2, <1>3, <1>4, <1>5, <1>6, <1>7, <1>8, <1>9, <1>10, <1>11, <1>12 DEF Next

(***************************************************************************)
(* A copy that failed or was stopped leaves no temporary file, but one     *)
(* that was cut off; also when clients share a destination.                *)
(***************************************************************************)
THEOREM NoTempForgotten == Spec => []NoForgottenTemp
PROOF
<1>1. Init => NoForgottenTemp
  BY DEF Init, NoForgottenTemp, NoFile
<1> QED
  BY <1>1, TypeInit, TypeStep, TempStep, PTL DEF Spec

-----------------------------------------------------------------------------
(***************************************************************************)
(* Copies are exact, when no two clients copy to one path.  Between two    *)
(* requests the temporary file is a prefix of what the copy is to give;    *)
(* during one, it is as long as the position says.                         *)
(***************************************************************************)
OwnDests == \A c, k \in Client : c # k => Wants[c] \cap Wants[k] = {}

Prefix(s, t) == Len(s) <= Len(t) /\ \A i \in 1..Len(s) : s[i] = t[i]

Working(c) == ~Idle /\ work.by = c
Owned == \A c \in Client : Running(c) => copy[c].to \in Wants[c]

GoodCopy(c) ==
  copy[c].phase = "asking" /\ copy[c].gives.sure =>
    /\ copy[c].gives.due = source[copy[c].from].data
    /\ copy[c].gives.firm /\ (~copy[c].first \/ Working(c)) => Prefix(temp[copy[c].to].data, copy[c].gives.due)

GoodWork ==
  ~Idle /\ copy[work.by].gives.firm =>
    /\ Len(temp[copy[work.by].to].data) = work.pos
    /\ work.at = "place" => /\ work.pos = Len(source[copy[work.by].from].data)
                            /\ temp[copy[work.by].to].synced

GoodDest(d) ==
  dest[d].there /\ promise[d].firm => dest[d].synced /\ (promise[d].sure => dest[d].data = promise[d].due)

ExactInv == Owned /\ (\A c \in Client : GoodCopy(c)) /\ GoodWork /\ \A d \in Dest : GoodDest(d)

\* One block more.
LEMMA LongerByOne ==
  ASSUME NEW s \in Seq(Block), NEW x \in Block
  PROVE  Len(Append(s, x)) = Len(s) + 1
OBVIOUS

\* A prefix as long as the whole is the whole.
LEMMA SamePrefix ==
  ASSUME NEW s \in Seq(Block), NEW t \in Seq(Block), Prefix(s, t), Len(s) = Len(t)
  PROVE  s = t
BY DEF Prefix

\* Appending the next block of the source leaves a prefix of it.
LEMMA LongerPrefix ==
  ASSUME NEW s \in Seq(Block), NEW t \in Seq(Block), Prefix(s, t), Len(s) < Len(t)
  PROVE  Prefix(Append(s, t[Len(s) + 1]), t)
BY DEF Prefix

\* Losing the end of a prefix leaves a prefix.
LEMMA ShorterPrefix ==
  ASSUME NEW file \in File, NEW n \in Nat, NEW t \in Seq(Block), Prefix(file.data, t)
  PROVE  Prefix(Cut(file, n).data, t)
PROOF
<1>1. CASE n < Len(file.data)
  <2>1. Cut(file, n).data = SubSeq(file.data, 1, n)
    BY <1>1 DEF Cut, File
  <2>2. /\ file.data \in Seq(Block) /\ Len(SubSeq(file.data, 1, n)) = n
        /\ \A i \in 1..n : SubSeq(file.data, 1, n)[i] = file.data[i]
    BY <1>1 DEF File
  <2> QED
    BY <1>1, <2>1, <2>2 DEF Prefix
<1>2. CASE ~(n < Len(file.data))
  BY <1>2 DEF Cut
<1> QED
  BY <1>1, <1>2

\* A step of one client that touches only its own temporary file leaves the
\* copies of the others as they are.
LEMMA OthersCopy ==
  ASSUME OwnDests, TypeInv, Owned, \A k \in Client : GoodCopy(k),
         NEW c \in Client, Running(c), source' = source,
         \A k \in Client \ {c} : copy'[k] = copy[k] /\ (Working(k)' => Working(k)),
         \A d \in Dest \ {copy[c].to} : temp'[d] = temp[d]
  PROVE  \A k \in Client \ {c} : GoodCopy(k)'
PROOF
<1> SUFFICES ASSUME NEW k \in Client \ {c}, copy[k].phase = "asking" PROVE GoodCopy(k)'
  BY DEF GoodCopy
<1>1. copy[k].to # copy[c].to /\ copy[k].to \in Dest
  BY DEF OwnDests, Owned, Running, TypeInv, TypeOK
<1> QED
  BY <1>1 DEF GoodCopy

\* A request that fails leaves nothing to continue.
LEMMA FailsExact ==
  ASSUME OwnDests, TypeInv, ExactInv, NEW c \in Client, copy[c].phase = "asking", Idle \/ work.by = c, Fails(c),
         source' = source, \A d \in Dest \ {copy[c].to} : temp'[d] = temp[d]
  PROVE  Owned' /\ (\A k \in Client : GoodCopy(k)') /\ GoodWork'
PROOF
<1>1. /\ \A k \in Client \ {c} : copy'[k] = copy[k]
      /\ copy'[c].to = copy[c].to /\ copy'[c].phase \in {"off", "dropping"}
  BY DEF Fails, GiveUp, TypeInv, TypeOK
<1>2. Idle'
  BY NoWorkType DEF Fails, Idle
<1>3. \A k \in Client \ {c} : GoodCopy(k)'
  BY <1>1, <1>2, OthersCopy DEF Working, Running, ExactInv
<1> QED
  BY <1>1, <1>2, <1>3 DEF GoodCopy, GoodWork, Owned, Running, ExactInv

\* No copy has begun when the agent starts.
LEMMA ExactInit == Init => ExactInv
BY NoWorkType, NoCopyType DEF Init, ExactInv, Owned, GoodCopy, GoodWork, GoodDest, Running, Idle, NoFile

\* With destinations of their own, every step keeps what is copied a prefix of its source.
LEMMA ExactStep == OwnDests /\ TypeInv /\ ExactInv /\ [Next]_vars => ExactInv'
PROOF
<1> SUFFICES ASSUME OwnDests, TypeInv, ExactInv, [Next]_vars PROVE ExactInv'
  OBVIOUS
<1>t. /\ copy \in [Client -> Copies] /\ temp \in [Dest -> File] /\ source \in [Source -> File]
      /\ \A k \in Client : /\ copy[k] \in Copies /\ copy[k].gives \in Promise /\ copy[k].gives.due \in Seq(Block)
                           /\ copy[k].to \in Dest /\ copy[k].from \in Source
                           /\ temp[copy[k].to] \in File /\ temp[copy[k].to].data \in Seq(Block)
                           /\ source[copy[k].from].data \in Seq(Block)
  BY DEF TypeInv, TypeOK, Copies, Promise, File
<1>d. UNCHANGED <<dest, promise>> => \A d \in Dest : GoodDest(d)'
  BY DEF ExactInv, GoodDest
<1>1. ASSUME NEW c \in Client, NEW f \in Source, NEW d \in Wants[c], BeginCopy(c, f, d) PROVE ExactInv'
  <2>1. /\ \A k \in Client \ {c} : copy'[k] = copy[k]
        /\ copy'[c] = [phase |-> "asking", first |-> TRUE, from |-> f, to |-> d,
                       gives |-> [due |-> source[f].data, sure |-> TRUE, firm |-> TRUE]]
        /\ ~Working(c) /\ UNCHANGED <<source, temp, work, dest, promise>>
    BY <1>1, <1>t DEF BeginCopy, Running, Working, TypeInv, WorkAsked
  <2>2. \A k \in Client : GoodCopy(k)'
    BY <2>1 DEF ExactInv, GoodCopy, Working, Idle
  <2>3. Owned' /\ GoodWork'
    <3>1. Owned'
      BY <2>1 DEF ExactInv, Owned, Running
    <3>2. ~Idle => work.by \in Client /\ copy'[work.by] = copy[work.by]
      BY <2>1 DEF Working, TypeInv, TypeOK
    <3>3. GoodWork'
      BY <2>1, <3>2 DEF ExactInv, GoodWork, Idle
    <3> QED
      BY <3>1, <3>3
  <2> QED
    BY <1>d, <2>1, <2>2, <2>3 DEF ExactInv
<1>2. ASSUME NEW c \in Client, Ask(c) PROVE ExactInv'
  <2> DEFINE d == copy[c].to
             f == copy[c].from
  <2>1. /\ Idle /\ copy[c].phase = "asking" /\ Running(c) /\ UNCHANGED <<source, dest, promise>>
        /\ \A o \in Dest \ {d} : temp'[o] = temp[o]
    BY <1>2, <1>t DEF Ask, Opened, Running
  <2>2. CASE Fails(c)
    BY <1>d, <2>1, <2>2, FailsExact DEF ExactInv
  <2>3. ASSUME NEW kept \in BOOLEAN, ~TooBig(IF kept THEN temp[d] ELSE Leftover(c), f),
               Opened(c, IF kept THEN temp[d] ELSE Leftover(c)),
               copy' = [copy EXCEPT ![c].gives.firm = @ /\ ~kept]
        PROVE  ExactInv'
    <3> DEFINE file == IF kept THEN temp[d] ELSE Leftover(c)
    <3>1. file \in File /\ Len(file.data) \in Nat /\ Len(file.data) <= Len(source[f].data)
      <4>1. file \in File
        BY <1>t, NoFileIsFile DEF Leftover
      <4> QED
        BY <1>t, <2>3, <4>1 DEF TooBig, File
    <3>2. /\ temp'[d].data = file.data
          /\ work' = [at |-> "write", by |-> c, start |-> Len(file.data), pos |-> Len(file.data), left |-> Budget]
      BY <1>t, <2>3, <3>1 DEF Opened, File
    <3>3. /\ \A k \in Client \ {c} : copy'[k] = copy[k]
          /\ copy'[c] = [copy[c] EXCEPT !.gives = [copy[c].gives EXCEPT !.firm = @ /\ ~kept]]
      BY <1>t, <2>3
    <3>4. /\ copy'[c].phase = "asking" /\ copy'[c].first = copy[c].first /\ copy'[c].to = d /\ copy'[c].from = f
          /\ copy'[c].gives.due = copy[c].gives.due /\ copy'[c].gives.sure = copy[c].gives.sure
          /\ (copy'[c].gives.firm => copy[c].gives.firm /\ ~kept)
      <4>1. copy[c].gives.firm \in BOOLEAN
        BY <1>t DEF Promise
      <4>2. \E b \in BOOLEAN : /\ (b => copy[c].gives.firm /\ ~kept)
                               /\ copy'[c] = [copy[c] EXCEPT !.gives = [copy[c].gives EXCEPT !.firm = b]]
        BY <3>3, <4>1
      <4> QED
        <5>1. PICK b \in BOOLEAN : /\ (b => copy[c].gives.firm /\ ~kept)
                                  /\ copy'[c] = [copy[c] EXCEPT !.gives = [copy[c].gives EXCEPT !.firm = b]]
          BY <4>2
        <5>2. copy'[c].phase = copy[c].phase /\ copy'[c].first = copy[c].first /\ copy'[c].to = d /\ copy'[c].from = f
          BY <1>t, <5>1 DEF Copies
        <5>3. copy'[c].gives = [copy[c].gives EXCEPT !.firm = b] /\ copy[c].gives \in Promise
          BY <1>t, <5>1 DEF Copies
        <5>4. /\ copy'[c].gives.due = copy[c].gives.due /\ copy'[c].gives.sure = copy[c].gives.sure
              /\ copy'[c].gives.firm = b
          BY <5>3 DEF Promise
        <5> QED
          BY <2>1, <5>1, <5>2, <5>4
    <3>5. \A k \in Client \ {c} : GoodCopy(k)'
      BY <2>1, <3>2, <3>3, OthersCopy DEF ExactInv, Working, Idle
    <3>6. GoodCopy(c)'
      <4>1. copy[c].gives.sure => copy[c].gives.due = source[f].data
        BY <2>1 DEF ExactInv, GoodCopy
      <4>2. CASE copy[c].first
        BY <2>1, <3>1, <3>2, <3>4, <4>1, <4>2 DEF GoodCopy, Leftover, NoFile, Prefix
      <4>3. CASE ~copy[c].first
        BY <2>1, <3>2, <3>4, <4>1, <4>3 DEF ExactInv, GoodCopy, Leftover
      <4> QED
        BY <4>2, <4>3
    <3>7. Owned' /\ GoodWork'
      BY <2>1, <3>2, <3>3, <3>4 DEF ExactInv, Owned, Running, GoodWork, Idle
    <3> QED
      BY <1>d, <2>1, <3>5, <3>6, <3>7 DEF ExactInv
  <2> QED
    <3>1. CASE ~(source[f].there /\ ~Taken(c, d))
      BY <1>2, <2>2, <3>1 DEF Ask
    <3>2. CASE source[f].there /\ ~Taken(c, d)
      BY <1>2, <2>2, <2>3, <3>2 DEF Ask
    <3> QED
      BY <3>1, <3>2
<1>3. ASSUME NEW c \in Client, Drop(c) \/ Disconnect(c) PROVE ExactInv'
  <2>1. /\ Idle /\ Running(c) /\ UNCHANGED <<source, dest, promise, work>>
        /\ \A k \in Client \ {c} : copy'[k] = copy[k]
        /\ copy'[c].phase = "off"
        /\ \A o \in Dest \ {copy[c].to} : temp'[o] = temp[o]
    BY <1>3, <1>t DEF Drop, Disconnect, Running, Copies
  <2>2. \A k \in Client \ {c} : GoodCopy(k)'
    BY <2>1, OthersCopy DEF ExactInv, Working, Idle
  <2> QED
    BY <1>d, <2>1, <2>2 DEF ExactInv, GoodCopy, GoodWork, Owned, Running, Idle
<1> PICK c : c = work.by
  OBVIOUS
<1> DEFINE d == copy[c].to
           f == copy[c].from
<1>a. ~Idle => /\ c \in Client /\ copy[c].phase = "asking" /\ Running(c) /\ Working(c)
               /\ work.pos \in Nat /\ work.start \in Nat /\ work.pos <= Len(source[f].data)
  BY DEF TypeInv, TypeOK, WorkAsked, Running, Working
<1>4. CASE Write
  <2>1. /\ ~Idle /\ work.pos < Len(source[f].data) /\ UNCHANGED <<source, dest, promise>>
        /\ \A o \in Dest \ {d} : temp'[o] = temp[o]
    BY <1>4, <1>t DEF Write, Idle
  <2>2. CASE Fails(c)
    BY <1>a, <1>d, <2>1, <2>2, FailsExact DEF ExactInv
  <2>3. CASE /\ temp' = [temp EXCEPT ![d].data = Append(@, source[f].data[work.pos + 1])]
             /\ work' = [work EXCEPT !.pos = @ + 1, !.left = @ - 1]
             /\ copy' = copy
    <3>1. /\ temp'[d].data = Append(temp[d].data, source[f].data[work.pos + 1])
          /\ work'.at = work.at /\ work'.by = c /\ work'.pos = work.pos + 1 /\ work.at = "write"
      <4>1. temp'[d].data = Append(temp[d].data, source[f].data[work.pos + 1])
        <5> DEFINE piece == source[f].data[work.pos + 1]
        <5> HIDE DEF piece
        <5>1. temp \in [Dest -> File] /\ d \in Dest
          BY <1>a, <1>t, <2>1
        <5>2. temp' = [temp EXCEPT ![d].data = Append(@, piece)]
          BY <2>3 DEF piece
        <5>3. temp'[d] = [temp[d] EXCEPT !.data = Append(temp[d].data, piece)]
          BY <5>1, <5>2
        <5>4. temp'[d].data = Append(temp[d].data, piece)
          BY <5>1, <5>3, DataChanged
        <5> QED BY <5>4 DEF piece
      <4>2. work'.at = work.at /\ work'.by = c /\ work'.pos = work.pos + 1
        BY <2>3 DEF TypeInv, TypeOK
      <4> QED
        BY <1>4, <4>1, <4>2 DEF Write
    <3>2. \A k \in Client \ {c} : GoodCopy(k)'
      BY <1>a, <2>1, <2>3, <3>1, OthersCopy DEF ExactInv, Working, Idle
    <3>3. GoodCopy(c)'
      <4>1. CASE copy[c].gives.sure /\ copy[c].gives.firm
        <5>1. /\ copy[c].gives.due = source[f].data /\ Prefix(temp[d].data, source[f].data)
              /\ Len(temp[d].data) = work.pos
          BY <1>a, <2>1, <4>1 DEF ExactInv, GoodCopy, GoodWork
        <5>2. Prefix(temp'[d].data, source[f].data)
          BY <1>a, <1>t, <2>1, <3>1, <5>1, LongerPrefix
        <5> QED
          <6>1. copy'[c] = copy[c] /\ source' = source
            BY <2>1, <2>3
          <6> QED
            BY <5>1, <5>2, <6>1 DEF GoodCopy
      <4>2. CASE ~(copy[c].gives.sure /\ copy[c].gives.firm)
        BY <1>a, <2>1, <2>3, <4>2 DEF ExactInv, GoodCopy
      <4> QED
        BY <4>1, <4>2
    <3>4. GoodWork'
      <4>1. source[f].data[work.pos + 1] \in Block /\ temp[d].data \in Seq(Block)
        BY <1>a, <1>t, <2>1
      <4>2. Len(temp'[d].data) = Len(temp[d].data) + 1
        BY <3>1, <4>1, LongerByOne
      <4> QED
        BY <1>a, <2>1, <2>3, <3>1, <4>2 DEF ExactInv, GoodWork
    <3> QED
      BY <1>d, <2>1, <2>3, <3>2, <3>3, <3>4 DEF ExactInv, Owned, Running
  <2> QED
    BY <1>4, <2>2, <2>3 DEF Write
<1>b. ASSUME ~Idle, NEW file \in Shortened(temp[d]) PROVE \E n \in Nat : file = Cut(temp[d], n)
  BY <1>a, <1>b DEF Shortened
<1>5. CASE More
  <2>1. /\ ~Idle /\ UNCHANGED <<source, dest, promise>>
        /\ \A o \in Dest \ {d} : temp'[o] = temp[o]
    BY <1>5, <1>t DEF More, Idle
  <2>2. CASE Fails(c)
    BY <1>a, <1>d, <2>1, <2>2, FailsExact DEF ExactInv
  <2>3. CASE /\ \E phase \in {"asking", "dropping"} : copy' = [copy EXCEPT ![c].first = FALSE, ![c].phase = phase]
             /\ work' = NoWork
             /\ temp' = temp \/ temp' \in {[temp EXCEPT ![d] = file] : file \in Shortened(temp[d])}
    <3>1. Idle'
      BY <2>3, NoWorkType DEF Idle
    <3>2. /\ \A k \in Client \ {c} : copy'[k] = copy[k]
          /\ copy'[c].to = d /\ copy'[c].from = f /\ copy'[c].gives = copy[c].gives
          /\ copy'[c].phase \in {"asking", "dropping"}
      BY <1>a, <1>t, <2>1, <2>3 DEF Copies
    <3>3. \A k \in Client \ {c} : GoodCopy(k)'
      BY <1>a, <2>1, <3>1, <3>2, OthersCopy DEF ExactInv, Working
    <3>4. ASSUME NEW t \in Seq(Block), Prefix(temp[d].data, t) PROVE Prefix(temp'[d].data, t)
      <4>1. CASE temp' = temp
        BY <3>4, <4>1
      <4>2. CASE temp' \in {[temp EXCEPT ![d] = file] : file \in Shortened(temp[d])}
        <5>1. PICK file \in Shortened(temp[d]) : temp' = [temp EXCEPT ![d] = file]
          BY <4>2
        <5>2. PICK n \in Nat : file = Cut(temp[d], n)
          BY <1>b, <2>1
        <5>3. temp'[d] = Cut(temp[d], n)
          BY <1>a, <1>t, <2>1, <5>1, <5>2
        <5>4. Prefix(Cut(temp[d], n).data, t)
          BY <1>a, <1>t, <2>1, <3>4, ShorterPrefix
        <5> QED
          BY <5>3, <5>4
      <4> QED
        BY <2>3, <4>1, <4>2
    <3>5. GoodCopy(c)'
      <4>1. CASE copy[c].gives.sure
        <5>1. /\ copy[c].gives.due = source[f].data
              /\ copy[c].gives.firm => Prefix(temp[d].data, copy[c].gives.due)
          BY <1>a, <2>1, <4>1 DEF ExactInv, GoodCopy
        <5>2. copy[c].gives.firm => Prefix(temp'[d].data, copy[c].gives.due)
          BY <1>a, <1>t, <2>1, <3>4, <5>1
        <5> QED
          BY <2>1, <3>2, <5>1, <5>2 DEF GoodCopy
      <4>2. CASE ~copy[c].gives.sure
        BY <3>2, <4>2 DEF GoodCopy
      <4> QED
        BY <4>1, <4>2
    <3>6. Owned' /\ GoodWork'
      BY <1>a, <2>1, <3>1, <3>2 DEF ExactInv, Owned, Running, GoodWork
    <3> QED
      BY <1>d, <2>1, <3>3, <3>5, <3>6 DEF ExactInv
  <2> QED
    BY <1>5, <2>2, <2>3 DEF More
<1>6. CASE Sync
  <2>1. /\ ~Idle /\ UNCHANGED <<source, dest, promise>> /\ Reached(work.pos, Len(source[f].data))
        /\ \A o \in Dest \ {d} : temp'[o] = temp[o]
        /\ work'.at = "place" /\ work'.by = c /\ work'.pos = work.pos
    BY <1>6, <1>t DEF Sync, Idle, TypeInv, TypeOK
  <2>2. work.pos = Len(source[f].data)
    BY <1>a, <1>t, <2>1 DEF Reached
  <2>3. CASE temp' = [temp EXCEPT ![d].synced = TRUE] /\ copy' = copy
    <3>1. temp'[d].data = temp[d].data /\ temp'[d].synced
      BY <1>a, <1>t, <2>1, <2>3 DEF File
    <3>2. \A k \in Client \ {c} : GoodCopy(k)'
      BY <1>a, <2>1, <2>3, OthersCopy DEF ExactInv, Working, Idle
    <3>3. GoodCopy(c)' /\ GoodWork'
      BY <1>a, <2>1, <2>2, <2>3, <3>1 DEF ExactInv, GoodCopy, GoodWork
    <3> QED
      BY <1>d, <2>1, <2>3, <3>2, <3>3 DEF ExactInv, Owned, Running
  <2>4. CASE copy' = [copy EXCEPT ![c].gives.firm = FALSE]
    <3>1. /\ \A k \in Client \ {c} : copy'[k] = copy[k]
          /\ copy'[c] = [copy[c] EXCEPT !.gives = [copy[c].gives EXCEPT !.firm = FALSE]]
      BY <1>a, <1>t, <2>1, <2>4
    <3>2. /\ copy'[c].phase = "asking" /\ copy'[c].to = d /\ copy'[c].from = f /\ ~copy'[c].gives.firm
          /\ copy'[c].gives.due = copy[c].gives.due /\ copy'[c].gives.sure = copy[c].gives.sure
      <4>1. copy[c] \in Copies /\ copy[c].phase = "asking"
        BY <1>a, <1>t, <2>1
      <4>2. copy'[c].phase = "asking" /\ copy'[c].to = d /\ copy'[c].from = f
        BY <3>1, <4>1 DEF Copies
      <4>3. copy'[c].gives = [copy[c].gives EXCEPT !.firm = FALSE] /\ copy[c].gives \in Promise
        BY <3>1, <4>1 DEF Copies
      <4> QED
        BY <4>2, <4>3 DEF Promise
    <3>3. \A k \in Client \ {c} : GoodCopy(k)'
      BY <1>a, <2>1, <3>1, OthersCopy DEF ExactInv, Working, Idle
    <3>4. GoodCopy(c)' /\ GoodWork'
      BY <1>a, <2>1, <3>2 DEF ExactInv, GoodCopy, GoodWork
    <3> QED
      BY <1>a, <1>d, <2>1, <3>1, <3>2, <3>3, <3>4 DEF ExactInv, Owned, Running
  <2> QED
    BY <1>6, <2>3, <2>4 DEF Sync
<1>7. CASE Place
  <2>1. ~Idle /\ work.at = "place" /\ UNCHANGED source /\ \A o \in Dest \ {d} : temp'[o] = temp[o]
    BY <1>7, <1>t DEF Place, Idle
  <2>2. \A o \in Dest : GoodDest(o)'
    <3>1. CASE UNCHANGED <<dest, promise>>
      BY <1>d, <3>1
    <3>2. CASE dest' = [dest EXCEPT ![d] = temp[d]] /\ promise' = [promise EXCEPT ![d] = copy[c].gives]
      <4>1. copy[c].gives.firm => temp[d].synced
        BY <2>1 DEF ExactInv, GoodWork
      <4>2. copy[c].gives.firm /\ copy[c].gives.sure => temp[d].data = copy[c].gives.due
        BY <1>a, <1>t, <2>1, SamePrefix DEF ExactInv, GoodCopy, GoodWork
      <4>3. /\ \A o \in Dest \ {d} : dest'[o] = dest[o] /\ promise'[o] = promise[o]
            /\ dest'[d] = temp[d] /\ promise'[d] = copy[c].gives
        BY <1>a, <1>t, <2>1, <3>2 DEF TypeInv, TypeOK
      <4> QED
        BY <4>1, <4>2, <4>3 DEF ExactInv, GoodDest
    <3> QED
      BY <1>7, <3>1, <3>2 DEF Place
  <2>3. CASE Fails(c)
    BY <1>a, <2>1, <2>2, <2>3, FailsExact DEF ExactInv
  <2>4. CASE copy' = [copy EXCEPT ![c].phase = "complete", ![c].first = FALSE] /\ work' = NoWork
    <3>1. Idle'
      BY <2>4, NoWorkType DEF Idle
    <3>2. (\A k \in Client \ {c} : copy'[k] = copy[k]) /\ copy'[c].phase = "complete"
      BY <1>a, <1>t, <2>1, <2>4 DEF Copies
    <3>3. \A k \in Client \ {c} : GoodCopy(k)'
      BY <1>a, <2>1, <3>1, <3>2, OthersCopy DEF ExactInv, Working
    <3> QED
      BY <2>2, <3>1, <3>2, <3>3 DEF ExactInv, Owned, Running, GoodCopy, GoodWork
  <2> QED
    BY <1>7, <2>3, <2>4 DEF Place
<1>8. ASSUME NEW g \in Source, Edit(g) PROVE ExactInv'
  <2>1. Idle /\ UNCHANGED <<temp, dest, work, promise>>
    BY <1>8 DEF Edit
  <2>2. \A k \in Client :
          /\ copy'[k].phase = copy[k].phase /\ copy'[k].to = copy[k].to
          /\ copy[k].phase = "asking" /\ copy'[k].gives.sure => copy'[k] = copy[k] /\ copy[k].from # g
    <3> TAKE k \in Client
    <3>1. CASE copy[k].phase = "asking" /\ copy[k].from = g
      <4>1. copy'[k] = [copy[k] EXCEPT !.gives = [copy[k].gives EXCEPT !.sure = FALSE]]
        BY <1>8, <3>1 DEF Edit
      <4> QED
        BY <1>t, <4>1 DEF Copies, Promise
    <3>2. CASE ~(copy[k].phase = "asking" /\ copy[k].from = g)
      BY <1>8, <3>2 DEF Edit
    <3> QED
      BY <3>1, <3>2
  <2>3. \A h \in Source : h # g => source'[h] = source[h]
    BY <1>8, <1>t DEF Edit
  <2>4. \A k \in Client : GoodCopy(k)'
    BY <1>t, <2>1, <2>2, <2>3 DEF ExactInv, GoodCopy, Working, Idle
  <2> QED
    BY <1>d, <2>1, <2>2, <2>4 DEF ExactInv, Owned, Running, GoodWork, Idle
<1>9. ASSUME NEW p \in Dest, Occupy(p) PROVE ExactInv'
  <2>1. Idle /\ UNCHANGED <<source, temp, copy, work>>
    BY <1>9 DEF Occupy
  <2>2. \A o \in Dest : GoodDest(o)'
    BY <1>9 DEF Occupy, ExactInv, GoodDest, NoPromise, TypeInv, TypeOK
  <2> QED
    BY <2>1, <2>2 DEF ExactInv, Owned, Running, GoodCopy, GoodWork, Working, Idle
<1>10. CASE Crash
  <2>1. Idle' /\ \A k \in Client : copy'[k].phase = "off"
    BY <1>10, NoWorkType, NoCopyType DEF Crash, Idle
  <2>2. \A o \in Dest : GoodDest(o)'
    BY <1>10, CrashKeeps DEF Crash, ExactInv, GoodDest
  <2> QED
    BY <2>1, <2>2 DEF ExactInv, Owned, Running, GoodCopy, GoodWork
<1>11. CASE UNCHANGED vars
  BY <1>11 DEF vars, ExactInv, Owned, Running, GoodCopy, GoodWork, GoodDest, Working, Idle
<1> QED
  BY <1>1, <1>2, <1>3, <1>4, <1>5, <1>6, <1>7, <1>8, <1>9, <1>10, <1>11 DEF Next

(***************************************************************************)
(* A destination a copy made has what its source had, block for block, if  *)
(* the clients copy to paths of their own (and the source did not change,  *)
(* and no failure was passed over).                                        *)
(***************************************************************************)
THEOREM CopiesAreExact ==
  ASSUME OwnDests
  PROVE  Spec => []CopyExact
PROOF
<1>1. TypeInv /\ ExactInv /\ [Next]_vars => ExactInv'
  BY ExactStep
<1>2. ExactInv => CopyExact
  BY DEF ExactInv, GoodDest, CopyExact
<1> QED
  BY ExactInit, TypeInit, TypeStep, <1>1, <1>2, PTL DEF Spec
=============================================================================
