--------------------------- MODULE SessionProofs ---------------------------
(***************************************************************************)
(* The two sides of a connection agree on their counters (CountersAgree),  *)
(* and every step is one that Calls promises, for transfers of any length  *)
(* and any number of calls.                                                *)
(***************************************************************************)
EXTENDS Session, SequenceTheorems, TLAPS

Commands == {"hello", "auth", "ask", "read", "write"}
Kinds == {"REQ", "RES", "DATA", "END", "ERR"}
Words == Commands \cup {"OK", "BUSY", "REFUSED", "BAD_REQUEST", "IO_ERROR"}
Frames == [kind : Kinds, id : Nat, of : Words, mac : Int]
Clients ==
  [ open : BOOLEAN, doing : {"idle", "answer", "data", "commit", "stream"},
    cmd : {"none"} \cup Commands, id : Nat, n : Nat, frames : Seq(Frames),
    session : {"none", "pending", "on"}, send : Nat, recv : Nat ]
Agents ==
  [ open : BOOLEAN, hello : BOOLEAN, authed : BOOLEAN, send : Nat, recv : Nat,
    up : {"none", "active", "discard"}, upId : Nat, received : Nat, xfer : Nat, left : Int ]

Values == {"none", "ok", "refused", "failed"}

TypeOK ==
  /\ client \in Clients /\ agent \in Agents
  /\ toAgent \in Seq(Frames) /\ toClient \in Seq(Frames)
  /\ result \in Seq(Values)

(***************************************************************************)
(* The inductive invariant.  Until the channel is sealed there is at most  *)
(* one frame on its way in either direction, so the answer to AUTH, which  *)
(* starts both counters, has nothing before it and nothing beside it.      *)
(***************************************************************************)
OnTheWay == Len(toAgent) + Len(toClient) + Len(client.frames)

QuietAgent == ~agent.authed => agent.up = "none" /\ agent.xfer = 0

Greeting == client.session = "none" /\ client.doing = "idle" /\ Len(result) <= 1 /\ OnTheWay = 0
Hello == client.session = "none" /\ client.doing = "answer" /\ client.cmd = "hello" /\ Len(result) = 1
Auth == client.session = "pending" /\ client.doing = "answer" /\ client.cmd = "auth" /\ Len(result) = 2

JustSealed ==
  /\ client.session = "pending" /\ toAgent = <<>> /\ Len(toClient) = 1 /\ toClient[1].mac = 0
  /\ agent.send = 1 /\ agent.recv = 0 /\ agent.up = "none" /\ agent.xfer = 0

Opening ==
  client.open /\ client.session # "on" =>
    /\ client.send = 0 /\ client.recv = 0 /\ OnTheWay <= 1
    /\ Greeting \/ Hello \/ Auth
    /\ \A i \in 1..Len(toAgent) : toAgent[i].mac = Plain /\ toAgent[i].of = client.cmd
    /\ client.session = "pending" => \A i \in 1..Len(client.frames) : client.frames[i].kind = "ERR"
    /\ agent.open /\ ~agent.authed => \A i \in 1..Len(toClient) : toClient[i].mac = Plain
    /\ agent.authed => JustSealed

Numbered(s, from) == \A i \in 1..Len(s) : s[i].mac = from + i - 1

Sealed ==
  client.open /\ client.session = "on" =>
    /\ Len(result) >= 2
    /\ agent.open =>
         /\ agent.authed
         /\ Numbered(toAgent, agent.recv) /\ Numbered(toClient, client.recv)
         /\ agent.send = client.recv + Len(toClient)
         /\ client.send = agent.recv + Len(toAgent)

SessionInv == TypeOK /\ QuietAgent /\ Opening /\ Sealed

(***************************************************************************)
(* What the operators do to a client, an agent and the frames.             *)
(***************************************************************************)
LEMMA FrameType ==
  ASSUME NEW kind \in Kinds, NEW id \in Nat, NEW of \in Words
  PROVE  Frame(kind, id, of) \in Frames /\ Frame(kind, id, of).mac = Plain
BY DEF Frame, Frames, Plain

LEMMA EndedType ==
  ASSUME NEW S, NEW s \in Seq(S), NEW i, NEW value \in S
  PROVE  [s EXCEPT ![i] = value] \in Seq(S) /\ Len([s EXCEPT ![i] = value]) = Len(s)
<1>1. CASE i \in 1..Len(s)
  BY <1>1, ExceptSeq
<1>2. CASE i \notin 1..Len(s)
  <2>1. s \in [1..Len(s) -> S]
    BY LenProperties
  <2>2. [s EXCEPT ![i] = value] = s
    BY <1>2, <2>1
  <2> QED
    BY <2>2
<1> QED
  BY <1>1, <1>2

LEMMA RemovedType ==
  ASSUME NEW s \in Seq(Frames), NEW i \in 1..Len(s)
  PROVE  RemoveAt(s, i) \in Seq(Frames) /\ Len(RemoveAt(s, i)) <= Len(s)
<1>1. Len(s) \in Nat /\ i \in Nat
  BY LenProperties
<1>2. SubSeq(s, 1, i - 1) \in Seq(Frames) /\ SubSeq(s, i + 1, Len(s)) \in Seq(Frames)
  BY <1>1, SubSeqProperties
<1>3. /\ Len(SubSeq(s, 1, i - 1)) = (IF 1 <= i - 1 THEN (i - 1) - 1 + 1 ELSE 0)
      /\ Len(SubSeq(s, i + 1, Len(s))) = (IF i + 1 <= Len(s) THEN Len(s) - (i + 1) + 1 ELSE 0)
  <2>1. (\A j \in 1..(i - 1) : s[j] \in Frames) /\ (\A j \in (i + 1)..Len(s) : s[j] \in Frames)
    BY <1>1, ElementOfSeq
  <2> QED
    BY <1>1, <2>1, SubSeqProperties
<1>4. RemoveAt(s, i) = SubSeq(s, 1, i - 1) \o SubSeq(s, i + 1, Len(s))
  BY DEF RemoveAt
<1>5. /\ RemoveAt(s, i) \in Seq(Frames)
      /\ Len(RemoveAt(s, i)) = Len(SubSeq(s, 1, i - 1)) + Len(SubSeq(s, i + 1, Len(s)))
  BY <1>2, <1>4, ConcatProperties
<1>6. Len(SubSeq(s, 1, i - 1)) = i - 1 /\ Len(SubSeq(s, i + 1, Len(s))) = Len(s) - i
  BY <1>1, <1>3
<1>7. Len(RemoveAt(s, i)) = (i - 1) + (Len(s) - i)
  BY <1>5, <1>6
<1>8. (i - 1) + (Len(s) - i) <= Len(s)
  BY <1>1
<1> QED
  BY <1>5, <1>7, <1>8

LEMMA InvGivesCounters == SessionInv => CountersAgree
<1> SUFFICES ASSUME SessionInv, client.open, agent.open, agent.authed
             PROVE  /\ \A i \in DOMAIN toAgent : toAgent[i].mac = agent.recv + i - 1
                    /\ \A i \in DOMAIN toClient : toClient[i].mac = client.recv + i - 1
                    /\ client.session # "none"
                    /\ agent.send = client.recv + Len(toClient)
                    /\ client.send = agent.recv + Len(toAgent)
  BY DEF CountersAgree
<1>1. DOMAIN toAgent = 1..Len(toAgent) /\ DOMAIN toClient = 1..Len(toClient)
  BY LenProperties DEF SessionInv, TypeOK
<1>2. CASE client.session = "on"
  BY <1>1, <1>2 DEF SessionInv, Sealed, Numbered
<1>3. CASE client.session # "on"
  <2>1. JustSealed /\ client.send = 0 /\ client.recv = 0
    BY <1>3 DEF SessionInv, Opening
  <2>2. DOMAIN toAgent = {} /\ DOMAIN toClient = {1} /\ Len(toAgent) = 0
    BY <1>1, <2>1 DEF JustSealed
  <2> QED
    BY <2>1, <2>2 DEF JustSealed
<1> QED
  BY <1>2, <1>3

LEMMA SendChanged ==
  ASSUME NEW c \in Clients, NEW n \in Nat
  PROVE  [c EXCEPT !.send = n] \in Clients /\ [c EXCEPT !.send = n].send = n
BY DEF Clients

\* A frame that is sent keeps the types; sealed, it takes the next counter.
LEMMA SendsWhat ==
  ASSUME TypeOK, NEW frame \in Frames, NEW c \in Clients, Sends(frame, c)
  PROVE  /\ client' \in Clients /\ toAgent' \in Seq(Frames) /\ Len(toAgent') = Len(toAgent) + 1
         /\ client' = [c EXCEPT !.send = client'.send]
         /\ client'.send = IF Sealing THEN c.send + 1 ELSE c.send
         /\ \A i \in 1..Len(toAgent) : toAgent'[i] = toAgent[i]
         /\ toAgent'[Len(toAgent) + 1].mac = (IF Sealing THEN client.send ELSE frame.mac)
         /\ toAgent'[Len(toAgent) + 1].of = frame.of
<1> DEFINE sent == IF Sealing THEN [frame EXCEPT !.mac = client.send] ELSE frame
<1>1. sent \in Frames /\ sent.mac = (IF Sealing THEN client.send ELSE frame.mac) /\ sent.of = frame.of
  <2>1. client.send \in Int
    BY DEF TypeOK, Clients
  <2>2. CASE Sealing
    BY <2>1, <2>2 DEF Frames
  <2>3. CASE ~Sealing
    BY <2>3
  <2> QED
    BY <2>2, <2>3
<1>2. toAgent' = Append(toAgent, sent)
  BY DEF Sends
<1>3. client' \in Clients /\ client' = [c EXCEPT !.send = client'.send]
      /\ client'.send = IF Sealing THEN c.send + 1 ELSE c.send
  <2>0. c.send \in Nat /\ c = [c EXCEPT !.send = c.send]
    BY DEF Clients
  <2>1. CASE Sealing
    <3>1. client' = [c EXCEPT !.send = c.send + 1]
      BY <2>1 DEF Sends
    <3> QED
      BY <2>0, <2>1, <3>1, SendChanged
  <2>2. CASE ~Sealing
    <3>1. client' = c
      BY <2>2 DEF Sends
    <3> QED
      BY <2>0, <2>2, <3>1
  <2> QED
    BY <2>1, <2>2
<1> HIDE DEF sent
<1>4. /\ toAgent' \in Seq(Frames) /\ Len(toAgent') = Len(toAgent) + 1
      /\ \A i \in 1..Len(toAgent) : toAgent'[i] = toAgent[i]
      /\ toAgent'[Len(toAgent) + 1] = sent
  BY <1>1, <1>2, AppendProperties DEF TypeOK
<1> QED
  BY <1>1, <1>3, <1>4

LEMMA EndsWhat ==
  ASSUME TypeOK, NEW c \in Clients, NEW value \in Values, Ends(c, value)
  PROVE  /\ client' \in Clients /\ result' \in Seq(Values) /\ Len(result') = Len(result)
         /\ client'.open => c.open /\ (c.cmd \in {"hello", "auth"} => value = "ok")
         /\ client'.doing = "idle" /\ client'.session = (IF c.session = "pending" THEN "none" ELSE c.session)
         /\ client'.send = c.send /\ client'.recv = c.recv /\ client'.frames = c.frames
         /\ client'.cmd = c.cmd /\ client'.id = c.id /\ client'.n = c.n
<1>1. PICK open \in BOOLEAN, session \in {"none", "pending", "on"} :
        /\ client' = [c EXCEPT !.doing = "idle", !.open = open, !.session = session]
        /\ open => c.open /\ (c.cmd \in {"hello", "auth"} => value = "ok")
        /\ session = (IF c.session = "pending" THEN "none" ELSE c.session)
  <2> DEFINE still == c.open /\ (c.cmd \in {"hello", "auth"} => value = "ok")
             next == IF c.session = "pending" THEN "none" ELSE c.session
  <2>1. still \in BOOLEAN /\ next \in {"none", "pending", "on"}
    BY DEF Clients
  <2>2. client' = [c EXCEPT !.doing = "idle", !.open = still, !.session = next]
    BY DEF Ends
  <2>3. still => c.open /\ (c.cmd \in {"hello", "auth"} => value = "ok")
    OBVIOUS
  <2> HIDE DEF still
  <2> QED
    BY <2>1, <2>2, <2>3, Zenon
<1>2. result' \in Seq(Values) /\ Len(result') = Len(result)
  <2>1. result' = [result EXCEPT ![c.id] = value] /\ result \in Seq(Values)
    BY DEF TypeOK, Ends
  <2>2. [result EXCEPT ![c.id] = value] \in Seq(Values) /\ Len([result EXCEPT ![c.id] = value]) = Len(result)
    BY <2>1, EndedType
  <2> QED
    BY <2>1, <2>2
<1>3. /\ client' \in Clients /\ client'.open = open /\ client'.doing = "idle" /\ client'.session = session
      /\ client'.send = c.send /\ client'.recv = c.recv /\ client'.frames = c.frames
      /\ client'.cmd = c.cmd /\ client'.id = c.id /\ client'.n = c.n
  <2> DEFINE idle == [c EXCEPT !.doing = "idle"]
             shut == [idle EXCEPT !.open = open]
             d == [shut EXCEPT !.session = session]
  <2>1. idle \in Clients
    BY DEF Clients
  <2>2. shut \in Clients
    <3> HIDE DEF idle
    <3>1. CASE open
      BY <2>1, <3>1 DEF Clients
    <3>2. CASE ~open
      BY <2>1, <3>2 DEF Clients
    <3> QED
      BY <3>1, <3>2
  <2>3. d \in Clients
    <3> HIDE DEF shut
    <3> QED
      BY <2>2 DEF Clients
  <2>4. d.open = open /\ d.doing = "idle" /\ d.session = session
    BY DEF Clients
  <2>5. d.send = c.send /\ d.recv = c.recv /\ d.frames = c.frames /\ d.cmd = c.cmd /\ d.id = c.id /\ d.n = c.n
    BY DEF Clients
  <2>6. client' = d
    BY <1>1
  <2> HIDE DEF d
  <2> QED
    BY <2>3, <2>4, <2>5, <2>6
<1> QED
  BY <1>1, <1>2, <1>3

LEMMA AnswerWhat ==
  ASSUME TypeOK, NEW frame \in Frames, NEW a \in Agents, Answer(a, frame)
  PROVE  /\ agent' \in Agents /\ toClient' \in Seq(Frames) /\ Len(toClient') = Len(toClient) + 1
         /\ agent' = [a EXCEPT !.send = agent'.send]
         /\ agent'.send = IF a.authed THEN a.send + 1 ELSE a.send
         /\ \A i \in 1..Len(toClient) : toClient'[i] = toClient[i]
         /\ toClient'[Len(toClient) + 1].mac = IF a.authed THEN a.send ELSE frame.mac
<1> DEFINE sent == IF a.authed THEN [frame EXCEPT !.mac = a.send] ELSE frame
<1>1. sent \in Frames /\ sent.mac = IF a.authed THEN a.send ELSE frame.mac
  <2>1. a.send \in Int
    BY DEF Agents
  <2>2. CASE a.authed
    BY <2>1, <2>2 DEF Frames
  <2>3. CASE ~a.authed
    BY <2>3
  <2> QED
    BY <2>2, <2>3
<1>2. toClient' = Append(toClient, sent)
  BY DEF Answer
<1>3. agent' \in Agents /\ agent' = [a EXCEPT !.send = agent'.send]
      /\ agent'.send = IF a.authed THEN a.send + 1 ELSE a.send
  <2>1. CASE a.authed
    BY <2>1 DEF Answer, Agents
  <2>2. CASE ~a.authed
    BY <2>2 DEF Answer, Agents
  <2> QED
    BY <2>1, <2>2
<1> HIDE DEF sent
<1>4. /\ toClient' \in Seq(Frames) /\ Len(toClient') = Len(toClient) + 1
      /\ \A i \in 1..Len(toClient) : toClient'[i] = toClient[i]
      /\ toClient'[Len(toClient) + 1] = sent
  BY <1>1, <1>2, AppendProperties DEF TypeOK
<1> QED
  BY <1>1, <1>3, <1>4

(***************************************************************************)
(* What the agent makes of a frame: it goes on as x, and answers f; or, in *)
(* a sealed session only, says nothing.                                    *)
(***************************************************************************)
Outcome(a, frame, x, f) ==
  /\ Answer(x, f) \/ (a.authed /\ Silence(x))
  /\ f.mac = Plain /\ (x.open <=> a.open)
  /\ a.authed => x.authed /\ x.send = a.send /\ x.recv = a.recv
  /\ ~a.authed => x.up = "none" /\ x.xfer = 0 /\ (x.authed => frame.of = "auth" /\ x.send = 0 /\ x.recv = 0)

LEMMA UploadFrameWhat ==
  ASSUME NEW a \in Agents, NEW frame \in Frames, a.authed, UploadFrame(a, frame)
  PROVE  \E x \in Agents, f \in Frames : Outcome(a, frame, x, f)
<1> DEFINE ended == [a EXCEPT !.up = "none"]
           gave == [a EXCEPT !.up = "discard"]
           ok == Frame("RES", frame.id, "OK")
           no == Frame("ERR", frame.id, "IO_ERROR")
           more == [a EXCEPT !.received = @ + 1]
<1>1. /\ ended \in Agents /\ (ended.open <=> a.open) /\ ended.authed /\ ended.send = a.send /\ ended.recv = a.recv
      /\ gave \in Agents /\ (gave.open <=> a.open) /\ gave.authed /\ gave.send = a.send /\ gave.recv = a.recv
      /\ more \in Agents /\ (more.open <=> a.open) /\ more.authed /\ more.send = a.send /\ more.recv = a.recv
  BY DEF Agents
<1>2. /\ no \in Frames /\ no.mac = Plain
      /\ ok \in Frames /\ ok.mac = Plain
  BY FrameType DEF Frames, Kinds, Words
<1>3. \/ Silence(ended) \/ Silence(a) \/ Silence(more)
      \/ Answer(gave, no) \/ Answer(ended, no)
      \/ Answer(ended, ok)
  BY DEF UploadFrame, Error
<1> HIDE DEF ended, gave, more, ok, no
<1>4. \/ \E x \in {ended, a, more} : Outcome(a, frame, x, ok)
      \/ \E x \in {ended, gave} : Outcome(a, frame, x, no) \/ Outcome(a, frame, x, ok)
  BY <1>1, <1>2, <1>3 DEF Outcome
<1> QED
  BY <1>1, <1>2, <1>4

LEMMA ServeWhat ==
  ASSUME NEW a \in Agents, NEW frame \in Frames, NEW b \in Agents,
         (b.open <=> a.open), (b.authed <=> a.authed), b.send = a.send, b.recv = a.recv,
         b.xfer = a.xfer, b.up = "none",
         ~a.authed => a.xfer = 0,
         frame.of \in Serves(b), Serve(b, frame.id, frame.of)
  PROVE  \E x \in Agents, f \in Frames : Outcome(a, frame, x, f)
<1> DEFINE id == frame.id
           cmd == frame.of
           ok == Frame("RES", id, "OK")
           no == Frame("ERR", id, "REFUSED")
           greeted == [b EXCEPT !.hello = TRUE]
           sealed == [b EXCEPT !.authed = TRUE, !.send = 0, !.recv = 0]
           reads == [b EXCEPT !.xfer = id, !.left = Chunks]
           writes == [b EXCEPT !.up = "active", !.upId = id, !.received = 0]
<1>1. id \in Nat /\ Chunks \in Int
  BY SessionAssumption DEF Frames
<1>2. /\ no \in Frames /\ no.mac = Plain
      /\ ok \in Frames /\ ok.mac = Plain
  BY <1>1, FrameType DEF Kinds, Words
<1>8. \/ Answer(b, no)
      \/ cmd = "ask" /\ Answer(b, ok)
      \/ cmd = "hello" /\ Answer(greeted, ok)
      \/ cmd = "auth" /\ Answer(sealed, ok)
      \/ cmd = "read" /\ Answer(reads, ok)
      \/ cmd = "write" /\ Answer(writes, ok)
  BY DEF Serve, Error, Authenticated, Reads, Writes
<1> HIDE DEF ok, no
<1>3. CASE Answer(b, no) \/ (cmd = "ask" /\ Answer(b, ok))
  <2>1. Outcome(a, frame, b, no) \/ Outcome(a, frame, b, ok)
    BY <1>2, <1>3 DEF Outcome, Serves
  <2> QED
    BY <1>2, <2>1
<1>4. CASE cmd = "hello" /\ Answer(greeted, ok)
  <2>1. /\ greeted \in Agents /\ (greeted.open <=> a.open) /\ (greeted.authed <=> a.authed)
        /\ greeted.send = a.send /\ greeted.recv = a.recv /\ greeted.up = "none" /\ greeted.xfer = a.xfer
    BY DEF Agents
  <2> HIDE DEF greeted
  <2>3. Outcome(a, frame, greeted, ok)
    BY <1>2, <1>4, <2>1 DEF Outcome, Serves
  <2> QED
    BY <1>2, <2>1, <2>3
<1>5. CASE cmd = "auth" /\ Answer(sealed, ok)
  <2>1. /\ sealed \in Agents /\ (sealed.open <=> a.open)
        /\ sealed.send = 0 /\ sealed.recv = 0 /\ sealed.up = "none" /\ sealed.xfer = a.xfer
    BY DEF Agents
  <2>2. ~a.authed
    BY <1>5 DEF Serves
  <2> HIDE DEF sealed
  <2>3. Outcome(a, frame, sealed, ok)
    BY <1>2, <1>5, <2>1, <2>2 DEF Outcome, Serves
  <2> QED
    BY <1>2, <2>1, <2>3
<1>6. CASE cmd = "read" /\ Answer(reads, ok)
  <2>1. /\ reads \in Agents /\ (reads.open <=> a.open) /\ (reads.authed <=> a.authed)
        /\ reads.send = a.send /\ reads.recv = a.recv
    BY <1>1 DEF Agents
  <2>2. a.authed
    BY <1>6 DEF Serves
  <2> HIDE DEF reads
  <2>3. Outcome(a, frame, reads, ok)
    BY <1>2, <1>6, <2>1, <2>2 DEF Outcome
  <2> QED
    BY <1>2, <2>1, <2>3
<1>7. CASE cmd = "write" /\ Answer(writes, ok)
  <2>1. /\ writes \in Agents /\ (writes.open <=> a.open) /\ (writes.authed <=> a.authed)
        /\ writes.send = a.send /\ writes.recv = a.recv
    BY <1>1 DEF Agents
  <2>2. a.authed
    BY <1>7 DEF Serves
  <2> HIDE DEF writes
  <2>3. Outcome(a, frame, writes, ok)
    BY <1>2, <1>7, <2>1, <2>2 DEF Outcome
  <2> QED
    BY <1>2, <2>1, <2>3
<1> QED
  BY <1>3, <1>4, <1>5, <1>6, <1>7, <1>8

LEMMA DispatchWhat ==
  ASSUME NEW a \in Agents, NEW frame \in Frames, Dispatch(a, frame), ~a.authed => a.up = "none" /\ a.xfer = 0
  PROVE  \E x \in Agents, f \in Frames : Outcome(a, frame, x, f)
<1> DEFINE ofUpload == a.up # "none" /\ frame.kind \in {"DATA", "END"} /\ frame.id = a.upId
           b == [a EXCEPT !.up = IF @ = "discard" /\ frame.kind = "REQ" THEN "none" ELSE @]
           expected == frame.kind = "REQ" /\ (b.up = "active" \/ frame.of \in Serves(b))
           stray == Frame("ERR", frame.id, "BAD_REQUEST")
           busy == Frame("ERR", frame.id, "BUSY")
<1>1. /\ b \in Agents /\ (b.open <=> a.open) /\ (b.authed <=> a.authed) /\ b.send = a.send /\ b.recv = a.recv
      /\ b.xfer = a.xfer /\ (a.up = "none" => b.up = "none")
      /\ (frame.kind = "REQ" /\ b.up # "active" => b.up = "none")
  BY DEF Agents
<1>2. stray \in Frames /\ stray.mac = Plain /\ busy \in Frames /\ busy.mac = Plain
  BY FrameType DEF Frames, Kinds, Words
<1>3. \/ ofUpload /\ UploadFrame(a, frame)
      \/ Answer(b, stray) \/ Answer(b, busy)
      \/ expected /\ b.up # "active" /\ Serve(b, frame.id, frame.of)
  BY DEF Dispatch, Error
<1>4. CASE ofUpload /\ UploadFrame(a, frame)
  BY <1>4, UploadFrameWhat
<1> HIDE DEF b, stray, busy
<1>5. CASE Answer(b, stray) \/ Answer(b, busy)
  <2>1. Outcome(a, frame, b, stray) \/ Outcome(a, frame, b, busy)
    BY <1>1, <1>2, <1>5 DEF Outcome
  <2> QED
    BY <1>1, <1>2, <2>1
<1>6. CASE expected /\ b.up # "active" /\ Serve(b, frame.id, frame.of)
  BY <1>1, <1>6, ServeWhat
<1> QED
  BY <1>3, <1>4, <1>5, <1>6

LEMMA NumberedAppend ==
  ASSUME NEW s \in Seq(Frames), NEW t \in Seq(Frames), NEW from \in Nat,
         Numbered(s, from), Len(t) = Len(s) + 1, \A i \in 1..Len(s) : t[i] = s[i], t[Len(s) + 1].mac = from + Len(s)
  PROVE  Numbered(t, from)
<1>1. Len(s) \in Nat
  BY LenProperties
<1> SUFFICES ASSUME NEW i \in 1..Len(t) PROVE t[i].mac = from + i - 1
  BY DEF Numbered
<1>2. CASE i \in 1..Len(s)
  BY <1>2 DEF Numbered
<1>3. CASE i = Len(s) + 1
  BY <1>1, <1>3
<1> QED
  BY <1>1, <1>2, <1>3

LEMMA NumberedTail ==
  ASSUME NEW s \in Seq(Frames), NEW from \in Nat, s # <<>>
  PROVE  /\ Tail(s) \in Seq(Frames) /\ Len(Tail(s)) = Len(s) - 1
         /\ Numbered(s, from) => Numbered(Tail(s), from + 1) /\ Head(s).mac = from
<1>1. /\ Tail(s) \in Seq(Frames) /\ Len(Tail(s)) = Len(s) - 1
      /\ \A i \in 1..Len(Tail(s)) : Tail(s)[i] = s[i + 1]
  BY HeadTailProperties
<1>2. Len(s) \in Nat \ {0} /\ Head(s) = s[1]
  BY EmptySeq
<1> QED
  BY <1>1, <1>2 DEF Numbered

\* Counting the frames on their way.
LEMMA NoneOf == ASSUME NEW i \in Nat, NEW j \in Nat, NEW k \in Nat, i + j + k = 0 PROVE i = 0 /\ j = 0 /\ k = 0
OBVIOUS

LEMMA OneOf ==
  ASSUME NEW i \in Nat, NEW j \in Nat, NEW k \in Nat, i + j + k <= 1
  PROVE  /\ i # 0 => i = 1 /\ j = 0 /\ k = 0
         /\ j # 0 => i = 0 /\ j = 1 /\ k = 0
         /\ k # 0 => i = 0 /\ j = 0 /\ k = 1
OBVIOUS

LEMMA Fewer ==
  ASSUME NEW i \in Nat, NEW j \in Nat, NEW k \in Nat
  PROVE  /\ 0 + j + k <= i + j + k /\ (i + j + k = 0 => 0 + j + k = 0)
         /\ i + j + k \in Nat /\ 0 + j + k \in Nat
OBVIOUS

LEMMA Sizes ==
  ASSUME TypeOK
  PROVE  /\ Len(toAgent) \in Nat /\ Len(toClient) \in Nat /\ Len(client.frames) \in Nat /\ Len(result) \in Nat
         /\ agent.recv \in Nat /\ agent.send \in Nat /\ client.recv \in Nat /\ client.send \in Nat
<1>1. Len(toAgent) \in Nat /\ Len(toClient) \in Nat /\ Len(result) \in Nat
  BY LenProperties DEF TypeOK
<1>2. client.frames \in Seq(Frames) /\ client.recv \in Nat /\ client.send \in Nat
  BY DEF TypeOK, Clients
<1>3. agent.recv \in Nat /\ agent.send \in Nat
  BY DEF TypeOK, Agents
<1> QED
  BY <1>1, <1>2, <1>3, LenProperties

(***************************************************************************)
(* The end of a call, a frame sent and a frame answered keep the           *)
(* invariant.                                                              *)
(***************************************************************************)
LEMMA EndKeeps ==
  ASSUME SessionInv, NEW c \in Clients, NEW value \in Values, Ends(c, value),
         agent' = agent, toAgent' = toAgent, toClient' = toClient,
         c.open => client.open, c.session = client.session, c.send = client.send, c.recv = client.recv,
         c.cmd = client.cmd, Len(c.frames) <= Len(client.frames),
         c.open /\ c.session # "on" =>
           /\ client.doing = "answer"
           /\ value = "ok" => /\ c.cmd = "hello"
                              /\ Len(toAgent) = 0 /\ Len(toClient) = 0 /\ Len(c.frames) = 0
  PROVE  SessionInv'
<1>1. TypeOK /\ QuietAgent /\ Opening /\ Sealed
  BY DEF SessionInv
<1>2. /\ client' \in Clients /\ result' \in Seq(Values) /\ Len(result') = Len(result)
      /\ client'.open => c.open /\ (c.cmd \in {"hello", "auth"} => value = "ok")
      /\ client'.doing = "idle" /\ client'.session = (IF c.session = "pending" THEN "none" ELSE c.session)
      /\ client'.send = c.send /\ client'.recv = c.recv /\ client'.frames = c.frames
      /\ client'.cmd = c.cmd
  BY <1>1, EndsWhat
<1>3. TypeOK' /\ QuietAgent'
  BY <1>1, <1>2 DEF TypeOK, QuietAgent
<1>4. CASE c.session = "on"
  BY <1>1, <1>2, <1>3, <1>4 DEF SessionInv, Opening, Sealed
<1>5. CASE c.session # "on" /\ ~client'.open
  BY <1>3, <1>5 DEF SessionInv, Opening, Sealed
<1>6. CASE c.session # "on" /\ client'.open
  <2>1. client.open /\ client.session # "on" /\ client.doing = "answer"
    BY <1>2, <1>6
  <2>2. client.cmd \in {"hello", "auth"}
    BY <1>1, <2>1 DEF Opening, Greeting, Hello, Auth
  <2>3. value = "ok" /\ client.cmd = "hello" /\ Len(toAgent) = 0 /\ Len(toClient) = 0 /\ Len(c.frames) = 0
    BY <1>2, <1>6, <2>2
  <2>4. client.session = "none" /\ Len(result) = 1 /\ ~agent.authed /\ client.send = 0 /\ client.recv = 0
    BY <1>1, <2>1, <2>3 DEF Opening, Greeting, Hello, Auth, JustSealed
  <2>5. Greeting' /\ OnTheWay' = 0
    BY <1>2, <2>3, <2>4 DEF Greeting, OnTheWay
  <2>6. Opening'
    BY <1>2, <2>3, <2>4, <2>5 DEF Opening
  <2>7. Sealed'
    BY <1>2, <2>4 DEF Sealed
  <2> QED
    BY <1>3, <2>6, <2>7 DEF SessionInv
<1> QED
  BY <1>4, <1>5, <1>6

LEMMA SendKeeps ==
  ASSUME SessionInv, client.open, client.session = "on", NEW frame \in Frames, NEW c \in Clients, Sends(frame, c),
         agent' = agent, toClient' = toClient, result' \in Seq(Values), Len(result') >= Len(result),
         c.open, c.session = "on", c.send = client.send, c.recv = client.recv
  PROVE  SessionInv'
<1>1. TypeOK /\ QuietAgent /\ Opening /\ Sealed
  BY DEF SessionInv
<1>2. /\ client' \in Clients /\ toAgent' \in Seq(Frames) /\ Len(toAgent') = Len(toAgent) + 1
      /\ client' = [c EXCEPT !.send = client'.send]
      /\ client'.send = client.send + 1
      /\ \A i \in 1..Len(toAgent) : toAgent'[i] = toAgent[i]
      /\ toAgent'[Len(toAgent) + 1].mac = client.send
  BY <1>1, SendsWhat DEF Sealing
<1>3. client'.open /\ client'.session = "on" /\ client'.recv = client.recv
  BY <1>2 DEF Clients
<1>4. TypeOK' /\ QuietAgent'
  BY <1>1, <1>2 DEF TypeOK, QuietAgent
<1>5. CASE agent.open
  <2>1. /\ agent.authed /\ Numbered(toAgent, agent.recv) /\ Numbered(toClient, client.recv)
        /\ agent.send = client.recv + Len(toClient) /\ client.send = agent.recv + Len(toAgent) /\ Len(result) >= 2
    BY <1>1, <1>5 DEF Sealed
  <2>2. Numbered(toAgent', agent.recv)
    BY <1>1, <1>2, <2>1, Sizes, NumberedAppend DEF TypeOK
  <2>3. client'.send = agent.recv + Len(toAgent') /\ Len(result') >= 2
    <3>1. Len(toAgent) \in Nat /\ agent.recv \in Nat /\ Len(result) \in Nat /\ Len(result') \in Nat
      BY <1>1, Sizes, LenProperties
    <3>2. client'.send = client.send + 1 /\ Len(toAgent') = Len(toAgent) + 1
      BY <1>2
    <3> QED
      BY <2>1, <3>1, <3>2
  <2>4. Sealed'
    BY <1>3, <2>1, <2>2, <2>3 DEF Sealed
  <2> QED
    BY <1>3, <1>4, <2>4 DEF SessionInv, Opening
<1>6. CASE ~agent.open
  <2>1. Len(result') >= 2
    BY <1>1, Sizes, LenProperties DEF Sealed
  <2> QED
    BY <1>3, <1>4, <1>6, <2>1 DEF SessionInv, Opening, Sealed
<1> QED
  BY <1>5, <1>6

\* An answer of the agent, when it has nothing to do with AUTH.
LEMMA AnswerKeeps ==
  ASSUME SessionInv, NEW x \in Agents, NEW f \in Frames, Answer(x, f) \/ Silence(x),
         x.authed, x.open <=> agent.open, x.send = agent.send, agent.authed,
         client' = client, result' = result, client.open => client.session = "on",
         \/ toAgent' = toAgent /\ x.recv = agent.recv
         \/ toAgent # <<>> /\ toAgent' = Tail(toAgent) /\ x.recv = agent.recv + 1
  PROVE  SessionInv'
<1>1. TypeOK /\ QuietAgent /\ Opening /\ Sealed
  BY DEF SessionInv
<1>2. /\ agent' \in Agents /\ agent'.authed /\ (agent'.open <=> agent.open) /\ agent'.recv = x.recv
      /\ toClient' \in Seq(Frames)
      /\ \/ agent'.send = agent.send + 1 /\ Len(toClient') = Len(toClient) + 1
            /\ (\A i \in 1..Len(toClient) : toClient'[i] = toClient[i])
            /\ toClient'[Len(toClient) + 1].mac = agent.send
         \/ agent'.send = agent.send /\ toClient' = toClient
  <2>1. CASE Answer(x, f)
    <3>1. /\ agent' \in Agents /\ toClient' \in Seq(Frames) /\ Len(toClient') = Len(toClient) + 1
          /\ agent' = [x EXCEPT !.send = agent'.send] /\ agent'.send = x.send + 1
          /\ \A i \in 1..Len(toClient) : toClient'[i] = toClient[i]
          /\ toClient'[Len(toClient) + 1].mac = x.send
      BY <1>1, <2>1, AnswerWhat
    <3>2. agent'.authed /\ (agent'.open <=> x.open) /\ agent'.recv = x.recv
      BY <3>1 DEF Agents
    <3> QED
      BY <3>1, <3>2
  <2>2. CASE Silence(x)
    BY <1>1, <2>2 DEF Silence, TypeOK
  <2> QED
    BY <2>1, <2>2
<1>3. /\ toAgent' \in Seq(Frames)
      /\ client.send = agent.recv + Len(toAgent) => client.send = agent'.recv + Len(toAgent')
      /\ Numbered(toAgent, agent.recv) => Numbered(toAgent', agent'.recv)
  <2>1. CASE toAgent' = toAgent /\ x.recv = agent.recv
    BY <1>1, <1>2, <2>1 DEF TypeOK
  <2>2. CASE toAgent # <<>> /\ toAgent' = Tail(toAgent) /\ x.recv = agent.recv + 1
    <3>1. /\ Tail(toAgent) \in Seq(Frames) /\ Len(Tail(toAgent)) = Len(toAgent) - 1
          /\ Numbered(toAgent, agent.recv) => Numbered(Tail(toAgent), agent.recv + 1)
      BY <1>1, <2>2, Sizes, NumberedTail DEF TypeOK
    <3>2. Len(toAgent) \in Nat /\ agent.recv \in Nat
      BY <1>1, Sizes
    <3>3. agent'.recv = agent.recv + 1
      BY <1>2, <2>2
    <3>4. client.send = agent.recv + Len(toAgent) => client.send = agent'.recv + Len(toAgent')
      <4>1. Len(toAgent') = Len(toAgent) - 1
        BY <2>2, <3>1, Zenon
      <4> QED
        BY <3>2, <3>3, <4>1
    <3> QED
      BY <2>2, <3>1, <3>3, <3>4
  <2> QED
    BY <2>1, <2>2
<1>4. TypeOK' /\ QuietAgent'
  BY <1>1, <1>2, <1>3 DEF TypeOK, QuietAgent
<1>5. ASSUME client.open, agent.open
      PROVE  Numbered(toClient', client.recv) /\ agent'.send = client.recv + Len(toClient')
  <2>1. Numbered(toClient, client.recv) /\ agent.send = client.recv + Len(toClient)
    BY <1>1, <1>5 DEF Sealed
  <2>2. CASE /\ agent'.send = agent.send + 1 /\ Len(toClient') = Len(toClient) + 1
             /\ \A i \in 1..Len(toClient) : toClient'[i] = toClient[i]
             /\ toClient'[Len(toClient) + 1].mac = agent.send
    <3>1. Numbered(toClient', client.recv)
      BY <1>1, <1>2, <2>1, <2>2, Sizes, NumberedAppend DEF TypeOK
    <3>2. Len(toClient) \in Nat /\ client.recv \in Nat
      BY <1>1, Sizes
    <3>3. agent'.send = client.recv + Len(toClient')
      BY <2>1, <2>2, <3>2
    <3> QED
      BY <3>1, <3>3
  <2>3. CASE agent'.send = agent.send /\ toClient' = toClient
    BY <2>1, <2>3
  <2> QED
    BY <1>2, <2>2, <2>3
<1>6. Sealed'
  BY <1>1, <1>2, <1>3, <1>5 DEF Sealed
<1> QED
  BY <1>4, <1>6 DEF SessionInv, Opening

(***************************************************************************)
(* The client's steps.                                                     *)
(***************************************************************************)
LEMMA CallKeeps == ASSUME SessionInv, NEW cmd \in Commands, Call(cmd) PROVE SessionInv'
<1> DEFINE id == Len(result) + 1
           c == [client EXCEPT !.doing = "answer", !.cmd = cmd, !.id = id, !.n = 0,
                               !.session = IF cmd = "auth" THEN "pending" ELSE @]
           frame == Frame("REQ", id, cmd)
<1>0. TypeOK /\ QuietAgent /\ Opening /\ Sealed
  BY DEF SessionInv
<1>1. /\ client.open /\ client.doing = "idle" /\ cmd \in Allowed /\ Sends(frame, c)
      /\ result' = Append(result, "none") /\ agent' = agent /\ toClient' = toClient
  BY DEF Call
<1>2. id \in Nat /\ id = Len(result) + 1
  BY <1>0, Sizes
<1>3. frame \in Frames /\ frame.mac = Plain /\ frame.of = cmd
  BY <1>2, FrameType DEF Kinds, Words, Frame
<1>4. /\ c \in Clients /\ c.open /\ c.send = client.send /\ c.recv = client.recv /\ c.frames = client.frames
      /\ c.doing = "answer" /\ c.cmd = cmd /\ c.session = (IF cmd = "auth" THEN "pending" ELSE client.session)
  <2>1. client \in Clients
    BY <1>0 DEF TypeOK
  <2> HIDE DEF id
  <2>2. CASE cmd = "auth"
    BY <1>1, <1>2, <2>1, <2>2 DEF Clients, Commands
  <2>3. CASE cmd # "auth"
    BY <1>1, <1>2, <2>1, <2>3 DEF Clients, Commands
  <2> QED
    BY <2>2, <2>3
<1>5. result' \in Seq(Values) /\ Len(result') = Len(result) + 1 /\ Len(result) \in Nat
  <2>1. result \in Seq(Values) /\ "none" \in Values
    BY <1>0 DEF TypeOK, Values
  <2> QED
    BY <1>1, <2>1, AppendProperties, LenProperties
<1> HIDE DEF id, c, frame
<1>6. CASE client.session = "on"
  <2>1. Len(result) >= 2
    BY <1>0, <1>1, <1>6 DEF Sealed
  <2>2. cmd # "auth"
    BY <1>1, <1>5, <2>1 DEF Allowed
  <2>3. c.session = "on" /\ Len(result') >= Len(result)
    BY <1>4, <1>5, <1>6, <2>2
  <2> QED
    BY <1>1, <1>3, <1>4, <1>5, <1>6, <2>3, SendKeeps
<1>7. CASE client.session # "on"
  <2>1. Greeting /\ client.send = 0 /\ client.recv = 0 /\ ~agent.authed
    BY <1>0, <1>1, <1>7 DEF Opening, Hello, Auth, JustSealed, Greeting
  <2>2. /\ client' \in Clients /\ toAgent' \in Seq(Frames) /\ Len(toAgent') = Len(toAgent) + 1
        /\ client' = [c EXCEPT !.send = client'.send] /\ client'.send = c.send
        /\ toAgent'[Len(toAgent) + 1].mac = Plain /\ toAgent'[Len(toAgent) + 1].of = cmd
    BY <1>0, <1>1, <1>3, <1>4, <1>7, SendsWhat DEF Sealing
  <2>3. Len(toAgent) = 0 /\ Len(toClient) = 0 /\ Len(client.frames) = 0
    <3>1. Len(toAgent) + Len(toClient) + Len(client.frames) = 0
      BY <2>1 DEF Greeting, OnTheWay
    <3>2. Len(toAgent) \in Nat /\ Len(toClient) \in Nat /\ Len(client.frames) \in Nat
      BY <1>0, Sizes
    <3> QED
      BY <3>1, <3>2, NoneOf
  <2>4. /\ client'.send = 0 /\ client'.recv = 0 /\ client'.frames = client.frames
        /\ client'.doing = "answer" /\ client'.cmd = cmd /\ client'.session = c.session
    BY <1>4, <2>1, <2>2 DEF Clients
  <2>5. Hello' \/ Auth'
    <3>1. CASE cmd = "hello"
      BY <1>1, <1>4, <1>5, <2>1, <2>4, <3>1, EmptySeq DEF Allowed, Hello, Greeting
    <3>2. CASE cmd = "auth"
      BY <1>1, <1>4, <1>5, <2>1, <2>4, <3>2 DEF Allowed, Auth
    <3>3. Len(result) = 0 \/ Len(result) = 1
      <4>1. Len(result) <= 1 /\ Len(result) \in Nat
        BY <1>5, <2>1 DEF Greeting
      <4> QED
        BY <4>1
    <3>4. result # <<>> => Len(result) = 1
      BY <1>0, <3>3, EmptySeq DEF TypeOK
    <3> QED
      BY <1>1, <3>1, <3>2, <3>4 DEF Allowed
  <2>6. OnTheWay' = 1
    BY <1>1, <2>2, <2>3, <2>4 DEF OnTheWay
  <2>7. Opening'
    BY <1>1, <2>1, <2>2, <2>3, <2>4, <2>5, <2>6 DEF Opening
  <2>8. TypeOK' /\ QuietAgent'
    BY <1>0, <1>1, <1>5, <2>2 DEF TypeOK, QuietAgent
  <2>9. Sealed'
    BY <2>5 DEF Sealed, Hello, Auth
  <2> QED
    BY <2>7, <2>8, <2>9 DEF SessionInv
<1> QED
  BY <1>6, <1>7

LEMMA SendBlockKeeps == ASSUME SessionInv, SendBlock PROVE SessionInv'
<1>0. TypeOK /\ Opening /\ Sealed /\ client \in Clients
  BY DEF SessionInv, TypeOK
<1>1. client.doing = "data" /\ client.open /\ client.session = "on"
  BY <1>0 DEF SendBlock, Opening, Greeting, Hello, Auth
<1>2. client.id \in Nat
  BY <1>0 DEF Clients
<1>3. PICK kind \in {"DATA", "END"}, c \in {[client EXCEPT !.n = @ + 1], [client EXCEPT !.doing = "commit"]} :
        Sends(Frame(kind, client.id, "write"), c)
  BY DEF SendBlock
<1>4. c \in Clients /\ c.open /\ c.session = "on" /\ c.send = client.send /\ c.recv = client.recv
  BY <1>0, <1>1, <1>3 DEF Clients
<1>5. Frame(kind, client.id, "write") \in Frames
  BY <1>2, <1>3, FrameType DEF Kinds, Words, Commands
<1>6. result' \in Seq(Values) /\ Len(result') >= Len(result) /\ agent' = agent /\ toClient' = toClient
  <2>1. result' = result /\ agent' = agent /\ toClient' = toClient
    BY DEF SendBlock, fates
  <2> QED
    BY <1>0, <2>1, Sizes DEF TypeOK
<1> QED
  BY <1>1, <1>3, <1>4, <1>5, <1>6, SendKeeps

\* A call that fails before it has sealed the channel closes the client.
LEMMA FailKeeps ==
  ASSUME SessionInv, NEW c \in Clients, NEW value \in Values \ {"ok"}, Ends(c, value),
         agent' = agent, toAgent' = toAgent, toClient' = toClient,
         c.open => client.open, c.session = client.session, c.send = client.send, c.recv = client.recv,
         c.cmd = client.cmd, Len(c.frames) <= Len(client.frames),
         client.doing # "idle"
  PROVE  SessionInv'
<1>1. c.open /\ c.session # "on" => client.doing = "answer"
  BY DEF SessionInv, Opening, Greeting, Hello, Auth
<1> QED
  BY <1>1, EndKeeps

LEMMA ShutClient ==
  ASSUME TypeOK, NEW open \in BOOLEAN, open => client.open
  PROVE  LET c == [client EXCEPT !.open = open]
         IN  /\ c \in Clients
             /\ c.open => client.open
             /\ c.session = client.session /\ c.send = client.send /\ c.recv = client.recv
             /\ c.cmd = client.cmd /\ c.frames = client.frames
<1>1. CASE open
  BY <1>1 DEF TypeOK, Clients
<1>2. CASE ~open
  BY <1>2 DEF TypeOK, Clients
<1> QED
  BY <1>1, <1>2

LEMMA EndingsKeep ==
  ASSUME SessionInv, StopSending \/ SourceFails \/ TimesOut \/ ReceiverFails \/ Rejected
  PROVE  SessionInv'
<1>0. TypeOK /\ client \in Clients /\ Len(client.frames) \in Nat
  BY Sizes DEF SessionInv, TypeOK
<1>1. client.doing # "idle" /\ agent' = agent /\ toAgent' = toAgent /\ toClient' = toClient
  BY DEF StopSending, SourceFails, TimesOut, ReceiverFails, Rejected, Waits
<1>2. "failed" \in Values \ {"ok"} /\ "refused" \in Values \ {"ok"}
  BY DEF Values
<1>3. CASE Ends(client, "failed")
  BY <1>0, <1>1, <1>2, <1>3, FailKeeps
<1>4. ASSUME NEW open \in BOOLEAN, open => client.open, Ends([client EXCEPT !.open = open], "failed")
      PROVE  SessionInv'
  <2> DEFINE c == [client EXCEPT !.open = open]
  <2>1. /\ c \in Clients
        /\ c.open => client.open
        /\ c.session = client.session /\ c.send = client.send /\ c.recv = client.recv
        /\ c.cmd = client.cmd /\ Len(c.frames) <= Len(client.frames)
    BY <1>0, <1>4, ShutClient
  <2>2. Ends(c, "failed")
    BY <1>4
  <2> HIDE DEF c
  <2> QED
    BY <1>1, <1>2, <2>1, <2>2, FailKeeps
<1>5. ASSUME NEW i \in Early, Ends([client EXCEPT !.frames = RemoveAt(@, i)], Verdict(client.frames[i]))
      PROVE  SessionInv'
  <2> DEFINE c == [client EXCEPT !.frames = RemoveAt(@, i)]
             value == Verdict(client.frames[i])
  <2>1. client.frames \in Seq(Frames) /\ i \in 1..Len(client.frames)
    BY <1>0 DEF Clients, Early
  <2>2. RemoveAt(client.frames, i) \in Seq(Frames) /\ Len(RemoveAt(client.frames, i)) <= Len(client.frames)
    BY <2>1, RemovedType
  <2>3. /\ c \in Clients /\ c.open = client.open
        /\ c.session = client.session /\ c.send = client.send /\ c.recv = client.recv
        /\ c.cmd = client.cmd /\ Len(c.frames) <= Len(client.frames)
    BY <1>0, <2>2 DEF Clients
  <2>4. Ends(c, value) /\ value \in Values \ {"ok"}
    BY <1>2, <1>5 DEF Verdict
  <2> HIDE DEF c, value
  <2> QED
    BY <1>1, <2>3, <2>4, FailKeeps
<1> QED
  BY <1>3, <1>4, <1>5 DEF StopSending, SourceFails, TimesOut, ReceiverFails, Rejected

LEMMA TakeKeeps == ASSUME SessionInv, Take PROVE SessionInv'
<1> DEFINE frame == Head(client.frames)
           c == [client EXCEPT !.frames = Tail(@)]
<1>0. TypeOK /\ QuietAgent /\ Opening /\ Sealed /\ client \in Clients
  BY DEF SessionInv, TypeOK
<1>1. client.doing \in {"answer", "stream", "commit"} /\ client.frames # <<>>
      /\ agent' = agent /\ toAgent' = toAgent /\ toClient' = toClient
  BY DEF Take, Waits
<1>2. /\ client.frames \in Seq(Frames) /\ Tail(client.frames) \in Seq(Frames)
      /\ Len(Tail(client.frames)) = Len(client.frames) - 1 /\ Len(client.frames) \in Nat \ {0}
      /\ frame = client.frames[1] /\ frame \in Frames
      /\ \A i \in 1..Len(Tail(client.frames)) : Tail(client.frames)[i] = client.frames[i + 1]
  <2>1. client.frames \in Seq(Frames)
    BY <1>0 DEF Clients
  <2> QED
    BY <1>1, <2>1, HeadTailProperties, EmptySeq
<1>3. /\ c \in Clients /\ c.open = client.open /\ c.frames = Tail(client.frames)
      /\ c.session = client.session /\ c.send = client.send /\ c.recv = client.recv
      /\ c.cmd = client.cmd /\ c.doing = client.doing
  BY <1>0, <1>2 DEF Clients
<1>4. Len(c.frames) <= Len(client.frames)
  BY <1>2, <1>3
<1>5. ASSUME client.open, client.session # "on"
      PROVE  /\ client.doing = "answer" /\ client.cmd \in {"hello", "auth"}
             /\ Len(toAgent) = 0 /\ Len(toClient) = 0 /\ Len(client.frames) = 1 /\ ~agent.authed
             /\ client.session = "pending" => frame.kind = "ERR"
  <2>1. OnTheWay <= 1 /\ Len(client.frames) # 0 /\ Len(client.frames) \in Nat
    BY <1>0, <1>2, <1>5 DEF Opening
  <2>2. Len(toAgent) \in Nat /\ Len(toClient) \in Nat
    BY <1>0, Sizes
  <2>3. Len(toAgent) = 0 /\ Len(toClient) = 0 /\ Len(client.frames) = 1
    BY <2>1, <2>2, OneOf DEF OnTheWay
  <2>4. client.doing = "answer" /\ client.cmd \in {"hello", "auth"}
    BY <1>0, <1>1, <1>5 DEF Opening, Greeting, Hello, Auth
  <2>5. ~agent.authed
    BY <1>0, <1>5, <2>3 DEF Opening, JustSealed
  <2> QED
    BY <1>0, <1>2, <1>5, <2>3, <2>4, <2>5 DEF Opening
<1> HIDE DEF frame, c
<1>6. CASE client' = c /\ result' = result
  <2>1. TypeOK' /\ QuietAgent'
    BY <1>0, <1>1, <1>3, <1>6 DEF TypeOK, QuietAgent
  <2>2. ASSUME client.open, client.session # "on" PROVE Opening'
    <3>0. Len(client'.frames) = 0
      <4>1. Len(Tail(client.frames)) = 0
        BY <1>2, <1>5, <2>2
      <4> QED
        BY <1>3, <1>6, <4>1
    <3>1. OnTheWay' = 0
      BY <1>1, <1>5, <2>2, <3>0 DEF OnTheWay
    <3>2. Hello' \/ Auth'
      BY <1>0, <1>3, <1>5, <1>6, <2>2 DEF Opening, Greeting, Hello, Auth
    <3>3. \A i \in 1..Len(client'.frames) : FALSE
      BY <3>0
    <3> QED
      BY <1>0, <1>1, <1>3, <1>5, <1>6, <2>2, <3>1, <3>2, <3>3 DEF Opening
  <2>3. Opening'
    BY <1>3, <1>6, <2>2 DEF Opening
  <2>4. Sealed'
    BY <1>0, <1>1, <1>3, <1>6 DEF Sealed
  <2> QED
    BY <2>1, <2>3, <2>4 DEF SessionInv
<1>7. CASE /\ client.open => client.session = "on"
           /\ client' \in {[c EXCEPT !.n = @ + 1], [c EXCEPT !.doing = "stream"], [c EXCEPT !.doing = "data"]}
           /\ result' = result
  <2>1. /\ client' \in Clients /\ (client'.open <=> client.open) /\ client'.session = client.session
        /\ client'.send = client.send /\ client'.recv = client.recv
    BY <1>3, <1>7 DEF Clients
  <2>2. TypeOK' /\ QuietAgent'
    BY <1>0, <1>1, <1>7, <2>1 DEF TypeOK, QuietAgent
  <2>3. Opening' /\ Sealed'
    BY <1>0, <1>1, <1>7, <2>1 DEF Opening, Sealed
  <2> QED
    BY <2>2, <2>3 DEF SessionInv
<1>8. CASE Ends(c, Verdict(frame))
  <2>1. Verdict(frame) \in Values \ {"ok"}
    BY DEF Verdict, Values
  <2> QED
    BY <1>1, <1>3, <1>4, <1>8, <2>1, FailKeeps
<1>9. CASE Ends([c EXCEPT !.open = @ /\ client.doing # "stream"], "failed")
  <2>1. PICK open \in BOOLEAN : (open => c.open) /\ Ends([c EXCEPT !.open = open], "failed")
    <3> DEFINE still == c.open /\ client.doing # "stream"
    <3>1. still \in BOOLEAN /\ (still => c.open) /\ Ends([c EXCEPT !.open = still], "failed")
      BY <1>9
    <3> HIDE DEF still
    <3> QED
      BY <3>1, Zenon
  <2> DEFINE d == [c EXCEPT !.open = open]
  <2>2. /\ d \in Clients
        /\ d.open => c.open
        /\ d.session = c.session /\ d.send = c.send /\ d.recv = c.recv /\ d.cmd = c.cmd /\ d.frames = c.frames
    <3>1. CASE open
      BY <1>3, <2>1, <3>1 DEF Clients
    <3>2. CASE ~open
      BY <1>3, <2>1, <3>2 DEF Clients
    <3> QED
      BY <3>1, <3>2
  <2>3. Ends(d, "failed") /\ "failed" \in Values \ {"ok"}
    BY <2>1 DEF Values
  <2> HIDE DEF d
  <2> QED
    BY <1>1, <1>3, <1>4, <2>2, <2>3, FailKeeps
<1>10. CASE /\ Ends(c, "ok")
            /\ client.doing # "answer" \/ (frame.kind = "RES" /\ client.cmd \notin {"read", "write"})
  <2>1. c.open /\ c.session # "on" => /\ client.doing = "answer" /\ c.cmd = "hello"
                                     /\ Len(toAgent) = 0 /\ Len(toClient) = 0 /\ Len(c.frames) = 0
    <3> SUFFICES ASSUME c.open, c.session # "on"
                 PROVE  /\ client.doing = "answer" /\ c.cmd = "hello"
                        /\ Len(toAgent) = 0 /\ Len(toClient) = 0 /\ Len(c.frames) = 0
      OBVIOUS
    <3>1. client.open /\ client.session # "on"
      BY <1>3
    <3>2. client.session # "pending"
      BY <1>5, <1>10, <3>1
    <3>3. client.cmd = "hello"
      BY <1>0, <1>5, <3>1, <3>2 DEF Opening, Greeting, Hello, Auth
    <3> QED
      BY <1>2, <1>3, <1>5, <3>1, <3>3
  <2>2. "ok" \in Values
    BY DEF Values
  <2> QED
    BY <1>1, <1>3, <1>4, <1>10, <2>1, <2>2, EndKeeps
<1>11. \/ client' = c /\ result' = result
       \/ client' = [c EXCEPT !.n = @ + 1] /\ result' = result /\ client.doing = "stream"
       \/ client' \in {[c EXCEPT !.doing = "stream"], [c EXCEPT !.doing = "data"]} /\ result' = result /\ client.cmd \in {"read", "write"}
       \/ Ends(c, Verdict(frame))
       \/ Ends([c EXCEPT !.open = @ /\ client.doing # "stream"], "failed")
       \/ /\ Ends(c, "ok")
          /\ client.doing # "answer" \/ (frame.kind = "RES" /\ client.cmd \notin {"read", "write"})
  BY <1>3 DEF Take, frame, c
<1>12. client.open /\ client.session # "on" => client.doing # "stream" /\ client.cmd \notin {"read", "write"}
  BY <1>5
<1> QED
  BY <1>6, <1>7, <1>8, <1>9, <1>10, <1>11, <1>12

LEMMA ReceiveKeeps == ASSUME SessionInv, Receive PROVE SessionInv'
<1> DEFINE frame == Head(toClient)
           c == [client EXCEPT !.frames = Append(@, frame)]
           counted == [c EXCEPT !.recv = @ + 1, !.session = "on"]
           shut == [client EXCEPT !.open = FALSE]
<1>0. TypeOK /\ QuietAgent /\ Opening /\ Sealed /\ client \in Clients
  BY DEF SessionInv, TypeOK
<1>1. /\ client.open /\ toClient # <<>> /\ toClient' = Tail(toClient)
      /\ agent' = agent /\ toAgent' = toAgent /\ result' = result
      /\ client' = (IF ~Verified(frame) THEN shut ELSE IF frame.mac = Plain THEN c ELSE counted)
  BY DEF Receive, fates
<1>2. /\ toClient' \in Seq(Frames) /\ Len(toClient') = Len(toClient) - 1 /\ Len(toClient) \in Nat \ {0}
      /\ frame \in Frames /\ frame = toClient[1]
  <2>1. toClient \in Seq(Frames)
    BY <1>0 DEF TypeOK
  <2> QED
    BY <1>1, <2>1, HeadTailProperties, EmptySeq
<1>3. /\ c \in Clients /\ c.open = client.open /\ c.send = client.send /\ c.recv = client.recv
      /\ c.session = client.session /\ c.doing = client.doing /\ c.cmd = client.cmd
      /\ c.frames = Append(client.frames, frame) /\ Len(c.frames) = Len(client.frames) + 1
      /\ c.frames[Len(client.frames) + 1] = frame
  <2>1. client.frames \in Seq(Frames)
    BY <1>0 DEF Clients
  <2>2. /\ Append(client.frames, frame) \in Seq(Frames) /\ Len(Append(client.frames, frame)) = Len(client.frames) + 1
        /\ Append(client.frames, frame)[Len(client.frames) + 1] = frame
    BY <1>2, <2>1, AppendProperties
  <2> QED
    BY <1>0, <2>2 DEF Clients
<1>4. counted \in Clients /\ counted.session = "on" /\ counted.recv = client.recv + 1 /\ counted.send = client.send
  <2> DEFINE once == [c EXCEPT !.recv = @ + 1]
  <2> HIDE DEF c
  <2>1. once \in Clients /\ once.recv = client.recv + 1 /\ once.send = client.send
    BY <1>3 DEF Clients
  <2>2. counted = [once EXCEPT !.session = "on"]
    OBVIOUS
  <2> HIDE DEF once, counted
  <2> QED
    BY <2>1, <2>2 DEF Clients
<1>5. shut \in Clients /\ ~shut.open
  BY <1>0 DEF Clients
<1> HIDE DEF frame, c, counted, shut
<1>6. TypeOK' /\ QuietAgent'
  BY <1>0, <1>1, <1>2, <1>3, <1>4, <1>5 DEF TypeOK, QuietAgent
<1>7. CASE ~Verified(frame)
  BY <1>1, <1>5, <1>6, <1>7 DEF SessionInv, Opening, Sealed
<1>8. CASE Verified(frame) /\ frame.mac = Plain
  <2>1. client' = c /\ (client.session = "none" \/ (client.session = "pending" /\ frame.kind = "ERR"))
    BY <1>0, <1>1, <1>8 DEF Verified, Clients
  <2>2. OnTheWay <= 1 /\ Len(toAgent) \in Nat /\ Len(client.frames) \in Nat
    BY <1>0, <1>1, <2>1, Sizes DEF Opening
  <2>3. Len(toAgent) = 0 /\ Len(toClient) = 1 /\ Len(client.frames) = 0
    BY <1>2, <2>2, OneOf DEF OnTheWay
  <2>4. ~agent.authed
    BY <1>0, <1>1, <1>2, <1>8, <2>1 DEF Opening, JustSealed, Plain
  <2>5. Len(toAgent') = 0 /\ Len(toClient') = 0 /\ Len(client'.frames) = 1 /\ client'.frames[1] = frame
    BY <1>1, <1>2, <1>3, <2>1, <2>3
  <2>6. OnTheWay' <= 1
    BY <2>5 DEF OnTheWay
  <2>7. Hello' \/ Auth'
    <3>1. OnTheWay # 0
      BY <2>3 DEF OnTheWay
    <3>2. Hello \/ Auth
      BY <1>0, <1>1, <2>1, <3>1 DEF Opening, Greeting
    <3> QED
      BY <1>1, <1>3, <2>1, <3>2 DEF Hello, Auth
  <2>8. client'.session = "pending" => \A i \in 1..Len(client'.frames) : client'.frames[i].kind = "ERR"
    BY <1>3, <2>1, <2>5
  <2>9. Opening'
    BY <1>0, <1>1, <1>3, <2>1, <2>4, <2>5, <2>6, <2>7, <2>8 DEF Opening
  <2>10. Sealed'
    BY <1>3, <2>1 DEF Sealed
  <2> QED
    BY <1>6, <2>9, <2>10 DEF SessionInv
<1>9. CASE Verified(frame) /\ frame.mac # Plain
  <2>1. client' = counted /\ frame.mac = client.recv /\ client.session # "none"
    BY <1>1, <1>9 DEF Verified
  <2>2. client.recv \in Nat
    BY <1>0 DEF Clients
  <2>3. CASE client.session = "on"
    <3>1. ASSUME agent.open
          PROVE  Numbered(toClient', client.recv + 1) /\ agent.send = (client.recv + 1) + Len(toClient')
      <4>1. Numbered(toClient, client.recv) /\ agent.send = client.recv + Len(toClient)
        BY <1>0, <1>1, <2>3, <3>1 DEF Sealed
      <4>2. Numbered(toClient', client.recv + 1)
        BY <1>0, <1>1, <2>2, <4>1, NumberedTail DEF TypeOK
      <4>3. client.recv + Len(toClient) = (client.recv + 1) + (Len(toClient) - 1)
        BY <1>2, <2>2
      <4> QED
        BY <1>2, <4>1, <4>2, <4>3
    <3>2. Sealed'
      BY <1>0, <1>1, <1>4, <2>1, <2>3, <3>1 DEF Sealed
    <3> QED
      BY <1>4, <1>6, <2>1, <3>2 DEF SessionInv, Opening
  <2>4. CASE client.session = "pending"
    <3>1. Len(result) = 2 /\ client.send = 0 /\ client.recv = 0
      BY <1>0, <1>1, <2>4 DEF Opening, Greeting, Hello, Auth
    <3>2. agent.open => JustSealed /\ agent.authed
      BY <1>0, <1>1, <1>2, <1>9, <2>4 DEF Opening
    <3>3. JustSealed => Len(toClient') = 0 /\ Len(toAgent) = 0 /\ agent.send = 1 /\ agent.recv = 0
      BY <1>2 DEF JustSealed
    <3>4. ASSUME agent.open
          PROVE  /\ Numbered(toAgent', agent.recv) /\ Numbered(toClient', 1)
                 /\ agent.send = 1 + Len(toClient') /\ client.send = agent.recv + Len(toAgent')
      <4>1. Len(toClient') = 0 /\ Len(toAgent') = 0 /\ agent.send = 1 /\ agent.recv = 0
        BY <1>1, <3>2, <3>3, <3>4
      <4>2. Numbered(toAgent', agent.recv) /\ Numbered(toClient', 1)
        BY <4>1 DEF Numbered
      <4> QED
        BY <3>1, <4>1, <4>2
    <3>5. Sealed'
      BY <1>1, <1>4, <2>1, <3>1, <3>2, <3>4 DEF Sealed
    <3> QED
      BY <1>4, <1>6, <2>1, <3>5 DEF SessionInv, Opening
  <2> QED
    BY <1>0, <2>1, <2>3, <2>4 DEF Clients
<1> QED
  BY <1>7, <1>8, <1>9

(***************************************************************************)
(* The agent's steps and the link's.                                       *)
(***************************************************************************)
LEMMA SealedAgent ==
  ASSUME SessionInv, agent.authed, toAgent # <<>> \/ agent.up # "none" \/ agent.xfer # 0, client.open
  PROVE  client.session = "on"
BY DEF SessionInv, Opening, JustSealed

LEMMA HandleKeeps == ASSUME SessionInv, Handle PROVE SessionInv'
<1> DEFINE frame == Head(toAgent)
           a == IF agent.authed THEN [agent EXCEPT !.recv = @ + 1] ELSE agent
           shut == [agent EXCEPT !.open = FALSE]
<1>0. TypeOK /\ QuietAgent /\ Opening /\ Sealed /\ agent \in Agents
  BY DEF SessionInv, TypeOK
<1>1. /\ agent.open /\ toAgent # <<>> /\ toAgent' = Tail(toAgent) /\ client' = client /\ result' = result
      /\ \/ agent' = shut /\ toClient' = toClient
         \/ Dispatch(a, frame)
  BY DEF Handle, Authentic
<1>2. /\ toAgent' \in Seq(Frames) /\ Len(toAgent') = Len(toAgent) - 1 /\ Len(toAgent) \in Nat \ {0}
      /\ frame \in Frames /\ frame = toAgent[1]
  <2>1. toAgent \in Seq(Frames)
    BY <1>0 DEF TypeOK
  <2> QED
    BY <1>1, <2>1, HeadTailProperties, EmptySeq
<1>3. shut \in Agents /\ ~shut.open /\ (shut.authed <=> agent.authed) /\ shut.up = agent.up /\ shut.xfer = agent.xfer
  BY <1>0 DEF Agents
<1>4. /\ a \in Agents /\ (a.open <=> agent.open) /\ (a.authed <=> agent.authed) /\ a.send = agent.send
      /\ a.up = agent.up /\ a.xfer = agent.xfer /\ (agent.authed => a.recv = agent.recv + 1)
  <2>1. CASE agent.authed
    BY <1>0, <2>1 DEF Agents
  <2>2. CASE ~agent.authed
    BY <1>0, <2>2
  <2> QED
    BY <2>1, <2>2
<1> HIDE DEF frame, a, shut
<1>5. ASSUME client.open, client.session # "on"
      PROVE  /\ Len(toAgent) = 1 /\ Len(toClient) = 0 /\ Len(client.frames) = 0 /\ ~agent.authed
             /\ Hello \/ Auth
  <2>1. OnTheWay <= 1 /\ Len(toClient) \in Nat /\ Len(client.frames) \in Nat
    BY <1>0, <1>5, Sizes DEF Opening
  <2>2. Len(toAgent) = 1 /\ Len(toClient) = 0 /\ Len(client.frames) = 0
    BY <1>2, <2>1, OneOf DEF OnTheWay
  <2>3. ~agent.authed
    BY <1>1, <1>5, SealedAgent
  <2>4. OnTheWay # 0
    BY <2>2 DEF OnTheWay
  <2> QED
    BY <1>0, <1>5, <2>2, <2>3, <2>4 DEF Opening, Greeting
<1>6. CASE agent' = shut /\ toClient' = toClient
  <2>1. TypeOK' /\ QuietAgent'
    BY <1>0, <1>1, <1>2, <1>3, <1>6 DEF TypeOK, QuietAgent
  <2>2. ASSUME client.open, client.session # "on" PROVE Opening'
    <3>1. Len(toAgent') = 0 /\ OnTheWay' <= 1
      <4>1. Len(toAgent) = 1 /\ Len(toClient) = 0 /\ Len(client.frames) = 0
        BY <1>5, <2>2
      <4>2. Len(toAgent') = 0
        BY <1>2, <4>1
      <4> QED
        BY <1>1, <1>6, <4>1, <4>2 DEF OnTheWay
    <3> QED
      BY <1>0, <1>1, <1>3, <1>5, <1>6, <2>2, <3>1 DEF Opening, Hello, Auth
  <2>3. Opening'
    BY <1>1, <2>2 DEF Opening
  <2>4. Sealed'
    BY <1>0, <1>1, <1>3, <1>6 DEF Sealed
  <2> QED
    BY <2>1, <2>3, <2>4 DEF SessionInv
<1>7. CASE Dispatch(a, frame)
  <2>1. PICK x \in Agents, f \in Frames : Outcome(a, frame, x, f)
    BY <1>0, <1>2, <1>4, <1>7, DispatchWhat DEF QuietAgent
  <2>2. CASE agent.authed
    <3>1. /\ Answer(x, f) \/ Silence(x)
          /\ x.authed /\ (x.open <=> agent.open) /\ x.send = agent.send /\ x.recv = agent.recv + 1
      BY <1>4, <2>1, <2>2 DEF Outcome
    <3>2. client.open => client.session = "on"
      BY <1>1, <2>2, SealedAgent
    <3> QED
      BY <1>1, <2>2, <3>1, <3>2, AnswerKeeps
  <2>3. CASE ~agent.authed
    <3>1. /\ Answer(x, f) /\ f.mac = Plain /\ x.open /\ x.up = "none" /\ x.xfer = 0
          /\ x.authed => frame.of = "auth" /\ x.send = 0 /\ x.recv = 0
      BY <1>1, <1>4, <2>1, <2>3 DEF Outcome
    <3>2. /\ agent' \in Agents /\ toClient' \in Seq(Frames) /\ Len(toClient') = Len(toClient) + 1
          /\ agent' = [x EXCEPT !.send = agent'.send]
          /\ agent'.send = IF x.authed THEN x.send + 1 ELSE x.send
          /\ toClient'[Len(toClient) + 1].mac = IF x.authed THEN x.send ELSE f.mac
      BY <1>0, <3>1, AnswerWhat
    <3>3. /\ (agent'.authed <=> x.authed) /\ agent'.up = "none" /\ agent'.xfer = 0 /\ agent'.recv = x.recv
          /\ agent'.open
      BY <3>1, <3>2 DEF Agents
    <3>4. TypeOK' /\ QuietAgent'
      BY <1>0, <1>1, <1>2, <3>2, <3>3 DEF TypeOK, QuietAgent
    <3>5. client.open => client.session # "on"
      BY <1>0, <1>1, <2>3 DEF Sealed
    <3>6. ASSUME client.open PROVE Opening'
      <4>1. Len(toAgent') = 0 /\ Len(toClient') = 1 /\ OnTheWay' = 1
        <5>1. Len(toAgent) = 1 /\ Len(toClient) = 0 /\ Len(client.frames) = 0
          BY <1>5, <3>5, <3>6
        <5>2. Len(toAgent') = 0
          BY <1>2, <5>1
        <5>3. Len(toClient') = 1
          BY <3>2, <5>1
        <5> QED
          BY <1>1, <5>1, <5>2, <5>3 DEF OnTheWay
      <4>2. frame.of = client.cmd
        BY <1>0, <1>2, <1>5, <3>5, <3>6 DEF Opening
      <4>3. agent'.authed => JustSealed'
        <5> SUFFICES ASSUME agent'.authed PROVE JustSealed'
          OBVIOUS
        <5>1. client.session = "pending"
          BY <1>5, <3>1, <3>3, <3>5, <3>6, <4>2 DEF Hello, Auth
        <5>2. toAgent' = <<>>
          BY <1>2, <4>1, EmptySeq
        <5>3. toClient'[1].mac = 0 /\ agent'.send = 1 /\ agent'.recv = 0
          BY <1>5, <3>1, <3>2, <3>3, <3>5, <3>6
        <5> QED
          BY <1>1, <3>3, <4>1, <5>1, <5>2, <5>3 DEF JustSealed
      <4>4. ~agent'.authed => \A i \in 1..Len(toClient') : toClient'[i].mac = Plain
        BY <1>5, <3>1, <3>2, <3>3, <3>5, <3>6, <4>1
      <4> QED
        BY <1>0, <1>1, <1>5, <3>5, <3>6, <4>1, <4>3, <4>4 DEF Opening, Hello, Auth
    <3>7. Opening' /\ Sealed'
      BY <1>1, <3>5, <3>6 DEF Opening, Sealed
    <3> QED
      BY <3>4, <3>7 DEF SessionInv
  <2> QED
    BY <2>2, <2>3
<1> QED
  BY <1>1, <1>6, <1>7

LEMMA NextFrameKeeps == ASSUME SessionInv, NextFrame \/ SetMode PROVE SessionInv'
<1>0. TypeOK /\ QuietAgent /\ agent \in Agents
  BY DEF SessionInv, TypeOK
<1>1. /\ client' = client /\ toAgent' = toAgent /\ result' = result
      /\ agent.xfer # 0 \/ agent.up # "none"
  BY DEF NextFrame, SetMode, fates
<1>2. agent.authed
  BY <1>0, <1>1 DEF QuietAgent
<1>3. client.open => client.session = "on"
  BY <1>1, <1>2, SealedAgent
<1>4. \E x \in Agents, f \in Frames :
        (Answer(x, f) \/ Silence(x)) /\ x.authed /\ (x.open <=> agent.open) /\ x.send = agent.send /\ x.recv = agent.recv
  <2> DEFINE more == [agent EXCEPT !.left = @ - 1]
             over == [agent EXCEPT !.xfer = 0]
             gone == [agent EXCEPT !.up = "discard"]
  <2>1. /\ more \in Agents /\ more.authed /\ (more.open <=> agent.open) /\ more.send = agent.send /\ more.recv = agent.recv
        /\ over \in Agents /\ over.authed /\ (over.open <=> agent.open) /\ over.send = agent.send /\ over.recv = agent.recv
        /\ gone \in Agents /\ gone.authed /\ (gone.open <=> agent.open) /\ gone.send = agent.send /\ gone.recv = agent.recv
    BY <1>0, <1>2 DEF Agents
  <2>2. PICK f \in Frames : \/ Answer(more, f) \/ Answer(over, f) \/ Silence(gone)
    <3>1. agent.xfer \in Nat
      BY <1>0 DEF Agents
    <3>2. /\ Frame("DATA", agent.xfer, "read") \in Frames /\ Frame("ERR", agent.xfer, "IO_ERROR") \in Frames
          /\ Frame("END", agent.xfer, "read") \in Frames
      BY <3>1, FrameType DEF Kinds, Words, Commands
    <3>3. \/ Answer(more, Frame("DATA", agent.xfer, "read")) \/ Answer(over, Frame("ERR", agent.xfer, "IO_ERROR"))
          \/ Answer(over, Frame("END", agent.xfer, "read")) \/ Silence(gone)
      BY DEF NextFrame, SetMode, Silence, Error, EndTransfer
    <3> HIDE DEF more, over, gone
    <3> QED
      BY <3>2, <3>3
  <2> HIDE DEF more, over, gone
  <2> QED
    BY <2>1, <2>2
<1> QED
  BY <1>1, <1>2, <1>3, <1>4, AnswerKeeps

LEMMA LinkKeeps == ASSUME SessionInv, LinkLost \/ LearnsOfClose PROVE SessionInv'
<1>0. TypeOK /\ QuietAgent /\ Opening /\ Sealed /\ client \in Clients
  BY DEF SessionInv, TypeOK
<1>1. CASE LinkLost
  <2>1. /\ agent' = [NewAgent EXCEPT !.open = FALSE] /\ toAgent' = <<>>
        /\ client' = client /\ toClient' = toClient /\ result' = result
    BY <1>1 DEF LinkLost
  <2>2. /\ agent' \in Agents /\ ~agent'.open /\ ~agent'.authed /\ agent'.up = "none" /\ agent'.xfer = 0
    <3> DEFINE a == NewAgent
    <3>1. a \in Agents /\ ~a.authed /\ a.up = "none" /\ a.xfer = 0
      BY DEF NewAgent, Agents
    <3> HIDE DEF a
    <3>2. agent' = [a EXCEPT !.open = FALSE]
      BY <2>1 DEF a
    <3> QED
      BY <3>1, <3>2 DEF Agents
  <2>3. TypeOK' /\ QuietAgent'
    BY <1>0, <2>1, <2>2 DEF TypeOK, QuietAgent
  <2>4. Len(toAgent') = 0 /\ OnTheWay' <= OnTheWay /\ (OnTheWay = 0 => OnTheWay' = 0) /\ OnTheWay \in Nat /\ OnTheWay' \in Nat
    <3>1. Len(toAgent) \in Nat /\ Len(toClient) \in Nat /\ Len(client.frames) \in Nat
      BY <1>0, Sizes
    <3>2. Len(toAgent') = 0
      BY <2>1
    <3>3. OnTheWay' = 0 + Len(toClient) + Len(client.frames)
      BY <2>1, <3>2 DEF OnTheWay
    <3>4. OnTheWay = Len(toAgent) + Len(toClient) + Len(client.frames)
      BY DEF OnTheWay
    <3>5. /\ OnTheWay' <= OnTheWay /\ (OnTheWay = 0 => OnTheWay' = 0)
          /\ OnTheWay \in Nat /\ OnTheWay' \in Nat
      BY <3>1, <3>3, <3>4, Fewer
    <3> QED
      BY <3>2, <3>5
  <2>5. OnTheWay <= 1 => OnTheWay' <= 1
    BY <2>4
  <2>6. Opening'
    BY <1>0, <2>1, <2>2, <2>4, <2>5 DEF Opening, Greeting, Hello, Auth
  <2>7. Sealed'
    BY <1>0, <2>1, <2>2 DEF Sealed
  <2> QED
    BY <2>3, <2>6, <2>7 DEF SessionInv
<1>2. CASE LearnsOfClose
  <2>1. client' = [client EXCEPT !.open = FALSE] /\ toClient' = <<>> /\ agent' = agent /\ toAgent' = toAgent /\ result' = result
    BY <1>2 DEF LearnsOfClose, fates
  <2>2. client' \in Clients /\ ~client'.open
    BY <1>0, <2>1 DEF Clients
  <2>3. TypeOK' /\ QuietAgent'
    BY <1>0, <2>1, <2>2, EmptySeq DEF TypeOK, QuietAgent
  <2> QED
    BY <2>2, <2>3 DEF SessionInv, Opening, Sealed
<1> QED
  BY <1>1, <1>2

LEMMA SessionStep == SessionInv /\ [Next]_vars => SessionInv'
<1> SUFFICES ASSUME SessionInv, [Next]_vars PROVE SessionInv'
  OBVIOUS
<1>1. CASE \E cmd \in Commands : Call(cmd)
  BY <1>1, CallKeeps
<1>2. CASE UNCHANGED vars
  BY <1>2 DEF vars, fates, SessionInv, TypeOK, QuietAgent, Opening, Sealed, OnTheWay, Greeting, Hello, Auth, JustSealed, Numbered
<1> QED
  BY <1>1, <1>2, SendBlockKeeps, EndingsKeep, ReceiveKeeps, TakeKeeps, HandleKeeps, NextFrameKeeps, LinkKeeps
     DEF Next, Library, Commands

LEMMA SessionStarts == Init => SessionInv
<1> SUFFICES ASSUME Init PROVE SessionInv
  OBVIOUS
<1>1. TypeOK
  BY EmptySeq DEF Init, NewClient, NewAgent, TypeOK, Clients, Agents
<1>2. QuietAgent /\ Sealed
  BY DEF Init, NewClient, NewAgent, QuietAgent, Sealed
<1>3. Opening
  BY DEF Init, NewClient, NewAgent, Opening, Greeting, OnTheWay
<1> QED
  BY <1>1, <1>2, <1>3 DEF SessionInv

(***************************************************************************)
(* What holds of a connection at every step: nothing is served that may    *)
(* leave frames behind before AUTH, the greeting and AUTH have the         *)
(* connection to themselves, and the frames of the sealed channel are      *)
(* numbered without a gap (client.ts, ndp_agent.c).                        *)
(***************************************************************************)
THEOREM SessionInvariant == Spec => []SessionInv
BY SessionStarts, SessionStep, PTL DEF Spec

(***************************************************************************)
(* Each side expects just the counters of the frames on their way to it,   *)
(* whatever is refused, swallowed or streamed, for any number of calls and *)
(* transfers of any length: sealed traffic (ndp_agent_handle_frame,        *)
(* verifyIncoming) never closes a connection by itself.                    *)
(***************************************************************************)
THEOREM SessionCounters == Spec => []CountersAgree
BY SessionInvariant, InvGivesCounters, PTL

(***************************************************************************)
(* What the connection keeps of the library's promise, as an inductive     *)
(* invariant: how far the calls are (Calling); the requests on their way   *)
(* to the agent are newer than all it has dealt with (Asking); frames of   *)
(* an upload find it, and no upload is left open that would turn a request *)
(* away (Sending); and what the client is to receive is, behind the        *)
(* answers to earlier calls, the start of a proper reply to the call that  *)
(* goes on, which the agent can still complete (Answering).                *)
(***************************************************************************)
\* What the client still is to receive, while it is open.
Inbox == IF client.open THEN client.frames \o toClient ELSE client.frames
Live == client.open /\ agent.open

Done == ran \cup refused
Later(i) == \A j \in Done : j < i

Named(id, cmd) ==
  /\ id = 1 => cmd = "hello"
  /\ id = 2 => cmd = "auth"
  /\ id > 2 => cmd \in {"ask", "read", "write"}

Counting ==
  /\ client.id = Len(result) /\ Len(result) <= MaxCalls
  /\ ran \in SUBSET (1..Len(result)) /\ refused \in SUBSET (1..Len(result)) /\ broken \in BOOLEAN

Doing ==
  /\ client.doing # "idle" <=> Len(result) > 0 /\ result[Len(result)] = "none"
  /\ client.doing = "answer" => client.n = 0
  /\ client.doing \in {"data", "commit"} => client.cmd = "write"
  /\ client.doing = "stream" => client.cmd = "read"
  /\ client.doing # "idle" => Named(client.id, client.cmd)

Opened ==
  /\ Len(result) >= 2 => 1 \in ran
  /\ Len(result) >= 3 => 2 \in ran
  /\ client.doing = "idle" /\ client.open /\ Len(result) \in {1, 2} => Len(result) \in ran

Breaks ==
  /\ client.open /\ ~agent.open => broken
  /\ ~client.open /\ client.doing # "idle" => broken

Calling == Counting /\ Doing /\ Opened /\ Breaks

Request(k) == toAgent[k].kind = "REQ"
Asked ==
  /\ \A k \in 1..Len(toAgent) : toAgent[k].kind \in {"REQ", "DATA", "END"} /\ toAgent[k].id \in 1..Len(result)
  /\ \A k \in 1..Len(toAgent) : Request(k) => Later(toAgent[k].id) /\ Named(toAgent[k].id, toAgent[k].of)
  /\ \A j, k \in 1..Len(toAgent) : j < k /\ Request(j) /\ Request(k) => toAgent[j].id < toAgent[k].id

Before(i) == i \in 1..Len(result) /\ \A k \in 1..Len(toAgent) : Request(k) => i < toAgent[k].id
Working ==
  /\ agent.up # "none" => Before(agent.upId)
  /\ agent.up = "active" => Later(agent.upId)
  /\ agent.xfer # 0 => agent.up = "none" /\ Before(agent.xfer) /\ Later(agent.xfer)
Greeted ==
  /\ 1 \in ran => agent.hello
  /\ agent.authed <=> 2 \in ran
Asking == agent.open => Asked /\ Working /\ Greeted

Uploaded ==
  \A k \in 1..Len(toAgent) : ~Request(k) =>
    /\ agent.up # "none" /\ agent.upId = toAgent[k].id
    /\ \A j \in 1..(k - 1) : toAgent[j].kind = "DATA"
Abandoned ==
  ~broken =>
    /\ agent.up = "active" =>
         \/ \E k \in 1..Len(toAgent) : toAgent[k].kind = "END"
         \/ agent.upId = client.id /\ client.doing \in {"answer", "data"}
    /\ \A k \in 1..Len(toAgent) : Request(k) /\ toAgent[k].of = "write" =>
         toAgent[k].id = client.id /\ client.doing = "answer"
Alone ==
  client.session # "on" =>
    /\ \A k \in 1..Len(toAgent) : toAgent[k].id = client.id
    /\ \A k \in 1..Len(Inbox) : Inbox[k].id = client.id
Sending == Live => Uploaded /\ Abandoned /\ Alone

Known == \A k \in 1..Len(Inbox) : Inbox[k].id \in 1..Len(result)

\* The answers to earlier calls end at s.
Since(s) == \A k \in 1..Len(Inbox) : k > s <=> Inbox[k].id = client.id
Turned(k) == Inbox[k].kind = "ERR" /\ IF Inbox[k].of = "BUSY" THEN broken ELSE client.id \in refused

OneAnswer(s) ==
  client.doing = "commit" \/ (client.doing = "answer" /\ client.cmd # "read") =>
    /\ Len(Inbox) <= s + 1
    /\ \A k \in (s + 1)..Len(Inbox) :
         \/ Turned(k)
         \/ Inbox[k].kind = "RES" /\ (client.id \in ran \/ (client.doing = "answer" /\ client.cmd = "write"))
NoAnswer(s) ==
  client.doing = "data" => Len(Inbox) <= s + 1 /\ \A k \in (s + 1)..Len(Inbox) : Turned(k)

\* The frames of a transfer begin after its answer, which was taken before the client streams.
Start(s) == IF client.doing = "answer" THEN s + 1 ELSE s
Transfer(s) ==
  client.cmd = "read" =>
    /\ client.doing = "answer" /\ s < Len(Inbox) =>
         Inbox[s + 1].kind = "RES" \/ (Turned(s + 1) /\ Len(Inbox) = s + 1)
    /\ \A k \in (Start(s) + 1)..Len(Inbox) :
         \/ Inbox[k].kind = "DATA"
         \/ k = Len(Inbox) /\ Turned(k)
         \/ k = Len(Inbox) /\ Inbox[k].kind = "END" /\ client.id \in ran /\ client.n + (k - 1 - Start(s)) = Chunks
Reply(s) == Since(s) /\ OneAnswer(s) /\ NoAnswer(s) /\ Transfer(s)

AnswerPends(s) ==
  client.doing = "answer" =>
    /\ toAgent # <<>> =>
         /\ Len(Inbox) = s /\ agent.xfer # client.id
         /\ Request(Len(toAgent)) /\ toAgent[Len(toAgent)].id = client.id /\ toAgent[Len(toAgent)].of = client.cmd
    /\ client.cmd = "write" /\ s < Len(Inbox) /\ Inbox[s + 1].kind = "RES" => agent.up # "none" /\ agent.upId = client.id
DataPends(s) ==
  client.doing = "data" =>
    /\ agent.up # "none" /\ agent.upId = client.id
    /\ \A k \in 1..Len(toAgent) : toAgent[k].kind = "DATA"
    /\ Len(Inbox) > s => agent.up = "discard"
CommitPends(s) ==
  client.doing = "commit" =>
    /\ \A k \in 1..Len(toAgent) : ~Request(k)
    /\ toAgent # <<>> => toAgent[Len(toAgent)].kind = "END" /\ toAgent[Len(toAgent)].id = client.id
    /\ Len(Inbox) > s => toAgent = <<>> \/ agent.up = "discard"
BlocksPend(s) ==
  /\ client.doing = "stream" => toAgent = <<>>
  /\ agent.xfer # 0 /\ agent.xfer # client.id => client.doing = "answer" /\ toAgent # <<>>
  /\ agent.xfer = client.id =>
       /\ client.cmd = "read" /\ Len(Inbox) >= Start(s)
       /\ client.doing = "answer" => Inbox[s + 1].kind = "RES"
       /\ \A k \in (Start(s) + 1)..Len(Inbox) : Inbox[k].kind = "DATA"
       /\ client.n + (Len(Inbox) - Start(s)) + agent.left = Chunks
UploadIsWrite == agent.up # "none" /\ agent.upId = client.id => client.cmd = "write"
Pends(s) == Live => AnswerPends(s) /\ DataPends(s) /\ CommitPends(s) /\ BlocksPend(s) /\ UploadIsWrite

Answering == client.doing # "idle" => \E s \in 0..Len(Inbox) : Reply(s) /\ Pends(s)

PromiseInv == Calling /\ Asking /\ Sending /\ Known /\ Answering

(***************************************************************************)
(* The frames a client still is to receive.                                *)
(***************************************************************************)
LEMMA JoinIs ==
  ASSUME NEW f \in Seq(Frames), NEW g \in Seq(Frames), NEW q, NEW open \in BOOLEAN, q = IF open THEN f \o g ELSE f
  PROVE  /\ q \in Seq(Frames) /\ Len(q) \in Nat /\ Len(f) \in Nat /\ Len(g) \in Nat
         /\ Len(f) <= Len(q) /\ \A k \in 1..Len(f) : q[k] = f[k]
         /\ open => Len(q) = Len(f) + Len(g) /\ \A k \in 1..Len(g) : q[Len(f) + k] = g[k]
         /\ ~open => q = f
<1>1. Len(f) \in Nat /\ Len(g) \in Nat
  BY LenProperties
<1>2. /\ f \o g \in Seq(Frames) /\ Len(f \o g) = Len(f) + Len(g)
      /\ \A k \in 1..Len(f) + Len(g) : (f \o g)[k] = IF k <= Len(f) THEN f[k] ELSE g[k - Len(f)]
  BY ConcatProperties
<1>3. \A k \in 1..Len(g) : (f \o g)[Len(f) + k] = g[k]
  <2> SUFFICES ASSUME NEW k \in 1..Len(g) PROVE (f \o g)[Len(f) + k] = g[k]
    OBVIOUS
  <2>1. Len(f) + k \in 1..Len(f) + Len(g) /\ ~(Len(f) + k <= Len(f)) /\ (Len(f) + k) - Len(f) = k
    BY <1>1
  <2> QED BY <1>2, <2>1
<1>4. \A k \in 1..Len(f) : (f \o g)[k] = f[k]
  BY <1>1, <1>2
<1>5. CASE open
  <2>1. q = f \o g
    BY <1>5
  <2>2. Len(f) <= Len(f) + Len(g) /\ Len(f) + Len(g) \in Nat
    BY <1>1
  <2> QED BY <1>1, <1>2, <1>3, <1>4, <1>5, <2>1, <2>2, Zenon
<1>6. CASE ~open
  <2>1. q = f
    BY <1>6
  <2>2. Len(f) <= Len(f)
    BY <1>1
  <2> QED BY <1>1, <1>6, <2>1, <2>2, Zenon
<1> QED BY <1>5, <1>6

LEMMA InboxIs ==
  ASSUME TypeOK
  PROVE  /\ Inbox \in Seq(Frames) /\ Len(Inbox) \in Nat /\ client.frames \in Seq(Frames) /\ Len(client.frames) \in Nat
         /\ Len(toClient) \in Nat /\ toClient \in Seq(Frames)
         /\ Len(client.frames) <= Len(Inbox) /\ \A k \in 1..Len(client.frames) : Inbox[k] = client.frames[k]
         /\ client.open => /\ Len(Inbox) = Len(client.frames) + Len(toClient)
                           /\ \A k \in 1..Len(toClient) : Inbox[Len(client.frames) + k] = toClient[k]
         /\ ~client.open => Inbox = client.frames
<1>1. client.frames \in Seq(Frames) /\ toClient \in Seq(Frames) /\ client.open \in BOOLEAN
  BY DEF TypeOK, Clients
<1>2. Inbox = IF client.open THEN client.frames \o toClient ELSE client.frames
  BY DEF Inbox
<1> QED BY ONLY <1>1, <1>2, JoinIs

LEMMA NextInboxIs ==
  ASSUME TypeOK'
  PROVE  /\ Inbox' \in Seq(Frames) /\ Len(Inbox') \in Nat
         /\ Len(client'.frames) <= Len(Inbox') /\ \A k \in 1..Len(client'.frames) : Inbox'[k] = client'.frames[k]
         /\ client'.open => /\ Len(Inbox') = Len(client'.frames) + Len(toClient')
                            /\ \A k \in 1..Len(toClient') : Inbox'[Len(client'.frames) + k] = toClient'[k]
         /\ ~client'.open => Inbox' = client'.frames
<1>1. client'.frames \in Seq(Frames) /\ toClient' \in Seq(Frames) /\ client'.open \in BOOLEAN
  BY DEF TypeOK, Clients
<1>2. Inbox' = IF client'.open THEN client'.frames \o toClient' ELSE client'.frames
  BY DEF Inbox
<1> QED BY ONLY <1>1, <1>2, JoinIs

\* How a step changes them.
Cut == Len(Inbox') <= Len(Inbox) /\ \A k \in 1..Len(Inbox') : Inbox'[k] = Inbox[k]
Kept == Len(Inbox') = Len(Inbox) /\ \A k \in 1..Len(Inbox) : Inbox'[k] = Inbox[k]
Taken == Len(Inbox') = Len(Inbox) - 1 /\ \A k \in 1..Len(Inbox') : Inbox'[k] = Inbox[k + 1]
Grown(kind, id, of) ==
  /\ Len(Inbox') = Len(Inbox) + 1 /\ \A k \in 1..Len(Inbox) : Inbox'[k] = Inbox[k]
  /\ Inbox'[Len(Inbox) + 1].kind = kind /\ Inbox'[Len(Inbox) + 1].id = id /\ Inbox'[Len(Inbox) + 1].of = of

\* What is received is what was to come.
LEMMA InboxReceived ==
  ASSUME TypeOK, TypeOK', client.open, client'.open, toClient # <<>>, toClient' = Tail(toClient),
         client'.frames = Append(client.frames, Head(toClient))
  PROVE  Kept
<1>1. /\ client.frames \in Seq(Frames) /\ Len(client.frames) \in Nat /\ toClient \in Seq(Frames) /\ Len(toClient) \in Nat
      /\ Len(Inbox) = Len(client.frames) + Len(toClient)
      /\ \A k \in 1..Len(client.frames) : Inbox[k] = client.frames[k]
      /\ \A k \in 1..Len(toClient) : Inbox[Len(client.frames) + k] = toClient[k]
  BY InboxIs
<1>2. /\ Len(Inbox') = Len(client'.frames) + Len(toClient')
      /\ \A k \in 1..Len(client'.frames) : Inbox'[k] = client'.frames[k]
      /\ \A k \in 1..Len(toClient') : Inbox'[Len(client'.frames) + k] = toClient'[k]
  BY NextInboxIs
<1>3. /\ Len(toClient) >= 1 /\ Head(toClient) = toClient[1] /\ Head(toClient) \in Frames
      /\ Len(toClient') = Len(toClient) - 1 /\ \A k \in 1..Len(toClient') : toClient'[k] = toClient[k + 1]
  BY <1>1, HeadTailProperties, EmptySeq
<1>4. /\ Len(client'.frames) = Len(client.frames) + 1
      /\ \A k \in 1..Len(client.frames) : client'.frames[k] = client.frames[k]
      /\ client'.frames[Len(client.frames) + 1] = toClient[1]
  BY <1>1, <1>3, AppendProperties
<1>5. Len(Inbox') = Len(Inbox)
  BY <1>1, <1>2, <1>3, <1>4
<1>6. ASSUME NEW k \in 1..Len(Inbox) PROVE Inbox'[k] = Inbox[k]
  <2> DEFINE n == Len(client.frames)
             m == Len(toClient)
  <2>0. n \in Nat /\ m \in Nat /\ k \in 1..n + m /\ Len(toClient') = m - 1 /\ Len(client'.frames) = n + 1
    BY <1>1, <1>3, <1>4
  <2>1. CASE k <= n
    <3>1. k \in 1..n /\ k \in 1..n + 1
      BY <2>0, <2>1
    <3> QED BY <1>1, <1>2, <1>4, <2>0, <3>1
  <2>2. CASE k = n + 1
    <3>1. n + 1 \in 1..n + 1 /\ 1 \in 1..m
      BY <2>0, <2>2
    <3>2. Inbox'[k] = client'.frames[n + 1] /\ client'.frames[n + 1] = toClient[1] /\ Inbox[k] = toClient[1]
      BY <1>1, <1>2, <1>4, <2>0, <2>2, <3>1
    <3> QED BY <3>2
  <2>3. CASE k > n + 1
    <3> DEFINE j == k - (n + 1)
    <3>1. j \in 1..m - 1 /\ k = (n + 1) + j /\ j + 1 \in 1..m /\ k = n + (j + 1)
      <4> HIDE DEF n, m
      <4> QED BY <2>0, <2>3
    <3> HIDE DEF j
    <3>2. Inbox'[(n + 1) + j] = toClient'[j]
      BY <1>2, <2>0, <3>1
    <3>3. toClient'[j] = toClient[j + 1]
      BY <1>3, <2>0, <3>1
    <3>4. Inbox[n + (j + 1)] = toClient[j + 1]
      BY <1>1, <3>1
    <3> QED BY <3>1, <3>2, <3>3, <3>4
  <2> QED BY <2>0, <2>1, <2>2, <2>3
<1> QED BY <1>5, <1>6 DEF Kept

\* The client is closed: what it has is what it gets.
LEMMA InboxClosed ==
  ASSUME TypeOK, TypeOK', ~client'.open, client'.frames = client.frames
  PROVE  Cut
<1>1. /\ Len(client.frames) \in Nat /\ Len(Inbox) \in Nat
      /\ Len(client.frames) <= Len(Inbox) /\ \A k \in 1..Len(client.frames) : Inbox[k] = client.frames[k]
  BY InboxIs
<1>2. Inbox' = client.frames
  BY NextInboxIs
<1> QED BY <1>1, <1>2 DEF Cut

\* A frame the client has is taken out: the first, or any.
LEMMA InboxTaken ==
  ASSUME TypeOK, TypeOK', client.frames # <<>>, client'.frames = Tail(client.frames),
         toClient' = toClient, client'.open = client.open
  PROVE  Taken /\ Len(Inbox) >= 1 /\ Head(client.frames) = Inbox[1]
<1>1. /\ client.frames \in Seq(Frames) /\ Len(client.frames) \in Nat /\ Len(toClient) \in Nat
      /\ \A k \in 1..Len(client.frames) : Inbox[k] = client.frames[k]
      /\ client.open => /\ Len(Inbox) = Len(client.frames) + Len(toClient)
                        /\ \A k \in 1..Len(toClient) : Inbox[Len(client.frames) + k] = toClient[k]
      /\ ~client.open => Inbox = client.frames
  BY InboxIs
<1>2. /\ \A k \in 1..Len(client'.frames) : Inbox'[k] = client'.frames[k]
      /\ client.open => /\ Len(Inbox') = Len(client'.frames) + Len(toClient)
                        /\ \A k \in 1..Len(toClient) : Inbox'[Len(client'.frames) + k] = toClient[k]
      /\ ~client.open => Inbox' = client'.frames
  BY NextInboxIs
<1>3. /\ Len(client.frames) >= 1 /\ Head(client.frames) = client.frames[1]
      /\ Len(client'.frames) = Len(client.frames) - 1
      /\ \A k \in 1..Len(client'.frames) : client'.frames[k] = client.frames[k + 1]
  BY <1>1, HeadTailProperties, EmptySeq
<1>4. CASE ~client.open
  BY <1>1, <1>2, <1>3, <1>4 DEF Taken
<1>5. CASE client.open
  <2> DEFINE n == Len(client.frames)
             m == Len(toClient)
  <2>0. n \in Nat \ {0} /\ m \in Nat /\ Len(client'.frames) = n - 1 /\ Len(Inbox) = n + m /\ Len(Inbox') = (n - 1) + m
    BY <1>1, <1>2, <1>3, <1>5
  <2>1. ASSUME NEW k \in 1..Len(Inbox') PROVE Inbox'[k] = Inbox[k + 1]
    <3>1. CASE k <= n - 1
      <4>1. k \in 1..n - 1 /\ k + 1 \in 1..n
        BY <2>0, <3>1
      <4> QED BY <1>1, <1>2, <1>3, <2>0, <4>1
    <3>2. CASE ~(k <= n - 1)
      <4> DEFINE j == k - (n - 1)
      <4>1. j \in 1..m /\ k = (n - 1) + j /\ k + 1 = n + j
        <5> HIDE DEF n, m
        <5> QED BY <2>0, <3>2
      <4> HIDE DEF j
      <4>2. Inbox'[(n - 1) + j] = toClient[j] /\ Inbox[n + j] = toClient[j]
        BY <1>1, <1>2, <1>5, <2>0, <4>1
      <4> QED BY <4>1, <4>2
    <3> QED BY <3>1, <3>2
  <2>2. Len(Inbox') = Len(Inbox) - 1 /\ Len(Inbox) >= 1 /\ Inbox[1] = client.frames[1]
    BY <1>1, <2>0
  <2> QED BY <1>3, <2>1, <2>2 DEF Taken
<1> QED BY <1>4, <1>5

\* The agent says something to a client that is open, or nothing it hears.
LEMMA InboxAnswered ==
  ASSUME TypeOK, TypeOK', client' = client, client.open, Len(toClient') = Len(toClient) + 1,
         \A i \in 1..Len(toClient) : toClient'[i] = toClient[i],
         NEW kind, NEW id, NEW of, toClient'[Len(toClient) + 1].kind = kind,
         toClient'[Len(toClient) + 1].id = id, toClient'[Len(toClient) + 1].of = of
  PROVE  Grown(kind, id, of)
<1>1. /\ Len(client.frames) \in Nat /\ Len(toClient) \in Nat
      /\ \A k \in 1..Len(client.frames) : Inbox[k] = client.frames[k]
      /\ Len(Inbox) = Len(client.frames) + Len(toClient)
      /\ \A k \in 1..Len(toClient) : Inbox[Len(client.frames) + k] = toClient[k]
  BY InboxIs
<1>2. /\ \A k \in 1..Len(client.frames) : Inbox'[k] = client.frames[k]
      /\ Len(Inbox') = Len(client.frames) + Len(toClient')
      /\ \A k \in 1..Len(toClient') : Inbox'[Len(client.frames) + k] = toClient'[k]
  BY NextInboxIs
<1> DEFINE n == Len(client.frames)
           m == Len(toClient)
<1>3. ASSUME NEW k \in 1..Len(Inbox) PROVE Inbox'[k] = Inbox[k]
  <2>1. CASE k <= n
    <3>1. k \in 1..n
      BY <1>1, <2>1
    <3> QED BY <1>1, <1>2, <3>1
  <2>2. CASE ~(k <= n)
    <3> DEFINE j == k - n
    <3>1. j \in 1..m /\ k = n + j /\ j \in 1..m + 1
      BY <1>1, <2>2
    <3> HIDE DEF j
    <3>2. Inbox'[n + j] = toClient'[j] /\ Inbox[n + j] = toClient[j] /\ toClient'[j] = toClient[j]
      BY <1>1, <1>2, <3>1
    <3> QED BY <3>1, <3>2
  <2> QED BY <2>1, <2>2
<1>4. Len(Inbox) + 1 = n + (m + 1) /\ m + 1 \in 1..m + 1 /\ Len(Inbox') = Len(Inbox) + 1 /\ Len(toClient') = m + 1
  <2>1. n \in Nat /\ m \in Nat /\ Len(Inbox) = n + m /\ Len(Inbox') = n + Len(toClient') /\ Len(toClient') = m + 1
    BY <1>1, <1>2
  <2> HIDE DEF n, m
  <2> QED BY <2>1
<1>5. Inbox'[n + (m + 1)] = toClient'[m + 1]
  BY <1>2, <1>4
<1> HIDE DEF n
<1> QED BY <1>3, <1>4, <1>5 DEF Grown

LEMMA InboxSame ==
  ASSUME client'.open = client.open, client'.frames = client.frames, toClient' = toClient \/ ~client.open
  PROVE  Inbox' = Inbox
BY DEF Inbox

(***************************************************************************)
(* What the agent does with a frame.                                       *)
(***************************************************************************)
Says(kind, id, of) ==
  /\ Len(toClient') = Len(toClient) + 1 /\ \A i \in 1..Len(toClient) : toClient'[i] = toClient[i]
  /\ toClient'[Len(toClient) + 1].kind = kind /\ toClient'[Len(toClient) + 1].id = id /\ toClient'[Len(toClient) + 1].of = of

\* b is a, but for its counters and what it has of an upload.
Like(b, a) ==
  /\ b.open = a.open /\ b.hello = a.hello /\ b.authed = a.authed
  /\ b.up = a.up /\ b.upId = a.upId /\ b.xfer = a.xfer /\ b.left = a.left

Stays(a) == agent'.open = a.open /\ agent'.hello = a.hello /\ agent'.authed = a.authed
Holds(up, id) == agent'.up = up /\ agent'.upId = id
Streams(id, left) == agent'.xfer = id /\ agent'.left = left

OfUpload(a, f) == a.up # "none" /\ f.kind \in {"DATA", "END"} /\ f.id = a.upId
Swallows(a, f) ==
  /\ OfUpload(a, f) /\ a.up = "discard" /\ toClient' = toClient /\ Goes
  /\ Stays(a) /\ Holds(IF f.kind = "END" THEN "none" ELSE "discard", a.upId) /\ Streams(a.xfer, a.left)
Stores(a, f) ==
  /\ OfUpload(a, f) /\ a.up = "active" /\ f.kind = "DATA" /\ toClient' = toClient /\ Goes
  /\ Stays(a) /\ Holds("active", a.upId) /\ Streams(a.xfer, a.left)
FailsUpload(a, f) ==
  /\ OfUpload(a, f) /\ a.up = "active" /\ Says("ERR", f.id, "IO_ERROR") /\ Refuses(f.id)
  /\ Stays(a) /\ Holds(IF f.kind = "END" THEN "none" ELSE "discard", a.upId) /\ Streams(a.xfer, a.left)
Commits(a, f) ==
  /\ OfUpload(a, f) /\ a.up = "active" /\ f.kind = "END" /\ Says("RES", f.id, "OK") /\ RunsCall(f.id)
  /\ Stays(a) /\ Holds("none", a.upId) /\ Streams(a.xfer, a.left)
IsStray(a, f) ==
  /\ ~OfUpload(a, f) /\ ~(f.kind = "REQ" /\ (a.up = "active" \/ f.of \in Serves(a)))
  /\ Says("ERR", f.id, "BAD_REQUEST") /\ Goes
  /\ Stays(a) /\ Holds(agent'.up, a.upId) /\ (agent'.up = a.up \/ agent'.up = "none") /\ Streams(a.xfer, a.left)
IsBusy(a, f) ==
  /\ f.kind = "REQ" /\ a.up = "active" /\ Says("ERR", f.id, "BUSY") /\ Goes
  /\ Stays(a) /\ Holds("active", a.upId) /\ Streams(a.xfer, a.left)
Accepts(a, f) == f.kind = "REQ" /\ a.up # "active" /\ f.of \in Serves(a)
TurnsDown(a, f) ==
  /\ Accepts(a, f) /\ Says("ERR", f.id, "REFUSED") /\ Refuses(f.id)
  /\ Stays(a) /\ Holds("none", a.upId) /\ Streams(a.xfer, a.left)
Answers(a, f) ==
  /\ Accepts(a, f) /\ f.of \in {"hello", "auth", "ask"} /\ Says("RES", f.id, "OK") /\ RunsCall(f.id)
  /\ agent'.open = a.open /\ agent'.hello = (a.hello \/ f.of = "hello") /\ agent'.authed = (a.authed \/ f.of = "auth")
  /\ Holds("none", a.upId) /\ Streams(a.xfer, a.left)
BeginsRead(a, f) ==
  /\ Accepts(a, f) /\ f.of = "read" /\ Says("RES", f.id, "OK") /\ Goes
  /\ Stays(a) /\ Holds("none", a.upId) /\ Streams(f.id, Chunks)
BeginsWrite(a, f) ==
  /\ Accepts(a, f) /\ f.of = "write" /\ Says("RES", f.id, "OK") /\ Goes
  /\ Stays(a) /\ Holds("active", f.id) /\ Streams(a.xfer, a.left)

OnUpload(a, f) == Swallows(a, f) \/ Stores(a, f) \/ FailsUpload(a, f) \/ Commits(a, f)
OnRequest(a, f) == TurnsDown(a, f) \/ Answers(a, f) \/ BeginsRead(a, f) \/ BeginsWrite(a, f)
Does(a, f) == OnUpload(a, f) \/ IsStray(a, f) \/ IsBusy(a, f) \/ OnRequest(a, f)

LEMMA AnswerSays ==
  ASSUME TypeOK, NEW kind \in Kinds, NEW id \in Nat, NEW of \in Words, NEW x \in Agents, Answer(x, Frame(kind, id, of))
  PROVE  Says(kind, id, of) /\ Like(agent', x)
<1> DEFINE frame == Frame(kind, id, of)
           sent == IF x.authed THEN [frame EXCEPT !.mac = x.send] ELSE frame
<1>1. sent \in Frames /\ sent.kind = kind /\ sent.id = id /\ sent.of = of
  <2>1. x.send \in Int /\ frame \in Frames /\ frame.kind = kind /\ frame.id = id /\ frame.of = of
    BY FrameType DEF Agents, Frame
  <2> HIDE DEF frame
  <2>2. CASE x.authed
    BY <2>1, <2>2 DEF Frames
  <2>3. CASE ~x.authed
    BY <2>1, <2>3
  <2> QED BY <2>2, <2>3
<1>2. toClient' = Append(toClient, sent) /\ agent' = IF x.authed THEN [x EXCEPT !.send = @ + 1] ELSE x
  BY DEF Answer
<1> HIDE DEF sent
<1>3. /\ Len(toClient') = Len(toClient) + 1 /\ \A i \in 1..Len(toClient) : toClient'[i] = toClient[i]
      /\ toClient'[Len(toClient) + 1] = sent
  BY <1>1, <1>2, AppendProperties DEF TypeOK
<1>4. Like(agent', x)
  <2>1. CASE x.authed
    BY <1>2, <2>1 DEF Like, Agents
  <2>2. CASE ~x.authed
    BY <1>2, <2>2 DEF Like
  <2> QED BY <2>1, <2>2
<1> QED BY <1>1, <1>3, <1>4 DEF Says

LEMMA UploadDoes ==
  ASSUME TypeOK, NEW a \in Agents, NEW f \in Frames, OfUpload(a, f), UploadFrame(a, f)
  PROVE  OnUpload(a, f)
<1> DEFINE ended == [a EXCEPT !.up = "none"]
           gave == [a EXCEPT !.up = "discard"]
           more == [a EXCEPT !.received = @ + 1]
<1>1. /\ ended \in Agents /\ Like(ended, [a EXCEPT !.up = "none"])
      /\ gave \in Agents /\ more \in Agents /\ Like(more, a)
      /\ Like(gave, [a EXCEPT !.up = "discard"])
  BY DEF Agents, Like
<1>2. /\ ended.up = "none" /\ ended.upId = a.upId /\ ended.xfer = a.xfer /\ ended.left = a.left
      /\ ended.open = a.open /\ ended.hello = a.hello /\ ended.authed = a.authed
      /\ gave.up = "discard" /\ gave.upId = a.upId /\ gave.xfer = a.xfer /\ gave.left = a.left
      /\ gave.open = a.open /\ gave.hello = a.hello /\ gave.authed = a.authed
  BY DEF Agents
<1>3. f.id \in Nat /\ f.kind \in {"DATA", "END"}
  BY DEF Frames, OfUpload
<1>4. \/ a.up = "discard" /\ Silence(IF f.kind = "END" THEN ended ELSE a) /\ Goes
      \/ a.up = "active" /\ f.kind = "DATA" /\ Silence(more) /\ Goes
      \/ a.up = "active" /\ f.kind = "DATA" /\ Answer(gave, Frame("ERR", f.id, "IO_ERROR")) /\ Refuses(f.id)
      \/ a.up = "active" /\ f.kind = "END" /\ Answer(ended, Frame("RES", f.id, "OK")) /\ RunsCall(f.id)
      \/ a.up = "active" /\ f.kind = "END" /\ Answer(ended, Frame("ERR", f.id, "IO_ERROR")) /\ Refuses(f.id)
  BY DEF UploadFrame, Error
<1> HIDE DEF ended, gave, more
<1>5. CASE a.up = "discard" /\ Silence(IF f.kind = "END" THEN ended ELSE a) /\ Goes
  <2>1. CASE f.kind = "END"
    BY <1>2, <1>5, <2>1 DEF Silence, Swallows, OnUpload, Stays, Holds, Streams
  <2>2. CASE f.kind # "END"
    BY <1>5, <2>2 DEF Silence, Swallows, OnUpload, Stays, Holds, Streams
  <2> QED BY <2>1, <2>2
<1>6. CASE a.up = "active" /\ f.kind = "DATA" /\ Silence(more) /\ Goes
  BY <1>1, <1>6 DEF Silence, Stores, OnUpload, Stays, Holds, Streams, Like
<1>7. CASE a.up = "active" /\ f.kind = "DATA" /\ Answer(gave, Frame("ERR", f.id, "IO_ERROR")) /\ Refuses(f.id)
  <2>1. Says("ERR", f.id, "IO_ERROR") /\ Like(agent', gave)
    BY <1>1, <1>3, <1>7, AnswerSays DEF Kinds, Words
  <2> QED BY <1>2, <1>7, <2>1 DEF Like, FailsUpload, OnUpload, Stays, Holds, Streams
<1>8. CASE a.up = "active" /\ f.kind = "END" /\ Answer(ended, Frame("RES", f.id, "OK")) /\ RunsCall(f.id)
  <2>1. Says("RES", f.id, "OK") /\ Like(agent', ended)
    BY <1>1, <1>3, <1>8, AnswerSays DEF Kinds, Words
  <2> QED BY <1>2, <1>8, <2>1 DEF Like, Commits, OnUpload, Stays, Holds, Streams
<1>9. CASE a.up = "active" /\ f.kind = "END" /\ Answer(ended, Frame("ERR", f.id, "IO_ERROR")) /\ Refuses(f.id)
  <2>1. Says("ERR", f.id, "IO_ERROR") /\ Like(agent', ended)
    BY <1>1, <1>3, <1>9, AnswerSays DEF Kinds, Words
  <2> QED BY <1>2, <1>9, <2>1 DEF Like, FailsUpload, OnUpload, Stays, Holds, Streams
<1> QED BY <1>4, <1>5, <1>6, <1>7, <1>8, <1>9

LEMMA ServeDoes ==
  ASSUME TypeOK, NEW a \in Agents, NEW f \in Frames, NEW b \in Agents, Accepts(a, f),
         b.open = a.open, b.hello = a.hello, b.authed = a.authed, b.up = "none", b.upId = a.upId,
         b.xfer = a.xfer, b.left = a.left, Serve(b, f.id, f.of)
  PROVE  OnRequest(a, f)
<1> DEFINE greeted == [b EXCEPT !.hello = TRUE]
           authenticated == Authenticated(b)
           reads == Reads(b, f.id)
           writes == Writes(b, f.id)
<1>0. f.id \in Nat /\ Chunks \in Nat
  BY SessionAssumption DEF Frames
<1>1. /\ greeted \in Agents /\ greeted.open = a.open /\ greeted.hello /\ greeted.authed = a.authed
      /\ greeted.up = "none" /\ greeted.upId = a.upId /\ greeted.xfer = a.xfer /\ greeted.left = a.left
  BY DEF Agents
<1>2. /\ authenticated \in Agents /\ authenticated.open = a.open /\ authenticated.hello = a.hello /\ authenticated.authed
      /\ authenticated.up = "none" /\ authenticated.upId = a.upId /\ authenticated.xfer = a.xfer /\ authenticated.left = a.left
  BY DEF Agents, Authenticated
<1>3. /\ reads \in Agents /\ reads.open = a.open /\ reads.hello = a.hello /\ reads.authed = a.authed
      /\ reads.up = "none" /\ reads.upId = a.upId /\ reads.xfer = f.id /\ reads.left = Chunks
  <2> DEFINE mid == [b EXCEPT !.xfer = f.id]
  <2>1. /\ mid \in Agents /\ mid.open = a.open /\ mid.hello = a.hello /\ mid.authed = a.authed
        /\ mid.up = "none" /\ mid.upId = a.upId /\ mid.xfer = f.id
    BY <1>0 DEF Agents
  <2>2. reads = [mid EXCEPT !.left = Chunks] /\ Chunks \in Int
    BY <1>0 DEF Reads
  <2> HIDE DEF mid, reads
  <2> QED BY <2>1, <2>2 DEF Agents
<1>4. /\ writes \in Agents /\ writes.open = a.open /\ writes.hello = a.hello /\ writes.authed = a.authed
      /\ writes.up = "active" /\ writes.upId = f.id /\ writes.xfer = a.xfer /\ writes.left = a.left
  BY <1>0 DEF Agents, Writes
<1>5. \/ Answer(b, Frame("ERR", f.id, "REFUSED")) /\ Refuses(f.id)
      \/ f.of = "hello" /\ Answer(greeted, Frame("RES", f.id, "OK")) /\ RunsCall(f.id)
      \/ f.of = "auth" /\ Answer(authenticated, Frame("RES", f.id, "OK")) /\ RunsCall(f.id)
      \/ f.of = "ask" /\ Answer(b, Frame("RES", f.id, "OK")) /\ RunsCall(f.id)
      \/ f.of = "read" /\ Answer(reads, Frame("RES", f.id, "OK")) /\ Goes
      \/ f.of = "write" /\ Answer(writes, Frame("RES", f.id, "OK")) /\ Goes
  BY DEF Serve, Error
<1> HIDE DEF greeted, authenticated, reads, writes
<1>6. CASE Answer(b, Frame("ERR", f.id, "REFUSED")) /\ Refuses(f.id)
  <2>1. Says("ERR", f.id, "REFUSED") /\ Like(agent', b)
    BY <1>0, <1>6, AnswerSays DEF Kinds, Words
  <2> QED BY <1>6, <2>1 DEF Like, TurnsDown, OnRequest, Stays, Holds, Streams
<1>7. ASSUME NEW x \in Agents, Answer(x, Frame("RES", f.id, "OK"))
      PROVE  Says("RES", f.id, "OK") /\ Like(agent', x)
  BY <1>0, <1>7, AnswerSays DEF Kinds, Words
<1>8. CASE f.of = "hello" /\ Answer(greeted, Frame("RES", f.id, "OK")) /\ RunsCall(f.id)
  BY <1>1, <1>7, <1>8 DEF Like, Answers, OnRequest, Stays, Holds, Streams, Agents
<1>9. CASE f.of = "auth" /\ Answer(authenticated, Frame("RES", f.id, "OK")) /\ RunsCall(f.id)
  BY <1>2, <1>7, <1>9 DEF Like, Answers, OnRequest, Stays, Holds, Streams, Agents
<1>10. CASE f.of = "ask" /\ Answer(b, Frame("RES", f.id, "OK")) /\ RunsCall(f.id)
  BY <1>7, <1>10 DEF Like, Answers, OnRequest, Stays, Holds, Streams, Agents
<1>11. CASE f.of = "read" /\ Answer(reads, Frame("RES", f.id, "OK")) /\ Goes
  BY <1>3, <1>7, <1>11 DEF Like, BeginsRead, OnRequest, Stays, Holds, Streams
<1>12. CASE f.of = "write" /\ Answer(writes, Frame("RES", f.id, "OK")) /\ Goes
  BY <1>4, <1>7, <1>12 DEF Like, BeginsWrite, OnRequest, Stays, Holds, Streams
<1> QED BY <1>5, <1>6, <1>8, <1>9, <1>10, <1>11, <1>12

LEMMA DispatchDoes ==
  ASSUME TypeOK, NEW a \in Agents, NEW f \in Frames, Dispatch(a, f)
  PROVE  Does(a, f)
<1> DEFINE b == [a EXCEPT !.up = IF @ = "discard" /\ f.kind = "REQ" THEN "none" ELSE @]
           expected == f.kind = "REQ" /\ (b.up = "active" \/ f.of \in Serves(b))
<1>1. /\ b \in Agents /\ b.open = a.open /\ b.hello = a.hello /\ b.authed = a.authed
      /\ b.upId = a.upId /\ b.xfer = a.xfer /\ b.left = a.left
      /\ (b.up = "active" <=> a.up = "active") /\ (b.up = a.up \/ b.up = "none")
      /\ (f.kind = "REQ" /\ b.up # "active" => b.up = "none")
  BY DEF Agents
<1>2. Serves(b) = Serves(a)
  BY <1>1 DEF Serves
<1>3. f.id \in Nat
  BY DEF Frames
<1>4. \/ OfUpload(a, f) /\ UploadFrame(a, f)
      \/ ~OfUpload(a, f) /\ ~expected /\ Answer(b, Frame("ERR", f.id, "BAD_REQUEST")) /\ Goes
      \/ expected /\ b.up = "active" /\ Answer(b, Frame("ERR", f.id, "BUSY")) /\ Goes
      \/ expected /\ b.up # "active" /\ Serve(b, f.id, f.of)
  BY DEF Dispatch, Error, OfUpload
<1> HIDE DEF b
<1>5. CASE OfUpload(a, f) /\ UploadFrame(a, f)
  BY <1>5, UploadDoes DEF Does
<1>6. CASE ~OfUpload(a, f) /\ ~expected /\ Answer(b, Frame("ERR", f.id, "BAD_REQUEST")) /\ Goes
  <2>1. Says("ERR", f.id, "BAD_REQUEST") /\ Like(agent', b)
    BY <1>1, <1>3, <1>6, AnswerSays DEF Kinds, Words
  <2> QED BY <1>1, <1>2, <1>6, <2>1 DEF Like, IsStray, Does, Stays, Holds, Streams
<1>7. CASE expected /\ b.up = "active" /\ Answer(b, Frame("ERR", f.id, "BUSY")) /\ Goes
  <2>1. Says("ERR", f.id, "BUSY") /\ Like(agent', b)
    BY <1>1, <1>3, <1>7, AnswerSays DEF Kinds, Words
  <2> QED BY <1>1, <1>7, <2>1 DEF Like, IsBusy, Does, Stays, Holds, Streams
<1>8. CASE expected /\ b.up # "active" /\ Serve(b, f.id, f.of)
  <2>1. Accepts(a, f)
    BY <1>1, <1>2, <1>8 DEF Accepts
  <2>2. b.up = "none"
    BY <1>1, <1>8
  <2> QED BY <1>1, <1>8, <2>1, <2>2, ServeDoes DEF Does
<1> QED BY <1>4, <1>5, <1>6, <1>7, <1>8

\* It closes the connection on a frame it does not take for one of the client's.
Shuts == agent'.open = FALSE /\ toClient' = toClient /\ Goes

LEMMA HandleDoes ==
  ASSUME TypeOK, Handle
  PROVE  /\ agent.open /\ agent.xfer = 0 /\ toAgent # <<>> /\ toAgent' = Tail(toAgent)
         /\ Head(toAgent) = toAgent[1] /\ toAgent[1] \in Frames
         /\ (Shuts /\ ~Authentic(agent, toAgent[1])) \/ Does(agent, toAgent[1])
<1> DEFINE f == Head(toAgent)
           a == IF agent.authed THEN [agent EXCEPT !.recv = @ + 1] ELSE agent
<1>1. /\ agent.open /\ agent.xfer = 0 /\ toAgent # <<>> /\ toAgent' = Tail(toAgent)
      /\ IF ~Authentic(agent, f) THEN agent' = [agent EXCEPT !.open = FALSE] /\ UNCHANGED toClient /\ Goes ELSE Dispatch(a, f)
  BY DEF Handle
<1>2. f = toAgent[1] /\ f \in Frames
  BY <1>1, HeadTailProperties, EmptySeq DEF TypeOK
<1>3. a \in Agents /\ Like(a, agent)
  <2>1. agent \in Agents
    BY DEF TypeOK
  <2>2. CASE agent.authed
    <3>1. a = [agent EXCEPT !.recv = @ + 1]
      BY <2>2
    <3> HIDE DEF a
    <3>2. a \in Agents
      BY <2>1, <3>1 DEF Agents
    <3>3. /\ a.open = agent.open /\ a.hello = agent.hello /\ a.authed = agent.authed
          /\ a.up = agent.up /\ a.upId = agent.upId /\ a.xfer = agent.xfer /\ a.left = agent.left
      BY <2>1, <3>1 DEF Agents
    <3> QED BY <3>2, <3>3 DEF Like
  <2>3. CASE ~agent.authed
    BY <2>1, <2>3 DEF Like
  <2> QED BY <2>2, <2>3
<1> HIDE DEF f, a
<1>4. CASE ~Authentic(agent, f)
  <2>1. agent' = [agent EXCEPT !.open = FALSE] /\ toClient' = toClient /\ Goes
    BY <1>1, <1>4
  <2>2. agent'.open = FALSE
    BY <2>1 DEF TypeOK, Agents
  <2> QED BY <1>1, <1>2, <1>4, <2>1, <2>2 DEF Shuts, f
<1>5. CASE Authentic(agent, f)
  <2>1. Does(a, f)
    BY <1>1, <1>2, <1>3, <1>5, DispatchDoes
  <2>2. Serves(a) = Serves(agent)
    BY <1>3 DEF Serves, Like
  <2>3. Does(agent, f)
    BY <1>3, <2>1, <2>2
       DEF Like, Does, OnUpload, OnRequest, Swallows, Stores, FailsUpload, Commits, IsStray, IsBusy, TurnsDown, Answers,
           BeginsRead, BeginsWrite, Accepts, OfUpload, Stays, Holds, Streams
  <2> QED BY <1>1, <1>2, <2>3 DEF f
<1> QED BY <1>4, <1>5

SendsBlock ==
  /\ Says("DATA", agent.xfer, "read") /\ Goes
  /\ Stays(agent) /\ Holds(agent.up, agent.upId) /\ Streams(agent.xfer, agent.left - 1)
BreaksOff ==
  /\ Says("ERR", agent.xfer, "IO_ERROR") /\ Refuses(agent.xfer)
  /\ Stays(agent) /\ Holds(agent.up, agent.upId) /\ Streams(0, agent.left)
Finishes ==
  /\ agent.left = 0 /\ Says("END", agent.xfer, "read") /\ RunsCall(agent.xfer)
  /\ Stays(agent) /\ Holds(agent.up, agent.upId) /\ Streams(0, agent.left)

LEMMA NextFrameDoes ==
  ASSUME TypeOK, NextFrame
  PROVE  /\ agent.open /\ agent.xfer # 0 /\ agent.xfer \in Nat
         /\ SendsBlock \/ BreaksOff \/ Finishes
<1> DEFINE more == [agent EXCEPT !.left = @ - 1]
           over == [agent EXCEPT !.xfer = 0]
           id == agent.xfer
<1>0. agent \in Agents /\ id \in Nat
  BY DEF TypeOK, Agents
<1>1. /\ more \in Agents /\ more.open = agent.open /\ more.hello = agent.hello /\ more.authed = agent.authed
      /\ more.up = agent.up /\ more.upId = agent.upId /\ more.xfer = agent.xfer /\ more.left = agent.left - 1
      /\ over \in Agents /\ over.open = agent.open /\ over.hello = agent.hello /\ over.authed = agent.authed
      /\ over.up = agent.up /\ over.upId = agent.upId /\ over.xfer = 0 /\ over.left = agent.left
  BY <1>0 DEF Agents
<1>2. /\ agent.open /\ id # 0
      /\ \/ Answer(more, Frame("DATA", id, "read")) /\ Goes
         \/ Answer(over, Frame("ERR", id, "IO_ERROR")) /\ Refuses(id)
         \/ agent.left = 0 /\ Answer(over, Frame("END", id, "read")) /\ RunsCall(id)
  BY DEF NextFrame, EndTransfer, Error
<1> HIDE DEF more, over
<1>3. CASE Answer(more, Frame("DATA", id, "read")) /\ Goes
  <2>1. Says("DATA", id, "read") /\ Like(agent', more)
    BY <1>0, <1>1, <1>3, AnswerSays DEF Kinds, Words, Commands
  <2> QED BY <1>0, <1>1, <1>2, <1>3, <2>1 DEF Like, SendsBlock, Stays, Holds, Streams
<1>4. CASE Answer(over, Frame("ERR", id, "IO_ERROR")) /\ Refuses(id)
  <2>1. Says("ERR", id, "IO_ERROR") /\ Like(agent', over)
    BY <1>0, <1>1, <1>4, AnswerSays DEF Kinds, Words
  <2> QED BY <1>0, <1>1, <1>2, <1>4, <2>1 DEF Like, BreaksOff, Stays, Holds, Streams
<1>5. CASE agent.left = 0 /\ Answer(over, Frame("END", id, "read")) /\ RunsCall(id)
  <2>1. Says("END", id, "read") /\ Like(agent', over)
    BY <1>0, <1>1, <1>5, AnswerSays DEF Kinds, Words, Commands
  <2> QED BY <1>0, <1>1, <1>2, <1>5, <2>1 DEF Like, Finishes, Stays, Holds, Streams
<1> QED BY <1>2, <1>3, <1>4, <1>5

(***************************************************************************)
(* The requests on their way, and the ones the agent works on.             *)
(***************************************************************************)
LEMMA TailOf ==
  ASSUME NEW s \in Seq(Frames), s # <<>>
  PROVE  /\ Len(s) \in Nat /\ Len(s) >= 1 /\ Len(Tail(s)) = Len(s) - 1 /\ Len(Tail(s)) \in Nat
         /\ \A k \in 1..Len(Tail(s)) : Tail(s)[k] = s[k + 1] /\ k + 1 \in 1..Len(s)
         /\ s[1] \in Frames /\ 1 \in 1..Len(s)
<1>1. /\ Tail(s) \in Seq(Frames) /\ Len(Tail(s)) = Len(s) - 1
      /\ \A k \in 1..Len(Tail(s)) : Tail(s)[k] = s[k + 1]
  BY HeadTailProperties
<1>2. Len(s) \in Nat \ {0}
  BY EmptySeq
<1>3. 1 \in 1..Len(s) /\ \A k \in 1..Len(s) - 1 : k + 1 \in 1..Len(s)
  BY <1>2
<1>4. s[1] \in Frames
  BY <1>3, ElementOfSeq
<1> QED BY <1>1, <1>2, <1>3, <1>4

\* No request behind the first frame is as old.
Ahead == \A k \in 2..Len(toAgent) : Request(k) => toAgent[1].id < toAgent[k].id

LEMMA TailAsked ==
  ASSUME TypeOK, Asked, toAgent # <<>>, toAgent' = Tail(toAgent), result' = result,
         \A j \in Done' : j \in Done \/ (j = toAgent[1].id /\ Ahead)
  PROVE  /\ Asked'
         /\ \A i \in Nat : Before(i) => Before(i)'
         /\ \A i : i = toAgent[1].id /\ Ahead => Before(i)'
<1>1. /\ Len(toAgent) \in Nat /\ Len(toAgent) >= 1 /\ Len(toAgent') = Len(toAgent) - 1
      /\ \A k \in 1..Len(toAgent') : toAgent'[k] = toAgent[k + 1] /\ k + 1 \in 1..Len(toAgent)
      /\ 1 \in 1..Len(toAgent)
  BY TailOf DEF TypeOK
<1>2. \A k \in 1..Len(toAgent') : (Request(k)' <=> Request(k + 1)) /\ k + 1 \in 2..Len(toAgent)
  BY <1>1 DEF Request
<1>3. /\ \A k \in 1..Len(toAgent) : toAgent[k].kind \in {"REQ", "DATA", "END"} /\ toAgent[k].id \in 1..Len(result)
      /\ \A k \in 1..Len(toAgent) : Request(k) => Later(toAgent[k].id) /\ Named(toAgent[k].id, toAgent[k].of)
      /\ \A j, k \in 1..Len(toAgent) : j < k /\ Request(j) /\ Request(k) => toAgent[j].id < toAgent[k].id
  BY DEF Asked
<1>4. \A k \in 1..Len(toAgent') : toAgent'[k].kind \in {"REQ", "DATA", "END"} /\ toAgent'[k].id \in 1..Len(result')
  BY <1>1, <1>3
<1>5. ASSUME NEW k \in 1..Len(toAgent'), Request(k)'
      PROVE  Later(toAgent[k].id)' /\ Named(toAgent[k].id, toAgent[k].of)'
  <2>1. /\ Request(k + 1) /\ toAgent'[k] = toAgent[k + 1] /\ k + 1 \in 1..Len(toAgent) /\ k + 1 \in 2..Len(toAgent)
    BY <1>1, <1>2, <1>5
  <2>2. Later(toAgent[k + 1].id) /\ Named(toAgent[k + 1].id, toAgent[k + 1].of)
    BY <1>3, <2>1
  <2>3. \A j \in Done' : j < toAgent[k + 1].id
    BY <2>1, <2>2 DEF Later, Ahead
  <2> QED BY <2>1, <2>2, <2>3 DEF Later
<1>6. ASSUME NEW j \in 1..Len(toAgent'), NEW k \in 1..Len(toAgent'), j < k, Request(j)', Request(k)'
      PROVE  toAgent'[j].id < toAgent'[k].id
  <2>1. /\ Request(k + 1) /\ toAgent'[k] = toAgent[k + 1] /\ k + 1 \in 1..Len(toAgent)
        /\ Request(j + 1) /\ toAgent'[j] = toAgent[j + 1] /\ j + 1 \in 1..Len(toAgent) /\ j + 1 < k + 1
    BY <1>1, <1>2, <1>6
  <2> QED BY <1>3, <2>1
<1>7. Asked'
  BY <1>4, <1>5, <1>6 DEF Asked
<1>8. ASSUME NEW i \in Nat, Before(i) PROVE Before(i)'
  <2>1. i \in 1..Len(result') /\ \A k \in 1..Len(toAgent) : Request(k) => i < toAgent[k].id
    BY <1>8 DEF Before
  <2>2. \A k \in 1..Len(toAgent') : Request(k)' => i < toAgent'[k].id
    BY <1>1, <1>2, <2>1
  <2> QED BY <2>1, <2>2 DEF Before
<1>9. ASSUME NEW i, i = toAgent[1].id, Ahead PROVE Before(i)'
  <2>1. i \in 1..Len(result')
    BY <1>1, <1>3, <1>9
  <2>2. \A k \in 1..Len(toAgent') : Request(k)' => i < toAgent'[k].id
    BY <1>1, <1>2, <1>9 DEF Ahead
  <2> QED BY <2>1, <2>2 DEF Before
<1> QED BY <1>7, <1>8, <1>9

\* What a frame may settle: nothing, or the request it belongs to.
Settles(id) == \A j \in Done' : j \in Done \/ j = id
LEMMA SettlesWhat ==
  ASSUME NEW id
  PROVE  /\ Goes => Done' = Done /\ ran' = ran
         /\ RunsCall(id) => Done' = Done \cup {id} /\ ran' = ran \cup {id}
         /\ Refuses(id) => Done' = Done \cup {id} /\ ran' = ran
BY DEF Goes, RunsCall, Refuses, Done

LEMMA HandleAsking ==
  ASSUME TypeOK, QuietAgent, Asking, Handle
  PROVE  Asking'
<1>0. PICK f : f = toAgent[1]
  OBVIOUS
<1>1. /\ agent.open /\ agent.xfer = 0 /\ toAgent # <<>> /\ toAgent' = Tail(toAgent)
      /\ f \in Frames /\ (Shuts \/ Does(agent, f)) /\ result' = result
  BY <1>0, HandleDoes DEF Handle
<1>2. Asked /\ Working /\ Greeted
  BY <1>1 DEF Asking
<1>3. /\ Len(toAgent) \in Nat /\ 1 \in 1..Len(toAgent) /\ f.id \in 1..Len(result) /\ f.id \in Nat
      /\ \A k \in 2..Len(toAgent) : k \in 1..Len(toAgent) /\ 1 < k
  <2>1. Len(toAgent) \in Nat /\ 1 \in 1..Len(toAgent) /\ Len(result) \in Nat
    BY <1>1, TailOf, LenProperties DEF TypeOK
  <2>2. f.id \in 1..Len(result)
    BY <1>0, <1>2, <2>1 DEF Asked
  <2> QED BY <2>1, <2>2
<1>4. f.kind = "REQ" => Ahead /\ Later(f.id) /\ Named(f.id, f.of)
  <2> SUFFICES ASSUME f.kind = "REQ" PROVE Ahead /\ Later(f.id) /\ Named(f.id, f.of)
    OBVIOUS
  <2>1. Request(1) /\ toAgent[1] = f
    BY <1>0 DEF Request
  <2>2. Later(f.id) /\ Named(f.id, f.of)
    BY <1>2, <1>3, <2>1 DEF Asked
  <2>3. \A k \in 2..Len(toAgent) : Request(k) => toAgent[1].id < toAgent[k].id
    BY <1>2, <1>3, <2>1 DEF Asked
  <2> QED BY <2>2, <2>3 DEF Ahead
<1>5. OfUpload(agent, f) => Ahead
  BY <1>0, <1>2, <1>3 DEF OfUpload, Working, Before, Ahead
<1>6. agent.upId \in Nat
  BY DEF TypeOK, Agents
<1>7. ASSUME NEW up, Stays(agent), Holds(up, agent.upId), Streams(agent.xfer, agent.left), Goes,
             up # "none" => agent.up # "none", up = "active" => agent.up = "active"
      PROVE  Asking'
  <2>1. Done' = Done /\ ran' = ran
    BY <1>7, SettlesWhat
  <2>2. Asked' /\ \A i \in Nat : Before(i) => Before(i)'
    BY <1>1, <1>2, <2>1, TailAsked
  <2>3. Working'
    BY <1>1, <1>2, <1>6, <1>7, <2>1, <2>2 DEF Working, Later, Holds, Streams
  <2>4. Greeted'
    BY <1>2, <1>7, <2>1 DEF Greeted, Stays
  <2> QED BY <2>2, <2>3, <2>4 DEF Asking
<1>8. ASSUME NEW up, Stays(agent), Holds(up, agent.upId), Streams(agent.xfer, agent.left), Ahead,
             up # "none" => agent.up # "none", up # "active",
             Refuses(f.id) \/ (RunsCall(f.id) /\ OfUpload(agent, f) /\ agent.up = "active")
      PROVE  Asking'
  <2>1. Done' = Done \cup {f.id}
    BY <1>8, SettlesWhat
  <2>0. \A j \in Done' : j \in Done \/ (j = toAgent[1].id /\ Ahead)
    BY <1>0, <1>8, <2>1
  <2>2. Asked' /\ \A i \in Nat : Before(i) => Before(i)'
    BY <1>1, <1>2, <2>0, TailAsked
  <2>3. Working'
    BY <1>1, <1>2, <1>6, <1>8, <2>2 DEF Working, Holds, Streams
  <2>4. Greeted'
    <3>1. CASE Refuses(f.id)
      BY <1>2, <1>8, <3>1, SettlesWhat DEF Greeted, Stays
    <3>2. CASE RunsCall(f.id) /\ OfUpload(agent, f) /\ agent.up = "active"
      <4>1. 2 \in ran /\ agent.authed
        BY <1>2, <3>2 DEF QuietAgent, Greeted
      <4>2. 2 < f.id
        BY <1>2, <3>2, <4>1 DEF Working, Later, Done, OfUpload
      <4>3. ran' = ran \cup {f.id} /\ f.id # 1 /\ f.id # 2
        BY <1>3, <3>2, <4>2, SettlesWhat
      <4> QED BY <1>2, <1>8, <4>1, <4>3 DEF Greeted, Stays
    <3> QED BY <1>8, <3>1, <3>2
  <2> QED BY <2>2, <2>3, <2>4 DEF Asking
<1>9. CASE Shuts
  BY <1>9 DEF Shuts, Asking
<1>10. CASE Swallows(agent, f)
  <2> DEFINE up == IF f.kind = "END" THEN "none" ELSE "discard"
  <2>1. /\ Stays(agent) /\ Holds(up, agent.upId) /\ Streams(agent.xfer, agent.left) /\ Goes
        /\ up # "none" => agent.up # "none"
        /\ up # "active"
    BY <1>10 DEF Swallows
  <2> HIDE DEF up
  <2> QED BY <1>7, <2>1
<1>11. CASE Stores(agent, f) \/ IsBusy(agent, f)
  BY <1>7, <1>11 DEF Stores, IsBusy
<1>12. CASE IsStray(agent, f)
  BY <1>7, <1>12 DEF IsStray
<1>13. CASE FailsUpload(agent, f)
  <2> DEFINE up == IF f.kind = "END" THEN "none" ELSE "discard"
  <2>1. /\ Stays(agent) /\ Holds(up, agent.upId) /\ Streams(agent.xfer, agent.left) /\ Refuses(f.id)
        /\ up # "none" => agent.up # "none"
        /\ up # "active"
    BY <1>13 DEF FailsUpload
  <2>2. Ahead
    BY <1>5, <1>13 DEF FailsUpload
  <2> HIDE DEF up
  <2> QED BY <1>8, <2>1, <2>2
<1>14. CASE Commits(agent, f)
  BY <1>5, <1>8, <1>14 DEF Commits
<1>15. CASE TurnsDown(agent, f)
  BY <1>4, <1>8, <1>15 DEF TurnsDown, Accepts
<1>16. CASE Answers(agent, f)
  <2>1. f.kind = "REQ" /\ Ahead /\ Named(f.id, f.of) /\ f.of \in {"hello", "auth", "ask"}
    BY <1>4, <1>16 DEF Answers, Accepts
  <2>2. Done' = Done \cup {f.id} /\ ran' = ran \cup {f.id}
    BY <1>16, SettlesWhat DEF Answers
  <2>6. \A j \in Done' : j \in Done \/ (j = toAgent[1].id /\ Ahead)
    BY <1>0, <2>1, <2>2
  <2>3. Asked'
    BY <1>1, <1>2, <2>6, TailAsked
  <2>4. Working'
    BY <1>1, <1>16 DEF Working, Answers, Holds, Streams
  <2>5. Greeted'
    <3>1. agent'.hello = (agent.hello \/ f.of = "hello") /\ agent'.authed = (agent.authed \/ f.of = "auth")
      BY <1>16 DEF Answers
    <3>2. (f.id = 1 => f.of = "hello") /\ (f.id = 2 => f.of = "auth") /\ (f.of = "auth" => f.id = 2)
      BY <1>3, <2>1 DEF Named
    <3> QED BY <1>2, <2>2, <3>1, <3>2 DEF Greeted
  <2> QED BY <2>3, <2>4, <2>5 DEF Asking
<1>17. CASE BeginsRead(agent, f) \/ BeginsWrite(agent, f)
  <2>1. f.kind = "REQ" /\ Ahead /\ Later(f.id) /\ Goes /\ Stays(agent)
    BY <1>4, <1>17 DEF BeginsRead, BeginsWrite, Accepts
  <2>2. Done' = Done /\ ran' = ran
    BY <2>1, SettlesWhat
  <2>7. \A i : i = toAgent[1].id => Before(i)'
    BY <1>1, <1>2, <2>1, <2>2, TailAsked
  <2>8. Asked'
    BY <1>1, <1>2, <2>2, TailAsked
  <2>3. Asked' /\ \A i : i = f.id => Before(i)'
    BY <1>0, <2>7, <2>8
  <2>4. Later(f.id)'
    BY <2>1, <2>2 DEF Later
  <2>5. Working'
    BY <1>1, <1>17, <2>3, <2>4 DEF Working, BeginsRead, BeginsWrite, Holds, Streams
  <2>6. Greeted'
    BY <1>2, <2>1, <2>2 DEF Greeted, Stays
  <2> QED BY <2>3, <2>5, <2>6 DEF Asking
<1> QED BY <1>1, <1>9, <1>10, <1>11, <1>12, <1>13, <1>14, <1>15, <1>16, <1>17 DEF Does, OnUpload, OnRequest

LEMMA NextFrameAsking ==
  ASSUME TypeOK, QuietAgent, Asking, NextFrame \/ SetMode
  PROVE  Asking'
<1>1. toAgent' = toAgent /\ result' = result
  BY DEF NextFrame, SetMode, fates
<1>2. \A i : Before(i)' <=> Before(i)
  BY <1>1 DEF Before, Request
<1>3. CASE SetMode
  <2>1. Done' = Done /\ ran' = ran
    BY <1>3 DEF SetMode, fates, Done
  <2>2. /\ agent'.open = agent.open /\ agent'.hello = agent.hello /\ agent'.authed = agent.authed
        /\ agent'.up = "discard" /\ agent'.upId = agent.upId /\ agent'.xfer = agent.xfer /\ agent.up = "active"
    BY <1>3 DEF SetMode, TypeOK, Agents
  <2>3. agent.open => Asked'
    BY <1>1, <2>1 DEF Asking, Asked, Request, Later
  <2>4. agent.open => Working' /\ Greeted'
    BY <1>2, <2>1, <2>2 DEF Asking, Working, Greeted
  <2> QED BY <2>2, <2>3, <2>4 DEF Asking
<1>4. CASE NextFrame
  <2>1. agent.open /\ agent.xfer # 0 /\ agent.xfer \in Nat /\ (SendsBlock \/ BreaksOff \/ Finishes)
    BY <1>4, NextFrameDoes
  <2>2. Asked /\ Working /\ Greeted
    BY <2>1 DEF Asking
  <2>3. agent.up = "none" /\ Before(agent.xfer) /\ Later(agent.xfer) /\ 2 \in ran /\ agent.authed
    BY <2>1, <2>2 DEF Working, QuietAgent, Greeted
  <2>4. 2 < agent.xfer
    BY <2>3 DEF Later, Done
  <2>5. \A j \in Done' : j \in Done \/ j = agent.xfer
    BY <2>1, SettlesWhat DEF SendsBlock, BreaksOff, Finishes
  <2>6. (1 \in ran' => 1 \in ran) /\ 2 \in ran'
    BY <2>1, <2>3, <2>4, SettlesWhat DEF SendsBlock, BreaksOff, Finishes
  <2>7. Stays(agent) /\ agent'.up = "none" /\ (agent'.xfer = 0 \/ (agent'.xfer = agent.xfer /\ Done' = Done))
    BY <2>1, <2>3, SettlesWhat DEF SendsBlock, BreaksOff, Finishes, Holds, Streams
  <2>8. \A k \in 1..Len(toAgent) : Request(k) => \A j \in Done' : j < toAgent[k].id
    <3> SUFFICES ASSUME NEW k \in 1..Len(toAgent), Request(k), NEW j \in Done' PROVE j < toAgent[k].id
      OBVIOUS
    <3>1. Later(toAgent[k].id) /\ agent.xfer < toAgent[k].id
      BY <2>2, <2>3 DEF Asked, Before
    <3> QED BY <2>5, <3>1 DEF Later
  <2>9. Asked'
    <3>1. \A k : Request(k)' <=> Request(k)
      BY <1>1 DEF Request
    <3>2. \A k \in 1..Len(toAgent') : Request(k)' => Later(toAgent[k].id)' /\ Named(toAgent[k].id, toAgent[k].of)'
      BY <1>1, <2>2, <2>8, <3>1 DEF Asked, Later
    <3> QED BY <1>1, <2>2, <3>1, <3>2 DEF Asked
  <2>10. Working'
    BY <1>2, <2>3, <2>7 DEF Working, Later
  <2>11. Greeted'
    BY <2>2, <2>3, <2>6, <2>7 DEF Greeted, Stays
  <2> QED BY <2>9, <2>10, <2>11 DEF Asking
<1> QED BY <1>3, <1>4

(***************************************************************************)
(* What the client does.                                                   *)
(***************************************************************************)
Sent(kind, id, of) ==
  /\ Len(toAgent') = Len(toAgent) + 1 /\ \A i \in 1..Len(toAgent) : toAgent'[i] = toAgent[i]
  /\ toAgent'[Len(toAgent) + 1].kind = kind /\ toAgent'[Len(toAgent) + 1].id = id /\ toAgent'[Len(toAgent) + 1].of = of

\* d is c, but for its counters.
Alike(d, c) ==
  /\ d.open = c.open /\ d.doing = c.doing /\ d.cmd = c.cmd /\ d.id = c.id /\ d.n = c.n
  /\ d.frames = c.frames /\ d.session = c.session

LEMMA SendsDoes ==
  ASSUME TypeOK, NEW kind \in Kinds, NEW id \in Nat, NEW of \in Words, NEW c \in Clients, Sends(Frame(kind, id, of), c)
  PROVE  Sent(kind, id, of) /\ Alike(client', c)
<1> DEFINE frame == Frame(kind, id, of)
           sent == IF Sealing THEN [frame EXCEPT !.mac = client.send] ELSE frame
<1>1. sent \in Frames /\ sent.kind = kind /\ sent.id = id /\ sent.of = of
  <2>1. client.send \in Int /\ frame \in Frames /\ frame.kind = kind /\ frame.id = id /\ frame.of = of
    BY FrameType DEF TypeOK, Clients, Frame
  <2> HIDE DEF frame
  <2>2. CASE Sealing
    BY <2>1, <2>2 DEF Frames
  <2>3. CASE ~Sealing
    BY <2>1, <2>3
  <2> QED BY <2>2, <2>3
<1>2. toAgent' = Append(toAgent, sent) /\ client' = IF Sealing THEN [c EXCEPT !.send = @ + 1] ELSE c
  BY DEF Sends
<1> HIDE DEF sent
<1>3. /\ Len(toAgent') = Len(toAgent) + 1 /\ \A i \in 1..Len(toAgent) : toAgent'[i] = toAgent[i]
      /\ toAgent'[Len(toAgent) + 1] = sent
  BY <1>1, <1>2, AppendProperties DEF TypeOK
<1>4. Alike(client', c)
  <2>1. CASE Sealing
    BY <1>2, <2>1 DEF Alike, Clients
  <2>2. CASE ~Sealing
    BY <1>2, <2>2 DEF Alike
  <2> QED BY <2>1, <2>2
<1> QED BY <1>1, <1>3, <1>4 DEF Sent

\* A call is made.
Makes(cmd) ==
  /\ client.open /\ client.doing = "idle" /\ Len(result) < MaxCalls /\ cmd \in Allowed
  /\ client'.open /\ client'.doing = "answer" /\ client'.cmd = cmd /\ client'.id = Len(result) + 1 /\ client'.n = 0
  /\ client'.frames = client.frames /\ client'.session = (IF cmd = "auth" THEN "pending" ELSE client.session)
  /\ Sent("REQ", Len(result) + 1, cmd)
  /\ result' = Append(result, "none") /\ Len(result') = Len(result) + 1 /\ result'[Len(result')] = "none"
  /\ agent' = agent /\ toClient' = toClient /\ ran' = ran /\ refused' = refused /\ excused' = excused /\ broken' = broken

LEMMA CallDoes == ASSUME TypeOK, NEW cmd \in Commands, Call(cmd) PROVE Makes(cmd) /\ Len(result) \in Nat
<1> DEFINE id == Len(result) + 1
           session == IF cmd = "auth" THEN "pending" ELSE client.session
           doing == [client EXCEPT !.doing = "answer", !.cmd = cmd]
           numbered == [doing EXCEPT !.id = id, !.n = 0]
           c == [numbered EXCEPT !.session = session]
<1>0. Len(result) \in Nat /\ result \in Seq(Values) /\ client \in Clients
  BY LenProperties DEF TypeOK
<1>1. id \in Nat /\ id = Len(result) + 1
  BY <1>0
<1>2. /\ client.open /\ client.doing = "idle" /\ Len(result) < MaxCalls /\ cmd \in Allowed
      /\ Sends(Frame("REQ", id, cmd), c) /\ result' = Append(result, "none")
      /\ agent' = agent /\ toClient' = toClient /\ ran' = ran /\ refused' = refused /\ excused' = excused /\ broken' = broken
  BY DEF Call
<1>3. session \in {"none", "pending", "on"}
  BY <1>0 DEF Clients
<1> HIDE DEF id, session
<1>4. /\ doing \in Clients /\ doing.open = client.open /\ doing.doing = "answer" /\ doing.cmd = cmd
      /\ doing.frames = client.frames
  BY <1>0 DEF Clients, Commands
<1> HIDE DEF doing
<1>5. /\ numbered \in Clients /\ numbered.open = client.open /\ numbered.doing = "answer" /\ numbered.cmd = cmd
      /\ numbered.frames = client.frames /\ numbered.id = id /\ numbered.n = 0
  BY <1>1, <1>4 DEF Clients
<1> HIDE DEF numbered
<1>6. /\ c \in Clients /\ c.open = client.open /\ c.doing = "answer" /\ c.cmd = cmd
      /\ c.frames = client.frames /\ c.id = id /\ c.n = 0 /\ c.session = session
  BY <1>3, <1>5 DEF Clients
<1> HIDE DEF c
<1>7. Sent("REQ", id, cmd) /\ Alike(client', c)
  BY <1>1, <1>2, <1>6, SendsDoes DEF Kinds, Words
<1>8. Len(result') = Len(result) + 1 /\ result'[Len(result) + 1] = "none"
  BY <1>0, <1>2, AppendProperties DEF Values
<1> QED BY <1>0, <1>1, <1>2, <1>6, <1>7, <1>8 DEF Makes, Alike, session

\* A block of an upload goes out, or its end.
Uploads(kind, doing, n) ==
  /\ client.doing = "data" /\ client.open
  /\ client'.open /\ client'.doing = doing /\ client'.cmd = client.cmd /\ client'.id = client.id /\ client'.n = n
  /\ client'.frames = client.frames /\ client'.session = client.session
  /\ Sent(kind, client.id, "write")
  /\ agent' = agent /\ toClient' = toClient /\ result' = result
  /\ ran' = ran /\ refused' = refused /\ excused' = excused /\ broken' = broken

LEMMA SendBlockDoes ==
  ASSUME TypeOK, SendBlock
  PROVE  Uploads("DATA", "data", client.n + 1) \/ Uploads("END", "commit", client.n)
<1>0. client.id \in Nat /\ client \in Clients
  BY DEF TypeOK, Clients
<1>1. /\ client.doing = "data" /\ client.open /\ agent' = agent /\ toClient' = toClient /\ result' = result
      /\ ran' = ran /\ refused' = refused /\ excused' = excused /\ broken' = broken
  BY DEF SendBlock, fates
<1>2. CASE Sends(Frame("DATA", client.id, "write"), [client EXCEPT !.n = @ + 1])
  <2> DEFINE c == [client EXCEPT !.n = @ + 1]
  <2>1. /\ c \in Clients /\ c.open = client.open /\ c.doing = client.doing /\ c.cmd = client.cmd /\ c.id = client.id
        /\ c.n = client.n + 1 /\ c.frames = client.frames /\ c.session = client.session
    BY <1>0 DEF Clients
  <2>2. Sends(Frame("DATA", client.id, "write"), c)
    BY <1>2
  <2> HIDE DEF c
  <2>3. Sent("DATA", client.id, "write") /\ Alike(client', c)
    BY <1>0, <2>1, <2>2, SendsDoes DEF Kinds, Words, Commands
  <2> QED BY <1>1, <2>1, <2>3 DEF Uploads, Alike
<1>3. CASE Sends(Frame("END", client.id, "write"), [client EXCEPT !.doing = "commit"])
  <2> DEFINE c == [client EXCEPT !.doing = "commit"]
  <2>1. /\ c \in Clients /\ c.open = client.open /\ c.doing = "commit" /\ c.cmd = client.cmd /\ c.id = client.id
        /\ c.n = client.n /\ c.frames = client.frames /\ c.session = client.session
    BY <1>0 DEF Clients
  <2>2. Sends(Frame("END", client.id, "write"), c)
    BY <1>3
  <2> HIDE DEF c
  <2>3. Sent("END", client.id, "write") /\ Alike(client', c)
    BY <1>0, <2>1, <2>2, SendsDoes DEF Kinds, Words, Commands
  <2> QED BY <1>1, <2>1, <2>3 DEF Uploads, Alike
<1> QED BY <1>2, <1>3 DEF SendBlock

\* A call is over: what it had been given may have been used up.
Within == \A k \in 1..Len(client'.frames) : \E j \in 1..Len(client.frames) : client'.frames[k] = client.frames[j]
IsOver(value) ==
  /\ client.doing # "idle" /\ client'.doing = "idle" /\ client'.id = client.id
  /\ client'.open => client.open /\ (client.cmd \in {"hello", "auth"} => value = "ok")
  /\ client'.session = (IF client.session = "pending" THEN "none" ELSE client.session)
  /\ Within /\ value \in {"ok", "refused", "failed"}
  /\ result' = [result EXCEPT ![client.id] = value] /\ Len(result') = Len(result)
  /\ agent' = agent /\ toAgent' = toAgent /\ toClient' = toClient /\ ran' = ran /\ refused' = refused

LEMMA EndsDoes ==
  ASSUME TypeOK, NEW value \in {"ok", "refused", "failed"}, client.doing # "idle",
         NEW c \in Clients, Ends(c, value), c.open => client.open, c.cmd = client.cmd, c.id = client.id,
         c.session = client.session,
         \A k \in 1..Len(c.frames) : \E j \in 1..Len(client.frames) : c.frames[k] = client.frames[j],
         agent' = agent, toAgent' = toAgent, toClient' = toClient, ran' = ran, refused' = refused
  PROVE  IsOver(value)
<1>1. value \in Values
  BY DEF Values
<1>2. /\ Len(result') = Len(result)
      /\ client'.open => c.open /\ (c.cmd \in {"hello", "auth"} => value = "ok")
      /\ client'.doing = "idle" /\ client'.session = (IF c.session = "pending" THEN "none" ELSE c.session)
      /\ client'.frames = c.frames /\ client'.id = c.id
  BY <1>1, EndsWhat
<1>3. result' = [result EXCEPT ![c.id] = value]
  BY DEF Ends
<1> QED BY <1>2, <1>3 DEF IsOver, Within

(***************************************************************************)
(* The client calls, and sends the blocks of an upload.                    *)
(***************************************************************************)
LEMMA AskingSame ==
  ASSUME Asking, agent' = agent, toAgent' = toAgent, Len(result') = Len(result), ran' = ran, refused' = refused
  PROVE  Asking'
<1>1. Done' = Done
  BY DEF Done
<1>2. (\A i : Before(i)' <=> Before(i)) /\ (\A i : Later(i)' <=> Later(i)) /\ \A k : Request(k)' <=> Request(k)
  BY <1>1 DEF Before, Later, Request
<1>3. agent.open => Asked'
  BY <1>1, <1>2 DEF Asking, Asked, Later
<1>4. agent.open => Working' /\ Greeted'
  BY <1>1, <1>2 DEF Asking, Working, Greeted, Later
<1> QED BY <1>3, <1>4 DEF Asking

\* Frames are added behind the ones that are on their way.
LEMMA SentAsking ==
  ASSUME TypeOK, Asking, NEW kind, NEW id, NEW of, Sent(kind, id, of), kind \in {"REQ", "DATA", "END"},
         agent' = agent, ran' = ran, refused' = refused, Len(result) \in Nat, Len(result') \in Nat,
         Len(result) <= Len(result'), id \in 1..Len(result'),
         kind = "REQ" => id > Len(result) /\ Named(id, of) /\ Done \subseteq 1..Len(result)
  PROVE  Asking'
<1>1. Len(toAgent) \in Nat
  BY LenProperties DEF TypeOK
<1>2. /\ Len(toAgent') = Len(toAgent) + 1 /\ \A i \in 1..Len(toAgent) : toAgent'[i] = toAgent[i]
      /\ toAgent'[Len(toAgent) + 1].kind = kind /\ toAgent'[Len(toAgent) + 1].id = id /\ toAgent'[Len(toAgent) + 1].of = of
  BY DEF Sent
<1>3. /\ \A k \in 1..Len(toAgent) : k \in 1..Len(toAgent') /\ (Request(k)' <=> Request(k))
      /\ \A k \in 1..Len(toAgent') : k \in 1..Len(toAgent) \/ k = Len(toAgent) + 1
  BY <1>1, <1>2 DEF Request
<1>4. Done' = Done /\ 1..Len(result) \subseteq 1..Len(result')
  BY DEF Done
<1>5. ASSUME NEW i, Before(i) PROVE Before(i)'
  <2>1. i \in 1..Len(result) /\ i \in 1..Len(result') /\ \A k \in 1..Len(toAgent) : Request(k) => i < toAgent[k].id
    BY <1>4, <1>5 DEF Before
  <2>2. kind = "REQ" => i < id
    BY <2>1
  <2>3. ASSUME NEW k \in 1..Len(toAgent'), Request(k)' PROVE i < toAgent'[k].id
    <3>1. CASE k \in 1..Len(toAgent)
      BY <1>2, <1>3, <2>1, <2>3, <3>1
    <3>2. CASE k = Len(toAgent) + 1
      BY <1>2, <2>2, <2>3, <3>2 DEF Request
    <3> QED BY <1>3, <3>1, <3>2
  <2> QED BY <2>1, <2>3 DEF Before
<1> SUFFICES ASSUME agent.open PROVE Asked' /\ Working' /\ Greeted'
  BY DEF Asking
<1>6. Asked /\ Working /\ Greeted
  BY DEF Asking
<1>7. Asked'
  <2>1. \A k \in 1..Len(toAgent') : toAgent'[k].kind \in {"REQ", "DATA", "END"} /\ toAgent'[k].id \in 1..Len(result')
    BY <1>2, <1>3, <1>4, <1>6 DEF Asked
  <2>2. ASSUME NEW k \in 1..Len(toAgent'), Request(k)' PROVE Later(toAgent[k].id)' /\ Named(toAgent[k].id, toAgent[k].of)'
    <3>1. CASE k \in 1..Len(toAgent)
      BY <1>2, <1>3, <1>4, <1>6, <2>2, <3>1 DEF Asked, Later
    <3>2. CASE k = Len(toAgent) + 1
      <4>1. kind = "REQ" /\ toAgent'[k].id = id /\ toAgent'[k].of = of
        BY <1>2, <2>2, <3>2 DEF Request
      <4>2. \A j \in Done : j < id
        BY <4>1
      <4> QED BY <1>4, <4>1, <4>2 DEF Later
    <3> QED BY <1>3, <3>1, <3>2
  <2>3. ASSUME NEW j \in 1..Len(toAgent'), NEW k \in 1..Len(toAgent'), j < k, Request(j)', Request(k)'
        PROVE  toAgent'[j].id < toAgent'[k].id
    <3>0. j \in 1..Len(toAgent)
      BY <1>1, <1>2, <2>3
    <3>1. CASE k \in 1..Len(toAgent)
      BY <1>2, <1>3, <1>6, <2>3, <3>0, <3>1 DEF Asked
    <3>2. CASE k = Len(toAgent) + 1
      <4>1. kind = "REQ" /\ toAgent'[k].id = id
        BY <1>2, <2>3, <3>2 DEF Request
      <4>2. toAgent'[j].id \in 1..Len(result)
        BY <1>2, <1>6, <3>0 DEF Asked
      <4> QED BY <4>1, <4>2
    <3> QED BY <1>3, <3>1, <3>2
  <2> QED BY <2>1, <2>2, <2>3 DEF Asked
<1>8. Working'
  BY <1>4, <1>5, <1>6 DEF Working, Later
<1>9. Greeted'
  BY <1>6 DEF Greeted
<1> QED BY <1>7, <1>8, <1>9

LEMMA PastTwo == ASSUME NEW n \in Nat, n # 0, n # 1 PROVE n + 1 > 2
OBVIOUS

LEMMA OpenedMore ==
  ASSUME NEW n \in Nat, NEW S, n >= 2 => 1 \in S, n >= 3 => 2 \in S, n = 1 => 1 \in S, n = 2 => 2 \in S
  PROVE  (n + 1 >= 2 => 1 \in S) /\ (n + 1 >= 3 => 2 \in S)
<1>1. n >= 1 => 1 \in S
  <2>1. n >= 1 => n = 1 \/ n >= 2
    OBVIOUS
  <2> QED BY <2>1
<1>2. n >= 2 => 2 \in S
  <2>1. n >= 2 => n = 2 \/ n >= 3
    OBVIOUS
  <2> QED BY <2>1
<1>3. (n + 1 >= 2 => n >= 1) /\ (n + 1 >= 3 => n >= 2)
  OBVIOUS
<1> QED BY <1>1, <1>2, <1>3

LEMMA CallPromise ==
  ASSUME SessionInv, TypeOK', PromiseInv, NEW cmd \in Commands, Makes(cmd), Len(result) \in Nat
  PROVE  PromiseInv'
<1> DEFINE id == Len(result) + 1
<1>0. TypeOK /\ Opening /\ Sealed /\ Calling /\ Asking /\ Sending /\ Known
  BY DEF SessionInv, PromiseInv
<1>1. /\ client.open /\ client.doing = "idle" /\ Len(result) < MaxCalls /\ cmd \in Allowed
      /\ client'.open /\ client'.doing = "answer" /\ client'.cmd = cmd /\ client'.id = id /\ client'.n = 0
      /\ client'.frames = client.frames /\ client'.session = (IF cmd = "auth" THEN "pending" ELSE client.session)
      /\ Sent("REQ", id, cmd)
      /\ Len(result') = id /\ result'[Len(result')] = "none"
      /\ agent' = agent /\ toClient' = toClient /\ ran' = ran /\ refused' = refused /\ broken' = broken
  BY DEF Makes
<1>2. Inbox' = Inbox /\ Len(Inbox) \in Nat /\ Len(toAgent) \in Nat
  BY <1>0, <1>1, InboxSame, InboxIs, LenProperties DEF TypeOK
<1>3. /\ Len(toAgent') = Len(toAgent) + 1 /\ \A i \in 1..Len(toAgent) : toAgent'[i] = toAgent[i]
      /\ toAgent'[Len(toAgent) + 1].kind = "REQ" /\ toAgent'[Len(toAgent) + 1].id = id /\ toAgent'[Len(toAgent) + 1].of = cmd
  BY <1>1 DEF Sent
<1>4. Named(id, cmd)
  <2>1. result = <<>> <=> Len(result) = 0
    BY <1>0, EmptySeq DEF TypeOK
  <2>2. cmd \in Allowed /\ Len(result) \in Nat /\ id = Len(result) + 1
    BY <1>1
  <2> HIDE DEF id
  <2>3. CASE Len(result) = 0
    <3>1. cmd = "hello" /\ id = 1
      BY <2>1, <2>2, <2>3 DEF Allowed
    <3> QED BY ONLY <3>1 DEF Named
  <2>4. CASE Len(result) = 1
    <3>1. cmd = "auth" /\ id = 2
      BY <2>1, <2>2, <2>4 DEF Allowed
    <3> QED BY ONLY <3>1 DEF Named
  <2>5. CASE Len(result) # 0 /\ Len(result) # 1
    <3>1. cmd \in {"ask", "read", "write"}
      BY <2>1, <2>2, <2>5 DEF Allowed
    <3>2. id > 2
      <4>1. Len(result) + 1 > 2
        BY <2>2, <2>5, PastTwo
      <4> QED BY <2>2, <4>1
    <3> QED BY ONLY <3>1, <3>2 DEF Named
  <2> QED BY <2>3, <2>4, <2>5
<1>5. ran \in SUBSET (1..Len(result)) /\ refused \in SUBSET (1..Len(result)) /\ broken \in BOOLEAN
  BY <1>0 DEF Calling, Counting
<1>6. Calling'
  <2>1. Counting'
    BY <1>1, <1>5, SessionAssumption DEF Counting
  <2>2. Doing'
    BY <1>1, <1>4 DEF Doing
  <2>3. Opened'
    <3>1. /\ Len(result) >= 2 => 1 \in ran
          /\ Len(result) >= 3 => 2 \in ran
          /\ Len(result) \in {1, 2} => Len(result) \in ran
      BY <1>0, <1>1 DEF Calling, Opened
    <3>2. (Len(result) = 1 => 1 \in ran) /\ (Len(result) = 2 => 2 \in ran)
      BY <3>1
    <3>3. (Len(result) + 1 >= 2 => 1 \in ran) /\ (Len(result) + 1 >= 3 => 2 \in ran)
      BY <3>1, <3>2, OpenedMore
    <3>4. Len(result') = Len(result) + 1 /\ ran' = ran /\ client'.doing # "idle"
      BY <1>1
    <3> QED BY <3>3, <3>4, Zenon DEF Opened
  <2>4. Breaks'
    BY <1>0, <1>1 DEF Calling, Breaks
  <2> QED BY <2>1, <2>2, <2>3, <2>4 DEF Calling
<1>7. Asking'
  <2>1. Done \subseteq 1..Len(result)
    BY <1>5 DEF Done
  <2>2. id \in 1..Len(result') /\ Len(result) <= Len(result') /\ id > Len(result) /\ Len(result') \in Nat
    BY <1>1
  <2> HIDE DEF id
  <2> QED BY <1>0, <1>1, <1>4, <2>1, <2>2, SentAsking
<1>8. \A k \in 1..Len(toAgent') : k \in 1..Len(toAgent) \/ (k = Len(toAgent) + 1 /\ Request(k)')
  BY <1>2, <1>3 DEF Request
<1>9. \A k \in 1..Len(toAgent) : Request(k)' <=> Request(k)
  BY <1>3 DEF Request
<1>10. client.session # "on" => Len(toAgent) = 0 /\ Len(Inbox) = 0
  <2> SUFFICES ASSUME client.session # "on" PROVE Len(toAgent) = 0 /\ Len(Inbox) = 0
    OBVIOUS
  <2>1. Len(toAgent) + Len(toClient) + Len(client.frames) = 0
    BY <1>0, <1>1 DEF Opening, Greeting, Hello, Auth, OnTheWay
  <2>2. Len(toClient) \in Nat /\ Len(client.frames) \in Nat /\ Len(Inbox) = Len(client.frames) + Len(toClient)
    BY <1>0, <1>1, InboxIs
  <2>3. Len(toAgent) = 0 /\ Len(toClient) = 0 /\ Len(client.frames) = 0
    BY <1>2, <2>1, <2>2, NoneOf
  <2> QED BY <2>2, <2>3
<1>11. client'.session # "on" => client.session # "on"
  <2>1. client.session = "on" => cmd # "auth"
    <3>1. client.session = "on" => Len(result) >= 2
      BY <1>0, <1>1 DEF Sealed
    <3>2. cmd \in Allowed
      BY <1>1
    <3> QED BY ONLY <3>1, <3>2 DEF Allowed
  <2> QED BY <1>1, <2>1
<1>12. Sending'
  <2> SUFFICES ASSUME agent.open PROVE Uploaded' /\ Abandoned' /\ Alone'
    BY <1>1 DEF Sending, Live
  <2>0. Uploaded /\ Abandoned
    BY <1>0, <1>1 DEF Sending, Live
  <2>1. Uploaded'
    <3> SUFFICES ASSUME NEW k \in 1..Len(toAgent'), ~Request(k)'
                 PROVE  agent.up # "none" /\ agent.upId = toAgent'[k].id /\ \A j \in 1..(k - 1) : toAgent'[j].kind = "DATA"
      BY <1>1 DEF Uploaded
    <3>1. k \in 1..Len(toAgent) /\ ~Request(k)
      BY <1>8, <1>9
    <3>2. \A j \in 1..(k - 1) : j \in 1..Len(toAgent)
      BY <1>2, <3>1
    <3> QED BY <1>3, <2>0, <3>1, <3>2 DEF Uploaded
  <2>2. Abandoned'
    <3> SUFFICES ASSUME ~broken
                 PROVE  /\ agent.up = "active" => \E k \in 1..Len(toAgent') : toAgent'[k].kind = "END"
                        /\ \A k \in 1..Len(toAgent') : Request(k)' /\ toAgent'[k].of = "write" => toAgent'[k].id = id
      BY <1>1 DEF Abandoned
    <3>1. agent.up = "active" => \E k \in 1..Len(toAgent) : toAgent[k].kind = "END"
      BY <1>1, <2>0 DEF Abandoned
    <3>2. \A k \in 1..Len(toAgent) : k \in 1..Len(toAgent')
      BY <1>2, <1>3
    <3>3. ASSUME NEW k \in 1..Len(toAgent'), Request(k)', toAgent'[k].of = "write" PROVE toAgent'[k].id = id
      <4>1. k \notin 1..Len(toAgent)
        BY <1>1, <1>3, <1>9, <2>0, <3>3 DEF Abandoned
      <4> QED BY <1>3, <1>8, <4>1
    <3> QED BY <1>3, <3>1, <3>2, <3>3
  <2>3. Alone'
    <3> SUFFICES ASSUME client'.session # "on"
                 PROVE  /\ \A k \in 1..Len(toAgent') : toAgent'[k].id = id
                        /\ \A k \in 1..Len(Inbox') : Inbox'[k].id = id
      BY <1>1 DEF Alone
    <3>1. Len(toAgent) = 0 /\ Len(Inbox) = 0
      BY <1>10, <1>11
    <3> QED BY <1>2, <1>3, <1>8, <3>1
  <2> QED BY <2>1, <2>2, <2>3
<1>13. Known'
  BY <1>0, <1>1, <1>2 DEF Known
<1>14. Answering'
  <2>0. PICK s \in Nat : s = Len(Inbox) /\ Len(Inbox') = s
    BY <1>2
  <2>1. \A k \in 1..s : Inbox[k].id # id
    BY <1>0, <2>0 DEF Known
  <2>2. Reply(s)'
    <3>0. s \in Nat /\ Len(Inbox') = s /\ client'.doing = "answer"
      BY <1>1, <2>0
    <3>1. Since(s)'
      BY <1>1, <1>2, <2>0, <2>1 DEF Since
    <3>2. OneAnswer(s)' /\ NoAnswer(s)'
      BY <3>0 DEF OneAnswer, NoAnswer
    <3>3. Transfer(s)'
      BY <3>0 DEF Transfer, Start
    <3> QED BY <3>1, <3>2, <3>3 DEF Reply
  <2>3. Pends(s)'
    <3> SUFFICES ASSUME agent.open PROVE AnswerPends(s)' /\ DataPends(s)' /\ CommitPends(s)' /\ BlocksPend(s)' /\ UploadIsWrite'
      BY <1>1 DEF Pends, Live
    <3>0. Working
      BY <1>0 DEF Asking
    <3>1. agent.xfer # id /\ (agent.up # "none" => agent.upId # id)
      BY <3>0, <1>1 DEF Working, Before, TypeOK, Agents
    <3>2. AnswerPends(s)'
      <4>1. /\ Len(Inbox') = s /\ s \in Nat /\ agent'.xfer # client'.id
            /\ Len(toAgent') = Len(toAgent) + 1 /\ toAgent'[Len(toAgent) + 1].kind = "REQ"
            /\ toAgent'[Len(toAgent) + 1].id = client'.id /\ toAgent'[Len(toAgent) + 1].of = client'.cmd
        BY <1>1, <1>3, <2>0, <3>1
      <4> QED BY <4>1 DEF AnswerPends, Request
    <3>3. DataPends(s)' /\ CommitPends(s)'
      BY <1>1 DEF DataPends, CommitPends
    <3>4. BlocksPend(s)'
      <4>1. toAgent' # <<>>
        BY <1>2, <1>3, EmptySeq DEF TypeOK
      <4> QED BY <1>1, <3>1, <4>1 DEF BlocksPend
    <3>5. UploadIsWrite'
      BY <1>1, <3>1 DEF UploadIsWrite
    <3> QED BY <3>2, <3>3, <3>4, <3>5
  <2>4. s \in 0..Len(Inbox')
    BY <2>0
  <2> QED BY <2>2, <2>3, <2>4 DEF Answering
<1> QED BY <1>6, <1>7, <1>12, <1>13, <1>14 DEF PromiseInv

\* A call that goes on has a number, and its answers begin somewhere.
LEMMA GoesOn ==
  ASSUME TypeOK, Calling, client.doing # "idle"
  PROVE  client.id = Len(result) /\ client.id \in 1..Len(result) /\ Len(result) \in Nat /\ client.id \in Nat \ {0}
<1>1. Len(result) \in Nat
  BY LenProperties DEF TypeOK
<1>2. client.id = Len(result) /\ Len(result) > 0
  BY DEF Calling, Counting, Doing
<1> QED BY <1>1, <1>2

LEMMA UploadsPromise ==
  ASSUME TypeOK, TypeOK', PromiseInv, NEW kind, NEW doing, NEW n,
         (kind = "DATA" /\ doing = "data") \/ (kind = "END" /\ doing = "commit"), Uploads(kind, doing, n)
  PROVE  PromiseInv'
<1>0. Calling /\ Asking /\ Sending /\ Known /\ Answering
  BY DEF PromiseInv
<1>1. /\ client.doing = "data" /\ client.open
      /\ client'.open /\ client'.doing = doing /\ client'.cmd = client.cmd /\ client'.id = client.id
      /\ client'.frames = client.frames /\ client'.session = client.session
      /\ Sent(kind, client.id, "write")
      /\ agent' = agent /\ toClient' = toClient /\ result' = result
      /\ ran' = ran /\ refused' = refused /\ broken' = broken
  BY DEF Uploads
<1>2. Inbox' = Inbox /\ Len(Inbox) \in Nat /\ Len(toAgent) \in Nat
  BY <1>1, InboxSame, InboxIs, LenProperties DEF TypeOK
<1>3. /\ Len(toAgent') = Len(toAgent) + 1 /\ \A i \in 1..Len(toAgent) : toAgent'[i] = toAgent[i]
      /\ toAgent'[Len(toAgent) + 1].kind = kind /\ toAgent'[Len(toAgent) + 1].id = client.id
  BY <1>1 DEF Sent
<1>4. client.id = Len(result) /\ client.id \in 1..Len(result) /\ Len(result) \in Nat /\ client.id \in Nat \ {0}
  BY <1>0, <1>1, GoesOn
<1>5. client.cmd = "write" /\ kind # "REQ" /\ doing # "answer" /\ doing # "stream" /\ doing # "idle"
  BY <1>0, <1>1 DEF Calling, Doing
<1>6. PICK s \in 0..Len(Inbox) : Reply(s) /\ Pends(s)
  BY <1>0, <1>1 DEF Answering
<1>7. Calling'
  <2>1. Counting'
    BY <1>0, <1>1 DEF Calling, Counting
  <2>2. Doing'
    BY <1>0, <1>1, <1>5 DEF Calling, Doing
  <2>3. Opened' /\ Breaks'
    BY <1>0, <1>1, <1>5 DEF Calling, Opened, Breaks
  <2> QED BY <2>1, <2>2, <2>3 DEF Calling
<1>8. Asking'
  <2>1. kind \in {"REQ", "DATA", "END"} /\ Len(result') = Len(result) /\ Len(result') \in Nat /\ Len(result) <= Len(result')
    BY <1>1, <1>4
  <2> QED BY <1>0, <1>1, <1>4, <1>5, <2>1, SentAsking
<1>9. \A k \in 1..Len(toAgent') : k \in 1..Len(toAgent) \/ k = Len(toAgent) + 1
  BY <1>2, <1>3
<1>10. ASSUME agent.open
       PROVE  /\ agent.up # "none" /\ agent.upId = client.id
              /\ \A k \in 1..Len(toAgent) : toAgent[k].kind = "DATA" /\ toAgent'[k].kind = "DATA" /\ ~Request(k)'
              /\ \A k \in 1..Len(toAgent') : ~Request(k)'
              /\ Len(Inbox) > s => agent.up = "discard"
              /\ BlocksPend(s) /\ UploadIsWrite
  <2>1. DataPends(s) /\ BlocksPend(s) /\ UploadIsWrite
    BY <1>1, <1>6, <1>10 DEF Pends, Live
  <2>2. /\ agent.up # "none" /\ agent.upId = client.id /\ \A k \in 1..Len(toAgent) : toAgent[k].kind = "DATA"
        /\ Len(Inbox) > s => agent.up = "discard"
    BY <1>1, <2>1 DEF DataPends
  <2>3. \A k \in 1..Len(toAgent) : toAgent'[k].kind = "DATA" /\ ~Request(k)'
    BY <1>3, <2>2 DEF Request
  <2>4. \A k \in 1..Len(toAgent') : ~Request(k)'
    BY <1>3, <1>5, <1>9, <2>3 DEF Request
  <2> QED BY <2>1, <2>2, <2>3, <2>4
<1>11. Sending'
  <2> SUFFICES ASSUME agent.open PROVE Uploaded' /\ Abandoned' /\ Alone'
    BY <1>1 DEF Sending, Live
  <2>0. Uploaded /\ Abandoned /\ Alone
    BY <1>0, <1>1 DEF Sending, Live
  <2>1. Uploaded'
    <3> SUFFICES ASSUME NEW k \in 1..Len(toAgent')
                 PROVE  agent.up # "none" /\ agent.upId = toAgent'[k].id /\ \A j \in 1..(k - 1) : toAgent'[j].kind = "DATA"
      BY <1>1 DEF Uploaded
    <3>1. \A j \in 1..(k - 1) : j \in 1..Len(toAgent)
      BY <1>2, <1>9
    <3>2. toAgent'[k].id = client.id
      <4>1. CASE k \in 1..Len(toAgent)
        BY <1>3, <1>10, <2>0, <4>1 DEF Uploaded, Request
      <4>2. CASE k = Len(toAgent) + 1
        BY <1>3, <4>2
      <4> QED BY <1>9, <4>1, <4>2
    <3> QED BY <1>10, <3>1, <3>2
  <2>2. Abandoned'
    <3>1. kind = "END" => \E k \in 1..Len(toAgent') : toAgent'[k].kind = "END"
      <4>1. Len(toAgent) + 1 \in 1..Len(toAgent')
        BY <1>2, <1>3
      <4> QED BY <1>3, <4>1
    <3> QED BY <1>1, <1>10, <3>1 DEF Abandoned
  <2>3. Alone'
    BY <1>1, <1>2, <1>3, <1>9, <2>0 DEF Alone
  <2> QED BY <2>1, <2>2, <2>3
<1>12. Known'
  BY <1>0, <1>1, <1>2 DEF Known
<1>13. Answering'
  <2>1. Reply(s)'
    <3>0. Since(s) /\ NoAnswer(s)
      BY <1>6 DEF Reply
    <3>1. Since(s)'
      BY <1>1, <1>2, <3>0 DEF Since
    <3>2. \A k : Turned(k)' <=> Turned(k)
      BY <1>1, <1>2 DEF Turned
    <3>3. Len(Inbox) <= s + 1 /\ \A k \in (s + 1)..Len(Inbox) : Turned(k)
      BY <1>1, <3>0 DEF NoAnswer
    <3>4. OneAnswer(s)' /\ NoAnswer(s)'
      BY <1>2, <3>2, <3>3 DEF OneAnswer, NoAnswer
    <3>5. Transfer(s)'
      BY <1>1, <1>5 DEF Transfer
    <3> QED BY <3>1, <3>4, <3>5 DEF Reply
  <2>2. Pends(s)'
    <3> SUFFICES ASSUME agent.open PROVE AnswerPends(s)' /\ DataPends(s)' /\ CommitPends(s)' /\ BlocksPend(s)' /\ UploadIsWrite'
      BY <1>1 DEF Pends, Live
    <3>1. AnswerPends(s)'
      BY <1>1, <1>5 DEF AnswerPends
    <3>2. DataPends(s)'
      <4>1. doing = "data" => \A k \in 1..Len(toAgent') : toAgent'[k].kind = "DATA"
        BY <1>3, <1>9, <1>10
      <4> QED BY <1>1, <1>2, <1>10, <4>1 DEF DataPends
    <3>3. CommitPends(s)'
      <4>1. doing = "commit" => toAgent'[Len(toAgent')].kind = "END" /\ toAgent'[Len(toAgent')].id = client.id
        BY <1>3
      <4> QED BY <1>1, <1>2, <1>10, <4>1 DEF CommitPends
    <3>4. BlocksPend(s)'
      <4>1. agent.xfer = 0
        BY <1>1, <1>5, <1>10 DEF BlocksPend
      <4> QED BY <1>1, <1>4, <1>5, <4>1 DEF BlocksPend
    <3>5. UploadIsWrite'
      BY <1>1, <1>5 DEF UploadIsWrite
    <3> QED BY <3>1, <3>2, <3>3, <3>4, <3>5
  <2> QED BY <1>2, <1>6, <2>1, <2>2 DEF Answering
<1> QED BY <1>7, <1>8, <1>11, <1>12, <1>13 DEF PromiseInv

(***************************************************************************)
(* A call ends.                                                            *)
(***************************************************************************)
LEMMA InboxWithin ==
  ASSUME TypeOK, TypeOK', Within, toClient' = toClient, client'.open => client.open
  PROVE  \A k \in 1..Len(Inbox') : \E j \in 1..Len(Inbox) : Inbox'[k] = Inbox[j]
<1>1. /\ Len(client.frames) \in Nat /\ Len(toClient) \in Nat /\ Len(Inbox) \in Nat
      /\ Len(client.frames) <= Len(Inbox)
      /\ \A k \in 1..Len(client.frames) : Inbox[k] = client.frames[k]
      /\ client.open => /\ Len(Inbox) = Len(client.frames) + Len(toClient)
                        /\ \A k \in 1..Len(toClient) : Inbox[Len(client.frames) + k] = toClient[k]
  BY InboxIs
<1>2. /\ Len(Inbox') \in Nat
      /\ \A k \in 1..Len(client'.frames) : Inbox'[k] = client'.frames[k]
      /\ client'.open => /\ Len(Inbox') = Len(client'.frames) + Len(toClient)
                         /\ \A k \in 1..Len(toClient) : Inbox'[Len(client'.frames) + k] = toClient[k]
      /\ ~client'.open => Inbox' = client'.frames
  BY NextInboxIs
<1>3. Len(client'.frames) \in Nat
  BY LenProperties DEF TypeOK, Clients
<1> SUFFICES ASSUME NEW k \in 1..Len(Inbox') PROVE \E j \in 1..Len(Inbox) : Inbox'[k] = Inbox[j]
  OBVIOUS
<1>4. CASE k \in 1..Len(client'.frames)
  <2>1. PICK j \in 1..Len(client.frames) : client'.frames[k] = client.frames[j]
    BY <1>4 DEF Within
  <2>2. j \in 1..Len(Inbox)
    BY <1>1
  <2> QED BY <1>1, <1>2, <1>4, <2>1, <2>2
<1>5. CASE k \notin 1..Len(client'.frames)
  <2>1. client'.open /\ client.open
    BY <1>2, <1>5
  <2>2. PICK m \in 1..Len(toClient) : k = Len(client'.frames) + m
    <3>1. k - Len(client'.frames) \in 1..Len(toClient) /\ k = Len(client'.frames) + (k - Len(client'.frames))
      <4>1. k \in 1..Len(client'.frames) + Len(toClient) /\ Len(client'.frames) \in Nat /\ Len(toClient) \in Nat
        BY <1>1, <1>2, <1>3, <2>1
      <4> QED BY ONLY <1>5, <4>1
    <3> QED BY <3>1
  <2>3. Inbox'[k] = toClient[m] /\ Inbox[Len(client.frames) + m] = toClient[m]
    BY <1>1, <1>2, <2>1, <2>2
  <2>4. Len(client.frames) + m \in 1..Len(Inbox)
    BY <1>1, <2>1
  <2> QED BY <2>3, <2>4
<1> QED BY <1>4, <1>5

LEMMA OverEnds ==
  ASSUME TypeOK, Calling, NEW value, IsOver(value)
  PROVE  /\ KeepsCalls!End(value) /\ Len(result) = client.id
         /\ client.id \in 1..Len(result) /\ Len(result) \in Nat
         /\ result'[Len(result')] = value /\ value # "none"
<1>1. client.id = Len(result) /\ client.id \in 1..Len(result) /\ Len(result) \in Nat
  BY GoesOn DEF IsOver
<1>2. Len(result) > 0 /\ result[Len(result)] = "none"
  BY DEF Calling, Doing, IsOver
<1>3. client.id \in DOMAIN result
  BY <1>1, LenProperties DEF TypeOK
<1>4. result' = [result EXCEPT ![client.id] = value] /\ Len(result') = Len(result) /\ value # "none"
  BY DEF IsOver
<1>5. result'[client.id] = value
  BY <1>3, <1>4
<1>6. KeepsCalls!End(value)
  BY <1>1, <1>2, <1>4 DEF IsOver, KeepsCalls!End, KeepsCalls!Pending, KeepsCalls!Last
<1> QED BY <1>1, <1>4, <1>5, <1>6

\* Nothing it leaves behind is taken for a call that goes on.
Leaves ==
  /\ agent.up = "active" => \E k \in 1..Len(toAgent) : toAgent[k].kind = "END"
  /\ \A k \in 1..Len(toAgent) : Request(k) => toAgent[k].of # "write"

LEMMA OverPromise ==
  ASSUME TypeOK, TypeOK', PromiseInv, NEW value, IsOver(value), broken' \in BOOLEAN, broken => broken',
         value = "ok" /\ client.cmd \in {"hello", "auth"} => client.id \in ran,
         Live /\ ~broken' => Leaves
  PROVE  PromiseInv'
<1>0. Calling /\ Asking /\ Sending /\ Known
  BY DEF PromiseInv
<1>1. /\ client.doing # "idle" /\ client'.doing = "idle" /\ client'.id = client.id
      /\ client'.open => client.open /\ (client.cmd \in {"hello", "auth"} => value = "ok")
      /\ client'.session = (IF client.session = "pending" THEN "none" ELSE client.session)
      /\ Within /\ Len(result') = Len(result)
      /\ agent' = agent /\ toAgent' = toAgent /\ toClient' = toClient /\ ran' = ran /\ refused' = refused
  BY DEF IsOver
<1>2. /\ Len(result) = client.id /\ client.id \in 1..Len(result) /\ Len(result) \in Nat
      /\ result'[Len(result')] = value /\ value # "none"
  BY <1>0, OverEnds
<1>3. \A k \in 1..Len(Inbox') : \E j \in 1..Len(Inbox) : Inbox'[k] = Inbox[j]
  BY <1>1, InboxWithin
<1>4. Calling'
  <2>1. Counting'
    BY <1>0, <1>1 DEF Calling, Counting
  <2>2. Doing'
    BY <1>1, <1>2 DEF Doing
  <2>3. Opened'
    <3>1. Named(client.id, client.cmd)
      BY <1>0, <1>1 DEF Calling, Doing
    <3>2. client'.open /\ Len(result') \in {1, 2} => Len(result') \in ran
      <4> SUFFICES ASSUME client'.open, Len(result') \in {1, 2} PROVE client.id \in ran
        BY <1>1, <1>2
      <4>1. client.cmd \in {"hello", "auth"}
        BY <1>1, <1>2, <3>1 DEF Named
      <4> QED BY <1>1, <4>1
    <3>3. (Len(result) >= 2 => 1 \in ran) /\ (Len(result) >= 3 => 2 \in ran)
      BY <1>0 DEF Calling, Opened
    <3> QED BY <1>1, <3>2, <3>3 DEF Opened
  <2>4. Breaks'
    BY <1>0, <1>1 DEF Calling, Breaks
  <2> QED BY <2>1, <2>2, <2>3, <2>4 DEF Calling
<1>5. Asking'
  BY <1>0, <1>1, AskingSame
<1>6. Sending'
  <2> SUFFICES ASSUME client'.open, agent.open PROVE Uploaded' /\ Abandoned' /\ Alone'
    BY <1>1 DEF Sending, Live
  <2>0. Uploaded /\ Alone /\ Live
    BY <1>0, <1>1 DEF Sending, Live
  <2>1. Uploaded'
    BY <1>1, <2>0 DEF Uploaded, Request
  <2>2. Abandoned'
    <3> SUFFICES ASSUME ~broken' PROVE Leaves
      BY <1>1 DEF Leaves, Abandoned, Request
    <3> QED BY <2>0
  <2>3. Alone'
    <3> SUFFICES ASSUME client'.session # "on"
                 PROVE  /\ \A k \in 1..Len(toAgent) : toAgent[k].id = client.id
                        /\ \A k \in 1..Len(Inbox') : Inbox'[k].id = client.id
      BY <1>1 DEF Alone
    <3>1. client.session # "on"
      BY <1>1
    <3>2. /\ \A k \in 1..Len(toAgent) : toAgent[k].id = client.id
          /\ \A k \in 1..Len(Inbox) : Inbox[k].id = client.id
      BY <2>0, <3>1 DEF Alone
    <3> QED BY <1>3, <3>2
  <2> QED BY <2>1, <2>2, <2>3
<1>7. Known'
  BY <1>0, <1>1, <1>3 DEF Known
<1>8. Answering'
  BY <1>1 DEF Answering
<1> QED BY <1>4, <1>5, <1>6, <1>7, <1>8 DEF PromiseInv

\* What is left of the frames when one of them is taken.
LEMMA RemovedFrames ==
  ASSUME NEW s \in Seq(Frames), NEW i \in 1..Len(s)
  PROVE  \A k \in 1..Len(RemoveAt(s, i)) : \E j \in 1..Len(s) : RemoveAt(s, i)[k] = s[j]
<1>1. Len(s) \in Nat /\ i \in Nat
  BY LenProperties
<1>2. SubSeq(s, 1, i - 1) \in Seq(Frames) /\ SubSeq(s, i + 1, Len(s)) \in Seq(Frames)
  BY <1>1, SubSeqProperties
<1>3. \A j \in 1..Len(s) : s[j] \in Frames
  BY ElementOfSeq
<1>4. /\ Len(SubSeq(s, 1, i - 1)) = (IF 1 <= i - 1 THEN (i - 1) - 1 + 1 ELSE 0)
      /\ \A k \in 1..(i - 1) - 1 + 1 : SubSeq(s, 1, i - 1)[k] = s[1 + k - 1]
  <2>1. \A j \in 1..(i - 1) : s[j] \in Frames
    BY <1>1, <1>3
  <2> QED BY <1>1, <2>1, SubSeqProperties
<1>5. /\ Len(SubSeq(s, i + 1, Len(s))) = (IF i + 1 <= Len(s) THEN Len(s) - (i + 1) + 1 ELSE 0)
      /\ \A k \in 1..Len(s) - (i + 1) + 1 : SubSeq(s, i + 1, Len(s))[k] = s[(i + 1) + k - 1]
  <2>1. \A j \in (i + 1)..Len(s) : s[j] \in Frames
    BY <1>1, <1>3
  <2> QED BY <1>1, <2>1, SubSeqProperties
<1> DEFINE p == SubSeq(s, 1, i - 1)
           q == SubSeq(s, i + 1, Len(s))
<1>6. Len(p) = i - 1 /\ Len(q) = Len(s) - i /\ Len(p) \in Nat /\ Len(q) \in Nat
  BY <1>1, <1>4, <1>5
<1>7. \A k \in 1..Len(p) : p[k] = s[k] /\ k \in 1..Len(s)
  BY <1>1, <1>4, <1>6
<1>8. \A k \in 1..Len(q) : q[k] = s[i + k] /\ i + k \in 1..Len(s)
  BY <1>1, <1>5, <1>6
<1>9. RemoveAt(s, i) = p \o q
  BY DEF RemoveAt
<1>10. Len(p \o q) = Len(p) + Len(q) /\ \A k \in 1..Len(p) + Len(q) : (p \o q)[k] = IF k <= Len(p) THEN p[k] ELSE q[k - Len(p)]
  BY <1>2, ConcatProperties
<1> HIDE DEF p, q
<1> SUFFICES ASSUME NEW k \in 1..Len(p) + Len(q) PROVE \E j \in 1..Len(s) : (p \o q)[k] = s[j]
  BY <1>9, <1>10
<1>11. CASE k <= Len(p)
  <2>1. k \in 1..Len(p)
    BY <1>6, <1>11
  <2> QED BY <1>7, <1>10, <1>11, <2>1
<1>12. CASE ~(k <= Len(p))
  <2>1. k - Len(p) \in 1..Len(q)
    BY <1>6, <1>12
  <2>2. PICK m \in 1..Len(q) : m = k - Len(p)
    BY <2>1
  <2>3. (p \o q)[k] = q[m]
    BY <1>10, <1>12, <2>2
  <2> QED BY <1>8, <2>3
<1> QED BY <1>11, <1>12

LEMMA FailsAs ==
  ASSUME TypeOK, Calling, IsOver("failed"), excused' = excused \/ excused' = excused \cup {client.id},
         broken' = broken \/ broken' = TRUE, client.id \in excused' \/ broken'
  PROVE  KeepsCalls!Next
<1>1. KeepsCalls!End("failed") /\ Len(result) = client.id
  BY OverEnds
<1>2. excused' \in {excused, excused \cup {Len(result)}} /\ broken' \in {broken, TRUE} /\ (Len(result) \in excused' \/ broken')
  BY <1>1
<1> QED BY <1>1, <1>2 DEF KeepsCalls!Fail, KeepsCalls!Next, KeepsCalls!Last

LEMMA RejectsAs ==
  ASSUME TypeOK, Calling, IsOver("refused"), client.id \in refused, excused' = excused, broken' = broken
  PROVE  KeepsCalls!Next
<1>1. KeepsCalls!End("refused") /\ Len(result) = client.id
  BY OverEnds
<1> QED BY <1>1 DEF KeepsCalls!Reject, KeepsCalls!Next, KeepsCalls!Last

LEMMA ReturnsAs ==
  ASSUME TypeOK, Calling, IsOver("ok"), client.id \in ran, excused' = excused, broken' = broken
  PROVE  KeepsCalls!Next
<1>1. KeepsCalls!End("ok") /\ Len(result) = client.id
  BY OverEnds
<1> QED BY <1>1 DEF KeepsCalls!Return, KeepsCalls!Next, KeepsCalls!Last

LEMMA ShutsDoes ==
  ASSUME TypeOK, NEW open \in BOOLEAN, open => client.open, client.doing # "idle",
         Ends([client EXCEPT !.open = open], "failed"),
         agent' = agent, toAgent' = toAgent, toClient' = toClient, ran' = ran, refused' = refused
  PROVE  IsOver("failed") /\ (client'.open => open)
<1> DEFINE c == [client EXCEPT !.open = open]
<1>1. /\ c \in Clients /\ c.open = open
      /\ c.session = client.session /\ c.cmd = client.cmd /\ c.frames = client.frames /\ c.id = client.id
  <2>1. client \in Clients
    BY DEF TypeOK
  <2>2. CASE open
    BY <2>1, <2>2 DEF Clients
  <2>3. CASE ~open
    BY <2>1, <2>3 DEF Clients
  <2> QED BY <2>2, <2>3
<1>2. Ends(c, "failed") /\ "failed" \in {"ok", "refused", "failed"} /\ "failed" \in Values
  BY DEF Values
<1> HIDE DEF c
<1>3. \A k \in 1..Len(c.frames) : \E j \in 1..Len(client.frames) : c.frames[k] = client.frames[j]
  BY <1>1
<1>4. IsOver("failed")
  BY <1>1, <1>2, <1>3, EndsDoes
<1>5. client'.open => c.open
  BY <1>1, <1>2, EndsWhat
<1> QED BY <1>1, <1>4, <1>5

LEMMA EndedDoes ==
  ASSUME TypeOK, client.doing # "idle", Ends(client, "failed"),
         agent' = agent, toAgent' = toAgent, toClient' = toClient, ran' = ran, refused' = refused
  PROVE  IsOver("failed")
<1>1. client \in Clients /\ "failed" \in {"ok", "refused", "failed"}
  BY DEF TypeOK
<1> QED BY <1>1, EndsDoes

LEMMA SourceFailsPromise ==
  ASSUME TypeOK, TypeOK', PromiseInv, SourceFails \/ ReceiverFails
  PROVE  PromiseInv' /\ KeepsCalls!Next
<1>0. Calling /\ broken' = TRUE /\ excused' = excused
  BY DEF PromiseInv, SourceFails, ReceiverFails
<1>1. /\ client.doing # "idle" /\ agent' = agent /\ toAgent' = toAgent /\ toClient' = toClient
      /\ ran' = ran /\ refused' = refused
  BY DEF SourceFails, ReceiverFails
<1>2. PICK open \in BOOLEAN : (open => client.open) /\ Ends([client EXCEPT !.open = open], "failed")
  <2>1. CASE SourceFails
    <3>1. client.open /\ \E open \in {TRUE, client.n = Chunks} : Ends([client EXCEPT !.open = open], "failed")
      BY <2>1 DEF SourceFails
    <3>2. PICK open \in {TRUE, client.n = Chunks} : Ends([client EXCEPT !.open = open], "failed")
      BY <3>1
    <3>3. (client.n = Chunks) \in BOOLEAN
      OBVIOUS
    <3>4. open \in BOOLEAN
      BY <3>2, <3>3
    <3> QED BY <3>1, <3>2, <3>4
  <2>2. CASE ReceiverFails
    <3>1. Ends([client EXCEPT !.open = FALSE], "failed")
      BY <2>2 DEF ReceiverFails
    <3> QED BY <3>1
  <2> QED BY <2>1, <2>2
<1>3. IsOver("failed")
  BY <1>1, <1>2, ShutsDoes
<1>4. PromiseInv'
  BY <1>0, <1>3, OverPromise
<1> QED BY <1>0, <1>3, <1>4, FailsAs

LEMMA RejectedPromise ==
  ASSUME TypeOK, TypeOK', PromiseInv, ~client.open, client.doing # "idle", Ends(client, "failed"),
         agent' = agent, toAgent' = toAgent, toClient' = toClient,
         ran' = ran, refused' = refused, excused' = excused, broken' = broken
  PROVE  PromiseInv' /\ KeepsCalls!Next
<1>0. Calling
  BY DEF PromiseInv
<1>1. broken /\ broken \in BOOLEAN
  BY <1>0 DEF Calling, Breaks, Counting
<1>2. IsOver("failed")
  BY EndedDoes
<1>3. PromiseInv'
  BY <1>1, <1>2, OverPromise DEF Live
<1> QED BY <1>0, <1>1, <1>2, <1>3, FailsAs

\* A call that is not an upload, or has sent its END, leaves nothing behind.
LEMMA LeavesNothing ==
  ASSUME TypeOK, PromiseInv, Live, ~broken, client.doing \in {"answer", "commit", "stream"},
         NEW s \in 0..Len(Inbox), Reply(s), Pends(s),
         client.doing = "answer" => client.cmd # "write" \/ (toAgent = <<>> /\ (agent.up = "active" => agent.upId # client.id))
  PROVE  Leaves
<1>0. /\ Abandoned /\ Asked /\ Working /\ Calling
      /\ AnswerPends(s) /\ CommitPends(s) /\ BlocksPend(s) /\ UploadIsWrite
  BY DEF PromiseInv, Sending, Live, Asking, Pends
<1>1. Len(toAgent) \in Nat /\ (toAgent = <<>> <=> Len(toAgent) = 0) /\ client.id = Len(result) /\ client.doing # "idle"
  BY <1>0, LenProperties, EmptySeq DEF TypeOK, Calling, Counting
<1>2. agent.up = "active" => \E k \in 1..Len(toAgent) : toAgent[k].kind = "END"
  BY <1>0 DEF Abandoned, UploadIsWrite
<1>3. ASSUME NEW k \in 1..Len(toAgent), Request(k), toAgent[k].of = "write" PROVE FALSE
  <2>1. toAgent[k].id = client.id /\ client.doing = "answer"
    BY <1>0, <1>3 DEF Abandoned
  <2>2. toAgent # <<>> /\ client.cmd # "write"
    BY <1>1, <1>3, <2>1
  <2>3. Request(Len(toAgent)) /\ toAgent[Len(toAgent)].id = client.id /\ toAgent[Len(toAgent)].of = client.cmd
    BY <1>0, <2>1, <2>2 DEF AnswerPends
  <2>4. k # Len(toAgent)
    BY <1>3, <2>2, <2>3
  <2>5. k < Len(toAgent) /\ Len(toAgent) \in 1..Len(toAgent)
    BY <1>1, <2>4
  <2>6. toAgent[k].id < toAgent[Len(toAgent)].id
    BY <1>0, <1>3, <2>3, <2>5 DEF Asked
  <2>7. client.id \in Nat
    BY DEF TypeOK, Clients
  <2> QED BY <2>1, <2>3, <2>6, <2>7
<1> QED BY <1>2, <1>3 DEF Leaves

LEMMA TimesOutPromise ==
  ASSUME TypeOK, TypeOK', PromiseInv, TimesOut
  PROVE  PromiseInv' /\ KeepsCalls!Next
<1> DEFINE open == client.doing # "stream"
           breaks == client.doing = "stream" \/ client.cmd \in {"hello", "auth"} \/ (client.cmd = "write" /\ client.doing = "answer")
<1>0. Calling /\ Answering
  BY DEF PromiseInv
<1>1. /\ client.doing \in {"answer", "stream", "commit"} /\ client.open
      /\ Ends([client EXCEPT !.open = open], "failed") /\ open \in BOOLEAN
      /\ agent' = agent /\ toAgent' = toAgent /\ toClient' = toClient
      /\ ran' = ran /\ refused' = refused /\ excused' = excused \cup {client.id}
  BY DEF TimesOut, Waits, Excused
<1>2. broken \in BOOLEAN /\ (broken' <=> broken \/ breaks) /\ broken' \in BOOLEAN
  BY <1>0 DEF TimesOut, Calling, Counting
<1>3. broken' = broken \/ broken' = TRUE
  BY <1>2
<1>4. client.doing # "idle"
  BY <1>1
<1> HIDE DEF open
<1>5. IsOver("failed")
  BY <1>1, <1>4, ShutsDoes
<1>6. Live /\ ~broken' => Leaves
  <2> SUFFICES ASSUME Live, ~broken' PROVE Leaves
    OBVIOUS
  <2>1. ~broken /\ (client.doing = "answer" => client.cmd # "write")
    BY <1>2
  <2>2. PICK s \in 0..Len(Inbox) : Reply(s) /\ Pends(s)
    BY <1>0, <1>4 DEF Answering
  <2> QED BY <1>1, <2>1, <2>2, LeavesNothing
<1> HIDE DEF breaks
<1>7. PromiseInv'
  BY <1>2, <1>5, <1>6, OverPromise
<1> QED BY <1>0, <1>1, <1>3, <1>5, <1>7, FailsAs

LEMMA StopSendingPromise ==
  ASSUME TypeOK, TypeOK', PromiseInv, StopSending
  PROVE  PromiseInv' /\ KeepsCalls!Next
<1>0. Calling /\ Answering /\ Asking
  BY DEF PromiseInv
<1>1. /\ client.doing = "data" /\ client.doing # "idle"
      /\ agent' = agent /\ toAgent' = toAgent /\ toClient' = toClient
      /\ ran' = ran /\ refused' = refused /\ excused' = excused /\ broken' = broken
  BY DEF StopSending
<1>2. CASE ~client.open /\ Ends(client, "failed")
  BY <1>1, <1>2, RejectedPromise
<1>3. ASSUME NEW i \in Early, Ends([client EXCEPT !.frames = RemoveAt(@, i)], Verdict(client.frames[i]))
      PROVE  PromiseInv' /\ KeepsCalls!Next
  <2> DEFINE c == [client EXCEPT !.frames = RemoveAt(@, i)]
             value == Verdict(client.frames[i])
  <2>0. client \in Clients /\ client.frames \in Seq(Frames)
    BY DEF TypeOK, Clients
  <2>1. i \in 1..Len(client.frames) /\ client.frames[i].id = client.id /\ client.frames[i].kind = "ERR"
    BY <2>0, LenProperties DEF Early
  <2>2. /\ RemoveAt(client.frames, i) \in Seq(Frames)
        /\ \A k \in 1..Len(RemoveAt(client.frames, i)) : \E j \in 1..Len(client.frames) : RemoveAt(client.frames, i)[k] = client.frames[j]
    BY <2>0, <2>1, RemovedType, RemovedFrames
  <2>3. /\ c \in Clients /\ c.open = client.open /\ c.session = client.session /\ c.cmd = client.cmd /\ c.id = client.id
        /\ c.frames = RemoveAt(client.frames, i)
    BY <2>0, <2>2 DEF Clients
  <2>4. Ends(c, value)
    BY <1>3
  <2>5. value = (IF client.frames[i].of = "BUSY" THEN "failed" ELSE "refused") /\ value \in {"ok", "refused", "failed"} /\ value # "ok"
    BY DEF Verdict
  <2> HIDE DEF c, value
  <2>6. IsOver(value)
    <3>1. \A k \in 1..Len(c.frames) : \E j \in 1..Len(client.frames) : c.frames[k] = client.frames[j]
      BY <2>2, <2>3
    <3> QED BY <1>1, <2>3, <2>4, <2>5, <3>1, EndsDoes
  <2>7. PICK s \in 0..Len(Inbox) : Reply(s) /\ Pends(s)
    BY <1>0, <1>1 DEF Answering
  <2>8. i \in 1..Len(Inbox) /\ Inbox[i] = client.frames[i] /\ Len(Inbox) \in Nat
    BY <2>1, InboxIs
  <2>9. i > s /\ Turned(i)
    <3>1. i > s
      BY <2>1, <2>7, <2>8 DEF Reply, Since
    <3>2. i \in (s + 1)..Len(Inbox)
      BY <2>7, <2>8, <3>1
    <3> QED BY <1>1, <2>7, <3>1, <3>2 DEF Reply, NoAnswer
  <2>10. IF client.frames[i].of = "BUSY" THEN broken ELSE client.id \in refused
    BY <2>8, <2>9 DEF Turned
  <2>11. Live => Leaves
    <3> SUFFICES ASSUME Live PROVE Leaves
      OBVIOUS
    <3>1. DataPends(s)
      BY <2>7 DEF Pends
    <3>2. agent.up = "discard" /\ \A k \in 1..Len(toAgent) : toAgent[k].kind = "DATA"
      BY <1>1, <2>7, <2>8, <2>9, <3>1 DEF DataPends
    <3> QED BY <3>2 DEF Leaves, Request
  <2>12. broken \in BOOLEAN
    BY <1>0 DEF Calling, Counting
  <2>13. PromiseInv'
    BY <1>1, <2>5, <2>6, <2>11, <2>12, OverPromise
  <2>14. CASE client.frames[i].of = "BUSY"
    BY <1>0, <1>1, <2>5, <2>6, <2>10, <2>13, <2>14, FailsAs
  <2>15. CASE client.frames[i].of # "BUSY"
    BY <1>0, <1>1, <2>5, <2>6, <2>10, <2>13, <2>15, RejectsAs
  <2> QED BY <2>14, <2>15
<1> QED BY <1>2, <1>3 DEF StopSending

(***************************************************************************)
(* The client takes the first frame it was given.                          *)
(***************************************************************************)
Takes(doing, n) ==
  /\ client.doing \in {"answer", "stream", "commit"} /\ client.frames # <<>>
  /\ client'.open = client.open /\ client'.doing = doing /\ client'.cmd = client.cmd /\ client'.id = client.id /\ client'.n = n
  /\ client'.frames = Tail(client.frames) /\ client'.session = client.session
  /\ agent' = agent /\ toAgent' = toAgent /\ toClient' = toClient /\ result' = result
  /\ ran' = ran /\ refused' = refused /\ excused' = excused /\ broken' = broken

LEMMA TakesPromise ==
  ASSUME TypeOK, TypeOK', PromiseInv, NEW doing, NEW n, Takes(doing, n),
         doing \in {"answer", "stream", "commit", "data"},
         doing = "answer" => client.doing = "answer" /\ n = client.n, doing = "commit" => client.doing = "commit",
         doing \in {"data", "commit"} => client.cmd = "write", doing = "stream" => client.cmd = "read",
         client.doing = "answer" /\ doing # "answer" /\ Live => toAgent = <<>>,
         Answering'
  PROVE  PromiseInv'
<1>0. Calling /\ Asking /\ Sending /\ Known /\ Answering
  BY DEF PromiseInv
<1>1. /\ client.doing \in {"answer", "stream", "commit"} /\ client.frames # <<>>
      /\ client'.open = client.open /\ client'.doing = doing /\ client'.cmd = client.cmd /\ client'.id = client.id /\ client'.n = n
      /\ client'.frames = Tail(client.frames) /\ client'.session = client.session
      /\ agent' = agent /\ toAgent' = toAgent /\ toClient' = toClient /\ result' = result
      /\ ran' = ran /\ refused' = refused /\ broken' = broken
  BY DEF Takes
<1>2. /\ Len(Inbox') = Len(Inbox) - 1 /\ \A k \in 1..Len(Inbox') : Inbox'[k] = Inbox[k + 1]
      /\ Len(Inbox) \in Nat
  BY <1>1, InboxTaken, InboxIs DEF Taken
<1>3. \A k \in 1..Len(Inbox') : k + 1 \in 1..Len(Inbox) /\ Inbox'[k] = Inbox[k + 1]
  BY <1>2
<1>4. client.doing # "idle" /\ doing # "idle"
  BY <1>1
<1>5. Calling'
  <2>1. Counting'
    BY <1>0, <1>1 DEF Calling, Counting
  <2>2. Doing'
    BY <1>0, <1>1, <1>4 DEF Calling, Doing
  <2>3. Opened' /\ Breaks'
    BY <1>0, <1>1, <1>4 DEF Calling, Opened, Breaks
  <2> QED BY <2>1, <2>2, <2>3 DEF Calling
<1>6. Asking'
  BY <1>0, <1>1, AskingSame
<1>7. Sending'
  <2> SUFFICES ASSUME Live PROVE Uploaded' /\ Abandoned' /\ Alone'
    BY <1>1 DEF Sending, Live
  <2>0. Uploaded /\ Abandoned /\ Alone /\ UploadIsWrite
    BY <1>0, <1>4 DEF Sending, Answering, Pends
  <2>1. Uploaded'
    BY <1>1, <2>0 DEF Uploaded, Request
  <2>2. Abandoned'
    <3> SUFFICES ASSUME ~broken
                 PROVE  /\ agent.up = "active" =>
                             \/ \E k \in 1..Len(toAgent) : toAgent[k].kind = "END"
                             \/ agent.upId = client.id /\ doing \in {"answer", "data"}
                        /\ \A k \in 1..Len(toAgent) : Request(k) /\ toAgent[k].of = "write" =>
                             toAgent[k].id = client.id /\ doing = "answer"
      BY <1>1 DEF Abandoned, Request
    <3>1. /\ agent.up = "active" =>
               \/ \E k \in 1..Len(toAgent) : toAgent[k].kind = "END"
               \/ agent.upId = client.id /\ client.doing \in {"answer", "data"} /\ client.cmd = "write"
          /\ \A k \in 1..Len(toAgent) : Request(k) /\ toAgent[k].of = "write" =>
               toAgent[k].id = client.id /\ client.doing = "answer"
      BY <2>0 DEF Abandoned, UploadIsWrite
    <3>2. client.doing = "answer" /\ client.cmd = "write" => doing \in {"answer", "data"}
      BY <1>1
    <3>3. client.doing = "answer" /\ doing # "answer" => Len(toAgent) = 0
      BY <2>0, EmptySeq
    <3> QED BY <1>1, <3>1, <3>2, <3>3
  <2>3. Alone'
    BY <1>1, <1>3, <2>0 DEF Alone
  <2> QED BY <2>1, <2>2, <2>3
<1>8. Known'
  BY <1>0, <1>1, <1>3 DEF Known
<1> QED BY <1>5, <1>6, <1>7, <1>8 DEF PromiseInv

\* The answer to an earlier call is passed over.
LEMMA StaleAnswering ==
  ASSUME TypeOK, TypeOK', PromiseInv, Takes(client.doing, client.n), Inbox[1].id # client.id
  PROVE  Answering'
<1>1. /\ client.doing \in {"answer", "stream", "commit"} /\ client.frames # <<>>
      /\ client'.open = client.open /\ client'.doing = client.doing /\ client'.cmd = client.cmd
      /\ client'.id = client.id /\ client'.n = client.n
      /\ client'.frames = Tail(client.frames)
      /\ agent' = agent /\ toAgent' = toAgent /\ toClient' = toClient
      /\ ran' = ran /\ refused' = refused /\ broken' = broken
  BY DEF Takes
<1>2. /\ Len(Inbox') = Len(Inbox) - 1 /\ \A k \in 1..Len(Inbox') : Inbox'[k] = Inbox[k + 1]
      /\ Len(Inbox) \in Nat /\ Len(Inbox) >= 1
  BY <1>1, InboxTaken, InboxIs DEF Taken
<1>3. PICK s \in 0..Len(Inbox) : Reply(s) /\ Pends(s)
  BY <1>1 DEF PromiseInv, Answering
<1>4. s >= 1
  BY <1>2, <1>3 DEF Reply, Since
<1>5. PICK t \in 0..Len(Inbox') : s = t + 1
  <2>1. s - 1 \in 0..Len(Inbox') /\ s = (s - 1) + 1
    BY <1>2, <1>3, <1>4
  <2> QED BY <2>1
<1>6. \A k \in 1..Len(Inbox') : k + 1 \in 1..Len(Inbox) /\ Inbox'[k] = Inbox[k + 1] /\ (Turned(k)' <=> Turned(k + 1))
  BY <1>1, <1>2 DEF Turned
<1>7. t \in Nat /\ s \in Nat /\ Len(Inbox') \in Nat /\ Len(Inbox) = Len(Inbox') + 1
  BY <1>2, <1>3, <1>5
<1>8. Reply(t)'
  <2>0. Since(s) /\ OneAnswer(s) /\ NoAnswer(s) /\ Transfer(s)
    BY <1>3 DEF Reply
  <2>1. Since(t)'
    BY <1>1, <1>5, <1>6, <1>7, <2>0 DEF Since
  <2>2. OneAnswer(t)'
    <3> SUFFICES ASSUME client.doing = "commit" \/ (client.doing = "answer" /\ client.cmd # "read")
                 PROVE  /\ Len(Inbox') <= t + 1
                        /\ \A k \in (t + 1)..Len(Inbox') :
                             \/ Turned(k)'
                             \/ Inbox'[k].kind = "RES" /\ (client.id \in ran \/ (client.doing = "answer" /\ client.cmd = "write"))
      BY <1>1 DEF OneAnswer
    <3>1. /\ Len(Inbox) <= s + 1
          /\ \A k \in (s + 1)..Len(Inbox) :
               \/ Turned(k)
               \/ Inbox[k].kind = "RES" /\ (client.id \in ran \/ (client.doing = "answer" /\ client.cmd = "write"))
      BY <2>0 DEF OneAnswer
    <3>2. \A k \in (t + 1)..Len(Inbox') : k \in 1..Len(Inbox') /\ k + 1 \in (s + 1)..Len(Inbox)
      BY <1>5, <1>7
    <3> QED BY <1>5, <1>6, <1>7, <3>1, <3>2
  <2>3. NoAnswer(t)'
    BY <1>1 DEF NoAnswer
  <2>4. Transfer(t)'
    <3> SUFFICES ASSUME client.cmd = "read" PROVE Transfer(t)'
      BY <1>1 DEF Transfer
    <3>1. PICK b \in Nat : b = Start(t)' /\ Start(s) = b + 1 /\ (client.doing = "answer" => b = t + 1)
      <4>1. CASE client.doing = "answer"
        <5>1. t + 1 \in Nat /\ Start(t)' = t + 1 /\ Start(s) = (t + 1) + 1
          BY <1>1, <1>5, <1>7, <4>1 DEF Start
        <5> QED BY <5>1
      <4>2. CASE client.doing # "answer"
        BY <1>1, <1>5, <1>7, <4>2 DEF Start
      <4> QED BY <4>1, <4>2
    <3>2. /\ client.doing = "answer" /\ s < Len(Inbox) => Inbox[s + 1].kind = "RES" \/ (Turned(s + 1) /\ Len(Inbox) = s + 1)
          /\ \A k \in (b + 2)..Len(Inbox) :
               \/ Inbox[k].kind = "DATA"
               \/ k = Len(Inbox) /\ Turned(k)
               \/ k = Len(Inbox) /\ Inbox[k].kind = "END" /\ client.id \in ran /\ client.n + (k - 1 - (b + 1)) = Chunks
      <4>1. b + 2 = Start(s) + 1 /\ b + 1 = Start(s)
        BY <3>1
      <4> QED BY <2>0, <4>1 DEF Transfer
    <3>3. client.doing = "answer" /\ t < Len(Inbox') => Inbox'[t + 1].kind = "RES" \/ (Turned(t + 1)' /\ Len(Inbox') = t + 1)
      <4> SUFFICES ASSUME client.doing = "answer", t < Len(Inbox') PROVE Inbox'[t + 1].kind = "RES" \/ (Turned(t + 1)' /\ Len(Inbox') = t + 1)
        OBVIOUS
      <4>1. t + 1 \in 1..Len(Inbox') /\ (t + 1) + 1 = s + 1 /\ s < Len(Inbox) /\ (Len(Inbox) = s + 1 => Len(Inbox') = t + 1)
        BY <1>5, <1>7
      <4>2. Inbox'[t + 1] = Inbox[s + 1] /\ (Turned(t + 1)' <=> Turned(s + 1))
        BY <1>6, <4>1
      <4> QED BY <3>2, <4>1, <4>2
    <3>4. ASSUME NEW k \in (b + 1)..Len(Inbox')
          PROVE  \/ Inbox'[k].kind = "DATA"
                 \/ k = Len(Inbox') /\ Turned(k)'
                 \/ k = Len(Inbox') /\ Inbox'[k].kind = "END" /\ client.id \in ran /\ client.n + (k - 1 - b) = Chunks
      <4>1. k \in 1..Len(Inbox') /\ k + 1 \in (b + 2)..Len(Inbox) /\ (k + 1 = Len(Inbox) => k = Len(Inbox')) /\ (k + 1) - 1 - (b + 1) = k - 1 - b
        BY <1>7, <3>1
      <4>2. Inbox'[k] = Inbox[k + 1] /\ (Turned(k)' <=> Turned(k + 1))
        BY <1>6, <4>1
      <4>3. \/ Inbox[k + 1].kind = "DATA"
            \/ k + 1 = Len(Inbox) /\ Turned(k + 1)
            \/ k + 1 = Len(Inbox) /\ Inbox[k + 1].kind = "END" /\ client.id \in ran /\ client.n + ((k + 1) - 1 - (b + 1)) = Chunks
        BY <3>2, <4>1
      <4> QED BY <4>1, <4>2, <4>3
    <3>5. \A k \in (Start(t)' + 1)..Len(Inbox') :
            \/ Inbox'[k].kind = "DATA"
            \/ k = Len(Inbox') /\ Turned(k)'
            \/ k = Len(Inbox') /\ Inbox'[k].kind = "END" /\ client'.id \in ran' /\ client'.n + (k - 1 - Start(t)') = Chunks
      BY <1>1, <3>1, <3>4
    <3> QED BY <1>1, <3>3, <3>5 DEF Transfer
  <2> QED BY <2>1, <2>2, <2>3, <2>4 DEF Reply
<1>9. Pends(t)'
  <2> SUFFICES ASSUME Live PROVE AnswerPends(t)' /\ DataPends(t)' /\ CommitPends(t)' /\ BlocksPend(t)' /\ UploadIsWrite'
    BY <1>1 DEF Pends, Live
  <2>0. AnswerPends(s) /\ DataPends(s) /\ CommitPends(s) /\ BlocksPend(s) /\ UploadIsWrite
    BY <1>3 DEF Pends
  <2>1. AnswerPends(t)'
    <3> SUFFICES ASSUME client.doing = "answer"
                 PROVE  /\ toAgent # <<>> =>
                             /\ Len(Inbox') = t /\ agent.xfer # client.id
                             /\ Request(Len(toAgent)) /\ toAgent[Len(toAgent)].id = client.id /\ toAgent[Len(toAgent)].of = client.cmd
                        /\ client.cmd = "write" /\ t < Len(Inbox') /\ Inbox'[t + 1].kind = "RES" =>
                             agent.up # "none" /\ agent.upId = client.id
      BY <1>1 DEF AnswerPends, Request
    <3>1. t < Len(Inbox') => s < Len(Inbox) /\ Inbox'[t + 1] = Inbox[s + 1]
      <4> SUFFICES ASSUME t < Len(Inbox') PROVE s < Len(Inbox) /\ Inbox'[t + 1] = Inbox[s + 1]
        OBVIOUS
      <4>1. t + 1 \in 1..Len(Inbox') /\ (t + 1) + 1 = s + 1 /\ s < Len(Inbox)
        BY <1>5, <1>7
      <4> QED BY <1>6, <4>1
    <3> QED BY <1>5, <1>7, <2>0, <3>1 DEF AnswerPends
  <2>2. DataPends(t)' /\ CommitPends(t)'
    <3>1. Len(Inbox') > t => Len(Inbox) > s
      BY <1>5, <1>7
    <3> QED BY <1>1, <2>0, <3>1 DEF DataPends, CommitPends, Request
  <2>3. BlocksPend(t)'
    <3> SUFFICES ASSUME agent.xfer = client.id
                 PROVE  /\ client.cmd = "read" /\ Len(Inbox') >= Start(t)'
                        /\ client.doing = "answer" => Inbox'[t + 1].kind = "RES"
                        /\ \A k \in (Start(t)' + 1)..Len(Inbox') : Inbox'[k].kind = "DATA"
                        /\ client.n + (Len(Inbox') - Start(t)') + agent.left = Chunks
      BY <1>1, <2>0 DEF BlocksPend
    <3>1. PICK b \in Nat : b = Start(t)' /\ Start(s) = b + 1 /\ (client.doing = "answer" => b = t + 1)
      <4>1. CASE client.doing = "answer"
        <5>1. t + 1 \in Nat /\ Start(t)' = t + 1 /\ Start(s) = (t + 1) + 1
          BY <1>1, <1>5, <1>7, <4>1 DEF Start
        <5> QED BY <5>1
      <4>2. CASE client.doing # "answer"
        BY <1>1, <1>5, <1>7, <4>2 DEF Start
      <4> QED BY <4>1, <4>2
    <3>2. /\ client.cmd = "read" /\ Len(Inbox) >= b + 1
          /\ client.doing = "answer" => Inbox[s + 1].kind = "RES"
          /\ \A k \in (b + 2)..Len(Inbox) : Inbox[k].kind = "DATA"
          /\ client.n + (Len(Inbox) - (b + 1)) + agent.left = Chunks
      <4>1. b + 2 = Start(s) + 1 /\ b + 1 = Start(s)
        BY <3>1
      <4> QED BY <2>0, <4>1 DEF BlocksPend
    <3>3. Len(Inbox') >= b /\ Len(Inbox') - b = Len(Inbox) - (b + 1)
      BY <1>7, <3>1, <3>2
    <3>4. client.doing = "answer" => Inbox'[t + 1].kind = "RES"
      <4> SUFFICES ASSUME client.doing = "answer" PROVE Inbox'[t + 1].kind = "RES"
        OBVIOUS
      <4>1. t + 1 \in 1..Len(Inbox') /\ (t + 1) + 1 = s + 1
        BY <1>5, <1>7, <3>1, <3>3
      <4> QED BY <1>6, <3>2, <4>1
    <3>5. \A k \in (b + 1)..Len(Inbox') : Inbox'[k].kind = "DATA"
      <4> SUFFICES ASSUME NEW k \in (b + 1)..Len(Inbox') PROVE Inbox'[k].kind = "DATA"
        OBVIOUS
      <4>1. k \in 1..Len(Inbox') /\ k + 1 \in (b + 2)..Len(Inbox)
        BY <1>7, <3>1
      <4> QED BY <1>6, <3>2, <4>1
    <3> QED BY <3>1, <3>2, <3>3, <3>4, <3>5
  <2>4. UploadIsWrite'
    BY <1>1, <2>0 DEF UploadIsWrite
  <2> QED BY <2>1, <2>2, <2>3, <2>4
<1> QED BY <1>8, <1>9 DEF Answering

\* The frame is for the call that goes on: nothing is before it.
LEMMA OwnFrame ==
  ASSUME TypeOK, PromiseInv, client.doing # "idle", Inbox # <<>>, Inbox[1].id = client.id
  PROVE  Reply(0) /\ Pends(0) /\ 0 \in 0..Len(Inbox) /\ Len(Inbox) \in Nat /\ Len(Inbox) >= 1
<1>1. Inbox \in Seq(Frames) /\ Len(Inbox) \in Nat /\ Len(Inbox) >= 1
  <2>1. Inbox \in Seq(Frames) /\ Len(Inbox) \in Nat
    BY InboxIs
  <2> QED BY <2>1, EmptySeq
<1>2. PICK s \in 0..Len(Inbox) : Reply(s) /\ Pends(s)
  BY DEF PromiseInv, Answering
<1>3. s = 0
  <2>1. 1 > s
    BY <1>1 , <1>2 DEF Reply, Since
  <2> QED BY <1>1, <1>2, <2>1
<1> QED BY <1>1, <1>2, <1>3

LEMMA OwnAnswering ==
  ASSUME TypeOK, TypeOK', PromiseInv, NEW doing, NEW n, Takes(doing, n), Inbox[1].id = client.id,
         \/ client.doing = "stream" /\ doing = "stream" /\ n = client.n + 1 /\ Inbox[1].kind = "DATA"
         \/ client.doing = "answer" /\ doing = "stream" /\ n = client.n /\ client.cmd = "read" /\ Inbox[1].kind = "RES"
         \/ client.doing = "answer" /\ doing = "data" /\ n = client.n /\ client.cmd = "write" /\ Inbox[1].kind = "RES"
  PROVE  Answering' /\ (client.doing = "answer" /\ Live => toAgent = <<>>)
<1>1. /\ client.doing \in {"answer", "stream", "commit"} /\ client.frames # <<>>
      /\ client'.open = client.open /\ client'.doing = doing /\ client'.cmd = client.cmd
      /\ client'.id = client.id /\ client'.n = n
      /\ client'.frames = Tail(client.frames)
      /\ agent' = agent /\ toAgent' = toAgent /\ toClient' = toClient
      /\ ran' = ran /\ refused' = refused /\ broken' = broken
  BY DEF Takes
<1>2. /\ Len(Inbox') = Len(Inbox) - 1 /\ \A k \in 1..Len(Inbox') : Inbox'[k] = Inbox[k + 1]
      /\ Inbox # <<>>
  <2>1. Len(Inbox) >= 1 /\ Taken /\ Inbox \in Seq(Frames)
    BY <1>1, InboxTaken, InboxIs
  <2> QED BY <2>1, EmptySeq DEF Taken
<1>3. /\ Since(0) /\ Transfer(0) /\ OneAnswer(0) /\ NoAnswer(0) /\ Pends(0) /\ Len(Inbox) \in Nat /\ Len(Inbox) >= 1
  BY <1>1, <1>2, OwnFrame DEF Reply
<1>4. \A k \in 1..Len(Inbox') : k + 1 \in 1..Len(Inbox) /\ Inbox'[k] = Inbox[k + 1] /\ (Turned(k)' <=> Turned(k + 1))
  BY <1>1, <1>2, <1>3 DEF Turned
<1>5. Len(Inbox') \in Nat /\ Len(Inbox) = Len(Inbox') + 1 /\ client.n \in Nat /\ 0 \in 0..Len(Inbox')
  BY <1>2, <1>3 DEF TypeOK, Clients
<1>6. Since(0)'
  BY <1>1, <1>3, <1>4, <1>5 DEF Since
<1>7. client.doing = "answer" => client.n = 0
  BY DEF PromiseInv, Calling, Doing
<1>8. client.doing = "answer" /\ Live => toAgent = <<>>
  BY <1>3 DEF Pends, AnswerPends
<1>9. CASE doing = "stream"
  <2>1. client.cmd = "read"
    BY <1>9 DEF PromiseInv, Calling, Doing
  \* In the inbox as it was, the frames of the transfer begin behind b.
  <2>2. PICK b \in {0, 1} : b = Start(0) /\ n = client.n + 1 - b /\ Start(0)' = 0
    <3>1. CASE client.doing = "answer"
      BY <1>1, <1>5, <1>9, <3>1 DEF Start
    <3>2. CASE client.doing = "stream"
      BY <1>1, <1>5, <1>9, <3>2 DEF Start
    <3> QED BY <1>9, <3>1, <3>2
  <2>3. \A k \in (b + 1)..Len(Inbox) :
            \/ Inbox[k].kind = "DATA"
            \/ k = Len(Inbox) /\ Turned(k)
            \/ k = Len(Inbox) /\ Inbox[k].kind = "END" /\ client.id \in ran /\ client.n + (k - 1 - b) = Chunks
    BY <1>3, <2>1, <2>2 DEF Transfer
  <2>4. OneAnswer(0)' /\ NoAnswer(0)'
    BY <1>1, <1>9 DEF OneAnswer, NoAnswer
  <2>5. ASSUME NEW k \in 1..Len(Inbox')
        PROVE  \/ Inbox'[k].kind = "DATA"
               \/ k = Len(Inbox') /\ Turned(k)'
               \/ k = Len(Inbox') /\ Inbox'[k].kind = "END" /\ client.id \in ran /\ n + (k - 1 - 0) = Chunks
    <3>1. k + 1 \in (b + 1)..Len(Inbox) /\ (k + 1 = Len(Inbox) => k = Len(Inbox'))
      BY <1>5, <2>2
    <3>2. client.n + ((k + 1) - 1 - b) = n + (k - 1 - 0)
      BY <1>5, <2>2
    <3>3. Inbox'[k] = Inbox[k + 1] /\ (Turned(k)' <=> Turned(k + 1))
      BY <1>4
    <3> QED BY <2>3, <3>1, <3>2, <3>3
  <2>6. Transfer(0)'
    <3>1. \A k \in (0 + 1)..Len(Inbox') : k \in 1..Len(Inbox')
      OBVIOUS
    <3> QED BY <1>1, <1>9, <2>2, <2>5, <3>1 DEF Transfer
  <2>7. Pends(0)'
    <3> SUFFICES ASSUME Live PROVE AnswerPends(0)' /\ DataPends(0)' /\ CommitPends(0)' /\ BlocksPend(0)' /\ UploadIsWrite'
      BY <1>1 DEF Pends, Live
    <3>0. BlocksPend(0) /\ UploadIsWrite /\ (client.doing = "answer" => toAgent = <<>>)
      BY <1>3, <1>8 DEF Pends
    <3>1. AnswerPends(0)' /\ DataPends(0)' /\ CommitPends(0)'
      BY <1>1, <1>9 DEF AnswerPends, DataPends, CommitPends
    <3>2. UploadIsWrite'
      BY <1>1, <3>0 DEF UploadIsWrite
    <3>3. toAgent = <<>>
      BY <1>1, <1>9, <3>0 DEF BlocksPend
    <3>4. ASSUME agent.xfer = client.id
          PROVE  /\ \A k \in (0 + 1)..Len(Inbox') : Inbox'[k].kind = "DATA"
                 /\ n + (Len(Inbox') - 0) + agent.left = Chunks
      <4>1. /\ Len(Inbox) >= b
            /\ \A k \in (b + 1)..Len(Inbox) : Inbox[k].kind = "DATA"
            /\ client.n + (Len(Inbox) - b) + agent.left = Chunks
        BY <2>2, <3>0, <3>4 DEF BlocksPend
      <4>2. Len(Inbox') - 0 = Len(Inbox) - 1 /\ n + (Len(Inbox') - 0) = client.n + (Len(Inbox) - b)
        BY <1>5, <2>2
      <4>3. \A k \in (0 + 1)..Len(Inbox') : k + 1 \in (b + 1)..Len(Inbox) /\ k \in 1..Len(Inbox')
        BY <1>5, <2>2
      <4> QED BY <1>4, <4>1, <4>2, <4>3
    <3>5. BlocksPend(0)'
      BY <1>1, <1>5, <1>9, <2>1, <2>2, <3>0, <3>3, <3>4 DEF BlocksPend
    <3> QED BY <3>1, <3>2, <3>5
  <2>8. Reply(0)'
    BY <1>6, <2>4, <2>6 DEF Reply
  <2> QED BY <1>5, <1>8, <2>7, <2>8 DEF Answering
<1>10. CASE doing = "data"
  <2>1. client.cmd = "write" /\ client.doing = "answer" /\ Inbox[1].kind = "RES"
    BY <1>10
  <2>2. Len(Inbox') = 0
    BY <1>3, <1>5, <2>1 DEF OneAnswer
  <2>3. OneAnswer(0)' /\ NoAnswer(0)' /\ Transfer(0)'
    BY <1>1, <1>10, <2>1, <2>2 DEF OneAnswer, NoAnswer, Transfer
  <2>4. Pends(0)'
    <3> SUFFICES ASSUME Live PROVE AnswerPends(0)' /\ DataPends(0)' /\ CommitPends(0)' /\ BlocksPend(0)' /\ UploadIsWrite'
      BY <1>1 DEF Pends, Live
    <3>0. BlocksPend(0) /\ UploadIsWrite /\ AnswerPends(0) /\ toAgent = <<>>
      BY <1>3, <1>8, <2>1 DEF Pends
    <3>1. agent.up # "none" /\ agent.upId = client.id
      BY <1>3, <2>1, <3>0 DEF AnswerPends
    <3>2. \A k \in 1..Len(toAgent) : toAgent[k].kind = "DATA"
      BY <3>0, EmptySeq
    <3>3. AnswerPends(0)' /\ DataPends(0)' /\ CommitPends(0)'
      BY <1>1, <1>10, <2>2, <3>1, <3>2 DEF AnswerPends, DataPends, CommitPends
    <3>4. UploadIsWrite'
      BY <1>1, <3>0 DEF UploadIsWrite
    <3>5. BlocksPend(0)'
      BY <1>1, <1>10, <2>1, <3>0 DEF BlocksPend
    <3> QED BY <3>3, <3>4, <3>5
  <2>5. Reply(0)'
    BY <1>6, <2>3 DEF Reply
  <2> QED BY <1>5, <1>8, <2>4, <2>5 DEF Answering
<1> QED BY <1>9, <1>10

LEMMA TakeDoes ==
  ASSUME TypeOK, Take
  PROVE  LET frame == Inbox[1]
             stale == frame.id # client.id
         IN  /\ client.doing \in {"answer", "stream", "commit"} /\ Inbox # <<>> /\ frame \in Frames
             /\ excused' = excused /\ broken' = broken
             /\ \/ stale /\ Takes(client.doing, client.n)
                \/ ~stale /\ frame.kind = "ERR" /\ IsOver(Verdict(frame))
                \/ ~stale /\ client.doing = "stream" /\ frame.kind = "DATA" /\ Takes("stream", client.n + 1)
                \/ ~stale /\ client.doing = "stream" /\ frame.kind = "END" /\ client.n = Chunks /\ IsOver("ok")
                \/ /\ ~stale /\ client.doing = "answer" /\ frame.kind = "RES"
                   /\ \/ client.cmd = "read" /\ Takes("stream", client.n)
                      \/ client.cmd = "write" /\ Takes("data", client.n)
                      \/ client.cmd \notin {"read", "write"} /\ IsOver("ok")
                \/ ~stale /\ client.doing = "commit" /\ frame.kind = "RES" /\ IsOver("ok")
                \/ /\ ~stale /\ frame.kind # "ERR" /\ IsOver("failed")
                   /\ client.doing = "stream" => frame.kind # "DATA" /\ ~(frame.kind = "END" /\ client.n = Chunks)
                   /\ client.doing \in {"answer", "commit"} => frame.kind # "RES"
<1> DEFINE frame == Head(client.frames)
           c == [client EXCEPT !.frames = Tail(@)]
<1>0. client \in Clients
  BY DEF TypeOK
<1>1. /\ client.doing \in {"answer", "stream", "commit"} /\ client.frames # <<>>
      /\ agent' = agent /\ toAgent' = toAgent /\ toClient' = toClient
      /\ ran' = ran /\ refused' = refused /\ excused' = excused /\ broken' = broken
  BY DEF Take, Waits
<1>2. /\ Tail(client.frames) \in Seq(Frames) /\ frame = client.frames[1] /\ frame \in Frames
      /\ \A k \in 1..Len(Tail(client.frames)) : \E j \in 1..Len(client.frames) : Tail(client.frames)[k] = client.frames[j]
      /\ client.frames \in Seq(Frames) /\ 1 \in 1..Len(client.frames)
  <2>1. client.frames \in Seq(Frames)
    BY <1>0 DEF Clients
  <2> QED BY <1>1, <2>1, TailOf, HeadTailProperties
<1>3. Inbox[1] = frame /\ Inbox # <<>>
  <2>1. /\ Inbox \in Seq(Frames) /\ Len(Inbox) \in Nat /\ Len(client.frames) \in Nat /\ Len(client.frames) <= Len(Inbox)
        /\ \A k \in 1..Len(client.frames) : Inbox[k] = client.frames[k]
    BY InboxIs
  <2>2. Len(Inbox) # 0
    BY <1>2, <2>1
  <2> QED BY <1>2, <2>1, <2>2, EmptySeq
<1>4. /\ c \in Clients /\ c.open = client.open /\ c.frames = Tail(client.frames)
      /\ c.session = client.session /\ c.cmd = client.cmd /\ c.doing = client.doing /\ c.id = client.id /\ c.n = client.n
  BY <1>0, <1>2 DEF Clients
<1>5. \A k \in 1..Len(c.frames) : \E j \in 1..Len(client.frames) : c.frames[k] = client.frames[j]
  BY <1>2, <1>4
<1> HIDE DEF c
<1>6. ASSUME NEW value \in {"ok", "refused", "failed"}, Ends(c, value) PROVE IsOver(value)
  BY <1>1, <1>4, <1>5, <1>6, EndsDoes
<1>7. Ends([c EXCEPT !.open = @ /\ client.doing # "stream"], "failed") => IsOver("failed")
  <2> SUFFICES ASSUME Ends([c EXCEPT !.open = @ /\ client.doing # "stream"], "failed") PROVE IsOver("failed")
    OBVIOUS
  <2>1. PICK open \in BOOLEAN : (open => c.open) /\ Ends([c EXCEPT !.open = open], "failed")
    <3> DEFINE still == c.open /\ client.doing # "stream"
    <3>1. still \in BOOLEAN /\ (still => c.open) /\ Ends([c EXCEPT !.open = still], "failed")
      OBVIOUS
    <3> HIDE DEF still
    <3> QED BY <3>1, Zenon
  <2> DEFINE d == [c EXCEPT !.open = open]
  <2>2. /\ d \in Clients /\ d.open = open
        /\ d.session = c.session /\ d.cmd = c.cmd /\ d.frames = c.frames /\ d.id = c.id
    <3>1. CASE open
      BY <1>4, <2>1, <3>1 DEF Clients
    <3>2. CASE ~open
      BY <1>4, <2>1, <3>2 DEF Clients
    <3> QED BY <3>1, <3>2
  <2>3. Ends(d, "failed") /\ "failed" \in {"ok", "refused", "failed"}
    BY <2>1
  <2> HIDE DEF d
  <2> QED BY <1>1, <1>4, <1>5, <2>1, <2>2, <2>3, EndsDoes
<1>8. client' = c /\ result' = result => Takes(client.doing, client.n)
  BY <1>1, <1>4 DEF Takes
<1>9. client' = [c EXCEPT !.n = @ + 1] /\ result' = result => Takes(client.doing, client.n + 1)
  <2>1. LET d == [c EXCEPT !.n = @ + 1]
        IN  /\ d.open = c.open /\ d.doing = c.doing /\ d.cmd = c.cmd /\ d.id = c.id /\ d.n = c.n + 1
            /\ d.frames = c.frames /\ d.session = c.session
    BY <1>4 DEF Clients
  <2> QED BY <1>1, <1>4, <2>1 DEF Takes
<1>10. ASSUME NEW doing, client' = [c EXCEPT !.doing = doing], result' = result PROVE Takes(doing, client.n)
  <2>1. LET d == [c EXCEPT !.doing = doing]
        IN  /\ d.open = c.open /\ d.doing = doing /\ d.cmd = c.cmd /\ d.id = c.id /\ d.n = c.n
            /\ d.frames = c.frames /\ d.session = c.session
    BY <1>4 DEF Clients
  <2> QED BY <1>1, <1>4, <1>10, <2>1 DEF Takes
<1>11. Verdict(frame) \in {"ok", "refused", "failed"}
  BY DEF Verdict
<1>12. CASE Stale(frame)
  <2>1. client' = c /\ result' = result
    BY <1>12 DEF Take, c
  <2> QED BY <1>1, <1>2, <1>3, <1>8, <1>12, <2>1 DEF Stale
<1>13. CASE ~Stale(frame) /\ frame.kind = "ERR"
  <2>1. Ends(c, Verdict(frame))
    BY <1>13 DEF Take, c
  <2> HIDE DEF frame
  <2>2. IsOver(Verdict(frame))
    BY <1>6, <1>11, <2>1
  <2> QED BY <1>1, <1>2, <1>3, <1>13, <2>2 DEF Stale
<1>14. CASE ~Stale(frame) /\ client.doing = "stream" /\ frame.kind = "DATA"
  <2>1. client' = [c EXCEPT !.n = @ + 1] /\ result' = result
    BY <1>14 DEF Take, c
  <2> HIDE DEF frame
  <2> QED BY <1>1, <1>2, <1>3, <1>9, <1>14, <2>1 DEF Stale
<1>15. CASE ~Stale(frame) /\ client.doing = "stream" /\ frame.kind = "END" /\ client.n = Chunks
  <2>1. Ends(c, "ok")
    BY <1>15 DEF Take, c
  <2> HIDE DEF frame
  <2> QED BY <1>1, <1>2, <1>3, <1>6, <1>15, <2>1 DEF Stale
<1>16. CASE ~Stale(frame) /\ client.doing = "answer" /\ frame.kind = "RES"
  <2>1. IF client.cmd = "read" THEN client' = [c EXCEPT !.doing = "stream"] /\ result' = result
        ELSE IF client.cmd = "write" THEN client' = [c EXCEPT !.doing = "data"] /\ result' = result ELSE Ends(c, "ok")
    BY <1>16 DEF Take, c
  <2> HIDE DEF frame
  <2>2. CASE client.cmd = "read"
    BY <1>1, <1>2, <1>3, <1>10, <1>16, <2>1, <2>2 DEF Stale
  <2>3. CASE client.cmd = "write"
    BY <1>1, <1>2, <1>3, <1>10, <1>16, <2>1, <2>3 DEF Stale
  <2>4. CASE client.cmd \notin {"read", "write"}
    BY <1>1, <1>2, <1>3, <1>6, <1>16, <2>1, <2>4 DEF Stale
  <2> QED BY <2>2, <2>3, <2>4
<1>17. CASE ~Stale(frame) /\ client.doing = "commit" /\ frame.kind = "RES"
  <2>1. Ends(c, "ok")
    BY <1>17 DEF Take, c
  <2> HIDE DEF frame
  <2> QED BY <1>1, <1>2, <1>3, <1>6, <1>17, <2>1 DEF Stale
<1>18. CASE /\ ~Stale(frame) /\ frame.kind # "ERR"
            /\ ~(client.doing = "stream" /\ frame.kind = "DATA")
            /\ ~(client.doing = "stream" /\ frame.kind = "END" /\ client.n = Chunks)
            /\ ~(client.doing \in {"answer", "commit"} /\ frame.kind = "RES")
  <2>1. Ends([c EXCEPT !.open = @ /\ client.doing # "stream"], "failed")
    BY <1>4, <1>18 DEF Take, c
  <2> HIDE DEF frame
  <2> QED BY <1>1, <1>2, <1>3, <1>7, <1>18, <2>1 DEF Stale
<1> QED BY <1>1, <1>12, <1>13, <1>14, <1>15, <1>16, <1>17, <1>18

LEMMA TakePromise ==
  ASSUME TypeOK, TypeOK', PromiseInv, Take
  PROVE  PromiseInv' /\ (KeepsCalls!Next \/ fates' = fates)
<1>0. Calling /\ Asking /\ Sending /\ Answering /\ broken \in BOOLEAN
  BY DEF PromiseInv, Calling, Counting
<1>1. /\ client.doing \in {"answer", "stream", "commit"} /\ Inbox # <<>> /\ Inbox[1] \in Frames
      /\ excused' = excused /\ broken' = broken /\ client.doing # "idle"
  BY TakeDoes
<1>2. ASSUME NEW doing, NEW n, Takes(doing, n) PROVE fates' = fates /\ client.n \in Nat
  BY <1>2 DEF Takes, fates, TypeOK, Clients
<1>3. CASE Inbox[1].id # client.id
  <2>1. Takes(client.doing, client.n)
    BY <1>3, TakeDoes
  <2>2. Answering'
    BY <1>3, <2>1, StaleAnswering
  <2>3. (client.doing \in {"data", "commit"} => client.cmd = "write") /\ (client.doing = "stream" => client.cmd = "read")
    BY <1>0 DEF Calling, Doing
  <2>4. PromiseInv'
    BY <1>1, <2>1, <2>2, <2>3, TakesPromise
  <2> QED BY <1>2, <2>1, <2>4
<1>4. CASE Inbox[1].id = client.id
  <2> DEFINE frame == Inbox[1]
  <2>1. Reply(0) /\ Pends(0) /\ 0 \in 0..Len(Inbox) /\ Len(Inbox) \in Nat /\ Len(Inbox) >= 1
    BY <1>1, <1>4, OwnFrame
  <2>2. OneAnswer(0) /\ Transfer(0) /\ 1 \in 1..Len(Inbox)
    BY <2>1 DEF Reply
  <2>3. client.doing \in {"answer", "commit"} => Turned(1) \/ (frame.kind = "RES" /\ (client.doing = "commit" \/ client.cmd \notin {"read", "write"} => client.id \in ran))
    <3>1. CASE client.cmd # "read" \/ client.doing = "commit"
      <4>1. client.doing \in {"answer", "commit"} =>
              \A k \in (0 + 1)..Len(Inbox) :
                \/ Turned(k)
                \/ Inbox[k].kind = "RES" /\ (client.id \in ran \/ (client.doing = "answer" /\ client.cmd = "write"))
        BY <2>2, <3>1 DEF OneAnswer
      <4>2. 1 \in (0 + 1)..Len(Inbox)
        BY <2>2
      <4> QED BY <4>1, <4>2
    <3>2. CASE client.cmd = "read" /\ client.doing # "commit"
      <4>1. client.doing = "answer" => Inbox[0 + 1].kind = "RES" \/ (Turned(0 + 1) /\ Len(Inbox) = 0 + 1)
        BY <2>1, <2>2, <3>2 DEF Transfer
      <4>2. 0 + 1 = 1
        OBVIOUS
      <4> QED BY <3>2, <4>1, <4>2
    <3> QED BY <3>1, <3>2
  <2>4. client.doing = "stream" => frame.kind = "DATA" \/ Turned(1) \/ (frame.kind = "END" /\ client.id \in ran /\ client.n = Chunks)
    <3> SUFFICES ASSUME client.doing = "stream"
                 PROVE  frame.kind = "DATA" \/ Turned(1) \/ (frame.kind = "END" /\ client.id \in ran /\ client.n = Chunks)
      OBVIOUS
    <3>1. client.cmd = "read" /\ Start(0) = 0 /\ 1 \in (0 + 1)..Len(Inbox) /\ client.n + (1 - 1 - 0) = client.n
      BY <1>0, <2>2 DEF Calling, Doing, Start, TypeOK, Clients
    <3> QED BY <2>2, <3>1 DEF Transfer
  <2>5. Turned(1) => frame.kind = "ERR" /\ IF frame.of = "BUSY" THEN broken ELSE client.id \in refused
    BY DEF Turned
  <2>6. ASSUME Live, ~broken, client.doing = "stream" \/ client.doing = "commit" \/ client.cmd # "write" \/ frame.kind = "ERR"
        PROVE  Leaves
    <3>1. CASE client.doing = "answer" /\ frame.kind = "ERR"
      <4>1. Turned(1)
        BY <2>3, <3>1
      <4>2. client.id \in refused
        BY <2>5, <2>6, <4>1
      <4>3. agent.up = "active" => agent.upId # client.id
        <5>1. agent.up = "active" => \A j \in Done : j < agent.upId
          BY <1>0, <2>6 DEF Asking, Live, Working, Later
        <5>2. client.id \in Done /\ client.id \in Nat
          BY <4>2 DEF Done, TypeOK, Clients
        <5> QED BY <5>1, <5>2
      <4>4. toAgent = <<>>
        BY <2>1, <2>6, <3>1 DEF Pends, AnswerPends
      <4> QED BY <1>1, <2>1, <2>6, <4>3, <4>4, LeavesNothing
    <3>2. CASE ~(client.doing = "answer" /\ frame.kind = "ERR")
      <4>1. client.doing = "answer" => client.cmd # "write"
        BY <2>6, <3>2
      <4> QED BY <1>1, <2>1, <2>6, <4>1, LeavesNothing
    <3> QED BY <3>1, <3>2
  <2>7. CASE frame.kind = "ERR"
    <3>1. IsOver(Verdict(frame)) /\ Turned(1)
      BY <1>1, <1>4, <2>3, <2>4, <2>7, TakeDoes
    <3>2. Verdict(frame) = (IF frame.of = "BUSY" THEN "failed" ELSE "refused") /\ Verdict(frame) # "ok"
      BY DEF Verdict
    <3>3. PromiseInv'
      BY <1>0, <1>1, <2>6, <2>7, <3>1, <3>2, OverPromise
    <3>4. CASE frame.of = "BUSY"
      BY <1>0, <1>1, <2>5, <3>1, <3>2, <3>3, <3>4, FailsAs
    <3>5. CASE frame.of # "BUSY"
      BY <1>0, <1>1, <2>5, <3>1, <3>2, <3>3, <3>5, RejectsAs
    <3> QED BY <3>4, <3>5
  <2>8. CASE client.doing = "stream" /\ frame.kind = "DATA"
    <3>1. Takes("stream", client.n + 1)
      BY <1>4, <2>8, TakeDoes
    <3>2. Answering'
      BY <1>4, <2>8, <3>1, OwnAnswering
    <3>3. client.cmd = "read"
      BY <1>0, <2>8 DEF Calling, Doing
    <3>4. PromiseInv'
      BY <2>8, <3>1, <3>2, <3>3, TakesPromise
    <3> QED BY <1>2, <3>1, <3>4
  <2>9. CASE client.doing = "answer" /\ frame.kind = "RES" /\ client.cmd = "read"
    <3>1. Takes("stream", client.n)
      BY <1>4, <2>9, TakeDoes
    <3>2. Answering' /\ (Live => toAgent = <<>>)
      BY <1>4, <2>9, <3>1, OwnAnswering
    <3>4. PromiseInv'
      BY <2>9, <3>1, <3>2, TakesPromise
    <3> QED BY <1>2, <3>1, <3>4
  <2>10. CASE client.doing = "answer" /\ frame.kind = "RES" /\ client.cmd = "write"
    <3>1. Takes("data", client.n)
      BY <1>4, <2>10, TakeDoes
    <3>2. Answering' /\ (Live => toAgent = <<>>)
      BY <1>4, <2>10, <3>1, OwnAnswering
    <3>4. PromiseInv'
      BY <2>10, <3>1, <3>2, TakesPromise
    <3> QED BY <1>2, <3>1, <3>4
  <2>11. CASE /\ frame.kind = "RES" /\ client.doing \in {"answer", "commit"}
              /\ client.doing = "commit" \/ client.cmd \notin {"read", "write"}
    <3>1. IsOver("ok") /\ client.id \in ran
      BY <1>4, <2>3, <2>5, <2>11, TakeDoes
    <3>2. PromiseInv'
      BY <1>0, <1>1, <2>6, <2>11, <3>1, OverPromise
    <3> QED BY <1>0, <1>1, <3>1, <3>2, ReturnsAs
  <2>12. CASE client.doing = "stream" /\ frame.kind = "END"
    <3>1. client.id \in ran /\ client.n = Chunks
      BY <2>4, <2>5, <2>12
    <3>2. IsOver("ok")
      BY <1>4, <2>12, <3>1, TakeDoes
    <3>3. PromiseInv'
      BY <1>0, <1>1, <2>6, <2>12, <3>1, <3>2, OverPromise
    <3> QED BY <1>0, <1>1, <3>1, <3>2, <3>3, ReturnsAs
  <2> QED BY <1>1, <2>3, <2>4, <2>5, <2>7, <2>8, <2>9, <2>10, <2>11, <2>12
<1> QED BY <1>3, <1>4

(***************************************************************************)
(* What the client receives, and that it was closed.                       *)
(***************************************************************************)
GoesOnAs == client'.id = client.id /\ client'.doing = client.doing /\ client'.cmd = client.cmd /\ client'.n = client.n
Settled == ran \subseteq ran' /\ refused \subseteq refused' /\ (broken => broken')

LEMMA ReplyCut ==
  ASSUME TypeOK, TypeOK', GoesOnAs, Settled, Cut, NEW s \in 0..Len(Inbox), Reply(s)
  PROVE  \E t \in 0..Len(Inbox') : Reply(t)' /\ (s <= Len(Inbox') => t = s)
<1>1. Len(Inbox) \in Nat /\ Len(Inbox') \in Nat /\ Len(Inbox') <= Len(Inbox)
  BY InboxIs, NextInboxIs DEF Cut
<1>2. PICK t \in 0..Len(Inbox') : t <= s /\ (s <= Len(Inbox') => t = s) /\ (s > Len(Inbox') => t = Len(Inbox'))
  <2>1. CASE s <= Len(Inbox')
    <3>1. s \in 0..Len(Inbox') /\ s <= s /\ ~(s > Len(Inbox'))
      BY <1>1, <2>1
    <3> QED BY <3>1
  <2>2. CASE s > Len(Inbox')
    <3>1. Len(Inbox') \in 0..Len(Inbox') /\ Len(Inbox') <= s /\ ~(s <= Len(Inbox'))
      BY <1>1, <2>2
    <3> QED BY <3>1
  <2> QED BY <1>1, <2>1, <2>2
<1>3. Since(s) /\ OneAnswer(s) /\ NoAnswer(s) /\ Transfer(s)
  BY DEF Reply
<1>4. \A k \in 1..Len(Inbox') : k \in 1..Len(Inbox) /\ Inbox'[k] = Inbox[k] /\ (Turned(k) => Turned(k)')
  <2>1. \A k \in 1..Len(Inbox') : k \in 1..Len(Inbox) /\ Inbox'[k] = Inbox[k]
    BY <1>1 DEF Cut
  <2> QED BY <2>1 DEF Turned, GoesOnAs, Settled
<1>5. client.id \in ran => client.id \in ran'
  BY DEF Settled
<1>6. Since(t)'
  BY <1>1, <1>2, <1>3, <1>4 DEF Since, GoesOnAs
<1>7. \A k \in (t + 1)..Len(Inbox') : k \in 1..Len(Inbox') /\ k \in (s + 1)..Len(Inbox) /\ t = s
  BY <1>1, <1>2
<1>8. Len(Inbox) <= s + 1 => Len(Inbox') <= t + 1
  BY <1>1, <1>2
<1>9. OneAnswer(t)' /\ NoAnswer(t)'
  BY <1>3, <1>4, <1>5, <1>7, <1>8 DEF OneAnswer, NoAnswer, GoesOnAs
<1>10. Transfer(t)'
  <2> SUFFICES ASSUME client.cmd = "read" PROVE Transfer(t)'
    BY DEF Transfer, GoesOnAs
  <2>1. ASSUME client.doing = "answer", t < Len(Inbox') PROVE Inbox'[t + 1].kind = "RES" \/ (Turned(t + 1)' /\ Len(Inbox') = t + 1)
    <3>1. t = s /\ s < Len(Inbox) /\ t + 1 \in 1..Len(Inbox') /\ (Len(Inbox) = s + 1 => Len(Inbox') = t + 1)
      BY <1>1, <1>2, <2>1
    <3> QED BY <1>3, <1>4, <2>1, <3>1 DEF Transfer
  <2>2. PICK b \in Nat : b = Start(t)' /\ b >= t /\ (t = s => b = Start(s))
    <3>1. CASE client.doing = "answer"
      <4>1. t + 1 \in Nat /\ t + 1 >= t /\ Start(t)' = t + 1 /\ (t = s => Start(s) = t + 1)
        BY <1>1, <1>2, <3>1 DEF Start, GoesOnAs
      <4> QED BY <4>1
    <3>2. CASE client.doing # "answer"
      <4>1. t \in Nat /\ t >= t /\ Start(t)' = t /\ (t = s => Start(s) = t)
        BY <1>1, <1>2, <3>2 DEF Start, GoesOnAs
      <4> QED BY <4>1
    <3> QED BY <3>1, <3>2
  <2>3. ASSUME NEW k \in (b + 1)..Len(Inbox')
        PROVE  \/ Inbox'[k].kind = "DATA"
               \/ k = Len(Inbox') /\ Turned(k)'
               \/ k = Len(Inbox') /\ Inbox'[k].kind = "END" /\ client.id \in ran' /\ client.n + (k - 1 - b) = Chunks
    <3>1. k \in (t + 1)..Len(Inbox') /\ (k = Len(Inbox) => k = Len(Inbox'))
      BY <1>1, <1>2, <2>2
    <3>2. t = s /\ b = Start(s) /\ k \in (Start(s) + 1)..Len(Inbox) /\ k \in 1..Len(Inbox')
      BY <1>1, <1>7, <2>2, <3>1
    <3>3. \/ Inbox[k].kind = "DATA"
          \/ k = Len(Inbox) /\ Turned(k)
          \/ k = Len(Inbox) /\ Inbox[k].kind = "END" /\ client.id \in ran /\ client.n + (k - 1 - b) = Chunks
      BY <1>3, <3>2 DEF Transfer
    <3> QED BY <1>4, <1>5, <3>1, <3>2, <3>3
  <2>4. \A k \in (Start(t)' + 1)..Len(Inbox') :
          \/ Inbox'[k].kind = "DATA"
          \/ k = Len(Inbox') /\ Turned(k)'
          \/ k = Len(Inbox') /\ Inbox'[k].kind = "END" /\ client'.id \in ran' /\ client'.n + (k - 1 - Start(t)') = Chunks
    BY <2>2, <2>3 DEF GoesOnAs
  <2> QED BY <2>1, <2>4 DEF Transfer, GoesOnAs
<1>11. Reply(t)'
  BY <1>6, <1>9, <1>10 DEF Reply
<1> QED BY <1>2, <1>11

LEMMA KeptIsCut == Kept => Cut /\ \A s \in 0..Len(Inbox) : s \in 0..Len(Inbox')
<1> SUFFICES ASSUME Kept PROVE Len(Inbox') <= Len(Inbox) /\ Len(Inbox') = Len(Inbox)
  BY DEF Kept, Cut
<1> QED BY DEF Kept

\* The client does not hear of what happens, or there is no agent any more.
LEMMA ClosedPromise ==
  ASSUME TypeOK, TypeOK', PromiseInv, GoesOnAs, Cut, ~Live', Asking', result' = result,
         Settled, ran' \in SUBSET (1..Len(result)), refused' \in SUBSET (1..Len(result)), broken' \in BOOLEAN,
         client'.open => client.open /\ broken', ~client'.open /\ client.doing # "idle" => broken'
  PROVE  PromiseInv'
<1>0. Calling /\ Known /\ Answering
  BY DEF PromiseInv
<1>1. Calling'
  <2>1. Counting'
    BY <1>0 DEF Calling, Counting, GoesOnAs
  <2>2. Doing'
    BY <1>0 DEF Calling, Doing, GoesOnAs
  <2>3. Opened' /\ Breaks'
    BY <1>0 DEF Calling, Opened, Breaks, GoesOnAs, Settled
  <2> QED BY <2>1, <2>2, <2>3 DEF Calling
<1>2. Sending'
  BY DEF Sending
<1>3. Known'
  <2>1. Len(Inbox) \in Nat /\ Len(Inbox') \in Nat
    BY InboxIs, NextInboxIs
  <2>2. \A k \in 1..Len(Inbox') : k \in 1..Len(Inbox) /\ Inbox'[k] = Inbox[k]
    BY <2>1 DEF Cut
  <2> QED BY <1>0, <2>2 DEF Known
<1>4. Answering'
  <2> SUFFICES ASSUME client.doing # "idle" PROVE \E t \in 0..Len(Inbox') : Reply(t)' /\ Pends(t)'
    BY DEF Answering, GoesOnAs
  <2>1. PICK s \in 0..Len(Inbox) : Reply(s)
    BY <1>0 DEF Answering
  <2>3. PICK t \in 0..Len(Inbox') : Reply(t)'
    BY <2>1, ReplyCut
  <2> QED BY <2>3 DEF Pends
<1> QED BY <1>1, <1>2, <1>3, <1>4 DEF PromiseInv

LEMMA LinkPromise ==
  ASSUME TypeOK, TypeOK', PromiseInv, LinkLost \/ LearnsOfClose
  PROVE  PromiseInv' /\ (KeepsCalls!Next \/ fates' = fates)
<1>0. /\ Calling /\ Asking /\ broken \in BOOLEAN /\ Len(Inbox) \in Nat
      /\ ran \in SUBSET (1..Len(result)) /\ refused \in SUBSET (1..Len(result))
  BY InboxIs DEF PromiseInv, Calling, Counting
<1>1. CASE LinkLost
  <2>1. /\ agent' = [NewAgent EXCEPT !.open = FALSE] /\ broken' = TRUE /\ client' = client /\ toClient' = toClient
        /\ result' = result /\ ran' = ran /\ refused' = refused /\ excused' = excused
    BY <1>1 DEF LinkLost
  <2>2. agent'.open = FALSE
    BY <2>1 DEF NewAgent
  <2>3. Inbox' = Inbox
    BY <2>1, InboxSame
  <2>4. GoesOnAs /\ Cut
    BY <1>0, <2>1, <2>3 DEF GoesOnAs, Cut
  <2>5. ~Live' /\ Asking'
    BY <2>2 DEF Live, Asking
  <2>6. PromiseInv'
    BY <1>0, <2>1, <2>4, <2>5, ClosedPromise DEF Settled
  <2>7. KeepsCalls!Next
    BY <2>1 DEF KeepsCalls!Next, KeepsCalls!Break
  <2> QED BY <2>6, <2>7
<1>2. CASE LearnsOfClose
  <2>1. /\ client.open /\ ~agent.open /\ client' = [client EXCEPT !.open = FALSE]
        /\ agent' = agent /\ toAgent' = toAgent /\ fates' = fates
        /\ result' = result /\ ran' = ran /\ refused' = refused /\ broken' = broken
    BY <1>2 DEF LearnsOfClose, fates
  <2>2. /\ client'.open = FALSE /\ client'.frames = client.frames
        /\ client'.id = client.id /\ client'.doing = client.doing /\ client'.cmd = client.cmd /\ client'.n = client.n
    BY <2>1 DEF TypeOK, Clients
  <2>3. broken
    BY <1>0, <2>1 DEF Calling, Breaks
  <2>4. Cut
    BY <2>2, InboxClosed
  <2>5. Asking'
    BY <1>0, <2>1, AskingSame
  <2>6. GoesOnAs /\ ~Live'
    BY <2>2 DEF GoesOnAs, Live
  <2>7. PromiseInv'
    BY <1>0, <2>1, <2>2, <2>3, <2>4, <2>5, <2>6, ClosedPromise DEF Settled
  <2> QED BY <2>1, <2>7
<1> QED BY <1>1, <1>2

\* The client takes every frame of its agent for one of its agent.
LEMMA AlwaysVerified ==
  ASSUME SessionInv, PromiseInv, Live, toClient # <<>>
  PROVE  Verified(toClient[1])
<1>0. /\ TypeOK /\ Opening /\ Sealed /\ client.open /\ agent.open
      /\ Calling /\ Asking /\ Sending /\ Answering
  BY DEF SessionInv, PromiseInv, Live
<1>1. Len(toClient) \in Nat /\ Len(toClient) >= 1 /\ 1 \in 1..Len(toClient)
  BY <1>0, TailOf DEF TypeOK
<1>2. client.recv \in Nat /\ client.session \in {"none", "pending", "on"}
  BY <1>0 DEF TypeOK, Clients
<1>3. CASE client.session = "on"
  <2>1. toClient[1].mac = client.recv + 1 - 1
    BY <1>0, <1>1, <1>3 DEF Sealed, Numbered
  <2>2. toClient[1].mac = client.recv /\ client.recv # -1
    BY <1>2, <2>1
  <2> QED BY <1>3, <2>2 DEF Verified, Plain
<1>4. CASE client.session # "on" /\ agent.authed
  <2>1. client.session = "pending" /\ toClient[1].mac = 0 /\ client.recv = 0
    BY <1>0, <1>4 DEF Opening, JustSealed
  <2> QED BY <2>1 DEF Verified, Plain
<1>5. CASE client.session = "none" /\ ~agent.authed
  <2>1. toClient[1].mac = Plain
    BY <1>0, <1>1, <1>5 DEF Opening
  <2> QED BY <1>5, <2>1 DEF Verified
<1>6. CASE client.session = "pending" /\ ~agent.authed
  <2>1. toClient[1].mac = Plain
    BY <1>0, <1>1, <1>6 DEF Opening
  <2>2. client.doing = "answer" /\ client.cmd = "auth" /\ Len(result) = 2 /\ client.id = 2
    BY <1>0, <1>6 DEF Opening, Greeting, Hello, Auth, Calling, Counting
  <2>3. PICK k \in 1..Len(Inbox) : Inbox[k] = toClient[1]
    <3>1. /\ Len(client.frames) \in Nat /\ Len(Inbox) = Len(client.frames) + Len(toClient)
          /\ Inbox[Len(client.frames) + 1] = toClient[1]
      BY <1>0, <1>1, InboxIs
    <3>2. Len(client.frames) + 1 \in 1..Len(Inbox)
      BY <1>1, <3>1
    <3> QED BY <3>1, <3>2
  <2>4. PICK s \in 0..Len(Inbox) : Reply(s)
    BY <1>0, <2>2 DEF Answering
  <2>5. Inbox[k].id = client.id
    BY <1>0, <1>6 DEF Sending, Live, Alone
  <2>6. k > s /\ Len(Inbox) \in Nat
    BY <1>0, <2>4, <2>5, InboxIs DEF Reply, Since
  <2>7. k \in (s + 1)..Len(Inbox)
    BY <2>6
  <2>8. Turned(k) \/ client.id \in ran
    BY <2>2, <2>4, <2>7 DEF Reply, OneAnswer
  <2>9. 2 \notin ran
    BY <1>0, <1>6 DEF Asking, Greeted
  <2>10. toClient[1].kind = "ERR"
    BY <2>2, <2>3, <2>8, <2>9 DEF Turned
  <2> QED BY <1>6, <2>1, <2>10 DEF Verified
<1> QED BY <1>2, <1>3, <1>4, <1>5, <1>6

\* One that stays open, and only has more of its frames at hand.
LEMMA KeptPromise ==
  ASSUME TypeOK, TypeOK', PromiseInv, GoesOnAs, Kept, client'.open = client.open,
         client'.session # "on" => client.session # "on",
         agent' = agent, toAgent' = toAgent, fates' = fates
  PROVE  PromiseInv'
<1>0. Calling /\ Asking /\ Sending /\ Known /\ Answering
  BY DEF PromiseInv
<1>1. result' = result /\ ran' = ran /\ refused' = refused /\ broken' = broken
  BY DEF fates
<1>2. Calling'
  <2>1. Counting'
    BY <1>0, <1>1 DEF Calling, Counting, GoesOnAs
  <2>2. Doing'
    BY <1>0, <1>1 DEF Calling, Doing, GoesOnAs
  <2>3. Opened' /\ Breaks'
    BY <1>0, <1>1 DEF Calling, Opened, Breaks, GoesOnAs
  <2> QED BY <2>1, <2>2, <2>3 DEF Calling
<1>3. Asking'
  BY <1>0, <1>1, AskingSame
<1>4. Len(Inbox') = Len(Inbox) /\ \A k \in 1..Len(Inbox) : Inbox'[k] = Inbox[k]
  BY DEF Kept
<1>5. Sending'
  <2> SUFFICES ASSUME Live PROVE Uploaded' /\ Abandoned' /\ Alone'
    BY DEF Sending, Live
  <2>0. Uploaded /\ Abandoned /\ Alone
    BY <1>0 DEF Sending
  <2>1. Uploaded' /\ Abandoned'
    BY <1>1, <2>0 DEF Uploaded, Abandoned, Request, GoesOnAs
  <2>2. Alone'
    BY <1>4, <2>0 DEF Alone, GoesOnAs
  <2> QED BY <2>1, <2>2
<1>6. Known'
  BY <1>0, <1>1, <1>4 DEF Known
<1>7. Answering'
  <2> SUFFICES ASSUME client.doing # "idle" PROVE Answering'
    BY DEF Answering, GoesOnAs
  <2>1. PICK s \in 0..Len(Inbox) : Reply(s) /\ Pends(s)
    BY <1>0 DEF Answering
  <2>2. Settled /\ Cut /\ s \in 0..Len(Inbox') /\ s <= Len(Inbox')
    <3>1. Len(Inbox) \in Nat
      BY InboxIs
    <3> QED BY <1>1, <1>4, <2>1, <3>1 DEF Settled, Cut
  <2>3. Reply(s)'
    <3>1. \E t \in 0..Len(Inbox') : Reply(t)' /\ (s <= Len(Inbox') => t = s)
      BY <2>1, <2>2, ReplyCut
    <3> QED BY <2>2, <3>1
  <2>4. Pends(s)'
    <3> SUFFICES ASSUME Live PROVE AnswerPends(s)' /\ DataPends(s)' /\ CommitPends(s)' /\ BlocksPend(s)' /\ UploadIsWrite'
      BY DEF Pends, Live
    <3>0. AnswerPends(s) /\ DataPends(s) /\ CommitPends(s) /\ BlocksPend(s) /\ UploadIsWrite
      BY <2>1 DEF Pends
    <3>1. s < Len(Inbox) => s + 1 \in 1..Len(Inbox)
      BY <2>1
    <3>2. AnswerPends(s)'
      BY <1>4, <3>0, <3>1 DEF AnswerPends, GoesOnAs, Request
    <3>3. DataPends(s)' /\ CommitPends(s)'
      BY <1>4, <3>0 DEF DataPends, CommitPends, GoesOnAs, Request
    <3>4. UploadIsWrite'
      BY <3>0 DEF UploadIsWrite, GoesOnAs
    <3>5. PICK b : b = Start(s) /\ b = Start(s)' /\ b \in Nat /\ (client.doing = "answer" => b = s + 1)
      BY <2>1 DEF Start, GoesOnAs
    <3>6. BlocksPend(s)'
      <4> SUFFICES ASSUME agent.xfer = client.id
                   PROVE  /\ client.cmd = "read" /\ Len(Inbox') >= b
                          /\ client.doing = "answer" => Inbox'[s + 1].kind = "RES"
                          /\ \A k \in (b + 1)..Len(Inbox') : Inbox'[k].kind = "DATA"
                          /\ client.n + (Len(Inbox') - b) + agent.left = Chunks
        BY <3>0, <3>5 DEF BlocksPend, GoesOnAs
      <4>1. /\ client.cmd = "read" /\ Len(Inbox) >= b
            /\ client.doing = "answer" => Inbox[s + 1].kind = "RES"
            /\ \A k \in (b + 1)..Len(Inbox) : Inbox[k].kind = "DATA"
            /\ client.n + (Len(Inbox) - b) + agent.left = Chunks
        BY <3>0, <3>5 DEF BlocksPend
      <4>2. client.doing = "answer" => s + 1 \in 1..Len(Inbox)
        BY <2>1, <3>5, <4>1
      <4>3. \A k \in (b + 1)..Len(Inbox) : k \in 1..Len(Inbox)
        BY <3>5
      <4> QED BY <1>4, <4>1, <4>2, <4>3
    <3> QED BY <3>2, <3>3, <3>4, <3>6
  <2> QED BY <2>2, <2>3, <2>4 DEF Answering
<1> QED BY <1>2, <1>3, <1>5, <1>6, <1>7 DEF PromiseInv

LEMMA ReceivePromise ==
  ASSUME SessionInv, TypeOK', PromiseInv, Receive
  PROVE  PromiseInv' /\ fates' = fates
<1> DEFINE frame == Head(toClient)
           c == [client EXCEPT !.frames = Append(@, frame)]
<1>0. /\ TypeOK /\ client \in Clients /\ Calling /\ Asking /\ broken \in BOOLEAN
      /\ ran \in SUBSET (1..Len(result)) /\ refused \in SUBSET (1..Len(result))
  BY DEF SessionInv, TypeOK, PromiseInv, Calling, Counting
<1>1. /\ client.open /\ toClient # <<>> /\ toClient' = Tail(toClient)
      /\ client' = IF ~Verified(frame) THEN [client EXCEPT !.open = FALSE]
                   ELSE IF frame.mac = Plain THEN c ELSE [c EXCEPT !.recv = @ + 1, !.session = "on"]
      /\ agent' = agent /\ toAgent' = toAgent /\ fates' = fates
      /\ result' = result /\ ran' = ran /\ refused' = refused /\ broken' = broken
  BY DEF Receive, fates
<1>2. frame = toClient[1] /\ frame \in Frames /\ client.frames \in Seq(Frames) /\ Append(client.frames, frame) \in Seq(Frames)
  <2>1. toClient \in Seq(Frames) /\ client.frames \in Seq(Frames)
    BY <1>0 DEF TypeOK, Clients
  <2>2. frame = toClient[1] /\ frame \in Frames
    BY <1>1, <2>1, TailOf, HeadTailProperties
  <2> HIDE DEF frame
  <2> QED BY <2>1, <2>2, AppendProperties
<1> HIDE DEF frame
<1>3. CASE ~Verified(frame)
  <2>1. client' = [client EXCEPT !.open = FALSE]
    BY <1>1, <1>3
  <2>2. /\ client'.open = FALSE /\ client'.frames = client.frames
        /\ client'.id = client.id /\ client'.doing = client.doing /\ client'.cmd = client.cmd /\ client'.n = client.n
    BY <1>0, <2>1 DEF Clients
  <2>3. broken
    <3>1. ~Live
      BY <1>1, <1>2, <1>3, AlwaysVerified
    <3> QED BY <1>0, <1>1, <3>1 DEF Live, Calling, Breaks
  <2>4. Cut
    BY <1>0, <2>2, InboxClosed
  <2>5. Asking'
    BY <1>0, <1>1, AskingSame
  <2>6. GoesOnAs /\ ~Live'
    BY <2>2 DEF GoesOnAs, Live
  <2>7. PromiseInv'
    BY <1>0, <1>1, <2>2, <2>3, <2>4, <2>5, <2>6, ClosedPromise DEF Settled
  <2> QED BY <1>1, <2>7
<1>4. CASE Verified(frame)
  <2>1. /\ c \in Clients /\ c.open = client.open /\ c.frames = Append(client.frames, frame)
        /\ c.id = client.id /\ c.doing = client.doing /\ c.cmd = client.cmd /\ c.n = client.n /\ c.session = client.session
    BY <1>0, <1>2 DEF Clients
  <2>2. client' = IF frame.mac = Plain THEN c ELSE [c EXCEPT !.recv = @ + 1, !.session = "on"]
    BY <1>1, <1>4
  <2> HIDE DEF c
  <2>3. /\ client'.open = client.open /\ client'.frames = Append(client.frames, frame)
        /\ client'.id = client.id /\ client'.doing = client.doing /\ client'.cmd = client.cmd /\ client'.n = client.n
        /\ client'.session # "on" => client'.session = client.session
    <3>1. CASE frame.mac = Plain
      BY <2>1, <2>2, <3>1
    <3>2. CASE frame.mac # Plain
      <4>1. client' = [c EXCEPT !.recv = @ + 1, !.session = "on"]
        BY <2>2, <3>2
      <4> QED BY <2>1, <4>1 DEF Clients
    <3> QED BY <3>1, <3>2
  <2>4. Kept
    BY <1>0, <1>1, <2>3, InboxReceived DEF frame
  <2>5. GoesOnAs
    BY <2>3 DEF GoesOnAs
  <2>6. PromiseInv'
    BY <1>0, <1>1, <2>3, <2>4, <2>5, KeptPromise
  <2> QED BY <1>1, <2>6
<1> QED BY <1>3, <1>4

(***************************************************************************)
(* The agent handles a frame.                                              *)
(***************************************************************************)
\* The agent takes every frame of its client for one of its client.
LEMMA AlwaysAuthentic ==
  ASSUME SessionInv, Live, toAgent # <<>>
  PROVE  Authentic(agent, toAgent[1])
<1>0. TypeOK /\ Opening /\ Sealed /\ client.open /\ agent.open
  BY DEF SessionInv, Live
<1>1. Len(toAgent) \in Nat /\ 1 \in 1..Len(toAgent) /\ agent.recv \in Nat
  BY <1>0, TailOf DEF TypeOK, Agents
<1>2. CASE client.session = "on"
  <2>1. agent.authed /\ toAgent[1].mac = agent.recv + 1 - 1
    BY <1>0, <1>1, <1>2 DEF Sealed, Numbered
  <2>2. toAgent[1].mac = agent.recv
    BY <1>1, <2>1
  <2> QED BY <2>1, <2>2 DEF Authentic
<1>3. CASE client.session # "on"
  <2>1. ~agent.authed /\ toAgent[1].mac = Plain
    BY <1>0, <1>1, <1>3 DEF Opening, JustSealed
  <2> QED BY <2>1 DEF Authentic
<1> QED BY <1>2, <1>3

LEMMA HandleFrame ==
  ASSUME TypeOK, PromiseInv, Live, NEW f, f = toAgent[1], toAgent # <<>>
  PROVE  /\ f.kind \in {"REQ", "DATA", "END"} /\ f.id \in 1..Len(result) /\ f.id \in Nat
         /\ f.kind = "REQ" => /\ \A k \in 1..Len(toAgent) : Request(k)
                              /\ Later(f.id) /\ Named(f.id, f.of)
                              /\ agent.up = "active" => broken
                              /\ f.of \in Serves(agent)
         /\ f.kind # "REQ" => agent.up # "none" /\ agent.upId = f.id
<1>0. Asked /\ Working /\ Greeted /\ Uploaded /\ Abandoned /\ Calling /\ Answering
  BY DEF PromiseInv, Live, Asking, Sending
<1>1. /\ Len(toAgent) \in Nat /\ 1 \in 1..Len(toAgent) /\ Len(result) \in Nat
      /\ client.id = Len(result)
  BY <1>0, TailOf, LenProperties DEF TypeOK, Calling, Counting
<1>2. f.kind \in {"REQ", "DATA", "END"} /\ f.id \in 1..Len(result) /\ f.id \in Nat /\ (f.kind = "REQ" <=> Request(1))
  <2>1. f.kind \in {"REQ", "DATA", "END"} /\ f.id \in 1..Len(result) /\ (f.kind = "REQ" <=> Request(1))
    BY <1>0, <1>1 DEF Asked, Request
  <2> QED BY <2>1
<1>3. f.kind # "REQ" => agent.up # "none" /\ agent.upId = f.id
  BY <1>0, <1>1, <1>2 DEF Uploaded
<1>4. ASSUME f.kind = "REQ"
      PROVE  /\ \A k \in 1..Len(toAgent) : Request(k)
             /\ Later(f.id) /\ Named(f.id, f.of)
             /\ agent.up = "active" => broken
             /\ f.of \in Serves(agent)
  <2>1. \A k \in 1..Len(toAgent) : Request(k)
    <3> SUFFICES ASSUME NEW k \in 1..Len(toAgent), ~Request(k) PROVE FALSE
      OBVIOUS
    <3>1. \A j \in 1..(k - 1) : toAgent[j].kind = "DATA"
      BY <1>0 DEF Uploaded
    <3>2. k # 1
      BY <1>2, <1>4
    <3>3. 1 \in 1..(k - 1)
      BY <1>1, <3>2
    <3> QED BY <1>4, <3>1, <3>3
  <2>2. Later(f.id) /\ Named(f.id, f.of)
    BY <1>0, <1>1, <1>2, <1>4 DEF Asked
  <2>3. agent.up = "active" => broken
    <3> SUFFICES ASSUME agent.up = "active", ~broken PROVE FALSE
      OBVIOUS
    <3>1. \A k \in 1..Len(toAgent) : toAgent[k].kind # "END"
      BY <2>1 DEF Request
    <3>2. agent.upId = client.id
      BY <1>0, <3>1 DEF Abandoned
    <3>3. agent.upId < f.id
      BY <1>0, <1>1, <1>2, <1>4 DEF Working, Before
    <3> QED BY <1>1, <1>2, <3>2, <3>3
  <2>4. f.of \in Serves(agent)
    <3>1. CASE agent.authed
      <4>1. 2 \in Done
        BY <1>0, <3>1 DEF Greeted, Done
      <4>2. f.id > 2
        BY <1>2, <2>2, <4>1 DEF Later
      <4> QED BY <2>2, <3>1, <4>2 DEF Named, Serves
    <3>2. CASE ~agent.authed
      <4>1. 2 \notin ran /\ (1 \in ran => agent.hello)
        BY <1>0, <3>2 DEF Greeted
      <4>2. ~(Len(result) >= 3) /\ (Len(result) >= 2 => 1 \in ran)
        BY <1>0, <4>1 DEF Calling, Opened
      <4>3. f.id = 1 \/ (f.id = 2 /\ Len(result) >= 2)
        BY <1>1, <1>2, <4>2
      <4>4. CASE f.id = 1
        BY <2>2, <3>2, <4>4 DEF Named, Serves
      <4>5. CASE f.id = 2 /\ Len(result) >= 2
        BY <2>2, <3>2, <4>1, <4>2, <4>5 DEF Named, Serves
      <4> QED BY <4>3, <4>4, <4>5
    <3> QED BY <3>1, <3>2
  <2> QED BY <2>1, <2>2, <2>3, <2>4
<1> QED BY <1>2, <1>3, <1>4

\* What is on its way to the agent besides, while a call goes on.
LEMMA HandleCall ==
  ASSUME TypeOK, TypeOK', PromiseInv, Live, NEW f, f = toAgent[1], toAgent # <<>>, toAgent' = Tail(toAgent),
         client.doing # "idle", agent.xfer = 0, NEW s \in 0..Len(Inbox), Reply(s), Pends(s)
  PROVE  /\ f.id # client.id => Len(Inbox) = s /\ client.doing = "answer" /\ toAgent' # <<>>
         /\ f.id = client.id /\ f.kind = "REQ" =>
              client.doing = "answer" /\ Len(Inbox) = s /\ toAgent' = <<>> /\ f.of = client.cmd
         /\ f.id = client.id /\ f.kind # "REQ" =>
              /\ client.doing \in {"data", "commit"}
              /\ client.doing = "data" => f.kind = "DATA"
              /\ f.kind = "END" => toAgent' = <<>>
         /\ toAgent' # <<>> => toAgent'[Len(toAgent')] = toAgent[Len(toAgent)]
         /\ client.doing # "stream"
<1>0. /\ Asked /\ Working /\ Uploaded /\ Calling
      /\ AnswerPends(s) /\ DataPends(s) /\ CommitPends(s) /\ BlocksPend(s)
  BY DEF PromiseInv, Live, Asking, Sending, Pends
<1>1. /\ Len(toAgent) \in Nat /\ Len(toAgent) >= 1 /\ Len(toAgent') = Len(toAgent) - 1
      /\ \A k \in 1..Len(toAgent') : toAgent'[k] = toAgent[k + 1] /\ k + 1 \in 1..Len(toAgent)
      /\ 1 \in 1..Len(toAgent) /\ Len(toAgent) \in 1..Len(toAgent) /\ (toAgent' = <<>> <=> Len(toAgent) = 1)
  <2>1. /\ Len(toAgent) \in Nat /\ Len(toAgent) >= 1 /\ Len(toAgent') = Len(toAgent) - 1
        /\ \A k \in 1..Len(toAgent') : toAgent'[k] = toAgent[k + 1] /\ k + 1 \in 1..Len(toAgent)
        /\ 1 \in 1..Len(toAgent)
    BY TailOf DEF TypeOK
  <2>2. Len(toAgent') = 0 <=> toAgent' = <<>>
    BY EmptySeq DEF TypeOK
  <2> QED BY <2>1, <2>2
<1>2. /\ f.kind \in {"REQ", "DATA", "END"} /\ f.id \in 1..Len(result)
      /\ f.kind = "REQ" => \A k \in 1..Len(toAgent) : Request(k)
      /\ f.kind # "REQ" => agent.up # "none" /\ agent.upId = f.id
      /\ f.kind = "REQ" <=> Request(1)
  BY HandleFrame DEF Request
<1>3. client.id = Len(result) /\ Len(result) \in Nat
  BY GoesOn, <1>0
<1>4. client.doing \in {"answer", "data", "commit"}
  BY <1>0 DEF BlocksPend, TypeOK, Clients
<1>5. toAgent' # <<>> => toAgent'[Len(toAgent')] = toAgent[Len(toAgent)]
  <2> SUFFICES ASSUME toAgent' # <<>> PROVE toAgent'[Len(toAgent')] = toAgent[Len(toAgent)]
    OBVIOUS
  <2>1. Len(toAgent) # 1
    BY <1>1
  <2>2. Len(toAgent') \in 1..Len(toAgent') /\ Len(toAgent') + 1 = Len(toAgent)
    BY <1>1, <2>1
  <2> QED BY <1>1, <2>2
<1>6. client.doing = "answer" => Len(Inbox) = s /\ Request(Len(toAgent)) /\ toAgent[Len(toAgent)].id = client.id /\ toAgent[Len(toAgent)].of = client.cmd
  BY <1>0 DEF AnswerPends
<1>7. client.doing = "data" => agent.upId = client.id /\ f.kind = "DATA"
  BY <1>0, <1>1 DEF DataPends
<1>8. client.doing = "commit" => f.id = client.id /\ f.kind # "REQ"
  <2> SUFFICES ASSUME client.doing = "commit" PROVE f.id = client.id /\ f.kind # "REQ"
    OBVIOUS
  <2>1. ~Request(1) /\ ~Request(Len(toAgent)) /\ toAgent[Len(toAgent)].id = client.id
    BY <1>0, <1>1 DEF CommitPends
  <2> QED BY <1>0, <1>1, <1>2, <2>1 DEF Uploaded
<1>9. f.kind = "END" => toAgent' = <<>> \/ client.doing = "answer"
  <2> SUFFICES ASSUME f.kind = "END", client.doing # "answer", Len(toAgent) # 1 PROVE FALSE
    BY <1>1
  <2>1. client.doing = "commit"
    BY <1>4, <1>7
  <2>2. ~Request(Len(toAgent))
    BY <1>0, <1>1, <2>1 DEF CommitPends
  <2>3. 1 \in 1..(Len(toAgent) - 1)
    BY <1>1
  <2>4. toAgent[1].kind = "DATA"
    BY <1>0, <1>1, <2>2, <2>3 DEF Uploaded
  <2> QED BY <2>4
<1>10. ASSUME f.id # client.id PROVE Len(Inbox) = s /\ client.doing = "answer" /\ toAgent' # <<>>
  <2>1. client.doing = "answer"
    BY <1>2, <1>4, <1>7, <1>8, <1>10
  <2>2. toAgent[Len(toAgent)].id # toAgent[1].id
    BY <1>6, <1>10, <2>1
  <2> QED BY <1>1, <1>6, <2>1, <2>2
<1>11. ASSUME f.id = client.id, f.kind = "REQ"
       PROVE  client.doing = "answer" /\ Len(Inbox) = s /\ toAgent' = <<>> /\ f.of = client.cmd
  <2>1. client.doing = "answer"
    BY <1>4, <1>7, <1>8, <1>11
  <2>2. Len(toAgent) = 1
    <3> SUFFICES ASSUME Len(toAgent) # 1 PROVE FALSE
      OBVIOUS
    <3>1. 1 < Len(toAgent)
      BY <1>1
    <3>2. toAgent[1].id < toAgent[Len(toAgent)].id
      BY <1>0, <1>1, <1>2, <1>6, <1>11, <2>1, <3>1 DEF Asked
    <3> QED BY <1>3, <1>6, <1>11, <2>1, <3>2
  <2> QED BY <1>1, <1>6, <2>1, <2>2
<1>12. ASSUME f.id = client.id, f.kind # "REQ"
       PROVE  client.doing \in {"data", "commit"} /\ (f.kind = "END" => toAgent' = <<>>)
  <2>1. client.doing # "answer"
    <3> SUFFICES ASSUME client.doing = "answer" PROVE FALSE
      OBVIOUS
    <3>1. Before(agent.upId) /\ agent.upId = client.id
      BY <1>0, <1>2, <1>12 DEF Working
    <3>2. client.id < toAgent[Len(toAgent)].id
      BY <1>1, <1>6, <3>1 DEF Before
    <3> QED BY <1>3, <1>6, <3>2
  <2> QED BY <1>4, <1>9, <2>1
<1> QED BY <1>4, <1>5, <1>7, <1>10, <1>11, <1>12

\* The agent carries a call out, turns it down, or does neither.
Decides(id) == Goes \/ RunsCall(id) \/ Refuses(id)

LEMMA DecidesWhat ==
  ASSUME Counting, NEW id \in 1..Len(result), Decides(id)
  PROVE  /\ ran \subseteq ran' /\ refused \subseteq refused'
         /\ ran' \in SUBSET (1..Len(result)) /\ refused' \in SUBSET (1..Len(result))
BY DEF Counting, Decides, Goes, RunsCall, Refuses

LEMMA DecidesCalling ==
  ASSUME Calling, NEW id \in 1..Len(result), Decides(id), client' = client, result' = result, broken' = broken,
         agent'.open = agent.open
  PROVE  Calling'
<1>1. /\ ran \subseteq ran' /\ refused \subseteq refused'
      /\ ran' \in SUBSET (1..Len(result)) /\ refused' \in SUBSET (1..Len(result))
  BY DecidesWhat DEF Calling
<1>2. Counting'
  BY <1>1 DEF Calling, Counting
<1>3. Doing'
  BY DEF Calling, Doing
<1>4. Opened' /\ Breaks'
  BY <1>1 DEF Calling, Opened, Breaks
<1> QED BY <1>2, <1>3, <1>4 DEF Calling

\* What the agent says is added to what the client is to receive.
LEMMA InboxSays ==
  ASSUME TypeOK, TypeOK', client' = client, client.open
  PROVE  /\ toClient' = toClient => Kept
         /\ \A kind, id, of : Says(kind, id, of) => Grown(kind, id, of)
<1>1. toClient' = toClient => Kept
  BY InboxSame DEF Kept
<1>2. ASSUME NEW kind, NEW id, NEW of, Says(kind, id, of) PROVE Grown(kind, id, of)
  BY <1>2, InboxAnswered DEF Says
<1> QED BY <1>1, <1>2

LEMMA GrownIs ==
  ASSUME TypeOK, TypeOK', NEW kind, NEW id, NEW of, Grown(kind, id, of)
  PROVE  /\ Len(Inbox) \in Nat /\ Len(Inbox') = Len(Inbox) + 1 /\ Len(Inbox') \in Nat /\ Len(Inbox') \in 1..Len(Inbox')
         /\ \A k \in 1..Len(Inbox') : \/ k = Len(Inbox') /\ k = Len(Inbox) + 1
                                      \/ k \in 1..Len(Inbox) /\ Inbox'[k] = Inbox[k]
         /\ Inbox'[Len(Inbox')].kind = kind /\ Inbox'[Len(Inbox')].id = id /\ Inbox'[Len(Inbox')].of = of
<1>1. Len(Inbox) \in Nat /\ Len(Inbox') = Len(Inbox) + 1 /\ \A k \in 1..Len(Inbox) : Inbox'[k] = Inbox[k]
  BY InboxIs DEF Grown
<1>2. PICK n \in Nat : n = Len(Inbox) /\ n + 1 = Len(Inbox')
  BY <1>1
<1>3. \A k \in 1..(n + 1) : k = n + 1 \/ k \in 1..n
  OBVIOUS
<1>4. n + 1 \in Nat /\ n + 1 \in 1..(n + 1)
  OBVIOUS
<1> QED BY <1>1, <1>2, <1>3, <1>4 DEF Grown

LEMMA GrownKnown ==
  ASSUME TypeOK, TypeOK', Known, result' = result,
         Kept \/ \E kind, of : \E id \in 1..Len(result) : Grown(kind, id, of)
  PROVE  Known'
<1>1. CASE Kept
  BY <1>1 DEF Known, Kept
<1>2. ASSUME NEW kind, NEW of, NEW id \in 1..Len(result), Grown(kind, id, of) PROVE Known'
  BY <1>2, GrownIs DEF Known
<1> QED BY <1>1, <1>2

LEMMA HandleSending ==
  ASSUME TypeOK, TypeOK', PromiseInv, Live, NEW f, f = toAgent[1], toAgent # <<>>, toAgent' = Tail(toAgent),
         client' = client, broken' = broken, Does(agent, f)
  PROVE  Sending'
<1>0. Uploaded /\ Abandoned /\ Alone /\ client.open
  BY DEF PromiseInv, Sending, Live
<1>1. /\ Len(toAgent) \in Nat /\ Len(toAgent') = Len(toAgent) - 1 /\ Len(toAgent') \in Nat
      /\ \A k \in 1..Len(toAgent') : toAgent'[k] = toAgent[k + 1] /\ k + 1 \in 1..Len(toAgent) /\ (Request(k)' <=> Request(k + 1))
      /\ 1 \in 1..Len(toAgent) /\ (Request(1) <=> f.kind = "REQ")
  <2>1. /\ Len(toAgent) \in Nat /\ Len(toAgent') = Len(toAgent) - 1 /\ Len(toAgent') \in Nat
        /\ \A k \in 1..Len(toAgent') : toAgent'[k] = toAgent[k + 1] /\ k + 1 \in 1..Len(toAgent)
        /\ 1 \in 1..Len(toAgent)
    BY TailOf DEF TypeOK
  <2> QED BY <2>1 DEF Request
<1>2. /\ f.kind \in {"REQ", "DATA", "END"}
      /\ f.kind = "REQ" => (agent.up = "active" => broken) /\ f.of \in Serves(agent)
      /\ f.kind # "REQ" => agent.up # "none" /\ agent.upId = f.id
  BY HandleFrame
<1>3. ~IsStray(agent, f)
  BY <1>2 DEF IsStray, OfUpload
<1>4. Uploaded'
  <2> SUFFICES ASSUME NEW k \in 1..Len(toAgent'), ~Request(k)'
               PROVE  /\ agent'.up # "none" /\ agent'.upId = toAgent'[k].id
                      /\ \A j \in 1..(k - 1) : toAgent'[j].kind = "DATA"
    BY DEF Uploaded
  <2>1. /\ k \in Nat /\ k >= 1 /\ k + 1 \in 1..Len(toAgent) /\ toAgent'[k] = toAgent[k + 1] /\ ~Request(k + 1)
        /\ (k + 1) - 1 = k
    BY <1>1
  <2>2. agent.up # "none" /\ agent.upId = toAgent'[k].id /\ \A j \in 1..k : toAgent[j].kind = "DATA"
    BY <1>0, <2>1 DEF Uploaded
  <2>3. f.kind = "DATA"
    BY <2>1, <2>2
  <2>4. Swallows(agent, f) \/ Stores(agent, f) \/ FailsUpload(agent, f)
    BY <1>3, <2>3 DEF Does, OnUpload, OnRequest, Commits, IsBusy, TurnsDown, Answers, BeginsRead, BeginsWrite, Accepts
  <2>5. agent'.up # "none" /\ agent'.upId = agent.upId
    BY <2>3, <2>4 DEF Swallows, Stores, FailsUpload, Holds
  <2>6. \A j \in 1..(k - 1) : j \in 1..Len(toAgent') /\ j + 1 \in 1..k
    BY <1>1, <2>1
  <2>7. \A j \in 1..(k - 1) : toAgent'[j].kind = "DATA"
    BY <1>1, <2>2, <2>6
  <2> QED BY <2>2, <2>5, <2>7
<1>5. Abandoned'
  <2> SUFFICES ASSUME ~broken PROVE Abandoned'
    BY DEF Abandoned
  <2>1. \A k \in 1..Len(toAgent') : Request(k)' /\ toAgent'[k].of = "write" => toAgent'[k].id = client.id /\ client.doing = "answer"
    BY <1>0, <1>1 DEF Abandoned
  <2>2. ASSUME agent'.up = "active"
        PROVE  \/ \E k \in 1..Len(toAgent') : toAgent'[k].kind = "END"
               \/ agent'.upId = client.id /\ client.doing \in {"answer", "data"}
    <3>1. Stores(agent, f) \/ BeginsWrite(agent, f)
      BY <1>2, <1>3, <2>2
         DEF Does, OnUpload, OnRequest, Swallows, FailsUpload, Commits, IsBusy, TurnsDown, Answers, BeginsRead, Holds
    <3>2. CASE Stores(agent, f)
      <4>1. agent.up = "active" /\ agent'.upId = agent.upId /\ f.kind = "DATA"
        BY <3>2 DEF Stores, Holds
      <4>2. ASSUME NEW k \in 1..Len(toAgent), toAgent[k].kind = "END" PROVE \E j \in 1..Len(toAgent') : toAgent'[j].kind = "END"
        <5>1. k # 1
          BY <4>1, <4>2
        <5>2. k - 1 \in 1..Len(toAgent') /\ (k - 1) + 1 = k
          BY <1>1, <5>1
        <5> QED BY <1>1, <4>2, <5>2
      <4> QED BY <1>0, <4>1, <4>2 DEF Abandoned
    <3>3. CASE BeginsWrite(agent, f)
      <4>1. f.kind = "REQ" /\ f.of = "write" /\ agent'.upId = f.id
        BY <3>3 DEF BeginsWrite, Accepts, Holds
      <4>2. f.id = client.id /\ client.doing = "answer"
        BY <1>0, <1>1, <4>1 DEF Abandoned
      <4> QED BY <4>1, <4>2
    <3> QED BY <3>1, <3>2, <3>3
  <2> QED BY <2>1, <2>2 DEF Abandoned
<1>6. Alone'
  <2> SUFFICES ASSUME client.session # "on"
               PROVE  /\ \A k \in 1..Len(toAgent') : toAgent'[k].id = client.id
                      /\ \A k \in 1..Len(Inbox') : Inbox'[k].id = client.id
    BY DEF Alone
  <2>1. /\ \A k \in 1..Len(toAgent) : toAgent[k].id = client.id
        /\ \A k \in 1..Len(Inbox) : Inbox[k].id = client.id
    BY <1>0 DEF Alone
  <2>2. f.id = client.id
    BY <1>1, <2>1
  <2>3. Kept \/ \E kind, of : Grown(kind, client.id, of)
    <3>1. toClient' = toClient \/ \E kind, of : Says(kind, f.id, of)
      BY DEF Does, OnUpload, OnRequest, Swallows, Stores, FailsUpload, Commits, IsStray, IsBusy, TurnsDown, Answers, BeginsRead, BeginsWrite
    <3> QED BY <1>0, <2>2, <3>1, InboxSays
  <2>4. \A k \in 1..Len(Inbox') : Inbox'[k].id = client.id
    <3>1. CASE Kept
      BY <2>1, <3>1 DEF Kept
    <3>2. ASSUME NEW kind, NEW of, Grown(kind, client.id, of) PROVE \A k \in 1..Len(Inbox') : Inbox'[k].id = client.id
      BY <2>1, <3>2, GrownIs
    <3> QED BY <2>3, <3>1, <3>2
  <2> QED BY <1>1, <2>1, <2>4
<1> QED BY <1>4, <1>5, <1>6 DEF Sending

\* The agent says something of an earlier call, or nothing, before it answers the call that goes on.
LEMMA OthersAnswering ==
  ASSUME TypeOK, TypeOK', PromiseInv, Live, client' = client, result' = result, client.doing = "answer",
         NEW s \in 0..Len(Inbox), Reply(s), Pends(s), Len(Inbox) = s,
         Kept \/ \E kind, of : \E id \in 1..Len(result) : id # client.id /\ Grown(kind, id, of),
         toAgent' # <<>>, toAgent # <<>>, toAgent'[Len(toAgent')] = toAgent[Len(toAgent)],
         agent'.xfer # client.id,
         agent'.up # "none" /\ agent'.upId = client.id => agent.up # "none" /\ agent.upId = client.id
  PROVE  Answering'
<1>1. Len(Inbox) \in Nat /\ Len(Inbox') \in Nat
  BY InboxIs, NextInboxIs
<1>2. PICK t \in 0..Len(Inbox') : t = Len(Inbox')
  BY <1>1
<1>3. \A k \in 1..Len(Inbox') : Inbox'[k].id # client.id
  <2>1. \A k \in 1..Len(Inbox) : Inbox[k].id # client.id
    BY <1>1 DEF Reply, Since
  <2>2. CASE Kept
    BY <2>1, <2>2 DEF Kept
  <2>3. ASSUME NEW kind, NEW of, NEW id \in 1..Len(result), id # client.id, Grown(kind, id, of)
        PROVE  \A k \in 1..Len(Inbox') : Inbox'[k].id # client.id
    BY <2>1, <2>3, GrownIs
  <2> QED BY <2>2, <2>3
<1>4. \A k \in (t + 1)..Len(Inbox') : FALSE
  BY <1>1, <1>2
<1>5. Since(t)'
  BY <1>1, <1>2, <1>3 DEF Since
<1>6. OneAnswer(t)' /\ NoAnswer(t)'
  <2>1. Len(Inbox') <= t + 1
    BY <1>1, <1>2
  <2> QED BY <1>4, <2>1 DEF OneAnswer, NoAnswer
<1>7. Transfer(t)'
  <2>1. Start(t)' = t + 1
    BY DEF Start
  <2>2. ~(t < Len(Inbox')) /\ \A k \in ((t + 1) + 1)..Len(Inbox') : FALSE
    BY <1>1, <1>2
  <2> QED BY <2>1, <2>2 DEF Transfer
<1>8. Pends(t)'
  <2>0. AnswerPends(s) /\ BlocksPend(s) /\ UploadIsWrite
    BY DEF Pends
  <2>1. AnswerPends(t)'
    <3>1. Request(Len(toAgent)) /\ toAgent[Len(toAgent)].id = client.id /\ toAgent[Len(toAgent)].of = client.cmd
      BY <2>0 DEF AnswerPends
    <3>2. Request(Len(toAgent))' /\ toAgent'[Len(toAgent')].kind = "REQ"
      BY <3>1 DEF Request
    <3>3. ~(t < Len(Inbox'))
      BY <1>1, <1>2
    <3> QED BY <1>2, <3>1, <3>2, <3>3 DEF AnswerPends, Request
  <2>2. DataPends(t)' /\ CommitPends(t)'
    BY DEF DataPends, CommitPends
  <2>3. BlocksPend(t)' /\ UploadIsWrite'
    BY <2>0 DEF BlocksPend, UploadIsWrite
  <2> QED BY <2>1, <2>2, <2>3 DEF Pends
<1> QED BY <1>2, <1>5, <1>6, <1>7, <1>8 DEF Answering, Reply

\* The answer of the call that goes on is the only one.
LEMMA GrownReply ==
  ASSUME TypeOK, TypeOK', Calling, client' = client, client.doing \in {"answer", "data", "commit"},
         NEW s \in 0..Len(Inbox), Reply(s), Len(Inbox) = s,
         NEW kind, NEW of, Grown(kind, client.id, of),
         \/ kind = "ERR" /\ IF of = "BUSY" THEN broken' ELSE client.id \in refused'
         \/ kind = "RES" /\ client.doing = "commit" /\ client.id \in ran'
         \/ kind = "RES" /\ client.doing = "answer" /\ (client.cmd \in {"read", "write"} \/ client.id \in ran')
  PROVE  /\ s \in 0..Len(Inbox') /\ Reply(s)' /\ s \in Nat /\ Len(Inbox') = s + 1
         /\ Inbox'[s + 1].kind = kind
<1>1. /\ s \in Nat /\ Len(Inbox') = s + 1 /\ Len(Inbox') \in Nat /\ s \in 0..Len(Inbox')
      /\ Inbox'[s + 1].kind = kind /\ Inbox'[s + 1].id = client.id /\ Inbox'[s + 1].of = of
      /\ \A k \in 1..Len(Inbox') : k = s + 1 \/ (k \in 1..Len(Inbox) /\ Inbox'[k] = Inbox[k])
  <2>1. s \in Nat /\ Len(Inbox') = s + 1 /\ Len(Inbox') \in Nat
    BY GrownIs
  <2>2. s \in 0..Len(Inbox')
    BY <2>1
  <2> QED BY <2>1, <2>2, GrownIs
<1>2. client.doing \in {"data", "commit"} => client.cmd = "write"
  BY DEF Calling, Doing
<1>3. Since(s)'
  <2>1. \A k \in 1..Len(Inbox) : Inbox[k].id # client.id /\ k \in Nat /\ ~(k > s)
    BY <1>1 DEF Reply, Since
  <2>2. s + 1 > s
    BY <1>1
  <2> QED BY <1>1, <2>1, <2>2 DEF Since
<1>4. kind = "ERR" => Turned(s + 1)'
  BY <1>1 DEF Turned
<1>5. \A k \in (s + 1)..Len(Inbox') : k = s + 1
  BY <1>1
<1>6. OneAnswer(s)' /\ NoAnswer(s)'
  <2>1. client.doing = "commit" \/ (client.doing = "answer" /\ client.cmd # "read") =>
          \/ Turned(s + 1)'
          \/ Inbox'[s + 1].kind = "RES" /\ (client.id \in ran' \/ (client.doing = "answer" /\ client.cmd = "write"))
    BY <1>1, <1>4
  <2>2. client.doing = "data" => Turned(s + 1)'
    BY <1>4
  <2>3. Len(Inbox') <= s + 1
    BY <1>1
  <2> QED BY <1>5, <2>1, <2>2, <2>3 DEF OneAnswer, NoAnswer
<1>7. Transfer(s)'
  <2> SUFFICES ASSUME client.cmd = "read" PROVE Transfer(s)'
    BY DEF Transfer
  <2>1. client.doing = "answer" /\ Start(s)' = s + 1
    BY <1>2 DEF Start
  <2>2. \A k \in ((s + 1) + 1)..Len(Inbox') : FALSE
    BY <1>1
  <2>3. Inbox'[s + 1].kind = "RES" \/ (Turned(s + 1)' /\ Len(Inbox') = s + 1)
    BY <1>1, <1>4
  <2> QED BY <2>1, <2>2, <2>3 DEF Transfer
<1> QED BY <1>1, <1>3, <1>6, <1>7 DEF Reply

\* A frame of the upload that goes on.
LEMMA OwnUploadAnswering ==
  ASSUME TypeOK, TypeOK', PromiseInv, Live, NEW f, f = toAgent[1], toAgent # <<>>, toAgent' = Tail(toAgent),
         client' = client, result' = result, broken' = broken, agent.xfer = 0, OnUpload(agent, f),
         client.doing # "idle", NEW s \in 0..Len(Inbox), Reply(s), Pends(s), f.id = client.id
  PROVE  Answering'
<1>0. /\ Calling /\ client.open /\ DataPends(s) /\ CommitPends(s) /\ UploadIsWrite
      /\ agent.up # "none" /\ agent.upId = client.id /\ f.kind \in {"DATA", "END"}
  BY DEF PromiseInv, Live, Pends, OnUpload, Swallows, Stores, FailsUpload, Commits, OfUpload
<1>1. /\ client.doing \in {"data", "commit"}
      /\ client.doing = "data" => f.kind = "DATA"
      /\ f.kind = "END" => toAgent' = <<>>
      /\ toAgent' # <<>> => toAgent'[Len(toAgent')] = toAgent[Len(toAgent)]
  BY <1>0, HandleCall
<1>2. /\ Len(Inbox) \in Nat /\ Len(Inbox') \in Nat /\ s \in Nat /\ client.id \in Nat \ {0} /\ client.cmd = "write"
  <2>1. Len(Inbox) \in Nat /\ Len(Inbox') \in Nat
    BY InboxIs, NextInboxIs
  <2>2. client.id \in Nat \ {0}
    BY <1>0, GoesOn
  <2>3. client.cmd = "write"
    BY <1>0, <1>1 DEF Calling, Doing
  <2> QED BY <2>1, <2>2, <2>3
<1>3. agent.up = "active" => Len(Inbox) = s
  <2>1. agent.up = "active" => ~(Len(Inbox) > s)
    BY <1>0, <1>1 DEF DataPends, CommitPends
  <2> QED BY <1>2, <2>1
<1>4. /\ agent'.upId = client.id /\ agent'.xfer = 0
      /\ f.kind = "DATA" => agent'.up # "none"
      /\ f.kind = "DATA" /\ ~Stores(agent, f) => agent'.up = "discard"
  BY <1>0 DEF OnUpload, Swallows, Stores, FailsUpload, Commits, Holds, Streams
<1>5. \A k \in 1..Len(toAgent') : toAgent'[k] = toAgent[k + 1] /\ k + 1 \in 1..Len(toAgent)
  BY TailOf DEF TypeOK
<1>6. ASSUME NEW t \in Nat, Stores(agent, f) => ~(Len(Inbox') > t) PROVE Pends(t)'
  <2>1. AnswerPends(t)'
    BY <1>1 DEF AnswerPends
  <2>2. DataPends(t)'
    <3> SUFFICES ASSUME client.doing = "data" PROVE DataPends(t)'
      BY DEF DataPends
    <3>1. \A k \in 1..Len(toAgent') : toAgent'[k].kind = "DATA"
      BY <1>0, <1>5 DEF DataPends
    <3> QED BY <1>1, <1>4, <1>6, <3>1 DEF DataPends
  <2>3. CommitPends(t)'
    <3> SUFFICES ASSUME client.doing = "commit" PROVE CommitPends(t)'
      BY DEF CommitPends
    <3>1. \A k \in 1..Len(toAgent') : toAgent'[k].kind # "REQ"
      BY <1>0, <1>5 DEF CommitPends, Request
    <3>2. toAgent' # <<>> => toAgent'[Len(toAgent')].kind = "END" /\ toAgent'[Len(toAgent')].id = client.id
      BY <1>0, <1>1 DEF CommitPends
    <3>3. Len(Inbox') > t => toAgent' = <<>> \/ agent'.up = "discard"
      BY <1>0, <1>1, <1>4, <1>6
    <3> QED BY <3>1, <3>2, <3>3 DEF CommitPends, Request
  <2>4. BlocksPend(t)'
    BY <1>1, <1>2, <1>4 DEF BlocksPend
  <2>5. UploadIsWrite'
    BY <1>2 DEF UploadIsWrite
  <2> QED BY <2>1, <2>2, <2>3, <2>4, <2>5 DEF Pends
<1>7. CASE Swallows(agent, f) \/ Stores(agent, f)
  <2>1. toClient' = toClient /\ ran' = ran /\ refused' = refused
    BY <1>7 DEF Swallows, Stores, Goes
  <2>2. Kept
    BY <1>0, <2>1, InboxSays
  <2>3. s \in 0..Len(Inbox') /\ Cut
    BY <2>2, KeptIsCut
  <2>4. PICK t \in 0..Len(Inbox') : Reply(t)' /\ (s <= Len(Inbox') => t = s)
    BY <2>1, <2>3, ReplyCut DEF GoesOnAs, Settled
  <2>5. t = s
    BY <1>2, <2>3, <2>4
  <2>6. Stores(agent, f) => ~(Len(Inbox') > s)
    <3>1. Stores(agent, f) => Len(Inbox) = s
      BY <1>3 DEF Stores
    <3>2. Len(Inbox') = Len(Inbox)
      BY <2>2 DEF Kept
    <3> QED BY <1>2, <3>1, <3>2
  <2>7. Pends(s)'
    BY <1>2, <1>6, <2>6
  <2> QED BY <2>3, <2>4, <2>5, <2>7 DEF Answering
<1>8. CASE (FailsUpload(agent, f) \/ Commits(agent, f)) /\ ~Stores(agent, f)
  <2>1. Len(Inbox) = s
    BY <1>3, <1>8 DEF FailsUpload, Commits
  <2>2. \/ Grown("ERR", client.id, "IO_ERROR") /\ client.id \in refused'
        \/ Grown("RES", client.id, "OK") /\ client.id \in ran' /\ client.doing = "commit"
    <3>1. CASE FailsUpload(agent, f)
      BY <1>0, <3>1, InboxSays DEF FailsUpload, Refuses
    <3>2. CASE Commits(agent, f)
      BY <1>0, <1>1, <3>2, InboxSays DEF Commits, RunsCall
    <3> QED BY <1>8, <3>1, <3>2
  <2>3. s \in 0..Len(Inbox') /\ Reply(s)'
    <3>1. CASE Grown("ERR", client.id, "IO_ERROR") /\ client.id \in refused'
      BY <1>0, <1>1, <2>1, <3>1, GrownReply
    <3>2. CASE Grown("RES", client.id, "OK") /\ client.id \in ran' /\ client.doing = "commit"
      BY <1>0, <1>1, <2>1, <3>2, GrownReply
    <3> QED BY <2>2, <3>1, <3>2
  <2>4. Pends(s)'
    BY <1>2, <1>6, <1>8
  <2> QED BY <2>3, <2>4 DEF Answering
<1> QED BY <1>7, <1>8 DEF OnUpload

\* The request of the call that goes on.
LEMMA OwnRequestAnswering ==
  ASSUME TypeOK, TypeOK', PromiseInv, Live, NEW f, f = toAgent[1], toAgent # <<>>, toAgent' = Tail(toAgent),
         client' = client, result' = result, broken' = broken, agent.xfer = 0, f.kind = "REQ",
         IsBusy(agent, f) \/ OnRequest(agent, f),
         client.doing # "idle", NEW s \in 0..Len(Inbox), Reply(s), Pends(s), f.id = client.id
  PROVE  Answering'
<1>0. Calling /\ client.open /\ UploadIsWrite
  BY DEF PromiseInv, Live, Pends
<1>1. client.doing = "answer" /\ Len(Inbox) = s /\ toAgent' = <<>> /\ f.of = client.cmd /\ client.n = 0
  <2>1. client.doing = "answer" /\ Len(Inbox) = s /\ toAgent' = <<>> /\ f.of = client.cmd
    BY HandleCall
  <2> QED BY <1>0, <2>1 DEF Calling, Doing
<1>2. client.id \in Nat \ {0}
  BY <1>0, GoesOn
<1>3. agent.up = "active" => broken
  BY HandleFrame
<1>4. PICK kind, of :
        /\ Grown(kind, client.id, of)
        /\ \/ kind = "ERR" /\ IF of = "BUSY" THEN broken' ELSE client.id \in refused'
           \/ kind = "RES" /\ client.doing = "answer" /\ (client.cmd \in {"read", "write"} \/ client.id \in ran')
        /\ kind = "RES" /\ client.cmd = "write" => agent'.up # "none" /\ agent'.upId = client.id
        /\ agent'.xfer = client.id => client.cmd = "read" /\ kind = "RES" /\ agent'.left = Chunks
        /\ agent'.xfer \in {0, client.id}
        /\ agent'.up # "none" /\ agent'.upId = client.id => client.cmd = "write"
  <2>1. CASE IsBusy(agent, f)
    <3>1. Grown("ERR", client.id, "BUSY") /\ broken' /\ agent'.xfer = 0 /\ agent.up = "active" /\ agent'.upId = agent.upId
      BY <1>0, <1>3, <2>1, InboxSays DEF IsBusy, Holds, Streams
    <3>2. agent'.upId = client.id => client.cmd = "write"
      BY <1>0, <3>1 DEF UploadIsWrite
    <3> QED BY <1>2, <3>1, <3>2
  <2>2. CASE TurnsDown(agent, f)
    <3>1. Grown("ERR", client.id, "REFUSED") /\ client.id \in refused' /\ agent'.xfer = 0 /\ agent'.up = "none"
      BY <1>0, <2>2, InboxSays DEF TurnsDown, Holds, Streams, Refuses
    <3> QED BY <1>2, <3>1
  <2>3. CASE Answers(agent, f)
    <3>1. /\ Grown("RES", client.id, "OK") /\ client.id \in ran' /\ agent'.xfer = 0 /\ agent'.up = "none"
          /\ client.cmd # "write"
      BY <1>0, <1>1, <2>3, InboxSays DEF Answers, Holds, Streams, RunsCall
    <3> QED BY <1>1, <1>2, <3>1
  <2>4. CASE BeginsRead(agent, f)
    <3>1. /\ Grown("RES", client.id, "OK") /\ client.cmd = "read" /\ agent'.xfer = client.id /\ agent'.left = Chunks
          /\ agent'.up = "none"
      BY <1>0, <1>1, <2>4, InboxSays DEF BeginsRead, Holds, Streams
    <3> QED BY <1>1, <1>2, <3>1
  <2>5. CASE BeginsWrite(agent, f)
    <3>1. /\ Grown("RES", client.id, "OK") /\ client.cmd = "write" /\ agent'.xfer = 0
          /\ agent'.up = "active" /\ agent'.upId = client.id
      BY <1>0, <1>1, <2>5, InboxSays DEF BeginsWrite, Holds, Streams
    <3> QED BY <1>1, <1>2, <3>1
  <2> QED BY <2>1, <2>2, <2>3, <2>4, <2>5 DEF OnRequest
<1>5. /\ s \in 0..Len(Inbox') /\ Reply(s)' /\ s \in Nat /\ Len(Inbox') = s + 1
      /\ Inbox'[s + 1].kind = kind
  BY <1>0, <1>1, <1>4, GrownReply
<1>6. AnswerPends(s)'
  BY <1>1, <1>4, <1>5 DEF AnswerPends
<1>7. DataPends(s)' /\ CommitPends(s)' /\ UploadIsWrite'
  BY <1>1, <1>4 DEF DataPends, CommitPends, UploadIsWrite
<1>8. BlocksPend(s)'
  <2> SUFFICES ASSUME agent'.xfer = client.id PROVE BlocksPend(s)'
    BY <1>1, <1>4 DEF BlocksPend
  <2>1. Start(s)' = s + 1 /\ \A k \in ((s + 1) + 1)..Len(Inbox') : FALSE
    BY <1>1, <1>5 DEF Start
  <2>2. client.n + (Len(Inbox') - (s + 1)) + agent'.left = Chunks /\ Len(Inbox') >= s + 1
    <3>1. Chunks \in Nat
      BY SessionAssumption
    <3> QED BY <1>1, <1>4, <1>5, <2>1, <3>1
  <2>3. client'.n + (Len(Inbox') - Start(s)') + agent'.left = Chunks /\ Len(Inbox') >= Start(s)'
    BY <2>1, <2>2
  <2>4. \A k \in (Start(s)' + 1)..Len(Inbox') : Inbox'[k].kind = "DATA"
    BY <2>1
  <2> QED BY <1>1, <1>4, <1>5, <2>3, <2>4 DEF BlocksPend
<1>9. Pends(s)'
  BY <1>6, <1>7, <1>8 DEF Pends
<1> QED BY <1>5, <1>9 DEF Answering

LEMMA HandleAnswering ==
  ASSUME TypeOK, TypeOK', PromiseInv, Live, NEW f, f = toAgent[1], toAgent # <<>>, toAgent' = Tail(toAgent),
         client' = client, result' = result, broken' = broken, agent.xfer = 0, Does(agent, f)
  PROVE  Answering'
<1> SUFFICES ASSUME client.doing # "idle" PROVE Answering'
  BY DEF Answering
<1>1. PICK s \in 0..Len(Inbox) : Reply(s) /\ Pends(s)
  BY DEF PromiseInv, Answering
<1>2. /\ f.kind \in {"REQ", "DATA", "END"} /\ f.id \in 1..Len(result)
      /\ f.kind = "REQ" => f.of \in Serves(agent)
      /\ f.kind # "REQ" => agent.up # "none" /\ agent.upId = f.id
  BY HandleFrame
<1>3. ~IsStray(agent, f)
  BY <1>2 DEF IsStray, OfUpload
<1>4. CASE f.id # client.id
  <2>1. Calling /\ client.open
    BY DEF PromiseInv, Live
  <2>2. client.id \in Nat \ {0}
    BY <2>1, GoesOn
  <2>3. Len(Inbox) = s /\ client.doing = "answer" /\ toAgent' # <<>> /\ toAgent'[Len(toAgent')] = toAgent[Len(toAgent)]
    BY <1>1, <1>4, HandleCall
  <2>4. Kept \/ \E kind, of : Grown(kind, f.id, of)
    <3>1. toClient' = toClient \/ \E kind, of : Says(kind, f.id, of)
      BY DEF Does, OnUpload, OnRequest, Swallows, Stores, FailsUpload, Commits, IsStray, IsBusy, TurnsDown, Answers, BeginsRead, BeginsWrite
    <3> QED BY <2>1, <3>1, InboxSays
  <2>5. Kept \/ \E kind, of : \E id \in 1..Len(result) : id # client.id /\ Grown(kind, id, of)
    BY <1>2, <1>4, <2>4
  <2>6. agent'.xfer \in {0, f.id}
    BY <1>3 DEF Does, OnUpload, OnRequest, Swallows, Stores, FailsUpload, Commits, IsBusy, TurnsDown, Answers, BeginsRead, BeginsWrite, Streams
  <2>7. agent'.up # "none" /\ agent'.upId = client.id => agent.up # "none" /\ agent.upId = client.id
    BY <1>3, <1>4 DEF Does, OnUpload, OnRequest, OfUpload, Swallows, Stores, FailsUpload, Commits, IsBusy, TurnsDown, Answers, BeginsRead, BeginsWrite, Holds
  <2>8. agent'.xfer # client.id
    BY <1>4, <2>2, <2>6
  <2> QED BY <1>1, <2>3, <2>5, <2>7, <2>8, OthersAnswering
<1>5. CASE f.id = client.id /\ f.kind = "REQ"
  <2>1. IsBusy(agent, f) \/ OnRequest(agent, f)
    BY <1>3, <1>5 DEF Does, OnUpload, OfUpload, Swallows, Stores, FailsUpload, Commits
  <2> QED BY <1>1, <1>5, <2>1, OwnRequestAnswering
<1>6. CASE f.id = client.id /\ f.kind # "REQ"
  <2>1. OnUpload(agent, f)
    BY <1>3, <1>6 DEF Does, OnRequest, IsBusy, TurnsDown, Answers, BeginsRead, BeginsWrite, Accepts
  <2> QED BY <1>1, <1>6, <2>1, OwnUploadAnswering
<1> QED BY <1>4, <1>5, <1>6

LEMMA HandlePromise ==
  ASSUME SessionInv, TypeOK', PromiseInv, Handle
  PROVE  PromiseInv'
<1>0. TypeOK /\ QuietAgent /\ Calling /\ Known /\ Asking
  BY DEF SessionInv, PromiseInv
<1>1. PICK f : f = toAgent[1]
  OBVIOUS
<1>2. /\ agent.open /\ agent.xfer = 0 /\ toAgent # <<>> /\ toAgent' = Tail(toAgent) /\ f \in Frames
      /\ (Shuts /\ ~Authentic(agent, f)) \/ Does(agent, f)
      /\ client' = client /\ result' = result /\ broken' = broken
  BY <1>0, <1>1, HandleDoes DEF Handle
<1>3. Asking'
  BY <1>0, HandleAsking
<1>4. f.id \in 1..Len(result)
  <2>1. 1 \in 1..Len(toAgent)
    BY <1>0, <1>2, TailOf DEF TypeOK
  <2> QED BY <1>0, <1>1, <1>2, <2>1 DEF Asking, Asked
<1>5. Decides(f.id)
  BY <1>2 DEF Decides, Shuts, Does, OnUpload, OnRequest, Swallows, Stores, FailsUpload, Commits, IsStray, IsBusy, TurnsDown, Answers,
              BeginsRead, BeginsWrite
<1>6. CASE ~client.open
  <2>1. /\ ran \subseteq ran' /\ refused \subseteq refused'
        /\ ran' \in SUBSET (1..Len(result)) /\ refused' \in SUBSET (1..Len(result))
    BY <1>0, <1>4, <1>5, DecidesWhat DEF Calling
  <2>2. Cut
    BY <1>0, <1>2, <1>6, InboxClosed
  <2>3. broken \in BOOLEAN /\ (client.doing # "idle" => broken)
    BY <1>0, <1>6 DEF Calling, Counting, Breaks
  <2> QED BY <1>0, <1>2, <1>3, <1>6, <2>1, <2>2, <2>3, ClosedPromise DEF Live, GoesOnAs, Settled
<1>7. CASE client.open
  <2>1. Live
    BY <1>2, <1>7 DEF Live
  <2>2. Does(agent, f)
    BY <1>1, <1>2, <2>1, AlwaysAuthentic
  <2>3. Calling'
    <3>1. agent'.open = agent.open
      BY <2>2 DEF Does, OnUpload, OnRequest, Swallows, Stores, FailsUpload, Commits, IsStray, IsBusy, TurnsDown, Answers, BeginsRead, BeginsWrite, Stays
    <3> QED BY <1>0, <1>2, <1>4, <1>5, <3>1, DecidesCalling
  <2>4. Known'
    <3>1. toClient' = toClient \/ \E kind, of : Says(kind, f.id, of)
      BY <2>2 DEF Does, OnUpload, OnRequest, Swallows, Stores, FailsUpload, Commits, IsStray, IsBusy, TurnsDown, Answers, BeginsRead, BeginsWrite
    <3>2. Kept \/ \E kind, of : \E id \in 1..Len(result) : Grown(kind, id, of)
      BY <1>0, <1>2, <1>4, <1>7, <3>1, InboxSays
    <3> QED BY <1>0, <1>2, <3>2, GrownKnown
  <2>5. Sending'
    BY <1>0, <1>1, <1>2, <2>1, <2>2, HandleSending
  <2>6. Answering'
    BY <1>0, <1>1, <1>2, <2>1, <2>2, HandleAnswering
  <2> QED BY <1>3, <2>3, <2>4, <2>5, <2>6 DEF PromiseInv
<1> QED BY <1>6, <1>7

(***************************************************************************)
(* The agent sends the next frame of a transfer, and its owner gives an    *)
(* upload up.                                                              *)
(***************************************************************************)
LEMMA BlocksAnswering ==
  ASSUME TypeOK, TypeOK', PromiseInv, Live, client' = client, toAgent' = toAgent, agent.xfer = client.id,
         SendsBlock \/ BreaksOff \/ Finishes, client.doing # "idle", NEW s \in 0..Len(Inbox), Reply(s), Pends(s)
  PROVE  Answering'
<1>0. Calling /\ client.open /\ AnswerPends(s) /\ BlocksPend(s) /\ UploadIsWrite
  BY DEF PromiseInv, Live, Pends
<1>1. client.id \in Nat \ {0}
  BY <1>0, GoesOn
<1>2. PICK b \in Nat : b = Start(s) /\ b >= s /\ (client.doing = "answer" => b = s + 1)
  <2>1. s \in Nat /\ s + 1 \in Nat /\ s >= s /\ s + 1 >= s
    BY InboxIs
  <2> QED BY <2>1 DEF Start
<1>3. /\ client.cmd = "read" /\ Len(Inbox) >= b /\ Len(Inbox) \in Nat
      /\ client.doing = "answer" => Inbox[s + 1].kind = "RES"
      /\ \A k \in (b + 1)..Len(Inbox) : Inbox[k].kind = "DATA"
      /\ client.n + (Len(Inbox) - b) + agent.left = Chunks
  BY <1>0, <1>2, InboxIs DEF BlocksPend
<1>4. client.doing \in {"answer", "stream"} /\ toAgent = <<>>
  <2>1. client.doing \in {"answer", "stream"}
    BY <1>0, <1>3 DEF Calling, Doing, TypeOK, Clients
  <2> QED BY <1>0, <2>1 DEF AnswerPends, BlocksPend
<1>5. PICK kind, of :
        /\ Grown(kind, client.id, of)
        /\ \/ kind = "DATA"
           \/ kind = "ERR" /\ of = "IO_ERROR" /\ client.id \in refused'
           \/ kind = "END" /\ client.id \in ran' /\ agent.left = 0
        /\ agent'.xfer = 0 \/ (agent'.xfer = client.id /\ agent'.left = agent.left - 1 /\ kind = "DATA")
        /\ agent'.up = agent.up /\ agent'.upId = agent.upId
  <2>1. CASE SendsBlock
    BY <1>0, <2>1, InboxSays DEF SendsBlock, Holds, Streams
  <2>2. CASE BreaksOff
    BY <1>0, <2>2, InboxSays DEF BreaksOff, Holds, Streams, Refuses
  <2>3. CASE Finishes
    BY <1>0, <2>3, InboxSays DEF Finishes, Holds, Streams, RunsCall
  <2> QED BY <2>1, <2>2, <2>3
<1>6. PICK n \in Nat : n = Len(Inbox) /\ Len(Inbox') = n + 1
  BY <1>3, <1>5, GrownIs
<1>7. /\ \A k \in 1..(n + 1) : k = n + 1 \/ (k \in 1..n /\ Inbox'[k] = Inbox[k])
      /\ Inbox'[n + 1].kind = kind /\ Inbox'[n + 1].id = client.id /\ Inbox'[n + 1].of = of
  BY <1>5, <1>6, GrownIs
<1>8. s \in Nat /\ n >= b /\ n + 1 > s /\ s \in 0..Len(Inbox')
  BY <1>2, <1>3, <1>6
<1>9. Since(s)'
  BY <1>6, <1>7, <1>8 DEF Reply, Since
<1>10. OneAnswer(s)' /\ NoAnswer(s)'
  BY <1>3, <1>4 DEF OneAnswer, NoAnswer
<1>11. client.doing = "answer" => Inbox'[s + 1].kind = "RES"
  <2> SUFFICES ASSUME client.doing = "answer" PROVE Inbox'[s + 1].kind = "RES"
    OBVIOUS
  <2>1. s + 1 \in 1..(n + 1) /\ s + 1 # n + 1
    BY <1>2, <1>8
  <2> QED BY <1>3, <1>7, <2>1
<1>12. Start(s)' = b
  BY <1>2 DEF Start
<1>13. client.n \in Nat /\ agent.left \in Int
  BY DEF TypeOK, Clients, Agents
<1>14. ASSUME NEW k \in (b + 1)..Len(Inbox')
       PROVE  \/ Inbox'[k].kind = "DATA"
              \/ k = Len(Inbox') /\ Turned(k)'
              \/ k = Len(Inbox') /\ Inbox'[k].kind = "END" /\ client.id \in ran' /\ client.n + (k - 1 - b) = Chunks
  <2>1. CASE k # n + 1
    <3>1. k \in 1..(n + 1) /\ k \in (b + 1)..Len(Inbox)
      BY <1>6, <2>1
    <3> QED BY <1>3, <1>7, <2>1, <3>1
  <2>2. CASE k = n + 1
    <3>1. k - 1 = n /\ k = Len(Inbox')
      BY <1>6, <2>2
    <3>2. kind = "END" => client.n + (n - b) = Chunks
      BY <1>3, <1>5, <1>6, <1>13
    <3> QED BY <1>5, <1>7, <2>2, <3>1, <3>2 DEF Turned
  <2> QED BY <2>1, <2>2
<1>15. Transfer(s)'
  <2>1. \A k \in (Start(s)' + 1)..Len(Inbox') :
          \/ Inbox'[k].kind = "DATA"
          \/ k = Len(Inbox') /\ Turned(k)'
          \/ k = Len(Inbox') /\ Inbox'[k].kind = "END" /\ client'.id \in ran' /\ client'.n + (k - 1 - Start(s)') = Chunks
    BY <1>12, <1>14
  <2> QED BY <1>11, <2>1 DEF Transfer
<1>16. AnswerPends(s)' /\ DataPends(s)' /\ CommitPends(s)' /\ UploadIsWrite'
  BY <1>0, <1>3, <1>4, <1>5 DEF AnswerPends, DataPends, CommitPends, UploadIsWrite
<1>17. BlocksPend(s)'
  <2>1. agent'.xfer \in {0, client.id}
    BY <1>5
  <2> SUFFICES ASSUME agent'.xfer = client.id PROVE BlocksPend(s)'
    BY <1>4, <2>1 DEF BlocksPend
  <2>2. kind = "DATA" /\ agent'.left = agent.left - 1
    BY <1>1, <1>5
  <2>3. client.n + ((n + 1) - b) + (agent.left - 1) = Chunks /\ n + 1 >= b
    BY <1>3, <1>6, <1>8, <1>13
  <2>4. ASSUME NEW k \in (b + 1)..Len(Inbox') PROVE Inbox'[k].kind = "DATA"
    <3>1. CASE k = n + 1
      BY <1>7, <2>2, <3>1
    <3>2. CASE k # n + 1
      <4>1. k \in 1..(n + 1) /\ k \in (b + 1)..Len(Inbox)
        BY <1>6, <3>2
      <4> QED BY <1>3, <1>7, <3>2, <4>1
    <3> QED BY <3>1, <3>2
  <2>5. \A k \in (Start(s)' + 1)..Len(Inbox') : Inbox'[k].kind = "DATA"
    BY <1>12, <2>4
  <2>6. client'.n + (Len(Inbox') - Start(s)') + agent'.left = Chunks /\ Len(Inbox') >= Start(s)'
    BY <1>6, <1>12, <2>2, <2>3
  <2> QED BY <1>3, <1>4, <1>11, <2>5, <2>6 DEF BlocksPend
<1> QED BY <1>8, <1>9, <1>10, <1>15, <1>16, <1>17 DEF Answering, Reply, Pends

LEMMA NextFramePromise ==
  ASSUME SessionInv, TypeOK', PromiseInv, NextFrame
  PROVE  PromiseInv'
<1>0. TypeOK /\ QuietAgent /\ Calling /\ Known /\ Asking /\ Sending
  BY DEF SessionInv, PromiseInv
<1>1. /\ agent.open /\ agent.xfer # 0 /\ agent.xfer \in Nat /\ (SendsBlock \/ BreaksOff \/ Finishes)
      /\ client' = client /\ toAgent' = toAgent /\ result' = result /\ broken' = broken
  BY <1>0, NextFrameDoes DEF NextFrame
<1>2. Asking'
  BY <1>0, NextFrameAsking
<1>3. PICK id \in 1..Len(result) : id = agent.xfer
  BY <1>0, <1>1 DEF Asking, Working, Before
<1>4. Decides(id)
  BY <1>1, <1>3 DEF Decides, SendsBlock, BreaksOff, Finishes
<1>5. CASE ~client.open
  <2>1. /\ ran \subseteq ran' /\ refused \subseteq refused'
        /\ ran' \in SUBSET (1..Len(result)) /\ refused' \in SUBSET (1..Len(result))
    BY <1>0, <1>4, DecidesWhat DEF Calling
  <2>2. Cut
    BY <1>0, <1>1, <1>5, InboxClosed
  <2>3. broken \in BOOLEAN /\ (client.doing # "idle" => broken)
    BY <1>0, <1>5 DEF Calling, Counting, Breaks
  <2> QED BY <1>0, <1>1, <1>2, <1>5, <2>1, <2>2, <2>3, ClosedPromise DEF Live, GoesOnAs, Settled
<1>6. CASE client.open
  <2>0. Live /\ Uploaded /\ Abandoned
    BY <1>0, <1>1, <1>6 DEF Live, Sending
  <2>1. /\ agent'.open = agent.open /\ agent'.up = agent.up /\ agent'.upId = agent.upId
        /\ agent'.xfer \in {0, id}
    BY <1>1, <1>3 DEF SendsBlock, BreaksOff, Finishes, Stays, Holds, Streams
  <2>2. \E kind, of : Grown(kind, id, of)
    BY <1>0, <1>1, <1>3, <1>6, InboxSays DEF SendsBlock, BreaksOff, Finishes
  <2>3. Calling'
    BY <1>0, <1>1, <1>4, <2>1, DecidesCalling
  <2>4. Known'
    BY <1>0, <1>1, <2>2, GrownKnown
  <2>5. Sending'
    <3>1. client.session = "on"
      BY <1>0, <1>1, <1>6 DEF SessionInv, Opening, QuietAgent, JustSealed
    <3> QED BY <1>1, <2>0, <2>1, <3>1 DEF Sending, Uploaded, Abandoned, Alone, Request
  <2>6. Answering'
    <3> SUFFICES ASSUME client.doing # "idle" PROVE Answering'
      BY <1>1 DEF Answering
    <3>1. PICK s \in 0..Len(Inbox) : Reply(s) /\ Pends(s)
      BY DEF PromiseInv, Answering
    <3>2. CASE id = client.id
      BY <1>0, <1>1, <1>3, <2>0, <3>1, <3>2, BlocksAnswering
    <3>3. CASE id # client.id
      <4>1. client.doing = "answer" /\ toAgent # <<>>
        BY <1>1, <1>3, <2>0, <3>1, <3>3 DEF Pends, BlocksPend
      <4>2. Len(Inbox) = s
        BY <2>0, <3>1, <4>1 DEF Pends, AnswerPends
      <4>3. client.id # 0
        BY <1>0, <4>1, GoesOn
      <4>4. agent'.xfer # client.id
        BY <2>1, <3>3, <4>3
      <4>5. Kept \/ \E kind, of : \E i \in 1..Len(result) : i # client.id /\ Grown(kind, i, of)
        BY <2>2, <3>3
      <4> QED BY <1>0, <1>1, <2>0, <2>1, <3>1, <4>1, <4>2, <4>4, <4>5, OthersAnswering
    <3> QED BY <3>2, <3>3
  <2> QED BY <1>2, <2>3, <2>4, <2>5, <2>6 DEF PromiseInv
<1> QED BY <1>5, <1>6

LEMMA SetModePromise ==
  ASSUME SessionInv, TypeOK', PromiseInv, SetMode
  PROVE  PromiseInv' /\ fates' = fates
<1>0. TypeOK /\ QuietAgent /\ Calling /\ Known /\ Asking /\ Sending /\ Answering
  BY DEF SessionInv, PromiseInv
<1>1. /\ client' = client /\ toAgent' = toAgent /\ toClient' = toClient /\ fates' = fates
      /\ result' = result /\ ran' = ran /\ refused' = refused /\ broken' = broken
  BY DEF SetMode, fates
<1>2. /\ agent'.open = agent.open /\ agent'.up = "discard" /\ agent'.upId = agent.upId /\ agent'.xfer = agent.xfer
      /\ agent'.left = agent.left /\ agent.up = "active"
  BY <1>0 DEF SetMode, TypeOK, Agents
<1>3. Asking'
  BY <1>0, NextFrameAsking
<1>4. Inbox' = Inbox
  BY <1>1, InboxSame
<1>5. Calling' /\ Known'
  BY <1>0, <1>1, <1>2, <1>4 DEF Calling, Counting, Doing, Opened, Breaks, Known
<1>6. Sending'
  BY <1>0, <1>1, <1>2, <1>4 DEF Sending, Live, Uploaded, Abandoned, Alone, Request
<1>7. Answering'
  <2> SUFFICES ASSUME client.doing # "idle" PROVE Answering'
    BY <1>1 DEF Answering
  <2>1. PICK s \in 0..Len(Inbox) : Reply(s) /\ Pends(s)
    BY <1>0 DEF Answering
  <2>2. Reply(s)'
    <3>1. Start(s)' = Start(s) /\ \A k : Turned(k)' <=> Turned(k)
      BY <1>1, <1>4 DEF Start, Turned
    <3>2. Since(s)' /\ OneAnswer(s)' /\ NoAnswer(s)'
      BY <1>1, <1>4, <2>1, <3>1 DEF Reply, Since, OneAnswer, NoAnswer
    <3>3. Transfer(s)'
      BY <1>1, <1>4, <2>1, <3>1 DEF Reply, Transfer
    <3> QED BY <3>2, <3>3 DEF Reply
  <2>3. Pends(s)'
    <3> SUFFICES ASSUME Live PROVE AnswerPends(s)' /\ DataPends(s)' /\ CommitPends(s)' /\ BlocksPend(s)' /\ UploadIsWrite'
      BY <1>1, <1>2 DEF Pends, Live
    <3>0. AnswerPends(s) /\ DataPends(s) /\ CommitPends(s) /\ BlocksPend(s) /\ UploadIsWrite
      BY <2>1 DEF Pends
    <3>1. AnswerPends(s)'
      BY <1>1, <1>2, <1>4, <3>0 DEF AnswerPends, Request
    <3>2. DataPends(s)' /\ CommitPends(s)' /\ UploadIsWrite'
      BY <1>1, <1>2, <1>4, <3>0 DEF DataPends, CommitPends, UploadIsWrite, Request
    <3>3. Start(s)' = Start(s)
      BY <1>1 DEF Start
    <3>4. BlocksPend(s)'
      BY <1>1, <1>2, <1>4, <3>0, <3>3 DEF BlocksPend
    <3> QED BY <3>1, <3>2, <3>4
  <2> QED BY <1>4, <2>2, <2>3 DEF Answering
<1> QED BY <1>1, <1>3, <1>5, <1>6, <1>7 DEF PromiseInv

(***************************************************************************)
(* Every step is one that the library promises, or none of its calls'.     *)
(***************************************************************************)
LEMMA DecidesAs ==
  ASSUME TypeOK, Calling, result' = result, excused' = excused, broken' = broken,
         NEW id \in 1..Len(result), Goes \/ (Later(id) /\ (RunsCall(id) \/ Refuses(id)))
  PROVE  KeepsCalls!Next \/ fates' = fates
<1>1. CASE Goes
  BY <1>1 DEF Goes, fates
<1>2. CASE Later(id) /\ (RunsCall(id) \/ Refuses(id))
  <2>1. Len(result) \in Nat /\ Len(result) <= MaxCalls /\ MaxCalls \in Nat
    BY LenProperties, SessionAssumption DEF TypeOK, Calling, Counting
  <2>2. id \in Nat /\ id \in 1..MaxCalls
    BY <2>1
  <2>3. \A j \in ran \cup refused : j < id
    BY <1>2 DEF Later, Done
  <2>4. id \notin ran \cup refused
    BY <2>2, <2>3
  <2>5. KeepsCalls!InOrder(id) /\ id \in KeepsCalls!Open
    BY <2>3, <2>4 DEF KeepsCalls!InOrder, KeepsCalls!Open, KeepsCalls!Last
  <2>6. KeepsCalls!Run(id) \/ KeepsCalls!Refuse(id)
    BY <1>2, <2>5 DEF KeepsCalls!Run, KeepsCalls!Refuse, RunsCall, Refuses
  <2> QED BY <2>2, <2>6 DEF KeepsCalls!Next
<1> QED BY <1>1, <1>2

LEMMA HandleAs ==
  ASSUME TypeOK, PromiseInv, Handle
  PROVE  KeepsCalls!Next \/ fates' = fates
<1>1. PICK f : f = toAgent[1]
  OBVIOUS
<1>2. /\ agent.open /\ agent.xfer = 0 /\ toAgent # <<>> /\ (Shuts \/ Does(agent, f))
      /\ result' = result /\ broken' = broken /\ excused' = excused
  BY <1>1, HandleDoes DEF Handle
<1>3. Calling /\ Asked /\ Working
  BY <1>2 DEF PromiseInv, Asking
<1>4. 1 \in 1..Len(toAgent) /\ f.id \in 1..Len(result) /\ (f.kind = "REQ" => Later(f.id))
  <2>1. 1 \in 1..Len(toAgent)
    BY <1>2, TailOf DEF TypeOK
  <2> QED BY <1>1, <1>3, <2>1 DEF Asked, Request
<1>5. Goes \/ (Later(f.id) /\ (RunsCall(f.id) \/ Refuses(f.id)))
  <2>1. CASE Shuts
    BY <2>1 DEF Shuts
  <2>2. CASE OnUpload(agent, f)
    BY <1>3, <2>2 DEF OnUpload, Swallows, Stores, FailsUpload, Commits, OfUpload, Working
  <2>3. CASE IsStray(agent, f) \/ IsBusy(agent, f)
    BY <2>3 DEF IsStray, IsBusy
  <2>4. CASE OnRequest(agent, f)
    BY <1>4, <2>4 DEF OnRequest, TurnsDown, Answers, BeginsRead, BeginsWrite, Accepts
  <2> QED BY <1>2, <2>1, <2>2, <2>3, <2>4 DEF Does
<1> QED BY <1>2, <1>3, <1>4, <1>5, DecidesAs

LEMMA NextFrameAs ==
  ASSUME TypeOK, PromiseInv, NextFrame
  PROVE  KeepsCalls!Next \/ fates' = fates
<1>1. /\ agent.open /\ agent.xfer # 0 /\ (SendsBlock \/ BreaksOff \/ Finishes)
      /\ result' = result /\ broken' = broken /\ excused' = excused
  BY NextFrameDoes DEF NextFrame
<1>2. Calling /\ agent.xfer \in 1..Len(result) /\ Later(agent.xfer)
  BY <1>1 DEF PromiseInv, Asking, Working, Before
<1>3. Goes \/ RunsCall(agent.xfer) \/ Refuses(agent.xfer)
  BY <1>1 DEF SendsBlock, BreaksOff, Finishes
<1> QED BY <1>1, <1>2, <1>3, DecidesAs

LEMMA CallAs ==
  ASSUME TypeOK, PromiseInv, NEW cmd, Makes(cmd)
  PROVE  KeepsCalls!Next
<1>1. ~(Len(result) > 0 /\ result[Len(result)] = "none")
  BY DEF Makes, PromiseInv, Calling, Doing
<1> QED BY <1>1 DEF Makes, KeepsCalls!Next, KeepsCalls!Make, KeepsCalls!Pending, KeepsCalls!Last

(***************************************************************************)
(* The inductive invariant, and the refinement.                            *)
(***************************************************************************)
Promised == SessionInv /\ PromiseInv

LEMMA PromiseStarts == Init => Promised /\ KeepsCalls!Init
<1> SUFFICES ASSUME Init PROVE Promised /\ KeepsCalls!Init
  OBVIOUS
<1>1. SessionInv
  BY SessionStarts
<1>2. /\ client.open /\ client.doing = "idle" /\ client.id = 0 /\ client.frames = <<>> /\ client.session = "none"
      /\ agent.open /\ agent.hello = FALSE /\ agent.authed = FALSE /\ agent.up = "none" /\ agent.xfer = 0
      /\ toAgent = <<>> /\ toClient = <<>> /\ result = <<>>
      /\ ran = {} /\ refused = {} /\ excused = {} /\ broken = FALSE
  BY DEF Init, NewClient, NewAgent
<1>3. Len(result) = 0 /\ Len(toAgent) = 0
  BY <1>2, EmptySeq
<1>4. MaxCalls \in Nat
  BY SessionAssumption
<1>5. Calling
  <2>1. Counting
    <3>1. client.id = Len(result) /\ Len(result) <= MaxCalls
      BY <1>2, <1>3, <1>4
    <3>2. ran \in SUBSET (1..Len(result)) /\ refused \in SUBSET (1..Len(result))
      BY <1>2
    <3>3. broken \in BOOLEAN
      BY <1>2
    <3> QED BY <3>1, <3>2, <3>3 DEF Counting
  <2>2. Doing
    BY <1>2, <1>3 DEF Doing
  <2>3. Opened /\ Breaks
    BY <1>2, <1>3 DEF Opened, Breaks
  <2> QED BY <2>1, <2>2, <2>3 DEF Calling
<1>6. Asking
  BY <1>2, <1>3 DEF Asking, Asked, Working, Greeted
<1>7. Inbox = <<>>
  BY <1>1, <1>2, InboxIs, EmptySeq DEF SessionInv
<1>8. Len(Inbox) = 0
  BY <1>7, EmptySeq
<1>9. Sending /\ Known
  BY <1>2, <1>3, <1>8 DEF Sending, Uploaded, Abandoned, Alone, Known
<1>10. Answering
  BY <1>2 DEF Answering
<1> QED BY <1>1, <1>2, <1>5, <1>6, <1>9, <1>10 DEF Promised, PromiseInv, KeepsCalls!Init

LEMMA PromiseSame == ASSUME PromiseInv, UNCHANGED vars PROVE PromiseInv'
<1>1. /\ client' = client /\ agent' = agent /\ toAgent' = toAgent /\ toClient' = toClient /\ result' = result
      /\ ran' = ran /\ refused' = refused /\ broken' = broken
  BY DEF vars, fates
<1>2. Inbox' = Inbox
  BY <1>1 DEF Inbox
<1>3. Calling' /\ Asking' /\ Sending' /\ Known'
  BY <1>1, <1>2
     DEF PromiseInv, Calling, Counting, Doing, Opened, Breaks, Asking, Asked, Working, Greeted, Before, Later, Done, Request,
         Sending, Live, Uploaded, Abandoned, Alone, Known
<1>4. Answering'
  <2>1. \A s : Start(s)' = Start(s) /\ (Turned(s)' <=> Turned(s))
    BY <1>1, <1>2 DEF Start, Turned
  <2>2. \A s : Reply(s) => Reply(s)'
    BY <1>1, <1>2, <2>1 DEF Reply, Since, OneAnswer, NoAnswer, Transfer
  <2>3. \A s : Pends(s) => Pends(s)'
    BY <1>1, <1>2, <2>1 DEF Pends, Live, AnswerPends, DataPends, CommitPends, BlocksPend, UploadIsWrite, Request
  <2> QED BY <1>1, <1>2, <2>2, <2>3 DEF PromiseInv, Answering
<1> QED BY <1>3, <1>4 DEF PromiseInv

LEMMA PromiseStep == Promised /\ [Next]_vars => Promised' /\ [KeepsCalls!Next]_(KeepsCalls!vars)
<1> SUFFICES ASSUME Promised, [Next]_vars PROVE Promised' /\ (KeepsCalls!Next \/ fates' = fates)
  BY DEF KeepsCalls!vars, fates
<1>0. SessionInv /\ PromiseInv /\ SessionInv' /\ TypeOK /\ TypeOK'
  BY SessionStep DEF Promised, SessionInv
<1> SUFFICES PromiseInv' /\ (KeepsCalls!Next \/ fates' = fates)
  BY <1>0 DEF Promised
<1>1. ASSUME NEW cmd \in Commands, Call(cmd) PROVE PromiseInv' /\ KeepsCalls!Next
  <2>1. Makes(cmd) /\ Len(result) \in Nat
    BY <1>0, <1>1, CallDoes
  <2> QED BY <1>0, <2>1, CallPromise, CallAs
<1>2. CASE SendBlock
  <2>1. \/ Uploads("DATA", "data", client.n + 1)
        \/ Uploads("END", "commit", client.n)
    BY <1>0, <1>2, SendBlockDoes
  <2>2. PromiseInv'
    BY <1>0, <2>1, UploadsPromise
  <2> QED BY <1>2, <2>2 DEF SendBlock
<1>3. CASE Rejected
  <2>1. /\ ~client.open /\ client.doing # "idle" /\ Ends(client, "failed")
        /\ agent' = agent /\ toAgent' = toAgent /\ toClient' = toClient
        /\ ran' = ran /\ refused' = refused /\ excused' = excused /\ broken' = broken
    BY <1>3 DEF Rejected, Waits
  <2> QED BY <1>0, <2>1, RejectedPromise
<1>4. CASE StopSending \/ TimesOut \/ SourceFails \/ ReceiverFails
  BY <1>0, <1>4, StopSendingPromise, TimesOutPromise, SourceFailsPromise
<1>5. CASE Receive
  BY <1>0, <1>5, ReceivePromise
<1>6. CASE Take
  BY <1>0, <1>6, TakePromise
<1>7. CASE Handle
  BY <1>0, <1>7, HandlePromise, HandleAs
<1>8. CASE NextFrame
  BY <1>0, <1>8, NextFramePromise, NextFrameAs
<1>9. CASE SetMode
  BY <1>0, <1>9, SetModePromise
<1>10. CASE LinkLost \/ LearnsOfClose
  BY <1>0, <1>10, LinkPromise
<1>11. CASE UNCHANGED vars
  BY <1>0, <1>11, PromiseSame DEF vars
<1> QED BY <1>1, <1>2, <1>3, <1>4, <1>5, <1>6, <1>7, <1>8, <1>9, <1>10, <1>11 DEF Next, Library, Commands

(***************************************************************************)
(* Whatever becomes of the frames, of the transfers and of the link, every *)
(* step of a connection is one that Calls allows: calls are carried out in *)
(* their order and at most once, one returns only what the agent answered  *)
(* to that very call, and fails only for a reason of its own or once the   *)
(* connection is broken (client.ts, ndp_agent.c).  That every call ends is *)
(* the rest of KeepsPromise.                                               *)
(***************************************************************************)
THEOREM SessionKeepsCalls == Spec => KeepsCalls!Init /\ [][KeepsCalls!Next]_(KeepsCalls!vars)
BY PromiseStarts, PromiseStep, PTL DEF Spec
=============================================================================
