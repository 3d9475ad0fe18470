------------------------------- MODULE Session -------------------------------
(***************************************************************************)
(* One connection of the bridge library to an agent: the calls of          *)
(* client.ts, which are made one after the other, the agent's dispatch     *)
(* (ndp_agent.c), its uploads and its streams, and the two counters of     *)
(* sealed frames on each side.  Frames arrive in order or not at all; an   *)
(* answer may be late, and the call is then over.                          *)
(*                                                                         *)
(* A frame is its kind, the request it belongs to, the command or status   *)
(* it names, and the counter it was sealed with.  Requests are numbered    *)
(* from 1 like the calls.                                                  *)
(***************************************************************************)
EXTENDS Integers, Sequences, SequencesExt

CONSTANTS
  Chunks,       \* DATA frames of a transfer
  MaxCalls      \* bound: calls made

ASSUME SessionAssumption == Chunks \in Nat /\ MaxCalls \in Nat

VARIABLES
  client,     \* the library: the call it makes, its session, the frames it was given
  agent,      \* the agent of the connection
  toAgent, toClient,
  result, ran, refused, excused, broken       \* what became of the calls (no code reads them): see Calls

fates == <<result, ran, refused, excused, broken>>
vars == <<client, agent, toAgent, toClient, fates>>

Plain == -1                                             \* a frame without a MAC
Frame(kind, id, of) == [kind |-> kind, id |-> id, of |-> of, mac |-> Plain]
Error(id, status) == Frame("ERR", id, status)

NewClient ==
  [ open |-> TRUE, doing |-> "idle", cmd |-> "none", id |-> 0, n |-> 0, frames |-> <<>>,
    session |-> "none", send |-> 0, recv |-> 0 ]
NewAgent ==
  [ open |-> TRUE, hello |-> FALSE, authed |-> FALSE, send |-> 0, recv |-> 0,
    up |-> "none", upId |-> 0, received |-> 0, xfer |-> 0, left |-> 0 ]

Init ==
  /\ client = NewClient /\ agent = NewAgent /\ toAgent = <<>> /\ toClient = <<>>
  /\ result = <<>> /\ ran = {} /\ refused = {} /\ excused = {} /\ broken = FALSE
-----------------------------------------------------------------------------
(***************************************************************************)
(* The client sends.                                                       *)
(***************************************************************************)
Sealing == client.session = "on"

\* encode and write, for a client that goes on as c
Sends(frame, c) ==
  /\ toAgent' = Append(toAgent, IF Sealing THEN [frame EXCEPT !.mac = client.send] ELSE frame)
  /\ client' = IF Sealing THEN [c EXCEPT !.send = @ + 1] ELSE c

\* A call ends.  open() closes the client that could not say hello or authenticate.
Ends(c, value) ==
  /\ client' = [c EXCEPT !.doing = "idle", !.open = @ /\ (c.cmd \in {"hello", "auth"} => value = "ok"),
                         !.session = IF @ = "pending" THEN "none" ELSE @]
  /\ result' = [result EXCEPT ![c.id] = value]
Excused == excused' = excused \cup {client.id}

Allowed == IF result = <<>> THEN {"hello"} ELSE IF Len(result) = 1 THEN {"auth"} ELSE {"ask", "read", "write"}

Call(cmd) ==
  LET id == Len(result) + 1
      c == [client EXCEPT !.doing = "answer", !.cmd = cmd, !.id = id, !.n = 0,
                          !.session = IF cmd = "auth" THEN "pending" ELSE @]
  IN  /\ client.open /\ client.doing = "idle" /\ Len(result) < MaxCalls /\ cmd \in Allowed
      /\ Sends(Frame("REQ", id, cmd), c)
      /\ result' = Append(result, "none")
      /\ UNCHANGED <<agent, toClient, ran, refused, excused, broken>>

Early == {i \in DOMAIN client.frames : client.frames[i].id = client.id /\ client.frames[i].kind = "ERR"}
Verdict(frame) == IF frame.of = "BUSY" THEN "failed" ELSE "refused"

\* write() between two blocks of its source
SendBlock ==
  /\ client.doing = "data" /\ client.open /\ Early = {}
  /\ IF client.n < Chunks THEN Sends(Frame("DATA", client.id, "write"), [client EXCEPT !.n = @ + 1])
     ELSE Sends(Frame("END", client.id, "write"), [client EXCEPT !.doing = "commit"])
  /\ UNCHANGED <<agent, toClient, fates>>

\* The agent gave up meanwhile, or the connection is gone.
StopSending ==
  /\ client.doing = "data"
  /\ \/ \E i \in Early : Ends([client EXCEPT !.frames = RemoveAt(@, i)], Verdict(client.frames[i]))
     \/ ~client.open /\ Early = {} /\ Ends(client, "failed")
  /\ UNCHANGED <<agent, toAgent, toClient, ran, refused, excused, broken>>

\* The source throws, and the upload stays open in the agent; or it is too short, and the client closes.
SourceFails ==
  /\ client.doing = "data" /\ client.open /\ Early = {}
  /\ \E open \in {TRUE, client.n = Chunks} : Ends([client EXCEPT !.open = open], "failed")
  /\ broken' = TRUE
  /\ UNCHANGED <<agent, toAgent, toClient, ran, refused, excused>>
-----------------------------------------------------------------------------
(***************************************************************************)
(* The client receives.                                                    *)
(***************************************************************************)
Verified(frame) ==
  CASE client.session = "none" -> frame.mac = Plain
    [] client.session # "none" /\ frame.mac = Plain -> client.session = "pending" /\ frame.kind = "ERR"
    [] OTHER -> frame.mac = client.recv

Receive ==
  LET frame == Head(toClient)
      c == [client EXCEPT !.frames = Append(@, frame)]
  IN  /\ client.open /\ toClient # <<>>
      /\ toClient' = Tail(toClient)
      /\ client' = IF ~Verified(frame) THEN [client EXCEPT !.open = FALSE]
                   ELSE IF frame.mac = Plain THEN c ELSE [c EXCEPT !.recv = @ + 1, !.session = "on"]
      /\ UNCHANGED <<agent, toAgent, fates>>

Waits == client.doing \in {"answer", "stream", "commit"}

AnyAnswer(frame) == FALSE                               \* mutant: the answer of another request is taken
Stale(frame) == frame.id # client.id

\* awaitResponse, and the loop of read()
Take ==
  LET frame == Head(client.frames)
      c == [client EXCEPT !.frames = Tail(@)]
      goes(doing) == client' = [c EXCEPT !.doing = doing] /\ UNCHANGED result
  IN  /\ Waits /\ client.frames # <<>>
      /\ CASE Stale(frame) -> client' = c /\ UNCHANGED result
           [] ~Stale(frame) /\ frame.kind = "ERR" -> Ends(c, Verdict(frame))
           [] ~Stale(frame) /\ client.doing = "stream" /\ frame.kind = "DATA" -> client' = [c EXCEPT !.n = @ + 1] /\ UNCHANGED result
           [] ~Stale(frame) /\ client.doing = "stream" /\ frame.kind = "END" /\ client.n = Chunks -> Ends(c, "ok")
           [] ~Stale(frame) /\ client.doing = "answer" /\ frame.kind = "RES" ->
                IF client.cmd = "read" THEN goes("stream") ELSE IF client.cmd = "write" THEN goes("data") ELSE Ends(c, "ok")
           [] ~Stale(frame) /\ client.doing = "commit" /\ frame.kind = "RES" -> Ends(c, "ok")
           [] OTHER -> Ends([c EXCEPT !.open = @ /\ client.doing # "stream"], "failed")
      /\ UNCHANGED <<agent, toAgent, toClient, ran, refused, excused, broken>>

\* No frame in time.  A stream is closed; an upload that was not yet answered is abandoned.
TimesOut ==
  /\ Waits /\ client.open /\ client.frames = <<>>
  /\ Ends([client EXCEPT !.open = client.doing # "stream"], "failed")
  /\ Excused
  /\ broken' = (broken \/ client.doing = "stream" \/ client.cmd \in {"hello", "auth"}
                       \/ (client.cmd = "write" /\ client.doing = "answer"))
  /\ UNCHANGED <<agent, toAgent, toClient, ran, refused>>

\* The caller's own code throws in the middle of a stream.
ReceiverFails ==
  /\ client.doing = "stream"
  /\ Ends([client EXCEPT !.open = FALSE], "failed")
  /\ broken' = TRUE
  /\ UNCHANGED <<agent, toAgent, toClient, ran, refused, excused>>

Rejected ==
  /\ Waits /\ ~client.open /\ client.frames = <<>>
  /\ Ends(client, "failed")
  /\ UNCHANGED <<agent, toAgent, toClient, ran, refused, excused, broken>>
-----------------------------------------------------------------------------
(***************************************************************************)
(* The agent.                                                              *)
(***************************************************************************)

\* One frame to the client, sealed once the channel is.
Answer(a, frame) ==
  /\ toClient' = Append(toClient, IF a.authed THEN [frame EXCEPT !.mac = a.send] ELSE frame)
  /\ agent' = IF a.authed THEN [a EXCEPT !.send = @ + 1] ELSE a
SilenceCounted(a) == agent' = [a EXCEPT !.send = @ + 1] /\ UNCHANGED toClient       \* mutant: no answer, but counted
Silence(a) == agent' = a /\ UNCHANGED toClient

RunsCall(id) == ran' = ran \cup {id} /\ UNCHANGED refused
Refuses(id) == refused' = refused \cup {id} /\ UNCHANGED ran
Goes == UNCHANGED <<ran, refused>>

\* ndp_agent_upload_frame
UploadFrame(a, frame) ==
  LET id == frame.id
      ended == [a EXCEPT !.up = "none"]
  IN  \/ a.up = "discard" /\ Silence(IF frame.kind = "END" THEN ended ELSE a) /\ Goes
      \/ a.up = "active" /\ frame.kind = "DATA" /\ a.received < Chunks
           /\ Silence([a EXCEPT !.received = @ + 1]) /\ Goes
      \/ a.up = "active" /\ frame.kind = "DATA"
           /\ Answer([a EXCEPT !.up = "discard"], Error(id, "IO_ERROR")) /\ Refuses(id)
      \/ a.up = "active" /\ frame.kind = "END"
           /\ \/ a.received = Chunks /\ Answer(ended, Frame("RES", id, "OK")) /\ RunsCall(id)
              \/ Answer(ended, Error(id, "IO_ERROR")) /\ Refuses(id)

\* What AUTH, FS_READ and FS_WRITE make of the agent.
Authenticated(a) == [a EXCEPT !.authed = TRUE, !.send = 0, !.recv = 0]
Reads(a, id) == [a EXCEPT !.xfer = id, !.left = Chunks]
Writes(a, id) == [a EXCEPT !.up = "active", !.upId = id, !.received = 0]

\* A request that is served: it succeeds, begins a transfer, or is turned down.
Serve(a, id, cmd) ==
  \/ Answer(a, Error(id, "REFUSED")) /\ Refuses(id)
  \/ cmd = "hello" /\ Answer([a EXCEPT !.hello = TRUE], Frame("RES", id, "OK")) /\ RunsCall(id)
  \/ cmd = "auth" /\ Answer(Authenticated(a), Frame("RES", id, "OK")) /\ RunsCall(id)
  \/ cmd = "ask" /\ Answer(a, Frame("RES", id, "OK")) /\ RunsCall(id)
  \/ cmd = "read" /\ Answer(Reads(a, id), Frame("RES", id, "OK")) /\ Goes
  \/ cmd = "write" /\ Answer(Writes(a, id), Frame("RES", id, "OK")) /\ Goes

\* The commands served in state a
Serves(a) == IF a.authed THEN {"ask", "read", "write"} ELSE {"hello"} \cup (IF a.hello THEN {"auth"} ELSE {})

\* handle_inner
Dispatch(a, frame) ==
  LET ofUpload == a.up # "none" /\ frame.kind \in {"DATA", "END"} /\ frame.id = a.upId
      b == [a EXCEPT !.up = IF @ = "discard" /\ frame.kind = "REQ" THEN "none" ELSE @]      \* a new request resynchronizes
      expected == frame.kind = "REQ" /\ (b.up = "active" \/ frame.of \in Serves(b))
  IN  \/ ofUpload /\ UploadFrame(a, frame)
      \/ ~ofUpload /\ ~expected /\ Answer(b, Error(frame.id, "BAD_REQUEST")) /\ Goes      \* not from this client
      \/ expected /\ b.up = "active" /\ Answer(b, Error(frame.id, "BUSY")) /\ Goes
      \/ expected /\ b.up # "active" /\ Serve(b, frame.id, frame.of)

Authentic(a, frame) == frame.mac = IF a.authed THEN a.recv ELSE Plain

\* ndp_agent_handle_frame.  The server hands it nothing while it streams.
Handle ==
  LET frame == Head(toAgent)
  IN  /\ agent.open /\ agent.xfer = 0 /\ toAgent # <<>>
      /\ toAgent' = Tail(toAgent)
      /\ IF ~Authentic(agent, frame)
         THEN agent' = [agent EXCEPT !.open = FALSE] /\ UNCHANGED toClient /\ Goes
         ELSE Dispatch(IF agent.authed THEN [agent EXCEPT !.recv = @ + 1] ELSE agent, frame)
      /\ UNCHANGED <<client, result, excused, broken>>

EndTransfer(a) == [a EXCEPT !.xfer = 0]

\* ndp_agent_fs_next_frame
NextFrame ==
  LET id == agent.xfer
      over == EndTransfer(agent)
  IN  /\ agent.open /\ id # 0
      /\ \/ agent.left > 0 /\ Answer([agent EXCEPT !.left = @ - 1], Frame("DATA", id, "read")) /\ Goes
         \/ agent.left > 0 /\ Answer(over, Error(id, "IO_ERROR")) /\ Refuses(id)
         \/ agent.left = 0 /\ Answer(over, Frame("END", id, "read")) /\ RunsCall(id)
      /\ UNCHANGED <<client, toAgent, result, excused, broken>>

\* The owner's X: an upload is given up, and what is on its way ignored.
SetMode ==
  /\ agent.up = "active"
  /\ agent' = [agent EXCEPT !.up = "discard"]
  /\ UNCHANGED <<client, toAgent, toClient, fates>>
-----------------------------------------------------------------------------
\* Wi-Fi, the idle timeout, another client of the slot.
LinkLost ==
  /\ agent.open
  /\ agent' = [NewAgent EXCEPT !.open = FALSE] /\ toAgent' = <<>>
  /\ broken' = TRUE
  /\ UNCHANGED <<client, toClient, result, ran, refused, excused>>

\* The client learns that it was closed, when it has what was still on its way, or before.
LearnsOfClose ==
  /\ client.open /\ ~agent.open
  /\ client' = [client EXCEPT !.open = FALSE] /\ toClient' = <<>>
  /\ UNCHANGED <<agent, toAgent, fates>>

Library == SendBlock \/ StopSending \/ Receive \/ Take \/ TimesOut \/ Rejected
Next ==
  \/ \E cmd \in {"hello", "auth", "ask", "read", "write"} : Call(cmd)
  \/ Library \/ SourceFails \/ ReceiverFails
  \/ Handle \/ NextFrame \/ SetMode \/ LinkLost \/ LearnsOfClose

\* Timers run and events are handled; nothing is asked of the agent.
Spec == Init /\ [][Next]_vars /\ WF_vars(Library)
-----------------------------------------------------------------------------
(***************************************************************************)
(* Properties.                                                             *)
(***************************************************************************)
\* The calls keep the library's promise: a late answer is not taken for that
\* of the next call, no call is carried out twice, none is turned away as BUSY
\* or cut off by a counter unless an upload was abandoned or the link broke.
KeepsCalls == INSTANCE Calls
KeepsPromise == KeepsCalls!Spec

\* Each side expects just the counters of the frames that are on their way to
\* it, through refused frames, swallowed ones and streams: the MAC of a frame
\* that nobody changed is never taken for a forged one.
CountersAgree ==
  client.open /\ agent.open /\ agent.authed =>
    /\ \A i \in DOMAIN toAgent : toAgent[i].mac = agent.recv + i - 1
    /\ \A i \in DOMAIN toClient : toClient[i].mac = client.recv + i - 1
    /\ client.session # "none"
    /\ agent.send = client.recv + Len(toClient)
    /\ client.send = agent.recv + Len(toAgent)
=============================================================================
