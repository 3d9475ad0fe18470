------------------------------- MODULE Server -------------------------------
(***************************************************************************)
(* One step of the agent's server (ndp_server.c), task by task: two        *)
(* clients, the raw one and the page's WebSocket, the short exchanges that *)
(* serve the page, and non-blocking sockets that take what they have room  *)
(* for.  The clients act between any two tasks.                            *)
(*                                                                         *)
(* A frame the server sends is a head and a tail, <<n, k, 1>> and          *)
(* <<n, k, 2>>: n is the request it answers, 0 for a control frame of the  *)
(* WebSocket, and k the frames of the answer that follow it.  What a       *)
(* client sends is an item: a whole request, the first part or the rest of *)
(* one, a frame without an answer, or bytes that are no frame.             *)
(***************************************************************************)
EXTENDS Integers, Sequences, SequencesExt, FiniteSetsExt

CONSTANTS
  RawSock,      \* connections of raw clients
  WebSock,      \* connections of browsers
  Company,      \* which of them come in one history
  Heads,        \* the heads of the requests each browser may send
  HttpSlots,    \* exchanges served at a time (NDP_WEB_HTTP_SLOTS)
  SndMax,       \* halves of frames a socket takes (SO_SNDBUF)
  InMax,        \* items of the input buffer (ndp_conn.in)
  CtlMax,       \* halves of control frames kept (ndp_conn.ctl)
  Budget,       \* frames of an answer a step adds (STREAM_FRAMES_PER_STEP)
  Rounds,       \* receptions in a row
  MaxRequests,  \* bounds: requests and
  MaxPings,     \* pings of each client,
  MaxFrames     \* frames that follow an answer

None == "none"

ASSUME ServerAssumption ==
  /\ RawSock \cap WebSock = {} /\ None \notin RawSock \cup WebSock /\ Company \subseteq SUBSET (RawSock \cup WebSock)
  /\ HttpSlots \in Nat \ {0}
  /\ {SndMax, InMax, CtlMax, Budget, Rounds} \subseteq Nat \ {0}
  /\ MaxFrames \in Nat /\ {MaxRequests, MaxPings} \subseteq [RawSock \cup WebSock -> Nat]

VARIABLES
  todo,       \* the tasks the step has left, the first one being at work
  polled,     \* what poll was given: the connections, and which had output
  conn,       \* the two clients (s->nc)
  http,       \* the exchanges (s->http)
  backlog,    \* connections to accept
  sock,       \* the sockets, with their clients
  wire        \* what was sent on each (no code reads it)

vars == <<todo, polled, conn, http, backlog, sock, wire>>

Slot == {"raw", "web"}
Sock == RawSock \cup WebSock
NoConn ==
  [ sock |-> None, in |-> <<>>, used |-> 0, pend |-> None, dec |-> "idle", out |-> <<>>,
    ctl |-> <<>>, ctlUsed |-> 0, closing |-> FALSE, stream |-> 0, handled |-> 0,
    quiet |-> FALSE ]                                   \* nothing sent or received for the idle timeout
NoHttp == [sock |-> None, got |-> 0, resp |-> 0, old |-> FALSE]
NewSock == [at |-> "new", gone |-> FALSE, buf |-> 0, in |-> <<>>, pieces |-> 0, asked |-> 0, pings |-> 0, last |-> None, head |-> None]
NewWire == [half |-> <<>>, n |-> 0, k |-> 0, pongs |-> 0, whole |-> TRUE, ordered |-> TRUE]

Least(a, b) == IF a < b THEN a ELSE b
-----------------------------------------------------------------------------
(***************************************************************************)
(* Sending.                                                                *)
(***************************************************************************)
Frame(n, k) == << <<n, k, 1>>, <<n, k, 2>> >>
Control == Frame(0, 0)
Replaced == <<0, 0, 0>>                                 \* the four bytes of a close 4001

\* Half a frame on the wire: is it the one that must follow, is the frame the next of the answers?
Put(w, u) ==
  LET fits == IF w.half = <<>> THEN u[3] # 2 ELSE u = <<w.half[1], w.half[2], 2>>
      next == IF w.k > 0 THEN u[1] = w.n /\ u[2] = w.k - 1 ELSE u[1] = w.n + 1
      ends == u[1] # 0 /\ u[3] = 2
  IN  [ half |-> IF u[3] = 1 THEN u ELSE <<>>,
        n |-> IF ends THEN u[1] ELSE w.n, k |-> IF ends THEN u[2] ELSE w.k,
        pongs |-> IF u = <<0, 0, 2>> THEN w.pongs + 1 ELSE w.pongs,
        whole |-> w.whole /\ fits, ordered |-> w.ordered /\ (ends => next) ]

Streaming(x) == x.stream > 0
Busy(x) == x.out # <<>> \/ Streaming(x)
HasOutput(x) == x.out # <<>> \/ x.ctl # <<>> \/ Streaming(x)

\* flush_out for a client in state x: the frame in flight, then the control frames
Sends(x) == Least(SndMax - sock[x.sock].buf, Len(x.out) + Len(x.ctl))
Sent(x) == SubSeq(x.out \o x.ctl, 1, Sends(x))
Rest(x) ==
  LET out == SubSeq(x.out, Sends(x) + 1, Len(x.out))
      ctl == SubSeq(x.ctl, 1 + (IF Sends(x) > Len(x.out) THEN Sends(x) - Len(x.out) ELSE 0), Len(x.ctl))
  IN  [x EXCEPT !.out = out, !.ctl = ctl, !.ctlUsed = IF ctl = <<>> THEN 0 ELSE @,
                !.quiet = @ /\ Sends(x) = 0]
OnWire(x) == [wire EXCEPT ![x.sock] = FoldLeft(Put, @, Sent(x))]
Blocked(x) == HasOutput([x EXCEPT !.stream = 0]) /\ Sends(x) < Len(x.out) + Len(x.ctl)
Fails(x) == sock[x.sock].gone /\ x.out \o x.ctl # <<>>
Closes(x) == x.closing /\ ~Blocked(x)

\* The server closes socket s (hard_close).
Shut(sk, s) == [sk EXCEPT ![s] = [NewSock EXCEPT !.at = "closed", !.head = sk[s].head]]
Forget(w, s) == [w EXCEPT ![s] = [NewWire EXCEPT !.whole = w[s].whole, !.ordered = w[s].ordered]]

\* close_conn, after w was sent
Closed(c, w) ==
  /\ conn' = [conn EXCEPT ![c] = NoConn]
  /\ sock' = Shut(sock, conn[c].sock) /\ wire' = Forget(w, conn[c].sock)
Close(c) == Closed(c, wire)

\* Client c is in state x and flushes; if it survives the task goes on with next.
Flush(c, x, next) ==
  IF Fails(x) THEN Close(c) /\ todo' = Tail(todo)
  ELSE IF Closes(x) THEN Closed(c, OnWire(x)) /\ todo' = Tail(todo)
  ELSE /\ conn' = [conn EXCEPT ![c] = Rest(x)]
       /\ sock' = [sock EXCEPT ![x.sock].buf = @ + Sends(x)]
       /\ wire' = OnWire(x)
       /\ todo' = next
-----------------------------------------------------------------------------
Task(name) == todo[1][1] = name
Done == Tail(todo)
When(due, task) == IF due THEN <<task>> ELSE <<>>
StepTasks == << <<"feed", "raw">>, <<"feed", "web">>, <<"poll">> >>

Init ==
  /\ todo = StepTasks /\ polled = [sock |-> [c \in Slot |-> None], want |-> {}]
  /\ conn = [c \in Slot |-> NoConn] /\ http = [i \in 1..HttpSlots |-> NoHttp]
  /\ backlog = [c \in Slot |-> <<>>]
  /\ \E come \in Company :
       sock = [s \in Sock |-> IF s \in come THEN NewSock ELSE [NewSock EXCEPT !.at = "closed"]]
  /\ wire = [s \in Sock |-> NewWire]
-----------------------------------------------------------------------------
(***************************************************************************)
(* Input.                                                                  *)
(***************************************************************************)

\* Before poll: input left in the buffer is taken up once the answer is out.
Feed ==
  /\ Task("feed")
  /\ LET c == todo[1][2]
         x == conn[c]
     IN  todo' = When((x.in # <<>> \/ x.pend # None) /\ ~Busy(x), <<"process", c>>) \o Done
  /\ UNCHANGED <<polled, conn, http, backlog, sock, wire>>

\* ndp_decoder_feed: bytes that are no frame, a part of one, or the end of one
Decoded(item) == CASE item = "bad" -> "error" [] item = "part" -> "more" [] OTHER -> "frame"

\* ndp_ws_dec_feed: what a frame of the page is to a decoder that is idle, in the middle of a message, or stuck
WsEvent(item, dec) ==
  CASE dec = "stuck" \/ item = "text" -> "error"
    [] dec # "stuck" /\ item \in {"ping", "close"} -> item
    [] item = "rest" /\ dec = "message" -> "data"
    [] item \in {"req", "part"} /\ dec = "idle" -> "data"
    [] OTHER -> "error"

\* queue_ctl: a control frame that does not fit is dropped, a closing one too
QueueCtl(x, close) ==
  IF x.ctlUsed + 2 > CtlMax THEN x
  ELSE [x EXCEPT !.ctl = @ \o Control, !.ctlUsed = @ + 2, !.closing = @ \/ close]

\* feed_ndp and the agent, for client c in state x and an item of its stream
Handle(c, x, item) ==
  CASE Decoded(item) = "error" -> Close(c) /\ todo' = Done
    [] Decoded(item) = "more" \/ item = "data" -> conn' = [conn EXCEPT ![c] = x] /\ UNCHANGED <<todo, sock, wire>>
    [] OTHER ->
       \/ Close(c) /\ todo' = Done                                              \* a MAC that is wrong
       \/ \E k \in 0..MaxFrames :
            Flush(c, [x EXCEPT !.out = Frame(x.handled + 1, k), !.stream = k, !.handled = @ + 1], todo)

\* process_input, item by item.
ProcessRaw ==
  LET x == conn["raw"]
  IN  /\ Task("process") /\ todo[1][2] = "raw" /\ x.in # <<>> /\ ~Busy(x)
      /\ Handle("raw", [x EXCEPT !.in = Tail(@)], Head(x.in))
      /\ UNCHANGED <<polled, http, backlog>>

ProcessPending ==
  LET x == conn["web"]
  IN  /\ Task("process") /\ todo[1][2] = "web" /\ x.pend # None /\ ~Busy(x)
      /\ Handle("web", [x EXCEPT !.pend = None], x.pend)
      /\ UNCHANGED <<polled, http, backlog>>

ProcessFrame ==
  LET x == conn["web"]
      item == Head(x.in)
      event == WsEvent(item, x.dec)
      y == [x EXCEPT !.in = Tail(@)]
      z == [QueueCtl(y, TRUE) EXCEPT !.in = <<>>]
  IN  /\ Task("process") /\ todo[1][2] = "web" /\ x.pend = None /\ x.in # <<>>
      /\ conn' = [conn EXCEPT !["web"] =
           CASE event = "data" -> [y EXCEPT !.pend = item, !.dec = IF item = "part" THEN "message" ELSE "idle"]
             [] event = "ping" -> QueueCtl(y, FALSE)
             [] event = "close" -> z
             [] event = "error" -> [z EXCEPT !.dec = "stuck"]]
      /\ UNCHANGED <<todo, polled, http, backlog, sock, wire>>

\* The input is used up, or an answer is on its way: control frames leave now.
ProcessEnds ==
  LET c == todo[1][2]
      x == conn[c]
      y == IF x.in = <<>> /\ x.pend = None THEN [x EXCEPT !.used = 0] ELSE x
  IN  /\ Task("process")
      /\ IF c = "web" THEN IF x.pend = None THEN x.in = <<>> ELSE Busy(x) ELSE x.in = <<>> \/ Busy(x)
      /\ IF x.ctl # <<>> \/ x.closing THEN Flush(c, y, Done)
         ELSE conn' = [conn EXCEPT ![c] = y] /\ todo' = Done /\ UNCHANGED <<sock, wire>>
      /\ UNCHANGED <<polled, http, backlog>>
-----------------------------------------------------------------------------
(***************************************************************************)
(* poll, and what is ready.                                                *)
(***************************************************************************)
Readable(s) == s # None /\ (sock[s].in # <<>> \/ sock[s].gone)
AnswersWait(x) == x.out # <<>> \/ x.ctl # <<>>         \* mutant: an answer with frames to come does not count
Wants(x) == HasOutput(x)

\* Whether it reports POLLOUT changes nothing: what waits to be sent is not left to it.
Poll ==
  LET Accepts(c) == When(backlog[c] # <<>>, <<"accept", c>>)
      ready(c) == IF Wants(conn[c]) THEN sock[conn[c].sock].gone ELSE Readable(conn[c].sock)
      Reads(c) == When(ready(c), <<"read", c, 1>>)
      Slots == [i \in 1..HttpSlots |-> <<"http", i, IF Readable(http[i].sock) THEN http[i].sock ELSE None>>]
      Writes == [i \in 1..HttpSlots |-> <<"write", i>>]
  IN  /\ Task("poll")
      /\ polled' = [sock |-> [c \in Slot |-> conn[c].sock], want |-> {c \in Slot : Wants(conn[c])}]
      /\ todo' = Accepts("raw") \o Accepts("web") \o Reads("raw") \o Reads("web") \o Slots
               \o << <<"pump", "raw", Budget>>, <<"pump", "web", Budget>> >> \o Writes \o << <<"timers">> >>
      /\ UNCHANGED <<conn, http, backlog, sock, wire>>

\* The listener broke, or the page was switched off: every client goes (ndp_server_close).
Stop ==
  /\ Task("poll")
  /\ \E all \in BOOLEAN :
       LET cs == IF all THEN Slot ELSE {"web"}
           ss == ({conn[c].sock : c \in cs} \cup {http[i].sock : i \in DOMAIN http}
                  \cup UNION {Range(backlog[c]) : c \in cs}) \ {None}
       IN  /\ ss # {}
           /\ conn' = [c \in Slot |-> IF c \in cs THEN NoConn ELSE conn[c]]
           /\ http' = [i \in DOMAIN http |-> NoHttp]
           /\ backlog' = [c \in Slot |-> IF c \in cs THEN <<>> ELSE backlog[c]]
           /\ sock' = [s \in Sock |-> IF s \in ss THEN Shut(sock, s)[s] ELSE sock[s]]
           /\ wire' = [s \in Sock |-> IF s \in ss THEN Forget(wire, s)[s] ELSE wire[s]]
  /\ todo' = StepTasks
  /\ UNCHANGED polled

\* accept_client: a new raw client takes the place of the old one
Accept ==
  /\ Task("accept") /\ todo[1][2] = "raw"
  /\ LET s == Head(backlog["raw"])
         old == conn["raw"].sock
         sk == IF old = None THEN sock ELSE Shut(sock, old)
     IN  /\ sock' = [sk EXCEPT ![s].at = "open"]
         /\ wire' = IF old = None THEN wire ELSE Forget(wire, old)
         /\ conn' = [conn EXCEPT !["raw"] = [NoConn EXCEPT !.sock = s]]
  /\ backlog' = [backlog EXCEPT !["raw"] = Tail(@)]
  /\ todo' = Done /\ UNCHANGED <<polled, http>>

\* accept_web: a free slot, or the browser tries again
AcceptWeb ==
  /\ Task("accept") /\ todo[1][2] = "web"
  /\ LET s == Head(backlog["web"])
         free == {i \in DOMAIN http : http[i].sock = None}
     IN  IF free = {} THEN sock' = Shut(sock, s) /\ UNCHANGED http
         ELSE /\ http' = [http EXCEPT ![Min(free)] = [NoHttp EXCEPT !.sock = s]]
              /\ sock' = [sock EXCEPT ![s].at = "open"]
  /\ backlog' = [backlog EXCEPT !["web"] = Tail(@)]
  /\ todo' = Done /\ UNCHANGED <<polled, conn, wire>>

\* on_readable, one reception: then its input is processed, and perhaps there is more
Receive ==
  LET c == todo[1][2]
      x == conn[c]
      s == x.sock
      n == Least(InMax - x.used, Len(sock[s].in))
  IN  /\ Task("read")
      /\ \/ /\ s = None \/ s # polled.sock[c]
            /\ todo' = Done /\ UNCHANGED <<conn, sock, wire>>
         \/ /\ s # None /\ s = polled.sock[c] /\ c \in polled.want
            /\ IF sock[s].gone THEN Close(c) ELSE UNCHANGED <<conn, sock, wire>>
            /\ todo' = Done
         \/ /\ s # None /\ s = polled.sock[c] /\ c \notin polled.want
            /\ IF x.used = InMax \/ (sock[s].in = <<>> /\ sock[s].gone) THEN Close(c) /\ todo' = Done
               ELSE IF n = 0 THEN todo' = Done /\ UNCHANGED <<conn, sock, wire>>
               ELSE /\ conn' = [conn EXCEPT ![c].in = @ \o SubSeq(sock[s].in, 1, n), ![c].used = @ + n, ![c].quiet = FALSE]
                    /\ sock' = [sock EXCEPT ![s].in = SubSeq(@, n + 1, Len(@))]
                    /\ todo' = << <<"process", c>>, <<"again", c, todo[1][3], n>> >> \o Done
                    /\ UNCHANGED wire
      /\ UNCHANGED <<polled, http, backlog>>

Again ==
  LET c == todo[1][2]
      x == conn[c]
      more == x.sock # None /\ todo[1][4] = InMax /\ ~Busy(x) /\ x.pend = None /\ todo[1][3] < Rounds
  IN  /\ Task("again")
      /\ todo' = When(more, <<"read", c, todo[1][3] + 1>>) \o Done
      /\ UNCHANGED <<polled, conn, http, backlog, sock, wire>>
-----------------------------------------------------------------------------
(***************************************************************************)
(* The page.  A head is its first line and its fields, in order.           *)
(***************************************************************************)
Fields(h, name) == {i \in DOMAIN h.fields : h.fields[i][1] = name}
FieldError(h, i) ==
  CASE h.fields[i][1] = "host" /\ \E j \in Fields(h, "host") : j < i -> 400
    [] h.fields[i][1] = "long" -> 431
    [] h.fields[i][1] = "body" -> 413
    [] h.fields[i][1] = "malformed" -> 400
    [] OTHER -> 200

\* ndp_http_parse: 200 for a head that is accepted, or the error that is met first
LastHostWins(h) ==                                      \* mutant: a second Host is not refused
  IF Fields(h, "body") # {} THEN 413 ELSE h.line
Parse(h) ==
  LET wrong == {i \in DOMAIN h.fields : FieldError(h, i) # 200}
  IN  IF h.line # 200 THEN h.line ELSE IF wrong = {} THEN 200 ELSE FieldError(h, Min(wrong))

\* What a first line comes to; and a browser names one origin at most (the code goes by the last).
ASSUME HeadsAssumption == \A s \in WebSock : \A h \in Heads[s] :
  /\ h.line \in {200, 400, 431, 505}
  /\ DOMAIN h.fields \subseteq Nat
  /\ \A i, j \in Fields(h, "origin") : i = j /\ h.fields[i][2] # None

Value(h, name) == IF Fields(h, name) = {} THEN None ELSE h.fields[Max(Fields(h, name))][2]
HostOk(h) == Value(h, "host") = "own"
OriginOk(h) == Value(h, "origin") \in {None, "same"}

\* http_route: the status of the answer, 101 for a client of the WebSocket
Route(h) ==
  IF h.method = "OTHER" THEN 405
  ELSE IF ~HostOk(h) THEN 403
  ELSE IF h.path = "/ws" THEN
    IF Value(h, "upgrade") # "websocket" THEN 426
    ELSE IF h.method # "GET" \/ Value(h, "version") # 13 THEN 400
    ELSE IF ~OriginOk(h) THEN 403
    ELSE IF Value(h, "key") # "good" THEN 400 ELSE 101
  ELSE IF h.path = "/" THEN 200 ELSE IF h.path = "/favicon.ico" THEN 204 ELSE 404

Status(h) == IF Parse(h) = 200 THEN Route(h) ELSE Parse(h)

CloseHttp(i) == http' = [http EXCEPT ![i] = NoHttp] /\ sock' = Shut(sock, http[i].sock)

\* upgrade_to_ws: the page that was there is told, unless a frame of it is half sent
ToldAnyway(x) == sock[x.sock].buf < SndMax              \* mutant: also in the middle of a frame
CanBeTold(x) == x.out = <<>> /\ x.ctl = <<>> /\ sock[x.sock].buf < SndMax
Upgrade(i) ==
  LET s == http[i].sock
      old == conn["web"]
      told == IF CanBeTold(old) THEN [wire EXCEPT ![old.sock] = Put(@, Replaced)] ELSE wire
      late == sock[s].head.more                         \* bytes after the head are not accepted
  IN  /\ sock' = LET sk == IF old.sock = None THEN sock ELSE Shut(sock, old.sock)
                 IN  IF late THEN Shut(sk, s) ELSE [sk EXCEPT ![s].in = <<>>]
      /\ wire' = IF old.sock = None THEN wire ELSE Forget(told, old.sock)
      /\ conn' = [conn EXCEPT !["web"] = IF late THEN NoConn ELSE [NoConn EXCEPT !.sock = s]]
      /\ http' = [http EXCEPT ![i] = NoHttp]

\* http_on_readable
HttpReceive ==
  LET i == todo[1][2]
      s == http[i].sock
      status == Status(sock[s].head)
      got == http[i].got + Len(sock[s].in)
  IN  /\ Task("http")
      /\ todo' = Done
      /\ \/ /\ s = None \/ s # todo[1][3] \/ (http[i].resp > 0 /\ ~sock[s].gone)
            /\ UNCHANGED <<conn, http, sock, wire>>
         \/ /\ s # None /\ s = todo[1][3]
            /\ sock[s].gone /\ (sock[s].in = <<>> \/ http[i].resp > 0)
            /\ CloseHttp(i) /\ UNCHANGED <<conn, wire>>
         \/ /\ s # None /\ s = todo[1][3] /\ http[i].resp = 0 /\ sock[s].in # <<>>
            /\ IF got < 2 THEN
                 /\ http' = [http EXCEPT ![i].got = got] /\ sock' = [sock EXCEPT ![s].in = <<>>]
                 /\ UNCHANGED <<conn, wire>>
               ELSE IF status = 101 THEN
                 IF sock[s].gone THEN CloseHttp(i) /\ UNCHANGED <<conn, wire>> ELSE Upgrade(i)
               ELSE
                 /\ http' = [http EXCEPT ![i].got = got, ![i].resp = IF status = 200 /\ sock[s].head.method = "GET" THEN SndMax + 1 ELSE 1]
                 /\ sock' = [sock EXCEPT ![s].in = <<>>] /\ UNCHANGED <<conn, wire>>
      /\ UNCHANGED <<polled, backlog>>
-----------------------------------------------------------------------------
(***************************************************************************)
(* Output and timers.                                                      *)
(***************************************************************************)

\* What is there to be sent is sent, in every step.
WhenPolled(c) == HasOutput(conn[c]) /\ c \notin polled.want  \* mutant: left to a poll that does not report it
MayPump(c) == HasOutput(conn[c])

\* pump_output, once around its loop
Pump ==
  LET c == todo[1][2]
      left == todo[1][3]
      x == conn[c]
      y == Rest(x)
      idle == y.out = <<>> /\ y.ctl = <<>>
  IN  /\ Task("pump")
      /\ IF ~MayPump(c) THEN todo' = Done /\ UNCHANGED <<conn, sock, wire>>
         ELSE IF Fails(x) THEN Close(c) /\ todo' = Done
         ELSE IF x.out \o x.ctl # <<>> /\ Closes(x) THEN Closed(c, OnWire(x)) /\ todo' = Done
         ELSE LET adds == idle /\ y.stream > 0 /\ left > 0
              IN  /\ conn' = [conn EXCEPT ![c] =
                       IF adds THEN [y EXCEPT !.out = Frame(y.handled, y.stream - 1), !.stream = @ - 1] ELSE y]
                  /\ sock' = [sock EXCEPT ![x.sock].buf = @ + Sends(x)]
                  /\ wire' = OnWire(x)
                  /\ todo' = When(adds, <<"pump", c, left - 1>>) \o Done
      /\ UNCHANGED <<polled, http, backlog>>

\* http_on_writable
HttpWrite ==
  LET i == todo[1][2]
      s == http[i].sock
      n == Least(http[i].resp, SndMax - sock[s].buf)
  IN  /\ Task("write")
      /\ todo' = Done
      /\ IF s = None \/ http[i].resp = 0 THEN UNCHANGED <<http, sock>>
         ELSE IF sock[s].gone \/ n = http[i].resp THEN CloseHttp(i)
         ELSE http' = [http EXCEPT ![i].resp = @ - n] /\ sock' = [sock EXCEPT ![s].buf = @ + n]
      /\ UNCHANGED <<polled, conn, backlog, wire>>

Timers ==
  LET cs == {c \in Slot : conn[c].quiet}
      is == {i \in DOMAIN http : http[i].old}
      ss == {conn[c].sock : c \in cs} \cup {http[i].sock : i \in is}
  IN  /\ Task("timers") /\ todo' = StepTasks
      /\ conn' = [c \in Slot |-> IF c \in cs THEN NoConn ELSE conn[c]]
      /\ http' = [i \in DOMAIN http |-> IF i \in is THEN NoHttp ELSE http[i]]
      /\ sock' = [s \in Sock |-> IF s \in ss THEN Shut(sock, s)[s] ELSE sock[s]]
      /\ wire' = [s \in Sock |-> IF s \in ss THEN Forget(wire, s)[s] ELSE wire[s]]
      /\ UNCHANGED <<polled, backlog>>
-----------------------------------------------------------------------------
(***************************************************************************)
(* The clients and the clock.                                              *)
(***************************************************************************)
SlotOf(s) == IF s \in RawSock THEN "raw" ELSE "web"
IsClient(s) == conn[SlotOf(s)].sock = s
Alive(s) == sock[s].at = "open" /\ ~sock[s].gone
\* A client acts while the server waits, and between tasks that send or receive.
Between ==
  \/ Task("poll") \/ Task("process")
  \/ Task("pump") /\ HasOutput(conn[todo[1][2]])
  \/ Task("write") /\ http[todo[1][2]].resp > 0
Same == UNCHANGED <<todo, polled, http, wire>>

Connect(s) ==
  /\ Task("poll") /\ sock[s].at = "new" /\ Len(backlog[SlotOf(s)]) < 2                          \* ACCEPT_BACKLOG
  /\ backlog' = [backlog EXCEPT ![SlotOf(s)] = Append(@, s)]
  /\ \E h \in (IF s \in RawSock THEN {None} ELSE Heads[s]) : sock' = [sock EXCEPT ![s].at = "queued", ![s].head = h]
  /\ Same /\ UNCHANGED conn

\* Client s sends an item; the page waits for its answer before it asks again, and
\* for its pongs before it sends a request or the rest of one.
Ponged(s) == wire[s].pongs = sock[s].pings
Answered(s) == wire[s].n = sock[s].asked /\ wire[s].k = 0 /\ Ponged(s) /\ sock[s].buf = 0
Sendable(s) ==
  LET mid == sock[s].last = "part"
      asks == sock[s].asked < MaxRequests[s] /\ (s \in RawSock \/ Answered(s))
  IN  IF ~IsClient(s) THEN IF s \in WebSock /\ sock[s].pieces < 2 THEN {"piece"} ELSE {}
      ELSE IF sock[s].last \in {"close", "text"} THEN {}
      ELSE (IF asks THEN {"req"} ELSE {})
           \cup (IF s \in RawSock THEN {"data", "bad"} ELSE {"close", "text"})
           \cup (IF s \in WebSock /\ asks /\ ~mid THEN {"part"} ELSE {})
           \cup (IF s \in WebSock /\ mid /\ Ponged(s) THEN {"rest"} ELSE {})
           \cup (IF s \in WebSock /\ sock[s].pings < MaxPings[s] THEN {"ping"} ELSE {})
ClientSends(s) ==
  /\ Alive(s) /\ (Task("poll") \/ Task("process")) /\ Len(sock[s].in) < InMax + 1
  /\ \E item \in Sendable(s) :
       sock' = [sock EXCEPT ![s].in = Append(@, item),
                            ![s].last = IF item = "ping" THEN @ ELSE item,
                            ![s].asked = IF item \in {"req", "part"} THEN @ + 1 ELSE @,
                            ![s].pieces = IF item = "piece" THEN @ + 1 ELSE @,
                            ![s].pings = IF item = "ping" THEN @ + 1 ELSE @]
  /\ Same /\ UNCHANGED <<conn, backlog>>

ClientReads(s) ==
  /\ Alive(s) /\ Between /\ sock[s].buf > 0
  /\ sock' = [sock EXCEPT ![s].buf = 0]
  /\ Same /\ UNCHANGED <<conn, backlog>>

ClientLeaves(s) ==
  /\ Alive(s) /\ Between
  /\ sock' = [sock EXCEPT ![s].gone = TRUE, ![s].buf = 0]
  /\ Same /\ UNCHANGED <<conn, backlog>>

\* The idle timeout is long: it passes only when the server has nothing it could send.
GoesQuiet(c) ==
  /\ Task("poll") /\ conn[c].sock # None /\ ~conn[c].quiet
  /\ ~HasOutput(conn[c]) \/ sock[conn[c].sock].buf = SndMax
  /\ conn' = [conn EXCEPT ![c].quiet = TRUE]
  /\ UNCHANGED <<todo, polled, http, backlog, sock, wire>>

GetsOld(i) ==
  /\ Task("poll") /\ http[i].sock # None /\ ~http[i].old
  /\ http' = [http EXCEPT ![i].old = TRUE]
  /\ UNCHANGED <<todo, polled, conn, backlog, sock, wire>>
-----------------------------------------------------------------------------
Serve ==
  \/ Feed \/ ProcessRaw \/ ProcessPending \/ ProcessFrame \/ ProcessEnds
  \/ Poll \/ Accept \/ AcceptWeb \/ Receive \/ Again \/ HttpReceive \/ Pump \/ HttpWrite \/ Timers
Clients == \E s \in Sock : Connect(s) \/ ClientSends(s) \/ ClientReads(s) \/ ClientLeaves(s)

TimePasses == (\E c \in Slot : GoesQuiet(c)) \/ \E i \in 1..HttpSlots : GetsOld(i)

Next == Serve \/ Stop \/ Clients \/ TimePasses

\* The loop calls the step again and again, and clocks run; nothing is asked of the clients.
Fairness ==
  /\ WF_vars(Serve)
  /\ \A c \in Slot : SF_vars(GoesQuiet(c))
  /\ \A i \in 1..HttpSlots : SF_vars(GetsOld(i))

Spec == Init /\ [][Next]_vars /\ Fairness
-----------------------------------------------------------------------------
(***************************************************************************)
(* Properties.                                                             *)
(***************************************************************************)
\* What a client receives is whole frames, whatever its socket takes at a time:
\* an answer is not split by a pong, by the closing frame or by the 4001 of a
\* page that is replaced, nor a pong by an answer (for a client that has
\* its answer and its pongs before it asks again).  And each request has its
\* answer, all the frames of it, in the order they were asked, also when the
\* client sends ahead and the buffer holds what follows.
StreamIntact == \A s \in Sock : wire[s].whole /\ wire[s].ordered

\* The buffer has room when it is received into: recv with no room returns 0,
\* which is taken for a client that left.
RoomToReceive == todo # <<>> /\ Task("read") =>
  LET c == todo[1][2]
  IN  conn[c].sock # None /\ conn[c].sock = polled.sock[c] /\ c \notin polled.want => conn[c].used < InMax

\* The page's client named the console as its host and no other site as its origin.
OnlyOwnPages == LET s == conn["web"].sock IN s # None =>
  /\ \A i \in Fields(sock[s].head, "host") : sock[s].head.fields[i][2] = "own"
  /\ \A i \in Fields(sock[s].head, "origin") : sock[s].head.fields[i][2] = "same"

\* What is queued gets out, or its client is dropped, although poll may never
\* report a socket as writable ("stalled forever", ndp_server.c:751); and a
\* slot of the page is free again, whatever its browser does.
NobodyBlocks ==
  /\ \A c \in Slot : HasOutput(conn[c]) ~> ~HasOutput(conn[c])
  /\ \A i \in 1..HttpSlots : http[i].sock # None ~> http[i].sock = None
=============================================================================
