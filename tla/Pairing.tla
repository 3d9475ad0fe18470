------------------------------- MODULE Pairing -------------------------------
(***************************************************************************)
(* Pairing a client with the console: the pairing window the owner opens   *)
(* with a key press, pairing by typed code, pairing by comparing a number  *)
(* (PAIR_BEGIN, PAIR_REVEAL, PAIR_POLL and the person's answer), the       *)
(* authentication failures that close the window, and the connections that *)
(* come and go meanwhile (ndp_agent_auth.c, ndp_server.c).                 *)
(*                                                                         *)
(* The console runs one loop: the buttons are handled ("ui"), then         *)
(* ndp_server_step serves the sockets and the timers ("net").  A client    *)
(* awaits the answer to its request before it sends the next, so one step  *)
(* serves at most one request of a connection.  Requests that are refused  *)
(* without any change of state are stuttering steps.                       *)
(*                                                                         *)
(* Time is counted in ticks and read only where the code reads it for a    *)
(* decision: at the end of a step.  The window's 120 s, the 60 s a person  *)
(* has to answer and the 30 s between PAIR_BEGIN and PAIR_REVEAL become    *)
(* WindowTicks, PromptTicks and CommitTicks.                               *)
(***************************************************************************)
EXTENDS Integers, FiniteSets, KeyStore

CONSTANTS
  Raw, Web,         \* the two connection slots of the server
  MaxAttempts,      \* NDP_P2_MAX_ATTEMPTS (5 in the code)
  MaxAuthFails,     \* NDP_MAX_AUTH_FAILS (5 in the code)
  WindowTicks, PromptTicks, CommitTicks,
  MaxConns,         \* bound: connections accepted in a behaviour
  MaxWindows,       \* bound: pairing windows opened in a behaviour
  MaxReveals        \* bound: numbers shown in a behaviour

ASSUME PairingAssumption ==
  /\ Raw # Web
  /\ {MaxAttempts, MaxAuthFails, WindowTicks, PromptTicks, CommitTicks} \subseteq Nat \ {0}
  /\ {MaxConns, MaxWindows, MaxReveals} \subseteq Nat
  /\ Label # {}
  /\ Key = [from : {"code"}, n : 1..MaxWindows] \cup [from : {"number"}, n : 1..MaxReveals]

VARIABLES
  active,     \* pairing.active: the window is open
  left,       \* ticks until pairing.expires_ms
  attempts,   \* pairing.p2_attempts
  p2,         \* the number request: stage, owner, label, secrets, deadline
  conn,       \* what each slot of the server holds
  keys,       \* the key store
  phase,      \* "ui" or "net": where the console's loop is
  served,     \* the slots this step has served already
  win,        \* the window (and code) on display: how many were opened so far
  opened,     \* connections accepted so far
  reveals,    \* numbers shown so far; the last one is the key of the request
  byCode,     \* pairings made with the code of this window
  byNumber,   \* pairings made by number in this window
  delivered   \* how often a client was told that its number was approved

window == <<active, left, win>>
history == <<byCode, byNumber, delivered>>
loop == <<phase, served>>
counters == <<opened, reveals>>
vars == <<window, attempts, p2, conn, keys, loop, counters, history>>

Slots == {Raw, Web}
Stages == {"idle", "committed", "waiting", "approved", "denied"}
Pending == {"committed", "waiting"}
Unset == -1                             \* p2_deadline_ms = 0

CodeKey(w) == [from |-> "code", n |-> w]
NumberKey(n) == [from |-> "number", n |-> n]

NoConn == [id |-> 0, state |-> "none", fails |-> 0]

\* No request.  The console keeps the last owner, label and deadline in memory,
\* but reads none of them before the next PAIR_BEGIN writes them.
NoRequest == [stage |-> "idle", owner |-> Raw, label |-> CHOOSE l \in Label : TRUE,
              secret |-> FALSE, psk |-> 0, dl |-> Unset, by |-> 0]

Request == [stage : Stages, owner : Slots, label : Label, secret : BOOLEAN,
            psk : 0..MaxReveals, dl : {Unset} \cup Nat, by : 0..MaxConns]

Connection == [id : 0..MaxConns, fails : Nat, state : {"none", "open", "hello", "authed"}]

TypeOK ==
  /\ active \in BOOLEAN
  /\ left \in 0..WindowTicks
  /\ attempts \in Nat
  /\ p2 \in Request
  /\ conn \in [Slots -> Connection]
  /\ keys \in Store
  /\ phase \in {"ui", "net"}
  /\ served \subseteq Slots
  /\ win \in 0..MaxWindows
  /\ opened \in 0..MaxConns
  /\ reveals \in 0..MaxReveals
  /\ byCode \in Nat /\ byNumber \in Nat /\ delivered \in Nat

Init ==
  /\ active = FALSE
  /\ left = 0
  /\ attempts = 0
  /\ p2 = NoRequest
  /\ conn = [s \in Slots |-> NoConn]
  /\ keys = <<>>
  /\ phase = "ui"
  /\ served = {}
  /\ win = 0
  /\ opened = 0
  /\ reveals = 0
  /\ byCode = 0 /\ byNumber = 0 /\ delivered = 0
-----------------------------------------------------------------------------
(***************************************************************************)
(* Closing connections, and failed attempts.                               *)
(***************************************************************************)

\* Mutant: only the request whose number is on the screen goes with its client.
DropWaitingOf(S, p) ==
  IF p.owner \in S /\ conn[p.owner].id # 0 /\ p.stage = "waiting" THEN NoRequest ELSE p

\* close_conn: the client that asked is gone, its open request goes with it.
DropRequestOf(S, p) ==
  IF p.owner \in S /\ conn[p.owner].id # 0 /\ p.stage \in Pending THEN NoRequest ELSE p

CloseSlots(S) ==
  /\ conn' = [s \in Slots |-> IF s \in S THEN NoConn ELSE conn[s]]
  /\ p2' = DropRequestOf(S, p2)

\* A pairing closes the window it was made in: the window is single-use.
KeepWindow == UNCHANGED active          \* mutant: the window stays open
CloseWindow == active' = FALSE

\* The request once it was refused, by the person or by the clock.
RefusedKeepingKey(p) == [p EXCEPT !.stage = "denied", !.dl = Unset]     \* mutant
Refused(p) == [p EXCEPT !.stage = "denied", !.dl = Unset, !.psk = 0]

\* The request once its outcome was collected.
AnsweredKept(p) == p                    \* mutant: the outcome stays
Answered(p) == NoRequest

AttemptsLeftOffByOne == attempts <= MaxAttempts                         \* mutant
AttemptsLeft == attempts < MaxAttempts

\* A request the agent serves in this step.
Serve(s, states) ==
  /\ phase = "net"
  /\ s \notin served
  /\ conn[s].state \in states
  /\ served' = served \cup {s}
  /\ UNCHANGED phase

\* fail(): an authentication attempt failed, and p is what the handler left of
\* the request.  The last failure allowed closes the window and the connection.
FailAttempt(s, p) ==
  \/ /\ conn[s].fails + 1 < MaxAuthFails
     /\ conn' = [conn EXCEPT ![s].fails = @ + 1]
     /\ p2' = p
     /\ UNCHANGED active
  \/ /\ conn[s].fails + 1 >= MaxAuthFails
     /\ active' = FALSE
     /\ conn' = [conn EXCEPT ![s] = NoConn]
     /\ p2' = DropRequestOf({s}, p)
-----------------------------------------------------------------------------
(***************************************************************************)
(* The buttons of the console.                                             *)
(***************************************************************************)

\* Y: opens a window, or closes the one that has time left.
PressPair ==
  /\ phase = "ui"
  /\ p2' = NoRequest
  /\ \/ /\ active /\ left > 0
        /\ active' = FALSE
        /\ UNCHANGED <<left, win, attempts, byCode, byNumber>>
     \/ /\ ~active \/ left = 0
        /\ win < MaxWindows
        /\ active' = TRUE
        /\ left' = WindowTicks
        /\ win' = win + 1
        /\ attempts' = 0
        /\ byCode' = 0 /\ byNumber' = 0
  /\ UNCHANGED <<conn, keys, loop, counters, delivered>>

\* A: the number on both screens is the same.
Approve ==
  /\ phase = "ui"
  /\ p2.stage = "waiting"
  /\ keys' = Add(keys, NumberKey(p2.psk), p2.label)
  /\ p2' = [p2 EXCEPT !.stage = "approved", !.dl = Unset]
  /\ CloseWindow
  /\ byNumber' = byNumber + 1
  /\ UNCHANGED <<left, win, attempts, conn, loop, counters, byCode, delivered>>

\* B: it is not.
Deny ==
  /\ phase = "ui"
  /\ p2.stage = "waiting"
  /\ p2' = Refused(p2)
  /\ attempts' = attempts + 1
  /\ active' = (active /\ attempts + 1 < MaxAttempts)
  /\ UNCHANGED <<left, win, conn, keys, loop, counters, history>>

\* SELECT twice.
ClearKeys ==
  /\ phase = "ui"
  /\ keys' = <<>>
  /\ UNCHANGED <<window, attempts, p2, conn, loop, counters, history>>

\* R switches the page server off; losing the network closes everything.
StopServing ==
  /\ phase = "ui"
  /\ \E S \in {{Web}, Slots} : CloseSlots(S)
  /\ UNCHANGED <<window, attempts, keys, loop, counters, history>>
-----------------------------------------------------------------------------
(***************************************************************************)
(* Connections.                                                            *)
(***************************************************************************)

\* A new client takes the slot; whoever held it is closed first.
Connect(s) ==
  /\ phase = "net"
  /\ opened < MaxConns
  /\ opened' = opened + 1
  /\ conn' = [conn EXCEPT ![s] = [id |-> opened + 1, state |-> "open", fails |-> 0]]
  /\ p2' = DropRequestOf({s}, p2)
  /\ served' = served \cup {s}
  /\ UNCHANGED <<window, attempts, keys, phase, reveals, history>>

\* The peer closed, a socket error, a protocol error or the idle timeout.
Disconnect(s) ==
  /\ phase = "net"
  /\ conn[s].id # 0
  /\ CloseSlots({s})
  /\ served' = served \cup {s}
  /\ UNCHANGED <<window, attempts, keys, phase, counters, history>>
-----------------------------------------------------------------------------
(***************************************************************************)
(* The requests.                                                           *)
(***************************************************************************)

Hello(s) ==
  /\ Serve(s, {"open"})
  /\ conn' = [conn EXCEPT ![s].state = "hello"]
  /\ UNCHANGED <<window, attempts, p2, keys, counters, history>>

\* PAIR with the code of window w (0: a mistyped code).
Pair(s, w, l) ==
  /\ Serve(s, {"hello"})
  /\ \/ /\ ~active \/ w # win
        /\ FailAttempt(s, p2)
        /\ UNCHANGED <<keys, byCode>>
     \/ /\ active /\ w = win
        /\ keys' = Add(keys, CodeKey(w), l)
        /\ CloseWindow
        /\ byCode' = byCode + 1
        /\ UNCHANGED <<conn, p2>>
  /\ UNCHANGED <<left, win, attempts, counters, byNumber, delivered>>

\* PAIR_BEGIN: the client commits to a key it will show later.
PairBegin(s, l) ==
  /\ Serve(s, {"hello"})
  /\ \/ /\ ~active
        /\ FailAttempt(s, p2)
     \/ /\ active
        /\ ~AttemptsLeft
        /\ active' = FALSE
        /\ UNCHANGED <<conn, p2>>
     \/ /\ active
        /\ AttemptsLeft
        /\ ~(p2.stage \in Pending /\ p2.owner # s)
        /\ \/ p2' = NoRequest                       \* no secure random source
           \/ p2' = [stage |-> "committed", owner |-> s, label |-> l, secret |-> TRUE,
                     psk |-> 0, dl |-> Unset, by |-> conn[s].id]
        /\ UNCHANGED <<active, conn>>
  /\ UNCHANGED <<left, win, attempts, keys, counters, history>>

\* PAIR_REVEAL: the key must match the commitment, and then the number shows.
PairReveal(s, sent) ==
  /\ Serve(s, {"hello"})
  /\ \/ /\ ~active
        /\ FailAttempt(s, p2)
        /\ UNCHANGED <<attempts, reveals, delivered>>
     \/ /\ active
        /\ p2.stage = "committed" /\ p2.owner = s
        /\ \/ /\ sent = "mismatch"
              /\ attempts' = attempts + 1
              /\ FailAttempt(s, NoRequest)
              /\ UNCHANGED <<reveals, delivered>>
           \/ /\ sent = "bad key"
              /\ attempts' = attempts + 1
              /\ p2' = NoRequest
              /\ UNCHANGED <<active, conn, reveals, delivered>>
           \/ /\ sent = "committed"
              /\ reveals < MaxReveals
              /\ reveals' = reveals + 1
              /\ p2' = [p2 EXCEPT !.stage = "waiting", !.psk = reveals + 1,
                                  !.secret = FALSE, !.dl = Unset]
              /\ delivered' = 0
              /\ UNCHANGED <<active, conn, attempts>>
  /\ UNCHANGED <<left, win, keys, opened, byCode, byNumber>>

\* PAIR_POLL collects the person's answer, once.
PairPoll(s) ==
  /\ Serve(s, {"hello"})
  /\ p2.owner = s
  /\ p2.stage \in {"approved", "denied"}
  /\ delivered' = delivered + (IF p2.stage = "approved" THEN 1 ELSE 0)
  /\ p2' = Answered(p2)
  /\ UNCHANGED <<window, attempts, conn, keys, counters, byCode, byNumber>>

\* AUTH with a key the client kept; k may be long forgotten by the console.
Auth(s, k) ==
  /\ Serve(s, {"hello"})
  /\ \/ /\ HasKey(keys, k)
        /\ conn' = [conn EXCEPT ![s].state = "authed"]
        /\ UNCHANGED <<active, p2>>
     \/ /\ ~HasKey(keys, k)
        /\ FailAttempt(s, p2)
  /\ UNCHANGED <<left, win, attempts, keys, counters, history>>

PairForget(s, k) ==
  /\ Serve(s, {"authed"})
  /\ HasKey(keys, k)
  /\ keys' = Forget(keys, k)
  /\ UNCHANGED <<window, attempts, p2, conn, counters, history>>
-----------------------------------------------------------------------------
(***************************************************************************)
(* The loop, and the timers at the end of a step.                          *)
(***************************************************************************)

BeginStep ==
  /\ phase = "ui"
  /\ phase' = "net"
  /\ UNCHANGED <<window, attempts, p2, conn, keys, served, counters, history>>

After(ticks, dt) == IF ticks > dt THEN ticks - dt ELSE 0

\* Mutant: every step starts the clock of the request again.
DeadlineRestarted(dt) == IF p2.stage = "waiting" THEN PromptTicks ELSE CommitTicks

\* The clock of a request starts at the first step that sees it.
Deadline(dt) ==
  IF p2.dl = Unset
  THEN IF p2.stage = "waiting" THEN PromptTicks ELSE CommitTicks
  ELSE After(p2.dl, dt)

Expired(dt) == p2.stage \in Pending /\ Deadline(dt) = 0

\* An unanswered number counts as refused; an unfinished request is forgotten.
TimedRequest(dt) ==
  IF p2.stage \notin Pending THEN p2
  ELSE IF ~Expired(dt) THEN [p2 EXCEPT !.dl = Deadline(dt)]
  ELSE IF p2.stage = "waiting" THEN Refused(p2)
  ELSE NoRequest

\* The window closes by itself, but never under a number the person looks at;
\* p is the request after its own clock was read.
ShutsWhenIdle(dt, p) == active /\ After(left, dt) = 0 /\ p.stage = "idle"  \* mutant
Shuts(dt, p) == active /\ After(left, dt) = 0 /\ p.stage # "waiting"

EndStep(dt) ==
  LET p == TimedRequest(dt)
  IN  /\ phase = "net"
      /\ phase' = "ui"
      /\ left' = After(left, dt)
      /\ attempts' = attempts + (IF Expired(dt) /\ p2.stage = "waiting" THEN 1 ELSE 0)
      /\ p2' = IF Shuts(dt, p) THEN NoRequest ELSE p
      /\ active' = (active /\ ~Shuts(dt, p))
      /\ served' = {}
      /\ UNCHANGED <<win, conn, keys, counters, history>>

Buttons == PressPair \/ Approve \/ Deny \/ ClearKeys \/ StopServing

Requests(s) ==
  \/ Hello(s)
  \/ \E w \in 0..MaxWindows, l \in Label : Pair(s, w, l)
  \/ \E l \in Label : PairBegin(s, l)
  \/ \E sent \in {"committed", "mismatch", "bad key"} : PairReveal(s, sent)
  \/ PairPoll(s)
  \/ \E k \in Key : Auth(s, k) \/ PairForget(s, k)

Next ==
  \/ Buttons
  \/ BeginStep
  \/ \E s \in Slots : Connect(s) \/ Disconnect(s) \/ Requests(s)
  \/ \E dt \in {0, 1} : EndStep(dt)

\* The loop keeps running and the clock keeps moving; nobody has to press a
\* button, and no client has to go on.
Fairness == WF_vars(BeginStep) /\ SF_vars(EndStep(1))

Spec == Init /\ [][Next]_vars /\ Fairness
-----------------------------------------------------------------------------
(***************************************************************************)
(* Properties.                                                             *)
(***************************************************************************)

\* A request that is still open belongs to a connection that is still there,
\* the very one that made it: closing or replacing that connection takes the
\* request with it (close_conn), so the console never shows a number nobody is
\* waiting for.
RequestOfLiveConnection ==
  p2.stage \in Pending => conn[p2.owner].id = p2.by /\ p2.by # 0

\* No window admits more than MaxAttempts refused numbers, whether the client
\* broke its commitment, the person refused or nobody answered; and while a
\* request is open there is still an attempt left for it.
AttemptBudget ==
  /\ attempts <= MaxAttempts
  /\ p2.stage \in Pending => attempts < MaxAttempts

\* The ephemeral secret exists only between PAIR_BEGIN and PAIR_REVEAL, and the
\* derived key only from PAIR_REVEAL until the answer is given or refused.
SecretsWiped ==
  /\ p2.secret => p2.stage = "committed"
  /\ p2.psk # 0 => p2.stage \in {"waiting", "approved"}

\* One window never admits two pairings by code, nor two by number.
OneKeyPerMethod == byCode <= 1 /\ byNumber <= 1

\* An approval is told to a client at most once.
DeliveredOnce == delivered <= 1

\* Whatever is paired, replaced and forgotten, no key and no name is stored twice.
StoreSound == Distinct(keys)

\* How many ticks the number on the screen, and the window, can last yet: a number
\* shown in the last moment of a window has its whole prompt still to come.
NumberTime ==
  IF p2.stage # "waiting" THEN 0 ELSE IF p2.dl = Unset THEN PromptTicks + 1 ELSE p2.dl

WindowTime == IF left > 0 THEN left + PromptTicks + 1 ELSE NumberTime

\* Nothing a client does gives a number or a window more time, and every tick
\* takes some: a window ends within WindowTicks + PromptTicks + 1 ticks, for no
\* second number is shown in it once its own time is up, however often a client
\* asks again, answers, leaves or comes back.
TimeRunsOut ==
  [][/\ p2.stage = "waiting" /\ p2'.stage = "waiting" /\ p2'.psk = p2.psk =>
          NumberTime' <= NumberTime /\ (EndStep(1) => NumberTime' < NumberTime)
     /\ active /\ active' /\ win' = win =>
          WindowTime' <= WindowTime /\ (EndStep(1) => WindowTime' < WindowTime)]_vars

\* A number on the screen does not stay for ever: the person answers, or the
\* client leaves, or it expires.
NumberResolves ==
  \A n \in 1..MaxReveals :
    (p2.stage = "waiting" /\ p2.psk = n) ~> ~(p2.stage = "waiting" /\ p2.psk = n)
=============================================================================
