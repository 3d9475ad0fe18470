-------------------------------- MODULE Device --------------------------------
(***************************************************************************)
(* The one connection that the tools of the MCP server share               *)
(* (DeviceConnection): opened when a tool needs it, kept, found closed and  *)
(* opened again, given up and opened anew for a second try.  Tools are      *)
(* called while others run; what each does between two awaits is a step.    *)
(*                                                                         *)
(* A tool makes one request.  The requests on a connection take turns        *)
(* (#exclusive of client.ts): one is sent when the one before has its        *)
(* answer or has waited too long.  The console serves one connection of     *)
(* this kind, the newest it accepted.                                      *)
(***************************************************************************)
EXTENDS Naturals, Sequences

CONSTANTS
  Tool,         \* the calls of tools, each made once
  Safe,         \* those called idempotent: they read
  MaxLines      \* bound of the model: the connections that are made

ASSUME DeviceAssumption == Safe \subseteq Tool /\ MaxLines \in Nat

VARIABLES
  tool,       \* what each call is doing: its connection, its tries, whether it scanned
  current,    \* #client: the connection kept, 0 for none
  lines,      \* the connections made so far: both ends, the requests asked on it,
              \* how many of them are settled here and carried out there
  carried,    \* history: how often the console carried out each call
  shared      \* history: two calls were under way at once

deviceVars == <<tool, current, lines, carried, shared>>

NewTool == [at |-> "new", on |-> 0, tries |-> 0, scanned |-> FALSE]
NewLine == [end |-> "opening", peer |-> "queued", asked |-> <<>>, settled |-> 0, served |-> 0]

Calling == [at : {"new", "locating", "opening", "asking", "answered", "failed"},
            on : Nat, tries : 0..2, scanned : BOOLEAN]
Line == [end : {"opening", "open", "closed", "broken"}, peer : {"queued", "served", "gone"},
         asked : Seq(Tool), settled : Nat, served : Nat]

DeviceTypeOK ==
  /\ tool \in [Tool -> Calling]
  /\ lines \in Seq(Line)
  /\ current \in 0..Len(lines)
  /\ \A c \in Tool : tool[c].at \in {"opening", "asking"} => tool[c].on \in DOMAIN lines
  /\ carried \in [Tool -> Nat]
  /\ shared \in BOOLEAN

DeviceInit ==
  /\ tool = [c \in Tool |-> NewTool]
  /\ current = 0 /\ lines = <<>>
  /\ carried = [c \in Tool |-> 0] /\ shared = FALSE
-----------------------------------------------------------------------------
(***************************************************************************)
(* A connection of the library, and the requests on it.                    *)
(***************************************************************************)
Ended(c, at) == [tool EXCEPT ![c] = [NewTool EXCEPT !.at = at, !.tries = tool[c].tries]]

Busy(c) == tool[c].at \in {"locating", "opening", "asking"}
Live(l) == l.end \in {"opening", "open"}

\* Of the requests asked, those before this one are settled; it was sent as the last.
Sent(l) == IF l.settled < Len(l.asked) THEN l.settled + 1 ELSE Len(l.asked)

AskedOn(ls, n, c) == [ls EXCEPT ![n].asked = Append(@, c)]

\* Whoever waits on it fails; what was sent may still arrive.
Over(l, how) ==
  IF Live(l) THEN [l EXCEPT !.end = how, !.asked = SubSeq(@, 1, Sent(l)), !.settled = Sent(l)] ELSE l

Closed(ls, n) == IF n = 0 THEN ls ELSE [ls EXCEPT ![n] = Over(@, "closed")]
-----------------------------------------------------------------------------
(***************************************************************************)
(* get and locate.                                                         *)
(***************************************************************************)
Usable == current # 0 /\ lines[current].end = "open"

Start(c) ==
  /\ tool[c].at = "new"
  /\ \/ /\ Usable
        /\ tool' = [tool EXCEPT ![c] = [NewTool EXCEPT !.at = "asking", !.on = current, !.tries = 1]]
        /\ lines' = AskedOn(lines, current, c)
     \/ /\ ~Usable
        /\ tool' = [tool EXCEPT ![c] = [NewTool EXCEPT !.at = "locating", !.tries = 1]]
        /\ UNCHANGED lines
  /\ shared' = (shared \/ \E b \in Tool : Busy(b))
  /\ UNCHANGED <<current, carried>>

Connect(c) ==
  /\ tool[c].at = "locating" /\ Len(lines) < MaxLines
  /\ lines' = Append(lines, NewLine)
  /\ tool' = [tool EXCEPT ![c].at = "opening", ![c].on = Len(lines) + 1]
  /\ UNCHANGED <<current, carried, shared>>

\* Hello and AUTH were answered: it is kept, whatever was kept meanwhile.
Opened(c) ==
  LET n == tool[c].on
  IN  /\ tool[c].at = "opening" /\ lines[n].end = "opening" /\ lines[n].peer # "queued"
      /\ current' = n
      /\ lines' = AskedOn([lines EXCEPT ![n].end = "open"], n, c)
      /\ tool' = [tool EXCEPT ![c].at = "asking", ![c].scanned = FALSE]
      /\ UNCHANGED <<carried, shared>>

\* open closes what it could not finish.
Abandoned(c) == IF tool[c].at = "opening" THEN Closed(lines, tool[c].on) ELSE lines

\* No address is remembered, or nobody answers there: each host of the network is asked.
Scan(c) ==
  /\ tool[c].at \in {"locating", "opening"} /\ ~tool[c].scanned
  /\ tool' = [tool EXCEPT ![c].at = "locating", ![c].on = 0, ![c].scanned = TRUE]
  /\ lines' = Abandoned(c)
  /\ UNCHANGED <<current, carried, shared>>

NotFound(c) ==
  /\ tool[c].at \in {"locating", "opening"}
  /\ tool' = Ended(c, "failed")
  /\ lines' = Abandoned(c)
  /\ UNCHANGED <<current, carried, shared>>
-----------------------------------------------------------------------------
(***************************************************************************)
(* run.                                                                    *)
(***************************************************************************)
Turn(n) == lines[n].asked[lines[n].settled + 1]
NextTurn(n) == [lines EXCEPT ![n].settled = @ + 1]

Answered(n) ==
  /\ lines[n].end = "open" /\ lines[n].settled < lines[n].served
  /\ tool' = Ended(Turn(n), "answered")
  /\ lines' = NextTurn(n)
  /\ UNCHANGED <<current, carried, shared>>

RetriesAny(c, ls) == tool[c].tries = 1 /\ ls[tool[c].on].end # "broken"    \* mutant: writes, too
Retries(c, ls) == c \in Safe /\ tool[c].tries = 1 /\ ls[tool[c].on].end # "broken"

Forgotten(ls) == ls                            \* mutant: forgets the connection and leaves it open
GivenUp(ls) == Closed(ls, current)

\* The catch of run, when ls is what is left of the connections.
Caught(c, ls) ==
  /\ \/ /\ Retries(c, ls)
        /\ lines' = GivenUp(ls) /\ current' = 0
        /\ tool' = [tool EXCEPT ![c] = [NewTool EXCEPT !.at = "locating", !.tries = 2]]
     \/ /\ ~Retries(c, ls)
        /\ lines' = ls /\ UNCHANGED current
        /\ tool' = Ended(c, "failed")
  /\ UNCHANGED <<carried, shared>>

TimesOut(n) ==
  /\ lines[n].end = "open" /\ lines[n].settled < Len(lines[n].asked)
  /\ Caught(Turn(n), NextTurn(n))

RejectedIfKept(c) ==                           \* mutant: who waits on another connection is not told
  tool[c].at = "asking" /\ tool[c].on = current /\ ~Live(lines[current]) /\ Caught(c, lines)
Rejected(c) == tool[c].at = "asking" /\ ~Live(lines[tool[c].on]) /\ Caught(c, lines)

\* The socket fails or ends, or a frame does not verify.
Lost(n) ==
  /\ \/ Live(lines[n]) /\ lines' = Closed(lines, n)
     \/ lines[n].end = "open" /\ lines' = [lines EXCEPT ![n] = Over(@, "broken")]
  /\ UNCHANGED <<tool, current, carried, shared>>
-----------------------------------------------------------------------------
(***************************************************************************)
(* The console and the network.                                            *)
(***************************************************************************)
Accept(n) ==
  /\ lines[n].peer = "queued"
  /\ lines' = [m \in DOMAIN lines |->
                 IF m = n THEN [lines[m] EXCEPT !.peer = "served"]
                 ELSE IF lines[m].peer = "served" THEN [lines[m] EXCEPT !.peer = "gone"]
                 ELSE lines[m]]
  /\ UNCHANGED <<tool, current, carried, shared>>

Carry(n) ==
  LET c == lines[n].asked[lines[n].served + 1]
  IN  /\ lines[n].peer = "served" /\ lines[n].served < Sent(lines[n])
      /\ carried' = [carried EXCEPT ![c] = @ + 1]
      /\ lines' = [lines EXCEPT ![n].served = @ + 1]
      /\ UNCHANGED <<tool, current, shared>>

\* The idle timeout, Wi-Fi, another computer, or a scan of this one.
Drop(n) ==
  /\ lines[n].peer = "served"
  /\ lines' = [lines EXCEPT ![n].peer = "gone"]
  /\ UNCHANGED <<tool, current, carried, shared>>

Progress ==
  \/ \E c \in Tool : Connect(c) \/ Opened(c) \/ Scan(c) \/ NotFound(c) \/ Rejected(c)
  \/ \E n \in DOMAIN lines : Answered(n) \/ TimesOut(n)

DeviceNext ==
  \/ \E c \in Tool : Start(c)
  \/ Progress
  \/ \E n \in DOMAIN lines : Lost(n) \/ Accept(n) \/ Carry(n) \/ Drop(n)

\* The timers of the library run.
DeviceSpec == DeviceInit /\ [][DeviceNext]_deviceVars /\ WF_deviceVars(Progress)
-----------------------------------------------------------------------------
(***************************************************************************)
(* Properties.                                                             *)
(***************************************************************************)
\* What changes the card is carried out at most once, and what only reads at most
\* twice, however connections are lost, replaced and given up by other calls.
AtMostOnce == \A c \in Tool : carried[c] <= IF c \in Safe THEN 2 ELSE 1

\* "One lazily opened, automatically re-opened connection to the console"
\* (connection.ts:28): it is one as long as no tool is called while another runs.
\* Whatever is given up, was dropped or could not be opened is closed before the
\* next is even tried.
OneUnlessShared ==
  ~shared => \A m, n \in DOMAIN lines : Live(lines[m]) /\ Live(lines[n]) => m = n

\* Every call of a tool ends, whatever others do to its connection.
CallsEnd == \A c \in Tool : Busy(c) ~> ~Busy(c)
=============================================================================
