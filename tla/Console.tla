------------------------------ MODULE Console ------------------------------
(***************************************************************************)
(* The main loops of the two console programs (3ds/source/main.c and       *)
(* dsi/source/main.c): the buttons, the network, one step of the server    *)
(* and the screen, frame after frame.                                      *)
(*                                                                         *)
(* Wi-Fi comes and goes.  The 3DS leaves it to the system and looks at it  *)
(* every half second; the DSi reconnects by itself and has a menu to pick  *)
(* another network.  A client may ask to pair by number: the number is on  *)
(* the screen once it is drawn, and the person answers with A or B.        *)
(*                                                                         *)
(* One button goes down in a frame.  A clock that is compared with the     *)
(* time is a step that may or may not be due.                              *)
(***************************************************************************)
EXTENDS Integers, Sequences, SequencesExt

CONSTANTS
  Build,        \* the programs looked at: "3ds", "dsi"
  Addr,         \* addresses the network gives
  Net,          \* names of networks
  Failing,      \* the programs whose calls to listen fail at times
  MaxNets,      \* networks the DSi remembers (MAX_SAVED_NETS)
  MaxPresses,   \* bound: buttons pressed
  MaxFaults,    \* bound: drops of the network, calls that fail
  MaxNumbers    \* bound: requests to pair

ASSUME ConsoleAssumption ==
  /\ Failing \subseteq Build
  /\ Build \subseteq {"3ds", "dsi"} /\ Addr \subseteq Nat \ {0} /\ Addr # {} /\ Net # {}
  /\ MaxNets \in Nat \ {0} /\ MaxPresses \in Nat /\ MaxFaults \in Nat /\ MaxNumbers \in Nat

VARIABLES
  build,      \* which of the programs runs
  at,         \* where its loop is
  net,        \* the network: up, down, looked for, or refused; the address it gave
  con,        \* the globals of the program
  srv,        \* the server: the addresses it listens on, whether the listener is broken
  pair,       \* the pairing window, and the request that waits for an answer
  screen,     \* what was drawn last
  blind,      \* a request was answered whose number was not on the screen (no code reads it)
  held,       \* START is down
  presses, faults, numbers

vars == <<build, at, net, con, srv, pair, screen, blind, held, presses, faults, numbers>>

Off == 0
NoRequest == [number |-> 0, from |-> "raw"]
NoServer == [listen |-> Off, web |-> Off, broken |-> FALSE]
NoPair == [open |-> FALSE, request |-> NoRequest]
Blank == [editor |-> FALSE, number |-> 0]
NewConsole ==
  [ wifi |-> FALSE, ip |-> Off, listening |-> FALSE, webOn |-> TRUE, webListening |-> FALSE,
    waiting |-> FALSE,          \* a retry is not due yet
    reconnecting |-> FALSE,     \* DSi: an attempt to associate is under way
    soc |-> FALSE,              \* 3DS: the sockets are set up
    editor |-> FALSE, redraw |-> FALSE, armed |-> FALSE, mode |-> "READ_ONLY",
    nets |-> <<>> ]             \* DSi: the networks it remembers

Dsi == build = "dsi"
Fault == faults < MaxFaults /\ faults' = faults + 1
CallFails == build \in Failing /\ Fault
-----------------------------------------------------------------------------
(***************************************************************************)
(* The server, as the loops use it.                                        *)
(***************************************************************************)

\* What is left of the request when the clients of these connections are dropped.
Without(conns) == IF pair.request.from \in conns THEN [pair EXCEPT !.request = NoRequest] ELSE pair

\* stop_listening, with the page and every client
Stopped(c) == [c EXCEPT !.listening = FALSE, !.webListening = FALSE]
StopServer == srv' = NoServer /\ pair' = Without({"raw", "web"})

\* sync_web for a program in state c whose server listens on s.listen: the page follows the switch
WheneverOn(c) == c.webOn                                \* mutant: whether or not it listens
Served(c) == c.webOn /\ (c.listening \/ Dsi)
SyncWeb(c, s, opens) ==
  /\ con' = [c EXCEPT !.webListening = Served(c) /\ opens]
  /\ srv' = IF Served(c) /\ opens THEN [s EXCEPT !.web = c.ip] ELSE [s EXCEPT !.web = Off]

\* ndp_server_listen on ip: the page follows when it succeeds, the program is in state f when it fails
Listen(c, ip, f) ==
  \/ /\ pair' = Without({"raw", "web"})
     /\ \E opens \in BOOLEAN :
          /\ IF opens THEN UNCHANGED faults ELSE CallFails
          /\ SyncWeb([c EXCEPT !.listening = TRUE, !.ip = ip], [NoServer EXCEPT !.listen = ip], opens)
  \/ CallFails /\ StopServer /\ con' = f
-----------------------------------------------------------------------------
(***************************************************************************)
(* The networks the DSi remembers.                                         *)
(***************************************************************************)
Remember(nets, n) ==
  IF n \in Range(nets) THEN nets
  ELSE Append(IF Len(nets) < MaxNets THEN nets ELSE Tail(nets), n)

\* connect_wifi: on network n, which gives address ip
Joined(c, n, ip) == [c EXCEPT !.wifi = TRUE, !.ip = ip, !.nets = Remember(@, n)]
-----------------------------------------------------------------------------
Init ==
  /\ build \in Build
  /\ at = "off" /\ net = [status |-> "down", addr |-> Off]
  /\ con = NewConsole /\ srv = NoServer /\ pair = NoPair
  /\ screen = Blank /\ blind = FALSE
  /\ held = FALSE
  /\ presses = 0 /\ faults = 0 /\ numbers = 0

\* The program starts.  On the DSi it goes on only once it is connected and listens.
Boot3ds ==
  /\ at = "off" /\ ~Dsi
  /\ at' = "keys" /\ con' = NewConsole /\ screen' = Blank
  /\ UNCHANGED <<build, net, srv, pair, blind, held, presses, faults, numbers>>

\* A saved network in range, or the one picked.
BootDsi ==
  /\ at = "off" /\ Dsi
  /\ \E n \in Net, ip \in Addr, opens \in BOOLEAN :
       /\ net' = [status |-> "up", addr |-> ip]
       /\ IF opens THEN UNCHANGED faults ELSE CallFails
       /\ SyncWeb(Joined([NewConsole EXCEPT !.listening = TRUE, !.nets = con.nets], n, ip),
                  [NoServer EXCEPT !.listen = ip], opens)
  /\ at' = "keys" /\ screen' = Blank
  /\ UNCHANGED <<build, pair, blind, held, presses, numbers>>

-----------------------------------------------------------------------------
(***************************************************************************)
(* The buttons.                                                            *)
(***************************************************************************)

\* Button b goes down ("none": no button); START may stay down or be let go.
Goes(b) ==
  /\ at = "keys"
  /\ IF b = "none" THEN UNCHANGED presses ELSE presses < MaxPresses /\ presses' = presses + 1
  /\ held' \in (IF b = "START" THEN {TRUE} ELSE {FALSE, held}) /\ (b = "START" => ~held)
  /\ UNCHANGED <<build, net, screen, numbers>>

\* Outside the folder editor START ends the program: the 3DS asks for a press, the DSi whether it is down.
Ends(b) == IF Dsi THEN held' ELSE b = "START"
Quits(b) == ~con.editor /\ Ends(b)

Quit ==
  /\ \E b \in {"none", "START", "other"} : Goes(b) /\ Quits(b)
  /\ at' = "off" /\ srv' = NoServer /\ pair' = NoPair
  /\ con' = [NewConsole EXCEPT !.nets = con.nets]
  /\ UNCHANGED <<faults, blind>>

Pressed(b) == Goes(b) /\ ~Quits(b) /\ at' = "net"
Button(b) == Pressed(b) /\ UNCHANGED blind
Drawn(c) == [c EXCEPT !.redraw = TRUE]

NoButton == Button("none") /\ UNCHANGED <<con, srv, pair, faults>>

\* A or B under a number: ndp_server_pair2_decide.  (A full key store leaves the window open.)
Asked == pair.request.number # 0
Decide(b) ==
  /\ Pressed(b) /\ ~con.editor /\ Asked
  /\ blind' = (blind \/ screen.number # pair.request.number)
  /\ \E open \in {FALSE, pair.open} : pair' = [NoPair EXCEPT !.open = open]
  /\ con' = Drawn(con)
  /\ UNCHANGED <<srv, faults>>

\* The folder editor takes every button while it is open: START closes it, B does in the root.
EditorKey(b) ==
  /\ Button(b) /\ con.editor
  /\ \E open \in BOOLEAN :
       /\ b = "START" => ~open
       /\ ~open => b \in {"B", "START"}
       /\ con' = [Drawn(con) EXCEPT !.editor = open]
  /\ UNCHANGED <<srv, pair, faults>>

OpenEditor ==
  /\ Button("A") /\ ~con.editor /\ ~Asked
  /\ con' = [Drawn(con) EXCEPT !.editor = TRUE]
  /\ UNCHANGED <<srv, pair, faults>>

\* Y: the window closes, or opens anew; one whose time is over opens anew too.
TogglePairing ==
  /\ Button("Y") /\ ~con.editor
  /\ \E open \in (IF Asked THEN BOOLEAN ELSE {~pair.open}) : pair' = [NoPair EXCEPT !.open = open]
  /\ con' = Drawn(con)
  /\ UNCHANGED <<srv, faults>>

\* SELECT, twice within five seconds: ndp_server_clear_keys.
ForgetKeys ==
  /\ Button("SELECT") /\ ~con.editor
  /\ con' = [Drawn(con) EXCEPT !.armed = ~@]
  /\ UNCHANGED <<srv, pair, faults>>

ToggleWeb ==
  /\ Button("R") /\ ~con.editor
  /\ \E opens \in BOOLEAN :
       /\ IF opens THEN UNCHANGED faults ELSE CallFails
       /\ SyncWeb([Drawn(con) EXCEPT !.webOn = ~@], srv, opens)
  /\ pair' = Without({"web"})

ToggleMode ==
  /\ Button("X") /\ ~con.editor
  /\ con' = [Drawn(con) EXCEPT !.mode = IF @ = "READ_ONLY" THEN "DEVELOPMENT" ELSE "READ_ONLY"]
  /\ UNCHANGED <<srv, pair, faults>>

\* L on the DSi: off the network, and the person picks one, or none.
WifiMenu ==
  LET c == [Stopped(Drawn(con)) EXCEPT !.wifi = FALSE]
  IN  /\ at = "keys" /\ Dsi /\ ~con.editor /\ ~held
      /\ presses < MaxPresses /\ presses' = presses + 1 /\ at' = "net"
      /\ \/ /\ net' \in {[status |-> st, addr |-> Off] : st \in {"down", "failed"}}
            /\ StopServer /\ con' = [c EXCEPT !.reconnecting = FALSE, !.waiting = FALSE]
            /\ UNCHANGED faults
         \/ \E n \in Net, ip \in Addr :
              /\ net' = [status |-> "up", addr |-> ip]
              /\ Listen(Joined(c, n, ip), ip, Joined(c, n, ip))
      /\ UNCHANGED <<build, screen, blind, held, numbers>>
-----------------------------------------------------------------------------
(***************************************************************************)
(* The network, every half second.                                         *)
(***************************************************************************)

\* It listens again when it does not, or when the address is a new one.
AddressKept == ~con.waiting /\ ~con.listening            \* mutant: a new address is not looked at
Relisten == ~con.waiting /\ (~con.listening \/ net.addr # con.ip)

\* service_network
Check3ds ==
  LET up == net.status = "up"
      c == [con EXCEPT !.wifi = up, !.redraw = @ \/ con.wifi # up]
      ready == [c EXCEPT !.soc = TRUE]
      lost == Stopped(Drawn(ready))
      Same == UNCHANGED <<srv, pair, faults>>
  IN  /\ at = "net" /\ ~Dsi /\ at' = "step"
      /\ \/ /\ ~up /\ con.wifi
            /\ StopServer /\ con' = [Stopped(c) EXCEPT !.ip = Off] /\ UNCHANGED faults
         \/ ~up /\ ~con.wifi /\ con' = c /\ Same
         \/ up /\ ~con.soc /\ con.waiting /\ con' = Drawn(c) /\ Same
         \/ /\ up /\ ~con.soc /\ ~con.waiting /\ CallFails                         \* start_soc
            /\ con' = [Drawn(c) EXCEPT !.waiting = TRUE] /\ UNCHANGED <<srv, pair>>
         \/ /\ up /\ (con.soc \/ ~con.waiting)
            /\ \/ net.addr = Off /\ con.listening /\ StopServer /\ con' = [lost EXCEPT !.ip = Off] /\ UNCHANGED faults
               \/ net.addr = Off /\ ~con.listening /\ con' = [ready EXCEPT !.ip = Off] /\ Same
               \/ net.addr # Off /\ ~Relisten /\ con' = ready /\ Same
               \/ net.addr # Off /\ Relisten /\ Listen(lost, net.addr, [lost EXCEPT !.waiting = TRUE])
      /\ UNCHANGED <<build, net, screen, blind, held, presses, numbers>>

\* net_check: at a change of the association; then, while it is lost, another attempt
CheckDsi ==
  LET up == net.status = "up"
      lost == [Stopped(con) EXCEPT !.wifi = FALSE, !.reconnecting = FALSE]
      c == IF con.wifi THEN lost ELSE [con EXCEPT !.reconnecting = @ /\ net.status # "failed"]
      tries == ~c.reconnecting /\ ~c.waiting
      back == [con EXCEPT !.wifi = TRUE, !.ip = net.addr, !.reconnecting = FALSE]
  IN  /\ at = "net" /\ Dsi /\ at' = "step"
      /\ \/ up /\ con.wifi /\ UNCHANGED <<net, con, srv, pair, faults>>
         \/ up /\ ~con.wifi /\ Listen(back, net.addr, back) /\ UNCHANGED net
         \/ /\ ~up
            /\ con' = [c EXCEPT !.reconnecting = @ \/ tries, !.waiting = @ \/ tries]
            /\ net' = IF tries THEN [net EXCEPT !.status = "searching"] ELSE net
            /\ IF con.wifi THEN StopServer ELSE UNCHANGED <<srv, pair>>
            /\ UNCHANGED faults
      /\ UNCHANGED <<build, screen, blind, held, presses, numbers>>

NotDue ==
  /\ at = "net" /\ at' = "step"
  /\ UNCHANGED <<build, net, con, srv, pair, screen, blind, held, presses, faults, numbers>>
-----------------------------------------------------------------------------
(***************************************************************************)
(* One step of the server, and the screen.                                 *)
(***************************************************************************)
\* What the step may do to the window and its request.
Activity ==
  \/ UNCHANGED <<pair, con, numbers>>
  \/ /\ pair.open /\ ~Asked /\ numbers < MaxNumbers /\ numbers' = numbers + 1
     /\ \E from \in {"raw"} \cup (IF srv.web = Off THEN {} ELSE {"web"}) :
          pair' = [pair EXCEPT !.request = [number |-> numbers', from |-> from]]
     /\ con' = Drawn(con)
  \/ pair.open /\ pair' = [pair EXCEPT !.open = Asked, !.request = NoRequest] /\ con' = Drawn(con) /\ UNCHANGED numbers

Step ==
  /\ at = "step" /\ at' = "draw"
  /\ \/ ~con.listening /\ UNCHANGED <<con, srv, pair, numbers>>
     \/ con.listening /\ srv.listen # Off /\ ~srv.broken /\ Activity /\ UNCHANGED srv
     \/ /\ con.listening /\ (srv.listen = Off \/ srv.broken)                        \* it returns -1
        /\ IF Dsi THEN UNCHANGED <<con, srv, pair>>
           ELSE /\ StopServer
                /\ con' = [Stopped(Drawn(con)) EXCEPT !.ip = Off, !.waiting = TRUE]
        /\ UNCHANGED numbers
  /\ UNCHANGED <<build, net, screen, blind, held, presses, faults>>

\* The editor owns the screen; otherwise the number of a request is on it.
Picture == [editor |-> con.editor, number |-> IF con.editor THEN 0 ELSE pair.request.number]
Draw ==
  /\ at = "draw" /\ at' = "keys"
  /\ screen' = Picture
  /\ con' = [con EXCEPT !.redraw = FALSE]
  /\ UNCHANGED <<build, net, srv, pair, blind, held, presses, faults, numbers>>

\* The 3DS draws four times a second at most; the DSi at once, when something happened.
Late == TRUE                                            \* mutant: the DSi may wait too
MayWait == Dsi => ~con.redraw
SkipDraw ==
  /\ at = "draw" /\ at' = "keys" /\ MayWait
  /\ UNCHANGED <<build, net, con, srv, pair, screen, blind, held, presses, faults, numbers>>
-----------------------------------------------------------------------------
(***************************************************************************)
(* The network and the clock.                                              *)
(***************************************************************************)
World == /\ at # "off"
         /\ UNCHANGED <<build, at, srv, pair, screen, blind, held, presses, numbers>>

\* The 3DS is given a network and an address; the DSi is given one when it asked.
Associate ==
  /\ World /\ net.status # "up" /\ (Dsi => net.status = "searching")
  /\ \E ip \in Addr : net' = [status |-> "up", addr |-> ip]
  /\ UNCHANGED <<con, faults>>

NetworkFails ==
  /\ World /\ Fault
  /\ \/ net.status = "up" /\ net' = [status |-> "down", addr |-> Off]
     \/ net.status = "up" /\ ~Dsi /\ \E ip \in (Addr \cup {Off}) \ {net.addr} : net' = [net EXCEPT !.addr = ip]
     \/ net.status = "searching" /\ net' = [net EXCEPT !.status = "failed"]
  /\ UNCHANGED con

AddressGiven ==
  /\ World /\ net.status = "up" /\ net.addr = Off
  /\ \E ip \in Addr : net' = [net EXCEPT !.addr = ip]
  /\ UNCHANGED <<con, faults>>

ListenerBreaks ==
  /\ at # "off" /\ srv.listen # Off /\ ~srv.broken /\ CallFails
  /\ srv' = [srv EXCEPT !.broken = TRUE]
  /\ UNCHANGED <<build, at, net, con, pair, screen, blind, held, presses, numbers>>

TimePasses ==
  /\ World /\ (con.waiting \/ con.armed)
  /\ con' = [con EXCEPT !.waiting = FALSE, !.armed = FALSE]
  /\ UNCHANGED <<net, faults>>
-----------------------------------------------------------------------------
Keys ==
  \/ NoButton \/ OpenEditor \/ TogglePairing \/ ForgetKeys \/ ToggleWeb \/ ToggleMode \/ WifiMenu
  \/ \E b \in {"A", "B"} : Decide(b)
  \/ \E b \in {"A", "B", "START"} : EditorKey(b)
Loop == Keys \/ Check3ds \/ CheckDsi \/ NotDue \/ Step \/ Draw \/ SkipDraw
Environment == Associate \/ NetworkFails \/ AddressGiven \/ ListenerBreaks \/ TimePasses

Next == Boot3ds \/ BootDsi \/ Quit \/ Loop \/ Environment

\* The loop turns, the clock advances: what is due every half second is done again and again.
Fairness ==
  /\ WF_vars(Loop) /\ SF_vars(Check3ds \/ CheckDsi) /\ SF_vars(Draw)
  /\ WF_vars(TimePasses) /\ WF_vars(Associate) /\ WF_vars(AddressGiven)

Spec == Init /\ [][Next]_vars /\ Fairness
-----------------------------------------------------------------------------
(***************************************************************************)
(* Properties.                                                             *)
(***************************************************************************)
\* What the program takes for listening is a server that listens, on the
\* address it shows, and a page it does not want is closed: through drops,
\* new addresses, failed calls, the menu of the DSi and the switch.  On the 3DS
\* the page also closes with the listener, whose loop takes its clients
\* (main.c:343, "to match the switch (R) and the state of the NDP listener").
ListensWhereItSays ==
  /\ con.listening => srv.listen = con.ip /\ con.ip # Off
  /\ ~con.listening => srv.listen = Off
  /\ srv.web # Off => con.webOn /\ con.webListening
  /\ ~Dsi /\ srv.web # Off => con.listening /\ srv.listen = srv.web

\* The number the person approves or refuses was on the screen: on the DSi,
\* which draws a request in the frame it came in, also under a folder editor
\* that closes.  (The 3DS draws four times a second, and A may come before.)
SeenBeforeAnswer == Dsi => ~blind

\* While the program runs and the network stays, it ends up listening on the
\* address it has.
Settled == at # "off" /\ net.status = "up" /\ net.addr # Off
Listening == con.listening /\ srv.listen = net.addr /\ ~srv.broken
ComesBack == <>[]Settled => <>[]Listening
=============================================================================
