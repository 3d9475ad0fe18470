---------------------------- MODULE ConsoleProofs ----------------------------
(***************************************************************************)
(* What the programs at both ends do themselves.  First the loop of the     *)
(* consoles: what they take for listening listens, and the DSi shows a      *)
(* number before it is answered, for any addresses and networks and any     *)
(* number of drops, failed calls, buttons and requests.  Then their files:  *)
(* saving keeps its promise for any number of saves, crashes, failed calls  *)
(* and damaged files.  Last the connection that the tools of the MCP        *)
(* server share, for any number of tools called in any order.  The three    *)
(* share no variable.                                                       *)
(***************************************************************************)
EXTENDS Console, AtomicFile, Device, SequenceTheorems, FiniteSetTheorems, TLAPS

-----------------------------------------------------------------------------
(***************************************************************************)
(* The loop: the states its variables can be in.                           *)
(***************************************************************************)
Address == Addr \cup {Off}
Programs ==
  [ wifi : BOOLEAN, ip : Address, listening : BOOLEAN, webOn : BOOLEAN, webListening : BOOLEAN,
    waiting : BOOLEAN, reconnecting : BOOLEAN, soc : BOOLEAN, editor : BOOLEAN, redraw : BOOLEAN,
    armed : BOOLEAN, mode : {"READ_ONLY", "DEVELOPMENT"}, nets : Seq(Net) ]
Networks == [status : {"up", "down", "searching", "failed"}, addr : Address]
Servers == [listen : Address, web : Address, broken : BOOLEAN]
Windows == [open : BOOLEAN, request : [number : Nat, from : {"raw", "web"}]]

ConsoleTypeOK ==
  /\ build \in Build
  /\ at \in {"off", "keys", "net", "step", "draw"}
  /\ net \in Networks
  /\ con \in Programs
  /\ srv \in Servers
  /\ pair \in Windows
  /\ screen \in [editor : BOOLEAN, number : Nat]
  /\ blind \in BOOLEAN /\ held \in BOOLEAN
  /\ presses \in Nat /\ faults \in Nat /\ numbers \in Nat

\* A program that ended left nothing behind.
EndsClean == at = "off" => srv = NoServer /\ pair = NoPair /\ ~con.listening

\* What the DSi takes for a connection gave it an address, and it listens only while it has one.
HasAddress ==
  Dsi => /\ net.status = "up" => net.addr # Off
         /\ ~con.wifi => ~con.listening

\* On the DSi the number is on the screen, or will be before the buttons are looked at again.
Shown ==
  Dsi /\ Asked /\ ~con.editor =>
    screen.number = pair.request.number \/ (con.redraw /\ at # "keys")

ConsoleInv == ConsoleTypeOK /\ EndsClean /\ HasAddress /\ ListensWhereItSays /\ Shown /\ SeenBeforeAnswer

LEMMA StoppedIs ==
  ASSUME NEW c \in Programs
  PROVE  /\ Stopped(c) \in Programs
         /\ ~Stopped(c).listening /\ ~Stopped(c).webListening
         /\ Stopped(c).wifi = c.wifi /\ Stopped(c).ip = c.ip /\ Stopped(c).webOn = c.webOn
         /\ Stopped(c).editor = c.editor /\ Stopped(c).redraw = c.redraw
BY DEF Programs, Stopped

LEMMA DrawnIs ==
  ASSUME NEW c \in Programs
  PROVE  /\ Drawn(c) \in Programs
         /\ Drawn(c).redraw
         /\ Drawn(c).listening = c.listening /\ Drawn(c).webListening = c.webListening
         /\ Drawn(c).wifi = c.wifi /\ Drawn(c).ip = c.ip /\ Drawn(c).webOn = c.webOn
         /\ Drawn(c).editor = c.editor
BY DEF Programs, Drawn

LEMMA NewConsoleIs == NewConsole \in Programs
BY DEF NewConsole, Programs, Address

LEMMA RememberType ==
  ASSUME NEW nets \in Seq(Net), NEW n \in Net
  PROVE  Remember(nets, n) \in Seq(Net)
<1>1. CASE n \in Range(nets)
  BY <1>1 DEF Remember
<1>2. CASE n \notin Range(nets) /\ Len(nets) < MaxNets
  BY <1>2 DEF Remember
<1>3. CASE n \notin Range(nets) /\ ~(Len(nets) < MaxNets)
  <2>1. Len(nets) \in Nat /\ Len(nets) >= 1
    BY <1>3, ConsoleAssumption
  <2>2. nets # <<>>
    BY <2>1
  <2>3. Tail(nets) \in Seq(Net)
    BY <2>2, HeadTailProperties
  <2> QED BY <1>3, <2>3 DEF Remember
<1> QED BY <1>1, <1>2, <1>3

LEMMA JoinedIs ==
  ASSUME NEW c \in Programs, NEW n \in Net, NEW ip \in Addr
  PROVE  /\ Joined(c, n, ip) \in Programs
         /\ Joined(c, n, ip).wifi /\ Joined(c, n, ip).ip = ip
         /\ Joined(c, n, ip).listening = c.listening /\ Joined(c, n, ip).webListening = c.webListening
         /\ Joined(c, n, ip).webOn = c.webOn
         /\ Joined(c, n, ip).editor = c.editor /\ Joined(c, n, ip).redraw = c.redraw
<1> DEFINE m == Remember(c.nets, n)
<1>1. m \in Seq(Net)
  BY RememberType DEF Programs
<1>2. Joined(c, n, ip) = [c EXCEPT !.wifi = TRUE, !.ip = ip, !.nets = m]
  BY DEF Joined
<1> HIDE DEF m
<1> QED BY <1>1, <1>2 DEF Programs, Address

LEMMA WithoutIs ==
  ASSUME NEW conns, pair \in Windows
  PROVE  /\ Without(conns) \in Windows
         /\ Without(conns).request.number \in {0, pair.request.number}
BY DEF Without, Windows, NoRequest

\* What a call of the system costs.
LEMMA CallFailsIs == ASSUME faults \in Nat, CallFails PROVE faults' \in Nat
BY DEF CallFails, Fault

LEMMA SyncWebIs ==
  ASSUME NEW c \in Programs, NEW s \in Servers, NEW opens \in BOOLEAN, SyncWeb(c, s, opens)
  PROVE  /\ con' \in Programs /\ srv' \in Servers
         /\ con'.wifi = c.wifi /\ con'.ip = c.ip /\ con'.listening = c.listening
         /\ con'.webOn = c.webOn /\ con'.editor = c.editor /\ con'.redraw = c.redraw
         /\ srv'.listen = s.listen
         /\ srv'.web # Off => /\ con'.webOn /\ con'.webListening
                              /\ c.listening \/ Dsi
                              /\ srv'.web = c.ip
<1>1. con' = [c EXCEPT !.webListening = Served(c) /\ opens]
  BY DEF SyncWeb
<1>2. Served(c) \in BOOLEAN
  BY DEF Served, Programs
<1>3. /\ con' \in Programs /\ con'.webListening = (Served(c) /\ opens)
      /\ con'.wifi = c.wifi /\ con'.ip = c.ip /\ con'.listening = c.listening
      /\ con'.webOn = c.webOn /\ con'.editor = c.editor /\ con'.redraw = c.redraw
  <2> DEFINE w == Served(c) /\ opens
  <2>1. w \in BOOLEAN
    BY <1>2
  <2>2. con' = [c EXCEPT !.webListening = w]
    BY <1>1
  <2> HIDE DEF w
  <2>3. /\ con' \in Programs /\ con'.webListening = w
        /\ con'.wifi = c.wifi /\ con'.ip = c.ip /\ con'.listening = c.listening
        /\ con'.webOn = c.webOn /\ con'.editor = c.editor /\ con'.redraw = c.redraw
    BY <2>1, <2>2 DEF Programs
  <2> QED BY <2>3 DEF w
<1>4. c.ip \in Address
  BY DEF Programs
<1>5. CASE Served(c) /\ opens
  <2>1. srv' = [s EXCEPT !.web = c.ip]
    BY <1>5 DEF SyncWeb
  <2>2. srv' \in Servers /\ srv'.listen = s.listen /\ srv'.web = c.ip
    BY <2>1, <1>4 DEF Servers
  <2>3. c.webOn /\ (c.listening \/ Dsi)
    BY <1>5 DEF Served
  <2> QED BY <1>3, <1>5, <2>2, <2>3
<1>6. CASE ~(Served(c) /\ opens)
  <2>1. srv' = [s EXCEPT !.web = Off]
    BY <1>6 DEF SyncWeb
  <2>2. srv' \in Servers /\ srv'.listen = s.listen /\ srv'.web = Off
    BY <2>1 DEF Servers, Address
  <2> QED BY <1>3, <2>2
<1> QED BY <1>5, <1>6

LEMMA StopServerIs ==
  ASSUME pair \in Windows, StopServer
  PROVE  /\ srv' \in Servers /\ srv'.listen = Off /\ srv'.web = Off
         /\ pair' \in Windows /\ pair'.request.number \in {0, pair.request.number}
BY WithoutIs DEF StopServer, NoServer, Servers, Address

LEMMA ListenIs ==
  ASSUME NEW c \in Programs, NEW f \in Programs, NEW ip \in Addr, Listen(c, ip, f),
         pair \in Windows, faults \in Nat
  PROVE  /\ con' \in Programs /\ srv' \in Servers /\ faults' \in Nat
         /\ pair' \in Windows /\ pair'.request.number \in {0, pair.request.number}
         /\ \/ /\ con'.listening /\ con'.ip = ip /\ srv'.listen = ip
               /\ con'.wifi = c.wifi /\ con'.editor = c.editor /\ con'.redraw = c.redraw
               /\ srv'.web # Off => con'.webOn /\ con'.webListening /\ srv'.web = ip
            \/ con' = f /\ srv'.listen = Off /\ srv'.web = Off
<1>1. CASE CallFails /\ StopServer /\ con' = f
  BY <1>1, StopServerIs, CallFailsIs
<1>2. CASE /\ pair' = Without({"raw", "web"})
           /\ \E opens \in BOOLEAN :
                /\ IF opens THEN UNCHANGED faults ELSE CallFails
                /\ SyncWeb([c EXCEPT !.listening = TRUE, !.ip = ip], [NoServer EXCEPT !.listen = ip], opens)
  <2> DEFINE d == [c EXCEPT !.listening = TRUE, !.ip = ip]
             s == [NoServer EXCEPT !.listen = ip]
  <2>1. PICK opens \in BOOLEAN :
           (IF opens THEN UNCHANGED faults ELSE CallFails) /\ SyncWeb(d, s, opens)
    BY <1>2
  <2>2. /\ d \in Programs /\ d.listening /\ d.ip = ip
        /\ d.wifi = c.wifi /\ d.editor = c.editor /\ d.redraw = c.redraw
    BY DEF Programs, Address
  <2>3. s \in Servers /\ s.listen = ip
    BY DEF Servers, NoServer, Address
  <2>4. faults' \in Nat
    BY <2>1, CallFailsIs
  <2> HIDE DEF d, s
  <2>5. /\ con' \in Programs /\ srv' \in Servers
        /\ con'.wifi = d.wifi /\ con'.ip = d.ip /\ con'.listening = d.listening
        /\ con'.editor = d.editor /\ con'.redraw = d.redraw
        /\ srv'.listen = s.listen
        /\ srv'.web # Off => con'.webOn /\ con'.webListening /\ srv'.web = d.ip
    BY <2>1, <2>2, <2>3, SyncWebIs
  <2>6. pair' \in Windows /\ pair'.request.number \in {0, pair.request.number}
    BY <1>2, WithoutIs
  <2> QED BY <2>2, <2>3, <2>4, <2>5, <2>6
<1> QED BY <1>1, <1>2 DEF Listen

\* What the buttons leave alone.
LEMMA GoesIs ==
  ASSUME NEW b, Goes(b), ConsoleTypeOK
  PROVE  /\ at = "keys" /\ held' \in BOOLEAN /\ presses' \in Nat
         /\ UNCHANGED <<build, net, screen, numbers>>
<1>1. at = "keys" /\ UNCHANGED <<build, net, screen, numbers>>
  BY DEF Goes
<1>2. presses' \in Nat
  BY DEF Goes, ConsoleTypeOK
<1>3. held' = TRUE \/ held' = FALSE \/ held' = held
  BY DEF Goes
<1>4. held \in BOOLEAN
  BY DEF ConsoleTypeOK
<1>5. held' \in BOOLEAN
  BY <1>3, <1>4, Zenon
<1> QED BY <1>1, <1>2, <1>5

LEMMA InitConsole == Init => ConsoleInv
<1> SUFFICES ASSUME Init PROVE ConsoleInv
  OBVIOUS
<1>1. ConsoleTypeOK
  BY NewConsoleIs, ConsoleAssumption
     DEF Init, ConsoleTypeOK, Networks, Servers, Windows, Address, NoServer, NoPair, NoRequest, Blank
<1>2. ~con.listening
  BY DEF Init, NewConsole
<1>3. EndsClean /\ HasAddress /\ ListensWhereItSays
  BY <1>2 DEF Init, EndsClean, HasAddress, ListensWhereItSays, NoServer
<1>4. Shown /\ SeenBeforeAnswer
  BY DEF Init, Shown, SeenBeforeAnswer, Asked, NoPair, NoRequest
<1> QED BY <1>1, <1>3, <1>4 DEF ConsoleInv

LEMMA BootKeeps == ConsoleInv /\ (Boot3ds \/ BootDsi) => ConsoleInv'
<1> SUFFICES ASSUME ConsoleInv, Boot3ds \/ BootDsi PROVE ConsoleInv'
  OBVIOUS
<1>0. ConsoleTypeOK /\ at = "off" /\ srv = NoServer /\ pair = NoPair /\ SeenBeforeAnswer
  BY DEF ConsoleInv, EndsClean, Boot3ds, BootDsi
<1>1. /\ at' = "keys" /\ screen' = Blank
      /\ UNCHANGED <<build, pair, blind, held, presses, numbers>>
  BY DEF Boot3ds, BootDsi
<1>2. /\ con' \in Programs /\ srv' \in Servers /\ net' \in Networks /\ faults' \in Nat
      /\ HasAddress' /\ ListensWhereItSays'
  <2>1. CASE Boot3ds
    <3>1. con' \in Programs /\ ~con'.listening
      BY <2>1, NewConsoleIs DEF Boot3ds, NewConsole
    <3>2. net' = net /\ srv' = srv /\ faults' = faults /\ ~Dsi /\ ~Dsi'
      BY <2>1 DEF Boot3ds, Dsi
    <3> QED BY <1>0, <3>1, <3>2 DEF HasAddress, ListensWhereItSays, NoServer, ConsoleTypeOK
  <2>2. CASE BootDsi
    <3> DEFINE c(n, ip) == Joined([NewConsole EXCEPT !.listening = TRUE, !.nets = con.nets], n, ip)
               s(ip) == [NoServer EXCEPT !.listen = ip]
    <3>1. PICK n \in Net, ip \in Addr, opens \in BOOLEAN :
             /\ net' = [status |-> "up", addr |-> ip]
             /\ IF opens THEN UNCHANGED faults ELSE CallFails
             /\ SyncWeb(c(n, ip), s(ip), opens)
      BY <2>2 DEF BootDsi
    <3>2. faults' \in Nat /\ net' \in Networks
      BY <1>0, <3>1, CallFailsIs DEF ConsoleTypeOK, Networks, Address
    <3>3. [NewConsole EXCEPT !.listening = TRUE, !.nets = con.nets] \in Programs
      BY <1>0, NewConsoleIs DEF ConsoleTypeOK, Programs
    <3>4. [NewConsole EXCEPT !.listening = TRUE, !.nets = con.nets].listening
      BY DEF NewConsole
    <3>5. /\ c(n, ip) \in Programs /\ c(n, ip).wifi /\ c(n, ip).ip = ip /\ c(n, ip).listening
      BY <3>3, <3>4, JoinedIs
    <3>6. s(ip) \in Servers /\ s(ip).listen = ip
      BY DEF Servers, NoServer, Address
    <3> HIDE DEF c, s
    <3>7. /\ con' \in Programs /\ srv' \in Servers
          /\ con'.wifi /\ con'.ip = ip /\ con'.listening
          /\ srv'.listen = ip
          /\ srv'.web # Off => con'.webOn /\ con'.webListening /\ srv'.web = ip
      BY <3>1, <3>5, <3>6, SyncWebIs
    <3>8. ip # Off
      BY ConsoleAssumption DEF Off
    <3>9. HasAddress'
      BY <3>1, <3>7, <3>8 DEF HasAddress
    <3>10. ListensWhereItSays'
      BY <3>7, <3>8 DEF ListensWhereItSays
    <3> QED BY <3>2, <3>7, <3>9, <3>10
  <2> QED BY <2>1, <2>2
<1>3. ConsoleTypeOK'
  BY <1>0, <1>1, <1>2 DEF ConsoleTypeOK, Blank
<1>4. EndsClean' /\ Shown' /\ SeenBeforeAnswer'
  BY <1>0, <1>1 DEF EndsClean, Shown, SeenBeforeAnswer, Asked, NoPair, NoRequest, Dsi
<1> QED BY <1>2, <1>3, <1>4 DEF ConsoleInv

LEMMA QuitKeeps == ConsoleInv /\ Quit => ConsoleInv'
<1> SUFFICES ASSUME ConsoleInv, Quit PROVE ConsoleInv'
  OBVIOUS
<1>1. PICK b \in {"none", "START", "other"} : Goes(b)
  BY DEF Quit
<1>2. UNCHANGED <<build, net, screen, numbers, blind, faults>> /\ held' \in BOOLEAN /\ presses' \in Nat
  <2>1. UNCHANGED <<blind, faults>>
    BY DEF Quit
  <2> QED BY <1>1, <2>1, GoesIs DEF ConsoleInv
<1>3. at' = "off" /\ srv' = NoServer /\ pair' = NoPair /\ con' = [NewConsole EXCEPT !.nets = con.nets]
  BY DEF Quit
<1>4. con' \in Programs
  BY <1>3, NewConsoleIs DEF Programs, ConsoleInv, ConsoleTypeOK
<1>5. ~con'.listening
  BY <1>3 DEF NewConsole
<1>6. ConsoleTypeOK'
  BY <1>2, <1>3, <1>4
     DEF ConsoleInv, ConsoleTypeOK, Servers, Windows, NoServer, NoPair, NoRequest, Address
<1>7. EndsClean' /\ ListensWhereItSays'
  BY <1>3, <1>5 DEF EndsClean, ListensWhereItSays, NoServer
<1>8. HasAddress' /\ Shown' /\ SeenBeforeAnswer'
  BY <1>2, <1>3, <1>5
     DEF ConsoleInv, HasAddress, Shown, SeenBeforeAnswer, Asked, NoPair, NoRequest, Dsi
<1> QED BY <1>6, <1>7, <1>8 DEF ConsoleInv

-----------------------------------------------------------------------------
(***************************************************************************)
(* The buttons.                                                            *)
(***************************************************************************)
LEMMA AfterButton ==
  ASSUME ConsoleInv, NEW b, Pressed(b),
         con' \in Programs, srv' \in Servers, pair' \in Windows, faults' \in Nat,
         blind' \in BOOLEAN, SeenBeforeAnswer', ListensWhereItSays',
         con'.wifi = con.wifi, con'.listening = con.listening,
         con'.redraw \/ (con' = con /\ pair' = pair)
  PROVE  ConsoleInv'
<1>1. ConsoleTypeOK /\ at = "keys" /\ at' = "net" /\ held' \in BOOLEAN /\ presses' \in Nat
      /\ UNCHANGED <<build, net, screen, numbers>>
  BY GoesIs DEF ConsoleInv, Pressed
<1>2. ConsoleTypeOK'
  BY <1>1 DEF ConsoleTypeOK
<1>3. EndsClean' /\ HasAddress'
  BY <1>1 DEF ConsoleInv, EndsClean, HasAddress, Dsi
<1>4. Shown'
  <2>1. CASE con'.redraw
    BY <1>1, <2>1 DEF Shown
  <2>2. CASE con' = con /\ pair' = pair
    BY <1>1, <2>2 DEF ConsoleInv, Shown, Dsi, Asked
  <2> QED BY <2>1, <2>2
<1> QED BY <1>2, <1>3, <1>4 DEF ConsoleInv

\* A button that changes what the program shows, and perhaps the window.
LEMMA AfterSettings ==
  ASSUME ConsoleInv, NEW b, Pressed(b),
         con' \in Programs, pair' \in Windows, srv' = srv, faults' = faults,
         blind' \in BOOLEAN, SeenBeforeAnswer',
         con'.wifi = con.wifi, con'.listening = con.listening, con'.ip = con.ip,
         con'.webOn = con.webOn, con'.webListening = con.webListening,
         con'.redraw \/ (con' = con /\ pair' = pair)
  PROVE  ConsoleInv'
<1>1. ConsoleTypeOK /\ UNCHANGED build
  BY GoesIs DEF ConsoleInv, Pressed
<1>2. srv' \in Servers /\ faults' \in Nat
  BY <1>1 DEF ConsoleTypeOK
<1>3. ListensWhereItSays'
  BY <1>1 DEF ConsoleInv, ListensWhereItSays, Dsi
<1> QED BY <1>2, <1>3, AfterButton

LEMMA KeysKeep == ConsoleInv /\ Keys => ConsoleInv'
<1> SUFFICES ASSUME ConsoleInv, Keys PROVE ConsoleInv'
  OBVIOUS
<1>0. ConsoleTypeOK /\ con \in Programs /\ pair \in Windows /\ srv \in Servers /\ faults \in Nat
      /\ blind \in BOOLEAN /\ SeenBeforeAnswer
  BY DEF ConsoleInv, ConsoleTypeOK
<1>d. /\ Drawn(con) \in Programs /\ Drawn(con).redraw
      /\ Drawn(con).listening = con.listening /\ Drawn(con).webListening = con.webListening
      /\ Drawn(con).wifi = con.wifi /\ Drawn(con).ip = con.ip /\ Drawn(con).webOn = con.webOn
      /\ Drawn(con).editor = con.editor
  BY <1>0, DrawnIs
<1>b. ASSUME NEW b, Button(b) PROVE Pressed(b) /\ blind' = blind /\ SeenBeforeAnswer'
  <2>1. Pressed(b) /\ blind' = blind
    BY <1>b DEF Button
  <2>2. build' = build
    BY <1>0, <2>1, GoesIs DEF Pressed
  <2> QED BY <1>0, <2>1, <2>2 DEF SeenBeforeAnswer, Dsi
<1>1. CASE NoButton
  BY <1>0, <1>1, <1>b, AfterSettings DEF NoButton
<1>2. CASE OpenEditor
  <2>1. con' = [Drawn(con) EXCEPT !.editor = TRUE] /\ UNCHANGED <<srv, pair, faults>> /\ Button("A")
    BY <1>2 DEF OpenEditor
  <2>2. /\ con' \in Programs /\ con'.redraw
        /\ con'.listening = con.listening /\ con'.webListening = con.webListening
        /\ con'.wifi = con.wifi /\ con'.ip = con.ip /\ con'.webOn = con.webOn
    BY <2>1, <1>d DEF Programs
  <2> QED BY <1>0, <2>1, <2>2, <1>b, AfterSettings
<1>3. CASE TogglePairing
  <2>1. con' = Drawn(con) /\ UNCHANGED <<srv, faults>> /\ Button("Y")
    BY <1>3 DEF TogglePairing
  <2>2. pair' \in Windows
    <3>1. PICK open \in (IF Asked THEN BOOLEAN ELSE {~pair.open}) : pair' = [NoPair EXCEPT !.open = open]
      BY <1>3 DEF TogglePairing
    <3>2. pair.open \in BOOLEAN
      BY <1>0 DEF Windows
    <3>3. open \in BOOLEAN
      BY <3>1, <3>2
    <3> QED BY <3>1, <3>3 DEF NoPair, NoRequest, Windows
  <2> QED BY <1>0, <1>d, <2>1, <2>2, <1>b, AfterSettings
<1>4. CASE ForgetKeys
  <2> DEFINE a == ~Drawn(con).armed
  <2>1. con' = [Drawn(con) EXCEPT !.armed = a] /\ UNCHANGED <<srv, pair, faults>> /\ Button("SELECT")
    BY <1>4 DEF ForgetKeys
  <2>2. a \in BOOLEAN
    OBVIOUS
  <2> HIDE DEF a
  <2>3. /\ con' \in Programs /\ con'.redraw
        /\ con'.listening = con.listening /\ con'.webListening = con.webListening
        /\ con'.wifi = con.wifi /\ con'.ip = con.ip /\ con'.webOn = con.webOn
    BY <2>1, <2>2, <1>d DEF Programs
  <2> QED BY <1>0, <2>1, <2>3, <1>b, AfterSettings
<1>5. CASE ToggleMode
  <2> DEFINE m == IF Drawn(con).mode = "READ_ONLY" THEN "DEVELOPMENT" ELSE "READ_ONLY"
  <2>1. con' = [Drawn(con) EXCEPT !.mode = m] /\ UNCHANGED <<srv, pair, faults>> /\ Button("X")
    BY <1>5 DEF ToggleMode
  <2>2. m \in {"READ_ONLY", "DEVELOPMENT"}
    OBVIOUS
  <2> HIDE DEF m
  <2>3. /\ con' \in Programs /\ con'.redraw
        /\ con'.listening = con.listening /\ con'.webListening = con.webListening
        /\ con'.wifi = con.wifi /\ con'.ip = con.ip /\ con'.webOn = con.webOn
    BY <2>1, <2>2, <1>d DEF Programs
  <2> QED BY <1>0, <2>1, <2>3, <1>b, AfterSettings
<1>6. CASE \E b \in {"A", "B", "START"} : EditorKey(b)
  <2>1. PICK b \in {"A", "B", "START"} : EditorKey(b)
    BY <1>6
  <2>2. PICK open \in BOOLEAN : con' = [Drawn(con) EXCEPT !.editor = open]
    BY <2>1 DEF EditorKey
  <2>3. Button(b) /\ UNCHANGED <<srv, pair, faults>>
    BY <2>1 DEF EditorKey
  <2>4. /\ con' \in Programs /\ con'.redraw
        /\ con'.listening = con.listening /\ con'.webListening = con.webListening
        /\ con'.wifi = con.wifi /\ con'.ip = con.ip /\ con'.webOn = con.webOn
    BY <2>2, <1>d DEF Programs
  <2> QED BY <1>0, <2>3, <2>4, <1>b, AfterSettings
<1>7. CASE \E b \in {"A", "B"} : Decide(b)
  <2>1. PICK b \in {"A", "B"} : Decide(b)
    BY <1>7
  <2>2. /\ Pressed(b) /\ ~con.editor /\ Asked /\ con' = Drawn(con) /\ UNCHANGED <<srv, faults>>
        /\ blind' = (blind \/ screen.number # pair.request.number)
    BY <2>1 DEF Decide
  <2>3. pair' \in Windows
    <3>1. PICK open \in {FALSE, pair.open} : pair' = [NoPair EXCEPT !.open = open]
      BY <2>1 DEF Decide
    <3>2. pair.open \in BOOLEAN
      BY <1>0 DEF Windows
    <3>3. open \in BOOLEAN
      BY <3>1, <3>2
    <3> QED BY <3>1, <3>3 DEF NoPair, NoRequest, Windows
  <2>4. at = "keys" /\ build' = build
    BY <1>0, <2>2, GoesIs DEF Pressed
  <2>5. Dsi => screen.number = pair.request.number
    BY <2>2, <2>4 DEF ConsoleInv, Shown
  <2>6. SeenBeforeAnswer'
    BY <1>0, <2>2, <2>4, <2>5 DEF SeenBeforeAnswer, Dsi
  <2>7. blind' \in BOOLEAN
    BY <2>2
  <2> QED BY <1>0, <1>d, <2>2, <2>3, <2>6, <2>7, AfterSettings
<1>8. CASE ToggleWeb
  <2> DEFINE c == [Drawn(con) EXCEPT !.webOn = ~@]
  <2>1. PICK opens \in BOOLEAN :
           (IF opens THEN UNCHANGED faults ELSE CallFails) /\ SyncWeb(c, srv, opens)
    BY <1>8 DEF ToggleWeb
  <2>2. Button("R") /\ pair' = Without({"web"})
    BY <1>8 DEF ToggleWeb
  <2>3. faults' \in Nat
    BY <1>0, <2>1, CallFailsIs
  <2>4. pair' \in Windows
    BY <1>0, <2>2, WithoutIs
  <2>5. c \in Programs /\ c.redraw /\ c.listening = con.listening /\ c.wifi = con.wifi /\ c.ip = con.ip
    BY <1>d DEF Programs
  <2> HIDE DEF c
  <2>6. /\ con' \in Programs /\ srv' \in Servers
        /\ con'.wifi = con.wifi /\ con'.ip = con.ip /\ con'.listening = con.listening /\ con'.redraw
        /\ srv'.listen = srv.listen
        /\ srv'.web # Off => con'.webOn /\ con'.webListening /\ (con.listening \/ Dsi) /\ srv'.web = con.ip
    BY <1>0, <2>1, <2>5, SyncWebIs
  <2>7. build' = build
    BY <1>0, <1>b, <2>2, GoesIs DEF Pressed
  <2>8. ListensWhereItSays'
    BY <2>6, <2>7 DEF ConsoleInv, ListensWhereItSays, Dsi
  <2> QED BY <1>0, <1>b, <2>2, <2>3, <2>4, <2>6, <2>8, AfterButton
<1>9. CASE WifiMenu
  <2> DEFINE c == [Stopped(Drawn(con)) EXCEPT !.wifi = FALSE]
  <2>1. /\ at = "keys" /\ Dsi /\ presses' \in Nat /\ at' = "net"
        /\ UNCHANGED <<build, screen, blind, held, numbers>>
    BY <1>0, <1>9 DEF WifiMenu, ConsoleTypeOK
  <2>2. c \in Programs /\ ~c.listening /\ ~c.wifi /\ c.redraw
    <3>1. Stopped(Drawn(con)) \in Programs /\ ~Stopped(Drawn(con)).listening /\ Stopped(Drawn(con)).redraw
      BY <1>d, StoppedIs
    <3> QED BY <3>1 DEF Programs
  <2>3. /\ con' \in Programs /\ srv' \in Servers /\ pair' \in Windows /\ faults' \in Nat /\ net' \in Networks
        /\ con'.redraw /\ HasAddress' /\ ListensWhereItSays'
    <3>1. CASE /\ net' \in {[status |-> st, addr |-> Off] : st \in {"down", "failed"}}
               /\ StopServer /\ con' = [c EXCEPT !.reconnecting = FALSE, !.waiting = FALSE]
               /\ UNCHANGED faults
      <4> HIDE DEF c
      <4>1. con' \in Programs /\ ~con'.listening /\ con'.redraw
        BY <2>2, <3>1 DEF Programs
      <4>2. net' \in Networks /\ net'.status # "up"
        BY <3>1 DEF Networks, Address
      <4>3. srv' \in Servers /\ pair' \in Windows /\ srv'.listen = Off /\ srv'.web = Off
        BY <1>0, <3>1, StopServerIs
      <4>4. HasAddress' /\ ListensWhereItSays'
        BY <4>1, <4>2, <4>3 DEF HasAddress, ListensWhereItSays
      <4> QED BY <1>0, <3>1, <4>1, <4>2, <4>3, <4>4
    <3>2. CASE \E n \in Net, ip \in Addr :
                 /\ net' = [status |-> "up", addr |-> ip]
                 /\ Listen(Joined(c, n, ip), ip, Joined(c, n, ip))
      <4>1. PICK n \in Net, ip \in Addr :
                 /\ net' = [status |-> "up", addr |-> ip]
                 /\ Listen(Joined(c, n, ip), ip, Joined(c, n, ip))
        BY <3>2
      <4> DEFINE j == Joined(c, n, ip)
      <4>2. j \in Programs /\ j.wifi /\ ~j.listening /\ j.redraw
        <5> HIDE DEF c
        <5> QED BY <2>2, JoinedIs
      <4>3. Listen(j, ip, j)
        BY <4>1
      <4> HIDE DEF j
      <4>4. /\ con' \in Programs /\ srv' \in Servers /\ faults' \in Nat /\ pair' \in Windows
            /\ \/ /\ con'.listening /\ con'.ip = ip /\ srv'.listen = ip
                  /\ con'.wifi = j.wifi /\ con'.redraw = j.redraw
                  /\ srv'.web # Off => con'.webOn /\ con'.webListening /\ srv'.web = ip
               \/ con' = j /\ srv'.listen = Off /\ srv'.web = Off
        BY <1>0, <4>2, <4>3, ListenIs
      <4>5. ip # Off /\ net' \in Networks /\ net'.addr = ip
        BY <4>1, ConsoleAssumption DEF Networks, Address, Off
      <4>6. con'.wifi /\ con'.redraw
        BY <4>2, <4>4
      <4>7. HasAddress' /\ ListensWhereItSays'
        BY <4>2, <4>4, <4>5, <4>6 DEF HasAddress, ListensWhereItSays
      <4> QED BY <4>4, <4>5, <4>6, <4>7
    <3> QED BY <1>9, <3>1, <3>2 DEF WifiMenu
  <2>4. ConsoleTypeOK'
    BY <1>0, <2>1, <2>3 DEF ConsoleTypeOK
  <2>5. EndsClean' /\ Shown' /\ SeenBeforeAnswer'
    BY <1>0, <2>1, <2>3 DEF EndsClean, Shown, SeenBeforeAnswer, Dsi
  <2> QED BY <2>3, <2>4, <2>5 DEF ConsoleInv
<1> QED BY <1>1, <1>2, <1>3, <1>4, <1>5, <1>6, <1>7, <1>8, <1>9 DEF Keys

-----------------------------------------------------------------------------
(***************************************************************************)
(* The network.                                                            *)
(***************************************************************************)
LEMMA AfterCheck ==
  ASSUME ConsoleInv, at = "net", at' = "step",
         UNCHANGED <<build, screen, blind, held, presses, numbers>>,
         con' \in Programs, srv' \in Servers, pair' \in Windows, faults' \in Nat, net' \in Networks,
         HasAddress', ListensWhereItSays',
         pair'.request.number \in {0, pair.request.number},
         Dsi => con'.editor = con.editor /\ con'.redraw = con.redraw
  PROVE  ConsoleInv'
<1>1. ConsoleTypeOK'
  BY DEF ConsoleInv, ConsoleTypeOK
<1>2. EndsClean' /\ SeenBeforeAnswer'
  BY DEF ConsoleInv, EndsClean, SeenBeforeAnswer, Dsi
<1>3. Shown'
  BY DEF ConsoleInv, Shown, Dsi, Asked
<1> QED BY <1>1, <1>2, <1>3 DEF ConsoleInv

LEMMA Check3dsKeeps == ConsoleInv /\ Check3ds => ConsoleInv'
<1> SUFFICES ASSUME ConsoleInv, Check3ds PROVE ConsoleInv'
  OBVIOUS
<1> DEFINE up == net.status = "up"
           c == [con EXCEPT !.wifi = up, !.redraw = @ \/ con.wifi # up]
           ready == [c EXCEPT !.soc = TRUE]
           lost == Stopped(Drawn(ready))
<1>0. /\ con \in Programs /\ pair \in Windows /\ srv \in Servers /\ faults \in Nat /\ net \in Networks
      /\ ListensWhereItSays
  BY DEF ConsoleInv, ConsoleTypeOK
<1>1. /\ at = "net" /\ ~Dsi /\ at' = "step" /\ ~Dsi'
      /\ UNCHANGED <<build, net, screen, blind, held, presses, numbers>>
  BY DEF Check3ds, Dsi
<1>2. /\ c \in Programs /\ c.listening = con.listening /\ c.ip = con.ip
      /\ c.webOn = con.webOn /\ c.webListening = con.webListening
  <2> DEFINE r == con.redraw \/ con.wifi # up
  <2>1. up \in BOOLEAN /\ r \in BOOLEAN
    OBVIOUS
  <2>2. c = [con EXCEPT !.wifi = up, !.redraw = r]
    BY <1>0 DEF Programs
  <2> HIDE DEF up, r, c
  <2> QED BY <1>0, <2>1, <2>2 DEF Programs
<1>3. /\ ready \in Programs /\ ready.listening = con.listening /\ ready.ip = con.ip
      /\ ready.webOn = con.webOn /\ ready.webListening = con.webListening
  <2> HIDE DEF c
  <2> QED BY <1>2 DEF Programs
<1>4. lost \in Programs /\ ~lost.listening
  <2> HIDE DEF ready
  <2>1. Drawn(ready) \in Programs
    BY <1>3, DrawnIs
  <2> QED BY <2>1, StoppedIs
<1>5. net' \in Networks /\ HasAddress'
  BY <1>0, <1>1 DEF HasAddress
<1>6. /\ con' \in Programs /\ srv' \in Servers /\ pair' \in Windows /\ faults' \in Nat
      /\ pair'.request.number \in {0, pair.request.number}
      /\ ListensWhereItSays'
  <2>1. CASE ~up /\ con.wifi /\ StopServer /\ con' = [Stopped(c) EXCEPT !.ip = Off] /\ UNCHANGED faults
    <3> HIDE DEF c, up
    <3>1. con' \in Programs /\ ~con'.listening
      BY <1>2, <2>1, StoppedIs DEF Programs, Address
    <3>2. /\ srv' \in Servers /\ srv'.listen = Off /\ srv'.web = Off
          /\ pair' \in Windows /\ pair'.request.number \in {0, pair.request.number}
      BY <1>0, <2>1, StopServerIs
    <3> QED BY <1>0, <2>1, <3>1, <3>2 DEF ListensWhereItSays
  <2>2. CASE ~up /\ ~con.wifi /\ con' = c /\ UNCHANGED <<srv, pair, faults>>
    <3> HIDE DEF c, up
    <3> QED BY <1>0, <1>1, <1>2, <2>2 DEF ListensWhereItSays
  <2>3. CASE up /\ ~con.soc /\ con.waiting /\ con' = Drawn(c) /\ UNCHANGED <<srv, pair, faults>>
    <3> HIDE DEF c, up
    <3> QED BY <1>0, <1>1, <1>2, <2>3, DrawnIs DEF ListensWhereItSays
  <2>4. CASE /\ up /\ ~con.soc /\ ~con.waiting /\ CallFails
             /\ con' = [Drawn(c) EXCEPT !.waiting = TRUE] /\ UNCHANGED <<srv, pair>>
    <3> HIDE DEF c, up
    <3>1. /\ Drawn(c) \in Programs /\ Drawn(c).listening = con.listening /\ Drawn(c).ip = con.ip
          /\ Drawn(c).webOn = con.webOn /\ Drawn(c).webListening = con.webListening
      BY <1>2, DrawnIs
    <3>2. /\ con' \in Programs /\ con'.listening = con.listening /\ con'.ip = con.ip
          /\ con'.webOn = con.webOn /\ con'.webListening = con.webListening
      BY <2>4, <3>1 DEF Programs
    <3>3. faults' \in Nat
      BY <1>0, <2>4, CallFailsIs
    <3> QED BY <1>0, <1>1, <2>4, <3>2, <3>3 DEF ListensWhereItSays
  <2>5. CASE net.addr = Off /\ con.listening /\ StopServer /\ con' = [lost EXCEPT !.ip = Off] /\ UNCHANGED faults
    <3> HIDE DEF lost, up
    <3>1. con' \in Programs /\ ~con'.listening
      BY <1>4, <2>5 DEF Programs, Address
    <3>2. /\ srv' \in Servers /\ srv'.listen = Off /\ srv'.web = Off
          /\ pair' \in Windows /\ pair'.request.number \in {0, pair.request.number}
      BY <1>0, <2>5, StopServerIs
    <3> QED BY <1>0, <2>5, <3>1, <3>2 DEF ListensWhereItSays
  <2>6. CASE /\ net.addr = Off /\ ~con.listening /\ con' = [ready EXCEPT !.ip = Off]
             /\ UNCHANGED <<srv, pair, faults>>
    <3> HIDE DEF ready, up
    <3>1. /\ con' \in Programs /\ con'.listening = con.listening
          /\ con'.webOn = con.webOn /\ con'.webListening = con.webListening
      BY <1>3, <2>6 DEF Programs, Address
    <3> QED BY <1>0, <1>1, <2>6, <3>1 DEF ListensWhereItSays
  <2>7. CASE con' = ready /\ UNCHANGED <<srv, pair, faults>>
    <3> HIDE DEF ready
    <3> QED BY <1>0, <1>1, <1>3, <2>7 DEF ListensWhereItSays
  <2>8. CASE net.addr # Off /\ Listen(lost, net.addr, [lost EXCEPT !.waiting = TRUE])
    <3> DEFINE f == [lost EXCEPT !.waiting = TRUE]
    <3>1. f \in Programs /\ ~f.listening
      <4> HIDE DEF lost
      <4> QED BY <1>4 DEF Programs
    <3>2. net.addr \in Addr
      BY <1>0, <2>8 DEF Networks, Address
    <3>3. Listen(lost, net.addr, f)
      BY <2>8
    <3> HIDE DEF f, lost
    <3>4. /\ con' \in Programs /\ srv' \in Servers /\ faults' \in Nat
          /\ pair' \in Windows /\ pair'.request.number \in {0, pair.request.number}
          /\ \/ /\ con'.listening /\ con'.ip = net.addr /\ srv'.listen = net.addr
                /\ srv'.web # Off => con'.webOn /\ con'.webListening /\ srv'.web = net.addr
             \/ con' = f /\ srv'.listen = Off /\ srv'.web = Off
      BY <1>0, <1>4, <3>1, <3>2, <3>3, ListenIs
    <3> QED BY <2>8, <3>1, <3>4 DEF ListensWhereItSays
  <2> QED BY <2>1, <2>2, <2>3, <2>4, <2>5, <2>6, <2>7, <2>8 DEF Check3ds
<1> QED BY <1>1, <1>5, <1>6, AfterCheck

LEMMA CheckDsiKeeps == ConsoleInv /\ CheckDsi => ConsoleInv'
<1> SUFFICES ASSUME ConsoleInv, CheckDsi PROVE ConsoleInv'
  OBVIOUS
<1> DEFINE up == net.status = "up"
           lost == [Stopped(con) EXCEPT !.wifi = FALSE, !.reconnecting = FALSE]
           c == IF con.wifi THEN lost ELSE [con EXCEPT !.reconnecting = @ /\ net.status # "failed"]
           tries == ~c.reconnecting /\ ~c.waiting
           back == [con EXCEPT !.wifi = TRUE, !.ip = net.addr, !.reconnecting = FALSE]
<1>0. /\ con \in Programs /\ pair \in Windows /\ srv \in Servers /\ faults \in Nat /\ net \in Networks
      /\ ListensWhereItSays /\ HasAddress
  BY DEF ConsoleInv, ConsoleTypeOK
<1>1. /\ at = "net" /\ Dsi /\ at' = "step" /\ Dsi'
      /\ UNCHANGED <<build, screen, blind, held, presses, numbers>>
  BY DEF CheckDsi, Dsi
<1>2. /\ con' \in Programs /\ srv' \in Servers /\ pair' \in Windows /\ faults' \in Nat /\ net' \in Networks
      /\ pair'.request.number \in {0, pair.request.number}
      /\ con'.editor = con.editor /\ con'.redraw = con.redraw
      /\ HasAddress' /\ ListensWhereItSays'
  <2>1. CASE UNCHANGED <<net, con, srv, pair, faults>>
    BY <1>0, <1>1, <2>1 DEF HasAddress, ListensWhereItSays
  <2>2. CASE up /\ ~con.wifi /\ Listen(back, net.addr, back) /\ UNCHANGED net
    <3>1. ~con.listening /\ net.addr # Off /\ net.addr \in Addr
      BY <1>0, <1>1, <2>2 DEF HasAddress, Networks, Address
    <3>2. /\ back \in Programs /\ back.wifi /\ ~back.listening
          /\ back.editor = con.editor /\ back.redraw = con.redraw
      BY <1>0, <3>1 DEF Programs, Address
    <3>3. Listen(back, net.addr, back)
      BY <2>2
    <3> HIDE DEF back
    <3>4. /\ con' \in Programs /\ srv' \in Servers /\ faults' \in Nat
          /\ pair' \in Windows /\ pair'.request.number \in {0, pair.request.number}
          /\ \/ /\ con'.listening /\ con'.ip = net.addr /\ srv'.listen = net.addr
                /\ con'.wifi = back.wifi /\ con'.editor = back.editor /\ con'.redraw = back.redraw
                /\ srv'.web # Off => con'.webOn /\ con'.webListening /\ srv'.web = net.addr
             \/ con' = back /\ srv'.listen = Off /\ srv'.web = Off
      BY <1>0, <3>1, <3>2, <3>3, ListenIs
    <3>5. con'.wifi /\ con'.editor = con.editor /\ con'.redraw = con.redraw
      BY <3>2, <3>4
    <3>6. HasAddress' /\ net' \in Networks
      BY <1>0, <2>2, <3>1, <3>5 DEF HasAddress
    <3>7. ListensWhereItSays'
      <4>1. CASE con' = back /\ srv'.listen = Off /\ srv'.web = Off
        <5>1. ~con'.listening
          BY <3>2, <4>1
        <5> QED BY <4>1, <5>1 DEF ListensWhereItSays
      <4>2. CASE /\ con'.listening /\ con'.ip = net.addr /\ srv'.listen = net.addr
                 /\ srv'.web # Off => con'.webOn /\ con'.webListening /\ srv'.web = net.addr
        BY <3>1, <4>2 DEF ListensWhereItSays
      <4> QED BY <3>4, <4>1, <4>2
    <3> QED BY <3>4, <3>5, <3>6, <3>7
  <2>3. CASE /\ ~up
             /\ con' = [c EXCEPT !.reconnecting = @ \/ tries, !.waiting = @ \/ tries]
             /\ net' = IF tries THEN [net EXCEPT !.status = "searching"] ELSE net
             /\ IF con.wifi THEN StopServer ELSE UNCHANGED <<srv, pair>>
             /\ UNCHANGED faults
    <3>1. /\ c \in Programs /\ ~c.wifi /\ ~c.listening /\ c.editor = con.editor /\ c.redraw = con.redraw
          /\ ~con.wifi => c.webOn = con.webOn /\ c.webListening = con.webListening
      <4>1. CASE con.wifi
        <5>1. /\ Stopped(con) \in Programs /\ ~Stopped(con).listening
              /\ Stopped(con).editor = con.editor /\ Stopped(con).redraw = con.redraw
          BY <1>0, StoppedIs
        <5>2. /\ lost \in Programs /\ ~lost.wifi /\ ~lost.listening
              /\ lost.editor = con.editor /\ lost.redraw = con.redraw
          BY <5>1 DEF Programs
        <5>3. c = lost
          BY <4>1
        <5> HIDE DEF c, lost
        <5> QED BY <4>1, <5>2, <5>3
      <4>2. CASE ~con.wifi
        <5> DEFINE r == con.reconnecting /\ net.status # "failed"
        <5>1. r \in BOOLEAN
          OBVIOUS
        <5>2. c = [con EXCEPT !.reconnecting = r]
          BY <1>0, <4>2 DEF Programs
        <5>3. ~con.listening
          BY <1>0, <1>1, <4>2 DEF HasAddress
        <5> HIDE DEF r, c
        <5> QED BY <1>0, <4>2, <5>1, <5>2, <5>3 DEF Programs
      <4> QED BY <4>1, <4>2
    <3> DEFINE r == c.reconnecting \/ tries
               w == c.waiting \/ tries
    <3>2. r \in BOOLEAN /\ w \in BOOLEAN
      OBVIOUS
    <3>3. con' = [c EXCEPT !.reconnecting = r, !.waiting = w]
      <4> HIDE DEF c
      <4> QED BY <2>3, <3>1 DEF Programs
    <3>4. net' \in Networks /\ net'.status # "up"
      <4> HIDE DEF tries
      <4> QED BY <1>0, <2>3 DEF Networks
    <3> HIDE DEF c, r, w, tries
    <3>5. /\ con' \in Programs /\ ~con'.wifi /\ ~con'.listening
          /\ con'.editor = con.editor /\ con'.redraw = con.redraw
          /\ ~con.wifi => con'.webOn = con.webOn /\ con'.webListening = con.webListening
      BY <3>1, <3>2, <3>3 DEF Programs
    <3>6. HasAddress'
      BY <3>4, <3>5 DEF HasAddress
    <3>7. CASE con.wifi
      <4>1. /\ srv' \in Servers /\ srv'.listen = Off /\ srv'.web = Off
            /\ pair' \in Windows /\ pair'.request.number \in {0, pair.request.number}
        BY <1>0, <2>3, <3>7, StopServerIs
      <4> QED BY <1>0, <2>3, <3>4, <3>5, <3>6, <4>1 DEF ListensWhereItSays
    <3>8. CASE ~con.wifi
      <4>1. UNCHANGED <<srv, pair, faults>>
        BY <2>3, <3>8
      <4>2. ~con.listening
        BY <1>0, <1>1, <3>8 DEF HasAddress
      <4>3. ListensWhereItSays'
        BY <1>0, <1>1, <3>5, <3>8, <4>1, <4>2 DEF ListensWhereItSays
      <4> QED BY <1>0, <3>4, <3>5, <3>6, <4>1, <4>3
    <3> QED BY <3>7, <3>8
  <2> QED BY <2>1, <2>2, <2>3 DEF CheckDsi
<1> QED BY <1>1, <1>2, AfterCheck

-----------------------------------------------------------------------------
(***************************************************************************)
(* The server's step, the screen, and the world around the program.        *)
(***************************************************************************)
\* What changes neither the server nor what the program takes it for.
LEMMA AfterRest ==
  ASSUME ConsoleInv, con' \in Programs, srv' \in Servers,
         con'.wifi = con.wifi, con'.listening = con.listening, con'.ip = con.ip,
         con'.webOn = con.webOn, con'.webListening = con.webListening,
         srv'.listen = srv.listen, srv'.web = srv.web, build' = build, blind' = blind
  PROVE  /\ ListensWhereItSays' /\ SeenBeforeAnswer'
         /\ net' = net => HasAddress'
BY DEF ConsoleInv, ListensWhereItSays, SeenBeforeAnswer, HasAddress, Dsi

LEMMA StepKeeps == ConsoleInv /\ Step => ConsoleInv'
<1> SUFFICES ASSUME ConsoleInv, Step PROVE ConsoleInv'
  OBVIOUS
<1>0. /\ con \in Programs /\ pair \in Windows /\ srv \in Servers /\ net \in Networks /\ numbers \in Nat
      /\ ListensWhereItSays
  BY DEF ConsoleInv, ConsoleTypeOK
<1>1. /\ at = "step" /\ at' = "draw"
      /\ UNCHANGED <<build, net, screen, blind, held, presses, faults>>
  BY DEF Step
<1>2. /\ Drawn(con) \in Programs /\ Drawn(con).redraw
      /\ Drawn(con).listening = con.listening /\ Drawn(con).webListening = con.webListening
      /\ Drawn(con).wifi = con.wifi /\ Drawn(con).ip = con.ip /\ Drawn(con).webOn = con.webOn
      /\ Drawn(con).editor = con.editor
  BY <1>0, DrawnIs
<1>3. /\ con' \in Programs /\ srv' \in Servers /\ pair' \in Windows /\ numbers' \in Nat
      /\ HasAddress' /\ ListensWhereItSays'
      /\ Dsi => (con' = con /\ pair' = pair) \/ con'.redraw
  <2>1. CASE UNCHANGED <<con, srv, pair, numbers>>
    BY <1>0, <1>1, <2>1, AfterRest
  <2>2. CASE Activity /\ UNCHANGED srv
    <3>1. CASE UNCHANGED <<pair, con, numbers>>
      BY <1>0, <1>1, <2>2, <3>1, AfterRest
    <3>2. CASE /\ numbers' = numbers + 1
               /\ \E from \in {"raw"} \cup (IF srv.web = Off THEN {} ELSE {"web"}) :
                    pair' = [pair EXCEPT !.request = [number |-> numbers', from |-> from]]
               /\ con' = Drawn(con)
      <4>1. PICK from \in {"raw", "web"} : pair' = [pair EXCEPT !.request = [number |-> numbers', from |-> from]]
        BY <3>2
      <4>2. numbers' \in Nat /\ [number |-> numbers', from |-> from] \in [number : Nat, from : {"raw", "web"}]
        BY <1>0, <3>2
      <4>3. pair' \in Windows
        <5> DEFINE r == [number |-> numbers', from |-> from]
        <5>1. pair' = [pair EXCEPT !.request = r] /\ r \in [number : Nat, from : {"raw", "web"}]
          BY <4>1, <4>2
        <5> HIDE DEF r
        <5> QED BY <1>0, <5>1 DEF Windows
      <4> QED BY <1>0, <1>1, <1>2, <2>2, <3>2, <4>2, <4>3, AfterRest
    <3>3. CASE /\ pair.open /\ pair' = [pair EXCEPT !.open = Asked, !.request = NoRequest]
               /\ con' = Drawn(con) /\ UNCHANGED numbers
      <4>1. pair' \in Windows
        <5> DEFINE o == Asked
        <5>1. o \in BOOLEAN
          BY DEF Asked
        <5>2. pair' = [pair EXCEPT !.open = o, !.request = NoRequest]
          BY <3>3
        <5> HIDE DEF o
        <5> QED BY <1>0, <5>1, <5>2 DEF Windows, NoRequest
      <4> QED BY <1>0, <1>1, <1>2, <2>2, <3>3, <4>1, AfterRest
    <3> QED BY <2>2, <3>1, <3>2, <3>3 DEF Activity
  <2>3. CASE Dsi /\ UNCHANGED <<con, srv, pair, numbers>>
    BY <2>1, <2>3
  <2>4. CASE /\ ~Dsi /\ StopServer /\ UNCHANGED numbers
             /\ con' = [Stopped(Drawn(con)) EXCEPT !.ip = Off, !.waiting = TRUE]
    <3>1. Stopped(Drawn(con)) \in Programs /\ ~Stopped(Drawn(con)).listening
      BY <1>2, StoppedIs
    <3>2. con' \in Programs /\ ~con'.listening
      BY <2>4, <3>1 DEF Programs, Address
    <3>3. /\ srv' \in Servers /\ srv'.listen = Off /\ srv'.web = Off /\ pair' \in Windows
      BY <1>0, <2>4, StopServerIs
    <3>4. HasAddress' /\ ListensWhereItSays'
      BY <1>1, <2>4, <3>2, <3>3 DEF HasAddress, ListensWhereItSays, Dsi
    <3> QED BY <1>0, <2>4, <3>2, <3>3, <3>4
  <2> QED BY <2>1, <2>2, <2>3, <2>4 DEF Step
<1>4. ConsoleTypeOK'
  BY <1>1, <1>3 DEF ConsoleInv, ConsoleTypeOK
<1>5. EndsClean' /\ SeenBeforeAnswer'
  BY <1>1 DEF ConsoleInv, EndsClean, SeenBeforeAnswer, Dsi
<1>6. Shown'
  <2>1. CASE con'.redraw
    BY <1>1, <2>1 DEF Shown
  <2>2. CASE con' = con /\ pair' = pair
    BY <1>1, <2>2 DEF ConsoleInv, Shown, Dsi, Asked
  <2>3. CASE ~Dsi
    BY <1>1, <2>3 DEF Shown, Dsi
  <2> QED BY <1>3, <2>1, <2>2, <2>3
<1> QED BY <1>3, <1>4, <1>5, <1>6 DEF ConsoleInv

LEMMA DrawKeeps == ConsoleInv /\ (Draw \/ SkipDraw \/ NotDue) => ConsoleInv'
<1> SUFFICES ASSUME ConsoleInv, Draw \/ SkipDraw \/ NotDue PROVE ConsoleInv'
  OBVIOUS
<1>0. /\ con \in Programs /\ pair \in Windows /\ srv \in Servers
  BY DEF ConsoleInv, ConsoleTypeOK
<1>1. CASE Draw
  <2>1. /\ at' = "keys" /\ screen' = Picture /\ con' = [con EXCEPT !.redraw = FALSE]
        /\ UNCHANGED <<build, net, srv, pair, blind, held, presses, faults, numbers>>
    BY <1>1 DEF Draw
  <2>2. /\ con' \in Programs /\ con'.editor = con.editor
        /\ con'.wifi = con.wifi /\ con'.listening = con.listening /\ con'.ip = con.ip
        /\ con'.webOn = con.webOn /\ con'.webListening = con.webListening
    BY <1>0, <2>1 DEF Programs
  <2>3. ListensWhereItSays' /\ SeenBeforeAnswer' /\ HasAddress'
    BY <1>0, <2>1, <2>2, AfterRest
  <2>4. Picture \in [editor : BOOLEAN, number : Nat]
    <3>1. con.editor \in BOOLEAN /\ pair.request.number \in Nat
      BY <1>0 DEF Programs, Windows
    <3> QED BY <3>1 DEF Picture
  <2>5. ConsoleTypeOK'
    BY <2>1, <2>2, <2>4 DEF ConsoleInv, ConsoleTypeOK
  <2>6. EndsClean'
    BY <2>1 DEF EndsClean
  <2>7. Shown'
    BY <2>1, <2>2 DEF Shown, Picture, Asked
  <2> QED BY <2>3, <2>5, <2>6, <2>7 DEF ConsoleInv
<1>2. CASE SkipDraw \/ NotDue
  <2>1. /\ at' \in {"keys", "step"} /\ (at' = "keys" => at # "keys" /\ (Dsi => ~con.redraw))
        /\ UNCHANGED <<build, net, con, srv, pair, screen, blind, held, presses, faults, numbers>>
    BY <1>2 DEF SkipDraw, NotDue, MayWait
  <2>2. ListensWhereItSays' /\ SeenBeforeAnswer' /\ HasAddress'
    BY <1>0, <2>1, AfterRest
  <2>3. ConsoleTypeOK'
    BY <2>1 DEF ConsoleInv, ConsoleTypeOK
  <2>4. EndsClean'
    BY <2>1 DEF EndsClean
  <2>5. Shown'
    BY <2>1 DEF ConsoleInv, Shown, Dsi, Asked
  <2> QED BY <2>2, <2>3, <2>4, <2>5 DEF ConsoleInv
<1> QED BY <1>1, <1>2

LEMMA EnvironmentKeeps == ConsoleInv /\ Environment => ConsoleInv'
<1> SUFFICES ASSUME ConsoleInv, Environment PROVE ConsoleInv'
  OBVIOUS
<1>0. /\ con \in Programs /\ pair \in Windows /\ srv \in Servers /\ net \in Networks /\ faults \in Nat
      /\ HasAddress
  BY DEF ConsoleInv, ConsoleTypeOK
<1>1. /\ at # "off" /\ UNCHANGED <<build, at, pair, screen, blind, held, presses, numbers>>
  BY DEF Environment, Associate, NetworkFails, AddressGiven, ListenerBreaks, TimePasses, World
<1>2. /\ con' \in Programs /\ con'.editor = con.editor /\ con'.redraw = con.redraw
      /\ con'.wifi = con.wifi /\ con'.listening = con.listening /\ con'.ip = con.ip
      /\ con'.webOn = con.webOn /\ con'.webListening = con.webListening
  <2>1. CASE TimePasses
    <3>1. con' = [con EXCEPT !.waiting = FALSE, !.armed = FALSE]
      BY <2>1 DEF TimePasses
    <3> QED BY <1>0, <3>1 DEF Programs
  <2>2. CASE con' = con
    BY <1>0, <2>2
  <2> QED BY <2>1, <2>2 DEF Environment, Associate, NetworkFails, AddressGiven, ListenerBreaks
<1>3. /\ srv' \in Servers /\ srv'.listen = srv.listen /\ srv'.web = srv.web
  <2>1. CASE ListenerBreaks
    <3>1. srv' = [srv EXCEPT !.broken = TRUE]
      BY <2>1 DEF ListenerBreaks
    <3> QED BY <1>0, <3>1 DEF Servers
  <2>2. CASE srv' = srv
    BY <1>0, <2>2
  <2> QED BY <2>1, <2>2 DEF Environment, Associate, NetworkFails, AddressGiven, TimePasses, World
<1>4. faults' \in Nat
  BY <1>0, CallFailsIs
     DEF Environment, Associate, NetworkFails, AddressGiven, ListenerBreaks, TimePasses, World, CallFails, Fault
<1>5. net' \in Networks /\ (Dsi /\ net'.status = "up" => net'.addr # Off)
  <2>1. CASE Associate \/ AddressGiven
    <3>1. PICK ip \in Addr : net' = [status |-> "up", addr |-> ip] \/ (net.status = "up" /\ net' = [net EXCEPT !.addr = ip])
      BY <2>1 DEF Associate, AddressGiven
    <3>2. ip # Off
      BY ConsoleAssumption DEF Off
    <3> QED BY <1>0, <3>1, <3>2 DEF Networks, Address
  <2>2. CASE NetworkFails
    <3>1. CASE net.status = "up" /\ net' = [status |-> "down", addr |-> Off]
      BY <3>1 DEF Networks, Address
    <3>2. CASE ~Dsi /\ \E ip \in (Addr \cup {Off}) \ {net.addr} : net' = [net EXCEPT !.addr = ip]
      BY <1>0, <3>2 DEF Networks, Address
    <3>3. CASE net' = [net EXCEPT !.status = "failed"]
      BY <1>0, <3>3 DEF Networks
    <3> QED BY <2>2, <3>1, <3>2, <3>3 DEF NetworkFails
  <2>3. CASE net' = net
    BY <1>0, <2>3 DEF HasAddress
  <2> QED BY <2>1, <2>2, <2>3 DEF Environment, ListenerBreaks, TimePasses
<1>6. HasAddress'
  BY <1>0, <1>1, <1>2, <1>5 DEF HasAddress, Dsi
<1>7. ListensWhereItSays' /\ SeenBeforeAnswer'
  BY <1>1, <1>2, <1>3, AfterRest
<1>8. ConsoleTypeOK'
  BY <1>1, <1>2, <1>3, <1>4, <1>5 DEF ConsoleInv, ConsoleTypeOK
<1>9. EndsClean' /\ Shown'
  BY <1>1, <1>2 DEF ConsoleInv, EndsClean, Shown, Dsi, Asked
<1> QED BY <1>6, <1>7, <1>8, <1>9 DEF ConsoleInv

LEMMA ConsoleStepInv == ConsoleInv /\ [Next]_vars => ConsoleInv'
<1> SUFFICES ASSUME ConsoleInv, [Next]_vars PROVE ConsoleInv'
  OBVIOUS
<1>1. CASE Next
  BY <1>1, BootKeeps, QuitKeeps, KeysKeep, Check3dsKeeps, CheckDsiKeeps, StepKeeps, DrawKeeps, EnvironmentKeeps
     DEF Next, Loop
<1>2. CASE UNCHANGED vars
  BY <1>2 DEF vars, ConsoleInv, ConsoleTypeOK, EndsClean, HasAddress, ListensWhereItSays, Shown,
              SeenBeforeAnswer, Dsi, Asked
<1> QED BY <1>1, <1>2

\* The inductive invariant of the loop: types, a program that ended left nothing
\* behind, the DSi's address, and what is or will be on the screen.
THEOREM ConsoleInvariant == Spec => []ConsoleInv
<1> QED BY InitConsole, ConsoleStepInv, PTL DEF Spec

\* Through drops, new addresses, failed calls, the menu and the switch, what the
\* program takes for listening is a server that listens on the address it shows
\* (stop_listening, sync_web, service_network, net_check).
THEOREM ListeningIsTrue == Spec => []ListensWhereItSays
<1>1. ConsoleInv => ListensWhereItSays
  BY DEF ConsoleInv
<1> QED BY <1>1, ConsoleInvariant, PTL

\* On the DSi no number is answered that was not on the screen (main).
THEOREM NumbersAreSeen == Spec => []SeenBeforeAnswer
<1>1. ConsoleInv => SeenBeforeAnswer
  BY DEF ConsoleInv
<1> QED BY <1>1, ConsoleInvariant, PTL

-----------------------------------------------------------------------------
(***************************************************************************)
(* The files.                                                              *)
(***************************************************************************)
\* A save runs for the newest version, and what was read back is that version.
SaveInv ==
  /\ pc \in Steps => mem = saves /\ saves > 0
  /\ pc \in {"clean", "aside", "place"} => tmp = mem
  /\ told <= saves

\* Both the file and its backup are there next to the new one only after
\* remove(bak), then rename(path, bak), failed.
FaultInv ==
  /\ pc = "aside" /\ bak # None => failures >= 1
  /\ pc = "place" /\ main # None /\ bak # None => failures >= 2
  /\ pc = "restore" /\ main # None /\ bak # None => failures >= 3

IInv == TypeOK /\ SaveInv /\ FaultInv /\ NoRollback

LEMMA InitInv == FileInit => IInv
BY AtomicFileAssumption
   DEF FileInit, IInv, TypeOK, SaveInv, FaultInv, NoRollback, Load, None, Bad, Steps, Version

LEMMA StepInv == IInv /\ [FileNext]_fileVars => IInv'
<1> SUFFICES ASSUME IInv, [FileNext]_fileVars PROVE IInv'
  OBVIOUS
<1> USE AtomicFileAssumption
<1> USE DEF IInv, TypeOK, SaveInv, FaultInv, NoRollback, Load, None, Bad, Steps, Version,
     files, counters, At, Fails, Works
<1>1. CASE Boot
  BY <1>1 DEF Boot
<1>2. CASE Change
  BY <1>2 DEF Change
<1>3. CASE Write
  BY <1>3 DEF Write
<1>4. CASE Verify
  BY <1>4 DEF Verify, Verified
<1>5. CASE Clean
  BY <1>5 DEF Clean
<1>6. CASE MoveAside
  BY <1>6 DEF MoveAside, Aside
<1>7. CASE Place
  BY <1>7 DEF Place
<1>8. CASE Restore
  BY <1>8 DEF Restore
<1>9. CASE Discard
  BY <1>9 DEF Discard
<1>10. CASE Crash
  BY <1>10 DEF Crash
<1>11. CASE Damage
  BY <1>11 DEF Damage
<1>12. CASE UNCHANGED fileVars
  BY <1>12 DEF fileVars
<1> QED
  BY <1>1, <1>2, <1>3, <1>4, <1>5, <1>6, <1>7, <1>8, <1>9, <1>10, <1>11, <1>12 DEF FileNext, Save

\* The inductive invariant of saving: what each file can hold before each call.
THEOREM AtomicFileInvariant == FileSpec => []IInv
<1> QED BY InitInv, StepInv, PTL DEF FileSpec

\* The older of two versions never comes back (ndp_atomic_save, ndp_atomic_load).
THEOREM NeverRollsBack == FileSpec => []NoRollback
<1>1. IInv => NoRollback
  BY DEF IInv
<1> QED BY <1>1, AtomicFileInvariant, PTL

\* Wherever a save stops, a load finds the old version or the new one.
THEOREM SavesAreAtomic == FileSpec => SaveIsAllOrNothing
<1>1. IInv /\ [FileNext]_fileVars => [Saving # None /\ ~FromFallback /\ failures' < 3 => Load' \in {Load, Saving}]_fileVars
  <2> SUFFICES ASSUME IInv, [FileNext]_fileVars, Saving # None, ~FromFallback, failures' < 3
               PROVE  Load' \in {Load, Saving}
    OBVIOUS
  <2> USE DEF IInv, TypeOK, SaveInv, FaultInv, FromFallback, Saving, Load, None, Bad, Steps, Version,
       files, counters, At, Fails, Works
  <2>1. CASE Boot \/ Change \/ Crash \/ Damage \/ UNCHANGED fileVars
    BY <2>1 DEF Boot, Change, Crash, Damage, fileVars
  <2>2. CASE Write \/ Verify \/ Discard
    BY <2>2 DEF Write, Verify, Verified, Discard
  <2>3. CASE Clean
    BY <2>3 DEF Clean
  <2>4. CASE MoveAside
    BY <2>4 DEF MoveAside, Aside
  <2>5. CASE Place
    BY <2>5 DEF Place
  <2>6. CASE Restore
    BY <2>6 DEF Restore
  <2> QED BY <2>1, <2>2, <2>3, <2>4, <2>5, <2>6 DEF FileNext, Save
<1> QED BY <1>1, AtomicFileInvariant, PTL DEF FileSpec, SaveIsAllOrNothing

\* The files implement two versions that a save replaces in one step.
THEOREM FilesKeepVersions == FileSpec => KeepsVersions
<1>1. FileInit => Promise!Init
  BY DEF FileInit, Promise!Init, Promise!None, Load, Previous, Saving, FromFallback, None, Steps
<1>2. IInv /\ [FileNext]_fileVars => [Promise!Next]_(Promise!versions)
  <2> SUFFICES ASSUME IInv, [FileNext]_fileVars PROVE [Promise!Next]_(Promise!versions)
    OBVIOUS
  <2> USE AtomicFileAssumption
  <2> USE DEF IInv, TypeOK, SaveInv, FromFallback, Saving, Previous, Load, None, Bad, Steps, Version,
       files, counters, At, Fails, Works, Promise!None, Promise!Version, Promise!versions
  <2>1. CASE Boot \/ UNCHANGED fileVars
    BY <2>1 DEF Boot, fileVars
  <2>2. CASE Change
    <3>1. /\ Saving = None /\ Saving' \in Version
          /\ Load' = Load /\ Previous' = Previous
      BY <2>2 DEF Change
    <3>2. FromFallback' = FromFallback
      BY <2>2 DEF Change
    <3> QED BY <3>1, <3>2, Zenon DEF Promise!Next, Promise!Begin
  <2>3. CASE Write
    BY <2>3 DEF Write, Promise!Next, Promise!End
  <2>4. CASE Verify
    BY <2>4 DEF Verify, Verified, Promise!Next, Promise!End
  <2>5. CASE Clean
    <3>1. Saving # None /\ Saving' = Saving
      BY <2>5 DEF Clean
    <3>2. CASE UNCHANGED bak
      <4>1. UNCHANGED <<main, bak>> /\ pc' = "aside" /\ pc = "clean"
        BY <2>5, <3>2 DEF Clean
      <4>2. Load' = Load /\ Previous' = Previous
        BY <4>1
      <4>3. FromFallback' = FromFallback
        BY <4>1
      <4> QED BY <3>1, <4>2, <4>3, Zenon
    <3>3. CASE bak' = None /\ main > 0
      <4>1. Load' = Load /\ Previous' = None
        BY <2>5, <3>3 DEF Clean
      <4>2. FromFallback' = FALSE
        BY <2>5, <3>3 DEF Clean
      <4> QED BY <3>1, <4>1, <4>2, Zenon DEF Promise!Next, Promise!Trim
    <3>4. CASE bak' = None /\ ~(main > 0) /\ bak > 0
      <4>1. FromFallback /\ Load' = None /\ Previous' = None
        BY <2>5, <3>4 DEF Clean
      <4>2. FromFallback' = FALSE
        BY <2>5, <3>4 DEF Clean
      <4> QED BY <3>1, <4>1, <4>2, Zenon DEF Promise!Next, Promise!Lose
    <3>5. CASE bak' = None /\ ~(main > 0) /\ ~(bak > 0)
      <4>1. Load' = Load /\ Previous' = Previous
        BY <2>5, <3>5 DEF Clean
      <4>2. FromFallback = FALSE /\ FromFallback' = FALSE
        BY <2>5, <3>5 DEF Clean
      <4> QED BY <3>1, <4>1, <4>2, Zenon
    <3> QED BY <2>5, <3>2, <3>3, <3>4, <3>5 DEF Clean
  <2>6. CASE MoveAside
    <3>1. Saving # None /\ Saving' = Saving /\ ~FromFallback'
      BY <2>6 DEF MoveAside
    <3>2. CASE Load' = Load
      <4>1. Previous' = None \/ Previous' = Previous
        BY <2>6 DEF MoveAside, Aside
      <4>2. CASE Previous' = None
        <5>1. FromFallback' = FALSE
          BY <3>1
        <5> QED BY <3>1, <3>2, <4>2, <5>1, Zenon DEF Promise!Next, Promise!Trim
      <4>3. CASE Previous' = Previous /\ Previous' # None
        <5>1. FromFallback' = FromFallback
          BY <2>6, <4>3 DEF MoveAside
        <5> QED BY <3>1, <3>2, <4>3, <5>1, Zenon
      <4> QED BY <4>1, <4>2, <4>3
    <3>3. CASE Load' # Load
      <4>1. Load' = None /\ Previous' = None /\ FromFallback
        BY <2>6, <3>3 DEF MoveAside, Aside
      <4> QED BY <3>1, <4>1 DEF Promise!Next, Promise!Lose
    <3> QED BY <3>2, <3>3
  <2>7. CASE Place
    BY <2>7 DEF Place, Promise!Next, Promise!Take
  <2>8. CASE Restore
    BY <2>8 DEF Restore, Promise!Next, Promise!Revert
  <2>9. CASE Discard
    BY <2>9 DEF Discard, Promise!Next, Promise!End
  <2>10. CASE Crash
    BY <2>10 DEF Crash, Promise!Next, Promise!End
  <2>11. CASE Damage
    BY <2>11 DEF Damage, Promise!Next, Promise!Damage
  <2> QED BY <2>1, <2>2, <2>3, <2>4, <2>5, <2>6, <2>7, <2>8, <2>9, <2>10, <2>11 DEF FileNext, Save
<1> QED BY <1>1, <1>2, AtomicFileInvariant, PTL DEF FileSpec, KeepsVersions, Promise!Spec
-----------------------------------------------------------------------------
(***************************************************************************)
(* The shared connection: what is true of each connection.                 *)
(***************************************************************************)
GoodLine(l) ==
  /\ l.settled <= Len(l.asked)
  /\ l.served <= Sent(l)
  /\ \A i, j \in DOMAIN l.asked : l.asked[i] = l.asked[j] => i = j
  /\ l.end = "opening" => l.asked = <<>>
  /\ ~Live(l) => l.settled = Len(l.asked)

\* What one end does to a connection: it may end it, settle or carry out requests,
\* and what was not sent before the end is forgotten.
Later(l, m) ==
  /\ m \in Line /\ GoodLine(m)
  /\ DOMAIN m.asked \subseteq DOMAIN l.asked
  /\ \A i \in DOMAIN m.asked : m.asked[i] = l.asked[i]
  /\ m.served >= l.served /\ m.settled >= l.settled
  /\ Live(m) => l.end = m.end

GoodLines(ls) == ls \in Seq(Line) /\ \A n \in DOMAIN ls : GoodLine(ls[n])
AllLater(ls, ms) ==
  /\ ms \in Seq(Line) /\ DOMAIN ms = DOMAIN ls
  /\ \A n \in DOMAIN ls : Later(ls[n], ms[n])

\* Whose request may still be carried out.
Owes(l, c) == \E i \in DOMAIN l.asked : i > l.served /\ l.asked[i] = c
Owed(ls, c) == {n \in DOMAIN ls : Owes(ls[n], c)}

\* Nobody waits for c on an open connection.
Free(ls, c) ==
  \A n \in DOMAIN ls : ls[n].end = "open" =>
    \A i \in DOMAIN ls[n].asked : i > ls[n].settled => ls[n].asked[i] # c
-----------------------------------------------------------------------------
(***************************************************************************)
(* The invariant.                                                          *)
(***************************************************************************)
\* Only calls that were made ask, and those that wait know where.
Known(ls, tl) ==
  \A n \in DOMAIN ls : \A i \in DOMAIN ls[n].asked : tl[ls[n].asked[i]].at # "new"
Placed(ls, tl) ==
  \A n \in DOMAIN ls : ls[n].end = "open" =>
    \A i \in DOMAIN ls[n].asked : i > ls[n].settled =>
      tl[ls[n].asked[i]].at = "asking" /\ tl[ls[n].asked[i]].on = n

\* Each try is good for one request: carried out, still owed, or not made yet.
ToAsk(t) == IF t.at \in {"locating", "opening"} THEN 1 ELSE 0
Within(ls, t, done, c) == done + Cardinality(Owed(ls, c)) + ToAsk(t) <= t.tries
Budget(t, c) == (t.at = "new" => t.tries = 0) /\ (c \notin Safe => t.tries <= 1)

DeviceTyped ==
  /\ tool \in [Tool -> Calling]
  /\ current \in 0..Len(lines)
  /\ \A c \in Tool : tool[c].at \in {"opening", "asking"} => tool[c].on \in DOMAIN lines
  /\ carried \in [Tool -> Nat]
  /\ shared \in BOOLEAN

Tries(ls, tl, done) ==
  /\ GoodLines(ls)
  /\ Known(ls, tl)
  /\ Placed(ls, tl)
  /\ \A c \in Tool : Within(ls, tl[c], done[c], c) /\ Budget(tl[c], c)

\* Without company: one call under way, and besides what is kept only what it opens.
Alone(ls, tl, cur) ==
  /\ \A b, c \in Tool : tl[b].at \in {"locating", "opening", "asking"}
                        /\ tl[c].at \in {"locating", "opening", "asking"} => b = c
  /\ \A n \in DOMAIN ls : Live(ls[n]) =>
       n = cur \/ \E c \in Tool : tl[c].at = "opening" /\ tl[c].on = n
  /\ \A c \in Tool : tl[c].at \in {"locating", "opening"} => cur = 0 \/ ~Live(ls[cur])

KeptIsOpened(ls, cur) == cur # 0 => ls[cur].end # "opening"

DeviceInv ==
  /\ DeviceTyped
  /\ Tries(lines, tool, carried)
  /\ KeptIsOpened(lines, current)
  /\ ~shared => Alone(lines, tool, current)
-----------------------------------------------------------------------------
(***************************************************************************)
(* What may happen to a connection.                                        *)
(***************************************************************************)
\* A connection of which a field changed.
LEMMA LineWith ==
  ASSUME NEW l \in Line, NEW k
  PROVE  /\ [l EXCEPT !.settled = k]
              = [end |-> l.end, peer |-> l.peer, asked |-> l.asked, settled |-> k, served |-> l.served]
         /\ [l EXCEPT !.served = k]
              = [end |-> l.end, peer |-> l.peer, asked |-> l.asked, settled |-> l.settled, served |-> k]
         /\ [l EXCEPT !.peer = k]
              = [end |-> l.end, peer |-> k, asked |-> l.asked, settled |-> l.settled, served |-> l.served]
         /\ [l EXCEPT !.end = k]
              = [end |-> k, peer |-> l.peer, asked |-> l.asked, settled |-> l.settled, served |-> l.served]
         /\ [l EXCEPT !.asked = k]
              = [end |-> l.end, peer |-> l.peer, asked |-> k, settled |-> l.settled, served |-> l.served]
  BY DEF Line

\* It ends.
LEMMA OverLater ==
  ASSUME NEW l \in Line, GoodLine(l), NEW how \in {"closed", "broken"}
  PROVE  Later(l, Over(l, how)) /\ ~Live(Over(l, how))
<1>1. CASE ~Live(l)
  BY <1>1 DEF Over, Later, Line
<1>2. CASE Live(l)
  <2> DEFINE k == Sent(l)
             m == [l EXCEPT !.end = how, !.asked = SubSeq(@, 1, k), !.settled = k]
  <2>1. Over(l, how) = m
    BY <1>2 DEF Over
  <2>2. l.asked \in Seq(Tool) /\ l.settled \in Nat /\ l.served \in Nat /\ l.settled <= Len(l.asked) /\ l.served <= k
    BY DEF Line, GoodLine
  <2>3. k \in Nat /\ k <= Len(l.asked) /\ l.settled <= k
    BY <2>2 DEF Sent
  <2>4. /\ SubSeq(l.asked, 1, k) \in Seq(Tool) /\ Len(SubSeq(l.asked, 1, k)) = k
        /\ \A i \in 1..k : SubSeq(l.asked, 1, k)[i] = l.asked[i]
    <3> HIDE DEF k
    <3>1. \A i \in 1..k : l.asked[i] \in Tool
      BY <2>2, <2>3
    <3> QED BY <2>3, <3>1, SubSeqProperties
  <2> HIDE DEF k
  <2>5. m = [end |-> how, peer |-> l.peer, asked |-> SubSeq(l.asked, 1, k), settled |-> k, served |-> l.served]
    <3> DEFINE s == SubSeq(l.asked, 1, k)
               m1 == [l EXCEPT !.end = how]
               m2 == [m1 EXCEPT !.asked = s]
    <3>1. s \in Seq(Tool)
      BY <2>4
    <3> HIDE DEF s
    <3>2. m1 = [end |-> how, peer |-> l.peer, asked |-> l.asked, settled |-> l.settled, served |-> l.served]
      BY LineWith
    <3>3. m1 \in Line
      BY <3>2 DEF Line
    <3> HIDE DEF m1
    <3>4. m2 = [end |-> how, peer |-> l.peer, asked |-> s, settled |-> l.settled, served |-> l.served]
      BY <3>2, <3>3, LineWith
    <3>5. m2 \in Line
      BY <3>1, <3>3, <3>4 DEF Line
    <3> HIDE DEF m2
    <3>6. [m2 EXCEPT !.settled = k] = [end |-> how, peer |-> l.peer, asked |-> s, settled |-> k, served |-> l.served]
      BY <3>4, <3>5, LineWith
    <3>7. m = [m2 EXCEPT !.settled = k]
      BY DEF m1, m2, s
    <3> QED BY <3>6, <3>7 DEF s
  <2> HIDE DEF m
  <2>6. m \in Line /\ ~Live(m)
    BY <2>2, <2>3, <2>4, <2>5 DEF Line, Live
  <2>7. DOMAIN m.asked = 1..k /\ DOMAIN l.asked = 1..Len(l.asked) /\ Sent(m) = k
    BY <2>2, <2>3, <2>4, <2>5 DEF Sent
  <2>8. GoodLine(m)
    <3>1. \A i, j \in DOMAIN m.asked : m.asked[i] = m.asked[j] => i = j
      BY <2>2, <2>3, <2>4, <2>5, <2>7 DEF GoodLine
    <3>2. m.settled <= Len(m.asked) /\ m.served <= Sent(m) /\ m.end # "opening" /\ m.settled = Len(m.asked)
      BY <2>2, <2>3, <2>4, <2>5, <2>7
    <3> QED BY <3>1, <3>2 DEF GoodLine
  <2>9. Later(l, m)
    <3>1. DOMAIN m.asked \subseteq DOMAIN l.asked /\ \A i \in DOMAIN m.asked : m.asked[i] = l.asked[i]
      BY <2>2, <2>3, <2>4, <2>5, <2>7
    <3>2. m.served >= l.served /\ m.settled >= l.settled
      BY <2>2, <2>3, <2>5
    <3> QED BY <2>6, <2>8, <3>1, <3>2 DEF Later
  <2> QED BY <2>1, <2>6, <2>9
<1> QED BY <1>1, <1>2

\* The other end does something else.
LEMMA PeerLater ==
  ASSUME NEW l \in Line, GoodLine(l), NEW p \in {"queued", "served", "gone"}
  PROVE  Later(l, [l EXCEPT !.peer = p])
<1> DEFINE m == [l EXCEPT !.peer = p]
<1>1. m = [end |-> l.end, peer |-> p, asked |-> l.asked, settled |-> l.settled, served |-> l.served]
  BY LineWith
<1> HIDE DEF m
<1>2. m \in Line /\ m.asked = l.asked /\ m.settled = l.settled /\ m.served = l.served /\ m.end = l.end
  BY <1>1 DEF Line
<1>3. Sent(m) = Sent(l)
  BY <1>2 DEF Sent
<1>4. GoodLine(m)
  BY <1>2, <1>3 DEF GoodLine, Live
<1>5. Later(l, m)
  BY <1>2, <1>4 DEF Later, Line
<1> QED BY <1>5 DEF m

LEMMA SameLater ==
  ASSUME NEW l \in Line, GoodLine(l)
  PROVE  Later(l, l)
  BY DEF Later, Line

LEMMA LaterOwes ==
  ASSUME NEW l \in Line, NEW m, Later(l, m), NEW c, Owes(m, c)
  PROVE  Owes(l, c)
<1>1. PICK i \in DOMAIN m.asked : i > m.served /\ m.asked[i] = c
  BY DEF Owes
<1>2. m.served \in Nat /\ l.served \in Nat /\ m.served >= l.served /\ i \in DOMAIN l.asked /\ l.asked[i] = c
  BY <1>1 DEF Later, Line
<1>3. i \in Nat
  BY <1>2 DEF Line
<1> QED BY <1>1, <1>2, <1>3 DEF Owes

LEMMA LaterWaits ==
  ASSUME NEW l \in Line, NEW m, Later(l, m), m.end = "open", NEW i \in DOMAIN m.asked, i > m.settled
  PROVE  l.end = "open" /\ i \in DOMAIN l.asked /\ i > l.settled /\ l.asked[i] = m.asked[i]
<1>1. i \in DOMAIN l.asked /\ l.asked[i] = m.asked[i] /\ l.end = "open"
  BY DEF Later, Live
<1>2. i \in Nat /\ m.settled \in Nat /\ l.settled \in Nat /\ m.settled >= l.settled
  BY <1>1 DEF Later, Line
<1> QED BY <1>1, <1>2
-----------------------------------------------------------------------------
(***************************************************************************)
(* What may happen to all of them at once.                                 *)
(***************************************************************************)
LEMMA OneLater ==
  ASSUME NEW ls, GoodLines(ls), NEW n \in DOMAIN ls, NEW m, Later(ls[n], m)
  PROVE  AllLater(ls, [ls EXCEPT ![n] = m])
<1> DEFINE ms == [ls EXCEPT ![n] = m]
<1>1. m \in Line /\ ls \in Seq(Line)
  BY DEF Later, GoodLines
<1>2. ms \in Seq(Line) /\ DOMAIN ms = DOMAIN ls
  BY <1>1
<1>3. \A k \in DOMAIN ls : ms[k] = IF k = n THEN m ELSE ls[k]
  BY <1>1
<1>4. \A k \in DOMAIN ls : Later(ls[k], ls[k])
  BY <1>1, SameLater DEF GoodLines
<1> HIDE DEF ms
<1>5. \A k \in DOMAIN ls : Later(ls[k], ms[k])
  BY <1>3, <1>4
<1> QED BY <1>2, <1>5 DEF AllLater, ms

LEMMA NoneLater ==
  ASSUME NEW ls, GoodLines(ls)
  PROVE  AllLater(ls, ls)
  BY SameLater DEF AllLater, GoodLines

LEMMA AllGood ==
  ASSUME NEW ls, NEW ms, AllLater(ls, ms)
  PROVE  GoodLines(ms)
  BY DEF AllLater, Later, GoodLines

LEMMA LaterStill ==
  ASSUME NEW l \in Line, NEW m, NEW k, Later(l, m), Later(m, k)
  PROVE  Later(l, k)
<1>1. k \in Line /\ m \in Line /\ GoodLine(k)
  BY DEF Later
<1>2. DOMAIN k.asked \subseteq DOMAIN l.asked /\ \A i \in DOMAIN k.asked : k.asked[i] = l.asked[i]
  BY DEF Later
<1>3. k.served >= l.served /\ k.settled >= l.settled
  BY <1>1 DEF Later, Line
<1>4. Live(k) => l.end = k.end
  BY DEF Later, Live
<1> QED BY <1>1, <1>2, <1>3, <1>4 DEF Later

LEMMA AllLaterStill ==
  ASSUME NEW ls \in Seq(Line), NEW ms, NEW ks, AllLater(ls, ms), AllLater(ms, ks)
  PROVE  AllLater(ls, ks)
<1>1. ks \in Seq(Line) /\ DOMAIN ks = DOMAIN ls
  BY DEF AllLater
<1>2. \A n \in DOMAIN ls : Later(ls[n], ks[n])
  <2> TAKE n \in DOMAIN ls
  <2>1. Later(ls[n], ms[n]) /\ Later(ms[n], ks[n]) /\ ls[n] \in Line
    BY DEF AllLater
  <2> QED BY <2>1, LaterStill
<1> QED BY <1>1, <1>2 DEF AllLater

\* One is closed, or none.
LEMMA ClosedLater ==
  ASSUME NEW ls, GoodLines(ls), NEW n \in 0..Len(ls)
  PROVE  /\ AllLater(ls, Closed(ls, n))
         /\ n # 0 => ~Live(Closed(ls, n)[n])
<1>1. CASE n = 0
  BY <1>1, NoneLater DEF Closed
<1>2. CASE n # 0
  <2>1. n \in DOMAIN ls /\ ls \in Seq(Line) /\ ls[n] \in Line /\ GoodLine(ls[n])
    BY <1>2 DEF GoodLines
  <2>2. Closed(ls, n) = [ls EXCEPT ![n] = Over(ls[n], "closed")]
    BY <1>2 DEF Closed
  <2>3. Later(ls[n], Over(ls[n], "closed")) /\ ~Live(Over(ls[n], "closed"))
    BY <2>1, OverLater
  <2>4. [ls EXCEPT ![n] = Over(ls[n], "closed")][n] = Over(ls[n], "closed")
    BY <2>1
  <2>5. AllLater(ls, Closed(ls, n))
    <3>1. AllLater(ls, [ls EXCEPT ![n] = Over(ls[n], "closed")])
      BY <2>1, <2>3, OneLater
    <3> QED BY <3>1, <2>2
  <2>6. ~Live(Closed(ls, n)[n])
    BY <2>2, <2>3, <2>4
  <2> QED BY <2>5, <2>6
<1> QED BY <1>1, <1>2

\* The oldest request is settled: whoever made it waits nowhere.
LEMMA NextTurnLater ==
  ASSUME NEW ls, GoodLines(ls), NEW tl, Placed(ls, tl), NEW n \in DOMAIN ls,
         ls[n].end = "open", ls[n].settled < Len(ls[n].asked)
  PROVE  LET ms == [ls EXCEPT ![n].settled = @ + 1]
             c  == ls[n].asked[ls[n].settled + 1]
         IN  /\ AllLater(ls, ms) /\ Free(ms, c)
             /\ c \in Tool /\ tl[c].at = "asking" /\ tl[c].on = n
<1> DEFINE l == ls[n]
           m == [l EXCEPT !.settled = @ + 1]
           c == l.asked[l.settled + 1]
           ms == [ls EXCEPT ![n].settled = @ + 1]
<1>1. ls \in Seq(Line) /\ l \in Line /\ GoodLine(l) /\ l.settled \in Nat /\ l.asked \in Seq(Tool) /\ l.served \in Nat
  <2>1. ls \in Seq(Line) /\ l \in Line /\ GoodLine(l)
    BY DEF GoodLines
  <2> HIDE DEF l
  <2> QED BY <2>1 DEF Line
<1>2. m = [end |-> l.end, peer |-> l.peer, asked |-> l.asked, settled |-> l.settled + 1, served |-> l.served]
  <2> HIDE DEF l
  <2> QED BY <1>1, LineWith
<1>3. l.settled + 1 \in DOMAIN l.asked /\ c \in Tool /\ tl[c].at = "asking" /\ tl[c].on = n
  BY <1>1 DEF Placed
<1>4. ms = [ls EXCEPT ![n] = m]
  BY <1>1
<1>5. m \in Line
  BY <1>1, <1>2 DEF Line
<1>6. GoodLine(m)
  <2>1. m.settled <= Len(m.asked) /\ m.served <= Sent(m)
    BY <1>1, <1>2 DEF GoodLine, Sent
  <2>2. Live(m) /\ m.end # "opening" /\ m.asked = l.asked
    BY <1>2 DEF Live
  <2> HIDE DEF m, l
  <2> QED BY <1>1, <2>1, <2>2 DEF GoodLine
<1>7. Later(l, m)
  BY <1>1, <1>2, <1>5, <1>6 DEF Later
<1>8. AllLater(ls, ms)
  BY <1>4, <1>7, OneLater
<1>9. ms[n] = m /\ \A k \in DOMAIN ls : k # n => ms[k] = ls[k]
  BY <1>1, <1>4
<1>10. DOMAIN ms = DOMAIN ls
  BY <1>1
<1> HIDE DEF ms
<1>11. Free(ms, c)
  <2> SUFFICES ASSUME NEW k \in DOMAIN ms, ms[k].end = "open", NEW i \in DOMAIN ms[k].asked,
                      i > ms[k].settled, ms[k].asked[i] = c
               PROVE  FALSE
    BY DEF Free
  <2>1. CASE k = n
    <3>1. i \in DOMAIN l.asked /\ l.asked[i] = c /\ i > l.settled + 1
      BY <2>1, <1>9, <1>2
    <3>2. i = l.settled + 1
      BY <3>1, <1>1, <1>3 DEF GoodLine
    <3> QED BY <3>1, <3>2, <1>1
  <2>2. CASE k # n
    <3>1. ls[k].end = "open" /\ i \in DOMAIN ls[k].asked /\ i > ls[k].settled /\ ls[k].asked[i] = c /\ k \in DOMAIN ls
      BY <2>2, <1>9, <1>10
    <3>2. tl[c].on = k
      BY <3>1 DEF Placed
    <3> QED BY <3>2, <2>2, <1>3
  <2> QED BY <2>1, <2>2
<1> QED BY <1>3, <1>8, <1>11 DEF ms
-----------------------------------------------------------------------------
(***************************************************************************)
(* How many requests are owed.                                             *)
(***************************************************************************)
LEMMA OwedIsFinite ==
  ASSUME NEW ls \in Seq(Line), NEW c
  PROVE  IsFiniteSet(Owed(ls, c)) /\ Cardinality(Owed(ls, c)) \in Nat
<1>1. Len(ls) \in Nat /\ Owed(ls, c) \subseteq 1..Len(ls)
  BY DEF Owed
<1>2. IsFiniteSet(1..Len(ls))
  BY <1>1, FS_Interval
<1>3. IsFiniteSet(Owed(ls, c))
  BY <1>1, <1>2, FS_Subset
<1> QED BY <1>3, FS_CardinalityType

LEMMA NoMoreOwed ==
  ASSUME NEW ls \in Seq(Line), NEW ms, NEW c, Owed(ms, c) \subseteq Owed(ls, c)
  PROVE  Cardinality(Owed(ms, c)) \in Nat /\ Cardinality(Owed(ms, c)) <= Cardinality(Owed(ls, c))
<1>1. IsFiniteSet(Owed(ls, c))
  BY OwedIsFinite
<1>2. IsFiniteSet(Owed(ms, c)) /\ Cardinality(Owed(ms, c)) <= Cardinality(Owed(ls, c))
  BY <1>1, FS_Subset
<1> QED BY <1>2, FS_CardinalityType

LEMMA OneMoreOwed ==
  ASSUME NEW ls \in Seq(Line), NEW ms, NEW c, NEW n, Owed(ms, c) \subseteq Owed(ls, c) \cup {n}
  PROVE  Cardinality(Owed(ms, c)) \in Nat /\ Cardinality(Owed(ms, c)) <= Cardinality(Owed(ls, c)) + 1
<1> DEFINE U == Owed(ls, c) \cup {n}
<1>1. IsFiniteSet(Owed(ls, c)) /\ Cardinality(Owed(ls, c)) \in Nat
  BY OwedIsFinite
<1>2. IsFiniteSet(U) /\ (Cardinality(U) = Cardinality(Owed(ls, c)) \/ Cardinality(U) = Cardinality(Owed(ls, c)) + 1)
  BY <1>1, FS_AddElement
<1>3. IsFiniteSet(Owed(ms, c)) /\ Cardinality(Owed(ms, c)) <= Cardinality(U)
  BY <1>2, FS_Subset
<1>4. Cardinality(Owed(ms, c)) \in Nat /\ Cardinality(U) \in Nat
  BY <1>2, <1>3, FS_CardinalityType
<1> HIDE DEF U
<1> QED BY <1>1, <1>2, <1>3, <1>4

LEMMA OneLessOwed ==
  ASSUME NEW ls \in Seq(Line), NEW ms, NEW c, NEW n \in Owed(ls, c), Owed(ms, c) \subseteq Owed(ls, c) \ {n}
  PROVE  Cardinality(Owed(ms, c)) \in Nat /\ Cardinality(Owed(ms, c)) + 1 <= Cardinality(Owed(ls, c))
<1> DEFINE U == Owed(ls, c) \ {n}
<1>1. IsFiniteSet(Owed(ls, c)) /\ Cardinality(Owed(ls, c)) \in Nat
  BY OwedIsFinite
<1>2. IsFiniteSet(U) /\ Cardinality(U) = Cardinality(Owed(ls, c)) - 1
  BY <1>1, FS_RemoveElement
<1>3. IsFiniteSet(Owed(ms, c)) /\ Cardinality(Owed(ms, c)) <= Cardinality(U)
  BY <1>2, FS_Subset
<1>4. Cardinality(Owed(ms, c)) \in Nat /\ Cardinality(U) \in Nat
  BY <1>2, <1>3, FS_CardinalityType
<1> HIDE DEF U
<1> QED BY <1>1, <1>2, <1>3, <1>4
-----------------------------------------------------------------------------
(***************************************************************************)
(* What ends, settles or carries out requests leaves every call its tries.  *)
(***************************************************************************)
LEMMA LaterKeeps ==
  ASSUME NEW ls \in Seq(Line), NEW ms, AllLater(ls, ms), NEW tl
  PROVE  /\ Known(ls, tl) => Known(ms, tl)
         /\ Placed(ls, tl) => Placed(ms, tl)
         /\ \A c : Owed(ms, c) \subseteq Owed(ls, c)
         /\ \A n \in DOMAIN ls : Live(ms[n]) => Live(ls[n])
         /\ \A cur \in 0..Len(ls) : KeptIsOpened(ls, cur) => KeptIsOpened(ms, cur)
<1>1. DOMAIN ms = DOMAIN ls /\ \A n \in DOMAIN ls : Later(ls[n], ms[n]) /\ ls[n] \in Line
  BY DEF AllLater
<1>2. ASSUME Known(ls, tl) PROVE Known(ms, tl)
  <2> SUFFICES ASSUME NEW n \in DOMAIN ms, NEW i \in DOMAIN ms[n].asked
               PROVE  tl[ms[n].asked[i]].at # "new"
    BY DEF Known
  <2>1. n \in DOMAIN ls /\ i \in DOMAIN ls[n].asked /\ ms[n].asked[i] = ls[n].asked[i]
    BY <1>1 DEF Later
  <2> QED BY <2>1, <1>2 DEF Known
<1>3. ASSUME Placed(ls, tl) PROVE Placed(ms, tl)
  <2> SUFFICES ASSUME NEW n \in DOMAIN ms, ms[n].end = "open", NEW i \in DOMAIN ms[n].asked, i > ms[n].settled
               PROVE  tl[ms[n].asked[i]].at = "asking" /\ tl[ms[n].asked[i]].on = n
    BY DEF Placed
  <2>1. n \in DOMAIN ls /\ ls[n].end = "open" /\ i \in DOMAIN ls[n].asked /\ i > ls[n].settled
        /\ ls[n].asked[i] = ms[n].asked[i]
    BY <1>1, LaterWaits
  <2> QED BY <2>1, <1>3 DEF Placed
<1>4. \A c : Owed(ms, c) \subseteq Owed(ls, c)
  BY <1>1, LaterOwes DEF Owed
<1>5. \A n \in DOMAIN ls : Live(ms[n]) => Live(ls[n]) /\ ls[n].end = ms[n].end
  BY <1>1 DEF Later, Live
<1>6. \A cur \in 0..Len(ls) : KeptIsOpened(ls, cur) => KeptIsOpened(ms, cur)
  <2> TAKE cur \in 0..Len(ls)
  <2>1. cur = 0 \/ cur \in DOMAIN ls
    OBVIOUS
  <2> QED BY <2>1, <1>5 DEF KeptIsOpened, Live
<1> QED BY <1>2, <1>3, <1>4, <1>5, <1>6

LEMMA LaterFree ==
  ASSUME NEW ls \in Seq(Line), NEW ms, AllLater(ls, ms), NEW c, Free(ls, c)
  PROVE  Free(ms, c)
<1> SUFFICES ASSUME NEW n \in DOMAIN ms, ms[n].end = "open", NEW i \in DOMAIN ms[n].asked, i > ms[n].settled
             PROVE  ms[n].asked[i] # c
  BY DEF Free
<1>1. n \in DOMAIN ls /\ Later(ls[n], ms[n]) /\ ls[n] \in Line
  BY DEF AllLater
<1>2. ls[n].end = "open" /\ i \in DOMAIN ls[n].asked /\ i > ls[n].settled /\ ls[n].asked[i] = ms[n].asked[i]
  BY <1>1, LaterWaits
<1> QED BY <1>1, <1>2 DEF Free

LEMMA CallsAsk ==
  ASSUME NEW ls \in Seq(Line), NEW n \in DOMAIN ls, NEW i \in DOMAIN ls[n].asked
  PROVE  ls[n].asked[i] \in Tool
<1>1. ls[n] \in Line
  OBVIOUS
<1>2. ls[n].asked \in Seq(Tool)
  BY <1>1 DEF Line
<1> QED BY <1>2

\* What a call that waits nowhere does next.
LEMMA FreeToMove ==
  ASSUME NEW ls \in Seq(Line), NEW tl \in [Tool -> Calling], NEW c \in Tool, NEW t \in Calling,
         Known(ls, tl), Placed(ls, tl), Free(ls, c), t.at # "new"
  PROVE  Known(ls, [tl EXCEPT ![c] = t]) /\ Placed(ls, [tl EXCEPT ![c] = t])
<1> DEFINE tm == [tl EXCEPT ![c] = t]
<1>1. tm[c] = t /\ \A b \in Tool : b # c => tm[b] = tl[b]
  OBVIOUS
<1>2. \A n \in DOMAIN ls : \A i \in DOMAIN ls[n].asked : ls[n].asked[i] \in Tool
  BY CallsAsk
<1> HIDE DEF tm
<1>3. Known(ls, tm)
  BY <1>1, <1>2 DEF Known
<1>4. Placed(ls, tm)
  BY <1>1, <1>2 DEF Placed, Free
<1> QED BY <1>3, <1>4 DEF tm

LEMMA MoveTries ==
  ASSUME NEW ls, NEW ms, NEW tl \in [Tool -> Calling], NEW done \in [Tool -> Nat],
         Tries(ls, tl, done), AllLater(ls, ms),
         NEW c \in Tool, NEW t \in Calling, Free(ms, c), t.at # "new", Budget(t, c),
         t.tries + ToAsk(tl[c]) >= tl[c].tries + ToAsk(t)
  PROVE  Tries(ms, [tl EXCEPT ![c] = t], done)
<1> DEFINE tm == [tl EXCEPT ![c] = t]
<1>1. ls \in Seq(Line) /\ GoodLines(ms) /\ ms \in Seq(Line)
  BY AllGood DEF Tries, GoodLines, AllLater
<1>2. Known(ms, tl) /\ Placed(ms, tl) /\ \A b : Owed(ms, b) \subseteq Owed(ls, b)
  BY <1>1, LaterKeeps DEF Tries
<1>3. Known(ms, tm) /\ Placed(ms, tm)
  BY <1>1, <1>2, FreeToMove
<1>4. ASSUME NEW b \in Tool PROVE Within(ms, tm[b], done[b], b) /\ Budget(tm[b], b)
  <2>1. Within(ls, tl[b], done[b], b) /\ Budget(tl[b], b)
    BY DEF Tries
  <2>2. /\ Cardinality(Owed(ms, b)) \in Nat /\ Cardinality(Owed(ls, b)) \in Nat
        /\ Cardinality(Owed(ms, b)) <= Cardinality(Owed(ls, b))
    BY <1>1, <1>2, NoMoreOwed, OwedIsFinite
  <2>3. done[b] \in Nat /\ tl[b] \in Calling /\ tl[b].tries \in Nat /\ ToAsk(tl[b]) \in 0..1
        /\ t.tries \in Nat /\ ToAsk(t) \in 0..1
    BY DEF Calling, ToAsk
  <2>4. CASE b # c
    <3>1. tm[b] = tl[b]
      BY <2>4
    <3> HIDE DEF tm
    <3> QED BY <3>1, <2>1, <2>2, <2>3 DEF Within
  <2>5. CASE b = c
    <3>1. tm[b] = t
      BY <2>5
    <3> HIDE DEF tm
    <3> QED BY <3>1, <2>1, <2>2, <2>3, <2>5 DEF Within
  <2> QED BY <2>4, <2>5
<1> HIDE DEF tm
<1>5. Tries(ms, tm, done)
  BY <1>1, <1>3, <1>4 DEF Tries
<1> QED BY <1>5 DEF tm

LEMMA StayTries ==
  ASSUME NEW ls, NEW ms, NEW tl \in [Tool -> Calling], NEW done \in [Tool -> Nat],
         Tries(ls, tl, done), AllLater(ls, ms)
  PROVE  Tries(ms, tl, done)
<1>1. ls \in Seq(Line) /\ GoodLines(ms) /\ ms \in Seq(Line)
  BY AllGood DEF Tries, GoodLines, AllLater
<1>2. Known(ms, tl) /\ Placed(ms, tl) /\ \A b : Owed(ms, b) \subseteq Owed(ls, b)
  BY <1>1, LaterKeeps DEF Tries
<1>3. ASSUME NEW b \in Tool PROVE Within(ms, tl[b], done[b], b) /\ Budget(tl[b], b)
  <2>1. Within(ls, tl[b], done[b], b) /\ Budget(tl[b], b)
    BY DEF Tries
  <2>2. /\ Cardinality(Owed(ms, b)) \in Nat /\ Cardinality(Owed(ls, b)) \in Nat
        /\ Cardinality(Owed(ms, b)) <= Cardinality(Owed(ls, b))
    BY <1>1, <1>2, NoMoreOwed, OwedIsFinite
  <2>3. done[b] \in Nat /\ tl[b].tries \in Nat /\ ToAsk(tl[b]) \in 0..1
    BY DEF Calling, ToAsk
  <2> QED BY <2>1, <2>2, <2>3 DEF Within
<1> QED BY <1>1, <1>2, <1>3 DEF Tries

\* A call that was not made, or looks for a connection, waits nowhere.
LEMMA FreeUnlessAsking ==
  ASSUME NEW ls, NEW tl, Placed(ls, tl), NEW c, tl[c].at # "asking"
  PROVE  Free(ls, c)
  BY DEF Placed, Free

\* Nor does one whose connection is gone.
LEMMA FreeWhenGone ==
  ASSUME NEW ls, NEW tl, Placed(ls, tl), NEW c, ~Live(ls[tl[c].on])
  PROVE  Free(ls, c)
  BY DEF Placed, Free, Live
-----------------------------------------------------------------------------
(***************************************************************************)
(* A request is asked, a connection opened, another begun, a request        *)
(* carried out.                                                            *)
(***************************************************************************)
LEMMA AskedLine ==
  ASSUME NEW l \in Line, GoodLine(l), l.end = "open", NEW c \in Tool,
         \A i \in DOMAIN l.asked : l.asked[i] # c
  PROVE  LET m == [l EXCEPT !.asked = Append(@, c)]
         IN  /\ m \in Line /\ GoodLine(m) /\ m.end = "open"
             /\ m.settled = l.settled /\ m.served = l.served
             /\ DOMAIN m.asked = 1..(Len(l.asked) + 1) /\ DOMAIN l.asked = 1..Len(l.asked)
             /\ m.asked[Len(l.asked) + 1] = c /\ \A i \in DOMAIN l.asked : m.asked[i] = l.asked[i]
<1> DEFINE s == Append(l.asked, c)
           m == [l EXCEPT !.asked = s]
<1>1. l.asked \in Seq(Tool) /\ l.settled \in Nat /\ l.served \in Nat /\ Len(l.asked) \in Nat
      /\ DOMAIN l.asked = 1..Len(l.asked)
  BY DEF Line
<1>2. s \in Seq(Tool) /\ Len(s) = Len(l.asked) + 1 /\ DOMAIN s = 1..(Len(l.asked) + 1)
      /\ s[Len(l.asked) + 1] = c /\ \A i \in 1..Len(l.asked) : s[i] = l.asked[i]
  BY <1>1
<1> HIDE DEF s
<1>3. m = [end |-> l.end, peer |-> l.peer, asked |-> s, settled |-> l.settled, served |-> l.served]
  BY LineWith
<1> HIDE DEF m
<1>4. m \in Line
  BY <1>2, <1>3 DEF Line
<1>5. GoodLine(m)
  <2>1. \A i, j \in DOMAIN m.asked : m.asked[i] = m.asked[j] => i = j
    <3>1. \A i, j \in 1..Len(l.asked) : l.asked[i] = l.asked[j] => i = j
      BY <1>1 DEF GoodLine
    <3>2. \A i \in 1..Len(l.asked) : l.asked[i] # c
      BY <1>1
    <3>3. m.asked = s /\ DOMAIN s = 1..(Len(l.asked) + 1)
      BY <1>2, <1>3
    <3>4. \A i \in DOMAIN s : i = Len(l.asked) + 1 \/ i \in 1..Len(l.asked)
      BY <1>1, <3>3
    <3> QED BY <1>2, <3>1, <3>2, <3>3, <3>4
  <2>2. m.settled <= Len(m.asked) /\ m.served <= Sent(m)
    BY <1>1, <1>2, <1>3 DEF GoodLine, Sent
  <2>3. m.end = "open" /\ Live(m)
    BY <1>3 DEF Live
  <2> QED BY <2>1, <2>2, <2>3 DEF GoodLine
<1>6. m = [l EXCEPT !.asked = Append(@, c)]
  BY DEF m, s
<1>7. /\ m.end = "open" /\ m.settled = l.settled /\ m.served = l.served
      /\ DOMAIN m.asked = 1..(Len(l.asked) + 1) /\ DOMAIN l.asked = 1..Len(l.asked)
      /\ m.asked[Len(l.asked) + 1] = c /\ \A i \in DOMAIN l.asked : m.asked[i] = l.asked[i]
  BY <1>1, <1>2, <1>3
<1> QED BY <1>4, <1>5, <1>6, <1>7

LEMMA AskTries ==
  ASSUME NEW ls, NEW tl \in [Tool -> Calling], NEW done \in [Tool -> Nat], Tries(ls, tl, done),
         NEW n \in DOMAIN ls, ls[n].end = "open", NEW c \in Tool, NEW t \in Calling,
         \A i \in DOMAIN ls[n].asked : ls[n].asked[i] # c, Free(ls, c),
         t.at = "asking", t.on = n, Budget(t, c),
         t.tries + ToAsk(tl[c]) >= tl[c].tries + 1
  PROVE  Tries(AskedOn(ls, n, c), [tl EXCEPT ![c] = t], done)
<1> DEFINE l == ls[n]
           m == [l EXCEPT !.asked = Append(@, c)]
           ms == AskedOn(ls, n, c)
           tm == [tl EXCEPT ![c] = t]
<1>1. ls \in Seq(Line) /\ l \in Line /\ GoodLine(l) /\ Known(ls, tl) /\ Placed(ls, tl)
  BY DEF Tries, GoodLines
<1>2. /\ m \in Line /\ GoodLine(m) /\ m.end = "open"
      /\ m.settled = l.settled /\ m.served = l.served
      /\ DOMAIN m.asked = 1..(Len(l.asked) + 1) /\ DOMAIN l.asked = 1..Len(l.asked)
      /\ m.asked[Len(l.asked) + 1] = c /\ \A i \in DOMAIN l.asked : m.asked[i] = l.asked[i]
  <2> HIDE DEF l
  <2>1. l.end = "open" /\ \A i \in DOMAIN l.asked : l.asked[i] # c
    BY DEF l
  <2> QED BY <1>1, <2>1, AskedLine
<1>3. ms = [ls EXCEPT ![n] = m]
  BY DEF AskedOn
<1> HIDE DEF m
<1>4. ms \in Seq(Line) /\ DOMAIN ms = DOMAIN ls /\ ms[n] = m /\ \A k \in DOMAIN ls : k # n => ms[k] = ls[k]
  BY <1>1, <1>2, <1>3
<1>5. tm[c] = t /\ \A b \in Tool : b # c => tm[b] = tl[b]
  OBVIOUS
<1>6. Len(l.asked) \in Nat
  BY <1>1 DEF Line
<1> HIDE DEF ms, tm, l
<1>7. GoodLines(ms)
  BY <1>2, <1>4 DEF GoodLines, Tries
<1>8. \A i \in DOMAIN m.asked : m.asked[i] = c \/ (i \in DOMAIN l.asked /\ m.asked[i] = l.asked[i])
  BY <1>2, <1>6
<1>9. Known(ls, tm) /\ Placed(ls, tm)
  BY <1>1, FreeToMove DEF tm
<1>10. Known(ms, tm)
  <2> SUFFICES ASSUME NEW k \in DOMAIN ms, NEW i \in DOMAIN ms[k].asked
               PROVE  tm[ms[k].asked[i]].at # "new"
    BY DEF Known
  <2>1. CASE k # n
    BY <2>1, <1>4, <1>9 DEF Known
  <2>2. CASE k = n
    <3>1. i \in DOMAIN m.asked /\ ms[k].asked[i] = m.asked[i] /\ l = ls[n] /\ n \in DOMAIN ls
      BY <2>2, <1>4 DEF l
    <3>2. CASE m.asked[i] = c
      BY <3>1, <3>2, <1>5
    <3>3. CASE i \in DOMAIN l.asked /\ m.asked[i] = l.asked[i]
      BY <3>1, <3>3, <1>9 DEF Known
    <3> QED BY <3>1, <3>2, <3>3, <1>8
  <2> QED BY <2>1, <2>2
<1>11. Placed(ms, tm)
  <2> SUFFICES ASSUME NEW k \in DOMAIN ms, ms[k].end = "open", NEW i \in DOMAIN ms[k].asked, i > ms[k].settled
               PROVE  tm[ms[k].asked[i]].at = "asking" /\ tm[ms[k].asked[i]].on = k
    BY DEF Placed
  <2>1. CASE k # n
    BY <2>1, <1>4, <1>9 DEF Placed
  <2>2. CASE k = n
    <3>1. i \in DOMAIN m.asked /\ ms[k].asked[i] = m.asked[i] /\ l = ls[n] /\ n \in DOMAIN ls
          /\ i > l.settled /\ ls[n].end = "open"
      BY <2>2, <1>2, <1>4 DEF l
    <3>2. CASE m.asked[i] = c
      BY <2>2, <3>1, <3>2, <1>5
    <3>3. CASE i \in DOMAIN l.asked /\ m.asked[i] = l.asked[i]
      BY <2>2, <3>1, <3>3, <1>9 DEF Placed
    <3> QED BY <3>1, <3>2, <3>3, <1>8
  <2> QED BY <2>1, <2>2
<1>12. \A b : Owed(ms, b) \subseteq Owed(ls, b) \cup (IF b = c THEN {n} ELSE {})
  <2> SUFFICES ASSUME NEW b, NEW k \in DOMAIN ms, Owes(ms[k], b), ~(b = c /\ k = n)
               PROVE  k \in DOMAIN ls /\ Owes(ls[k], b)
    BY DEF Owed
  <2>1. CASE k # n
    BY <2>1, <1>4
  <2>2. CASE k = n
    <3>1. PICK i \in DOMAIN m.asked : i > m.served /\ m.asked[i] = b
      BY <2>2, <1>4 DEF Owes
    <3>2. i \in DOMAIN l.asked /\ l.asked[i] = b /\ i > l.served
      BY <2>2, <3>1, <1>2, <1>8
    <3> QED BY <2>2, <3>2 DEF Owes, l
  <2> QED BY <2>1, <2>2
<1>13. ASSUME NEW b \in Tool PROVE Within(ms, tm[b], done[b], b) /\ Budget(tm[b], b)
  <2>1. Within(ls, tl[b], done[b], b) /\ Budget(tl[b], b)
    BY DEF Tries
  <2>2. done[b] \in Nat /\ tl[b].tries \in Nat /\ ToAsk(tl[b]) \in 0..1 /\ t.tries \in Nat /\ ToAsk(t) = 0
        /\ Cardinality(Owed(ls, b)) \in Nat
    BY <1>1, OwedIsFinite DEF Calling, ToAsk
  <2>3. CASE b # c
    <3>1. Owed(ms, b) \subseteq Owed(ls, b)
      BY <1>12, <2>3
    <3>2. Cardinality(Owed(ms, b)) \in Nat /\ Cardinality(Owed(ms, b)) <= Cardinality(Owed(ls, b))
      BY <1>1, <3>1, NoMoreOwed
    <3>3. tm[b] = tl[b]
      BY <2>3, <1>5
    <3> QED BY <2>1, <2>2, <3>2, <3>3 DEF Within
  <2>4. CASE b = c
    <3>1. Owed(ms, c) \subseteq Owed(ls, c) \cup {n}
      BY <1>12
    <3>2. Cardinality(Owed(ms, c)) \in Nat /\ Cardinality(Owed(ms, c)) <= Cardinality(Owed(ls, c)) + 1
      BY <1>1, <3>1, OneMoreOwed
    <3> QED BY <2>1, <2>2, <2>4, <3>2, <1>5 DEF Within
  <2> QED BY <2>3, <2>4
<1>14. Tries(ms, tm, done)
  BY <1>7, <1>10, <1>11, <1>13 DEF Tries
<1> QED BY <1>14 DEF ms, tm

\* It opens: nothing was asked on it.
LEMMA OpenTries ==
  ASSUME NEW ls, NEW tl \in [Tool -> Calling], NEW done \in [Tool -> Nat], Tries(ls, tl, done),
         NEW n \in DOMAIN ls, ls[n].end = "opening"
  PROVE  LET ms == [ls EXCEPT ![n].end = "open"]
         IN  Tries(ms, tl, done) /\ DOMAIN ms = DOMAIN ls /\ ms[n].end = "open" /\ ms[n].asked = <<>>
<1> DEFINE l == ls[n]
           m == [l EXCEPT !.end = "open"]
           ms == [ls EXCEPT ![n].end = "open"]
<1>1. ls \in Seq(Line) /\ l \in Line /\ GoodLine(l) /\ Known(ls, tl) /\ Placed(ls, tl) /\ l.asked = <<>>
  BY DEF Tries, GoodLines, GoodLine
<1>2. l.settled \in Nat /\ l.served \in Nat
  <2> HIDE DEF l
  <2> QED BY <1>1 DEF Line
<1>3. m = [end |-> "open", peer |-> l.peer, asked |-> <<>>, settled |-> l.settled, served |-> l.served]
  <2> HIDE DEF l
  <2>1. m = [end |-> "open", peer |-> l.peer, asked |-> l.asked, settled |-> l.settled, served |-> l.served]
    BY <1>1, LineWith
  <2> QED BY <1>1, <2>1
<1>4. m \in Line
  <2> HIDE DEF l, m
  <2> QED BY <1>1, <1>3 DEF Line
<1>5. GoodLine(m)
  <2> HIDE DEF l, m
  <2>1. m.settled = l.settled /\ m.asked = <<>> /\ l.asked = <<>> /\ m.served = l.served /\ m.end = "open"
    BY <1>1, <1>3
  <2>2. m.settled <= Len(m.asked) /\ m.served <= Sent(m)
    BY <1>1, <2>1 DEF GoodLine, Sent
  <2> QED BY <2>1, <2>2 DEF GoodLine, Live
<1>6. ms = [ls EXCEPT ![n] = m]
  BY <1>1
<1>7. m.asked = <<>> /\ m.end = "open"
  <2> HIDE DEF m
  <2> QED BY <1>3
<1> HIDE DEF m
<1>8. ms \in Seq(Line) /\ DOMAIN ms = DOMAIN ls /\ ms[n] = m /\ \A k \in DOMAIN ls : k # n => ms[k] = ls[k]
  <2> HIDE DEF ms
  <2> QED BY <1>1, <1>4, <1>6
<1> HIDE DEF ms, l
<1>9. GoodLines(ms)
  BY <1>5, <1>8 DEF GoodLines, Tries
<1>10. Known(ms, tl) /\ Placed(ms, tl)
  <2>1. \A k \in DOMAIN ms : ms[k].asked = <<>> \/ (k \in DOMAIN ls /\ ms[k] = ls[k])
    BY <1>7, <1>8
  <2>2. \A i : i \notin DOMAIN <<>>
    OBVIOUS
  <2>3. Known(ms, tl)
    BY <1>1, <2>1, <2>2 DEF Known
  <2>4. Placed(ms, tl)
    BY <1>1, <2>1, <2>2 DEF Placed
  <2> QED BY <2>3, <2>4
<1>11. \A b : Owed(ms, b) \subseteq Owed(ls, b)
  BY <1>7, <1>8 DEF Owed, Owes
<1>12. ASSUME NEW b \in Tool PROVE Within(ms, tl[b], done[b], b) /\ Budget(tl[b], b)
  <2>1. Within(ls, tl[b], done[b], b) /\ Budget(tl[b], b)
    BY DEF Tries
  <2>2. /\ Cardinality(Owed(ms, b)) \in Nat /\ Cardinality(Owed(ls, b)) \in Nat
        /\ Cardinality(Owed(ms, b)) <= Cardinality(Owed(ls, b))
    BY <1>1, <1>11, NoMoreOwed, OwedIsFinite
  <2>3. done[b] \in Nat /\ tl[b].tries \in Nat /\ ToAsk(tl[b]) \in 0..1
    BY DEF Calling, ToAsk
  <2> QED BY <2>1, <2>2, <2>3 DEF Within
<1>13. Tries(ms, tl, done)
  BY <1>9, <1>10, <1>12 DEF Tries
<1> QED BY <1>7, <1>8, <1>13 DEF ms

\* Another is begun.
LEMMA NewTries ==
  ASSUME NEW ls, NEW tl \in [Tool -> Calling], NEW done \in [Tool -> Nat], Tries(ls, tl, done)
  PROVE  Tries(Append(ls, NewLine), tl, done)
<1> DEFINE ms == Append(ls, NewLine)
           N == Len(ls) + 1
<1>1. ls \in Seq(Line) /\ Known(ls, tl) /\ Placed(ls, tl) /\ Len(ls) \in Nat
  BY DEF Tries, GoodLines
<1>2. NewLine \in Line /\ GoodLine(NewLine) /\ NewLine.asked = <<>> /\ NewLine.end = "opening"
  BY DEF NewLine, Line, GoodLine, Sent, Live
<1> HIDE DEF NewLine
<1>3. ms \in Seq(Line) /\ DOMAIN ms = 1..N /\ DOMAIN ls = 1..Len(ls) /\ ms[N] = NewLine
      /\ \A k \in DOMAIN ls : ms[k] = ls[k]
  BY <1>1, <1>2
<1>4. \A k \in DOMAIN ms : (k \in DOMAIN ls /\ ms[k] = ls[k]) \/ ms[k] = NewLine
  BY <1>1, <1>3
<1> HIDE DEF ms, N
<1>5. GoodLines(ms)
  BY <1>2, <1>3, <1>4 DEF GoodLines, Tries
<1>6. Known(ms, tl) /\ Placed(ms, tl)
  BY <1>1, <1>2, <1>4 DEF Known, Placed
<1>7. \A b : Owed(ms, b) \subseteq Owed(ls, b)
  BY <1>2, <1>4 DEF Owed, Owes
<1>8. ASSUME NEW b \in Tool PROVE Within(ms, tl[b], done[b], b) /\ Budget(tl[b], b)
  <2>1. Within(ls, tl[b], done[b], b) /\ Budget(tl[b], b)
    BY DEF Tries
  <2>2. /\ Cardinality(Owed(ms, b)) \in Nat /\ Cardinality(Owed(ls, b)) \in Nat
        /\ Cardinality(Owed(ms, b)) <= Cardinality(Owed(ls, b))
    BY <1>1, <1>7, NoMoreOwed, OwedIsFinite
  <2>3. done[b] \in Nat /\ tl[b].tries \in Nat /\ ToAsk(tl[b]) \in 0..1
    BY DEF Calling, ToAsk
  <2> QED BY <2>1, <2>2, <2>3 DEF Within
<1>9. Tries(ms, tl, done)
  BY <1>5, <1>6, <1>8 DEF Tries
<1> QED BY <1>9 DEF ms

\* The console carries a request out: it is owed no more.
LEMMA CarryTries ==
  ASSUME NEW ls, NEW tl \in [Tool -> Calling], NEW done \in [Tool -> Nat], Tries(ls, tl, done),
         NEW n \in DOMAIN ls, ls[n].served < Sent(ls[n])
  PROVE  LET ms == [ls EXCEPT ![n].served = @ + 1]
             c  == ls[n].asked[ls[n].served + 1]
         IN  c \in Tool /\ AllLater(ls, ms) /\ Tries(ms, tl, [done EXCEPT ![c] = @ + 1])
<1> DEFINE l == ls[n]
           m == [l EXCEPT !.served = @ + 1]
           ms == [ls EXCEPT ![n].served = @ + 1]
           c == l.asked[l.served + 1]
           dn == [done EXCEPT ![c] = @ + 1]
<1>1. ls \in Seq(Line) /\ l \in Line /\ GoodLine(l)
  BY DEF Tries, GoodLines
<1>2. l.settled \in Nat /\ l.served \in Nat /\ l.asked \in Seq(Tool) /\ l.settled <= Len(l.asked)
      /\ Sent(l) \in Nat /\ Sent(l) <= Len(l.asked) /\ l.served < Sent(l)
  <2>1. l.served < Sent(l)
    OBVIOUS
  <2> HIDE DEF l
  <2>2. l.settled \in Nat /\ l.served \in Nat /\ l.asked \in Seq(Tool) /\ l.settled <= Len(l.asked)
    BY <1>1 DEF Line, GoodLine
  <2>3. Sent(l) \in Nat /\ Sent(l) <= Len(l.asked)
    BY <2>2 DEF Sent
  <2> QED BY <2>1, <2>2, <2>3
<1>3. m = [end |-> l.end, peer |-> l.peer, asked |-> l.asked, settled |-> l.settled, served |-> l.served + 1]
  <2> HIDE DEF l
  <2> QED BY <1>1, LineWith
<1>4. ms = [ls EXCEPT ![n] = m]
  BY <1>1
<1>5. c \in Tool /\ l.served + 1 \in DOMAIN l.asked
  <2> HIDE DEF l
  <2> QED BY <1>2
<1>6. Later(l, m)
  <2> HIDE DEF l, m
  <2>1. m \in Line
    BY <1>1, <1>2, <1>3 DEF Line
  <2>2. m.settled = l.settled /\ m.asked = l.asked /\ m.served = l.served + 1 /\ m.end = l.end /\ Sent(m) = Sent(l)
    BY <1>3 DEF Sent
  <2>3. GoodLine(m)
    BY <1>1, <1>2, <2>2 DEF GoodLine, Live
  <2> QED BY <1>2, <2>1, <2>2, <2>3 DEF Later
<1>7. AllLater(ls, ms)
  BY <1>4, <1>6, OneLater DEF Tries
<1>8. m.asked = l.asked /\ m.served = l.served + 1
  <2> HIDE DEF l, m
  <2> QED BY <1>3
<1> HIDE DEF m
<1>9. ms \in Seq(Line) /\ ms[n] = m
  <2>1. ms \in Seq(Line)
    BY <1>7 DEF AllLater
  <2> QED BY <2>1, <1>1, <1>4
<1>10. dn[c] = done[c] + 1 /\ \A b \in Tool : b # c => dn[b] = done[b]
  <2> HIDE DEF c
  <2> QED BY <1>5
<1> HIDE DEF ms, dn
<1>11. GoodLines(ms) /\ Known(ms, tl) /\ Placed(ms, tl) /\ \A b : Owed(ms, b) \subseteq Owed(ls, b)
  BY <1>1, <1>7, AllGood, LaterKeeps DEF Tries
<1>12. n \in Owed(ls, c) /\ Owed(ms, c) \subseteq Owed(ls, c) \ {n}
  <2>1. Owes(l, c)
    <3> HIDE DEF l
    <3> QED BY <1>2, <1>5 DEF Owes
  <2>2. ~Owes(m, c)
    <3> SUFFICES ASSUME NEW i \in DOMAIN m.asked, i > m.served, m.asked[i] = c
                 PROVE  FALSE
      BY DEF Owes
    <3> HIDE DEF l
    <3>1. i \in DOMAIN l.asked /\ l.asked[i] = l.asked[l.served + 1] /\ i > l.served + 1
      BY <1>8
    <3>2. i = l.served + 1
      BY <3>1, <1>1, <1>5 DEF GoodLine
    <3> QED BY <3>1, <3>2, <1>2
  <2>3. n \in Owed(ls, c)
    BY <2>1 DEF Owed
  <2>4. n \notin Owed(ms, c)
    BY <2>2, <1>9 DEF Owed
  <2> QED BY <2>3, <2>4, <1>11
<1>13. ASSUME NEW b \in Tool PROVE Within(ms, tl[b], dn[b], b) /\ Budget(tl[b], b)
  <2> HIDE DEF c, l
  <2>1. Within(ls, tl[b], done[b], b) /\ Budget(tl[b], b)
    BY DEF Tries
  <2>2. done[b] \in Nat /\ tl[b].tries \in Nat /\ ToAsk(tl[b]) \in 0..1 /\ Cardinality(Owed(ls, b)) \in Nat
    BY <1>1, OwedIsFinite DEF Calling, ToAsk
  <2>3. CASE b # c
    <3>1. Cardinality(Owed(ms, b)) \in Nat /\ Cardinality(Owed(ms, b)) <= Cardinality(Owed(ls, b))
      BY <1>1, <1>11, NoMoreOwed
    <3>2. dn[b] = done[b]
      BY <2>3, <1>10
    <3> QED BY <2>1, <2>2, <3>1, <3>2 DEF Within
  <2>4. CASE b = c
    <3>1. Cardinality(Owed(ms, b)) \in Nat /\ Cardinality(Owed(ms, b)) + 1 <= Cardinality(Owed(ls, b))
      BY <1>1, <1>12, <2>4, OneLessOwed
    <3>2. dn[b] = done[b] + 1
      BY <2>4, <1>10
    <3> QED BY <2>1, <2>2, <3>1, <3>2 DEF Within
  <2> QED BY <2>3, <2>4
<1>14. Tries(ms, tl, dn)
  BY <1>11, <1>13 DEF Tries
<1> QED BY <1>5, <1>7, <1>14 DEF ms, dn
-----------------------------------------------------------------------------
(***************************************************************************)
(* Every step keeps all this.                                              *)
(***************************************************************************)
Searching(t) == t.at \in {"locating", "opening"}

\* A step of the network or of the console.
LEMMA OutsideStep ==
  ASSUME DeviceInv, AllLater(lines, lines'), UNCHANGED <<tool, current, carried, shared>>
  PROVE  DeviceInv'
<1>1. GoodLines(lines) /\ lines \in Seq(Line) /\ DOMAIN lines' = DOMAIN lines /\ lines' \in Seq(Line)
  BY DEF DeviceInv, Tries, GoodLines, AllLater
<1>2. Len(lines') = Len(lines)
  BY <1>1
<1>3. DeviceTyped'
  BY <1>1, <1>2 DEF DeviceInv, DeviceTyped
<1>4. Tries(lines', tool', carried')
  BY StayTries DEF DeviceInv, DeviceTyped
<1>5. \A n \in DOMAIN lines : Live(lines'[n]) => Live(lines[n])
  BY <1>1, LaterKeeps
<1>6. KeptIsOpened(lines', current')
  BY <1>1, LaterKeeps DEF DeviceInv, DeviceTyped
<1>7. ~shared' => Alone(lines', tool', current')
  <2> SUFFICES ASSUME ~shared PROVE Alone(lines', tool, current)
    OBVIOUS
  <2>1. Alone(lines, tool, current) /\ current \in 0..Len(lines)
    BY DEF DeviceInv, DeviceTyped
  <2>2. current = 0 \/ current \in DOMAIN lines
    BY <1>1, <2>1
  <2> QED BY <1>1, <1>5, <2>1, <2>2 DEF Alone
<1> QED BY <1>3, <1>4, <1>6, <1>7 DEF DeviceInv

\* A step of a call that was under way and goes on or ends, and keeps the connection kept.
LEMMA CallStep ==
  ASSUME DeviceInv, AllLater(lines, lines'), NEW c \in Tool, NEW t \in Calling,
         tool' = [tool EXCEPT ![c] = t], UNCHANGED <<current, carried, shared>>,
         Free(lines', c), t.at \in {"locating", "answered", "failed"}, Busy(c), Budget(t, c),
         t.tries + ToAsk(tool[c]) >= tool[c].tries + ToAsk(t),
         tool[c].at = "opening" => ~Live(lines'[tool[c].on]),
         t.at = "locating" => Searching(tool[c])
  PROVE  DeviceInv'
<1>1. GoodLines(lines) /\ lines \in Seq(Line) /\ DOMAIN lines' = DOMAIN lines /\ lines' \in Seq(Line)
      /\ tool \in [Tool -> Calling] /\ carried \in [Tool -> Nat]
  BY DEF DeviceInv, DeviceTyped, Tries, GoodLines, AllLater
<1>2. Len(lines') = Len(lines)
  BY <1>1
<1>3. tool'[c] = t /\ \A b \in Tool : b # c => tool'[b] = tool[b]
  BY <1>1
<1>4. DeviceTyped'
  <2>1. tool' \in [Tool -> Calling]
    BY <1>1
  <2> QED BY <1>1, <1>2, <1>3, <2>1 DEF DeviceInv, DeviceTyped
<1>5. Tries(lines', tool', carried')
  BY <1>1, MoveTries DEF DeviceInv
<1>6. \A n \in DOMAIN lines : Live(lines'[n]) => Live(lines[n])
  BY <1>1, LaterKeeps
<1>7. KeptIsOpened(lines', current')
  BY <1>1, LaterKeeps DEF DeviceInv, DeviceTyped
<1>8. ~shared' => Alone(lines', tool', current')
  <2> SUFFICES ASSUME ~shared PROVE Alone(lines', tool', current)
    OBVIOUS
  <2>1. Alone(lines, tool, current) /\ current \in 0..Len(lines)
    BY DEF DeviceInv, DeviceTyped
  <2>2. current = 0 \/ current \in DOMAIN lines
    BY <1>1, <2>1
  <2>3. \A b, d \in Tool : tool'[b].at \in {"locating", "opening", "asking"}
                            /\ tool'[d].at \in {"locating", "opening", "asking"} => b = d
    BY <1>3, <2>1 DEF Alone, Busy
  <2>4. ASSUME NEW n \in DOMAIN lines', Live(lines'[n]), n # current
        PROVE  \E b \in Tool : tool'[b].at = "opening" /\ tool'[b].on = n
    <3>1. PICK b \in Tool : tool[b].at = "opening" /\ tool[b].on = n
      BY <1>1, <1>6, <2>1, <2>4 DEF Alone
    <3>2. b # c
      BY <3>1, <2>4
    <3> QED BY <3>1, <3>2, <1>3
  <2>5. ASSUME NEW b \in Tool, Searching(tool'[b]) PROVE current = 0 \/ ~Live(lines'[current])
    <3>1. Searching(tool[b])
      BY <2>5, <1>3 DEF Searching
    <3>2. current = 0 \/ ~Live(lines[current])
      BY <3>1, <2>1 DEF Alone, Searching
    <3> QED BY <3>2, <2>2, <1>6
  <2> QED BY <2>3, <2>4, <2>5 DEF Alone, Searching
<1> QED BY <1>4, <1>5, <1>7, <1>8 DEF DeviceInv

\* The kinds of record a call goes through.
LEMMA CallAt ==
  ASSUME NEW t \in Calling, NEW a \in {"locating", "opening", "asking", "answered", "failed"}
  PROVE  LET u == [t EXCEPT !.at = a]
         IN  u \in Calling /\ u.at = a /\ u.on = t.on /\ u.tries = t.tries
  BY DEF Calling

LEMMA CallOn ==
  ASSUME NEW t \in Calling, NEW n \in Nat
  PROVE  LET u == [t EXCEPT !.on = n]
         IN  u \in Calling /\ u.at = t.at /\ u.on = n /\ u.tries = t.tries
  BY DEF Calling

LEMMA CallTries ==
  ASSUME NEW t \in Calling, NEW k \in 0..2
  PROVE  LET u == [t EXCEPT !.tries = k]
         IN  u \in Calling /\ u.at = t.at /\ u.on = t.on /\ u.tries = k
  BY DEF Calling

LEMMA NewToolType == NewTool \in Calling
  BY DEF NewTool, Calling

LEMMA Moves ==
  ASSUME NEW a \in {"locating", "answered", "failed"}, NEW k \in 0..2
  PROVE  LET u == [NewTool EXCEPT !.at = a, !.tries = k]
         IN  u \in Calling /\ u.at = a /\ u.tries = k
<1> DEFINE u == [NewTool EXCEPT !.at = a, !.tries = k]
           v == [NewTool EXCEPT !.at = a]
<1>1. v \in Calling /\ v.at = a
  <2>1. a \in {"locating", "opening", "asking", "answered", "failed"}
    OBVIOUS
  <2> QED BY <2>1, NewToolType, CallAt
<1>2. u = [v EXCEPT !.tries = k]
  OBVIOUS
<1> HIDE DEF u, v
<1>3. u \in Calling /\ u.at = a /\ u.tries = k
  BY <1>1, <1>2, CallTries
<1> QED BY <1>3 DEF u

\* It ends.
LEMMA EndStep ==
  ASSUME DeviceInv, AllLater(lines, lines'), NEW c \in Tool, NEW a \in {"answered", "failed"},
         tool' = Ended(c, a), UNCHANGED <<current, carried, shared>>,
         Free(lines', c), Busy(c), tool[c].at = "opening" => ~Live(lines'[tool[c].on])
  PROVE  DeviceInv'
<1> DEFINE k == tool[c].tries
           t == [NewTool EXCEPT !.at = a, !.tries = k]
<1>1. tool[c] \in Calling /\ Budget(tool[c], c)
  BY DEF DeviceInv, DeviceTyped, Tries
<1>2. t \in Calling /\ t.at = a /\ t.tries = tool[c].tries
  <2>1. tool[c].tries \in 0..2 /\ a \in {"locating", "answered", "failed"}
    BY <1>1 DEF Calling
  <2> HIDE DEF k
  <2>2. k \in 0..2
    BY <2>1 DEF k
  <2>3. t \in Calling /\ t.at = a /\ t.tries = k
    BY <2>1, <2>2, Moves
  <2> QED BY <2>3 DEF k
<1>3. tool' = [tool EXCEPT ![c] = t]
  BY DEF Ended
<1> HIDE DEF t
<1>4. Budget(t, c) /\ t.tries + ToAsk(tool[c]) >= tool[c].tries + ToAsk(t)
  BY <1>1, <1>2 DEF Budget, ToAsk, Calling
<1> QED BY <1>2, <1>3, <1>4, CallStep

\* It is tried again: what was kept is closed first.
LEMMA RetryStep ==
  ASSUME DeviceInv, NEW ls, AllLater(lines, ls), NEW c \in Tool, Retries(c, ls), tool[c].at = "asking",
         lines' = Closed(ls, current), current' = 0, UNCHANGED <<carried, shared>>, Free(ls, c),
         tool' = [tool EXCEPT ![c] = [NewTool EXCEPT !.at = "locating", !.tries = 2]]
  PROVE  DeviceInv'
<1> DEFINE t == [NewTool EXCEPT !.at = "locating", !.tries = 2]
<1>1. GoodLines(lines) /\ lines \in Seq(Line) /\ tool \in [Tool -> Calling] /\ carried \in [Tool -> Nat]
      /\ current \in 0..Len(lines) /\ tool[c] \in Calling
  BY DEF DeviceInv, DeviceTyped, Tries, GoodLines
<1>2. GoodLines(ls) /\ ls \in Seq(Line) /\ DOMAIN ls = DOMAIN lines /\ Len(ls) = Len(lines)
  <2>1. GoodLines(ls) /\ ls \in Seq(Line) /\ DOMAIN ls = DOMAIN lines
    BY AllGood DEF AllLater, GoodLines
  <2> QED BY <2>1, <1>1
<1>3. AllLater(ls, lines') /\ (current # 0 => ~Live(lines'[current]))
  BY <1>1, <1>2, ClosedLater
<1>4. AllLater(lines, lines') /\ Free(lines', c)
  BY <1>1, <1>2, <1>3, AllLaterStill, LaterFree
<1>5. DOMAIN lines' = DOMAIN lines /\ lines' \in Seq(Line) /\ Len(lines') = Len(lines)
  <2>1. DOMAIN lines' = DOMAIN lines /\ lines' \in Seq(Line)
    BY <1>4 DEF AllLater
  <2> QED BY <2>1, <1>1
<1>6. t \in Calling /\ t.at = "locating" /\ t.tries = 2
  BY <1>1, Moves
<1> HIDE DEF t
<1>7. tool' = [tool EXCEPT ![c] = t]
  BY DEF t
<1>8. tool'[c] = t /\ \A b \in Tool : b # c => tool'[b] = tool[b]
  BY <1>1, <1>7
<1>9. DeviceTyped'
  <2>1. tool' \in [Tool -> Calling]
    BY <1>1, <1>6, <1>7
  <2> QED BY <1>1, <1>5, <1>6, <1>8, <2>1 DEF DeviceInv, DeviceTyped
<1>10. Tries(lines', tool', carried')
  <2>1. Budget(t, c) /\ t.tries + ToAsk(tool[c]) >= tool[c].tries + ToAsk(t)
    BY <1>6 DEF Budget, ToAsk, Retries
  <2>2. Tries(lines, tool, carried)
    BY DEF DeviceInv
  <2>3. Tries(lines', [tool EXCEPT ![c] = t], carried)
    BY <1>1, <1>4, <1>6, <2>1, <2>2, MoveTries
  <2> QED BY <1>7, <2>3
<1>11. KeptIsOpened(lines', current')
  BY DEF KeptIsOpened
<1>12. ~shared' => Alone(lines', tool', current')
  <2> SUFFICES ASSUME ~shared PROVE Alone(lines', tool', 0)
    OBVIOUS
  <2>1. Alone(lines, tool, current)
    BY DEF DeviceInv
  <2>2. \A b, d \in Tool : tool'[b].at \in {"locating", "opening", "asking"}
                            /\ tool'[d].at \in {"locating", "opening", "asking"} => b = d
    BY <1>8, <2>1 DEF Alone
  <2>3. ASSUME NEW n \in DOMAIN lines', Live(lines'[n]) PROVE FALSE
    <3>1. n \in DOMAIN lines /\ Live(lines[n])
      BY <2>3, <1>1, <1>4, <1>5, LaterKeeps
    <3>2. n # current
      BY <1>1, <1>3, <1>5, <2>3
    <3>3. PICK b \in Tool : tool[b].at = "opening"
      BY <3>1, <3>2, <2>1 DEF Alone
    <3> QED BY <3>3, <2>1 DEF Alone
  <2> QED BY <2>2, <2>3 DEF Alone
<1> QED BY <1>9, <1>10, <1>11, <1>12 DEF DeviceInv

\* The catch of run, whatever is left of the connections.
LEMMA CaughtStep ==
  ASSUME DeviceInv, NEW ls, AllLater(lines, ls), NEW c \in Tool, tool[c].at = "asking", Free(ls, c),
         Caught(c, ls)
  PROVE  DeviceInv'
<1>1. CASE Retries(c, ls)
  BY <1>1, RetryStep DEF Caught, GivenUp
<1>2. CASE ~Retries(c, ls)
  BY <1>2, EndStep DEF Caught, Busy
<1> QED BY <1>1, <1>2
-----------------------------------------------------------------------------
LEMMA StartStep ==
  ASSUME DeviceInv, NEW c \in Tool, Start(c)
  PROVE  DeviceInv'
<1>1. GoodLines(lines) /\ lines \in Seq(Line) /\ tool \in [Tool -> Calling] /\ carried \in [Tool -> Nat]
      /\ current \in 0..Len(lines) /\ tool[c] \in Calling /\ tool[c].at = "new" /\ tool[c].tries = 0
      /\ Known(lines, tool) /\ Placed(lines, tool) /\ Tries(lines, tool, carried) /\ shared \in BOOLEAN
      /\ KeptIsOpened(lines, current)
  BY DEF DeviceInv, DeviceTyped, Tries, GoodLines, Start, Budget
<1>2. Free(lines, c)
  BY <1>1, FreeUnlessAsking
<1>3. shared' = (shared \/ \E b \in Tool : Busy(b)) /\ carried' = carried /\ current' = current
  BY DEF Start
<1>4. ~shared' => Alone(lines, tool, current) /\ \A b \in Tool : ~Busy(b)
  BY <1>3 DEF DeviceInv
<1>5. CASE Usable
  <2> DEFINE t == [NewTool EXCEPT !.at = "asking", !.on = current, !.tries = 1]
  <2>1. tool' = [tool EXCEPT ![c] = t] /\ lines' = AskedOn(lines, current, c)
        /\ current \in DOMAIN lines /\ lines[current].end = "open" /\ current \in Nat
    BY <1>1, <1>5 DEF Start, Usable
  <2>2. t \in Calling /\ t.at = "asking" /\ t.on = current /\ t.tries = 1
    <3> DEFINE v == [NewTool EXCEPT !.at = "asking"]
               w == [v EXCEPT !.on = current]
    <3>1. v \in Calling /\ v.at = "asking"
      BY NewToolType, CallAt
    <3>2. t = [w EXCEPT !.tries = 1]
      OBVIOUS
    <3> HIDE DEF v, t
    <3>3. w \in Calling /\ w.at = "asking" /\ w.on = current
      BY <2>1, <3>1, CallOn
    <3> HIDE DEF w
    <3>4. 1 \in 0..2
      OBVIOUS
    <3>5. t \in Calling /\ t.at = w.at /\ t.on = w.on /\ t.tries = 1
      BY <3>2, <3>3, <3>4, CallTries
    <3> QED BY <3>3, <3>5
  <2> HIDE DEF t
  <2>3. Budget(t, c) /\ t.tries + ToAsk(tool[c]) >= tool[c].tries + 1
    BY <1>1, <2>2 DEF Budget, ToAsk
  <2>4. \A i \in DOMAIN lines[current].asked : lines[current].asked[i] # c
    BY <1>1, <2>1 DEF Known
  <2>5. Tries(lines', tool', carried')
    BY <1>1, <1>2, <1>3, <2>1, <2>2, <2>3, <2>4, AskTries
  <2>6. DOMAIN lines' = DOMAIN lines /\ lines' \in Seq(Line)
        /\ \A n \in DOMAIN lines : lines'[n].end = lines[n].end
    <3>1. DOMAIN lines' = DOMAIN lines /\ lines' \in Seq(Line)
      BY <2>1, <2>5, <1>1 DEF AskedOn, Tries, GoodLines
    <3>2. lines'[current] = [lines[current] EXCEPT !.asked = Append(@, c)]
      BY <1>1, <2>1 DEF AskedOn
    <3>3. lines[current] \in Line
      BY <1>1, <2>1
    <3>4. lines'[current].end = lines[current].end
      <4> DEFINE l == lines[current]
                 a == Append(l.asked, c)
                 m == [l EXCEPT !.asked = a]
      <4>1. m = [end |-> l.end, peer |-> l.peer, asked |-> a, settled |-> l.settled, served |-> l.served]
        <5> HIDE DEF l, a
        <5> QED BY <3>3, LineWith DEF l
      <4>2. m.end = l.end
        <5> HIDE DEF m, l, a
        <5> QED BY <4>1
      <4> QED BY <3>2, <4>2
    <3>5. \A n \in DOMAIN lines : n # current => lines'[n] = lines[n]
      BY <1>1, <2>1 DEF AskedOn
    <3> QED BY <3>1, <3>4, <3>5
  <2>7. Len(lines') = Len(lines) /\ \A n \in DOMAIN lines : Live(lines'[n]) = Live(lines[n])
    BY <1>1, <2>6 DEF Live
  <2>8. tool'[c] = t /\ \A b \in Tool : b # c => tool'[b] = tool[b]
    BY <1>1, <2>1
  <2>9. DeviceTyped'
    <3>1. tool' \in [Tool -> Calling] /\ shared' \in BOOLEAN
      BY <1>1, <1>3, <2>1, <2>2
    <3> QED BY <1>1, <1>3, <2>1, <2>2, <2>6, <2>7, <2>8, <3>1 DEF DeviceInv, DeviceTyped
  <2>10. KeptIsOpened(lines', current')
    BY <1>3, <2>1, <2>6 DEF KeptIsOpened
  <2>11. ~shared' => Alone(lines', tool', current')
    <3> SUFFICES ASSUME ~shared' PROVE Alone(lines', tool', current)
      BY <1>3
    <3>1. Alone(lines, tool, current) /\ \A b \in Tool : ~Busy(b)
      BY <1>4
    <3>2. \A b \in Tool : tool'[b].at \in {"locating", "opening", "asking"} => b = c
      BY <3>1, <2>8 DEF Busy
    <3>3. \A b \in Tool : ~Searching(tool'[b])
      BY <3>1, <2>2, <2>8 DEF Busy, Searching
    <3>4. \A n \in DOMAIN lines' : Live(lines'[n]) => n = current
      BY <3>1, <2>6, <2>7 DEF Alone, Busy
    <3> QED BY <3>2, <3>3, <3>4 DEF Alone, Searching
  <2> QED BY <2>5, <2>9, <2>10, <2>11 DEF DeviceInv
<1>6. CASE ~Usable
  <2> DEFINE t == [NewTool EXCEPT !.at = "locating", !.tries = 1]
  <2>1. tool' = [tool EXCEPT ![c] = t] /\ lines' = lines
    BY <1>6 DEF Start
  <2>2. t \in Calling /\ t.at = "locating" /\ t.tries = 1
    BY <1>1, Moves
  <2> HIDE DEF t
  <2>3. Budget(t, c) /\ t.tries + ToAsk(tool[c]) >= tool[c].tries + ToAsk(t)
    BY <1>1, <2>2 DEF Budget, ToAsk
  <2>4. Tries(lines', tool', carried')
    BY <1>1, <1>2, <1>3, <2>1, <2>2, <2>3, NoneLater, MoveTries
  <2>5. tool'[c] = t /\ \A b \in Tool : b # c => tool'[b] = tool[b]
    BY <1>1, <2>1
  <2>6. DeviceTyped'
    <3>1. tool' \in [Tool -> Calling] /\ shared' \in BOOLEAN
      BY <1>1, <1>3, <2>1, <2>2
    <3> QED BY <1>3, <2>1, <2>2, <2>5, <3>1 DEF DeviceInv, DeviceTyped
  <2>7. KeptIsOpened(lines', current')
    BY <1>1, <1>3, <2>1
  <2>8. ~shared' => Alone(lines', tool', current')
    <3> SUFFICES ASSUME ~shared' PROVE Alone(lines, tool', current)
      BY <1>3, <2>1
    <3>1. Alone(lines, tool, current) /\ \A b \in Tool : ~Busy(b)
      BY <1>4
    <3>2. \A b \in Tool : tool'[b].at \in {"locating", "opening", "asking"} => b = c
      BY <3>1, <2>5 DEF Busy
    <3>3. \A n \in DOMAIN lines : Live(lines[n]) => n = current
      BY <3>1 DEF Alone, Busy
    <3>4. current = 0 \/ ~Live(lines[current])
      BY <1>1, <1>6 DEF Usable, KeptIsOpened, Live
    <3> QED BY <3>2, <3>3, <3>4 DEF Alone
  <2> QED BY <2>4, <2>6, <2>7, <2>8 DEF DeviceInv
<1> QED BY <1>5, <1>6

LEMMA ConnectStep ==
  ASSUME DeviceInv, NEW c \in Tool, Connect(c)
  PROVE  DeviceInv'
<1> DEFINE N == Len(lines) + 1
           t == [tool[c] EXCEPT !.at = "opening", !.on = N]
<1>1. GoodLines(lines) /\ lines \in Seq(Line) /\ tool \in [Tool -> Calling] /\ carried \in [Tool -> Nat]
      /\ current \in 0..Len(lines) /\ tool[c] \in Calling /\ tool[c].at = "locating"
      /\ Placed(lines, tool) /\ Tries(lines, tool, carried) /\ KeptIsOpened(lines, current)
      /\ lines' = Append(lines, NewLine) /\ tool' = [tool EXCEPT ![c].at = "opening", ![c].on = N]
      /\ Len(lines) \in Nat /\ current' = current /\ carried' = carried /\ shared' = shared
  BY DEF DeviceInv, DeviceTyped, Tries, GoodLines, Connect
<1>2. tool' = [tool EXCEPT ![c] = t]
  BY <1>1
<1>3. t \in Calling /\ t.at = "opening" /\ t.on = N /\ t.tries = tool[c].tries
  <2> DEFINE u == tool[c]
             v == [u EXCEPT !.at = "opening"]
  <2>1. u \in Calling /\ t = [v EXCEPT !.on = N] /\ N \in Nat
    BY <1>1
  <2> HIDE DEF t, u, N
  <2>2. v \in Calling /\ v.at = "opening" /\ v.tries = u.tries
    BY <2>1 DEF Calling
  <2> HIDE DEF v
  <2>3. t \in Calling /\ t.at = "opening" /\ t.on = N /\ t.tries = u.tries
    BY <2>1, <2>2 DEF Calling
  <2> QED BY <2>3 DEF u
<1> HIDE DEF t
<1>4. Budget(t, c) /\ t.tries + ToAsk(tool[c]) >= tool[c].tries + ToAsk(t)
  BY <1>1, <1>3 DEF Budget, ToAsk, Tries, Calling
<1>5. Tries(lines', tool, carried)
  BY <1>1, NewTries
<1>6. Tries(lines', tool', carried')
  <2>1. AllLater(lines', lines') /\ Free(lines', c)
    BY <1>1, <1>5, NoneLater, FreeUnlessAsking DEF Tries
  <2>2. Tries(lines', [tool EXCEPT ![c] = t], carried)
    BY <1>1, <1>3, <1>4, <1>5, <2>1, MoveTries
  <2> QED BY <1>1, <1>2, <2>2
<1>7. lines' \in Seq(Line) /\ DOMAIN lines = 1..Len(lines) /\ DOMAIN lines' = 1..N /\ Len(lines') = N
      /\ \A n \in DOMAIN lines : lines'[n] = lines[n]
  <2>1. NewLine \in Line
    BY DEF NewLine, Line
  <2> QED BY <1>1, <2>1
<1>8. tool'[c] = t /\ \A b \in Tool : b # c => tool'[b] = tool[b]
  BY <1>1, <1>2
<1>9. DeviceTyped'
  <2>1. tool' \in [Tool -> Calling]
    BY <1>1, <1>2, <1>3
  <2> QED BY <1>1, <1>3, <1>7, <1>8, <2>1 DEF DeviceInv, DeviceTyped
<1>10. KeptIsOpened(lines', current')
  BY <1>1, <1>7 DEF KeptIsOpened
<1>11. ~shared' => Alone(lines', tool', current')
  <2> SUFFICES ASSUME ~shared PROVE Alone(lines', tool', current)
    BY <1>1
  <2>1. Alone(lines, tool, current)
    BY DEF DeviceInv
  <2>2. \A b, d \in Tool : tool'[b].at \in {"locating", "opening", "asking"}
                            /\ tool'[d].at \in {"locating", "opening", "asking"} => b = d
    BY <1>1, <1>8, <2>1 DEF Alone
  <2>3. current = 0 \/ ~Live(lines'[current])
    BY <1>1, <1>7, <2>1 DEF Alone
  <2>4. \A b \in Tool : tool[b].at # "opening"
    BY <1>1, <2>1 DEF Alone
  <2>5. ASSUME NEW n \in DOMAIN lines', Live(lines'[n])
        PROVE  n = current \/ \E b \in Tool : tool'[b].at = "opening" /\ tool'[b].on = n
    <3>1. CASE n \in DOMAIN lines
      BY <1>7, <2>1, <2>4, <2>5, <3>1 DEF Alone
    <3>2. CASE n \notin DOMAIN lines
      <4>1. n = N
        BY <1>1, <1>7, <2>5, <3>2
      <4> QED BY <4>1, <1>3, <1>8
    <3> QED BY <3>1, <3>2
  <2> QED BY <2>2, <2>3, <2>5 DEF Alone
<1> QED BY <1>6, <1>9, <1>10, <1>11 DEF DeviceInv

LEMMA OpenedStep ==
  ASSUME DeviceInv, NEW c \in Tool, Opened(c)
  PROVE  DeviceInv'
<1> DEFINE n == tool[c].on
           t == [tool[c] EXCEPT !.at = "asking", !.scanned = FALSE]
           ls == [lines EXCEPT ![n].end = "open"]
<1>1. GoodLines(lines) /\ lines \in Seq(Line) /\ tool \in [Tool -> Calling] /\ carried \in [Tool -> Nat]
      /\ current \in 0..Len(lines) /\ tool[c] \in Calling /\ tool[c].at = "opening" /\ n \in DOMAIN lines
      /\ Placed(lines, tool) /\ Tries(lines, tool, carried)
      /\ tool' = [tool EXCEPT ![c].at = "asking", ![c].scanned = FALSE]
      /\ lines[n].end = "opening" /\ lines' = AskedOn(ls, n, c)
      /\ Len(lines) \in Nat /\ current' = n /\ carried' = carried /\ shared' = shared
  BY DEF DeviceInv, DeviceTyped, Tries, GoodLines, Opened
<1>2. tool' = [tool EXCEPT ![c] = t]
  BY <1>1
<1>3. t \in Calling /\ t.at = "asking" /\ t.on = n /\ t.tries = tool[c].tries
  <2> DEFINE u == tool[c]
             v == [u EXCEPT !.at = "asking"]
  <2>1. u \in Calling /\ t = [v EXCEPT !.scanned = FALSE]
    BY <1>1
  <2> HIDE DEF t, u
  <2>2. v \in Calling /\ v.at = "asking" /\ v.tries = u.tries /\ v.on = u.on
    BY <2>1 DEF Calling
  <2> HIDE DEF v
  <2>3. t \in Calling /\ t.at = "asking" /\ t.on = u.on /\ t.tries = u.tries
    BY <2>1, <2>2 DEF Calling
  <2> QED BY <2>3 DEF u
<1> HIDE DEF t
<1>4. Budget(t, c) /\ t.tries + ToAsk(tool[c]) >= tool[c].tries + 1
  BY <1>1, <1>3 DEF Budget, ToAsk, Tries, Calling
<1>5. Tries(ls, tool, carried) /\ DOMAIN ls = DOMAIN lines /\ ls[n].end = "open" /\ ls[n].asked = <<>>
  BY <1>1, OpenTries
<1>6. Free(ls, c)
  BY <1>1, <1>5, FreeUnlessAsking DEF Tries
<1>7. \A k \in DOMAIN lines : k # n => ls[k] = lines[k]
  BY <1>1
<1> HIDE DEF n, ls
<1>8. Tries(lines', tool', carried')
  <2>1. \A i \in DOMAIN ls[n].asked : ls[n].asked[i] # c
    BY <1>5
  <2>2. Tries(AskedOn(ls, n, c), [tool EXCEPT ![c] = t], carried)
    BY <1>1, <1>3, <1>4, <1>5, <1>6, <2>1, AskTries
  <2> QED BY <1>1, <1>2, <2>2
<1>9. ls \in Seq(Line) /\ lines' \in Seq(Line)
  BY <1>5, <1>8 DEF Tries, GoodLines
<1>10. DOMAIN lines' = DOMAIN lines /\ Len(lines') = Len(lines)
       /\ \A k \in DOMAIN lines : k # n => lines'[k] = lines[k]
  <2>1. DOMAIN lines' = DOMAIN ls /\ \A k \in DOMAIN ls : k # n => lines'[k] = ls[k]
    BY <1>1, <1>9 DEF AskedOn
  <2> QED BY <1>1, <1>5, <1>7, <1>9, <2>1
<1>11. lines'[n].end = "open"
  <2> DEFINE l == ls[n]
             a == Append(l.asked, c)
             m == [l EXCEPT !.asked = a]
  <2>1. lines'[n] = m
    BY <1>1, <1>5, <1>9 DEF AskedOn
  <2>2. l \in Line /\ l.end = "open"
    BY <1>1, <1>5, <1>9
  <2>3. m = [end |-> l.end, peer |-> l.peer, asked |-> a, settled |-> l.settled, served |-> l.served]
    <3> HIDE DEF l, a
    <3> QED BY <2>2, LineWith
  <2>4. m.end = l.end
    <3> HIDE DEF m, l, a
    <3> QED BY <2>3
  <2> QED BY <2>1, <2>2, <2>4
<1>12. tool'[c] = t /\ \A b \in Tool : b # c => tool'[b] = tool[b]
  BY <1>1, <1>2
<1>13. DeviceTyped'
  <2>1. tool' \in [Tool -> Calling]
    BY <1>1, <1>2, <1>3
  <2> QED BY <1>1, <1>3, <1>10, <1>12, <2>1 DEF DeviceInv, DeviceTyped
<1>14. KeptIsOpened(lines', current')
  BY <1>1, <1>11 DEF KeptIsOpened
<1>15. ~shared' => Alone(lines', tool', current')
  <2> SUFFICES ASSUME ~shared PROVE Alone(lines', tool', n)
    BY <1>1
  <2>1. Alone(lines, tool, current)
    BY DEF DeviceInv
  <2>2. \A b \in Tool : tool[b].at \in {"locating", "opening", "asking"} => b = c
    BY <1>1, <2>1 DEF Alone
  <2>3. \A b \in Tool : tool'[b].at \in {"locating", "opening", "asking"} => b = c
    BY <1>12, <2>2
  <2>4. \A b \in Tool : ~Searching(tool'[b])
    BY <1>3, <1>12, <2>2 DEF Searching
  <2>5. ASSUME NEW k \in DOMAIN lines', Live(lines'[k]) PROVE k = n
    <3> SUFFICES ASSUME k # n PROVE FALSE
      OBVIOUS
    <3>1. k \in DOMAIN lines /\ Live(lines[k])
      BY <1>10, <2>5
    <3>2. k # current
      BY <1>1, <2>1, <3>1 DEF Alone
    <3>3. PICK b \in Tool : tool[b].at = "opening" /\ tool[b].on = k
      BY <2>1, <3>1, <3>2 DEF Alone
    <3> QED BY <2>2, <3>3 DEF n
  <2> QED BY <2>3, <2>4, <2>5 DEF Alone, Searching
<1> QED BY <1>8, <1>13, <1>14, <1>15 DEF DeviceInv

\* open gives up: the connection it tried is closed.
LEMMA AbandonedLater ==
  ASSUME DeviceInv, NEW c \in Tool, Searching(tool[c])
  PROVE  /\ AllLater(lines, Abandoned(c)) /\ Free(Abandoned(c), c)
         /\ tool[c].at = "opening" => ~Live(Abandoned(c)[tool[c].on])
<1>1. GoodLines(lines) /\ lines \in Seq(Line) /\ Placed(lines, tool) /\ Len(lines) \in Nat
      /\ (tool[c].at = "opening" => tool[c].on \in 1..Len(lines))
  BY DEF DeviceInv, DeviceTyped, Tries, GoodLines
<1>2. Free(lines, c)
  BY <1>1, FreeUnlessAsking DEF Searching
<1>3. CASE tool[c].at = "opening"
  <2>1. tool[c].on \in 0..Len(lines) /\ tool[c].on # 0 /\ Abandoned(c) = Closed(lines, tool[c].on)
    BY <1>1, <1>3 DEF Abandoned
  <2>2. AllLater(lines, Abandoned(c)) /\ ~Live(Abandoned(c)[tool[c].on])
    BY <1>1, <2>1, ClosedLater
  <2> QED BY <1>1, <1>2, <2>2, LaterFree
<1>4. CASE tool[c].at # "opening"
  BY <1>1, <1>2, <1>4, NoneLater DEF Abandoned
<1> QED BY <1>3, <1>4

LEMMA ScanStep ==
  ASSUME DeviceInv, NEW c \in Tool, Scan(c)
  PROVE  DeviceInv'
<1> DEFINE t == [tool[c] EXCEPT !.at = "locating", !.on = 0, !.scanned = TRUE]
<1>1. tool \in [Tool -> Calling] /\ tool[c] \in Calling /\ Searching(tool[c])
      /\ tool' = [tool EXCEPT ![c].at = "locating", ![c].on = 0, ![c].scanned = TRUE]
      /\ lines' = Abandoned(c) /\ UNCHANGED <<current, carried, shared>> /\ Budget(tool[c], c)
  BY DEF DeviceInv, DeviceTyped, Tries, Scan, Searching
<1>2. tool' = [tool EXCEPT ![c] = t]
  BY <1>1
<1>3. t \in Calling /\ t.at = "locating" /\ t.tries = tool[c].tries
  <2> DEFINE u == tool[c]
             v == [u EXCEPT !.at = "locating"]
             w == [v EXCEPT !.on = 0]
  <2>1. u \in Calling /\ t = [w EXCEPT !.scanned = TRUE]
    BY <1>1
  <2> HIDE DEF t, u
  <2>2. v \in Calling /\ v.at = "locating" /\ v.tries = u.tries
    BY <2>1 DEF Calling
  <2> HIDE DEF v
  <2>3. w \in Calling /\ w.at = "locating" /\ w.tries = u.tries
    BY <2>2 DEF Calling
  <2> HIDE DEF w
  <2>4. t \in Calling /\ t.at = "locating" /\ t.tries = u.tries
    BY <2>1, <2>3 DEF Calling
  <2> QED BY <2>4 DEF u
<1> HIDE DEF t
<1>4. Budget(t, c) /\ t.tries + ToAsk(tool[c]) >= tool[c].tries + ToAsk(t)
  BY <1>1, <1>3 DEF Budget, ToAsk, Searching, Calling
<1>5. Busy(c)
  BY <1>1 DEF Busy, Searching
<1>6. AllLater(lines, lines') /\ Free(lines', c) /\ (tool[c].at = "opening" => ~Live(lines'[tool[c].on]))
  BY <1>1, AbandonedLater
<1> QED BY <1>1, <1>2, <1>3, <1>4, <1>5, <1>6, CallStep

LEMMA NotFoundStep ==
  ASSUME DeviceInv, NEW c \in Tool, NotFound(c)
  PROVE  DeviceInv'
<1>1. Searching(tool[c]) /\ lines' = Abandoned(c) /\ tool' = Ended(c, "failed")
      /\ UNCHANGED <<current, carried, shared>> /\ Busy(c)
  BY DEF NotFound, Searching, Busy
<1>2. AllLater(lines, lines') /\ Free(lines', c) /\ (tool[c].at = "opening" => ~Live(lines'[tool[c].on]))
  BY <1>1, AbandonedLater
<1> QED BY <1>1, <1>2, EndStep

LEMMA TurnStep ==
  ASSUME DeviceInv, NEW n \in DOMAIN lines, Answered(n) \/ TimesOut(n)
  PROVE  DeviceInv'
<1>1. GoodLines(lines) /\ Placed(lines, tool) /\ lines[n] \in Line /\ GoodLine(lines[n])
  BY DEF DeviceInv, Tries, GoodLines
<1>2. lines[n].end = "open" /\ lines[n].settled < Len(lines[n].asked)
  <2>1. CASE TimesOut(n)
    BY <2>1 DEF TimesOut
  <2>2. CASE Answered(n)
    <3> DEFINE l == lines[n]
    <3>1. l.end = "open" /\ l.settled < l.served
      BY <2>2 DEF Answered
    <3>2. l.settled \in Nat /\ l.served \in Nat /\ l.served <= Sent(l) /\ Len(l.asked) \in Nat
      <4> HIDE DEF l
      <4>1. l \in Line /\ GoodLine(l)
        BY <1>1 DEF l
      <4> QED BY <4>1 DEF Line, GoodLine
    <3> HIDE DEF l
    <3>3. l.settled < Len(l.asked)
      BY <3>1, <3>2 DEF Sent
    <3> QED BY <3>1, <3>3 DEF l
  <2> QED BY <2>1, <2>2
<1>3. AllLater(lines, NextTurn(n)) /\ Free(NextTurn(n), Turn(n)) /\ Turn(n) \in Tool /\ tool[Turn(n)].at = "asking"
  BY <1>1, <1>2, NextTurnLater DEF NextTurn, Turn
<1>4. CASE Answered(n)
  BY <1>3, <1>4, EndStep DEF Answered, Busy
<1>5. CASE TimesOut(n)
  BY <1>3, <1>5, CaughtStep DEF TimesOut
<1> QED BY <1>4, <1>5

LEMMA RejectedStep ==
  ASSUME DeviceInv, NEW c \in Tool, Rejected(c)
  PROVE  DeviceInv'
<1>1. GoodLines(lines) /\ Placed(lines, tool)
  BY DEF DeviceInv, Tries
<1>2. AllLater(lines, lines) /\ Free(lines, c)
  BY <1>1, NoneLater, FreeWhenGone DEF Rejected
<1> QED BY <1>2, CaughtStep DEF Rejected

LEMMA NetworkStep ==
  ASSUME DeviceInv, NEW n \in DOMAIN lines, Lost(n) \/ Accept(n) \/ Drop(n)
  PROVE  DeviceInv'
<1>1. GoodLines(lines) /\ lines \in Seq(Line) /\ lines[n] \in Line /\ GoodLine(lines[n]) /\ Len(lines) \in Nat
      /\ DOMAIN lines = 1..Len(lines)
  BY DEF DeviceInv, Tries, GoodLines
<1>2. UNCHANGED <<tool, current, carried, shared>>
  BY DEF Lost, Accept, Drop
<1>3. AllLater(lines, lines')
  <2>1. CASE Lost(n)
    <3>1. CASE lines' = Closed(lines, n)
      BY <1>1, <3>1, ClosedLater
    <3>2. CASE lines' = [lines EXCEPT ![n] = Over(@, "broken")]
      <4>1. Later(lines[n], Over(lines[n], "broken"))
        BY <1>1, OverLater
      <4>2. AllLater(lines, [lines EXCEPT ![n] = Over(lines[n], "broken")])
        BY <1>1, <4>1, OneLater
      <4> QED BY <3>2, <4>2
    <3> QED BY <2>1, <3>1, <3>2 DEF Lost
  <2>2. CASE Drop(n)
    <3> DEFINE l == lines[n]
               m == [l EXCEPT !.peer = "gone"]
    <3>1. Later(l, m)
      <4>1. l \in Line /\ GoodLine(l)
        BY <1>1
      <4> HIDE DEF l
      <4> QED BY <4>1, PeerLater
    <3>2. AllLater(lines, [lines EXCEPT ![n] = m])
      BY <1>1, <3>1, OneLater
    <3>3. lines' = [lines EXCEPT ![n] = m]
      BY <2>2, <1>1 DEF Drop
    <3> QED BY <3>2, <3>3
  <2>3. CASE Accept(n)
    <3>1. DOMAIN lines' = DOMAIN lines
      BY <2>3 DEF Accept
    <3>2. ASSUME NEW k \in DOMAIN lines PROVE Later(lines[k], lines'[k])
      <4> DEFINE l == lines[k]
      <4>1. l \in Line /\ GoodLine(l)
        BY <1>1 DEF GoodLines
      <4>2. lines'[k] \in {l, [l EXCEPT !.peer = "served"], [l EXCEPT !.peer = "gone"]}
        BY <2>3 DEF Accept
      <4>3. Later(l, l) /\ Later(l, [l EXCEPT !.peer = "served"]) /\ Later(l, [l EXCEPT !.peer = "gone"])
        <5> HIDE DEF l
        <5> QED BY <4>1, SameLater, PeerLater
      <4> HIDE DEF l
      <4>4. Later(l, lines'[k])
        BY <4>2, <4>3
      <4> QED BY <4>4 DEF l
    <3>3. lines' \in Seq(Line)
      <4>1. \A k \in 1..Len(lines) : lines'[k] \in Line
        BY <1>1, <3>2 DEF Later
      <4>2. lines' = [k \in 1..Len(lines) |-> lines'[k]]
        BY <1>1, <2>3 DEF Accept
      <4> QED BY <1>1, <4>1, <4>2
    <3> QED BY <3>1, <3>2, <3>3 DEF AllLater
  <2> QED BY <2>1, <2>2, <2>3
<1> QED BY <1>2, <1>3, OutsideStep

LEMMA CarryStep ==
  ASSUME DeviceInv, NEW n \in DOMAIN lines, Carry(n)
  PROVE  DeviceInv'
<1> DEFINE c == lines[n].asked[lines[n].served + 1]
<1>1. /\ tool \in [Tool -> Calling] /\ carried \in [Tool -> Nat] /\ Tries(lines, tool, carried)
      /\ lines[n].served < Sent(lines[n])
      /\ lines' = [lines EXCEPT ![n].served = @ + 1] /\ carried' = [carried EXCEPT ![c] = @ + 1]
      /\ UNCHANGED <<tool, current, shared>>
  BY DEF DeviceInv, DeviceTyped, Carry
<1>2. c \in Tool /\ AllLater(lines, lines') /\ Tries(lines', tool, carried')
  BY <1>1, CarryTries
<1>3. lines \in Seq(Line) /\ lines' \in Seq(Line) /\ DOMAIN lines' = DOMAIN lines /\ Len(lines') = Len(lines)
  <2>1. lines \in Seq(Line) /\ lines' \in Seq(Line) /\ DOMAIN lines' = DOMAIN lines
    BY <1>1, <1>2 DEF Tries, GoodLines, AllLater
  <2> QED BY <2>1
<1> HIDE DEF c
<1>4. DeviceTyped'
  <2>1. carried' \in [Tool -> Nat]
    BY <1>1, <1>2
  <2> QED BY <1>1, <1>3, <2>1 DEF DeviceInv, DeviceTyped
<1>5. \A k \in DOMAIN lines : Live(lines'[k]) => Live(lines[k])
  BY <1>2, <1>3, LaterKeeps
<1>6. KeptIsOpened(lines', current)
  BY <1>2, <1>3, LaterKeeps DEF DeviceInv, DeviceTyped
<1>7. ~shared => Alone(lines', tool, current)
  <2> SUFFICES ASSUME ~shared PROVE Alone(lines', tool, current)
    OBVIOUS
  <2>1. Alone(lines, tool, current) /\ current \in 0..Len(lines)
    BY DEF DeviceInv, DeviceTyped
  <2>2. current = 0 \/ current \in DOMAIN lines
    BY <1>3, <2>1
  <2> QED BY <1>3, <1>5, <2>1, <2>2 DEF Alone
<1> QED BY <1>1, <1>2, <1>4, <1>6, <1>7 DEF DeviceInv
-----------------------------------------------------------------------------
LEMMA InitDevice == DeviceInit => DeviceInv
<1> SUFFICES ASSUME DeviceInit PROVE DeviceInv
  OBVIOUS
<1>1. tool = [c \in Tool |-> NewTool] /\ current = 0 /\ lines = <<>> /\ carried = [c \in Tool |-> 0] /\ ~shared
      /\ shared \in BOOLEAN
  BY DEF DeviceInit
<1>2. DOMAIN lines = {} /\ Len(lines) = 0 /\ lines \in Seq(Line)
  BY <1>1
<1>3. NewTool \in Calling /\ NewTool.at = "new" /\ NewTool.tries = 0
  BY NewToolType DEF NewTool
<1>4. \A c \in Tool : tool[c] = NewTool /\ carried[c] = 0
  BY <1>1
<1>5. DeviceTyped
  <2>1. tool \in [Tool -> Calling] /\ carried \in [Tool -> Nat]
    BY <1>1, <1>3
  <2> QED BY <1>1, <1>2, <1>3, <1>4, <2>1 DEF DeviceTyped
<1>6. Tries(lines, tool, carried)
  <2>1. \A c : Owed(lines, c) = {}
    BY <1>2 DEF Owed
  <2>2. Cardinality({}) = 0
    BY FS_EmptySet
  <2>3. \A c \in Tool : Within(lines, tool[c], carried[c], c) /\ Budget(tool[c], c)
    <3> TAKE c \in Tool
    <3>1. tool[c].at = "new" /\ tool[c].tries = 0 /\ carried[c] = 0
      BY <1>3, <1>4
    <3>2. Cardinality(Owed(lines, c)) = 0
      BY <2>1, <2>2
    <3>3. ToAsk(tool[c]) = 0
      BY <3>1 DEF ToAsk
    <3> QED BY <3>1, <3>2, <3>3 DEF Within, Budget
  <2> QED BY <1>2, <2>3 DEF Tries, GoodLines, Known, Placed
<1>7. KeptIsOpened(lines, current) /\ Alone(lines, tool, current)
  BY <1>1, <1>2, <1>3, <1>4 DEF KeptIsOpened, Alone
<1> QED BY <1>5, <1>6, <1>7 DEF DeviceInv

LEMMA StepDevice == DeviceInv /\ [DeviceNext]_deviceVars => DeviceInv'
<1> SUFFICES ASSUME DeviceInv, [DeviceNext]_deviceVars PROVE DeviceInv'
  OBVIOUS
<1>1. CASE UNCHANGED deviceVars
  BY <1>1 DEF deviceVars, DeviceInv, DeviceTyped
<1>2. ASSUME NEW c \in Tool, Start(c) PROVE DeviceInv'
  BY <1>2, StartStep
<1>3. ASSUME NEW c \in Tool, Connect(c) PROVE DeviceInv'
  BY <1>3, ConnectStep
<1>4. ASSUME NEW c \in Tool, Opened(c) PROVE DeviceInv'
  BY <1>4, OpenedStep
<1>5. ASSUME NEW c \in Tool, Scan(c) PROVE DeviceInv'
  BY <1>5, ScanStep
<1>6. ASSUME NEW c \in Tool, NotFound(c) PROVE DeviceInv'
  BY <1>6, NotFoundStep
<1>7. ASSUME NEW c \in Tool, Rejected(c) PROVE DeviceInv'
  BY <1>7, RejectedStep
<1>8. ASSUME NEW n \in DOMAIN lines, Answered(n) \/ TimesOut(n) PROVE DeviceInv'
  BY <1>8, TurnStep
<1>9. ASSUME NEW n \in DOMAIN lines, Lost(n) \/ Accept(n) \/ Drop(n) PROVE DeviceInv'
  BY <1>9, NetworkStep
<1>10. ASSUME NEW n \in DOMAIN lines, Carry(n) PROVE DeviceInv'
  BY <1>10, CarryStep
<1> QED BY <1>1, <1>2, <1>3, <1>4, <1>5, <1>6, <1>7, <1>8, <1>9, <1>10 DEF DeviceNext, Progress

LEMMA DeviceInvariant == DeviceSpec => []DeviceInv
  BY InitDevice, StepDevice, PTL DEF DeviceSpec
-----------------------------------------------------------------------------
\* However many tools are called at once, and however often their connections are
\* lost, replaced and given up: the console carries out a call that changes the card at
\* most once, and one that reads at most twice (run of connection.ts).
THEOREM CarriedAtMostOnce == DeviceSpec => []AtMostOnce
<1>1. DeviceInv => AtMostOnce
  <2> SUFFICES ASSUME DeviceInv, NEW c \in Tool
               PROVE  carried[c] <= IF c \in Safe THEN 2 ELSE 1
    BY DEF AtMostOnce
  <2>1. Within(lines, tool[c], carried[c], c) /\ Budget(tool[c], c) /\ lines \in Seq(Line)
        /\ carried[c] \in Nat /\ tool[c] \in Calling
    BY DEF DeviceInv, DeviceTyped, Tries, GoodLines
  <2>2. Cardinality(Owed(lines, c)) \in Nat /\ ToAsk(tool[c]) \in 0..1 /\ tool[c].tries \in 0..2
    BY <2>1, OwedIsFinite DEF ToAsk, Calling
  <2>3. carried[c] <= tool[c].tries
    BY <2>1, <2>2 DEF Within
  <2> QED BY <2>1, <2>2, <2>3 DEF Budget
<1> QED BY <1>1, DeviceInvariant, PTL

\* As long as no tool is called while another runs, no connection is begun before the
\* one before is closed at this end (get and close of connection.ts, open of client.ts).
THEOREM OneConnectionAlone == DeviceSpec => []OneUnlessShared
<1>1. DeviceInv => OneUnlessShared
  <2> SUFFICES ASSUME DeviceInv, ~shared, NEW m \in DOMAIN lines, NEW n \in DOMAIN lines,
                      Live(lines[m]), Live(lines[n])
               PROVE  m = n
    BY DEF OneUnlessShared
  <2>1. Alone(lines, tool, current) /\ Live(lines[m]) /\ Live(lines[n])
    BY DEF DeviceInv, Live
  <2>2. ASSUME NEW k \in DOMAIN lines, Live(lines[k]), k # current
        PROVE  \E c \in Tool : tool[c].at = "opening" /\ tool[c].on = k
    BY <2>1, <2>2 DEF Alone
  <2>3. CASE \E c \in Tool : tool[c].at = "opening"
    <3>1. PICK c \in Tool : tool[c].at = "opening"
      BY <2>3
    <3>2. \A b \in Tool : tool[b].at = "opening" => b = c
      BY <2>1, <3>1 DEF Alone
    <3>3. current = 0 \/ ~Live(lines[current])
      BY <2>1, <3>1 DEF Alone
    <3>4. 0 \notin DOMAIN lines
      BY DEF DeviceInv, Tries, GoodLines
    <3> QED BY <2>1, <2>2, <3>2, <3>3, <3>4
  <2>4. CASE ~\E c \in Tool : tool[c].at = "opening"
    BY <2>1, <2>2, <2>4
  <2> QED BY <2>3, <2>4
<1> QED BY <1>1, DeviceInvariant, PTL
=============================================================================
