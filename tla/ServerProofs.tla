---------------------------- MODULE ServerProofs ----------------------------
(***************************************************************************)
(* Server, for every value of its constants: what clients receive is       *)
(* intact, recv has room, and the page's client is of the console.         *)
(*                                                                         *)
(* A wire that was written may be followed by the halves in its client's   *)
(* queue: that is what flush and pump keep, however much a socket takes,   *)
(* and what an answer, a pong or a closing frame needs to be queued.  A    *)
(* page may send ahead of its answers; the order in which it sends         *)
(* (Line) says what is then in its pipe.                                   *)
(***************************************************************************)
EXTENDS Server, SequenceTheorems, WellFoundedInduction, TLAPS

(***************************************************************************)
(* Numbers, and what a fold computes.                                      *)
(***************************************************************************)
\* An equality that a proof puts aside (HIDE DEF Is) once it has what it needs of it.
Is(a, b) == a = b

\* Which numbers are less than which.
Below == {pair \in Nat \X Nat : pair[1] < pair[2]}

\* Numbers are well founded below one another.
LEMMA BelowWellFounded == IsWellFoundedOn(Below, Nat)
BY NatLessThanWellFounded DEF OpToRel, Below

\* A set with 0 in it and the successor of each of its numbers has them all.
LEMMA Counting ==
  ASSUME NEW S, 0 \in S, \A k \in Nat : k \in S => k + 1 \in S
  PROVE  \A k \in Nat : k \in S
<1> SUFFICES ASSUME Nat \ S # {} PROVE FALSE
  OBVIOUS
<1>1. \E m \in Nat \ S : \A k \in Nat \ S : <<k, m>> \notin Below
  BY BelowWellFounded, WFMin
<1>2. PICK m \in Nat \ S : \A k \in Nat \ S : <<k, m>> \notin Below
  BY <1>1
<1>3. \A k \in Nat \ S : ~(k < m)
  BY <1>2 DEF Below
<1>4. m # 0 /\ m - 1 \in Nat /\ m - 1 < m
  BY <1>2
<1>5. m - 1 \in S
  BY <1>3, <1>4
<1>6. (m - 1) + 1 \in S
  BY <1>4, <1>5
<1> QED BY <1>2, <1>6

\* The greatest number of a run from 1.
LEMMA MaxOfRun ==
  ASSUME NEW m \in Nat, m # 0
  PROVE  Max(1..m) = m
<1>1. m \in 1..m /\ \A y \in 1..m : m >= y
  OBVIOUS
<1>2. \A x \in 1..m : (\A y \in 1..m : x >= y) => x = m
  BY <1>1
<1> QED BY <1>1, <1>2 DEF Max

\* A set of numbers up to m has a greatest one.
LEMMA MaxIsThere ==
  ASSUME NEW m \in Nat, NEW s \in SUBSET (1..m), s # {}
  PROVE  Max(s) \in s /\ \A y \in s : Max(s) >= y
<1> DEFINE S == {k \in Nat : \A t \in SUBSET (1..k) : t # {} => \E x \in t : \A y \in t : x >= y}
<1>1. 0 \in S
  <2>1. \A t \in SUBSET (1..0) : t = {}
    OBVIOUS
  <2> QED BY <2>1
<1>2. ASSUME NEW k \in Nat, k \in S PROVE k + 1 \in S
  <2> SUFFICES ASSUME NEW t \in SUBSET (1..(k + 1)), t # {} PROVE \E x \in t : \A y \in t : x >= y
    OBVIOUS
  <2>1. CASE k + 1 \in t
    <3>1. \A y \in t : k + 1 >= y
      OBVIOUS
    <3> QED BY <2>1, <3>1
  <2>2. CASE k + 1 \notin t
    <3>1. t \in SUBSET (1..k)
      BY <2>2
    <3> QED BY <1>2, <3>1
  <2> QED BY <2>1, <2>2
<1>3. m \in S
  <2> HIDE DEF S
  <2> QED BY <1>1, <1>2, Counting
<1>4. \E x \in s : \A y \in s : x >= y
  BY <1>3
<1> QED BY <1>4 DEF Max

\* The function a fold over the first m halves of q is computed with.
IsIter(g, w, q, m) ==
  g = [s \in SUBSET (1..m) |-> IF s = {} THEN w ELSE Put(g[s \ {Max(s)}], q[Max(s)])]

\* Such a function exists for every number of elements.
LEMMA IterExists ==
  ASSUME NEW w, NEW q, NEW m \in Nat
  PROVE  \E g : IsIter(g, w, q, m)
<1> DEFINE S == {k \in Nat : \E g : IsIter(g, w, q, k)}
<1>1. 0 \in S
  <2> DEFINE g == [s \in SUBSET (1..0) |-> w]
  <2>1. \A s \in SUBSET (1..0) : s = {}
    OBVIOUS
  <2>2. g = [s \in SUBSET (1..0) |-> IF s = {} THEN w ELSE Put(g[s \ {Max(s)}], q[Max(s)])]
    BY <2>1
  <2>3. IsIter(g, w, q, 0)
    BY <2>2 DEF IsIter
  <2> QED BY <2>3
<1>2. ASSUME NEW k \in Nat, k \in S PROVE k + 1 \in S
  <2>1. PICK g : IsIter(g, w, q, k)
    BY <1>2
  <2> DEFINE f == [s \in SUBSET (1..(k + 1)) |-> IF s = {} THEN w ELSE Put(g[s \ {Max(s)}], q[Max(s)])]
  <2>2. ASSUME NEW s \in SUBSET (1..(k + 1)), s # {}
        PROVE  s \ {Max(s)} \in SUBSET (1..k)
    <3>1. Max(s) \in s /\ \A y \in s : Max(s) >= y
      BY MaxIsThere, k + 1 \in Nat, <2>2
    <3>2. ASSUME NEW y \in s \ {Max(s)} PROVE y \in 1..k
      <4>1. y \in 1..(k + 1) /\ Max(s) \in 1..(k + 1) /\ Max(s) >= y /\ y # Max(s)
        BY <3>1
      <4> QED BY <4>1
    <3> QED BY <3>2
  <2>3. \A s \in SUBSET (1..k) : g[s] = IF s = {} THEN w ELSE Put(g[s \ {Max(s)}], q[Max(s)])
    BY <2>1 DEF IsIter
  <2>4. \A s \in SUBSET (1..k) : s \in SUBSET (1..(k + 1))
    OBVIOUS
  <2>5. \A s \in SUBSET (1..k) : f[s] = g[s]
    BY <2>3, <2>4
  <2>6. \A s \in SUBSET (1..(k + 1)) : f[s] = IF s = {} THEN w ELSE Put(f[s \ {Max(s)}], q[Max(s)])
    <3> TAKE s \in SUBSET (1..(k + 1))
    <3>1. CASE s = {}
      <4>1. {} \in SUBSET (1..(k + 1))
        OBVIOUS
      <4>2. f[{}] = w
        BY <4>1
      <4> HIDE DEF f
      <4> QED BY <4>2, <3>1
    <3>2. CASE s # {}
      <4>1. f[s \ {Max(s)}] = g[s \ {Max(s)}]
        BY <2>2, <2>5, <3>2
      <4>2. f[s] = Put(g[s \ {Max(s)}], q[Max(s)])
        BY <3>2
      <4> HIDE DEF f
      <4> QED BY <4>1, <4>2, <3>2
    <3> QED BY <3>1, <3>2
  <2>7. f = [s \in SUBSET (1..(k + 1)) |-> f[s]]
    OBVIOUS
  <2>8. IsIter(f, w, q, k + 1)
    <3> HIDE DEF f
    <3> QED BY <2>6, <2>7 DEF IsIter
  <2> QED BY <2>8
<1> HIDE DEF S
<1>3. m \in S
  BY <1>1, <1>2, Counting
<1> QED BY <1>3 DEF S

\* What the wire is after the first i halves of q.
IsRun(f, w, q) ==
  /\ f[0] = w
  /\ \A i \in 1..Len(q) : f[i] = Put(f[i - 1], q[i])

After(w, q) == FoldLeft(Put, w, q)

\* FoldLeft(Put, w, q) is what the last of these values is.
LEMMA FoldRuns ==
  ASSUME NEW w, NEW T, NEW q \in Seq(T)
  PROVE  \E f : IsRun(f, w, q) /\ After(w, q) = f[Len(q)]
<1> DEFINE m == Len(q)
<1>1. m \in Nat /\ DOMAIN q = 1..m
  BY LenProperties
<1> DEFINE g == CHOOSE h : IsIter(h, w, q, m)
<1>2. IsIter(g, w, q, m)
  BY <1>1, IterExists
<1>3. After(w, q) = g[1..m]
  BY <1>1 DEF After, FoldLeft, MapThenFoldSet, IsIter
<1> HIDE DEF g
<1> DEFINE f == [i \in 0..m |-> g[1..i]]
<1>4. \A s \in SUBSET (1..m) : g[s] = IF s = {} THEN w ELSE Put(g[s \ {Max(s)}], q[Max(s)])
  BY <1>2 DEF IsIter
<1>5. f[0] = w
  BY <1>4, 1..0 = {}, {} \in SUBSET (1..m), 0 \in 0..m, <1>1
<1>6. ASSUME NEW i \in 1..m PROVE f[i] = Put(f[i - 1], q[i])
  <2> HIDE DEF m
  <2>0. i \in Nat /\ i # 0 /\ i \in 0..m /\ i - 1 \in 0..m /\ i \in 1..i
    BY <1>1
  <2>1. 1..i \in SUBSET (1..m) /\ 1..i # {}
    BY <1>1, <2>0
  <2>2. Max(1..i) = i
    BY <2>0, MaxOfRun
  <2>3. (1..i) \ {i} = 1..(i - 1)
    BY <2>0
  <2>4. g[1..i] = Put(g[1..(i - 1)], q[i])
    BY <1>4, <2>0, <2>1, <2>2, <2>3
  <2> QED BY <2>0, <2>4
<1>7. f[m] = g[1..m]
  BY <1>1, m \in 0..m
<1> HIDE DEF f
<1> QED BY <1>3, <1>5, <1>6, <1>7 DEF IsRun

-----------------------------------------------------------------------------
(***************************************************************************)
(* The inductive invariant.                                                *)
(***************************************************************************)
\* What is of which type.
Item == {"req", "part", "rest", "data", "bad", "ping", "close", "text", "piece"}
Half == Nat \X Nat \X (0..2)
Ask == {"req", "part", "rest"}
Final == {"close", "text"}

ConnType ==
  [ sock : Sock \cup {None}, in : Seq(Item), used : Nat, pend : Item \cup {None},
    dec : {"idle", "message", "stuck"}, out : Seq(Half), ctl : Seq(Half), ctlUsed : Nat,
    closing : BOOLEAN, stream : Nat, handled : Nat, quiet : BOOLEAN ]
SockType ==
  [ at : {"new", "queued", "open", "closed"}, gone : BOOLEAN, buf : 0..SndMax, in : Seq(Item),
    pieces : Nat, asked : Nat, pings : Nat, last : Item \cup {None},
    head : {None} \cup UNION {Heads[s] : s \in WebSock} ]
WireType ==
  [ half : {<<>>} \cup Half, n : Nat, k : Nat, pongs : Nat, whole : BOOLEAN, ordered : BOOLEAN ]
HttpType == [ sock : WebSock \cup {None}, got : Nat, resp : Nat, old : BOOLEAN ]
TaskType ==
  ({"feed", "process", "accept"} \X Slot) \cup ({"read", "pump"} \X Slot \X Nat)
    \cup ({"again"} \X Slot \X Nat \X Nat) \cup ({"http"} \X (1..HttpSlots) \X (WebSock \cup {None}))
    \cup ({"write"} \X (1..HttpSlots)) \cup {<<"poll">>, <<"timers">>}

NetTypes ==
  /\ conn \in [Slot -> ConnType]
  /\ http \in [1..HttpSlots -> HttpType]
  /\ backlog \in [Slot -> Seq(Sock)]
  /\ sock \in [Sock -> SockType]
  /\ wire \in [Sock -> WireType]
TypeOK ==
  /\ todo \in Seq(TaskType)
  /\ polled \in [sock : [Slot -> Sock \cup {None}], want : SUBSET Slot]
  /\ NetTypes

\* Whose socket is whose.
Places ==
  /\ conn["raw"].sock \in RawSock \cup {None} /\ conn["web"].sock \in WebSock \cup {None}
  /\ \A c \in Slot : IF conn[c].sock = None THEN conn[c] = NoConn ELSE sock[conn[c].sock].at = "open"
  /\ \A i \in 1..HttpSlots : http[i].sock # None =>
       /\ sock[http[i].sock].at = "open" /\ http[i].sock # conn["web"].sock
       /\ \A j \in 1..HttpSlots : http[j].sock = http[i].sock => j = i
  /\ \A c \in Slot : \A i \in 1..Len(backlog[c]) :
       /\ sock[backlog[c][i]].at = "queued" /\ backlog[c][i] \in (IF c = "raw" THEN RawSock ELSE WebSock)
       /\ \A j \in 1..Len(backlog[c]) : backlog[c][j] = backlog[c][i] => j = i

\* A socket that no client of the server has is as new.
Fresh ==
  /\ \A s \in Sock : sock[s].at \in {"new", "queued"} => wire[s] = NewWire
  /\ \A s \in WebSock : sock[s].at # "closed" /\ s # conn["web"].sock =>
       wire[s] = NewWire /\ sock[s].asked = 0 /\ sock[s].pings = 0 /\ sock[s].last \in {None, "piece"}

\* A head is one its browser may send; the page's was accepted.
HeadsKnown ==
  /\ \A s \in WebSock : sock[s].at \in {"queued", "open"} => sock[s].head \in Heads[s]
  /\ conn["web"].sock # None => Status(sock[conn["web"].sock].head) = 101

\* The halves q that are to follow on a wire: frames, an answer of handled and stream first.
Linked(q, handled, stream) == \A j \in 1..Len(q) :
  /\ q[j][3] \in {1, 2} /\ q[j] = <<q[j][1], q[j][2], q[j][3]>>
  /\ q[j][1] # 0 => q[j][1] = handled /\ q[j][2] = stream
  /\ q[j][1] = 0 => q[j][2] = 0
  /\ IF q[j][3] = 1 THEN j < Len(q) /\ q[j + 1] = <<q[j][1], q[j][2], 2>>
     ELSE j < Len(q) => q[j + 1][3] = 1 /\ q[j + 1][1] = 0

\* The wire w may be followed by the halves of q after the first i.
Meets(w, q, i, handled, stream) ==
  /\ w.whole /\ w.ordered
  /\ IF i = Len(q) THEN w.half = <<>>
     ELSE IF w.half = <<>> THEN q[i + 1][3] = 1 ELSE w.half[3] = 1 /\ q[i + 1] = <<w.half[1], w.half[2], 2>>
  /\ IF i < Len(q) /\ q[i + 1][1] # 0
     THEN (w.n = handled /\ w.k = stream + 1) \/ (w.n + 1 = handled /\ w.k = 0)
     ELSE w.n = handled /\ w.k = stream

Good(w, x) ==
  /\ Linked(x.out \o x.ctl, x.handled, x.stream)
  /\ Meets(w, x.out \o x.ctl, 0, x.handled, x.stream)
  /\ \A j \in 1..Len(x.out) : x.out[j][1] # 0
  /\ \A j \in 1..Len(x.ctl) : x.ctl[j][1] = 0

\* What the page sent and the agent has not taken, in order.
Pend(x) == IF x.pend = None THEN <<>> ELSE <<x.pend>>
Pipe(x, k) == (Pend(x) \o x.in) \o k.in

Asks(p) == IF p = <<>> \/ p[1] \notin Ask THEN 0 ELSE IF Len(p) = 1 \/ p[2] \notin Ask THEN 1 ELSE 2

\* The halves of control frames a wire has had.
Owed(w) == 2 * w.pongs + (IF w.half = <<0, 0, 1>> THEN 1 ELSE 0)
Debt(w, ctl) == Owed(w) + Len(ctl)

Shape(p) ==
  /\ \A i \in 1..Len(p) : p[i] \in Ask \cup Final \cup {"ping"}
  /\ \A i \in 1..Len(p) : p[i] \in Final => i = Len(p)
  /\ \A i \in 1..Len(p) : p[i] \in Ask => i = 1 \/ (i = 2 /\ p[1] = "part" /\ p[2] = "rest")

Line(x, k, w, p) ==
  /\ Shape(p)
  /\ x.handled <= k.asked
  /\ Asks(p) > 0 \/ k.last = "part" => k.asked = x.handled + 1 /\ x.out = <<>> /\ x.stream = 0
  /\ Asks(p) > 0 => x.ctl = <<>> /\ w.half = <<>>
  /\ Asks(p) > 0 /\ k.last \notin Final => k.last = p[Asks(p)]
  /\ k.last \notin Final =>
       /\ \A i \in 1..Len(p) : p[i] \notin Final
       /\ Debt(w, x.ctl) + 2 * (Len(p) - Asks(p)) <= 2 * k.pings
  /\ x.pend \in Ask \cup {None}
  /\ IF Asks(p) > 0
     THEN x.dec = (IF x.pend = None THEN (IF p[1] = "rest" THEN "message" ELSE "idle")
                   ELSE IF x.pend = "part" THEN "message" ELSE "idle")
     ELSE k.last \notin Final => x.dec = (IF k.last = "part" THEN "message" ELSE "idle")

\* What is known of client c in state x, with socket k and wire w.
Fine(c, x, k, w) ==
  /\ x \in ConnType /\ k \in SockType /\ w \in WireType
  /\ Good(w, x) /\ (x.stream > 0 => x.handled > 0)
  /\ IF c = "web" THEN Line(x, k, w, Pipe(x, k)) ELSE x.ctl = <<>> /\ x.closing = FALSE /\ x.pend = None

Served == \A c \in Slot : conn[c].sock # None => Fine(c, conn[c], sock[conn[c].sock], wire[conn[c].sock])

\* The tasks q are in order, with b the connections to accept.
Ordered(q, b) ==
  /\ q # <<>>
  /\ \A i \in 1..Len(q) : q[i][1] \in {"poll", "timers"} <=> i = Len(q)
  /\ \A i \in 2..Len(q) : q[i][1] # "process"
  /\ \A i, j \in 1..Len(q) : i < j =>
       /\ q[j][1] \in {"feed", "poll"} => q[i][1] \in {"feed", "process"}
       /\ q[j][1] = "read" =>
            /\ q[i][1] # "feed"
            /\ q[i][1] \in {"process", "again", "read"} => q[i][2] # q[j][2]
       /\ q[j][1] = "feed" /\ q[i][1] = "feed" => q[i][2] # q[j][2]
       /\ q[j][1] = "again" => i = 1 /\ q[i] = <<"process", q[j][2]>>
  /\ \A i \in 1..Len(q) : q[i][1] = "accept" =>
       b[q[i][2]] # <<>> /\ \A j \in 1..Len(q) : q[j] = q[i] => j = i
Order == Ordered(todo, backlog)

\* When client c has nothing in its buffer: once its input is used up, and whenever it is received from.
Room(c) ==
  /\ todo[1] # <<"process", c>> /\ conn[c].in = <<>> /\ conn[c].pend = None => conn[c].used = 0
  /\ todo[Len(todo)] = <<"poll">> /\ (\A i \in 1..Len(todo) : todo[i] \notin {<<"feed", c>>, <<"process", c>>}) =>
       HasOutput(conn[c]) \/ conn[c].used = 0
  /\ todo[1][1] = "again" /\ todo[1][2] = c /\ ~Busy(conn[c]) /\ conn[c].pend = None => conn[c].used = 0
  /\ \A j \in 1..Len(todo) : todo[j][1] = "read" /\ todo[j][2] = c /\ c \notin polled.want => conn[c].used = 0

Buffers == \A c \in Slot : Room(c)

NetInv == NetTypes /\ Places /\ Fresh /\ HeadsKnown /\ StreamIntact /\ Served
IInv == TypeOK /\ NetInv /\ Order /\ Buffers

-----------------------------------------------------------------------------
(***************************************************************************)
(* A wire, and the queue that follows it.                                  *)
(***************************************************************************)
\* A half of a frame is not the mark of a wire between two frames.
LEMMA HalfIsSomething == \A h \in Half : h # <<>>
BY DEF Half

\* What the next half of the queue does to a wire that it may follow.
LEMMA PutNext ==
  ASSUME NEW w \in WireType, NEW q \in Seq(Half), NEW handled \in Nat, NEW stream \in Nat,
         NEW i \in 0..(Len(q) - 1), Linked(q, handled, stream), Meets(w, q, i, handled, stream)
  PROVE  /\ Put(w, q[i + 1]) \in WireType
         /\ Meets(Put(w, q[i + 1]), q, i + 1, handled, stream)
         /\ Owed(Put(w, q[i + 1])) = Owed(w) + (IF q[i + 1][1] = 0 THEN 1 ELSE 0)
<1> DEFINE u == q[i + 1]
           v == Put(w, u)
           ends == u[1] # 0 /\ u[3] = 2
<1>1. Len(q) \in Nat /\ i + 1 \in 1..Len(q) /\ i \in Nat /\ i < Len(q) /\ i # Len(q)
  OBVIOUS
<1>2. u \in Half /\ u[1] \in Nat /\ u[2] \in Nat /\ u[3] \in {1, 2} /\ u = <<u[1], u[2], u[3]>>
  BY <1>1 DEF Linked, Half
<1>3. /\ u[1] # 0 => u[1] = handled /\ u[2] = stream
      /\ u[1] = 0 => u[2] = 0
      /\ u[3] = 1 => i + 1 < Len(q) /\ q[i + 2] = <<u[1], u[2], 2>>
      /\ u[3] # 1 /\ i + 1 < Len(q) => q[i + 2][3] = 1 /\ q[i + 2][1] = 0
  <2>1. (i + 1) + 1 = i + 2
    OBVIOUS
  <2> QED BY <1>1, <2>1 DEF Linked
<1>4. /\ w.whole = TRUE /\ w.ordered = TRUE
      /\ IF w.half = <<>> THEN u[3] = 1 ELSE w.half[3] = 1 /\ u = <<w.half[1], w.half[2], 2>>
      /\ IF u[1] # 0 THEN (w.n = handled /\ w.k = stream + 1) \/ (w.n + 1 = handled /\ w.k = 0)
         ELSE w.n = handled /\ w.k = stream
  BY <1>1 DEF Meets, WireType
<1>5. w.half \in {<<>>} \cup Half /\ w.n \in Nat /\ w.k \in Nat /\ w.pongs \in Nat
  BY DEF WireType
<1>6. u[3] = 2 => u = <<w.half[1], w.half[2], 2>> /\ w.half # <<>> /\ w.half[3] = 1 /\ w.half = <<u[1], u[2], 1>>
  <2> SUFFICES ASSUME u[3] = 2 PROVE u = <<w.half[1], w.half[2], 2>> /\ w.half # <<>> /\ w.half[3] = 1 /\ w.half = <<u[1], u[2], 1>>
    OBVIOUS
  <2>1. w.half # <<>> /\ w.half[3] = 1 /\ u = <<w.half[1], w.half[2], 2>>
    BY <1>4
  <2>2. w.half = <<w.half[1], w.half[2], 1>>
    BY <2>1, <1>5 DEF Half
  <2>3. u[1] = w.half[1] /\ u[2] = w.half[2]
    BY <2>1
  <2> QED BY <2>1, <2>2, <2>3
<1>7. u[3] = 1 => w.half = <<>>
  BY <1>4
<1>8. ends => (IF w.k > 0 THEN u[1] = w.n /\ u[2] = w.k - 1 ELSE u[1] = w.n + 1)
  BY <1>3, <1>4, <1>5
<1>9. v = [ half |-> IF u[3] = 1 THEN u ELSE <<>>,
            n |-> IF ends THEN u[1] ELSE w.n, k |-> IF ends THEN u[2] ELSE w.k,
            pongs |-> IF u = <<0, 0, 2>> THEN w.pongs + 1 ELSE w.pongs,
            whole |-> TRUE, ordered |-> TRUE ]
  BY <1>2, <1>4, <1>6, <1>7, <1>8 DEF Put
<1>10. v \in WireType
  BY <1>2, <1>5, <1>9 DEF WireType
<1>11. v.whole = TRUE /\ v.ordered = TRUE /\ v.half = (IF u[3] = 1 THEN u ELSE <<>>)
       /\ v.n = (IF ends THEN u[1] ELSE w.n) /\ v.k = (IF ends THEN u[2] ELSE w.k)
       /\ v.pongs = (IF u = <<0, 0, 2>> THEN w.pongs + 1 ELSE w.pongs)
  BY <1>9
<1> HIDE DEF v, u
<1>12. Meets(v, q, i + 1, handled, stream)
  <2>1. CASE u[3] = 1
    <3>1. u # <<>>
      BY <1>2, HalfIsSomething
    <3>2. q[i + 2][1] = u[1]
      BY <1>3, <2>1
    <3> QED BY <1>1, <1>3, <1>4, <1>11, <2>1, <3>1, <3>2, (i + 1) + 1 = i + 2 DEF Meets
  <2>2. CASE u[3] = 2
    <3>1. v.half = <<>>
      BY <1>11, <2>2
    <3>2. v.n = handled /\ v.k = stream
      BY <1>11, <1>3, <1>4, <2>2
    <3> QED BY <1>1, <1>3, <1>11, <2>2, <3>1, <3>2, (i + 1) + 1 = i + 2 DEF Meets
  <2> QED BY <1>2, <2>1, <2>2
<1>13. Owed(v) = Owed(w) + (IF u[1] = 0 THEN 1 ELSE 0)
  <2>1. CASE u[3] = 1
    <3>1. w.half = <<>> /\ v.half = u /\ u = <<u[1], u[2], 1>> /\ v.pongs = w.pongs
      BY <1>2, <1>7, <1>11, <2>1
    <3>2. (u = <<0, 0, 1>>) <=> u[1] = 0
      BY <3>1, <1>3
    <3>3. w.half # <<0, 0, 1>>
      BY <3>1
    <3> QED BY <3>1, <3>2, <3>3, <1>5 DEF Owed
  <2>2. CASE u[3] = 2
    <3>1. w.half = <<u[1], u[2], 1>> /\ v.half = <<>> /\ u = <<u[1], u[2], 2>>
      BY <1>2, <1>6, <1>11, <2>2
    <3>2. ((w.half = <<0, 0, 1>>) <=> u[1] = 0) /\ ((u = <<0, 0, 2>>) <=> u[1] = 0)
      BY <3>1, <1>3
    <3>3. v.half # <<0, 0, 1>>
      BY <3>1
    <3> QED BY <3>2, <3>3, <1>5, <1>11 DEF Owed
  <2> QED BY <1>2, <2>1, <2>2
<1> QED BY <1>10, <1>12, <1>13 DEF v, u

\* The first lo halves are of an answer, the others of control frames.
SplitAt(q, lo) == \A j \in 1..Len(q) : q[j][1] = 0 <=> j > lo

\* The first n halves of a queue are sent: the wire may be followed by the others.
LEMMA RunMeets ==
  ASSUME NEW w \in WireType, NEW q \in Seq(Half), NEW handled \in Nat, NEW stream \in Nat,
         Linked(q, handled, stream), Meets(w, q, 0, handled, stream),
         NEW lo \in 0..Len(q), SplitAt(q, lo),
         NEW n \in 0..Len(q), NEW v, v = After(w, SubSeq(q, 1, n))
  PROVE  /\ v \in WireType /\ Meets(v, q, n, handled, stream)
         /\ Owed(v) = Owed(w) + (IF n <= lo THEN 0 ELSE n - lo)
<1> DEFINE p == SubSeq(q, 1, n)
<1>1. p \in Seq(Half) /\ Len(p) = n /\ \A i \in 1..n : p[i] = q[i]
  OBVIOUS
<1>2. PICK f : IsRun(f, w, p) /\ After(w, p) = f[Len(p)]
  <2> HIDE DEF p
  <2> QED BY ONLY <1>1, FoldRuns
<1>3. f[0] = w /\ (\A i \in 1..n : f[i] = Put(f[i - 1], q[i])) /\ v = f[n]
  BY <1>1, <1>2 DEF IsRun
<1> HIDE DEF p
<1> DEFINE Good1(i) == /\ f[i] \in WireType /\ Meets(f[i], q, i, handled, stream)
                       /\ Owed(f[i]) = Owed(w) + (IF i <= lo THEN 0 ELSE i - lo)
           S == {i \in Nat : i <= n => Good1(i)}
<1>4. 2 * w.pongs \in Nat /\ Owed(w) \in Int
  BY DEF WireType, Owed
<1>5. 0 \in S
  BY <1>3, <1>4
<1>6. ASSUME NEW i \in Nat, i \in S PROVE i + 1 \in S
  <2> SUFFICES ASSUME i + 1 <= n PROVE Good1(i + 1)
    OBVIOUS
  <2>1. i \in 0..(Len(q) - 1) /\ i + 1 \in 1..n /\ i + 1 \in 1..Len(q) /\ (i + 1) - 1 = i
    OBVIOUS
  <2>2. f[i] \in WireType /\ Meets(f[i], q, i, handled, stream) /\ Owed(f[i]) = Owed(w) + (IF i <= lo THEN 0 ELSE i - lo)
    BY <1>6, <2>1
  <2>3. f[i + 1] = Put(f[i], q[i + 1])
    BY <1>3, <2>1
  <2>4. /\ Put(f[i], q[i + 1]) \in WireType
        /\ Meets(Put(f[i], q[i + 1]), q, i + 1, handled, stream)
        /\ Owed(Put(f[i], q[i + 1])) = Owed(f[i]) + (IF q[i + 1][1] = 0 THEN 1 ELSE 0)
    BY ONLY <2>1, <2>2, PutNext, q \in Seq(Half), handled \in Nat, stream \in Nat, Linked(q, handled, stream)
  <2>5. q[i + 1][1] = 0 <=> i + 1 > lo
    BY <2>1 DEF SplitAt
  <2>6. Owed(f[i + 1]) = Owed(w) + (IF i + 1 <= lo THEN 0 ELSE i + 1 - lo)
    BY <1>4, <2>2, <2>3, <2>4, <2>5
  <2> QED BY <2>3, <2>4, <2>6
<1> HIDE DEF S
<1>7. n \in S
  BY <1>5, <1>6, Counting
<1> QED BY <1>3, <1>7 DEF S

\* What is left of a queue is linked as the queue was.
LEMMA LeftOver ==
  ASSUME NEW q \in Seq(Half), NEW handled \in Nat, NEW stream \in Nat, Linked(q, handled, stream),
         NEW n \in 0..Len(q), NEW v, Meets(v, q, n, handled, stream),
         NEW r \in Seq(Half), Len(r) = Len(q) - n, \A j \in 1..Len(r) : r[j] = q[n + j]
  PROVE  Linked(r, handled, stream) /\ Meets(v, r, 0, handled, stream)
<1>1. Linked(r, handled, stream)
  <2> SUFFICES ASSUME NEW j \in 1..Len(r)
      PROVE /\ r[j][3] \in {1, 2} /\ r[j] = <<r[j][1], r[j][2], r[j][3]>>
            /\ r[j][1] # 0 => r[j][1] = handled /\ r[j][2] = stream
            /\ r[j][1] = 0 => r[j][2] = 0
            /\ IF r[j][3] = 1 THEN j < Len(r) /\ r[j + 1] = <<r[j][1], r[j][2], 2>>
               ELSE j < Len(r) => r[j + 1][3] = 1 /\ r[j + 1][1] = 0
    BY DEF Linked
  <2>0. Len(q) \in Nat /\ Len(r) \in Nat /\ n \in Nat /\ j \in Nat
    OBVIOUS
  <2>1. n + j \in 1..Len(q) /\ (n + j) + 1 = n + (j + 1) /\ (j < Len(r) => j + 1 \in 1..Len(r)) /\ (j < Len(r) <=> n + j < Len(q))
    BY <2>0
  <2>2. r[j] = q[n + j]
    OBVIOUS
  <2>4. j < Len(r) => r[j + 1] = q[(n + j) + 1]
    BY <2>1
  <2>3. /\ q[n + j][3] \in {1, 2} /\ q[n + j] = <<q[n + j][1], q[n + j][2], q[n + j][3]>>
        /\ q[n + j][1] # 0 => q[n + j][1] = handled /\ q[n + j][2] = stream
        /\ q[n + j][1] = 0 => q[n + j][2] = 0
        /\ IF q[n + j][3] = 1 THEN n + j < Len(q) /\ q[(n + j) + 1] = <<q[n + j][1], q[n + j][2], 2>>
           ELSE n + j < Len(q) => q[(n + j) + 1][3] = 1 /\ q[(n + j) + 1][1] = 0
    BY <2>1 DEF Linked
  <2> QED BY <2>1, <2>2, <2>3, <2>4
<1>2. (n = Len(q) <=> 0 = Len(r)) /\ (n < Len(q) <=> 0 < Len(r)) /\ (n < Len(q) => r[0 + 1] = q[n + 1])
  OBVIOUS
<1>3. Meets(v, r, 0, handled, stream)
  BY <1>2 DEF Meets
<1> QED BY <1>1, <1>3

\* c is a without its first m elements.
Without(c, a, m) == Len(c) = Len(a) - m /\ \A j \in 1..Len(c) : c[j] = a[m + j]

\* What SubSeq leaves of a sequence when its first m elements go.
LEMMA DropIs ==
  ASSUME NEW T, NEW a \in Seq(T), NEW m \in 0..Len(a), NEW c, c = SubSeq(a, m + 1, Len(a))
  PROVE  c \in Seq(T) /\ Without(c, a, m)
<1>1. Len(a) \in Nat /\ m \in Nat /\ m + 1 \in Int /\ m <= Len(a)
  OBVIOUS
<1>2. \A i \in (m + 1)..Len(a) : a[i] \in T
  BY <1>1
<1>3. /\ SubSeq(a, m + 1, Len(a)) \in Seq(T)
      /\ Len(SubSeq(a, m + 1, Len(a))) = IF m + 1 <= Len(a) THEN Len(a) - (m + 1) + 1 ELSE 0
      /\ \A i \in 1..(Len(a) - (m + 1) + 1) : SubSeq(a, m + 1, Len(a))[i] = a[(m + 1) + i - 1]
  BY <1>1, <1>2, SubSeqProperties
<1>4. c \in Seq(T) /\ Len(c) = Len(a) - m
  BY <1>1, <1>3
<1>5. ASSUME NEW j \in 1..Len(c) PROVE c[j] = a[m + j]
  <2>1. j \in 1..(Len(a) - (m + 1) + 1) /\ (m + 1) + j - 1 = m + j
    BY <1>1, <1>4
  <2> QED BY <1>3, <2>1
<1> QED BY <1>4, <1>5 DEF Without

\* The halves left of an answer and of the control frames are what is left of both.
LEMMA RestJoins ==
  ASSUME NEW T, NEW a \in Seq(T), NEW b \in Seq(T),
         NEW l \in 0..Len(a), NEW m \in 0..Len(b), m = 0 \/ l = Len(a),
         NEW c \in Seq(T), Without(c, a, l), NEW d \in Seq(T), Without(d, b, m)
  PROVE  c \o d \in Seq(T) /\ Without(c \o d, a \o b, l + m)
<1> USE DEF Without
<1>0. Len(a) \in Nat /\ Len(b) \in Nat /\ l \in Nat /\ m \in Nat
  OBVIOUS
<1>1. /\ Len(a \o b) = Len(a) + Len(b)
      /\ \A j \in 1..Len(a) + Len(b) : (a \o b)[j] = IF j <= Len(a) THEN a[j] ELSE b[j - Len(a)]
  BY ConcatProperties
<1>2. /\ c \o d \in Seq(T) /\ Len(c \o d) = Len(c) + Len(d)
      /\ \A j \in 1..Len(c) + Len(d) : (c \o d)[j] = IF j <= Len(c) THEN c[j] ELSE d[j - Len(c)]
  BY ConcatProperties
<1>3. Len(c \o d) = Len(a \o b) - (l + m)
  BY <1>0, <1>1, <1>2
<1>4. ASSUME NEW j \in 1..Len(c \o d) PROVE (c \o d)[j] = (a \o b)[(l + m) + j]
  <2>1. (l + m) + j \in 1..Len(a) + Len(b) /\ j \in 1..Len(c) + Len(d)
    BY <1>0, <1>2
  <2>2. CASE j <= Len(c)
    <3>1. j \in 1..Len(c) /\ m = 0 /\ l + j <= Len(a) /\ (l + m) + j = l + j
      BY <1>0, <2>2
    <3>2. (c \o d)[j] = c[j] /\ c[j] = a[l + j]
      BY <1>2, <2>1, <3>1
    <3>3. (a \o b)[(l + m) + j] = a[l + j]
      BY <1>1, <2>1, <3>1
    <3> QED BY <3>2, <3>3
  <2>3. CASE ~(j <= Len(c))
    <3>1. j - Len(c) \in 1..Len(d) /\ ~((l + m) + j <= Len(a)) /\ ((l + m) + j) - Len(a) = m + (j - Len(c))
      <4>1. Len(c) = Len(a) - l /\ Len(d) = Len(b) - m
        OBVIOUS
      <4>2. Len(c) \in Nat /\ Len(d) \in Nat
        OBVIOUS
      <4> QED BY ONLY <1>0, <2>1, <2>3, <4>1, <4>2, SMTT(30)
    <3>2. (c \o d)[j] = d[j - Len(c)] /\ d[j - Len(c)] = b[m + (j - Len(c))]
      BY <1>2, <2>1, <2>3, <3>1
    <3>3. (a \o b)[(l + m) + j] = b[m + (j - Len(c))]
      BY <1>1, <2>1, <3>1
    <3> QED BY <3>2, <3>3
  <2> QED BY <2>2, <2>3
<1> QED BY <1>2, <1>3, <1>4

\* The frames in a client's queue.
LEMMA QueueIs ==
  ASSUME NEW x \in ConnType, NEW w, Good(w, x)
  PROVE  /\ x.out \o x.ctl \in Seq(Half) /\ Len(x.out \o x.ctl) = Len(x.out) + Len(x.ctl)
         /\ \A j \in 1..Len(x.out) : (x.out \o x.ctl)[j] = x.out[j]
         /\ \A j \in 1..Len(x.ctl) : (x.out \o x.ctl)[Len(x.out) + j] = x.ctl[j]
         /\ \A j \in 1..Len(x.out \o x.ctl) : (x.out \o x.ctl)[j][1] = 0 <=> j > Len(x.out)
<1> DEFINE a == x.out
           b == x.ctl
<1>1. a \in Seq(Half) /\ b \in Seq(Half) /\ Len(a) \in Nat /\ Len(b) \in Nat
  BY DEF ConnType
<1>2. (\A j \in 1..Len(a) : a[j][1] # 0) /\ \A j \in 1..Len(b) : b[j][1] = 0
  BY DEF Good
<1> HIDE DEF a, b
<1>3. /\ a \o b \in Seq(Half) /\ Len(a \o b) = Len(a) + Len(b)
      /\ \A j \in 1..Len(a) + Len(b) : (a \o b)[j] = IF j <= Len(a) THEN a[j] ELSE b[j - Len(a)]
  BY <1>1, ConcatProperties
<1>4. \A j \in 1..Len(a) : (a \o b)[j] = a[j]
  BY <1>1, <1>3
<1>5. ASSUME NEW j \in 1..Len(b) PROVE (a \o b)[Len(a) + j] = b[j]
  <2>1. Len(a) + j \in 1..Len(a) + Len(b) /\ ~(Len(a) + j <= Len(a)) /\ (Len(a) + j) - Len(a) = j
    BY <1>1
  <2> QED BY <1>3, <2>1
<1>6. ASSUME NEW j \in 1..Len(a \o b) PROVE (a \o b)[j][1] = 0 <=> j > Len(a)
  <2>1. CASE j <= Len(a)
    <3>1. j \in 1..Len(a)
      BY <1>1, <2>1
    <3>2. (a \o b)[j][1] # 0
      BY <1>2, <1>4, <3>1
    <3> QED BY <2>1, <3>2, <1>1
  <2>2. CASE j > Len(a)
    <3>1. j - Len(a) \in 1..Len(b) /\ Len(a) + (j - Len(a)) = j
      BY <1>1, <1>3, <2>2
    <3>2. (a \o b)[j][1] = 0
      BY <1>2, <1>5, <3>1
    <3> QED BY <2>2, <3>2, <1>1
  <2> QED BY <2>1, <2>2, <1>1
<1> QED BY <1>3, <1>4, <1>5, <1>6 DEF a, b

\* Sockets and wires.
Wiring == sock \in [Sock -> SockType] /\ wire \in [Sock -> WireType]

\* How much a client's socket takes.
LEMMA SendsIs ==
  ASSUME Wiring, NEW x \in ConnType, x.sock \in Sock
  PROVE  Sends(x) \in 0..(Len(x.out) + Len(x.ctl)) /\ sock[x.sock].buf + Sends(x) \in 0..SndMax
<1>1. SndMax \in Nat /\ sock[x.sock].buf \in 0..SndMax /\ Len(x.out) \in Nat /\ Len(x.ctl) \in Nat
  BY ServerAssumption DEF Wiring, SockType, ConnType
<1> DEFINE a == SndMax - sock[x.sock].buf
           b == Len(x.out) + Len(x.ctl)
<1>2. a \in Nat /\ sock[x.sock].buf + a = SndMax
  <2> DEFINE z == sock[x.sock].buf
  <2> HIDE DEF z
  <2>1. z \in 0..SndMax /\ SndMax \in Nat
    BY <1>1 DEF z
  <2>2. SndMax - z \in Nat /\ z + (SndMax - z) = SndMax
    BY <2>1
  <2> QED BY <2>2 DEF z
<1>6. b \in Nat
  <2> DEFINE i == Len(x.out)
             j == Len(x.ctl)
  <2>1. i \in Nat /\ j \in Nat
    BY <1>1
  <2>2. i + j \in Nat
    <3> HIDE DEF i, j
    <3> QED BY <2>1
  <2> QED BY <2>2
<1>3. Sends(x) = IF a < b THEN a ELSE b
  BY DEF Sends, Least
<1> HIDE DEF a, b
<1>4. Sends(x) \in 0..b /\ Sends(x) <= a /\ Sends(x) \in Nat
  BY <1>2, <1>3, <1>6
<1>5. sock[x.sock].buf + Sends(x) \in 0..SndMax
  BY <1>1, <1>2, <1>4
<1> QED BY <1>4, <1>5 DEF b

\* Sending leaves a wire that the rest may follow.
LEMMA SendsKeepGood ==
  ASSUME Wiring, NEW x \in ConnType, x.sock \in Sock, Good(wire[x.sock], x),
         NEW v, v = OnWire(x)[x.sock], NEW y, Is(y, Rest(x))
  PROVE  /\ OnWire(x) = [wire EXCEPT ![x.sock] = v] /\ v \in WireType
         /\ y \in ConnType /\ Good(v, y) /\ Debt(v, y.ctl) = Debt(wire[x.sock], x.ctl)
         /\ y.sock = x.sock /\ y.in = x.in /\ y.used = x.used /\ y.pend = x.pend /\ y.dec = x.dec
         /\ y.closing = x.closing /\ y.stream = x.stream /\ y.handled = x.handled
         /\ (x.out = <<>> => y.out = <<>>) /\ (x.ctl = <<>> => y.ctl = <<>>)
<1> USE DEF Is
<1> DEFINE w == wire[x.sock]
           q == x.out \o x.ctl
           n == Sends(x)
           lo == Len(x.out)
           lc == Len(x.ctl)
           l == IF n > lo THEN lo ELSE n
           m == IF n > lo THEN n - lo ELSE 0
<1>1. x.out \in Seq(Half) /\ x.ctl \in Seq(Half) /\ x.handled \in Nat /\ x.stream \in Nat /\ w \in WireType
  BY DEF ConnType, Wiring
<1>2. /\ q \in Seq(Half) /\ Len(q) = Len(x.out) + Len(x.ctl)
      /\ SplitAt(q, lo)
  BY QueueIs DEF SplitAt
<1>3. Linked(q, x.handled, x.stream) /\ Meets(w, q, 0, x.handled, x.stream)
  BY DEF Good
<1>4. n \in 0..Len(q) /\ lo \in 0..Len(q) /\ lo \in Nat /\ lc \in Nat /\ Len(q) = lo + lc
  <2>1. lo \in Nat /\ lc \in Nat
    BY <1>1
  <2>2. n \in 0..(lo + lc)
    BY SendsIs
  <2>3. Len(q) = lo + lc
    BY <1>2
  <2> HIDE DEF n, q, lo, lc
  <2> QED BY ONLY <2>1, <2>2, <2>3
<1>5. OnWire(x) = [wire EXCEPT ![x.sock] = v] /\ v = After(w, SubSeq(q, 1, n))
  BY DEF OnWire, Sent, Wiring, After
<1> HIDE DEF q, n, w, lo, lc
<1>6. /\ v \in WireType /\ Meets(v, q, n, x.handled, x.stream)
      /\ Owed(v) = Owed(w) + (IF n <= lo THEN 0 ELSE n - lo)
  <2> DEFINE handled == x.handled
             stream == x.stream
  <2>1. handled \in Nat /\ stream \in Nat /\ Linked(q, handled, stream) /\ Meets(w, q, 0, handled, stream)
    BY <1>1, <1>3
  <2>2. v = After(w, SubSeq(q, 1, n))
    BY <1>5
  <2> HIDE DEF handled, stream
  <2>3. w \in WireType /\ q \in Seq(Half) /\ SplitAt(q, lo) /\ lo \in 0..Len(q) /\ n \in 0..Len(q)
    BY <1>1, <1>2, <1>4
  <2>4. /\ v \in WireType /\ Meets(v, q, n, handled, stream)
        /\ Owed(v) = Owed(w) + (IF n <= lo THEN 0 ELSE n - lo)
    BY ONLY <2>1, <2>2, <2>3, RunMeets
  <2> QED BY <2>4 DEF handled, stream
<1>7. l \in 0..lo /\ m \in 0..lc /\ (m = 0 \/ l = lo) /\ l + m = n /\ m + 1 = 1 + m
  BY ONLY <1>4
<1>8. /\ y.out = SubSeq(x.out, n + 1, lo) /\ y.ctl = SubSeq(x.ctl, 1 + m, lc)
      /\ y.sock = x.sock /\ y.in = x.in /\ y.used = x.used /\ y.pend = x.pend /\ y.dec = x.dec
      /\ y.closing = x.closing /\ y.stream = x.stream /\ y.handled = x.handled
  BY DEF Rest, ConnType, n, lo, lc
<1>9. y.out = SubSeq(x.out, l + 1, lo)
  <2>1. CASE n > lo
    <3>1. l = lo /\ n + 1 > lo /\ l + 1 > lo /\ n + 1 \in Int /\ l + 1 \in Int /\ lo \in Int
      BY <2>1, <1>4
    <3>2. SubSeq(x.out, n + 1, lo) = <<>> /\ SubSeq(x.out, l + 1, lo) = <<>>
      BY <3>1, SubSeqEmpty
    <3> QED BY <1>8, <3>2
  <2>2. CASE ~(n > lo)
    <3>1. l = n
      BY <2>2
    <3> QED BY <1>8, <3>1
  <2> QED BY <2>1, <2>2
<1>10. y.ctl = SubSeq(x.ctl, m + 1, lc)
  BY <1>7, <1>8
<1> HIDE DEF l, m
<1>11. y.out \in Seq(Half) /\ Len(y.out) = lo - l /\ \A j \in 1..Len(y.out) : y.out[j] = x.out[l + j]
  <2> DEFINE a == x.out
             c == y.out
  <2>1. a \in Seq(Half) /\ l \in 0..Len(a) /\ c = SubSeq(a, l + 1, Len(a))
    BY <1>1, <1>7, <1>9 DEF lo
  <2>2. c \in Seq(Half) /\ Without(c, a, l)
    <3> HIDE DEF a, c
    <3> QED BY ONLY <2>1, DropIs
  <2> QED BY <2>2 DEF Without, lo, lc
<1>12. y.ctl \in Seq(Half) /\ Len(y.ctl) = lc - m /\ \A j \in 1..Len(y.ctl) : y.ctl[j] = x.ctl[m + j]
  <2> DEFINE a == x.ctl
             c == y.ctl
  <2>1. a \in Seq(Half) /\ m \in 0..Len(a) /\ c = SubSeq(a, m + 1, Len(a))
    BY <1>1, <1>7, <1>10 DEF lc
  <2>2. c \in Seq(Half) /\ Without(c, a, m)
    <3> HIDE DEF a, c
    <3> QED BY ONLY <2>1, DropIs
  <2> QED BY <2>2 DEF Without, lo, lc
<1>13. /\ y.out \o y.ctl \in Seq(Half) /\ Len(y.out \o y.ctl) = Len(q) - n
       /\ \A j \in 1..Len(y.out \o y.ctl) : (y.out \o y.ctl)[j] = q[n + j]
  <2>1. /\ y.out \o y.ctl \in Seq(Half) /\ Len(y.out \o y.ctl) = Len(x.out \o x.ctl) - (l + m)
        /\ \A j \in 1..Len(y.out \o y.ctl) : (y.out \o y.ctl)[j] = (x.out \o x.ctl)[(l + m) + j]
    <3> DEFINE a == x.out
               b == x.ctl
               c == y.out
               d == y.ctl
    <3>1. /\ a \in Seq(Half) /\ b \in Seq(Half) /\ l \in 0..Len(a) /\ m \in 0..Len(b) /\ (m = 0 \/ l = Len(a))
          /\ c \in Seq(Half) /\ Without(c, a, l)
          /\ d \in Seq(Half) /\ Without(d, b, m)
      BY <1>1, <1>7, <1>11, <1>12 DEF Without, lo, lc
    <3>2. /\ c \o d \in Seq(Half) /\ Without(c \o d, a \o b, l + m)
      <4> HIDE DEF a, b, c, d
      <4> QED BY ONLY <3>1, RestJoins
    <3> QED BY <3>2 DEF Without
  <2> QED BY ONLY <2>1, <1>7 DEF q
<1>14. Linked(y.out \o y.ctl, x.handled, x.stream) /\ Meets(v, y.out \o y.ctl, 0, x.handled, x.stream)
  BY ONLY <1>1, <1>2, <1>3, <1>4, <1>6, <1>13, LeftOver
<1>15. (\A j \in 1..Len(y.out) : y.out[j][1] # 0) /\ \A j \in 1..Len(y.ctl) : y.ctl[j][1] = 0
  <2>1. (\A j \in 1..Len(x.out) : x.out[j][1] # 0) /\ \A j \in 1..Len(x.ctl) : x.ctl[j][1] = 0
    BY DEF Good
  <2>2. (\A j \in 1..Len(y.out) : l + j \in 1..Len(x.out)) /\ \A j \in 1..Len(y.ctl) : m + j \in 1..Len(x.ctl)
    BY <1>4, <1>7, <1>11, <1>12 DEF lo, lc
  <2> QED BY <2>1, <2>2, <1>11, <1>12
<1>16. Good(v, y)
  BY <1>8, <1>14, <1>15 DEF Good
<1>17. Debt(v, y.ctl) = Debt(w, x.ctl)
  <2>1. Owed(w) \in Int
    BY <1>1 DEF Owed, WireType
  <2>2. Owed(v) = Owed(w) + m
    BY <1>6, <1>4 DEF m
  <2>3. Len(y.ctl) = lc - m /\ Len(x.ctl) = lc /\ lc \in Nat /\ m \in Nat
    BY <1>12, <1>7, <1>4 DEF lc
  <2> HIDE DEF m
  <2> QED BY <2>1, <2>2, <2>3 DEF Debt
<1>18. y \in ConnType
  <2>1. y.out \in Seq(Half) /\ y.ctl \in Seq(Half) /\ y.ctlUsed \in Nat /\ y.quiet \in BOOLEAN
    BY <1>11, <1>12 DEF Rest, ConnType
  <2>2. y = [x EXCEPT !.out = y.out, !.ctl = y.ctl, !.ctlUsed = y.ctlUsed, !.quiet = y.quiet]
    BY DEF Rest, ConnType
  <2> HIDE DEF Is
  <2> QED BY <2>1, <2>2 DEF ConnType
<1>19. x.out = <<>> => y.out = <<>>
  BY <1>1, <1>11, <1>7, <1>4 DEF lo
<1>20. x.ctl = <<>> => y.ctl = <<>>
  BY <1>1, <1>12, <1>7, <1>4 DEF lc
<1> QED BY <1>5, <1>6, <1>8, <1>16, <1>17, <1>18, <1>19, <1>20 DEF w

\* With an empty queue the wire is between two frames.
LEMMA EmptyQueue ==
  ASSUME NEW x \in ConnType, NEW w, Good(w, x), x.out = <<>>, x.ctl = <<>>
  PROVE  w.whole /\ w.ordered /\ w.half = <<>> /\ w.n = x.handled /\ w.k = x.stream
<1>1. Len(x.out \o x.ctl) = 0
  BY QueueIs
<1> QED BY <1>1 DEF Good, Meets

\* A wire that a queue may follow is sound.
LEMMA GoodIsSound ==
  ASSUME NEW w, NEW x, Good(w, x)
  PROVE  w.whole /\ w.ordered
BY DEF Good, Meets

\* Good is about the queue only.
LEMMA GoodSame ==
  ASSUME NEW w, NEW x, NEW y, Good(w, x), y.out = x.out, y.ctl = x.ctl, y.handled = x.handled, y.stream = x.stream
  PROVE  Good(w, y)
BY DEF Good

\* The next frame of an answer, or the first one of the next answer.
LEMMA FrameFollows ==
  ASSUME NEW w, NEW x \in ConnType, Good(w, x), x.out = <<>>, x.ctl = <<>>,
         NEW y \in ConnType, NEW m \in Nat, NEW k \in Nat, m # 0,
         y.out = Frame(m, k), y.ctl = <<>>, y.handled = m, y.stream = k,
         (x.handled = m /\ x.stream = k + 1) \/ (x.handled + 1 = m /\ x.stream = 0)
  PROVE  Good(w, y)
<1> DEFINE q == y.out \o y.ctl
<1>1. y.out = << <<m, k, 1>>, <<m, k, 2>> >>
  BY DEF Frame
<1>2. q = << <<m, k, 1>>, <<m, k, 2>> >>
  BY <1>1
<1> HIDE DEF q
<1>3. Len(q) = 2 /\ q[1] = <<m, k, 1>> /\ q[2] = <<m, k, 2>>
  BY <1>2
<1>4. Linked(q, m, k)
  <2>1. \A j \in 1..Len(q) : j = 1 \/ j = 2
    BY <1>3
  <2> QED BY <1>3, <2>1 DEF Linked
<1>5. w.whole /\ w.ordered /\ w.half = <<>> /\ w.n = x.handled /\ w.k = x.stream
  BY EmptyQueue
<1>6. Meets(w, q, 0, m, k)
  BY <1>3, <1>5 DEF Meets
<1>7. \A j \in 1..Len(y.out) : y.out[j][1] # 0
  <2>1. Len(y.out) = 2 /\ y.out[1] = <<m, k, 1>> /\ y.out[2] = <<m, k, 2>>
    BY <1>1
  <2>2. \A j \in 1..Len(y.out) : j = 1 \/ j = 2
    BY <2>1
  <2> QED BY <2>1, <2>2
<1>8. \A j \in 1..Len(y.ctl) : y.ctl[j][1] = 0
  OBVIOUS
<1> QED BY <1>4, <1>6, <1>7, <1>8 DEF Good, q

\* A control frame follows what is queued, or is dropped.
LEMMA ControlFollows ==
  ASSUME NEW w \in WireType, NEW x \in ConnType, Good(w, x), NEW close \in BOOLEAN, NEW y, Is(y, QueueCtl(x, close))
  PROVE  /\ y \in ConnType /\ Good(w, y) /\ y.out = x.out /\ y.stream = x.stream /\ y.handled = x.handled
         /\ y.sock = x.sock /\ y.in = x.in /\ y.used = x.used /\ y.pend = x.pend /\ y.dec = x.dec
         /\ Debt(w, y.ctl) <= Debt(w, x.ctl) + 2
<1> USE DEF Is
<1>0. Owed(w) \in Nat /\ x.ctl \in Seq(Half) /\ x.out \in Seq(Half) /\ Len(x.ctl) \in Nat /\ Len(x.out) \in Nat
  BY DEF WireType, ConnType, Owed
<1>1. CASE x.ctlUsed + 2 > CtlMax
  <2>1. y = x
    BY <1>1 DEF QueueCtl
  <2> QED BY <2>1, <1>0 DEF Debt
<1>2. CASE ~(x.ctlUsed + 2 > CtlMax)
  <2> DEFINE a == x.out
             b == x.ctl
             c == b \o Control
             q == a \o b
             p == a \o c
  <2>1. y = [x EXCEPT !.ctl = c, !.ctlUsed = @ + 2, !.closing = @ \/ close]
    BY <1>2 DEF QueueCtl, ConnType
  <2>2. /\ y.ctl = c /\ y.out = a /\ y.stream = x.stream /\ y.handled = x.handled
        /\ y.sock = x.sock /\ y.in = x.in /\ y.used = x.used /\ y.pend = x.pend /\ y.dec = x.dec
    BY <2>1 DEF ConnType
  <2>3. Control \in Seq(Half) /\ Len(Control) = 2 /\ Control[1] = <<0, 0, 1>> /\ Control[2] = <<0, 0, 2>>
    BY DEF Control, Frame, Half
  <2>4. a \in Seq(Half) /\ b \in Seq(Half) /\ Len(a) \in Nat /\ Len(b) \in Nat
    BY <1>0
  <2>5. /\ q \in Seq(Half) /\ Len(q) = Len(a) + Len(b)
        /\ \A j \in 1..Len(q) : q[j][1] = 0 <=> j > Len(a)
    BY QueueIs
  <2>6. Linked(q, x.handled, x.stream) /\ Meets(w, q, 0, x.handled, x.stream)
        /\ (\A j \in 1..Len(a) : a[j][1] # 0) /\ \A j \in 1..Len(b) : b[j][1] = 0
    BY DEF Good
  <2>7. x.handled \in Nat /\ x.stream \in Nat
    BY DEF ConnType
  <2>15. y \in ConnType
    <3>1. c \in Seq(Half)
      BY <2>3, <2>4, ConcatProperties
    <3> HIDE DEF c
    <3>2. x.ctlUsed + 2 \in Nat /\ (x.closing \/ close) \in BOOLEAN
      BY DEF ConnType
    <3>3. y = [x EXCEPT !.ctl = c, !.ctlUsed = x.ctlUsed + 2, !.closing = x.closing \/ close]
      BY <2>1
    <3> DEFINE n == x.ctlUsed + 2
               d == x.closing \/ close
    <3> HIDE DEF n, d
    <3>4. y = [x EXCEPT !.ctl = c, !.ctlUsed = n, !.closing = d] /\ n \in Nat /\ d \in BOOLEAN
      BY <3>2, <3>3 DEF n, d
    <3> HIDE DEF Is
    <3> QED BY ONLY <3>1, <3>4, x \in ConnType DEF ConnType
  <2> HIDE DEF a, b
  <2>8. c \in Seq(Half) /\ Len(c) = Len(b) + 2 /\ \A j \in 1..Len(b) + 2 : c[j] = IF j <= Len(b) THEN b[j] ELSE Control[j - Len(b)]
    <3>1. Control \in Seq(Half) /\ Len(Control) = 2
      BY <2>3
    <3>2. /\ b \o Control \in Seq(Half)
          /\ Len(b \o Control) = Len(b) + Len(Control)
          /\ \A i \in 1 .. Len(b) + Len(Control) : (b \o Control)[i] =
                     IF i <= Len(b) THEN b[i] ELSE Control[i - Len(b)]
      BY ONLY <3>1, <2>4, ConcatProperties
    <3> QED BY <3>1, <3>2
  <2>9. p = q \o Control
    <3>1. Control \in Seq(Half)
      BY <2>3
    <3> QED BY ONLY <3>1, <2>4, ConcatAssociative
  <2> HIDE DEF c, q, p
  <2>10. p \in Seq(Half) /\ Len(p) = Len(q) + 2 /\ \A j \in 1..Len(q) + 2 : p[j] = IF j <= Len(q) THEN q[j] ELSE Control[j - Len(q)]
    <3>1. Control \in Seq(Half) /\ Len(Control) = 2 /\ q \in Seq(Half)
      BY <2>3, <2>5
    <3>2. /\ q \o Control \in Seq(Half)
          /\ Len(q \o Control) = Len(q) + Len(Control)
          /\ \A i \in 1 .. Len(q) + Len(Control) : (q \o Control)[i] =
                     IF i <= Len(q) THEN q[i] ELSE Control[i - Len(q)]
      BY ONLY <3>1, ConcatProperties
    <3> QED BY <3>1, <3>2, <2>9
  <2>11. /\ \A j \in 1..Len(q) : p[j] = q[j]
         /\ p[Len(q) + 1] = <<0, 0, 1>> /\ p[Len(q) + 2] = <<0, 0, 2>>
    <3>1. Len(q) \in Nat
      BY <2>5
    <3>2. Len(q) + 1 \in 1..Len(q) + 2 /\ Len(q) + 2 \in 1..Len(q) + 2 /\ (Len(q) + 1) - Len(q) = 1 /\ (Len(q) + 2) - Len(q) = 2
          /\ ~(Len(q) + 1 <= Len(q)) /\ ~(Len(q) + 2 <= Len(q))
      BY <3>1
    <3>3. \A j \in 1..Len(q) : j \in 1..Len(q) + 2 /\ j <= Len(q)
      BY <3>1
    <3> QED BY <2>3, <2>10, <3>2, <3>3
  <2>12. Linked(p, x.handled, x.stream)
    <3> DEFINE L(r, j, n, f) ==
          /\ r[j][3] \in {1, 2} /\ r[j] = <<r[j][1], r[j][2], r[j][3]>>
          /\ r[j][1] # 0 => r[j][1] = x.handled /\ r[j][2] = x.stream
          /\ r[j][1] = 0 => r[j][2] = 0
          /\ IF r[j][3] = 1 THEN j < n /\ r[j + 1] = <<r[j][1], r[j][2], 2>>
             ELSE j < n => r[j + 1][3] = 1 /\ r[j + 1][1] = 0
    <3>0. Len(q) \in Nat
      BY <2>5
    <3>1. SUFFICES ASSUME NEW j \in 1..Len(p) PROVE L(p, j, Len(p), 0)
      BY DEF Linked
    <3>2. CASE j < Len(q)
      <4>1. j \in 1..Len(q) /\ j + 1 \in 1..Len(q) /\ j < Len(p)
        BY <3>0, <3>2, <2>10
      <4>2. L(q, j, Len(q), 0)
        BY <2>6, <4>1 DEF Linked
      <4>3. p[j] = q[j] /\ p[j + 1] = q[j + 1]
        BY <2>11, <4>1
      <4> QED BY <3>2, <4>1, <4>2, <4>3
    <3>3. CASE j = Len(q)
      <4>1. j \in 1..Len(q) /\ j < Len(p) /\ ~(j < Len(q))
        BY <3>0, <3>3, <2>10
      <4>2. L(q, j, Len(q), 0)
        BY <2>6, <4>1 DEF Linked
      <4>3. p[j] = q[j] /\ p[j + 1] = <<0, 0, 1>>
        BY <2>11, <4>1, <3>3
      <4> QED BY <4>1, <4>2, <4>3
    <3>4. CASE j = Len(q) + 1
      <4>1. j < Len(p) /\ p[j] = <<0, 0, 1>> /\ j + 1 = Len(q) + 2 /\ p[j + 1] = <<0, 0, 2>>
        BY <3>0, <3>4, <2>10, <2>11
      <4> QED BY <4>1
    <3>5. CASE j = Len(q) + 2
      <4>1. j = Len(p) /\ p[j] = <<0, 0, 2>> /\ ~(j < Len(p))
        BY <3>0, <3>5, <2>10, <2>11
      <4> QED BY <4>1
    <3>6. j < Len(q) \/ j = Len(q) \/ j = Len(q) + 1 \/ j = Len(q) + 2
      BY <3>0, <2>10
    <3> QED BY <3>2, <3>3, <3>4, <3>5, <3>6
  <2>13. Meets(w, p, 0, x.handled, x.stream)
    <3>0. Len(q) \in Nat
      BY <2>5
    <3>1. CASE Len(q) = 0
      <4>1. p[0 + 1] = <<0, 0, 1>> /\ Len(p) = 2
        BY <3>1, <2>10, <2>11
      <4>2. w.whole /\ w.ordered /\ w.half = <<>> /\ w.n = x.handled /\ w.k = x.stream
        BY <3>1, <2>6 DEF Meets
      <4> QED BY <4>1, <4>2 DEF Meets
    <3>2. CASE Len(q) # 0
      <4>1. 1 \in 1..Len(q) /\ 0 < Len(q) /\ 0 < Len(p) /\ 0 # Len(p) /\ 0 # Len(q)
        BY <3>0, <3>2, <2>10
      <4>2. p[0 + 1] = q[0 + 1]
        BY <4>1, <2>11
      <4> QED BY <4>1, <4>2, <2>6 DEF Meets
    <3> QED BY <3>1, <3>2
  <2>14. \A j \in 1..Len(c) : c[j][1] = 0
    <3> SUFFICES ASSUME NEW j \in 1..Len(c) PROVE c[j][1] = 0
      OBVIOUS
    <3>1. CASE j <= Len(b)
      <4>1. j \in 1..Len(b) /\ j \in 1..Len(b) + 2
        BY <3>1, <2>4, <2>8
      <4> QED BY <4>1, <3>1, <2>8, <2>6
    <3>2. CASE ~(j <= Len(b))
      <4>1. j \in 1..Len(b) + 2 /\ (j - Len(b) = 1 \/ j - Len(b) = 2)
        BY <3>2, <2>4, <2>8
      <4>2. c[j] = Control[j - Len(b)]
        BY <4>1, <3>2, <2>8
      <4> QED BY <4>1, <4>2, <2>3
    <3> QED BY <3>1, <3>2
  <2>16. Good(w, y)
    BY <2>2, <2>6, <2>12, <2>13, <2>14 DEF Good, p
  <2>17. Debt(w, y.ctl) <= Debt(w, x.ctl) + 2
    <3>1. Len(y.ctl) = Len(x.ctl) + 2
      BY <2>2, <2>8 DEF b
    <3> QED BY <1>0, <3>1 DEF Debt
  <2> QED BY <2>2, <2>15, <2>16, <2>17 DEF a
<1> QED BY <1>1, <1>2

-----------------------------------------------------------------------------
(***************************************************************************)
(* Sockets and their places.                                               *)
(***************************************************************************)
\* Between two moments: client c and its socket and wire are other than before.
LEMMA ClientMoves ==
  ASSUME NetInv, NEW c \in Slot, NEW s, s = conn[c].sock, s # None,
         NEW y, NEW k, NEW v, Fine(c, y, k, v), y.sock = s, k.at = "open", k.head = sock[s].head,
         conn' = [conn EXCEPT ![c] = y], sock' = [sock EXCEPT ![s] = k], wire' = [wire EXCEPT ![s] = v],
         UNCHANGED <<http, backlog>>
  PROVE  NetInv'
<1> USE DEF Slot
<1>1. /\ conn["raw"].sock \in RawSock \cup {None} /\ conn["web"].sock \in WebSock \cup {None}
      /\ RawSock \cap WebSock = {} /\ None \notin RawSock \cup WebSock /\ Sock = RawSock \cup WebSock
  BY ServerAssumption DEF NetInv, Places, Sock
<1>2. s \in Sock /\ (c = "raw" => s \in RawSock) /\ (c = "web" => s \in WebSock)
  BY <1>1
<1>3. y \in ConnType /\ k \in SockType /\ v \in WireType /\ v.whole /\ v.ordered
  BY GoodIsSound DEF Fine
<1>4. /\ conn \in [Slot -> ConnType] /\ http \in [1..HttpSlots -> HttpType] /\ backlog \in [Slot -> Seq(Sock)]
      /\ sock \in [Sock -> SockType] /\ wire \in [Sock -> WireType]
  BY DEF NetInv, NetTypes
<1>5. NetTypes'
  BY <1>2, <1>3, <1>4 DEF NetTypes
<1>6. /\ conn'[c] = y /\ sock'[s] = k /\ wire'[s] = v
      /\ \A d \in Slot : d # c => conn'[d] = conn[d]
      /\ \A d \in Slot : conn'[d].sock = conn[d].sock
      /\ \A t \in Sock : t # s => sock'[t] = sock[t] /\ wire'[t] = wire[t]
      /\ \A t \in Sock : sock'[t].at = sock[t].at /\ sock'[t].head = sock[t].head
  <2>1. sock[s].at = "open"
    BY DEF NetInv, Places
  <2> QED BY <1>2, <1>4, <2>1
<1>7. Places'
  <2>1. conn'["raw"].sock \in RawSock \cup {None} /\ conn'["web"].sock \in WebSock \cup {None}
    BY <1>1, <1>6
  <2>2. ASSUME NEW d \in Slot PROVE IF conn'[d].sock = None THEN conn'[d] = NoConn ELSE sock'[conn'[d].sock].at = "open"
    <3>1. IF conn[d].sock = None THEN conn[d] = NoConn ELSE sock[conn[d].sock].at = "open"
      BY DEF NetInv, Places
    <3>2. conn[d].sock \in Sock \cup {None}
      BY <1>1
    <3> QED BY <1>6, <3>1, <3>2
  <2>3. ASSUME NEW i \in 1..HttpSlots, http'[i].sock # None
        PROVE  /\ sock'[http'[i].sock].at = "open" /\ http'[i].sock # conn'["web"].sock
               /\ \A j \in 1..HttpSlots : http'[j].sock = http'[i].sock => j = i
    <3>1. http[i].sock \in Sock
      BY <1>4, <2>3 DEF HttpType, Sock
    <3> QED BY <1>6, <2>3, <3>1 DEF NetInv, Places
  <2>4. ASSUME NEW d \in Slot, NEW i \in 1..Len(backlog'[d])
        PROVE  /\ sock'[backlog'[d][i]].at = "queued" /\ backlog'[d][i] \in (IF d = "raw" THEN RawSock ELSE WebSock)
               /\ \A j \in 1..Len(backlog'[d]) : backlog'[d][j] = backlog'[d][i] => j = i
    <3>1. backlog[d][i] \in Sock
      BY <1>4
    <3> QED BY <1>6, <3>1 DEF NetInv, Places
  <2> QED BY <2>1, <2>2, <2>3, <2>4 DEF Places
<1>8. Fresh'
  <2>1. ASSUME NEW t \in Sock, sock'[t].at \in {"new", "queued"} PROVE wire'[t] = NewWire
    <3>1. t # s
      BY <1>6, <2>1
    <3> QED BY <1>6, <2>1, <3>1 DEF NetInv, Fresh
  <2>2. ASSUME NEW t \in WebSock, sock'[t].at # "closed", t # conn'["web"].sock
        PROVE  wire'[t] = NewWire /\ sock'[t].asked = 0 /\ sock'[t].pings = 0 /\ sock'[t].last \in {None, "piece"}
    <3>1. t # s /\ t \in Sock /\ t # conn["web"].sock
      BY <1>1, <1>2, <1>6, <2>2
    <3> QED BY <1>6, <2>2, <3>1 DEF NetInv, Fresh
  <2> QED BY <2>1, <2>2 DEF Fresh
<1>9. HeadsKnown'
  <2>1. \A t \in WebSock : t \in Sock
    BY <1>1
  <2>2. conn["web"].sock # None => conn["web"].sock \in Sock
    BY <1>1
  <2> QED BY <1>6, <2>1, <2>2 DEF NetInv, HeadsKnown
<1>10. StreamIntact'
  BY <1>3, <1>6 DEF NetInv, StreamIntact
<1>11. Served'
  <2> SUFFICES ASSUME NEW d \in Slot, conn'[d].sock # None
      PROVE  Fine(d, conn'[d], sock'[conn'[d].sock], wire'[conn'[d].sock])
    BY DEF Served
  <2>1. CASE d = c
    BY <1>6, <2>1
  <2>2. CASE d # c
    <3>1. conn[d].sock # s /\ conn[d].sock \in Sock /\ conn'[d] = conn[d] /\ conn[d].sock # None
      BY <1>1, <1>2, <1>6, <2>2
    <3> QED BY <1>6, <3>1 DEF NetInv, Served
  <2> QED BY <2>1, <2>2
<1> QED BY <1>5, <1>7, <1>8, <1>9, <1>10, <1>11 DEF NetInv

\* What is new or gone is of its type.
LEMMA NewIsTyped ==
  /\ NoConn \in ConnType /\ NoHttp \in HttpType /\ NewSock \in SockType /\ NewWire \in WireType
  /\ \A k \in SockType : [NewSock EXCEPT !.at = "closed", !.head = k.head] \in SockType
  /\ \A w \in WireType : [NewWire EXCEPT !.whole = w.whole, !.ordered = w.ordered] \in WireType
<1>1. SndMax \in Nat
  BY ServerAssumption
<1>2. 0 \in 0..SndMax
  BY <1>1
<1>3. NoConn \in ConnType
  BY DEF NoConn, ConnType
<1>4. NewSock \in SockType
  BY <1>2 DEF NewSock, SockType
<1>5. ASSUME NEW k \in SockType PROVE [NewSock EXCEPT !.at = "closed", !.head = k.head] \in SockType
  <2> DEFINE n == NewSock
             H == {None} \cup UNION {Heads[s] : s \in WebSock}
             h == k.head
  <2>1. h \in H /\ n \in SockType
    BY <1>4 DEF SockType
  <2>2. n \in [ at : {"new", "queued", "open", "closed"}, gone : BOOLEAN, buf : 0..SndMax, in : Seq(Item),
                pieces : Nat, asked : Nat, pings : Nat, last : Item \cup {None}, head : H ]
    BY <2>1 DEF SockType
  <2> HIDE DEF H, h, n
  <2>3. [n EXCEPT !.at = "closed", !.head = h] \in
          [ at : {"new", "queued", "open", "closed"}, gone : BOOLEAN, buf : 0..SndMax, in : Seq(Item),
            pieces : Nat, asked : Nat, pings : Nat, last : Item \cup {None}, head : H ]
    BY <2>1, <2>2
  <2> QED BY <2>3 DEF SockType, H, h, n
<1>6. NewWire \in WireType /\ NoHttp \in HttpType
  BY DEF NoHttp, HttpType, NewWire, WireType
<1>7. ASSUME NEW w \in WireType PROVE [NewWire EXCEPT !.whole = w.whole, !.ordered = w.ordered] \in WireType
  <2> DEFINE n == NewWire
             a == w.whole
             b == w.ordered
  <2>1. n \in WireType /\ a \in BOOLEAN /\ b \in BOOLEAN
    BY <1>6 DEF WireType
  <2> HIDE DEF n, a, b
  <2>2. [n EXCEPT !.whole = a, !.ordered = b] \in WireType
    BY <2>1 DEF WireType
  <2> QED BY <2>2 DEF n, a, b
<1> QED BY Zenon, <1>3, <1>4, <1>5, <1>6, <1>7

\* Where sockets are.
LEMMA SocketsAre ==
  ASSUME NetInv
  PROVE  /\ conn["raw"].sock \in RawSock \cup {None} /\ conn["web"].sock \in WebSock \cup {None}
         /\ RawSock \cap WebSock = {} /\ None \notin RawSock \cup WebSock /\ Sock = RawSock \cup WebSock
         /\ \A c \in Slot : conn[c].sock \in Sock \cup {None} /\ conn[c] \in ConnType
         /\ \A i \in 1..HttpSlots : http[i].sock \in WebSock \cup {None}
         /\ conn \in [Slot -> ConnType] /\ http \in [1..HttpSlots -> HttpType] /\ backlog \in [Slot -> Seq(Sock)]
         /\ sock \in [Sock -> SockType] /\ wire \in [Sock -> WireType]
BY ServerAssumption DEF NetInv, Places, Sock, NetTypes, Slot, HttpType, ConnType

\* A backlog that is shorter by its first, or gone.
Waits(q, p, ss) ==
  \/ q = <<>>
  \/ q = p /\ \A i \in 1..Len(p) : p[i] \notin ss
  \/ p # <<>> /\ q = Tail(p) /\ \A i \in 2..Len(p) : p[i] \notin ss

Distinct(p) == \A i, j \in 1..Len(p) : p[i] = p[j] => i = j
Among(q, p, ss) == \A i \in 1..Len(q) : q[i] \notin ss /\ \E j \in 1..Len(p) : q[i] = p[j]

\* What stays of a backlog is of sockets, all of them different.
LEMMA WaitsAre ==
  ASSUME NEW ss, NEW p \in Seq(Sock), NEW q, Waits(q, p, ss), Distinct(p)
  PROVE  q \in Seq(Sock) /\ Among(q, p, ss) /\ Distinct(q)
<1> USE DEF Distinct, Among
<1>1. CASE q = <<>>
  BY <1>1
<1>2. CASE q = p /\ \A i \in 1..Len(p) : p[i] \notin ss
  BY <1>2
<1>3. CASE p # <<>> /\ q = Tail(p) /\ \A i \in 2..Len(p) : p[i] \notin ss
  <2>1. q \in Seq(Sock) /\ Len(q) = Len(p) - 1 /\ Len(p) \in Nat \ {0} /\ \A i \in 1..Len(q) : q[i] = p[i + 1]
    BY <1>3
  <2>2. \A i \in 1..Len(q) : i + 1 \in 2..Len(p) /\ i + 1 \in 1..Len(p)
    BY <2>1
  <2>3. \A i, j \in 1..Len(q) : i + 1 = j + 1 => i = j
    BY <2>1
  <2> QED BY <1>3, <2>1, <2>2, <2>3
<1> QED BY <1>1, <1>2, <1>3 DEF Waits

\* Sockets ss are closed, and who had them is gone.
Drops(ss) ==
  /\ conn' = [c \in Slot |-> IF conn[c].sock \in ss THEN NoConn ELSE conn[c]]
  /\ http' \in [1..HttpSlots -> HttpType]
  /\ \A i \in 1..HttpSlots : http'[i].sock # None => http'[i] = http[i] /\ http[i].sock \notin ss
  /\ backlog' \in [Slot -> Seq(Sock)] /\ \A c \in Slot : Waits(backlog'[c], backlog[c], ss)
  /\ sock' = [s \in Sock |-> IF s \in ss THEN [NewSock EXCEPT !.at = "closed", !.head = sock[s].head] ELSE sock[s]]
  /\ wire' \in [Sock -> WireType]
  /\ \A s \in Sock : IF s \in ss THEN wire'[s].whole /\ wire'[s].ordered ELSE wire'[s] = wire[s]

\* Sockets that go, wherever they are, leave what is known of the others.
LEMMA DropsKeepNet ==
  ASSUME NetInv, NEW ss, ss \subseteq Sock, Drops(ss)
  PROVE  NetInv'
<1> USE DEF Slot
<1>1. /\ conn["raw"].sock \in RawSock \cup {None} /\ conn["web"].sock \in WebSock \cup {None}
      /\ RawSock \cap WebSock = {} /\ None \notin RawSock \cup WebSock /\ Sock = RawSock \cup WebSock
      /\ \A c \in Slot : conn[c].sock \in Sock \cup {None} /\ conn[c] \in ConnType
      /\ \A i \in 1..HttpSlots : http[i].sock \in WebSock \cup {None}
  BY SocketsAre
<1>2. /\ conn \in [Slot -> ConnType] /\ http \in [1..HttpSlots -> HttpType] /\ backlog \in [Slot -> Seq(Sock)]
      /\ sock \in [Sock -> SockType] /\ wire \in [Sock -> WireType]
  BY SocketsAre
<1>3. NoConn.sock = None /\ None \notin ss
  BY <1>1 DEF NoConn
<1>4. /\ \A c \in Slot : conn'[c] = IF conn[c].sock \in ss THEN NoConn ELSE conn[c]
      /\ \A s \in Sock : s \notin ss => sock'[s] = sock[s] /\ wire'[s] = wire[s]
      /\ \A s \in Sock : s \in ss => sock'[s].at = "closed" /\ wire'[s].whole /\ wire'[s].ordered
  BY Zenon DEF Drops, NewSock
<1>5. NetTypes'
  <2>1. conn' \in [Slot -> ConnType]
    BY Zenon, <1>2, NewIsTyped DEF Drops
  <2>2. http' \in [1..HttpSlots -> HttpType]
    BY Zenon DEF Drops
  <2>3. sock' \in [Sock -> SockType]
    <3>1. \A s \in Sock : [NewSock EXCEPT !.at = "closed", !.head = sock[s].head] \in SockType
      BY Zenon, <1>2, NewIsTyped
    <3> QED BY Zenon, <1>2, <3>1 DEF Drops
  <2> QED BY Zenon, <2>1, <2>2, <2>3 DEF NetTypes, Drops
<1>6. \A c \in Slot : conn'[c].sock \in {conn[c].sock, None} /\ (conn'[c].sock # None => conn'[c] = conn[c] /\ conn[c].sock \notin ss)
  BY <1>3, <1>4
<1>7. \A i \in 1..HttpSlots : http'[i].sock # None => http'[i] = http[i] /\ http[i].sock \notin ss
  BY Zenon DEF Drops
<1>8. Places'
  <2>1. conn'["raw"].sock \in RawSock \cup {None} /\ conn'["web"].sock \in WebSock \cup {None}
    BY <1>1, <1>6
  <2>2. ASSUME NEW c \in Slot PROVE IF conn'[c].sock = None THEN conn'[c] = NoConn ELSE sock'[conn'[c].sock].at = "open"
    <3>1. IF conn[c].sock = None THEN conn[c] = NoConn ELSE sock[conn[c].sock].at = "open"
      BY DEF NetInv, Places
    <3>2. conn[c].sock \in Sock \cup {None}
      BY <1>1
    <3>3. CASE conn'[c].sock = None
      BY <3>1, <3>3, <1>4
    <3>4. CASE conn'[c].sock # None
      <4>1. conn'[c] = conn[c] /\ conn[c].sock \notin ss /\ conn[c].sock \in Sock
        BY <1>6, <3>2, <3>4
      <4> QED BY <3>1, <3>4, <4>1, <1>4
    <3> QED BY <3>3, <3>4
  <2>3. ASSUME NEW i \in 1..HttpSlots, http'[i].sock # None
        PROVE  /\ sock'[http'[i].sock].at = "open" /\ http'[i].sock # conn'["web"].sock
               /\ \A j \in 1..HttpSlots : http'[j].sock = http'[i].sock => j = i
    <3>1. http[i].sock \in Sock /\ http'[i] = http[i] /\ http[i].sock \notin ss /\ http[i].sock # None
      BY <1>1, <1>7, <2>3
    <3>2. /\ sock[http[i].sock].at = "open" /\ http[i].sock # conn["web"].sock
          /\ \A j \in 1..HttpSlots : http[j].sock = http[i].sock => j = i
      BY <3>1 DEF NetInv, Places
    <3>3. http'[i].sock # conn'["web"].sock
      BY <1>6, <3>1, <3>2
    <3> QED BY <1>4, <1>7, <3>1, <3>2, <3>3
  <2>4. ASSUME NEW c \in Slot, NEW i \in 1..Len(backlog'[c])
        PROVE  /\ sock'[backlog'[c][i]].at = "queued" /\ backlog'[c][i] \in (IF c = "raw" THEN RawSock ELSE WebSock)
               /\ \A j \in 1..Len(backlog'[c]) : backlog'[c][j] = backlog'[c][i] => j = i
    <3> DEFINE p == backlog[c]
               q == backlog'[c]
    <3>1. Waits(q, p, ss) /\ p \in Seq(Sock)
      BY Zenon, <1>2 DEF Drops
    <3>2. \A j \in 1..Len(p) : /\ sock[p[j]].at = "queued" /\ p[j] \in (IF c = "raw" THEN RawSock ELSE WebSock)
                               /\ \A l \in 1..Len(p) : p[l] = p[j] => l = j
      BY DEF NetInv, Places
    <3>7. Distinct(p)
      BY <3>2 DEF Distinct
    <3>3. Among(q, p, ss) /\ Distinct(q)
      <4> HIDE DEF p, q
      <4> QED BY ONLY <3>1, <3>7, WaitsAre
    <3> HIDE DEF p, q
    <3>4. q[i] \notin ss /\ \E j \in 1..Len(p) : q[i] = p[j]
      BY <3>3 DEF q, Among
    <3>8. PICK j \in 1..Len(p) : q[i] = p[j]
      BY <3>4
    <3>5. q[i] \in Sock /\ q[i] \notin ss
      BY <3>1, <3>4, <3>8
    <3>6. sock'[q[i]] = sock[q[i]]
      BY <3>5, <1>4
    <3>9. sock[p[j]].at = "queued" /\ p[j] \in (IF c = "raw" THEN RawSock ELSE WebSock)
      BY <3>2
    <3> QED BY <3>3, <3>6, <3>8, <3>9 DEF q, Distinct
  <2> QED BY <2>1, <2>2, <2>3, <2>4 DEF Places
<1>9. Fresh'
  <2>1. ASSUME NEW t \in Sock, sock'[t].at \in {"new", "queued"} PROVE wire'[t] = NewWire
    <3>1. t \notin ss
      BY <1>4, <2>1
    <3> QED BY <1>4, <2>1, <3>1 DEF NetInv, Fresh
  <2>2. ASSUME NEW t \in WebSock, sock'[t].at # "closed", t # conn'["web"].sock
        PROVE  wire'[t] = NewWire /\ sock'[t].asked = 0 /\ sock'[t].pings = 0 /\ sock'[t].last \in {None, "piece"}
    <3>1. t \in Sock /\ t \notin ss
      BY <1>1, <1>4, <2>2
    <3>2. t # conn["web"].sock
      BY <1>4, <2>2, <3>1
    <3> QED BY <1>4, <2>2, <3>1, <3>2 DEF NetInv, Fresh
  <2> QED BY <2>1, <2>2 DEF Fresh
<1>10. HeadsKnown'
  <2>1. ASSUME NEW t \in WebSock, sock'[t].at \in {"queued", "open"} PROVE sock'[t].head \in Heads[t]
    <3>1. t \in Sock /\ t \notin ss
      BY <1>1, <1>4, <2>1
    <3> QED BY <1>4, <2>1, <3>1 DEF NetInv, HeadsKnown
  <2>2. ASSUME conn'["web"].sock # None PROVE Status(sock'[conn'["web"].sock].head) = 101
    <3>1. conn'["web"] = conn["web"] /\ conn["web"].sock \notin ss /\ conn["web"].sock \in Sock
      BY <1>1, <1>6, <2>2
    <3> QED BY <1>4, <2>2, <3>1 DEF NetInv, HeadsKnown
  <2> QED BY <2>1, <2>2 DEF HeadsKnown
<1>11. StreamIntact'
  BY <1>4 DEF NetInv, StreamIntact
<1>12. Served'
  <2> SUFFICES ASSUME NEW d \in Slot, conn'[d].sock # None
      PROVE  Fine(d, conn'[d], sock'[conn'[d].sock], wire'[conn'[d].sock])
    BY DEF Served
  <2>1. conn'[d] = conn[d] /\ conn[d].sock \notin ss /\ conn[d].sock \in Sock
    BY <1>1, <1>6
  <2> QED BY <1>4, <2>1 DEF NetInv, Served
<1> QED BY <1>5, <1>8, <1>9, <1>10, <1>11, <1>12 DEF NetInv

\* A socket has one place.
LEMMA OnePlace ==
  ASSUME NetInv
  PROVE  /\ \A c, d \in Slot : conn[c].sock # None /\ conn[d].sock = conn[c].sock => d = c
         /\ \A c \in Slot, i \in 1..HttpSlots : conn[c].sock # None => http[i].sock # conn[c].sock
         /\ \A i, j \in 1..HttpSlots : http[i].sock # None /\ http[j].sock = http[i].sock => j = i
         /\ \A c, d \in Slot : conn[c].sock # None => \A j \in 1..Len(backlog[d]) : backlog[d][j] # conn[c].sock
         /\ \A i \in 1..HttpSlots, d \in Slot : http[i].sock # None => \A j \in 1..Len(backlog[d]) : backlog[d][j] # http[i].sock
         /\ \A d, e \in Slot : \A i \in 1..Len(backlog[d]), j \in 1..Len(backlog[e]) : backlog[d][i] = backlog[e][j] => d = e /\ i = j
         /\ \A c \in Slot : conn[c].sock # None => sock[conn[c].sock].at = "open"
         /\ \A i \in 1..HttpSlots : http[i].sock # None => sock[http[i].sock].at = "open"
         /\ \A d \in Slot : \A j \in 1..Len(backlog[d]) : sock[backlog[d][j]].at = "queued"
<1> USE DEF Slot
<1>1. /\ conn["raw"].sock \in RawSock \cup {None} /\ conn["web"].sock \in WebSock \cup {None}
      /\ RawSock \cap WebSock = {} /\ None \notin RawSock \cup WebSock
      /\ \A i \in 1..HttpSlots : http[i].sock \in WebSock \cup {None}
  BY SocketsAre
<1>2. Places
  BY DEF NetInv
<1>3. /\ \A c \in Slot : conn[c].sock # None => sock[conn[c].sock].at = "open"
      /\ \A i \in 1..HttpSlots : http[i].sock # None => sock[http[i].sock].at = "open"
      /\ \A d \in Slot : \A j \in 1..Len(backlog[d]) : sock[backlog[d][j]].at = "queued"
  BY <1>2 DEF Places
<1>4. \A c \in Slot, i \in 1..HttpSlots : conn[c].sock # None => http[i].sock # conn[c].sock
  BY <1>1, <1>2 DEF Places
<1>5. \A d \in Slot : \A i \in 1..Len(backlog[d]) :
         /\ backlog[d][i] \in (IF d = "raw" THEN RawSock ELSE WebSock)
         /\ \A j \in 1..Len(backlog[d]) : backlog[d][j] = backlog[d][i] => j = i
  BY <1>2 DEF Places
<1>6. \A d, e \in Slot : \A i \in 1..Len(backlog[d]), j \in 1..Len(backlog[e]) : backlog[d][i] = backlog[e][j] => d = e /\ i = j
  <2> SUFFICES ASSUME NEW d \in Slot, NEW e \in Slot, NEW i \in 1..Len(backlog[d]), NEW j \in 1..Len(backlog[e]),
                      backlog[d][i] = backlog[e][j]
      PROVE  d = e /\ i = j
    OBVIOUS
  <2>1. d = e
    BY <1>1, <1>5
  <2> QED BY <2>1, <1>5
<1>7. \A i, j \in 1..HttpSlots : http[i].sock # None /\ http[j].sock = http[i].sock => j = i
  BY <1>2 DEF Places
<1>8. \A c, d \in Slot : conn[c].sock # None /\ conn[d].sock = conn[c].sock => d = c
  BY ONLY <1>1 DEF Slot
<1>9. \A c, d \in Slot : conn[c].sock # None => \A j \in 1..Len(backlog[d]) : backlog[d][j] # conn[c].sock
  <2> SUFFICES ASSUME NEW c \in Slot, NEW d \in Slot, conn[c].sock # None, NEW j \in 1..Len(backlog[d]), backlog[d][j] = conn[c].sock
               PROVE  FALSE
    OBVIOUS
  <2>1. sock[conn[c].sock].at = "open" /\ sock[backlog[d][j]].at = "queued"
    BY <1>3
  <2> QED BY <2>1
<1>10. \A i \in 1..HttpSlots, d \in Slot : http[i].sock # None => \A j \in 1..Len(backlog[d]) : backlog[d][j] # http[i].sock
  <2> SUFFICES ASSUME NEW i \in 1..HttpSlots, NEW d \in Slot, http[i].sock # None, NEW j \in 1..Len(backlog[d]), backlog[d][j] = http[i].sock
               PROVE  FALSE
    OBVIOUS
  <2>1. sock[http[i].sock].at = "open" /\ sock[backlog[d][j]].at = "queued"
    BY <1>3
  <2> QED BY <2>1
<1> QED BY ONLY <1>3, <1>4, <1>6, <1>7, <1>8, <1>9, <1>10

\* A client goes: w is what was sent by then.
LEMMA ClientGoes ==
  ASSUME NetInv, NEW c \in Slot, NEW s, s = conn[c].sock, s # None,
         NEW w, w \in [Sock -> WireType], \A t \in Sock : t # s => w[t] = wire[t], w[s].whole, w[s].ordered,
         Closed(c, w), UNCHANGED <<http, backlog>>
  PROVE  NetInv'
<1>1. /\ s \in Sock /\ conn \in [Slot -> ConnType] /\ http \in [1..HttpSlots -> HttpType] /\ backlog \in [Slot -> Seq(Sock)]
      /\ sock \in [Sock -> SockType] /\ wire \in [Sock -> WireType] /\ None \notin Sock
  BY SocketsAre
<1>2. /\ \A d \in Slot : conn[d].sock = s <=> d = c
      /\ \A i \in 1..HttpSlots : http[i].sock # s
      /\ \A d \in Slot : \A j \in 1..Len(backlog[d]) : backlog[d][j] # s
  BY OnePlace
<1>3. Drops({s})
  <2>1. conn' = [d \in Slot |-> IF conn[d].sock \in {s} THEN NoConn ELSE conn[d]]
    BY <1>1, <1>2 DEF Closed
  <2>2. /\ http' \in [1..HttpSlots -> HttpType]
        /\ \A i \in 1..HttpSlots : http'[i].sock # None => http'[i] = http[i] /\ http[i].sock \notin {s}
    BY <1>1, <1>2
  <2>3. backlog' \in [Slot -> Seq(Sock)] /\ \A d \in Slot : Waits(backlog'[d], backlog[d], {s})
    BY <1>1, <1>2 DEF Waits
  <2>4. sock' = [t \in Sock |-> IF t \in {s} THEN [NewSock EXCEPT !.at = "closed", !.head = sock[t].head] ELSE sock[t]]
    BY Zenon, <1>1 DEF Closed, Shut
  <2> DEFINE z == [NewWire EXCEPT !.whole = w[s].whole, !.ordered = w[s].ordered]
  <2>5. z \in WireType /\ z.whole /\ z.ordered
    <3>1. w[s] \in WireType
      BY <1>1
    <3> QED BY Zenon, <3>1, NewIsTyped DEF NewWire
  <2>6. wire' = [w EXCEPT ![s] = z]
    BY DEF Closed, Forget
  <2> HIDE DEF z
  <2>7. wire' \in [Sock -> WireType]
    BY <2>5, <2>6
  <2>8. \A t \in Sock : IF t \in {s} THEN wire'[t].whole /\ wire'[t].ordered ELSE wire'[t] = wire[t]
    BY <1>1, <2>5, <2>6
  <2> QED BY Zenon, <2>1, <2>2, <2>3, <2>4, <2>7, <2>8 DEF Drops
<1> QED BY <1>1, <1>3, DropsKeepNet

\* The server closes an exchange.
LEMMA ExchangeGoes ==
  ASSUME NetInv, NEW i \in 1..HttpSlots, http[i].sock # None, CloseHttp(i), UNCHANGED <<conn, backlog, wire>>
  PROVE  NetInv'
<1> DEFINE s == http[i].sock
<1>1. /\ s \in Sock /\ conn \in [Slot -> ConnType] /\ http \in [1..HttpSlots -> HttpType] /\ backlog \in [Slot -> Seq(Sock)]
      /\ sock \in [Sock -> SockType] /\ wire \in [Sock -> WireType] /\ None \notin Sock
  BY SocketsAre
<1>2. /\ \A d \in Slot : conn[d].sock # s
      /\ \A j \in 1..HttpSlots : http[j].sock = s <=> j = i
      /\ \A d \in Slot : \A j \in 1..Len(backlog[d]) : backlog[d][j] # s
  BY Zenon, OnePlace, SocketsAre
<1>3. Drops({s})
  <2>1. conn' = [d \in Slot |-> IF conn[d].sock \in {s} THEN NoConn ELSE conn[d]]
    BY <1>1, <1>2
  <2>2. /\ http' \in [1..HttpSlots -> HttpType]
        /\ \A j \in 1..HttpSlots : http'[j].sock # None => http'[j] = http[j] /\ http[j].sock \notin {s}
    <3>1. NoHttp \in HttpType /\ NoHttp.sock = None
      BY Zenon, NewIsTyped DEF NoHttp
    <3> QED BY <1>1, <1>2, <3>1 DEF CloseHttp
  <2>3. backlog' \in [Slot -> Seq(Sock)] /\ \A d \in Slot : Waits(backlog'[d], backlog[d], {s})
    BY <1>1, <1>2 DEF Waits
  <2>4. sock' = [t \in Sock |-> IF t \in {s} THEN [NewSock EXCEPT !.at = "closed", !.head = sock[t].head] ELSE sock[t]]
    BY Zenon, <1>1 DEF CloseHttp, Shut
  <2>5. wire' \in [Sock -> WireType] /\ \A t \in Sock : IF t \in {s} THEN wire'[t].whole /\ wire'[t].ordered ELSE wire'[t] = wire[t]
    BY <1>1 DEF NetInv, StreamIntact
  <2> QED BY Zenon, <2>1, <2>2, <2>3, <2>4, <2>5 DEF Drops
<1> QED BY <1>1, <1>3, DropsKeepNet

\* The server closes sockets as a list says (Stop, Timers).
LEMMA ManyGo ==
  ASSUME NetInv, NEW ss, ss \subseteq Sock \cup {None},
         conn' = [c \in Slot |-> IF conn[c].sock \in ss \ {None} THEN NoConn ELSE conn[c]],
         http' \in [1..HttpSlots -> HttpType],
         \A i \in 1..HttpSlots : http'[i].sock # None => http'[i] = http[i] /\ http[i].sock \notin ss,
         backlog' \in [Slot -> Seq(Sock)], \A c \in Slot : Waits(backlog'[c], backlog[c], ss \ {None}),
         sock' = [s \in Sock |-> IF s \in ss THEN Shut(sock, s)[s] ELSE sock[s]],
         wire' = [s \in Sock |-> IF s \in ss THEN Forget(wire, s)[s] ELSE wire[s]]
  PROVE  NetInv'
<1>1. sock \in [Sock -> SockType] /\ wire \in [Sock -> WireType] /\ None \notin Sock
  BY SocketsAre
<1> DEFINE z(t) == [NewWire EXCEPT !.whole = wire[t].whole, !.ordered = wire[t].ordered]
<1>2. \A t \in Sock : Shut(sock, t)[t] = [NewSock EXCEPT !.at = "closed", !.head = sock[t].head] /\ Forget(wire, t)[t] = z(t)
  BY Zenon, <1>1 DEF Shut, Forget
<1>3. ASSUME NEW t \in Sock PROVE z(t) \in WireType /\ z(t).whole /\ z(t).ordered
  <2>1. wire[t] \in WireType /\ wire[t].whole /\ wire[t].ordered
    BY <1>1 DEF NetInv, StreamIntact
  <2> QED BY Zenon, <2>1, NewIsTyped DEF NewWire
<1> HIDE DEF z
<1>4. \A t \in Sock : t \in ss <=> t \in ss \ {None}
  BY <1>1
<1>5. sock' = [s \in Sock |-> IF s \in ss \ {None} THEN [NewSock EXCEPT !.at = "closed", !.head = sock[s].head] ELSE sock[s]]
  BY Zenon, <1>2, <1>4
<1>6. wire' = [s \in Sock |-> IF s \in ss \ {None} THEN z(s) ELSE wire[s]]
  BY Zenon, <1>2, <1>4
<1>7. wire' \in [Sock -> WireType]
  BY <1>1, <1>3, <1>6
<1>8. \A s \in Sock : IF s \in ss \ {None} THEN wire'[s].whole /\ wire'[s].ordered ELSE wire'[s] = wire[s]
  BY <1>3, <1>6
<1>10. \A i \in 1..HttpSlots : http'[i].sock # None => http'[i] = http[i] /\ http[i].sock \notin ss \ {None}
  OBVIOUS
<1>9. Drops(ss \ {None})
  BY Zenon, <1>5, <1>7, <1>8, <1>10 DEF Drops
<1> QED BY <1>9, DropsKeepNet

\* The sockets of clients cs, of the exchanges and of the backlogs, and a stop that closes them.
Leaving(cs) ==
  ({conn[c].sock : c \in cs} \cup {http[i].sock : i \in DOMAIN http} \cup UNION {Range(backlog[c]) : c \in cs}) \ {None}
StopWith(cs, ss) ==
  /\ conn' = [c \in Slot |-> IF c \in cs THEN NoConn ELSE conn[c]]
  /\ http' = [i \in DOMAIN http |-> NoHttp]
  /\ backlog' = [c \in Slot |-> IF c \in cs THEN <<>> ELSE backlog[c]]
  /\ sock' = [s \in Sock |-> IF s \in ss THEN Shut(sock, s)[s] ELSE sock[s]]
  /\ wire' = [s \in Sock |-> IF s \in ss THEN Forget(wire, s)[s] ELSE wire[s]]

\* Stop closes sockets and nothing else.
LEMMA StopKeepsNet ==
  ASSUME NetInv, Stop
  PROVE  NetInv'
<1> USE DEF Slot
<1>1. /\ conn \in [Slot -> ConnType] /\ http \in [1..HttpSlots -> HttpType] /\ backlog \in [Slot -> Seq(Sock)]
      /\ sock \in [Sock -> SockType] /\ wire \in [Sock -> WireType] /\ None \notin Sock
      /\ \A c \in Slot : conn[c].sock \in Sock \cup {None}
      /\ \A i \in 1..HttpSlots : http[i].sock \in Sock \cup {None}
  BY SocketsAre
<1>2. PICK cs \in SUBSET Slot : StopWith(cs, Leaving(cs))
  <2>1. PICK all \in BOOLEAN : StopWith(IF all THEN Slot ELSE {"web"}, Leaving(IF all THEN Slot ELSE {"web"}))
    BY DEF Stop, StopWith, Leaving
  <2>2. (IF all THEN Slot ELSE {"web"}) \in SUBSET Slot
    OBVIOUS
  <2> QED BY <2>1, <2>2
<1> DEFINE ss == Leaving(cs)
<1>3. StopWith(cs, ss)
  BY <1>2
<1>4. DOMAIN http = 1..HttpSlots /\ \A c \in Slot : Range(backlog[c]) = {backlog[c][j] : j \in 1..Len(backlog[c])}
  <2>1. DOMAIN http = 1..HttpSlots
    BY <1>1
  <2>2. ASSUME NEW c \in Slot PROVE Range(backlog[c]) = {backlog[c][j] : j \in 1..Len(backlog[c])}
    <3>1. backlog[c] \in Seq(Sock)
      BY <1>1
    <3>2. DOMAIN backlog[c] = 1..Len(backlog[c])
      BY <3>1
    <3> QED BY <3>2 DEF Range
  <2> QED BY <2>1, <2>2
<1>5. /\ \A c \in cs : conn[c].sock \in ss \cup {None}
      /\ \A i \in 1..HttpSlots : http[i].sock \in ss \cup {None}
      /\ \A s \in ss : \/ \E c \in cs : s = conn[c].sock
                       \/ \E i \in 1..HttpSlots : s = http[i].sock
                       \/ \E c \in cs : \E j \in 1..Len(backlog[c]) : s = backlog[c][j]
      /\ None \notin ss
  BY <1>4 DEF Leaving
<1> HIDE DEF ss
<1> USE <1>3 DEF StopWith
<1>6. ss \subseteq Sock
  <2>1. \A c \in Slot : \A j \in 1..Len(backlog[c]) : backlog[c][j] \in Sock
    BY <1>1
  <2>2. ASSUME NEW s \in ss PROVE s \in Sock
    <3>1. s # None
      BY <1>5
    <3>2. cs \subseteq Slot
      OBVIOUS
    <3>3. CASE \E c \in cs : s = conn[c].sock
      BY <1>1, <3>1, <3>2, <3>3
    <3>4. CASE \E i \in 1..HttpSlots : s = http[i].sock
      BY <1>1, <3>1, <3>4
    <3>5. CASE \E c \in cs : \E j \in 1..Len(backlog[c]) : s = backlog[c][j]
      BY <2>1, <3>2, <3>5
    <3> QED BY <1>5, <3>3, <3>4, <3>5
  <2> QED BY <2>2
<1>7. \A c \in Slot : c \notin cs => conn[c].sock \notin ss /\ \A j \in 1..Len(backlog[c]) : backlog[c][j] \notin ss
  <2> SUFFICES ASSUME NEW c \in Slot, c \notin cs
      PROVE conn[c].sock \notin ss /\ \A j \in 1..Len(backlog[c]) : backlog[c][j] \notin ss
    OBVIOUS
  <2>1. conn[c].sock \notin ss
    <3>1. conn[c].sock # None => /\ \A d \in cs : d \in Slot /\ conn[d].sock # conn[c].sock
                                 /\ \A i \in 1..HttpSlots : http[i].sock # conn[c].sock
                                 /\ \A d \in cs : \A j \in 1..Len(backlog[d]) : backlog[d][j] # conn[c].sock
      BY OnePlace
    <3> QED BY <3>1, <1>5
  <2>2. ASSUME NEW j \in 1..Len(backlog[c]) PROVE backlog[c][j] \notin ss
    <3>1. backlog[c][j] \in Sock /\ backlog[c][j] # None
      BY <1>1
    <3>2. /\ \A d \in cs : d \in Slot /\ conn[d].sock # backlog[c][j]
          /\ \A i \in 1..HttpSlots : http[i].sock # backlog[c][j]
          /\ \A d \in cs : \A k \in 1..Len(backlog[d]) : backlog[d][k] # backlog[c][j]
      BY OnePlace, <3>1, <2>2
    <3> QED BY <3>2, <1>5
  <2> QED BY <2>1, <2>2
<1>8. conn' = [c \in Slot |-> IF conn[c].sock \in ss \ {None} THEN NoConn ELSE conn[c]]
  <2>1. \A c \in Slot : conn[c].sock = None => conn[c] = NoConn
    BY DEF NetInv, Places
  <2>2. \A c \in Slot : (IF c \in cs THEN NoConn ELSE conn[c]) = (IF conn[c].sock \in ss \ {None} THEN NoConn ELSE conn[c])
    BY <1>5, <1>7, <2>1
  <2> QED BY <1>3, <2>2
<1>9. /\ http' \in [1..HttpSlots -> HttpType]
      /\ \A i \in 1..HttpSlots : http'[i].sock # None => http'[i] = http[i] /\ http[i].sock \notin ss
  <2>1. http' = [i \in 1..HttpSlots |-> NoHttp]
    BY <1>3, <1>4
  <2>2. NoHttp \in HttpType /\ NoHttp.sock = None
    BY Zenon, NewIsTyped DEF NoHttp
  <2> HIDE <1>3
  <2> QED BY <2>1, <2>2
<1>10. backlog' \in [Slot -> Seq(Sock)] /\ \A c \in Slot : Waits(backlog'[c], backlog[c], ss \ {None})
  <2>1. backlog' \in [Slot -> Seq(Sock)]
    BY <1>1, <1>3
  <2>2. ASSUME NEW c \in Slot PROVE Waits(backlog'[c], backlog[c], ss \ {None})
    <3>1. CASE c \in cs
      BY <1>3, <3>1 DEF Waits
    <3>2. CASE c \notin cs
      BY <1>3, <1>7, <3>2 DEF Waits
    <3> QED BY <3>1, <3>2
  <2> QED BY <2>1, <2>2
<1> QED BY <1>3, <1>6, <1>8, <1>9, <1>10, ManyGo

\* So do the timers.
LEMMA TimersKeepNet ==
  ASSUME NetInv, Timers
  PROVE  NetInv'
<1> USE DEF Slot
<1>1. /\ conn \in [Slot -> ConnType] /\ http \in [1..HttpSlots -> HttpType] /\ backlog \in [Slot -> Seq(Sock)]
      /\ sock \in [Sock -> SockType] /\ wire \in [Sock -> WireType] /\ None \notin Sock
      /\ \A c \in Slot : conn[c].sock \in Sock \cup {None}
      /\ \A i \in 1..HttpSlots : http[i].sock \in Sock \cup {None}
  BY SocketsAre
<1> DEFINE cs == {c \in Slot : conn[c].quiet}
           is == {i \in DOMAIN http : http[i].old}
           ss == {conn[c].sock : c \in cs} \cup {http[i].sock : i \in is}
<1>2. /\ conn' = [c \in Slot |-> IF c \in cs THEN NoConn ELSE conn[c]]
      /\ http' = [i \in DOMAIN http |-> IF i \in is THEN NoHttp ELSE http[i]]
      /\ backlog' = backlog
      /\ sock' = [s \in Sock |-> IF s \in ss THEN Shut(sock, s)[s] ELSE sock[s]]
      /\ wire' = [s \in Sock |-> IF s \in ss THEN Forget(wire, s)[s] ELSE wire[s]]
  BY DEF Timers
<1>3. DOMAIN http = 1..HttpSlots /\ cs \subseteq Slot /\ is \subseteq 1..HttpSlots
  BY <1>1
<1>4. /\ \A c \in cs : conn[c].sock \in ss /\ \A i \in is : http[i].sock \in ss
      /\ \A s \in ss : (\E c \in cs : s = conn[c].sock) \/ \E i \in is : s = http[i].sock
  OBVIOUS
<1> HIDE DEF cs, is, ss
<1>6. ss \subseteq Sock \cup {None}
  BY <1>1, <1>3, <1>4
<1>7. \A c \in Slot : c \notin cs => conn[c].sock \notin ss \ {None}
  BY OnePlace, <1>3, <1>4
<1>8. \A i \in 1..HttpSlots : i \notin is => http[i].sock \notin ss \ {None}
  BY OnePlace, <1>3, <1>4
<1>11. \A c \in Slot : \A j \in 1..Len(backlog[c]) : backlog[c][j] \notin ss \ {None}
  BY OnePlace, <1>3, <1>4
<1>9. conn' = [c \in Slot |-> IF conn[c].sock \in ss \ {None} THEN NoConn ELSE conn[c]]
  <2>1. \A c \in Slot : conn[c].sock = None => conn[c] = NoConn
    BY DEF NetInv, Places
  <2>2. \A c \in Slot : (IF c \in cs THEN NoConn ELSE conn[c]) = (IF conn[c].sock \in ss \ {None} THEN NoConn ELSE conn[c])
    BY <1>4, <1>7, <2>1
  <2> QED BY <1>2, <2>2
<1>10. /\ http' \in [1..HttpSlots -> HttpType]
       /\ \A i \in 1..HttpSlots : http'[i].sock # None => http'[i] = http[i] /\ http[i].sock \notin ss
  <2>1. NoHttp \in HttpType /\ NoHttp.sock = None
    BY Zenon, NewIsTyped DEF NoHttp
  <2>2. http' = [i \in 1..HttpSlots |-> IF i \in is THEN NoHttp ELSE http[i]]
    BY <1>2, <1>3
  <2> QED BY <1>1, <1>8, <2>1, <2>2
<1>12. backlog' \in [Slot -> Seq(Sock)] /\ \A c \in Slot : Waits(backlog'[c], backlog[c], ss \ {None})
  BY <1>1, <1>2, <1>11 DEF Waits
<1> QED BY <1>2, <1>6, <1>9, <1>10, <1>12, ManyGo

\* The least number of a set.
LEMMA MinIsThere ==
  ASSUME NEW s \in SUBSET Nat, s # {}
  PROVE  Min(s) \in s /\ \A y \in s : Min(s) <= y
<1>1. \E m \in s : \A k \in s : <<k, m>> \notin Below
  BY BelowWellFounded, WFMin
<1>2. PICK m \in s : \A k \in s : <<k, m>> \notin Below
  BY <1>1
<1>3. m \in s /\ \A k \in s : m <= k
  <2> SUFFICES ASSUME NEW k \in s PROVE m <= k
    OBVIOUS
  <2>1. k \in Nat /\ m \in Nat /\ ~(k < m)
    BY <1>2 DEF Below
  <2> QED BY <2>1
<1> QED BY <1>3 DEF Min

\* Between two moments: a socket without a client is other than before.
LEMMA OtherMoves ==
  ASSUME NetInv, NEW s \in Sock, \A c \in Slot : conn[c].sock # s,
         NEW k \in SockType, k.at = sock[s].at, k.head = sock[s].head, k.asked = sock[s].asked,
         k.pings = sock[s].pings, k.last \in {sock[s].last, "piece"},
         sock' = [sock EXCEPT ![s] = k],
         http' \in [1..HttpSlots -> HttpType], \A i \in 1..HttpSlots : http'[i].sock = http[i].sock,
         UNCHANGED <<conn, backlog, wire>>
  PROVE  NetInv'
<1> USE DEF Slot
<1>1. /\ conn["raw"].sock \in RawSock \cup {None} /\ conn["web"].sock \in WebSock \cup {None}
      /\ Sock = RawSock \cup WebSock
      /\ \A c \in Slot : conn[c].sock \in Sock \cup {None}
      /\ \A i \in 1..HttpSlots : http[i].sock \in WebSock \cup {None}
      /\ conn \in [Slot -> ConnType] /\ backlog \in [Slot -> Seq(Sock)]
      /\ sock \in [Sock -> SockType] /\ wire \in [Sock -> WireType]
  BY SocketsAre
<1>2. NetTypes'
  BY <1>1 DEF NetTypes
<1>3. /\ \A t \in Sock : t # s => sock'[t] = sock[t]
      /\ sock'[s] = k
      /\ \A t \in Sock : /\ sock'[t].at = sock[t].at /\ sock'[t].head = sock[t].head /\ sock'[t].asked = sock[t].asked
                         /\ sock'[t].pings = sock[t].pings /\ sock'[t].last \in {sock[t].last, "piece"}
  BY <1>1
<1>4. \A c \in Slot : conn[c].sock # None => conn[c].sock \in Sock /\ sock'[conn[c].sock] = sock[conn[c].sock]
  BY <1>1, <1>3
<1>5. Places'
  <2>1. \A c \in Slot : IF conn[c].sock = None THEN conn[c] = NoConn ELSE sock'[conn[c].sock].at = "open"
    BY <1>4 DEF NetInv, Places
  <2>2. ASSUME NEW i \in 1..HttpSlots, http'[i].sock # None
        PROVE  /\ sock'[http'[i].sock].at = "open" /\ http'[i].sock # conn["web"].sock
               /\ \A j \in 1..HttpSlots : http'[j].sock = http'[i].sock => j = i
    <3>1. http[i].sock \in Sock
      BY <1>1, <2>2
    <3> QED BY <1>3, <2>2, <3>1 DEF NetInv, Places
  <2>3. ASSUME NEW d \in Slot, NEW i \in 1..Len(backlog[d])
        PROVE  /\ sock'[backlog[d][i]].at = "queued" /\ backlog[d][i] \in (IF d = "raw" THEN RawSock ELSE WebSock)
               /\ \A j \in 1..Len(backlog[d]) : backlog[d][j] = backlog[d][i] => j = i
    <3>1. backlog[d][i] \in Sock
      BY <1>1
    <3> QED BY <1>3, <3>1 DEF NetInv, Places
  <2> QED BY <1>1, <2>1, <2>2, <2>3 DEF Places
<1>6. Fresh'
  <2>1. \A t \in WebSock : t \in Sock
    BY <1>1
  <2> QED BY <1>3, <2>1 DEF NetInv, Fresh
<1>7. HeadsKnown'
  <2>1. \A t \in WebSock : t \in Sock
    BY <1>1
  <2> QED BY <1>3, <1>4, <2>1 DEF NetInv, HeadsKnown
<1>8. StreamIntact'
  BY DEF NetInv, StreamIntact
<1>9. Served'
  BY <1>4 DEF NetInv, Served
<1> QED BY <1>2, <1>5, <1>6, <1>7, <1>8, <1>9 DEF NetInv

\* A client that has sent nothing the server knows of.
LEMMA NewClientIsFine ==
  ASSUME NEW c \in Slot, NEW s \in Sock, NEW k \in SockType, NEW y, Is(y, [NoConn EXCEPT !.sock = s]),
         c = "web" => k.in = <<>> /\ k.asked = 0 /\ k.pings = 0 /\ k.last \in {None, "piece"}
  PROVE  Fine(c, y, k, NewWire)
<1> USE DEF Is
<1>1. y \in ConnType
  <2> DEFINE n == NoConn
  <2>1. n \in ConnType
    BY Zenon, NewIsTyped
  <2> HIDE DEF n
  <2>2. [n EXCEPT !.sock = s] \in ConnType
    BY <2>1 DEF ConnType
  <2> QED BY <2>2 DEF n
<1>2. /\ y.sock = s /\ y.in = <<>> /\ y.pend = None /\ y.dec = "idle" /\ y.out = <<>> /\ y.ctl = <<>> /\ y.closing = FALSE
      /\ y.stream = 0 /\ y.handled = 0
  BY DEF NoConn
<1>3. /\ NewWire.half = <<>> /\ NewWire.n = 0 /\ NewWire.k = 0 /\ NewWire.whole /\ NewWire.ordered /\ NewWire.pongs = 0
  BY DEF NewWire
<1>4. NewWire \in WireType
  BY Zenon, NewIsTyped
<1> HIDE DEF Is
<1>5. Good(NewWire, y)
  <2>1. y.out \o y.ctl = <<>>
    BY <1>2
  <2>2. Linked(<<>>, 0, 0)
    BY DEF Linked
  <2>3. Meets(NewWire, <<>>, 0, 0, 0)
    BY <1>3 DEF Meets
  <2> QED BY <1>2, <2>1, <2>2, <2>3 DEF Good
<1>6. c = "web" => Line(y, k, NewWire, Pipe(y, k))
  <2> SUFFICES ASSUME c = "web" PROVE Line(y, k, NewWire, Pipe(y, k))
    OBVIOUS
  <2>1. Pipe(y, k) = <<>>
    BY <1>2 DEF Pipe, Pend
  <2>2. Asks(<<>>) = 0
    BY DEF Asks
  <2>3. Shape(<<>>)
    BY DEF Shape
  <2>4. Debt(NewWire, y.ctl) + 2 * (Len(<<>>) - 0) = 0
    <3>1. Owed(NewWire) = 0
      BY <1>3 DEF Owed
    <3> QED BY <1>2, <3>1 DEF Debt
  <2>5. k.last \notin Final /\ k.last # "part"
    BY ServerAssumption DEF Final, None
  <2> QED BY <1>2, <1>3, <2>1, <2>2, <2>3, <2>4, <2>5 DEF Line
<1> QED BY <1>1, <1>2, <1>4, <1>5, <1>6 DEF Fine, Slot

\* Client s of slot c takes its place with socket k, and its predecessor goes.
Comes(c, old, s, k) ==
  /\ old = conn[c].sock
  /\ s \in (IF c = "raw" THEN RawSock ELSE WebSock) /\ s # old /\ sock[s].at \in {"queued", "open"} /\ wire[s] = NewWire
  /\ k \in SockType /\ k.at = "open" /\ k.head = sock[s].head
  /\ c = "web" => k.in = <<>> /\ k.asked = 0 /\ k.pings = 0 /\ k.last \in {None, "piece"} /\ Status(k.head) = 101
  /\ conn' = [conn EXCEPT ![c] = [NoConn EXCEPT !.sock = s]]
  /\ http' \in [1..HttpSlots -> HttpType]
  /\ \A i \in 1..HttpSlots : http'[i].sock # None => http'[i] = http[i] /\ http[i].sock # s
  /\ backlog' \in [Slot -> Seq(Sock)] /\ \A d \in Slot : Waits(backlog'[d], backlog[d], {s})
  /\ sock' \in [Sock -> SockType] /\ sock'[s] = k /\ (old # None => sock'[old].at = "closed")
  /\ \A t \in Sock : t # s /\ t # old => sock'[t] = sock[t]
  /\ wire' \in [Sock -> WireType] /\ wire'[s] = NewWire /\ (old # None => wire'[old].whole /\ wire'[old].ordered)
  /\ \A t \in Sock : t # s /\ t # old => wire'[t] = wire[t]

\* A client that comes finds a connection as new, and the one it replaces is closed.
LEMMA ClientComes ==
  ASSUME NetInv, NEW c \in Slot, NEW old, NEW s, NEW k, Comes(c, old, s, k)
  PROVE  NetInv'
<1> USE DEF Slot, Comes
<1>1. /\ conn["raw"].sock \in RawSock \cup {None} /\ conn["web"].sock \in WebSock \cup {None}
      /\ RawSock \cap WebSock = {} /\ None \notin RawSock \cup WebSock /\ Sock = RawSock \cup WebSock
      /\ \A d \in Slot : conn[d].sock \in Sock \cup {None}
      /\ \A i \in 1..HttpSlots : http[i].sock \in WebSock \cup {None}
      /\ conn \in [Slot -> ConnType] /\ backlog \in [Slot -> Seq(Sock)]
      /\ sock \in [Sock -> SockType] /\ wire \in [Sock -> WireType]
  BY SocketsAre
<1>2. s \in Sock /\ s # None /\ (c = "raw" => s \in RawSock) /\ (c = "web" => s \in WebSock)
  BY <1>1
<1> DEFINE y == [NoConn EXCEPT !.sock = s]
<1>3. Fine(c, y, k, NewWire)
  BY <1>2, NewClientIsFine DEF Is
<1>4. y \in ConnType /\ y.sock = s
  BY <1>3 DEF Fine, NoConn
<1> HIDE DEF y
<1>5. conn' = [conn EXCEPT ![c] = y]
  BY DEF y
<1>6. NetTypes'
  <2>1. conn' \in [Slot -> ConnType]
    BY ONLY <1>1, <1>4, <1>5
  <2> QED BY <2>1 DEF NetTypes
<1>7. conn'[c] = y /\ \A d \in Slot : d # c => conn'[d] = conn[d] /\ conn[d].sock # s
  BY <1>1, <1>2, <1>5
<1>8. \A d \in Slot : d # c /\ conn[d].sock # None => conn[d].sock \in Sock /\ conn[d].sock # old /\ conn[d].sock # s
  BY <1>1, <1>7, OnePlace
<1>9. NewWire.whole /\ NewWire.ordered
  BY DEF NewWire
<1>10. old \in Sock \cup {None}
  BY <1>1
<1>11. Places'
  <2>1. conn'["raw"].sock \in RawSock \cup {None} /\ conn'["web"].sock \in WebSock \cup {None}
    BY <1>1, <1>2, <1>4, <1>7
  <2>2. ASSUME NEW d \in Slot PROVE IF conn'[d].sock = None THEN conn'[d] = NoConn ELSE sock'[conn'[d].sock].at = "open"
    <3>1. CASE d = c
      BY <3>1, <1>2, <1>4, <1>7
    <3>2. CASE d # c
      BY <3>2, <1>7, <1>8 DEF NetInv, Places
    <3> QED BY <3>1, <3>2
  <2>3. ASSUME NEW i \in 1..HttpSlots, http'[i].sock # None
        PROVE  /\ sock'[http'[i].sock].at = "open" /\ http'[i].sock # conn'["web"].sock
               /\ \A j \in 1..HttpSlots : http'[j].sock = http'[i].sock => j = i
    <3>1. http'[i] = http[i] /\ http[i].sock # s /\ http[i].sock \in Sock /\ http[i].sock # None
      BY <1>1, <2>3
    <3>2. http[i].sock # old /\ http[i].sock # conn["web"].sock /\ sock[http[i].sock].at = "open"
      BY <3>1, OnePlace, <1>10
    <3>3. sock'[http[i].sock] = sock[http[i].sock]
      BY <3>1, <3>2
    <3>4. http'[i].sock # conn'["web"].sock
      BY <1>4, <1>7, <3>1, <3>2
    <3>5. ASSUME NEW j \in 1..HttpSlots, http'[j].sock = http'[i].sock PROVE j = i
      <4>1. http'[j] = http[j]
        BY <3>1, <3>5
      <4> QED BY <3>1, <3>5, <4>1, OnePlace
    <3> QED BY <3>1, <3>2, <3>3, <3>4, <3>5
  <2>4. ASSUME NEW d \in Slot, NEW i \in 1..Len(backlog'[d])
        PROVE  /\ sock'[backlog'[d][i]].at = "queued" /\ backlog'[d][i] \in (IF d = "raw" THEN RawSock ELSE WebSock)
               /\ \A j \in 1..Len(backlog'[d]) : backlog'[d][j] = backlog'[d][i] => j = i
    <3> DEFINE p == backlog[d]
               q == backlog'[d]
               ss == {s}
    <3>1. Waits(q, p, ss) /\ p \in Seq(Sock)
      BY <1>1
    <3>2. \A j \in 1..Len(p) : /\ sock[p[j]].at = "queued" /\ p[j] \in (IF d = "raw" THEN RawSock ELSE WebSock)
                               /\ p[j] # old \/ old = None
                               /\ \A l \in 1..Len(p) : p[l] = p[j] => l = j
      BY OnePlace DEF NetInv, Places
    <3>3. Distinct(p)
      BY <3>2 DEF Distinct
    <3>4. Among(q, p, ss) /\ Distinct(q)
      <4> HIDE DEF p, q, ss
      <4> QED BY ONLY <3>1, <3>3, WaitsAre
    <3> HIDE DEF p, q
    <3>5. q[i] # s /\ \E j \in 1..Len(p) : q[i] = p[j]
      BY <3>4 DEF q, Among
    <3>6. PICK j \in 1..Len(p) : q[i] = p[j]
      BY <3>5
    <3>7. q[i] \in Sock /\ q[i] # old
      <4>1. q[i] \in Sock
        BY <3>1, <3>6
      <4> QED BY <4>1, <1>1, <3>2, <3>6
    <3>8. sock'[q[i]] = sock[q[i]]
      BY <3>5, <3>7
    <3>9. sock[p[j]].at = "queued" /\ p[j] \in (IF d = "raw" THEN RawSock ELSE WebSock)
      BY <3>2
    <3> QED BY <3>4, <3>6, <3>8, <3>9 DEF q, Distinct
  <2> QED BY <2>1, <2>2, <2>3, <2>4 DEF Places
<1>12. Fresh'
  <2>1. ASSUME NEW t \in Sock, sock'[t].at \in {"new", "queued"} PROVE wire'[t] = NewWire
    <3>1. t # s /\ t # old
      BY <1>1, <2>1
    <3> QED BY <2>1, <3>1 DEF NetInv, Fresh
  <2>2. ASSUME NEW t \in WebSock, sock'[t].at # "closed", t # conn'["web"].sock
        PROVE  wire'[t] = NewWire /\ sock'[t].asked = 0 /\ sock'[t].pings = 0 /\ sock'[t].last \in {None, "piece"}
    <3>1. t \in Sock /\ t # old
      BY <1>1, <2>2
    <3>2. t # s
      <4>1. CASE c = "web"
        BY <1>4, <1>7, <2>2, <4>1
      <4>2. CASE c = "raw"
        BY <1>1, <1>2, <4>2
      <4> QED BY <4>1, <4>2
    <3>3. t # conn["web"].sock
      <4>1. CASE c = "web"
        BY <3>1, <4>1
      <4>2. CASE c = "raw"
        BY <1>7, <2>2, <4>2
      <4> QED BY <4>1, <4>2
    <3> QED BY <2>2, <3>1, <3>2, <3>3 DEF NetInv, Fresh
  <2> QED BY <2>1, <2>2 DEF Fresh
<1>13. HeadsKnown'
  <2>1. ASSUME NEW t \in WebSock, sock'[t].at \in {"queued", "open"} PROVE sock'[t].head \in Heads[t]
    <3>1. t \in Sock /\ t # old
      BY <1>1, <2>1
    <3>2. CASE t = s
      BY <2>1, <3>2 DEF NetInv, HeadsKnown
    <3>3. CASE t # s
      BY <2>1, <3>1, <3>3 DEF NetInv, HeadsKnown
    <3> QED BY <3>2, <3>3
  <2>2. ASSUME conn'["web"].sock # None PROVE Status(sock'[conn'["web"].sock].head) = 101
    <3>1. CASE c = "web"
      BY <1>4, <1>7, <3>1
    <3>2. CASE c = "raw"
      <4>1. conn'["web"] = conn["web"] /\ sock'[conn["web"].sock] = sock[conn["web"].sock]
        BY <1>7, <1>8, <2>2, <3>2
      <4> QED BY <2>2, <4>1 DEF NetInv, HeadsKnown
    <3> QED BY <3>1, <3>2
  <2> QED BY <2>1, <2>2 DEF HeadsKnown
<1>14. StreamIntact'
  <2> SUFFICES ASSUME NEW t \in Sock PROVE wire'[t].whole /\ wire'[t].ordered
    BY DEF StreamIntact
  <2>1. CASE t = s
    BY <1>9, <2>1
  <2>2. CASE t # s /\ t = old
    BY <1>1, <2>2
  <2>3. CASE t # s /\ t # old
    BY <2>3 DEF NetInv, StreamIntact
  <2> QED BY <2>1, <2>2, <2>3
<1>15. Served'
  <2> SUFFICES ASSUME NEW d \in Slot, conn'[d].sock # None
      PROVE  Fine(d, conn'[d], sock'[conn'[d].sock], wire'[conn'[d].sock])
    BY DEF Served
  <2>1. CASE d = c
    BY <1>3, <1>4, <1>7, <2>1
  <2>2. CASE d # c
    <3>1. conn'[d] = conn[d] /\ conn[d].sock \in Sock /\ conn[d].sock # old /\ conn[d].sock # s
      BY <1>7, <1>8, <2>2
    <3> QED BY <3>1 DEF NetInv, Served
  <2> QED BY <2>1, <2>2
<1> QED BY <1>6, <1>11, <1>12, <1>13, <1>14, <1>15 DEF NetInv

\* A step that only changes the tasks keeps what is known of the network.
LEMMA NothingMoves ==
  ASSUME NetInv, UNCHANGED <<conn, http, backlog, sock, wire>>
  PROVE  NetInv'
BY DEF NetInv, NetTypes, Places, Fresh, HeadsKnown, StreamIntact, Served

\* A browser's or a raw client's connection waits to be accepted.
LEMMA ConnectKeepsNet ==
  ASSUME NetInv, NEW s \in Sock, Connect(s)
  PROVE  NetInv'
<1> USE DEF Slot
<1>1. /\ conn["raw"].sock \in RawSock \cup {None} /\ conn["web"].sock \in WebSock \cup {None}
      /\ RawSock \cap WebSock = {} /\ None \notin RawSock \cup WebSock /\ Sock = RawSock \cup WebSock
      /\ \A c \in Slot : conn[c].sock \in Sock \cup {None}
      /\ \A i \in 1..HttpSlots : http[i].sock \in WebSock \cup {None}
      /\ conn \in [Slot -> ConnType] /\ http \in [1..HttpSlots -> HttpType] /\ backlog \in [Slot -> Seq(Sock)]
      /\ sock \in [Sock -> SockType] /\ wire \in [Sock -> WireType]
  BY SocketsAre
<1> DEFINE b == SlotOf(s)
<1>2. b \in Slot /\ s \in (IF b = "raw" THEN RawSock ELSE WebSock)
  BY <1>1 DEF SlotOf
<1>3. PICK h \in (IF s \in RawSock THEN {None} ELSE Heads[s]) : sock' = [sock EXCEPT ![s].at = "queued", ![s].head = h]
  BY DEF Connect
<1>4. /\ sock[s].at = "new" /\ backlog' = [backlog EXCEPT ![b] = Append(@, s)]
      /\ conn' = conn /\ http' = http /\ wire' = wire
  BY DEF Connect, Same
<1> DEFINE k == [sock[s] EXCEPT !.at = "queued", !.head = h]
<1>5. k \in SockType
  <2> DEFINE H == {None} \cup UNION {Heads[t] : t \in WebSock}
             n == sock[s]
  <2>1. h \in H
    BY <1>1
  <2>2. n \in [ at : {"new", "queued", "open", "closed"}, gone : BOOLEAN, buf : 0..SndMax, in : Seq(Item),
                pieces : Nat, asked : Nat, pings : Nat, last : Item \cup {None}, head : H ]
    BY <1>1 DEF SockType
  <2> HIDE DEF H, n
  <2>3. [n EXCEPT !.at = "queued", !.head = h] \in
              [ at : {"new", "queued", "open", "closed"}, gone : BOOLEAN, buf : 0..SndMax, in : Seq(Item),
                pieces : Nat, asked : Nat, pings : Nat, last : Item \cup {None}, head : H ]
    BY <2>1, <2>2
  <2> QED BY <2>3 DEF SockType, H, n
<1>6. sock' = [sock EXCEPT ![s] = k]
  BY <1>1, <1>3
<1>7. k.at = "queued" /\ k.head = h /\ k.asked = sock[s].asked /\ k.pings = sock[s].pings /\ k.last = sock[s].last
  <2>1. sock[s] \in SockType
    BY <1>1
  <2> QED BY <2>1 DEF SockType
<1> HIDE DEF k, b
<1>8. NetTypes'
  <2>1. sock' \in [Sock -> SockType]
    BY <1>1, <1>5, <1>6
  <2>2. backlog' \in [Slot -> Seq(Sock)]
    <3>1. backlog[b] \in Seq(Sock)
      BY <1>1, <1>2
    <3>2. Append(backlog[b], s) \in Seq(Sock)
      BY <3>1, AppendProperties
    <3> QED BY <1>1, <1>2, <1>4, <3>2
  <2> QED BY <1>1, <1>4, <2>1, <2>2 DEF NetTypes
<1>9. sock'[s] = k /\ \A t \in Sock : t # s => sock'[t] = sock[t]
  BY <1>1, <1>6
<1>10. \A c \in Slot : conn[c].sock # None => conn[c].sock # s /\ conn[c].sock \in Sock
  BY <1>1, <1>4 DEF NetInv, Places
<1>11. \A i \in 1..HttpSlots : http[i].sock # None => http[i].sock # s /\ http[i].sock \in Sock
  BY <1>1, <1>4 DEF NetInv, Places
<1>12. \A d \in Slot : \A j \in 1..Len(backlog[d]) : backlog[d][j] # s /\ backlog[d][j] \in Sock
  BY <1>1, <1>4, OnePlace
<1>13. Places'
  <2>1. \A c \in Slot : IF conn[c].sock = None THEN conn[c] = NoConn ELSE sock'[conn[c].sock].at = "open"
    BY <1>9, <1>10 DEF NetInv, Places
  <2>2. ASSUME NEW i \in 1..HttpSlots, http[i].sock # None
        PROVE  /\ sock'[http[i].sock].at = "open" /\ http[i].sock # conn["web"].sock
               /\ \A j \in 1..HttpSlots : http[j].sock = http[i].sock => j = i
    BY <1>9, <1>11, <2>2 DEF NetInv, Places
  <2>3. ASSUME NEW d \in Slot, NEW i \in 1..Len(backlog'[d])
        PROVE  /\ sock'[backlog'[d][i]].at = "queued" /\ backlog'[d][i] \in (IF d = "raw" THEN RawSock ELSE WebSock)
               /\ \A j \in 1..Len(backlog'[d]) : backlog'[d][j] = backlog'[d][i] => j = i
    <3>1. CASE d # b
      <4>1. backlog'[d] = backlog[d]
        BY <1>1, <1>4, <3>1
      <4> QED BY <1>9, <1>12, <4>1 DEF NetInv, Places
    <3>2. CASE d = b
      <4> DEFINE p == backlog[b]
                 q == backlog'[b]
      <4>1. q = Append(p, s) /\ p \in Seq(Sock)
        BY <1>1, <1>2, <1>4
      <4>2. /\ \A j \in 1..Len(p) : sock[p[j]].at = "queued" /\ p[j] \in (IF b = "raw" THEN RawSock ELSE WebSock)
            /\ \A j, l \in 1..Len(p) : p[j] = p[l] => j = l
        BY <1>2 DEF NetInv, Places
      <4>3. \A j \in 1..Len(p) : p[j] # s /\ sock'[p[j]] = sock[p[j]]
        BY <1>2, <1>9, <1>12
      <4> HIDE DEF p, q
      <4>4. Len(q) = Len(p) + 1 /\ Len(p) \in Nat /\ q[Len(p) + 1] = s /\ \A j \in 1..Len(p) : q[j] = p[j]
        BY <4>1
      <4>5. \A j \in 1..Len(q) : j = Len(p) + 1 \/ j \in 1..Len(p)
        BY <4>4
      <4>6. i \in 1..Len(q)
        BY <3>2 DEF q
      <4>7. sock'[q[i]].at = "queued" /\ q[i] \in (IF b = "raw" THEN RawSock ELSE WebSock)
        BY <1>2, <1>7, <1>9, <4>2, <4>3, <4>4, <4>5, <4>6
      <4>8. \A j \in 1..Len(q) : q[j] = q[i] => j = i
        BY <4>2, <4>3, <4>4, <4>5, <4>6
      <4> QED BY <3>2, <4>7, <4>8 DEF q
    <3> QED BY <3>1, <3>2
  <2> QED BY <1>1, <1>4, <2>1, <2>2, <2>3 DEF Places
<1>14. Fresh'
  <2>1. \A t \in WebSock : t \in Sock
    BY <1>1
  <2>2. ASSUME NEW t \in Sock, sock'[t].at \in {"new", "queued"} PROVE wire[t] = NewWire
    <3>1. sock[t].at \in {"new", "queued"}
      BY <1>4, <1>9, <2>2
    <3> QED BY <3>1 DEF NetInv, Fresh
  <2>3. ASSUME NEW t \in WebSock, sock'[t].at # "closed", t # conn["web"].sock
        PROVE  wire[t] = NewWire /\ sock'[t].asked = 0 /\ sock'[t].pings = 0 /\ sock'[t].last \in {None, "piece"}
    <3>1. sock[t].at # "closed"
      BY <1>4, <1>9, <2>1, <2>3
    <3> QED BY <1>7, <1>9, <2>1, <2>3, <3>1 DEF NetInv, Fresh
  <2> QED BY <1>4, <2>2, <2>3 DEF Fresh
<1>15. HeadsKnown'
  <2>1. ASSUME NEW t \in WebSock, sock'[t].at \in {"queued", "open"} PROVE sock'[t].head \in Heads[t]
    <3>1. CASE t = s
      <4>1. h \in Heads[s]
        BY <1>1, <3>1
      <4> QED BY <1>7, <1>9, <3>1, <4>1
    <3>2. CASE t # s
      BY <1>1, <1>9, <2>1, <3>2 DEF NetInv, HeadsKnown
    <3> QED BY <3>1, <3>2
  <2>2. conn["web"].sock # None => Status(sock'[conn["web"].sock].head) = 101
    BY <1>9, <1>10 DEF NetInv, HeadsKnown
  <2> QED BY <1>4, <2>1, <2>2 DEF HeadsKnown
<1>16. StreamIntact'
  BY <1>4 DEF NetInv, StreamIntact
<1>17. Served'
  BY <1>4, <1>9, <1>10 DEF NetInv, Served
<1> QED BY <1>8, <1>13, <1>14, <1>15, <1>16, <1>17 DEF NetInv

\* What is in a task.
LEMMA TaskIs ==
  ASSUME NEW t \in TaskType
  PROVE  /\ t[1] \in {"feed", "process", "accept", "read", "pump", "again", "http", "write", "poll", "timers"}
         /\ t[1] \in {"feed", "process", "accept", "read", "pump", "again"} => t[2] \in Slot
         /\ t[1] \in {"read", "pump", "again"} => t[3] \in Nat
         /\ t[1] = "again" => t[4] \in Nat
         /\ t[1] \in {"http", "write"} => t[2] \in 1..HttpSlots
         /\ t[1] \in {"feed", "process", "accept"} => t = <<t[1], t[2]>>
         /\ t[1] = "poll" => t = <<"poll">>
         /\ t[1] = "timers" => t = <<"timers">>
BY DEF TaskType

\* accept_client: the first of the backlog is the raw client.
LEMMA AcceptKeepsNet ==
  ASSUME NetInv, Accept, backlog["raw"] # <<>>
  PROVE  NetInv'
<1> USE DEF Slot
<1>1. /\ conn \in [Slot -> ConnType] /\ http \in [1..HttpSlots -> HttpType] /\ backlog \in [Slot -> Seq(Sock)]
      /\ sock \in [Sock -> SockType] /\ wire \in [Sock -> WireType] /\ None \notin Sock
      /\ \A c \in Slot : conn[c].sock \in Sock \cup {None}
      /\ \A i \in 1..HttpSlots : http[i].sock \in WebSock \cup {None}
      /\ RawSock \cap WebSock = {} /\ None \notin RawSock \cup WebSock /\ Sock = RawSock \cup WebSock
  BY SocketsAre
<1> DEFINE q == backlog["raw"]
           s == Head(q)
           old == conn["raw"].sock
           k == [sock[s] EXCEPT !.at = "open"]
<1>2. /\ q \in Seq(Sock) /\ Len(q) \in Nat \ {0} /\ 1 \in 1..Len(q) /\ s = q[1] /\ s \in Sock
      /\ Tail(q) \in Seq(Sock)
  BY <1>1
<1>3. sock[s].at = "queued" /\ s \in RawSock /\ \A j \in 1..Len(q) : q[j] = s => j = 1
  BY <1>2 DEF NetInv, Places
<1>4. wire[s] = NewWire
  BY <1>2, <1>3 DEF NetInv, Fresh
<1>5. old # s /\ old \in Sock \cup {None}
  BY <1>1, <1>3, OnePlace
<1>6. k \in SockType /\ k.at = "open" /\ k.head = sock[s].head
  <2>1. sock[s] \in SockType
    BY <1>1, <1>2
  <2> QED BY <2>1 DEF SockType
<1> DEFINE sk == IF old = None THEN sock ELSE Shut(sock, old)
<1>7. /\ sock' = [sk EXCEPT ![s].at = "open"]
      /\ wire' = (IF old = None THEN wire ELSE Forget(wire, old))
      /\ conn' = [conn EXCEPT !["raw"] = [NoConn EXCEPT !.sock = s]]
      /\ backlog' = [backlog EXCEPT !["raw"] = Tail(q)]
      /\ http' = http
  BY DEF Accept
<1> DEFINE z == [NewSock EXCEPT !.at = "closed", !.head = sock[old].head]
           y == [NewWire EXCEPT !.whole = wire[old].whole, !.ordered = wire[old].ordered]
<1>8. old # None => z \in SockType /\ z.at = "closed" /\ y \in WireType /\ y.whole /\ y.ordered
  <2> SUFFICES ASSUME old # None PROVE z \in SockType /\ z.at = "closed" /\ y \in WireType /\ y.whole /\ y.ordered
    OBVIOUS
  <2>1. sock[old] \in SockType /\ wire[old] \in WireType /\ wire[old].whole /\ wire[old].ordered
    BY <1>1, <1>5 DEF NetInv, StreamIntact
  <2> QED BY Zenon, <2>1, NewIsTyped DEF NewSock, NewWire
<1>9. sk = (IF old = None THEN sock ELSE [sock EXCEPT ![old] = z])
  BY DEF Shut
<1>10. wire' = (IF old = None THEN wire ELSE [wire EXCEPT ![old] = y])
  BY <1>7 DEF Forget
<1> HIDE DEF z, y, k, sk, s, old, q
<1>11. /\ sk \in [Sock -> SockType] /\ sk[s] = sock[s] /\ (old # None => sk[old].at = "closed")
       /\ \A t \in Sock : t # old => sk[t] = sock[t]
  BY <1>1, <1>2, <1>5, <1>8, <1>9
<1>12. sock' = [sk EXCEPT ![s] = k]
  BY <1>7, <1>11 DEF k
<1>13. /\ sock' \in [Sock -> SockType] /\ sock'[s] = k /\ (old # None => sock'[old].at = "closed")
       /\ \A t \in Sock : t # s /\ t # old => sock'[t] = sock[t]
  BY <1>2, <1>5, <1>6, <1>11, <1>12
<1>14. /\ wire' \in [Sock -> WireType] /\ wire'[s] = NewWire /\ (old # None => wire'[old].whole /\ wire'[old].ordered)
       /\ \A t \in Sock : t # s /\ t # old => wire'[t] = wire[t]
  BY <1>1, <1>2, <1>4, <1>5, <1>8, <1>10
<1>15. backlog' \in [Slot -> Seq(Sock)] /\ \A d \in Slot : Waits(backlog'[d], backlog[d], {s})
  <2>1. backlog' \in [Slot -> Seq(Sock)]
    BY <1>1, <1>2, <1>7
  <2>2. Waits(backlog'["raw"], q, {s})
    <3>1. \A j \in 2..Len(q) : q[j] # s
      <4>1. \A j \in 2..Len(q) : j \in 1..Len(q) /\ j # 1
        OBVIOUS
      <4> QED BY <1>3, <4>1
    <3> QED BY <1>1, <1>7, <3>1 DEF Waits, q
  <2>3. Waits(backlog'["web"], backlog["web"], {s})
    <3>1. \A j \in 1..Len(backlog["web"]) : backlog["web"][j] \in WebSock
      BY DEF NetInv, Places
    <3> QED BY <1>1, <1>3, <1>7, <3>1 DEF Waits
  <2> QED BY <2>1, <2>2, <2>3 DEF q
<1>16. http' \in [1..HttpSlots -> HttpType] /\ \A i \in 1..HttpSlots : http'[i].sock # None => http'[i] = http[i] /\ http[i].sock # s
  BY <1>1, <1>3, <1>7
<1>17. conn' = [conn EXCEPT !["raw"] = [NoConn EXCEPT !.sock = s]]
  BY <1>7
<1>18. old = conn["raw"].sock
  BY DEF old
<1>19. "raw" \in Slot /\ s \in (IF "raw" = "raw" THEN RawSock ELSE WebSock) /\ sock[s].at \in {"queued", "open"}
  BY <1>3
<1>20. Comes("raw", old, s, k)
  BY ONLY <1>4, <1>5, <1>6, <1>13, <1>14, <1>15, <1>16, <1>17, <1>18, <1>19 DEF Comes
<1> QED BY ONLY NetInv, <1>19, <1>20, ClientComes

\* accept_web: the first of the backlog has a slot or is closed.
LEMMA AcceptWebKeepsNet ==
  ASSUME NetInv, AcceptWeb, backlog["web"] # <<>>
  PROVE  NetInv'
<1> USE DEF Slot
<1>1. /\ conn \in [Slot -> ConnType] /\ http \in [1..HttpSlots -> HttpType] /\ backlog \in [Slot -> Seq(Sock)]
      /\ sock \in [Sock -> SockType] /\ wire \in [Sock -> WireType] /\ None \notin Sock
      /\ \A c \in Slot : conn[c].sock \in Sock \cup {None}
      /\ \A i \in 1..HttpSlots : http[i].sock \in WebSock \cup {None}
      /\ RawSock \cap WebSock = {} /\ None \notin RawSock \cup WebSock /\ Sock = RawSock \cup WebSock
      /\ conn["raw"].sock \in RawSock \cup {None} /\ conn["web"].sock \in WebSock \cup {None}
  BY SocketsAre
<1> DEFINE q == backlog["web"]
           s == Head(q)
           free == {i \in DOMAIN http : http[i].sock = None}
<1>2. /\ q \in Seq(Sock) /\ Len(q) \in Nat \ {0} /\ 1 \in 1..Len(q) /\ s = q[1] /\ s \in Sock
      /\ Tail(q) \in Seq(Sock)
  BY <1>1
<1>3. sock[s].at = "queued" /\ s \in WebSock /\ \A j \in 1..Len(q) : q[j] = s => j = 1
  BY <1>2 DEF NetInv, Places
<1>4. backlog' = [backlog EXCEPT !["web"] = Tail(q)] /\ conn' = conn /\ wire' = wire
  BY DEF AcceptWeb
<1>5. \A c \in Slot : conn[c].sock # s
  BY <1>1, <1>2, <1>3, OnePlace
<1>6. \A i \in 1..HttpSlots : http[i].sock # s
  BY <1>1, <1>2, <1>3, OnePlace
<1>7. backlog' \in [Slot -> Seq(Sock)] /\ \A d \in Slot : Waits(backlog'[d], backlog[d], {s})
  <2>1. backlog' \in [Slot -> Seq(Sock)]
    BY <1>1, <1>2, <1>4
  <2>2. Waits(backlog'["web"], backlog["web"], {s})
    <3>1. \A j \in 2..Len(q) : q[j] # s
      <4>1. \A j \in 2..Len(q) : j \in 1..Len(q) /\ j # 1
        OBVIOUS
      <4> QED BY <1>3, <4>1
    <3> QED BY <1>1, <1>4, <3>1 DEF Waits
  <2>3. Waits(backlog'["raw"], backlog["raw"], {s})
    <3>1. \A j \in 1..Len(backlog["raw"]) : backlog["raw"][j] \in RawSock
      BY DEF NetInv, Places
    <3> QED BY <1>1, <1>3, <1>4, <3>1 DEF Waits
  <2> QED BY <2>1, <2>2, <2>3
<1>8. CASE free = {}
  <2>1. sock' = Shut(sock, s) /\ http' = http
    BY <1>8 DEF AcceptWeb
  <2>2. Drops({s})
    <3>1. conn' = [d \in Slot |-> IF conn[d].sock \in {s} THEN NoConn ELSE conn[d]]
      BY <1>1, <1>4, <1>5
    <3>2. sock' = [t \in Sock |-> IF t \in {s} THEN [NewSock EXCEPT !.at = "closed", !.head = sock[t].head] ELSE sock[t]]
      BY Zenon, <1>1, <1>2, <2>1 DEF Shut
    <3>3. wire' \in [Sock -> WireType] /\ \A t \in Sock : IF t \in {s} THEN wire'[t].whole /\ wire'[t].ordered ELSE wire'[t] = wire[t]
      BY <1>1, <1>4 DEF NetInv, StreamIntact
    <3> QED BY Zenon, <1>1, <1>6, <1>7, <2>1, <3>1, <3>2, <3>3 DEF Drops
  <2> QED BY <1>2, <2>2, DropsKeepNet
<1>9. CASE free # {}
  <2> DEFINE m == Min(free)
             k == [sock[s] EXCEPT !.at = "open"]
             hp == [NoHttp EXCEPT !.sock = s]
  <2>1. m \in 1..HttpSlots /\ http[m].sock = None
    <3>1. free \in SUBSET Nat /\ free \subseteq 1..HttpSlots
      BY <1>1, ServerAssumption
    <3> QED BY <1>9, <3>1, MinIsThere
  <2>2. http' = [http EXCEPT ![m] = hp] /\ sock' = [sock EXCEPT ![s] = k]
    <3>1. http' = [http EXCEPT ![m] = hp] /\ sock' = [sock EXCEPT ![s].at = "open"]
      BY <1>9 DEF AcceptWeb
    <3> QED BY <3>1, <1>1, <1>2
  <2>3. k \in SockType /\ k.at = "open" /\ k.head = sock[s].head /\ k.asked = sock[s].asked /\ k.pings = sock[s].pings /\ k.last = sock[s].last
    <3>1. sock[s] \in SockType
      BY <1>1, <1>2
    <3> QED BY <3>1 DEF SockType
  <2>4. hp \in HttpType /\ hp.sock = s
    BY <1>3 DEF NoHttp, HttpType
  <2> HIDE DEF hp, k, m, free
  <2>5. NetTypes'
    BY <1>1, <1>4, <1>7, <2>1, <2>2, <2>3, <2>4 DEF NetTypes
  <2>6. sock'[s] = k /\ (\A t \in Sock : t # s => sock'[t] = sock[t]) /\ http'[m] = hp /\ \A i \in 1..HttpSlots : i # m => http'[i] = http[i]
    BY <1>1, <1>2, <2>1, <2>2
  <2>7. wire[s] = NewWire /\ sock[s].asked = 0 /\ sock[s].pings = 0 /\ sock[s].last \in {None, "piece"} /\ sock[s].head \in Heads[s]
    BY <1>2, <1>3, <1>5 DEF NetInv, Fresh, HeadsKnown
  <2>8. Places'
    <3>1. \A c \in Slot : IF conn[c].sock = None THEN conn[c] = NoConn ELSE sock'[conn[c].sock].at = "open"
      BY <1>1, <1>5, <2>6 DEF NetInv, Places
    <3>2. ASSUME NEW i \in 1..HttpSlots, http'[i].sock # None
          PROVE  /\ sock'[http'[i].sock].at = "open" /\ http'[i].sock # conn["web"].sock
                 /\ \A j \in 1..HttpSlots : http'[j].sock = http'[i].sock => j = i
      <4>1. CASE i = m
        BY <1>5, <1>6, <2>3, <2>4, <2>6, <4>1
      <4>2. CASE i # m
        <5>1. http'[i] = http[i] /\ http[i].sock \in Sock /\ http[i].sock # s
          BY <1>1, <1>6, <2>6, <3>2, <4>2
        <5> QED BY <2>4, <2>6, <3>2, <5>1 DEF NetInv, Places
      <4> QED BY <4>1, <4>2
    <3>3. ASSUME NEW d \in Slot, NEW i \in 1..Len(backlog'[d])
          PROVE  /\ sock'[backlog'[d][i]].at = "queued" /\ backlog'[d][i] \in (IF d = "raw" THEN RawSock ELSE WebSock)
                 /\ \A j \in 1..Len(backlog'[d]) : backlog'[d][j] = backlog'[d][i] => j = i
      <4> DEFINE p == backlog[d]
                 r == backlog'[d]
                 ss == {s}
      <4>1. Waits(r, p, ss) /\ p \in Seq(Sock)
        BY <1>1, <1>7
      <4>2. \A j \in 1..Len(p) : /\ sock[p[j]].at = "queued" /\ p[j] \in (IF d = "raw" THEN RawSock ELSE WebSock)
                                 /\ \A l \in 1..Len(p) : p[l] = p[j] => l = j
        BY DEF NetInv, Places
      <4>3. Distinct(p)
        BY <4>2 DEF Distinct
      <4>4. Among(r, p, ss) /\ Distinct(r)
        <5> HIDE DEF p, r, ss
        <5> QED BY ONLY <4>1, <4>3, WaitsAre
      <4> HIDE DEF p, r
      <4>5. r[i] # s /\ \E j \in 1..Len(p) : r[i] = p[j]
        BY <4>4 DEF r, Among
      <4>6. PICK j \in 1..Len(p) : r[i] = p[j]
        BY <4>5
      <4>7. r[i] \in Sock
        BY <4>1, <4>6
      <4>8. sock'[r[i]] = sock[r[i]]
        BY <2>6, <4>5, <4>7
      <4>9. sock[p[j]].at = "queued" /\ p[j] \in (IF d = "raw" THEN RawSock ELSE WebSock)
        BY <4>2
      <4> QED BY <4>4, <4>6, <4>8, <4>9 DEF r, Distinct
    <3> QED BY <1>1, <1>4, <3>1, <3>2, <3>3 DEF Places
  <2>9. Fresh'
    <3>1. ASSUME NEW t \in Sock, sock'[t].at \in {"new", "queued"} PROVE wire[t] = NewWire
      BY <2>3, <2>6, <3>1 DEF NetInv, Fresh
    <3>2. ASSUME NEW t \in WebSock, sock'[t].at # "closed", t # conn["web"].sock
          PROVE  wire[t] = NewWire /\ sock'[t].asked = 0 /\ sock'[t].pings = 0 /\ sock'[t].last \in {None, "piece"}
      <4>1. t \in Sock
        BY <1>1
      <4> QED BY <2>3, <2>6, <2>7, <3>2, <4>1 DEF NetInv, Fresh
    <3> QED BY <1>4, <3>1, <3>2 DEF Fresh
  <2>10. HeadsKnown'
    <3>1. \A t \in WebSock : t \in Sock
      BY <1>1
    <3> QED BY <1>1, <1>4, <1>5, <2>3, <2>6, <2>7, <3>1 DEF NetInv, HeadsKnown
  <2>11. StreamIntact'
    BY <1>4 DEF NetInv, StreamIntact
  <2>12. Served'
    BY <1>1, <1>4, <1>5, <2>6 DEF NetInv, Served
  <2> QED BY <2>5, <2>8, <2>9, <2>10, <2>11, <2>12 DEF NetInv
<1> QED BY <1>8, <1>9

\* http_on_writable sends or closes, and no client is on that socket.
LEMMA HttpWriteKeepsNet ==
  ASSUME NetInv, HttpWrite, todo[1] \in TaskType
  PROVE  NetInv'
<1> DEFINE i == todo[1][2]
           s == http[i].sock
           n == Least(http[i].resp, SndMax - sock[s].buf)
<1>1. i \in 1..HttpSlots
  BY TaskIs DEF HttpWrite, Task
<1>2. /\ conn \in [Slot -> ConnType] /\ http \in [1..HttpSlots -> HttpType] /\ backlog \in [Slot -> Seq(Sock)]
      /\ sock \in [Sock -> SockType] /\ wire \in [Sock -> WireType] /\ None \notin Sock
      /\ s \in Sock \cup {None}
  BY <1>1, SocketsAre
<1>3. UNCHANGED <<conn, backlog, wire>>
  BY DEF HttpWrite
<1>4. CASE s = None \/ http[i].resp = 0
  BY <1>3, <1>4, NothingMoves DEF HttpWrite
<1>5. CASE s # None /\ http[i].resp # 0 /\ (sock[s].gone \/ n = http[i].resp)
  <2>1. CloseHttp(i)
    BY <1>5 DEF HttpWrite
  <2> QED BY <1>1, <1>3, <1>5, <2>1, ExchangeGoes
<1>6. CASE s # None /\ http[i].resp # 0 /\ ~(sock[s].gone \/ n = http[i].resp)
  <2>1. http' = [http EXCEPT ![i].resp = @ - n] /\ sock' = [sock EXCEPT ![s].buf = @ + n]
    BY <1>6 DEF HttpWrite
  <2>2. s \in Sock
    BY <1>2, <1>6
  <2>3. http[i].resp \in Nat /\ sock[s].buf \in 0..SndMax /\ SndMax \in Nat
    BY <1>1, <1>2, <2>2, ServerAssumption DEF HttpType, SockType
  <2> DEFINE a == http[i].resp
             b == sock[s].buf
  <2>4. a - n \in Nat /\ b + n \in 0..SndMax
    <3>1. n = IF a < SndMax - b THEN a ELSE SndMax - b
      BY DEF Least
    <3>2. a \in Nat /\ b \in 0..SndMax /\ SndMax \in Nat
      BY <2>3
    <3> HIDE DEF n, a, b
    <3> QED BY <3>1, <3>2
  <2> HIDE DEF n
  <2> DEFINE k == [sock[s] EXCEPT !.buf = b + n]
  <2>5. k \in SockType /\ k.at = sock[s].at /\ k.head = sock[s].head /\ k.asked = sock[s].asked /\ k.pings = sock[s].pings /\ k.last = sock[s].last
    <3>1. sock[s] \in SockType
      BY <1>2, <2>2
    <3> QED BY <2>4, <3>1 DEF SockType
  <2>6. sock' = [sock EXCEPT ![s] = k]
    BY <1>2, <2>1, <2>2
  <2>7. http' \in [1..HttpSlots -> HttpType] /\ \A j \in 1..HttpSlots : http'[j].sock = http[j].sock
    <3> DEFINE e == [http[i] EXCEPT !.resp = a - n]
    <3>1. http[i] \in HttpType
      BY <1>1, <1>2
    <3>2. e \in HttpType /\ e.sock = http[i].sock
      BY <2>4, <3>1 DEF HttpType
    <3>3. http' = [http EXCEPT ![i] = e]
      BY <1>1, <1>2, <2>1
    <3> HIDE DEF e
    <3> QED BY <1>1, <1>2, <3>2, <3>3
  <2>8. \A c \in Slot : conn[c].sock # s
    BY <1>1, <1>6, OnePlace
  <2> HIDE DEF k, s
  <2> QED BY <1>3, <2>2, <2>5, <2>6, <2>7, <2>8, OtherMoves
<1> QED BY <1>4, <1>5, <1>6

\* A slot that gets old.
LEMMA GetsOldKeepsNet ==
  ASSUME NetInv, NEW i \in 1..HttpSlots, GetsOld(i)
  PROVE  NetInv'
<1> DEFINE s == http[i].sock
           e == [http[i] EXCEPT !.old = TRUE]
<1>1. /\ http \in [1..HttpSlots -> HttpType] /\ sock \in [Sock -> SockType] /\ s \in Sock
  BY SocketsAre DEF GetsOld
<1>2. \A c \in Slot : conn[c].sock # s
  BY OnePlace DEF GetsOld
<1>3. e \in HttpType /\ e.sock = http[i].sock
  <2>1. http[i] \in HttpType
    BY <1>1
  <2> QED BY <2>1 DEF HttpType
<1>4. http' = [http EXCEPT ![i] = e]
  BY <1>1 DEF GetsOld
<1> HIDE DEF e
<1>5. http' \in [1..HttpSlots -> HttpType] /\ \A j \in 1..HttpSlots : http'[j].sock = http[j].sock
  BY <1>1, <1>3, <1>4
<1>6. sock' = [sock EXCEPT ![s] = sock[s]] /\ UNCHANGED <<conn, backlog, wire>>
  BY <1>1 DEF GetsOld
<1>7. sock[s] \in SockType
  BY <1>1
<1> HIDE DEF s
<1> QED BY <1>1, <1>2, <1>5, <1>6, <1>7, OtherMoves

-----------------------------------------------------------------------------
(***************************************************************************)
(* The exchanges that serve the page.                                      *)
(***************************************************************************)
\* A socket that was read.
LEMMA ReadIsTyped ==
  ASSUME NEW k \in SockType
  PROVE  /\ [k EXCEPT !.in = <<>>] \in SockType /\ Len(k.in) \in Nat
         /\ [k EXCEPT !.in = <<>>].at = k.at /\ [k EXCEPT !.in = <<>>].head = k.head /\ [k EXCEPT !.in = <<>>].asked = k.asked
         /\ [k EXCEPT !.in = <<>>].pings = k.pings /\ [k EXCEPT !.in = <<>>].last = k.last /\ [k EXCEPT !.in = <<>>].in = <<>>
<1> DEFINE H == {None} \cup UNION {Heads[t] : t \in WebSock}
<1>1. k \in [ at : {"new", "queued", "open", "closed"}, gone : BOOLEAN, buf : 0..SndMax, in : Seq(Item),
              pieces : Nat, asked : Nat, pings : Nat, last : Item \cup {None}, head : H ]
  BY DEF SockType
<1> HIDE DEF H
<1>2. [k EXCEPT !.in = <<>>] \in
             [ at : {"new", "queued", "open", "closed"}, gone : BOOLEAN, buf : 0..SndMax, in : Seq(Item),
              pieces : Nat, asked : Nat, pings : Nat, last : Item \cup {None}, head : H ]
  <2>1. <<>> \in Seq(Item)
    OBVIOUS
  <2> DEFINE e == <<>>
  <2>2. e \in Seq(Item)
    BY <2>1
  <2> HIDE DEF e
  <2>3. [k EXCEPT !.in = e] \in
             [ at : {"new", "queued", "open", "closed"}, gone : BOOLEAN, buf : 0..SndMax, in : Seq(Item),
              pieces : Nat, asked : Nat, pings : Nat, last : Item \cup {None}, head : H ]
    BY <1>1, <2>2
  <2> QED BY <2>3 DEF e
<1>3. Len(k.in) \in Nat
  <2>1. k.in \in Seq(Item)
    BY <1>1
  <2> QED BY <2>1
<1>4. /\ [k EXCEPT !.in = <<>>].at = k.at /\ [k EXCEPT !.in = <<>>].head = k.head /\ [k EXCEPT !.in = <<>>].asked = k.asked
      /\ [k EXCEPT !.in = <<>>].pings = k.pings /\ [k EXCEPT !.in = <<>>].last = k.last /\ [k EXCEPT !.in = <<>>].in = <<>>
  BY <1>1
<1> QED BY <1>2, <1>3, <1>4 DEF SockType, H

\* The page that was there is told, or not: its wire stays sound.
LEMMA ToldIsSound ==
  ASSUME NetInv, NEW told, told = (IF CanBeTold(conn["web"]) THEN [wire EXCEPT ![conn["web"].sock] = Put(@, Replaced)] ELSE wire),
         conn["web"].sock # None
  PROVE  /\ told \in [Sock -> WireType] /\ told[conn["web"].sock].whole /\ told[conn["web"].sock].ordered
         /\ \A t \in Sock : t # conn["web"].sock => told[t] = wire[t]
<1> DEFINE x == conn["web"]
           s == x.sock
           w == wire[s]
           v == Put(w, Replaced)
<1>1. s \in Sock /\ wire \in [Sock -> WireType] /\ w \in WireType /\ x \in ConnType
  BY SocketsAre DEF Slot
<1>2. Good(w, x)
  BY DEF NetInv, Served, Fine, Slot
<1>3. CASE CanBeTold(x)
  <2>1. w.whole /\ w.ordered /\ w.half = <<>>
    BY <1>1, <1>2, <1>3, EmptyQueue DEF CanBeTold
  <2>2. w.n \in Nat /\ w.k \in Nat /\ w.pongs \in Nat
    BY <1>1 DEF WireType
  <2>3. v = [half |-> <<>>, n |-> w.n, k |-> w.k, pongs |-> w.pongs, whole |-> TRUE, ordered |-> TRUE]
    <3>1. Replaced[1] = 0 /\ Replaced[3] = 0 /\ Replaced # <<0, 0, 2>>
      BY DEF Replaced
    <3>2. w.whole = TRUE /\ w.ordered = TRUE
      BY <2>1, <1>1 DEF WireType
    <3> DEFINE u == Replaced
    <3>3. u[1] = 0 /\ u[3] = 0 /\ u # <<0, 0, 2>>
      BY <3>1
    <3> HIDE DEF u
    <3>4. Put(w, u) = [half |-> <<>>, n |-> w.n, k |-> w.k, pongs |-> w.pongs, whole |-> TRUE, ordered |-> TRUE]
      <4>1. (u[1] # 0 /\ u[3] = 2) = FALSE /\ (IF w.half = <<>> THEN u[3] # 2 ELSE u = <<w.half[1], w.half[2], 2>>) = TRUE
        BY <3>3, <2>1
      <4>2. (u[3] = 1) = FALSE /\ (u = <<0, 0, 2>>) = FALSE
        BY <3>3
      <4> QED BY ONLY <4>1, <4>2, <3>2 DEF Put
    <3> QED BY <3>4 DEF u
  <2>4. v \in WireType /\ v.whole /\ v.ordered
    BY <2>2, <2>3 DEF WireType
  <2>5. told = [wire EXCEPT ![s] = v]
    BY <1>3
  <2> HIDE DEF v
  <2> QED BY <1>1, <2>4, <2>5
<1>4. CASE ~CanBeTold(x)
  BY <1>1, <1>4 DEF NetInv, StreamIntact
<1> QED BY <1>3, <1>4

\* upgrade_to_ws: the page is on a socket that is as new and whose head was accepted.
LEMMA UpgradeKeepsNet ==
  ASSUME NetInv, NEW i \in 1..HttpSlots, http[i].sock # None, Status(sock[http[i].sock].head) = 101, Upgrade(i),
         UNCHANGED backlog
  PROVE  NetInv'
<1> USE DEF Slot
<1> DEFINE s == http[i].sock
           old == conn["web"].sock
           late == sock[s].head.more
           told == IF CanBeTold(conn["web"]) THEN [wire EXCEPT ![conn["web"].sock] = Put(@, Replaced)] ELSE wire
           sk == IF old = None THEN sock ELSE Shut(sock, old)
           k == [sock[s] EXCEPT !.in = <<>>]
           z(t) == [NewSock EXCEPT !.at = "closed", !.head = sock[t].head]
           y == [NewWire EXCEPT !.whole = told[old].whole, !.ordered = told[old].ordered]
<1>1. /\ conn \in [Slot -> ConnType] /\ http \in [1..HttpSlots -> HttpType] /\ backlog \in [Slot -> Seq(Sock)]
      /\ sock \in [Sock -> SockType] /\ wire \in [Sock -> WireType] /\ None \notin Sock
      /\ \A c \in Slot : conn[c].sock \in Sock \cup {None}
      /\ \A j \in 1..HttpSlots : http[j].sock \in WebSock \cup {None}
      /\ s \in WebSock /\ s \in Sock /\ old \in Sock \cup {None} /\ RawSock \cap WebSock = {}
  BY SocketsAre
<1>2. /\ sock[s].at = "open" /\ s # old /\ conn["raw"].sock # s
      /\ \A j \in 1..HttpSlots : http[j].sock = s => j = i
      /\ \A j \in 1..HttpSlots : http[j].sock = old => old = None
      /\ \A d \in Slot : \A j \in 1..Len(backlog[d]) : backlog[d][j] # s /\ (old # None => backlog[d][j] # old)
      /\ conn["raw"].sock = old => old = None
  <2>1. s # None
    OBVIOUS
  <2>2. sock[s].at = "open" /\ s # old /\ conn["raw"].sock # s
    BY OnePlace, <2>1
  <2>3. /\ \A j \in 1..HttpSlots : http[j].sock = s => j = i
        /\ \A j \in 1..HttpSlots : http[j].sock = old => old = None
    BY OnePlace, <2>1
  <2>4. \A d \in Slot : \A j \in 1..Len(backlog[d]) : backlog[d][j] # s /\ (old # None => backlog[d][j] # old)
    BY OnePlace, <2>1
  <2>5. conn["raw"].sock = old => old = None
    BY OnePlace
  <2> QED BY <2>2, <2>3, <2>4, <2>5
<1>3. /\ sock' = (IF late THEN Shut(sk, s) ELSE [sk EXCEPT ![s].in = <<>>])
      /\ wire' = (IF old = None THEN wire ELSE Forget(told, old))
      /\ conn' = [conn EXCEPT !["web"] = IF late THEN NoConn ELSE [NoConn EXCEPT !.sock = s]]
      /\ http' = [http EXCEPT ![i] = NoHttp]
  BY DEF Upgrade
<1>4. /\ wire[s] = NewWire /\ sock[s].asked = 0 /\ sock[s].pings = 0 /\ sock[s].last \in {None, "piece"}
  BY <1>1, <1>2 DEF NetInv, Fresh
<1>5. k \in SockType /\ k.at = "open" /\ k.head = sock[s].head /\ k.in = <<>> /\ k.asked = 0 /\ k.pings = 0 /\ k.last \in {None, "piece"}
  <2>1. sock[s] \in SockType
    BY <1>1
  <2> QED BY <1>2, <1>4, <2>1, ReadIsTyped
<1>6. old # None => /\ told \in [Sock -> WireType] /\ told[old].whole /\ told[old].ordered
                    /\ \A t \in Sock : t # old => told[t] = wire[t]
  BY ToldIsSound
<1>7. \A t \in Sock : z(t) \in SockType /\ z(t).at = "closed"
  <2>1. \A t \in Sock : sock[t] \in SockType
    BY <1>1
  <2> QED BY Zenon, <2>1, NewIsTyped DEF NewSock
<1>8. old # None => y \in WireType /\ y.whole /\ y.ordered
  <2>1. old # None => told[old] \in WireType /\ told[old].whole /\ told[old].ordered
    BY <1>1, <1>6
  <2> QED BY Zenon, <2>1, NewIsTyped DEF NewWire
<1>9. sk = (IF old = None THEN sock ELSE [sock EXCEPT ![old] = z(old)])
  BY DEF Shut
<1>10. wire' = (IF old = None THEN wire ELSE [told EXCEPT ![old] = y])
  BY <1>3 DEF Forget
<1>11. http' \in [1..HttpSlots -> HttpType] /\ \A j \in 1..HttpSlots : http'[j].sock # None => http'[j] = http[j] /\ http[j].sock # s /\ j # i
  <2>1. NoHttp \in HttpType /\ NoHttp.sock = None
    BY Zenon, NewIsTyped DEF NoHttp
  <2> QED BY <1>1, <1>2, <1>3, <2>1
<1> HIDE DEF z, y, k, sk, s, old, told, late
<1>12. /\ sk \in [Sock -> SockType] /\ sk[s] = sock[s] /\ (old # None => sk[old] = z(old))
       /\ \A t \in Sock : t # old => sk[t] = sock[t]
  BY <1>1, <1>2, <1>7, <1>9
<1>13. /\ wire' \in [Sock -> WireType] /\ wire'[s] = NewWire /\ (old # None => wire'[old].whole /\ wire'[old].ordered)
       /\ \A t \in Sock : t # s /\ t # old => wire'[t] = wire[t]
  BY <1>1, <1>2, <1>4, <1>6, <1>8, <1>10
<1>14. CASE ~late
  <2>1. sock' = [sk EXCEPT ![s] = k]
    BY <1>3, <1>12, <1>14 DEF k
  <2>2. /\ sock' \in [Sock -> SockType] /\ sock'[s] = k /\ (old # None => sock'[old].at = "closed")
        /\ \A t \in Sock : t # s /\ t # old => sock'[t] = sock[t]
    BY <1>1, <1>2, <1>5, <1>7, <1>12, <2>1
  <2>3. conn' = [conn EXCEPT !["web"] = [NoConn EXCEPT !.sock = s]]
    BY <1>3, <1>14
  <2>4. backlog' \in [Slot -> Seq(Sock)] /\ \A d \in Slot : Waits(backlog'[d], backlog[d], {s})
    BY <1>1, <1>2 DEF Waits
  <2>5. s \in (IF "web" = "raw" THEN RawSock ELSE WebSock)
    BY <1>1
  <2>6. Status(k.head) = 101
    BY <1>5 DEF s
  <2>7. old = conn["web"].sock
    BY DEF old
  <2>8. \A j \in 1..HttpSlots : http'[j].sock # None => http'[j] = http[j] /\ http[j].sock # s
    BY <1>11
  <2>9. sock[s].at \in {"queued", "open"}
    BY <1>2
  <2>10. Comes("web", old, s, k)
    BY ONLY <1>2, <1>4, <1>5, <1>11, <1>13, <2>2, <2>3, <2>4, <2>5, <2>6, <2>7, <2>8, <2>9 DEF Comes
  <2> QED BY <2>10, ClientComes
<1>15. CASE late
  <2> DEFINE ss == {s, old} \ {None}
  <2>1. ss \subseteq Sock /\ s \in ss /\ \A t \in ss : t = s \/ (t = old /\ old # None)
    BY <1>1
  <2>2. conn' = [d \in Slot |-> IF conn[d].sock \in ss THEN NoConn ELSE conn[d]]
    <3>1. conn["web"].sock = None => conn["web"] = NoConn
      BY DEF NetInv, Places
    <3>2. conn["raw"].sock \notin ss /\ (conn["web"].sock # None => conn["web"].sock \in ss)
      BY <1>1, <1>2 DEF old
    <3>3. conn["web"].sock = None => conn["web"].sock \notin ss
      OBVIOUS
    <3>4. conn' = [conn EXCEPT !["web"] = NoConn]
      BY <1>3, <1>15
    <3>5. \A d \in Slot : conn'[d] = IF conn[d].sock \in ss THEN NoConn ELSE conn[d]
      BY ONLY <1>1, <3>1, <3>2, <3>3, <3>4, Slot = {"raw", "web"}
    <3> QED BY ONLY <1>1, <3>4, <3>5
  <2>3. sock' = [sk EXCEPT ![s] = z(s)]
    BY <1>3, <1>12, <1>15 DEF Shut, z
  <2>4. sock' = [t \in Sock |-> IF t \in ss THEN z(t) ELSE sock[t]]
    <3>1. \A t \in Sock : sock'[t] = IF t \in ss THEN z(t) ELSE sock[t]
      BY <1>1, <1>2, <1>12, <2>1, <2>3
    <3>2. sock' \in [Sock -> SockType]
      BY <1>1, <1>7, <1>12, <2>3
    <3> QED BY <3>1, <3>2
  <2>5. \A t \in Sock : IF t \in ss THEN wire'[t].whole /\ wire'[t].ordered ELSE wire'[t] = wire[t]
    <3>1. NewWire.whole /\ NewWire.ordered
      BY DEF NewWire
    <3> QED BY <1>1, <1>13, <3>1
  <2>6. \A j \in 1..HttpSlots : http'[j].sock # None => http'[j] = http[j] /\ http[j].sock \notin ss
    <3> SUFFICES ASSUME NEW j \in 1..HttpSlots, http'[j].sock # None PROVE http'[j] = http[j] /\ http[j].sock \notin ss
      OBVIOUS
    <3>1. http'[j] = http[j] /\ http[j].sock # s
      BY <1>11
    <3>2. http[j].sock = old => old = None
      BY <1>2
    <3> QED BY <3>1, <3>2
  <2>7. backlog' \in [Slot -> Seq(Sock)] /\ \A d \in Slot : Waits(backlog'[d], backlog[d], ss)
    <3>1. \A d \in Slot : \A j \in 1..Len(backlog[d]) : backlog[d][j] \notin ss
      BY <1>2, <2>1
    <3> QED BY <1>1, <3>1 DEF Waits
  <2> HIDE DEF ss
  <2>8. Drops(ss)
    BY Zenon, <1>11, <1>13, <2>2, <2>4, <2>5, <2>6, <2>7 DEF Drops, z
  <2> QED BY <2>1, <2>8, DropsKeepNet
<1> QED BY <1>14, <1>15

\* http_on_readable, whatever the head.
LEMMA HttpReceiveKeepsNet ==
  ASSUME NetInv, HttpReceive, todo[1] \in TaskType
  PROVE  NetInv'
<1> DEFINE i == todo[1][2]
           s == http[i].sock
           got == http[i].got + Len(sock[s].in)
           status == Status(sock[s].head)
           resp == IF status = 200 /\ sock[s].head.method = "GET" THEN SndMax + 1 ELSE 1
           k == [sock[s] EXCEPT !.in = <<>>]
<1>1. i \in 1..HttpSlots
  BY Zenon, TaskIs DEF HttpReceive, Task
<1>2. /\ http \in [1..HttpSlots -> HttpType] /\ sock \in [Sock -> SockType] /\ http[i] \in HttpType
      /\ s \in Sock \cup {None}
  BY <1>1, SocketsAre
<1>3. UNCHANGED backlog
  BY Zenon DEF HttpReceive
<1>4. CASE UNCHANGED <<conn, http, sock, wire>>
  BY <1>3, <1>4, NothingMoves
<1>5. CASE s # None /\ CloseHttp(i) /\ UNCHANGED <<conn, wire>>
  BY <1>1, <1>3, <1>5, ExchangeGoes
<1>6. CASE s # None /\ status = 101 /\ Upgrade(i)
  BY <1>1, <1>3, <1>6, UpgradeKeepsNet
<1>7. ASSUME s # None, NEW e \in HttpType, e.sock = s, http' = [http EXCEPT ![i] = e], sock' = [sock EXCEPT ![s].in = <<>>],
             UNCHANGED <<conn, wire>>
      PROVE  NetInv'
  <2>1. s \in Sock
    BY <1>2, <1>7
  <2>2. sock' = [sock EXCEPT ![s] = k]
    BY <1>2, <1>7, <2>1
  <2>3. k \in SockType /\ k.at = sock[s].at /\ k.head = sock[s].head /\ k.asked = sock[s].asked /\ k.pings = sock[s].pings /\ k.last = sock[s].last
    <3>1. sock[s] \in SockType
      BY <1>2, <2>1
    <3> QED BY <3>1, ReadIsTyped
  <2>4. http' \in [1..HttpSlots -> HttpType] /\ \A j \in 1..HttpSlots : http'[j].sock = http[j].sock
    BY <1>1, <1>2, <1>7
  <2>5. \A c \in Slot : conn[c].sock # s
    BY <1>1, <1>7, OnePlace
  <2> HIDE DEF k, s
  <2> QED BY <1>3, <1>7, <2>1, <2>2, <2>3, <2>4, <2>5, OtherMoves
<1>8. CASE s # None /\ got < 2 /\ http' = [http EXCEPT ![i].got = got] /\ sock' = [sock EXCEPT ![s].in = <<>>] /\ UNCHANGED <<conn, wire>>
  <2> DEFINE e == [http[i] EXCEPT !.got = got]
  <2>1. got \in Nat
    <3>1. sock[s] \in SockType
      BY <1>2, <1>8
    <3>2. Len(sock[s].in) \in Nat
      BY <3>1, ReadIsTyped
    <3>3. http[i].got \in Nat
      BY <1>2 DEF HttpType
    <3> HIDE DEF s
    <3> QED BY <3>2, <3>3
  <2> HIDE DEF got
  <2>2. e \in HttpType /\ e.sock = s
    BY <1>2, <2>1 DEF HttpType
  <2>3. http' = [http EXCEPT ![i] = e]
    BY <1>1, <1>2, <1>8
  <2> HIDE DEF e, s
  <2> QED BY <1>7, <1>8, <2>2, <2>3
<1>9. CASE s # None /\ http' = [http EXCEPT ![i].got = got, ![i].resp = resp] /\ sock' = [sock EXCEPT ![s].in = <<>>] /\ UNCHANGED <<conn, wire>>
  <2> DEFINE e == [http[i] EXCEPT !.got = got, !.resp = resp]
  <2>1. got \in Nat /\ resp \in Nat
    <3>1. sock[s] \in SockType
      BY <1>2, <1>9
    <3>2. Len(sock[s].in) \in Nat
      BY <3>1, ReadIsTyped
    <3>3. http[i].got \in Nat
      BY <1>2 DEF HttpType
    <3>4. got \in Nat
      <4> HIDE DEF s
      <4> QED BY <3>2, <3>3
    <3>5. resp \in Nat
      BY ServerAssumption
    <3> QED BY <3>4, <3>5
  <2> HIDE DEF got, resp
  <2>2. e \in HttpType /\ e.sock = s
    BY <1>2, <2>1 DEF HttpType
  <2>3. http' = [http EXCEPT ![i] = e]
    BY Zenon, <1>1, <1>2, <1>9
  <2> HIDE DEF e, s
  <2> QED BY <1>7, <1>9, <2>2, <2>3
<1>10. \/ UNCHANGED <<conn, http, sock, wire>>
       \/ s # None /\ CloseHttp(i) /\ UNCHANGED <<conn, wire>>
       \/ s # None /\ status = 101 /\ Upgrade(i)
       \/ s # None /\ got < 2 /\ http' = [http EXCEPT ![i].got = got] /\ sock' = [sock EXCEPT ![s].in = <<>>] /\ UNCHANGED <<conn, wire>>
       \/ s # None /\ http' = [http EXCEPT ![i].got = got, ![i].resp = resp] /\ sock' = [sock EXCEPT ![s].in = <<>>] /\ UNCHANGED <<conn, wire>>
  BY Zenon DEF HttpReceive
<1> QED BY Zenon, <1>4, <1>5, <1>6, <1>8, <1>9, <1>10

-----------------------------------------------------------------------------
(***************************************************************************)
(* The page's pipe, and input.                                             *)
(***************************************************************************)
\* What is known of a socket whose client has it is known of it with other bytes in its buffer.
LEMMA LineSame ==
  ASSUME NEW x, NEW k, NEW w, NEW y, NEW m, NEW v, NEW p, Line(x, k, w, p),
         m.asked = k.asked, m.last = k.last, m.pings = k.pings,
         y.handled = x.handled, y.stream = x.stream, y.pend = x.pend, y.dec = x.dec,
         x.out = <<>> => y.out = <<>>, x.ctl = <<>> => y.ctl = <<>>,
         Asks(p) > 0 => v.half = <<>>, Debt(v, y.ctl) = Debt(w, x.ctl)
  PROVE  Line(y, m, v, p)
BY DEF Line

\* A socket with other bytes in its buffer.
LEMMA BufTyped ==
  ASSUME NEW k \in SockType, NEW b \in 0..SndMax, NEW m, m = [k EXCEPT !.buf = b]
  PROVE  /\ m \in SockType /\ m.at = k.at /\ m.gone = k.gone /\ m.in = k.in /\ m.pieces = k.pieces /\ m.asked = k.asked
         /\ m.pings = k.pings /\ m.last = k.last /\ m.head = k.head
<1> DEFINE H == {None} \cup UNION {Heads[t] : t \in WebSock}
<1>1. k \in [ at : {"new", "queued", "open", "closed"}, gone : BOOLEAN, buf : 0..SndMax, in : Seq(Item),
              pieces : Nat, asked : Nat, pings : Nat, last : Item \cup {None}, head : H ]
  BY DEF SockType
<1> HIDE DEF H
<1>2. m \in [ at : {"new", "queued", "open", "closed"}, gone : BOOLEAN, buf : 0..SndMax, in : Seq(Item),
              pieces : Nat, asked : Nat, pings : Nat, last : Item \cup {None}, head : H ]
  BY <1>1
<1>3. /\ m.at = k.at /\ m.gone = k.gone /\ m.in = k.in /\ m.pieces = k.pieces /\ m.asked = k.asked
      /\ m.pings = k.pings /\ m.last = k.last /\ m.head = k.head
  BY <1>1
<1> QED BY <1>2, <1>3 DEF SockType, H

\* A client that sent what its socket takes.
LEMMA FineSent ==
  ASSUME Wiring, NEW c \in Slot, NEW x, NEW s \in Sock, x.sock = s, Fine(c, x, sock[s], wire[s]),
         NEW k, k = [sock[s] EXCEPT !.buf = @ + Sends(x)], NEW v, Is(v, OnWire(x)[s]), NEW y, Is(y, Rest(x))
  PROVE  /\ Fine(c, y, k, v) /\ y.sock = s /\ k.at = sock[s].at /\ k.head = sock[s].head
         /\ OnWire(x) = [wire EXCEPT ![s] = v] /\ v \in WireType
<1> USE DEF Is
<1> DEFINE w == wire[s]
<1>1. x \in ConnType /\ sock[s] \in SockType /\ w \in WireType /\ Good(w, x) /\ (x.stream > 0 => x.handled > 0)
  BY DEF Fine
<1>2. /\ OnWire(x) = [wire EXCEPT ![s] = v] /\ v \in WireType
      /\ y \in ConnType /\ Good(v, y) /\ Debt(v, y.ctl) = Debt(w, x.ctl)
      /\ y.sock = x.sock /\ y.in = x.in /\ y.used = x.used /\ y.pend = x.pend /\ y.dec = x.dec
      /\ y.closing = x.closing /\ y.stream = x.stream /\ y.handled = x.handled
      /\ (x.out = <<>> => y.out = <<>>) /\ (x.ctl = <<>> => y.ctl = <<>>)
  BY <1>1, SendsKeepGood
<1>3. /\ k \in SockType /\ k.at = sock[s].at /\ k.in = sock[s].in /\ k.asked = sock[s].asked
      /\ k.pings = sock[s].pings /\ k.last = sock[s].last /\ k.head = sock[s].head
  <2> DEFINE b == sock[s].buf + Sends(x)
  <2>1. b \in 0..SndMax
    BY <1>1, SendsIs
  <2>2. k = [sock[s] EXCEPT !.buf = b]
    BY <1>1
  <2> HIDE DEF b
  <2> QED BY <1>1, <2>1, <2>2, BufTyped
<1> HIDE DEF Is
<1>4. c = "web" => Line(y, k, v, Pipe(y, k))
  <2> SUFFICES ASSUME c = "web" PROVE Line(y, k, v, Pipe(y, k))
    OBVIOUS
  <2> DEFINE p == Pipe(x, sock[s])
             k0 == sock[s]
  <2>1. Line(x, k0, w, p)
    BY DEF Fine
  <2>2. Pipe(y, k) = p
    BY <1>2, <1>3 DEF Pipe, Pend
  <2>3. Asks(p) > 0 => v.half = <<>>
    <3> SUFFICES ASSUME Asks(p) > 0 PROVE v.half = <<>>
      OBVIOUS
    <3>1. x.out = <<>> /\ x.ctl = <<>>
      BY <2>1 DEF Line
    <3> QED BY <1>2, <3>1, EmptyQueue
  <2>4. k.asked = k0.asked /\ k.last = k0.last /\ k.pings = k0.pings
    BY <1>3
  <2> HIDE DEF p, w, k0
  <2>5. Line(y, k, v, p)
    BY ONLY <1>2, <2>1, <2>3, <2>4, LineSame
  <2> QED BY <2>2, <2>5
<1>5. c # "web" => y.ctl = <<>> /\ y.closing = FALSE /\ y.pend = None
  BY <1>2 DEF Fine
<1> QED BY <1>1, <1>2, <1>3, <1>4, <1>5 DEF Fine

\* Client c is in state x and flushes.
LEMMA FlushKeepsNet ==
  ASSUME NetInv, NEW c \in Slot, NEW s, s = conn[c].sock, s # None,
         NEW x, x.sock = s, Fine(c, x, sock[s], wire[s]), NEW next, Flush(c, x, next), UNCHANGED <<http, backlog>>
  PROVE  NetInv'
<1>1. s \in Sock /\ Wiring /\ sock[s].at = "open" /\ wire \in [Sock -> WireType] /\ sock \in [Sock -> SockType]
  BY SocketsAre, OnePlace DEF Wiring
<1> DEFINE k == [sock[s] EXCEPT !.buf = @ + Sends(x)]
           v == OnWire(x)[s]
           y == Rest(x)
<1>2. /\ Fine(c, y, k, v) /\ y.sock = s /\ k.at = sock[s].at /\ k.head = sock[s].head
      /\ OnWire(x) = [wire EXCEPT ![s] = v] /\ v \in WireType
  BY <1>1, FineSent DEF Is
<1>3. v.whole /\ v.ordered
  BY <1>2, GoodIsSound DEF Fine
<1>4. CASE Fails(x)
  <2>1. Closed(c, wire)
    BY <1>4 DEF Flush, Close
  <2> QED BY <1>1, <2>1, ClientGoes DEF NetInv, StreamIntact
<1>5. CASE ~Fails(x) /\ Closes(x)
  <2> DEFINE w == OnWire(x)
  <2>1. Closed(c, w)
    BY <1>5 DEF Flush
  <2>2. w \in [Sock -> WireType] /\ w[s].whole /\ w[s].ordered /\ \A t \in Sock : t # s => w[t] = wire[t]
    BY <1>1, <1>2, <1>3
  <2> HIDE DEF w
  <2> QED BY <2>1, <2>2, ClientGoes
<1>6. CASE ~Fails(x) /\ ~Closes(x)
  <2>1. conn' = [conn EXCEPT ![c] = y] /\ sock' = [sock EXCEPT ![s].buf = @ + Sends(x)] /\ wire' = OnWire(x)
    BY <1>6 DEF Flush
  <2>2. sock' = [sock EXCEPT ![s] = k]
    BY <1>1, <2>1
  <2>3. wire' = [wire EXCEPT ![s] = v]
    BY <1>2, <2>1
  <2>4. k.at = "open" /\ k.head = sock[s].head /\ conn' = [conn EXCEPT ![c] = y] /\ y.sock = s
    BY <1>1, <1>2, <2>1
  <2> HIDE DEF y, k, v
  <2> QED BY <1>2, <2>2, <2>3, <2>4, ClientMoves
<1> QED BY <1>4, <1>5, <1>6

\* The first of a pipe, and what follows it.
LEMMA FirstOf ==
  ASSUME NEW T, NEW a \in Seq(T), NEW b \in Seq(T), a # <<>>
  PROVE  /\ a \o b \in Seq(T) /\ a \o b # <<>> /\ (a \o b)[1] = Head(a) /\ Tail(a) \in Seq(T) /\ Head(a) \in T
         /\ Tail(a \o b) = Tail(a) \o b
<1>1. /\ Len(a) \in Nat \ {0} /\ a \o b \in Seq(T) /\ Len(a \o b) = Len(a) + Len(b)
      /\ \A i \in 1..Len(a) + Len(b) : (a \o b)[i] = IF i <= Len(a) THEN a[i] ELSE b[i - Len(a)]
  BY ConcatProperties
<1>2. /\ Tail(a) \in Seq(T) /\ Len(Tail(a)) = Len(a) - 1 /\ \A i \in 1..Len(Tail(a)) : Tail(a)[i] = a[i + 1]
      /\ Head(a) = a[1] /\ Head(a) \in T
  BY HeadTailProperties
<1>3. /\ Tail(a) \o b \in Seq(T) /\ Len(Tail(a) \o b) = Len(Tail(a)) + Len(b)
      /\ \A i \in 1..Len(Tail(a)) + Len(b) : (Tail(a) \o b)[i] = IF i <= Len(Tail(a)) THEN Tail(a)[i] ELSE b[i - Len(Tail(a))]
  BY <1>2, ConcatProperties
<1>4. a \o b # <<>> /\ Len(b) \in Nat /\ (a \o b)[1] = a[1]
  BY <1>1
<1>5. /\ Tail(a \o b) \in Seq(T) /\ Len(Tail(a \o b)) = Len(a \o b) - 1
      /\ \A i \in 1..Len(Tail(a \o b)) : Tail(a \o b)[i] = (a \o b)[i + 1]
  BY <1>1, <1>4, HeadTailProperties
<1>6. Len(Tail(a \o b)) = Len(Tail(a) \o b)
  BY <1>1, <1>2, <1>3, <1>4, <1>5
<1>7. ASSUME NEW i \in 1..Len(Tail(a \o b)) PROVE Tail(a \o b)[i] = (Tail(a) \o b)[i]
  <2>1. i + 1 \in 1..Len(a) + Len(b) /\ i \in 1..Len(Tail(a)) + Len(b) /\ i \in Nat
    BY <1>1, <1>2, <1>4, <1>5
  <2>2. CASE i <= Len(Tail(a))
    <3>1. i + 1 <= Len(a) /\ i \in 1..Len(Tail(a))
      BY <1>1, <1>2, <2>1, <2>2
    <3> QED BY <1>1, <1>2, <1>3, <1>5, <2>1, <2>2, <3>1
  <2>3. CASE ~(i <= Len(Tail(a)))
    <3>1. ~(i + 1 <= Len(a)) /\ (i + 1) - Len(a) = i - Len(Tail(a))
      BY <1>1, <1>2, <2>1, <2>3
    <3> QED BY <1>1, <1>3, <1>5, <2>1, <2>3, <3>1
  <2> QED BY <2>2, <2>3
<1>8. Tail(a \o b) = Tail(a) \o b
  BY <1>3, <1>5, <1>6, <1>7, SeqEqual
<1> QED BY <1>1, <1>2, <1>4, <1>8

\* The pipe is a sequence; what is taken from it is its first.
LEMMA PipeIs ==
  ASSUME NEW x \in ConnType, NEW k \in SockType
  PROVE  /\ Pipe(x, k) \in Seq(Item) /\ x.in \in Seq(Item) /\ k.in \in Seq(Item)
         /\ x.pend # None => Pipe(x, k) # <<>> /\ Pipe(x, k)[1] = x.pend /\ Tail(Pipe(x, k)) = x.in \o k.in
         /\ x.pend = None => Pipe(x, k) = x.in \o k.in
         /\ x.pend = None /\ x.in # <<>> => Pipe(x, k) # <<>> /\ Pipe(x, k)[1] = Head(x.in) /\ Tail(Pipe(x, k)) = Tail(x.in) \o k.in
<1> DEFINE a == x.in
           b == k.in
           u == x.pend
<1>1. a \in Seq(Item) /\ b \in Seq(Item) /\ u \in Item \cup {None}
  BY DEF ConnType, SockType
<1>2. Pipe(x, k) = ((IF u = None THEN <<>> ELSE <<u>>) \o a) \o b
  BY DEF Pipe, Pend
<1> DEFINE q == Pipe(x, k)
<1> HIDE DEF a, b, u, q
<1>3. CASE u = None
  <2>1. q = a \o b
    <3>1. <<>> \o a = a
      BY <1>1
    <3> QED BY <1>2, <1>3, <3>1 DEF q
  <2>2. a # <<>> => q \in Seq(Item) /\ q # <<>> /\ q[1] = Head(a) /\ Tail(q) = Tail(a) \o b
    BY <1>1, <2>1, FirstOf
  <2>3. q \in Seq(Item)
    BY <1>1, <2>1
  <2> QED BY <1>1, <1>3, <2>1, <2>2, <2>3 DEF a, b, u, q
<1>4. CASE u # None
  <2> DEFINE e == <<u>>
  <2>1. e \in Seq(Item) /\ e # <<>> /\ Head(e) = u /\ Tail(e) = <<>>
    BY <1>1, <1>4
  <2>2. q = (e \o a) \o b
    BY <1>2, <1>4 DEF q
  <2>3. e \o a \in Seq(Item) /\ e \o a # <<>> /\ (e \o a)[1] = u /\ Tail(e \o a) = <<>> \o a
    <3> HIDE DEF e
    <3> QED BY Zenon, <1>1, <2>1, FirstOf
  <2>4. Tail(e \o a) = a
    <3>1. <<>> \o a = a
      BY <1>1
    <3> QED BY <2>3, <3>1
  <2> DEFINE c == e \o a
  <2>5. c \in Seq(Item) /\ c # <<>> /\ c[1] = u /\ Tail(c) = a /\ q = c \o b
    BY <2>2, <2>3, <2>4
  <2> HIDE DEF c, e
  <2>6. q \in Seq(Item) /\ q # <<>> /\ q[1] = Head(c) /\ Tail(q) = Tail(c) \o b
    BY <1>1, <2>5, FirstOf
  <2>7. Head(c) = c[1]
    BY <2>5
  <2> QED BY <1>1, <1>4, <2>5, <2>6, <2>7 DEF a, b, u, q
<1> QED BY <1>3, <1>4

\* The page asked one thing, perhaps in two parts; the rest are pings and its last word.
LEMMA PopAsk ==
  ASSUME NEW p \in Seq(Item), Shape(p), p # <<>>, p[1] \in Ask, NEW r, Is(r, Tail(p))
  PROVE  /\ r \in Seq(Item) /\ Shape(r) /\ Len(r) = Len(p) - 1 /\ Len(p) \in Nat \ {0}
         /\ Asks(p) = Asks(r) + 1 /\ Asks(r) \in {0, 1}
         /\ Asks(r) = 1 => p[1] = "part" /\ r # <<>> /\ r[1] = "rest" /\ p[Asks(p)] = r[Asks(r)]
         /\ Asks(r) = 0 => p[Asks(p)] = p[1]
         /\ \A i \in 1..Len(r) : r[i] = p[i + 1]
<1> USE DEF Is
<1>1. /\ Len(p) \in Nat \ {0} /\ r \in Seq(Item) /\ Len(r) = Len(p) - 1 /\ Len(r) \in Nat
      /\ \A i \in 1..Len(r) : r[i] = p[i + 1]
  OBVIOUS
<1> HIDE DEF Is
<1>2. /\ \A i \in 1..Len(p) : p[i] \in Ask \cup Final \cup {"ping"}
      /\ \A i \in 1..Len(p) : p[i] \in Final => i = Len(p)
      /\ \A i \in 1..Len(p) : p[i] \in Ask => i = 1 \/ (i = 2 /\ p[1] = "part" /\ p[2] = "rest")
  BY DEF Shape
<1>3. Shape(r)
  <2> SUFFICES ASSUME NEW i \in 1..Len(r)
      PROVE /\ r[i] \in Ask \cup Final \cup {"ping"}
            /\ r[i] \in Final => i = Len(r)
            /\ r[i] \in Ask => i = 1 \/ (i = 2 /\ r[1] = "part" /\ r[2] = "rest")
    BY DEF Shape
  <2>1. i + 1 \in 1..Len(p) /\ r[i] = p[i + 1] /\ (i + 1 = Len(p) => i = Len(r)) /\ i + 1 # 1 /\ (i + 1 = 2 => i = 1)
    BY <1>1
  <2> QED BY <1>2, <2>1
<1>4. CASE Len(p) = 1
  <2>1. r = <<>> /\ Asks(r) = 0 /\ Asks(p) = 1
    BY <1>1, <1>4 DEF Asks
  <2> QED BY <1>1, <1>3, <2>1
<1>5. CASE Len(p) # 1
  <2>1. r # <<>> /\ Len(p) > 1 /\ 2 \in 1..Len(p) /\ r[1] = p[2] /\ 1 \in 1..Len(r)
    BY <1>1, <1>5
  <2>2. CASE p[2] \in Ask
    <3>1. p[1] = "part" /\ p[2] = "rest"
      BY <1>2, <2>1, <2>2
    <3>2. Asks(p) = 2
      BY <1>5, <2>2 DEF Asks
    <3>3. Asks(r) = 1
      <4>1. Len(r) = 1 \/ r[2] \notin Ask
        <5> SUFFICES ASSUME Len(r) # 1 PROVE r[2] \notin Ask
          OBVIOUS
        <5>1. 3 \in 1..Len(p) /\ r[2] = p[3]
          BY <1>1, <2>1
        <5> QED BY <1>2, <5>1
      <4> QED BY <2>1, <2>2, <4>1 DEF Asks
    <3> QED BY <1>1, <1>3, <2>1, <3>1, <3>2, <3>3
  <2>3. CASE p[2] \notin Ask
    <3>1. Asks(p) = 1
      BY <1>5, <2>3 DEF Asks
    <3>2. Asks(r) = 0
      BY <2>1, <2>3 DEF Asks
    <3> QED BY <1>1, <1>3, <3>1, <3>2
  <2> QED BY <2>2, <2>3
<1> QED BY <1>4, <1>5

\* A frame is two halves.
LEMMA FrameTyped == \A n, k \in Nat : Frame(n, k) \in Seq(Half)
BY DEF Frame, Half

\* The answer to a request, once its queue is empty.
Answering(x, n) == [x EXCEPT !.out = Frame(x.handled + 1, n), !.stream = n, !.handled = @ + 1]

\* The wire may be followed by the answer to the next request.
LEMMA AnswerFollows ==
  ASSUME NEW x \in ConnType, NEW w, Good(w, x), x.out = <<>>, x.ctl = <<>>, x.stream = 0, NEW n \in Nat,
         NEW z, Is(z, Answering(x, n))
  PROVE  /\ z \in ConnType /\ Good(w, z) /\ z.handled = x.handled + 1 /\ z.handled > 0 /\ z.stream = n /\ z.ctl = <<>>
         /\ z.sock = x.sock /\ z.in = x.in /\ z.used = x.used /\ z.pend = x.pend /\ z.dec = x.dec /\ z.closing = x.closing
<1> USE DEF Is
<1> DEFINE m == x.handled + 1
           o == Frame(m, n)
<1>1. m \in Nat /\ m # 0 /\ m > 0 /\ x.handled + 1 = m
  BY DEF ConnType
<1>2. o \in Seq(Half)
  BY <1>1, FrameTyped
<1> HIDE DEF m
<1>3. z = [x EXCEPT !.out = o, !.stream = n, !.handled = m]
  BY DEF Answering, ConnType, m
<1>4. o = Frame(m, n)
  OBVIOUS
<1> HIDE DEF o
<1> HIDE DEF Is
<1>5. z \in ConnType
  BY ONLY <1>1, <1>2, <1>3, x \in ConnType, n \in Nat DEF ConnType
<1>6. /\ z.handled = m /\ z.stream = n /\ z.ctl = x.ctl /\ z.out = o
      /\ z.sock = x.sock /\ z.in = x.in /\ z.used = x.used /\ z.pend = x.pend /\ z.dec = x.dec /\ z.closing = x.closing
  BY ONLY <1>3, x \in ConnType DEF ConnType
<1>7. Good(w, z)
  <2>1. z.out = Frame(m, n) /\ z.ctl = <<>> /\ z.handled = m /\ z.stream = n
    BY <1>4, <1>6
  <2>2. (x.handled = m /\ x.stream = n + 1) \/ (x.handled + 1 = m /\ x.stream = 0)
    BY <1>1
  <2> QED BY ONLY <2>1, <2>2, <1>1, <1>5, FrameFollows, x \in ConnType, n \in Nat, Good(w, x), x.out = <<>>, x.ctl = <<>>
<1> QED BY <1>1, <1>5, <1>6, <1>7

\* What the page sent is taken by the agent: the first part of a request, or all of it.
LEMMA PageTakes ==
  ASSUME NEW x, NEW k, NEW w, Fine("web", x, k, w), x.pend # None, NEW y, Is(y, [x EXCEPT !.pend = None])
  PROVE  /\ x.pend \in Ask /\ y \in ConnType /\ y.sock = x.sock /\ y.out = <<>> /\ y.ctl = <<>> /\ y.stream = 0
         /\ x.pend = "part" => Fine("web", y, k, w)
         /\ x.pend # "part" => \A n \in Nat : Fine("web", Answering(y, n), k, w)
<1> USE DEF Is
<1> DEFINE p == Pipe(x, k)
           r == x.in \o k.in
<1>1. x \in ConnType /\ k \in SockType /\ w \in WireType /\ Good(w, x) /\ Line(x, k, w, p)
  BY DEF Fine
<1>2. p \in Seq(Item) /\ p # <<>> /\ p[1] = x.pend /\ Tail(p) = r
  BY <1>1, PipeIs
<1>3. y \in ConnType /\ y.pend = None /\ y.sock = x.sock /\ y.in = x.in /\ y.out = x.out /\ y.ctl = x.ctl
      /\ y.stream = x.stream /\ y.handled = x.handled /\ y.dec = x.dec
  BY <1>1 DEF ConnType
<1> HIDE DEF Is
<1>4. Pipe(y, k) = r
  BY <1>1, <1>3, PipeIs
<1> HIDE DEF p, r
<1>5. x.pend \in Ask /\ Shape(p)
  BY <1>1 DEF Line
<1>6. /\ r \in Seq(Item) /\ Shape(r) /\ Len(r) = Len(p) - 1 /\ Len(p) \in Nat \ {0}
      /\ Asks(p) = Asks(r) + 1 /\ Asks(r) \in {0, 1}
      /\ Asks(r) = 1 => p[1] = "part" /\ r # <<>> /\ r[1] = "rest" /\ p[Asks(p)] = r[Asks(r)]
      /\ Asks(r) = 0 => p[Asks(p)] = p[1]
      /\ \A i \in 1..Len(r) : r[i] = p[i + 1]
  <2>1. r = Tail(p) /\ p[1] \in Ask
    BY <1>2, <1>5
  <2> QED BY ONLY <2>1, <1>2, <1>5, PopAsk DEF Is
<1>7. Asks(p) > 0 /\ Asks(p) \in Nat
  BY <1>6
<1>8. /\ k.asked = x.handled + 1 /\ x.out = <<>> /\ x.stream = 0 /\ x.ctl = <<>> /\ w.half = <<>>
      /\ k.last \notin Final => k.last = p[Asks(p)]
      /\ x.dec = IF x.pend = "part" THEN "message" ELSE "idle"
  BY <1>1, <1>7 DEF Line
<1>9. k.last \notin Final =>
       /\ \A i \in 1..Len(r) : r[i] \notin Final
       /\ Debt(w, x.ctl) + 2 * (Len(r) - Asks(r)) <= 2 * k.pings
  <2> SUFFICES ASSUME k.last \notin Final
      PROVE  (\A i \in 1..Len(r) : r[i] \notin Final) /\ Debt(w, x.ctl) + 2 * (Len(r) - Asks(r)) <= 2 * k.pings
    OBVIOUS
  <2>1. (\A i \in 1..Len(p) : p[i] \notin Final) /\ Debt(w, x.ctl) + 2 * (Len(p) - Asks(p)) <= 2 * k.pings
    BY <1>1 DEF Line
  <2>2. \A i \in 1..Len(r) : i + 1 \in 1..Len(p)
    BY <1>6
  <2>3. Len(p) - Asks(p) = Len(r) - Asks(r)
    BY <1>6
  <2> QED BY <1>6, <2>1, <2>2, <2>3
<1>10. x.handled \in Nat /\ k.asked \in Nat
  BY <1>1 DEF ConnType, SockType
<1>11. ASSUME x.pend = "part" PROVE Fine("web", y, k, w)
  <2>1. Line(y, k, w, r)
    <3>1. y.handled <= k.asked
      BY <1>3, <1>8, <1>10
    <3>2. Asks(r) > 0 /\ k.last \notin Final => k.last = r[Asks(r)]
      BY <1>6, <1>8
    <3>3. IF Asks(r) > 0 THEN y.dec = (IF r[1] = "rest" THEN "message" ELSE "idle")
          ELSE k.last \notin Final => y.dec = (IF k.last = "part" THEN "message" ELSE "idle")
      BY <1>2, <1>3, <1>6, <1>8, <1>11
    <3> QED BY <1>3, <1>6, <1>8, <1>9, <3>1, <3>2, <3>3 DEF Line
  <2>2. Good(w, y)
    BY <1>1, <1>3, GoodSame
  <2> QED BY <1>1, <1>3, <1>4, <1>8, <2>1, <2>2 DEF Fine
<1>12. ASSUME x.pend # "part", NEW n \in Nat PROVE Fine("web", Answering(y, n), k, w)
  <2> DEFINE z == Answering(y, n)
  <2>1. Good(w, y)
    BY <1>1, <1>3, GoodSame
  <2>2. /\ z \in ConnType /\ Good(w, z) /\ z.handled = y.handled + 1 /\ z.handled > 0 /\ z.stream = n /\ z.ctl = <<>>
        /\ z.sock = y.sock /\ z.in = y.in /\ z.used = y.used /\ z.pend = y.pend /\ z.dec = y.dec /\ z.closing = y.closing
    <3>1. Is(z, Answering(y, n))
      BY DEF Is
    <3> HIDE DEF z
    <3> QED BY <1>3, <1>8, <2>1, <3>1, AnswerFollows
  <2> HIDE DEF z
  <2>3. Pipe(z, k) = r
    BY <1>4, <2>2 DEF Pipe, Pend
  <2>4. Asks(r) = 0 /\ (k.last \notin Final => k.last = x.pend)
    BY <1>2, <1>6, <1>8, <1>12
  <2>5. k.last # "part"
    BY <1>12, <2>4 DEF Final
  <2>6. Line(z, k, w, r)
    <3>1. z.handled <= k.asked
      BY <1>3, <1>8, <1>10, <2>2
    <3>2. Debt(w, z.ctl) = Debt(w, x.ctl)
      BY <1>8, <2>2
    <3> QED BY <1>3, <1>6, <1>8, <1>9, <1>12, <2>2, <2>4, <2>5, <3>1, <3>2 DEF Line
  <2> QED BY <1>1, <2>2, <2>3, <2>6 DEF Fine, z
<1> QED BY <1>3, <1>5, <1>8, <1>11, <1>12

\* The agent takes an item: what client c is then, be it without an answer or with one.
LEMMA HandleKeepsNet ==
  ASSUME NetInv, NEW c \in Slot, NEW s, s = conn[c].sock, s # None, NEW x, x.sock = s, NEW item, Handle(c, x, item),
         Decoded(item) = "more" \/ item = "data" => Fine(c, x, sock[s], wire[s]),
         ~(Decoded(item) \in {"more", "error"} \/ item = "data") =>
            \A n \in Nat : Answering(x, n).sock = s /\ Fine(c, Answering(x, n), sock[s], wire[s]),
         UNCHANGED <<http, backlog>>
  PROVE  NetInv'
<1>1. s \in Sock /\ sock[s].at = "open" /\ wire \in [Sock -> WireType] /\ sock \in [Sock -> SockType]
      /\ MaxFrames \in Nat
  BY SocketsAre, OnePlace, ServerAssumption
<1>2. CASE Close(c)
  <2>1. Closed(c, wire)
    BY <1>2 DEF Close
  <2> QED BY <1>1, <2>1, ClientGoes DEF NetInv, StreamIntact
<1>3. CASE /\ Decoded(item) = "more" \/ item = "data"
           /\ conn' = [conn EXCEPT ![c] = x] /\ UNCHANGED <<sock, wire>>
  <2>1. sock' = [sock EXCEPT ![s] = sock[s]] /\ wire' = [wire EXCEPT ![s] = wire[s]]
    BY <1>1, <1>3
  <2> DEFINE k == sock[s]
             v == wire[s]
  <2>2. Fine(c, x, k, v) /\ k.at = "open" /\ k.head = sock[s].head
    BY <1>1, <1>3
  <2>3. conn' = [conn EXCEPT ![c] = x] /\ sock' = [sock EXCEPT ![s] = k] /\ wire' = [wire EXCEPT ![s] = v]
    BY <1>3, <2>1
  <2> HIDE DEF k, v
  <2> QED BY <2>2, <2>3, ClientMoves
<1>4. ASSUME NEW n \in 0..MaxFrames, Flush(c, Answering(x, n), todo), ~(Decoded(item) \in {"more", "error"} \/ item = "data")
      PROVE  NetInv'
  <2>1. n \in Nat
    BY <1>1
  <2> DEFINE z == Answering(x, n)
  <2>2. z.sock = s /\ Fine(c, z, sock[s], wire[s]) /\ Flush(c, z, todo)
    BY <2>1, <1>4
  <2> HIDE DEF z
  <2> QED BY <2>2, FlushKeepsNet
<1>5. \/ Close(c)
      \/ (Decoded(item) = "more" \/ item = "data") /\ conn' = [conn EXCEPT ![c] = x] /\ UNCHANGED <<sock, wire>>
      \/ /\ ~(Decoded(item) \in {"more", "error"} \/ item = "data")
         /\ \E n \in 0..MaxFrames : Flush(c, Answering(x, n), todo)
  <2>1. Decoded(item) \in {"error", "more", "frame"}
    BY DEF Decoded
  <2>2. CASE Decoded(item) = "error"
    BY Zenon, <2>2 DEF Handle
  <2>3. CASE Decoded(item) = "more" \/ item = "data"
    BY Zenon, <2>3 DEF Handle
  <2>4. CASE ~(Decoded(item) \in {"more", "error"} \/ item = "data")
    BY Zenon, <2>4 DEF Handle, Answering
  <2> QED BY <2>1, <2>2, <2>3, <2>4
<1> QED BY <1>2, <1>3, <1>4, <1>5

\* A client with input has a socket.
LEMMA InputIsOfClient ==
  ASSUME NetInv, NEW c \in Slot
  PROVE  /\ conn[c] \in ConnType
         /\ conn[c].in # <<>> \/ conn[c].pend # None \/ HasOutput(conn[c]) \/ conn[c].closing => conn[c].sock # None
         /\ conn[c].sock # None => Fine(c, conn[c], sock[conn[c].sock], wire[conn[c].sock])
<1>1. conn[c].sock = None => conn[c] = NoConn
  BY DEF NetInv, Places
<1>2. NoConn.in = <<>> /\ NoConn.pend = None /\ ~HasOutput(NoConn) /\ NoConn.closing = FALSE
  BY DEF NoConn, HasOutput, Streaming
<1> QED BY <1>1, <1>2, SocketsAre DEF NetInv, Served

\* The raw client has an item taken.
LEMMA ProcessRawKeepsNet ==
  ASSUME NetInv, ProcessRaw
  PROVE  NetInv'
<1> USE DEF Slot
<1> DEFINE x == conn["raw"]
           s == x.sock
           k == sock[s]
           w == wire[s]
           y == [x EXCEPT !.in = Tail(@)]
           item == Head(x.in)
<1>1. x.in # <<>> /\ ~Busy(x) /\ Handle("raw", y, item) /\ UNCHANGED <<http, backlog>>
  BY DEF ProcessRaw
<1>2. x \in ConnType /\ s # None /\ Fine("raw", x, k, w)
  BY <1>1, InputIsOfClient
<1>3. Good(w, x) /\ (x.stream > 0 => x.handled > 0) /\ k \in SockType /\ w \in WireType
      /\ x.ctl = <<>> /\ x.closing = FALSE /\ x.pend = None /\ x.out = <<>> /\ x.stream = 0
  <2>1. x.stream \in Nat
    BY <1>2 DEF ConnType
  <2> QED BY <1>1, <1>2, <2>1 DEF Fine, Busy, Streaming
<1>4. /\ y \in ConnType /\ y.sock = s /\ y.out = x.out /\ y.ctl = x.ctl /\ y.stream = x.stream /\ y.handled = x.handled
      /\ y.closing = x.closing /\ y.pend = x.pend
  <2> DEFINE t == Tail(x.in)
  <2>1. t \in Seq(Item)
    BY <1>1, <1>2 DEF ConnType
  <2>2. y = [x EXCEPT !.in = t]
    OBVIOUS
  <2> HIDE DEF t, y
  <2> QED BY <1>2, <2>1, <2>2 DEF ConnType
<1> HIDE DEF y
<1>5. Good(w, y)
  BY <1>3, <1>4, GoodSame
<1>6. Fine("raw", y, k, w)
  BY <1>3, <1>4, <1>5 DEF Fine
<1>7. ASSUME NEW n \in Nat PROVE Answering(y, n).sock = s /\ Fine("raw", Answering(y, n), k, w)
  <2> DEFINE z == Answering(y, n)
  <2>1. /\ z \in ConnType /\ Good(w, z) /\ z.handled = y.handled + 1 /\ z.handled > 0 /\ z.stream = n /\ z.ctl = <<>>
        /\ z.sock = y.sock /\ z.in = y.in /\ z.used = y.used /\ z.pend = y.pend /\ z.dec = y.dec /\ z.closing = y.closing
    BY <1>3, <1>4, <1>5, AnswerFollows DEF Is
  <2> HIDE DEF z
  <2>2. Fine("raw", z, k, w) /\ z.sock = s
    BY <1>3, <1>4, <2>1 DEF Fine
  <2> QED BY <2>2 DEF z
<1> DEFINE it == item
<1> HIDE DEF item
<1> QED BY <1>1, <1>2, <1>4, <1>6, <1>7, HandleKeepsNet

\* The page has an item taken that was decoded before.
LEMMA ProcessPendingKeepsNet ==
  ASSUME NetInv, ProcessPending
  PROVE  NetInv'
<1> USE DEF Slot
<1> DEFINE x == conn["web"]
           s == x.sock
           k == sock[s]
           w == wire[s]
           y == [x EXCEPT !.pend = None]
           item == x.pend
<1>1. x.pend # None /\ Handle("web", y, item) /\ UNCHANGED <<http, backlog>>
  BY DEF ProcessPending
<1>2. x \in ConnType /\ s # None /\ Fine("web", x, k, w)
  BY <1>1, InputIsOfClient
<1>3. /\ x.pend \in Ask /\ y \in ConnType /\ y.sock = x.sock
      /\ x.pend = "part" => Fine("web", y, k, w)
      /\ x.pend # "part" => \A n \in Nat : Fine("web", Answering(y, n), k, w)
  BY <1>1, <1>2, PageTakes DEF Is
<1>4. \A n \in Nat : Answering(y, n).sock = s
  <2> HIDE DEF y
  <2> QED BY Zenon, <1>3 DEF Answering, ConnType
<1>5. item # "data" /\ (Decoded(item) = "more" <=> item = "part") /\ Decoded(item) # "error"
  BY <1>3 DEF Decoded, Ask
<1> HIDE DEF y, item
<1>6. (item = "part") <=> (x.pend = "part")
  BY DEF item
<1> QED BY <1>1, <1>2, <1>3, <1>4, <1>5, <1>6, HandleKeepsNet

\* A pipe that does not begin with a request has none.
LEMMA NoAsks ==
  ASSUME NEW p \in Seq(Item), Shape(p), Asks(p) = 0
  PROVE  \A i \in 1..Len(p) : p[i] \notin Ask
<1> SUFFICES ASSUME NEW i \in 1..Len(p), p[i] \in Ask PROVE FALSE
  OBVIOUS
<1>1. p # <<>> /\ 1 \in 1..Len(p) /\ Len(p) \in Nat \ {0}
  OBVIOUS
<1>2. p[1] \notin Ask
  BY <1>1 DEF Asks
<1>3. i = 2 /\ p[1] = "part"
  BY <1>2 DEF Shape
<1> QED BY <1>2, <1>3 DEF Ask

\* After the page's last word nothing is asked of the line.
LEMMA LastWord ==
  ASSUME NEW x, NEW k, NEW w, NEW p \in Seq(Item), Line(x, k, w, p), Asks(p) = 0, k.last \in Final,
         NEW a \in Seq(Item), NEW b \in Seq(Item), p = a \o b,
         NEW y, y.handled = x.handled, y.pend = None
  PROVE  Line(y, k, w, b)
<1>1. Shape(p) /\ x.handled <= k.asked
  BY DEF Line
<1>2. \A i \in 1..Len(p) : p[i] \notin Ask
  BY <1>1, NoAsks
<1>3. /\ Len(p) = Len(a) + Len(b) /\ Len(a) \in Nat /\ Len(b) \in Nat
      /\ \A i \in 1..Len(a) + Len(b) : p[i] = IF i <= Len(a) THEN a[i] ELSE b[i - Len(a)]
  BY ConcatProperties
<1>4. ASSUME NEW i \in 1..Len(b) PROVE Len(a) + i \in 1..Len(p) /\ p[Len(a) + i] = b[i] /\ (Len(a) + i = Len(p) => i = Len(b))
  <2>1. Len(a) + i \in 1..Len(a) + Len(b) /\ ~(Len(a) + i <= Len(a)) /\ (Len(a) + i) - Len(a) = i
    BY <1>3
  <2> QED BY <1>3, <2>1
<1>5. \A i \in 1..Len(b) : b[i] \notin Ask
  BY <1>2, <1>4
<1>6. Shape(b)
  <2>1. \A i \in 1..Len(b) : b[i] \in Ask \cup Final \cup {"ping"}
    BY <1>1, <1>4 DEF Shape
  <2>2. \A i \in 1..Len(b) : b[i] \in Final => i = Len(b)
    BY <1>1, <1>4 DEF Shape
  <2> QED BY <1>5, <2>1, <2>2 DEF Shape
<1>7. Asks(b) = 0
  <2>1. b # <<>> => 1 \in 1..Len(b)
    BY <1>3
  <2> QED BY <1>5, <2>1 DEF Asks
<1>8. k.last # "part"
  BY DEF Final
<1> QED BY <1>1, <1>6, <1>7, <1>8 DEF Line

Taken(y, x, k, w) == y.sock = x.sock /\ Fine("web", y, k, w)

\* A frame of the page, and what the client's state may become of it.
FrameIs(x, k, w, item, event, y, d, e, z, v) ==
  /\ Fine("web", x, k, w) /\ x.pend = None /\ x.in # <<>> /\ item = Head(x.in) /\ event = WsEvent(item, x.dec)
  /\ y = [x EXCEPT !.in = Tail(@)] /\ z = [QueueCtl(y, TRUE) EXCEPT !.in = <<>>]
  /\ d = [y EXCEPT !.pend = item, !.dec = IF item = "part" THEN "message" ELSE "idle"]
  /\ e = QueueCtl(y, FALSE) /\ v = [z EXCEPT !.dec = "stuck"]

\* The page's decoder takes a frame: what it was is what the page sent.
LEMMA FrameTaken ==
  ASSUME NEW x, NEW k, NEW w, NEW item, NEW event, NEW y, NEW d, NEW e, NEW z, NEW v,
         FrameIs(x, k, w, item, event, y, d, e, z, v)
  PROVE  /\ event \in {"data", "ping", "close", "error"}
         /\ event = "data" => Taken(d, x, k, w)
         /\ event = "ping" => Taken(e, x, k, w)
         /\ event \in {"close", "error"} => Taken(z, x, k, w) /\ Taken(v, x, k, w)
<1> SUFFICES ASSUME Fine("web", x, k, w), x.pend = None, x.in # <<>>, item = Head(x.in), event = WsEvent(item, x.dec),
                    Is(y, [x EXCEPT !.in = Tail(@)]), Is(z, [QueueCtl(y, TRUE) EXCEPT !.in = <<>>])
             PROVE  /\ event \in {"data", "ping", "close", "error"}
                    /\ event = "data" => Taken([y EXCEPT !.pend = item, !.dec = IF item = "part" THEN "message" ELSE "idle"], x, k, w)
                    /\ event = "ping" => Taken(QueueCtl(y, FALSE), x, k, w)
                    /\ event \in {"close", "error"} => Taken(z, x, k, w) /\ Taken([z EXCEPT !.dec = "stuck"], x, k, w)
  BY DEF FrameIs, Is
<1> USE DEF Taken, Is
<1> DEFINE p == Pipe(x, k)
           a == x.in
           r == Tail(a) \o k.in
<1>1. x \in ConnType /\ k \in SockType /\ w \in WireType /\ Good(w, x) /\ (x.stream > 0 => x.handled > 0) /\ Line(x, k, w, p)
  BY DEF Fine
<1>2. /\ p \in Seq(Item) /\ a \in Seq(Item) /\ k.in \in Seq(Item) /\ p = a \o k.in
      /\ p # <<>> /\ p[1] = item /\ Tail(p) = r
  BY <1>1, PipeIs
<1>3. Tail(a) \in Seq(Item) /\ item \in Item /\ <<item>> \o Tail(a) = a
  <2>1. a # <<>> /\ item = Head(a)
    OBVIOUS
  <2> HIDE DEF a
  <2> QED BY <1>2, <2>1
<1>4. /\ y \in ConnType /\ y.pend = None /\ y.in = Tail(a) /\ y.sock = x.sock /\ y.out = x.out /\ y.ctl = x.ctl /\ y.stream = x.stream
      /\ y.handled = x.handled /\ y.dec = x.dec
  <2> DEFINE t == Tail(a)
  <2>1. t \in Seq(Item) /\ y = [x EXCEPT !.in = t]
    BY <1>3
  <2> HIDE DEF t
  <2> HIDE DEF Is
  <2>2. /\ y \in ConnType /\ y.pend = x.pend /\ y.in = t /\ y.sock = x.sock /\ y.out = x.out /\ y.ctl = x.ctl /\ y.stream = x.stream
        /\ y.handled = x.handled /\ y.dec = x.dec
    BY <1>1, <2>1 DEF ConnType
  <2> QED BY <2>2 DEF t
<1> HIDE DEF Is
<1>5. Good(w, y)
  BY <1>1, <1>4, GoodSame
<1> HIDE DEF p, a, r
<1>6. Shape(p) /\ x.handled <= k.asked /\ item \in Ask \cup Final \cup {"ping"}
  <2>1. 1 \in 1..Len(p)
    BY <1>2
  <2> QED BY <1>1, <1>2, <2>1 DEF Line, Shape
<1>7. item \in Final => Len(p) = 1 /\ k.last \in Final /\ Asks(p) = 0
  <2> SUFFICES ASSUME item \in Final PROVE Len(p) = 1 /\ k.last \in Final /\ Asks(p) = 0
    OBVIOUS
  <2>1. 1 \in 1..Len(p)
    BY <1>2
  <2>2. Len(p) = 1
    BY <1>2, <1>6, <2>1 DEF Shape
  <2>3. k.last \in Final
    BY <1>1, <1>2, <2>1 DEF Line
  <2>4. item \notin Ask
    BY DEF Final, Ask
  <2> QED BY <1>2, <2>2, <2>3, <2>4 DEF Asks
<1>8. item \in Ask <=> Asks(p) > 0
  BY <1>2 DEF Asks
<1>9. item \in Ask => x.dec = IF item = "rest" THEN "message" ELSE "idle"
  BY <1>1, <1>2, <1>8 DEF Line
<1>10. Asks(p) = 0 /\ x.dec = "stuck" => k.last \in Final
  BY <1>1 DEF Line
<1>11. event \in {"data", "ping", "close", "error"}
  BY DEF WsEvent
<1>12. event = "data" => item \in Ask
  BY DEF WsEvent, Ask
<1>13. event = "ping" => item = "ping"
  BY DEF WsEvent
<1>14. event \in {"close", "error"} => k.last \in Final /\ Asks(p) = 0
  <2>1. event = "close" => item \in Final
    BY DEF WsEvent, Final
  <2>2. event = "error" => item \in Final \/ (x.dec = "stuck" /\ item \notin Ask)
    BY <1>6, <1>9 DEF WsEvent, Final, Ask
  <2>3. item \notin Ask => Asks(p) = 0
    BY <1>2 DEF Asks
  <2> QED BY <1>7, <1>10, <2>1, <2>2, <2>3
<1>15. ASSUME event = "data" PROVE Taken([y EXCEPT !.pend = item, !.dec = IF item = "part" THEN "message" ELSE "idle"], x, k, w)
  <2> DEFINE g == IF item = "part" THEN "message" ELSE "idle"
             u == [y EXCEPT !.pend = item, !.dec = g]
  <2>1. g \in {"idle", "message", "stuck"}
    OBVIOUS
  <2> HIDE DEF g
  <2>2. /\ u \in ConnType /\ u.pend = item /\ u.in = Tail(a) /\ u.sock = x.sock /\ u.out = x.out /\ u.ctl = x.ctl /\ u.stream = x.stream
        /\ u.handled = x.handled /\ u.dec = g
    BY <1>3, <1>4, <2>1 DEF ConnType
  <2> HIDE DEF u
  <2>3. Pipe(u, k) = p
    <3>1. item # None
      BY <1>12, <1>15, ServerAssumption DEF Ask, None
    <3> QED BY <1>2, <1>3, <2>2, <3>1 DEF Pipe, Pend
  <2>4. Line(u, k, w, p)
    <3>1. item # None /\ item \in Ask
      BY <1>12, <1>15, ServerAssumption DEF Ask, None
    <3>2. Asks(p) > 0
      BY <1>8, <3>1
    <3>3. IF Asks(p) > 0
          THEN u.dec = (IF u.pend = None THEN (IF p[1] = "rest" THEN "message" ELSE "idle")
                        ELSE IF u.pend = "part" THEN "message" ELSE "idle")
          ELSE k.last \notin Final => u.dec = (IF k.last = "part" THEN "message" ELSE "idle")
      BY <2>2, <3>1, <3>2 DEF g
    <3> QED BY ONLY <1>1, <2>2, <3>1, <3>3 DEF Line
  <2>5. Good(w, u)
    BY <1>1, <2>2, GoodSame
  <2>6. u.sock = x.sock /\ Fine("web", u, k, w)
    BY <1>1, <2>2, <2>3, <2>4, <2>5 DEF Fine
  <2> QED BY <2>6 DEF u, g
<1>16. ASSUME event = "ping" PROVE Taken(QueueCtl(y, FALSE), x, k, w)
  <2> DEFINE u == QueueCtl(y, FALSE)
  <2>1. /\ u \in ConnType /\ Good(w, u) /\ u.out = y.out /\ u.stream = y.stream /\ u.handled = y.handled
        /\ u.sock = y.sock /\ u.in = y.in /\ u.used = y.used /\ u.pend = y.pend /\ u.dec = y.dec
        /\ Debt(w, u.ctl) <= Debt(w, y.ctl) + 2
    <3>1. Is(u, QueueCtl(y, FALSE)) /\ FALSE \in BOOLEAN
      BY DEF Is
    <3> HIDE DEF u
    <3> QED BY <1>1, <1>4, <1>5, <3>1, ControlFollows
  <2> HIDE DEF u
  <2>2. Pipe(u, k) = r
    <3>1. <<>> \o Tail(a) = Tail(a)
      BY <1>3
    <3> QED BY <1>4, <2>1, <3>1 DEF Pipe, Pend, r
  <2>3. Asks(p) = 0
    BY <1>2, <1>13, <1>16 DEF Asks, Ask
  <2>4. \A i \in 1..Len(p) : p[i] \notin Ask
    BY <1>2, <1>6, <2>3, NoAsks
  <2>5. r \in Seq(Item) /\ Len(r) = Len(p) - 1 /\ Len(p) \in Nat \ {0} /\ \A i \in 1..Len(r) : i + 1 \in 1..Len(p) /\ r[i] = p[i + 1] /\ (i + 1 = Len(p) => i = Len(r))
    <3> DEFINE q == r
    <3>1. q = Tail(p)
      BY <1>2
    <3> HIDE DEF q
    <3>2. q \in Seq(Item) /\ Len(q) = Len(p) - 1 /\ Len(p) \in Nat \ {0} /\ \A i \in 1..Len(q) : q[i] = p[i + 1]
      BY <1>2, <3>1
    <3> HIDE <3>1
    <3>3. \A i \in 1..Len(q) : i + 1 \in 1..Len(p) /\ (i + 1 = Len(p) => i = Len(q))
      BY ONLY <3>2
    <3> QED BY <3>2, <3>3 DEF q
  <2>6. Shape(r) /\ Asks(r) = 0
    <3>1. Shape(r)
      BY <1>6, <2>4, <2>5 DEF Shape
    <3>2. r # <<>> => 1 \in 1..Len(r)
      BY <2>5
    <3> QED BY <2>4, <2>5, <3>1, <3>2 DEF Asks
  <2>7. k.last \notin Final => /\ \A i \in 1..Len(r) : r[i] \notin Final
                               /\ Debt(w, u.ctl) + 2 * (Len(r) - Asks(r)) <= 2 * k.pings
    <3> SUFFICES ASSUME k.last \notin Final
        PROVE  (\A i \in 1..Len(r) : r[i] \notin Final) /\ Debt(w, u.ctl) + 2 * (Len(r) - Asks(r)) <= 2 * k.pings
      OBVIOUS
    <3>1. (\A i \in 1..Len(p) : p[i] \notin Final) /\ Debt(w, x.ctl) + 2 * (Len(p) - Asks(p)) <= 2 * k.pings
      BY <1>1 DEF Line
    <3>2. Debt(w, u.ctl) \in Int /\ Debt(w, x.ctl) \in Int /\ Debt(w, u.ctl) <= Debt(w, x.ctl) + 2 /\ k.pings \in Nat
      <4>1. Owed(w) \in Int
        BY <1>1 DEF Owed, WireType
      <4>2. Len(u.ctl) \in Nat /\ Len(x.ctl) \in Nat
        BY <1>1, <2>1 DEF ConnType
      <4> QED BY <1>1, <1>4, <2>1, <4>1, <4>2 DEF Debt, SockType
    <3>3. Len(r) - Asks(r) = (Len(p) - Asks(p)) - 1 /\ Len(p) - Asks(p) \in Int
      BY <2>3, <2>5, <2>6
    <3>4. \A i \in 1..Len(r) : r[i] \notin Final
      BY ONLY <2>5, <3>1
    <3>5. Len(r) - Asks(r) \in Int
      BY ONLY <3>3
    <3> HIDE DEF u
    <3> QED BY ONLY <3>1, <3>2, <3>3, <3>4, <3>5
  <2>8. Line(u, k, w, r)
    BY <1>1, <1>4, <2>1, <2>3, <2>6, <2>7 DEF Line
  <2>9. u.sock = x.sock /\ Fine("web", u, k, w)
    BY <1>1, <1>4, <2>1, <2>2, <2>8 DEF Fine
  <2> QED BY <2>9 DEF u
<1>17. ASSUME event \in {"close", "error"} PROVE Taken(z, x, k, w) /\ Taken([z EXCEPT !.dec = "stuck"], x, k, w)
  <2> DEFINE u == QueueCtl(y, TRUE)
             o == <<>>
             u2 == [z EXCEPT !.dec = "stuck"]
  <2>1. /\ u \in ConnType /\ Good(w, u) /\ u.out = y.out /\ u.stream = y.stream /\ u.handled = y.handled
        /\ u.sock = y.sock /\ u.in = y.in /\ u.used = y.used /\ u.pend = y.pend /\ u.dec = y.dec
    <3> DEFINE close == TRUE
    <3>1. close \in BOOLEAN /\ w \in WireType /\ u = QueueCtl(y, close)
      BY <1>1
    <3> HIDE DEF u, close
    <3> QED BY ONLY <1>4, <1>5, <3>1, ControlFollows DEF Is
  <2>2. o \in Seq(Item) /\ z = [u EXCEPT !.in = o]
    BY DEF Is
  <2> HIDE DEF u
  <2>3. /\ z \in ConnType /\ z.in = o /\ z.out = u.out /\ z.ctl = u.ctl /\ z.stream = u.stream /\ z.handled = u.handled /\ z.pend = u.pend
        /\ z.sock = x.sock
    <3> HIDE DEF o
    <3> QED BY <1>4, <2>1, <2>2 DEF ConnType
  <2>4. /\ u2 \in ConnType /\ u2.in = o /\ u2.out = u.out /\ u2.ctl = u.ctl /\ u2.stream = u.stream /\ u2.handled = u.handled /\ u2.pend = u.pend
        /\ u2.sock = x.sock
    <3> HIDE DEF o
    <3> QED BY <2>3 DEF ConnType
  <2> HIDE DEF u2
  <2>5. Good(w, z) /\ Good(w, u2)
    BY <2>1, <2>3, <2>4, GoodSame
  <2>6. Pipe(z, k) = k.in /\ Pipe(u2, k) = k.in
    <3>1. (<<>> \o <<>>) \o k.in = k.in
      BY <1>2
    <3> QED BY <1>4, <2>1, <2>3, <2>4, <3>1 DEF Pipe, Pend
  <2>7. k.last \in Final /\ Asks(p) = 0
    BY <1>14, <1>17
  <2> DEFINE b == k.in
  <2>8. b \in Seq(Item) /\ p = a \o b
    BY <1>2
  <2> HIDE DEF b, o
  <2>9. Line(z, k, w, b)
    <3>1. z.handled = x.handled /\ z.pend = None
      BY <1>4, <2>1, <2>3
    <3> QED BY ONLY <1>1, <1>2, <2>7, <2>8, <3>1, LastWord
  <2>10. Line(u2, k, w, b)
    <3>1. u2.handled = x.handled /\ u2.pend = None
      BY <1>4, <2>1, <2>4
    <3> QED BY ONLY <1>1, <1>2, <2>7, <2>8, <3>1, LastWord
  <2>11. z.sock = x.sock /\ Fine("web", z, k, w)
    BY <1>1, <1>4, <2>1, <2>3, <2>5, <2>6, <2>9 DEF Fine, b
  <2>12. u2.sock = x.sock /\ Fine("web", u2, k, w)
    BY <1>1, <1>4, <2>1, <2>4, <2>5, <2>6, <2>10 DEF Fine, b
  <2> QED BY <2>11, <2>12 DEF u2
<1> QED BY <1>11, <1>15, <1>16, <1>17

\* What is known of a client does not depend on how much it had used, or for how long it was quiet.
LEMMA FineSame ==
  ASSUME NEW c, NEW x, NEW k, NEW w, Fine(c, x, k, w), NEW y \in ConnType,
         y.in = x.in, y.pend = x.pend, y.dec = x.dec, y.out = x.out, y.ctl = x.ctl, y.closing = x.closing,
         y.stream = x.stream, y.handled = x.handled
  PROVE  Fine(c, y, k, w)
<1>1. Good(w, y)
  BY GoodSame DEF Fine
<1>2. Pipe(y, k) = Pipe(x, k)
  BY DEF Pipe, Pend
<1>3. c = "web" => Line(y, k, w, Pipe(y, k))
  BY <1>2 DEF Fine, Line
<1> QED BY <1>1, <1>3 DEF Fine

\* Nor on what else its socket has.
LEMMA FineSocket ==
  ASSUME NEW c, NEW x, NEW k, NEW w, Fine(c, x, k, w), NEW m \in SockType,
         m.in = k.in, m.asked = k.asked, m.last = k.last, m.pings = k.pings
  PROVE  Fine(c, x, m, w)
<1>1. Pipe(x, m) = Pipe(x, k)
  BY DEF Pipe
<1>2. c = "web" => Line(x, m, w, Pipe(x, m))
  BY <1>1 DEF Fine, Line
<1> QED BY <1>2 DEF Fine

\* Client c only is other than before.
LEMMA ClientAlone ==
  ASSUME NetInv, NEW c \in Slot, NEW s, s = conn[c].sock, s # None, NEW x, x.sock = s, Fine(c, x, sock[s], wire[s]),
         conn' = [conn EXCEPT ![c] = x], UNCHANGED <<http, backlog, sock, wire>>
  PROVE  NetInv'
<1>1. s \in Sock /\ sock[s].at = "open" /\ wire \in [Sock -> WireType] /\ sock \in [Sock -> SockType]
  BY SocketsAre, OnePlace
<1> DEFINE k == sock[s]
           v == wire[s]
<1>2. Fine(c, x, k, v) /\ k.at = "open" /\ k.head = sock[s].head
  BY <1>1
<1>3. conn' = [conn EXCEPT ![c] = x] /\ sock' = [sock EXCEPT ![s] = k] /\ wire' = [wire EXCEPT ![s] = v]
  BY <1>1
<1> HIDE DEF k, v
<1> QED BY <1>2, <1>3, ClientMoves

\* The socket of client c only is other than before.
LEMMA SocketAlone ==
  ASSUME NetInv, NEW c \in Slot, NEW s, s = conn[c].sock, s # None, NEW k, Fine(c, conn[c], k, wire[s]),
         k.at = "open", k.head = sock[s].head,
         sock' = [sock EXCEPT ![s] = k], UNCHANGED <<http, backlog, conn, wire>>
  PROVE  NetInv'
<1>1. s \in Sock /\ wire \in [Sock -> WireType] /\ conn \in [Slot -> ConnType]
  BY SocketsAre
<1> DEFINE x == conn[c]
           v == wire[s]
<1>2. Fine(c, x, k, v) /\ x.sock = s
  BY <1>1
<1>3. conn' = [conn EXCEPT ![c] = x] /\ wire' = [wire EXCEPT ![s] = v]
  BY <1>1
<1> HIDE DEF x, v
<1> QED BY <1>2, <1>3, ClientMoves

\* A frame of the page is decoded.
LEMMA ProcessFrameKeepsNet ==
  ASSUME NetInv, ProcessFrame
  PROVE  NetInv'
<1> USE DEF Slot
<1> DEFINE x == conn["web"]
           s == x.sock
           k == sock[s]
           w == wire[s]
           item == Head(x.in)
           event == WsEvent(item, x.dec)
           y == [x EXCEPT !.in = Tail(@)]
           z == [QueueCtl(y, TRUE) EXCEPT !.in = <<>>]
           d == [y EXCEPT !.pend = item, !.dec = IF item = "part" THEN "message" ELSE "idle"]
           e == QueueCtl(y, FALSE)
           v == [z EXCEPT !.dec = "stuck"]
<1>1. x.pend = None /\ x.in # <<>> /\ UNCHANGED <<http, backlog, sock, wire>>
  BY DEF ProcessFrame
<1>2. conn' = [conn EXCEPT !["web"] = CASE event = "data" -> d [] event = "ping" -> e [] event = "close" -> z [] event = "error" -> v]
  BY DEF ProcessFrame
<1>3. x \in ConnType /\ s # None /\ Fine("web", x, k, w)
  BY <1>1, InputIsOfClient
<1>4. /\ event \in {"data", "ping", "close", "error"}
      /\ event = "data" => Taken(d, x, k, w)
      /\ event = "ping" => Taken(e, x, k, w)
      /\ event \in {"close", "error"} => Taken(z, x, k, w) /\ Taken(v, x, k, w)
  <2>1. FrameIs(x, k, w, item, event, y, d, e, z, v)
    BY <1>1, <1>3 DEF FrameIs
  <2> HIDE DEF d, e, z, v, event, y, item, x, k, w
  <2> QED BY ONLY <2>1, FrameTaken
<1>5. \A u : Taken(u, x, k, w) <=> u.sock = s /\ Fine("web", u, k, w)
  BY DEF Taken
<1> HIDE DEF d, e, z, v, event, y, item
<1>6. ASSUME NEW u, u.sock = s, Fine("web", u, k, w), conn' = [conn EXCEPT !["web"] = u] PROVE NetInv'
  BY <1>1, <1>3, <1>6, ClientAlone
<1>7. CASE event = "data"
  BY <1>2, <1>4, <1>5, <1>6, <1>7
<1>8. CASE event = "ping"
  BY <1>2, <1>4, <1>5, <1>6, <1>8
<1>9. CASE event = "close"
  BY <1>2, <1>4, <1>5, <1>6, <1>9
<1>10. CASE event = "error"
  BY <1>2, <1>4, <1>5, <1>6, <1>10
<1> QED BY <1>4, <1>7, <1>8, <1>9, <1>10

\* The end of process_input, with a flush of the control frames.
LEMMA ProcessEndsKeepsNet ==
  ASSUME NetInv, ProcessEnds, todo[1] \in TaskType
  PROVE  NetInv'
<1> DEFINE c == todo[1][2]
           x == conn[c]
           s == x.sock
           y == IF x.in = <<>> /\ x.pend = None THEN [x EXCEPT !.used = 0] ELSE x
<1>1. c \in Slot
  BY TaskIs DEF ProcessEnds, Task
<1>2. x \in ConnType /\ conn \in [Slot -> ConnType] /\ (x.ctl # <<>> \/ x.closing => s # None) /\ (s # None => Fine(c, x, sock[s], wire[s]))
  BY <1>1, InputIsOfClient, SocketsAre DEF HasOutput
<1>3. y \in ConnType /\ y.sock = s /\ (s = None => y = x)
  <2>1. [x EXCEPT !.used = 0] \in ConnType /\ [x EXCEPT !.used = 0].sock = s
    BY <1>2 DEF ConnType
  <2>2. s = None => x = NoConn
    BY <1>1 DEF NetInv, Places
  <2>3. NoConn.used = 0
    BY DEF NoConn
  <2>4. x.used = 0 => [x EXCEPT !.used = 0] = x
    BY <1>2 DEF ConnType
  <2> QED BY <1>2, <2>1, <2>2, <2>3, <2>4
<1>4. s # None => Fine(c, y, sock[s], wire[s])
  <2> SUFFICES ASSUME s # None PROVE Fine(c, y, sock[s], wire[s])
    OBVIOUS
  <2>1. /\ y.in = x.in /\ y.pend = x.pend /\ y.dec = x.dec /\ y.out = x.out /\ y.ctl = x.ctl /\ y.closing = x.closing
        /\ y.stream = x.stream /\ y.handled = x.handled
    BY <1>2 DEF ConnType
  <2> HIDE DEF y
  <2> QED BY <1>2, <1>3, <2>1, FineSame
<1>5. /\ IF x.ctl # <<>> \/ x.closing THEN Flush(c, y, Done)
         ELSE conn' = [conn EXCEPT ![c] = y] /\ todo' = Done /\ UNCHANGED <<sock, wire>>
      /\ UNCHANGED <<http, backlog>>
  BY DEF ProcessEnds
<1> HIDE DEF y
<1>6. CASE x.ctl # <<>> \/ x.closing
  <2>1. Flush(c, y, Done) /\ s # None
    BY <1>2, <1>5, <1>6
  <2> HIDE DEF Done, c
  <2> QED BY <1>1, <1>3, <1>4, <1>5, <2>1, FlushKeepsNet
<1>7. CASE ~(x.ctl # <<>> \/ x.closing)
  <2>1. conn' = [conn EXCEPT ![c] = y] /\ UNCHANGED <<sock, wire>>
    BY <1>5, <1>7
  <2>2. CASE s = None
    <3>1. conn' = conn
      BY <1>1, <1>2, <1>3, <2>1, <2>2
    <3> QED BY <1>5, <2>1, <3>1, NothingMoves
  <2>3. CASE s # None
    BY <1>1, <1>3, <1>4, <1>5, <2>1, <2>3, ClientAlone
  <2> QED BY <2>2, <2>3
<1> QED BY <1>6, <1>7

\* A client that is quiet for long.
LEMMA GoesQuietKeepsNet ==
  ASSUME NetInv, NEW c \in Slot, GoesQuiet(c)
  PROVE  NetInv'
<1> DEFINE x == conn[c]
           s == x.sock
           y == [x EXCEPT !.quiet = TRUE]
<1>1. s # None /\ conn' = [conn EXCEPT ![c].quiet = TRUE] /\ UNCHANGED <<http, backlog, sock, wire>>
  BY DEF GoesQuiet
<1>2. x \in ConnType /\ conn \in [Slot -> ConnType] /\ Fine(c, x, sock[s], wire[s])
  BY <1>1, InputIsOfClient, SocketsAre
<1>3. /\ y \in ConnType /\ y.sock = s
      /\ y.in = x.in /\ y.pend = x.pend /\ y.dec = x.dec /\ y.out = x.out /\ y.ctl = x.ctl /\ y.closing = x.closing
      /\ y.stream = x.stream /\ y.handled = x.handled
  BY <1>2 DEF ConnType
<1>4. conn' = [conn EXCEPT ![c] = y]
  BY <1>1, <1>2
<1> HIDE DEF y
<1>5. Fine(c, y, sock[s], wire[s])
  BY <1>2, <1>3, FineSame
<1> QED BY <1>1, <1>3, <1>4, <1>5, ClientAlone

\* Client c with state x and socket k receives n items: then it is y, and the socket m.
Received(x, k, n, y, m) ==
  /\ x \in ConnType /\ k \in SockType /\ n \in 1..Len(k.in)
  /\ y = [x EXCEPT !.in = @ \o SubSeq(k.in, 1, n), !.used = @ + n, !.quiet = FALSE]
  /\ m = [k EXCEPT !.in = SubSeq(@, n + 1, Len(@))]

\* What a client sent is in the pipe, received or not.
LEMMA PipeStays ==
  ASSUME NEW x, NEW k, NEW n, NEW y, NEW m, Received(x, k, n, y, m)
  PROVE  /\ y \in ConnType /\ m \in SockType /\ Pipe(y, m) = Pipe(x, k)
         /\ y.sock = x.sock /\ y.pend = x.pend /\ y.dec = x.dec /\ y.out = x.out /\ y.ctl = x.ctl /\ y.closing = x.closing
         /\ y.stream = x.stream /\ y.handled = x.handled
         /\ m.at = k.at /\ m.head = k.head /\ m.asked = k.asked /\ m.last = k.last /\ m.pings = k.pings
<1>1. /\ x \in ConnType /\ k \in SockType /\ n \in 1..Len(k.in)
      /\ y = [x EXCEPT !.in = @ \o SubSeq(k.in, 1, n), !.used = @ + n, !.quiet = FALSE]
      /\ m = [k EXCEPT !.in = SubSeq(@, n + 1, Len(@))]
  BY DEF Received
<1> DEFINE a == x.in
           b == k.in
           b1 == SubSeq(b, 1, n)
           b2 == SubSeq(b, n + 1, Len(b))
           u == Pend(x)
           i == a \o b1
           f == x.used + n
<1>2. a \in Seq(Item) /\ b \in Seq(Item) /\ u \in Seq(Item) /\ x.used \in Nat
  BY <1>1 DEF ConnType, SockType, Pend
<1>3. b1 \in Seq(Item) /\ b2 \in Seq(Item) /\ b1 \o b2 = b
  <2> HIDE DEF b
  <2>1. Len(b) \in Nat /\ n \in 1..Len(b) /\ n \in Nat /\ n <= Len(b)
    BY <1>1, <1>2 DEF b
  <2>2. 1 \in 1..Len(b) + 1 /\ n \in 1 - 1..Len(b) /\ Len(b) \in n..Len(b)
    BY <2>1
  <2>3. b1 \o b2 = SubSeq(b, 1, Len(b))
    BY <1>2, <2>2, ConcatAdjacentSubSeq
  <2>4. SubSeq(b, 1, Len(b)) = b
    BY <1>2
  <2>5. b1 \in Seq(Item) /\ b2 \in Seq(Item)
    BY <1>2, <2>1
  <2> QED BY ONLY <2>3, <2>4, <2>5
<1>4. i \in Seq(Item) /\ f \in Nat
  BY <1>1, <1>2, <1>3
<1>5. y = [x EXCEPT !.in = i, !.used = f, !.quiet = FALSE]
  BY <1>1
<1>50. m = [k EXCEPT !.in = b2] /\ x \in ConnType
  BY <1>1
<1> HIDE DEF i, f, b2
<1>6. /\ y \in ConnType /\ y.in = i
      /\ y.sock = x.sock /\ y.pend = x.pend /\ y.dec = x.dec /\ y.out = x.out /\ y.ctl = x.ctl /\ y.closing = x.closing
      /\ y.stream = x.stream /\ y.handled = x.handled
  BY ONLY <1>4, <1>5, <1>50 DEF ConnType
<1>7. /\ m \in SockType /\ m.in = b2
      /\ m.at = k.at /\ m.head = k.head /\ m.asked = k.asked /\ m.last = k.last /\ m.pings = k.pings
  <2> DEFINE H == {None} \cup UNION {Heads[t] : t \in WebSock}
             T == [ at : {"new", "queued", "open", "closed"}, gone : BOOLEAN, buf : 0..SndMax, in : Seq(Item),
                    pieces : Nat, asked : Nat, pings : Nat, last : Item \cup {None}, head : H ]
  <2>1. k \in T /\ T = SockType
    BY <1>1 DEF SockType
  <2> HIDE DEF H
  <2>2. m \in T /\ m.in = b2
      /\ m.at = k.at /\ m.head = k.head /\ m.asked = k.asked /\ m.last = k.last /\ m.pings = k.pings
    BY ONLY <2>1, <1>3, <1>50
  <2> QED BY <2>1, <2>2
<1>8. Pipe(y, m) = Pipe(x, k)
  <2>1. Pend(y) = u
    BY <1>6 DEF Pend
  <2>2. Pipe(y, m) = (u \o (a \o b1)) \o b2 /\ Pipe(x, k) = (u \o a) \o b
    BY <2>1, <1>6, <1>7 DEF Pipe, i
  <2> HIDE DEF u, a, b, b1
  <2>30. \A p, q, t \in Seq(Item) : (p \o q) \o t = p \o (q \o t)
    BY ConcatAssociative
  <2>3. (u \o (a \o b1)) \o b2 = ((u \o a) \o b1) \o b2
    BY <1>2, <1>3, <2>30
  <2>4. u \o a \in Seq(Item)
    BY <1>2
  <2>5. ((u \o a) \o b1) \o b2 = (u \o a) \o (b1 \o b2)
    BY Zenon, <1>3, <2>4, <2>30
  <2> QED BY <1>3, <2>2, <2>3, <2>5
<1> QED BY <1>6, <1>7, <1>8

\* The server receives from client c.
LEMMA ReceiveKeepsNet ==
  ASSUME NetInv, Receive, todo[1] \in TaskType,
         \A c \in Slot : c = todo[1][2] /\ c \notin polled.want => conn[c].used = 0
  PROVE  NetInv'
<1> DEFINE c == todo[1][2]
           x == conn[c]
           s == x.sock
           k == sock[s]
           n == Least(InMax - x.used, Len(k.in))
           y == [x EXCEPT !.in = @ \o SubSeq(k.in, 1, n), !.used = @ + n, !.quiet = FALSE]
           m == [k EXCEPT !.in = SubSeq(@, n + 1, Len(@))]
<1>1. c \in Slot
  BY Zenon, TaskIs DEF Receive, Task
<1>2. UNCHANGED <<http, backlog>>
  BY Zenon DEF Receive
<1>3. /\ wire \in [Sock -> WireType] /\ sock \in [Sock -> SockType] /\ conn \in [Slot -> ConnType]
      /\ x \in ConnType /\ s \in Sock \cup {None} /\ (s # None => sock[s].at = "open" /\ wire[s].whole /\ wire[s].ordered)
      /\ s # None => Fine(c, x, k, wire[s])
  <2>1. s # None => s \in Sock
    BY <1>1, SocketsAre
  <2> QED BY <1>1, <2>1, SocketsAre, OnePlace, InputIsOfClient DEF NetInv, StreamIntact
<1>4. CASE UNCHANGED <<conn, sock, wire>>
  BY <1>2, <1>4, NothingMoves
<1>5. CASE s # None /\ Close(c)
  BY <1>1, <1>2, <1>3, <1>5, ClientGoes DEF Close
<1>6. CASE /\ s # None /\ c \notin polled.want /\ x.used # InMax /\ n # 0
           /\ conn' = [conn EXCEPT ![c].in = @ \o SubSeq(sock[s].in, 1, n), ![c].used = @ + n, ![c].quiet = FALSE]
           /\ sock' = [sock EXCEPT ![s].in = SubSeq(@, n + 1, Len(@))]
           /\ UNCHANGED wire
  <2>1. x.used = 0 /\ k \in SockType /\ s \in Sock
    BY Zenon, <1>1, <1>3, <1>6
  <2>2. n \in 1..Len(k.in)
    <3> DEFINE l == Len(k.in)
    <3>1. InMax \in Nat \ {0}
      BY ServerAssumption
    <3>2. k.in \in Seq(Item)
      BY <2>1 DEF SockType
    <3>4. n = (IF InMax - x.used < l THEN InMax - x.used ELSE l) /\ n # 0 /\ x.used = 0
      BY Zenon, <1>6, <2>1 DEF Least
    <3> HIDE DEF n, x, k
    <3>3. l \in Nat
      BY ONLY <3>2, LenProperties
    <3> HIDE DEF l
    <3>5. n \in 1..l
      BY ONLY <3>1, <3>3, <3>4
    <3> QED BY <3>5 DEF l
  <2>3. conn' = [conn EXCEPT ![c] = y] /\ sock' = [sock EXCEPT ![s] = m] /\ wire' = [wire EXCEPT ![s] = wire[s]]
    <3>1. conn' = [conn EXCEPT ![c] = y]
      BY Zenon, <1>1, <1>3, <1>6
    <3>2. sock' = [sock EXCEPT ![s] = m]
      BY Zenon, <1>3, <1>6, <2>1
    <3> QED BY Zenon, <1>3, <1>6, <2>1, <3>1, <3>2
  <2>4. Received(x, k, n, y, m)
    BY <1>3, <2>1, <2>2 DEF Received
  <2> HIDE DEF n, y, m, c, x, s, k
  <2>5. /\ y \in ConnType /\ m \in SockType /\ Pipe(y, m) = Pipe(x, k)
        /\ y.sock = x.sock /\ y.pend = x.pend /\ y.dec = x.dec /\ y.out = x.out /\ y.ctl = x.ctl /\ y.closing = x.closing
        /\ y.stream = x.stream /\ y.handled = x.handled
        /\ m.at = k.at /\ m.head = k.head /\ m.asked = k.asked /\ m.last = k.last /\ m.pings = k.pings
    BY ONLY <2>4, PipeStays
  <2>6. Fine(c, y, m, wire[s])
    <3> DEFINE w == wire[s]
    <3>1. Fine(c, x, k, w)
      BY <1>3, <1>6
    <3> HIDE DEF w
    <3>2. Good(w, y)
      BY <2>5, <3>1, GoodSame DEF Fine
    <3>3. c = "web" => Line(y, m, w, Pipe(y, m))
      BY <2>5, <3>1 DEF Fine, Line
    <3> QED BY <2>5, <3>1, <3>2, <3>3 DEF Fine, w
  <2>7. m.at = "open" /\ m.head = sock[s].head /\ y.sock = s /\ s = conn[c].sock /\ s # None
    BY <1>3, <1>6, <2>5 DEF k, s, x
  <2> QED BY Zenon, <1>1, <1>2, <2>3, <2>6, <2>7, ClientMoves
<1>7. \/ UNCHANGED <<conn, sock, wire>>
      \/ s # None /\ Close(c)
      \/ /\ s # None /\ c \notin polled.want /\ x.used # InMax /\ n # 0
         /\ conn' = [conn EXCEPT ![c].in = @ \o SubSeq(sock[s].in, 1, n), ![c].used = @ + n, ![c].quiet = FALSE]
         /\ sock' = [sock EXCEPT ![s].in = SubSeq(@, n + 1, Len(@))]
         /\ UNCHANGED wire
  BY Zenon DEF Receive
<1> QED BY Zenon, <1>4, <1>5, <1>6, <1>7

\* The next frame of the answer to client y.
Adding(y) == [y EXCEPT !.out = Frame(y.handled, y.stream - 1), !.stream = @ - 1]

\* The wire may be followed by the next frame of an answer.
LEMMA NextFrame ==
  ASSUME NEW c, NEW y, NEW k, NEW w, Fine(c, y, k, w), y.out = <<>>, y.ctl = <<>>, y.stream > 0, NEW z, Is(z, Adding(y))
  PROVE  Fine(c, z, k, w) /\ z.sock = y.sock
<1> USE DEF Is
<1> DEFINE m == y.handled
           n == y.stream - 1
           f == Frame(m, n)
<1>1. y \in ConnType /\ k \in SockType /\ w \in WireType /\ Good(w, y) /\ (y.stream > 0 => y.handled > 0)
  BY DEF Fine
<1>2. m \in Nat /\ m # 0 /\ n \in Nat /\ y.stream = n + 1
  BY <1>1 DEF ConnType
<1>3. f \in Seq(Half)
  BY <1>2, FrameTyped
<1>4. z = [y EXCEPT !.out = f, !.stream = n]
  BY DEF Adding
<1> HIDE DEF Is
<1> HIDE DEF f
<1>5. /\ z \in ConnType /\ z.sock = y.sock /\ z.in = y.in /\ z.pend = y.pend /\ z.dec = y.dec /\ z.out = f /\ z.ctl = y.ctl
      /\ z.closing = y.closing /\ z.stream = n /\ z.handled = m
  BY <1>1, <1>2, <1>3, <1>4 DEF ConnType
<1>6. Good(w, z)
  <2>1. z.out = Frame(m, n) /\ z.ctl = <<>> /\ z.handled = m /\ z.stream = n
    BY <1>5 DEF f
  <2>2. (y.handled = m /\ y.stream = n + 1) \/ (y.handled + 1 = m /\ y.stream = 0)
    BY <1>2
  <2> HIDE DEF m, n
  <2> QED BY <1>1, <1>2, <1>5, <2>1, <2>2, FrameFollows
<1>7. c = "web" => Line(z, k, w, Pipe(z, k))
  <2> SUFFICES ASSUME c = "web" PROVE Line(z, k, w, Pipe(z, k))
    OBVIOUS
  <2> DEFINE p == Pipe(y, k)
  <2>1. Line(y, k, w, p) /\ Pipe(z, k) = p
    BY <1>5 DEF Fine, Pipe, Pend
  <2> HIDE DEF p
  <2>2. ~(Asks(p) > 0 \/ k.last = "part")
    BY <1>2, <2>1 DEF Line
  <2>3. Debt(w, z.ctl) = Debt(w, y.ctl)
    BY <1>5
  <2> QED BY <1>5, <2>1, <2>2, <2>3 DEF Line
<1>8. c # "web" => z.ctl = <<>> /\ z.closing = FALSE /\ z.pend = None
  BY <1>5 DEF Fine
<1>9. z.stream > 0 => z.handled > 0
  BY <1>2, <1>5
<1> QED BY <1>1, <1>5, <1>6, <1>7, <1>8, <1>9 DEF Fine

\* What is there to be sent is sent, and a frame of the answer follows.
LEMMA PumpKeepsNet ==
  ASSUME NetInv, Pump, todo[1] \in TaskType
  PROVE  NetInv'
<1> DEFINE c == todo[1][2]
           x == conn[c]
           s == x.sock
           k == [sock[s] EXCEPT !.buf = @ + Sends(x)]
           v == OnWire(x)[s]
           y == Rest(x)
           adds == (y.out = <<>> /\ y.ctl = <<>>) /\ y.stream > 0 /\ todo[1][3] > 0
           z == IF adds THEN Adding(y) ELSE y
<1>1. c \in Slot /\ UNCHANGED <<http, backlog>>
  BY Zenon, TaskIs DEF Pump, Task
<1>2. CASE ~MayPump(c)
  <2>1. UNCHANGED <<conn, sock, wire>>
    BY <1>2 DEF Pump
  <2> QED BY <1>1, <2>1, NothingMoves
<1>3. CASE MayPump(c)
  <2>1. /\ s # None /\ s \in Sock /\ Wiring /\ sock[s].at = "open" /\ wire \in [Sock -> WireType]
        /\ sock \in [Sock -> SockType] /\ Fine(c, x, sock[s], wire[s]) /\ conn \in [Slot -> ConnType]
    <3>1. s # None
      BY <1>1, <1>3, InputIsOfClient DEF MayPump
    <3> QED BY <1>1, <3>1, SocketsAre, OnePlace, InputIsOfClient DEF Wiring
  <2>2. /\ Fine(c, y, k, v) /\ y.sock = s /\ k.at = sock[s].at /\ k.head = sock[s].head
        /\ OnWire(x) = [wire EXCEPT ![s] = v] /\ v \in WireType
    <3>1. /\ Wiring /\ c \in Slot /\ s \in Sock /\ x.sock = s /\ Fine(c, x, sock[s], wire[s])
          /\ k = [sock[s] EXCEPT !.buf = @ + Sends(x)] /\ v = OnWire(x)[s] /\ y = Rest(x)
      BY <1>1, <2>1
    <3> HIDE DEF c, x, s, k, v, y
    <3> QED BY ONLY <3>1, FineSent DEF Is
  <2>3. v.whole /\ v.ordered
    BY Zenon, <2>2, GoodIsSound DEF Fine
  <2>4. CASE Close(c)
    BY <1>1, <2>1, <2>4, ClientGoes DEF NetInv, StreamIntact, Close
  <2>5. CASE Closed(c, OnWire(x))
    <3> DEFINE w == OnWire(x)
    <3>1. w \in [Sock -> WireType] /\ w[s].whole /\ w[s].ordered /\ \A t \in Sock : t # s => w[t] = wire[t]
      BY Zenon, <2>1, <2>2, <2>3
    <3>2. Closed(c, w)
      BY <2>5
    <3> HIDE DEF w
    <3> QED BY <1>1, <2>1, <3>1, <3>2, ClientGoes
  <2>6. CASE /\ conn' = [conn EXCEPT ![c] = z]
             /\ sock' = [sock EXCEPT ![s].buf = @ + Sends(x)] /\ wire' = OnWire(x)
    <3>1. Fine(c, z, k, v) /\ z.sock = s
      <4>1. CASE adds
        <5>1. y.out = <<>> /\ y.ctl = <<>> /\ y.stream > 0 /\ z = Adding(y)
          BY <4>1
        <5> HIDE DEF y, z, k, v, adds
        <5> QED BY <2>2, <5>1, NextFrame DEF Is
      <4>2. CASE ~adds
        BY Zenon, <2>2, <4>2
      <4> QED BY <4>1, <4>2
    <3>2. sock' = [sock EXCEPT ![s] = k] /\ wire' = [wire EXCEPT ![s] = v]
      BY Zenon, <2>1, <2>2, <2>6
    <3>3. k.at = "open" /\ k.head = sock[s].head /\ s # None /\ s = conn[c].sock /\ conn' = [conn EXCEPT ![c] = z]
      BY Zenon, <2>1, <2>2, <2>6
    <3> HIDE DEF k, v, z, s, x, c
    <3> QED BY ONLY NetInv, <1>1, <3>1, <3>2, <3>3, ClientMoves
  <2>7. \/ Close(c)
        \/ Closed(c, OnWire(x))
        \/ /\ conn' = [conn EXCEPT ![c] = z]
           /\ sock' = [sock EXCEPT ![s].buf = @ + Sends(x)] /\ wire' = OnWire(x)
    BY Zenon, <1>3 DEF Pump, Adding
  <2> QED BY <2>4, <2>5, <2>6, <2>7
<1> QED BY <1>2, <1>3

-----------------------------------------------------------------------------
(***************************************************************************)
(* The clients.                                                            *)
(***************************************************************************)
\* A socket takes what its client reads, or is left.
LEMMA SocketMoves ==
  ASSUME NetInv, NEW s \in Sock, sock[s].at = "open", NEW k \in SockType, k.at = sock[s].at, k.head = sock[s].head, k.in = sock[s].in,
         k.asked = sock[s].asked, k.pings = sock[s].pings, k.last = sock[s].last,
         sock' = [sock EXCEPT ![s] = k], UNCHANGED <<http, backlog, conn, wire>>
  PROVE  NetInv'
<1>1. CASE \A c \in Slot : conn[c].sock # s
  <2>1. http' \in [1..HttpSlots -> HttpType] /\ \A i \in 1..HttpSlots : http'[i].sock = http[i].sock
    BY SocketsAre
  <2> QED BY <1>1, <2>1, OtherMoves
<1>2. ASSUME NEW c \in Slot, conn[c].sock = s PROVE NetInv'
  <2>1. s # None
    BY SocketsAre
  <2>2. Fine(c, conn[c], sock[s], wire[s])
    BY <1>2, <2>1, InputIsOfClient
  <2>3. Fine(c, conn[c], k, wire[s])
    BY <2>2, FineSocket
  <2>4. k.at = "open"
    OBVIOUS
  <2> QED BY <1>2, <2>1, <2>3, <2>4, SocketAlone
<1> QED BY <1>1, <1>2

\* A client that reads makes room in its socket.
LEMMA ClientReadsKeepsNet ==
  ASSUME NetInv, NEW s \in Sock, ClientReads(s)
  PROVE  NetInv'
<1> DEFINE k0 == sock[s]
           k == [k0 EXCEPT !.buf = 0]
<1>1. k0 \in SockType /\ sock \in [Sock -> SockType] /\ sock' = [sock EXCEPT ![s].buf = 0] /\ k0.at = "open"
      /\ UNCHANGED <<http, backlog, conn, wire>>
  BY SocketsAre DEF ClientReads, Same, Alive
<1>2. 0 \in 0..SndMax
  BY ServerAssumption
<1>3. /\ k \in SockType /\ k.at = k0.at /\ k.gone = k0.gone /\ k.in = k0.in /\ k.pieces = k0.pieces /\ k.asked = k0.asked
      /\ k.pings = k0.pings /\ k.last = k0.last /\ k.head = k0.head
  BY <1>1, <1>2, BufTyped
<1>4. sock' = [sock EXCEPT ![s] = k]
  BY <1>1
<1> HIDE DEF k
<1> QED BY <1>1, <1>3, <1>4, SocketMoves

\* A client that leaves is known of as before.
LEMMA ClientLeavesKeepsNet ==
  ASSUME NetInv, NEW s \in Sock, ClientLeaves(s)
  PROVE  NetInv'
<1> DEFINE k0 == sock[s]
           k == [k0 EXCEPT !.gone = TRUE, !.buf = 0]
<1>1. k0 \in SockType /\ sock \in [Sock -> SockType] /\ sock' = [sock EXCEPT ![s].gone = TRUE, ![s].buf = 0] /\ k0.at = "open"
      /\ UNCHANGED <<http, backlog, conn, wire>>
  BY SocketsAre DEF ClientLeaves, Same, Alive
<1>2. 0 \in 0..SndMax
  BY ServerAssumption
<1>3. /\ k \in SockType /\ k.at = k0.at /\ k.in = k0.in /\ k.asked = k0.asked
      /\ k.pings = k0.pings /\ k.last = k0.last /\ k.head = k0.head
  <2> DEFINE H == {None} \cup UNION {Heads[t] : t \in WebSock}
             T == [ at : {"new", "queued", "open", "closed"}, gone : BOOLEAN, buf : 0..SndMax, in : Seq(Item),
                    pieces : Nat, asked : Nat, pings : Nat, last : Item \cup {None}, head : H ]
  <2>1. k0 \in T /\ T = SockType
    BY <1>1 DEF SockType
  <2> HIDE DEF H, k0
  <2> QED BY <1>2, <2>1
<1>4. sock' = [sock EXCEPT ![s] = k]
  BY <1>1
<1> HIDE DEF k
<1> QED BY <1>1, <1>3, <1>4, SocketMoves

\* What the client of socket k sends.
Sending(k, item) ==
  [k EXCEPT !.in = Append(@, item), !.last = IF item = "ping" THEN @ ELSE item,
            !.asked = IF item \in {"req", "part"} THEN @ + 1 ELSE @,
            !.pieces = IF item = "piece" THEN @ + 1 ELSE @, !.pings = IF item = "ping" THEN @ + 1 ELSE @]

\* A socket with one more item.
LEMMA SendingTyped ==
  ASSUME NEW k \in SockType, NEW item \in Item, NEW m, m = Sending(k, item)
  PROVE  /\ m \in SockType /\ m.at = k.at /\ m.head = k.head /\ m.in = Append(k.in, item)
         /\ m.last = (IF item = "ping" THEN k.last ELSE item)
         /\ m.asked = (IF item \in {"req", "part"} THEN k.asked + 1 ELSE k.asked)
         /\ m.pings = (IF item = "ping" THEN k.pings + 1 ELSE k.pings)
<1> DEFINE H == {None} \cup UNION {Heads[t] : t \in WebSock}
           T == [ at : {"new", "queued", "open", "closed"}, gone : BOOLEAN, buf : 0..SndMax, in : Seq(Item),
                  pieces : Nat, asked : Nat, pings : Nat, last : Item \cup {None}, head : H ]
           i == Append(k.in, item)
           l == IF item = "ping" THEN k.last ELSE item
           a == IF item \in {"req", "part"} THEN k.asked + 1 ELSE k.asked
           e == IF item = "piece" THEN k.pieces + 1 ELSE k.pieces
           g == IF item = "ping" THEN k.pings + 1 ELSE k.pings
<1>1. k \in T /\ T = SockType
  BY DEF SockType
<1> HIDE DEF H
<1>2. k.in \in Seq(Item) /\ k.last \in Item \cup {None} /\ k.asked \in Nat /\ k.pieces \in Nat /\ k.pings \in Nat
  BY <1>1
<1>3. i \in Seq(Item)
  BY <1>2, AppendProperties
<1>4. l \in Item \cup {None} /\ a \in Nat /\ e \in Nat /\ g \in Nat
  BY <1>2
<1>5. m = [k EXCEPT !.in = i, !.last = l, !.asked = a, !.pieces = e, !.pings = g]
  BY <1>1 DEF Sending
<1> HIDE DEF i, l, a, e, g
<1>6. m \in T /\ m.at = k.at /\ m.head = k.head /\ m.in = i /\ m.last = l /\ m.asked = a /\ m.pings = g
  BY ONLY <1>1, <1>3, <1>4, <1>5
<1> QED BY <1>1, <1>6 DEF i, l, a, g

\* The wire of a queue: an answer is on its way, or all that was asked is answered.
LEMMA WireIs ==
  ASSUME NEW w \in WireType, NEW x \in ConnType, Good(w, x)
  PROVE  /\ w.n <= x.handled
         /\ w.n = x.handled /\ w.k = 0 => x.out = <<>> /\ x.stream = 0
         /\ x.out = <<>> /\ x.ctl = <<>> => w.half = <<>>
<1> DEFINE q == x.out \o x.ctl
           h == x.handled
           t == x.stream
<1>1. /\ q \in Seq(Half) /\ Len(q) = Len(x.out) + Len(x.ctl)
      /\ \A j \in 1..Len(x.out) : q[j] = x.out[j]
      /\ \A j \in 1..Len(q) : q[j][1] = 0 <=> j > Len(x.out)
  BY QueueIs
<1>2. h \in Nat /\ t \in Nat /\ Len(x.out) \in Nat /\ Len(x.ctl) \in Nat /\ w.n \in Nat /\ w.k \in Nat
      /\ x.out \in Seq(Half) /\ x.ctl \in Seq(Half)
  BY DEF ConnType, WireType
<1>3. Meets(w, q, 0, h, t)
  BY DEF Good
<1> HIDE DEF q, h, t
<1>4. IF 0 < Len(q) /\ q[1][1] # 0 THEN (w.n = h /\ w.k = t + 1) \/ (w.n + 1 = h /\ w.k = 0) ELSE w.n = h /\ w.k = t
  BY <1>3, 0 + 1 = 1 DEF Meets
<1>5. w.n <= h
  BY <1>2, <1>4
<1>6. w.n = h /\ w.k = 0 => x.out = <<>> /\ t = 0
  <2> SUFFICES ASSUME w.n = h, w.k = 0 PROVE x.out = <<>> /\ t = 0
    OBVIOUS
  <2>1. ~(0 < Len(q) /\ q[1][1] # 0)
    BY <1>2, <1>4
  <2>2. t = 0
    BY <1>4, <2>1
  <2>3. Len(x.out) = 0
    <3> SUFFICES ASSUME Len(x.out) # 0 PROVE FALSE
      OBVIOUS
    <3> DEFINE l == Len(x.out)
               n == Len(q)
    <3>1. l \in Nat /\ l # 0 /\ n = l + Len(x.ctl) /\ Len(x.ctl) \in Nat
      BY <1>1, <1>2
    <3> HIDE DEF l, n
    <3>2. 0 < n /\ 1 \in 1..n /\ ~(1 > l)
      BY <3>1
    <3>3. ~(q[1][1] = 0)
      BY <1>1, <3>2 DEF l, n
    <3> QED BY <2>1, <3>2, <3>3 DEF n
  <2>4. x.out = <<>>
    BY <1>2, <2>3
  <2> QED BY <2>2, <2>4
<1>7. x.out = <<>> /\ x.ctl = <<>> => w.half = <<>>
  BY EmptyQueue
<1> QED BY <1>5, <1>6, <1>7 DEF h, t

\* What is sent last, and what was sent before it.
LEMMA PipeGrows ==
  ASSUME NEW x \in ConnType, NEW k \in SockType, NEW m \in SockType, NEW item \in Item, m.in = Append(k.in, item)
  PROVE  Pipe(x, m) = Append(Pipe(x, k), item) /\ Pipe(x, k) \in Seq(Item)
<1> DEFINE a == Pend(x) \o x.in
           b == k.in
<1>1. a \in Seq(Item) /\ b \in Seq(Item)
  BY DEF ConnType, SockType, Pend
<1>2. Pipe(x, m) = a \o Append(b, item) /\ Pipe(x, k) = a \o b
  BY DEF Pipe
<1> HIDE DEF a, b
<1>3. a \o Append(b, item) = Append(a \o b, item) /\ a \o b \in Seq(Item)
  BY <1>1
<1> QED BY <1>2, <1>3

\* Append, place by place.
LEMMA AppendAt ==
  ASSUME NEW p \in Seq(Item), NEW item \in Item, NEW q, q = Append(p, item)
  PROVE  /\ q \in Seq(Item) /\ Len(q) = Len(p) + 1 /\ Len(p) \in Nat /\ q # <<>>
         /\ \A i \in 1..Len(p) : q[i] = p[i]
         /\ q[Len(p) + 1] = item
         /\ \A i \in 1..Len(q) : i \in 1..Len(p) \/ i = Len(p) + 1
         /\ p = <<>> <=> Len(p) = 0
         /\ p # <<>> => 1 \in 1..Len(p)
BY AppendProperties, LenProperties, EmptySeq

\* How often is asked in a pipe does not change with a ping or the last word.
LEMMA AsksStay ==
  ASSUME NEW p \in Seq(Item), Shape(p), NEW item \in Item \ Ask, NEW q, q = Append(p, item)
  PROVE  /\ Asks(q) = Asks(p) /\ Asks(p) \in 0..Len(p)
         /\ Asks(p) > 0 => q[1] = p[1] /\ q[Asks(p)] = p[Asks(p)]
<1> DEFINE l == Len(p)
<1>1. /\ q \in Seq(Item) /\ Len(q) = l + 1 /\ l \in Nat /\ q # <<>>
      /\ \A i \in 1..l : q[i] = p[i]
      /\ q[l + 1] = item /\ (p = <<>> <=> l = 0)
  BY AppendAt
<1>2. Asks(p) = (IF l = 0 \/ p[1] \notin Ask THEN 0 ELSE IF l = 1 \/ p[2] \notin Ask THEN 1 ELSE 2)
  BY <1>1 DEF Asks
<1>3. Asks(q) = (IF q[1] \notin Ask THEN 0 ELSE IF l = 0 \/ q[2] \notin Ask THEN 1 ELSE 2)
  BY <1>1 DEF Asks
<1> HIDE DEF l
<1>4. ASSUME l = 0
      PROVE  /\ Asks(q) = Asks(p) /\ Asks(p) \in 0..l
             /\ Asks(p) > 0 => q[1] = p[1] /\ q[Asks(p)] = p[Asks(p)]
  BY <1>1, <1>2, <1>3, <1>4
<1>5. ASSUME l = 1
      PROVE  /\ Asks(q) = Asks(p) /\ Asks(p) \in 0..l
             /\ Asks(p) > 0 => q[1] = p[1] /\ q[Asks(p)] = p[Asks(p)]
  BY <1>1, <1>2, <1>3, <1>5
<1>6. ASSUME l > 1
      PROVE  /\ Asks(q) = Asks(p) /\ Asks(p) \in 0..l
             /\ Asks(p) > 0 => q[1] = p[1] /\ q[Asks(p)] = p[Asks(p)]
  <2>1. 1 \in 1..l /\ 2 \in 1..l
    BY <1>1, <1>6
  <2> QED BY <1>1, <1>2, <1>3, <1>6, <2>1
<1>7. l = 0 \/ l = 1 \/ l > 1
  BY <1>1
<1>8. /\ Asks(q) = Asks(p) /\ Asks(p) \in 0..l
      /\ Asks(p) > 0 => q[1] = p[1] /\ q[Asks(p)] = p[Asks(p)]
  BY ONLY <1>4, <1>5, <1>6, <1>7
<1> QED BY <1>8 DEF l

\* What client k sends, and what is its pipe then.
PageSends(x, k, w, p, item, m, q) ==
  /\ x \in ConnType /\ k \in SockType /\ w \in WireType /\ Good(w, x)
  /\ p \in Seq(Item) /\ p = Pipe(x, k) /\ Line(x, k, w, p) /\ k.last \notin Final
  /\ item \in Item /\ m = Sending(k, item) /\ q = Append(p, item)

\* A ping, or the page's last word.
LEMMA OtherSent ==
  ASSUME NEW x, NEW k, NEW w, NEW p, NEW item, NEW m, NEW q, PageSends(x, k, w, p, item, m, q), item \in {"ping", "close", "text"}
  PROVE  Line(x, m, w, q)
<1>1. /\ x \in ConnType /\ k \in SockType /\ w \in WireType /\ Line(x, k, w, p) /\ k.last \notin Final
      /\ p \in Seq(Item) /\ item \in Item /\ q = Append(p, item) /\ m = Sending(k, item) /\ item \notin Ask
  BY DEF PageSends, Ask
<1>2. /\ q \in Seq(Item) /\ Len(q) = Len(p) + 1 /\ Len(p) \in Nat
      /\ \A i \in 1..Len(p) : q[i] = p[i]
      /\ q[Len(p) + 1] = item
      /\ \A i \in 1..Len(q) : i \in 1..Len(p) \/ i = Len(p) + 1
  BY <1>1, AppendAt
<1>3. /\ m.last = (IF item = "ping" THEN k.last ELSE item) /\ m.asked = k.asked
      /\ m.pings = (IF item = "ping" THEN k.pings + 1 ELSE k.pings) /\ k.pings \in Nat /\ k.asked \in Nat
  <2>1. k.pings \in Nat /\ k.asked \in Nat
    BY <1>1 DEF SockType
  <2> QED BY <1>1, <2>1, SendingTyped
<1>4. Shape(p) /\ \A i \in 1..Len(p) : p[i] \notin Final
  BY <1>1 DEF Line
<1>5. /\ Asks(q) = Asks(p) /\ Asks(p) \in 0..Len(p)
      /\ Asks(p) > 0 => q[1] = p[1] /\ q[Asks(p)] = p[Asks(p)]
  BY <1>1, <1>4, AsksStay
<1>6. Shape(q)
  <2>1. \A i \in 1..Len(q) : q[i] \in Ask \cup Final \cup {"ping"}
    BY <1>2, <1>4 DEF Shape, Final
  <2>2. \A i \in 1..Len(q) : q[i] \in Final => i = Len(q)
    BY <1>2, <1>4
  <2>3. \A i \in 1..Len(q) : q[i] \in Ask => i = 1 \/ (i = 2 /\ q[1] = "part" /\ q[2] = "rest")
    <3> SUFFICES ASSUME NEW i \in 1..Len(q), q[i] \in Ask PROVE i = 1 \/ (i = 2 /\ q[1] = "part" /\ q[2] = "rest")
      OBVIOUS
    <3>1. i \in 1..Len(p)
      BY <1>1, <1>2
    <3>2. i = 1 \/ (i = 2 /\ p[1] = "part" /\ p[2] = "rest")
      BY <1>2, <1>4, <3>1 DEF Shape
    <3>3. i = 2 => 1 \in 1..Len(p) /\ 2 \in 1..Len(p)
      BY <1>2, <3>1
    <3> QED BY <1>2, <3>2, <3>3
  <2> QED BY <2>1, <2>2, <2>3 DEF Shape
<1>7. m.last = "part" <=> k.last = "part" /\ item = "ping"
  BY <1>3
<1>8. m.last \notin Final => item = "ping" /\ m.last = k.last
  BY <1>3 DEF Final
<1>9. m.last \notin Final => \A i \in 1..Len(q) : q[i] \notin Final
  BY <1>2, <1>4, <1>8 DEF Final
<1>10. m.last \notin Final => Debt(w, x.ctl) + 2 * (Len(q) - Asks(q)) <= 2 * m.pings
  <2> DEFINE d == Debt(w, x.ctl)
  <2> SUFFICES ASSUME m.last \notin Final PROVE d + 2 * (Len(q) - Asks(q)) <= 2 * m.pings
    OBVIOUS
  <2>1. d + 2 * (Len(p) - Asks(p)) <= 2 * k.pings
    BY <1>1 DEF Line
  <2>2. m.pings = k.pings + 1
    BY <1>3, <1>8
  <2>3. d \in Nat
    <3>1. x.ctl \in Seq(Half) /\ w.pongs \in Nat
      BY <1>1 DEF ConnType, WireType
    <3> QED BY <3>1 DEF Debt, Owed
  <2> DEFINE l == Len(p)
             a == Asks(p)
             g == k.pings
  <2>4. d + 2 * (l - a) <= 2 * g /\ m.pings = g + 1 /\ Len(q) = l + 1 /\ Asks(q) = a
        /\ l \in Nat /\ a \in 0..l /\ g \in Nat /\ d \in Nat
    BY <1>2, <1>3, <1>5, <2>1, <2>2, <2>3
  <2> HIDE DEF d, l, a, g
  <2>5. d + 2 * ((l + 1) - a) <= 2 * (g + 1)
    BY ONLY <2>4
  <2> QED BY <2>4, <2>5
<1>11. /\ x.handled <= k.asked
       /\ Asks(p) > 0 \/ k.last = "part" => k.asked = x.handled + 1 /\ x.out = <<>> /\ x.stream = 0
       /\ Asks(p) > 0 => x.ctl = <<>> /\ w.half = <<>>
       /\ Asks(p) > 0 /\ k.last \notin Final => k.last = p[Asks(p)]
       /\ x.pend \in Ask \cup {None}
       /\ IF Asks(p) > 0
          THEN x.dec = (IF x.pend = None THEN (IF p[1] = "rest" THEN "message" ELSE "idle")
                        ELSE IF x.pend = "part" THEN "message" ELSE "idle")
          ELSE k.last \notin Final => x.dec = (IF k.last = "part" THEN "message" ELSE "idle")
  BY <1>1 DEF Line
<1>12. /\ x.handled <= m.asked
       /\ Asks(q) > 0 \/ m.last = "part" => m.asked = x.handled + 1 /\ x.out = <<>> /\ x.stream = 0
       /\ Asks(q) > 0 => x.ctl = <<>> /\ w.half = <<>>
  BY <1>3, <1>5, <1>7, <1>11
<1>13. Asks(q) > 0 /\ m.last \notin Final => m.last = q[Asks(q)]
  BY <1>1, <1>5, <1>8, <1>11
<1>14. IF Asks(q) > 0
       THEN x.dec = (IF x.pend = None THEN (IF q[1] = "rest" THEN "message" ELSE "idle")
                     ELSE IF x.pend = "part" THEN "message" ELSE "idle")
       ELSE m.last \notin Final => x.dec = (IF m.last = "part" THEN "message" ELSE "idle")
  BY <1>1, <1>5, <1>8, <1>11
<1> QED BY <1>6, <1>9, <1>10, <1>11, <1>12, <1>13, <1>14 DEF Line

\* The page asked before, or not: what is in its pipe when all its pongs are there.
LEMMA PongedPipe ==
  ASSUME NEW x, NEW k, NEW w, NEW p, NEW item, NEW m, NEW q, PageSends(x, k, w, p, item, m, q), w.pongs = k.pings
  PROVE  /\ x.ctl = <<>> /\ Len(p) = Asks(p) /\ Asks(p) \in {0, 1, 2}
         /\ Asks(p) = 0 => p = <<>> /\ x.pend = None
         /\ Debt(w, <<>>) = 2 * k.pings
<1>1. /\ x \in ConnType /\ k \in SockType /\ w \in WireType /\ Line(x, k, w, p) /\ k.last \notin Final
      /\ p \in Seq(Item) /\ p = Pipe(x, k)
  BY DEF PageSends
<1> DEFINE a == Asks(p)
           l == Len(p)
           c == Len(x.ctl)
           e == IF w.half = <<0, 0, 1>> THEN 1 ELSE 0
<1>2. Shape(p) /\ Debt(w, x.ctl) + 2 * (l - a) <= 2 * k.pings
  BY <1>1 DEF Line
<1>3. x.ctl \in Seq(Half) /\ w.pongs \in Nat
  BY <1>1 DEF ConnType, WireType
<1>4. c \in Nat /\ l \in Nat
  BY <1>1, <1>3
<1>5. a \in {0, 1, 2} /\ a <= l
  <2>1. l = 0 <=> p = <<>>
    BY <1>1
  <2>2. a = (IF l = 0 \/ p[1] \notin Ask THEN 0 ELSE IF l = 1 \/ p[2] \notin Ask THEN 1 ELSE 2)
    BY <2>1 DEF Asks
  <2> HIDE DEF a, l
  <2> QED BY <1>4, <2>2
<1>6. Debt(w, x.ctl) = 2 * w.pongs + e + c
  BY DEF Debt, Owed
<1>7. e \in {0, 1}
  OBVIOUS
<1> HIDE DEF a, l, c, e
<1>8. c = 0 /\ e = 0 /\ l = a
  BY ONLY <1>2, <1>3, <1>4, <1>5, <1>6, <1>7, w.pongs = k.pings
<1>9. x.ctl = <<>>
  BY <1>3, <1>8 DEF c
<1>10. Debt(w, <<>>) = 2 * k.pings
  BY <1>3, <1>6, <1>8, <1>9
<1>11. a = 0 => p = <<>> /\ x.pend = None
  <2> SUFFICES ASSUME a = 0 PROVE p = <<>> /\ x.pend = None
    OBVIOUS
  <2>1. p = <<>>
    BY <1>1, <1>8 DEF l
  <2>2. x.pend # None => p # <<>>
    BY <1>1, PipeIs
  <2> QED BY <2>1, <2>2
<1> QED BY <1>5, <1>8, <1>9, <1>10, <1>11 DEF a, l

\* A request, or the first part of one, when all is answered.
LEMMA RequestSent ==
  ASSUME NEW x, NEW k, NEW w, NEW p, NEW item, NEW m, NEW q, PageSends(x, k, w, p, item, m, q), item \in {"req", "part"},
         w.n = k.asked, w.k = 0, w.pongs = k.pings
  PROVE  Line(x, m, w, q)
<1>1. /\ x \in ConnType /\ k \in SockType /\ w \in WireType /\ Good(w, x) /\ Line(x, k, w, p) /\ k.last \notin Final
      /\ p \in Seq(Item) /\ item \in Item /\ q = Append(p, item) /\ m = Sending(k, item)
  BY DEF PageSends
<1>2. /\ w.n <= x.handled
      /\ w.n = x.handled /\ w.k = 0 => x.out = <<>> /\ x.stream = 0
      /\ x.out = <<>> /\ x.ctl = <<>> => w.half = <<>>
  BY <1>1, WireIs
<1>3. x.handled \in Nat /\ k.asked \in Nat /\ k.pings \in Nat
  BY <1>1 DEF ConnType, SockType
<1>4. /\ x.handled <= k.asked
      /\ Asks(p) > 0 \/ k.last = "part" => k.asked = x.handled + 1
      /\ ~(Asks(p) > 0) => x.dec = (IF k.last = "part" THEN "message" ELSE "idle")
  BY <1>1 DEF Line
<1>5. x.handled = k.asked /\ ~(Asks(p) > 0) /\ k.last # "part"
  BY <1>2, <1>3, <1>4
<1>6. /\ x.ctl = <<>> /\ Len(p) = Asks(p) /\ Asks(p) \in {0, 1, 2}
      /\ Asks(p) = 0 => p = <<>> /\ x.pend = None
      /\ Debt(w, <<>>) = 2 * k.pings
  BY PongedPipe
<1>7. p = <<>> /\ x.pend = None /\ x.out = <<>> /\ x.stream = 0 /\ w.half = <<>> /\ x.dec = "idle" /\ x.ctl = <<>>
  BY <1>2, <1>4, <1>5, <1>6
<1>8. q = <<item>> /\ Len(q) = 1 /\ q[1] = item /\ q # <<>>
  BY <1>1, <1>7
<1>9. Asks(q) = 1
  BY <1>8 DEF Asks, Ask
<1>10. m.last = item /\ m.asked = k.asked + 1 /\ m.pings = k.pings
  <2>1. /\ m.last = (IF item = "ping" THEN k.last ELSE item)
        /\ m.asked = (IF item \in {"req", "part"} THEN k.asked + 1 ELSE k.asked)
        /\ m.pings = (IF item = "ping" THEN k.pings + 1 ELSE k.pings)
    BY <1>1, SendingTyped
  <2> QED BY <2>1
<1>11. Shape(q)
  BY <1>8 DEF Shape, Ask, Final
<1>12. item \notin Final /\ item # "rest"
  BY DEF Final
<1>13. Debt(w, x.ctl) + 2 * (Len(q) - Asks(q)) <= 2 * m.pings
  BY <1>3, <1>6, <1>8, <1>9, <1>10
<1>14. x.handled <= m.asked /\ m.asked = x.handled + 1
  BY <1>3, <1>5, <1>10
<1>15. \A i \in 1..Len(q) : q[i] \notin Final
  BY <1>8, <1>12
<1>16. m.last = q[Asks(q)] /\ x.dec = (IF q[1] = "rest" THEN "message" ELSE "idle")
  BY <1>7, <1>8, <1>9, <1>10, <1>12
<1>17. Asks(q) > 0
  BY <1>9
<1> QED BY <1>7, <1>11, <1>13, <1>14, <1>15, <1>16, <1>17 DEF Line

\* The rest of a request.
LEMMA RestSent ==
  ASSUME NEW x, NEW k, NEW w, NEW p, NEW item, NEW m, NEW q, PageSends(x, k, w, p, item, m, q), item = "rest",
         k.last = "part", w.pongs = k.pings
  PROVE  Line(x, m, w, q)
<1>1. /\ x \in ConnType /\ k \in SockType /\ w \in WireType /\ Good(w, x) /\ Line(x, k, w, p) /\ k.last \notin Final
      /\ p \in Seq(Item) /\ item \in Item /\ q = Append(p, item) /\ m = Sending(k, item)
  BY DEF PageSends
<1>2. x.out = <<>> /\ x.ctl = <<>> => w.half = <<>>
  BY <1>1, WireIs
<1>3. x.handled \in Nat /\ k.asked \in Nat /\ k.pings \in Nat
  BY <1>1 DEF ConnType, SockType
<1>4. /\ x.handled <= k.asked /\ k.asked = x.handled + 1 /\ x.out = <<>> /\ x.stream = 0 /\ Shape(p)
      /\ Asks(p) > 0 => k.last = p[Asks(p)]
      /\ x.pend \in Ask \cup {None}
      /\ IF Asks(p) > 0
         THEN x.dec = (IF x.pend = None THEN (IF p[1] = "rest" THEN "message" ELSE "idle")
                       ELSE IF x.pend = "part" THEN "message" ELSE "idle")
         ELSE x.dec = "message"
  BY <1>1 DEF Line
<1>5. /\ x.ctl = <<>> /\ Len(p) = Asks(p) /\ Asks(p) \in {0, 1, 2}
      /\ Asks(p) = 0 => p = <<>> /\ x.pend = None
      /\ Debt(w, <<>>) = 2 * k.pings
  BY PongedPipe
<1>6. w.half = <<>>
  BY <1>2, <1>4, <1>5
<1>7. Len(p) \in {0, 1} /\ (Len(p) = 1 => p[1] = "part")
  <2>1. Len(p) # 2
    <3> SUFFICES ASSUME Len(p) = 2 PROVE FALSE
      OBVIOUS
    <3>0. Asks(p) = 2 /\ Asks(p) > 0
      BY <1>5
    <3>1. p[2] = "part" /\ 2 \in 1..Len(p)
      BY <1>4, <3>0
    <3>2. p[2] = "rest"
      BY <1>4, <3>1 DEF Shape, Ask
    <3> QED BY <3>1, <3>2
  <2> QED BY <1>4, <1>5, <2>1
<1>8. /\ q \in Seq(Item) /\ Len(q) = Len(p) + 1 /\ q # <<>>
      /\ \A i \in 1..Len(p) : q[i] = p[i]
      /\ q[Len(p) + 1] = item
      /\ \A i \in 1..Len(q) : i \in 1..Len(p) \/ i = Len(p) + 1
  BY <1>1, AppendAt
<1>9. \/ Len(q) = 1 /\ q[1] = "rest" /\ Asks(p) = 0
      \/ Len(q) = 2 /\ q[1] = "part" /\ q[2] = "rest" /\ Asks(p) = 1 /\ p[1] = q[1]
  BY <1>5, <1>7, <1>8
<1>10. Asks(q) = Len(q) /\ q[Len(q)] = "rest" /\ Len(q) \in {1, 2}
  BY <1>8, <1>9 DEF Asks, Ask
<1>11. m.last = "rest" /\ m.asked = k.asked /\ m.pings = k.pings
  <2>1. /\ m.last = (IF item = "ping" THEN k.last ELSE item)
        /\ m.asked = (IF item \in {"req", "part"} THEN k.asked + 1 ELSE k.asked)
        /\ m.pings = (IF item = "ping" THEN k.pings + 1 ELSE k.pings)
    BY <1>1, SendingTyped
  <2> QED BY <2>1
<1>12. \A i \in 1..Len(q) : q[i] \in {"part", "rest"} /\ (i = 1 \/ (i = 2 /\ q[1] = "part" /\ q[2] = "rest"))
  <2>1. CASE Len(q) = 1 /\ q[1] = "rest"
    BY <2>1
  <2>2. CASE Len(q) = 2 /\ q[1] = "part" /\ q[2] = "rest"
    BY <2>2
  <2> QED BY <1>9, <2>1, <2>2
<1>13. Shape(q) /\ \A i \in 1..Len(q) : q[i] \notin Final
  BY <1>12 DEF Shape, Ask, Final
<1>14. Debt(w, x.ctl) + 2 * (Len(q) - Asks(q)) <= 2 * m.pings
  BY <1>3, <1>5, <1>10, <1>11
<1>15. x.dec = (IF x.pend = None THEN (IF q[1] = "rest" THEN "message" ELSE "idle")
                ELSE IF x.pend = "part" THEN "message" ELSE "idle")
  BY <1>4, <1>5, <1>9
<1>16. Asks(q) > 0 /\ m.last = q[Asks(q)]
  BY <1>10, <1>11
<1> QED BY <1>4, <1>5, <1>6, <1>11, <1>13, <1>14, <1>15, <1>16 DEF Line

\* A client sends an item that it may send.
LEMMA ClientSendsKeepsNet ==
  ASSUME NetInv, NEW s \in Sock, ClientSends(s)
  PROVE  NetInv'
<1> USE DEF Slot
<1> DEFINE k == sock[s]
           w == wire[s]
<1>1. /\ k \in SockType /\ w \in WireType /\ sock \in [Sock -> SockType] /\ k.at = "open" /\ UNCHANGED <<http, backlog, conn, wire>>
      /\ conn["raw"].sock \in RawSock \cup {None} /\ conn["web"].sock \in WebSock \cup {None}
      /\ RawSock \cap WebSock = {} /\ None \notin RawSock \cup WebSock /\ Sock = RawSock \cup WebSock
  BY SocketsAre DEF ClientSends, Same, Alive
<1>2. PICK item \in Sendable(s) :
       sock' = [sock EXCEPT ![s].in = Append(@, item),
                            ![s].last = IF item = "ping" THEN @ ELSE item,
                            ![s].asked = IF item \in {"req", "part"} THEN @ + 1 ELSE @,
                            ![s].pieces = IF item = "piece" THEN @ + 1 ELSE @,
                            ![s].pings = IF item = "ping" THEN @ + 1 ELSE @]
  BY Zenon DEF ClientSends
<1> DEFINE m == Sending(k, item)
<1>3. sock' = [sock EXCEPT ![s] = m]
  BY <1>1, <1>2 DEF Sending
<1>4. /\ ~IsClient(s) => item = "piece" /\ s \in WebSock
      /\ IsClient(s) => k.last \notin Final
      /\ item \in Item
      /\ IsClient(s) /\ s \in WebSock =>
           \/ item \in {"ping", "close", "text"}
           \/ item \in {"req", "part"} /\ w.n = k.asked /\ w.k = 0 /\ w.pongs = k.pings
           \/ item = "rest" /\ k.last = "part" /\ w.pongs = k.pings
  BY <1>1 DEF Sendable, Answered, Ponged, Final, Item
<1>5. /\ m \in SockType /\ m.at = k.at /\ m.head = k.head /\ m.in = Append(k.in, item)
      /\ m.last = (IF item = "ping" THEN k.last ELSE item)
      /\ m.asked = (IF item \in {"req", "part"} THEN k.asked + 1 ELSE k.asked)
      /\ m.pings = (IF item = "ping" THEN k.pings + 1 ELSE k.pings)
  BY <1>1, <1>4, SendingTyped
<1>6. CASE ~IsClient(s)
  <2>1. item = "piece" /\ s \in WebSock /\ conn["web"].sock # s
    BY <1>1, <1>4, <1>6 DEF IsClient, SlotOf
  <2>2. \A c \in Slot : conn[c].sock # s
    BY <1>1, <2>1
  <2>3. m.asked = k.asked /\ m.pings = k.pings /\ m.last \in {k.last, "piece"}
    BY <1>5, <2>1
  <2>4. http' \in [1..HttpSlots -> HttpType] /\ \A i \in 1..HttpSlots : http'[i].sock = http[i].sock
    BY <1>1, SocketsAre
  <2> HIDE DEF m
  <2> QED BY <1>1, <1>3, <1>5, <2>2, <2>3, <2>4, OtherMoves
<1>7. CASE IsClient(s)
  <2> DEFINE c == SlotOf(s)
             x == conn[c]
  <2>1. c \in Slot /\ x.sock = s /\ s # None /\ (c = "web" => s \in WebSock)
    BY <1>1, <1>7 DEF IsClient, SlotOf
  <2>2. Fine(c, x, k, w)
    BY <2>1, InputIsOfClient
  <2> HIDE DEF c
  <2>3. c = "web" => Line(x, m, w, Pipe(x, m))
    <3> SUFFICES ASSUME c = "web" PROVE Line(x, m, w, Pipe(x, m))
      OBVIOUS
    <3> DEFINE p == Pipe(x, k)
               q == Append(p, item)
    <3>1. Pipe(x, m) = q /\ p \in Seq(Item)
      <4> HIDE DEF m
      <4> QED BY <1>1, <1>4, <1>5, <2>2, PipeGrows DEF Fine
    <3>2. PageSends(x, k, w, p, item, m, q)
      BY <1>4, <1>7, <2>2, <3>1 DEF PageSends, Fine
    <3>3. \/ item \in {"ping", "close", "text"}
          \/ item \in {"req", "part"} /\ w.n = k.asked /\ w.k = 0 /\ w.pongs = k.pings
          \/ item = "rest" /\ k.last = "part" /\ w.pongs = k.pings
      BY <1>4, <1>7, <2>1
    <3> HIDE DEF p, q, m, x, k, w
    <3>4. Line(x, m, w, q)
      BY ONLY <3>2, <3>3, OtherSent, RequestSent, RestSent
    <3> QED BY <3>1, <3>4
  <2>4. Fine(c, x, m, w)
    <3> HIDE DEF m, k, w, x
    <3> QED BY <1>5, <2>2, <2>3 DEF Fine
  <2>5. m.at = "open" /\ m.head = sock[s].head
    BY <1>1, <1>5
  <2> HIDE DEF m
  <2> QED BY <1>1, <1>3, <2>1, <2>4, <2>5, SocketAlone
<1> QED BY <1>6, <1>7

-----------------------------------------------------------------------------
(***************************************************************************)
(* The network, for every step.                                            *)
(***************************************************************************)
\* What the server has with its clients is kept by every step.
LEMMA NetKept ==
  ASSUME IInv, [Next]_vars
  PROVE  NetInv'
<1> USE DEF Slot
<1>1. NetInv /\ todo # <<>> /\ todo \in Seq(TaskType)
  BY DEF IInv, TypeOK, Order, Ordered
<1>2. todo[1] \in TaskType /\ 1 \in 1..Len(todo)
  BY <1>1
<1>3. todo[1][1] = "accept" => backlog[todo[1][2]] # <<>>
  BY <1>2 DEF IInv, Order, Ordered
<1>4. \A c \in Slot : todo[1][1] = "read" /\ c = todo[1][2] /\ c \notin polled.want => conn[c].used = 0
  BY <1>2 DEF IInv, Buffers, Room
<1>5. CASE UNCHANGED vars
  BY <1>1, <1>5, NothingMoves DEF vars
<1>6. CASE Feed \/ Again \/ Poll
  <2>1. UNCHANGED <<conn, http, backlog, sock, wire>>
    BY Zenon, <1>6 DEF Feed, Again, Poll
  <2> QED BY <1>1, <2>1, NothingMoves
<1>7. CASE ProcessRaw \/ ProcessPending \/ ProcessFrame \/ ProcessEnds
  BY <1>1, <1>2, <1>7, ProcessRawKeepsNet, ProcessPendingKeepsNet, ProcessFrameKeepsNet, ProcessEndsKeepsNet
<1>8. CASE Accept \/ AcceptWeb
  <2>1. Accept => backlog["raw"] # <<>>
    BY <1>3 DEF Accept, Task
  <2>2. AcceptWeb => backlog["web"] # <<>>
    BY <1>3 DEF AcceptWeb, Task
  <2> QED BY <1>1, <1>8, <2>1, <2>2, AcceptKeepsNet, AcceptWebKeepsNet
<1>9. CASE Receive
  <2>1. \A c \in Slot : c = todo[1][2] /\ c \notin polled.want => conn[c].used = 0
    BY Zenon, <1>4, <1>9 DEF Receive, Task
  <2> QED BY <1>1, <1>2, <1>9, <2>1, ReceiveKeepsNet
<1>10. CASE HttpReceive \/ Pump \/ HttpWrite \/ Timers \/ Stop
  BY <1>1, <1>2, <1>10, HttpReceiveKeepsNet, PumpKeepsNet, HttpWriteKeepsNet, TimersKeepNet, StopKeepsNet
<1>11. CASE Clients
  BY <1>1, <1>11, ConnectKeepsNet, ClientSendsKeepsNet, ClientReadsKeepsNet, ClientLeavesKeepsNet DEF Clients
<1>12. CASE TimePasses
  BY <1>1, <1>12, GoesQuietKeepsNet, GetsOldKeepsNet DEF TimePasses
<1> QED BY <1>5, <1>6, <1>7, <1>8, <1>9, <1>10, <1>11, <1>12 DEF Next, Serve

-----------------------------------------------------------------------------
(***************************************************************************)
(* The order of the tasks.                                                 *)
(***************************************************************************)
\* The task t may come before the tasks q.
May(t, q, b) ==
  /\ t[1] \notin {"poll", "timers"}
  /\ t[1] = "accept" => b[t[2]] # <<>>
  /\ \A j \in 1..Len(q) :
       /\ q[j][1] # "process"
       /\ q[j][1] \in {"feed", "poll"} => t[1] \in {"feed", "process"}
       /\ q[j][1] = "read" => t[1] # "feed" /\ (t[1] \in {"process", "again", "read"} => t[2] # q[j][2])
       /\ q[j][1] = "feed" /\ t[1] = "feed" => t[2] # q[j][2]
       /\ q[j][1] = "again" => j = 1 /\ t = <<"process", q[j][2]>>
       /\ t[1] = "accept" => t # q[j]

\* For each of the tasks q that accepts, b has a connection.
Accepting(q, b) == \A i \in 1..Len(q) : q[i][1] = "accept" => b[q[i][2]] # <<>>

\* The order is kept when the first task is done, if what is to be accepted is still there.
LEMMA OrderedTail ==
  ASSUME NEW q \in Seq(TaskType), NEW b, Ordered(q, b), q[1][1] \notin {"poll", "timers"},
         NEW r, r = Tail(q), NEW d, Accepting(r, d)
  PROVE  /\ r \in Seq(TaskType) /\ Ordered(r, d) /\ Len(r) = Len(q) - 1 /\ Len(r) \in Nat
         /\ \A i \in 1..Len(r) : r[i] = q[i + 1] /\ i + 1 \in 2..Len(q) /\ i + 1 \in 1..Len(q) /\ i < i + 1 /\ 1 < i + 1
<1>1. q # <<>>
  BY DEF Ordered
<1>2. /\ r \in Seq(TaskType) /\ Len(r) = Len(q) - 1 /\ Len(q) \in Nat /\ Len(q) # 0
      /\ \A i \in 1..Len(r) : r[i] = q[i + 1]
  BY <1>1, HeadTailProperties, LenProperties, EmptySeq
<1> DEFINE l == Len(q)
           m == Len(r)
<1>3. l \in Nat /\ l # 0 /\ m = l - 1 /\ m \in Nat
  BY <1>2
<1> HIDE DEF l, m
<1>4. \A i \in 1..m : i + 1 \in 2..l /\ i + 1 \in 1..l /\ i < i + 1 /\ 1 < i + 1 /\ (i + 1 = l <=> i = m) /\ i \in Nat
  BY <1>3
<1>5. 1 \in 1..l /\ l # 1
  <2>1. 1 \in 1..l
    BY <1>3
  <2> QED BY <2>1 DEF Ordered, l
<1>6. r # <<>>
  <2>1. m # 0
    BY <1>3, <1>5
  <2> QED BY <2>1 DEF m
<1>7. \A i \in 1..m : r[i] = q[i + 1]
  BY <1>2 DEF m
<1>8. \A i \in 1..m : r[i][1] \in {"poll", "timers"} <=> i = m
  BY <1>4, <1>7 DEF Ordered, l
<1>9. \A i \in 2..m : r[i][1] # "process"
  <2>1. \A i \in 2..m : i \in 1..m
    BY <1>3
  <2> QED BY <1>4, <1>7, <2>1 DEF Ordered, l
<1>10. ASSUME NEW i \in 1..m, NEW j \in 1..m, i < j
       PROVE  /\ r[j][1] \in {"feed", "poll"} => r[i][1] \in {"feed", "process"}
              /\ r[j][1] = "read" =>
                   /\ r[i][1] # "feed"
                   /\ r[i][1] \in {"process", "again", "read"} => r[i][2] # r[j][2]
              /\ r[j][1] = "feed" /\ r[i][1] = "feed" => r[i][2] # r[j][2]
              /\ r[j][1] = "again" => i = 1 /\ r[i] = <<"process", r[j][2]>>
  <2>1. i + 1 \in 1..l /\ j + 1 \in 1..l /\ i + 1 < j + 1 /\ i + 1 # 1
    BY <1>4, <1>10, <1>3
  <2>2. r[i] = q[i + 1] /\ r[j] = q[j + 1]
    BY <1>7
  <2> QED BY <2>1, <2>2 DEF Ordered, l
<1>11. ASSUME NEW i \in 1..m, r[i][1] = "accept" PROVE d[r[i][2]] # <<>> /\ \A j \in 1..m : r[j] = r[i] => j = i
  <2>1. d[r[i][2]] # <<>>
    BY <1>11 DEF m, Accepting
  <2>2. ASSUME NEW j \in 1..m, r[j] = r[i] PROVE j = i
    <3>1. i + 1 \in 1..l /\ j + 1 \in 1..l /\ q[j + 1] = q[i + 1] /\ q[i + 1][1] = "accept"
      BY <1>4, <1>7, <1>11, <2>2
    <3>2. j + 1 = i + 1
      BY <3>1 DEF Ordered, l
    <3> QED BY <1>3, <3>2
  <2> QED BY <2>1, <2>2
<1>12. Ordered(r, d)
  BY <1>6, <1>8, <1>9, <1>10, <1>11 DEF Ordered, m
<1> QED BY <1>2, <1>3, <1>4, <1>12 DEF l, m

\* A sequence with one element before it, place by place.
LEMMA ConsAt ==
  ASSUME NEW T, NEW q \in Seq(T), NEW t \in T, NEW r, r = <<t>> \o q
  PROVE  /\ r \in Seq(T) /\ r # <<>> /\ Len(r) = Len(q) + 1 /\ Len(q) \in Nat /\ r[1] = t
         /\ \A i \in 1..Len(q) : r[i + 1] = q[i] /\ i + 1 \in 2..Len(r) /\ i \in Nat
         /\ \A i \in 1..Len(r) : i = 1 \/ \E j \in 1..Len(q) : i = j + 1 /\ r[i] = q[j]
<1> DEFINE p == <<t>>
           l == Len(q)
<1>1. p \in Seq(T) /\ Len(p) = 1 /\ p[1] = t /\ l \in Nat
  OBVIOUS
<1> HIDE DEF p
<1>2. /\ r \in Seq(T) /\ Len(r) = 1 + l
      /\ \A i \in 1..1 + l : r[i] = IF i <= 1 THEN p[i] ELSE q[i - 1]
  BY <1>1, ConcatProperties DEF p
<1> HIDE DEF l
<1>3. r[1] = t /\ r # <<>>
  BY <1>1, <1>2
<1>4. \A i \in 1..l : r[i + 1] = q[i] /\ i + 1 \in 2..(1 + l) /\ i \in Nat
  <2>1. \A i \in 1..l : i + 1 \in 1..1 + l /\ ~(i + 1 <= 1) /\ (i + 1) - 1 = i
    BY <1>1
  <2> QED BY <1>1, <1>2, <2>1
<1>5. ASSUME NEW i \in 1..(1 + l), i # 1 PROVE \E j \in 1..l : i = j + 1 /\ r[i] = q[j]
  <2>1. i - 1 \in 1..l /\ i = (i - 1) + 1
    BY <1>1, <1>5
  <2> QED BY <1>4, <2>1
<1> QED BY <1>1, <1>2, <1>3, <1>4, <1>5 DEF l

\* The order is kept when a task is put first that may be first.
LEMMA OrderedCons ==
  ASSUME NEW q \in Seq(TaskType), NEW b, Ordered(q, b), NEW t \in TaskType, May(t, q, b), NEW r, r = <<t>> \o q
  PROVE  r \in Seq(TaskType) /\ Ordered(r, b)
<1> DEFINE l == Len(q)
           m == Len(r)
<1>1. /\ r \in Seq(TaskType) /\ r # <<>> /\ m = l + 1 /\ l \in Nat /\ r[1] = t
      /\ \A i \in 1..l : r[i + 1] = q[i] /\ i + 1 \in 2..m /\ i \in Nat
      /\ \A i \in 1..m : i = 1 \/ \E j \in 1..l : i = j + 1 /\ r[i] = q[j]
  BY ConsAt
<1>2. l # 0
  BY DEF Ordered
<1> HIDE DEF l, m
<1>3. \A i \in 1..m : r[i][1] \in {"poll", "timers"} <=> i = m
  <2> SUFFICES ASSUME NEW i \in 1..m PROVE r[i][1] \in {"poll", "timers"} <=> i = m
    OBVIOUS
  <2>1. CASE i = 1
    BY <1>1, <1>2, <2>1 DEF May
  <2>2. ASSUME NEW j \in 1..l, i = j + 1, r[i] = q[j] PROVE r[i][1] \in {"poll", "timers"} <=> i = m
    <3>1. i = m <=> j = l
      BY <1>1, <2>2
    <3> QED BY <2>2, <3>1 DEF Ordered, l
  <2> QED BY <1>1, <2>1, <2>2
<1>4. \A i \in 2..m : r[i][1] # "process"
  <2> SUFFICES ASSUME NEW i \in 2..m PROVE r[i][1] # "process"
    OBVIOUS
  <2>1. i \in 1..m /\ i # 1
    OBVIOUS
  <2>2. PICK j \in 1..l : i = j + 1 /\ r[i] = q[j]
    BY <1>1, <2>1
  <2> QED BY <2>2 DEF May, l
<1>5. ASSUME NEW i \in 1..m, NEW j \in 1..m, i < j
      PROVE  /\ r[j][1] \in {"feed", "poll"} => r[i][1] \in {"feed", "process"}
             /\ r[j][1] = "read" =>
                  /\ r[i][1] # "feed"
                  /\ r[i][1] \in {"process", "again", "read"} => r[i][2] # r[j][2]
             /\ r[j][1] = "feed" /\ r[i][1] = "feed" => r[i][2] # r[j][2]
             /\ r[j][1] = "again" => i = 1 /\ r[i] = <<"process", r[j][2]>>
  <2>0. j # 1
    BY <1>5
  <2>1. PICK e \in 1..l : j = e + 1 /\ r[j] = q[e]
    BY <1>1, <2>0
  <2>2. CASE i = 1
    BY <1>1, <2>1, <2>2 DEF May, l
  <2>3. CASE i # 1
    <3>1. PICK f \in 1..l : i = f + 1 /\ r[i] = q[f]
      BY <1>1, <2>3
    <3>2. f < e
      BY <1>1, <1>5, <2>1, <3>1
    <3>3. q[e][1] # "again"
      <4> SUFFICES ASSUME q[e][1] = "again" PROVE FALSE
        OBVIOUS
      <4>1. e = 1
        BY DEF May, l
      <4> QED BY <1>1, <3>2, <4>1
    <3> QED BY <2>1, <3>1, <3>2, <3>3 DEF Ordered, l
  <2> QED BY <2>2, <2>3
<1>6. ASSUME NEW i \in 1..m, r[i][1] = "accept" PROVE b[r[i][2]] # <<>> /\ \A j \in 1..m : r[j] = r[i] => j = i
  <2>1. CASE i = 1
    <3>1. b[r[i][2]] # <<>>
      BY <1>1, <1>6, <2>1 DEF May
    <3>2. ASSUME NEW j \in 1..m, r[j] = r[i], j # i PROVE FALSE
      <4>1. PICK e \in 1..l : j = e + 1 /\ r[j] = q[e]
        BY <1>1, <2>1, <3>2
      <4> QED BY <1>1, <1>6, <2>1, <3>2, <4>1 DEF May, l
    <3> QED BY <3>1, <3>2
  <2>2. CASE i # 1
    <3>1. PICK f \in 1..l : i = f + 1 /\ r[i] = q[f]
      BY <1>1, <2>2
    <3>2. b[r[i][2]] # <<>>
      BY <1>6, <3>1 DEF Ordered, l
    <3>3. ASSUME NEW j \in 1..m, r[j] = r[i] PROVE j = i
      <4>1. CASE j = 1
        BY <1>1, <1>6, <3>1, <3>3, <4>1 DEF May, l
      <4>2. CASE j # 1
        <5>1. PICK e \in 1..l : j = e + 1 /\ r[j] = q[e]
          BY <1>1, <4>2
        <5>2. e = f
          BY <1>6, <3>1, <3>3, <5>1 DEF Ordered, l
        <5> QED BY <3>1, <5>1, <5>2
      <4> QED BY <4>1, <4>2
    <3> QED BY <3>2, <3>3
  <2> QED BY <2>1, <2>2
<1> QED BY <1>1, <1>3, <1>4, <1>5, <1>6 DEF Ordered, m

\* What d is when it is what the tasks after the first are, and that it is in order.
Remains(d) ==
  /\ d \in Seq(TaskType) /\ Len(d) = Len(todo) - 1 /\ Len(d) \in Nat /\ d # <<>> /\ Ordered(d, backlog)
  /\ todo[1] \in TaskType /\ 1 \in 1..Len(todo)
  /\ \A j \in 1..Len(d) :
       /\ d[j] = todo[j + 1] /\ j + 1 \in 1..Len(todo) /\ d[j][1] # "process" /\ d[j] \in TaskType
       /\ d[j][1] \in {"feed", "poll"} => todo[1][1] \in {"feed", "process"}
       /\ d[j][1] = "read" =>
            /\ todo[1][1] # "feed"
            /\ todo[1][1] \in {"process", "again", "read"} => todo[1][2] # d[j][2]
       /\ d[j][1] = "feed" /\ todo[1][1] = "feed" => todo[1][2] # d[j][2]
       /\ d[j][1] = "again" => j = 1 /\ todo[1] = <<"process", d[j][2]>>

\* What the tasks after the first are, and that they are in order.
LEMMA Remaining ==
  ASSUME TypeOK, Order, todo[1][1] \notin {"poll", "timers"}, NEW d, d = Tail(todo)
  PROVE  Remains(d)
<1>1. Ordered(todo, backlog) /\ todo \in Seq(TaskType) /\ todo # <<>>
  BY DEF Order, Ordered, TypeOK
<1>2. Accepting(d, backlog)
  <2>1. \A i \in 1..Len(d) : d[i] = todo[i + 1] /\ i + 1 \in 1..Len(todo)
    BY <1>1, HeadTailProperties, LenProperties
  <2> QED BY <2>1 DEF Order, Ordered, Accepting
<1>3. /\ d \in Seq(TaskType) /\ Ordered(d, backlog) /\ Len(d) = Len(todo) - 1 /\ Len(d) \in Nat
      /\ \A i \in 1..Len(d) : d[i] = todo[i + 1] /\ i + 1 \in 2..Len(todo) /\ i + 1 \in 1..Len(todo) /\ i < i + 1 /\ 1 < i + 1
  BY Zenon, <1>1, <1>2, OrderedTail
<1>4. todo[1] \in TaskType /\ 1 \in 1..Len(todo) /\ d # <<>>
  <2>1. d # <<>>
    BY Zenon, <1>3 DEF Ordered
  <2>2. todo[1] \in TaskType /\ 1 \in 1..Len(todo)
    BY <1>1
  <2> QED BY <2>1, <2>2
<1>5. ASSUME NEW j \in 1..Len(d)
      PROVE  /\ d[j] = todo[j + 1] /\ j + 1 \in 1..Len(todo) /\ d[j][1] # "process" /\ d[j] \in TaskType
             /\ d[j][1] \in {"feed", "poll"} => todo[1][1] \in {"feed", "process"}
             /\ d[j][1] = "read" =>
                  /\ todo[1][1] # "feed"
                  /\ todo[1][1] \in {"process", "again", "read"} => todo[1][2] # d[j][2]
             /\ d[j][1] = "feed" /\ todo[1][1] = "feed" => todo[1][2] # d[j][2]
             /\ d[j][1] = "again" => j = 1 /\ todo[1] = <<"process", d[j][2]>>
  <2>1. d[j] = todo[j + 1] /\ j + 1 \in 2..Len(todo) /\ j + 1 \in 1..Len(todo) /\ 1 < j + 1 /\ d[j] \in TaskType
    BY <1>3
  <2>2. d[j][1] = "again" => j = 1
    <3> SUFFICES ASSUME d[j][1] = "again", j # 1 PROVE FALSE
      OBVIOUS
    <3>1. 2 \in 1..Len(todo) /\ 2 < j + 1
      BY <2>1
    <3> QED BY <2>1, <3>1 DEF Order, Ordered
  <2> QED BY <1>4, <2>1, <2>2 DEF Order, Ordered
<1> QED BY <1>3, <1>4, <1>5 DEF Remains

\* The tasks of a new step are in order.
LEMMA StepIsOrdered == \A b : StepTasks \in Seq(TaskType) /\ Ordered(StepTasks, b)
<1> DEFINE q == StepTasks
<1>1. q \in Seq(TaskType) /\ Len(q) = 3 /\ q[1] = <<"feed", "raw">> /\ q[2] = <<"feed", "web">> /\ q[3] = <<"poll">> /\ q # <<>>
  <2>1. <<"feed", "raw">> \in TaskType /\ <<"feed", "web">> \in TaskType /\ <<"poll">> \in TaskType
    BY DEF TaskType, Slot
  <2> QED BY <2>1 DEF StepTasks
<1>2. q[1][1] = "feed" /\ q[2][1] = "feed" /\ q[3][1] = "poll" /\ q[1][2] # q[2][2]
  BY <1>1
<1> HIDE DEF q
<1>3. \A i \in 1..Len(q) : i = 1 \/ i = 2 \/ i = 3
  BY <1>1
<1>4. \A i \in 2..Len(q) : i = 2 \/ i = 3
  BY <1>1
<1> QED BY <1>1, <1>2, <1>3, <1>4 DEF Ordered, q

\* The order does not depend on the backlogs as long as none of them is emptied.
LEMMA OrderedSame ==
  ASSUME NEW q \in Seq(TaskType), NEW b, NEW d, Ordered(q, b), \A c \in Slot : b[c] # <<>> => d[c] # <<>>
  PROVE  Ordered(q, d)
<1>1. \A i \in 1..Len(q) : q[i][1] = "accept" => q[i][2] \in Slot
  BY TaskIs
<1> QED BY <1>1 DEF Ordered

\* The first task is done, and after it t has to be done, or nothing.
LEMMA OneMore ==
  ASSUME TypeOK, Order, todo[1][1] \notin {"poll", "timers"}, NEW due \in BOOLEAN, NEW t \in TaskType,
         due => May(t, Tail(todo), backlog), NEW r, r = When(due, t) \o Tail(todo)
  PROVE  r \in Seq(TaskType) /\ Ordered(r, backlog)
<1> DEFINE d == Tail(todo)
<1>1. d \in Seq(TaskType) /\ Ordered(d, backlog)
  BY Remaining DEF Remains
<1>2. r = When(due, t) \o d /\ (due => May(t, d, backlog))
  OBVIOUS
<1> HIDE DEF d
<1>3. CASE due
  <2>1. r = <<t>> \o d
    BY <1>2, <1>3 DEF When
  <2> QED BY <1>1, <1>2, <1>3, <2>1, OrderedCons
<1>4. CASE ~due
  <2>1. r = d
    BY <1>1, <1>2, <1>4 DEF When
  <2> QED BY <1>1, <2>1
<1> QED BY <1>3, <1>4

\* Feed keeps the order of the tasks.
LEMMA FeedIsOrdered ==
  ASSUME TypeOK, Order, Feed
  PROVE  todo' \in Seq(TaskType) /\ Ordered(todo', backlog)
<1> DEFINE c == todo[1][2]
           x == conn[c]
           due == (x.in # <<>> \/ x.pend # None) /\ ~Busy(x)
           t == <<"process", c>>
           d == Tail(todo)
<1>1. todo' = When(due, t) \o d /\ todo[1][1] = "feed"
  BY DEF Feed, Task, Done
<1>2. /\ todo[1] \in TaskType
      /\ \A j \in 1..Len(d) : d[j][1] # "process" /\ d[j][1] # "read" /\ d[j][1] # "again"
  <2>1. todo[1] # <<"process", "raw">> /\ \A e : todo[1] # <<"process", e>>
    BY <1>1
  <2> QED BY Zenon, <1>1, <2>1, Remaining DEF Remains
<1>3. c \in Slot
  BY <1>1, <1>2, TaskIs
<1>4. t \in TaskType
  BY <1>3 DEF TaskType
<1>5. t[1] = "process" /\ t[2] = c
  OBVIOUS
<1>6. due \in BOOLEAN
  OBVIOUS
<1> HIDE DEF t, due
<1>7. May(t, d, backlog)
  BY <1>2, <1>5 DEF May
<1> QED BY <1>1, <1>4, <1>6, <1>7, OneMore

\* Again keeps it: the reception it puts first is the last of that client.
LEMMA AgainIsOrdered ==
  ASSUME TypeOK, Order, Again
  PROVE  todo' \in Seq(TaskType) /\ Ordered(todo', backlog)
<1> DEFINE c == todo[1][2]
           x == conn[c]
           due == x.sock # None /\ todo[1][4] = InMax /\ ~Busy(x) /\ x.pend = None /\ todo[1][3] < Rounds
           t == <<"read", c, todo[1][3] + 1>>
           d == Tail(todo)
<1>1. todo' = When(due, t) \o d /\ todo[1][1] = "again"
  BY DEF Again, Task, Done
<1>2. /\ todo[1] \in TaskType
      /\ \A j \in 1..Len(d) : /\ d[j][1] # "process" /\ d[j][1] # "feed" /\ d[j][1] # "poll" /\ d[j][1] # "again"
                              /\ d[j][1] = "read" => c # d[j][2]
  <2>1. \A e : todo[1] # <<"process", e>>
    BY <1>1
  <2> QED BY Zenon, <1>1, <2>1, Remaining DEF Remains
<1>3. c \in Slot /\ todo[1][3] \in Nat
  BY <1>1, <1>2, TaskIs
<1>4. t \in TaskType
  BY <1>3 DEF TaskType
<1>5. t[1] = "read" /\ t[2] = c
  OBVIOUS
<1>6. due \in BOOLEAN
  OBVIOUS
<1> HIDE DEF t, due
<1>7. May(t, d, backlog)
  BY <1>2, <1>5 DEF May
<1> QED BY <1>1, <1>4, <1>6, <1>7, OneMore

\* Two sequences of one.
LEMMA PairIs == ASSUME NEW T, NEW a \in T, NEW b \in T PROVE <<a>> \o <<b>> = <<a, b>>
<1> DEFINE p == <<a>>
           q == <<b>>
           r == <<a, b>>
<1>1. p \in Seq(T) /\ q \in Seq(T) /\ r \in Seq(T) /\ Len(p) = 1 /\ Len(q) = 1 /\ Len(r) = 2 /\ p[1] = a /\ q[1] = b /\ r[1] = a /\ r[2] = b
  OBVIOUS
<1> HIDE DEF p, q, r
<1>2. Len(p \o q) = 2 /\ p \o q \in Seq(T) /\ (p \o q)[1] = a /\ (p \o q)[2] = b
  <2>1. \A i \in 1..Len(p) + Len(q) : (p \o q)[i] = IF i <= Len(p) THEN p[i] ELSE q[i - Len(p)]
    BY <1>1, ConcatProperties
  <2>2. 1 \in 1..Len(p) + Len(q) /\ 2 \in 1..Len(p) + Len(q) /\ 1 <= Len(p) /\ ~(2 <= Len(p)) /\ 2 - Len(p) = 1
    BY <1>1
  <2>3. Len(p \o q) = Len(p) + Len(q) /\ p \o q \in Seq(T)
    BY <1>1, ConcatProperties
  <2> QED BY <1>1, <2>1, <2>2, <2>3
<1>3. \A i \in 1..Len(p \o q) : (p \o q)[i] = r[i]
  BY <1>1, <1>2
<1>4. p \o q = r
  BY <1>1, <1>2, <1>3, SeqEqual
<1> QED BY <1>4 DEF p, q, r
\* Nothing before a sequence.
LEMMA NoneBefore == ASSUME NEW T, NEW d \in Seq(T) PROVE <<>> \o d = d
OBVIOUS

\* Pump keeps the order.
LEMMA PumpIsOrdered ==
  ASSUME TypeOK, Order, Pump
  PROVE  todo' \in Seq(TaskType) /\ Ordered(todo', backlog)
<1> DEFINE c == todo[1][2]
           d == Tail(todo)
           t == <<"pump", c, todo[1][3] - 1>>
<1>1. todo[1][1] = "pump" /\ \E due \in BOOLEAN : todo' = When(due, t) \o d /\ (due => todo[1][3] > 0)
  <2>1. todo[1][1] = "pump"
    BY Zenon DEF Pump, Task
  <2>20. d \in Seq(TaskType)
    BY <2>1, Remaining DEF Remains
  <2>2. When(FALSE, t) \o d = d
    <3>1. When(FALSE, t) = <<>>
      BY DEF When
    <3>2. <<>> \o d = d
      BY <2>20, NoneBefore
    <3> QED BY ONLY <3>1, <3>2
  <2>3. todo' = d \/ \E due \in BOOLEAN : todo' = When(due, t) \o d /\ (due => todo[1][3] > 0)
    BY Zenon DEF Pump, Done
  <2> QED BY Zenon, <2>1, <2>2, <2>3
<1>2. PICK due \in BOOLEAN : todo' = When(due, t) \o d /\ (due => todo[1][3] > 0)
  BY <1>1
<1>3. /\ todo[1] \in TaskType /\ d \in Seq(TaskType) /\ Ordered(d, backlog)
      /\ \A j \in 1..Len(d) : d[j][1] # "process" /\ d[j][1] # "feed" /\ d[j][1] # "poll" /\ d[j][1] # "again"
  <2>1. \A e : todo[1] # <<"process", e>>
    BY <1>1
  <2> QED BY Zenon, <1>1, <2>1, Remaining DEF Remains
<1>4. c \in Slot /\ todo[1][3] \in Nat
  BY <1>1, <1>3, TaskIs
<1>5. CASE due
  <2>1. t \in TaskType
    BY <1>2, <1>4, <1>5 DEF TaskType
  <2>2. t[1] = "pump" /\ t[2] = c
    OBVIOUS
  <2> HIDE DEF t
  <2>3. May(t, d, backlog)
    BY <1>3, <2>2 DEF May
  <2> QED BY <1>1, <1>2, <2>1, <2>3, OneMore
<1>6. CASE ~due
  <2>1. todo' = d
    BY <1>2, <1>3, <1>6 DEF When
  <2> QED BY <1>3, <2>1
<1> QED BY <1>5, <1>6

\* Receive keeps it: the client that is received from is processed at once.
LEMMA ReceiveIsOrdered ==
  ASSUME TypeOK, Order, Receive, Buffers, NetTypes
  PROVE  todo' \in Seq(TaskType) /\ Ordered(todo', backlog)
<1> DEFINE c == todo[1][2]
           x == conn[c]
           n == Least(InMax - x.used, Len(sock[x.sock].in))
           d == Tail(todo)
           a == <<"again", c, todo[1][3], n>>
           t == <<"process", c>>
           e == <<a>> \o d
           r == <<t>> \o e
<1>1. todo[1][1] = "read" /\ (todo' = d \/ (todo' = <<t, a>> \o d /\ x.sock # None /\ c \notin polled.want))
  BY Zenon DEF Receive, Task, Done
<1>2. /\ todo[1] \in TaskType /\ d \in Seq(TaskType) /\ Ordered(d, backlog)
      /\ \A j \in 1..Len(d) : /\ d[j][1] # "process" /\ d[j][1] # "feed" /\ d[j][1] # "poll" /\ d[j][1] # "again"
                              /\ d[j][1] = "read" => c # d[j][2]
  <2>1. \A u : todo[1] # <<"process", u>>
    BY <1>1
  <2> QED BY Zenon, <1>1, <2>1, Remaining DEF Remains
<1>3. c \in Slot /\ todo[1][3] \in Nat
  BY <1>1, <1>2, TaskIs
<1>4. CASE todo' = d
  BY <1>2, <1>4
<1>5. CASE todo' = <<t, a>> \o d /\ x.sock # None /\ c \notin polled.want
  <2>1. n \in Nat
    <3>1. x \in ConnType /\ x.sock \in Sock /\ sock[x.sock] \in SockType /\ x.used = 0
      <4>1. x \in ConnType
        BY <1>3 DEF NetTypes
      <4>2. x.sock \in Sock
        BY <1>5, <4>1 DEF ConnType
      <4>3. c \notin polled.want
        BY <1>5
      <4>4. x.used = 0
        BY <1>1, <1>2, <1>3, <4>3, Remaining DEF Buffers, Room, Remains
      <4> QED BY <4>1, <4>2, <4>4 DEF NetTypes
    <3>2. sock[x.sock].in \in Seq(Item)
      BY <3>1 DEF SockType
    <3>3. InMax \in Nat \ {0}
      BY ServerAssumption
    <3> DEFINE l == Len(sock[x.sock].in)
    <3>4. l \in Nat
      BY <3>2, LenProperties
    <3>5. n = Least(InMax - x.used, l)
      OBVIOUS
    <3> HIDE DEF l, x, n
    <3> QED BY ONLY <3>1, <3>3, <3>4, <3>5 DEF Least
  <2>2. a \in TaskType /\ t \in TaskType
    BY <1>3, <2>1 DEF TaskType
  <2>3. a[1] = "again" /\ a[2] = c /\ t[1] = "process" /\ t[2] = c /\ t = <<"process", a[2]>>
    OBVIOUS
  <2>4. todo' = r
    <3> HIDE DEF a, t, d
    <3>1. <<t>> \in Seq(TaskType) /\ <<a>> \in Seq(TaskType)
      BY <2>2
    <3>2. (<<t>> \o <<a>>) \o d = <<t>> \o (<<a>> \o d)
      <4>1. \A p, q, u \in Seq(TaskType) : (p \o q) \o u = p \o (q \o u)
        BY ConcatAssociative
      <4> QED BY <1>2, <3>1, <4>1
    <3>3. <<t>> \o <<a>> = <<t, a>>
      BY <2>2, PairIs
    <3> QED BY <1>5, <3>2, <3>3
  <2> HIDE DEF a, t, r, e, d
  <2>5. May(a, d, backlog)
    BY <1>2, <2>3 DEF May
  <2>6. e \in Seq(TaskType) /\ Ordered(e, backlog)
    BY <1>2, <2>2, <2>5, OrderedCons DEF e
  <2>7. \A i \in 1..Len(e) : (i = 1 /\ e[i] = a) \/ \E j \in 1..Len(d) : i = j + 1 /\ e[i] = d[j]
    BY <1>2, <2>2, ConsAt DEF e
  <2>8. May(t, e, backlog)
    BY <1>2, <2>3, <2>7 DEF May
  <2>9. r \in Seq(TaskType) /\ Ordered(r, backlog)
    BY <2>2, <2>6, <2>8, OrderedCons DEF r
  <2> QED BY <2>4, <2>9
<1> QED BY Zenon, <1>1, <1>4, <1>5

\* The tasks of a step after what is received.
Late(q) == q # <<>> /\ \A i \in 1..Len(q) : q[i][1] \in {"http", "pump", "write", "timers"} /\ (q[i][1] = "timers" <=> i = Len(q))

\* Tasks after what is received are in order.
LEMMA LateOrdered ==
  ASSUME NEW q, Late(q), NEW b
  PROVE  Ordered(q, b)
<1>1. \A i \in 2..Len(q) : q[i][1] # "process"
  <2>1. \A i \in 2..Len(q) : i \in 1..Len(q)
    BY DEF Late
  <2> QED BY <2>1 DEF Late
<1> QED BY <1>1 DEF Late, Ordered

\* More of them can be put before them.
LEMMA LateGrows ==
  ASSUME NEW p \in Seq(TaskType), \A i \in 1..Len(p) : p[i][1] \in {"http", "pump", "write"},
         NEW z \in Seq(TaskType), Late(z), NEW r, r = p \o z
  PROVE  r \in Seq(TaskType) /\ Late(r)
<1> DEFINE l == Len(p)
           m == Len(z)
<1>1. /\ r \in Seq(TaskType) /\ Len(r) = l + m /\ l \in Nat /\ m \in Nat
      /\ \A i \in 1..l + m : r[i] = IF i <= l THEN p[i] ELSE z[i - l]
  BY ConcatProperties, LenProperties
<1>2. m # 0
  BY DEF Late
<1> HIDE DEF l, m
<1>3. r # <<>>
  <2>1. l + m # 0
    BY <1>1, <1>2
  <2> QED BY <1>1, <2>1
<1>4. ASSUME NEW i \in 1..l + m
      PROVE  r[i][1] \in {"http", "pump", "write", "timers"} /\ (r[i][1] = "timers" <=> i = l + m)
  <2>1. CASE i <= l
    <3>1. i \in 1..l /\ i # l + m
      BY <1>1, <1>2, <2>1
    <3> QED BY <1>1, <2>1, <3>1 DEF l
  <2>2. CASE ~(i <= l)
    <3>1. i - l \in 1..m /\ (i = l + m <=> i - l = m)
      BY <1>1, <2>2
    <3> QED BY <1>1, <2>2, <3>1 DEF Late, m
  <2> QED BY <2>1, <2>2
<1> QED BY <1>1, <1>3, <1>4 DEF Late

\* One task more, or not, before others.
OneBefore(r, due, t, q, b) ==
  /\ q \in Seq(TaskType) /\ Ordered(q, b) /\ due \in BOOLEAN /\ t \in TaskType /\ (due => May(t, q, b))
  /\ r = When(due, t) \o q

\* A task that may be first, or none.
LEMMA WhenOrdered ==
  ASSUME NEW q, NEW b, NEW due, NEW t, NEW r, OneBefore(r, due, t, q, b)
  PROVE  /\ r \in Seq(TaskType) /\ Ordered(r, b)
         /\ \A i \in 1..Len(r) : r[i] = t \/ \E j \in 1..Len(q) : r[i] = q[j]
<1> USE DEF OneBefore
<1>1. CASE due
  <2>1. r = <<t>> \o q /\ May(t, q, b)
    BY <1>1 DEF When
  <2>2. r \in Seq(TaskType) /\ Ordered(r, b)
    BY <2>1, OrderedCons
  <2>3. \A i \in 1..Len(r) : r[i] = t \/ \E j \in 1..Len(q) : r[i] = q[j]
    BY <2>1, ConsAt
  <2> QED BY <2>2, <2>3
<1>2. CASE ~due
  <2>1. When(due, t) = <<>>
    BY <1>2 DEF When
  <2>2. <<>> \o q = q
    BY NoneBefore
  <2>3. r = q
    BY <2>1, <2>2
  <2> QED BY <2>3
<1> QED BY <1>1, <1>2

\* When makes tasks of a task.
LEMMA WhenTyped == \A due \in BOOLEAN, t \in TaskType : When(due, t) \in Seq(TaskType)
BY DEF When

\* Two sequences of tasks are one.
LEMMA JoinTyped == \A p, q \in Seq(TaskType) : p \o q \in Seq(TaskType)
OBVIOUS

Joined(p, q, u, x, y) ==
  /\ p \in Seq(TaskType) /\ q \in Seq(TaskType) /\ u \in Seq(TaskType)
  /\ x = p \o q /\ y = q \o u

\* Concatenation, from the right.
LEMMA JoinRight ==
  ASSUME NEW p, NEW q, NEW u, NEW x, NEW y, Joined(p, q, u, x, y)
  PROVE  x \o u = p \o y
<1>1. (p \o q) \o u = p \o (q \o u)
  BY ConcatAssociative DEF Joined
<1> QED BY <1>1 DEF Joined

\* Poll makes tasks that are in order.
LEMMA PollIsOrdered ==
  ASSUME NetInv, TypeOK, Order, Poll
  PROVE  /\ todo' \in Seq(TaskType) /\ Ordered(todo', backlog)
         /\ \A i \in 1..Len(todo') : todo'[i][1] \notin {"feed", "process", "again", "poll"}
<1> USE DEF Slot
<1> DEFINE ready(c) == IF Wants(conn[c]) THEN sock[conn[c].sock].gone ELSE Readable(conn[c].sock)
           ta == <<"accept", "raw">>
           tb == <<"accept", "web">>
           tc == <<"read", "raw", 1>>
           td == <<"read", "web", 1>>
           da == backlog["raw"] # <<>>
           db == backlog["web"] # <<>>
           A == When(da, ta)
           B == When(db, tb)
           C == When(ready("raw"), tc)
           D == When(ready("web"), td)
           E == [i \in 1..HttpSlots |-> <<"http", i, IF Readable(http[i].sock) THEN http[i].sock ELSE None>>]
           F == << <<"pump", "raw", Budget>>, <<"pump", "web", Budget>> >>
           G == [i \in 1..HttpSlots |-> <<"write", i>>]
           H == << <<"timers">> >>
<1>1. todo' = ((((((A \o B) \o C) \o D) \o E) \o F) \o G) \o H
  BY Zenon DEF Poll
<1>2. /\ HttpSlots \in Nat /\ Budget \in Nat
      /\ \A i \in 1..HttpSlots : http[i].sock \in WebSock \cup {None}
  <2>1. HttpSlots \in Nat /\ Budget \in Nat
    BY ServerAssumption
  <2>2. \A i \in 1..HttpSlots : http[i].sock \in WebSock \cup {None}
    BY DEF TypeOK, NetTypes, HttpType
  <2> QED BY <2>1, <2>2
<1>3. ta \in TaskType /\ tb \in TaskType /\ tc \in TaskType /\ td \in TaskType
  BY DEF TaskType
<1>4. E \in Seq(TaskType) /\ \A i \in 1..Len(E) : E[i][1] \in {"http", "pump", "write"}
  <2>1. \A i \in 1..HttpSlots : <<"http", i, IF Readable(http[i].sock) THEN http[i].sock ELSE None>> \in TaskType
    BY <1>2 DEF TaskType
  <2>2. E \in Seq(TaskType) /\ Len(E) = HttpSlots
    BY <1>2, <2>1
  <2>3. \A i \in 1..HttpSlots : E[i][1] = "http"
    OBVIOUS
  <2> QED BY <2>2, <2>3
<1>5. F \in Seq(TaskType) /\ \A i \in 1..Len(F) : F[i][1] \in {"http", "pump", "write"}
  <2>1. <<"pump", "raw", Budget>> \in TaskType /\ <<"pump", "web", Budget>> \in TaskType
    BY <1>2 DEF TaskType
  <2>2. \A i \in 1..Len(F) : i = 1 \/ i = 2
    OBVIOUS
  <2> QED BY <2>1, <2>2
<1>6. G \in Seq(TaskType) /\ \A i \in 1..Len(G) : G[i][1] \in {"http", "pump", "write"}
  <2>1. \A i \in 1..HttpSlots : <<"write", i>> \in TaskType
    BY DEF TaskType
  <2>2. G \in Seq(TaskType) /\ Len(G) = HttpSlots
    BY <1>2, <2>1
  <2> QED BY <2>2
<1>7. H \in Seq(TaskType) /\ Late(H)
  <2>1. <<"timers">> \in TaskType
    BY DEF TaskType
  <2> QED BY <2>1 DEF Late
<1> DEFINE b == backlog
           dc == ready("raw")
           dd == ready("web")
<1>8. da \in BOOLEAN /\ db \in BOOLEAN /\ dc \in BOOLEAN /\ dd \in BOOLEAN
  <2>1. sock \in [Sock -> SockType] /\ conn \in [Slot -> ConnType]
    BY DEF TypeOK, NetTypes
  <2>2. \A c \in Slot : Wants(conn[c]) => conn[c].sock \in Sock
    <3> SUFFICES ASSUME NEW c \in Slot, Wants(conn[c]) PROVE conn[c].sock \in Sock
      OBVIOUS
    <3>1. conn[c].sock # None
      BY InputIsOfClient DEF Wants
    <3> QED BY <3>1, SocketsAre
  <2> QED BY <2>1, <2>2 DEF SockType, Readable
<1>9. /\ ta[1] = "accept" /\ ta[2] = "raw" /\ tb[1] = "accept" /\ tb[2] = "web" /\ tc[1] = "read" /\ tc[2] = "raw"
      /\ td[1] = "read" /\ td[2] = "web" /\ ta # tb
  OBVIOUS
<1>10. A \in Seq(TaskType) /\ B \in Seq(TaskType) /\ C \in Seq(TaskType) /\ D \in Seq(TaskType)
  <2> HIDE DEF ta, tb, tc, td, da, db, ready
  <2> QED BY <1>3, <1>8, WhenTyped
<1>11. A = When(da, ta) /\ B = When(db, tb) /\ C = When(dc, tc) /\ D = When(dd, td) /\ (da => b["raw"] # <<>>) /\ (db => b["web"] # <<>>)
  OBVIOUS
<1> HIDE DEF A, B, C, D, E, F, G, H, ta, tb, tc, td, da, db, dc, dd, b, ready
<1> DEFINE g == G \o H
           f == F \o g
           e == E \o f
           d == D \o e
           c == C \o d
           k == B \o c
           a == A \o k
<1>12. g \in Seq(TaskType) /\ Late(g)
  BY <1>6, <1>7, LateGrows
<1> HIDE DEF g
<1>13. f \in Seq(TaskType) /\ Late(f)
  BY <1>5, <1>12, LateGrows
<1> HIDE DEF f
<1>14. e \in Seq(TaskType) /\ Late(e)
  BY <1>4, <1>13, LateGrows
<1>15. Ordered(e, b) /\ \A i \in 1..Len(e) : e[i][1] \in {"http", "pump", "write", "timers"}
  BY <1>14, LateOrdered DEF Late
<1> HIDE DEF e
<1>16. May(td, e, b)
  BY <1>9, <1>15 DEF May
<1>17. d \in Seq(TaskType) /\ Ordered(d, b) /\ \A i \in 1..Len(d) : d[i] = td \/ \E j \in 1..Len(e) : d[i] = e[j]
  <2>1. OneBefore(d, dd, td, e, b)
    BY <1>3, <1>8, <1>11, <1>14, <1>15, <1>16 DEF OneBefore
  <2> HIDE DEF d
  <2> QED BY ONLY <2>1, WhenOrdered
<1> HIDE DEF d
<1>18. \A i \in 1..Len(d) : d[i][1] \in {"http", "pump", "write", "timers"} \/ d[i] = td
  BY <1>15, <1>17
<1>19. May(tc, d, b)
  BY <1>9, <1>18 DEF May
<1>20. c \in Seq(TaskType) /\ Ordered(c, b) /\ \A i \in 1..Len(c) : c[i] = tc \/ \E j \in 1..Len(d) : c[i] = d[j]
  <2>1. OneBefore(c, dc, tc, d, b)
    BY <1>3, <1>8, <1>11, <1>17, <1>19 DEF OneBefore
  <2> HIDE DEF c
  <2> QED BY ONLY <2>1, WhenOrdered
<1> HIDE DEF c
<1>21. \A i \in 1..Len(c) : c[i][1] \in {"http", "pump", "write", "timers", "read"}
  BY <1>9, <1>18, <1>20
<1>22. db => May(tb, c, b)
  BY <1>9, <1>11, <1>21 DEF May
<1>23. k \in Seq(TaskType) /\ Ordered(k, b) /\ \A i \in 1..Len(k) : k[i] = tb \/ \E j \in 1..Len(c) : k[i] = c[j]
  <2>1. OneBefore(k, db, tb, c, b)
    BY <1>3, <1>8, <1>11, <1>20, <1>22 DEF OneBefore
  <2> HIDE DEF k
  <2> QED BY ONLY <2>1, WhenOrdered
<1> HIDE DEF k
<1>24. \A i \in 1..Len(k) : k[i][1] \in {"http", "pump", "write", "timers", "read"} \/ k[i] = tb
  BY <1>21, <1>23
<1>25. da => May(ta, k, b)
  BY <1>9, <1>11, <1>24 DEF May
<1>26. a \in Seq(TaskType) /\ Ordered(a, b) /\ \A i \in 1..Len(a) : a[i] = ta \/ \E j \in 1..Len(k) : a[i] = k[j]
  <2>1. OneBefore(a, da, ta, k, b)
    BY <1>3, <1>8, <1>11, <1>23, <1>25 DEF OneBefore
  <2> HIDE DEF a
  <2> QED BY ONLY <2>1, WhenOrdered
<1> HIDE DEF a
<1>27. \A i \in 1..Len(a) : a[i][1] \in {"http", "pump", "write", "timers", "read", "accept"}
  BY <1>9, <1>24, <1>26
<1>28. todo' = a
  <2> DEFINE X1 == A \o B
             X2 == X1 \o C
             X3 == X2 \o D
             X4 == X3 \o E
             X5 == X4 \o F
             X6 == X5 \o G
             Y5 == X5 \o g
             Y4 == X4 \o f
             Y3 == X3 \o e
             Y2 == X2 \o d
             Y1 == X1 \o c
  <2>1. todo' = X6 \o H /\ X6 = X5 \o G /\ X1 = A \o B /\ X2 = X1 \o C /\ X3 = X2 \o D /\ X4 = X3 \o E /\ X5 = X4 \o F
    BY <1>1
  <2>2. g = G \o H /\ f = F \o g /\ e = E \o f /\ d = D \o e /\ c = C \o d /\ k = B \o c /\ a = A \o k
    BY DEF g, f, e, d, c, k, a
  <2>3. Y5 = X5 \o g /\ Y4 = X4 \o f /\ Y3 = X3 \o e /\ Y2 = X2 \o d /\ Y1 = X1 \o c
    OBVIOUS
  <2> HIDE DEF X1, X2, X3, X4, X5, X6, Y1, Y2, Y3, Y4, Y5
  <2>4. X1 \in Seq(TaskType) /\ X2 \in Seq(TaskType) /\ X3 \in Seq(TaskType) /\ X4 \in Seq(TaskType) /\ X5 \in Seq(TaskType)
    BY ONLY <1>4, <1>5, <1>10, <2>1, JoinTyped
  <2>5. todo' = Y5
    <3>1. Joined(X5, G, H, X6, g)
      BY ONLY <1>6, <1>7, <2>1, <2>2, <2>3, <2>4 DEF Joined
    <3>2. X6 \o H = X5 \o g
      BY ONLY <3>1, JoinRight
    <3> QED BY ONLY <2>1, <2>2, <2>3, <3>2
  <2>6. Y5 = Y4
    <3>1. Joined(X4, F, g, X5, f)
      BY ONLY <1>5, <1>12, <2>1, <2>2, <2>3, <2>4 DEF Joined
    <3>2. X5 \o g = X4 \o f
      BY ONLY <3>1, JoinRight
    <3> QED BY ONLY <2>1, <2>2, <2>3, <3>2
  <2>7. Y4 = Y3
    <3>1. Joined(X3, E, f, X4, e)
      BY ONLY <1>4, <1>13, <2>1, <2>2, <2>3, <2>4 DEF Joined
    <3>2. X4 \o f = X3 \o e
      BY ONLY <3>1, JoinRight
    <3> QED BY ONLY <2>1, <2>2, <2>3, <3>2
  <2>8. Y3 = Y2
    <3>1. Joined(X2, D, e, X3, d)
      BY ONLY <1>10, <1>14, <2>1, <2>2, <2>3, <2>4 DEF Joined
    <3>2. X3 \o e = X2 \o d
      BY ONLY <3>1, JoinRight
    <3> QED BY ONLY <2>1, <2>2, <2>3, <3>2
  <2>9. Y2 = Y1
    <3>1. Joined(X1, C, d, X2, c)
      BY ONLY <1>10, <1>17, <2>1, <2>2, <2>3, <2>4 DEF Joined
    <3>2. X2 \o d = X1 \o c
      BY ONLY <3>1, JoinRight
    <3> QED BY ONLY <2>1, <2>2, <2>3, <3>2
  <2>10. Y1 = a
    <3>1. Joined(A, B, c, X1, k)
      BY ONLY <1>10, <1>20, <2>1, <2>2, <2>3, <2>4 DEF Joined
    <3>2. X1 \o c = A \o k
      BY ONLY <3>1, JoinRight
    <3> QED BY ONLY <2>1, <2>2, <2>3, <3>2
  <2> QED BY ONLY <2>5, <2>6, <2>7, <2>8, <2>9, <2>10
<1>29. \A i \in 1..Len(a) : a[i][1] \notin {"feed", "process", "again", "poll"}
  BY <1>27
<1> QED BY <1>26, <1>28, <1>29 DEF b

\* A task that is done, or goes on, keeps the order.
LEMMA DoneIsOrdered ==
  ASSUME TypeOK, Order, todo[1][1] \notin {"poll", "timers"}, todo' \in {todo, Tail(todo)}, backlog' = backlog
  PROVE  todo' \in Seq(TaskType) /\ Ordered(todo', backlog')
<1>1. todo \in Seq(TaskType) /\ Ordered(todo, backlog)
  BY DEF TypeOK, Order, Ordered
<1> QED BY <1>1, Remaining DEF Remains

\* An item that is taken goes on with the task or ends it.
LEMMA HandleIsOrdered ==
  ASSUME NEW c, NEW x, NEW item, Handle(c, x, item)
  PROVE  todo' \in {todo, Tail(todo)}
BY Zenon DEF Handle, Flush, Done, Close, Closed

\* A connection is accepted once.
LEMMA AcceptIsOrdered ==
  ASSUME TypeOK, Order, NEW c \in Slot, todo[1][1] = "accept", todo[1][2] = c, todo' = Tail(todo),
         backlog' = [backlog EXCEPT ![c] = Tail(@)]
  PROVE  todo' \in Seq(TaskType) /\ Ordered(todo', backlog')
<1> DEFINE d == Tail(todo)
<1>1. /\ d \in Seq(TaskType) /\ todo[1] \in TaskType /\ 1 \in 1..Len(todo) /\ Len(d) \in Nat /\ todo \in Seq(TaskType)
      /\ \A j \in 1..Len(d) : d[j] = todo[j + 1] /\ j + 1 \in 1..Len(todo) /\ d[j] \in TaskType
  BY Remaining DEF TypeOK, Remains
<1>2. todo[1] = <<"accept", c>>
  BY <1>1, TaskIs
<1>3. Ordered(todo, backlog) /\ backlog \in [Slot -> Seq(Sock)]
  BY DEF Order, Ordered, TypeOK, NetTypes
<1> HIDE DEF d
<1>4. Accepting(d, backlog')
  <2> SUFFICES ASSUME NEW i \in 1..Len(d), d[i][1] = "accept" PROVE backlog'[d[i][2]] # <<>>
    BY DEF Accepting
  <2>1. i + 1 # 1
    BY <1>1
  <2>2. d[i] # todo[1]
    BY <1>1, <1>2, <2>1 DEF Order, Ordered
  <2>3. d[i] = <<"accept", d[i][2]>> /\ d[i][2] \in Slot
    BY <1>1, TaskIs
  <2>4. d[i][2] # c
    BY <1>2, <2>2, <2>3
  <2>5. backlog[d[i][2]] # <<>>
    BY <1>1 DEF Order, Ordered
  <2> QED BY <1>3, <2>3, <2>4, <2>5
<1>5. todo' = d /\ todo[1][1] \notin {"poll", "timers"}
  BY DEF d
<1>6. d = Tail(todo)
  BY DEF d
<1> QED BY <1>1, <1>3, <1>4, <1>5, <1>6, OrderedTail

\* One more connection to accept.
LEMMA ConnectIsOrdered ==
  ASSUME TypeOK, Order, NEW s \in Sock, Connect(s)
  PROVE  todo' \in Seq(TaskType) /\ Ordered(todo', backlog')
<1>1. todo' = todo /\ backlog' = [backlog EXCEPT ![SlotOf(s)] = Append(@, s)]
  BY DEF Connect, Same
<1>2. backlog \in [Slot -> Seq(Sock)] /\ todo \in Seq(TaskType) /\ Ordered(todo, backlog)
  BY DEF TypeOK, NetTypes, Order, Ordered
<1>3. \A c \in Slot : backlog'[c] \in {backlog[c], Append(backlog[c], s)}
  BY <1>1, <1>2
<1>4. \A c \in Slot : Append(backlog[c], s) # <<>>
  BY <1>2, AppendProperties
<1>5. \A c \in Slot : backlog[c] # <<>> => backlog'[c] # <<>>
  BY <1>3, <1>4
<1> QED BY <1>1, <1>2, <1>5, OrderedSame

\* The tasks stay in order.
LEMMA OrderKept ==
  ASSUME IInv, [Next]_vars
  PROVE  todo' \in Seq(TaskType) /\ Ordered(todo', backlog')
<1> USE DEF Slot
<1>1. TypeOK /\ Order /\ Buffers /\ NetTypes /\ NetInv /\ todo \in Seq(TaskType) /\ Ordered(todo, backlog)
  BY DEF IInv, TypeOK, NetInv, Order, Ordered
<1>2. CASE todo' = todo /\ backlog' = backlog
  BY <1>1, <1>2
<1>3. CASE UNCHANGED vars \/ ProcessFrame \/ TimePasses
  <2>1. todo' = todo /\ backlog' = backlog
    BY Zenon, <1>3 DEF vars, ProcessFrame, TimePasses, GoesQuiet, GetsOld
  <2> QED BY <1>2, <2>1
<1>4. CASE Clients
  <2>1. PICK s \in Sock : Connect(s) \/ ClientSends(s) \/ ClientReads(s) \/ ClientLeaves(s)
    BY <1>4 DEF Clients
  <2>2. ~Connect(s) => todo' = todo /\ backlog' = backlog
    BY Zenon, <2>1 DEF ClientSends, ClientReads, ClientLeaves, Same
  <2> QED BY <1>1, <1>2, <2>2, ConnectIsOrdered
<1>5. CASE Timers \/ Stop
  <2>1. todo' = StepTasks
    BY <1>5 DEF Timers, Stop
  <2> QED BY <2>1, StepIsOrdered
<1>6. CASE ProcessRaw \/ ProcessPending \/ ProcessEnds \/ HttpReceive \/ HttpWrite
  <2>1. todo[1][1] \notin {"poll", "timers"} /\ backlog' = backlog
    BY Zenon, <1>6 DEF ProcessRaw, ProcessPending, ProcessEnds, HttpReceive, HttpWrite, Task
  <2>2. todo' \in {todo, Tail(todo)}
    <3>1. CASE ProcessRaw \/ ProcessPending
      BY <3>1, HandleIsOrdered DEF ProcessRaw, ProcessPending
    <3>2. CASE ProcessEnds
      BY <3>2 DEF ProcessEnds, Flush, Done
    <3>3. CASE HttpReceive \/ HttpWrite
      BY Zenon, <3>3 DEF HttpReceive, HttpWrite, Done
    <3> QED BY <1>6, <3>1, <3>2, <3>3
  <2> QED BY <1>1, <2>1, <2>2, DoneIsOrdered
<1>7. CASE Accept \/ AcceptWeb
  <2>1. \E c \in Slot : todo[1][1] = "accept" /\ todo[1][2] = c /\ todo' = Tail(todo) /\ backlog' = [backlog EXCEPT ![c] = Tail(@)]
    BY <1>7 DEF Accept, AcceptWeb, Task, Done
  <2> QED BY <1>1, <2>1, AcceptIsOrdered
<1>8. CASE Feed
  <2>1. backlog' = backlog
    BY <1>8 DEF Feed
  <2> QED BY <1>1, <1>8, <2>1, FeedIsOrdered
<1>9. CASE Again
  <2>1. backlog' = backlog
    BY <1>9 DEF Again
  <2> QED BY <1>1, <1>9, <2>1, AgainIsOrdered
<1>10. CASE Poll
  <2>1. backlog' = backlog
    BY Zenon, <1>10 DEF Poll
  <2> QED BY <1>1, <1>10, <2>1, PollIsOrdered
<1>11. CASE Receive
  <2>1. backlog' = backlog
    BY Zenon, <1>11 DEF Receive
  <2> QED BY <1>1, <1>11, <2>1, ReceiveIsOrdered
<1>12. CASE Pump
  <2>1. backlog' = backlog
    BY Zenon, <1>12 DEF Pump
  <2> QED BY <1>1, <1>12, <2>1, PumpIsOrdered
<1> QED BY <1>3, <1>4, <1>5, <1>6, <1>7, <1>8, <1>9, <1>10, <1>11, <1>12 DEF Next, Serve

-----------------------------------------------------------------------------
(***************************************************************************)
(* Room in the buffers.                                                    *)
(***************************************************************************)
\* What a step does to a client's buffer is nothing, or it is emptied.
Calm(c) ==
  \/ conn'[c].used = 0
  \/ /\ conn'[c].used = conn[c].used /\ conn'[c].in = conn[c].in /\ conn'[c].pend = conn[c].pend

\* The room is as it was when tasks, poll and what clients have received are.
LEMMA SameRoom ==
  ASSUME IInv, todo' = todo, polled' = polled,
         \A c \in Slot : /\ conn'[c].used = conn[c].used /\ conn'[c].in = conn[c].in /\ conn'[c].pend = conn[c].pend
                         /\ conn'[c].out = conn[c].out /\ conn'[c].ctl = conn[c].ctl /\ conn'[c].stream = conn[c].stream
  PROVE  Buffers'
<1> SUFFICES ASSUME NEW c \in Slot PROVE Room(c)'
  BY DEF Buffers
<1>1. HasOutput(conn'[c]) <=> HasOutput(conn[c])
  BY DEF HasOutput, Streaming
<1>2. Busy(conn'[c]) <=> Busy(conn[c])
  BY DEF Busy, Streaming
<1>3. Room(c)
  BY DEF IInv, Buffers
<1>4. /\ conn'[c].used = conn[c].used /\ conn'[c].in = conn[c].in /\ conn'[c].pend = conn[c].pend
  OBVIOUS
<1> HIDE DEF IInv
<1> QED BY ONLY <1>1, <1>2, <1>3, <1>4, todo' = todo, polled' = polled, c \in Slot DEF Room

\* After poll, while the ready ones have their turn.
LEMMA LateRoom ==
  ASSUME IInv, todo[1][1] # "process", polled' = polled, todo' # <<>>, todo' \in Seq(TaskType),
         \A j \in 1..Len(todo') : /\ todo'[j][1] \notin {"poll", "again"}
                                  /\ todo'[j][1] = "read" => \E i \in 1..Len(todo) : todo[i] = todo'[j],
         \A c \in Slot : Calm(c)
  PROVE  Buffers'
<1> SUFFICES ASSUME NEW c \in Slot PROVE Room(c)'
  BY DEF Buffers
<1>1. Room(c) /\ Calm(c)
  BY DEF IInv, Buffers
<1>2. 1 \in 1..Len(todo') /\ Len(todo') \in 1..Len(todo')
  <2> DEFINE l == Len(todo')
  <2>1. l \in Nat /\ l # 0
    OBVIOUS
  <2> HIDE DEF l
  <2>2. 1 \in 1..l /\ l \in 1..l
    BY <2>1
  <2> QED BY <2>2 DEF l
<1>3. todo'[Len(todo')] # <<"poll">> /\ todo'[1][1] # "again"
  BY <1>2
<1>4. conn'[c].in = <<>> /\ conn'[c].pend = None => conn'[c].used = 0
  <2>1. todo[1] # <<"process", c>>
    OBVIOUS
  <2> QED BY <1>1, <2>1 DEF Room, Calm
<1>5. \A j \in 1..Len(todo') : todo'[j][1] = "read" /\ todo'[j][2] = c /\ c \notin polled'.want => conn'[c].used = 0
  <2> SUFFICES ASSUME NEW j \in 1..Len(todo'), todo'[j][1] = "read", todo'[j][2] = c, c \notin polled'.want PROVE conn'[c].used = 0
    OBVIOUS
  <2>1. PICK i \in 1..Len(todo) : todo[i] = todo'[j]
    OBVIOUS
  <2>2. conn[c].used = 0
    BY <1>1, <2>1 DEF Room
  <2> QED BY <1>1, <2>2 DEF Calm
<1> QED BY <1>3, <1>4, <1>5 DEF Room

\* While the input of client c is processed.
LEMMA ProcessRoom ==
  ASSUME IInv, NEW c \in Slot, todo[1] = <<"process", c>>, polled' = polled, \A e \in Slot : e # c => conn'[e] = conn[e],
         \/ todo' = todo
         \/ /\ todo' = Tail(todo)
            /\ conn'[c].used = 0 \/ (Busy(conn'[c]) /\ ~(conn'[c].in = <<>> /\ conn'[c].pend = None))
  PROVE  Buffers'
<1> SUFFICES ASSUME NEW e \in Slot PROVE Room(e)'
  BY DEF Buffers
<1> DEFINE d == Tail(todo)
<1>1. TypeOK /\ Order /\ Room(e) /\ todo[1][1] = "process" /\ todo[1][2] = c /\ todo[1][1] \notin {"poll", "timers"}
  BY DEF IInv, Buffers
<1>2. /\ d \in Seq(TaskType) /\ d # <<>> /\ Len(d) = Len(todo) - 1 /\ Len(d) \in Nat /\ 1 \in 1..Len(todo)
      /\ \A j \in 1..Len(d) :
           /\ d[j] = todo[j + 1] /\ j + 1 \in 1..Len(todo) /\ d[j][1] # "process"
           /\ d[j][1] = "read" => c # d[j][2]
           /\ d[j][1] = "again" => j = 1 /\ todo[1] = <<"process", d[j][2]>>
  BY <1>1, Remaining DEF Remains
<1>3. \A i \in 1..Len(todo) : i = 1 \/ \E j \in 1..Len(d) : i = j + 1 /\ d[j] = todo[i]
  <2> SUFFICES ASSUME NEW i \in 1..Len(todo), i # 1 PROVE \E j \in 1..Len(d) : i = j + 1 /\ d[j] = todo[i]
    OBVIOUS
  <2>1. i - 1 \in 1..Len(d) /\ i = (i - 1) + 1
    BY <1>2
  <2> QED BY <1>2, <2>1
<1> HIDE DEF d
<1>4. 1 \in 1..Len(d) /\ Len(d) \in 1..Len(d) /\ Len(todo) = Len(d) + 1
  <2> DEFINE l == Len(d)
             n == Len(todo)
  <2>1. l \in Nat /\ l # 0 /\ l = n - 1 /\ n \in Nat
    BY <1>1, <1>2 DEF TypeOK
  <2> HIDE DEF l, n
  <2>2. 1 \in 1..l /\ l \in 1..l /\ n = l + 1
    BY <2>1
  <2> QED BY <2>2 DEF l, n
<1>5. CASE todo' = todo
  <2>1. CASE e = c
    <3>1. \A j \in 1..Len(todo) : ~(todo[j][1] = "read" /\ todo[j][2] = c)
      <4> SUFFICES ASSUME NEW i \in 1..Len(todo), todo[i][1] = "read", todo[i][2] = c PROVE FALSE
        OBVIOUS
      <4>1. i # 1
        BY <1>1
      <4>2. PICK j \in 1..Len(d) : d[j] = todo[i]
        BY <1>3, <4>1
      <4> QED BY <1>2, <4>2
    <3> QED BY <1>1, <1>2, <1>5, <2>1, <3>1 DEF Room
  <2>2. CASE e # c
    <3>1. conn'[e] = conn[e]
      BY <2>2
    <3> QED BY <1>1, <1>5, <3>1 DEF Room
  <2> QED BY <2>1, <2>2
<1>6. CASE todo' = d /\ (conn'[c].used = 0 \/ (Busy(conn'[c]) /\ ~(conn'[c].in = <<>> /\ conn'[c].pend = None)))
  <2>1. CASE e = c
    <3>1. \A j \in 1..Len(d) : ~(d[j][1] = "read" /\ d[j][2] = c)
      BY <1>2
    <3>2. Busy(conn'[c]) => HasOutput(conn'[c])
      BY DEF Busy, HasOutput
    <3> QED BY <1>6, <2>1, <3>1, <3>2 DEF Room
  <2>2. CASE e # c
    <3>1. conn'[e] = conn[e]
      BY <2>2
    <3>2. todo[1] # <<"process", e>> /\ todo[1] # <<"feed", e>>
      BY <1>1, <2>2
    <3>3. conn[e].in = <<>> /\ conn[e].pend = None => conn[e].used = 0
      BY <1>1, <3>2 DEF Room
    <3>4. d[Len(d)] = <<"poll">> /\ (\A i \in 1..Len(d) : d[i] \notin {<<"feed", e>>, <<"process", e>>}) =>
            HasOutput(conn[e]) \/ conn[e].used = 0
      <4> SUFFICES ASSUME d[Len(d)] = <<"poll">>, \A i \in 1..Len(d) : d[i] \notin {<<"feed", e>>, <<"process", e>>}
                   PROVE  HasOutput(conn[e]) \/ conn[e].used = 0
        OBVIOUS
      <4>1. todo[Len(todo)] = <<"poll">>
        BY <1>2, <1>4
      <4>2. \A i \in 1..Len(todo) : todo[i] \notin {<<"feed", e>>, <<"process", e>>}
        BY <1>3, <3>2
      <4> QED BY <1>1, <4>1, <4>2 DEF Room
    <3>5. ~(d[1][1] = "again" /\ d[1][2] = e)
      BY <1>2, <1>4, <3>2
    <3>6. \A j \in 1..Len(d) : d[j][1] = "read" /\ d[j][2] = e /\ e \notin polled.want => conn[e].used = 0
      BY <1>1, <1>2 DEF Room
    <3> QED BY <1>6, <3>1, <3>3, <3>4, <3>5, <3>6 DEF Room
  <2> QED BY <2>1, <2>2
<1> QED BY <1>5, <1>6 DEF d

\* One of the ready ones has had its turn.
LEMMA TurnRoom ==
  ASSUME IInv, todo[1][1] \notin {"feed", "process", "poll", "timers"}, polled' = polled, \A c \in Slot : Calm(c),
         todo' = Tail(todo) \/ \E due \in BOOLEAN, c \in Slot, n \in Nat : todo' = When(due, <<"pump", c, n>>) \o Tail(todo)
  PROVE  Buffers'
<1> DEFINE d == Tail(todo)
<1>1. TypeOK /\ Order
  BY DEF IInv
<1>2. /\ d \in Seq(TaskType) /\ d # <<>>
      /\ \A j \in 1..Len(d) : /\ d[j][1] \notin {"poll", "again"}
                              /\ d[j][1] = "read" => \E i \in 1..Len(todo) : todo[i] = d[j]
  <2>1. \A e : todo[1] # <<"process", e>>
    OBVIOUS
  <2>2. Remains(d)
    BY <1>1, Remaining
  <2> HIDE DEF d
  <2> QED BY <1>1, <2>1, <2>2 DEF Remains
<1>3. todo[1][1] # "process"
  OBVIOUS
<1> HIDE DEF d
<1>4. CASE todo' = d
  BY <1>2, <1>3, <1>4, LateRoom
<1>5. ASSUME NEW due \in BOOLEAN, NEW c \in Slot, NEW n \in Nat, todo' = When(due, <<"pump", c, n>>) \o d PROVE Buffers'
  <2> DEFINE t == <<"pump", c, n>>
  <2>1. t \in TaskType /\ t[1] = "pump"
    BY DEF TaskType
  <2>2. CASE ~due
    <3>1. When(due, t) = <<>>
      BY <2>2 DEF When
    <3>2. <<>> \o d = d
      BY <1>2, NoneBefore
    <3>3. todo' = d
      BY <1>5, <3>1, <3>2
    <3> QED BY <1>4, <3>3
  <2>3. CASE due
    <3> DEFINE r == <<t>> \o d
    <3>1. todo' = r
      BY <1>5, <2>3 DEF When
    <3> HIDE DEF t
    <3>2. /\ r \in Seq(TaskType) /\ r # <<>> /\ r[1] = t
          /\ \A i \in 1..Len(r) : i = 1 \/ \E j \in 1..Len(d) : i = j + 1 /\ r[i] = d[j]
      BY <1>2, <2>1, ConsAt
    <3> HIDE DEF r
    <3>3. \A j \in 1..Len(r) : /\ r[j][1] \notin {"poll", "again"}
                               /\ r[j][1] = "read" => \E i \in 1..Len(todo) : todo[i] = r[j]
      <4> SUFFICES ASSUME NEW j \in 1..Len(r)
                   PROVE  r[j][1] \notin {"poll", "again"} /\ (r[j][1] = "read" => \E i \in 1..Len(todo) : todo[i] = r[j])
        OBVIOUS
      <4>1. CASE j = 1
        BY <2>1, <3>2, <4>1
      <4>2. CASE j # 1
        <5>1. PICK i \in 1..Len(d) : r[j] = d[i]
          BY <3>2, <4>2
        <5> QED BY <1>2, <5>1
      <4> QED BY <4>1, <4>2
    <3> QED BY <1>3, <3>1, <3>2, <3>3, LateRoom
  <2> QED BY <2>2, <2>3
<1> QED BY <1>4, <1>5 DEF d

\* One client is other than before.
LEMMA CalmConn ==
  ASSUME NetTypes, NEW c \in Slot, NEW y, conn' = [conn EXCEPT ![c] = y], y.used = 0 \/ (y.used = conn[c].used /\ y.in = conn[c].in /\ y.pend = conn[c].pend)
  PROVE  \A e \in Slot : Calm(e)
<1>1. conn \in [Slot -> ConnType]
  BY DEF NetTypes
<1>2. conn'[c] = y /\ \A e \in Slot : e # c => conn'[e] = conn[e]
  BY <1>1
<1> QED BY <1>2 DEF Calm

\* A new client has used nothing.
LEMMA NewIsEmpty == NoConn.used = 0 /\ \A s : [NoConn EXCEPT !.sock = s].used = 0
BY DEF NoConn

\* What is accepted, and the exchanges, use no buffer of a client.
LEMMA AcceptRoom ==
  ASSUME IInv, Accept \/ AcceptWeb \/ HttpReceive \/ HttpWrite
  PROVE  Buffers'
<1> USE DEF Slot
<1>1. todo[1][1] \in {"accept", "http", "write"} /\ todo' = Tail(todo) /\ polled' = polled
  BY Zenon DEF Accept, AcceptWeb, HttpReceive, HttpWrite, Task, Done
<1>2. NetTypes
  BY DEF IInv, NetInv
<1>3. \/ conn' = conn \/ conn' = [conn EXCEPT !["web"] = NoConn]
      \/ \E c \in Slot : \E s : conn' = [conn EXCEPT ![c] = [NoConn EXCEPT !.sock = s]]
  <2>1. CASE Accept
    BY Zenon, <2>1 DEF Accept
  <2>2. CASE AcceptWeb \/ HttpWrite
    BY Zenon, <2>2 DEF AcceptWeb, HttpWrite
  <2>3. CASE HttpReceive
    <3>1. conn' = conn \/ Upgrade(todo[1][2])
      BY Zenon, <2>3 DEF HttpReceive, CloseHttp
    <3>2. CASE Upgrade(todo[1][2])
      BY Zenon, <3>2 DEF Upgrade
    <3> QED BY <3>1, <3>2
  <2> QED BY <2>1, <2>2, <2>3
<1>4. \A c \in Slot : Calm(c)
  <2>1. CASE conn' = conn
    BY <2>1 DEF Calm
  <2>2. CASE conn' = [conn EXCEPT !["web"] = NoConn]
    BY <1>2, <2>2, NewIsEmpty, CalmConn
  <2>3. ASSUME NEW c \in Slot, NEW s, conn' = [conn EXCEPT ![c] = [NoConn EXCEPT !.sock = s]] PROVE \A e \in Slot : Calm(e)
    <3> DEFINE y == [NoConn EXCEPT !.sock = s]
    <3>1. y.used = 0 /\ conn' = [conn EXCEPT ![c] = y]
      BY <2>3, NewIsEmpty
    <3> HIDE DEF y
    <3> QED BY <1>2, <3>1, CalmConn
  <2> QED BY <1>3, <2>1, <2>2, <2>3
<1> QED BY <1>1, <1>4, TurnRoom

\* A new step begins with feed.
LEMMA StepRoom ==
  ASSUME IInv, Timers \/ Stop
  PROVE  Buffers'
<1> USE DEF Slot
<1>1. todo' = StepTasks /\ todo[1][1] \in {"poll", "timers"} /\ \A c \in Slot : conn'[c] \in {conn[c], NoConn}
  BY DEF Timers, Stop, Task
<1> SUFFICES ASSUME NEW c \in Slot PROVE Room(c)'
  BY DEF Buffers
<1>2. Room(c)
  BY DEF IInv, Buffers
<1>3. conn'[c].in = <<>> /\ conn'[c].pend = None => conn'[c].used = 0
  <2>1. todo[1] # <<"process", c>>
    BY <1>1
  <2> QED BY <1>1, <1>2, <2>1, NewIsEmpty DEF Room
<1>4. /\ todo'[1] = <<"feed", "raw">> /\ todo'[2] = <<"feed", "web">> /\ todo'[3] = <<"poll">> /\ Len(todo') = 3
  BY <1>1 DEF StepTasks
<1>5. \E i \in 1..Len(todo') : todo'[i] = <<"feed", c>>
  BY <1>4
<1>6. \A j \in 1..Len(todo') : todo'[j][1] # "read"
  <2>1. \A j \in 1..Len(todo') : j = 1 \/ j = 2 \/ j = 3
    BY <1>4
  <2> QED BY <1>4, <2>1
<1>7. todo'[1][1] # "again"
  BY <1>4
<1> QED BY <1>3, <1>5, <1>6, <1>7 DEF Room

\* A flush does not touch what was received.
LEMMA RestKeeps ==
  ASSUME NEW x \in ConnType, NEW y, y = Rest(x)
  PROVE  y.used = x.used /\ y.in = x.in /\ y.pend = x.pend
<1> DEFINE out == SubSeq(x.out, Sends(x) + 1, Len(x.out))
           ctl == SubSeq(x.ctl, 1 + (IF Sends(x) > Len(x.out) THEN Sends(x) - Len(x.out) ELSE 0), Len(x.ctl))
           m == IF ctl = <<>> THEN 0 ELSE x.ctlUsed
           e == x.quiet /\ Sends(x) = 0
<1>1. y = [x EXCEPT !.out = out, !.ctl = ctl, !.ctlUsed = m, !.quiet = e]
  BY DEF Rest, ConnType
<1> HIDE DEF out, ctl, m, e
<1> QED BY ONLY <1>1, x \in ConnType DEF ConnType

\* After its feed a client has something to send or an empty buffer.
LEMMA FeedRoom ==
  ASSUME IInv, Feed
  PROVE  Buffers'
<1> DEFINE e == todo[1][2]
           x == conn[e]
           due == (x.in # <<>> \/ x.pend # None) /\ ~Busy(x)
           t == <<"process", e>>
           d == Tail(todo)
<1>1. TypeOK /\ Order /\ Buffers /\ todo[1][1] = "feed" /\ todo' = When(due, t) \o d /\ conn' = conn /\ polled' = polled
  BY DEF IInv, Feed, Task, Done
<1>2. /\ d \in Seq(TaskType) /\ Len(d) = Len(todo) - 1 /\ Len(d) \in Nat /\ d # <<>> /\ 1 \in 1..Len(todo) /\ todo[1] \in TaskType
      /\ \A j \in 1..Len(d) : /\ d[j] = todo[j + 1] /\ d[j][1] # "process" /\ d[j][1] # "read" /\ d[j][1] # "again"
  <2>1. \A u : todo[1] # <<"process", u>>
    BY <1>1
  <2>2. Remains(d)
    BY <1>1, Remaining
  <2> HIDE DEF d
  <2> QED BY <1>1, <2>1, <2>2 DEF Remains
<1>3. \A i \in 1..Len(todo) : i = 1 \/ \E j \in 1..Len(d) : i = j + 1 /\ d[j] = todo[i]
  <2> SUFFICES ASSUME NEW i \in 1..Len(todo), i # 1 PROVE \E j \in 1..Len(d) : i = j + 1 /\ d[j] = todo[i]
    OBVIOUS
  <2>1. i - 1 \in 1..Len(d) /\ i = (i - 1) + 1
    BY <1>2
  <2> QED BY <1>2, <2>1
<1>4. e \in Slot /\ t \in TaskType
  <2>1. e \in Slot
    BY <1>1, <1>2, TaskIs
  <2> QED BY <2>1 DEF TaskType
<1>40. todo[1] = <<"feed", e>> /\ t[1] = "process"
  BY <1>1, <1>2, TaskIs
<1>5. Busy(x) => HasOutput(x)
  BY DEF Busy, HasOutput
<1> HIDE DEF d
<1>6. 1 \in 1..Len(d) /\ Len(d) \in 1..Len(d) /\ Len(todo) = Len(d) + 1
  <2> DEFINE l == Len(d)
             n == Len(todo)
  <2>0. todo \in Seq(TaskType)
    BY <1>1 DEF TypeOK
  <2>1. l \in Nat /\ l # 0 /\ l = n - 1 /\ n \in Nat
    BY ONLY <1>2, <2>0
  <2> HIDE DEF l, n
  <2>2. 1 \in 1..l /\ l \in 1..l /\ n = l + 1
    BY <2>1
  <2> QED BY <2>2 DEF l, n
<1> SUFFICES ASSUME NEW c \in Slot PROVE Room(c)'
  BY DEF Buffers
<1>7. Room(c) /\ Room(e)
  BY <1>1, <1>4 DEF Buffers
<1>8. \A f \in Slot : conn[f].in = <<>> /\ conn[f].pend = None => conn[f].used = 0
  <2>1. \A f : todo[1] # <<"process", f>>
    BY <1>1
  <2> QED BY <1>1, <2>1 DEF Room, Buffers
<1>9. CASE ~due
  <2>1. todo' = d
    <3>1. When(due, t) = <<>>
      BY <1>9 DEF When
    <3>2. <<>> \o d = d
      BY <1>2, NoneBefore
    <3> QED BY Zenon, <1>1, <3>1, <3>2
  <2>2. HasOutput(conn[e]) \/ conn[e].used = 0
    BY <1>4, <1>5, <1>8, <1>9
  <2>3. d[Len(d)] = <<"poll">> /\ (\A i \in 1..Len(d) : d[i] \notin {<<"feed", c>>, <<"process", c>>}) =>
          HasOutput(conn[c]) \/ conn[c].used = 0
    <3> SUFFICES ASSUME d[Len(d)] = <<"poll">>, \A i \in 1..Len(d) : d[i] \notin {<<"feed", c>>, <<"process", c>>}, c # e
                 PROVE  HasOutput(conn[c]) \/ conn[c].used = 0
      BY <2>2
    <3>1. todo[Len(todo)] = <<"poll">>
      BY <1>2, <1>6
    <3>2. \A i \in 1..Len(todo) : todo[i] \notin {<<"feed", c>>, <<"process", c>>}
      BY <1>3, <1>40
    <3> QED BY <1>7, <3>1, <3>2 DEF Room
  <2>4. d[1][1] # "again" /\ \A j \in 1..Len(d) : d[j][1] # "read"
    BY <1>2, <1>6
  <2> QED BY Zenon, <1>1, <1>8, <2>1, <2>3, <2>4 DEF Room
<1>10. CASE due
  <2> DEFINE r == <<t>> \o d
  <2>1. todo' = r
    BY <1>1, <1>10 DEF When
  <2> HIDE DEF t
  <2>2. /\ r \in Seq(TaskType) /\ r # <<>> /\ r[1] = t /\ Len(r) = Len(d) + 1
        /\ \A i \in 1..Len(d) : r[i + 1] = d[i] /\ i + 1 \in 2..Len(r) /\ i \in Nat
        /\ \A i \in 1..Len(r) : i = 1 \/ \E j \in 1..Len(d) : i = j + 1 /\ r[i] = d[j]
    BY <1>2, <1>4, ConsAt
  <2> HIDE DEF r
  <2>3. \A j \in 1..Len(r) : r[j][1] # "read"
    BY <1>2, <1>40, <2>2
  <2>4. r[1][1] # "again" /\ 1 \in 1..Len(r) /\ Len(r) = Len(todo)
    BY <1>2, <1>40, <1>6, <2>2
  <2>5. r[Len(r)] = <<"poll">> /\ (\A i \in 1..Len(r) : r[i] \notin {<<"feed", c>>, <<"process", c>>}) =>
          HasOutput(conn[c]) \/ conn[c].used = 0
    <3> SUFFICES ASSUME r[Len(r)] = <<"poll">>, \A i \in 1..Len(r) : r[i] \notin {<<"feed", c>>, <<"process", c>>}
                 PROVE  HasOutput(conn[c]) \/ conn[c].used = 0
      OBVIOUS
    <3>1. c # e
      BY <2>2, <2>4 DEF t
    <3>2. \A j \in 1..Len(d) : d[j] \notin {<<"feed", c>>, <<"process", c>>}
      <4>1. \A j \in 1..Len(d) : j + 1 \in 1..Len(r)
        BY <2>2
      <4> QED BY <2>2, <4>1
    <3>3. \A i \in 1..Len(todo) : todo[i] \notin {<<"feed", c>>, <<"process", c>>}
      BY <1>3, <1>40, <3>1, <3>2
    <3>4. todo[Len(todo)] = <<"poll">>
      <4>1. r[Len(r)] = d[Len(d)]
        BY <1>6, <2>2
      <4> QED BY <1>2, <1>6, <4>1
    <3> QED BY <1>7, <3>3, <3>4 DEF Room
  <2> QED BY Zenon, <1>1, <1>8, <2>1, <2>3, <2>4, <2>5 DEF Room
<1> QED BY <1>9, <1>10

\* Poll looks at a client that has nothing to send: its buffer is empty.
LEMMA PollRoom ==
  ASSUME IInv, Poll
  PROVE  Buffers'
<1>1. TypeOK /\ Order /\ Buffers /\ NetInv /\ todo[1][1] = "poll" /\ conn' = conn /\ polled'.want = {c \in Slot : Wants(conn[c])}
  BY Zenon DEF IInv, Poll, Task
<1>2. /\ todo' \in Seq(TaskType) /\ todo' # <<>>
      /\ \A i \in 1..Len(todo') : todo'[i][1] \notin {"feed", "process", "again", "poll"}
  BY <1>1, PollIsOrdered DEF Ordered
<1>3. 1 \in 1..Len(todo') /\ Len(todo') \in 1..Len(todo')
  <2> DEFINE l == Len(todo')
  <2>1. l \in Nat /\ l # 0
    BY <1>2
  <2> HIDE DEF l
  <2>2. 1 \in 1..l /\ l \in 1..l
    BY <2>1
  <2> QED BY <2>2 DEF l
<1>4. todo[Len(todo)] = <<"poll">> /\ \A i \in 1..Len(todo) : i = 1
  <2>1. todo \in Seq(TaskType) /\ todo # <<>>
    BY <1>1 DEF TypeOK, Order, Ordered
  <2>2. 1 \in 1..Len(todo) /\ todo[1] \in TaskType
    BY <2>1
  <2>3. 1 = Len(todo)
    BY <1>1, <2>2 DEF Order, Ordered
  <2>4. todo[1] = <<"poll">>
    BY <1>1, <2>2, TaskIs
  <2> QED BY <2>3, <2>4
<1> SUFFICES ASSUME NEW c \in Slot PROVE Room(c)'
  BY DEF Buffers
<1>5. Room(c)
  BY <1>1 DEF Buffers
<1>6. conn[c].in = <<>> /\ conn[c].pend = None => conn[c].used = 0
  <2>1. todo[1] # <<"process", c>>
    BY <1>1
  <2> QED BY <1>5, <2>1 DEF Room
<1>7. c \notin polled'.want => conn[c].used = 0
  <2>1. HasOutput(conn[c]) \/ conn[c].used = 0
    <3>1. \A i \in 1..Len(todo) : todo[i] \notin {<<"feed", c>>, <<"process", c>>}
      BY <1>1, <1>4
    <3> QED BY <1>4, <1>5, <3>1 DEF Room
  <2> QED BY <1>1, <2>1 DEF Wants
<1>8. todo'[Len(todo')] # <<"poll">> /\ todo'[1][1] # "again"
  BY <1>2, <1>3
<1> QED BY <1>1, <1>6, <1>7, <1>8 DEF Room

\* Another reception is only for a client whose input is used up.
LEMMA AgainRoom ==
  ASSUME IInv, Again
  PROVE  Buffers'
<1> DEFINE e == todo[1][2]
           x == conn[e]
           due == x.sock # None /\ todo[1][4] = InMax /\ ~Busy(x) /\ x.pend = None /\ todo[1][3] < Rounds
           t == <<"read", e, todo[1][3] + 1>>
           d == Tail(todo)
<1>1. TypeOK /\ Order /\ Buffers /\ todo[1][1] = "again" /\ todo' = When(due, t) \o d /\ conn' = conn /\ polled' = polled
  BY DEF IInv, Again, Task, Done
<1>2. /\ d \in Seq(TaskType) /\ d # <<>> /\ todo[1] \in TaskType
      /\ \A j \in 1..Len(d) : /\ d[j] = todo[j + 1] /\ j + 1 \in 1..Len(todo) /\ d[j][1] # "poll" /\ d[j][1] # "again"
  <2>1. \A u : todo[1] # <<"process", u>>
    BY <1>1
  <2> QED BY Zenon, <1>1, <2>1, Remaining DEF Remains
<1>3. e \in Slot /\ todo[1][3] \in Nat
  BY Zenon, <1>1, <1>2, TaskIs
<1>4. t \in TaskType /\ t[1] = "read" /\ t[2] = e
  BY <1>3 DEF TaskType
<1> HIDE DEF d
<1> SUFFICES ASSUME NEW c \in Slot PROVE Room(c)'
  BY DEF Buffers
<1>5. Room(c) /\ Room(e)
  BY <1>1, <1>3 DEF Buffers
<1>6. conn[c].in = <<>> /\ conn[c].pend = None => conn[c].used = 0
  <2>1. todo[1] # <<"process", c>>
    BY <1>1
  <2> QED BY <1>5, <2>1 DEF Room
<1>7. \A j \in 1..Len(d) : d[j][1] = "read" /\ d[j][2] = c /\ c \notin polled.want => conn[c].used = 0
  BY <1>2, <1>5 DEF Room
<1>8. CASE ~due
  <2>1. todo' = d
    <3>1. When(due, t) = <<>>
      BY <1>8 DEF When
    <3>2. <<>> \o d = d
      BY <1>2, NoneBefore
    <3> QED BY Zenon, <1>1, <3>1, <3>2
  <2>2. d[Len(d)] # <<"poll">> /\ d[1][1] # "again"
    <3> DEFINE l == Len(d)
    <3>1. l \in Nat /\ l # 0
      BY <1>2
    <3> HIDE DEF l
    <3>2. 1 \in 1..l /\ l \in 1..l
      BY <3>1
    <3> QED BY <1>2, <3>2 DEF l
  <2> QED BY Zenon, <1>1, <1>6, <1>7, <2>1, <2>2 DEF Room
<1>9. CASE due
  <2> DEFINE r == <<t>> \o d
  <2>1. todo' = r
    BY <1>1, <1>9 DEF When
  <2>2. e = c => conn[c].used = 0
    BY <1>1, <1>5, <1>9 DEF Room
  <2> HIDE DEF t
  <2>3. /\ r \in Seq(TaskType) /\ r # <<>> /\ r[1] = t /\ Len(r) = Len(d) + 1
        /\ \A i \in 1..Len(r) : i = 1 \/ \E j \in 1..Len(d) : i = j + 1 /\ r[i] = d[j]
    BY <1>2, <1>4, ConsAt
  <2> HIDE DEF r
  <2>4. r[Len(r)] # <<"poll">> /\ r[1][1] # "again"
    <3>1. Len(r) \in 1..Len(r)
      <4> DEFINE l == Len(r)
      <4>1. l \in Nat /\ l # 0
        BY <2>3
      <4> HIDE DEF l
      <4>2. l \in 1..l
        BY <4>1
      <4> QED BY <4>2 DEF l
    <3>2. \A i \in 1..Len(r) : r[i][1] # "poll"
      BY <1>2, <1>4, <2>3
    <3> QED BY <1>4, <2>3, <3>1, <3>2
  <2>5. \A j \in 1..Len(r) : r[j][1] = "read" /\ r[j][2] = c /\ c \notin polled.want => conn[c].used = 0
    <3> SUFFICES ASSUME NEW j \in 1..Len(r), r[j][1] = "read", r[j][2] = c, c \notin polled.want PROVE conn[c].used = 0
      OBVIOUS
    <3>1. CASE j = 1
      BY <1>4, <2>2, <2>3, <3>1
    <3>2. CASE j # 1
      <4>1. PICK i \in 1..Len(d) : r[j] = d[i]
        BY <2>3, <3>2
      <4> QED BY <1>7, <4>1
    <3> QED BY <3>1, <3>2
  <2> QED BY Zenon, <1>1, <1>6, <2>1, <2>4, <2>5 DEF Room
<1> QED BY <1>8, <1>9

\* A flush and a frame more do not touch what was received.
LEMMA RestIsRecord ==
  ASSUME NEW x \in ConnType
  PROVE  /\ \A f, g : /\ [Rest(x) EXCEPT !.out = f, !.stream = g].used = x.used
                      /\ [Rest(x) EXCEPT !.out = f, !.stream = g].in = x.in
                      /\ [Rest(x) EXCEPT !.out = f, !.stream = g].pend = x.pend
         /\ \A f : [Rest(x) EXCEPT !.out = f, !.stream = @ - 1] = [Rest(x) EXCEPT !.out = f, !.stream = Rest(x).stream - 1]
<1> DEFINE out == SubSeq(x.out, Sends(x) + 1, Len(x.out))
           ctl == SubSeq(x.ctl, 1 + (IF Sends(x) > Len(x.out) THEN Sends(x) - Len(x.out) ELSE 0), Len(x.ctl))
           m == IF ctl = <<>> THEN 0 ELSE x.ctlUsed
           e == x.quiet /\ Sends(x) = 0
           y == Rest(x)
<1>1. y = [x EXCEPT !.out = out, !.ctl = ctl, !.ctlUsed = m, !.quiet = e]
  BY DEF Rest, ConnType
<1> HIDE DEF out, ctl, m, e, y
<1>2. \A f, g : /\ [y EXCEPT !.out = f, !.stream = g].used = x.used
                /\ [y EXCEPT !.out = f, !.stream = g].in = x.in
                /\ [y EXCEPT !.out = f, !.stream = g].pend = x.pend
  BY ONLY <1>1, x \in ConnType DEF ConnType
<1>3. \A f : [y EXCEPT !.out = f, !.stream = @ - 1] = [y EXCEPT !.out = f, !.stream = y.stream - 1]
  BY ONLY <1>1, x \in ConnType DEF ConnType
<1> QED BY <1>2, <1>3 DEF y

\* Pump sends and uses no buffer.
LEMMA PumpRoom ==
  ASSUME IInv, Pump
  PROVE  Buffers'
<1> DEFINE c == todo[1][2]
           x == conn[c]
           y == Rest(x)
           d == Tail(todo)
           t == <<"pump", c, todo[1][3] - 1>>
<1>1. TypeOK /\ Order /\ NetTypes /\ todo[1][1] = "pump" /\ polled' = polled /\ conn \in [Slot -> ConnType]
  BY Zenon DEF IInv, NetInv, NetTypes, Pump, Task
<1>2. todo[1] \in TaskType
  <2>1. todo \in Seq(TaskType) /\ todo # <<>>
    BY <1>1 DEF TypeOK, Order, Ordered
  <2> QED BY <2>1
<1>3. c \in Slot /\ todo[1][3] \in Nat
  BY <1>1, <1>2, TaskIs
<1>4. x \in ConnType /\ y.used = x.used /\ y.in = x.in /\ y.pend = x.pend
  BY <1>1, <1>3, RestKeeps
<1> DEFINE z == [y EXCEPT !.out = Frame(y.handled, y.stream - 1), !.stream = @ - 1]
<1>5. z.used = x.used /\ z.in = x.in /\ z.pend = x.pend
  <2> DEFINE f == Frame(y.handled, y.stream - 1)
             g == y.stream - 1
  <2>1. z = [y EXCEPT !.out = f, !.stream = g]
    BY <1>4, RestIsRecord
  <2> HIDE DEF f, g, z
  <2> QED BY <1>4, <2>1, RestIsRecord
<1>6. \/ todo' = d
      \/ \E due \in BOOLEAN, e \in Slot, n \in Nat : todo' = When(due, <<"pump", e, n>>) \o d
  <2>1. todo' = d \/ (\E due \in BOOLEAN : todo' = When(due, t) \o d /\ (due => todo[1][3] > 0))
    BY Zenon DEF Pump, Done
  <2>2. ASSUME NEW due \in BOOLEAN, todo' = When(due, t) \o d, due => todo[1][3] > 0
        PROVE  todo' = d \/ \E u \in BOOLEAN, e \in Slot, n \in Nat : todo' = When(u, <<"pump", e, n>>) \o d
    <3>1. CASE due
      <4>1. todo[1][3] - 1 \in Nat
        BY <1>3, <2>2, <3>1
      <4> QED BY <1>3, <2>2, <4>1
    <3>2. CASE ~due
      <4>1. When(due, t) = <<>>
        BY <3>2 DEF When
      <4>2. <<>> \o d = d
        <5>1. d \in Seq(TaskType)
          BY <1>1, Remaining DEF Remains
        <5> QED BY <5>1, NoneBefore
      <4>3. todo' = d
        BY <2>2, <4>1, <4>2
      <4> QED BY <4>3
    <3> QED BY <3>1, <3>2
  <2> QED BY Zenon, <2>1, <2>2
<1>7. \A e \in Slot : Calm(e)
  <2>1. conn' = conn \/ conn' = [conn EXCEPT ![c] = NoConn] \/ conn' = [conn EXCEPT ![c] = y] \/ conn' = [conn EXCEPT ![c] = z]
    BY Zenon DEF Pump, Close, Closed
  <2>2. CASE conn' = conn
    BY <2>2 DEF Calm
  <2> HIDE DEF y, z
  <2> QED BY <1>1, <1>3, <1>4, <1>5, <2>1, <2>2, NewIsEmpty, CalmConn
<1> QED BY Zenon, <1>1, <1>6, <1>7, TurnRoom

\* What was received is processed at once.
LEMMA ReceiveRoom ==
  ASSUME IInv, Receive, todo' \in Seq(TaskType)
  PROVE  Buffers'
<1> DEFINE c == todo[1][2]
           x == conn[c]
           n == Least(InMax - x.used, Len(sock[x.sock].in))
           d == Tail(todo)
           a == <<"again", c, todo[1][3], n>>
           t == <<"process", c>>
<1>1. TypeOK /\ Order /\ Buffers /\ NetTypes /\ todo[1][1] = "read" /\ polled' = polled /\ conn \in [Slot -> ConnType]
  BY Zenon DEF IInv, NetInv, NetTypes, Receive, Task
<1>2. /\ d \in Seq(TaskType) /\ d # <<>> /\ todo[1] \in TaskType /\ 1 \in 1..Len(todo)
      /\ \A j \in 1..Len(d) : /\ d[j] = todo[j + 1] /\ j + 1 \in 1..Len(todo) /\ d[j][1] # "poll" /\ d[j][1] # "again"
                              /\ d[j][1] = "read" => c # d[j][2]
  <2>1. \A u : todo[1] # <<"process", u>>
    BY <1>1
  <2>2. Remains(d)
    BY <1>1, Remaining
  <2> HIDE DEF d
  <2> QED BY <1>1, <2>1, <2>2 DEF Remains
<1>3. c \in Slot
  BY <1>1, <1>2, TaskIs
<1>4. \/ todo' = d /\ (conn' = conn \/ conn' = [conn EXCEPT ![c] = NoConn])
      \/ todo' = <<t, a>> \o d /\ \E y : conn' = [conn EXCEPT ![c] = y]
  <2>1. \/ todo' = d /\ (conn' = conn \/ conn' = [conn EXCEPT ![c] = NoConn])
        \/ todo' = <<t, a>> \o d /\ conn' = [conn EXCEPT ![c].in = @ \o SubSeq(sock[x.sock].in, 1, n), ![c].used = @ + n, ![c].quiet = FALSE]
    BY Zenon DEF Receive, Done, Close, Closed
  <2>2. ASSUME conn' = [conn EXCEPT ![c].in = @ \o SubSeq(sock[x.sock].in, 1, n), ![c].used = @ + n, ![c].quiet = FALSE]
        PROVE  conn' = [conn EXCEPT ![c] = [x EXCEPT !.in = @ \o SubSeq(sock[x.sock].in, 1, n), !.used = @ + n, !.quiet = FALSE]]
    BY Zenon, <1>1, <1>3, <2>2
  <2> HIDE DEF n
  <2> QED BY Zenon, <2>1, <2>2
<1>5. CASE todo' = d /\ (conn' = conn \/ conn' = [conn EXCEPT ![c] = NoConn])
  <2>1. \A e \in Slot : Calm(e)
    BY <1>1, <1>3, <1>5, NewIsEmpty, CalmConn DEF Calm
  <2> QED BY <1>1, <1>5, <2>1, TurnRoom
<1>6. CASE todo' = <<t, a>> \o d /\ \E y : conn' = [conn EXCEPT ![c] = y]
  <2> DEFINE r == <<t, a>> \o d
             q == <<t, a>>
  <2>0. \A e \in Slot : e # c => conn'[e] = conn[e]
    BY <1>1, <1>6
  <2>1. todo' = r
    BY <1>6
  <2>2. t[1] = "process" /\ t[2] = c /\ a[1] = "again" /\ t = <<"process", c>> /\ q[1] = t /\ q[2] = a /\ Len(q) = 2
    OBVIOUS
  <2> DEFINE l == Len(d)
  <2>3. /\ Len(r) = 2 + l /\ l \in Nat /\ l # 0
        /\ \A i \in 1..2 + l : r[i] = IF i <= 2 THEN q[i] ELSE d[i - 2]
    <3> DEFINE U == {t, a} \cup TaskType
    <3>1. q \in Seq(U) /\ d \in Seq(U)
      <4>1. t \in U /\ a \in U
        OBVIOUS
      <4>2. d \in Seq(U)
        <5> HIDE DEF d
        <5>1. \A i \in 1..Len(d) : d[i] \in U
          <6>1. \A i \in 1..Len(d) : d[i] \in TaskType
            <7>1. d \in Seq(TaskType)
              BY <1>2
            <7> QED BY ONLY <7>1, ElementOfSeq
          <6> QED BY <6>1 DEF U
        <5>2. Len(d) \in Nat /\ DOMAIN d = 1..Len(d)
          BY <1>2
        <5> QED BY <1>2, <5>1, <5>2
      <4> HIDE DEF U, d
      <4> QED BY <4>1, <4>2
    <3>2. l \in Nat /\ l # 0
      <4> HIDE DEF U, q, t, a, r, d
      <4>1. d \in Seq(TaskType) /\ d # <<>>
        BY <1>2
      <4>2. Len(d) \in Nat /\ Len(d) # 0
        BY ONLY <4>1, EmptySeq
      <4> QED BY ONLY <4>2 DEF l
    <3> HIDE DEF U, q, d, l
    <3>3. Len(q \o d) = Len(q) + Len(d) /\ \A i \in 1..Len(q) + Len(d) : (q \o d)[i] = IF i <= Len(q) THEN q[i] ELSE d[i - Len(q)]
      BY <3>1, ConcatProperties
    <3>4. r = q \o d
      BY DEF q
    <3> QED BY <2>2, <3>2, <3>3, <3>4 DEF l
  <2> HIDE DEF t, a, q, r, l, d
  <2>4. r[1] = t /\ r[2] = a
    BY <2>2, <2>3
  <2>5. \A i \in 1..Len(r) : i = 1 \/ i = 2 \/ \E j \in 1..l : r[i] = d[j]
    <3> SUFFICES ASSUME NEW i \in 1..2 + l, i # 1, i # 2 PROVE \E j \in 1..l : r[i] = d[j]
      BY <2>3
    <3>1. i - 2 \in 1..l /\ ~(i <= 2)
      BY <2>3
    <3> QED BY <2>3, <3>1
  <2>6. Len(r) \in 1..Len(r) /\ 1 \in 1..Len(r)
    <3>1. 2 + l \in 1..2 + l /\ 1 \in 1..2 + l
      BY <2>3
    <3> QED BY <2>3, <3>1
  <2>7. \A i \in 1..Len(r) : /\ r[i][1] # "poll"
                             /\ r[i][1] = "read" => \E j \in 1..l : r[i] = d[j]
    BY <2>2, <2>4, <2>5, <1>2 DEF l
  <2>8. r[Len(r)] # <<"poll">> /\ r[1][1] # "again"
    BY <2>2, <2>4, <2>6, <2>7
  <2> SUFFICES ASSUME NEW e \in Slot PROVE Room(e)'
    BY DEF Buffers
  <2>9. CASE e = c
    <3>1. r[1] = <<"process", e>>
      BY <2>2, <2>4, <2>9
    <3>2. \A i \in 1..Len(r) : ~(r[i][1] = "read" /\ r[i][2] = e)
      BY <1>2, <2>7, <2>9 DEF l
    <3> QED BY <2>1, <2>8, <3>1, <3>2 DEF Room
  <2>10. CASE e # c
    <3>1. conn'[e] = conn[e] /\ Room(e)
      BY <1>1, <2>0, <2>10 DEF Buffers
    <3>2. todo[1] # <<"process", e>>
      BY <1>1
    <3>3. conn[e].in = <<>> /\ conn[e].pend = None => conn[e].used = 0
      BY <3>1, <3>2 DEF Room
    <3>4. \A i \in 1..Len(r) : r[i][1] = "read" /\ r[i][2] = e /\ e \notin polled.want => conn[e].used = 0
      <4> SUFFICES ASSUME NEW i \in 1..Len(r), r[i][1] = "read", r[i][2] = e, e \notin polled.want PROVE conn[e].used = 0
        OBVIOUS
      <4>1. PICK j \in 1..l : r[i] = d[j]
        BY <2>7
      <4>2. d[j] = todo[j + 1] /\ j + 1 \in 1..Len(todo)
        BY <1>2, <4>1 DEF l
      <4>3. todo[j + 1][1] = "read" /\ todo[j + 1][2] = e
        BY <4>1, <4>2
      <4> QED BY <3>1, <4>2, <4>3 DEF Room
    <3> QED BY <1>1, <2>1, <2>8, <3>1, <3>3, <3>4 DEF Room
  <2> QED BY <2>9, <2>10
<1> QED BY Zenon, <1>4, <1>5, <1>6

\* Input is taken while its task is the first.
LEMMA InputRoom ==
  ASSUME IInv, ProcessRaw \/ ProcessPending \/ ProcessFrame
  PROVE  Buffers'
<1> USE DEF Slot
<1>1. TypeOK /\ Order /\ NetTypes /\ conn \in [Slot -> ConnType]
  BY DEF IInv, NetInv, NetTypes
<1>2. todo[1] \in TaskType
  <2>1. todo \in Seq(TaskType) /\ todo # <<>>
    BY <1>1 DEF TypeOK, Order, Ordered
  <2> QED BY <2>1
<1>3. ASSUME NEW c \in Slot, NEW x, NEW item, Handle(c, x, item)
      PROVE  /\ \A e \in Slot : e # c => conn'[e] = conn[e]
             /\ todo' = todo \/ (todo' = Tail(todo) /\ conn'[c].used = 0)
  <2>1. /\ \E y : conn' = [conn EXCEPT ![c] = y]
        /\ todo' = todo \/ (todo' = Tail(todo) /\ conn' = [conn EXCEPT ![c] = NoConn])
    BY Zenon, <1>3 DEF Handle, Flush, Done, Close, Closed
  <2>2. \A e \in Slot : e # c => conn'[e] = conn[e]
    BY <1>1, <2>1
  <2>3. conn' = [conn EXCEPT ![c] = NoConn] => conn'[c].used = 0
    BY <1>1, NewIsEmpty
  <2> QED BY <2>1, <2>2, <2>3
<1>4. CASE ProcessRaw
  <2>1. todo[1][1] = "process" /\ todo[1][2] = "raw" /\ polled' = polled
    BY <1>4 DEF ProcessRaw, Task
  <2>2. todo[1] = <<"process", "raw">>
    BY <1>2, <2>1, TaskIs
  <2>3. \E x, item : Handle("raw", x, item)
    BY <1>4 DEF ProcessRaw
  <2>4. /\ \A e \in Slot : e # "raw" => conn'[e] = conn[e]
        /\ todo' = todo \/ (todo' = Tail(todo) /\ conn'["raw"].used = 0)
    BY <1>3, <2>3
  <2> QED BY <2>1, <2>2, <2>4, ProcessRoom
<1>5. CASE ProcessPending
  <2>1. todo[1][1] = "process" /\ todo[1][2] = "web" /\ polled' = polled
    BY <1>5 DEF ProcessPending, Task
  <2>2. todo[1] = <<"process", "web">>
    BY <1>2, <2>1, TaskIs
  <2>3. \E x, item : Handle("web", x, item)
    BY <1>5 DEF ProcessPending
  <2>4. /\ \A e \in Slot : e # "web" => conn'[e] = conn[e]
        /\ todo' = todo \/ (todo' = Tail(todo) /\ conn'["web"].used = 0)
    BY <1>3, <2>3
  <2> QED BY <2>1, <2>2, <2>4, ProcessRoom
<1>6. CASE ProcessFrame
  <2>1. todo[1][1] = "process" /\ todo[1][2] = "web" /\ polled' = polled /\ todo' = todo
    BY <1>6 DEF ProcessFrame, Task
  <2>2. todo[1] = <<"process", "web">>
    BY <1>2, <2>1, TaskIs
  <2>3. \E y : conn' = [conn EXCEPT !["web"] = y]
    BY <1>6 DEF ProcessFrame
  <2>4. \A e \in Slot : e # "web" => conn'[e] = conn[e]
    BY <1>1, <2>3
  <2> QED BY <2>1, <2>2, <2>4, ProcessRoom
<1> QED BY <1>4, <1>5, <1>6

\* When the input is used up its buffer is empty, or the answer to it is on its way.
LEMMA EndsRoom ==
  ASSUME IInv, ProcessEnds
  PROVE  Buffers'
<1> USE DEF Slot
<1> DEFINE c == todo[1][2]
           x == conn[c]
           s == x.sock
           y == IF x.in = <<>> /\ x.pend = None THEN [x EXCEPT !.used = 0] ELSE x
<1>1. TypeOK /\ Order /\ NetTypes /\ NetInv /\ conn \in [Slot -> ConnType] /\ todo[1][1] = "process" /\ polled' = polled /\ todo' = Tail(todo)
  BY DEF IInv, NetInv, NetTypes, ProcessEnds, Task, Flush, Done
<1>2. todo[1] \in TaskType
  <2>1. todo \in Seq(TaskType) /\ todo # <<>>
    BY <1>1 DEF TypeOK, Order, Ordered
  <2> QED BY <2>1
<1>3. c \in Slot /\ todo[1] = <<"process", c>>
  BY <1>1, <1>2, TaskIs
<1>4. x \in ConnType /\ (x.in # <<>> \/ x.pend # None => s # None /\ Fine(c, x, sock[s], wire[s]))
  BY <1>1, <1>3, InputIsOfClient
<1>5. \/ conn' = [conn EXCEPT ![c] = NoConn]
      \/ conn' = [conn EXCEPT ![c] = Rest(y)] /\ (x.ctl # <<>> \/ x.closing)
      \/ conn' = [conn EXCEPT ![c] = y]
  BY DEF ProcessEnds, Flush, Close, Closed
<1>6. \A e \in Slot : e # c => conn'[e] = conn[e]
  BY <1>1, <1>5
<1>7. conn'[c].used = 0 \/ (Busy(conn'[c]) /\ ~(conn'[c].in = <<>> /\ conn'[c].pend = None))
  <2>1. CASE x.in = <<>> /\ x.pend = None
    <3>1. y \in ConnType /\ y.used = 0
      BY <1>4, <2>1 DEF ConnType
    <3>2. Rest(y).used = 0
      BY <3>1, RestKeeps
    <3> HIDE DEF y
    <3> QED BY <1>1, <1>3, <1>5, <3>1, <3>2, NewIsEmpty
  <2>2. CASE ~(x.in = <<>> /\ x.pend = None)
    <3>1. IF c = "web" THEN IF x.pend = None THEN x.in = <<>> ELSE Busy(x) ELSE x.in = <<>> \/ Busy(x)
      BY DEF ProcessEnds
    <3>2. Fine(c, x, sock[s], wire[s]) /\ s # None
      BY <1>4, <2>2
    <3>3. c # "web"
      <4> SUFFICES ASSUME c = "web" PROVE FALSE
        OBVIOUS
      <4> DEFINE k == sock[s]
                 p == Pipe(x, k)
                 w == wire[s]
      <4>1. x.pend # None /\ Busy(x)
        BY <2>2, <3>1
      <4>2. Line(x, k, w, p) /\ k \in SockType
        BY <3>2 DEF Fine
      <4>3. p # <<>> /\ p[1] = x.pend
        BY <1>4, <4>1, <4>2, PipeIs
      <4> HIDE DEF p, k, w, x
      <4>4. x.pend \in Ask
        BY <4>1, <4>2 DEF Line
      <4>5. Asks(p) > 0
        BY <4>3, <4>4 DEF Asks
      <4>6. x.out = <<>> /\ x.stream = 0
        BY <4>2, <4>5 DEF Line
      <4> QED BY <4>1, <4>6 DEF Busy, Streaming
    <3>4. x.ctl = <<>> /\ x.closing = FALSE /\ x.pend = None
      BY <3>2, <3>3 DEF Fine
    <3>5. Busy(x) /\ y = x /\ x.in # <<>>
      BY <2>2, <3>1, <3>3, <3>4
    <3>6. conn' = [conn EXCEPT ![c] = NoConn] \/ conn' = [conn EXCEPT ![c] = x]
      BY <1>5, <3>4, <3>5
    <3> HIDE DEF x, y
    <3> QED BY <1>1, <1>3, <3>5, <3>6, NewIsEmpty
  <2> QED BY <2>1, <2>2
<1> QED BY <1>1, <1>3, <1>6, <1>7, ProcessRoom

\* Clocks use no buffer.
LEMMA ClockRoom ==
  ASSUME IInv, TimePasses
  PROVE  Buffers'
<1>1. todo' = todo /\ polled' = polled
  BY DEF TimePasses, GoesQuiet, GetsOld
<1>2. \A e \in Slot : /\ conn'[e].used = conn[e].used /\ conn'[e].in = conn[e].in /\ conn'[e].pend = conn[e].pend
                      /\ conn'[e].out = conn[e].out /\ conn'[e].ctl = conn[e].ctl /\ conn'[e].stream = conn[e].stream
  <2>1. conn \in [Slot -> ConnType]
    BY DEF IInv, NetInv, NetTypes
  <2>2. CASE conn' = conn
    BY <2>2
  <2>3. ASSUME NEW c \in Slot, conn' = [conn EXCEPT ![c].quiet = TRUE]
        PROVE  \A e \in Slot : /\ conn'[e].used = conn[e].used /\ conn'[e].in = conn[e].in /\ conn'[e].pend = conn[e].pend
                               /\ conn'[e].out = conn[e].out /\ conn'[e].ctl = conn[e].ctl /\ conn'[e].stream = conn[e].stream
    <3> DEFINE x == conn[c]
               z == [x EXCEPT !.quiet = TRUE]
    <3>1. z.used = x.used /\ z.in = x.in /\ z.pend = x.pend /\ z.out = x.out /\ z.ctl = x.ctl /\ z.stream = x.stream
      BY <2>1 DEF ConnType
    <3>2. conn'[c] = z /\ \A e \in Slot : e # c => conn'[e] = conn[e]
      BY <2>1, <2>3
    <3> HIDE DEF z
    <3> QED BY <3>1, <3>2
  <2> QED BY <2>2, <2>3 DEF TimePasses, GoesQuiet, GetsOld
<1> QED BY <1>1, <1>2, SameRoom

\* Every step leaves the buffers as Buffers says.
LEMMA BuffersKept ==
  ASSUME IInv, [Next]_vars
  PROVE  Buffers'
<1>1. todo' \in Seq(TaskType) /\ TypeOK
  BY OrderKept DEF IInv
<1>2. ASSUME todo' = todo, polled' = polled, conn' = conn PROVE Buffers'
  BY <1>2, SameRoom
<1>3. CASE UNCHANGED vars
  BY <1>2, <1>3 DEF vars
<1>4. CASE Clients
  <2>1. todo' = todo /\ polled' = polled /\ conn' = conn
    BY Zenon, <1>4 DEF Clients, Connect, ClientSends, ClientReads, ClientLeaves, Same
  <2> QED BY <1>2, <2>1
<1>5. CASE TimePasses
  BY <1>5, ClockRoom
<1>6. CASE Stop
  BY <1>6, StepRoom
<1>7. CASE Serve
  <2>1. CASE Feed
    BY <2>1, FeedRoom
  <2>2. CASE ProcessRaw \/ ProcessPending \/ ProcessFrame
    BY <2>2, InputRoom
  <2>3. CASE ProcessEnds
    BY <2>3, EndsRoom
  <2>4. CASE Poll
    BY <2>4, PollRoom
  <2>5. CASE Accept \/ AcceptWeb \/ HttpReceive \/ HttpWrite
    BY <2>5, AcceptRoom
  <2>6. CASE Receive
    BY <1>1, <2>6, ReceiveRoom
  <2>7. CASE Again
    BY <2>7, AgainRoom
  <2>8. CASE Pump
    BY <2>8, PumpRoom
  <2>9. CASE Timers
    BY <2>9, StepRoom
  <2> QED BY <1>7, <2>1, <2>2, <2>3, <2>4, <2>5, <2>6, <2>7, <2>8, <2>9 DEF Serve
<1> QED BY <1>3, <1>4, <1>5, <1>6, <1>7 DEF Next

\* Poll was given sockets or none.
LEMMA PolledKept ==
  ASSUME IInv, [Next]_vars
  PROVE  polled' \in [sock : [Slot -> Sock \cup {None}], want : SUBSET Slot]
<1>1. polled \in [sock : [Slot -> Sock \cup {None}], want : SUBSET Slot] /\ conn \in [Slot -> ConnType]
  BY DEF IInv, TypeOK, NetTypes
<1>2. CASE polled' = polled
  BY <1>1, <1>2
<1>3. CASE Poll
  <2>1. \A c \in Slot : conn[c].sock \in Sock \cup {None}
    BY <1>1 DEF ConnType
  <2>2. polled' = [sock |-> [c \in Slot |-> conn[c].sock], want |-> {c \in Slot : Wants(conn[c])}]
    BY Zenon, <1>3 DEF Poll
  <2> QED BY <2>1, <2>2
<1>4. polled' = polled \/ Poll
  <2>1. CASE UNCHANGED vars
    BY <2>1 DEF vars
  <2>2. CASE Clients
    BY Zenon, <2>2 DEF Clients, Connect, ClientSends, ClientReads, ClientLeaves, Same
  <2>3. CASE TimePasses
    BY <2>3 DEF TimePasses, GoesQuiet, GetsOld
  <2>4. CASE Stop
    BY <2>4 DEF Stop
  <2>5. CASE Serve
    BY Zenon, <2>5 DEF Serve, Feed, ProcessRaw, ProcessPending, ProcessFrame, ProcessEnds, Accept, AcceptWeb, Receive, Again,
                HttpReceive, Pump, HttpWrite, Timers
  <2> QED BY <2>1, <2>2, <2>3, <2>4, <2>5 DEF Next
<1> QED BY <1>2, <1>3, <1>4

-----------------------------------------------------------------------------
(***************************************************************************)
(* The theorems.                                                           *)
(***************************************************************************)
\* The inductive invariant is kept by every step.
LEMMA InvariantKept ==
  ASSUME IInv, [Next]_vars
  PROVE  IInv'
<1>1. NetInv'
  BY NetKept
<1>2. todo' \in Seq(TaskType) /\ Ordered(todo', backlog')
  BY OrderKept
<1>3. Buffers'
  BY BuffersKept
<1>4. polled' \in [sock : [Slot -> Sock \cup {None}], want : SUBSET Slot]
  BY PolledKept
<1>5. Order'
  BY <1>2 DEF Order, Ordered
<1>6. NetTypes'
  BY <1>1 DEF NetInv
<1>7. TypeOK'
  BY <1>2, <1>4, <1>6 DEF TypeOK
<1> QED BY <1>1, <1>3, <1>5, <1>7 DEF IInv

\* The first state is typed.
LEMMA InitIsTyped ==
  ASSUME Init
  PROVE  TypeOK
<1>1. /\ NoConn \in ConnType /\ NoConn.sock = None /\ NoHttp \in HttpType /\ NewWire \in WireType
      /\ NewSock \in SockType /\ [NewSock EXCEPT !.at = "closed"] \in SockType
  <2>1. \A S : <<>> \in Seq(S)
    OBVIOUS
  <2>2. 0 \in 0..SndMax
    BY ServerAssumption
  <2> QED BY <2>1, <2>2 DEF NoConn, ConnType, NoHttp, HttpType, NewWire, WireType, NewSock, SockType
<1>2. todo \in Seq(TaskType)
  BY StepIsOrdered DEF Init
<1>3. polled \in [sock : [Slot -> Sock \cup {None}], want : SUBSET Slot]
  BY DEF Init
<1>4. sock \in [Sock -> SockType]
  <2>1. PICK come : sock = [s \in Sock |-> IF s \in come THEN NewSock ELSE [NewSock EXCEPT !.at = "closed"]]
    BY DEF Init
  <2> QED BY <1>1, <2>1
<1>5. conn \in [Slot -> ConnType] /\ http \in [1..HttpSlots -> HttpType] /\ wire \in [Sock -> WireType]
  BY <1>1 DEF Init
<1>6. backlog \in [Slot -> Seq(Sock)]
  BY DEF Init
<1> QED BY <1>2, <1>3, <1>4, <1>5, <1>6 DEF TypeOK, NetTypes

\* The first state: no client, a step that begins.
LEMMA InitIsCalm ==
  ASSUME Init
  PROVE  NetInv /\ Order /\ Buffers
<1> USE DEF Slot
<1>1. TypeOK /\ NetTypes
  BY InitIsTyped DEF TypeOK
<1>2. /\ \A c \in Slot : conn[c] = NoConn /\ conn[c].sock = None /\ conn[c].used = 0 /\ backlog[c] = <<>>
      /\ \A i \in 1..HttpSlots : http[i].sock = None
      /\ \A s \in Sock : wire[s] = NewWire /\ wire[s].whole /\ wire[s].ordered
  BY DEF Init, NoConn, NoHttp, NewWire
<1>3. \A s \in Sock : sock[s].at \in {"new", "closed"} /\ sock[s].asked = 0 /\ sock[s].pings = 0 /\ sock[s].last = None
  <2>1. PICK come : sock = [s \in Sock |-> IF s \in come THEN NewSock ELSE [NewSock EXCEPT !.at = "closed"]]
    BY DEF Init
  <2> QED BY <2>1 DEF NewSock
<1>4. Places /\ Fresh /\ HeadsKnown /\ Served
  BY <1>2, <1>3 DEF Places, Fresh, HeadsKnown, Served, Sock
<1>5. StreamIntact
  BY <1>2 DEF StreamIntact
<1>6. Order
  <2>1. Ordered(todo, backlog)
    BY StepIsOrdered DEF Init
  <2> QED BY <2>1 DEF Order, Ordered
<1>7. Buffers
  <2>1. todo[1] = <<"feed", "raw">>
    BY DEF Init, StepTasks
  <2> QED BY <1>2, <2>1 DEF Buffers, Room
<1> QED BY <1>1, <1>4, <1>5, <1>6, <1>7 DEF NetInv

\* The inductive invariant: types; the place of every socket; a wire that its
\* client's queue may follow, and the page's pipe; the tasks in order; and a
\* buffer that is empty when it is received into.
THEOREM ServerInvariant == Spec => []IInv
<1>1. Init => IInv
  BY InitIsTyped, InitIsCalm DEF IInv
<1>2. IInv /\ [Next]_vars => IInv'
  BY InvariantKept
<1> QED BY <1>1, <1>2, PTL DEF Spec

\* What a client receives is whole frames, and its answers come in the order it
\* asked: no pong, no closing frame and no 4001 of a page that is replaced
\* splits an answer of ndp_server.c, however little its socket takes at a time.
THEOREM StreamsStayIntact == Spec => []StreamIntact
<1>1. IInv => StreamIntact
  BY DEF IInv, NetInv
<1> QED BY <1>1, ServerInvariant, PTL

\* on_readable never calls recv without room in the buffer, where the 0 it would
\* return is taken for a client that left.
THEOREM BuffersHaveRoom == Spec => []RoomToReceive
<1>1. ASSUME IInv PROVE RoomToReceive
  <2> SUFFICES ASSUME todo # <<>>, Task("read"), NEW c, c = todo[1][2],
                      conn[c].sock # None, conn[c].sock = polled.sock[c], c \notin polled.want
               PROVE  conn[c].used < InMax
    BY DEF RoomToReceive
  <2>1. TypeOK /\ Order /\ Buffers
    BY <1>1 DEF IInv
  <2>2. Len(todo) \in Nat /\ 1 \in 1..Len(todo) /\ todo[1] \in TaskType /\ todo[1][1] = "read"
    <3>1. todo \in Seq(TaskType) /\ Len(todo) \in Nat /\ Len(todo) # 0
      BY <2>1, EmptySeq DEF TypeOK, Order, Ordered
    <3>2. 1 \in 1..Len(todo)
      BY <3>1
    <3> QED BY <3>1, <3>2, ElementOfSeq DEF Task
  <2>3. c \in Slot
    BY <2>2, TaskIs
  <2>4. conn[c].used = 0
    BY <2>1, <2>2, <2>3 DEF Buffers, Room
  <2> QED BY <2>4, ServerAssumption
<1> QED BY <1>1, ServerInvariant, PTL

\* An accepted head has one Host field, the console's, and no origin but it.
LEMMA AcceptedIsOwn ==
  ASSUME NEW s \in WebSock, NEW h \in Heads[s], Status(h) = 101
  PROVE  /\ \A i \in Fields(h, "host") : h.fields[i][2] = "own"
         /\ \A i \in Fields(h, "origin") : h.fields[i][2] = "same"
<1> DEFINE H == Fields(h, "host")
           O == Fields(h, "origin")
           wrong == {i \in DOMAIN h.fields : FieldError(h, i) # 200}
<1>0. DOMAIN h.fields \subseteq Nat /\ \A i, j \in O : i = j /\ h.fields[i][2] # None
  BY HeadsAssumption
<1>1. Parse(h) = 200 /\ Route(h) = 101
  <2>1. Parse(h) # 101
    <3> SUFFICES ASSUME Parse(h) = 101 PROVE FALSE
      OBVIOUS
    <3>1. \A i : FieldError(h, i) # 101
      BY DEF FieldError
    <3>2. h.line # 101
      BY HeadsAssumption
    <3> QED BY <3>1, <3>2 DEF Parse
  <2> QED BY <2>1 DEF Status
<1>2. HostOk(h) /\ OriginOk(h)
  BY <1>1 DEF Route
<1>3. wrong = {}
  <2>1. CASE wrong # {}
    <3>1. Min(wrong) \in wrong
      <4>1. wrong \subseteq Nat
        BY <1>0
      <4> QED BY <2>1, <4>1, MinIsThere
    <3>2. FieldError(h, Min(wrong)) # 200
      BY <3>1
    <3> QED BY <1>1, <2>1, <3>2 DEF Parse
  <2> QED BY <2>1
<1>4. \A i, j \in H : i = j
  <2> SUFFICES ASSUME NEW i \in H, NEW j \in H, j < i PROVE FALSE
    BY <1>0 DEF Fields
  <2>1. FieldError(h, i) = 400
    BY DEF FieldError, Fields
  <2>2. i \in wrong
    BY <2>1 DEF Fields
  <2> QED BY <1>3, <2>2
<1>5. ASSUME NEW S, \A i, j \in S : i = j, NEW i \in S, S \subseteq Nat PROVE Max(S) = i
  BY <1>5 DEF Max
<1>6. ASSUME NEW i \in H PROVE h.fields[i][2] = "own"
  <2>1. Max(H) = i
    BY <1>0, <1>4, <1>5 DEF Fields
  <2> QED BY <1>2, <2>1 DEF HostOk, Value
<1>7. ASSUME NEW i \in O PROVE h.fields[i][2] = "same"
  <2>1. Max(O) = i
    BY <1>0, <1>5 DEF Fields
  <2> QED BY <1>0, <1>2, <2>1 DEF OriginOk, Value
<1> QED BY <1>6, <1>7

\* The page's client (upgrade_to_ws) named the console as its host, once, and no
\* other site as its origin, whatever the heads its browser sends.
THEOREM PagesAreOurs == Spec => []OnlyOwnPages
<1>1. ASSUME IInv PROVE OnlyOwnPages
  <2> SUFFICES ASSUME NEW s, s = conn["web"].sock, s # None
               PROVE  /\ \A i \in Fields(sock[s].head, "host") : sock[s].head.fields[i][2] = "own"
                      /\ \A i \in Fields(sock[s].head, "origin") : sock[s].head.fields[i][2] = "same"
    BY DEF OnlyOwnPages
  <2>1. Places /\ HeadsKnown
    BY <1>1 DEF IInv, NetInv
  <2>2. s \in WebSock /\ sock[s].at = "open"
    BY <2>1 DEF Places, Slot
  <2>3. sock[s].head \in Heads[s] /\ Status(sock[s].head) = 101
    BY <2>1, <2>2 DEF HeadsKnown
  <2> QED BY <2>2, <2>3, AcceptedIsOwn
<1> QED BY <1>1, ServerInvariant, PTL
=============================================================================
