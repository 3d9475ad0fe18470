---------------------------- MODULE PairingProofs ----------------------------
(***************************************************************************)
(* The safety of pairing, for every number of connections, windows, keys,  *)
(* names and ticks.                                                        *)
(***************************************************************************)
EXTENDS Pairing, SequenceTheorems, TLAPS

(***************************************************************************)
(* What the operations of the key store preserve, for any MaxKeys.         *)
(***************************************************************************)
\* The element a guarded CHOOSE picks: the first index with a property.
LEMMA SlotOfIsFirst ==
  ASSUME NEW ks \in Store, NEW l, HasLabel(ks, l), Distinct(ks)
  PROVE  SlotOf(ks, l) \in DOMAIN ks /\ ks[SlotOf(ks, l)].label = l
<1>1. PICK i \in DOMAIN ks : ks[i].label = l
  BY DEF HasLabel
<1>2. \A j \in DOMAIN ks : ks[j].label = l => i = j
  BY <1>1 DEF Distinct
<1>3. DOMAIN ks = 1..Len(ks) /\ Len(ks) \in Nat
  BY DEF Store
<1>4. \A j \in DOMAIN ks : ks[j].label = l => i <= j
  BY <1>2, <1>3
<1> QED BY <1>1, <1>4 DEF SlotOf

\* ndp_keystore_add: the result is a store, within NDP_MAX_KEYS.
LEMMA AddType ==
  ASSUME NEW ks \in Store, NEW k \in Key, NEW l \in Label, Distinct(ks)
  PROVE  Add(ks, k, l) \in Store
<1> DEFINE e == [key |-> k, label |-> l]
<1>1. e \in Pairing /\ ks \in Seq(Pairing) /\ Len(ks) \in Nat /\ Len(ks) <= MaxKeys /\ MaxKeys \in Nat \ {0}
  BY MaxKeysAssumption DEF Pairing, Store
<1>2. CASE HasKey(ks, k)
  BY <1>2 DEF Add
<1>3. CASE ~HasKey(ks, k) /\ HasLabel(ks, l)
  <2>1. SlotOf(ks, l) \in 1..Len(ks)
    BY <1>3, <1>1, SlotOfIsFirst
  <2>2. [ks EXCEPT ![SlotOf(ks, l)] = e] \in Seq(Pairing) /\ Len([ks EXCEPT ![SlotOf(ks, l)] = e]) = Len(ks)
    BY <2>1, <1>1, ExceptSeq
  <2> QED BY <2>2, <1>3, <1>1 DEF Add, Store
<1>4. CASE ~HasKey(ks, k) /\ ~HasLabel(ks, l) /\ Len(ks) >= MaxKeys
  <2>1. Tail(ks) \in Seq(Pairing) /\ Len(Tail(ks)) = Len(ks) - 1
    BY <1>4, <1>1, HeadTailProperties
  <2>2. Append(Tail(ks), e) \in Seq(Pairing) /\ Len(Append(Tail(ks), e)) = Len(ks)
    BY <2>1, <1>1, AppendProperties
  <2> QED BY <2>2, <1>4, <1>1 DEF Add, Store
<1>5. CASE ~HasKey(ks, k) /\ ~HasLabel(ks, l) /\ ~(Len(ks) >= MaxKeys)
  <2>1. Append(ks, e) \in Seq(Pairing) /\ Len(Append(ks, e)) = Len(ks) + 1
    BY <1>1, AppendProperties
  <2> QED BY <2>1, <1>5, <1>1 DEF Add, Store
<1> QED BY <1>2, <1>3, <1>4, <1>5

\* A pairing never makes a key or a name appear twice: a known key changes
\* nothing, a known name is replaced where it stands.
LEMMA AddDistinct ==
  ASSUME NEW ks \in Store, NEW k \in Key, NEW l \in Label, Distinct(ks)
  PROVE  Distinct(Add(ks, k, l))
<1> DEFINE e == [key |-> k, label |-> l]
<1>1. e \in Pairing /\ ks \in Seq(Pairing) /\ Len(ks) \in Nat /\ Len(ks) <= MaxKeys /\ MaxKeys \in Nat \ {0}
  BY MaxKeysAssumption DEF Pairing, Store
<1>2. CASE HasKey(ks, k)
  BY <1>2 DEF Add
<1>3. CASE ~HasKey(ks, k) /\ HasLabel(ks, l)
  <2> DEFINE s == SlotOf(ks, l)
  <2>1. s \in 1..Len(ks) /\ ks[s].label = l
    BY <1>3, <1>1, SlotOfIsFirst
  <2>2. DOMAIN [ks EXCEPT ![s] = e] = 1..Len(ks)
    BY <1>1
  <2>3. \A i \in 1..Len(ks) : [ks EXCEPT ![s] = e][i] = IF i = s THEN e ELSE ks[i]
    BY <1>1
  <2>4. \A i \in 1..Len(ks) : ks[i].key # k
    BY <1>3, <1>1 DEF HasKey
  <2>5. \A i \in 1..Len(ks) : i # s => ks[i].label # l
    BY <2>1, <1>1 DEF Distinct
  <2> QED BY <2>2, <2>3, <2>4, <2>5, <1>3, <1>1 DEF Add, Distinct
<1>4. ASSUME NEW r \in Seq(Pairing), Distinct(r), ~HasKey(r, k), ~HasLabel(r, l)
      PROVE  Distinct(Append(r, e))
  <2>1. Append(r, e) \in Seq(Pairing) /\ Len(Append(r, e)) = Len(r) + 1 /\ Len(r) \in Nat
    BY <1>1, <1>4, AppendProperties
  <2>2. \A i \in 1..Len(r) : Append(r, e)[i] = r[i] /\ r[i].key # k /\ r[i].label # l
    BY <1>1, <1>4, AppendProperties DEF HasKey, HasLabel
  <2>3. Append(r, e)[Len(r) + 1] = e
    BY <1>1, <1>4, AppendProperties
  <2> QED BY <2>1, <2>2, <2>3, <1>4 DEF Distinct
<1>5. CASE ~HasKey(ks, k) /\ ~HasLabel(ks, l) /\ Len(ks) >= MaxKeys
  <2>1. Tail(ks) \in Seq(Pairing) /\ Len(Tail(ks)) = Len(ks) - 1
        /\ \A i \in 1..Len(Tail(ks)) : Tail(ks)[i] = ks[i + 1]
    BY <1>5, <1>1, HeadTailProperties
  <2>2. Distinct(Tail(ks)) /\ ~HasKey(Tail(ks), k) /\ ~HasLabel(Tail(ks), l)
    BY <2>1, <1>5, <1>1 DEF Distinct, HasKey, HasLabel
  <2> QED BY <2>1, <2>2, <1>4, <1>5 DEF Add
<1>6. CASE ~HasKey(ks, k) /\ ~HasLabel(ks, l) /\ ~(Len(ks) >= MaxKeys)
  BY <1>6, <1>4, <1>1 DEF Add
<1> QED BY <1>2, <1>3, <1>5, <1>6

\* Forgetting a pairing keeps the others as they were, in order.
LEMMA ForgetStore ==
  ASSUME NEW ks \in Store, NEW k, Distinct(ks)
  PROVE  Forget(ks, k) \in Store /\ Distinct(Forget(ks, k))
<1>1. CASE ~HasKey(ks, k)
  BY <1>1 DEF Forget
<1>2. CASE HasKey(ks, k)
  <2> DEFINE P(i) == ks[i].key = k /\ \A j \in DOMAIN ks : ks[j].key = k => i <= j
             c == CHOOSE i \in DOMAIN ks : P(i)
  <2>1. ks \in Seq(Pairing) /\ Len(ks) \in Nat /\ DOMAIN ks = 1..Len(ks) /\ Len(ks) <= MaxKeys /\ MaxKeys \in Nat
    BY MaxKeysAssumption DEF Store
  <2>2. \E i \in DOMAIN ks : P(i)
    <3>1. PICK i \in DOMAIN ks : ks[i].key = k
      BY <1>2 DEF HasKey
    <3>2. \A j \in DOMAIN ks : ks[j].key = k => i = j
      BY <3>1 DEF Distinct
    <3> QED BY <3>1, <3>2, <2>1
  <2>3. c \in 1..Len(ks)
    BY <2>2, <2>1
  <2> DEFINE a == SubSeq(ks, 1, c - 1)
             b == SubSeq(ks, c + 1, Len(ks))
  <2>4. /\ a \in Seq(Pairing) /\ Len(a) = c - 1
        /\ \A i \in 1..(c - 1) : a[i] = ks[i]
    <3> HIDE DEF c
    <3>1. \A i \in 1..(c - 1) : ks[i] \in Pairing
      BY <2>3, <2>1, ElementOfSeq
    <3> QED BY <3>1, <2>3, <2>1, SubSeqProperties
  <2>5. /\ b \in Seq(Pairing) /\ Len(b) = Len(ks) - c
        /\ \A i \in 1..(Len(ks) - c) : b[i] = ks[i + c]
    <3> HIDE DEF c
    <3>1. \A i \in (c + 1)..Len(ks) : ks[i] \in Pairing
      BY <2>3, <2>1, ElementOfSeq
    <3>2. /\ b \in Seq(Pairing) /\ Len(b) = IF c + 1 <= Len(ks) THEN Len(ks) - (c + 1) + 1 ELSE 0
          /\ \A i \in 1..(Len(ks) - (c + 1) + 1) : b[i] = ks[(c + 1) + i - 1]
      BY <3>1, <2>3, <2>1, SubSeqProperties
    <3>3. \A n \in Nat : \A d \in 1..n : /\ n - (d + 1) + 1 = n - d
                                      /\ (IF d + 1 <= n THEN n - (d + 1) + 1 ELSE 0) = n - d
      OBVIOUS
    <3>4. /\ Len(ks) - (c + 1) + 1 = Len(ks) - c
          /\ (IF c + 1 <= Len(ks) THEN Len(ks) - (c + 1) + 1 ELSE 0) = Len(ks) - c
      <4>1. Len(ks) \in Nat
        BY <2>1
      <4> QED BY <4>1, <2>3, <3>3, Zenon
    <3>5. Len(b) = Len(ks) - c /\ Len(ks) - (c + 1) + 1 = Len(ks) - c
      <4> HIDE DEF b
      <4>1. Len(b) = IF c + 1 <= Len(ks) THEN Len(ks) - (c + 1) + 1 ELSE 0
        BY <3>2
      <4> QED BY <4>1, <3>4, Zenon
    <3>6. ASSUME NEW i \in 1..(Len(ks) - c)
          PROVE  b[i] = ks[i + c]
      <4>1. (c + 1) + i - 1 = i + c
        BY <2>3, <2>1
      <4>2. b[i] = ks[(c + 1) + i - 1]
        BY <3>2, <3>5
      <4> QED BY <4>1, <4>2
    <3> QED BY <3>2, <3>5, <3>6
  <2>6. Forget(ks, k) = a \o b
    BY <1>2 DEF Forget, RemoveAt
  <2> HIDE DEF a, b, c
  <2>7. /\ a \o b \in Seq(Pairing)
        /\ Len(a \o b) = Len(ks) - 1
        /\ \A i \in 1..(Len(ks) - 1) : (a \o b)[i] = IF i <= c - 1 THEN ks[i] ELSE ks[i + 1]
    <3>1. /\ a \o b \in Seq(Pairing) /\ Len(a \o b) = Len(a) + Len(b)
          /\ \A i \in 1..(Len(a) + Len(b)) : (a \o b)[i] = IF i <= Len(a) THEN a[i] ELSE b[i - Len(a)]
      BY <2>4, <2>5, ConcatProperties
    <3> QED BY <3>1, <2>3, <2>4, <2>5, <2>1
  <2>8. a \o b \in Store
    BY <2>7, <2>1 DEF Store
  <2>9. Distinct(a \o b)
    <3> DEFINE From(i) == IF i <= c - 1 THEN i ELSE i + 1
    <3>1. DOMAIN (a \o b) = 1..(Len(ks) - 1)
      BY <2>7
    <3>2. \A i \in 1..(Len(ks) - 1) : From(i) \in 1..Len(ks) /\ (a \o b)[i] = ks[From(i)]
      BY <2>7, <2>3, <2>1
    <3>3. \A i, j \in 1..(Len(ks) - 1) : i # j => From(i) # From(j)
      BY <2>3, <2>1
    <3> HIDE DEF From
    <3>4. ASSUME NEW i \in 1..(Len(ks) - 1), NEW j \in 1..(Len(ks) - 1), i # j
          PROVE  (a \o b)[i].key # (a \o b)[j].key /\ (a \o b)[i].label # (a \o b)[j].label
      <4>1. From(i) \in DOMAIN ks /\ From(j) \in DOMAIN ks /\ From(i) # From(j)
        BY <3>2, <3>3, <3>4, <2>1
      <4>2. ks[From(i)].key # ks[From(j)].key /\ ks[From(i)].label # ks[From(j)].label
        BY <4>1 DEF Distinct
      <4> QED BY <4>2, <3>2
    <3> QED BY <3>1, <3>4 DEF Distinct
  <2> QED BY <2>6, <2>8, <2>9
<1> QED BY <1>1, <1>2

-----------------------------------------------------------------------------
(***************************************************************************)
(* The invariant of pairing.                                               *)
(***************************************************************************)
\* What an open request knows of its connection, and the window of its number.
RequestInv ==
  /\ \A s \in Slots : conn[s].state # "none" => conn[s].id # 0
  /\ active => win # 0
  /\ p2.stage \in {"waiting", "approved"} => p2.psk # 0

\* A window that made a pairing is closed, and after a pairing by number no
\* other number is pending; that is what keeps the counts at one.
SingleUseInv ==
  /\ byCode = 1 => ~active
  /\ byNumber = 1 => ~active /\ p2.stage \notin Pending

\* An approval not collected yet was told to nobody.
DeliveryInv == p2.stage \in {"waiting", "approved"} => delivered = 0

IInv ==
  /\ TypeOK
  /\ RequestOfLiveConnection
  /\ AttemptBudget
  /\ SecretsWiped
  /\ OneKeyPerMethod
  /\ DeliveredOnce
  /\ StoreSound
  /\ RequestInv
  /\ SingleUseInv
  /\ DeliveryInv

LEMMA NoRequestType ==
  /\ NoRequest \in Request
  /\ NoRequest.stage = "idle" /\ NoRequest.secret = FALSE /\ NoRequest.psk = 0
<1>1. (CHOOSE l \in Label : TRUE) \in Label
  BY PairingAssumption
<1> QED BY <1>1, PairingAssumption DEF NoRequest, Request, Slots, Stages, Unset

LEMMA NoConnType == NoConn \in Connection /\ NoConn.id = 0 /\ NoConn.state = "none"
BY PairingAssumption DEF NoConn, Connection

LEMMA EmptyStore == <<>> \in Store /\ Distinct(<<>>)
BY MaxKeysAssumption, EmptySeq DEF Store, Distinct

LEMMA InitInv == Init => IInv
<1> SUFFICES ASSUME Init PROVE IInv
  OBVIOUS
<1>0. WindowTicks \in Nat /\ MaxWindows \in Nat /\ MaxConns \in Nat /\ MaxReveals \in Nat
      /\ MaxAttempts \in Nat \ {0}
  BY PairingAssumption
<1>1. /\ active \in BOOLEAN
      /\ left \in 0..WindowTicks /\ attempts \in Nat
      /\ phase \in {"ui", "net"} /\ win \in 0..MaxWindows /\ opened \in 0..MaxConns
      /\ reveals \in 0..MaxReveals
      /\ byCode \in Nat /\ byNumber \in Nat /\ delivered \in Nat
  <2>1. left = 0 /\ attempts = 0 /\ win = 0 /\ opened = 0 /\ reveals = 0
        /\ byCode = 0 /\ byNumber = 0 /\ delivered = 0
    BY DEF Init
  <2>2. active \in BOOLEAN /\ phase \in {"ui", "net"}
    BY DEF Init
  <2> QED BY <1>0, <2>1, <2>2
<1> USE NoRequestType, NoConnType, EmptyStore DEF Init
<1>2. TypeOK
  BY <1>1 DEF TypeOK
<1>3. RequestOfLiveConnection /\ AttemptBudget /\ SecretsWiped /\ RequestInv /\ SingleUseInv /\ DeliveryInv
  BY <1>0 DEF RequestOfLiveConnection, AttemptBudget, SecretsWiped, RequestInv, SingleUseInv, DeliveryInv, Pending
<1>4. OneKeyPerMethod /\ DeliveredOnce /\ StoreSound
  BY DEF OneKeyPerMethod, DeliveredOnce, StoreSound
<1> QED
  BY <1>2, <1>3, <1>4 DEF IInv

\* close_conn: what is left of the request is not the open request of a slot
\* that was closed.
LEMMA ClosingDropsRequest ==
  ASSUME IInv, NEW S \in SUBSET Slots, NEW p \in {p2, NoRequest}
  PROVE  /\ DropRequestOf(S, p) \in {p, NoRequest}
         /\ DropRequestOf(S, p).stage \in Pending =>
              DropRequestOf(S, p) = p2 /\ p2.owner \notin S /\ conn[p2.owner].id = p2.by /\ p2.by # 0
BY NoRequestType DEF IInv, DropRequestOf, RequestOfLiveConnection, Pending

\* fail(): the window can only close, and a request left open keeps its client.
LEMMA FailedAttempt ==
  ASSUME IInv, NEW s \in Slots, conn[s].state = "hello", NEW p \in {p2, NoRequest}, FailAttempt(s, p)
  PROVE  /\ active' \in BOOLEAN /\ (active' => active)
         /\ conn' \in [Slots -> Connection]
         /\ \A t \in Slots : conn'[t].state # "none" => conn'[t].id # 0
         /\ p2' \in {p, NoRequest}
         /\ p2'.stage \in Pending => conn'[p2'.owner].id = p2'.by /\ p2'.by # 0
<1> USE NoRequestType, NoConnType
<1>1. /\ active \in BOOLEAN /\ conn \in [Slots -> Connection] /\ p2 \in Request
      /\ \A t \in Slots : conn[t].state # "none" => conn[t].id # 0
      /\ p2.stage \in Pending => conn[p2.owner].id = p2.by /\ p2.by # 0
  BY DEF IInv, TypeOK, RequestInv, RequestOfLiveConnection
<1>2. p2.owner \in Slots
  BY <1>1 DEF Request
<1>3. CASE /\ conn' = [conn EXCEPT ![s].fails = @ + 1]
           /\ p2' = p
           /\ UNCHANGED active
  <2>1. conn[s].fails + 1 \in Nat
    BY <1>1 DEF Connection
  <2>2. conn' \in [Slots -> Connection]
    BY <1>1, <1>3, <2>1 DEF Connection
  <2>3. \A t \in Slots : conn'[t].state = conn[t].state /\ conn'[t].id = conn[t].id
    BY <1>1, <1>3 DEF Connection
  <2> QED BY <1>1, <1>2, <1>3, <2>2, <2>3 DEF Pending
<1>4. CASE /\ active' = FALSE
           /\ conn' = [conn EXCEPT ![s] = NoConn]
           /\ p2' = DropRequestOf({s}, p)
  <2>1. conn' \in [Slots -> Connection]
    BY <1>1, <1>4
  <2>2. \A t \in Slots : conn'[t] = IF t = s THEN NoConn ELSE conn[t]
    BY <1>1, <1>4
  <2>3. {s} \in SUBSET Slots
    OBVIOUS
  <2>4. /\ p2' \in {p, NoRequest}
        /\ p2'.stage \in Pending => p2' = p2 /\ p2.owner # s
    BY <1>4, <2>3, ClosingDropsRequest
  <2>5. p2'.stage \in Pending => conn'[p2'.owner].id = p2'.by /\ p2'.by # 0
    BY <2>2, <2>4, <1>1, <1>2
  <2>6. \A t \in Slots : conn'[t].state # "none" => conn'[t].id # 0
    BY <2>2, <1>1
  <2> QED BY <1>1, <1>4, <2>1, <2>4, <2>5, <2>6
<1> QED BY <1>3, <1>4 DEF FailAttempt

\* What the clock leaves of a request is a request, its owner unchanged.
LEMMA ClockKeepsRequest ==
  ASSUME IInv, NEW dt \in {0, 1}
  PROVE  LET p == TimedRequest(dt)
         IN  /\ p \in Request
             /\ p.stage \in Pending => /\ p.stage = p2.stage /\ p.owner = p2.owner /\ p.by = p2.by
                                        /\ p.psk = p2.psk /\ ~Expired(dt)
             /\ p.secret => p.stage = "committed"
             /\ p.psk # 0 => p.stage \in {"waiting", "approved"}
             /\ p.stage \in {"waiting", "approved"} => p.stage = p2.stage /\ p.psk = p2.psk
<1> DEFINE p == TimedRequest(dt)
<1> USE NoRequestType
<1>1. p2 \in Request /\ SecretsWiped /\ {PromptTicks, CommitTicks} \subseteq Nat
  BY PairingAssumption DEF IInv, TypeOK
<1>2. CASE p2.stage \notin Pending
  BY <1>1, <1>2 DEF TimedRequest, SecretsWiped, Pending
<1>3. CASE p2.stage \in Pending /\ ~Expired(dt)
  <2>1. p = [p2 EXCEPT !.dl = Deadline(dt)]
    BY <1>3 DEF TimedRequest
  <2>2. p2.dl \in {Unset} \cup Nat
    BY <1>1 DEF Request
  <2>3. Deadline(dt) \in Nat
    BY <2>2, <1>1 DEF Deadline, After, Unset
  <2>4. p \in Request
    BY <2>1, <2>3, <1>1 DEF Request
  <2>5. /\ p.stage = p2.stage /\ p.owner = p2.owner /\ p.by = p2.by
        /\ p.psk = p2.psk /\ p.secret = p2.secret
    BY <2>1, <1>1 DEF Request
  <2> QED BY <2>4, <2>5, <1>1, <1>3 DEF SecretsWiped
<1>4. CASE Expired(dt) /\ p2.stage = "waiting"
  <2>1. p = [p2 EXCEPT !.stage = "denied", !.dl = Unset, !.psk = 0]
    BY <1>4 DEF TimedRequest, Refused, Pending
  <2>2. p \in Request /\ p.stage = "denied" /\ p.psk = 0 /\ p.secret = p2.secret
    BY <2>1, <1>1, PairingAssumption DEF Request, Stages
  <2> QED BY <2>2, <1>1, <1>4 DEF SecretsWiped, Pending
<1>5. CASE Expired(dt) /\ p2.stage = "committed"
  BY <1>5 DEF TimedRequest, Pending
<1> QED BY <1>2, <1>3, <1>4, <1>5 DEF Pending

\* PAIR_REVEAL turns the request of the client into the number on the screen.
LEMMA ShownNumber ==
  ASSUME NEW p \in Request, NEW n \in 1..MaxReveals
  PROVE  LET q == [p EXCEPT !.stage = "waiting", !.psk = n, !.secret = FALSE, !.dl = Unset]
         IN  /\ q \in Request /\ q.stage = "waiting" /\ q.psk = n
             /\ q.secret = FALSE /\ q.owner = p.owner /\ q.by = p.by
<1> n \in 0..MaxReveals /\ "waiting" \in Stages
  BY PairingAssumption DEF Stages
<1> HIDE DEF Unset
<1> QED BY DEF Request

LEMMA StepInv == IInv /\ [Next]_vars => IInv'
<1> SUFFICES ASSUME IInv, [Next]_vars PROVE IInv'
  OBVIOUS
<1> USE NoRequestType, NoConnType
<1> USE DEF IInv, TypeOK, RequestOfLiveConnection, AttemptBudget, SecretsWiped,
     OneKeyPerMethod, DeliveredOnce, StoreSound, RequestInv, SingleUseInv, DeliveryInv,
     window, history, loop, counters, Pending
<1>0. /\ WindowTicks \in Nat /\ MaxAttempts \in Nat \ {0} /\ MaxWindows \in Nat
      /\ MaxReveals \in Nat /\ MaxConns \in Nat
  BY PairingAssumption
<1> USE <1>0
<1>1. CASE PressPair
  <2>1. left' \in 0..WindowTicks /\ win' \in 0..MaxWindows /\ attempts' \in Nat
        /\ attempts' <= MaxAttempts
    BY <1>1 DEF PressPair
  <2>2. active' \in BOOLEAN /\ (active' => win' # 0 /\ byCode' = 0 /\ byNumber' = 0)
    <3>1. win \in Nat /\ win + 1 # 0
      OBVIOUS
    <3> QED BY <1>1, <3>1 DEF PressPair
  <2>3. byCode' \in Nat /\ byNumber' \in Nat /\ byCode' <= 1 /\ byNumber' <= 1
    BY <1>1 DEF PressPair
  <2> QED BY <1>1, <2>1, <2>2, <2>3 DEF PressPair
<1>2. CASE Approve
  <2>1. NumberKey(p2.psk) \in Key /\ p2.label \in Label
    BY <1>2, PairingAssumption DEF Approve, NumberKey, Request
  <2>2. keys' \in Store /\ Distinct(keys')
    BY <1>2, <2>1, AddType, AddDistinct DEF Approve
  <2>3. p2' \in Request /\ p2'.stage = "approved" /\ p2'.psk = p2.psk /\ p2'.secret = p2.secret
    BY <1>2 DEF Approve, Request, Stages
  <2>4. active' = FALSE /\ byNumber = 0 /\ byNumber' = 1 /\ p2.stage = "waiting"
    BY <1>2 DEF Approve, CloseWindow
  <2>5. UNCHANGED <<left, win, attempts, conn, phase, served, opened, reveals, byCode, delivered>>
    BY <1>2 DEF Approve
  <2>6. TypeOK' /\ StoreSound'
    BY <2>2, <2>3, <2>4, <2>5
  <2>7. (/\ RequestOfLiveConnection /\ AttemptBudget /\ SecretsWiped /\ OneKeyPerMethod
         /\ DeliveredOnce /\ RequestInv /\ SingleUseInv /\ DeliveryInv)'
    <3> HIDE DEF TypeOK
    <3> QED BY <2>3, <2>4, <2>5
  <2> QED BY <2>6, <2>7
<1>3. CASE Deny
  <2>1. p2' \in Request /\ p2'.stage = "denied" /\ p2'.psk = 0 /\ p2'.secret = p2.secret
    BY <1>3 DEF Deny, Refused, Request, Stages
  <2> QED BY <1>3, <2>1 DEF Deny
<1>4. CASE ClearKeys
  BY <1>4, EmptyStore DEF ClearKeys
<1>5. CASE StopServing
  <2>1. PICK S \in SUBSET Slots : CloseSlots(S)
    BY <1>5 DEF StopServing, Slots
  <2>2. \A t \in Slots : conn'[t] = IF t \in S THEN NoConn ELSE conn[t]
    BY <2>1 DEF CloseSlots
  <2>3. conn' \in [Slots -> Connection]
    BY <2>1 DEF CloseSlots
  <2>4. p2' \in {p2, NoRequest} /\ p2' \in Request
    BY <2>1, ClosingDropsRequest DEF CloseSlots
  <2>5. RequestOfLiveConnection'
    BY <2>1, <2>2, ClosingDropsRequest DEF CloseSlots, Request
  <2> QED BY <1>5, <2>2, <2>3, <2>4, <2>5 DEF StopServing
<1>6. CASE BeginStep
  BY <1>6 DEF BeginStep
<1>7. ASSUME NEW s \in Slots, Connect(s) PROVE IInv'
  <2>1. conn' \in [Slots -> Connection] /\ opened' \in 1..MaxConns
    BY <1>7 DEF Connect, Connection
  <2>2. \A t \in Slots : conn'[t].id = IF t = s THEN opened' ELSE conn[t].id
    BY <1>7 DEF Connect
  <2>3. \A t \in Slots : conn'[t].state # "none" => conn'[t].id # 0
    BY <1>7, <2>1 DEF Connect
  <2>4. p2' \in {p2, NoRequest} /\ p2' \in Request
    BY <1>7, ClosingDropsRequest DEF Connect
  <2>5. RequestOfLiveConnection'
    BY <1>7, <2>2, ClosingDropsRequest DEF Connect, Request
  <2>6. served' \subseteq Slots
    BY <1>7 DEF Connect
  <2> QED BY <1>7, <2>1, <2>3, <2>4, <2>5, <2>6 DEF Connect
<1>8. ASSUME NEW s \in Slots, Disconnect(s) PROVE IInv'
  <2>1. conn' \in [Slots -> Connection]
    BY <1>8 DEF Disconnect, CloseSlots
  <2>2. \A t \in Slots : conn'[t] = IF t = s THEN NoConn ELSE conn[t]
    BY <1>8 DEF Disconnect, CloseSlots
  <2>3. p2' \in {p2, NoRequest} /\ p2' \in Request
    BY <1>8, ClosingDropsRequest DEF Disconnect, CloseSlots
  <2>4. RequestOfLiveConnection'
    BY <1>8, <2>2, ClosingDropsRequest DEF Disconnect, CloseSlots, Request
  <2> QED BY <1>8, <2>1, <2>2, <2>3, <2>4 DEF Disconnect
<1>9. ASSUME NEW s \in Slots, Hello(s) PROVE IInv'
  <2>1. conn' \in [Slots -> Connection] /\ conn[s].id # 0
    BY <1>9 DEF Hello, Serve, Connection
  <2>2. \A t \in Slots : conn'[t].id = conn[t].id
    BY <1>9 DEF Hello, Connection
  <2>3. \A t \in Slots : conn'[t].state # "none" => conn'[t].id # 0
    BY <1>9, <2>1, <2>2 DEF Hello, Connection
  <2> QED BY <1>9, <2>1, <2>2, <2>3 DEF Hello, Serve, Request
<1>10. ASSUME NEW s \in Slots, NEW w \in 0..MaxWindows, NEW l \in Label, Pair(s, w, l) PROVE IInv'
  <2>1. CASE FailAttempt(s, p2) /\ UNCHANGED <<keys, byCode>>
    <3>1. /\ active' \in BOOLEAN /\ (active' => active)
          /\ conn' \in [Slots -> Connection]
          /\ \A t \in Slots : conn'[t].state # "none" => conn'[t].id # 0
          /\ p2' \in {p2, NoRequest}
          /\ p2'.stage \in Pending => conn'[p2'.owner].id = p2'.by /\ p2'.by # 0
      BY <1>10, <2>1, FailedAttempt DEF Pair, Serve
    <3> QED BY <1>10, <2>1, <3>1 DEF Pair, Serve
  <2>2. CASE active /\ w = win /\ keys' = Add(keys, CodeKey(w), l) /\ CloseWindow
             /\ byCode' = byCode + 1 /\ UNCHANGED <<conn, p2>>
    <3>1. CodeKey(w) \in Key
      BY <2>2, PairingAssumption DEF CodeKey
    <3>2. keys' \in Store /\ Distinct(keys')
      BY <2>2, <3>1, AddType, AddDistinct
    <3>3. active' = FALSE /\ byCode = 0 /\ byCode' = 1
      BY <2>2 DEF CloseWindow
    <3>4. /\ UNCHANGED <<left, win, attempts, opened, reveals, byNumber, delivered, phase>>
          /\ served' \subseteq Slots
      BY <1>10 DEF Pair, Serve
    <3>5. TypeOK' /\ StoreSound'
      <4>1. active' \in BOOLEAN /\ byCode' \in Nat
        BY <3>3
      <4> QED BY <2>2, <3>2, <3>4, <4>1
    <3>6. (/\ RequestOfLiveConnection /\ AttemptBudget /\ SecretsWiped /\ OneKeyPerMethod
           /\ DeliveredOnce /\ RequestInv /\ SingleUseInv /\ DeliveryInv)'
      <4> HIDE DEF TypeOK
      <4> QED BY <2>2, <3>3, <3>4
    <3> QED BY <3>5, <3>6
  <2> QED BY <1>10, <2>1, <2>2 DEF Pair
<1>11. ASSUME NEW s \in Slots, NEW l \in Label, PairBegin(s, l) PROVE IInv'
  <2>1. CASE FailAttempt(s, p2)
    <3>1. /\ active' \in BOOLEAN /\ (active' => active)
          /\ conn' \in [Slots -> Connection]
          /\ \A t \in Slots : conn'[t].state # "none" => conn'[t].id # 0
          /\ p2' \in {p2, NoRequest}
          /\ p2'.stage \in Pending => conn'[p2'.owner].id = p2'.by /\ p2'.by # 0
      BY <1>11, <2>1, FailedAttempt DEF PairBegin, Serve
    <3> QED BY <1>11, <3>1 DEF PairBegin, Serve
  <2>2. CASE active' = FALSE /\ UNCHANGED <<conn, p2>>
    BY <1>11, <2>2 DEF PairBegin, Serve
  <2>3. CASE active /\ p2' = NoRequest /\ UNCHANGED <<active, conn>>
    BY <1>11, <2>3 DEF PairBegin, Serve
  <2>4. CASE /\ active /\ AttemptsLeft
             /\ p2' = [stage |-> "committed", owner |-> s, label |-> l, secret |-> TRUE,
                       psk |-> 0, dl |-> Unset, by |-> conn[s].id]
             /\ UNCHANGED <<active, conn>>
    <3>1. conn[s].id \in 0..MaxConns /\ conn[s].id # 0
      BY <1>11 DEF PairBegin, Serve, Connection
    <3>2. p2' \in Request
      BY <2>4, <3>1 DEF Request, Stages
    <3> QED BY <1>11, <2>4, <3>1, <3>2 DEF PairBegin, Serve, AttemptsLeft
  <2> QED BY <1>11, <2>1, <2>2, <2>3, <2>4 DEF PairBegin
<1>12. ASSUME NEW s \in Slots, NEW sent, PairReveal(s, sent) PROVE IInv'
  <2>1. ASSUME NEW p \in {p2, NoRequest}, FailAttempt(s, p), UNCHANGED <<reveals, delivered>>,
               \/ UNCHANGED attempts
               \/ attempts < MaxAttempts /\ attempts' = attempts + 1 /\ p = NoRequest
        PROVE  IInv'
    <3>1. /\ active' \in BOOLEAN /\ (active' => active)
          /\ conn' \in [Slots -> Connection]
          /\ \A t \in Slots : conn'[t].state # "none" => conn'[t].id # 0
          /\ p2' \in {p, NoRequest}
          /\ p2'.stage \in Pending => conn'[p2'.owner].id = p2'.by /\ p2'.by # 0
      BY <1>12, <2>1, FailedAttempt DEF PairReveal, Serve
    <3>2. attempts' \in Nat /\ AttemptBudget'
      BY <2>1, <3>1
    <3> QED BY <1>12, <2>1, <3>1, <3>2 DEF PairReveal, Serve
  <2>2. CASE /\ p2.stage = "committed" /\ attempts' = attempts + 1 /\ p2' = NoRequest
             /\ UNCHANGED <<active, conn, reveals, delivered>>
    <3>1. attempts' \in Nat /\ attempts' <= MaxAttempts
      BY <2>2
    <3>2. /\ UNCHANGED <<left, win, keys, opened, byCode, byNumber, phase>>
          /\ served' \subseteq Slots
      BY <1>12 DEF PairReveal, Serve
    <3> QED BY <2>2, <3>1, <3>2
  <2>3. CASE /\ active /\ p2.stage = "committed" /\ p2.owner = s
             /\ reveals < MaxReveals
             /\ reveals' = reveals + 1
             /\ p2' = [p2 EXCEPT !.stage = "waiting", !.psk = reveals + 1,
                                 !.secret = FALSE, !.dl = Unset]
             /\ delivered' = 0
             /\ UNCHANGED <<active, conn, attempts>>
    <3>1. reveals + 1 \in 1..MaxReveals
      BY <2>3
    <3>2. /\ p2' \in Request /\ p2'.stage = "waiting" /\ p2'.psk = reveals + 1
          /\ p2'.secret = FALSE /\ p2'.owner = p2.owner /\ p2'.by = p2.by
      <4>1. p2 \in Request
        OBVIOUS
      <4> HIDE DEF IInv
      <4> QED BY <4>1, <2>3, <3>1, ShownNumber
    <3>3. /\ UNCHANGED <<left, win, keys, opened, byCode, byNumber, phase>>
          /\ served' \subseteq Slots
      BY <1>12 DEF PairReveal, Serve
    <3>4. delivered' = 0 /\ reveals' \in 1..MaxReveals /\ UNCHANGED <<active, conn, attempts>>
      BY <2>3, <3>1
    <3> QED BY <2>3, <3>1, <3>2, <3>3, <3>4
  <2> QED BY <1>12, <2>1, <2>2, <2>3 DEF PairReveal
<1>13. ASSUME NEW s \in Slots, PairPoll(s) PROVE IInv'
  BY <1>13 DEF PairPoll, Serve, Answered
<1>14. ASSUME NEW s \in Slots, NEW k \in Key, Auth(s, k) PROVE IInv'
  <2>1. CASE conn' = [conn EXCEPT ![s].state = "authed"] /\ UNCHANGED <<active, p2>>
    <3>1. conn' \in [Slots -> Connection] /\ conn[s].id # 0
      BY <1>14, <2>1 DEF Auth, Serve, Connection
    <3>2. \A t \in Slots : conn'[t].id = conn[t].id
      BY <2>1 DEF Connection
    <3>3. \A t \in Slots : conn'[t].state # "none" => conn'[t].id # 0
      BY <2>1, <3>1, <3>2 DEF Connection
    <3> QED BY <1>14, <2>1, <3>1, <3>2, <3>3 DEF Auth, Serve, Request
  <2>2. CASE FailAttempt(s, p2)
    <3>1. /\ active' \in BOOLEAN /\ (active' => active)
          /\ conn' \in [Slots -> Connection]
          /\ \A t \in Slots : conn'[t].state # "none" => conn'[t].id # 0
          /\ p2' \in {p2, NoRequest}
          /\ p2'.stage \in Pending => conn'[p2'.owner].id = p2'.by /\ p2'.by # 0
      BY <1>14, <2>2, FailedAttempt DEF Auth, Serve
    <3> QED BY <1>14, <3>1 DEF Auth, Serve
  <2> QED BY <1>14, <2>1, <2>2 DEF Auth
<1>15. ASSUME NEW s \in Slots, NEW k \in Key, PairForget(s, k) PROVE IInv'
  <2>1. keys' \in Store /\ Distinct(keys')
    BY <1>15, ForgetStore DEF PairForget
  <2> QED BY <1>15, <2>1 DEF PairForget, Serve
<1>16. ASSUME NEW dt \in {0, 1}, EndStep(dt) PROVE IInv'
  <2> DEFINE p == TimedRequest(dt)
  <2>1. /\ p \in Request
        /\ p.stage \in Pending => /\ p.stage = p2.stage /\ p.owner = p2.owner /\ p.by = p2.by
                                   /\ p.psk = p2.psk /\ ~Expired(dt)
        /\ p.secret => p.stage = "committed"
        /\ p.psk # 0 => p.stage \in {"waiting", "approved"}
        /\ p.stage \in {"waiting", "approved"} => p.stage = p2.stage /\ p.psk = p2.psk
    BY ClockKeepsRequest
  <2>2. p2' \in {p, NoRequest} /\ p2' \in Request
    BY <1>16, <2>1 DEF EndStep
  <2>3. left' \in 0..WindowTicks
    BY <1>16 DEF EndStep, After
  <2>4. active' \in BOOLEAN /\ (active' => active)
    BY <1>16 DEF EndStep
  <2>5. attempts' \in Nat /\ attempts' <= MaxAttempts
        /\ (p.stage \in Pending => attempts' < MaxAttempts)
    BY <1>16, <2>1 DEF EndStep, Expired
  <2>6. /\ UNCHANGED <<win, conn, keys, opened, reveals, byCode, byNumber, delivered>>
        /\ phase' = "ui" /\ served' = {}
    BY <1>16 DEF EndStep
  <2> HIDE DEF p
  <2>7. TypeOK'
    BY <2>2, <2>3, <2>4, <2>5, <2>6
  <2>8. RequestOfLiveConnection' /\ AttemptBudget' /\ SecretsWiped'
    BY <2>1, <2>2, <2>5, <2>6
  <2>9. RequestInv' /\ SingleUseInv' /\ DeliveryInv'
    BY <2>1, <2>2, <2>4, <2>6
  <2> QED BY <2>6, <2>7, <2>8, <2>9
<1>17. CASE UNCHANGED vars
  BY <1>17 DEF vars
<1> QED
  BY <1>1, <1>2, <1>3, <1>4, <1>5, <1>6, <1>7, <1>8, <1>9, <1>10, <1>11, <1>12, <1>13, <1>14, <1>15,
     <1>16, <1>17 DEF Next, Buttons, Requests

\* The inductive invariant holds in every state of every behaviour.
THEOREM PairingInvariant == Spec => []IInv
<1> QED BY InitInv, StepInv, PTL DEF Spec

\* The window, the request, the connections and the store keep their types.
THEOREM PairingTypes == Spec => []TypeOK
<1>1. IInv => TypeOK
  BY DEF IInv
<1> QED BY <1>1, PairingInvariant, PTL

\* An open request always has its client (close_conn takes it along).
THEOREM RequestsHaveClients == Spec => []RequestOfLiveConnection
<1>1. IInv => RequestOfLiveConnection
  BY DEF IInv
<1> QED BY <1>1, PairingInvariant, PTL

\* No window admits more than NDP_P2_MAX_ATTEMPTS refused numbers.
THEOREM AttemptsAreBounded == Spec => []AttemptBudget
<1>1. IInv => AttemptBudget
  BY DEF IInv
<1> QED BY <1>1, PairingInvariant, PTL

\* Secrets do not outlive the stage that needs them (p2_reset, deny, poll).
THEOREM SecretsAreWiped == Spec => []SecretsWiped
<1>1. IInv => SecretsWiped
  BY DEF IInv
<1> QED BY <1>1, PairingInvariant, PTL

\* A window makes at most one pairing by code and at most one by number.
THEOREM WindowIsSingleUse == Spec => []OneKeyPerMethod
<1>1. IInv => OneKeyPerMethod
  BY DEF IInv
<1> QED BY <1>1, PairingInvariant, PTL

\* PAIR_POLL tells an approval once.
THEOREM ApprovalToldOnce == Spec => []DeliveredOnce
<1>1. IInv => DeliveredOnce
  BY DEF IInv
<1> QED BY <1>1, PairingInvariant, PTL

\* The key store never holds a key or a name twice.
THEOREM StoreStaysSound == Spec => []StoreSound
<1>1. IInv => StoreSound
  BY DEF IInv
<1> QED BY <1>1, PairingInvariant, PTL
-----------------------------------------------------------------------------
(***************************************************************************)
(* Time.                                                                   *)
(***************************************************************************)
\* A number that waits has a running clock, or one the next end of a step starts.
\* A request that was not shown yet, once the window's time is up, was made in
\* this very step, by a client that was served in it: the end of the step forgets
\* it before it can show a number.
ClockInv ==
  /\ p2.stage = "waiting" => p2.dl \in {Unset} \cup 1..PromptTicks
  /\ active /\ left = 0 /\ p2.stage = "committed" => phase = "net" /\ p2.owner \in served

\* What a step other than the owner's Y and the end of the server's step does to the
\* clocks: nothing, but for a request that begins or shows its number.
LEMMA BetweenTicks ==
  ASSUME IInv, [Next]_vars, ~PressPair, \A dt \in {0, 1} : ~EndStep(dt)
  PROVE  /\ left' = left /\ win' = win /\ (active' => active)
         /\ phase = "net" => phase' = "net"
         /\ served \subseteq served'
         /\ \/ p2' = p2
            \/ p2'.stage \notin Pending
            \/ p2'.stage = "committed" /\ phase' = "net" /\ p2'.owner \in served'
            \/ /\ p2.stage = "committed" /\ p2.owner \notin served
               /\ p2'.stage = "waiting" /\ p2'.dl = Unset /\ p2'.psk # p2.psk
<1> USE NoRequestType
<1> USE DEF window, history, loop, counters, Pending
<1>0. /\ active \in BOOLEAN /\ p2 \in Request /\ served \subseteq Slots
      /\ p2.psk # 0 => p2.stage \in {"waiting", "approved"}
  BY DEF IInv, TypeOK, SecretsWiped
<1>1. CASE Approve
  <2>1. p2'.stage = "approved"
    BY <1>1, <1>0 DEF Approve, Request
  <2> QED BY <1>1, <2>1, <1>0 DEF Approve, CloseWindow
<1>2. CASE Deny
  <2>1. p2'.stage = "denied"
    BY <1>2, <1>0 DEF Deny, Refused, Request
  <2> QED BY <1>2, <2>1, <1>0 DEF Deny
<1>3. CASE ClearKeys
  BY <1>3 DEF ClearKeys
<1>4. CASE StopServing
  <2>1. PICK S \in SUBSET Slots : CloseSlots(S)
    BY <1>4 DEF StopServing, Slots
  <2>2. p2' \in {p2, NoRequest}
    BY <2>1, ClosingDropsRequest DEF CloseSlots
  <2> QED BY <1>4, <2>2 DEF StopServing
<1>5. CASE BeginStep
  BY <1>5 DEF BeginStep
<1>6. ASSUME NEW s \in Slots, Connect(s) \/ Disconnect(s)
      PROVE  /\ p2' \in {p2, NoRequest} /\ phase' = "net" /\ served \subseteq served'
             /\ UNCHANGED <<active, left, win>>
  <2>1. p2' \in {p2, NoRequest}
    BY <1>6, ClosingDropsRequest DEF Connect, Disconnect, CloseSlots
  <2> QED BY <1>6, <2>1 DEF Connect, Disconnect
<1>7. ASSUME NEW s \in Slots, NEW p \in {p2, NoRequest}, conn[s].state = "hello", FailAttempt(s, p)
      PROVE  (active' => active) /\ p2' \in {p2, NoRequest}
  BY <1>7, FailedAttempt
<1>8. ASSUME NEW s \in Slots, Hello(s)
      PROVE  p2' = p2 /\ phase' = "net" /\ served \subseteq served' /\ UNCHANGED <<active, left, win>>
  BY <1>8 DEF Hello, Serve
<1>9. ASSUME NEW s \in Slots, NEW w, NEW l, Pair(s, w, l)
      PROVE  /\ p2' \in {p2, NoRequest} /\ phase' = "net" /\ served \subseteq served'
             /\ (active' => active) /\ UNCHANGED <<left, win>>
  BY <1>9, <1>7 DEF Pair, Serve, CloseWindow
<1>10. ASSUME NEW s \in Slots, NEW l, PairBegin(s, l)
       PROVE  /\ phase' = "net" /\ served \subseteq served' /\ (active' => active) /\ UNCHANGED <<left, win>>
              /\ \/ p2' \in {p2, NoRequest}
                 \/ p2'.stage = "committed" /\ p2'.owner \in served'
  BY <1>10, <1>7 DEF PairBegin, Serve
<1>11. ASSUME NEW s \in Slots, NEW sent, PairReveal(s, sent)
       PROVE  /\ phase' = "net" /\ served \subseteq served' /\ (active' => active) /\ UNCHANGED <<left, win>>
              /\ \/ p2' \in {p2, NoRequest}
                 \/ /\ p2.stage = "committed" /\ p2.owner \notin served
                    /\ p2'.stage = "waiting" /\ p2'.dl = Unset /\ p2'.psk # p2.psk
  <2>1. /\ phase' = "net" /\ served \subseteq served' /\ s \notin served /\ conn[s].state = "hello"
        /\ UNCHANGED <<left, win>>
    BY <1>11 DEF PairReveal, Serve
  <2>2. CASE \E p \in {p2, NoRequest} : FailAttempt(s, p)
    BY <2>1, <2>2, <1>7
  <2>3. CASE p2' = NoRequest /\ UNCHANGED active
    BY <2>1, <2>3
  <2>4. CASE /\ p2.stage = "committed" /\ p2.owner = s
             /\ p2' = [p2 EXCEPT !.stage = "waiting", !.psk = reveals + 1,
                                 !.secret = FALSE, !.dl = Unset]
             /\ UNCHANGED active
    <3>1. p2'.stage = "waiting" /\ p2'.dl = Unset /\ p2'.psk = reveals + 1
      BY <2>4, <1>0 DEF Request
    <3>2. reveals + 1 # 0 /\ p2.psk = 0
      BY <2>4, <1>0 DEF IInv, TypeOK
    <3> QED BY <2>1, <2>4, <3>1, <3>2
  <2> QED BY <1>11, <2>2, <2>3, <2>4 DEF PairReveal
<1>12. ASSUME NEW s \in Slots, PairPoll(s)
       PROVE  p2' = NoRequest /\ phase' = "net" /\ served \subseteq served' /\ UNCHANGED <<active, left, win>>
  BY <1>12 DEF PairPoll, Serve, Answered
<1>13. ASSUME NEW s \in Slots, NEW k, Auth(s, k) \/ PairForget(s, k)
       PROVE  /\ p2' \in {p2, NoRequest} /\ phase' = "net" /\ served \subseteq served'
              /\ (active' => active) /\ UNCHANGED <<left, win>>
  BY <1>13, <1>7 DEF Auth, PairForget, Serve
<1>14. CASE UNCHANGED vars
  BY <1>14 DEF vars
<1>15. CASE \E s \in Slots : Connect(s) \/ Disconnect(s) \/ Requests(s)
  BY <1>15, <1>6, <1>8, <1>9, <1>10, <1>11, <1>12, <1>13 DEF Requests
<1> QED
  BY <1>1, <1>2, <1>3, <1>4, <1>5, <1>14, <1>15 DEF Next, Buttons

\* What the end of a step leaves of a number: the same, with less time, but not none.
LEMMA TickTakesTime ==
  ASSUME IInv, ClockInv, NEW dt \in {0, 1}, EndStep(dt), p2'.stage \in Pending
  PROVE  /\ p2'.stage = p2.stage
         /\ p2'.stage = "waiting" =>
              /\ p2'.dl \in 1..PromptTicks
              /\ p2'.dl + dt <= NumberTime
<1> DEFINE p == TimedRequest(dt)
<1> USE NoRequestType
<1>1. p2 \in Request /\ PromptTicks \in Nat \ {0}
  BY PairingAssumption DEF IInv, TypeOK
<1>2. p2' = p /\ p2.stage \in Pending /\ p.stage = p2.stage /\ ~Expired(dt)
  BY ClockKeepsRequest DEF EndStep, Pending
<1>3. p = [p2 EXCEPT !.dl = Deadline(dt)]
  BY <1>2 DEF TimedRequest
<1>4. p2'.dl = Deadline(dt) /\ Deadline(dt) # 0
  BY <1>1, <1>2, <1>3 DEF Expired, Request
<1>5. ASSUME p2.stage = "waiting"
      PROVE  Deadline(dt) \in 1..PromptTicks /\ Deadline(dt) + dt <= NumberTime
  BY <1>1, <1>4, <1>5 DEF ClockInv, Deadline, After, NumberTime, Unset
<1> QED BY <1>2, <1>4, <1>5

LEMMA InitClock == Init => ClockInv
BY NoRequestType DEF Init, ClockInv

LEMMA StepClock == IInv /\ ClockInv /\ [Next]_vars => ClockInv'
<1> SUFFICES ASSUME IInv, ClockInv, [Next]_vars PROVE ClockInv'
  OBVIOUS
<1>0. WindowTicks \in Nat \ {0} /\ left \in Nat
  BY PairingAssumption DEF IInv, TypeOK
<1>1. CASE PressPair
  BY <1>1, NoRequestType DEF PressPair, ClockInv
<1>2. ASSUME NEW dt \in {0, 1}, EndStep(dt) PROVE ClockInv'
  <2>1. CASE p2'.stage \notin Pending
    BY <2>1 DEF ClockInv, Pending
  <2>2. CASE p2'.stage = "waiting"
    BY <1>2, <2>2, TickTakesTime DEF ClockInv, Pending
  <2>3. CASE p2'.stage = "committed"
    <3>1. p2' = TimedRequest(dt) /\ (active' => ~Shuts(dt, p2'))
      BY <1>2, <2>3, NoRequestType DEF EndStep
    <3>2. active' => active /\ left' # 0
      BY <1>2, <2>3, <3>1 DEF EndStep, Shuts
    <3> QED BY <2>3, <3>2 DEF ClockInv
  <2> QED BY <2>1, <2>2, <2>3 DEF Pending
<1>3. CASE ~PressPair /\ \A dt \in {0, 1} : ~EndStep(dt)
  <2>1. /\ left' = left /\ (active' => active)
        /\ phase = "net" => phase' = "net"
        /\ served \subseteq served'
        /\ \/ p2' = p2
           \/ p2'.stage \notin Pending
           \/ p2'.stage = "committed" /\ phase' = "net" /\ p2'.owner \in served'
           \/ p2'.stage = "waiting" /\ p2'.dl = Unset
    BY <1>3, BetweenTicks
  <2> QED BY <2>1 DEF ClockInv, Pending
<1> QED BY <1>1, <1>2, <1>3

\* The arithmetic of a window whose time goes down, and of one whose time is up.
LEMMA LessTime ==
  \A l, m, P \in Nat : \A d \in {0, 1} :
    m # 0 /\ l = m + d =>
      /\ m > 0 /\ l > 0
      /\ m + P + 1 \in Nat /\ l + P + 1 \in Nat
      /\ (m + P + 1) + d <= l + P + 1
OBVIOUS

\* A number on the screen is worth less time than a window that still has some.
LEMMA LastTime ==
  \A l, P \in Nat : \A n \in 1..P : \A d \in {0, 1} :
    l > 0 => n \in Nat /\ l + P + 1 \in Nat /\ n + d <= l + P + 1
OBVIOUS

\* No step gives a number or its window more time.
LEMMA StepTime ==
  IInv /\ ClockInv /\ [Next]_vars =>
    /\ p2.stage = "waiting" /\ p2'.stage = "waiting" /\ p2'.psk = p2.psk =>
         NumberTime' <= NumberTime /\ (EndStep(1) => NumberTime' < NumberTime)
    /\ active /\ active' /\ win' = win =>
         WindowTime' <= WindowTime /\ (EndStep(1) => WindowTime' < WindowTime)
<1> SUFFICES ASSUME IInv, ClockInv, [Next]_vars
             PROVE  /\ p2.stage = "waiting" /\ p2'.stage = "waiting" /\ p2'.psk = p2.psk =>
                         NumberTime' <= NumberTime /\ (EndStep(1) => NumberTime' < NumberTime)
                    /\ active /\ active' /\ win' = win =>
                         WindowTime' <= WindowTime /\ (EndStep(1) => WindowTime' < WindowTime)
  OBVIOUS
<1>0. PromptTicks \in Nat /\ PromptTicks # 0 /\ left \in Nat /\ win \in Nat
  BY PairingAssumption DEF IInv, TypeOK
<1>1. NumberTime \in Nat /\ (p2.stage # "waiting" => NumberTime = 0)
  BY <1>0 DEF NumberTime, ClockInv, Unset
<1>2. CASE PressPair /\ \A dt \in {0, 1} : ~EndStep(dt)
  <2>1. p2'.stage # "waiting" /\ (active /\ active' => win' # win)
    BY <1>2, <1>0, NoRequestType DEF PressPair
  <2> QED BY <2>1
<1>3. ASSUME NEW dt \in {0, 1}, EndStep(dt)
      PROVE  /\ p2'.stage = "waiting" => NumberTime' \in Nat /\ NumberTime' + dt <= NumberTime
             /\ active /\ active' =>
                  WindowTime' \in Nat /\ WindowTime \in Nat /\ WindowTime' + dt <= WindowTime
  <2>1. p2'.stage = "waiting" =>
          NumberTime' \in 1..PromptTicks /\ NumberTime' + dt <= NumberTime /\ p2.stage = "waiting"
    BY <1>3, <1>0, TickTakesTime DEF NumberTime, Pending, Unset
  <2>2. left' = After(left, dt)
    BY <1>3 DEF EndStep
  <2>3. left' = 0 /\ active' => p2'.stage = "waiting"
    BY <1>3, <2>2, NoRequestType DEF EndStep, Shuts
  <2>4. left' \in Nat /\ (left' # 0 => left = left' + dt) /\ (left = 0 => left' = 0)
    BY <2>2, <1>0 DEF After
  <2>5. CASE left' # 0
    <3>1. /\ left' > 0 /\ left > 0
          /\ left' + PromptTicks + 1 \in Nat /\ left + PromptTicks + 1 \in Nat
          /\ (left' + PromptTicks + 1) + dt <= left + PromptTicks + 1
      BY <2>4, <2>5, <1>0, LessTime, Zenon
    <3>2. WindowTime' = left' + PromptTicks + 1 /\ WindowTime = left + PromptTicks + 1
      BY <3>1 DEF WindowTime
    <3>3. WindowTime' \in Nat /\ WindowTime \in Nat /\ WindowTime' + dt <= WindowTime
      BY <3>1, <3>2, Zenon
    <3>4. p2'.stage = "waiting" => NumberTime' \in Nat /\ NumberTime' + dt <= NumberTime
      BY <2>1
    <3> QED BY <3>3, <3>4, Zenon
  <2>6. CASE left' = 0 /\ active'
    <3>1. NumberTime' \in 1..PromptTicks /\ NumberTime' + dt <= NumberTime
      BY <2>1, <2>3, <2>6
    <3>2. WindowTime' = NumberTime'
      BY <2>6 DEF WindowTime
    <3>3. CASE left > 0
      <4>1. WindowTime = left + PromptTicks + 1
        BY <3>3 DEF WindowTime
      <4>2. NumberTime' \in Nat /\ left + PromptTicks + 1 \in Nat /\ NumberTime' + dt <= left + PromptTicks + 1
        BY <3>1, <3>3, <1>0, LastTime, Zenon
      <4> QED BY <3>1, <3>2, <4>1, <4>2, Zenon
    <3>4. CASE left = 0
      <4>1. WindowTime = NumberTime
        BY <3>4 DEF WindowTime
      <4>2. NumberTime' \in Nat
        BY <3>1
      <4> QED BY <3>1, <3>2, <4>1, <4>2, <1>1, Zenon
    <3> QED BY <3>3, <3>4, <1>0
  <2> QED BY <2>1, <2>5, <2>6
<1>4. CASE ~PressPair /\ \A dt \in {0, 1} : ~EndStep(dt)
  <2>1. /\ left' = left /\ win' = win
        /\ \/ p2' = p2
           \/ p2'.stage \notin Pending
           \/ p2'.stage = "committed"
           \/ /\ p2.stage = "committed" /\ p2.owner \notin served
              /\ p2'.stage = "waiting" /\ p2'.psk # p2.psk
    BY <1>4, BetweenTicks
  <2>2. CASE p2' = p2
    <3>1. NumberTime' = NumberTime
      BY <2>2 DEF NumberTime
    <3>2. WindowTime' = WindowTime
      BY <2>1, <3>1 DEF WindowTime
    <3> QED BY <3>1, <3>2, <1>0, <1>1, <1>4 DEF WindowTime
  <2>3. CASE p2'.stage # "waiting"
    <3>1. NumberTime' = 0
      BY <2>3 DEF NumberTime
    <3>2. WindowTime' <= WindowTime
      BY <2>1, <3>1, <1>0, <1>1 DEF WindowTime
    <3> QED BY <2>3, <3>2, <1>4
  <2>4. CASE /\ p2.stage = "committed" /\ p2.owner \notin served
             /\ p2'.psk # p2.psk
    <3>1. active => left # 0
      BY <2>4 DEF ClockInv
    <3>2. active => WindowTime' = WindowTime /\ WindowTime \in Nat
      BY <2>1, <3>1, <1>0 DEF WindowTime
    <3> QED BY <2>4, <3>2, <1>4
  <2> QED BY <2>1, <2>2, <2>3, <2>4 DEF Pending
<1> QED
  <2>1. CASE \E dt \in {0, 1} : EndStep(dt)
    <3>1. PICK dt \in {0, 1} : EndStep(dt)
      BY <2>1
    <3>2. /\ p2'.stage = "waiting" => NumberTime' <= NumberTime
          /\ active /\ active' => WindowTime' <= WindowTime
      <4>1. dt \in Nat
        OBVIOUS
      <4>2. /\ p2'.stage = "waiting" => NumberTime' \in Nat /\ NumberTime' + dt <= NumberTime
            /\ active /\ active' =>
                 WindowTime' \in Nat /\ WindowTime \in Nat /\ WindowTime' + dt <= WindowTime
        BY <3>1, <1>3
      <4> QED BY <4>1, <4>2, <1>1
    <3>3. ASSUME EndStep(1)
          PROVE  /\ p2'.stage = "waiting" => NumberTime' < NumberTime
                 /\ active /\ active' => WindowTime' < WindowTime
      <4>1. /\ p2'.stage = "waiting" => NumberTime' \in Nat /\ NumberTime' + 1 <= NumberTime
            /\ active /\ active' =>
                 WindowTime' \in Nat /\ WindowTime \in Nat /\ WindowTime' + 1 <= WindowTime
        BY <3>3, <1>3
      <4> QED BY <4>1, <1>1
    <3> QED BY <3>2, <3>3
  <2> QED BY <1>2, <1>4, <2>1

\* Nothing gives a number or a window more time, and every tick takes some.
THEOREM TimeIsUp == Spec => TimeRunsOut
<1>1. Spec => []ClockInv
  BY InitInv, StepInv, InitClock, StepClock, PTL DEF Spec
<1>2. IInv /\ ClockInv /\ [Next]_vars =>
        [/\ p2.stage = "waiting" /\ p2'.stage = "waiting" /\ p2'.psk = p2.psk =>
              NumberTime' <= NumberTime /\ (EndStep(1) => NumberTime' < NumberTime)
         /\ active /\ active' /\ win' = win =>
              WindowTime' <= WindowTime /\ (EndStep(1) => WindowTime' < WindowTime)]_vars
  BY StepTime
<1> QED BY <1>1, <1>2, PairingInvariant, PTL DEF Spec, TimeRunsOut
=============================================================================
