---------------------------- MODULE AccessProofs ----------------------------
(***************************************************************************)
(* For any card, any protected zones and any number of connections: the    *)
(* level the menu goes by is what every agent does (LevelIsReal), a        *)
(* listing shows the way to what may be read and nothing else              *)
(* (ListingsLeadThere), an edit changes nothing outside its folder         *)
(* (OnlyThatFolder), and what was saved is accepted again                  *)
(* (SavedIsAccepted).                                                      *)
(***************************************************************************)
EXTENDS Access, SequenceTheorems, TLAPS

Entry == [path : Seq(Name), level : {NONE, READ, WRITE}]
Levels == {NONE, READ, WRITE}
Menus == [open : BOOLEAN, path : Seq(Name), rows : SUBSET DOMAIN Order, sel : {0} \cup DOMAIN Order]

TypeOK ==
  /\ list \in Seq(Root)
  /\ file = Damaged \/ file \in Seq(Root)
  /\ mode \in Mode
  /\ menu \in Menus

\* Every agent has the policy of the list, and the mode, that are in force.
InForce ==
  /\ policy = ToPolicy(list)
  /\ agents = [s \in Slot |-> Copy(policy, mode)]

IInv == TypeOK /\ InForce /\ Accepted(list) /\ SavedIsAccepted
-----------------------------------------------------------------------------
(***************************************************************************)
(* Paths.                                                                  *)
(***************************************************************************)
LEMMA InsideItself ==
  ASSUME NEW p \in Seq(Name)
  PROVE  Inside(p, p)
BY DEF Inside

LEMMA InsideTransitive ==
  ASSUME NEW p \in Seq(Name), NEW q \in Seq(Name), NEW r \in Seq(Name), Inside(p, q), Inside(q, r)
  PROVE  Inside(p, r)
<1>1. Len(p) \in Nat /\ Len(q) \in Nat /\ Len(r) \in Nat
  BY LenProperties
<1>2. Len(r) <= Len(p)
  BY <1>1 DEF Inside
<1>3. ASSUME NEW i \in 1..Len(r) PROVE Fold[p[i]] = Fold[r[i]]
  <2>1. i \in 1..Len(q)
    BY <1>1 DEF Inside
  <2> QED BY <2>1 DEF Inside
<1> QED BY <1>2, <1>3 DEF Inside

\* What is allowed does not depend on the spelling of a path.
LEMMA AllowedAlike ==
  ASSUME NEW p \in Seq(Name), NEW q \in Seq(Name), NEW v \in Levels, Same(p, q), Allowed(p, v)
  PROVE  Allowed(q, v)
<1>1. Inside(p, q) /\ Inside(q, p)
  BY DEF Same
<1>2. \A z \in Seq(Name) : Inside(p, z) <=> Inside(q, z)
  BY <1>1, InsideTransitive
<1>3. NeverReadable(q) => NeverReadable(p)
  BY <1>2, PolicyAssumption DEF NeverReadable
<1>4. \A z \in Seq(Name) : Lifted(p, z) <=> Lifted(q, z)
  BY <1>2, PolicyAssumption DEF Lifted
<1>5. WriteProtected(q) => WriteProtected(p)
  BY <1>2, <1>4, PolicyAssumption DEF WriteProtected
<1> QED BY <1>3, <1>5 DEF Allowed

\* Nobody writes what nobody reads.
LEMMA UnreadableIsProtected ==
  ASSUME NEW p \in Seq(Name), NeverReadable(p)
  PROVE  WriteProtected(p)
<1>1. PICK z \in NeverRead : Inside(p, z)
  BY DEF NeverReadable
<1>2. PICK w \in NeverWrite : Inside(z, w) /\ \A e \in WriteExcept : Inside(e, w) => Inside(w, e)
  BY AccessAssumption
<1>3. z \in Seq(Name) /\ w \in Seq(Name)
  BY PolicyAssumption
<1>4. Inside(p, w)
  BY <1>1, <1>2, <1>3, InsideTransitive
<1>5. ~Lifted(p, w)
  BY <1>2 DEF Lifted
<1> QED BY <1>4, <1>5 DEF WriteProtected
-----------------------------------------------------------------------------
(***************************************************************************)
(* The list.                                                               *)
(***************************************************************************)

\* A folder has one entry at most, and FindEntry finds it.
LEMMA EntryFound ==
  ASSUME NEW l \in Seq(Root), Accepted(l), NEW p \in Seq(Name), NEW i \in 1..Len(l), Same(p, l[i].path)
  PROVE  FindEntry(l, p) = i
<1>1. \A j \in 1..Len(l) : l[j].path \in Seq(Name)
  <2>1. \A j \in 1..Len(l) : l[j] \in Root
    BY ElementOfSeq
  <2> QED BY <2>1 DEF Root
<1>2. \A j \in 1..Len(l) : Same(p, l[j].path) => j = i
  <2> SUFFICES ASSUME NEW j \in 1..Len(l), Same(p, l[j].path) PROVE j = i
    OBVIOUS
  <2>1. Same(l[i].path, l[j].path) /\ Same(l[j].path, l[i].path)
    BY <1>1, InsideTransitive DEF Same
  <2>2. ~(j < i) /\ ~(i < j)
    BY <2>1, LenProperties DEF Accepted
  <2> QED BY <2>2, LenProperties
<1>3. {j \in DOMAIN l : Same(p, l[j].path)} = {i}
  BY <1>2, LenProperties
<1>4. Min({i}) = i
  BY LenProperties DEF Min
<1> QED BY <1>3, <1>4, LenProperties DEF FindEntry

LEMMA FindEntryType ==
  ASSUME NEW l \in Seq(Root), Accepted(l), NEW p \in Seq(Name)
  PROVE  /\ FindEntry(l, p) \in 0..Len(l)
         /\ FindEntry(l, p) # 0 => Same(p, l[FindEntry(l, p)].path)
         /\ FindEntry(l, p) = 0 => \A i \in 1..Len(l) : ~Same(p, l[i].path)
<1>1. CASE \E i \in 1..Len(l) : Same(p, l[i].path)
  <2>1. PICK i \in 1..Len(l) : Same(p, l[i].path)
    BY <1>1
  <2>2. FindEntry(l, p) = i
    BY <2>1, EntryFound
  <2> QED BY <2>1, <2>2, LenProperties
<1>2. CASE ~\E i \in 1..Len(l) : Same(p, l[i].path)
  <2>1. FindEntry(l, p) = 0
    BY <1>2, LenProperties DEF FindEntry
  <2> QED BY <2>1, <1>2, LenProperties
<1> QED BY <1>1, <1>2

\* Y gives a level the list knows.
LEMMA NextLevelType ==
  ASSUME NEW l, NEW p
  PROVE  NextLevel(l, p) \in Levels
<1> DEFINE now == Explicit(l, p)
           useful == {v \in {READ, WRITE} : v > LevelFrom(l, p, FindEntry(l, p)) /\ Allowed(p, v)}
           above == {v \in useful : v > now}
<1>1. above \subseteq {1, 2}
  BY DEF READ, WRITE
<1>2. ASSUME above # {} PROVE Min(above) \in {1, 2}
  <2>1. \E x \in above : \A y \in above : x <= y
    <3>1. CASE 1 \in above
      BY <3>1, <1>1
    <3>2. CASE 1 \notin above
      <4>1. above = {2}
        BY <3>2, <1>1, <1>2
      <4> QED BY <4>1
    <3> QED BY <3>1, <3>2
  <2> HIDE DEF above
  <2>2. Min(above) \in above
    BY <2>1 DEF Min
  <2> QED BY <2>2, <1>1
<1>3. NextLevel(l, p) = IF above = {} \/ now \notin useful \cup {NONE} THEN NONE ELSE Min(above)
  BY DEF NextLevel
<1> HIDE DEF above, useful, now
<1> QED BY <1>2, <1>3 DEF Levels, NONE, READ, WRITE

\* ndp_access_set, entry by entry: those that are not of p stay, in their order,
\* and one more may follow them or change, whose path is p in some spelling.
LEMMA SetType ==
  ASSUME NEW l \in Seq(Root), Accepted(l), NEW p \in Seq(Name), NEW v \in Levels
  PROVE  /\ Set(l, p, v)[2] \in Seq(Root)
         /\ Accepted(Set(l, p, v)[2])
         /\ \A i \in 1..Len(Set(l, p, v)[2]) :
              \/ Same(p, Set(l, p, v)[2][i].path)
              \/ \E j \in 1..Len(l) : Set(l, p, v)[2][i] = l[j]
         /\ \A j \in 1..Len(l) :
              \/ Same(p, l[j].path)
              \/ \E i \in 1..Len(Set(l, p, v)[2]) : Set(l, p, v)[2][i] = l[j]
<1> DEFINE k == FindEntry(l, p)
           new == [path |-> p, level |-> v]
<1>1. Len(l) \in Nat /\ DOMAIN l = 1..Len(l) /\ \A j \in 1..Len(l) : l[j] \in Root
  BY LenProperties, ElementOfSeq
<1>2. /\ k \in 0..Len(l)
      /\ k # 0 => Same(p, l[k].path)
      /\ k = 0 => \A i \in 1..Len(l) : ~Same(p, l[i].path)
  BY FindEntryType
<1>3. AccessMax \in Nat
  BY AccessAssumption
<1> HIDE DEF k
<1>4. CASE Set(l, p, v)[2] = l
  BY <1>4, <1>1
<1>5. CASE v = NONE /\ k # 0 /\ Set(l, p, v)[2] = RemoveAt(l, k)
  <2> DEFINE r == RemoveAt(l, k)
  <2>1. /\ r \in Seq(Root) /\ Len(r) = Len(l) - 1
        /\ \A i \in 1..Len(r) : r[i] = IF i < k THEN l[i] ELSE l[i + 1]
    <3>1. k \in 1..Len(l)
      BY <1>5, <1>2, <1>1
    <3>2. r = SubSeq(l, 1, k - 1) \o SubSeq(l, k + 1, Len(l))
      BY DEF RemoveAt
    <3>3. /\ SubSeq(l, 1, k - 1) \in Seq(Root) /\ Len(SubSeq(l, 1, k - 1)) = k - 1
          /\ \A i \in 1..(k - 1) : SubSeq(l, 1, k - 1)[i] = l[i]
      BY <3>1, <1>1, SubSeqProperties
    <3>4. /\ SubSeq(l, k + 1, Len(l)) \in Seq(Root) /\ Len(SubSeq(l, k + 1, Len(l))) = Len(l) - k
          /\ \A i \in 1..(Len(l) - k) : SubSeq(l, k + 1, Len(l))[i] = l[k + i]
      <4>1. k + 1 \in 1..(Len(l) + 1) /\ Len(l) \in k..Len(l)
        BY <3>1, <1>1
      <4>2. SubSeq(l, k + 1, Len(l)) \in Seq(Root)
        BY <4>1, <1>1, SubSeqProperties
      <4>3. Len(SubSeq(l, k + 1, Len(l))) = Len(l) - k
        <5>1. Len(SubSeq(l, k + 1, Len(l))) = IF k + 1 <= Len(l) THEN Len(l) - (k + 1) + 1 ELSE 0
          BY <4>1, <3>1, <1>1, SubSeqProperties
        <5>2. k \in Nat /\ Len(l) \in Nat /\ k <= Len(l)
          BY <3>1, <1>1
        <5> DEFINE n == Len(l)
                   m == Len(SubSeq(l, k + 1, n))
        <5> HIDE DEF n, m
        <5>3. m = (IF k + 1 <= n THEN n - (k + 1) + 1 ELSE 0) /\ k \in Nat /\ n \in Nat /\ k <= n
          BY <5>1, <5>2 DEF n, m
        <5>4. m = n - k
          BY <5>3
        <5> QED BY <5>4 DEF n, m
      <4>4. ASSUME NEW i \in 1..(Len(l) - k) PROVE SubSeq(l, k + 1, Len(l))[i] = l[k + i]
        BY <4>1, <3>1, <1>1, SubSeqProperties
      <4> QED BY <4>2, <4>3, <4>4
    <3> DEFINE f == SubSeq(l, 1, k - 1)
               g == SubSeq(l, k + 1, Len(l))
    <3> HIDE DEF f, g
    <3>5. /\ f \o g \in Seq(Root) /\ Len(f \o g) = Len(f) + Len(g)
          /\ \A i \in 1..(Len(f) + Len(g)) : (f \o g)[i] = IF i <= Len(f) THEN f[i] ELSE g[i - Len(f)]
      BY <3>3, <3>4, ConcatProperties DEF f, g
    <3>6. /\ Len(f) = k - 1 /\ Len(g) = Len(l) - k
          /\ \A i \in 1..(k - 1) : f[i] = l[i]
          /\ \A i \in 1..(Len(l) - k) : g[i] = l[k + i]
      BY <3>3, <3>4 DEF f, g
    <3>7. r = f \o g
      BY <3>2 DEF f, g
    <3> HIDE DEF r
    <3>8. ASSUME NEW i \in 1..Len(r) PROVE r[i] = IF i < k THEN l[i] ELSE l[i + 1]
      <4>1. i \in 1..(Len(l) - 1)
        BY <3>5, <3>6, <3>7, <3>1, <1>1
      <4>2. CASE i < k
        BY <4>2, <4>1, <3>5, <3>6, <3>7, <3>1, <1>1
      <4>3. CASE ~(i < k)
        <5>1. r[i] = g[i - (k - 1)] /\ i - (k - 1) \in 1..(Len(l) - k)
          BY <4>3, <4>1, <3>5, <3>6, <3>7, <3>1, <1>1
        <5>2. k + (i - (k - 1)) = i + 1
          BY <3>1, <4>1, <1>1
        <5> QED BY <5>1, <5>2, <3>6, <4>3
      <4> QED BY <4>2, <4>3
    <3>9. Len(r) = Len(l) - 1
      <4>1. Len(r) = Len(f) + Len(g)
        BY <3>5, <3>7
      <4>2. Len(r) = (k - 1) + (Len(l) - k)
        BY <4>1, <3>6
      <4> QED BY <4>2, <3>1, <1>1
    <3> QED BY <3>5, <3>7, <3>8, <3>9
  <2> HIDE DEF r
  <2>2. k \in 1..Len(l)
    BY <1>5, <1>2, <1>1
  <2>3. Accepted(r)
    <3>1. Len(r) <= AccessMax
      BY <2>1, <1>1, <1>3 DEF Accepted
    <3>2. ASSUME NEW i \in 1..Len(r)
          PROVE  /\ r[i].level \in {READ, WRITE} /\ Normal(r[i].path) /\ Allowed(r[i].path, r[i].level)
                 /\ \A j \in 1..(i - 1) : ~Same(r[i].path, r[j].path)
      <4>1. PICK m \in 1..Len(l) : r[i] = l[m] /\ m = IF i < k THEN i ELSE i + 1
        BY <2>1, <2>2, <1>1
      <4>2. ASSUME NEW j \in 1..(i - 1) PROVE \E n \in 1..(m - 1) : r[j] = l[n]
        <5>1. j \in 1..Len(r) /\ (j < k => j \in 1..(m - 1)) /\ (~(j < k) => j + 1 \in 1..(m - 1))
          BY <4>1, <2>1, <2>2, <1>1
        <5> QED BY <5>1, <2>1
      <4> QED BY <4>1, <4>2, <1>1 DEF Accepted
    <3>3. DOMAIN r = 1..Len(r)
      BY <2>1, LenProperties
    <3> QED BY <3>1, <3>2, <3>3 DEF Accepted
  <2>4. \A i \in 1..Len(r) : \E j \in 1..Len(l) : r[i] = l[j]
    BY <2>1, <2>2, <1>1
  <2>5. ASSUME NEW j \in 1..Len(l) PROVE Same(p, l[j].path) \/ \E i \in 1..Len(r) : r[i] = l[j]
    <3>1. CASE j = k
      BY <3>1, <2>2, <1>2
    <3>2. CASE j < k
      <4>1. j \in 1..Len(r)
        BY <3>2, <2>1, <2>2, <1>1
      <4> QED BY <4>1, <3>2, <2>1
    <3>3. CASE j > k
      <4>1. j - 1 \in 1..Len(r) /\ ~(j - 1 < k) /\ (j - 1) + 1 = j
        BY <3>3, <2>1, <2>2, <1>1
      <4> QED BY <4>1, <2>1
    <3> QED BY <3>1, <3>2, <3>3, <2>2, <1>1
  <2>6. Set(l, p, v)[2] = r
    BY <1>5 DEF r
  <2> QED BY <2>1, <2>3, <2>4, <2>5, <2>6
<1>6. CASE /\ v # NONE /\ Normal(p) /\ Allowed(p, v) /\ k # 0
           /\ Set(l, p, v)[2] = [l EXCEPT ![k].level = v]
  <2> DEFINE r == [l EXCEPT ![k].level = v]
  <2>1. k \in 1..Len(l)
    BY <1>6, <1>2, <1>1
  <2>2. [l[k] EXCEPT !.level = v] \in Root /\ [l[k] EXCEPT !.level = v].path = l[k].path
        /\ [l[k] EXCEPT !.level = v].level = v
    BY <2>1, <1>1, <1>6 DEF Root, Levels
  <2>3. r \in Seq(Root) /\ Len(r) = Len(l)
    BY <2>1, <2>2, ExceptSeq
  <2>4. \A i \in 1..Len(l) : r[i] = IF i = k THEN [l[k] EXCEPT !.level = v] ELSE l[i]
    BY <1>1
  <2> HIDE DEF r
  <2>5. \A i \in 1..Len(l) : r[i].path = l[i].path
    BY <2>2, <2>4
  <2>6. Allowed(l[k].path, v)
    <3>1. l[k].path \in Seq(Name) /\ Same(p, l[k].path)
      BY <1>2, <1>1, <1>6, <2>1 DEF Root
    <3> QED BY <3>1, <1>6, AllowedAlike
  <2>7. \A i \in 1..Len(l) : r[i].level \in {READ, WRITE} /\ Allowed(r[i].path, r[i].level)
    <3>1. \A i \in 1..Len(l) : l[i].level \in {READ, WRITE} /\ Allowed(l[i].path, l[i].level)
      BY <1>1 DEF Accepted
    <3> SUFFICES ASSUME NEW i \in 1..Len(l) PROVE r[i].level \in {READ, WRITE} /\ Allowed(r[i].path, r[i].level)
      OBVIOUS
    <3>2. CASE i = k
      <4>1. r[i].path = l[k].path /\ r[i].level = v
        BY <3>2, <2>2, <2>4
      <4> QED BY <4>1, <2>6, <1>6 DEF Levels
    <3>3. CASE i # k
      <4>1. r[i] = l[i]
        BY <3>3, <2>4
      <4> QED BY <4>1, <3>1
    <3> QED BY <3>2, <3>3
  <2>8. DOMAIN r = 1..Len(l)
    BY <2>3, LenProperties
  <2>9. \A i \in 1..Len(l) : \A j \in 1..(i - 1) : j \in 1..Len(l)
    BY <1>1
  <2>10. Accepted(r)
    BY <2>3, <2>5, <2>7, <2>8, <2>9, <1>1 DEF Accepted
  <2>11. Same(p, r[k].path) /\ Same(p, l[k].path)
    BY <2>1, <2>5, <1>2
  <2>12. Set(l, p, v)[2] = r
    BY <1>6 DEF r
  <2> QED BY <2>3, <2>4, <2>10, <2>11, <2>12
<1>7. CASE /\ v # NONE /\ Normal(p) /\ Allowed(p, v) /\ k = 0 /\ Len(l) < AccessMax
           /\ Set(l, p, v)[2] = Append(l, new)
  <2> DEFINE r == Append(l, new)
  <2>1. new \in Root /\ new.path = p /\ new.level = v /\ v \in {READ, WRITE}
    BY <1>7 DEF Root, Levels
  <2> HIDE DEF new
  <2>2. /\ r \in Seq(Root) /\ Len(r) = Len(l) + 1
        /\ \A i \in 1..Len(l) : r[i] = l[i]
        /\ r[Len(l) + 1] = new
    BY <2>1, <1>1, AppendProperties
  <2> HIDE DEF r
  <2>3. DOMAIN r = 1..(Len(l) + 1)
    BY <2>2, LenProperties
  <2>4. \A j \in 1..Len(l) : ~Same(p, l[j].path)
    BY <1>7, <1>2
  <2>5. ASSUME NEW i \in 1..(Len(l) + 1)
        PROVE  /\ r[i].level \in {READ, WRITE} /\ Normal(r[i].path) /\ Allowed(r[i].path, r[i].level)
               /\ \A j \in 1..(i - 1) : ~Same(r[i].path, r[j].path)
    <3>1. CASE i = Len(l) + 1
      <4>1. \A j \in 1..(i - 1) : r[j] = l[j] /\ j \in 1..Len(l)
        BY <3>1, <2>2, <1>1
      <4> QED BY <4>1, <3>1, <2>1, <2>2, <2>4, <1>7
    <3>2. CASE i # Len(l) + 1
      <4>1. i \in 1..Len(l) /\ \A j \in 1..(i - 1) : j \in 1..Len(l)
        BY <3>2, <1>1
      <4> QED BY <4>1, <2>2, <1>1 DEF Accepted
    <3> QED BY <3>1, <3>2
  <2>6. Accepted(r)
    BY <2>2, <2>3, <2>5, <1>7, <1>1, <1>3 DEF Accepted
  <2>7. Same(p, r[Len(l) + 1].path)
    BY <2>1, <2>2, InsideItself DEF Same
  <2>8. \A i \in 1..Len(r) : i \in 1..Len(l) \/ i = Len(l) + 1
    BY <2>2, <1>1
  <2>9. \A j \in 1..Len(l) : j \in 1..Len(r)
    BY <2>2, <1>1
  <2>10. Set(l, p, v)[2] = r
    BY <1>7 DEF r
  <2> QED BY <2>2, <2>6, <2>7, <2>8, <2>9, <2>10
<1>8. \/ Set(l, p, v)[2] = l
      \/ v = NONE /\ k # 0 /\ Set(l, p, v)[2] = RemoveAt(l, k)
      \/ /\ v # NONE /\ Normal(p) /\ Allowed(p, v) /\ k # 0
         /\ Set(l, p, v)[2] = [l EXCEPT ![k].level = v]
      \/ /\ v # NONE /\ Normal(p) /\ Allowed(p, v) /\ k = 0 /\ Len(l) < AccessMax
         /\ Set(l, p, v)[2] = Append(l, new)
  <2>1. CASE ~Normal(p) \/ ~Allowed(p, v)
    BY <2>1 DEF Set
  <2>2. CASE Normal(p) /\ Allowed(p, v) /\ v = NONE
    BY <2>2 DEF Set, k
  <2>3. CASE Normal(p) /\ Allowed(p, v) /\ v # NONE /\ k # 0
    BY <2>3 DEF Set, k
  <2>4. CASE Normal(p) /\ Allowed(p, v) /\ v # NONE /\ k = 0
    <3>1. CASE Len(l) >= AccessMax
      BY <3>1, <2>4 DEF Set, k
    <3>2. CASE ~(Len(l) >= AccessMax)
      <4>1. Set(l, p, v) = <<TRUE, Append(l, new)>>
        BY <3>2, <2>4 DEF Set, k
      <4>2. Len(l) < AccessMax
        BY <3>2, <1>1, <1>3
      <4> QED BY <4>1, <4>2, <2>4
    <3> QED BY <3>1, <3>2
  <2> QED BY <2>1, <2>2, <2>3, <2>4
<1> QED BY <1>4, <1>5, <1>6, <1>7, <1>8
-----------------------------------------------------------------------------
(***************************************************************************)
(* The policy of a list.                                                   *)
(***************************************************************************)
Workplace == [path |-> Workspace, level |-> WRITE]

\* The list is shorter than a policy may be, so that no entry is left out of it.
LEMMA NothingLeftOut ==
  ASSUME NEW l \in Seq(Root), Accepted(l)
  PROVE  ToPolicy(l) = << Workplace >> \o l
<1>1. AccessMax \in Nat /\ PolicyMax \in Nat /\ AccessMax < PolicyMax
  BY AccessAssumption, PolicyAssumption
<1>2. Len(l) \in Nat /\ Len(l) <= AccessMax
  BY LenProperties DEF Accepted
<1> DEFINE w == << Workplace >>
           e == w \o l
<1>3. Workplace \in Root
  <2>1. Workspace \in Seq(Name)
    BY PolicyAssumption
  <2> QED BY <2>1 DEF Workplace, Root
<1>4. w \in Seq(Root) /\ Len(w) = 1
  BY <1>3
<1>5. e \in Seq(Root) /\ Len(e) = 1 + Len(l)
  BY <1>4, ConcatProperties
<1>6. Len(e) <= PolicyMax
  BY <1>1, <1>2, <1>5
<1>7. Listed(e) = SubSeq(e, 1, Len(e))
  BY <1>1, <1>5, <1>6, LenProperties DEF Listed
<1>8. SubSeq(e, 1, Len(e)) = e
  BY <1>5, SubSeqFull
<1> QED BY <1>7, <1>8 DEF ToPolicy, Workplace

\* A policy opens to a level just what the list gives it.
LEMMA PolicyGives ==
  ASSUME NEW l \in Seq(Root), Accepted(l), NEW p \in Seq(Name), NEW v \in {READ, WRITE}
  PROVE  InAny(ToPolicy(l), v, p) <=> Given(l, p, 0, v)
<1> DEFINE e == << Workplace >> \o l
<1>1. ToPolicy(l) = e
  BY NothingLeftOut
<1>2. Len(l) \in Nat /\ DOMAIN l = 1..Len(l)
  BY LenProperties
<1>3. /\ DOMAIN e = 1..(1 + Len(l))
      /\ e[1] = Workplace
      /\ \A i \in 1..Len(l) : e[i + 1] = l[i]
  BY <1>2
<1>4. Workplace.path = Workspace /\ Workplace.level = WRITE
  BY DEF Workplace
<1>5. WRITE >= v
  BY DEF READ, WRITE
<1> HIDE DEF e
<1>6. ASSUME InAny(e, v, p) PROVE Given(l, p, 0, v)
  <2>1. PICK i \in 1..(1 + Len(l)) : e[i].level >= v /\ Inside(p, e[i].path)
    BY <1>6, <1>3 DEF InAny
  <2>2. CASE i = 1
    BY <2>1, <2>2, <1>3, <1>4 DEF Given
  <2>3. CASE i # 1
    <3>1. i - 1 \in 1..Len(l) /\ (i - 1) + 1 = i /\ i - 1 # 0
      BY <2>3, <1>2
    <3>2. l[i - 1] = e[i]
      BY <3>1, <1>3
    <3> QED BY <3>1, <3>2, <2>1, <1>2 DEF Given
  <2> QED BY <2>2, <2>3
<1>7. ASSUME Given(l, p, 0, v) PROVE InAny(e, v, p)
  <2>1. CASE Inside(p, Workspace)
    <3>1. 1 \in DOMAIN e
      BY <1>2, <1>3
    <3> QED BY <3>1, <2>1, <1>3, <1>4, <1>5 DEF InAny
  <2>2. CASE \E i \in DOMAIN l : l[i].level >= v /\ Inside(p, l[i].path)
    <3>1. PICK i \in 1..Len(l) : l[i].level >= v /\ Inside(p, l[i].path)
      BY <2>2, <1>2
    <3>2. i + 1 \in DOMAIN e /\ e[i + 1] = l[i]
      BY <1>2, <1>3
    <3> QED BY <3>1, <3>2 DEF InAny
  <2> QED BY <1>7, <2>1, <2>2 DEF Given
<1> QED BY <1>1, <1>6, <1>7

\* What gives a level to write gives one to read.
LEMMA WritersRead ==
  ASSUME NEW l \in Seq(Root), NEW p, Given(l, p, 0, WRITE)
  PROVE  Given(l, p, 0, READ)
<1>1. \A i \in DOMAIN l : l[i].level \in {1, 2}
  <2>1. \A i \in DOMAIN l : l[i] \in Root
    BY ElementOfSeq, LenProperties
  <2> QED BY <2>1 DEF Root, READ, WRITE
<1> QED BY <1>1 DEF Given, READ, WRITE

LEMMA RealLevel ==
  ASSUME IInv
  PROVE  LevelIsReal
<1> SUFFICES ASSUME NEW s \in Slot, NEW p \in Path, Normal(p)
             PROVE  Rights(agents[s], p) =
                      {v \in {READ, WRITE} : v <= Level(list, p) /\ (v = WRITE => mode # "READ_ONLY")}
  BY DEF LevelIsReal
<1>1. p \in Seq(Name) /\ list \in Seq(Root) /\ Accepted(list)
  BY AccessAssumption DEF IInv, TypeOK
<1>2. agents[s].policy = ToPolicy(list) /\ agents[s].mode = mode
  BY DEF IInv, InForce, Copy
<1>3. /\ InAny(ToPolicy(list), READ, p) <=> Given(list, p, 0, READ)
      /\ InAny(ToPolicy(list), WRITE, p) <=> Given(list, p, 0, WRITE)
  BY <1>1, PolicyGives
<1>4. Given(list, p, 0, WRITE) => Given(list, p, 0, READ)
  BY <1>1, WritersRead
<1>5. NeverReadable(p) => WriteProtected(p)
  BY <1>1, UnreadableIsProtected
<1> DEFINE gr == Given(list, p, 0, READ)
           gw == Given(list, p, 0, WRITE)
           nr == NeverReadable(p)
           wp == WriteProtected(p)
<1>6. Level(list, p) = IF nr THEN 0 ELSE IF gw THEN (IF wp THEN 1 ELSE 2) ELSE IF gr THEN 1 ELSE 0
  BY <1>4 DEF Level, LevelFrom, Allowed, NONE, READ, WRITE
<1>7. Check(agents[s].policy, agents[s].mode, READ, p) = "OK" <=> ~nr /\ gr
  BY <1>2, <1>3 DEF Check, READ, WRITE
<1>8. Check(agents[s].policy, agents[s].mode, WRITE, p) = "OK" <=> mode # "READ_ONLY" /\ ~wp /\ gw
  BY <1>2, <1>3 DEF Check
<1> HIDE DEF gr, gw, nr, wp
<1>9. 1 <= Level(list, p) <=> ~nr /\ gr
  BY <1>4, <1>6 DEF gr, gw
<1>10. 2 <= Level(list, p) <=> ~wp /\ gw
  BY <1>5, <1>6 DEF nr, wp
<1> QED BY <1>7, <1>8, <1>9, <1>10 DEF Rights, READ, WRITE

\* Two folders a path lies in lie one in the other.
LEMMA OneInTheOther ==
  ASSUME NEW p \in Seq(Name), NEW q \in Seq(Name), NEW r \in Seq(Name), Inside(r, p), Inside(r, q), ~Inside(p, q)
  PROVE  Inside(q, p)
<1>1. Len(p) \in Nat /\ Len(q) \in Nat /\ Len(r) \in Nat
  BY LenProperties
<1>2. /\ Len(p) <= Len(r) /\ \A i \in 1..Len(p) : Fold[r[i]] = Fold[p[i]]
      /\ Len(q) <= Len(r) /\ \A i \in 1..Len(q) : Fold[r[i]] = Fold[q[i]]
  BY DEF Inside
<1>3. ~(Len(q) <= Len(p))
  <2> SUFFICES ASSUME Len(q) <= Len(p) PROVE FALSE
    OBVIOUS
  <2>1. \A i \in 1..Len(q) : i \in 1..Len(p)
    BY <1>1
  <2> QED BY <1>2, <2>1 DEF Inside
<1>4. Len(p) <= Len(q) /\ \A i \in 1..Len(p) : i \in 1..Len(q)
  BY <1>1, <1>3
<1> QED BY <1>2, <1>4 DEF Inside

\* The roots of the policy in force may all be read.
LEMMA RootsReadable ==
  ASSUME NEW l \in Seq(Root), Accepted(l), NEW i \in DOMAIN ToPolicy(l)
  PROVE  /\ ToPolicy(l)[i].path \in Seq(Name) /\ ~NeverReadable(ToPolicy(l)[i].path)
         /\ ToPolicy(l)[i].level >= READ
<1> DEFINE e == << Workplace >> \o l
<1>1. ToPolicy(l) = e
  BY NothingLeftOut
<1>2. Len(l) \in Nat /\ DOMAIN l = 1..Len(l)
  BY LenProperties
<1>3. /\ DOMAIN e = 1..(1 + Len(l))
      /\ e[1] = Workplace
      /\ \A j \in 1..Len(l) : e[j + 1] = l[j]
  BY <1>2
<1> HIDE DEF e
<1>4. CASE i = 1
  <2>1. e[i].path = Workspace /\ e[i].level = WRITE
    BY <1>3, <1>4 DEF Workplace
  <2> QED BY <1>1, <2>1, AccessAssumption, PolicyAssumption DEF READ, WRITE
<1>5. CASE i # 1
  <2>1. i - 1 \in 1..Len(l) /\ (i - 1) + 1 = i
    BY <1>1, <1>2, <1>3, <1>5
  <2>2. e[i] = l[i - 1] /\ l[i - 1] \in Root
    BY <1>3, <2>1, ElementOfSeq
  <2>3. l[i - 1].level \in {READ, WRITE} /\ Allowed(l[i - 1].path, l[i - 1].level)
    BY <1>2, <2>1 DEF Accepted
  <2> QED BY <1>1, <2>2, <2>3 DEF Root, Allowed, NONE, READ, WRITE
<1> QED BY <1>4, <1>5

\* The way to a folder that may be read is shown; where it is shown, there is one.
LEMMA LeadThere ==
  ASSUME IInv, Path = Seq(Name)
  PROVE  ListingsLeadThere
<1> SUFFICES ASSUME NEW s \in Slot, NEW p \in Path
             PROVE  LET a == agents[s]
                        something == \E q \in Path : Inside(q, p) /\ ~NeverReadable(q) /\ InAny(a.policy, READ, q)
                    IN  /\ ChildVisible(a.policy, p) <=> something
                        /\ Normal(p) => (MayList(a.policy, a.mode, p) <=> something)
  BY DEF ListingsLeadThere
<1> DEFINE a == agents[s]
           pol == ToPolicy(list)
           something == \E q \in Path : Inside(q, p) /\ ~NeverReadable(q) /\ InAny(pol, READ, q)
<1>1. a.policy = pol /\ list \in Seq(Root) /\ Accepted(list) /\ p \in Seq(Name)
  BY DEF IInv, TypeOK, InForce, Copy
<1>2. \A i \in DOMAIN pol : pol[i].path \in Seq(Name) /\ ~NeverReadable(pol[i].path) /\ pol[i].level >= READ
  BY <1>1, RootsReadable
<1> HIDE DEF pol
<1>3. ASSUME ChildVisible(pol, p) PROVE something
  <2>1. CASE InAny(pol, READ, p)
    BY <1>1, <1>3, <2>1, InsideItself DEF ChildVisible
  <2>2. CASE Traversable(pol, p)
    <3>1. PICK i \in DOMAIN pol : Inside(pol[i].path, p)
      BY <2>2 DEF Traversable
    <3>2. InAny(pol, READ, pol[i].path)
      BY <1>2, <3>1, InsideItself DEF InAny
    <3> QED BY <1>2, <3>1, <3>2
  <2> QED BY <1>3, <2>1, <2>2 DEF ChildVisible
<1>4. ASSUME something PROVE ChildVisible(pol, p)
  <2>1. PICK q \in Seq(Name) : Inside(q, p) /\ ~NeverReadable(q) /\ InAny(pol, READ, q)
    BY <1>4
  <2>2. PICK i \in DOMAIN pol : Inside(q, pol[i].path)
    BY <2>1 DEF InAny
  <2>3. ~NeverReadable(p)
    <3> SUFFICES ASSUME NEW z \in NeverRead, Inside(p, z) PROVE FALSE
      BY DEF NeverReadable
    <3>1. Inside(q, z)
      BY <1>1, <2>1, InsideTransitive, PolicyAssumption
    <3> QED BY <2>1, <3>1 DEF NeverReadable
  <2>4. CASE Inside(p, pol[i].path)
    <3>1. InAny(pol, READ, p)
      BY <1>2, <2>2, <2>4 DEF InAny
    <3> QED BY <2>3, <3>1 DEF ChildVisible
  <2>5. CASE ~Inside(p, pol[i].path)
    <3>1. Inside(pol[i].path, p)
      BY <1>1, <1>2, <2>1, <2>2, <2>5, OneInTheOther
    <3> QED BY <2>2, <2>3, <2>5, <3>1 DEF ChildVisible, Traversable
  <2> QED BY <2>4, <2>5
<1>5. Normal(p) => (MayList(pol, a.mode, p) <=> ChildVisible(pol, p))
  BY DEF MayList, Check, ChildVisible, Traversable, READ, WRITE
<1> QED BY <1>1, <1>3, <1>4, <1>5
-----------------------------------------------------------------------------
(***************************************************************************)
(* The steps.                                                              *)
(***************************************************************************)
LEMMA RowPathType ==
  ASSUME TypeOK
  PROVE  RowPath(menu) \in Seq(Name)
<1>1. menu \in Menus /\ Order \in Seq(Name)
  BY AccessAssumption DEF TypeOK
<1>2. CASE menu.sel = 0
  BY <1>1, <1>2 DEF RowPath, Menus
<1>3. CASE menu.sel # 0
  <2>1. Order[menu.sel] \in Name /\ menu.path \in Seq(Name)
    BY <1>1, <1>3, ElementOfSeq, LenProperties DEF Menus
  <2> QED BY <2>1, <1>3, AppendProperties DEF RowPath
<1> QED BY <1>2, <1>3

LEMMA ShownType ==
  ASSUME NEW p \in Seq(Name), NEW name
  PROVE  Shown(p, name) \in Menus
<1> DEFINE at == {i \in Rows(p) : \E n \in name : Fold[Order[i]] = Fold[n]}
           sel == IF at = {} THEN 0 ELSE CHOOSE i \in at : TRUE
<1>1. Rows(p) \subseteq DOMAIN Order
  BY DEF Rows
<1>2. at # {} => (CHOOSE i \in at : TRUE) \in at
  OBVIOUS
<1>3. sel \in {0} \cup DOMAIN Order
  BY <1>1, <1>2
<1>4. Shown(p, name) = [open |-> TRUE, path |-> p, rows |-> Rows(p), sel |-> sel]
  BY DEF Shown
<1> HIDE DEF sel
<1> QED BY <1>1, <1>3, <1>4 DEF Menus

LEMMA EmptyListType == <<>> \in Seq(Root) /\ Accepted(<<>>)
BY AccessAssumption DEF Accepted

LEMMA ParseType ==
  ASSUME TypeOK
  PROVE  Parse(file) \in Seq(Root) /\ Accepted(Parse(file))
<1>1. CASE file = Damaged
  <2>1. Damaged[1].level \notin {READ, WRITE} /\ 1 \in DOMAIN Damaged
    BY DEF Damaged, NONE, READ, WRITE
  <2>2. ~Accepted(Damaged)
    BY <2>1 DEF Accepted
  <2> QED BY <1>1, <2>2, EmptyListType DEF Parse
<1>2. CASE file \in Seq(Root)
  BY <1>2, EmptyListType DEF Parse
<1> QED BY <1>1, <1>2 DEF TypeOK

LEMMA MenuType ==
  ASSUME TypeOK, Open \/ Move \/ Enter \/ Back \/ Close \/ Boot
  PROVE  menu' \in Menus
<1>1. menu \in Menus
  BY DEF TypeOK
<1>2. Closed \in Menus
  BY DEF Closed, Menus
<1>3. CASE Open
  <2>1. <<>> \in Seq(Name)
    OBVIOUS
  <2> QED BY <2>1, <1>3, ShownType DEF Open
<1>4. CASE Move
  <2>1. PICK i \in menu.rows \cup {0} : menu' = [menu EXCEPT !.sel = i]
    BY <1>4 DEF Move
  <2>2. i \in {0} \cup DOMAIN Order
    BY <1>1 DEF Menus
  <2> QED BY <1>1, <2>1, <2>2 DEF Menus
<1>5. CASE Enter
  BY <1>5, RowPathType, ShownType DEF Enter
<1>6. CASE Back
  <2>1. CASE menu.path = <<>>
    BY <1>2, <1>6, <2>1 DEF Back
  <2>2. CASE menu.path # <<>>
    <3>1. menu.path \in Seq(Name)
      BY <1>1 DEF Menus
    <3>2. Front(menu.path) \in Seq(Name)
      <4>1. Len(menu.path) \in Nat /\ \A i \in 1..(Len(menu.path) - 1) : menu.path[i] \in Name
        BY <3>1, LenProperties, ElementOfSeq
      <4> QED BY <4>1, SubSeqProperties DEF Front
    <3> QED BY <1>6, <2>2, <3>2, ShownType DEF Back
  <2> QED BY <2>1, <2>2
<1>7. CASE Close \/ Boot
  BY <1>2, <1>7 DEF Close, Boot
<1> QED BY <1>3, <1>4, <1>5, <1>6, <1>7

\* An edit gives the menu's own list, whole, to the server and to every agent.
LEMMA EditKeeps ==
  ASSUME IInv, CycleSelected
  PROVE  IInv'
<1> DEFINE p == RowPath(menu)
           new == Set(list, p, NextLevel(list, p))[2]
<1>1. p \in Seq(Name) /\ list \in Seq(Root) /\ Accepted(list)
  BY RowPathType DEF IInv, TypeOK
<1>2. NextLevel(list, p) \in Levels
  BY NextLevelType
<1>3. new \in Seq(Root) /\ Accepted(new)
  BY <1>1, <1>2, SetType
<1>4. Changed(new) /\ UNCHANGED <<mode, menu>>
  BY DEF CycleSelected
<1> HIDE DEF new
<1>5. list' = new /\ SetPolicy(new) /\ (file' = new \/ UNCHANGED file)
  BY <1>4 DEF Changed
<1>6. policy' = ToPolicy(list') /\ agents' = [s \in Slot |-> Copy(policy', mode')]
  <2>1. agents = [s \in Slot |-> Copy(policy, mode)]
    BY DEF IInv, InForce
  <2>2. \A s \in Slot : [agents[s] EXCEPT !.policy = ToPolicy(new)] = Copy(ToPolicy(new), mode)
    BY <2>1 DEF Copy
  <2> QED BY <1>4, <1>5, <2>2 DEF SetPolicy
<1>7. TypeOK'
  BY <1>3, <1>4, <1>5 DEF IInv, TypeOK
<1>8. Accepted(list')
  BY <1>3, <1>5
<1>9. SavedIsAccepted'
  BY <1>3, <1>5 DEF IInv, SavedIsAccepted
<1> QED BY <1>6, <1>7, <1>8, <1>9 DEF IInv, InForce, Accepted

LEMMA InitInv ==
  ASSUME Init
  PROVE  IInv
<1>1. TypeOK
  <2>1. Closed \in Menus
    BY DEF Closed, Menus
  <2> QED BY <2>1, EmptyListType DEF Init, TypeOK, Mode
<1> QED BY <1>1, EmptyListType DEF Init, IInv, InForce, SavedIsAccepted

LEMMA NextInv ==
  ASSUME IInv, [Next]_vars
  PROVE  IInv'
<1> USE DEF IInv
<1>1. ASSUME NEW s \in Slot, Connect(s) PROVE IInv'
  <2>1. agents' = [k \in Slot |-> Copy(policy, mode)]
    BY <1>1 DEF Connect, InForce
  <2> QED BY <1>1, <2>1 DEF Connect, TypeOK, InForce, SavedIsAccepted, Accepted
<1>2. CASE SetMode
  <2>1. agents' = [s \in Slot |-> Copy(policy, mode')]
    <3>1. \A s \in Slot : [agents[s] EXCEPT !.mode = mode'] = Copy(policy, mode')
      BY DEF InForce, Copy
    <3> QED BY <1>2, <3>1 DEF SetMode
  <2> QED BY <1>2, <2>1 DEF SetMode, TypeOK, InForce, SavedIsAccepted, Accepted, Mode
<1>3. CASE Boot
  <2>1. TypeOK'
    BY <1>3, ParseType, MenuType DEF Boot, TypeOK, Mode
  <2>2. InForce'
    BY <1>3 DEF Boot, InForce
  <2>3. list' = Parse(file) /\ Accepted(Parse(file)) /\ file' = file
    BY <1>3, ParseType DEF Boot
  <2> QED BY <2>1, <2>2, <2>3 DEF SavedIsAccepted, Accepted
<1>4. CASE Damage
  BY <1>4 DEF Damage, TypeOK, InForce, SavedIsAccepted, Accepted
<1>5. ASSUME NEW d \in Loose, CardChanges(d) PROVE IInv'
  BY <1>5 DEF CardChanges, TypeOK, InForce, SavedIsAccepted, Accepted
<1>6. CASE Open \/ Move \/ Enter \/ Back \/ Close
  <2>1. menu' \in Menus
    BY <1>6, MenuType
  <2>2. UNCHANGED <<list, file, policy, agents, mode>>
    BY <1>6 DEF Open, Move, Enter, Back, Close
  <2> QED BY <2>1, <2>2 DEF TypeOK, InForce, SavedIsAccepted, Accepted
<1>7. CASE CycleSelected
  BY <1>7, EditKeeps
<1>8. CASE UNCHANGED vars
  BY <1>8 DEF vars, TypeOK, InForce, SavedIsAccepted, Accepted
<1> QED BY <1>1, <1>2, <1>3, <1>4, <1>5, <1>6, <1>7, <1>8 DEF Next

\* The entries an edit touches are of the chosen folder; what lies outside it
\* lies in none of them.
LEMMA OnlyThere ==
  ASSUME IInv, CycleSelected, NEW p \in Path, ~Inside(p, RowPath(menu))
  PROVE  Level(list', p) = Level(list, p)
<1> DEFINE q == RowPath(menu)
           new == Set(list, q, NextLevel(list, q))[2]
<1>1. q \in Seq(Name) /\ list \in Seq(Root) /\ Accepted(list) /\ p \in Seq(Name)
  BY RowPathType, AccessAssumption DEF IInv, TypeOK
<1>2. NextLevel(list, q) \in Levels
  BY NextLevelType
<1>3. /\ new \in Seq(Root)
      /\ \A i \in 1..Len(new) : Same(q, new[i].path) \/ \E j \in 1..Len(list) : new[i] = list[j]
      /\ \A j \in 1..Len(list) : Same(q, list[j].path) \/ \E i \in 1..Len(new) : new[i] = list[j]
  BY <1>1, <1>2, SetType
<1>4. list' = new
  BY DEF CycleSelected, Changed
<1> HIDE DEF new
<1>5. ASSUME NEW r \in Seq(Name), Inside(p, r) PROVE ~Same(q, r)
  BY <1>1, <1>5, InsideTransitive DEF Same
<1>6. /\ \A i \in 1..Len(new) : new[i].path \in Seq(Name)
      /\ \A j \in 1..Len(list) : list[j].path \in Seq(Name)
  <2>1. /\ \A i \in 1..Len(new) : new[i] \in Root
        /\ \A j \in 1..Len(list) : list[j] \in Root
    BY <1>1, <1>3, ElementOfSeq
  <2> QED BY <2>1 DEF Root
<1>7. DOMAIN new = 1..Len(new) /\ DOMAIN list = 1..Len(list)
  BY <1>1, <1>3, LenProperties
<1>8. \A i \in DOMAIN new : i # 0
  BY <1>7
<1>9. \A j \in DOMAIN list : j # 0
  BY <1>7
<1>10. ASSUME NEW v PROVE Given(new, p, 0, v) <=> Given(list, p, 0, v)
  <2>1. ASSUME NEW i \in DOMAIN new, new[i].level >= v, Inside(p, new[i].path)
        PROVE  \E j \in DOMAIN list : list[j].level >= v /\ Inside(p, list[j].path)
    BY <2>1, <1>3, <1>5, <1>6, <1>7
  <2>2. ASSUME NEW j \in DOMAIN list, list[j].level >= v, Inside(p, list[j].path)
        PROVE  \E i \in DOMAIN new : new[i].level >= v /\ Inside(p, new[i].path)
    BY <2>2, <1>3, <1>5, <1>6, <1>7
  <2> QED BY <2>1, <2>2, <1>8, <1>9 DEF Given
<1>11. LevelFrom(new, p, 0) = LevelFrom(list, p, 0)
  BY <1>10 DEF LevelFrom
<1> QED BY <1>4, <1>11 DEF Level
-----------------------------------------------------------------------------
\* The invariant holds of every card and every sequence of edits, connections,
\* changes of the mode, failed saves and restarts.
THEOREM AccessInvariant == Spec => []IInv
<1>1. Init => IInv
  BY InitInv
<1>2. IInv /\ [Next]_vars => IInv'
  BY NextInv
<1> QED BY <1>1, <1>2, PTL DEF Spec

\* The level the menu goes by is the one every agent grants.
THEOREM LevelsAreReal == Spec => []LevelIsReal
<1>1. IInv => LevelIsReal
  BY RealLevel
<1> QED BY <1>1, AccessInvariant, PTL

\* What a client is shown leads to every folder it may read and to no other, of
\* all paths there are: the roots of the policy are never in a zone that is not
\* read, so that none of the folders above them leads nowhere.
THEOREM ListingsLeadToAll ==
  ASSUME Path = Seq(Name)
  PROVE  Spec => []ListingsLeadThere
<1>1. IInv => ListingsLeadThere
  BY LeadThere
<1> QED BY <1>1, AccessInvariant, PTL

\* Every list the menu saved is accepted whole by the next start of the agent.
THEOREM SavedListsAreAccepted == Spec => []SavedIsAccepted
<1>1. IInv => SavedIsAccepted
  BY DEF IInv
<1> QED BY <1>1, AccessInvariant, PTL

\* Y changes nothing outside the chosen folder.
THEOREM EditsStayInside == Spec => OnlyThatFolder
<1>1. IInv /\ [Next]_vars =>
        [CycleSelected =>
           \A p \in Path : ~Inside(p, RowPath(menu)) => Level(list', p) = Level(list, p)]_vars
  BY OnlyThere
<1> QED BY <1>1, AccessInvariant, PTL DEF Spec, OnlyThatFolder
=============================================================================
