------------------------------ MODULE KeyStore ------------------------------
(***************************************************************************)
(* The key store of the console (ndp_auth.c): the pairings it remembers,   *)
(* oldest first, each with the name the client gave itself.  A pairing key *)
(* is an abstract value: its 4-byte identifier and its 32 bytes are one    *)
(* identity here (a collision of truncated hashes is not modelled).        *)
(***************************************************************************)
EXTENDS Naturals, Sequences, SequencesExt

CONSTANTS
  Key,        \* pairing keys
  Label,      \* names clients give themselves
  MaxKeys     \* NDP_MAX_KEYS (8 in the code)

ASSUME MaxKeysAssumption == MaxKeys \in Nat \ {0}

Pairing == [key : Key, label : Label]

Store == { ks \in Seq(Pairing) : Len(ks) <= MaxKeys }

HasKey(ks, k) == \E i \in DOMAIN ks : ks[i].key = k

HasLabel(ks, l) == \E i \in DOMAIN ks : ks[i].label = l

\* The entry a new pairing named l takes over: the first one of that name.
SlotOf(ks, l) ==
  CHOOSE i \in DOMAIN ks :
    /\ ks[i].label = l
    /\ \A j \in DOMAIN ks : ks[j].label = l => i <= j

\* ndp_keystore_add never fails: a key already present is kept as it is, the
\* same name is replaced in place, and a full store drops its oldest entry.
Add(ks, k, l) ==
  LET entry == [key |-> k, label |-> l]
      room  == IF Len(ks) >= MaxKeys THEN Tail(ks) ELSE ks
  IN  IF HasKey(ks, k) THEN ks
      ELSE IF HasLabel(ks, l) THEN [ks EXCEPT ![SlotOf(ks, l)] = entry]
      ELSE Append(room, entry)

\* ndp_keystore_remove forgets the first entry with this key.
Forget(ks, k) ==
  IF HasKey(ks, k)
  THEN RemoveAt(ks, CHOOSE i \in DOMAIN ks : /\ ks[i].key = k
                                             /\ \A j \in DOMAIN ks : ks[j].key = k => i <= j)
  ELSE ks

\* A sound store never holds a key twice, nor a name twice.
Distinct(ks) ==
  \A i, j \in DOMAIN ks : i # j => /\ ks[i].key # ks[j].key
                                   /\ ks[i].label # ks[j].label
=============================================================================
