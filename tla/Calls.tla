-------------------------------- MODULE Calls --------------------------------
(***************************************************************************)
(* What the bridge library promises of the calls on one connection         *)
(* (client.ts): they are made one after the other, each is carried out at  *)
(* most once and in their order, what a call returns or throws is the      *)
(* agent's answer to that very call, and it fails for no other reason than *)
(* one of its own (it was late, its source or its receiver gave up) or one *)
(* that breaks the connection for good.  Every call ends.                  *)
(***************************************************************************)
EXTENDS Integers, Sequences

CONSTANT MaxCalls     \* bound: calls made

VARIABLES
  result,     \* what each call came to
  ran,        \* calls carried out
  refused,    \* calls the agent turned down
  excused,    \* calls that had a reason of their own to fail
  broken      \* every call has one

vars == <<result, ran, refused, excused, broken>>

Last == Len(result)
Pending == Last > 0 /\ result[Last] = "none"
Open == (1..Last) \ (ran \cup refused)
InOrder(i) == \A j \in ran \cup refused : j < i

Init == result = <<>> /\ ran = {} /\ refused = {} /\ excused = {} /\ broken = FALSE

Make ==
  /\ ~Pending /\ Last < MaxCalls
  /\ result' = Append(result, "none")
  /\ UNCHANGED <<ran, refused, excused, broken>>

\* It may be carried out after it failed: its answer was late.
Run(i) == i \in Open /\ InOrder(i) /\ ran' = ran \cup {i} /\ UNCHANGED <<result, refused, excused, broken>>
Refuse(i) == i \in Open /\ InOrder(i) /\ refused' = refused \cup {i} /\ UNCHANGED <<result, ran, excused, broken>>

End(value) == Pending /\ result' = [result EXCEPT ![Last] = value] /\ UNCHANGED <<ran, refused>>
Return == Last \in ran /\ End("ok") /\ UNCHANGED <<excused, broken>>
Reject == Last \in refused /\ End("refused") /\ UNCHANGED <<excused, broken>>
Fail ==
  /\ End("failed")
  /\ excused' \in {excused, excused \cup {Last}} /\ broken' \in {broken, TRUE}
  /\ Last \in excused' \/ broken'

Break == broken' = TRUE /\ UNCHANGED <<result, ran, refused, excused>>

Next == Make \/ (\E i \in 1..MaxCalls : Run(i) \/ Refuse(i)) \/ Return \/ Reject \/ Fail \/ Break

Spec == Init /\ [][Next]_vars /\ WF_vars(Return \/ Reject \/ Fail)
=============================================================================
