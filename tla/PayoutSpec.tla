------------------------------ MODULE PayoutSpec ------------------------------
(***************************************************************************)
(* What a payout promises the group whose money it is.                     *)
(*                                                                         *)
(* A signature is never taken back.  A payment is made for a payout that   *)
(* has the signatures it requires, stays a payment for that payout, and is *)
(* decided once.  The payout is shown as on its way with one of its own    *)
(* payments to trace it by, and as arrived only after one of them was      *)
(* settled.  That a payout is paid once, or shown as paid when it was, is  *)
(* no part of the promise: the code keeps neither (PaidAtMostOnce and      *)
(* LateResultFlips of Payouts).                                            *)
(***************************************************************************)
EXTENDS Naturals, FiniteSets

CONSTANTS
  Payout,      \* payouts
  Officer,     \* who may sign
  Required,    \* Required[p]: the signatures p takes; one is its creation
  Conversation \* payments that may be made

VARIABLES
  signed,      \* signed[p]: who signed p
  made,        \* made[v]: {} or the one payout that payment v was made for
  fate,        \* fate[v]: open, settled or rejected
  trace,       \* trace[p]: the payment p is traced by, as a set
  shown        \* shown[p]: not out, on its way or arrived

vars == <<signed, made, fate, trace, shown>>

Init ==
  /\ signed = [p \in Payout |-> {}]
  /\ made   = [v \in Conversation |-> {}]
  /\ fate   = [v \in Conversation |-> "open"]
  /\ trace  = [p \in Payout |-> {}]
  /\ shown  = [p \in Payout |-> "not-out"]

Released(p) == Required[p] > 1 => Cardinality(signed[p]) >= Required[p]

Sign(p, o) ==
  /\ signed' = [signed EXCEPT ![p] = @ \cup {o}]
  /\ UNCHANGED <<made, fate, trace, shown>>

Pay(p, v) ==
  /\ made[v] = {} /\ Released(p)
  /\ made' = [made EXCEPT ![v] = {p}]
  /\ UNCHANGED <<signed, fate, trace, shown>>

Decide(v) ==
  /\ made[v] # {} /\ fate[v] = "open"
  /\ \E o \in {"settled", "rejected"} : fate' = [fate EXCEPT ![v] = o]
  /\ UNCHANGED <<signed, made, trace, shown>>

ShowOnItsWay(p, v) ==
  /\ p \in made[v]
  /\ trace' = [trace EXCEPT ![p] = {v}]
  /\ shown' = [shown EXCEPT ![p] = "on-its-way"]
  /\ UNCHANGED <<signed, made, fate>>

ShowArrived(p) ==
  /\ trace[p] # {}
  /\ \E v \in Conversation : p \in made[v] /\ fate[v] = "settled"
  /\ shown' = [shown EXCEPT ![p] = "arrived"]
  /\ UNCHANGED <<signed, made, fate, trace>>

(* Waiting, failed or cancelled.                                           *)
ShowNotOut(p) ==
  /\ shown' = [shown EXCEPT ![p] = "not-out"]
  /\ UNCHANGED <<signed, made, fate, trace>>

Next ==
  \/ \E p \in Payout :
       \/ \E o \in Officer : Sign(p, o)
       \/ \E v \in Conversation : Pay(p, v) \/ ShowOnItsWay(p, v)
       \/ ShowArrived(p) \/ ShowNotOut(p)
  \/ \E v \in Conversation : Decide(v)

Spec == Init /\ [][Next]_vars
===============================================================================
