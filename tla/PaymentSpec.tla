----------------------------- MODULE PaymentSpec ------------------------------
(***************************************************************************)
(* What a mobile-money payment comes to, whichever way it was made         *)
(* (StkPayments: pushed to a phone; C2BPayments: paid at the paybill).     *)
(*                                                                         *)
(* A payment is booked at most once, and what was booked for it is never   *)
(* taken back or changed, whatever is said of it afterwards.  It is shown  *)
(* as arrived, and its payer on the donor wall, only when it is booked by  *)
(* then.  What is shown may be withdrawn unless it is final.               *)
(***************************************************************************)

CONSTANTS
  Payment,     \* payments
  Transfer,    \* transfers that may be booked for one
  Final        \* is a payment that was shown as arrived shown so for ever?

VARIABLES
  booked,      \* booked[p]: {} or the one transfer of payment p
  arrived,     \* payments shown as arrived
  walled       \* payments on the donor wall

vars == <<booked, arrived, walled>>

Init ==
  /\ booked = [p \in Payment |-> {}]
  /\ arrived = {} /\ walled = {}

Book(p) ==
  /\ booked[p] = {}
  /\ \E t \in Transfer : booked' = [booked EXCEPT ![p] = {t}]
  /\ UNCHANGED <<arrived, walled>>

Show(p) ==
  /\ booked[p] # {}
  /\ arrived' = arrived \cup {p}
  /\ UNCHANGED <<booked, walled>>

Withdraw(p) ==
  /\ ~ Final
  /\ arrived' = arrived \ {p}
  /\ UNCHANGED <<booked, walled>>

PutOnWall(p) ==
  /\ booked[p] # {}
  /\ walled' = walled \cup {p}
  /\ UNCHANGED <<booked, arrived>>

Next == \E p \in Payment : Book(p) \/ Show(p) \/ Withdraw(p) \/ PutOnWall(p)

Spec == Init /\ [][Next]_vars
===============================================================================
