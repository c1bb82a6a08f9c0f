------------------------------ MODULE LedgerSpec ------------------------------
(***************************************************************************)
(* What the double-entry ledger promises its callers.                      *)
(*                                                                         *)
(* A call settles on the transfer it wants on the books and the logical    *)
(* idempotency key that names it.  The ledger records at most one transfer *)
(* per key, whole, balanced and at one instant, never alters it, and       *)
(* answers a successful call with the transfer recorded under its key,     *)
(* which is there by then.  A call may fail, recorded or not: a failure    *)
(* promises nothing.                                                       *)
(***************************************************************************)

CONSTANTS
  Call,        \* invocations of postTransfer
  Key,         \* logical idempotency keys
  Balanced(_)  \* do the debits of a set of rows equal their credits?

VARIABLES
  asked,       \* asked[c]: {} or the one transfer call c wants recorded
  posted,      \* posted[k]: the rows recorded under key k
  answer       \* answer[c]: the rows call c was answered with

vars == <<asked, posted, answer>>

Init ==
  /\ asked  = [c \in Call |-> {}]
  /\ posted = [k \in Key |-> {}]
  /\ answer = [c \in Call |-> {}]

(* The call has its accounts and its legs in hand.                         *)
Ask(c) ==
  /\ asked[c] = {}
  /\ asked' = [asked EXCEPT ![c] = asked'[c]]
  /\ UNCHANGED <<posted, answer>>

(* The transfer of c is recorded under its key; c hears of it or does not. *)
Post(c, k) ==
  /\ posted[k] = {}
  /\ \E t \in asked[c] :
       /\ t.key = k
       /\ Balanced(t.rows)
       /\ posted' = [posted EXCEPT ![k] = t.rows]
       /\ answer' \in {answer, [answer EXCEPT ![c] = t.rows]}
  /\ UNCHANGED asked

(* The call is answered with what is already on the books.                 *)
Replay(c, k) ==
  /\ posted[k] # {}
  /\ answer[c] = {}
  /\ \E t \in asked[c] : t.key = k
  /\ answer' = [answer EXCEPT ![c] = posted[k]]
  /\ UNCHANGED <<asked, posted>>

Next ==
  \E c \in Call :
    \/ Ask(c)
    \/ \E k \in Key : Post(c, k) \/ Replay(c, k)

Spec == Init /\ [][Next]_vars
===============================================================================
