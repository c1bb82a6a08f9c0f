---------------------------- MODULE MCStkPayments -----------------------------
(* Small instances of StkPayments for TLC.                                 *)
EXTENDS StkPayments

CONSTANTS t1, t2, w1, w2

(* One payment from its start, while another waits for the poller, paid,   *)
(* its callbacks lost: CreatePending, FirePush, StoreCheckoutId, GrowOlder,*)
(* Answer and CallbackLost lead to this state.                             *)
Backlog ==
  LET sole(x, y) == [t \in Tx |-> IF t = t2 THEN x ELSE y]
  IN /\ api      = sole("over", "ready")
     /\ status   = sole("pending", "none")
     /\ stored   = sole(TRUE, FALSE)
     /\ age      = sole(1, 0)
     /\ prompt   = sole("paid", "none")
     /\ copies   = [t \in Tx |-> 0]
     /\ member   = sole(FALSE, TRUE)
     /\ books    = {}
     /\ donors   = {}
     /\ job      = [w \in Worker |-> Idle]
     /\ todo     = {}
     /\ expired  = {}
     /\ faults   = 0

BacklogSpec ==
  /\ Backlog /\ [][Next]_vars
  /\ WF_vars(Poll) /\ \A t \in Tx : WF_vars(GrowOlder(t))
===============================================================================
