-------------------------------- MODULE Freeze --------------------------------
(***************************************************************************)
(* The freeze of a group (circuit-breaker.service.ts and its routes), and  *)
(* what goes on beside it: members leave, and payouts are signed and paid. *)
(* Payouts is composed here with the freeze, as the process runs both; no  *)
(* handler of one reads the state of the other.                            *)
(***************************************************************************)
EXTENDS Payouts

CONSTANT Staying      \* members of the group

(* Every payout of the instance wants two signatures.                      *)
TwoSignatures == [p \in Payout |-> 2]

VARIABLES
  freezeState,        \* what Redis holds: none, auto or manual
  roll                \* each membership: active, inactive, suspended, or gone

freezeVars == <<freezeState, roll>>

FreezeInit ==
  /\ freezeState = "none"
  /\ roll = [m \in Staying |-> "active"]

-------------------------------------------------------------------------------
(* Any officer freezes, for a week; a Redis that fails is not reported.    *)
FreezeGroup(redisUp) ==
  /\ freezeState' = IF redisUp THEN "manual" ELSE freezeState
  /\ UNCHANGED roll

(* An officer unfreezes naming another as the co-signer, who is not asked. *)
UnfreezeGroup(me, coSigner, redisUp) ==
  /\ me # coSigner
  /\ freezeState' = IF redisUp THEN "none" ELSE freezeState
  /\ UNCHANGED roll

FreezeExpires ==
  /\ freezeState # "none"
  /\ freezeState' = "none"
  /\ UNCHANGED roll

(* removeMember deletes the membership.                                    *)
MemberLeaves(m) ==
  /\ roll[m] # "gone"
  /\ roll' = [roll EXCEPT ![m] = "gone"]
  /\ UNCHANGED freezeState

(* runAnomalySweep counts those who left by the statuses of their rows.  Of*)
(* withdrawals it sums by group those that members make from their wallets,*)
(* which carry no group: that half never freezes anything.                 *)
AnomalySweep ==
  LET exits  == Cardinality({m \in Staying : roll[m] \in {"inactive", "suspended"}})
      active == Cardinality({m \in Staying : roll[m] = "active"})
  IN /\ freezeState' = IF /\ exits >= 3 /\ active > 0
                          /\ 10 * exits >= 3 * (active + exits)
                          /\ freezeState = "none"
                       THEN "auto" ELSE freezeState
     /\ UNCHANGED roll

FreezeStep ==
  \/ \E redisUp \in BOOLEAN :
       \/ FreezeGroup(redisUp)
       \/ \E me, coSigner \in Officer : UnfreezeGroup(me, coSigner, redisUp)
  \/ FreezeExpires \/ AnomalySweep
  \/ \E m \in Staying : MemberLeaves(m)

FreezeSpec ==
  /\ Init /\ FreezeInit
  /\ [][(Next /\ UNCHANGED freezeVars) \/ (FreezeStep /\ UNCHANGED vars)]_<<vars, freezeVars>>

-------------------------------------------------------------------------------
(* While the group is frozen no request to sign a payout, made after the   *)
(* freeze, gets past its checks: "Withdraw + loan-disburse + rule-publish +*)
(* role-change all return 423 LOCKED", by a helper "Called by every        *)
(* mutation endpoint that moves money or rules" (circuit-breaker.service.ts*)
(* lines 16-17 and 49-52).                                                 *)
FrozenGroupsPayNothing ==
  [][freezeState # "none" =>
       \A r \in Request : web[r] = Idle => web'[r].at # "signing"]_<<vars, freezeVars>>
===============================================================================
