--------------------------------- MODULE Gates --------------------------------
(***************************************************************************)
(* What stands between a caller and a handler: the guards of the payment   *)
(* callbacks (webhook-guard.ts) and the two plan gates (plan-gate.ts,      *)
(* feature-gate.service.ts); and on the way out the circuit breaker around *)
(* Daraja (daraja-breaker.ts, its states are those of the opossum library).*)
(*                                                                         *)
(* A signature, a secret or an address is right, wrong or missing.         *)
(***************************************************************************)
EXTENDS Integers, FiniteSets

CONSTANTS
  Configured,              \* the webhook secrets that are set
  FeaturesOf,              \* [plan |-> set of features], REVENUE_CONFIG and plans.features
  Volume                   \* volumeThreshold of the breaker, and of its window

ASSUME GatesAssumption ==
  /\ Volume \in Nat \ {0}
  /\ Configured \subseteq {"path", "ussd", "flutterwave", "stripe"}
  /\ {"free", "starter", "pro", "enterprise"} = DOMAIN FeaturesOf

VARIABLES
  circuit,       \* the breaker: "closed", "open", "half" or "probing"
  calls,         \* calls of the rolling window: [fires, failures]
  gateSays       \* what the last gate or guard decided

gateVars == <<circuit, calls, gateSays>>

GateTypeOK ==
  /\ circuit \in {"closed", "open", "half", "probing"}
  /\ calls \in [fires : 0 .. Volume, failures : 0 .. Volume]
  /\ gateSays \in {"none", "next", "rejected", "401", "402", "403", "404", "500"}

GateInit ==
  /\ circuit  = "closed"
  /\ calls    = [fires |-> 0, failures |-> 0]
  /\ gateSays = "none"

-------------------------------------------------------------------------------
(* The guards, in production, of a request whose parts are each "right",   *)
(* "wrong" or "missing".                                                   *)
DarajaGuard(r) ==
  CASE r.signature = "wrong"                                      -> "401"
    [] r.signature # "wrong" /\ "path" \in Configured /\ r.secret # "right" -> "403"
    [] r.signature # "wrong" /\ ~("path" \in Configured /\ r.secret # "right") ->
         IF r.ip = "right" THEN "next" ELSE "403"

FlutterwaveGuard(r) ==
  IF "flutterwave" \notin Configured THEN "500" ELSE IF r.signature = "right" THEN "next" ELSE "401"

AfricasTalkingGuard(r) ==
  IF ("ussd" \in Configured => r.secret = "right") /\ r.ip = "right" THEN "next" ELSE "403"

StripeGuard(r) ==
  IF "stripe" \notin Configured THEN "500" ELSE IF r.signature = "right" THEN "next" ELSE "401"

Part == {"right", "wrong", "missing"}

Callback(guard, signature, secret, ip) ==
  LET r == [signature |-> signature, secret |-> secret, ip |-> ip]
  IN /\ gateSays' = CASE guard = "daraja"      -> DarajaGuard(r)
                      [] guard = "flutterwave" -> FlutterwaveGuard(r)
                      [] guard = "ussd"        -> AfricasTalkingGuard(r)
                      [] guard = "stripe"      -> StripeGuard(r)
     /\ UNCHANGED <<circuit, calls>>

-------------------------------------------------------------------------------
PlanOrder == <<"free", "starter", "pro", "enterprise">>

PlanRank(plan) == CHOOSE n \in DOMAIN PlanOrder : PlanOrder[n] = plan

(* planForChama: the plan of a subscription that is active or on trial.    *)
PlanForChama(sub) == IF sub.status \in {"active", "trialing"} THEN sub.plan ELSE "free"

(* personalPlanForUser: the best plan of the user's groups.                *)
PersonalPlan(subs) ==
  LET plans == {PlanForChama(s) : s \in subs} \cup {"free"}
  IN CHOOSE p \in plans : \A q \in plans : PlanRank(q) <= PlanRank(p)

HasChamaFeature(sub, feature) == feature \in FeaturesOf[PlanForChama(sub)]

HasUserFeature(subs, feature) == feature \in FeaturesOf[PersonalPlan(subs)]

(* requireChamaFeature and requireUserFeature, from the subscriptions;     *)
RequireChamaFeature(sub, feature) ==
  /\ gateSays' = IF HasChamaFeature(sub, feature) THEN "next" ELSE "402"
  /\ UNCHANGED <<circuit, calls>>

RequireUserFeature(subs, feature) ==
  /\ gateSays' = IF HasUserFeature(subs, feature) THEN "next" ELSE "402"
  /\ UNCHANGED <<circuit, calls>>

(* requireFeature of plan-gate.ts, from the column of the group; "none" is *)
(* a group that does not exist.                                            *)
RequireFeatureByColumn(code, feature) ==
  /\ gateSays' = CASE code = "none"                                        -> "404"
                   [] code # "none" /\ feature \in FeaturesOf[code]        -> "next"
                   [] code # "none" /\ feature \notin FeaturesOf[code]     -> "402"
  /\ UNCHANGED <<circuit, calls>>

-------------------------------------------------------------------------------
(* fire: an open circuit rejects, a half-open one lets one call probe.     *)
Fire ==
  /\ \/ circuit = "closed" /\ calls.fires < Volume
        /\ calls' = [calls EXCEPT !.fires = @ + 1] /\ gateSays' = "next" /\ UNCHANGED circuit
     \/ circuit = "half" /\ circuit' = "probing" /\ gateSays' = "next" /\ UNCHANGED calls
     \/ circuit \in {"open", "probing"} /\ gateSays' = "rejected" /\ UNCHANGED <<circuit, calls>>

(* A call fails, or is out of time: more than half of enough calls open the*)
(* circuit, and so does a probe.                                           *)
CallFails ==
  LET failures == calls.failures + 1
  IN /\ \/ circuit = "probing" /\ circuit' = "open" /\ UNCHANGED calls
        \/ /\ circuit = "closed" /\ calls.failures < calls.fires
           /\ calls' = [calls EXCEPT !.failures = failures]
           /\ circuit' = IF calls.fires >= Volume /\ 2 * failures > calls.fires
                         THEN "open" ELSE "closed"
     /\ UNCHANGED gateSays

ProbeSucceeds ==
  /\ circuit = "probing" /\ circuit' = "closed"
  /\ UNCHANGED <<calls, gateSays>>

(* resetTimeout, and the rolling window.                                   *)
ResetTimeout ==
  /\ circuit = "open" /\ circuit' = "half"
  /\ UNCHANGED <<calls, gateSays>>

WindowRolls ==
  /\ calls' = [fires |-> 0, failures |-> 0]
  /\ UNCHANGED <<circuit, gateSays>>

Subscription == [plan : DOMAIN FeaturesOf, status : {"active", "trialing", "past_due", "cancelled"}]

GateNext ==
  \/ \E guard \in {"daraja", "flutterwave", "ussd", "stripe"}, signature, secret, ip \in Part :
       Callback(guard, signature, secret, ip)
  \/ \E feature \in FeaturesOf["enterprise"] :
       \/ \E s \in Subscription : RequireChamaFeature(s, feature)
       \/ \E s, t \in Subscription : RequireUserFeature({s, t}, feature)
       \/ \E code \in DOMAIN FeaturesOf \cup {"none"} : RequireFeatureByColumn(code, feature)
  \/ Fire \/ CallFails \/ ProbeSucceeds \/ ResetTimeout \/ WindowRolls

GateSpec == GateInit /\ [][GateNext]_gateVars

===============================================================================
