------------------------------- MODULE Payouts --------------------------------
(***************************************************************************)
(* Money out: PayoutRequest rows, the officers' signatures that release    *)
(* them (payouts.routes.ts), the dividend-payout worker that pays them     *)
(* through Daraja B2C, and the callbacks that finish them                  *)
(* (b2c-callback.service.ts).                                              *)
(*                                                                         *)
(* A handler reads the row, then writes it by id whatever it has become    *)
(* since: nothing is conditional on the status that was read.  Every await *)
(* is a step, so requests, worker runs and callbacks interleave anywhere   *)
(* between them, and each may die there.  A job has no retries (no         *)
(* attempts are asked for), but BullMQ runs a job again when its worker    *)
(* died with it.                                                           *)
(***************************************************************************)
EXTENDS Integers, FiniteSets

CONSTANTS
  Payout,       \* payout requests
  Officer,      \* active officers of the group
  Required,     \* Required[p]: requiredSignatures of p
  Request,      \* HTTP requests to sign or to cancel
  Run,          \* runs of the worker
  Conversation, \* B2C payments Daraja may accept
  Handler,      \* deliveries of result and timeout callbacks
  MaxReruns     \* bound on jobs run again after their worker died

ASSUME RequiredAssumption == Required \in [Payout -> Nat \ {0}]

ASSUME FinitenessAssumption ==
  IsFiniteSet(Officer) /\ MaxReruns \in Nat

VARIABLES
  status,       \* status[p]: PayoutStatus
  conv,         \* conv[p]: the row's mpesaConversationId, as a set
  signed,       \* signed[p]: officers with a PayoutSignature
  web,          \* web[r]: what request r is doing
  jobs,         \* jobs[p]: dividend-payout jobs waiting
  run,          \* run[x]: what worker run x is doing
  reruns,       \* jobs run again so far
  payment,      \* payment[v]: what became of B2C payment v
  notices,      \* callbacks Daraja has sent: [conv, ok]
  call          \* call[h]: what callback delivery h is doing

vars == <<status, conv, signed, web, jobs, run, reruns, payment, notices, call>>

Idle == [at |-> "idle"]
Over == [at |-> "over"]

PayoutStatus ==
  {"none", "awaiting", "pending", "disbursing", "disbursed", "failed", "cancelled"}

WebJob ==
  {Idle, Over}
    \cup [at : {"signing", "counting"}, payout : Payout, seen : PayoutStatus,
          officer : Officer]
    \cup [at : {"releasing", "enqueueing", "cancelling"}, payout : Payout]

RunJob ==
  {Idle, Over}
    \cup [at : {"checking", "paying", "refusing"}, payout : Payout]
    \cup [at : {"recording"}, payout : Payout, conv : Conversation]

Free == [outcome |-> "free"]

Payment ==
  {Free} \cup [payout : Payout, outcome : {"open", "settled", "rejected"}]

Notice == [conv : Conversation, ok : BOOLEAN]

TypeOK ==
  /\ status \in [Payout -> PayoutStatus]
  /\ conv \in [Payout -> SUBSET Conversation]
  /\ signed \in [Payout -> SUBSET Officer]
  /\ web \in [Request -> WebJob]
  /\ jobs \in [Payout -> Nat]
  /\ run \in [Run -> RunJob]
  /\ reruns \in 0 .. MaxReruns
  /\ payment \in [Conversation -> Payment]
  /\ notices \subseteq Notice
  /\ call \in [Handler -> {Idle, Over} \cup [at : {"writing"}, payout : Payout, ok : BOOLEAN]]

Init ==
  /\ status  = [p \in Payout |-> "none"]
  /\ conv    = [p \in Payout |-> {}]
  /\ signed  = [p \in Payout |-> {}]
  /\ web     = [r \in Request |-> Idle]
  /\ jobs    = [p \in Payout |-> 0]
  /\ run     = [x \in Run |-> Idle]
  /\ reruns  = 0
  /\ payment = [v \in Conversation |-> Free]
  /\ notices = {}
  /\ call    = [h \in Handler |-> Idle]

SetStatus(p, s) == status' = [status EXCEPT ![p] = s]
Web(r, j)       == web' = [web EXCEPT ![r] = j]
Worker(x, j)    == run' = [run EXCEPT ![x] = j]
Callback(h, j)  == call' = [call EXCEPT ![h] = j]

darajaVars == <<payment, notices>>

-------------------------------------------------------------------------------
(* executeDividend and the referral cash-out: create the row and, when one *)
(* signature is enough, queue it at once; the creator may die in between.  *)
Create(p) ==
  /\ status[p] = "none"
  /\ IF Required[p] > 1
     THEN /\ SetStatus(p, "awaiting")
          /\ UNCHANGED jobs
     ELSE /\ SetStatus(p, "pending")
          /\ jobs' \in {jobs, [jobs EXCEPT ![p] = @ + 1]}
  /\ UNCHANGED <<conv, signed, web, run, reruns, call, darajaVars>>

-------------------------------------------------------------------------------
(* POST /payouts/:id/sign                                                  *)

webFrame == <<conv, run, reruns, call, darajaVars>>

SignRead(r, p, o) ==
  /\ web[r] = Idle
  /\ status[p] \in {"awaiting", "pending"}
  /\ Web(r, [at |-> "signing", payout |-> p, seen |-> status[p], officer |-> o])
  /\ UNCHANGED <<status, signed, jobs, webFrame>>

(* Whatever error the insert meets is taken for a second signature of the  *)
(* same officer, and ignored.                                              *)
SignInsert(r) ==
  /\ web[r].at = "signing"
  /\ signed' \in {signed, [signed EXCEPT ![web[r].payout] = @ \cup {web[r].officer}]}
  /\ Web(r, [web[r] EXCEPT !.at = "counting"])
  /\ UNCHANGED <<status, jobs, webFrame>>

(* The count is fresh, the status is the one read before.                  *)
EnoughOffByOne(p) == Cardinality(signed[p]) + 1 >= Required[p]  \* defect

Enough(p) == Cardinality(signed[p]) >= Required[p]

SignCount(r) ==
  /\ web[r].at = "counting"
  /\ LET p == web[r].payout
     IN Web(r, IF Enough(p) /\ web[r].seen = "awaiting"
               THEN [at |-> "releasing", payout |-> p]
               ELSE Over)
  /\ UNCHANGED <<status, signed, jobs, webFrame>>

Release(r) ==
  /\ web[r].at = "releasing"
  /\ SetStatus(web[r].payout, "pending")
  /\ Web(r, [web[r] EXCEPT !.at = "enqueueing"])
  /\ UNCHANGED <<signed, jobs, webFrame>>

Enqueue(r) ==
  /\ web[r].at = "enqueueing"
  /\ jobs' = [jobs EXCEPT ![web[r].payout] = @ + 1]
  /\ Web(r, Over)
  /\ UNCHANGED <<status, signed, webFrame>>

(* POST /payouts/:id/cancel                                                *)
CancelRead(r, p) ==
  /\ web[r] = Idle
  /\ status[p] \notin {"none", "disbursing", "disbursed"}
  /\ Web(r, [at |-> "cancelling", payout |-> p])
  /\ UNCHANGED <<status, signed, jobs, webFrame>>

CancelWrite(r) ==
  /\ web[r].at = "cancelling"
  /\ SetStatus(web[r].payout, "cancelled")
  /\ Web(r, Over)
  /\ UNCHANGED <<signed, jobs, webFrame>>

RequestDies(r) ==
  /\ web[r] \notin {Idle, Over}
  /\ Web(r, Over)
  /\ UNCHANGED <<status, signed, jobs, webFrame>>

-------------------------------------------------------------------------------
(* processDividendPayout.                                                  *)

runFrame == <<signed, web, call, notices>>

TakeJobAnyway(x, p) ==                          \* defect: the job need not be there
  /\ run[x] = Idle
  /\ jobs' = [jobs EXCEPT ![p] = @ - 1]
  /\ Worker(x, [at |-> "checking", payout |-> p])
  /\ UNCHANGED <<status, conv, reruns, payment, runFrame>>

TakeJob(x, p) ==
  /\ run[x] = Idle
  /\ jobs[p] > 0
  /\ jobs' = [jobs EXCEPT ![p] = @ - 1]
  /\ Worker(x, [at |-> "checking", payout |-> p])
  /\ UNCHANGED <<status, conv, reruns, payment, runFrame>>

(* Skip what is not pending; a recipient without a phone is refused.       *)
CheckStatus(x) ==
  /\ run[x].at = "checking"
  /\ IF status[run[x].payout] = "pending"
     THEN \E next \in {"paying", "refusing"} : Worker(x, [run[x] EXCEPT !.at = next])
     ELSE Worker(x, Over)
  /\ UNCHANGED <<status, conv, jobs, reruns, payment, runFrame>>

Refuse(x) ==
  /\ run[x].at = "refusing"
  /\ SetStatus(run[x].payout, "failed")
  /\ Worker(x, Over)
  /\ UNCHANGED <<conv, jobs, reruns, payment, runFrame>>

(* b2cPayment: Daraja may accept the payment and the answer get lost, and  *)
(* then the job fails for good.                                            *)
Pay(x) ==
  /\ run[x].at = "paying"
  /\ \/ /\ Worker(x, Over)
        /\ UNCHANGED payment
     \/ \E v \in Conversation :
          LET p == run[x].payout
          IN /\ payment[v] = Free
             /\ payment' = [payment EXCEPT ![v] = [payout |-> p, outcome |-> "open"]]
             /\ \/ Worker(x, [at |-> "recording", payout |-> p, conv |-> v])
                \/ Worker(x, Over)
  /\ UNCHANGED <<status, conv, jobs, reruns, runFrame>>

RecordNoConversation(x) ==                      \* defect: the id is not kept
  /\ run[x].at = "recording"
  /\ SetStatus(run[x].payout, "disbursing")
  /\ Worker(x, Over)
  /\ UNCHANGED <<conv, jobs, reruns, payment, runFrame>>

Record(x) ==
  /\ run[x].at = "recording"
  /\ SetStatus(run[x].payout, "disbursing")
  /\ conv' = [conv EXCEPT ![run[x].payout] = {run[x].conv}]
  /\ Worker(x, Over)
  /\ UNCHANGED <<jobs, reruns, payment, runFrame>>

(* A job whose worker died is stalled, and goes back to the queue.         *)
RunDies(x) ==
  /\ run[x] \notin {Idle, Over}
  /\ reruns < MaxReruns
  /\ reruns' = reruns + 1
  /\ jobs' = [jobs EXCEPT ![run[x].payout] = @ + 1]
  /\ Worker(x, Over)
  /\ UNCHANGED <<status, conv, payment, runFrame>>

-------------------------------------------------------------------------------
(* Daraja (external): a payment is settled or rejected, which sends a      *)
(* result; a payment still open may be reported to the timeout URL first.  *)
(* A notice stays on its way: it may come late, twice or never.            *)

Settle(v) ==
  /\ payment[v].outcome = "open"
  /\ \E o \in {"settled", "rejected"} :
       /\ payment' = [payment EXCEPT ![v].outcome = o]
       /\ notices' = notices \cup {[conv |-> v, ok |-> o = "settled"]}
  /\ UNCHANGED <<status, conv, signed, web, jobs, run, reruns, call>>

(* handleB2CTimeout fills in a ResultCode of 1, and goes the same way.     *)
TimeoutCountsAsPaid == TRUE                     \* defect: the code defaults to 0

TimeoutResult == FALSE

TimeOut(v) ==
  /\ payment[v].outcome = "open"
  /\ notices' = notices \cup {[conv |-> v, ok |-> TimeoutResult]}
  /\ UNCHANGED <<status, conv, signed, web, jobs, run, reruns, payment, call>>

(* handleB2CResult: find the payout by its conversation, leave a finished  *)
(* one alone, write the outcome.                                           *)
callFrame == <<conv, signed, web, jobs, run, reruns, darajaVars>>

ResultRead(h, n) ==
  /\ call[h] = Idle
  /\ LET open == { p \in Payout : /\ n.conv \in conv[p]
                                  /\ status[p] \notin {"disbursed", "failed", "cancelled"} }
     IN \/ /\ open = {}
           /\ Callback(h, Over)
        \/ \E p \in open : Callback(h, [at |-> "writing", payout |-> p, ok |-> n.ok])
  /\ UNCHANGED <<status, callFrame>>

ResultWrite(h) ==
  /\ call[h].at = "writing"
  /\ SetStatus(call[h].payout, IF call[h].ok THEN "disbursed" ELSE "failed")
  /\ Callback(h, Over)
  /\ UNCHANGED callFrame

CallbackDies(h) ==
  /\ call[h].at = "writing"
  /\ Callback(h, Over)
  /\ UNCHANGED <<status, callFrame>>

Next ==
  \/ \E p \in Payout : Create(p)
  \/ \E r \in Request :
       \/ \E p \in Payout : CancelRead(r, p) \/ \E o \in Officer : SignRead(r, p, o)
       \/ SignInsert(r) \/ SignCount(r) \/ Release(r) \/ Enqueue(r)
       \/ CancelWrite(r) \/ RequestDies(r)
  \/ \E x \in Run :
       \/ \E p \in Payout : TakeJob(x, p)
       \/ CheckStatus(x) \/ Refuse(x) \/ Pay(x) \/ Record(x) \/ RunDies(x)
  \/ \E v \in Conversation : Settle(v) \/ TimeOut(v)
  \/ \E h \in Handler :
       (\E n \in notices : ResultRead(h, n)) \/ ResultWrite(h) \/ CallbackDies(h)

Spec == Init /\ [][Next]_vars

-------------------------------------------------------------------------------
(* Properties.                                                             *)

Payments(p) == { v \in Conversation : payment[v] # Free /\ payment[v].payout = p }

(* Money leaves only under the signatures its payout requires, whoever     *)
(* signs, cancels or dies at the same time: "Once count(PayoutSignature)   *)
(* >= threshold ... the dividend-payout worker fires".                     *)
PaidOnlyWhenSigned ==
  \A p \in Payout : Payments(p) # {} /\ Required[p] > 1 =>
    Cardinality(signed[p]) >= Required[p]

(* A payout shown as disbursed was settled by Daraja: a timeout, a repeat  *)
(* or a callback about another payout never makes it so.                   *)
DisbursedWasSettled ==
  \A p \in Payout : status[p] = "disbursed" =>
    \E v \in Payments(p) : payment[v].outcome = "settled"

(* A payout on its way, or arrived, can be traced: the conversation on its *)
(* row is one of its own payments.                                         *)
DisbursementTraceable ==
  \A p \in Payout : status[p] \in {"disbursing", "disbursed"} =>
    conv[p] # {} /\ conv[p] \subseteq Payments(p)

(* Requests, worker runs and callbacks keep what PayoutSpec promises,      *)
(* whatever they write over each other: no payment before the signatures,  *)
(* none made over to another payout or decided twice, and no row that      *)
(* shows more than its payments have come to.                              *)
MadeFor == [v \in Conversation |->
              IF payment[v] = Free THEN {} ELSE {payment[v].payout}]

Fate == [v \in Conversation |->
           IF payment[v] = Free THEN "open" ELSE payment[v].outcome]

Shown == [p \in Payout |->
            CASE status[p] = "disbursing" -> "on-its-way"
              [] status[p] = "disbursed"  -> "arrived"
              [] OTHER                    -> "not-out"]

Promise ==
  INSTANCE PayoutSpec WITH
    made <- MadeFor, fate <- Fate, trace <- conv, shown <- Shown

ImplementsPayoutSpec == Promise!Spec

(* The worker's header: "Idempotent: if status !== "pending" on entry,     *)
(* skip (already handled)".                                                *)
PaidAtMostOnce ==
  \A p \in Payout : Cardinality(Payments(p)) <= 1

(* handleB2CTimeout's comment: a result that comes after the timeout, if   *)
(* the charge did settle, "then flips status="failed" back to "disbursed"".*)
LateResultFlips ==
  [][\A h \in Handler, n \in notices : ResultRead(h, n) /\ n.ok =>
       \A p \in Payout : status[p] = "failed" /\ n.conv \in conv[p] =>
         call'[h] # Over]_vars
===============================================================================
