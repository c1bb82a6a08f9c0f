------------------------------- MODULE Billing --------------------------------
(***************************************************************************)
(* The subscription of a group (billing.service.ts): trials, checkouts,    *)
(* plan changes, invoices, the three jobs of the billing queue, and the    *)
(* Flutterwave webhook.  An STK push for an invoice that the treasurer     *)
(* pays changes nothing here: no callback leads to recordInvoicePayment.   *)
(*                                                                         *)
(* A call is a small machine: what it decided (do) and where it is (at),   *)
(* with one step per await that reads or writes.  The jobs run one at a    *)
(* time on one worker; requests and webhooks overlap with it and with each *)
(* other.  Periods are reduced to "ends within a day" and "is over".       *)
(***************************************************************************)
EXTENDS Integers

CONSTANTS
  Plans,           \* plan codes, "free" among them
  PlanPrice,       \* PlanPrice[p]: the base price
  Coupon,          \* coupon codes
  CouponPct,       \* CouponPct[k]: percent off
  SaccoPct,        \* 50 for a registered SACCO, else 0
  Invoice,         \* invoice ids (bounds their number)
  BillCall,        \* requests and webhooks that overlap
  MaxDunning,      \* MAX_DUNNING_ATTEMPTS
  BillMaxBegun     \* bounds the requests begun and the worker's deaths together

Worker == "worker"

NoInvoice == "noInvoice"

ASSUME BillingAssumption ==
  /\ "free" \in Plans /\ PlanPrice \in [Plans -> Nat] /\ PlanPrice["free"] = 0
  /\ CouponPct \in [Coupon -> 0 .. 100] /\ SaccoPct \in 0 .. 100
  /\ MaxDunning \in Nat \ {0} /\ BillMaxBegun \in Nat
  /\ Worker \notin BillCall /\ NoInvoice \notin Invoice

VARIABLES
  sub,         \* the subscription; status "none" before there is one
  current,     \* chama.currentPlanCode, what the plan gate reads
  invoice,     \* invoice[i]: status, attempts, overdue, zero (nothing to pay)
  expired,     \* coupons past their validUntil
  booked,      \* invoices whose payment the ledger holds
  billCall,    \* billCall[c]: what the call, or the worker, is doing
  begun        \* requests begun, and deaths of the worker in a job (for the bound)

billVars == <<sub, current, invoice, expired, booked, billCall, begun>>

BillActor == BillCall \cup {Worker}

(* subscription.couponCode: nothing, a coupon, or __downgrade_to:PLAN.     *)
Tag == [kind : {"none", "coupon", "downgrade"}, of : Plans \cup Coupon]

NoTag == [kind |-> "none", of |-> "free"]

CouponTag(k) == [kind |-> "coupon", of |-> k]

DowngradeTag(p) == [kind |-> "downgrade", of |-> p]

BillIdle ==
  [at |-> "idle", do |-> "none", plan |-> "free", tag |-> NoTag,
   target |-> "free", inv |-> NoInvoice, seen |-> 0]

BillTypeOK ==
  /\ sub \in [status : {"none", "trialing", "active", "past_due", "cancelled"},
              plan : Plans, ending : BOOLEAN, tag : Tag,
              due : BOOLEAN, trialOver : BOOLEAN]
  /\ current \in Plans
  /\ invoice \in [Invoice ->
       [status : {"none", "open", "paid", "failed", "uncollectible"},
        attempts : 0 .. MaxDunning,
        overdue : BOOLEAN, zero : BOOLEAN]]
  /\ expired \subseteq Coupon /\ booked \subseteq Invoice
  /\ billCall \in [BillActor ->
       [at : {"idle", "generating", "write", "publish", "invoice", "advance", "push",
              "sent", "fail", "pastDue", "drop", "dropPlan", "writeOff", "post",
              "markPaid", "activate"},
        do : {"none", "trial", "checkout", "cancel", "cancelLater", "resume",
              "toFree", "schedule", "change", "changePaid", "coupon", "generate",
              "expire", "collect", "webhook"},
        plan : Plans, tag : Tag, target : Plans,
        inv : Invoice \cup {NoInvoice}, seen : 0 .. MaxDunning]]
  /\ begun \in 0 .. BillMaxBegun

BillInit ==
  /\ sub      = [status |-> "none", plan |-> "free", ending |-> FALSE, tag |-> NoTag,
                 due |-> FALSE, trialOver |-> FALSE]
  /\ current  = "free"
  /\ invoice  = [i \in Invoice |-> [status |-> "none", attempts |-> 0,
                                    overdue |-> FALSE, zero |-> FALSE]]
  /\ expired  = {} /\ booked = {}
  /\ billCall = [c \in BillActor |-> BillIdle]
  /\ begun    = 0

-------------------------------------------------------------------------------
(* Prices, discounts and the small steps every flow shares.                *)

IsFree(p) == p = "free"

(* computeDiscount: SACCO and coupon add up, capped at the price.          *)
DiscountPct(tag) ==
  LET pct == SaccoPct + (IF tag.kind = "coupon" THEN CouponPct[tag.of] ELSE 0)
  IN IF pct > 100 THEN 100 ELSE pct

(* In cents.                                                               *)
TotalDue(p, tag) == PlanPrice[p] * (100 - DiscountPct(tag))

(* It throws on a coupon that is unknown or has expired.                   *)
CouponHolds(tag) ==
  tag.kind = "none" \/ (tag.kind = "coupon" /\ tag.of \notin expired)

BillDo(c, s) == billCall' = [billCall EXCEPT ![c] = s]

Goes(c, at) == BillDo(c, [billCall[c] EXCEPT !.at = at])

BillEnds(c) == BillDo(c, BillIdle)

Begins(c, do, at, p, tag) ==
  BillDo(c, [BillIdle EXCEPT !.at = at, !.do = do, !.plan = p, !.tag = tag])

FreshInvoice == {i \in Invoice : invoice[i].status = "none"}

(* Where a call goes on once an invoice is pushed, or left to be paid.     *)
AfterPush(c) == IF billCall[c].do = "change" THEN Goes(c, "write") ELSE BillEnds(c)

-------------------------------------------------------------------------------
(* Requests: the subscription is read and a decision taken.                *)

Accepted(c) ==
  /\ billCall[c] = BillIdle
  /\ begun < BillMaxBegun /\ begun' = begun + 1

(* createCheckout: the first paid plan is a trial; enterprise is sold by   *)
(* people and answers with a link.  The member and group caps only refuse. *)
ReadCheckout(c, p, tag) ==
  /\ Accepted(c)
  /\ p \notin {"free", "enterprise"}
  /\ IF sub.status = "none" \/ IsFree(sub.plan)
     THEN tag = NoTag /\ Begins(c, "trial", "write", p, NoTag)
     ELSE CouponHolds(tag) /\ Begins(c, "checkout", "write", p, tag)
  /\ UNCHANGED <<sub, current, invoice, expired, booked>>

ReadCancel(c, immediate) ==
  /\ Accepted(c)
  /\ sub.status # "none" /\ ~ IsFree(sub.plan)
  /\ Begins(c, IF immediate THEN "cancel" ELSE "cancelLater", "write", "free", NoTag)
  /\ UNCHANGED <<sub, current, invoice, expired, booked>>

ReadResume(c) ==
  /\ Accepted(c)
  /\ sub.status \notin {"none", "cancelled"}
  /\ sub.ending \/ sub.status # "active"
  /\ Begins(c, "resume", "write", "free", NoTag)
  /\ UNCHANGED <<sub, current, invoice, expired, booked>>

(* changePlan: to free at once; a downgrade without proration is stashed in*)
(* the coupon column; else the difference, if there is one, is invoiced    *)
(* first.                                                                  *)
ReadChangePlan(c, p, prorate) ==
  /\ Accepted(c)
  /\ sub.status # "none" /\ p # sub.plan
  /\ LET up == PlanPrice[p] > PlanPrice[sub.plan]
     IN IF ~ up /\ IsFree(p) THEN Begins(c, "toFree", "write", p, NoTag)
        ELSE IF ~ up /\ ~ prorate
             THEN Begins(c, "schedule", "write", "free", DowngradeTag(p))
        ELSE \/ /\ up /\ prorate /\ FreshInvoice # {}
                /\ Begins(c, "change", "invoice", p, NoTag)
             \/ /\ up /\ prorate => sub.due
                /\ Begins(c, "change", "write", p, NoTag)
  /\ UNCHANGED <<sub, current, invoice, expired, booked>>

ReadCoupon(c, k) ==
  /\ Accepted(c)
  /\ sub.status # "none" /\ k \notin expired
  /\ Begins(c, "coupon", "write", "free", CouponTag(k))
  /\ UNCHANGED <<sub, current, invoice, expired, booked>>

(* A status other than trialing makes the end of the trial irrelevant.     *)
WithStatus(st) == [sub EXCEPT !.status = st, !.trialOver = FALSE]

(* The subscription as the decision leaves it.                             *)
AfterDecision(d) ==
  CASE d.do = "trial" -> [WithStatus("trialing") EXCEPT !.plan = d.plan,
                            !.ending = FALSE, !.due = FALSE]
    [] d.do = "checkout" -> [WithStatus("active") EXCEPT !.plan = d.plan,
                               !.ending = FALSE, !.due = FALSE, !.tag = d.tag]
    [] d.do = "cancel"   -> [WithStatus("cancelled") EXCEPT !.ending = TRUE]
    [] d.do = "cancelLater"  -> [sub EXCEPT !.ending = TRUE]
    [] d.do = "resume"   -> [WithStatus("active") EXCEPT !.ending = FALSE]
    [] d.do = "toFree"   -> [WithStatus("active") EXCEPT !.plan = d.plan, !.ending = FALSE]
    [] d.do = "change"   -> [WithStatus("active") EXCEPT !.plan = d.plan]
    [] d.do = "generate" -> [sub EXCEPT !.plan = d.plan, !.tag = NoTag]
    [] OTHER             -> [sub EXCEPT !.tag = d.tag]

WriteDecision(c) ==
  /\ billCall[c].at = "write"
  /\ billCall[c].do = "checkout" => FreshInvoice # {}
  /\ sub' = AfterDecision(billCall[c])
  /\ CASE billCall[c].do \in {"trial", "cancel", "toFree", "change", "generate"} ->
            Goes(c, "publish")
       [] billCall[c].do = "checkout" -> Goes(c, "invoice")
       [] OTHER -> BillEnds(c)
  /\ UNCHANGED <<current, invoice, expired, booked, begun>>

(* chama.currentPlanCode, by a second write; a scheduled downgrade to a    *)
(* plan that costs goes on to its invoice, with the tag it read as coupon, *)
(* and a change whose difference was nothing to pay goes on to its plan.   *)
PublishPlan(c) ==
  /\ billCall[c].at = "publish"
  /\ current' = billCall[c].plan
  /\ CASE billCall[c].do = "generate" /\ ~ IsFree(billCall[c].plan) -> Goes(c, "invoice")
       [] billCall[c].do = "changePaid" ->
            Begins(c, "change", "write", billCall[c].target, NoTag)
       [] OTHER -> BillEnds(c)
  /\ UNCHANGED <<sub, invoice, expired, booked, begun>>

-------------------------------------------------------------------------------
(* The jobs.                                                               *)

(* generateInvoice writes a scheduled downgrade first, and prices then.    *)
GenerateInvoice(c) ==
  IF sub.tag.kind = "downgrade"
  THEN Begins(c, "generate", "write", sub.tag.of, sub.tag)
  ELSE Begins(c, "generate", "invoice", sub.plan, sub.tag)

(* generate-due-invoices lists the subscriptions, those in trial among     *)
(* them, and reads each again, without asking again whether it is due.     *)
StartGenerate ==
  /\ billCall[Worker] = BillIdle
  /\ FreshInvoice # {}
  /\ sub.status \in {"active", "trialing"} /\ sub.due /\ ~ sub.ending
  /\ Begins(Worker, "generate", "generating", "free", NoTag)
  /\ UNCHANGED <<sub, current, invoice, expired, booked, begun>>

ReadToGenerate(c) ==
  /\ billCall[c].at = "generating"
  /\ GenerateInvoice(c)
  /\ UNCHANGED <<sub, current, invoice, expired, booked, begun>>

(* expire-trials.                                                          *)
StartExpire ==
  /\ billCall[Worker] = BillIdle
  /\ FreshInvoice # {}
  /\ sub.status = "trialing" /\ sub.trialOver
  /\ Begins(Worker, "expire", "invoice", sub.plan, sub.tag)
  /\ UNCHANGED <<sub, current, invoice, expired, booked, begun>>

StartCollectPushed(i) ==                       \* defect: never pushed is passed over
  /\ billCall[Worker] = BillIdle
  /\ invoice[i].status = "open" /\ invoice[i].overdue /\ invoice[i].attempts > 0
  /\ BillDo(Worker, [BillIdle EXCEPT !.do = "collect", !.inv = i,
       !.at = IF invoice[i].attempts >= MaxDunning THEN "drop" ELSE "push"])
  /\ UNCHANGED <<sub, current, invoice, expired, booked, begun>>

(* collect-overdue: another push, or, after MaxDunning of them, the plan is*)
(* dropped.                                                                *)
StartCollect(i) ==
  /\ billCall[Worker] = BillIdle
  /\ invoice[i].status = "open" /\ invoice[i].overdue
  /\ BillDo(Worker, [BillIdle EXCEPT !.do = "collect", !.inv = i,
       !.at = IF invoice[i].attempts >= MaxDunning THEN "drop" ELSE "push"])
  /\ UNCHANGED <<sub, current, invoice, expired, booked, begun>>

(* The jobs price their invoices when they create them, a checkout has done*)
(* so before, and a proration is the difference.                           *)
PricedNow(c) == billCall[c].do \in {"generate", "expire"}

(* What rounds to less than a shilling is nothing to pay.  The difference  *)
(* of a change shrinks with the days that are left, and may be that small. *)
RoundsToZero(c) ==
  IF billCall[c].do = "change" THEN BOOLEAN
  ELSE {TotalDue(billCall[c].plan, billCall[c].tag) < 50}

(* A number taken meanwhile fails the creation: see BillCallDies.          *)
CreateInvoice(c, i) ==
  /\ billCall[c].at = "invoice"
  /\ i \in FreshInvoice
  /\ PricedNow(c) => CouponHolds(billCall[c].tag)
  /\ \E zero \in RoundsToZero(c) :
       invoice' = [invoice EXCEPT ![i] = [status |-> "open", attempts |-> 0,
                                          overdue |-> FALSE, zero |-> zero]]
  /\ BillDo(c, [billCall[c] EXCEPT !.inv = i, !.tag = NoTag,
       !.at   = IF PricedNow(c) THEN "advance" ELSE "push",
       !.plan = IF billCall[c].do = "change" THEN @ ELSE "free"])
  /\ UNCHANGED <<sub, current, expired, booked, begun>>

(* The next period begins, by a second write; the trial becomes active.    *)
AdvancePeriod(c) ==
  /\ billCall[c].at = "advance"
  /\ sub' = IF billCall[c].do = "expire"
            THEN [WithStatus("active") EXCEPT !.due = FALSE]
            ELSE [sub EXCEPT !.due = FALSE]
  /\ Goes(c, "push")
  /\ UNCHANGED <<current, invoice, expired, booked, begun>>

(* No number to push to: dunning counts a failure, the end of a trial drops*)
(* the plan, and the others leave the invoice to a link or to later.       *)
NoTreasurer(c) ==
  /\ billCall[c].at = "push"
  /\ CASE billCall[c].do = "collect" -> Goes(c, "fail")
       [] billCall[c].do = "expire"  -> Goes(c, "drop")
       [] OTHER                      -> AfterPush(c)
  /\ UNCHANGED <<sub, current, invoice, expired, booked, begun>>

(* triggerStkForInvoice: nothing to pay is recorded as paid; else the push *)
(* is accepted, and the attempt counted by a later write, or it is refused.*)
PushZero(c) ==
  /\ billCall[c].at = "push" /\ invoice[billCall[c].inv].zero
  /\ Goes(c, "post")
  /\ UNCHANGED <<sub, current, invoice, expired, booked, begun>>

PushSent(c) ==
  /\ billCall[c].at = "push" /\ ~ invoice[billCall[c].inv].zero
  /\ BillDo(c, [billCall[c] EXCEPT !.at = "sent",
                                   !.seen = invoice[billCall[c].inv].attempts])
  /\ UNCHANGED <<sub, current, invoice, expired, booked, begun>>

PushCounted(c) ==
  /\ billCall[c].at = "sent"
  /\ invoice' = [invoice EXCEPT ![billCall[c].inv].attempts = billCall[c].seen + 1]
  /\ AfterPush(c)
  /\ UNCHANGED <<sub, current, expired, booked, begun>>

(* A request fails with it, and the plan change it was for is not written. *)
PushRefused(c) ==
  /\ billCall[c].at = "push"
  /\ IF billCall[c].do \in {"collect", "expire"} THEN Goes(c, "fail") ELSE BillEnds(c)
  /\ UNCHANGED <<sub, current, invoice, expired, booked, begun>>

(* markInvoiceFailed, whatever became of the invoice meanwhile.            *)
MarkFailed(c) ==
  /\ billCall[c].at = "fail"
  /\ LET i == billCall[c].inv
     IN invoice' = [invoice EXCEPT
          ![i].status   = IF invoice[i].attempts + 1 >= MaxDunning
                          THEN "uncollectible" ELSE "failed",
          ![i].attempts = @ + 1]
  /\ Goes(c, "pastDue")
  /\ UNCHANGED <<sub, current, expired, booked, begun>>

PastDue(c) ==
  /\ billCall[c].at = "pastDue"
  /\ sub' = WithStatus("past_due")
  /\ BillEnds(c)
  /\ UNCHANGED <<current, invoice, expired, booked, begun>>

(* The plan is dropped: subscription, group, and the invoice that was dunned.*)
DropSubscription(c) ==
  /\ billCall[c].at = "drop"
  /\ sub' = [WithStatus("cancelled") EXCEPT !.plan = "free"]
  /\ Goes(c, "dropPlan")
  /\ UNCHANGED <<current, invoice, expired, booked, begun>>

DropPlan(c) ==
  /\ billCall[c].at = "dropPlan"
  /\ current' = "free"
  /\ IF billCall[c].do = "collect" THEN Goes(c, "writeOff") ELSE BillEnds(c)
  /\ UNCHANGED <<sub, invoice, expired, booked, begun>>

WriteOff(c) ==
  /\ billCall[c].at = "writeOff"
  /\ invoice' = [invoice EXCEPT ![billCall[c].inv].status = "uncollectible"]
  /\ BillEnds(c)
  /\ UNCHANGED <<sub, current, expired, booked, begun>>

-------------------------------------------------------------------------------
(* Payments.                                                               *)

(* The Flutterwave webhook, as often as it is sent.                        *)
Webhook(c, i) ==
  /\ billCall[c] = BillIdle
  /\ invoice[i].status # "none"
  /\ BillDo(c, [BillIdle EXCEPT !.at = "post", !.do = "webhook", !.inv = i])
  /\ UNCHANGED <<sub, current, invoice, expired, booked, begun>>

(* A change goes on once its invoice is paid; every other call is over.    *)
Paying(c) ==
  LET change == billCall[c].do = "change"
  IN [BillIdle EXCEPT !.at = "markPaid", !.do = IF change THEN "changePaid" ELSE "webhook",
        !.inv = billCall[c].inv, !.plan = sub.plan,
        !.target = IF change THEN billCall[c].plan ELSE "free"]

PostPaymentLater(c) ==                         \* defect: paid first, booked at the end
  /\ billCall[c].at = "post"
  /\ IF invoice[billCall[c].inv].status = "paid"
     THEN AfterPush(c)
     ELSE BillDo(c, Paying(c))
  /\ UNCHANGED <<sub, current, invoice, expired, booked, begun>>

(* recordInvoicePayment: nothing for an invoice that is paid; the ledger is*)
(* posted under the invoice's key, and the plan of now is what is granted  *)
(* at the end.  Two payments at once book one transfer.                    *)
PostPayment(c) ==
  /\ billCall[c].at = "post"
  /\ IF invoice[billCall[c].inv].status = "paid"
     THEN AfterPush(c) /\ UNCHANGED booked
     ELSE /\ booked' = booked \cup {billCall[c].inv}
          /\ BillDo(c, Paying(c))
  /\ UNCHANGED <<sub, current, invoice, expired, begun>>

MarkPaid(c) ==
  /\ billCall[c].at = "markPaid"
  /\ invoice' = [invoice EXCEPT ![billCall[c].inv].status = "paid"]
  /\ Goes(c, "activate")
  /\ UNCHANGED <<sub, current, expired, booked, begun>>

(* Active again, out of its trial; then the plan is published.             *)
Activate(c) ==
  /\ billCall[c].at = "activate"
  /\ sub' = WithStatus("active")
  /\ Goes(c, "publish")
  /\ UNCHANGED <<current, invoice, expired, booked, begun>>

-------------------------------------------------------------------------------
(* The world: time passes, processes die.                                  *)

PeriodEnds ==
  /\ sub.status # "none" /\ ~ sub.due
  /\ sub' = [sub EXCEPT !.due = TRUE]
  /\ UNCHANGED <<current, invoice, expired, booked, billCall, begun>>

TrialEnds ==
  /\ sub.status = "trialing" /\ ~ sub.trialOver
  /\ sub' = [sub EXCEPT !.trialOver = TRUE]
  /\ UNCHANGED <<current, invoice, expired, booked, billCall, begun>>

(* Three days after its creation, when no request is still pushing it.     *)
InvoiceFallsDue(i) ==
  /\ invoice[i].status = "open" /\ ~ invoice[i].overdue
  /\ \A c \in BillActor : billCall[c].inv = i => billCall[c].do = "webhook"
  /\ invoice' = [invoice EXCEPT ![i].overdue = TRUE]
  /\ UNCHANGED <<sub, current, expired, booked, billCall, begun>>

CouponExpires(k) ==
  /\ k \notin expired
  /\ expired' = expired \cup {k}
  /\ UNCHANGED <<sub, current, invoice, booked, billCall, begun>>

(* The process dies, or the database fails a write.                        *)
BillCallDies(c) ==
  /\ billCall[c] # BillIdle
  /\ BillEnds(c)
  /\ IF c = Worker
     THEN begun < BillMaxBegun /\ begun' = begun + 1
     ELSE UNCHANGED begun
  /\ UNCHANGED <<sub, current, invoice, expired, booked>>

(* computeDiscount throws; or there is no invoice left (a bound).          *)
PricingThrows(c) ==
  /\ billCall[c].at = "invoice"
  /\ (PricedNow(c) /\ ~ CouponHolds(billCall[c].tag)) \/ FreshInvoice = {}
  /\ BillEnds(c)
  /\ UNCHANGED <<sub, current, invoice, expired, booked, begun>>

BillStep(c) ==
  \/ WriteDecision(c) \/ PublishPlan(c) \/ AdvancePeriod(c)
  \/ NoTreasurer(c) \/ PushZero(c) \/ PushSent(c) \/ PushCounted(c) \/ PushRefused(c)
  \/ MarkFailed(c) \/ PastDue(c)
  \/ DropSubscription(c) \/ DropPlan(c) \/ WriteOff(c)
  \/ PostPayment(c) \/ MarkPaid(c) \/ Activate(c)
  \/ ReadToGenerate(c) \/ PricingThrows(c)
  \/ \E i \in Invoice : CreateInvoice(c, i)

BillNext ==
  \/ \E c \in BillCall :
       \/ \E p \in Plans :
            \/ \E tag \in {NoTag} \cup {CouponTag(k) : k \in Coupon} : ReadCheckout(c, p, tag)
            \/ \E prorate \in BOOLEAN : ReadChangePlan(c, p, prorate)
       \/ \E immediate \in BOOLEAN : ReadCancel(c, immediate)
       \/ ReadResume(c)
       \/ \E k \in Coupon : ReadCoupon(c, k)
       \/ \E i \in Invoice : Webhook(c, i)
  \/ StartGenerate \/ StartExpire
  \/ \E c \in BillActor : BillStep(c) \/ BillCallDies(c)
  \/ \E i \in Invoice : StartCollect(i) \/ InvoiceFallsDue(i)
  \/ PeriodEnds \/ TrialEnds
  \/ \E k \in Coupon : CouponExpires(k)

(* The billing queue hands its jobs to the worker in turn, so a job that is*)
(* queued again and again is not passed over for ever, and a job that runs *)
(* goes on.                                                                *)
BillFair ==
  /\ WF_billVars(BillStep(Worker))
  /\ \A i \in Invoice : SF_billVars(StartCollect(i))

BillSpec == BillInit /\ [][BillNext]_billVars /\ BillFair

-------------------------------------------------------------------------------
(* No invoice is marked paid that the ledger does not hold, and none is    *)
(* written off before MaxDunning attempts, whatever payments, dunning and  *)
(* deaths overlap (billing.service.ts:739-753, 784, 1074-1099).            *)
InvoicesAreAccounted ==
  \A i \in Invoice :
    /\ invoice[i].status = "paid" => i \in booked
    /\ invoice[i].status = "uncollectible" => invoice[i].attempts >= MaxDunning

(* Dunning comes to an end: an open invoice that is overdue is paid, failed*)
(* or written off, however pushes go, provided the daily job runs          *)
(* (billing.service.ts:1060-1120).                                         *)
OverdueIsSettled ==
  \A i \in Invoice :
    (invoice[i].status = "open" /\ invoice[i].overdue) ~> (invoice[i].status # "open")
===============================================================================
