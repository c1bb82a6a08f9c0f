-------------------------------- MODULE Revenue -------------------------------
(***************************************************************************)
(* What the platform earns and pays besides subscriptions: the fee quotes  *)
(* (revenue-config.service.ts, fees.service.ts), referrals and their       *)
(* rewards (referral.service.ts), cash-out and the audit reports sold      *)
(* (revenue.routes.ts, audit-report.worker.ts).                            *)
(*                                                                         *)
(* processReferralReward, which the retry worker calls, selects ownerId of *)
(* the group, a column the schema does not have: Prisma rejects its first  *)
(* query, so no reward row is ever written and totalEarnedKes stays 0.     *)
(* trackReferralSignup has no caller in this version; it is modelled as    *)
(* exported.                                                               *)
(*                                                                         *)
(* Rates are in thousandths and amounts of fees in thousandths of a        *)
(* shilling, so that no quote is rounded.                                  *)
(***************************************************************************)
EXTENDS Integers

CONSTANTS
  Gross,         \* whole amounts that quotes and cash-outs are asked for
  Report         \* audit reports bought

(* The schemas of the routes admit positive amounts only.                  *)
ASSUME RevenueAssumption == Gross \subseteq Nat \ {0}

VARIABLES
  quote,         \* the last quote given
  tracking,      \* the referral of the user: "none" or "signed_up"
  refCode,       \* the referrer has a code
  report,        \* report[r]: its Transaction, "none", "pending", "completed"
  reportJob,     \* reportJob[r]: "none", "queued", "gathered", "uploaded", "done"
  revAnswer      \* the answer to the last request

refVars    == <<tracking, refCode>>
reportVars == <<report, reportJob>>
revVars    == <<quote, refVars, reportVars, revAnswer>>

NoQuote == [type |-> "none", gross |-> 0, fee |-> 0, net |-> 0]

(* REVENUE_CONFIG.fees, the seven that can be quoted.                      *)
FeeSchedule ==
  [contribution       |-> [rate |-> 10, flat |-> 0,   min |-> 0,   max |-> 500],
   harambee           |-> [rate |-> 25, flat |-> 0,   min |-> 0,   max |-> 2500],
   loanOrigination    |-> [rate |-> 20, flat |-> 0,   min |-> 100, max |-> 5000],
   withdrawal         |-> [rate |-> 0,  flat |-> 25,  min |-> 0,   max |-> 25],
   b2cPayout          |-> [rate |-> 5,  flat |-> 0,   min |-> 30,  max |-> 500],
   latePayment        |-> [rate |-> 0,  flat |-> 100, min |-> 0,   max |-> 100],
   currencyConversion |-> [rate |-> 15, flat |-> 0,   min |-> 0,   max |-> 5000]]

FeeType == DOMAIN FeeSchedule

RevTypeOK ==
  /\ quote = NoQuote \/ quote.type \in FeeType
  /\ tracking \in {"none", "signed_up"} /\ refCode \in BOOLEAN
  /\ report \in [Report -> {"none", "pending", "completed"}]
  /\ reportJob \in [Report -> {"none", "queued", "gathered", "uploaded", "done"}]
  /\ revAnswer \in {"none", "ok", "invalid", "notFound", "forbidden", "error"}

RevInit ==
  /\ quote = NoQuote
  /\ tracking = "none" /\ refCode = FALSE
  /\ report    = [r \in Report |-> "none"]
  /\ reportJob = [r \in Report |-> "none"]
  /\ revAnswer = "none"

-------------------------------------------------------------------------------
AtLeast(low, x) == IF low > 0 /\ x < low THEN low ELSE x
AtMost(high, x) == IF high > 0 /\ x > high THEN high ELSE x
LesserOf(x, y)  == IF x < y THEN x ELSE y

FeeFlooredLast(type, gross) ==                 \* defect: the floor over the cap
  LET f == FeeSchedule[type]
  IN IF gross <= 0 THEN 0
     ELSE AtLeast(1000 * f.min,
            LesserOf(AtMost(1000 * f.max, gross * f.rate + 1000 * f.flat), 1000 * gross))

(* quoteFee; computePayoutFee is the same with the schedule of b2cPayout.  *)
FeeOf(type, gross) ==
  LET f == FeeSchedule[type]
      clamped == AtMost(1000 * f.max, AtLeast(1000 * f.min, gross * f.rate + 1000 * f.flat))
  IN IF gross <= 0 THEN 0 ELSE LesserOf(clamped, 1000 * gross)

NetOf(type, gross) == 1000 * gross - FeeOf(type, gross)

QuoteFee(type, gross) ==
  /\ quote' = [type |-> type, gross |-> gross, fee |-> FeeOf(type, gross),
               net |-> NetOf(type, gross)]
  /\ revAnswer' = "ok"
  /\ UNCHANGED <<refVars, reportVars>>

(* quoteAllForContribution.                                                *)
QuoteContribution(gross, isHarambee) ==
  QuoteFee(IF isHarambee THEN "harambee" ELSE "contribution", gross)

(* listRevenueStreams reads flatFee of every entry of the configuration; the*)
(* add-ons have none.                                                      *)
RevenueStreams ==
  /\ revAnswer' = "error"
  /\ UNCHANGED <<quote, refVars, reportVars>>

-------------------------------------------------------------------------------
(* getOrCreateReferralCode.                                                *)
GetReferralCode ==
  /\ refCode' = TRUE /\ revAnswer' = "ok"
  /\ UNCHANGED <<quote, tracking, reportVars>>

(* validateReferralCode and trackReferralSignup, of another user.          *)
TrackReferralSignup ==
  /\ refCode
  /\ tracking' = "signed_up"
  /\ UNCHANGED <<quote, refCode, reportVars, revAnswer>>

(* processReferralReward, and getReferralStats, which includes the group of*)
(* a reward, a relation the schema does not have either.                   *)
ReferralThrows ==
  /\ revAnswer' = "error"
  /\ UNCHANGED <<quote, refVars, reportVars>>

(* /referral/cashout: bounded, and by what was earned, which is nothing.   *)
Cashout(requested) ==
  /\ revAnswer' = IF 100 <= requested /\ requested <= 100000 /\ ~ refCode
                  THEN "notFound" ELSE "invalid"
  /\ UNCHANGED <<quote, refVars, reportVars>>

-------------------------------------------------------------------------------
(* audit-report/purchase: by an officer; the job is queued at once.        *)
BuyReport(r, officer) ==
  /\ report[r] = "none"
  /\ IF officer
     THEN report' = [report EXCEPT ![r] = "pending"] /\ revAnswer' = "ok"
     ELSE UNCHANGED report /\ revAnswer' = "forbidden"
  /\ UNCHANGED <<quote, refVars, reportJob>>

QueueReport(r) ==
  /\ report[r] = "pending" /\ reportJob[r] = "none"
  /\ reportJob' = [reportJob EXCEPT ![r] = "queued"]
  /\ UNCHANGED <<quote, refVars, report, revAnswer>>

(* processAuditReport: figures, upload, the Transaction marked, the buyer  *)
(* told; an error or a crash leaves the job to be tried again.             *)
GatherFigures(r) ==
  /\ reportJob[r] = "queued"
  /\ reportJob' = [reportJob EXCEPT ![r] = "gathered"]
  /\ UNCHANGED <<quote, refVars, report, revAnswer>>

UploadReport(r) ==
  /\ reportJob[r] = "gathered"
  /\ reportJob' = [reportJob EXCEPT ![r] = "uploaded"]
  /\ UNCHANGED <<quote, refVars, report, revAnswer>>

CompleteReport(r) ==
  /\ reportJob[r] = "uploaded"
  /\ report' = [report EXCEPT ![r] = "completed"]
  /\ reportJob' = [reportJob EXCEPT ![r] = "done"]
  /\ UNCHANGED <<quote, refVars, revAnswer>>

RetryReport(r) ==
  /\ reportJob[r] \in {"gathered", "uploaded"}
  /\ reportJob' = [reportJob EXCEPT ![r] = "queued"]
  /\ UNCHANGED <<quote, refVars, report, revAnswer>>

RevNext ==
  \/ \E gross \in Gross :
       \/ \E type \in FeeType : QuoteFee(type, gross)
       \/ \E isHarambee \in BOOLEAN : QuoteContribution(gross, isHarambee)
       \/ Cashout(gross)
  \/ RevenueStreams \/ GetReferralCode \/ TrackReferralSignup \/ ReferralThrows
  \/ \E r \in Report : \/ \E officer \in BOOLEAN : BuyReport(r, officer)
                       \/ QueueReport(r) \/ GatherFigures(r) \/ UploadReport(r)
                       \/ CompleteReport(r) \/ RetryReport(r)

RevSpec == RevInit /\ [][RevNext]_revVars

-------------------------------------------------------------------------------
(* No quote has a cliff: what is left of a payment is never negative, it   *)
(* and the fee are the payment, and a payment one shilling larger never    *)
(* leaves less (revenue-config.service.ts:239-279).                        *)
NoFeeCliff ==
  quote # NoQuote =>
    /\ quote.net >= 0 /\ quote.fee >= 0
    /\ quote.fee + quote.net = 1000 * quote.gross
    /\ NetOf(quote.type, quote.gross + 1) >= quote.net
===============================================================================
