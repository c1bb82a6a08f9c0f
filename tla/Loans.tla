-------------------------------- MODULE Loans ---------------------------------
(***************************************************************************)
(* Loans of one group (loans.service.ts): an application with its          *)
(* guarantors and schedule, its approval or rejection, its repayments, and *)
(* the check-overdue-loans job.  Every await of a handler is a step, so    *)
(* requests on one loan interleave, and any of them may die in between.    *)
(*                                                                         *)
(* The routes guard approve and reject by requirePermission, which looks   *)
(* for a membership of the group whose id is the :id of the path           *)
(* (permissions.ts:8), and on these two routes :id is the loan.  LoanSpec  *)
(* is the service, called for a user who may; LoanRouteSpec is the service *)
(* behind its routes.                                                      *)
(* Rule verdicts (enforceRule) only refuse, which is the same as not       *)
(* asking, and notifications change nothing here.  Money is in shillings.  *)
(***************************************************************************)
EXTENDS Integers, FiniteSets, Functions

CONSTANTS
  Loan,         \* loan ids
  LoanCall,     \* concurrent requests
  LoanAmount,   \* amounts applied for
  LoanTerm,     \* months to repay them in
  LoanPay,      \* amounts repaid by one request
  LoanMember,   \* users with a membership row of the group
  LoanOfficer,  \* those of them whose role has approve_loans
  LoanGroup,    \* the group's id
  LoanMaxPays   \* bound: repayments begun per loan

(* createLoanSchema: an application.                                       *)
LoanAsk == [amount : LoanAmount, term : LoanTerm]

ASSUME LoanAssumption ==
  /\ LoanAmount \subseteq Nat \ {0} /\ LoanTerm \subseteq 1 .. 60
  /\ LoanPay \subseteq Nat \ {0} /\ IsFiniteSet(LoanCall)
  /\ LoanOfficer \subseteq LoanMember /\ LoanMaxPays \in Nat

VARIABLES
  loan,        \* loan[l]: the row, or NoLoan
  instalments, \* instalments[l]: its LoanRepayment rows, by month
  disbursed,   \* disbursed[l]: its loan_disbursement transactions
  repayments,  \* repayments[l]: the sum of its loan_repayment transactions
  pays,        \* pays[l]: repayments begun (for the bound)
  loanCall     \* loanCall[c]: what request c is doing

loanVars == <<loan, instalments, disbursed, repayments, pays, loanCall>>

NoLoan   == [status |-> "none"]
LoanIdle == [at |-> "idle"]

LoanStates == {"pending", "approved", "active", "completed", "rejected"}

LoanRow ==
  [ask : LoanAsk, status : LoanStates, repaid : Nat, dated : BOOLEAN]

LoanTypeOK ==
  /\ loan \in [Loan -> {NoLoan} \cup LoanRow]
  /\ \A l \in Loan : \A m \in DOMAIN instalments[l] :
       instalments[l][m].status \in {"pending", "overdue"}
  /\ disbursed \in [Loan -> Nat] /\ repayments \in [Loan -> Nat]
  /\ pays \in [Loan -> 0 .. LoanMaxPays]
  /\ \A c \in LoanCall : loanCall[c] = LoanIdle \/ loanCall[c].loan \in Loan

LoanInit ==
  /\ loan        = [l \in Loan |-> NoLoan]
  /\ instalments = [l \in Loan |-> <<>>]
  /\ disbursed   = [l \in Loan |-> 0]
  /\ repayments  = [l \in Loan |-> 0]
  /\ pays        = [l \in Loan |-> 0]
  /\ loanCall    = [c \in LoanCall |-> LoanIdle]

-------------------------------------------------------------------------------
(* The schedule: 12.5 percent a year on the whole amount, in equal months, *)
(* each figure rounded to the cent by itself.                              *)

(* Math.round(n / d) of positive n and d.                                  *)
Rounded(n, d) == (2 * n + d) \div (2 * d)

(* What a month costs, in cents: the amount and its interest over 12 months*)
(* of 100 percent, in units of 1/2400 of a shilling.                       *)
Instalment(a) ==
  [amount    |-> Rounded(100 * a.amount * (2400 + 25 * a.term), 2400 * a.term),
   principal |-> Rounded(100 * a.amount, a.term),
   interest  |-> Rounded(100 * a.amount * 25, 2400)]

-------------------------------------------------------------------------------
LoanDo(c, s) == loanCall' = [loanCall EXCEPT ![c] = s]

(* POST /loans: the membership is looked up first, and a row of any status *)
(* will do.                                                                *)
CreateLoan(c, l, a, u) ==
  /\ loanCall[c] = LoanIdle
  /\ u \in LoanMember
  /\ loan[l] = NoLoan
  /\ loan' = [loan EXCEPT ![l] = [ask |-> a, status |-> "pending",
                                  repaid |-> 0, dated |-> FALSE]]
  /\ LoanDo(c, [at |-> "scheduling", loan |-> l])
  /\ UNCHANGED <<instalments, disbursed, repayments, pays>>

(* The schedule is a write of its own, after the guarantors'.              *)
AddSchedule(c) ==
  /\ loanCall[c].at = "scheduling"
  /\ LET l == loanCall[c].loan
     IN instalments' = [instalments EXCEPT
          ![l] = [m \in 1 .. loan[l].ask.term |->
                    [due |-> Instalment(loan[l].ask), status |-> "pending"]]]
  /\ LoanDo(c, LoanIdle)
  /\ UNCHANGED <<loan, disbursed, repayments, pays>>

ReadForApprovalAny(c, l) ==                    \* defect: the status is not looked at
  /\ loanCall[c] = LoanIdle
  /\ loan[l] # NoLoan
  /\ LoanDo(c, [at |-> "approving", loan |-> l])
  /\ UNCHANGED <<loan, instalments, disbursed, repayments, pays>>

ReadForApproval(c, l) ==
  /\ loanCall[c] = LoanIdle
  /\ loan[l].status = "pending"
  /\ LoanDo(c, [at |-> "approving", loan |-> l])
  /\ UNCHANGED <<loan, instalments, disbursed, repayments, pays>>

(* The update names the loan alone: whatever happened since is overwritten.*)
WriteApproved(c) ==
  /\ loanCall[c].at = "approving"
  /\ LET l == loanCall[c].loan
     IN /\ loan' = [loan EXCEPT ![l].status = "approved", ![l].dated = TRUE]
        /\ LoanDo(c, [at |-> "disbursing", loan |-> l])
  /\ UNCHANGED <<instalments, disbursed, repayments, pays>>

RecordDisbursement(c) ==
  /\ loanCall[c].at = "disbursing"
  /\ disbursed' = [disbursed EXCEPT ![loanCall[c].loan] = @ + 1]
  /\ LoanDo(c, LoanIdle)
  /\ UNCHANGED <<loan, instalments, repayments, pays>>

(* reject looks only whether there is such a loan.                         *)
RejectLoan(l) ==
  /\ loan[l] # NoLoan
  /\ loan' = [loan EXCEPT ![l].status = "rejected"]
  /\ UNCHANGED <<instalments, disbursed, repayments, loanCall, pays>>

Repayable == {"approved", "active"}

ReadForRepayment(c, l, x) ==
  /\ loanCall[c] = LoanIdle
  /\ loan[l].status \in Repayable
  /\ pays[l] < LoanMaxPays
  /\ pays' = [pays EXCEPT ![l] = @ + 1]
  /\ LoanDo(c, [at |-> IF loan[l].status = "approved" THEN "activating" ELSE "repaying",
                loan |-> l, read |-> loan[l].repaid, pay |-> x])
  /\ UNCHANGED <<loan, instalments, disbursed, repayments>>

ActivateLoan(c) ==
  /\ loanCall[c].at = "activating"
  /\ loan' = [loan EXCEPT ![loanCall[c].loan].status = "active"]
  /\ LoanDo(c, [loanCall[c] EXCEPT !.at = "repaying"])
  /\ UNCHANGED <<instalments, disbursed, repayments, pays>>

WriteRepaidTwice(c) ==                         \* defect: increments by the new total
  /\ loanCall[c].at = "repaying"
  /\ LET l == loanCall[c].loan
     IN loan' = [loan EXCEPT
          ![l].repaid = @ + loanCall[c].read + loanCall[c].pay, ![l].status = "active"]
  /\ LoanDo(c, [loanCall[c] EXCEPT !.at = "recording"])
  /\ UNCHANGED <<instalments, disbursed, repayments, pays>>

(* The new amount is the one read plus the payment, whatever the row says  *)
(* by now; the interest is not asked for.                                  *)
WriteRepaid(c) ==
  /\ loanCall[c].at = "repaying"
  /\ LET l     == loanCall[c].loan
         total == loanCall[c].read + loanCall[c].pay
     IN loan' = [loan EXCEPT
          ![l].repaid = total,
          ![l].status = IF total >= loan[l].ask.amount THEN "completed" ELSE "active"]
  /\ LoanDo(c, [loanCall[c] EXCEPT !.at = "recording"])
  /\ UNCHANGED <<instalments, disbursed, repayments, pays>>

RecordRepayment(c) ==
  /\ loanCall[c].at = "recording"
  /\ repayments' = [repayments EXCEPT ![loanCall[c].loan] = @ + loanCall[c].pay]
  /\ LoanDo(c, LoanIdle)
  /\ UNCHANGED <<loan, instalments, disbursed, pays>>

(* The server dies, or the database fails, between two awaits.  A request  *)
(* that is gone keeps its record, so that a property can name it.          *)
LoanCallDies(c) ==
  /\ loanCall[c].at \in {"scheduling", "disbursing", "recording"}
  /\ LoanDo(c, [at |-> "died", was |-> loanCall[c].at, loan |-> loanCall[c].loan,
                pay |-> IF loanCall[c].at = "recording" THEN loanCall[c].pay ELSE 0])
  /\ UNCHANGED <<loan, instalments, disbursed, repayments, pays>>

(* check-overdue-loans: nothing ever marks an instalment paid, so every    *)
(* one whose day passes becomes overdue.                                   *)
MarkOverdue ==
  \E l \in Loan : \E m \in DOMAIN instalments[l] :
    /\ instalments[l][m].status = "pending"
    /\ \A k \in DOMAIN instalments[l] : k < m => instalments[l][k].status # "pending"
    /\ instalments' = [instalments EXCEPT ![l][m].status = "overdue"]
    /\ UNCHANGED <<loan, disbursed, repayments, loanCall, pays>>

LoanRequest(c) ==
  \/ \E l \in Loan :
       \/ \E a \in LoanAsk, u \in LoanMember : CreateLoan(c, l, a, u)
       \/ \E x \in LoanPay : ReadForRepayment(c, l, x)
  \/ AddSchedule(c) \/ WriteApproved(c) \/ RecordDisbursement(c)
  \/ ActivateLoan(c) \/ WriteRepaid(c) \/ RecordRepayment(c) \/ LoanCallDies(c)

LoanNext ==
  \/ \E c \in LoanCall : LoanRequest(c) \/ \E l \in Loan : ReadForApproval(c, l)
  \/ \E l \in Loan : RejectLoan(l)
  \/ MarkOverdue

LoanSpec == LoanInit /\ [][LoanNext]_loanVars

-------------------------------------------------------------------------------
(* The routes.  requirePermission wants a membership of user u in the group*)
(* whose id it finds in the path, with a role that has the permission; who *)
(* has none is answered 403, and nothing changes.                          *)
RequireApprover(u, id) == id = LoanGroup /\ u \in LoanOfficer

ApprovalRoute(c, u, l) == RequireApprover(u, l) /\ ReadForApproval(c, l)

RejectionRoute(u, l) == RequireApprover(u, l) /\ RejectLoan(l)

LoanRouteNext ==
  \/ \E c \in LoanCall : LoanRequest(c)
  \/ \E u \in LoanOfficer, l \in Loan :
       \/ RejectionRoute(u, l)
       \/ \E c \in LoanCall : ApprovalRoute(c, u, l)
  \/ MarkOverdue

LoanRouteSpec == LoanInit /\ [][LoanRouteNext]_loanVars

-------------------------------------------------------------------------------
(* Repayments written to loan l whose transaction is not there: not yet, or*)
(* not ever.                                                               *)
Unrecorded(l) ==
  {c \in LoanCall : loanCall[c].at \in {"recording", "died"} /\ loanCall[c].loan = l}

Unwritten(l) == [c \in LoanCall |-> IF c \in Unrecorded(l) THEN loanCall[c].pay ELSE 0]

(* What repayments account for.                                            *)
Backing(l) == repayments[l] + SumFunction(Unwritten(l))

(* However repayments of one loan overlap, the loan never shows more repaid*)
(* than the loan_repayment transactions account for, those a dead request  *)
(* left unwritten included: a lost update loses, it never invents          *)
(* (loans.service.ts:231-255).                                             *)
RepaidIsBacked ==
  \A l \in Loan : loan[l] # NoLoan => loan[l].repaid <= Backing(l)

(* Nothing keeps two approvals of one loan from both disbursing it, when   *)
(* both read it pending.  What does hold: the loan_disbursement            *)
(* transactions of a loan are no more than the requests that can overlap,  *)
(* and none is there before the loan is decided; no rejection, repayment or*)
(* late write makes a decided loan pending, so that it would be approved   *)
(* anew (loans.service.ts:103-134).                                        *)
DisbursementsAreBounded ==
  \A l \in Loan :
    /\ disbursed[l] <= Cardinality(LoanCall)
    /\ disbursed[l] > 0 => loan[l].status \notin {"none", "pending"}
===============================================================================
