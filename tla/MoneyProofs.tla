------------------------------ MODULE MoneyProofs -----------------------------
(***************************************************************************)
(* Proofs about the rows that keep amounts outside the ledger: Loans,      *)
(* Wallets, Imports, Revenue (fee quotes, rewards, cash-out) and Paybill   *)
(* (account numbers and the counters of pushes), for every number of loans,*)
(* requests, callbacks and rows.                                           *)
(*                                                                         *)
(* In the first three an amount is stored in one row and accounted for by  *)
(* others, and what is proved relates it to their sum (module Sums).       *)
(***************************************************************************)
EXTENDS Loans, Wallets, Imports, Revenue, Paybill, Sums, SequenceTheorems, TLAPS

-------------------------------------------------------------------------------
(* Loans.  A request carries the loan it read, and a loan that was ever    *)
(* there stays there (LoanShape).  With that, the status of a loan leaves  *)
(* "pending" for good, and only a request that read it pending can still   *)
(* disburse.                                                               *)


Deciding  == [at : {"scheduling", "approving", "disbursing"}, loan : Loan]
Repaying  == [at : {"activating", "repaying", "recording"}, loan : Loan,
              read : Nat, pay : Nat]
Gone      == [at : {"died"}, was : {"scheduling", "disbursing", "recording"},
              loan : Loan, pay : Nat]
CallState == {LoanIdle} \cup Deciding \cup Repaying \cup Gone

Row == [due : {Instalment(a) : a \in LoanAsk}, status : {"pending", "overdue"}]

LoanShape ==
  /\ loan \in [Loan -> {NoLoan} \cup LoanRow]
  /\ DOMAIN instalments = Loan
  /\ \A l \in Loan : \A m \in DOMAIN instalments[l] : instalments[l][m] \in Row
  /\ disbursed \in [Loan -> Nat] /\ repayments \in [Loan -> Nat]
  /\ pays \in [Loan -> 0 .. LoanMaxPays]
  /\ loanCall \in [LoanCall -> CallState]
  /\ \A c \in LoanCall : loanCall[c] # LoanIdle => loan[loanCall[c].loan] # NoLoan

(* What the places of a request tell of its record.                        *)
LEMMA CallShape ==
  ASSUME NEW s \in CallState
  PROVE  /\ s # LoanIdle => s.loan \in Loan /\ s.at # "idle"
         /\ s.at \in {"activating", "repaying", "recording"} =>
              /\ s.read \in Nat /\ s.pay \in Nat
              /\ s = [at |-> s.at, loan |-> s.loan, read |-> s.read, pay |-> s.pay]
<1>1. CASE s = LoanIdle
  BY <1>1 DEF LoanIdle
<1>2. CASE s \in Deciding
  BY <1>2 DEF Deciding
<1>3. CASE s \in Repaying
  BY <1>3 DEF Repaying
<1>4. CASE s \in Gone
  BY <1>4 DEF Gone
<1> QED
  BY <1>1, <1>2, <1>3, <1>4 DEF CallState

(* The records that requests write are of those kinds.                     *)
LEMMA CallForms ==
  /\ LoanIdle \in CallState /\ LoanIdle.at = "idle"
  /\ \A l \in Loan, a \in {"scheduling", "approving", "disbursing"} :
       [at |-> a, loan |-> l] \in CallState
  /\ \A l \in Loan, a \in {"activating", "repaying", "recording"}, r, p \in Nat :
       [at |-> a, loan |-> l, read |-> r, pay |-> p] \in CallState
  /\ \A l \in Loan, a \in {"scheduling", "disbursing", "recording"}, p \in Nat :
       [at |-> "died", was |-> a, loan |-> l, pay |-> p] \in CallState
BY DEF CallState, LoanIdle, Deciding, Repaying, Gone

(* A loan is there when its status says so.                                *)
LEMMA RowShape ==
  ASSUME NEW r \in {NoLoan} \cup LoanRow
  PROVE  /\ r # NoLoan <=> r \in LoanRow
         /\ r # NoLoan <=> r.status # "none"
         /\ r \in LoanRow => /\ r.ask \in LoanAsk /\ r.ask.amount \in Nat
                             /\ r.repaid \in Nat /\ r.status \in LoanStates
                             /\ r.dated \in BOOLEAN
<1>1. \A a \in LoanAsk : a.amount \in Nat
  BY LoanAssumption DEF LoanAsk
<1> QED
  BY <1>1 DEF NoLoan, LoanRow, LoanStates

(* Without loans and requests all is in shape.                             *)
LEMMA InitLoanShape == LoanInit => LoanShape
BY LoanAssumption DEF LoanInit, LoanShape, CallState, LoanRow

(* A step has to answer only for the loan row and the request it writes.   *)
LEMMA ShapeStep ==
  ASSUME LoanShape,
         NEW c \in LoanCall, NEW s \in CallState,
         loanCall' = [loanCall EXCEPT ![c] = s],
         s # LoanIdle => loan'[s.loan] # NoLoan,
         \/ loan' = loan
         \/ \E l \in Loan, r \in LoanRow : loan' = [loan EXCEPT ![l] = r],
         DOMAIN instalments' = Loan,
         \A l \in Loan : \A m \in DOMAIN instalments'[l] : instalments'[l][m] \in Row,
         disbursed' \in [Loan -> Nat], repayments' \in [Loan -> Nat],
         pays' \in [Loan -> 0 .. LoanMaxPays]
  PROVE  LoanShape'
<1>1. /\ loan' \in [Loan -> {NoLoan} \cup LoanRow]
      /\ \A l \in Loan : loan[l] # NoLoan => loan'[l] # NoLoan
  BY RowShape DEF LoanShape
<1>2. loanCall' \in [LoanCall -> CallState]
  BY DEF LoanShape
<1>3. \A d \in LoanCall : loanCall'[d] # LoanIdle => loan'[loanCall'[d].loan] # NoLoan
  <2> SUFFICES ASSUME NEW d \in LoanCall, d # c, loanCall[d] # LoanIdle
               PROVE  loan'[loanCall[d].loan] # NoLoan
    BY DEF LoanShape
  <2>1. loanCall[d].loan \in Loan
    BY CallShape DEF LoanShape
  <2> QED
    BY <1>1, <2>1 DEF LoanShape
<1> QED
  BY <1>1, <1>2, <1>3 DEF LoanShape

(* Applications and their schedule.                                        *)
LEMMA ApplyingShape ==
  ASSUME LoanShape, NEW c \in LoanCall,
         \/ AddSchedule(c)
         \/ \E l \in Loan, a \in LoanAsk, u \in LoanMember : CreateLoan(c, l, a, u)
  PROVE  LoanShape'
<1> USE DEF LoanDo
<1>1. ASSUME NEW l \in Loan, NEW a \in LoanAsk, NEW u \in LoanMember, CreateLoan(c, l, a, u)
      PROVE  LoanShape'
  <2> DEFINE r == [ask |-> a, status |-> "pending", repaid |-> 0, dated |-> FALSE]
             s == [at |-> "scheduling", loan |-> l]
  <2>1. r \in LoanRow /\ r # NoLoan /\ s \in CallState /\ s.loan = l
    BY CallForms, RowShape DEF LoanRow, LoanStates, NoLoan
  <2>2. /\ loan' = [loan EXCEPT ![l] = r] /\ loanCall' = [loanCall EXCEPT ![c] = s]
        /\ UNCHANGED <<instalments, disbursed, repayments, pays>>
    BY <1>1 DEF CreateLoan
  <2> HIDE DEF r, s
  <2> QED
    BY <2>1, <2>2, ShapeStep DEF LoanShape
<1>2. CASE AddSchedule(c)
  <2> DEFINE l == loanCall[c].loan
  <2>1. loanCall[c] # LoanIdle /\ l \in Loan /\ loan[l] \in LoanRow
    BY <1>2, CallShape, CallForms, RowShape DEF AddSchedule, LoanShape
  <2>2. [due |-> Instalment(loan[l].ask), status |-> "pending"] \in Row
    BY <2>1, RowShape DEF Row
  <2>3. /\ DOMAIN instalments' = Loan
        /\ \A k \in Loan : \A m \in DOMAIN instalments'[k] : instalments'[k][m] \in Row
    BY <1>2, <2>1, <2>2 DEF AddSchedule, LoanShape
  <2> QED
    BY <1>2, <2>3, ShapeStep, CallForms DEF AddSchedule, LoanShape
<1> QED
  BY <1>1, <1>2

(* Approval and rejection.                                                 *)
LEMMA DecidingShape ==
  ASSUME LoanShape, NEW c \in LoanCall,
         \/ \E l \in Loan : ReadForApproval(c, l)
         \/ WriteApproved(c) \/ RecordDisbursement(c)
  PROVE  LoanShape'
<1> USE DEF LoanDo
<1>1. ASSUME NEW l \in Loan, ReadForApproval(c, l) PROVE LoanShape'
  <2> DEFINE s == [at |-> "approving", loan |-> l]
  <2>1. s \in CallState /\ s.loan = l /\ loan[l] # NoLoan
    <3>1. loan[l].status = "pending"
      BY <1>1 DEF ReadForApproval
    <3>2. loan[l] # NoLoan
      BY <3>1 DEF NoLoan
    <3> QED
      BY <3>2, CallForms
  <2>2. /\ loanCall' = [loanCall EXCEPT ![c] = s]
        /\ UNCHANGED <<loan, instalments, disbursed, repayments, pays>>
    BY <1>1 DEF ReadForApproval
  <2> HIDE DEF s
  <2> QED
    BY <2>1, <2>2, ShapeStep DEF LoanShape
<1>2. CASE WriteApproved(c)
  <2> DEFINE l == loanCall[c].loan
             s == [at |-> "disbursing", loan |-> l]
             r == [loan[l] EXCEPT !.status = "approved", !.dated = TRUE]
  <2>1. l \in Loan /\ loan[l] \in LoanRow
    BY <1>2, CallShape, CallForms, RowShape DEF WriteApproved, LoanShape
  <2>2. r \in LoanRow /\ r # NoLoan /\ s \in CallState /\ s.loan = l
    BY <2>1, CallForms, RowShape DEF LoanRow, LoanStates
  <2>3. /\ loan' = [loan EXCEPT ![l] = r] /\ loanCall' = [loanCall EXCEPT ![c] = s]
        /\ UNCHANGED <<instalments, disbursed, repayments, pays>>
    BY <1>2, <2>1 DEF WriteApproved, LoanShape
  <2> HIDE DEF r, s
  <2> QED
    BY <2>1, <2>2, <2>3, ShapeStep DEF LoanShape
<1>3. CASE RecordDisbursement(c)
  <2>1. disbursed' \in [Loan -> Nat]
    <3>1. loanCall[c].loan \in Loan
      BY <1>3, CallShape, CallForms DEF RecordDisbursement, LoanShape
    <3> QED
      BY <1>3, <3>1 DEF RecordDisbursement, LoanShape
  <2> QED
    BY <1>3, <2>1, ShapeStep, CallForms DEF RecordDisbursement, LoanShape
<1> QED
  BY <1>1, <1>2, <1>3

(* Repayments, and requests that die.                                      *)
LEMMA RepayingShape ==
  ASSUME LoanShape, NEW c \in LoanCall,
         \/ \E l \in Loan, x \in LoanPay : ReadForRepayment(c, l, x)
         \/ ActivateLoan(c) \/ WriteRepaid(c) \/ RecordRepayment(c) \/ LoanCallDies(c)
  PROVE  LoanShape'
<1> USE DEF LoanDo
<1> DEFINE k == loanCall[c].loan
<1>1. ASSUME NEW l \in Loan, NEW x \in LoanPay, ReadForRepayment(c, l, x) PROVE LoanShape'
  <2> DEFINE s == [at |-> IF loan[l].status = "approved" THEN "activating" ELSE "repaying",
                   loan |-> l, read |-> loan[l].repaid, pay |-> x]
  <2>1. loan[l] # NoLoan /\ loan[l].repaid \in Nat /\ x \in Nat
    BY <1>1, RowShape, LoanAssumption DEF ReadForRepayment, Repayable, NoLoan, LoanShape
  <2>2. s \in CallState /\ s.loan = l
    BY <2>1, CallForms
  <2>3. pays' \in [Loan -> 0 .. LoanMaxPays]
    BY <1>1, LoanAssumption DEF ReadForRepayment, LoanShape
  <2>4. /\ loanCall' = [loanCall EXCEPT ![c] = s]
        /\ UNCHANGED <<loan, instalments, disbursed, repayments>>
    BY <1>1 DEF ReadForRepayment
  <2> HIDE DEF s
  <2> QED
    BY <2>1, <2>2, <2>3, <2>4, ShapeStep DEF LoanShape
<1>2. ASSUME loanCall[c] # LoanIdle PROVE k \in Loan /\ loan[k] \in LoanRow
  BY <1>2, CallShape, RowShape DEF LoanShape
<1>3. CASE ActivateLoan(c)
  <2> DEFINE r == [loan[k] EXCEPT !.status = "active"]
             s == [loanCall[c] EXCEPT !.at = "repaying"]
  <2>1. k \in Loan /\ loan[k] \in LoanRow
    BY <1>2, <1>3, CallForms DEF ActivateLoan
  <2>2. s = [at |-> "repaying", loan |-> k, read |-> loanCall[c].read, pay |-> loanCall[c].pay]
    BY <1>3, CallShape DEF ActivateLoan, LoanShape
  <2>3. s \in CallState /\ s.loan = k
    <3>1. loanCall[c].read \in Nat /\ loanCall[c].pay \in Nat
      BY <1>3, CallShape DEF ActivateLoan, LoanShape
    <3> HIDE DEF s
    <3> QED
      BY <2>1, <2>2, <3>1, CallForms
  <2>4. r \in LoanRow /\ r # NoLoan
    BY <2>1, RowShape DEF LoanRow, LoanStates
  <2>5. /\ loan' = [loan EXCEPT ![k] = r] /\ loanCall' = [loanCall EXCEPT ![c] = s]
        /\ UNCHANGED <<instalments, disbursed, repayments, pays>>
    BY <1>3 DEF ActivateLoan
  <2> HIDE DEF r, s
  <2> QED
    BY <2>1, <2>3, <2>4, <2>5, ShapeStep DEF LoanShape
<1>4. CASE WriteRepaid(c)
  <2> DEFINE total == loanCall[c].read + loanCall[c].pay
             r == [loan[k] EXCEPT
                     !.repaid = total,
                     !.status = IF total >= loan[k].ask.amount THEN "completed" ELSE "active"]
             s == [loanCall[c] EXCEPT !.at = "recording"]
  <2>1. k \in Loan /\ loan[k] \in LoanRow
    BY <1>2, <1>4, CallForms DEF WriteRepaid
  <2>2. s = [at |-> "recording", loan |-> k, read |-> loanCall[c].read, pay |-> loanCall[c].pay]
    BY <1>4, CallShape DEF WriteRepaid, LoanShape
  <2>3. s \in CallState /\ s.loan = k /\ total \in Nat
    <3>1. loanCall[c].read \in Nat /\ loanCall[c].pay \in Nat
      BY <1>4, CallShape DEF WriteRepaid, LoanShape
    <3>2. total \in Nat
      BY <3>1
    <3> HIDE DEF s, total
    <3> QED
      BY <2>1, <2>2, <3>1, <3>2, CallForms
  <2>4. r \in LoanRow /\ r # NoLoan
    BY <2>1, <2>3, RowShape DEF LoanRow, LoanStates
  <2>5. /\ loan' = [loan EXCEPT ![k] = r] /\ loanCall' = [loanCall EXCEPT ![c] = s]
        /\ UNCHANGED <<instalments, disbursed, repayments, pays>>
    BY <1>4, <2>1 DEF WriteRepaid, LoanShape
  <2> HIDE DEF r, s, total
  <2> QED
    BY <2>1, <2>3, <2>4, <2>5, ShapeStep DEF LoanShape
<1>5. CASE RecordRepayment(c)
  <2>1. k \in Loan /\ loanCall[c].pay \in Nat
    BY <1>5, CallShape, CallForms DEF RecordRepayment, LoanShape
  <2>2. repayments' \in [Loan -> Nat]
    BY <1>5, <2>1 DEF RecordRepayment, LoanShape
  <2> QED
    BY <1>5, <2>2, ShapeStep, CallForms DEF RecordRepayment, LoanShape
<1>6. CASE LoanCallDies(c)
  <2> DEFINE p == IF loanCall[c].at = "recording" THEN loanCall[c].pay ELSE 0
             s == [at |-> "died", was |-> loanCall[c].at, loan |-> k, pay |-> p]
  <2>1. /\ k \in Loan /\ loan[k] # NoLoan /\ p \in Nat
        /\ loanCall[c].at \in {"scheduling", "disbursing", "recording"}
    BY <1>6, CallShape, CallForms DEF LoanCallDies, LoanShape
  <2>2. s \in CallState /\ s.loan = k
    BY <2>1, CallForms
  <2>3. /\ loanCall' = [loanCall EXCEPT ![c] = s]
        /\ UNCHANGED <<loan, instalments, disbursed, repayments, pays>>
    BY <1>6 DEF LoanCallDies
  <2> HIDE DEF s
  <2> QED
    BY <2>1, <2>2, <2>3, ShapeStep DEF LoanShape
<1> QED
  BY <1>1, <1>3, <1>4, <1>5, <1>6

(* What happens without a request: rejections and the overdue job.         *)
LEMMA OutsideShape ==
  ASSUME LoanShape,
         \/ MarkOverdue
         \/ \E l \in Loan : RejectLoan(l)
  PROVE  LoanShape'
<1>1. CASE MarkOverdue
  <2>0. PICK l \in Loan : \E m \in DOMAIN instalments[l] :
          /\ instalments' = [instalments EXCEPT ![l][m].status = "overdue"]
          /\ UNCHANGED <<loan, disbursed, repayments, loanCall, pays>>
    BY <1>1 DEF MarkOverdue
  <2>1. PICK m \in DOMAIN instalments[l] :
          /\ instalments' = [instalments EXCEPT ![l][m].status = "overdue"]
          /\ UNCHANGED <<loan, disbursed, repayments, loanCall, pays>>
    BY <2>0
  <2>2. /\ DOMAIN instalments' = Loan
        /\ \A k \in Loan : k # l => instalments'[k] = instalments[k]
        /\ instalments'[l] = [instalments[l] EXCEPT ![m].status = "overdue"]
    BY <2>1 DEF LoanShape
  <2>3. \A n \in DOMAIN instalments'[l] :
          n \in DOMAIN instalments[l] /\ instalments'[l][n] \in Row
    BY <2>1, <2>2 DEF LoanShape, Row
  <2>4. \A k \in Loan : \A n \in DOMAIN instalments'[k] : instalments'[k][n] \in Row
    BY <2>2, <2>3 DEF LoanShape
  <2> QED
    BY <2>1, <2>2, <2>4 DEF LoanShape
<1>2. ASSUME NEW l \in Loan, RejectLoan(l) PROVE LoanShape'
  <2>1. loan[l] \in LoanRow /\ [loan[l] EXCEPT !.status = "rejected"] \in LoanRow
    BY <1>2, RowShape DEF RejectLoan, LoanShape, LoanRow, LoanStates
  <2>2. /\ loan' \in [Loan -> {NoLoan} \cup LoanRow]
        /\ \A k \in Loan : loan[k] # NoLoan => loan'[k] # NoLoan
    BY <1>2, <2>1, RowShape DEF RejectLoan, LoanShape
  <2>3. \A c \in LoanCall : loanCall[c] # LoanIdle => loan'[loanCall[c].loan] # NoLoan
    BY <2>2, CallShape DEF LoanShape
  <2> QED
    BY <1>2, <2>2, <2>3 DEF RejectLoan, LoanShape
<1> QED
  BY <1>1, <1>2

(* The service, alone or behind its routes.                                *)
LoanAnyNext == LoanNext \/ LoanRouteNext

(* Every step of the service keeps the shape,                              *)
LEMMA NextLoanShape == LoanShape /\ [LoanAnyNext]_loanVars => LoanShape'
<1> SUFFICES ASSUME LoanShape, [LoanAnyNext]_loanVars PROVE LoanShape'
  OBVIOUS
<1>1. CASE UNCHANGED loanVars
  BY <1>1 DEF loanVars, LoanShape
<1>2. ASSUME NEW c \in LoanCall, LoanRequest(c) \/ \E l \in Loan : ReadForApproval(c, l)
      PROVE  LoanShape'
  BY <1>2, ApplyingShape, DecidingShape, RepayingShape DEF LoanRequest
<1> QED
  BY <1>1, <1>2, OutsideShape
  DEF LoanAnyNext, LoanNext, LoanRouteNext, ApprovalRoute, RejectionRoute

(* so it holds of the service                                              *)
THEOREM LoanInvariance == LoanSpec => []LoanShape
<1>1. [LoanNext]_loanVars => [LoanAnyNext]_loanVars
  BY DEF LoanAnyNext
<1> QED
  BY <1>1, InitLoanShape, NextLoanShape, PTL DEF LoanSpec

(* and of the service behind its routes.                                   *)
THEOREM LoanRouteInvariance == LoanRouteSpec => []LoanShape
<1>1. [LoanRouteNext]_loanVars => [LoanAnyNext]_loanVars
  BY DEF LoanAnyNext
<1> QED
  BY <1>1, InitLoanShape, NextLoanShape, PTL DEF LoanRouteSpec

(* Every loan, instalment and request is typed.                            *)
THEOREM LoanTypeCorrect == LoanSpec => []LoanTypeOK
<1>1. LoanShape => LoanTypeOK
  BY CallShape DEF LoanShape, LoanTypeOK, Row
<1> QED
  BY <1>1, LoanInvariance, PTL

-------------------------------------------------------------------------------
(* Bounded disbursements.  A request that approves a loan has read it      *)
(* pending; once the loan is decided none begins any more, so what was     *)
(* disbursed and what still may be add up to requests that overlapped.     *)

Approvals(l) ==
  {c \in LoanCall : loanCall[c].at \in {"approving", "disbursing"} /\ loanCall[c].loan = l}

Disbursing(c, l) == loanCall[c].at = "disbursing" /\ loanCall[c].loan = l

Undecided(l) == loan[l].status \in {"none", "pending"}

BoundedLoan(l) ==
  /\ disbursed[l] + Cardinality(Approvals(l)) <= Cardinality(LoanCall)
  /\ Undecided(l) => disbursed[l] = 0 /\ \A c \in LoanCall : ~ Disbursing(c, l)

DisburseInv == \A l \in Loan : BoundedLoan(l)

LEMMA ApprovalsAreFew ==
  /\ IsFiniteSet(LoanCall) /\ Cardinality(LoanCall) \in Nat
  /\ \A l \in Loan : /\ IsFiniteSet(Approvals(l)) /\ Cardinality(Approvals(l)) \in Nat
                     /\ Cardinality(Approvals(l)) <= Cardinality(LoanCall)
<1>1. IsFiniteSet(LoanCall) /\ Cardinality(LoanCall) \in Nat
  BY LoanAssumption, FS_CardinalityType
<1>2. ASSUME NEW l \in Loan
      PROVE  /\ IsFiniteSet(Approvals(l)) /\ Cardinality(Approvals(l)) \in Nat
             /\ Cardinality(Approvals(l)) <= Cardinality(LoanCall)
  <2>1. Approvals(l) \subseteq LoanCall
    BY DEF Approvals
  <2> QED
    BY <1>1, <2>1, FS_Subset, FS_CardinalityType
<1> QED
  BY <1>1, <1>2

LEMMA ApprovalsAreFewLater ==
  \A l \in Loan : /\ Cardinality(Approvals(l)') \in Nat
                  /\ Cardinality(Approvals(l)') <= Cardinality(LoanCall)
<1>1. ASSUME NEW l \in Loan
      PROVE  /\ Cardinality(Approvals(l)') \in Nat
             /\ Cardinality(Approvals(l)') <= Cardinality(LoanCall)
  <2>1. Approvals(l)' \subseteq LoanCall /\ IsFiniteSet(LoanCall)
    BY ApprovalsAreFew DEF Approvals
  <2> QED
    BY <2>1, FS_Subset, FS_CardinalityType
<1> QED
  BY <1>1

(* A step that begins no approval and disburses nothing.                   *)
LEMMA BoundStep ==
  ASSUME LoanShape, NEW l \in Loan, BoundedLoan(l), disbursed'[l] = disbursed[l],
         Approvals(l)' \subseteq Approvals(l),
         Undecided(l)' => /\ Undecided(l)
                          /\ \A c \in LoanCall : Disbursing(c, l)' => Disbursing(c, l)
  PROVE  BoundedLoan(l)'
<1>1. /\ Cardinality(Approvals(l)') <= Cardinality(Approvals(l))
      /\ Cardinality(Approvals(l)') \in Nat
  BY ApprovalsAreFew, ApprovalsAreFewLater, FS_Subset
<1>2. Cardinality(Approvals(l)) \in Nat /\ disbursed[l] \in Nat /\ Cardinality(LoanCall) \in Nat
  BY ApprovalsAreFew DEF LoanShape
<1>3. (disbursed[l] + Cardinality(Approvals(l)) <= Cardinality(LoanCall))'
  BY <1>1, <1>2 DEF BoundedLoan
<1> QED
  BY <1>3 DEF BoundedLoan

(* Most steps leave the loan as it is or make it something else than       *)
(* pending, and take no request into its approval.                         *)
LEMMA AsideStep ==
  ASSUME LoanShape, NEW l \in Loan, BoundedLoan(l), disbursed'[l] = disbursed[l],
         loan'[l] = loan[l] \/ loan'[l].status \in LoanStates \ {"pending"},
         \A d \in LoanCall : \/ loanCall'[d] = loanCall[d]
                             \/ loanCall'[d].at \notin {"approving", "disbursing"}
                             \/ loanCall'[d].loan # l
  PROVE  BoundedLoan(l)'
<1>1. Approvals(l)' \subseteq Approvals(l)
  BY DEF Approvals
<1>2. Undecided(l)' => Undecided(l)
  BY DEF Undecided, LoanStates
<1>3. \A c \in LoanCall : Disbursing(c, l)' => Disbursing(c, l)
  BY DEF Disbursing
<1> QED
  BY <1>1, <1>2, <1>3, BoundStep

LEMMA ApplyingBounded ==
  ASSUME LoanShape, NEW l \in Loan, BoundedLoan(l), NEW c \in LoanCall,
         \/ AddSchedule(c)
         \/ \E k \in Loan, a \in LoanAsk, u \in LoanMember : CreateLoan(c, k, a, u)
  PROVE  BoundedLoan(l)'
<1> USE DEF LoanDo
<1>1. CASE AddSchedule(c)
  BY <1>1, AsideStep, CallForms DEF AddSchedule, LoanShape
<1>2. ASSUME NEW k \in Loan, NEW a \in LoanAsk, NEW u \in LoanMember, CreateLoan(c, k, a, u)
      PROVE  BoundedLoan(l)'
  <2>1. /\ \A d \in LoanCall : d # c => loanCall'[d] = loanCall[d]
        /\ loanCall'[c] = [at |-> "scheduling", loan |-> k]
        /\ disbursed' = disbursed
    BY <1>2 DEF CreateLoan, LoanShape
  <2>2. CASE k # l
    BY <1>2, <2>1, <2>2, AsideStep DEF CreateLoan, LoanShape
  <2>3. CASE k = l
    <3>1. Undecided(l)
      BY <1>2, <2>3 DEF CreateLoan, Undecided, NoLoan
    <3>2. Approvals(l)' \subseteq Approvals(l)
      BY <2>1 DEF Approvals
    <3>3. \A d \in LoanCall : Disbursing(d, l)' => Disbursing(d, l)
      BY <2>1 DEF Disbursing
    <3> QED
      BY <2>1, <3>1, <3>2, <3>3, BoundStep
  <2> QED
    BY <2>2, <2>3
<1> QED
  BY <1>1, <1>2

(* A request that read the loan pending joins those that approve it, and   *)
(* nothing was disbursed by then; one that disburses leaves them.          *)
LEMMA DecidingBounded ==
  ASSUME LoanShape, NEW l \in Loan, BoundedLoan(l), NEW c \in LoanCall,
         \/ \E k \in Loan : ReadForApproval(c, k)
         \/ WriteApproved(c) \/ RecordDisbursement(c)
  PROVE  BoundedLoan(l)'
<1> USE DEF LoanDo
<1>1. ASSUME NEW k \in Loan, ReadForApproval(c, k) PROVE BoundedLoan(l)'
  <2>1. /\ \A d \in LoanCall : d # c => loanCall'[d] = loanCall[d]
        /\ loanCall'[c] = [at |-> "approving", loan |-> k]
        /\ disbursed' = disbursed /\ loan' = loan
    BY <1>1 DEF ReadForApproval, LoanShape
  <2>2. CASE k # l
    BY <2>1, <2>2, AsideStep
  <2>3. CASE k = l
    <3>1. disbursed[l] = 0 /\ \A d \in LoanCall : ~ Disbursing(d, l)
      BY <1>1, <2>3 DEF ReadForApproval, Undecided, BoundedLoan
    <3>2. \A d \in LoanCall : ~ Disbursing(d, l)'
      BY <2>1, <3>1 DEF Disbursing
    <3>3. (disbursed[l] + Cardinality(Approvals(l)) <= Cardinality(LoanCall))'
      BY <2>1, <3>1, ApprovalsAreFewLater
    <3> QED
      BY <2>1, <3>1, <3>2, <3>3 DEF BoundedLoan
  <2> QED
    BY <2>2, <2>3
<1>2. CASE WriteApproved(c)
  <2> DEFINE k == loanCall[c].loan
  <2>1. /\ \A d \in LoanCall : d # c => loanCall'[d] = loanCall[d]
        /\ loanCall'[c] = [at |-> "disbursing", loan |-> k]
        /\ disbursed' = disbursed /\ loanCall[c].at = "approving"
    BY <1>2 DEF WriteApproved, LoanShape
  <2>2. CASE k # l
    BY <1>2, <2>1, <2>2, AsideStep DEF WriteApproved, LoanShape
  <2>3. CASE k = l
    <3>1. loan[l] \in LoanRow
      BY <2>1, <2>3, RowShape DEF LoanShape, LoanIdle
    <3>2. loan'[l].status = "approved"
      BY <1>2, <2>3, <3>1 DEF WriteApproved, LoanShape, LoanRow
    <3>3. Approvals(l)' \subseteq Approvals(l)
      BY <2>1, <2>3 DEF Approvals
    <3> QED
      BY <2>1, <3>2, <3>3, BoundStep DEF Undecided
  <2> QED
    BY <2>2, <2>3
<1>3. CASE RecordDisbursement(c)
  <2> DEFINE k == loanCall[c].loan
  <2>1. /\ \A d \in LoanCall : d # c => loanCall'[d] = loanCall[d]
        /\ loanCall'[c] = LoanIdle /\ loan' = loan
        /\ disbursed' = [disbursed EXCEPT ![k] = @ + 1]
        /\ loanCall[c].at = "disbursing" /\ k \in Loan
    BY <1>3, CallShape DEF RecordDisbursement, LoanShape, LoanIdle
  <2>2. CASE k # l
    BY <2>1, <2>2, AsideStep DEF LoanIdle, LoanShape
  <2>3. CASE k = l
    <3>1. ~ Undecided(l) /\ ~ Undecided(l)'
      BY <2>1, <2>3 DEF BoundedLoan, Disbursing, Undecided
    <3>2. Approvals(l)' = Approvals(l) \ {c} /\ c \in Approvals(l)
      BY <2>1, <2>3 DEF Approvals, LoanIdle
    <3>3. Cardinality(Approvals(l)') = Cardinality(Approvals(l)) - 1
      BY <3>2, ApprovalsAreFew, FS_RemoveElement
    <3>4. disbursed'[l] = disbursed[l] + 1 /\ disbursed[l] \in Nat
      BY <2>1, <2>3 DEF LoanShape
    <3>5. (disbursed[l] + Cardinality(Approvals(l)) <= Cardinality(LoanCall))'
      BY <3>3, <3>4, ApprovalsAreFew DEF BoundedLoan
    <3> QED
      BY <3>1, <3>5 DEF BoundedLoan
  <2> QED
    BY <2>2, <2>3
<1> QED
  BY <1>1, <1>2, <1>3

(* Repayments make a loan active or completed, never pending.              *)
LEMMA RepayingBounded ==
  ASSUME LoanShape, NEW l \in Loan, BoundedLoan(l), NEW c \in LoanCall,
         \/ \E k \in Loan, x \in LoanPay : ReadForRepayment(c, k, x)
         \/ ActivateLoan(c) \/ WriteRepaid(c) \/ RecordRepayment(c) \/ LoanCallDies(c)
  PROVE  BoundedLoan(l)'
<1> USE DEF LoanDo
<1>2. loan'[l] = loan[l] \/ loan'[l].status \in LoanStates \ {"pending"}
  <2> DEFINE k == loanCall[c].loan
  <2>0. ActivateLoan(c) \/ WriteRepaid(c) => k \in Loan /\ loan[k] \in LoanRow
    BY RowShape, CallShape DEF ActivateLoan, WriteRepaid, LoanIdle, LoanShape
  <2>1. CASE ActivateLoan(c)
    BY <2>0, <2>1 DEF ActivateLoan, LoanRow, LoanStates, LoanShape
  <2>2. CASE WriteRepaid(c)
    BY <2>0, <2>2 DEF WriteRepaid, LoanRow, LoanStates, LoanShape
  <2>3. CASE ~ (ActivateLoan(c) \/ WriteRepaid(c))
    BY <2>3 DEF ReadForRepayment, RecordRepayment, LoanCallDies
  <2> QED
    BY <2>1, <2>2, <2>3
<1>3. \A d \in LoanCall : \/ loanCall'[d] = loanCall[d]
                           \/ loanCall'[d].at \notin {"approving", "disbursing"}
  <2>1. \A d \in LoanCall : d # c => loanCall'[d] = loanCall[d]
    BY DEF ReadForRepayment, ActivateLoan, WriteRepaid, RecordRepayment, LoanCallDies,
           LoanShape
  <2>2. loanCall'[c].at \in {"activating", "repaying", "recording", "idle", "died"}
    <3>1. CASE ActivateLoan(c) \/ WriteRepaid(c)
      <4>1. loanCall[c] = [at |-> loanCall[c].at, loan |-> loanCall[c].loan,
                           read |-> loanCall[c].read, pay |-> loanCall[c].pay]
        BY <3>1, CallShape DEF ActivateLoan, WriteRepaid, LoanShape
      <4>2. \E a \in {"repaying", "recording"} : loanCall'[c] = [loanCall[c] EXCEPT !.at = a]
        BY <3>1 DEF ActivateLoan, WriteRepaid, LoanShape
      <4> QED
        BY <4>1, <4>2
    <3>2. CASE RecordRepayment(c)
      BY <3>2, CallForms DEF RecordRepayment, LoanShape
    <3>3. CASE LoanCallDies(c)
      BY <3>3 DEF LoanCallDies, LoanShape
    <3>4. ASSUME NEW k \in Loan, NEW x \in LoanPay, ReadForRepayment(c, k, x)
          PROVE  loanCall'[c].at \in {"activating", "repaying"}
      BY <3>4 DEF ReadForRepayment, LoanShape
    <3> QED
      BY <3>1, <3>2, <3>3, <3>4
  <2> QED
    BY <2>1, <2>2
<1>4. disbursed'[l] = disbursed[l]
  BY DEF ReadForRepayment, ActivateLoan, WriteRepaid, RecordRepayment, LoanCallDies
<1> QED
  BY <1>2, <1>3, <1>4, AsideStep

(* A rejection is no approval.                                             *)
LEMMA OutsideBounded ==
  ASSUME LoanShape, NEW l \in Loan, BoundedLoan(l),
         \/ MarkOverdue
         \/ \E k \in Loan : RejectLoan(k)
  PROVE  BoundedLoan(l)'
<1>1. \A k \in Loan : RejectLoan(k) => loan[k] \in LoanRow
  BY RowShape DEF RejectLoan, LoanShape
<1>2. /\ loan'[l] = loan[l] \/ loan'[l].status = "rejected"
      /\ UNCHANGED <<loanCall, disbursed>>
  BY <1>1 DEF MarkOverdue, RejectLoan, LoanRow, LoanShape
<1> QED
  BY <1>2, AsideStep DEF LoanStates

LEMMA InitBounded == LoanInit => DisburseInv
<1> SUFFICES ASSUME LoanInit, NEW l \in Loan PROVE BoundedLoan(l)
  BY DEF DisburseInv
<1>1. Approvals(l) = {} /\ \A c \in LoanCall : ~ Disbursing(c, l)
  BY DEF LoanInit, Approvals, Disbursing, LoanIdle
<1> QED
  BY <1>1, ApprovalsAreFew, FS_EmptySet DEF LoanInit, BoundedLoan

(* So every step of the service, or of its routes, keeps to the bound.     *)
LEMMA NextBounded ==
  ASSUME LoanShape, DisburseInv, [LoanAnyNext]_loanVars
  PROVE  DisburseInv'
<1> SUFFICES ASSUME NEW l \in Loan PROVE BoundedLoan(l)'
  BY DEF DisburseInv
<1>0. BoundedLoan(l)
  BY DEF DisburseInv
<1>1. CASE UNCHANGED loanVars
  BY <1>0, <1>1 DEF loanVars, BoundedLoan, Undecided, Disbursing, Approvals
<1>2. ASSUME NEW c \in LoanCall, LoanRequest(c) \/ \E k \in Loan : ReadForApproval(c, k)
      PROVE  BoundedLoan(l)'
  BY <1>0, <1>2, ApplyingBounded, DecidingBounded, RepayingBounded DEF LoanRequest
<1> QED
  BY <1>0, <1>1, <1>2, OutsideBounded
  DEF LoanAnyNext, LoanNext, LoanRouteNext, ApprovalRoute, RejectionRoute

(* The loan_disbursement transactions of a loan are no more than the       *)
(* requests that can overlap, and none is there before the loan is decided *)
(* (loans.service.ts:103-134).                                             *)
THEOREM DisbursementsStayBounded == LoanSpec => []DisbursementsAreBounded
<1>1. LoanShape /\ DisburseInv /\ [LoanNext]_loanVars => DisburseInv'
  BY NextBounded DEF LoanAnyNext
<1>2. ASSUME LoanShape, DisburseInv, NEW l \in Loan
      PROVE  /\ disbursed[l] <= Cardinality(LoanCall)
             /\ disbursed[l] > 0 => loan[l].status \notin {"none", "pending"}
  <2>1. /\ disbursed[l] \in Nat /\ Cardinality(Approvals(l)) \in Nat
        /\ Cardinality(LoanCall) \in Nat /\ BoundedLoan(l)
    BY <1>2, ApprovalsAreFew DEF LoanShape, DisburseInv
  <2> QED
    BY <2>1 DEF BoundedLoan, Undecided
<1>3. LoanShape /\ DisburseInv => DisbursementsAreBounded
  BY <1>2 DEF DisbursementsAreBounded
<1> QED
  BY <1>1, <1>3, InitBounded, LoanInvariance, PTL DEF LoanSpec

(* Behind the routes nothing is decided: with the group's id none of the   *)
(* loans', the permission check finds no membership, so every application  *)
(* stays pending and none is disbursed or repaid (permissions.ts:8).       *)
NothingDecided ==
  \A l \in Loan :
    loan[l].status \in {"none", "pending"} /\ disbursed[l] = 0 /\ repayments[l] = 0

RouteInv ==
  /\ LoanGroup \notin Loan /\ NothingDecided
  /\ \A c \in LoanCall : loanCall[c].at \in {"idle", "scheduling", "died"}

LEMMA NextRouteInv ==
  ASSUME LoanShape, RouteInv, [LoanRouteNext]_loanVars
  PROVE  RouteInv'
<1> USE DEF LoanDo
<1>1. CASE UNCHANGED loanVars
  BY <1>1 DEF loanVars, RouteInv, NothingDecided
<1>2. ASSUME NEW c \in LoanCall, LoanRequest(c) PROVE RouteInv'
  <2>1. ASSUME NEW l \in Loan, NEW a \in LoanAsk, NEW u \in LoanMember, CreateLoan(c, l, a, u)
        PROVE  RouteInv'
    <3> DEFINE r == [ask |-> a, status |-> "pending", repaid |-> 0, dated |-> FALSE]
               s == [at |-> "scheduling", loan |-> l]
    <3>1. /\ loan' = [loan EXCEPT ![l] = r] /\ loanCall' = [loanCall EXCEPT ![c] = s]
          /\ UNCHANGED <<disbursed, repayments>>
      BY <2>1 DEF CreateLoan
    <3>2. r.status = "pending" /\ s.at = "scheduling"
      OBVIOUS
    <3> HIDE DEF r, s
    <3> QED
      BY <3>1, <3>2 DEF RouteInv, NothingDecided, LoanShape
  <2>2. CASE AddSchedule(c)
    BY <2>2 DEF AddSchedule, RouteInv, NothingDecided, LoanIdle, LoanShape
  <2>3. CASE LoanCallDies(c)
    BY <2>3 DEF LoanCallDies, RouteInv, NothingDecided, LoanShape
  <2>4. ~ \E l \in Loan, x \in LoanPay : ReadForRepayment(c, l, x)
    BY DEF ReadForRepayment, Repayable, RouteInv, NothingDecided
  <2>5. ~ (WriteApproved(c) \/ RecordDisbursement(c) \/ ActivateLoan(c) \/ WriteRepaid(c)
           \/ RecordRepayment(c))
    BY DEF WriteApproved, RecordDisbursement, ActivateLoan, WriteRepaid, RecordRepayment,
           RouteInv
  <2> QED
    BY <1>2, <2>1, <2>2, <2>3, <2>4, <2>5 DEF LoanRequest
<1>3. CASE MarkOverdue
  BY <1>3 DEF MarkOverdue, RouteInv, NothingDecided
<1>4. \A u \in LoanOfficer, l \in Loan : ~ RequireApprover(u, l)
  BY DEF RequireApprover, RouteInv
<1> QED
  BY <1>1, <1>2, <1>3, <1>4 DEF LoanRouteNext, RejectionRoute, ApprovalRoute

(* By the routes as they are no loan is ever decided, disbursed or repaid: *)
(* this is what the refusal of every officer (permissions.ts:8,            *)
(* loans.routes.ts) comes to in the end.                                   *)
THEOREM NothingIsDecidedByRoute ==
  LoanGroup \notin Loan => (LoanRouteSpec => []NothingDecided)
<1>1. LoanGroup \notin Loan /\ LoanInit => RouteInv
  BY DEF LoanInit, RouteInv, NothingDecided, NoLoan, LoanIdle
<1>2. LoanShape /\ RouteInv /\ [LoanRouteNext]_loanVars => RouteInv'
  BY NextRouteInv
<1>3. RouteInv => NothingDecided
  BY DEF RouteInv
<1> QED
  BY <1>1, <1>2, <1>3, LoanRouteInvariance, PTL DEF LoanRouteSpec
-------------------------------------------------------------------------------
(* What is repaid is backed.  A repayment writes the total it read plus its*)
(* payment, so what it read must still be backed when it writes: nothing   *)
(* that backs a loan is ever taken away (BackInv).                         *)

(* What the request of record s has written to loan l and not recorded.    *)
Owed(s, l) == IF s.at \in {"recording", "died"} /\ s.loan = l THEN s.pay ELSE 0

BackInv ==
  /\ RepaidIsBacked
  /\ \A c \in LoanCall : loanCall[c].at \in {"activating", "repaying"} =>
       loanCall[c].read <= Backing(loanCall[c].loan)

LEMMA OwedShape ==
  ASSUME NEW s \in CallState, NEW l \in Loan
  PROVE  Owed(s, l) \in Nat /\ Owed(LoanIdle, l) = 0
<1>1. CASE s = LoanIdle
  BY <1>1 DEF LoanIdle, Owed
<1>2. CASE s \in Deciding
  BY <1>2 DEF Deciding, Owed, LoanIdle
<1>3. CASE s \in Repaying
  BY <1>3 DEF Repaying, Owed, LoanIdle
<1>4. CASE s \in Gone
  BY <1>4 DEF Gone, Owed, LoanIdle
<1> QED
  BY <1>1, <1>2, <1>3, <1>4 DEF CallState

(* The backing of a loan is its transactions and what its requests owe.    *)
BackedBy(l) ==
  /\ Unwritten(l) = [c \in LoanCall |-> Owed(loanCall[c], l)]
  /\ Numbers(Unwritten(l), LoanCall)
  /\ Backing(l) = repayments[l] + SumFunctionOnSet(Unwritten(l), LoanCall)
  /\ Backing(l) \in Nat /\ repayments[l] \in Nat

LEMMA BackingIs == LoanShape => \A l \in Loan : BackedBy(l)
<1> SUFFICES ASSUME LoanShape, NEW l \in Loan PROVE BackedBy(l)
  OBVIOUS
<1>1. Unwritten(l) = [c \in LoanCall |-> Owed(loanCall[c], l)]
  BY DEF Unwritten, Unrecorded, Owed
<1>2. \A c \in LoanCall : Unwritten(l)[c] \in Nat
  BY <1>1, OwedShape DEF LoanShape
<1>3. IsFiniteSet(LoanCall) /\ DOMAIN Unwritten(l) = LoanCall
  BY <1>1, LoanAssumption
<1>4. Numbers(Unwritten(l), LoanCall) /\ SumFunctionOnSet(Unwritten(l), LoanCall) \in Nat
  BY <1>2, <1>3, SumNat
<1>5. Backing(l) = repayments[l] + SumFunctionOnSet(Unwritten(l), LoanCall)
  BY <1>3 DEF Backing, SumFunction
<1> QED
  BY <1>1, <1>4, <1>5 DEF LoanShape, BackedBy

LEMMA BackingIsNext == (LoanShape => \A l \in Loan : BackedBy(l))'
BY BackingIs, PTL

(* A step of one request moves the backing by what it records and by what  *)
(* that request owes.                                                      *)
LEMMA BackingMoves ==
  ASSUME LoanShape, LoanShape', NEW c \in LoanCall, NEW s \in CallState, NEW l \in Loan,
         loanCall' = [loanCall EXCEPT ![c] = s]
  PROVE  Backing(l)' = Backing(l) + (repayments'[l] - repayments[l])
                                  + (Owed(s, l) - Owed(loanCall[c], l))
<1> DEFINE w == [d \in LoanCall |-> Owed(loanCall[d], l)]
           v == [d \in LoanCall |-> Owed(loanCall'[d], l)]
<1>1. /\ Numbers(w, LoanCall) /\ repayments[l] \in Nat
      /\ Backing(l) = repayments[l] + SumFunctionOnSet(w, LoanCall)
  BY BackingIs DEF BackedBy
<1>2. /\ Unwritten(l)' = v
      /\ repayments'[l] \in Nat
      /\ Backing(l)' = repayments'[l] + SumFunctionOnSet(Unwritten(l)', LoanCall)
  BY BackingIsNext DEF BackedBy
<1>3. Backing(l)' = repayments'[l] + SumFunctionOnSet(v, LoanCall)
  BY <1>2
<1>4. /\ \A d \in LoanCall : d # c => v[d] = w[d]
      /\ v[c] = Owed(s, l) /\ w[c] = Owed(loanCall[c], l)
      /\ v[c] \in Int /\ w[c] \in Int
  BY OwedShape DEF LoanShape
<1> HIDE DEF v, w
<1>5. /\ SumFunctionOnSet(v, LoanCall) = SumFunctionOnSet(w, LoanCall) - w[c] + v[c]
      /\ SumFunctionOnSet(w, LoanCall) \in Int
  BY <1>1, <1>4, SumChange
<1> QED
  BY <1>1, <1>2, <1>3, <1>4, <1>5

(* A step of a request that takes no backing away and writes nothing new to*)
(* the loan keeps the invariant, if what the request read is backed.       *)
LEMMA QuietStep ==
  ASSUME LoanShape, LoanShape', BackInv, NEW c \in LoanCall, NEW s \in CallState,
         loanCall' = [loanCall EXCEPT ![c] = s],
         \A l \in Loan : repayments'[l] + Owed(s, l)
                           = repayments[l] + Owed(loanCall[c], l),
         \A l \in Loan : loan'[l] # NoLoan =>
           \/ loan'[l].repaid = 0
           \/ loan[l] # NoLoan /\ loan'[l].repaid = loan[l].repaid,
         s.at \in {"activating", "repaying"} => s.read <= Backing(s.loan)
  PROVE  BackInv'
<1>1. ASSUME NEW l \in Loan
      PROVE  Backing(l)' = Backing(l) /\ Backing(l) \in Nat
  <2>1. Backing(l) \in Nat /\ repayments[l] \in Nat /\ repayments'[l] \in Nat
    BY BackingIs DEF LoanShape, BackedBy
  <2>2. Owed(s, l) \in Nat /\ Owed(loanCall[c], l) \in Nat
    BY OwedShape DEF LoanShape
  <2>3. Backing(l)' = Backing(l) + (repayments'[l] - repayments[l])
                                 + (Owed(s, l) - Owed(loanCall[c], l))
    BY BackingMoves
  <2>4. repayments'[l] + Owed(s, l) = repayments[l] + Owed(loanCall[c], l)
    OBVIOUS
  <2> HIDE DEF BackInv
  <2> QED
    BY <2>1, <2>2, <2>3, <2>4
<1>2. RepaidIsBacked'
  <2> SUFFICES ASSUME NEW l \in Loan, loan'[l] # NoLoan
               PROVE  loan'[l].repaid <= Backing(l)'
    BY DEF RepaidIsBacked
  <2> QED
    BY <1>1 DEF BackInv, RepaidIsBacked
<1>3. ASSUME NEW d \in LoanCall, loanCall'[d].at \in {"activating", "repaying"}
      PROVE  \E l \in Loan : l = loanCall'[d].loan /\ loanCall'[d].read <= Backing(l)'
  <2>1. loanCall'[d] \in CallState /\ loanCall'[d] # LoanIdle
    BY <1>3, CallForms DEF LoanShape
  <2>2. loanCall'[d].loan \in Loan
    BY <2>1, CallShape
  <2>3. loanCall'[d].read <= Backing(loanCall'[d].loan)
    BY <1>3 DEF BackInv, LoanShape
  <2> QED
    BY <1>1, <2>2, <2>3
<1>4. \A d \in LoanCall : loanCall'[d].at \in {"activating", "repaying"} =>
        loanCall'[d].read <= Backing(loanCall[d].loan)'
  BY <1>3
<1> QED
  BY <1>2, <1>4 DEF BackInv
(* What a step writes to the loans, as far as repayments go.               *)
RepaidKept ==
  \A l \in Loan : loan'[l] # NoLoan =>
    \/ loan'[l].repaid = 0
    \/ loan[l] # NoLoan /\ loan'[l].repaid = loan[l].repaid

(* Applications and approvals bring no repayment.                          *)
LEMMA ApplyingBacked ==
  ASSUME LoanShape, LoanShape', BackInv, NEW c \in LoanCall,
         \/ AddSchedule(c) \/ WriteApproved(c) \/ RecordDisbursement(c)
         \/ \E l \in Loan : ReadForApproval(c, l)
         \/ \E l \in Loan, a \in LoanAsk, u \in LoanMember : CreateLoan(c, l, a, u)
  PROVE  BackInv'
<1> USE DEF LoanDo
<1>1. repayments' = repayments
  BY DEF AddSchedule, WriteApproved, RecordDisbursement, ReadForApproval, CreateLoan
<1>2. RepaidKept
  <2>1. CASE WriteApproved(c)
    <3> DEFINE k == loanCall[c].loan
    <3>1. k \in Loan /\ loan[k] \in LoanRow
      BY <2>1, CallShape, CallForms, RowShape DEF WriteApproved, LoanShape
    <3>2. loan' = [loan EXCEPT ![k] =
                     [loan[k] EXCEPT !.status = "approved", !.dated = TRUE]]
      BY <2>1, <3>1 DEF WriteApproved, LoanShape
    <3>3. /\ \A l \in Loan : l # k => loan'[l] = loan[l]
          /\ loan'[k].repaid = loan[k].repaid /\ loan[k] # NoLoan
      BY <3>1, <3>2, RowShape DEF LoanShape, LoanRow
    <3> HIDE DEF k
    <3> QED
      BY <3>1, <3>3 DEF RepaidKept
  <2>2. ASSUME NEW l \in Loan, NEW a \in LoanAsk, NEW u \in LoanMember,
               CreateLoan(c, l, a, u)
        PROVE  RepaidKept
    BY <2>2 DEF CreateLoan, RepaidKept, LoanShape
  <2>3. CASE loan' = loan
    BY <2>3 DEF RepaidKept
  <2> QED
    BY <2>1, <2>2, <2>3 DEF AddSchedule, RecordDisbursement, ReadForApproval
<1>3. PICK s \in CallState :
        /\ loanCall' = [loanCall EXCEPT ![c] = s]
        /\ s = LoanIdle \/ s \in Deciding
  <2>1. CASE AddSchedule(c) \/ RecordDisbursement(c)
    BY <2>1, CallForms DEF AddSchedule, RecordDisbursement
  <2>2. CASE WriteApproved(c)
    <3>1. loanCall[c].loan \in Loan
      BY <2>2, CallShape, CallForms DEF WriteApproved, LoanShape
    <3>2. [at |-> "disbursing", loan |-> loanCall[c].loan] \in Deciding
      BY <3>1 DEF Deciding
    <3> QED
      BY <2>2, <3>2 DEF WriteApproved, CallState
  <2>3. ASSUME NEW l \in Loan, ReadForApproval(c, l)
        PROVE  [at |-> "approving", loan |-> l] \in Deciding
               /\ loanCall' = [loanCall EXCEPT ![c] = [at |-> "approving", loan |-> l]]
    BY <2>3 DEF ReadForApproval, Deciding
  <2>4. ASSUME NEW l \in Loan, NEW a \in LoanAsk, NEW u \in LoanMember,
               CreateLoan(c, l, a, u)
        PROVE  [at |-> "scheduling", loan |-> l] \in Deciding
               /\ loanCall' = [loanCall EXCEPT ![c] = [at |-> "scheduling", loan |-> l]]
    BY <2>4 DEF CreateLoan, Deciding
  <2> QED
    BY <2>1, <2>2, <2>3, <2>4 DEF CallState
<1>4. \A l \in Loan : Owed(s, l) = 0
  BY <1>3 DEF Owed, Deciding, LoanIdle
<1>5. \A l \in Loan : Owed(loanCall[c], l) = 0
  BY DEF Owed, AddSchedule, WriteApproved, RecordDisbursement, ReadForApproval, CreateLoan,
         LoanIdle
<1>6. s.at \notin {"activating", "repaying"}
  BY <1>3 DEF Deciding, LoanIdle
<1> QED
  BY <1>1, <1>2, <1>3, <1>4, <1>5, <1>6, QuietStep DEF RepaidKept

(* A repayment is read within the backing, a dead one still owes what it   *)
(* wrote, and a recorded one becomes a transaction.                        *)
LEMMA RepayingBacked ==
  ASSUME LoanShape, LoanShape', BackInv, NEW c \in LoanCall,
         \/ \E l \in Loan, x \in LoanPay : ReadForRepayment(c, l, x)
         \/ ActivateLoan(c) \/ RecordRepayment(c) \/ LoanCallDies(c)
  PROVE  BackInv'
<1> USE DEF LoanDo
<1> DEFINE k == loanCall[c].loan
<1>1. ASSUME NEW l \in Loan, NEW x \in LoanPay, ReadForRepayment(c, l, x) PROVE BackInv'
  <2> DEFINE a == IF loan[l].status = "approved" THEN "activating" ELSE "repaying"
             s == [at |-> a, loan |-> l, read |-> loan[l].repaid, pay |-> x]
  <2>1. loan[l] # NoLoan /\ loan[l].repaid \in Nat /\ x \in Nat
    BY <1>1, RowShape, LoanAssumption DEF ReadForRepayment, Repayable, NoLoan, LoanShape
  <2>2. s \in CallState /\ s.read <= Backing(s.loan)
    BY <2>1, CallForms DEF BackInv, RepaidIsBacked
  <2>3. \A m \in Loan : Owed(s, m) = 0 /\ Owed(loanCall[c], m) = 0
    BY <1>1 DEF ReadForRepayment, Owed, LoanIdle
  <2>4. /\ loanCall' = [loanCall EXCEPT ![c] = s]
        /\ UNCHANGED <<loan, repayments>>
    BY <1>1 DEF ReadForRepayment
  <2> HIDE DEF s
  <2> QED
    BY <2>2, <2>3, <2>4, QuietStep
<1>2. ASSUME loanCall[c] # LoanIdle PROVE k \in Loan /\ loan[k] \in LoanRow
  BY <1>2, CallShape, RowShape DEF LoanShape
<1>3. CASE ActivateLoan(c)
  <2> DEFINE s == [loanCall[c] EXCEPT !.at = "repaying"]
  <2>1. k \in Loan /\ loan[k] \in LoanRow
    BY <1>2, <1>3, CallForms DEF ActivateLoan
  <2>2. s = [at |-> "repaying", loan |-> k, read |-> loanCall[c].read, pay |-> loanCall[c].pay]
    BY <1>3, CallShape DEF ActivateLoan, LoanShape
  <2>3. s \in CallState /\ s.read = loanCall[c].read /\ s.loan = k /\ s.at = "repaying"
    <3>1. loanCall[c].read \in Nat /\ loanCall[c].pay \in Nat
      BY <1>3, CallShape DEF ActivateLoan, LoanShape
    <3> HIDE DEF s
    <3> QED
      BY <2>1, <2>2, <3>1, CallForms
  <2>4. s.read <= Backing(s.loan)
    BY <1>3, <2>3 DEF ActivateLoan, BackInv
  <2>5. RepaidKept
    <3>1. loan' = [loan EXCEPT ![k] = [loan[k] EXCEPT !.status = "active"]]
      BY <1>3 DEF ActivateLoan
    <3>2. /\ \A l \in Loan : l # k => loan'[l] = loan[l]
          /\ loan'[k].repaid = loan[k].repaid /\ loan[k] # NoLoan
      BY <2>1, <3>1, RowShape DEF LoanShape, LoanRow
    <3> HIDE DEF k
    <3> QED
      BY <2>1, <3>2 DEF RepaidKept
  <2>6. /\ loanCall' = [loanCall EXCEPT ![c] = s] /\ UNCHANGED repayments
        /\ loanCall[c].at = "activating"
    BY <1>3 DEF ActivateLoan
  <2> HIDE DEF s
  <2>7. \A m \in Loan : Owed(s, m) = 0 /\ Owed(loanCall[c], m) = 0
    BY <2>3, <2>6 DEF Owed
  <2> QED
    BY <2>3, <2>4, <2>5, <2>6, <2>7, QuietStep DEF RepaidKept
<1>4. CASE RecordRepayment(c)
  <2>1. k \in Loan /\ loanCall[c].pay \in Nat /\ loanCall[c].at = "recording"
    BY <1>4, CallShape, CallForms DEF RecordRepayment, LoanShape
  <2>2. \A l \in Loan : /\ Owed(LoanIdle, l) = 0
                        /\ Owed(loanCall[c], l) = IF l = k THEN loanCall[c].pay ELSE 0
    BY <2>1 DEF Owed, LoanIdle
  <2>3. \A l \in Loan : repayments'[l] + Owed(LoanIdle, l)
                          = repayments[l] + Owed(loanCall[c], l)
    BY <1>4, <2>1, <2>2 DEF RecordRepayment, LoanShape
  <2>4. /\ loanCall' = [loanCall EXCEPT ![c] = LoanIdle] /\ loan' = loan
        /\ LoanIdle \in CallState /\ LoanIdle.at \notin {"activating", "repaying"}
    BY <1>4, CallForms DEF RecordRepayment
  <2> QED
    BY <2>3, <2>4, QuietStep
<1>5. CASE LoanCallDies(c)
  <2> DEFINE p == IF loanCall[c].at = "recording" THEN loanCall[c].pay ELSE 0
             s == [at |-> "died", was |-> loanCall[c].at, loan |-> k, pay |-> p]
  <2>1. /\ k \in Loan /\ p \in Nat
        /\ loanCall[c].at \in {"scheduling", "disbursing", "recording"}
    BY <1>5, CallShape, CallForms DEF LoanCallDies, LoanShape
  <2>2. s \in CallState /\ s.at = "died"
    BY <2>1, CallForms
  <2>3. \A l \in Loan : Owed(s, l) = Owed(loanCall[c], l)
    BY <2>1 DEF Owed
  <2>4. /\ loanCall' = [loanCall EXCEPT ![c] = s]
        /\ UNCHANGED <<loan, repayments>>
    BY <1>5 DEF LoanCallDies
  <2> HIDE DEF s
  <2> QED
    BY <2>2, <2>3, <2>4, QuietStep
<1> QED
  BY <1>1, <1>3, <1>4, <1>5

(* A repayment that is written backs itself: the row shows what it read and*)
(* its payment, and its payment joins the backing.                         *)
LEMMA WritingBacked ==
  ASSUME LoanShape, LoanShape', BackInv, NEW c \in LoanCall, WriteRepaid(c)
  PROVE  BackInv'
<1> USE DEF LoanDo
<1> DEFINE k     == loanCall[c].loan
           total == loanCall[c].read + loanCall[c].pay
           s     == [loanCall[c] EXCEPT !.at = "recording"]
<1>1. /\ loanCall[c].at = "repaying" /\ k \in Loan /\ loan[k] \in LoanRow
      /\ loanCall[c].read \in Nat /\ loanCall[c].pay \in Nat
  BY CallShape, CallForms, RowShape DEF WriteRepaid, LoanShape
<1>2. s = [at |-> "recording", loan |-> k, read |-> loanCall[c].read, pay |-> loanCall[c].pay]
  BY CallShape DEF WriteRepaid, LoanShape
<1>3. s \in CallState /\ s.at = "recording" /\ s.loan = k /\ s.pay = loanCall[c].pay
  <2> HIDE DEF s, k
  <2> QED
    BY <1>1, <1>2, CallForms
<1>4. /\ loanCall' = [loanCall EXCEPT ![c] = s] /\ UNCHANGED repayments
      /\ loan' = [loan EXCEPT ![k] = [loan[k] EXCEPT
            !.repaid = total,
            !.status = IF total >= loan[k].ask.amount THEN "completed" ELSE "active"]]
  BY <1>1 DEF WriteRepaid, LoanShape
<1>5. loan'[k].repaid = total /\ \A l \in Loan : l # k => loan'[l] = loan[l]
  BY <1>1, <1>4 DEF LoanShape, LoanRow
<1> HIDE DEF s
<1>6. ASSUME NEW l \in Loan
      PROVE  /\ Backing(l) \in Nat
             /\ Backing(l)' = Backing(l) + (IF l = k THEN loanCall[c].pay ELSE 0)
  <2>1. Backing(l) \in Nat /\ repayments[l] \in Nat /\ repayments'[l] = repayments[l]
    BY <1>4, BackingIs DEF LoanShape, BackedBy
  <2>2. Owed(s, l) = (IF l = k THEN loanCall[c].pay ELSE 0) /\ Owed(loanCall[c], l) = 0
    BY <1>1, <1>3 DEF Owed
  <2>3. Backing(l)' = Backing(l) + (repayments'[l] - repayments[l])
                                 + (Owed(s, l) - Owed(loanCall[c], l))
    BY <1>3, <1>4, BackingMoves
  <2> HIDE DEF k
  <2> QED
    BY <1>1, <2>1, <2>2, <2>3
<1>7. loanCall[c].read <= Backing(k)
  BY <1>1 DEF BackInv
<1>8. RepaidIsBacked'
  <2> SUFFICES ASSUME NEW l \in Loan, loan'[l] # NoLoan
               PROVE  loan'[l].repaid <= Backing(l)'
    BY DEF RepaidIsBacked
  <2>1. CASE l = k
    BY <1>1, <1>5, <1>6, <1>7, <2>1
  <2>2. CASE l # k
    BY <1>5, <1>6, <2>2 DEF BackInv, RepaidIsBacked
  <2> QED
    BY <2>1, <2>2
<1>9. ASSUME NEW d \in LoanCall, loanCall'[d].at \in {"activating", "repaying"}
      PROVE  loanCall'[d].read <= Backing(loanCall[d].loan)'
  <2>1. d # c /\ loanCall'[d] = loanCall[d]
    BY <1>3, <1>4, <1>9 DEF LoanShape
  <2>2. loanCall[d] # LoanIdle /\ loanCall[d].read \in Nat /\ loanCall[d].loan \in Loan
    BY <1>9, <2>1, CallForms, CallShape DEF LoanShape
  <2>3. PICK l \in Loan : l = loanCall[d].loan
    BY <2>2
  <2>4. loanCall[d].read <= Backing(l)
    BY <1>9, <2>1, <2>3 DEF BackInv
  <2>5. loanCall[d].read <= Backing(l)'
    BY <1>1, <1>6, <2>2, <2>4
  <2> QED
    BY <2>1, <2>3, <2>5
<1> QED
  BY <1>8, <1>9 DEF BackInv

(* Rejections and the overdue job repay nothing.                           *)
LEMMA OutsideBacked ==
  ASSUME LoanShape, LoanShape', BackInv,
         \/ MarkOverdue
         \/ \E l \in Loan : RejectLoan(l)
  PROVE  BackInv'
<1>1. UNCHANGED <<loanCall, repayments>>
  BY DEF MarkOverdue, RejectLoan
<1>2. \A l \in Loan : loan'[l] # NoLoan => loan[l] # NoLoan /\ loan'[l].repaid = loan[l].repaid
  <2>1. ASSUME NEW l \in Loan, RejectLoan(l)
        PROVE  /\ loan[l] \in LoanRow /\ loan[l] # NoLoan
               /\ loan' = [loan EXCEPT ![l] = [loan[l] EXCEPT !.status = "rejected"]]
    BY <2>1, RowShape DEF RejectLoan, LoanShape
  <2>2. ASSUME NEW l \in Loan, RejectLoan(l)
        PROVE  \A m \in Loan : loan[l] # NoLoan /\ loan'[m].repaid = loan[m].repaid
                               /\ (m # l => loan'[m] = loan[m])
    BY <2>1, <2>2 DEF LoanShape, LoanRow
  <2> QED
    BY <2>2 DEF MarkOverdue
<1>3. \A l \in Loan : Backing(l)' = Backing(l)
  BY <1>1 DEF Backing, Unwritten, Unrecorded
<1>4. RepaidIsBacked'
  BY <1>2, <1>3 DEF BackInv, RepaidIsBacked
<1>5. ASSUME NEW c \in LoanCall, loanCall[c].at \in {"activating", "repaying"}
      PROVE  loanCall[c].read <= Backing(loanCall[c].loan)'
  <2>1. PICK l \in Loan : l = loanCall[c].loan
    BY <1>5, CallForms, CallShape DEF LoanShape
  <2>2. loanCall[c].read <= Backing(l)'
    BY <1>3, <1>5, <2>1 DEF BackInv
  <2> QED
    BY <1>1, <2>1, <2>2
<1> QED
  BY <1>1, <1>4, <1>5 DEF BackInv

(* The invariant holds of the service and of the service behind its routes.*)
LEMMA InitBacked == LoanInit => BackInv
<1> SUFFICES ASSUME LoanInit PROVE BackInv
  OBVIOUS
<1>1. \A c \in LoanCall : loanCall[c].at = "idle"
  BY CallForms DEF LoanInit
<1> QED
  BY <1>1 DEF BackInv, RepaidIsBacked, LoanInit

LEMMA NextBacked == LoanShape /\ BackInv /\ [LoanAnyNext]_loanVars => BackInv'
<1> SUFFICES ASSUME LoanShape, BackInv, [LoanAnyNext]_loanVars PROVE BackInv'
  OBVIOUS
<1>1. LoanShape'
  BY NextLoanShape
<1>2. CASE UNCHANGED loanVars
  BY <1>2 DEF loanVars, BackInv, RepaidIsBacked, Backing, Unwritten, Unrecorded
<1>3. ASSUME NEW c \in LoanCall, LoanRequest(c) \/ \E l \in Loan : ReadForApproval(c, l)
      PROVE  BackInv'
  BY <1>1, <1>3, ApplyingBacked, RepayingBacked, WritingBacked DEF LoanRequest
<1> QED
  BY <1>1, <1>2, <1>3, OutsideBacked
  DEF LoanAnyNext, LoanNext, LoanRouteNext, ApprovalRoute, RejectionRoute

(* However repayments of one loan overlap, and wherever they die, no loan  *)
(* shows more repaid than its transactions and the repayments that died    *)
(* unrecorded account for (loans.service.ts:231-255).                      *)
THEOREM RepaymentsAreBacked == LoanSpec => []RepaidIsBacked
<1>1. [LoanNext]_loanVars => [LoanAnyNext]_loanVars
  BY DEF LoanAnyNext
<1>2. BackInv => RepaidIsBacked
  BY DEF BackInv
<1> QED
  BY <1>1, <1>2, InitBacked, NextBacked, LoanInvariance, PTL DEF LoanSpec

-------------------------------------------------------------------------------
(* Wallets.  A callback in its hands carries a deposit to the wallet, and  *)
(* credits it to the balance it read, which may be an old one and higher   *)
(* than what the row says by then: so every balance read, and not only the *)
(* one stored, is within what landed (CreditInv).                          *)

WalletState ==
  {WalletIdle}
    \cup [at : {"making"}]
    \cup [at : {"opening"}, kind : {"deposit", "withdrawal"}, amount : Nat, saw : Int]
    \cup [at : {"checking", "reading", "failing"}, tx : Legacy]
    \cup [at : {"crediting"}, tx : Legacy, balance : Nat \cup {NoWallet}, deposited : Nat]
    \cup [at : {"adding"}, account : Account, first : BOOLEAN]
    \cup [at : {"removing", "choosing"}, account : Account]

WalletRows ==
  /\ balance \in Nat \cup {NoWallet}
  /\ deposited \in Nat
  /\ legacy \in [Legacy -> {"none", "pending", "completed", "failed"}]
  /\ \A o \in opened : o.kind \in {"deposit", "withdrawal"} /\ o.status = "pending"
  /\ backs \in [Legacy -> 0 .. WalletMaxBacks]
  /\ DOMAIN account \subseteq Account
  /\ account \in [DOMAIN account -> BOOLEAN]

WalletShape == WalletRows /\ walletCall \in [WalletCall -> WalletState]

(* What the places of a request tell of its record.                        *)
LEMMA WalletCallShape ==
  ASSUME NEW s \in WalletState
  PROVE  /\ s.at \in {"idle", "making", "opening", "checking", "reading", "failing",
                      "crediting", "adding", "removing", "choosing"}
         /\ s.at = "idle" <=> s = WalletIdle
         /\ s.at = "opening" => s.kind \in {"deposit", "withdrawal"}
         /\ s.at \in {"checking", "reading", "failing", "crediting"} => s.tx \in Legacy
         /\ s.at = "crediting" => s.balance \in Int /\ s.balance >= -1 /\ s.deposited \in Nat
         /\ s.at = "adding" => s.account \in Account /\ s.first \in BOOLEAN
         /\ s.at \in {"removing", "choosing"} => s.account \in Account
<1>1. CASE s = WalletIdle
  BY <1>1 DEF WalletIdle
<1>2. CASE s \in [at : {"making"}]
  BY <1>2 DEF WalletIdle
<1>3. CASE s \in [at : {"opening"}, kind : {"deposit", "withdrawal"}, amount : Nat, saw : Int]
  BY <1>3 DEF WalletIdle
<1>4. CASE s \in [at : {"checking", "reading", "failing"}, tx : Legacy]
  BY <1>4 DEF WalletIdle
<1>5. CASE s \in [at : {"crediting"}, tx : Legacy, balance : Nat \cup {NoWallet},
                  deposited : Nat]
  BY <1>5 DEF WalletIdle, NoWallet
<1>6. CASE s \in [at : {"adding"}, account : Account, first : BOOLEAN]
  <2>1. /\ s.at = "adding" /\ s.account \in Account /\ s # WalletIdle
    BY <1>6 DEF WalletIdle
  <2>2. s.first \in BOOLEAN
    BY <1>6, Zenon
  <2> QED
    BY <2>1, <2>2
<1>7. CASE s \in [at : {"removing", "choosing"}, account : Account]
  BY <1>7 DEF WalletIdle
<1> QED
  BY <1>1, <1>2, <1>3, <1>4, <1>5, <1>6, <1>7 DEF WalletState

(* The records that requests write are of those kinds.                     *)
LEMMA WalletCallForms ==
  /\ WalletIdle \in WalletState /\ WalletIdle.at = "idle"
  /\ [at |-> "making"] \in WalletState
  /\ \A k \in {"deposit", "withdrawal"}, x \in Nat, n \in Int :
       [at |-> "opening", kind |-> k, amount |-> x, saw |-> n] \in WalletState
  /\ \A a \in {"checking", "reading", "failing"}, t \in Legacy :
       [at |-> a, tx |-> t] \in WalletState
  /\ \A t \in Legacy, n \in Nat \cup {NoWallet}, m \in Nat :
       [at |-> "crediting", tx |-> t, balance |-> n, deposited |-> m] \in WalletState
  /\ \A a \in {"removing", "choosing"}, b \in Account :
       [at |-> a, account |-> b] \in WalletState
BY DEF WalletState, WalletIdle

LEMMA AddingForm ==
  \A a \in Account, b \in BOOLEAN :
    [at |-> "adding", account |-> a, first |-> b] \in WalletState
BY Zenon DEF WalletState

(* Every step that a request takes.                                        *)
WalletStep(c) ==
  \/ FindWallet(c) \/ OpenWallet(c) \/ OpenTransaction(c)
  \/ FailDeposit(c) \/ CheckDeposit(c) \/ ReadWallet(c) \/ CreditWallet(c)
  \/ WalletCallDies(c)
  \/ AddAccount(c) \/ RemoveAccount(c) \/ ChooseDefault(c)
  \/ \E x \in WalletAsk : AskDeposit(c, x) \/ AskWithdrawal(c, x)
  \/ \E t \in Legacy : CallbackFinds(c, t)
  \/ \E a \in Account : \/ CountAccounts(c, a)
                        \/ FindAccount(c, a, "removing")
                        \/ FindAccount(c, a, "choosing")

(* What a step makes of its request is again of those kinds.               *)
LEMMA WalletCallStays ==
  ASSUME WalletShape, NEW c \in WalletCall, WalletStep(c)
  PROVE  \E s \in WalletState : walletCall' = [walletCall EXCEPT ![c] = s]
<1> USE DEF WalletDo
<1>1. CASE \/ OpenWallet(c) \/ OpenTransaction(c) \/ FailDeposit(c) \/ CreditWallet(c)
           \/ WalletCallDies(c) \/ AddAccount(c) \/ RemoveAccount(c) \/ ChooseDefault(c)
  BY <1>1, WalletCallForms
  DEF OpenWallet, OpenTransaction, FailDeposit, CreditWallet, WalletCallDies, AddAccount,
      RemoveAccount, ChooseDefault
<1>2. CASE FindWallet(c)
  BY <1>2, WalletCallForms DEF FindWallet
<1>3. CASE ReadWallet(c)
  <2>1. walletCall[c].tx \in Legacy
    BY <1>3, WalletCallShape DEF ReadWallet, WalletShape
  <2>2. [at |-> "crediting", tx |-> walletCall[c].tx, balance |-> balance,
         deposited |-> deposited] \in WalletState
    BY <2>1, WalletCallForms DEF WalletShape, WalletRows
  <2> QED
    BY <1>3, <2>2, WalletCallForms DEF ReadWallet
<1>8. CASE CheckDeposit(c)
  <2>1. walletCall[c].tx \in Legacy
    BY <1>8, WalletCallShape DEF CheckDeposit, WalletShape
  <2> QED
    BY <1>8, <2>1, WalletCallForms DEF CheckDeposit
<1>4. ASSUME NEW x \in WalletAsk, NEW k \in {"deposit", "withdrawal"}, AskMoney(c, k, x)
      PROVE  \E s \in WalletState : walletCall' = [walletCall EXCEPT ![c] = s]
  <2>1. x \in Nat /\ balance \in Int
    BY WalletAssumption DEF WalletShape, WalletRows, NoWallet
  <2> QED
    BY <1>4, <2>1, WalletCallForms DEF AskMoney
<1>5. ASSUME NEW t \in Legacy, CallbackFinds(c, t)
      PROVE  \E s \in WalletState : walletCall' = [walletCall EXCEPT ![c] = s]
  <2>1. CASE walletCall' = walletCall
    BY <2>1 DEF WalletShape
  <2>2. CASE walletCall' # walletCall
    BY <1>5, <2>2, WalletCallForms DEF CallbackFinds
  <2> QED
    BY <2>1, <2>2
<1>6. ASSUME NEW a \in Account, CountAccounts(c, a)
      PROVE  \E s \in WalletState : walletCall' = [walletCall EXCEPT ![c] = s]
  <2>1. (DOMAIN account = {}) \in BOOLEAN
    OBVIOUS
  <2> QED
    BY <1>6, <2>1, AddingForm, Zenon DEF CountAccounts
<1>7. ASSUME NEW a \in Account, NEW what \in {"removing", "choosing"},
             FindAccount(c, a, what)
      PROVE  \E s \in WalletState : walletCall' = [walletCall EXCEPT ![c] = s]
  BY <1>7, WalletCallForms DEF FindAccount
<1> QED
  BY <1>1, <1>2, <1>3, <1>4, <1>5, <1>6, <1>7, <1>8
  DEF WalletStep, AskDeposit, AskWithdrawal

(* The accounts stay a table of marks.                                     *)
LEMMA AccountStays ==
  ASSUME WalletShape, NEW c \in WalletCall,
         AddAccount(c) \/ RemoveAccount(c) \/ ChooseDefault(c)
  PROVE  DOMAIN account' \subseteq Account /\ account' \in [DOMAIN account' -> BOOLEAN]
<1> DEFINE a == walletCall[c].account
<1>1. /\ a \in Account /\ account \in [DOMAIN account -> BOOLEAN]
      /\ DOMAIN account \subseteq Account
  BY WalletCallShape DEF AddAccount, RemoveAccount, ChooseDefault, WalletShape, WalletRows
<1>2. CASE AddAccount(c)
  <2>1. walletCall[c].first \in BOOLEAN
    BY <1>2, WalletCallShape, Zenon DEF AddAccount, WalletShape
  <2>2. account' = [b \in DOMAIN account \cup {a} |->
                      IF b = a THEN walletCall[c].first ELSE account[b]]
    BY <1>2 DEF AddAccount
  <2> QED
    BY <1>1, <2>1, <2>2, Zenon
<1>3. CASE RemoveAccount(c)
  <2>1. account' = [b \in DOMAIN account \ {a} |-> account[b]]
    BY <1>3 DEF RemoveAccount
  <2> QED
    BY <1>1, <2>1, Zenon
<1>4. CASE ChooseDefault(c)
  <2>1. account' = IF a \in DOMAIN account
                   THEN [b \in DOMAIN account |-> b = a]
                   ELSE account
    BY <1>4 DEF ChooseDefault
  <2>2. CASE a \in DOMAIN account
    BY <1>1, <2>1, <2>2, Zenon
  <2>3. CASE a \notin DOMAIN account
    BY <1>1, <2>1, <2>3, Zenon
  <2> QED
    BY <2>2, <2>3
<1> QED
  BY <1>2, <1>3, <1>4
(* The rows stay typed.                                                    *)
LEMMA WalletRowsStay ==
  ASSUME WalletShape, NEW c \in WalletCall, WalletStep(c)
  PROVE  WalletRows'
<1>1. CASE AddAccount(c) \/ RemoveAccount(c) \/ ChooseDefault(c)
  <2>1. UNCHANGED moneyRows
    BY <1>1 DEF AddAccount, RemoveAccount, ChooseDefault
  <2> QED
    BY <1>1, <2>1, AccountStays DEF moneyRows, WalletShape, WalletRows
<1>2. CASE CreditWallet(c)
  <2> DEFINE t == walletCall[c].tx
  <2>1. /\ t \in Legacy /\ walletCall[c].balance \in Int /\ walletCall[c].balance >= -1
        /\ walletCall[c].deposited \in Nat
        /\ WalletAmount[t] \in Nat /\ WalletAmount[t] >= 1
    BY <1>2, WalletCallShape, WalletAssumption DEF CreditWallet, WalletShape
  <2>2. balance' \in Nat /\ deposited' \in Nat
    BY <1>2, <2>1 DEF CreditWallet
  <2>3. legacy' \in [Legacy -> {"none", "pending", "completed", "failed"}]
    BY <1>2, <2>1 DEF CreditWallet, WalletShape, WalletRows
  <2>4. UNCHANGED <<opened, backs, account>>
    BY <1>2 DEF CreditWallet
  <2> QED
    BY <2>2, <2>3, <2>4 DEF WalletShape, WalletRows
<1>3. CASE FailDeposit(c)
  <2>1. legacy' \in [Legacy -> {"none", "pending", "completed", "failed"}]
    BY <1>3, WalletCallShape DEF FailDeposit, WalletShape, WalletRows
  <2> QED
    BY <1>3, <2>1 DEF FailDeposit, WalletShape, WalletRows
<1>4. CASE OpenTransaction(c)
  <2> DEFINE o == [n |-> Cardinality(opened), kind |-> walletCall[c].kind,
                   amount |-> walletCall[c].amount, saw |-> walletCall[c].saw,
                   status |-> "pending"]
  <2>1. o.kind \in {"deposit", "withdrawal"} /\ o.status = "pending"
    BY <1>4, WalletCallShape DEF OpenTransaction, WalletShape
  <2>2. opened' = opened \cup {o}
    BY <1>4 DEF OpenTransaction
  <2> HIDE DEF o
  <2>3. \A p \in opened' : p.kind \in {"deposit", "withdrawal"} /\ p.status = "pending"
    BY <2>1, <2>2 DEF WalletShape, WalletRows
  <2> QED
    BY <1>4, <2>3 DEF OpenTransaction, WalletShape, WalletRows
<1>5. CASE OpenWallet(c)
  BY <1>5 DEF OpenWallet, WalletShape, WalletRows
<1>6. ASSUME NEW t \in Legacy, CallbackFinds(c, t) PROVE WalletRows'
  <2>1. backs' \in [Legacy -> 0 .. WalletMaxBacks]
    BY <1>6, WalletAssumption DEF CallbackFinds, WalletShape, WalletRows
  <2> QED
    BY <1>6, <2>1 DEF CallbackFinds, WalletShape, WalletRows
<1>7. CASE UNCHANGED <<moneyRows, account>>
  BY <1>7 DEF moneyRows, WalletShape, WalletRows
<1> QED
  BY <1>1, <1>2, <1>3, <1>4, <1>5, <1>6, <1>7
  DEF WalletStep, FindWallet, CheckDeposit, ReadWallet, WalletCallDies, AskDeposit, AskWithdrawal, AskMoney,
      CountAccounts, FindAccount

LEMMA InitWalletShape == WalletInit => WalletShape
<1> SUFFICES ASSUME WalletInit PROVE WalletShape
  OBVIOUS
<1>1. DOMAIN account = {} /\ account \in [{} -> BOOLEAN]
  BY Zenon DEF WalletInit
<1>2. walletCall \in [WalletCall -> WalletState]
  BY WalletCallForms DEF WalletInit
<1>3. backs \in [Legacy -> 0 .. WalletMaxBacks]
  BY WalletAssumption DEF WalletInit
<1>4. /\ balance \in Nat \cup {NoWallet} /\ deposited \in Nat /\ opened = {}
      /\ legacy \in [Legacy -> {"none", "pending", "completed", "failed"}]
  BY DEF WalletInit
<1>5. DOMAIN account \subseteq Account /\ account \in [DOMAIN account -> BOOLEAN]
  BY <1>1, Zenon
<1> QED
  BY <1>2, <1>3, <1>4, <1>5 DEF WalletShape, WalletRows

LEMMA NextWalletShape == WalletShape /\ [WalletNext]_walletVars => WalletShape'
<1> SUFFICES ASSUME WalletShape, [WalletNext]_walletVars PROVE WalletShape'
  OBVIOUS
<1>1. CASE UNCHANGED walletVars
  BY <1>1 DEF walletVars, WalletShape, WalletRows
<1>2. ASSUME NEW c \in WalletCall, WalletStep(c) PROVE WalletShape'
  <2>1. PICK s \in WalletState : walletCall' = [walletCall EXCEPT ![c] = s]
    BY <1>2, WalletCallStays
  <2>2. walletCall' \in [WalletCall -> WalletState]
    BY <2>1 DEF WalletShape
  <2> QED
    BY <1>2, <2>2, WalletRowsStay DEF WalletShape
<1> QED
  BY <1>1, <1>2 DEF WalletNext, WalletStep

THEOREM WalletInvariance == WalletSpec => []WalletShape
BY InitWalletShape, NextWalletShape, PTL DEF WalletSpec

(* Every row of the wallet and every request is typed.                     *)
THEOREM WalletTypeCorrect == WalletSpec => []WalletTypeOK
<1>1. ASSUME WalletShape PROVE WalletTypeOK
  <2>1. \A c \in WalletCall : walletCall[c].at \in
          {"idle", "making", "checking", "reading", "crediting", "failing",
           "opening", "adding", "removing", "choosing"}
    BY <1>1, WalletCallShape DEF WalletShape
  <2>2. \E A \in SUBSET Account : account \in [A -> BOOLEAN]
    BY <1>1 DEF WalletShape, WalletRows
  <2> QED
    BY <1>1, <2>1, <2>2 DEF WalletShape, WalletRows, WalletTypeOK
<1> QED
  BY <1>1, WalletInvariance, PTL

-------------------------------------------------------------------------------
(* What the callback of record s is about to credit.                       *)
Carried(s) ==
  IF s.at \in {"checking", "reading", "crediting"} THEN WalletAmount[s.tx] ELSE 0

InFlight == SumFunctionOnSet([c \in WalletCall |-> Carried(walletCall[c])], WalletCall)

(* What callbacks brought in and no callback carries any more.             *)
Landed == Brought - InFlight

CreditInv ==
  /\ 0 <= Landed /\ balance <= Landed
  /\ \A c \in WalletCall : walletCall[c].at = "crediting" => walletCall[c].balance <= Landed

LEMMA CarriedShape ==
  ASSUME NEW s \in WalletState
  PROVE  Carried(s) \in Nat /\ Carried(WalletIdle) = 0
<1>1. WalletIdle.at = "idle"
  BY WalletCallForms
<1> QED
  BY <1>1, WalletCallShape, WalletAssumption DEF Carried

(* An amount times a count, and times one more.                            *)
LEMMA OnceMore ==
  ASSUME NEW a \in Nat, NEW n \in Nat
  PROVE  a * n \in Nat /\ a * (n + 1) = a * n + a
OBVIOUS

LEMMA SumsAreWhole == WalletShape => InFlight \in Nat /\ Brought \in Nat
<1> SUFFICES ASSUME WalletShape PROVE InFlight \in Nat /\ Brought \in Nat
  OBVIOUS
<1> DEFINE f == [c \in WalletCall |-> Carried(walletCall[c])]
           g == [t \in PaidOk |-> WalletAmount[t] * backs[t]]
<1>1. IsFiniteSet(WalletCall) /\ \A c \in WalletCall : f[c] \in Nat
  BY CarriedShape, WalletAssumption DEF WalletShape
<1>2. IsFiniteSet(PaidOk) /\ \A t \in PaidOk : g[t] \in Nat
  <2>1. ASSUME NEW t \in PaidOk PROVE WalletAmount[t] \in Nat /\ backs[t] \in Nat
    BY WalletAssumption DEF WalletShape, WalletRows
  <2> QED
    BY <2>1, OnceMore, WalletAssumption
<1>3. DOMAIN g = PaidOk
  OBVIOUS
<1> HIDE DEF f, g
<1>4. SumFunctionOnSet(f, WalletCall) \in Nat /\ SumFunctionOnSet(g, PaidOk) \in Nat
  BY <1>1, <1>2, SumNat
<1> QED
  BY <1>3, <1>4 DEF InFlight, Brought, SumFunction, f, g

LEMMA SumsStayWhole == (WalletShape => InFlight \in Nat /\ Brought \in Nat)'
BY SumsAreWhole, PTL

(* A step of one request moves what is in flight by what it carries.       *)
LEMMA FlightMoves ==
  ASSUME WalletShape, WalletShape', NEW c \in WalletCall, NEW s \in WalletState,
         walletCall' = [walletCall EXCEPT ![c] = s]
  PROVE  InFlight' = InFlight - Carried(walletCall[c]) + Carried(s)
<1> DEFINE w == [d \in WalletCall |-> Carried(walletCall[d])]
           v == [d \in WalletCall |-> Carried(walletCall'[d])]
<1>1. Numbers(w, WalletCall)
  BY CarriedShape, WalletAssumption DEF Numbers, WalletShape
<1>2. /\ \A d \in WalletCall : d # c => v[d] = w[d]
      /\ v[c] = Carried(s) /\ w[c] = Carried(walletCall[c]) /\ v[c] \in Int
  BY CarriedShape DEF WalletShape
<1>3. InFlight = SumFunctionOnSet(w, WalletCall)
      /\ InFlight' = SumFunctionOnSet(v, WalletCall)
  BY DEF InFlight
<1> HIDE DEF v, w
<1> QED
  BY <1>1, <1>2, <1>3, SumChange

(* A callback for a paid deposit brings its amount once more.              *)
LEMMA BroughtMoves ==
  ASSUME WalletShape, NEW t \in Legacy, backs' = [backs EXCEPT ![t] = @ + 1]
  PROVE  Brought' = Brought + (IF t \in PaidOk THEN WalletAmount[t] ELSE 0)
<1> DEFINE w == [u \in PaidOk |-> WalletAmount[u] * backs[u]]
           v == [u \in PaidOk |-> WalletAmount[u] * backs'[u]]
<1>1. /\ PaidOk \subseteq Legacy /\ IsFiniteSet(PaidOk)
      /\ \A u \in PaidOk : WalletAmount[u] \in Nat /\ backs[u] \in Nat
  <2>1. PaidOk \subseteq Legacy /\ IsFiniteSet(PaidOk)
    BY WalletAssumption
  <2>2. \A u \in Legacy : WalletAmount[u] \in Nat
    BY WalletAssumption
  <2>3. \A u \in Legacy : backs[u] \in Nat
    BY WalletAssumption DEF WalletShape, WalletRows
  <2> QED
    BY <2>1, <2>2, <2>3
<1>2. \A u \in PaidOk : u # t => v[u] = w[u]
  BY <1>1 DEF WalletShape, WalletRows
<1>3. \A u \in PaidOk : w[u] \in Int
  BY <1>1, OnceMore
<1>4. t \in PaidOk => v[t] \in Int /\ v[t] = w[t] + WalletAmount[t]
  <2> HAVE t \in PaidOk
  <2>1. backs'[t] = backs[t] + 1
    BY DEF WalletShape, WalletRows
  <2>2. v[t] = WalletAmount[t] * (backs[t] + 1) /\ w[t] = WalletAmount[t] * backs[t]
    BY <2>1
  <2>3. WalletAmount[t] * (backs[t] + 1) = WalletAmount[t] * backs[t] + WalletAmount[t]
        /\ WalletAmount[t] * backs[t] \in Nat
    BY <1>1, OnceMore
  <2> QED
    BY <1>1, <2>2, <2>3
<1>5. /\ Brought = SumFunctionOnSet(w, PaidOk) /\ Brought' = SumFunctionOnSet(v, PaidOk)
      /\ Brought \in Nat
  BY SumsAreWhole DEF Brought, SumFunction
<1>6. Numbers(w, PaidOk)
  BY <1>1, <1>3 DEF Numbers
<1> HIDE DEF v, w
<1>7. CASE t \in PaidOk
  <2>1. SumFunctionOnSet(v, PaidOk) = SumFunctionOnSet(w, PaidOk) - w[t] + v[t]
        /\ w[t] \in Int
    BY <1>2, <1>3, <1>4, <1>6, <1>7, SumChange
  <2> QED
    BY <1>1, <1>4, <1>5, <1>7, <2>1
<1>8. CASE t \notin PaidOk
  <2>1. SumFunctionOnSet(v, PaidOk) = SumFunctionOnSet(w, PaidOk)
    BY <1>2, <1>6, <1>8, SumAgree
  <2> QED
    BY <1>5, <1>8, <2>1
<1> QED
  BY <1>7, <1>8

(* What lands stays landed; a balance read or written is within it.        *)
LEMMA CreditStep ==
  ASSUME WalletShape, WalletShape', CreditInv, NEW c \in WalletCall, NEW s \in WalletState,
         walletCall' = [walletCall EXCEPT ![c] = s],
         Brought' - Brought >= Carried(s) - Carried(walletCall[c]),
         \/ balance' \in {balance, 0}
         \/ /\ balance' <= Landed + Carried(walletCall[c])
            /\ Carried(s) = 0 /\ Brought' = Brought,
         s.at = "crediting" => s.balance <= Landed /\ Carried(s) = Carried(walletCall[c])
  PROVE  CreditInv'
<1>1. /\ InFlight \in Nat /\ Brought \in Nat /\ InFlight' \in Nat /\ Brought' \in Nat
      /\ InFlight' = InFlight - Carried(walletCall[c]) + Carried(s)
      /\ Landed = Brought - InFlight /\ Landed' = Brought' - InFlight'
      /\ Carried(s) \in Nat /\ Carried(walletCall[c]) \in Nat
      /\ balance \in Int /\ balance' \in Int
  <2>1. InFlight \in Nat /\ Brought \in Nat /\ InFlight' \in Nat /\ Brought' \in Nat
    BY SumsAreWhole, SumsStayWhole
  <2>2. InFlight' = InFlight - Carried(walletCall[c]) + Carried(s)
    BY FlightMoves
  <2>3. Carried(s) \in Nat /\ Carried(walletCall[c]) \in Nat
    BY CarriedShape DEF WalletShape
  <2>4. balance \in Int /\ balance' \in Int
    BY DEF WalletShape, WalletRows, NoWallet
  <2> QED
    BY <2>1, <2>2, <2>3, <2>4 DEF Landed
<1>2. Landed' >= Landed /\ Landed \in Int /\ Landed' \in Int
  BY <1>1
<1>3. 0 <= Landed' /\ balance' <= Landed'
  BY <1>1, <1>2 DEF CreditInv
<1>4. ASSUME NEW d \in WalletCall, walletCall'[d].at = "crediting"
      PROVE  walletCall'[d].balance <= Landed'
  <2>1. walletCall'[d] \in WalletState /\ walletCall'[d].balance \in Int
    BY <1>4, WalletCallShape DEF WalletShape
  <2>2. walletCall'[d].balance <= Landed
    BY <1>4 DEF CreditInv, WalletShape
  <2> QED
    BY <1>2, <2>1, <2>2
<1> QED
  BY <1>3, <1>4 DEF CreditInv
(* Requests that carry no deposit, before or after.                        *)
LEMMA RestBacked ==
  ASSUME WalletShape, WalletShape', CreditInv, NEW c \in WalletCall,
         \/ FindWallet(c) \/ OpenWallet(c) \/ OpenTransaction(c) \/ FailDeposit(c)
         \/ AddAccount(c) \/ RemoveAccount(c) \/ ChooseDefault(c)
         \/ \E x \in WalletAsk : AskDeposit(c, x) \/ AskWithdrawal(c, x)
         \/ \E a \in Account : \/ CountAccounts(c, a)
                               \/ FindAccount(c, a, "removing")
                               \/ FindAccount(c, a, "choosing")
  PROVE  CreditInv'
<1> USE DEF WalletDo, moneyRows
<1>1. balance' \in {balance, 0} /\ backs' = backs
  BY DEF FindWallet, OpenWallet, OpenTransaction, FailDeposit, AddAccount, RemoveAccount,
         ChooseDefault, AskDeposit, AskWithdrawal, AskMoney, CountAccounts, FindAccount
<1>2. Brought' = Brought /\ Brought \in Nat
  BY <1>1, SumsAreWhole DEF Brought
<1>3. Carried(walletCall[c]) = 0
  BY WalletCallForms
  DEF FindWallet, OpenWallet, OpenTransaction, FailDeposit, AddAccount, RemoveAccount,
      ChooseDefault, AskDeposit, AskWithdrawal, AskMoney, CountAccounts, FindAccount, Carried
<1>4. PICK s \in WalletState :
        walletCall' = [walletCall EXCEPT ![c] = s]
  BY WalletCallStays DEF WalletStep
<1>5. s.at \notin {"checking", "reading", "crediting"}
  <2>1. s = walletCall'[c]
    BY <1>4 DEF WalletShape
  <2>2. CASE \/ OpenWallet(c) \/ OpenTransaction(c) \/ FailDeposit(c)
             \/ AddAccount(c) \/ RemoveAccount(c) \/ ChooseDefault(c)
    BY <2>1, <2>2, WalletCallForms
    DEF OpenWallet, OpenTransaction, FailDeposit, AddAccount, RemoveAccount, ChooseDefault,
        WalletShape
  <2>3. CASE FindWallet(c)
    BY <2>1, <2>3 DEF FindWallet, WalletShape
  <2>4. ASSUME NEW x \in WalletAsk, NEW k \in {"deposit", "withdrawal"}, AskMoney(c, k, x)
        PROVE  s.at = "opening"
    BY <2>1, <2>4 DEF AskMoney, WalletShape
  <2>5. ASSUME NEW a \in Account, CountAccounts(c, a) PROVE s.at = "adding"
    <3> DEFINE r == [at |-> "adding", account |-> a, first |-> DOMAIN account = {}]
    <3>1. s = r
      BY <2>1, <2>5, Zenon DEF CountAccounts, WalletShape
    <3>2. r.at = "adding"
      BY Zenon
    <3> QED
      BY <3>1, <3>2, Zenon
  <2>6. ASSUME NEW a \in Account, NEW what \in {"removing", "choosing"},
               FindAccount(c, a, what)
        PROVE  s.at = what
    BY <2>1, <2>6 DEF FindAccount, WalletShape
  <2> QED
    BY <2>2, <2>3, <2>4, <2>5, <2>6 DEF AskDeposit, AskWithdrawal
<1>6. Carried(s) = 0
  BY <1>5 DEF Carried
<1>7. Brought' - Brought >= Carried(s) - Carried(walletCall[c])
  BY <1>2, <1>3, <1>6
<1> QED
  BY <1>1, <1>4, <1>5, <1>7, CreditStep

(* A callback that finds its deposit pending takes up what it brings.      *)
LEMMA FindingBacked ==
  ASSUME WalletShape, WalletShape', CreditInv, NEW c \in WalletCall, NEW t \in Legacy,
         CallbackFinds(c, t)
  PROVE  CreditInv'
<1> USE DEF WalletDo
<1> DEFINE x == IF t \in PaidOk THEN WalletAmount[t] ELSE 0
<1>1. /\ walletCall[c] = WalletIdle /\ backs' = [backs EXCEPT ![t] = @ + 1]
      /\ balance' = balance
  BY DEF CallbackFinds
<1>2. Carried(walletCall[c]) = 0 /\ x \in Nat /\ Brought \in Nat
  <2>1. WalletAmount[t] \in Nat
    BY WalletAssumption
  <2> QED
    BY <1>1, <2>1, CarriedShape, SumsAreWhole DEF WalletShape
<1>3. Brought' = Brought + x
  BY <1>1, BroughtMoves
<1>4. PICK s \in WalletState :
        /\ walletCall' = [walletCall EXCEPT ![c] = s]
        /\ s.at # "crediting" /\ Carried(s) \in {0, x}
  <2>1. CASE walletCall' = walletCall
    <3>1. /\ walletCall' = [walletCall EXCEPT ![c] = WalletIdle]
          /\ WalletIdle \in WalletState /\ WalletIdle.at # "crediting"
          /\ Carried(WalletIdle) = 0
      BY <1>1, <1>2, <2>1, WalletCallForms DEF WalletShape
    <3> QED
      BY <3>1
  <2>2. CASE walletCall' # walletCall
    <3> DEFINE a == IF t \in PaidOk THEN "checking" ELSE "failing"
               r == [at |-> a, tx |-> t]
    <3>1. walletCall' = [walletCall EXCEPT ![c] = r]
      BY <2>2 DEF CallbackFinds
    <3>2. r \in WalletState /\ r.at = a /\ r.tx = t
      BY WalletCallForms
    <3>3. r.at # "crediting" /\ Carried(r) = x
      BY <3>2 DEF Carried
    <3> HIDE DEF r
    <3> QED
      BY <3>1, <3>2, <3>3
  <2> QED
    BY <2>1, <2>2
<1>5. Brought' - Brought >= Carried(s) - Carried(walletCall[c])
  <2> HIDE DEF x
  <2> QED
    BY <1>2, <1>3, <1>4
<1> QED
  BY <1>1, <1>4, <1>5, CreditStep

(* The balance that is read landed, and what is credited to it lands now.  *)
LEMMA CreditingBacked ==
  ASSUME WalletShape, WalletShape', CreditInv, NEW c \in WalletCall,
         CheckDeposit(c) \/ ReadWallet(c) \/ CreditWallet(c) \/ WalletCallDies(c)
  PROVE  CreditInv'
<1> USE DEF WalletDo, moneyRows
<1>0. /\ Brought \in Nat /\ InFlight \in Nat /\ Landed \in Int
      /\ Carried(walletCall[c]) \in Nat
      /\ Carried(WalletIdle) = 0 /\ WalletIdle \in WalletState /\ WalletIdle.at = "idle"
  BY SumsAreWhole, CarriedShape, WalletCallForms DEF Landed, WalletShape
<1>1. backs' = backs /\ Brought' = Brought
  BY DEF CheckDeposit, ReadWallet, CreditWallet, WalletCallDies, Brought
<1>2. CASE \/ WalletCallDies(c)
           \/ CheckDeposit(c) /\ legacy[walletCall[c].tx] # "pending"
           \/ ReadWallet(c) /\ balance = NoWallet
  <2>1. /\ walletCall' = [walletCall EXCEPT ![c] = WalletIdle] /\ balance' = balance
    BY <1>2 DEF CheckDeposit, ReadWallet, WalletCallDies
  <2>2. Brought' - Brought >= Carried(WalletIdle) - Carried(walletCall[c])
    BY <1>0, <1>1
  <2> QED
    BY <1>0, <2>1, <2>2, CreditStep
<1>5. CASE CheckDeposit(c) /\ legacy[walletCall[c].tx] = "pending"
  <2> DEFINE t == walletCall[c].tx
             s == [at |-> "reading", tx |-> t]
  <2>1. t \in Legacy /\ walletCall[c].at = "checking"
    BY <1>5, WalletCallShape DEF CheckDeposit, WalletShape
  <2>2. s \in WalletState /\ s.at = "reading" /\ s.tx = t
    BY <2>1, WalletCallForms
  <2>3. walletCall' = [walletCall EXCEPT ![c] = s] /\ balance' = balance
    BY <1>5 DEF CheckDeposit
  <2> HIDE DEF s
  <2>4. Carried(s) = Carried(walletCall[c])
    BY <2>1, <2>2 DEF Carried
  <2>5. Brought' - Brought >= Carried(s) - Carried(walletCall[c])
    BY <1>0, <1>1, <2>4
  <2> QED
    BY <2>2, <2>3, <2>5, CreditStep
<1>3. CASE ReadWallet(c) /\ balance # NoWallet
  <2> DEFINE t == walletCall[c].tx
             s == [at |-> "crediting", tx |-> t, balance |-> balance, deposited |-> deposited]
  <2>1. t \in Legacy /\ walletCall[c].at = "reading"
    BY <1>3, WalletCallShape DEF ReadWallet, WalletShape
  <2>2. s \in WalletState /\ s.at = "crediting" /\ s.balance = balance /\ s.tx = t
    BY <2>1, WalletCallForms DEF WalletShape, WalletRows
  <2>3. walletCall' = [walletCall EXCEPT ![c] = s] /\ balance' = balance
    BY <1>3 DEF ReadWallet
  <2> HIDE DEF s
  <2>4. Carried(s) = Carried(walletCall[c])
    BY <2>1, <2>2 DEF Carried
  <2>5. Brought' - Brought >= Carried(s) - Carried(walletCall[c])
    BY <1>0, <1>1, <2>4
  <2>6. s.balance <= Landed
    BY <2>2 DEF CreditInv
  <2> QED
    BY <2>2, <2>3, <2>4, <2>5, <2>6, CreditStep
<1>4. CASE CreditWallet(c)
  <2> DEFINE t == walletCall[c].tx
  <2>1. t \in Legacy /\ walletCall[c].at = "crediting" /\ walletCall[c].balance \in Int
    BY <1>4, WalletCallShape DEF CreditWallet, WalletShape
  <2>2. Carried(walletCall[c]) = WalletAmount[t]
    BY <2>1 DEF Carried
  <2>3. /\ walletCall' = [walletCall EXCEPT ![c] = WalletIdle]
        /\ balance' = walletCall[c].balance + WalletAmount[t]
    BY <1>4 DEF CreditWallet
  <2>4. walletCall[c].balance <= Landed
    BY <2>1 DEF CreditInv
  <2>5. balance' <= Landed + Carried(walletCall[c])
    BY <1>0, <2>1, <2>2, <2>3, <2>4
  <2>6. Brought' - Brought >= Carried(WalletIdle) - Carried(walletCall[c])
    BY <1>0, <1>1
  <2> QED
    BY <1>0, <1>1, <2>3, <2>5, <2>6, CreditStep
<1> QED
  BY <1>2, <1>3, <1>4, <1>5

LEMMA InitCredit == WalletInit => CreditInv
<1> SUFFICES ASSUME WalletInit PROVE CreditInv
  OBVIOUS
<1>1. WalletShape
  BY InitWalletShape
<1>2. InFlight = 0
  <2> DEFINE f == [c \in WalletCall |-> Carried(walletCall[c])]
  <2>1. \A c \in WalletCall : f[c] = 0
    BY WalletCallForms DEF WalletInit, Carried
  <2> HIDE DEF f
  <2>2. SumFunctionOnSet(f, WalletCall) = 0
    BY <2>1, SumZero, WalletAssumption
  <2> QED
    BY <2>2 DEF InFlight, f
<1>3. Brought \in Nat /\ balance <= 0
  BY <1>1, SumsAreWhole DEF WalletInit, NoWallet
<1>4. \A c \in WalletCall : walletCall[c].at # "crediting"
  BY WalletCallForms DEF WalletInit
<1>5. balance \in Int /\ Landed = Brought
  BY <1>2, <1>3 DEF WalletInit, NoWallet, Landed
<1> QED
  BY <1>3, <1>4, <1>5 DEF CreditInv

LEMMA NextCredit == WalletShape /\ CreditInv /\ [WalletNext]_walletVars => CreditInv'
<1> SUFFICES ASSUME WalletShape, CreditInv, [WalletNext]_walletVars PROVE CreditInv'
  OBVIOUS
<1>1. WalletShape'
  BY NextWalletShape
<1>2. CASE UNCHANGED walletVars
  BY <1>2 DEF walletVars, CreditInv, Landed, Brought, InFlight
<1>3. CASE WalletNext
  BY <1>1, <1>3, RestBacked, FindingBacked, CreditingBacked DEF WalletNext
<1> QED
  BY <1>2, <1>3

(* However callbacks repeat and overlap, and whatever old balance they     *)
(* write, a deposit that is credited twice included, the wallet holds no   *)
(* more than the successful callbacks delivered brought in, each once      *)
(* (wallet.service.ts:135-164, 224-244).                                   *)
THEOREM CreditsAreBacked == WalletSpec => []CreditsHaveCallbacks
<1>1. ASSUME WalletShape, CreditInv PROVE CreditsHaveCallbacks
  <2>1. Brought \in Nat /\ InFlight \in Nat /\ balance \in Int /\ balance <= Landed
    BY <1>1, SumsAreWhole DEF CreditInv, WalletShape, WalletRows, NoWallet
  <2>2. balance <= Brought
    BY <2>1 DEF Landed
  <2> QED
    BY <2>2 DEF CreditsHaveCallbacks
<1> QED
  BY <1>1, InitCredit, NextCredit, WalletInvariance, PTL DEF WalletSpec

-------------------------------------------------------------------------------
(* Imports.  A file is worked off row by row inside one transaction; what  *)
(* holds of the rows and the totals after every row (Tallied) holds of what*)
(* is committed, unless a reference was taken and nothing is.              *)

ImportRow  == [user : ImportUser, amount : Int, ref : Nat]
ImportedRow == [ref : ImportRef, user : ImportUser, amount : Int]

AddsUp(rows, total) ==
  \A m \in ImportUser : total[m] = SumFunction(AmountsOf(m, rows))

Tallied(acc) ==
  /\ acc.n \in Nat
  /\ acc.rows \subseteq ImportedRow /\ IsFiniteSet(acc.rows)
  /\ acc.total \in [ImportUser -> Int]
  /\ acc.ok => AddsUp(acc.rows, acc.total)

(* Amounts of a finite set of rows have a sum.                             *)
LEMMA AmountsAreNumbers ==
  ASSUME NEW rows, rows \subseteq ImportedRow, IsFiniteSet(rows), NEW m
  PROVE  /\ Numbers(AmountsOf(m, rows), {r \in rows : r.user = m})
         /\ SumFunction(AmountsOf(m, rows))
              = SumFunctionOnSet(AmountsOf(m, rows), {r \in rows : r.user = m})
<1> DEFINE U == {r \in rows : r.user = m}
<1>1. IsFiniteSet(U)
  BY FS_Subset
<1>2. DOMAIN AmountsOf(m, rows) = U /\ \A t \in U : AmountsOf(m, rows)[t] \in Int
  BY DEF AmountsOf, ImportedRow
<1> QED
  BY <1>1, <1>2 DEF Numbers, SumFunction

(* A new row adds its amount to the sum of its user, and to no other.      *)
LEMMA RowAddsUp ==
  ASSUME NEW rows, rows \subseteq ImportedRow, IsFiniteSet(rows),
         NEW t \in ImportedRow, t \notin rows,
         NEW total, total \in [ImportUser -> Int], AddsUp(rows, total)
  PROVE  AddsUp(rows \cup {t}, [total EXCEPT ![t.user] = @ + t.amount])
<1> DEFINE new == rows \cup {t}
<1>1. new \subseteq ImportedRow /\ IsFiniteSet(new)
  BY FS_AddElement
<1>2. t.user \in ImportUser /\ t.amount \in Int
  BY DEF ImportedRow
<1> SUFFICES ASSUME NEW m \in ImportUser
             PROVE  [total EXCEPT ![t.user] = @ + t.amount][m]
                      = SumFunction(AmountsOf(m, new))
  BY DEF AddsUp
<1> DEFINE U == {r \in rows : r.user = m}
           V == {r \in new : r.user = m}
           f == AmountsOf(m, rows)
           g == AmountsOf(m, new)
<1>3. Numbers(f, U) /\ SumFunction(f) = SumFunctionOnSet(f, U)
  BY AmountsAreNumbers
<1>4. Numbers(g, V) /\ SumFunction(g) = SumFunctionOnSet(g, V)
  BY <1>1, AmountsAreNumbers
<1>5. /\ \A r \in U : g[r] = f[r]
      /\ t.user = m => V = U \cup {t} /\ g[t] = t.amount
      /\ t.user # m => V = U
      /\ t \notin U
  BY DEF AmountsOf
<1>6. total[m] = SumFunction(f)
  BY DEF AddsUp
<1> HIDE DEF f, g, U, V
<1>7. SumFunctionOnSet(g, U) = SumFunctionOnSet(f, U) /\ SumFunctionOnSet(f, U) \in Int
  BY <1>3, <1>5, SumAgree, SumInt
<1>8. CASE t.user = m
  <2>1. SumFunctionOnSet(g, V) = SumFunctionOnSet(g, U) + t.amount
    <3>1. Numbers(g, U \cup {t}) /\ V = U \cup {t} /\ g[t] = t.amount
      BY <1>4, <1>5, <1>8
    <3>2. SumFunctionOnSet(g, U \cup {t}) = SumFunctionOnSet(g, U) + g[t]
      BY <1>5, <3>1, SumAdd
    <3> QED
      BY <3>1, <3>2
  <2> QED
    BY <1>2, <1>3, <1>4, <1>6, <1>7, <1>8, <2>1 DEF g
<1>9. CASE t.user # m
  BY <1>2, <1>3, <1>4, <1>5, <1>6, <1>7, <1>9 DEF g
<1> QED
  BY <1>8, <1>9

(* So does every row of a file.                                            *)
LEMMA RowTallied ==
  ASSUME NEW acc, Tallied(acc), NEW row \in ImportRow, NEW clock \in ImportClock
  PROVE  Tallied(InsertRow(acc, row, clock))
<1> DEFINE ref == RefOf(row, acc.n, clock)
           t   == [ref |-> ref, user |-> row.user, amount |-> row.amount]
           new == [n     |-> acc.n + 1,
                   ok    |-> acc.ok /\ \A r \in acc.rows : r.ref # ref,
                   rows  |-> acc.rows \cup {t},
                   total |-> [acc.total EXCEPT ![row.user] = @ + row.amount]]
<1>1. /\ acc.n \in Nat
      /\ acc.rows \subseteq ImportedRow /\ IsFiniteSet(acc.rows)
      /\ acc.total \in [ImportUser -> Int]
  BY DEF Tallied
<1>2. row.user \in ImportUser /\ row.amount \in Int /\ row.ref \in Nat
  BY DEF ImportRow
<1>3. ref \in ImportRef
  BY <1>1, <1>2 DEF RefOf, ImportRef
<1>4. t \in ImportedRow /\ t.ref = ref /\ t.user = row.user /\ t.amount = row.amount
  BY <1>2, <1>3 DEF ImportedRow
<1> HIDE DEF t, ref
<1>5. InsertRow(acc, row, clock) = IF row.user \notin rostered THEN acc ELSE new
  BY Zenon DEF InsertRow, t, ref
<1>6. /\ new.n = acc.n + 1 /\ new.rows = acc.rows \cup {t}
      /\ new.total = [acc.total EXCEPT ![row.user] = @ + row.amount]
  BY Zenon
<1>7. new.ok => acc.ok /\ \A r \in acc.rows : r.ref # ref
  BY Zenon
<1> HIDE DEF new
<1>8. new.n \in Nat /\ new.rows \subseteq ImportedRow /\ IsFiniteSet(new.rows)
  BY <1>1, <1>4, <1>6, FS_AddElement
<1>9. new.total \in [ImportUser -> Int]
  BY <1>1, <1>2, <1>6
<1>10. ASSUME acc.ok /\ \A r \in acc.rows : r.ref # ref
       PROVE  AddsUp(new.rows, new.total)
  <2>1. AddsUp(acc.rows, acc.total)
    BY <1>10 DEF Tallied
  <2>2. t \notin acc.rows
    BY <1>4, <1>10
  <2> QED
    BY <1>1, <1>4, <1>6, <2>1, <2>2, RowAddsUp
<1>11. Tallied(new)
  BY <1>7, <1>8, <1>9, <1>10, Zenon DEF Tallied
<1> QED
  BY <1>5, <1>11

-------------------------------------------------------------------------------
(* The rows worked off one after the other: g[i] is the state after i.     *)

ImportBegins == [n |-> 0, ok |-> TRUE, rows |-> imported, total |-> tally]

WorkedOff(rows, clock, n, g) ==
  g = [i \in 0 .. n |->
         IF i = 0 THEN ImportBegins ELSE InsertRow(g[i - 1], rows[i], clock)]

LEMMA WorkedOffUpTo ==
  ASSUME NEW rows \in Seq(ImportRow), NEW clock
  PROVE  \A n \in Nat : \E g : WorkedOff(rows, clock, n, g)
<1> DEFINE T == {n \in Nat : ~ \E g : WorkedOff(rows, clock, n, g)}
<1>1. ASSUME NEW n \in T PROVE \E m \in T : m < n
  <2>1. CASE n = 0
    <3> DEFINE g == [i \in 0 .. 0 |-> ImportBegins]
    <3>1. g = [i \in 0 .. 0 |->
                 IF i = 0 THEN ImportBegins ELSE InsertRow(g[i - 1], rows[i], clock)]
      OBVIOUS
    <3> HIDE DEF g
    <3>2. WorkedOff(rows, clock, 0, g)
      BY <3>1 DEF WorkedOff
    <3> QED
      BY <2>1, <3>2
  <2>2. CASE n # 0 /\ n - 1 \notin T
    <3>1. n - 1 \in Nat /\ n \in Nat
      BY <2>2
    <3>2. PICK f : WorkedOff(rows, clock, n - 1, f)
      BY <2>2, <3>1
    <3> DEFINE last == InsertRow(f[n - 1], rows[n], clock)
               g == [i \in 0 .. n |-> IF i = n THEN last ELSE f[i]]
    <3>3. \A i \in 0 .. n - 1 :
            f[i] = IF i = 0 THEN ImportBegins ELSE InsertRow(f[i - 1], rows[i], clock)
      BY <3>2 DEF WorkedOff
    <3>4. g[n] = last /\ (\A i \in 0 .. n - 1 : g[i] = f[i])
      BY <3>1
    <3>5. ASSUME NEW i \in 0 .. n
          PROVE  g[i] = IF i = 0 THEN ImportBegins ELSE InsertRow(g[i - 1], rows[i], clock)
      <4>1. CASE i = n
        <5>1. n - 1 \in 0 .. n - 1 /\ g[n - 1] = f[n - 1]
          BY <3>1, <3>4
        <5> QED
          BY <2>2, <3>4, <4>1, <5>1
      <4>2. CASE i # n
        <5>1. i \in 0 .. n - 1 /\ (i # 0 => i - 1 \in 0 .. n - 1)
          BY <3>1, <4>2
        <5> HIDE DEF g
        <5>2. g[i] = f[i] /\ (i # 0 => g[i - 1] = f[i - 1])
          BY <3>4, <5>1
        <5> QED
          BY <3>3, <5>1, <5>2
      <4> QED
        BY <4>1, <4>2
    <3>6. DOMAIN g = 0 .. n /\ g = [i \in 0 .. n |-> g[i]]
      OBVIOUS
    <3> HIDE DEF g
    <3>7. WorkedOff(rows, clock, n, g)
      BY <3>5, <3>6 DEF WorkedOff
    <3> QED
      BY <3>7
  <2>3. CASE n # 0 /\ n - 1 \in T
    BY <2>3
  <2> QED
    BY <2>1, <2>2, <2>3
<1>2. T \subseteq Nat
  OBVIOUS
<1> HIDE DEF T
<1>3. T = {}
  BY <1>1, <1>2, NoLeastNumber
<1> QED
  BY <1>3 DEF T

(* An import answers what is there after its last row.                     *)
LEMMA ImportIs ==
  ASSUME NEW rows \in Seq(ImportRow), NEW clock
  PROVE  \E g : WorkedOff(rows, clock, Len(rows), g) /\ Import(rows, clock) = g[Len(rows)]
<1> DEFINE g == CHOOSE h : WorkedOff(rows, clock, Len(rows), h)
<1>1. \E h : WorkedOff(rows, clock, Len(rows), h)
  <2>1. Len(rows) \in Nat
    BY LenProperties
  <2>2. \A n \in Nat : \E h : WorkedOff(rows, clock, n, h)
    BY WorkedOffUpTo
  <2> QED
    BY <2>1, <2>2, Zenon
<1>2. WorkedOff(rows, clock, Len(rows), g)
  BY <1>1
<1>3. Import(rows, clock) = g[Len(rows)]
  BY Zenon DEF Import, WorkedOff, ImportBegins
<1> QED
  BY <1>2, <1>3

(* After every row, rows and totals agree.                                 *)
LEMMA ImportTallied ==
  ASSUME NEW rows \in Seq(ImportRow), NEW clock \in ImportClock, Tallied(ImportBegins)
  PROVE  Tallied(Import(rows, clock))
<1>1. PICK g : WorkedOff(rows, clock, Len(rows), g) /\ Import(rows, clock) = g[Len(rows)]
  BY ImportIs
<1> DEFINE T == {i \in 0 .. Len(rows) : ~ Tallied(g[i])}
<1>2. \A i \in 0 .. Len(rows) :
        g[i] = IF i = 0 THEN ImportBegins ELSE InsertRow(g[i - 1], rows[i], clock)
  BY <1>1 DEF WorkedOff
<1>3. ASSUME NEW i \in T PROVE \E m \in T : m < i
  <2>1. i \in 0 .. Len(rows) /\ i # 0
    BY <1>2, <1>3
  <2>2. rows[i] \in ImportRow /\ i - 1 \in 0 .. Len(rows) /\ i - 1 < i
    BY <2>1
  <2>3. i - 1 \in T
    <3>1. g[i] = InsertRow(g[i - 1], rows[i], clock)
      BY <1>2, <2>1
    <3>2. Tallied(g[i - 1]) => Tallied(g[i])
      BY <2>2, <3>1, RowTallied
    <3> QED
      BY <2>2, <3>2
  <2> QED
    BY <2>2, <2>3
<1>4. T \subseteq Nat
  OBVIOUS
<1> HIDE DEF T
<1>5. T = {}
  BY <1>3, <1>4, NoLeastNumber
<1>6. Len(rows) \in 0 .. Len(rows)
  OBVIOUS
<1> QED
  BY <1>1, <1>5, <1>6 DEF T

-------------------------------------------------------------------------------
ImportShape ==
  /\ rostered \subseteq ImportUser
  /\ imported \subseteq ImportedRow /\ IsFiniteSet(imported)
  /\ tally \in [ImportUser -> Int]
  /\ \A i \in invited : i.user \in ImportUser /\ i.clock \in ImportClock

ImportInv == ImportShape /\ AddsUp(imported, tally)

LEMMA InitImports == ImportInit => ImportInv
<1> SUFFICES ASSUME ImportInit PROVE ImportInv
  OBVIOUS
<1>1. ASSUME NEW m \in ImportUser PROVE SumFunction(AmountsOf(m, {})) = 0
  <2>1. DOMAIN AmountsOf(m, {}) = {}
    BY DEF AmountsOf
  <2> QED
    BY <2>1, SumEmpty DEF SumFunction
<1> QED
  BY <1>1, FS_EmptySet DEF ImportInit, ImportInv, ImportShape, AddsUp

LEMMA NextImports == ImportInv /\ [ImportNext]_importVars => ImportInv'
<1> SUFFICES ASSUME ImportInv, [ImportNext]_importVars PROVE ImportInv'
  OBVIOUS
<1>1. CASE UNCHANGED importVars
  BY <1>1 DEF importVars, ImportInv, ImportShape
<1>2. ASSUME NEW m \in ImportUser, JoinRoster(m) PROVE ImportInv'
  BY <1>2 DEF JoinRoster, ImportInv, ImportShape
<1>3. ASSUME NEW f \in DOMAIN ImportFile, NEW t \in ImportClock,
             ImportContributions(ImportFile[f], t)
      PROVE  ImportInv'
  <2> DEFINE done == Import(ImportFile[f], t)
  <2>1. ImportFile[f] \in Seq(ImportRow)
    BY ImportAssumption DEF ImportRow
  <2>2. Tallied(ImportBegins)
    <3>1. /\ ImportBegins.n = 0 /\ ImportBegins.rows = imported
          /\ ImportBegins.total = tally
      BY DEF ImportBegins
    <3> QED
      BY <3>1 DEF Tallied, ImportInv, ImportShape
  <2>3. Tallied(done)
    BY <2>1, <2>2, ImportTallied
  <2>4. done.ok /\ imported' = done.rows /\ tally' = done.total
        /\ UNCHANGED <<rostered, invited>>
    BY <1>3, Zenon DEF ImportContributions
  <2> HIDE DEF done
  <2> QED
    BY <2>3, <2>4, Zenon DEF Tallied, ImportInv, ImportShape
<1>4. ASSUME NEW f \in DOMAIN ImportFile, NEW t \in ImportClock,
             ImportMembers(ImportFile[f], t)
      PROVE  ImportInv'
  <2> DEFINE rows == ImportFile[f]
             added == { [user |-> rows[i].user, clock |-> t] :
                        i \in {j \in DOMAIN rows : rows[j].user \notin rostered} }
  <2>1. \A i \in DOMAIN rows : rows[i].user \in ImportUser
    <3>1. rows \in Seq(ImportRow)
      BY ImportAssumption DEF ImportRow
    <3> HIDE DEF rows
    <3>2. \A i \in DOMAIN rows : rows[i] \in ImportRow
      BY <3>1
    <3> QED
      BY <3>2 DEF ImportRow
  <2>2. \A i \in added : i.user \in ImportUser /\ i.clock \in ImportClock
    BY <2>1
  <2>3. invited' = invited \cup added /\ UNCHANGED <<rostered, imported, tally>>
    BY <1>4 DEF ImportMembers
  <2> HIDE DEF added
  <2> QED
    BY <2>2, <2>3 DEF ImportInv, ImportShape
<1> QED
  BY <1>1, <1>2, <1>3, <1>4 DEF ImportNext

(* What imports credited to a member is what their transactions add up to, *)
(* however files repeat references (bulk-import.service.ts:73-123).        *)
THEOREM ImportsAreAccounted == ImportSpec => []ImportsAddUp
<1>1. ImportInv => ImportsAddUp
  BY DEF ImportInv, AddsUp, ImportsAddUp
<1> QED
  BY <1>1, InitImports, NextImports, PTL DEF ImportSpec

(* Every row of an import is typed.                                        *)
THEOREM ImportTypeCorrect == ImportSpec => []ImportTypeOK
<1>1. ImportInv => ImportTypeOK
  BY DEF ImportInv, ImportShape, ImportTypeOK, ImportedRow
<1> QED
  BY <1>1, InitImports, NextImports, PTL DEF ImportSpec

-------------------------------------------------------------------------------
(* Revenue.                                                                *)

(* Every quote is the computation's answer for some amount.                *)
QuoteComputed ==
  quote # NoQuote =>
    \E type \in FeeType, gross \in Nat :
      quote = [type |-> type, gross |-> gross, fee |-> FeeOf(type, gross),
               net |-> NetOf(type, gross)]

RevInv ==
  /\ QuoteComputed
  /\ RevTypeOK

(* The schedule, entry by entry.                                           *)
LEMMA Schedule ==
  /\ FeeType = {"contribution", "harambee", "loanOrigination", "withdrawal", "b2cPayout",
                "latePayment", "currencyConversion"}
  /\ FeeSchedule["contribution"] = [rate |-> 10, flat |-> 0, min |-> 0, max |-> 500]
  /\ FeeSchedule["harambee"] = [rate |-> 25, flat |-> 0, min |-> 0, max |-> 2500]
  /\ FeeSchedule["loanOrigination"] = [rate |-> 20, flat |-> 0, min |-> 100, max |-> 5000]
  /\ FeeSchedule["withdrawal"] = [rate |-> 0, flat |-> 25, min |-> 0, max |-> 25]
  /\ FeeSchedule["b2cPayout"] = [rate |-> 5, flat |-> 0, min |-> 30, max |-> 500]
  /\ FeeSchedule["latePayment"] = [rate |-> 0, flat |-> 100, min |-> 0, max |-> 100]
  /\ FeeSchedule["currencyConversion"] = [rate |-> 15, flat |-> 0, min |-> 0, max |-> 5000]
BY DEF FeeType, FeeSchedule

(* A fee is within the payment, and rises by less than the payment does.   *)
LEMMA FeeBounded ==
  ASSUME NEW type \in FeeType, NEW gross \in Nat
  PROVE  /\ FeeOf(type, gross) \in Nat /\ FeeOf(type, gross) <= 1000 * gross
         /\ FeeOf(type, gross + 1) \in Nat
         /\ FeeOf(type, gross + 1) <= FeeOf(type, gross) + 1000
<1>1. CASE type = "contribution"
  BY <1>1, Schedule DEF FeeOf, AtLeast, AtMost, LesserOf
<1>2. CASE type = "harambee"
  BY <1>2, Schedule DEF FeeOf, AtLeast, AtMost, LesserOf
<1>3. CASE type = "loanOrigination"
  BY <1>3, Schedule DEF FeeOf, AtLeast, AtMost, LesserOf
<1>4. CASE type = "withdrawal"
  BY <1>4, Schedule DEF FeeOf, AtLeast, AtMost, LesserOf
<1>5. CASE type = "b2cPayout"
  BY <1>5, Schedule DEF FeeOf, AtLeast, AtMost, LesserOf
<1>6. CASE type = "latePayment"
  BY <1>6, Schedule DEF FeeOf, AtLeast, AtMost, LesserOf
<1>7. CASE type = "currencyConversion"
  BY <1>7, Schedule DEF FeeOf, AtLeast, AtMost, LesserOf
<1> QED
  BY <1>1, <1>2, <1>3, <1>4, <1>5, <1>6, <1>7, Schedule

(* A computed quote has no cliff.                                          *)
LEMMA ComputedHasNoCliff == QuoteComputed => NoFeeCliff
<1> SUFFICES ASSUME QuoteComputed, quote # NoQuote
             PROVE  /\ quote.net >= 0 /\ quote.fee >= 0
                    /\ quote.fee + quote.net = 1000 * quote.gross
                    /\ NetOf(quote.type, quote.gross + 1) >= quote.net
  BY DEF NoFeeCliff
<1>1. PICK type \in FeeType, gross \in Nat :
        quote = [type |-> type, gross |-> gross, fee |-> FeeOf(type, gross),
                 net |-> NetOf(type, gross)]
  BY DEF QuoteComputed
<1>2. /\ quote.type = type /\ quote.gross = gross /\ quote.fee = FeeOf(type, gross)
      /\ quote.net = 1000 * gross - FeeOf(type, gross)
  BY <1>1 DEF NetOf
<1>3. NetOf(type, gross + 1) = 1000 * (gross + 1) - FeeOf(type, gross + 1)
  BY DEF NetOf
<1> QED
  BY <1>2, <1>3, FeeBounded

(* A quote is computed, whichever route asks for it.                       *)
LEMMA QuoteFeeComputes ==
  ASSUME NEW type \in FeeType, NEW gross \in Gross, QuoteFee(type, gross)
  PROVE  QuoteComputed' /\ quote'.type \in FeeType
<1>1. gross \in Nat
  BY RevenueAssumption
<1>2. quote' = [type |-> type, gross |-> gross, fee |-> FeeOf(type, gross),
                net |-> NetOf(type, gross)]
  BY DEF QuoteFee
<1> QED
  BY <1>1, <1>2 DEF QuoteComputed

(* Before the first quote.                                                 *)
LEMMA InitRevInv == RevInit => RevInv
BY DEF RevInit, RevInv, QuoteComputed, RevTypeOK

(* An answer alone changes nothing else.                                   *)
LEMMA RevKept ==
  ASSUME RevTypeOK, UNCHANGED <<quote, refVars, reportVars>>,
         revAnswer' \in {"none", "ok", "invalid", "notFound", "forbidden", "error"}
  PROVE  RevTypeOK'
BY DEF RevTypeOK, refVars, reportVars

(* Every step of quotes, referrals and reports keeps it.                   *)
LEMMA NextRevInv == RevInv /\ [RevNext]_revVars => RevInv'
<1> SUFFICES ASSUME RevInv, [RevNext]_revVars PROVE RevInv'
  OBVIOUS
<1>1. ASSUME NEW type \in FeeType, NEW gross \in Gross, QuoteFee(type, gross)
      PROVE  RevInv'
  BY <1>1, QuoteFeeComputes DEF RevInv, RevTypeOK, QuoteFee, refVars, reportVars
<1>2. ASSUME NEW gross \in Gross, NEW isHarambee \in BOOLEAN,
             QuoteContribution(gross, isHarambee)
      PROVE  RevInv'
  BY <1>1, <1>2, Schedule DEF QuoteContribution
<1>3. ASSUME UNCHANGED quote, RevTypeOK' PROVE RevInv'
  BY <1>3 DEF RevInv, QuoteComputed
<1>4. ASSUME NEW gross \in Gross, Cashout(gross) PROVE RevInv'
  <2>1. UNCHANGED <<quote, refVars, reportVars>>
    BY <1>4 DEF Cashout
  <2>2. revAnswer' = "notFound" \/ revAnswer' = "invalid"
    BY <1>4 DEF Cashout
  <2> QED
    BY <1>3, <2>1, <2>2, RevKept DEF RevInv
<1>5. CASE RevenueStreams \/ GetReferralCode \/ TrackReferralSignup \/ ReferralThrows
  <2>1. refCode' \in BOOLEAN
    <3>1. refCode \in BOOLEAN
      BY DEF RevInv, RevTypeOK
    <3> QED
      BY <1>5, <3>1, Zenon
      DEF RevenueStreams, GetReferralCode, TrackReferralSignup, ReferralThrows, refVars
  <2> QED
    BY <1>3, <1>5, <2>1
    DEF RevenueStreams, GetReferralCode, TrackReferralSignup, ReferralThrows, refVars,
        reportVars, RevInv, RevTypeOK
<1>6. ASSUME NEW r \in Report,
             \/ \E officer \in BOOLEAN : BuyReport(r, officer)
             \/ QueueReport(r) \/ GatherFigures(r) \/ UploadReport(r)
             \/ CompleteReport(r) \/ RetryReport(r)
      PROVE  RevInv'
  BY <1>3, <1>6
  DEF BuyReport, QueueReport, GatherFigures, UploadReport, CompleteReport, RetryReport,
      refVars, RevInv, RevTypeOK
<1>7. CASE UNCHANGED revVars
  BY <1>3, <1>7 DEF revVars, refVars, reportVars, RevInv, RevTypeOK
<1> QED
  BY <1>1, <1>2, <1>4, <1>5, <1>6, <1>7 DEF RevNext

(* No quote has a cliff, whatever the amount (revenue-config.service.ts:   *)
(* 239-279): the schedule's rates, floors and caps never take more than    *)
(* the payment, nor more of a shilling added to it than the shilling.      *)
THEOREM QuotesHaveNoCliff == RevSpec => []NoFeeCliff
<1>1. RevInv => NoFeeCliff
  BY ComputedHasNoCliff DEF RevInv
<1> QED
  BY <1>1, InitRevInv, NextRevInv, PTL DEF RevSpec

(* Quotes, referrals and reports keep to their types: a quote is of one of *)
(* the seven fees, and a report's Transaction and job take no other status *)
(* however often the job is retried (revenue.routes.ts,                    *)
(* audit-report.worker.ts).                                                *)
THEOREM RevTypeCorrect == RevSpec => []RevTypeOK
<1>1. RevInv => RevTypeOK
  BY DEF RevInv
<1> QED
  BY <1>1, InitRevInv, NextRevInv, PTL DEF RevSpec

-------------------------------------------------------------------------------
(* Paybill.  A request that found a phone's counter new is the only one to *)
(* set its time to live, and until it has, the counter does not fade away. *)

PushRecord ==
  {NoPush}
    \cup [at : {"expire", "read", "claim", "reread", "salt"}, group : PayGroup,
          phone : Phone]

ExpiryIsDue ==
  \A c \in PushCall : pushCall[c].at = "expire" =>
    /\ pushes[pushCall[c].phone] > 0 /\ pushCall[c].phone \notin fading
    /\ \A d \in PushCall \ {c} :
         pushCall[d].at = "expire" => pushCall[d].phone # pushCall[c].phone

PaybillInv ==
  /\ PaybillTypeOK
  /\ pushCall \in [PushCall -> PushRecord]
  /\ ExpiryIsDue

(* What the place of a request tells of its record.                        *)
LEMMA PushRecords ==
  /\ NoPush \in PushRecord /\ NoPush.at = "none"
  /\ \A g \in PayGroup, p \in Phone, at \in {"expire", "read", "claim", "reread", "salt"} :
       [at |-> at, group |-> g, phone |-> p] \in PushRecord
  /\ \A s \in PushRecord :
       /\ s.at \in {"none", "expire", "read", "claim", "reread", "salt"}
       /\ s.at # "none" => /\ s.group \in PayGroup /\ s.phone \in Phone
                           /\ \A at \in {"read", "claim", "reread", "salt"} :
                                /\ [s EXCEPT !.at = at] \in PushRecord
                                /\ [s EXCEPT !.at = at].at = at
BY DEF PushRecord, NoPush

(* A request goes on to anything but the setting of a time to live, and no *)
(* counter is touched.                                                     *)
LEMMA PushStep ==
  ASSUME PaybillInv, NEW c \in PushCall, NEW s \in PushRecord, s.at # "expire",
         pushCall' = [pushCall EXCEPT ![c] = s], UNCHANGED <<pushes, fading>>,
         number' \in [PayGroup -> Number \cup {Unset}],
         \A g, h \in PayGroup : number'[g] = number'[h] /\ number'[g] # Unset => g = h,
         quoted' \subseteq PayGroup \X Number
  PROVE  PaybillInv'
<1>1. /\ pushCall' \in [PushCall -> PushRecord] /\ pushCall'[c] = s
      /\ \A d \in PushCall : d # c => pushCall'[d] = pushCall[d]
  BY DEF PaybillInv
<1>2. ExpiryIsDue'
  BY <1>1 DEF PaybillInv, ExpiryIsDue
<1>3. \A d \in PushCall :
        pushCall'[d].at \in {"none", "expire", "read", "claim", "reread", "salt"}
  <2>1. \A d \in PushCall : pushCall'[d] \in PushRecord
    BY <1>1
  <2> QED
    BY <2>1, PushRecords
<1>4. PaybillTypeOK'
  BY <1>3 DEF PaybillInv, PaybillTypeOK
<1> QED
  BY <1>1, <1>2, <1>4 DEF PaybillInv

(* A group's number set to one that is free.                               *)
LEMMA NumberSet ==
  ASSUME PaybillInv, NEW g \in PayGroup, NEW n \in Number, ~ Taken(g, n),
         number' = [number EXCEPT ![g] = n]
  PROVE  /\ number' \in [PayGroup -> Number \cup {Unset}]
         /\ \A x, y \in PayGroup : number'[x] = number'[y] /\ number'[x] # Unset => x = y
<1>1. number \in [PayGroup -> Number \cup {Unset}]
  BY DEF PaybillInv, PaybillTypeOK
<1>2. number' \in [PayGroup -> Number \cup {Unset}]
  BY <1>1
<1>3. \A x, y \in PayGroup : number[x] = number[y] /\ number[x] # Unset => x = y
  BY DEF PaybillInv, PaybillTypeOK
<1>4. number'[g] = n /\ \A x \in PayGroup : x # g => number'[x] = number[x] /\ number[x] # n
  BY <1>1 DEF Taken
<1> QED
  BY <1>2, <1>3, <1>4

(* The steps that count a phone's pushes.                                  *)
LEMMA CountingPaybillInv ==
  ASSUME PaybillInv, NEW c \in PushCall, NEW p \in Phone, NEW g \in PayGroup,
         CountPush(c, p, g) \/ PushUncounted(c, p, g)
  PROVE  PaybillInv'
<1>0. /\ number \in [PayGroup -> Number \cup {Unset}] /\ pushes \in [Phone -> 0 .. MaxPushes]
      /\ pushCall \in [PushCall -> PushRecord] /\ quoted \subseteq PayGroup \X Number
      /\ \A x, y \in PayGroup : number[x] = number[y] /\ number[x] # Unset => x = y
      /\ fading \subseteq {q \in Phone : pushes[q] > 0}
  BY DEF PaybillInv, PaybillTypeOK
<1> DEFINE toRead == [at |-> "read", group |-> g, phone |-> p]
           toExpire == [at |-> "expire", group |-> g, phone |-> p]
<1>1. toRead \in PushRecord /\ toExpire \in PushRecord /\ NoPush \in PushRecord
  BY PushRecords
<1>2. toRead.at = "read" /\ toExpire.at = "expire" /\ toExpire.phone = p /\ NoPush.at = "none"
  BY DEF NoPush
<1>3. CASE PushUncounted(c, p, g)
  <2>1. pushCall' = [pushCall EXCEPT ![c] = toRead] /\ UNCHANGED <<number, pushes, fading, quoted>>
    BY <1>3 DEF PushUncounted
  <2> HIDE DEF toRead
  <2> QED
    BY <1>0, <1>1, <1>2, <2>1, PushStep
<1>4. CASE CountPush(c, p, g)
  <2>1. /\ pushes[p] < MaxPushes /\ pushes' = [pushes EXCEPT ![p] = @ + 1]
        /\ UNCHANGED <<number, fading, quoted>>
    BY <1>4 DEF CountPush
  <2>2. PICK s \in {toExpire, NoPush, toRead} :
          /\ pushCall' = [pushCall EXCEPT ![c] = s]
          /\ s = toExpire <=> pushes[p] = 0
    <3>1. toExpire # NoPush /\ toExpire # toRead
      BY <1>2
    <3> HIDE DEF toExpire, toRead
    <3>2. pushCall' = [pushCall EXCEPT ![c] =
             CASE pushes[p] = 0            -> toExpire
               [] pushes[p] + 1 > StkLimit -> NoPush
               [] OTHER                    -> toRead]
      BY <1>4 DEF CountPush, toExpire, toRead
    <3>3. ASSUME pushes[p] = 0 PROVE pushCall' = [pushCall EXCEPT ![c] = toExpire]
      <4>1. ~ (pushes[p] + 1 > StkLimit)
        BY <3>3, PaybillAssumption
      <4> QED
        BY <3>2, <3>3, <4>1
    <3>4. pushes[p] # 0 /\ pushes[p] + 1 > StkLimit
            => pushCall' = [pushCall EXCEPT ![c] = NoPush]
      BY <3>2
    <3>5. pushes[p] # 0 /\ ~ (pushes[p] + 1 > StkLimit)
            => pushCall' = [pushCall EXCEPT ![c] = toRead]
      BY <3>2
    <3> QED
      BY <3>1, <3>3, <3>4, <3>5
  <2> HIDE DEF toRead, toExpire
  <2>3. s \in PushRecord
    BY <1>1, <2>2
  <2>4. /\ pushCall' \in [PushCall -> PushRecord] /\ pushCall'[c] = s
        /\ \A d \in PushCall : d # c => pushCall'[d] = pushCall[d]
    BY <1>0, <2>2, <2>3
  <2>5. /\ pushes' \in [Phone -> 0 .. MaxPushes] /\ pushes'[p] > 0
        /\ \A q \in Phone : pushes'[q] >= pushes[q] /\ (q # p => pushes'[q] = pushes[q])
    BY <1>0, <2>1, PaybillAssumption
  <2>6. \A d \in PushCall : pushCall[d].at = "expire" => pushCall[d].phone \in Phone
    BY <1>0, PushRecords
  <2>7. ExpiryIsDue'
    <3>1. ASSUME NEW d \in PushCall, pushCall'[d].at = "expire"
          PROVE  pushes'[pushCall'[d].phone] > 0 /\ pushCall'[d].phone \notin fading'
      <4>1. CASE d = c
        BY <1>0, <1>2, <2>1, <2>2, <2>4, <2>5, <3>1, <4>1
      <4>2. CASE d # c
        BY <1>0, <2>1, <2>4, <2>5, <2>6, <3>1, <4>2 DEF PaybillInv, ExpiryIsDue
      <4> QED
        BY <4>1, <4>2
    <3>2. ASSUME NEW d \in PushCall, NEW e \in PushCall \ {d},
                 pushCall'[d].at = "expire", pushCall'[e].at = "expire"
          PROVE  pushCall'[e].phone # pushCall'[d].phone
      <4>1. CASE d # c /\ e # c
        BY <2>4, <3>2, <4>1 DEF PaybillInv, ExpiryIsDue
      <4>2. \A x \in PushCall : x # c /\ pushCall[x].at = "expire" /\ s.at = "expire"
               => pushCall[x].phone # s.phone
        BY <1>0, <1>2, <2>2, <2>6 DEF PaybillInv, ExpiryIsDue
      <4> QED
        BY <2>4, <3>2, <4>1, <4>2
    <3> QED
      BY <3>1, <3>2 DEF ExpiryIsDue
  <2>8. \A d \in PushCall :
          pushCall'[d].at \in {"none", "expire", "read", "claim", "reread", "salt"}
    BY <2>4, PushRecords
  <2>9. fading' \subseteq {q \in Phone : pushes'[q] > 0}
    BY <1>0, <2>1, <2>5
  <2>10. PaybillTypeOK'
    BY <1>0, <2>1, <2>5, <2>8, <2>9 DEF PaybillTypeOK
  <2> QED
    BY <2>4, <2>7, <2>10 DEF PaybillInv
<1> QED
  BY <1>3, <1>4

(* A counter is given its time to live, and fades.                         *)
LEMMA FadingPaybillInv ==
  ASSUME PaybillInv,
         \/ \E c \in PushCall, up \in BOOLEAN : SetExpiry(c, up)
         \/ \E p \in Phone : CounterFades(p)
  PROVE  PaybillInv'
<1>0. /\ number \in [PayGroup -> Number \cup {Unset}] /\ pushes \in [Phone -> 0 .. MaxPushes]
      /\ pushCall \in [PushCall -> PushRecord] /\ quoted \subseteq PayGroup \X Number
      /\ \A x, y \in PayGroup : number[x] = number[y] /\ number[x] # Unset => x = y
      /\ fading \subseteq {q \in Phone : pushes[q] > 0}
  BY DEF PaybillInv, PaybillTypeOK
<1>1. ASSUME NEW c \in PushCall, NEW up \in BOOLEAN, SetExpiry(c, up) PROVE PaybillInv'
  <2>1. /\ pushCall[c].at = "expire" /\ pushCall[c].phone \in Phone
        /\ [pushCall[c] EXCEPT !.at = "read"] \in PushRecord
        /\ [pushCall[c] EXCEPT !.at = "read"].at = "read"
    BY <1>0, <1>1, PushRecords DEF SetExpiry
  <2>2. /\ pushCall' = [pushCall EXCEPT ![c] = [pushCall[c] EXCEPT !.at = "read"]]
        /\ fading' \in {fading, fading \cup {pushCall[c].phone}}
        /\ UNCHANGED <<number, pushes, quoted>>
    BY <1>0, <1>1 DEF SetExpiry, PushGoes
  <2>3. /\ pushCall' \in [PushCall -> PushRecord] /\ pushCall'[c].at = "read"
        /\ \A d \in PushCall : d # c => pushCall'[d] = pushCall[d]
    BY <1>0, <2>1, <2>2
  <2>4. pushes[pushCall[c].phone] > 0
        /\ \A d \in PushCall \ {c} :
             pushCall[d].at = "expire" => pushCall[d].phone # pushCall[c].phone
    BY <2>1 DEF PaybillInv, ExpiryIsDue
  <2>5. ExpiryIsDue'
    BY <2>2, <2>3, <2>4 DEF PaybillInv, ExpiryIsDue
  <2>6. \A d \in PushCall :
          pushCall'[d].at \in {"none", "expire", "read", "claim", "reread", "salt"}
    BY <2>3, PushRecords
  <2>7. fading' \subseteq {q \in Phone : pushes'[q] > 0}
    BY <1>0, <2>1, <2>2, <2>4
  <2>8. PaybillTypeOK'
    BY <1>0, <2>2, <2>6, <2>7 DEF PaybillTypeOK
  <2> QED
    BY <2>3, <2>5, <2>8 DEF PaybillInv
<1>2. ASSUME NEW p \in Phone, CounterFades(p) PROVE PaybillInv'
  <2>1. /\ p \in fading /\ fading' = fading \ {p}
        /\ pushes' \in [Phone -> 0 .. MaxPushes]
        /\ \A q \in Phone : q # p => pushes'[q] = pushes[q]
        /\ UNCHANGED <<number, quoted, pushCall>>
    BY <1>0, <1>2, PaybillAssumption DEF CounterFades
  <2>2. \A d \in PushCall : pushCall[d].at = "expire" => pushCall[d].phone \in Phone
    BY <1>0, PushRecords
  <2>3. ExpiryIsDue'
    BY <2>1, <2>2 DEF PaybillInv, ExpiryIsDue
  <2>4. fading' \subseteq {q \in Phone : pushes'[q] > 0}
    BY <1>0, <2>1
  <2>5. PaybillTypeOK'
    BY <1>0, <2>1, <2>4 DEF PaybillInv, PaybillTypeOK
  <2> QED
    BY <2>1, <2>3, <2>5 DEF PaybillInv
<1> QED
  BY <1>1, <1>2

(* The steps that find the number of a group.                              *)
LEMMA NumberingPaybillInv ==
  ASSUME PaybillInv, NEW c \in PushCall,
         \/ ReadNumber(c) \/ ClaimNumber(c) \/ RereadNumber(c)
         \/ \E salt \in Salt : SaltNumber(c, salt)
  PROVE  PaybillInv'
<1>0. /\ number \in [PayGroup -> Number \cup {Unset}] /\ pushCall \in [PushCall -> PushRecord]
      /\ quoted \subseteq PayGroup \X Number
      /\ \A x, y \in PayGroup : number[x] = number[y] /\ number[x] # Unset => x = y
  BY DEF PaybillInv, PaybillTypeOK
<1> DEFINE g == pushCall[c].group
<1>1. /\ pushCall[c].at \in {"read", "claim", "reread", "salt"} /\ g \in PayGroup
      /\ \A at \in {"read", "claim", "reread", "salt"} :
           [pushCall[c] EXCEPT !.at = at] \in PushRecord
           /\ [pushCall[c] EXCEPT !.at = at].at = at
  BY <1>0, PushRecords DEF ReadNumber, ClaimNumber, RereadNumber, SaltNumber
<1>2. NoPush \in PushRecord /\ NoPush.at = "none"
  BY PushRecords
<1>3. UNCHANGED <<pushes, fading>>
  BY DEF ReadNumber, ClaimNumber, RereadNumber, SaltNumber
<1>4. ASSUME NEW at \in {"read", "claim", "reread", "salt"}, PushGoes(c, at),
             UNCHANGED <<number, quoted>>
      PROVE  PaybillInv'
  <2>1. pushCall' = [pushCall EXCEPT ![c] = [pushCall[c] EXCEPT !.at = at]]
    BY <1>0, <1>4 DEF PushGoes
  <2>2. [pushCall[c] EXCEPT !.at = at] \in PushRecord
        /\ [pushCall[c] EXCEPT !.at = at].at # "expire"
    BY <1>1
  <2> QED
    BY <1>0, <1>3, <1>4, <2>1, <2>2, PushStep
<1>5. ASSUME NEW n \in Number, Quote(c, n),
             number' \in [PayGroup -> Number \cup {Unset}],
             \A x, y \in PayGroup : number'[x] = number'[y] /\ number'[x] # Unset => x = y
      PROVE  PaybillInv'
  <2>1. /\ pushCall' = [pushCall EXCEPT ![c] = NoPush]
        /\ quoted' = quoted \cup {<<g, n>>}
    BY <1>5 DEF Quote, PushEnds
  <2>2. quoted' \subseteq PayGroup \X Number
    BY <1>0, <1>1, <2>1
  <2> QED
    BY <1>2, <1>3, <1>5, <2>1, <2>2, PushStep
<1>6. Plain(g) \in Number /\ \A salt \in Salt : Salted(g, salt) \in Number
  BY <1>1 DEF Number
<1>7. number[g] \in Number \cup {Unset}
  BY <1>0, <1>1
<1>8. CASE ReadNumber(c)
  <2>1. CASE number[g] # Unset
    <3>1. Quote(c, number[g]) /\ UNCHANGED number
      BY <1>8, <2>1 DEF ReadNumber
    <3> QED
      BY <1>0, <1>5, <1>7, <2>1, <3>1
  <2>2. CASE number[g] = Unset
    <3>1. PushGoes(c, "claim") /\ UNCHANGED <<number, quoted>>
      BY <1>8, <2>2 DEF ReadNumber
    <3> QED
      BY <1>4, <3>1
  <2> QED
    BY <2>1, <2>2
<1>9. CASE RereadNumber(c)
  <2>1. CASE number[g] # Unset
    <3>1. Quote(c, number[g]) /\ UNCHANGED number
      BY <1>9, <2>1 DEF RereadNumber
    <3> QED
      BY <1>0, <1>5, <1>7, <2>1, <3>1
  <2>2. CASE number[g] = Unset
    <3>1. PushGoes(c, "salt") /\ UNCHANGED <<number, quoted>>
      BY <1>9, <2>2 DEF RereadNumber
    <3> QED
      BY <1>4, <3>1
  <2> QED
    BY <2>1, <2>2
<1>10. CASE ClaimNumber(c)
  <2>1. CASE Taken(g, Plain(g))
    <3>1. PushGoes(c, "reread") /\ UNCHANGED <<number, quoted>>
      BY <1>10, <2>1 DEF ClaimNumber
    <3> QED
      BY <1>4, <3>1
  <2>2. CASE ~ Taken(g, Plain(g))
    <3>1. number' = [number EXCEPT ![g] = Plain(g)] /\ Quote(c, Plain(g))
      BY <1>10, <2>2 DEF ClaimNumber
    <3> HIDE DEF g
    <3> QED
      BY <1>1, <1>5, <1>6, <2>2, <3>1, NumberSet
  <2> QED
    BY <2>1, <2>2
<1>11. ASSUME NEW salt \in Salt, SaltNumber(c, salt) PROVE PaybillInv'
  <2> DEFINE n == Salted(g, salt)
  <2>1. CASE Taken(g, n)
    <3>1. pushCall' = [pushCall EXCEPT ![c] = NoPush] /\ UNCHANGED <<number, quoted>>
      BY <1>11, <2>1 DEF SaltNumber, PushEnds
    <3> QED
      BY <1>0, <1>2, <1>3, <3>1, PushStep
  <2>2. CASE ~ Taken(g, n)
    <3>1. number' = [number EXCEPT ![g] = n] /\ Quote(c, n)
      BY <1>11, <2>2 DEF SaltNumber
    <3>2. n \in Number
      BY <1>6
    <3> HIDE DEF g, n
    <3> QED
      BY <1>1, <1>5, <2>2, <3>1, <3>2, NumberSet
  <2> QED
    BY <2>1, <2>2
<1> QED
  BY <1>8, <1>9, <1>10, <1>11

(* Every step keeps the invariant.                                         *)
LEMMA NextPaybillInv == PaybillInv /\ [PaybillNext]_paybillVars => PaybillInv'
<1> SUFFICES ASSUME PaybillInv, [PaybillNext]_paybillVars PROVE PaybillInv'
  OBVIOUS
<1>0. /\ number \in [PayGroup -> Number \cup {Unset}] /\ pushes \in [Phone -> 0 .. MaxPushes]
      /\ pushCall \in [PushCall -> PushRecord] /\ quoted \subseteq PayGroup \X Number
      /\ \A x, y \in PayGroup : number[x] = number[y] /\ number[x] # Unset => x = y
  BY DEF PaybillInv, PaybillTypeOK
<1>1. ASSUME NEW g \in PayGroup, NEW n \in Number, SetNumber(g, n) PROVE PaybillInv'
  <2>1. /\ ~ Taken(g, n) /\ number' = [number EXCEPT ![g] = n]
        /\ UNCHANGED <<pushes, fading, quoted, pushCall>>
    BY <1>1 DEF SetNumber
  <2>2. /\ number' \in [PayGroup -> Number \cup {Unset}]
        /\ \A x, y \in PayGroup : number'[x] = number'[y] /\ number'[x] # Unset => x = y
    BY <2>1, NumberSet
  <2> QED
    BY <2>1, <2>2 DEF PaybillInv, PaybillTypeOK, ExpiryIsDue
<1>2. ASSUME NEW c \in PushCall, PushCallDies(c) PROVE PaybillInv'
  <2>1. pushCall' = [pushCall EXCEPT ![c] = NoPush]
        /\ UNCHANGED <<number, pushes, fading, quoted>>
    BY <1>2 DEF PushCallDies, PushEnds
  <2>2. NoPush \in PushRecord /\ NoPush.at = "none"
    BY PushRecords
  <2> QED
    BY <1>0, <2>1, <2>2, PushStep
<1>3. CASE UNCHANGED paybillVars
  BY <1>3 DEF paybillVars, PaybillInv, PaybillTypeOK, ExpiryIsDue
<1> QED
  BY <1>1, <1>2, <1>3, CountingPaybillInv, FadingPaybillInv, NumberingPaybillInv
  DEF PaybillNext

(* A paybill number finds one group, though two requests may make one up   *)
(* for it at the same time, the same for two groups, or write over what an *)
(* officer set (contribute.service.ts); and a counter that fades away is   *)
(* one that had counted.                                                   *)
THEOREM PaybillTypeCorrect == PaybillSpec => []PaybillTypeOK
<1>1. PaybillInit => PaybillInv
  <2>1. PaybillInit => pushCall \in [PushCall -> PushRecord]
                       /\ \A c \in PushCall : pushCall[c].at = "none"
    BY PushRecords DEF PaybillInit
  <2> QED
    BY <2>1, PaybillAssumption DEF PaybillInit, PaybillInv, PaybillTypeOK, ExpiryIsDue
<1>2. PaybillInv => PaybillTypeOK
  BY DEF PaybillInv
<1> QED
  BY <1>1, <1>2, NextPaybillInv, PTL DEF PaybillSpec
===============================================================================
