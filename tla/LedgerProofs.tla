----------------------------- MODULE LedgerProofs -----------------------------
(***************************************************************************)
(* Proofs about the books: Ledger, for every set of calls, keys, members   *)
(* and groups, and C2BPayments, whose workers post to it what is paid at   *)
(* the paybill.                                                            *)
(*                                                                         *)
(* Ledger first.  Whole transfers are not inductive by themselves.  What   *)
(* keeps them whole is who may hold a leg key: a call with legs in its     *)
(* open transaction has a valid plan, shares its key with no other such    *)
(* call, and finds none of its key's rows on the books (IInv).             *)
(***************************************************************************)
EXTENDS Ledger, C2BPayments, Sums, FiniteSetTheorems, TLAPS

-------------------------------------------------------------------------------
(* The inductive invariant.                                                *)

WrappersResolve ==
  \A c \in Call : pc[c] = "resolving" => req[c].op # "reversal"

PlanUnset ==
  \A c \in Call : pc[c] \in {"start", "resolving"} => plan[c] = << >>

PlanValid ==
  \A c \in Call : pc[c] \in {"posting", "conflict"} => Valid(c)

LegsChecked ==
  \A c \in Call :
    /\ inserted[c] <= Len(plan[c])
    /\ \A i \in 1 .. inserted[c] : OneSided(plan[c][i])

HoldersPost ==
  \A c \in Call : inserted[c] > 0 => pc[c] = "posting" /\ Rows(req[c].key) = {}

HoldersApart ==
  \A c, d \in Call :
    inserted[c] > 0 /\ inserted[d] > 0 /\ req[c].key = req[d].key => c = d

ConflictFound ==
  \A c \in Call : pc[c] = "conflict" => FirstLeg(req[c].key) # {}

IInv ==
  /\ TypeOK
  /\ IsFiniteSet(entries)
  /\ WrappersResolve
  /\ PlanUnset
  /\ PlanValid
  /\ LegsChecked
  /\ HoldersPost
  /\ HoldersApart
  /\ TransfersWhole
  /\ ConflictFound
  /\ NoConflictError

-------------------------------------------------------------------------------
(* Facts about requests, legs and rows.                                    *)

(* Every wrapper builds a sequence of postings over account names.         *)
LEMMA PostingsType ==
  ASSUME NEW r \in Request, r.op # "reversal"
  PROVE  Postings(r) \in Seq(Posting)
<1> DEFINE A == AccountName
<1>1. CASE r.op = "transfer"
  BY <1>1, RequestAssumption DEF Postings
<1>2. CASE r.op # "transfer"
  <2>1. r \in WrapperRequest
    BY <1>2, RequestAssumption
  <2>2. /\ r.user \in User /\ r.chama \in Chama
        /\ r.amount \in Nat /\ r.part \in Nat
        /\ r.op \in {"contribution", "donation", "payout", "disbursement", "repayment"}
    BY <2>1 DEF WrapperRequest
  <2>3. /\ Clearing \in A /\ FeeRevenue \in A
        /\ MemberWallet(r.user) \in A
        /\ PoolWallet(r.chama) \in A /\ Escrow(r.chama) \in A
        /\ Principal(r.user, r.chama) \in A /\ Interest(r.user, r.chama) \in A
    BY <2>2 DEF AccountName, Account, Clearing, FeeRevenue, MemberWallet,
                PoolWallet, Escrow, Principal, Interest
  <2>4. \A a \in A, x \in Int : Debit(a, x) \in Posting /\ Credit(a, x) \in Posting
    BY DEF Debit, Credit, Posting
  <2> HIDE DEF A
  <2>5. ContributionPostings(r) \in Seq(Posting)
    BY <2>2, <2>3, <2>4 DEF ContributionPostings
  <2>6. DonationPostings(r) \in Seq(Posting)
    BY <2>2, <2>3, <2>4 DEF DonationPostings
  <2>7. PayoutPostings(r) \in Seq(Posting)
    BY <2>2, <2>3, <2>4 DEF PayoutPostings
  <2>8. DisbursementPostings(r) \in Seq(Posting)
    BY <2>2, <2>3, <2>4 DEF DisbursementPostings
  <2>9. RepaymentPostings(r) \in Seq(Posting)
    <3>1. ClearReceivable(r, Principal(r.user, r.chama), r.amount) \in Seq(Posting)
      BY <2>2, <2>3, <2>4 DEF ClearReceivable
    <3>2. ClearReceivable(r, Interest(r.user, r.chama), r.part) \in Seq(Posting)
      BY <2>2, <2>3, <2>4 DEF ClearReceivable
    <3> QED
      BY <3>1, <3>2 DEF RepaymentPostings
  <2> QED
    BY <1>2, <2>2, <2>5, <2>6, <2>7, <2>8, <2>9 DEF Postings
<1> QED
  BY <1>1, <1>2

(* The rows of a plan are as many as its legs, one per position.           *)
LEMMA RowsOfFinite ==
  ASSUME NEW k, NEW L, NEW s \in Seq(L)
  PROVE  IsFiniteSet(RowsOf(k, s))
<1> DEFINE row(i) == [key |-> k, index |-> i, account |-> s[i].account,
                      debit |-> s[i].debit, credit |-> s[i].credit]
           f == [i \in 1 .. Len(s) |-> row(i)]
<1>1. DOMAIN s = 1 .. Len(s) /\ Len(s) \in Nat
  OBVIOUS
<1>2. f \in Surjection(1 .. Len(s), RowsOf(k, s))
  BY <1>1 DEF Surjection, RowsOf
<1>3. IsFiniteSet(1 .. Len(s))
  BY <1>1, FS_Interval
<1> QED
  BY <1>2, <1>3, FS_Surjection

(* A valid transfer has a first leg, and its rows carry its key.           *)
LEMMA FirstRow ==
  ASSUME NEW k, NEW L, NEW s \in Seq(L), Len(s) >= 2
  PROVE  /\ \E e \in RowsOf(k, s) : e.key = k /\ e.index = 1
         /\ \A e \in RowsOf(k, s) : e.key = k
<1> DEFINE first == [key |-> k, index |-> 1, account |-> s[1].account,
                     debit |-> s[1].debit, credit |-> s[1].credit]
<1>1. 1 \in DOMAIN s
  OBVIOUS
<1>2. first \in RowsOf(k, s) /\ first.key = k /\ first.index = 1
  BY <1>1 DEF RowsOf
<1> QED
  BY <1>2 DEF RowsOf

(* A key with anything on the books has its first leg there.               *)
LEMMA RecordedHasFirst ==
  ASSUME TypeOK, TransfersWhole, NEW k \in Key, Rows(k) # {}
  PROVE  FirstLeg(k) # {}
<1>1. PICK c \in Call : req[c].key = k /\ Rows(k) = Legs(c) /\ Valid(c)
  BY DEF TransfersWhole
<1>2. plan[c] \in Seq(Leg) /\ Len(plan[c]) >= 2
  BY <1>1 DEF TypeOK, Valid
<1>3. PICK e \in RowsOf(k, plan[c]) : e.key = k /\ e.index = 1
  BY <1>2, FirstRow
<1>4. e \in Rows(k)
  BY <1>1, <1>3 DEF Legs
<1> QED
  BY <1>3, <1>4 DEF Rows, FirstLeg

(* A step that leaves books, plans and transactions alone keeps IInv when  *)
(* the stage it moves a call to is one the call has earned.                *)
LEMMA QuietStep ==
  ASSUME IInv, TypeOK',
         UNCHANGED <<entries, req, plan, inserted>>,
         \A c \in Call :
           \/ pc'[c] = pc[c]
           \/ /\ inserted[c] = 0
              /\ \/ pc'[c] = "resolving" /\ plan[c] = << >> /\ req[c].op # "reversal"
                 \/ pc'[c] = "posting" /\ Valid(c)
                 \/ pc'[c] \in {"returned", "failed"}
  PROVE  IInv'
<1>1. /\ \A c \in Call : Legs(c)' = Legs(c) /\ Valid(c)' = Valid(c)
      /\ \A k \in Key : Rows(k)' = Rows(k) /\ FirstLeg(k)' = FirstLeg(k)
  BY DEF Legs, Valid, Rows, FirstLeg
<1>2. \A c \in Call : req[c].key \in Key
  BY RequestAssumption DEF IInv, TypeOK
<1>3. PlanUnset'
  BY DEF IInv, PlanUnset
<1>4. PlanValid'
  BY <1>1 DEF IInv, PlanValid
<1>5. LegsChecked'
  BY DEF IInv, LegsChecked
<1>6. HoldersPost'
  BY DEF IInv, TypeOK, HoldersPost, Rows
<1>7. HoldersApart'
  BY DEF IInv, HoldersApart
<1>8. TransfersWhole'
  BY <1>1 DEF IInv, TransfersWhole
<1>9. ConflictFound'
  BY <1>1, <1>2 DEF IInv, ConflictFound
<1>10. NoConflictError'
  BY DEF IInv, NoConflictError
<1>11. WrappersResolve'
  BY DEF IInv, WrappersResolve
<1> QED
  BY <1>11, <1>3, <1>4, <1>5, <1>6, <1>7, <1>8, <1>9, <1>10 DEF IInv

-------------------------------------------------------------------------------
(* Initial states.                                                         *)

(* No call has begun and nothing is on the books: the invariant holds.     *)
LEMMA InitIInv == Init => IInv
<1> SUFFICES ASSUME Init PROVE IInv
  OBVIOUS
<1>1. req \in [Call -> Request]
  BY WorkloadAssumption DEF Init
<1>2. TypeOK
  BY <1>1 DEF Init, TypeOK, PC
<1>3. IsFiniteSet(entries)
  BY FS_EmptySet DEF Init
<1>4. /\ WrappersResolve /\ PlanUnset /\ PlanValid
      /\ ConflictFound /\ NoConflictError
  BY DEF Init, WrappersResolve, PlanUnset, PlanValid, ConflictFound, NoConflictError
<1>5. LegsChecked /\ HoldersPost /\ HoldersApart
  BY DEF Init, LegsChecked, HoldersPost, HoldersApart
<1>6. TransfersWhole
  BY DEF Init, TransfersWhole, Rows
<1> QED
  BY <1>2, <1>3, <1>4, <1>5, <1>6 DEF IInv

-------------------------------------------------------------------------------
(* One lemma per action.                                                   *)

(* Only a call that is posting has legs in an open transaction.            *)
LEMMA IdleHoldsNothing ==
  ASSUME IInv, NEW c \in Call, pc[c] # "posting"
  PROVE  inserted[c] = 0
BY DEF IInv, HoldersPost, TypeOK

(* A wrapper that starts its account look-ups keeps the invariant.         *)
LEMMA BeginIInv ==
  ASSUME IInv, NEW c \in Call, Begin(c)
  PROVE  IInv'
<1>1. TypeOK'
  BY DEF IInv, TypeOK, Begin, Goto, PC, callVars
<1>2. inserted[c] = 0 /\ plan[c] = << >>
  BY IdleHoldsNothing DEF Begin, IInv, PlanUnset
<1> QED
  BY <1>1, <1>2, QuietStep DEF IInv, TypeOK, Begin, Goto, callVars

(* A posting names an account of the chart.                                *)
LEMMA PostingAccount ==
  ASSUME NEW s \in Seq(Posting)
  PROVE  \A i \in DOMAIN s : s[i].account \in AccountName
<1>1. \A i \in DOMAIN s : s[i] \in Posting
  OBVIOUS
<1> QED
  BY <1>1 DEF Posting

(* Putting a sequence of postings on account rows gives legs.              *)
LEMMA OntoRows ==
  ASSUME NEW s \in Seq(Posting), NEW row,
         \A i \in DOMAIN s : row[i] \in AccountRow
  PROVE  [i \in DOMAIN s |-> On(row[i], s[i])] \in Seq(Leg)
<1>1. DOMAIN s = 1 .. Len(s) /\ Len(s) \in Nat
  OBVIOUS
<1>2. \A i \in DOMAIN s : s[i] \in Posting
  OBVIOUS
<1>3. \A i \in DOMAIN s : On(row[i], s[i]) \in Leg
  BY <1>2 DEF Posting, Leg, On
<1> QED
  BY <1>1, <1>3

(* The accounts a wrapper looks up are named in the chart.                 *)
LEMMA NamesType ==
  ASSUME NEW r \in Request, r.op # "reversal"
  PROVE  Names(r) \subseteq AccountName
<1>1. Postings(r) \in Seq(Posting)
  BY PostingsType
<1>2. \A i \in DOMAIN Postings(r) : Postings(r)[i].account \in AccountName
  BY <1>1, PostingAccount
<1>3. r.op = "repayment" =>
        {Principal(r.user, r.chama), Interest(r.user, r.chama)} \subseteq AccountName
  BY RequestAssumption
  DEF WrapperRequest, Principal, Interest, Account, AccountName
<1> QED
  BY <1>2, <1>3 DEF Names

(* A findUnique of findOrCreateAccount keeps the invariant.                *)
LEMMA FindAccountIInv ==
  ASSUME IInv, NEW c \in Call, NEW n \in Names(req[c]), FindAccount(c, n)
  PROVE  IInv'
<1>1. n \in AccountName
  BY NamesType DEF IInv, TypeOK, WrappersResolve, FindAccount
<1>2. TypeOK'
  BY <1>1 DEF IInv, TypeOK, FindAccount
<1> QED
  BY <1>2, QuietStep DEF FindAccount

(* A create of findOrCreateAccount, or its re-read, keeps it.              *)
LEMMA CreateAccountIInv ==
  ASSUME IInv, NEW c \in Call, NEW n \in Names(req[c]), CreateAccount(c, n)
  PROVE  IInv'
<1>1. n \in AccountName
  BY NamesType DEF IInv, TypeOK, WrappersResolve, CreateAccount
<1>2. [name |-> n, by |-> c] \in AccountRow
  BY <1>1 DEF AccountRow
<1>3. TypeOK'
  BY <1>2 DEF IInv, TypeOK, CreateAccount
<1> QED
  BY <1>3, QuietStep DEF CreateAccount

(* Validation and the replay check of postTransfer keep it.                *)
LEMMA PreCheckIInv ==
  ASSUME IInv, NEW c \in Call, PreCheck(c)
  PROVE  IInv'
<1>1. Rows(req[c].key) \subseteq Entry
  BY DEF IInv, TypeOK, Rows
<1>2. TypeOK'
  BY <1>1 DEF IInv, TypeOK, PreCheck, Goto, PC
<1>3. inserted[c] = 0
  BY IdleHoldsNothing DEF PreCheck
<1> QED
  BY <1>2, <1>3, QuietStep DEF IInv, TypeOK, PreCheck, Goto

(* After P2002 the sibling is there, so the replay keeps it.               *)
LEMMA ReadSiblingIInv ==
  ASSUME IInv, NEW c \in Call, ReadSibling(c)
  PROVE  IInv'
<1>1. FirstLeg(req[c].key) # {}
  BY DEF IInv, ConflictFound, ReadSibling
<1>2. Rows(req[c].key) \subseteq Entry
  BY DEF IInv, TypeOK, Rows
<1>3. TypeOK'
  BY <1>1, <1>2 DEF IInv, TypeOK, ReadSibling, Goto, PC
<1>4. inserted[c] = 0
  BY IdleHoldsNothing DEF ReadSibling
<1> QED
  BY <1>1, <1>3, <1>4, QuietStep DEF IInv, TypeOK, ReadSibling, Goto

(* A step that gives an idle call its plan.                                *)
LEMMA PlanStep ==
  ASSUME IInv, TypeOK', NEW c \in Call,
         pc[c] \in {"start", "resolving"},
         UNCHANGED <<entries, req, inserted>>,
         \A d \in Call \ {c} : plan'[d] = plan[d] /\ pc'[d] = pc[d],
         pc'[c] = "checking"
  PROVE  IInv'
<1>1. inserted[c] = 0 /\ plan[c] = << >> /\ ~ Valid(c)
  BY IdleHoldsNothing DEF IInv, PlanUnset, Valid
<1>2. \A d \in Call \ {c} : Legs(d)' = Legs(d) /\ Valid(d)' = Valid(d)
  BY DEF Legs, Valid
<1>3. \A k \in Key : Rows(k)' = Rows(k)
  BY DEF Rows
<1>4. PlanUnset'
  BY DEF IInv, PlanUnset
<1>5. PlanValid'
  BY <1>2 DEF IInv, PlanValid
<1>6. LegsChecked'
  <2> SUFFICES ASSUME NEW d \in Call
               PROVE  /\ inserted'[d] <= Len(plan'[d])
                      /\ \A i \in 1 .. inserted'[d] : OneSided(plan'[d][i])
    BY DEF LegsChecked
  <2>1. CASE d = c
    BY <1>1, <2>1 DEF TypeOK
  <2>2. CASE d # c
    BY <2>2 DEF IInv, LegsChecked
  <2> QED
    BY <2>1, <2>2
<1>7. HoldersPost'
  BY <1>1 DEF IInv, HoldersPost, Rows
<1>8. HoldersApart'
  BY DEF IInv, HoldersApart
<1>9. TransfersWhole'
  <2> SUFFICES ASSUME NEW k \in Key, Rows(k)' # {}
               PROVE  \E d \in Call : (req[d].key = k /\ Rows(k) = Legs(d) /\ Valid(d))'
    BY DEF TransfersWhole
  <2>1. PICK d \in Call : req[d].key = k /\ Rows(k) = Legs(d) /\ Valid(d)
    BY <1>3 DEF IInv, TransfersWhole
  <2>2. d # c
    BY <1>1, <2>1
  <2> QED
    BY <1>2, <1>3, <2>1, <2>2
<1>10. ConflictFound'
  BY DEF IInv, ConflictFound, FirstLeg
<1>11. NoConflictError'
  BY DEF IInv, NoConflictError
<1>12. WrappersResolve'
  BY DEF IInv, WrappersResolve
<1> QED
  BY <1>12, <1>4, <1>5, <1>6, <1>7, <1>8, <1>9, <1>10, <1>11 DEF IInv

(* A wrapper that has its accounts gets a typed plan.                      *)
LEMMA AssembleIInv ==
  ASSUME IInv, NEW c \in Call, Assemble(c)
  PROVE  IInv'
<1>1. Postings(req[c]) \in Seq(Posting)
  BY PostingsType DEF IInv, TypeOK, WrappersResolve, Assemble
<1>2. \A i \in DOMAIN Postings(req[c]) :
        RowOf(c, Postings(req[c])[i].account) \in AccountRow
  <2> SUFFICES ASSUME NEW i \in DOMAIN Postings(req[c])
               PROVE  RowOf(c, Postings(req[c])[i].account) \in found[c]
    BY DEF IInv, TypeOK
  <2>1. Postings(req[c])[i].account \in InHand(c)
    BY DEF Assemble, Names
  <2>2. \E row \in found[c] : row.name = Postings(req[c])[i].account
    BY <2>1 DEF InHand
  <2> QED
    BY <2>2 DEF RowOf
<1>3. Assembled(c) \in Seq(Leg)
  <2> DEFINE legs == Postings(req[c])
             row == [i \in DOMAIN legs |-> RowOf(c, legs[i].account)]
  <2>1. Assembled(c) = [i \in DOMAIN legs |-> On(row[i], legs[i])]
    BY DEF Assembled
  <2>2. \A i \in DOMAIN legs : row[i] \in AccountRow
    BY <1>2
  <2> HIDE DEF row
  <2>3. [i \in DOMAIN legs |-> On(row[i], legs[i])] \in Seq(Leg)
    BY <1>1, <2>2, OntoRows
  <2> QED
    BY <2>1, <2>3
<1>4. TypeOK'
  BY <1>3 DEF IInv, TypeOK, Assemble, Goto, PC
<1> QED
  BY <1>4, PlanStep DEF Assemble, Goto, IInv, TypeOK

(* A reversal read from the books gets a typed plan.                       *)
LEMMA ReadOriginalIInv ==
  ASSUME IInv, NEW c \in Call, ReadOriginal(c)
  PROVE  IInv'
<1> DEFINE original == Rows(req[c].of)
<1>1. CASE original = {}
  <2>1. TypeOK'
    BY <1>1 DEF IInv, TypeOK, ReadOriginal, Goto, PC
  <2>2. inserted[c] = 0
    BY IdleHoldsNothing DEF ReadOriginal
  <2> QED
    BY <1>1, <2>1, <2>2, QuietStep DEF ReadOriginal, Goto, IInv, TypeOK
<1>2. CASE original # {}
  <2>1. original \subseteq Entry /\ IsFiniteSet(original)
    BY FS_Subset DEF IInv, TypeOK, Rows
  <2>2. Cardinality(original) \in Nat
    BY <2>1, FS_CardinalityType
  <2>3. PICK order \in Bijection(1 .. Cardinality(original), original) :
          plan' = [plan EXCEPT ![c] =
                     [i \in 1 .. Cardinality(original) |-> Swapped(order[i])]]
    BY <1>2 DEF ReadOriginal
  <2>4. order \in [1 .. Cardinality(original) -> original]
    BY <2>3 DEF Bijection, Injection
  <2>5. \A e \in Entry : Swapped(e) \in Leg
    BY DEF Swapped, Entry, Leg
  <2>6. [i \in 1 .. Cardinality(original) |-> Swapped(order[i])] \in Seq(Leg)
    BY <2>1, <2>2, <2>4, <2>5
  <2>7. TypeOK'
    BY <1>2, <2>3, <2>6 DEF IInv, TypeOK, ReadOriginal, Goto, PC
  <2> QED
    BY <1>2, <2>3, <2>7, PlanStep DEF ReadOriginal, Goto, IInv, TypeOK
<1> QED
  BY <1>1, <1>2

(* A step that moves only the transaction of a call that is posting.       *)
LEMMA TransactionStep ==
  ASSUME IInv, NEW c \in Call, pc[c] = "posting",
         UNCHANGED <<accounts, entries, req, found, missing, plan, answer>>,
         NEW l \in {"posting", "conflict", "failed"}, pc' = [pc EXCEPT ![c] = l],
         NEW m \in 0 .. Len(plan[c]), inserted' = [inserted EXCEPT ![c] = m],
         \A i \in 1 .. m : OneSided(plan[c][i]),
         m > 0 => /\ l = "posting"
                  /\ Rows(req[c].key) = {}
                  /\ \A d \in Call \ {c} : req[d].key = req[c].key => inserted[d] = 0,
         l = "conflict" => FirstLeg(req[c].key) # {}
  PROVE  IInv'
<1>1. TypeOK'
  BY DEF IInv, TypeOK, PC
<1>2. WrappersResolve' /\ PlanUnset' /\ NoConflictError'
  BY DEF IInv, TypeOK, WrappersResolve, PlanUnset, NoConflictError
<1>3. \A d \in Call : Legs(d)' = Legs(d) /\ Valid(d)' = Valid(d)
  BY DEF Legs, Valid
<1>4. PlanValid'
  BY <1>3 DEF IInv, TypeOK, PlanValid
<1>5. LegsChecked'
  BY DEF IInv, TypeOK, LegsChecked
<1>6. HoldersPost'
  BY DEF IInv, TypeOK, HoldersPost, Rows
<1>7. HoldersApart'
  <2> SUFFICES ASSUME NEW d \in Call, NEW e \in Call,
                      inserted'[d] > 0, inserted'[e] > 0, req[d].key = req[e].key
               PROVE  d = e
    BY DEF HoldersApart
  <2>1. CASE d # c /\ e # c
    BY <2>1 DEF IInv, TypeOK, HoldersApart
  <2>2. /\ inserted'[c] = m
        /\ \A f \in Call \ {c} : inserted'[f] = inserted[f]
    BY DEF IInv, TypeOK
  <2>3. CASE d = c /\ e # c
    <3>1. m > 0 /\ inserted[e] > 0
      BY <2>2, <2>3
    <3> QED
      BY <2>3, <3>1
  <2>4. CASE e = c /\ d # c
    <3>1. m > 0 /\ inserted[d] > 0
      BY <2>2, <2>4
    <3> QED
      BY <2>4, <3>1
  <2> QED
    BY <2>1, <2>3, <2>4
<1>8. TransfersWhole'
  BY <1>3 DEF IInv, TransfersWhole, Rows
<1>9. ConflictFound'
  BY DEF IInv, TypeOK, ConflictFound, FirstLeg
<1> QED
  BY <1>1, <1>2, <1>4, <1>5, <1>6, <1>7, <1>8, <1>9 DEF IInv

(* A transaction that rolls back and leaves keeps the invariant.           *)
LEMMA RollBack ==
  ASSUME IInv, NEW c \in Call, pc[c] = "posting",
         UNCHANGED <<accounts, entries, req, found, missing, plan, answer>>,
         NEW l \in {"conflict", "failed"}, pc' = [pc EXCEPT ![c] = l],
         inserted' = [inserted EXCEPT ![c] = 0],
         l = "conflict" => FirstLeg(req[c].key) # {}
  PROVE  IInv'
<1> DEFINE m == 0
<1>1. m \in 0 .. Len(plan[c])
  BY DEF IInv, TypeOK
<1>2. inserted' = [inserted EXCEPT ![c] = m] /\ ~ (m > 0)
  OBVIOUS
<1>3. \A i \in 1 .. m : OneSided(plan[c][i])
  OBVIOUS
<1>4. l \in {"posting", "conflict", "failed"}
  OBVIOUS
<1> HIDE DEF m
<1> QED
  BY <1>1, <1>2, <1>3, <1>4, TransactionStep

(* A leg inserted, refused or found taken keeps the invariant.             *)
LEMMA InsertLegIInv ==
  ASSUME IInv, NEW c \in Call, InsertLeg(c)
  PROVE  IInv'
<1> DEFINE i == inserted[c] + 1
           k == req[c].key
<1>1. /\ pc[c] = "posting" /\ inserted[c] \in Nat /\ k \in Key
      /\ plan[c] \in Seq(Leg) /\ i \in 1 .. Len(plan[c])
      /\ UNCHANGED <<accounts, entries, req, found, missing, plan, answer>>
  BY RequestAssumption DEF IInv, TypeOK, InsertLeg
<1>2. CASE ~ OneSided(plan[c][i])
  <2>1. inserted' = [inserted EXCEPT ![c] = 0] /\ pc' = [pc EXCEPT ![c] = "failed"]
    BY <1>2 DEF InsertLeg, Goto
  <2> QED
    BY <1>1, <2>1, RollBack
<1>3. CASE OneSided(plan[c][i]) /\ Taken(k, i)
  <2>1. inserted' = [inserted EXCEPT ![c] = 0] /\ pc' = [pc EXCEPT ![c] = "conflict"]
    BY <1>3 DEF InsertLeg, Goto
  <2>2. Rows(k) # {}
    BY <1>3 DEF Taken, Rows
  <2>3. FirstLeg(k) # {}
    BY <1>1, <2>2, RecordedHasFirst DEF IInv
  <2> QED
    BY <1>1, <2>1, <2>3, RollBack
<1>4. CASE OneSided(plan[c][i]) /\ ~ Taken(k, i)
  <2>1. /\ inserted' = [inserted EXCEPT ![c] = i] /\ pc' = pc
        /\ \A d \in Call \ {c} : ~ (req[d].key = k /\ inserted[d] >= i)
    BY <1>4 DEF InsertLeg
  <2>2. pc' = [pc EXCEPT ![c] = "posting"]
    BY <1>1, <2>1 DEF IInv, TypeOK
  <2>3. \A j \in 1 .. i : OneSided(plan[c][j])
    BY <1>1, <1>4 DEF IInv, LegsChecked
  <2>4. Rows(k) = {}
    <3>1. CASE inserted[c] = 0
      <4>1. FirstLeg(k) = {}
        BY <1>4, <3>1 DEF Taken, FirstLeg
      <4> QED
        BY <1>1, <4>1, RecordedHasFirst DEF IInv
    <3>2. CASE inserted[c] > 0
      BY <3>2 DEF IInv, HoldersPost
    <3> QED
      BY <1>1, <3>1, <3>2
  <2>5. \A d \in Call \ {c} : req[d].key = k => inserted[d] = 0
    <3> SUFFICES ASSUME NEW d \in Call \ {c}, req[d].key = k, inserted[d] # 0
                 PROVE  FALSE
      OBVIOUS
    <3>1. inserted[d] > 0
      BY DEF IInv, TypeOK
    <3>2. inserted[c] = 0
      BY <1>1, <3>1 DEF IInv, HoldersApart
    <3> QED
      BY <2>1, <3>1, <3>2 DEF IInv, TypeOK
  <2>6. i \in 0 .. Len(plan[c])
    BY <1>1
  <2> HIDE DEF i
  <2> QED
    BY <1>1, <2>1, <2>2, <2>3, <2>4, <2>5, <2>6, TransactionStep
<1> QED
  BY <1>2, <1>3, <1>4

(* A call that fails, its transaction rolled back, keeps it.               *)
LEMMA FailIInv ==
  ASSUME IInv, NEW c \in Call, Fail(c)
  PROVE  IInv'
<1>1. CASE pc[c] = "posting"
  BY <1>1, RollBack DEF Fail, Goto
<1>2. CASE pc[c] # "posting"
  <2>1. inserted[c] = 0
    BY <1>2, IdleHoldsNothing
  <2>2. inserted' = inserted
    BY <2>1 DEF Fail, IInv, TypeOK
  <2>3. TypeOK'
    BY DEF IInv, TypeOK, Fail, Goto, PC
  <2> QED
    BY <2>1, <2>2, <2>3, QuietStep DEF Fail, Goto, IInv, TypeOK
<1> QED
  BY <1>1, <1>2

(* A commit adds one whole transfer under a key that had none.             *)
LEMMA CommitIInv ==
  ASSUME IInv, NEW c \in Call, Commit(c)
  PROVE  IInv'
<1> DEFINE k == req[c].key
<1>1. /\ pc[c] = "posting" /\ inserted[c] = Len(plan[c]) /\ k \in Key
      /\ plan[c] \in Seq(Leg) /\ Valid(c) /\ Len(plan[c]) >= 2
      /\ entries' = entries \cup Legs(c)
      /\ inserted' = [inserted EXCEPT ![c] = 0]
      /\ UNCHANGED <<accounts, req, found, missing, plan>>
  BY RequestAssumption DEF IInv, TypeOK, PlanValid, Valid, Commit
<1>2. pc' \in {[pc EXCEPT ![c] = "returned"], [pc EXCEPT ![c] = "failed"]}
  BY DEF Commit, Goto
<1>3. Legs(c) \subseteq Entry
  <2>1. \A i \in DOMAIN plan[c] :
          /\ plan[c][i] \in Leg /\ i \in Nat \ {0}
          /\ OneSided(plan[c][i])
    BY <1>1 DEF IInv, LegsChecked
  <2>2. \A i \in DOMAIN plan[c] :
          /\ plan[c][i].account \in AccountRow
          /\ plan[c][i].debit \in Nat /\ plan[c][i].credit \in Nat
          /\ plan[c][i].debit = 0 \/ plan[c][i].credit = 0
    BY <2>1 DEF Leg, OneSided
  <2>3. \A i \in DOMAIN plan[c] :
          [key |-> k, index |-> i, account |-> plan[c][i].account,
           debit |-> plan[c][i].debit, credit |-> plan[c][i].credit] \in Entry
    BY <1>1, <2>1, <2>2 DEF Entry
  <2> QED
    BY <2>3 DEF Legs, RowsOf
<1>4. IsFiniteSet(entries')
  BY <1>1, RowsOfFinite, FS_Union DEF IInv, Legs
<1>5. TypeOK'
  <2>1. answer' \in {answer, [answer EXCEPT ![c] = Legs(c)]}
    BY DEF Commit
  <2>2. answer' \in [Call -> SUBSET Entry]
    BY <1>3, <2>1 DEF IInv, TypeOK
  <2>3. pc' \in [Call -> PC]
    BY <1>2 DEF IInv, TypeOK, PC
  <2>4. inserted' \in [Call -> Nat]
    BY <1>1 DEF IInv, TypeOK
  <2> QED
    BY <1>1, <1>3, <2>2, <2>3, <2>4 DEF IInv, TypeOK
<1>6. WrappersResolve' /\ PlanUnset' /\ PlanValid' /\ NoConflictError'
  BY <1>1, <1>2
  DEF IInv, TypeOK, WrappersResolve, PlanUnset, PlanValid, Valid, Legs, NoConflictError
<1>7. LegsChecked'
  BY <1>1 DEF IInv, TypeOK, LegsChecked
<1>8. Rows(k) = {}
  <2>1. inserted[c] > 0
    BY <1>1
  <2> QED
    BY <2>1 DEF IInv, HoldersPost
<1>9. /\ \A e \in Legs(c) : e.key = k
      /\ Rows(k)' = Legs(c)
      /\ \A j \in Key \ {k} : Rows(j)' = Rows(j)
  <2>1. \A e \in Legs(c) : e.key = k
    BY <1>1, FirstRow DEF Legs
  <2> QED
    BY <1>1, <1>8, <2>1 DEF Rows
<1>10. HoldersPost'
  <2> SUFFICES ASSUME NEW d \in Call, inserted'[d] > 0
               PROVE  pc'[d] = "posting" /\ Rows(req[d].key)' = {}
    BY <1>1 DEF HoldersPost, Rows
  <2>1. d # c /\ inserted[d] > 0
    BY <1>1 DEF IInv, TypeOK
  <2>2. req[d].key # k /\ req[d].key \in Key
    BY <1>1, <2>1, RequestAssumption DEF IInv, TypeOK, HoldersApart
  <2>3. pc'[d] = "posting" /\ Rows(req[d].key) = {}
    BY <1>2, <2>1 DEF IInv, TypeOK, HoldersPost
  <2>4. Rows(req[d].key)' = {}
    BY <1>1, <1>9, <2>2, <2>3 DEF Rows
  <2> QED
    BY <2>3, <2>4
<1>11. HoldersApart'
  BY <1>1 DEF IInv, TypeOK, HoldersApart
<1>12. TransfersWhole'
  <2>1. \A d \in Call : Legs(d)' = Legs(d) /\ Valid(d)' = Valid(d)
    BY <1>1 DEF Legs, Valid
  <2> SUFFICES ASSUME NEW j \in Key, Rows(j)' # {}
               PROVE  \E d \in Call : req[d].key = j /\ Rows(j)' = Legs(d) /\ Valid(d)
    BY <1>1, <2>1 DEF TransfersWhole
  <2>2. CASE j = k
    BY <1>1, <1>9, <2>2
  <2>3. CASE j # k
    BY <1>9, <2>3 DEF IInv, TransfersWhole
  <2> QED
    BY <2>2, <2>3
<1>13. ConflictFound'
  BY <1>1, <1>2 DEF IInv, TypeOK, ConflictFound, FirstLeg
<1> QED
  BY <1>4, <1>5, <1>6, <1>7, <1>10, <1>11, <1>12, <1>13 DEF IInv

-------------------------------------------------------------------------------
(* The theorems.                                                           *)

(* Every step of the ledger keeps the invariant.                           *)
LEMMA NextIInv == IInv /\ [Next]_vars => IInv'
<1> SUFFICES ASSUME IInv, [Next]_vars PROVE IInv'
  OBVIOUS
<1>1. CASE UNCHANGED vars
  <2>1. TypeOK'
    BY <1>1 DEF vars, callVars, IInv, TypeOK
  <2> QED
    BY <1>1, <2>1, QuietStep DEF vars, callVars
<1>2. ASSUME NEW c \in Call, Step(c) PROVE IInv'
  BY <1>2, BeginIInv, FindAccountIInv, CreateAccountIInv, AssembleIInv,
     ReadOriginalIInv, PreCheckIInv, InsertLegIInv, CommitIInv, ReadSiblingIInv
  DEF Step
<1>3. ASSUME NEW c \in Call, Fail(c) PROVE IInv'
  BY <1>3, FailIInv
<1> QED
  BY <1>1, <1>2, <1>3 DEF Next

(* The inductive invariant of the ledger: types, one transfer per key, and *)
(* the stages a call goes through in postTransfer.                         *)
THEOREM Invariance == Spec => []IInv
BY InitIInv, NextIInv, PTL DEF Spec

(* Every state of the ledger is well typed; what is on the books has one   *)
(* side per leg, which postTransfer checks only leg by leg.                *)
THEOREM TypeCorrect == Spec => []TypeOK
<1>1. IInv => TypeOK
  BY DEF IInv
<1> QED
  BY <1>1, Invariance, PTL

(* However many calls race, fail or replay, the rows under a key are all   *)
(* the legs of one valid call and of no other.                             *)
THEOREM WholeTransfers == Spec => []TransfersWhole
<1>1. IInv => TransfersWhole
  BY DEF IInv
<1> QED
  BY <1>1, Invariance, PTL

(* postTransfer never throws LedgerIdempotencyConflictError: who lost the  *)
(* race to insert always finds the transfer that won it.                   *)
THEOREM ConflictErrorIsDead == Spec => []NoConflictError
<1>1. IInv => NoConflictError
  BY DEF IInv
<1> QED
  BY <1>1, Invariance, PTL

(* Concurrent calls that create one borrower's receivable end up with one  *)
(* account row between them: its owner columns are never null, so the      *)
(* unique index tells.                                                     *)
THEOREM ReceivablesShared == Spec => []ReceivableUnique
<1>1. Init => ReceivableUnique
  BY DEF Init, ReceivableUnique
<1>2. ASSUME ReceivableUnique, [Next]_vars PROVE ReceivableUnique'
  <2>1. CASE accounts' = accounts
    BY <1>2, <2>1 DEF ReceivableUnique
  <2>2. CASE accounts' # accounts
    <3>1. PICK c \in Call : \E n \in Names(req[c]) : CreateAccount(c, n)
      BY <1>2, <2>2
      DEF Next, Step, Begin, FindAccount, Assemble, ReadOriginal, PreCheck,
          InsertLeg, Commit, ReadSibling, Fail, vars
    <3> PICK n \in Names(req[c]) : CreateAccount(c, n)
      BY <3>1
    <3>2. /\ \A row \in accounts : ~ (row.name = n /\ FullyOwned(n))
          /\ accounts' = accounts \cup {[name |-> n, by |-> c]}
      BY <2>2 DEF CreateAccount
    <3>3. \A u \in User, ch \in Chama :
            FullyOwned(Principal(u, ch)) /\ FullyOwned(Interest(u, ch))
      BY NoOneAssumption DEF FullyOwned, Principal, Interest, Account
    <3> QED
      BY <1>2, <3>2, <3>3 DEF ReceivableUnique
  <2> QED
    BY <2>1, <2>2
<1> QED
  BY <1>1, <1>2, PTL DEF Spec

-------------------------------------------------------------------------------
(* The books balance: they grow by whole transfers, each balanced and under*)
(* a key that had nothing, so no row is counted twice.                     *)

(* Rows that carry whole amounts.                                          *)
Amounts(R) == IsFiniteSet(R) /\ \A r \in R : r.debit \in Int /\ r.credit \in Int

(* Two sets of rows that share none balance together if each balances.     *)
LEMMA BalancedTogether ==
  ASSUME NEW R, NEW S, Amounts(R \cup S), R \cap S = {}, Balanced(R), Balanced(S)
  PROVE  Balanced(R \cup S)
<1> DEFINE d(T) == [r \in T |-> r.debit]
           c(T) == [r \in T |-> r.credit]
<1>1. IsFiniteSet(R \cup S) /\ IsFiniteSet(R) /\ IsFiniteSet(S)
  BY FS_Subset DEF Amounts
<1>2. \A r \in R \cup S : r.debit \in Int /\ r.credit \in Int
  BY DEF Amounts
<1>3. ASSUME NEW T \in {R, S}
      PROVE  /\ DebitTotal(T) = SumFunctionOnSet(d(R \cup S), T)
             /\ CreditTotal(T) = SumFunctionOnSet(c(R \cup S), T)
  <2>1. DOMAIN d(T) = T /\ DOMAIN c(T) = T
    OBVIOUS
  <2>2. /\ Numbers(d(R \cup S), T) /\ Numbers(c(R \cup S), T)
        /\ \A r \in T : d(T)[r] = d(R \cup S)[r] /\ c(T)[r] = c(R \cup S)[r]
    BY <1>1, <1>2 DEF Numbers
  <2>3. /\ DebitTotal(T) = SumFunctionOnSet(d(T), T)
        /\ CreditTotal(T) = SumFunctionOnSet(c(T), T)
    BY <2>1 DEF DebitTotal, CreditTotal, SumFunction
  <2> HIDE DEF d, c
  <2> QED
    BY <2>2, <2>3, SumAgree
<1>4. /\ DebitTotal(R \cup S) = SumFunctionOnSet(d(R \cup S), R \cup S)
      /\ CreditTotal(R \cup S) = SumFunctionOnSet(c(R \cup S), R \cup S)
  BY DEF DebitTotal, CreditTotal, SumFunction
<1>5. Numbers(d(R \cup S), R \cup S) /\ Numbers(c(R \cup S), R \cup S)
  BY <1>1, <1>2 DEF Numbers
<1> HIDE DEF d, c
<1>6. /\ DebitTotal(R \cup S) = DebitTotal(R) + DebitTotal(S)
      /\ CreditTotal(R \cup S) = CreditTotal(R) + CreditTotal(S)
  BY <1>3, <1>4, <1>5, SumUnion
<1> QED
  BY <1>6 DEF Balanced

(* Nothing but a commit writes to the books.                               *)
LEMMA BooksGrow ==
  ASSUME NEW c \in Call, Step(c) \/ Fail(c)
  PROVE  entries' = entries \/ Commit(c)
BY DEF Step, Begin, FindAccount, CreateAccount, Assemble, ReadOriginal, PreCheck,
       InsertLeg, ReadSibling, Fail

(* A commit brings a balanced transfer whose rows are all new.             *)
LEMMA CommitBalances ==
  ASSUME IInv, IInv', BooksBalance, NEW c \in Call, Commit(c)
  PROVE  BooksBalance'
<1>1. /\ plan[c] \in Seq(Leg) /\ Valid(c) /\ Len(plan[c]) >= 2
      /\ inserted[c] = Len(plan[c]) /\ entries' = entries \cup Legs(c)
  BY DEF IInv, TypeOK, PlanValid, Valid, Commit
<1>2. Rows(req[c].key) = {}
  BY <1>1 DEF IInv, HoldersPost
<1>3. entries \cap Legs(c) = {}
  <2>1. \A e \in Legs(c) : e.key = req[c].key
    BY <1>1, FirstRow DEF Legs
  <2> QED
    BY <1>2, <2>1 DEF Rows
<1>4. Amounts(entries \cup Legs(c))
  <2>1. IsFiniteSet(entries') /\ \A e \in entries' : e.debit \in Int /\ e.credit \in Int
    BY DEF IInv, TypeOK, Entry
  <2> QED
    BY <1>1, <2>1 DEF Amounts
<1>5. Balanced(entries) /\ Balanced(Legs(c))
  BY <1>1 DEF BooksBalance, Valid
<1> QED
  BY <1>1, <1>3, <1>4, <1>5, BalancedTogether DEF BooksBalance

(* What the nightly ledger-invariant job verifies can never fail: debits   *)
(* equal credits over the whole table at every instant                     *)
(* (ledger.service.ts:694-714).                                            *)
THEOREM BooksAlwaysBalance == Spec => []BooksBalance
<1>1. Init => BooksBalance
  <2> SUFFICES ASSUME Init PROVE BooksBalance
    OBVIOUS
  <2>1. DebitTotal({}) = 0 /\ CreditTotal({}) = 0
    <3>1. DOMAIN [r \in {} |-> r.debit] = {} /\ DOMAIN [r \in {} |-> r.credit] = {}
      OBVIOUS
    <3> QED
      BY <3>1, SumEmpty DEF DebitTotal, CreditTotal, SumFunction
  <2> QED
    BY <2>1 DEF Init, BooksBalance, Balanced
<1>2. IInv /\ IInv' /\ BooksBalance /\ [Next]_vars => BooksBalance'
  <2> SUFFICES ASSUME IInv, IInv', BooksBalance, [Next]_vars PROVE BooksBalance'
    OBVIOUS
  <2>1. entries' = entries \/ \E c \in Call : Commit(c)
    BY BooksGrow DEF Next, vars
  <2> QED
    BY <2>1, CommitBalances DEF BooksBalance
<1> QED
  BY <1>1, <1>2, Invariance, PTL DEF Spec

-------------------------------------------------------------------------------
(* Refinement of LedgerSpec.                                               *)

AnswerLast == \A c \in Call : answer[c] # {} => pc[c] = "returned"

(* A call has an answer only when it has returned.                         *)
LEMMA AnswersComeLast == Spec => []AnswerLast
<1>1. Init => AnswerLast
  BY DEF Init, AnswerLast
<1>2. ASSUME IInv, AnswerLast, [Next]_vars PROVE AnswerLast'
  <2>1. CASE UNCHANGED vars
    BY <1>2, <2>1 DEF vars, callVars, AnswerLast
  <2>2. ASSUME NEW c \in Call, UNCHANGED answer,
               \A d \in Call \ {c} : pc'[d] = pc[d], pc[c] # "returned"
        PROVE  AnswerLast'
    BY <1>2, <2>2 DEF AnswerLast
  <2>3. ASSUME NEW c \in Call, PreCheck(c) \/ Commit(c) \/ ReadSibling(c)
        PROVE  AnswerLast'
    BY <1>2, <2>3 DEF IInv, TypeOK, AnswerLast, PreCheck, Commit, ReadSibling, Goto
  <2>4. ASSUME NEW c \in Call,
               \/ Begin(c) \/ Assemble(c) \/ ReadOriginal(c) \/ InsertLeg(c) \/ Fail(c)
               \/ \E n \in Names(req[c]) : FindAccount(c, n) \/ CreateAccount(c, n)
        PROVE  AnswerLast'
    <3>1. UNCHANGED answer /\ pc[c] # "returned"
      BY <2>4
      DEF Begin, Assemble, ReadOriginal, InsertLeg, Fail, FindAccount,
          CreateAccount, callVars
    <3>2. pc' = pc \/ \E l \in PC : pc' = [pc EXCEPT ![c] = l]
      BY <2>4
      DEF Begin, Assemble, ReadOriginal, InsertLeg, Fail, FindAccount,
          CreateAccount, Goto, PC
    <3>3. \A d \in Call \ {c} : pc'[d] = pc[d]
      BY <1>2, <3>2 DEF IInv, TypeOK
    <3> QED
      BY <2>2, <3>1, <3>3
  <2> QED
    BY <1>2, <2>1, <2>3, <2>4 DEF Next, Step
<1> QED
  BY <1>1, <1>2, Invariance, PTL DEF Spec

(* A step that records nothing and answers nobody maps to a stutter, or to *)
(* Ask when it gives the call its plan.                                    *)
LEMMA QuietMapsToStutter ==
  ASSUME UNCHANGED <<entries, req, plan, answer>>
  PROVE  UNCHANGED Book!vars
BY DEF Book!vars, Rows, Legs

(* The step that gives a call its plan is the one that asks.               *)
LEMMA PlanMapsToAsk ==
  ASSUME IInv, NEW c \in Call, pc[c] \in {"start", "resolving"},
         UNCHANGED <<entries, req, answer>>,
         NEW p, plan' = [plan EXCEPT ![c] = p]
  PROVE  Book!Ask(c)
<1>1. plan[c] = << >> /\ plan \in [Call -> Seq(Leg)]
  BY DEF IInv, TypeOK, PlanUnset
<1>2. \A d \in Call \ {c} : plan'[d] = plan[d] /\ Legs(d)' = Legs(d)
  BY <1>1 DEF Legs
<1>3. \A k \in Key : Rows(k)' = Rows(k)
  BY DEF Rows
<1> QED
  BY <1>1, <1>2, <1>3 DEF Book!Ask

(* A call answered from the books replays their transfer.                  *)
LEMMA AnswerMapsToReplay ==
  ASSUME IInv, AnswerLast, NEW c \in Call, pc[c] # "returned", Valid(c),
         NEW k \in Key, k = req[c].key, Rows(k) # {},
         UNCHANGED <<entries, req, plan>>,
         answer' = [answer EXCEPT ![c] = Rows(k)]
  PROVE  Book!Replay(c, k)
<1>1. answer[c] = {} /\ plan[c] # << >>
  <2>1. Len(plan[c]) >= 2
    BY DEF Valid
  <2> QED
    BY <2>1 DEF AnswerLast
<1>2. /\ \A d \in Call : plan'[d] = plan[d] /\ Legs(d)' = Legs(d)
      /\ \A j \in Key : Rows(j)' = Rows(j)
  BY DEF Legs, Rows
<1> QED
  BY <1>1, <1>2 DEF Book!Replay

(* A commit posts the whole transfer of its call.                          *)
LEMMA CommitMapsToPost ==
  ASSUME IInv, NEW c \in Call, Commit(c)
  PROVE  Book!Post(c, req[c].key)
<1> DEFINE k == req[c].key
           t == [key |-> k, rows |-> Legs(c)]
<1>1. /\ k \in Key /\ Valid(c) /\ plan[c] \in Seq(Leg)
      /\ Len(plan[c]) >= 2 /\ plan[c] # << >> /\ inserted[c] > 0
  <2>1. /\ k \in Key /\ Valid(c) /\ plan[c] \in Seq(Leg)
        /\ Len(plan[c]) >= 2 /\ inserted[c] = Len(plan[c])
    BY RequestAssumption DEF IInv, TypeOK, PlanValid, Valid, Commit
  <2> QED
    BY <2>1
<1>2. Rows(k) = {}
  BY <1>1 DEF IInv, HoldersPost
<1>3. /\ Rows(k)' = Legs(c)
      /\ \A j \in Key \ {k} : Rows(j)' = Rows(j)
  <2>1. \A e \in Legs(c) : e.key = k
    BY <1>1, FirstRow DEF Legs
  <2>2. entries' = entries \cup Legs(c) /\ UNCHANGED <<req, plan>>
    BY DEF Commit
  <2> QED
    BY <1>2, <2>1, <2>2 DEF Rows
<1>4. Balanced(t.rows)
  BY <1>1 DEF Valid
<1>5. answer' \in {answer, [answer EXCEPT ![c] = t.rows]}
  BY DEF Commit
<1>6. \A d \in Call : plan'[d] = plan[d] /\ Legs(d)' = Legs(d) /\ req'[d] = req[d]
  BY DEF Commit, Legs
<1> DEFINE asked == [d \in Call |-> IF plan[d] = << >> THEN {}
                                    ELSE {[key |-> req[d].key, rows |-> Legs(d)]}]
           posted == [j \in Key |-> Rows(j)]
<1>7. t \in asked[c] /\ posted[k] = {}
  BY <1>1, <1>2
<1>8. asked' = asked
  BY <1>6
<1>9. posted' = [posted EXCEPT ![k] = t.rows]
  <2>1. UNCHANGED req
    BY DEF Commit
  <2>2. \A j \in Key : Rows(j)' = IF j = k THEN Legs(c) ELSE Rows(j)
    BY <1>3, <2>1
  <2> QED
    BY <2>2
<1> QED
  BY <1>4, <1>5, <1>7, <1>8, <1>9 DEF Book!Post

(* Every step of the ledger is a step of LedgerSpec or a stutter.          *)
LEMMA StepMapsToBook ==
  ASSUME IInv, AnswerLast, NEW c \in Call, Step(c) \/ Fail(c)
  PROVE  Book!Next \/ UNCHANGED Book!vars
<1>1. CASE \/ Begin(c) \/ InsertLeg(c) \/ Fail(c)
           \/ \E n \in Names(req[c]) : FindAccount(c, n) \/ CreateAccount(c, n)
  <2>1. UNCHANGED <<entries, req, plan, answer>>
    BY <1>1 DEF Begin, InsertLeg, Fail, FindAccount, CreateAccount, callVars
  <2> QED
    BY <2>1, QuietMapsToStutter
<1>2. CASE Assemble(c)
  BY <1>2, PlanMapsToAsk DEF Assemble, Book!Next
<1>3. CASE ReadOriginal(c)
  <2>1. \/ UNCHANGED plan
        \/ \E p : plan' = [plan EXCEPT ![c] = p]
    BY <1>3 DEF ReadOriginal
  <2> QED
    BY <1>3, <2>1, QuietMapsToStutter, PlanMapsToAsk DEF ReadOriginal, Book!Next
<1>4. req[c].key \in Key
  BY RequestAssumption DEF IInv, TypeOK
<1>5. FirstLeg(req[c].key) # {} => Rows(req[c].key) # {}
  BY DEF FirstLeg, Rows
<1>6. CASE PreCheck(c)
  <2>1. CASE UNCHANGED answer
    BY <1>6, <2>1, QuietMapsToStutter DEF PreCheck
  <2>2. CASE answer' # answer
    <3>1. /\ pc[c] # "returned" /\ Valid(c) /\ Rows(req[c].key) # {}
          /\ UNCHANGED <<entries, req, plan>>
          /\ answer' = [answer EXCEPT ![c] = Rows(req[c].key)]
      BY <1>5, <1>6, <2>2 DEF PreCheck
    <3> QED
      BY <1>4, <3>1, AnswerMapsToReplay DEF Book!Next
  <2> QED
    BY <2>1, <2>2
<1>7. CASE ReadSibling(c)
  <2>1. FirstLeg(req[c].key) # {} /\ Valid(c)
    BY <1>7 DEF IInv, ConflictFound, PlanValid, ReadSibling
  <2>2. /\ pc[c] # "returned" /\ Rows(req[c].key) # {}
        /\ UNCHANGED <<entries, req, plan>>
        /\ answer' = [answer EXCEPT ![c] = Rows(req[c].key)]
    BY <1>5, <1>7, <2>1 DEF ReadSibling
  <2> QED
    BY <1>4, <2>1, <2>2, AnswerMapsToReplay DEF Book!Next
<1>8. CASE Commit(c)
  BY <1>4, <1>8, CommitMapsToPost DEF Book!Next
<1> QED
  BY <1>1, <1>2, <1>3, <1>6, <1>7, <1>8 DEF Step

(* Every behaviour of the ledger, whatever its calls do, is one of the     *)
(* atomic and idempotent book that its callers are promised.               *)
THEOREM Refinement == Spec => ImplementsLedgerSpec
<1>1. Init => Book!Init
  BY DEF Init, Book!Init, Rows
<1>2. IInv /\ AnswerLast /\ [Next]_vars => [Book!Next]_(Book!vars)
  <2> SUFFICES ASSUME IInv, AnswerLast, [Next]_vars
               PROVE  Book!Next \/ UNCHANGED Book!vars
    OBVIOUS
  <2>1. CASE UNCHANGED vars
    BY <2>1, QuietMapsToStutter DEF vars, callVars
  <2> QED
    BY <2>1, StepMapsToBook DEF Next
<1> QED
  BY <1>1, <1>2, Invariance, AnswersComeLast, PTL
  DEF Spec, ImplementsLedgerSpec, Book!Spec

-------------------------------------------------------------------------------
(* C2BPayments: a paybill confirmation, its queue and its workers, for     *)
(* every set of payments, bodies, deliveries and workers, and any number   *)
(* of attempts and stalls.                                                 *)
(*                                                                         *)
(* A worker past its ledger post has the transfer of its payment on the    *)
(* books (RunsBacked), and neither a stall, nor another worker on the same *)
(* job, nor a payer who changes sides takes a transfer off them.  That the *)
(* attempts stay within their limit needs one holder per job (HeldOnce),   *)
(* and that a processed row exists needs QueuedRows.                       *)

RunsBacked ==
  \A w \in Worker : run[w].at \in {"mirroring", "finishing"} => OnBooks(Paid(w))

KeyedByPayment == \A t \in books : t.key = t.payment

KeysDiffer == \A s, t \in books : s.key = t.key => s = t

(* A job that can still be run has attempts left, and one worker at most   *)
(* holds it.                                                               *)
Holds(w, b) == run[w] # Idle /\ run[w].held /\ run[w].body = b

HeldOnce ==
  /\ \A b \in Body : job[b] \in {"none", "waiting", "active"} => tries[b] < Attempts
  /\ \A w \in Worker, b \in Body : Holds(w, b) => job[b] = "active"
  /\ \A v, w \in Worker, b \in Body : Holds(v, b) /\ Holds(w, b) => v = w

(* What is queued or running has its row.                                  *)
QueuedRows ==
  /\ \A d \in Delivery : hook[d].at = "enqueueing" => hook[d].body \in rows
  /\ \A b \in Body : job[b] # "none" => b \in rows
  /\ \A w \in Worker : run[w] # Idle => run[w].body \in rows

CInv ==
  /\ C2BTypeOK
  /\ HeldOnce
  /\ QueuedRows
  /\ RunsBacked
  /\ KeyedByPayment
  /\ KeysDiffer
  /\ ProcessedOnBooks
  /\ DonorsBacked

-------------------------------------------------------------------------------
(* Runs and the queue.                                                     *)

(* What a worker has at each place of processConfirmation.                 *)
LEMMA RunForm ==
  ASSUME C2BTypeOK, NEW w \in Worker, run[w] # Idle
  PROVE  /\ run[w].body \in Body /\ run[w].held \in BOOLEAN
         /\ Paid(w) \in Payment
         /\ run[w].at \in {"posting", "mirroring"} => run[w].kind \in Kind
<1>1. run[w] \in Run
  BY DEF C2BTypeOK
<1>2. /\ run[w].body \in Body /\ run[w].held \in BOOLEAN
      /\ run[w].at \in {"posting", "mirroring"} => run[w].kind \in Kind
  BY <1>1 DEF Run, Idle
<1> QED
  BY <1>2, ReceiptAssumption DEF Paid

(* The places a worker can be told to go to.                               *)
LEMMA RunForms ==
  /\ Idle \in Run /\ Idle.at = "idle"
  /\ \A b \in Body, h \in BOOLEAN :
       /\ \A a \in {"finding", "deciding", "finishing"} :
            [at |-> a, body |-> b, held |-> h] \in Run
       /\ \A a \in {"posting", "mirroring"}, k \in Kind :
            [at |-> a, body |-> b, held |-> h, kind |-> k] \in Run
BY DEF Run, Idle

(* A run moved on, or without its lock, is the same run otherwise.         *)
LEMMA RunMoves ==
  ASSUME NEW r \in Run, r # Idle
  PROVE  /\ [r EXCEPT !.held = FALSE] \in Run
         /\ [r EXCEPT !.held = FALSE].at = r.at
         /\ [r EXCEPT !.held = FALSE].body = r.body
         /\ r.at = "finding" => [r EXCEPT !.at = "deciding"] \in Run
         /\ r.at = "posting" => [r EXCEPT !.at = "mirroring"] \in Run
         /\ \A a \in {"deciding", "mirroring"} :
              /\ [r EXCEPT !.at = a].at = a
              /\ [r EXCEPT !.at = a].body = r.body
BY DEF Run, Idle

(* A job that ends or fails leaves the queue's variables in their types,   *)
(* and its worker idle.                                                    *)
LEMMA QueueType ==
  ASSUME C2BTypeOK, HeldOnce, NEW w \in Worker, run[w] # Idle, Return(w) \/ Throw(w)
  PROVE  /\ job' \in [Body -> {"none", "waiting", "active", "done", "dropped"}]
         /\ tries' \in [Body -> 0 .. Attempts]
         /\ stalls' \in [Body -> 0 .. MaxStalls]
         /\ run' = [run EXCEPT ![w] = Idle]
<1>1. run[w].body \in Body
  BY RunForm
<1>2. run' = [run EXCEPT ![w] = Idle] /\ stalls' = stalls
  BY DEF Return, Throw, Go
<1>3. /\ job' \in [Body -> {"none", "waiting", "active", "done", "dropped"}]
      /\ tries' \in [Body -> 0 .. Attempts]
  <2>1. CASE Return(w)
    BY <1>1, <2>1 DEF C2BTypeOK, Return
  <2>2. CASE Throw(w) /\ ~run[w].held
    BY <2>2 DEF C2BTypeOK, Throw
  <2>3. CASE Throw(w) /\ run[w].held
    <3>1. tries[run[w].body] < Attempts
      BY <1>1, <2>3 DEF HeldOnce, Holds
    <3>2. tries[run[w].body] + 1 \in 0 .. Attempts
      BY <1>1, <3>1, BoundAssumption DEF C2BTypeOK
    <3> QED
      BY <1>1, <2>3, <3>2 DEF C2BTypeOK, Throw
  <2> QED
    BY <2>1, <2>2, <2>3
<1> QED
  BY <1>2, <1>3 DEF C2BTypeOK

(* A step that moves one run, and neither gives it a job nor the lock, and *)
(* leaves its job alone, keeps who holds what.                             *)
LEMMA HeldStep ==
  ASSUME C2BTypeOK, HeldOnce, UNCHANGED tries,
         \A b \in Body : job'[b] = job[b] \/ (job[b] = "none" /\ job'[b] = "waiting"),
         \A w \in Worker, b \in Body : Holds(w, b)' => Holds(w, b)
  PROVE  HeldOnce'
BY DEF HeldOnce

(* The queue keeps one holder per job, and counts its attempts.            *)
LEMMA HeldKept ==
  ASSUME C2BTypeOK, HeldOnce, [C2BNext]_c2bVars
  PROVE  HeldOnce'
<1>1. CASE UNCHANGED <<tries, job, run>>
  <2>1. \A w \in Worker, b \in Body : Holds(w, b)' => Holds(w, b)
    BY <1>1 DEF Holds
  <2>2. UNCHANGED tries /\ \A b \in Body : job'[b] = job[b]
    BY <1>1
  <2> QED
    BY <2>1, <2>2, HeldStep
<1>2. ASSUME NEW d \in Delivery, Enqueue(d) PROVE HeldOnce'
  <2>1. UNCHANGED <<tries, run>>
    BY <1>2 DEF Enqueue, hookFrame
  <2>2. \A b \in Body : job'[b] = job[b] \/ (job[b] = "none" /\ job'[b] = "waiting")
    <3> DEFINE c == hook[d].body
    <3>1. job' = [job EXCEPT ![c] = IF job[c] = "none" THEN "waiting" ELSE job[c]]
      BY <1>2 DEF Enqueue
    <3> HIDE DEF c
    <3>2. \A b \in Body : b # c => job'[b] = job[b]
      BY <3>1 DEF C2BTypeOK
    <3>3. c \in Body => job'[c] = IF job[c] = "none" THEN "waiting" ELSE job[c]
      BY <3>1 DEF C2BTypeOK
    <3> QED
      BY <3>2, <3>3
  <2>3. \A w \in Worker, b \in Body : Holds(w, b)' => Holds(w, b)
    BY <2>1 DEF Holds
  <2> QED
    BY <2>1, <2>2, <2>3, HeldStep
<1>3. ASSUME NEW w \in Worker, NEW b \in Body, TakeJob(w, b) PROVE HeldOnce'
  <2>1. /\ job' = [job EXCEPT ![b] = "active"] /\ UNCHANGED tries
        /\ job[b] = "waiting"
        /\ \A c \in Body : Holds(w, c)' => c = b
        /\ \A v \in Worker \ {w}, c \in Body : Holds(v, c)' <=> Holds(v, c)
    BY <1>3 DEF TakeJob, Go, C2BTypeOK, Holds
  <2>2. \A v \in Worker : ~Holds(v, b)
    BY <2>1 DEF HeldOnce
  <2>3. \A c \in Body : job'[c] = IF c = b THEN "active" ELSE job[c]
    BY <2>1 DEF C2BTypeOK
  <2> QED
    BY <2>1, <2>2, <2>3 DEF HeldOnce
<1>4. ASSUME NEW w \in Worker, run[w] # Idle, Stall(w) \/ Return(w) \/ Throw(w)
      PROVE  HeldOnce'
  <2> DEFINE b == run[w].body
  <2>1. b \in Body
    BY <1>4, RunForm
  <2>2. /\ \A c \in Body : ~Holds(w, c)'
        /\ \A v \in Worker \ {w}, c \in Body : Holds(v, c)' <=> Holds(v, c)
    <3>1. \/ run' = [run EXCEPT ![w] = Idle]
          \/ run' = [run EXCEPT ![w] = [@ EXCEPT !.held = FALSE]]
      BY <1>4 DEF Stall, Return, Throw, Go
    <3>2. run[w] \in Run
      BY DEF C2BTypeOK
    <3>3. [run[w] EXCEPT !.held = FALSE].held = FALSE
      BY <1>4, <3>2 DEF Run
    <3> QED
      BY <3>1, <3>3 DEF C2BTypeOK, Holds
  <2>3. \/ UNCHANGED <<job, tries>>
        \/ /\ run[w].held
           /\ \A c \in Body \ {b} : job'[c] = job[c] /\ tries'[c] = tries[c]
           /\ job'[b] \in {"none", "waiting", "active"} => tries'[b] < Attempts
    <3>1. CASE Stall(w)
      <4>1. run[w].held => tries[b] < Attempts
        BY <1>4, <2>1 DEF HeldOnce, Holds
      <4> QED
        BY <2>1, <3>1, <4>1 DEF Stall, C2BTypeOK
    <3>2. CASE Return(w)
      BY <2>1, <3>2 DEF Return, C2BTypeOK
    <3>3. CASE Throw(w)
      BY <2>1, <3>3 DEF Throw, C2BTypeOK
    <3> QED
      BY <1>4, <3>1, <3>2, <3>3
  <2>4. CASE UNCHANGED <<job, tries>>
    BY <2>2, <2>4 DEF HeldOnce
  <2>5. CASE ~UNCHANGED <<job, tries>>
    <3>1. Holds(w, b)
      BY <1>4, <2>3, <2>5 DEF Holds
    <3>2. \A v \in Worker \ {w} : ~Holds(v, b)
      BY <2>1, <3>1 DEF HeldOnce
    <3> HIDE DEF b
    <3> QED
      BY <2>1, <2>2, <2>3, <2>5, <3>2 DEF HeldOnce
  <2> QED
    BY <2>4, <2>5
<1>5. ASSUME NEW w \in Worker, NEW r, Go(w, r), UNCHANGED queueVars,
             r.held = run[w].held, r.body = run[w].body, run[w] # Idle
      PROVE  HeldOnce'
  <2>1. \A v \in Worker, c \in Body : Holds(v, c)' => Holds(v, c)
    BY <1>5 DEF Go, Holds, C2BTypeOK
  <2> QED
    <3>1. UNCHANGED tries /\ \A b \in Body : job'[b] = job[b]
      BY <1>5 DEF queueVars
    <3> QED
      BY <2>1, <3>1, HeldStep
<1>6. ASSUME NEW w \in Worker, Work(w) \/ Stall(w) PROVE HeldOnce'
  <2>1. run[w] # Idle => run[w] \in Run
    BY DEF C2BTypeOK
  <2>2. CASE FindRow(w)
    <3>1. run[w] # Idle
      BY <2>2 DEF FindRow, Idle
    <3>2. LET r == [run[w] EXCEPT !.at = "deciding"]
          IN  r.held = run[w].held /\ r.body = run[w].body
      BY <2>1, <2>2, <3>1 DEF Run, FindRow
    <3> QED
      BY <1>4, <1>5, <2>2, <3>1, <3>2 DEF FindRow
  <2>3. CASE Decide(w)
    <3>1. run[w] # Idle
      BY <2>3 DEF Decide, Idle
    <3> QED
      BY <1>4, <1>5, <2>3, <3>1 DEF Decide, To
  <2>4. CASE Post(w)
    <3>1. run[w] # Idle
      BY <2>4 DEF Post, Idle
    <3>2. LET r == [run[w] EXCEPT !.at = "mirroring"]
          IN  r.held = run[w].held /\ r.body = run[w].body
      BY <2>1, <2>4, <3>1 DEF Run, Post
    <3> QED
      BY <1>5, <2>4, <3>1, <3>2 DEF Post, Finishing
  <2>5. CASE Mirror(w) \/ Finish(w) \/ Fails(w)
    <3>1. run[w] # Idle
      BY <2>5 DEF Mirror, Finish, Fails, Idle
    <3> QED
      BY <1>4, <1>5, <2>5, <3>1 DEF Mirror, Finish, Fails, Finishing
  <2> QED
    BY <1>3, <1>4, <1>6, <2>2, <2>3, <2>4, <2>5 DEF Work, Stall
<1> QED
  BY <1>1, <1>2, <1>6 DEF C2BNext, FindDuplicate, CreateRow, HookStops, hookFrame, Move,
     queueVars, c2bVars

(* Rows stay, and nothing is queued or run before its row is there.        *)
LEMMA RowsKept ==
  ASSUME C2BTypeOK, QueuedRows, [C2BNext]_c2bVars
  PROVE  QueuedRows'
<1>1. ASSUME rows \subseteq rows',
             \A d \in Delivery : hook'[d] = hook[d] \/ hook'[d].at # "enqueueing"
                                                  \/ hook'[d].body \in rows',
             \A b \in Body : job'[b] = job[b] \/ b \in rows,
             \A w \in Worker : run'[w] = run[w] \/ run'[w] = Idle
                                                \/ run'[w].body \in rows
      PROVE  QueuedRows'
  BY <1>1 DEF QueuedRows
<1>2. CASE UNCHANGED c2bVars
  BY <1>2 DEF c2bVars, queueVars, QueuedRows
<1>3. ASSUME NEW d \in Delivery,
             (\E b \in Body : FindDuplicate(d, b)) \/ CreateRow(d) \/ Enqueue(d) \/ HookStops(d)
      PROVE  QueuedRows'
  <2>1. rows \subseteq rows' /\ run' = run
    BY <1>3 DEF FindDuplicate, CreateRow, Enqueue, HookStops, hookFrame
  <2>2. \A e \in Delivery : hook'[e] = hook[e] \/ hook'[e].at # "enqueueing"
                                              \/ hook'[e].body \in rows'
    BY <1>3 DEF FindDuplicate, CreateRow, Enqueue, HookStops, Hook, Over, C2BTypeOK
  <2>3. \A b \in Body : job'[b] = job[b] \/ b \in rows
    <3>1. CASE Enqueue(d)
      <4>1. hook[d].body \in rows
        BY <3>1 DEF Enqueue, QueuedRows
      <4>2. \A b \in Body : b # hook[d].body => job'[b] = job[b]
        BY <3>1 DEF Enqueue, C2BTypeOK
      <4> QED
        BY <4>1, <4>2
    <3>2. CASE ~Enqueue(d)
      BY <1>3, <3>2 DEF FindDuplicate, CreateRow, HookStops, hookFrame
    <3> QED
      BY <3>1, <3>2
  <2> QED
    BY <1>1, <2>1, <2>2, <2>3
<1>4. ASSUME NEW p \in Payment, Move(p) PROVE QueuedRows'
  BY <1>4, <1>1 DEF Move, queueVars
<1>5. ASSUME NEW w \in Worker, Work(w) \/ Stall(w) PROVE QueuedRows'
  <2>1. UNCHANGED <<rows, hook>>
    BY <1>5 DEF Work, Stall, TakeJob, queueFrame, FindRow, Decide, Post, Mirror, Finish, Fails
  <2>2. PICK b \in rows :
          /\ \A c \in Body \ {b} : job'[c] = job[c]
          /\ \A v \in Worker \ {w} : run'[v] = run[v]
          /\ run'[w] = Idle \/ run'[w].body = b
    <3>1. ASSUME NEW b \in Body, TakeJob(w, b) PROVE b \in rows
      BY <3>1 DEF TakeJob, QueuedRows
    <3>2. ASSUME NEW b \in Body, TakeJob(w, b)
          PROVE  /\ \A c \in Body \ {b} : job'[c] = job[c]
                 /\ \A v \in Worker \ {w} : run'[v] = run[v]
                 /\ run'[w].body = b
      BY <3>2 DEF TakeJob, Go, C2BTypeOK
    <3>3. ASSUME run[w] # Idle, Stall(w) \/ FindRow(w) \/ Decide(w) \/ Post(w)
                                  \/ Mirror(w) \/ Finish(w) \/ Fails(w)
          PROVE  LET b == run[w].body
                 IN /\ b \in rows
                    /\ \A c \in Body \ {b} : job'[c] = job[c]
                    /\ \A v \in Worker \ {w} : run'[v] = run[v]
                    /\ run'[w] = Idle \/ run'[w].body = b
      <4>1. run[w].body \in rows /\ run[w] \in Run
        BY <3>3 DEF QueuedRows, C2BTypeOK
      <4>2. CASE Return(w) \/ Throw(w)
        BY <3>3, <4>1, <4>2 DEF Return, Throw, Go, C2BTypeOK
      <4>3. CASE UNCHANGED queueVars /\ \E r : Go(w, r) /\ r.body = run[w].body
        BY <4>1, <4>3 DEF Go, queueVars, C2BTypeOK
      <4>4. CASE Stall(w)
        <5>1. /\ \A c \in Body \ {run[w].body} : job'[c] = job[c]
              /\ Go(w, Idle) \/ Go(w, [run[w] EXCEPT !.held = FALSE])
          BY <4>4 DEF Stall, C2BTypeOK
        <5> QED
          BY <3>3, <4>1, <5>1, RunMoves DEF Go, C2BTypeOK
      <4>5. CASE FindRow(w) \/ Post(w)
        <5>1. \A a \in {"deciding", "mirroring"} :
                [run[w] EXCEPT !.at = a].body = run[w].body
          BY <3>3, <4>1, RunMoves
        <5>2. Finishing(w).body = run[w].body
          BY DEF Finishing
        <5>3. CASE FindRow(w)
          BY <4>2, <4>3, <5>1, <5>3 DEF FindRow
        <5>4. CASE Post(w)
          BY <4>3, <5>1, <5>2, <5>4 DEF Post
        <5> QED
          BY <4>5, <5>3, <5>4
      <4>6. CASE Decide(w) \/ Mirror(w) \/ Finish(w) \/ Fails(w)
        BY <4>2, <4>3, <4>6 DEF Decide, To, Mirror, Finish, Fails, Finishing
      <4> QED
        BY <3>3, <4>4, <4>5, <4>6
    <3>4. ~(\E b \in Body : TakeJob(w, b)) => run[w] # Idle
      BY <1>5 DEF Work, Stall, FindRow, Decide, Post, Mirror, Finish, Fails, Idle
    <3> QED
      BY <1>5, <3>1, <3>2, <3>3, <3>4 DEF Work
  <2> QED
    BY <1>1, <2>1, <2>2
<1> QED
  BY <1>2, <1>3, <1>4, <1>5 DEF C2BNext

-------------------------------------------------------------------------------
(* Backing.                                                                *)

(* Transfers stay, so what was backed by one stays backed: a step has to   *)
(* answer only for the runs, the rows and the donors it changes.           *)
LEMMA Backing ==
  ASSUME CInv, C2BTypeOK', HeldOnce', QueuedRows', KeyedByPayment', KeysDiffer', books \subseteq books',
         \A w \in Worker : \/ run'[w] = run[w]
                           \/ run'[w].at \notin {"mirroring", "finishing"}
                           \/ OnBooks(Paid(w))',
         \A b \in processed' : b \in processed \/ OnBooks(Receipt[b])',
         \A p \in donors' : p \in donors \/ OnBooks(p)'
  PROVE  CInv'
<1>1. \A p : OnBooks(p) => OnBooks(p)'
  BY DEF OnBooks
<1>2. RunsBacked'
  <2> SUFFICES ASSUME NEW w \in Worker, run'[w].at \in {"mirroring", "finishing"}
               PROVE  OnBooks(Paid(w))'
    BY DEF RunsBacked
  <2>1. CASE run'[w] = run[w]
    <3>1. \E t \in books : t.payment = Receipt[run[w].body]
      BY <2>1 DEF CInv, RunsBacked, OnBooks, Paid
    <3> QED
      BY <2>1, <3>1 DEF OnBooks, Paid
  <2>2. CASE run'[w] # run[w]
    BY <2>2
  <2> QED
    BY <2>1, <2>2
<1>3. ProcessedOnBooks'
  BY <1>1 DEF CInv, ProcessedOnBooks
<1>4. DonorsBacked'
  BY <1>1 DEF CInv, DonorsBacked
<1> QED
  BY <1>2, <1>3, <1>4 DEF CInv

(* A step away from the ledger, the donor wall and the rows' processedAt,  *)
(* after which the worker that took it claims no more than before.         *)
LEMMA AwayFromBooks ==
  ASSUME CInv, C2BTypeOK', HeldOnce', QueuedRows', UNCHANGED <<books, donors, processed>>,
         \A w \in Worker : \/ run'[w] = run[w]
                           \/ run'[w].at \notin {"mirroring", "finishing"}
                           \/ /\ run'[w].at = run[w].at
                              /\ run'[w].body = run[w].body
  PROVE  CInv'
<1>1. \A w \in Worker : \/ run'[w] = run[w]
                        \/ run'[w].at \notin {"mirroring", "finishing"}
                        \/ OnBooks(Paid(w))'
  BY DEF CInv, RunsBacked, OnBooks, Paid
<1> QED
  BY <1>1, Backing DEF CInv, KeyedByPayment, KeysDiffer

(* At the start nothing is on the books, and nothing claims to be.         *)
LEMMA InitCInv == C2BInit => CInv
BY BoundAssumption
DEF C2BInit, CInv, C2BTypeOK, Run, Idle, HeldOnce, Holds, QueuedRows, RunsBacked, KeyedByPayment, KeysDiffer,
    ProcessedOnBooks, DonorsBacked

(* The webhook and the payers keep the invariant.                          *)
LEMMA OutsideCInv ==
  ASSUME CInv, HeldOnce', QueuedRows',
         \/ \E d \in Delivery :
              (\E b \in Body : FindDuplicate(d, b)) \/ CreateRow(d) \/ Enqueue(d) \/ HookStops(d)
         \/ \E p \in Payment : Move(p)
  PROVE  CInv'
<1>1. C2BTypeOK'
  <2>1. ASSUME NEW d \in Delivery, NEW b \in Body, FindDuplicate(d, b) PROVE C2BTypeOK'
    BY <2>1 DEF CInv, C2BTypeOK, FindDuplicate, Hook, hookFrame
  <2>2. \A d \in Delivery : hook[d].at \in {"creating", "enqueueing"} => hook[d].body \in Body
    BY DEF CInv, C2BTypeOK, Idle, Over
  <2>3. ASSUME NEW d \in Delivery, CreateRow(d) PROVE C2BTypeOK'
    BY <2>2, <2>3 DEF CInv, C2BTypeOK, CreateRow, Hook, hookFrame
  <2>4. ASSUME NEW d \in Delivery, Enqueue(d) PROVE C2BTypeOK'
    BY <2>2, <2>4 DEF CInv, C2BTypeOK, Enqueue, Hook, hookFrame
  <2>5. ASSUME NEW d \in Delivery, HookStops(d) PROVE C2BTypeOK'
    BY <2>5 DEF CInv, C2BTypeOK, HookStops, Hook, hookFrame
  <2>6. ASSUME NEW p \in Payment, Move(p) PROVE C2BTypeOK'
    BY <2>6 DEF CInv, C2BTypeOK, Move, queueVars
  <2> QED
    BY <2>1, <2>3, <2>4, <2>5, <2>6
<1>2. UNCHANGED <<books, donors, processed, run>>
  BY DEF FindDuplicate, CreateRow, Enqueue, HookStops, Move, hookFrame
<1> QED
  BY <1>1, <1>2, AwayFromBooks

(* Taking a job, and losing the lock on it, keep the invariant: a slow     *)
(* worker that goes on without its lock has what it had.                   *)
LEMMA QueueCInv ==
  ASSUME CInv, HeldOnce', QueuedRows', NEW w \in Worker, Stall(w) \/ \E b \in Body : TakeJob(w, b)
  PROVE  CInv'
<1> USE DEF CInv, C2BTypeOK
<1>1. ASSUME NEW b \in Body, TakeJob(w, b) PROVE CInv'
  <2> DEFINE r == [at |-> "finding", body |-> b, held |-> TRUE]
  <2>1. r \in Run /\ r.at = "finding"
    BY RunForms
  <2>2. run' = [run EXCEPT ![w] = r]
    BY <1>1 DEF TakeJob, Go
  <2> HIDE DEF r
  <2>3. C2BTypeOK'
    BY <1>1, <2>1, <2>2 DEF TakeJob, queueFrame
  <2> QED
    BY <1>1, <2>1, <2>2, <2>3, AwayFromBooks DEF TakeJob, queueFrame
<1>2. CASE Stall(w)
  <2>1. run[w] \in Run /\ run[w] # Idle /\ run[w].body \in Body
    BY <1>2, RunForm DEF Stall
  <2> DEFINE r == [run[w] EXCEPT !.held = FALSE]
  <2>2. r \in Run /\ r.at = run[w].at /\ r.body = run[w].body
    BY <2>1, RunMoves
  <2>3. run' = [run EXCEPT ![w] = Idle] \/ run' = [run EXCEPT ![w] = r]
    BY <1>2 DEF Stall, Go
  <2> HIDE DEF r
  <2>4. /\ job' \in [Body -> {"none", "waiting", "active", "done", "dropped"}]
        /\ stalls' \in [Body -> 0 .. MaxStalls]
    BY <1>2, <2>1, BoundAssumption DEF Stall
  <2>5. C2BTypeOK'
    BY <1>2, <2>2, <2>3, <2>4, RunForms DEF Stall, queueFrame
  <2> QED
    BY <1>2, <2>2, <2>3, <2>5, RunForms, AwayFromBooks DEF Stall, queueFrame
<1> QED
  BY <1>1, <1>2

(* Reading the row and deciding what the payment is claim nothing yet.     *)
LEMMA DecidingCInv ==
  ASSUME CInv, HeldOnce', QueuedRows', NEW w \in Worker, FindRow(w) \/ Decide(w)
  PROVE  CInv'
<1> USE DEF CInv, C2BTypeOK
<1>1. /\ run[w] # Idle /\ run[w] \in Run /\ run[w].body \in Body
      /\ run[w].held \in BOOLEAN
  BY RunForms, RunForm DEF FindRow, Decide
<1>2. PICK r \in Run : /\ r.at \notin {"mirroring", "finishing"}
                       /\ run' = [run EXCEPT ![w] = r]
  <2>1. CASE Return(w) \/ Throw(w)
    BY <1>1, <2>1, QueueType, RunForms
  <2>2. CASE FindRow(w) /\ Go(w, [run[w] EXCEPT !.at = "deciding"])
    BY <1>1, <2>2, RunMoves DEF FindRow, Go
  <2>3. CASE \E k \in Kind : To(w, "posting", k)
    <3>1. PICK k \in Kind : run' = [run EXCEPT ![w] =
             [at |-> "posting", body |-> run[w].body, held |-> run[w].held, kind |-> k]]
      BY <2>3 DEF To, Go
    <3> QED
      BY <1>1, <3>1, RunForms
  <2>4. CASE FindRow(w)
    BY <2>1, <2>2, <2>4 DEF FindRow
  <2>5. CASE Decide(w)
    BY <2>1, <2>3, <2>5 DEF Decide, Kind
  <2> QED
    BY <2>4, <2>5
<1>3. /\ job' \in [Body -> {"none", "waiting", "active", "done", "dropped"}]
      /\ tries' \in [Body -> 0 .. Attempts]
      /\ stalls' \in [Body -> 0 .. MaxStalls]
  <2>1. CASE UNCHANGED queueVars
    BY <2>1 DEF queueVars
  <2>2. CASE Return(w) \/ Throw(w)
    BY <1>1, <2>2, QueueType
  <2> QED
    BY <2>1, <2>2 DEF FindRow, Decide
<1>4. UNCHANGED <<hook, rows, processed, member, books, donors>>
  BY DEF FindRow, Decide
<1>5. C2BTypeOK'
  BY <1>2, <1>3, <1>4
<1> QED
  BY <1>2, <1>4, <1>5, AwayFromBooks

(* A post leaves the transfer of the payment on the books, one per key.    *)
LEMMA PostedFacts ==
  ASSUME CInv, NEW w \in Worker, run[w].at = "posting"
  PROVE  /\ books \subseteq Posted(w)
         /\ Posted(w) \subseteq [key : Payment, payment : Payment, kind : Kind]
         /\ \A t \in Posted(w) : t.key = t.payment
         /\ \A s, t \in Posted(w) : s.key = t.key => s = t
         /\ \E t \in Posted(w) : t.payment = Paid(w)
<1>1. Paid(w) \in Payment /\ run[w].kind \in Kind
  BY RunForm, RunForms DEF CInv
<1> DEFINE new == [key |-> Paid(w), payment |-> Paid(w), kind |-> run[w].kind]
<1>2. /\ new \in [key : Payment, payment : Payment, kind : Kind]
      /\ new.key = Paid(w) /\ new.payment = Paid(w)
  BY <1>1
<1>3. CASE \E t \in books : t.key = LedgerKey(w)
  <2>1. Posted(w) = books
    BY <1>3 DEF Posted
  <2> QED
    BY <1>1, <1>3, <2>1 DEF LedgerKey, CInv, C2BTypeOK, KeyedByPayment, KeysDiffer
<1>4. CASE ~ \E t \in books : t.key = LedgerKey(w)
  <2>1. Posted(w) = books \cup {new} /\ \A t \in books : t.key # new.key
    BY <1>2, <1>4 DEF Posted, LedgerKey
  <2> HIDE DEF new
  <2> QED
    BY <1>2, <2>1 DEF CInv, C2BTypeOK, KeyedByPayment, KeysDiffer
<1> QED
  BY <1>3, <1>4

(* The ledger post keeps the invariant.                                    *)
LEMMA PostCInv ==
  ASSUME CInv, HeldOnce', QueuedRows', NEW w \in Worker, Post(w)
  PROVE  CInv'
<1> USE DEF CInv, C2BTypeOK
<1>1. /\ run[w] # Idle /\ run[w] \in Run /\ run[w].body \in Body
      /\ run[w].held \in BOOLEAN /\ run[w].at = "posting"
  BY RunForms, RunForm DEF Post
<1>2. PICK r \in Run : r.body = run[w].body /\ run' = [run EXCEPT ![w] = r]
  <2>1. Finishing(w) \in Run /\ Finishing(w).body = run[w].body
    BY <1>1, RunForms DEF Finishing
  <2> QED
    BY <1>1, <2>1, RunMoves DEF Post, Go
<1>3. books' = Posted(w)
  BY DEF Post
<1>4. C2BTypeOK'
  BY <1>1, <1>2, <1>3, PostedFacts DEF Post, queueVars
<1>5. \A v \in Worker : run'[v] = run[v] \/ OnBooks(Paid(v))'
  BY <1>1, <1>2, <1>3, PostedFacts DEF OnBooks, Paid
<1>6. books \subseteq books' /\ KeyedByPayment' /\ KeysDiffer'
  BY <1>1, <1>3, PostedFacts DEF KeyedByPayment, KeysDiffer
<1>7. UNCHANGED <<processed, donors>>
  BY DEF Post
<1> QED
  BY <1>4, <1>5, <1>6, <1>7, Backing

(* The mirror, the end and the failure of a run keep the invariant.        *)
LEMMA ClosingCInv ==
  ASSUME CInv, HeldOnce', QueuedRows', NEW w \in Worker, Mirror(w) \/ Finish(w) \/ Fails(w)
  PROVE  CInv'
<1> USE DEF CInv, C2BTypeOK
<1>1. /\ run[w] # Idle /\ run[w] \in Run /\ run[w].body \in Body
      /\ run[w].held \in BOOLEAN /\ Paid(w) \in Payment
  BY RunForms, RunForm DEF Mirror, Finish, Fails
<1>2. books' = books \/ (run[w].at = "posting" /\ books' = Posted(w))
  <2>1. CASE Mirror(w) \/ Finish(w)
    BY <2>1 DEF Mirror, Finish
  <2>2. CASE Fails(w) /\ run[w].at = "posting"
    BY <2>2 DEF Fails
  <2>3. CASE Fails(w) /\ run[w].at # "posting"
    BY <2>3 DEF Fails
  <2> QED
    BY <2>1, <2>2, <2>3
<1>3. /\ books \subseteq books' /\ KeyedByPayment' /\ KeysDiffer'
      /\ books' \subseteq [key : Payment, payment : Payment, kind : Kind]
  BY <1>2, PostedFacts DEF KeyedByPayment, KeysDiffer
<1>4. /\ donors' \in {donors, donors \cup {Paid(w)}}
      /\ processed' \in {processed, processed \cup {run[w].body}}
      /\ (donors' = donors /\ processed' = processed) \/ OnBooks(Paid(w))
  <2>1. CASE Mirror(w) \/ Finish(w)
    BY <2>1 DEF Mirror, Finish, RunsBacked
  <2>2. CASE Fails(w)
    BY <2>2 DEF Fails
  <2> QED
    BY <2>1, <2>2
<1>5. PICK r \in Run : /\ r.at \notin {"mirroring", "finishing"} \/ OnBooks(Paid(w))
                       /\ r = Idle \/ r.body = run[w].body
                       /\ run' = [run EXCEPT ![w] = r]
  <2>1. CASE Return(w) \/ Throw(w)
    BY <1>1, <2>1, QueueType, RunForms
  <2>2. CASE Mirror(w) /\ Go(w, Finishing(w))
    <3>1. Finishing(w) \in Run /\ Finishing(w).body = run[w].body
      BY <1>1, RunForms DEF Finishing
    <3> QED
      BY <2>2, <3>1 DEF Mirror, Go, RunsBacked
  <2> QED
    BY <2>1, <2>2 DEF Mirror, Finish, Fails
<1>6. /\ job' \in [Body -> {"none", "waiting", "active", "done", "dropped"}]
      /\ tries' \in [Body -> 0 .. Attempts]
      /\ stalls' \in [Body -> 0 .. MaxStalls]
  <2>1. CASE UNCHANGED queueVars
    BY <2>1 DEF queueVars
  <2>2. CASE Return(w) \/ Throw(w)
    BY <1>1, <2>2, QueueType
  <2> QED
    BY <2>1, <2>2 DEF Mirror, Finish, Fails
<1>7. UNCHANGED <<hook, rows, member>> /\ processed' \subseteq rows'
  <2>1. CASE Finish(w)
    <3>1. run[w].body \in rows
      BY <1>1 DEF QueuedRows
    <3> QED
      BY <2>1, <3>1 DEF Finish
  <2>2. CASE Mirror(w) \/ Fails(w)
    BY <2>2 DEF Mirror, Fails
  <2> QED
    BY <2>1, <2>2
<1>8. C2BTypeOK'
  BY <1>1, <1>3, <1>4, <1>5, <1>6, <1>7
<1>9. \A v \in Worker : \/ run'[v] = run[v]
                        \/ run'[v].at \notin {"mirroring", "finishing"}
                        \/ OnBooks(Paid(v))'
  BY <1>3, <1>5, RunForms DEF OnBooks, Paid
<1>10. /\ \A b \in processed' : b \in processed \/ OnBooks(Receipt[b])'
       /\ \A p \in donors' : p \in donors \/ OnBooks(p)'
  BY <1>3, <1>4 DEF OnBooks, Paid
<1> QED
  BY <1>3, <1>8, <1>9, <1>10, Backing

(* Every step keeps the invariant.                                         *)
LEMMA NextCInv == CInv /\ [C2BNext]_c2bVars => CInv'
<1> SUFFICES ASSUME CInv, [C2BNext]_c2bVars PROVE CInv'
  OBVIOUS
<1>0. HeldOnce' /\ QueuedRows'
  BY HeldKept, RowsKept DEF CInv
<1>1. CASE UNCHANGED c2bVars
  <2>1. C2BTypeOK'
    BY <1>1 DEF c2bVars, queueVars, CInv, C2BTypeOK
  <2> QED
    BY <1>0, <1>1, <2>1, AwayFromBooks DEF c2bVars
<1>2. ASSUME NEW w \in Worker, Work(w) \/ Stall(w) PROVE CInv'
  BY <1>0, <1>2, QueueCInv, DecidingCInv, PostCInv, ClosingCInv DEF Work
<1> QED
  BY <1>0, <1>1, <1>2, OutsideCInv DEF C2BNext

(* The inductive invariant of paybill payments: who is past the ledger     *)
(* post has its transfer on the books, and a key has one transfer.         *)
THEOREM C2BInvariance == C2BSpec => []CInv
BY InitCInv, NextCInv, PTL DEF C2BSpec

(* Types, among them that attempts and stalls stay within their limits.    *)
THEOREM C2BTypeCorrect == C2BSpec => []C2BTypeOK
<1>1. CInv => C2BTypeOK
  BY DEF CInv
<1> QED
  BY <1>1, C2BInvariance, PTL

(* Every confirmation marked processed has its money on the ledger.        *)
THEOREM ProcessedIsOnBooks == C2BSpec => []ProcessedOnBooks
<1>1. CInv => ProcessedOnBooks
  BY DEF CInv
<1> QED
  BY <1>1, C2BInvariance, PTL

(* One receipt is one transfer, however many bodies, workers and attempts  *)
(* carried it.                                                             *)
THEOREM ReceiptPostedOnce == C2BSpec => []OnBooksOnce
<1>1. CInv => OnBooksOnce
  BY DEF CInv, KeyedByPayment, KeysDiffer, OnBooksOnce
<1> QED
  BY <1>1, C2BInvariance, PTL

(* No name is on the donor wall for a paybill payment that is not on the   *)
(* ledger.                                                                 *)
THEOREM C2BDonorsBacked == C2BSpec => []DonorsBacked
<1>1. CInv => DonorsBacked
  BY DEF CInv
<1> QED
  BY <1>1, C2BInvariance, PTL
-------------------------------------------------------------------------------
(* What PaymentSpec promises.  Only the steps of a run that posts, mirrors *)
(* or finishes are spoken of there; CInv gives each of them its guard.     *)

LEMMA InitPromise == C2BInit => Promise!Init
BY DEF C2BInit, Promise!Init, BookedFor, Arrived

LEMMA QuietSteps ==
  ASSUME [C2BNext]_c2bVars,
         \A w \in Worker : ~ (Post(w) \/ Fails(w) \/ Mirror(w) \/ Finish(w))
  PROVE  UNCHANGED <<processed, books, donors>>
BY DEF C2BNext, FindDuplicate, CreateRow, Enqueue, HookStops, hookFrame, Move, Work, TakeJob,
       queueFrame, FindRow, Decide, Stall, c2bVars

(* The ledger post books the payment of the run, or finds it booked.       *)
LEMMA PostingBooks ==
  ASSUME CInv, NEW w \in Worker, Post(w) \/ Fails(w)
  PROVE  Promise!Book(Paid(w)) \/ UNCHANGED Promise!vars
<1> DEFINE p   == Paid(w)
           new == [key |-> p, payment |-> p, kind |-> run[w].kind]
<1>1. UNCHANGED <<processed, donors>>
  BY DEF Post, Fails
<1>2. books' = books \/ (run[w].at = "posting" /\ books' = Posted(w))
  <2>1. CASE run[w].at = "posting"
    BY <2>1 DEF Post, Fails
  <2>2. CASE run[w].at # "posting"
    BY <2>2 DEF Post, Fails
  <2> QED
    BY <2>1, <2>2
<1>3. CASE books' = books
  BY <1>1, <1>3 DEF Promise!vars, BookedFor, Arrived
<1>4. CASE books' # books
  <2>1. books' = books \cup {new} /\ ~ \E t \in books : t.key = p
    BY <1>2, <1>4 DEF Posted, LedgerKey
  <2>2. p \in Payment /\ new \in [key : Payment, payment : Payment, kind : Kind]
    <3>1. run[w].at = "posting" /\ run[w] # Idle
      BY <1>2, <1>4, RunForms
    <3> QED
      BY <3>1, RunForm DEF CInv
  <2>3. \A t \in books : t.payment # p
    BY <2>1 DEF CInv, KeyedByPayment
  <2>4. \A q \in Payment : { t \in books' : t.payment = q } =
                             IF q = p THEN {new} ELSE { t \in books : t.payment = q }
    BY <2>1, <2>3
  <2> HIDE DEF new, p
  <2>5. BookedFor[p] = {} /\ BookedFor' = [BookedFor EXCEPT ![p] = {new}]
    BY <2>2, <2>3, <2>4 DEF BookedFor
  <2>6. UNCHANGED <<Arrived, donors>>
    BY <1>1 DEF Arrived
  <2> QED
    BY <2>2, <2>5, <2>6 DEF Promise!Book, p
<1> QED
  BY <1>3, <1>4

(* Mirroring and finishing come after the post.                            *)
LEMMA ClosingShows ==
  ASSUME CInv, NEW w \in Worker, Mirror(w) \/ Finish(w)
  PROVE  Promise!PutOnWall(Paid(w)) \/ Promise!Show(Paid(w))
<1> DEFINE p == Paid(w)
<1>1. p \in Payment /\ UNCHANGED books
  BY RunForm, RunForms DEF CInv, Mirror, Finish
<1>2. BookedFor[p] # {} /\ BookedFor' = BookedFor
  BY <1>1 DEF CInv, RunsBacked, OnBooks, BookedFor, Mirror, Finish
<1>3. CASE Mirror(w)
  BY <1>2, <1>3 DEF Mirror, Promise!PutOnWall, Arrived
<1>4. CASE Finish(w)
  <2>1. Arrived' = Arrived \cup {p} /\ UNCHANGED donors
    BY <1>4 DEF Finish, Arrived, Paid
  <2> QED
    BY <1>2, <2>1 DEF Promise!Show
<1> QED
  BY <1>3, <1>4

LEMMA NextPromise == CInv /\ [C2BNext]_c2bVars => [Promise!Next]_Promise!vars
<1> SUFFICES ASSUME CInv, [C2BNext]_c2bVars PROVE [Promise!Next]_Promise!vars
  OBVIOUS
<1>1. ASSUME NEW w \in Worker, Post(w) \/ Fails(w) \/ Mirror(w) \/ Finish(w)
      PROVE  Promise!Next \/ UNCHANGED Promise!vars
  <2>1. Paid(w) \in Payment
    BY <1>1, RunForm, RunForms DEF CInv, Post, Fails, Mirror, Finish
  <2> QED
    BY <1>1, <2>1, PostingBooks, ClosingShows DEF Promise!Next
<1>2. CASE \A w \in Worker : ~ (Post(w) \/ Fails(w) \/ Mirror(w) \/ Finish(w))
  BY <1>2, QuietSteps DEF Promise!vars, BookedFor, Arrived
<1> QED
  BY <1>1, <1>2

(* Paybill payments implement PaymentSpec, with what is shown for good,    *)
(* whatever is repeated, stalls, dies or is tried again.                   *)
THEOREM C2BPromise == C2BSpec => ImplementsPaymentSpec
BY InitPromise, NextPromise, C2BInvariance, PTL DEF C2BSpec, ImplementsPaymentSpec, Promise!Spec
===============================================================================
