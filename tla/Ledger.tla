-------------------------------- MODULE Ledger --------------------------------
(***************************************************************************)
(* services/ledger.service.ts: the double-entry ledger in Postgres.        *)
(*                                                                         *)
(* A call is one invocation of a record* wrapper, of recordReversal or of  *)
(* postTransfer itself (billing, fees and referral build their own legs).  *)
(* A wrapper looks up or creates its accounts concurrently (Promise.all),  *)
(* then posts: validate, look for the first leg's key, insert leg by leg   *)
(* in one $transaction, and on a unique violation read the sibling's rows. *)
(* Every await is a step, so calls interleave anywhere between them; the   *)
(* database is READ COMMITTED, where an insert waits for the transaction   *)
(* that holds the same unique key.  A call can fail at any await: an       *)
(* error, the 5 s transaction limit, or the death of the process.          *)
(***************************************************************************)
EXTENDS Integers, Sequences, FiniteSetsExt, Functions

CONSTANTS
  Call,        \* invocations in flight
  Key,         \* logical idempotency keys
  User,        \* members
  Chama,       \* groups
  NoOne,       \* the null of the nullable owner columns
  Request,     \* what calls may ask for
  Workload     \* which requests may be in flight together

AccountName ==
  [type  : {"mpesa_clearing", "platform_fee_revenue", "member_wallet",
            "chama_pool_wallet", "fundraiser_escrow",
            "loan_principal_receivable", "loan_interest_receivable"},
   user  : User \cup {NoOne},
   chama : Chama \cup {NoOne}]

Posting == [account : AccountName, debit : Int, credit : Int]

(* The wrappers refuse an amount that is not positive, and a part (the fee *)
(* of a donation, the interest of a repayment) that is negative; only a    *)
(* caller of postTransfer itself may bring legs of any shape.              *)
WrapperRequest ==
  [op : {"contribution", "donation", "payout", "disbursement", "repayment"},
   key : Key, user : User, chama : Chama, amount : Nat, part : Nat]

ASSUME RequestAssumption ==
  \A r \in Request :
    /\ r.key \in Key
    /\ CASE r.op = "reversal" -> r.of \in Key
         [] r.op = "transfer" -> r.postings \in Seq(Posting)
         [] OTHER -> r \in WrapperRequest

ASSUME WorkloadAssumption == Workload \subseteq [Call -> Request]

ASSUME NoOneAssumption == NoOne \notin User \cup Chama

-------------------------------------------------------------------------------
(* The chart of accounts: (type, ownerUserId, ownerChamaId).               *)

Account(type, u, ch) == [type |-> type, user |-> u, chama |-> ch]

Clearing         == Account("mpesa_clearing", NoOne, NoOne)
FeeRevenue       == Account("platform_fee_revenue", NoOne, NoOne)
MemberWallet(u)  == Account("member_wallet", u, NoOne)
PoolWallet(ch)   == Account("chama_pool_wallet", NoOne, ch)
Escrow(ch)       == Account("fundraiser_escrow", NoOne, ch)
Principal(u, ch) == Account("loan_principal_receivable", u, ch)
Interest(u, ch)  == Account("loan_interest_receivable", u, ch)

(* The columns of @@unique([type, ownerUserId, ownerChamaId]) are nullable *)
(* and Postgres holds nulls distinct: only a fully owned name is unique.   *)
FullyOwned(name) == name.user # NoOne /\ name.chama # NoOne

-------------------------------------------------------------------------------
(* Legs, transfers and balance.  A posting names an account and carries a  *)
(* debit or a credit.  A transfer is a sequence of postings; on the books  *)
(* it is a set of rows, row i under the leg key (k, i), where the code     *)
(* writes sha256(k:i).                                                     *)
Debit(a, x)  == [account |-> a, debit |-> x, credit |-> 0]
Credit(a, x) == [account |-> a, debit |-> 0, credit |-> x]

(* A leg moved from an account's name to the row that stands for it.       *)
On(row, leg) == [account |-> row, debit |-> leg.debit, credit |-> leg.credit]

RowsOf(k, postings) ==
  { [key     |-> k,
     index   |-> i,
     account |-> postings[i].account,
     debit   |-> postings[i].debit,
     credit  |-> postings[i].credit] : i \in DOMAIN postings }

DebitTotal(rows)  == SumFunction([r \in rows |-> r.debit])
CreditTotal(rows) == SumFunction([r \in rows |-> r.credit])

(* validateBalanced, and verifyGlobalBalance over the whole table.         *)
Balanced(rows) == DebitTotal(rows) = CreditTotal(rows)

(* recordReversal: the same legs with debit and credit exchanged.          *)
Swapped(row) ==
  [account |-> row.account, debit |-> row.credit, credit |-> row.debit]

-------------------------------------------------------------------------------
(* The legs each wrapper builds, over account names.                       *)

ContributionPostings(r) ==
  << Debit(Clearing, r.amount),             Credit(MemberWallet(r.user), r.amount),
     Debit(MemberWallet(r.user), r.amount), Credit(PoolWallet(r.chama), r.amount) >>

DonationPostings(r) ==
  << Debit(Clearing, r.amount),
     Credit(Escrow(r.chama), r.amount - r.part), Credit(FeeRevenue, r.part) >>

PayoutPostings(r) ==
  << Debit(PoolWallet(r.chama), r.amount),  Credit(MemberWallet(r.user), r.amount),
     Debit(MemberWallet(r.user), r.amount), Credit(Clearing, r.amount) >>

DisbursementPostings(r) ==
  << Debit(PoolWallet(r.chama), r.amount),         Credit(MemberWallet(r.user), r.amount),
     Debit(Principal(r.user, r.chama), r.amount),  Credit(PoolWallet(r.chama), r.amount) >>

ClearReceivable(r, receivable, x) ==
  IF x = 0 THEN << >>
  ELSE << Debit(MemberWallet(r.user), x), Credit(receivable, x),
          Debit(receivable, x),           Credit(PoolWallet(r.chama), x) >>

RepaymentPostings(r) ==
  ClearReceivable(r, Principal(r.user, r.chama), r.amount)
    \o ClearReceivable(r, Interest(r.user, r.chama), r.part)

Postings(r) ==
  CASE r.op = "contribution" -> ContributionPostings(r)
    [] r.op = "donation"     -> DonationPostings(r)
    [] r.op = "payout"       -> PayoutPostings(r)
    [] r.op = "disbursement" -> DisbursementPostings(r)
    [] r.op = "repayment"    -> RepaymentPostings(r)
    [] r.op = "transfer"     -> r.postings
    [] r.op = "reversal"     -> << >>      \* read from the books instead

(* The accounts a wrapper looks up: both receivables of a repayment, even  *)
(* when one part is zero and its legs are omitted.                         *)
Names(r) ==
  { Postings(r)[i].account : i \in DOMAIN Postings(r) }
    \cup IF r.op = "repayment"
         THEN {Principal(r.user, r.chama), Interest(r.user, r.chama)}
         ELSE {}

-------------------------------------------------------------------------------
VARIABLES
  accounts,    \* rows of ledger_accounts: [name, by], by telling rows apart
  entries,     \* committed rows of ledger_entries
  req,         \* req[c]: what call c asks for
  pc,          \* pc[c]: the await call c is at
  found,       \* found[c]: account rows call c has in hand
  missing,     \* missing[c]: names its findUnique did not find
  plan,        \* plan[c]: its postings, over account rows
  inserted,    \* inserted[c]: legs written in its open transaction
  answer       \* answer[c]: the entries it returned

vars == <<accounts, entries, req, pc, found, missing, plan, inserted, answer>>

callVars == <<found, missing, plan, inserted, answer>>

Rows(k)  == { e \in entries : e.key = k }
Legs(c)  == RowsOf(req[c].key, plan[c])
FirstLegZero(k) == { e \in entries : e.key = k /\ e.index = 0 }

FirstLeg(k) == { e \in entries : e.key = k /\ e.index = 1 }

AccountRow == [name : AccountName, by : Call]

Leg == [account : AccountRow, debit : Int, credit : Int]

Entry ==
  { e \in [key : Key, index : Nat \ {0}, account : AccountRow,
            debit : Nat, credit : Nat] : e.debit = 0 \/ e.credit = 0 }

PC == {"start", "resolving", "checking", "posting", "conflict",
       "returned", "failed", "conflicted"}

TypeOK ==
  /\ accounts \subseteq AccountRow
  /\ entries \subseteq Entry
  /\ req \in [Call -> Request]
  /\ pc \in [Call -> PC]
  /\ found \in [Call -> SUBSET AccountRow]
  /\ missing \in [Call -> SUBSET AccountName]
  /\ plan \in [Call -> Seq(Leg)]
  /\ inserted \in [Call -> Nat]
  /\ answer \in [Call -> SUBSET Entry]

Init ==
  /\ accounts = {}
  /\ entries  = {}
  /\ req \in Workload
  /\ pc       = [c \in Call |-> "start"]
  /\ found    = [c \in Call |-> {}]
  /\ missing  = [c \in Call |-> {}]
  /\ plan     = [c \in Call |-> << >>]
  /\ inserted = [c \in Call |-> 0]
  /\ answer   = [c \in Call |-> {}]

-------------------------------------------------------------------------------
(* findOrCreateAccount, run for all the names of a wrapper at once.        *)

Goto(c, l) == pc' = [pc EXCEPT ![c] = l]

Begin(c) ==
  /\ pc[c] = "start"
  /\ req[c].op # "reversal"
  /\ Goto(c, "resolving")
  /\ UNCHANGED <<accounts, entries, req, callVars>>

InHand(c) == { row.name : row \in found[c] }

FindAccount(c, n) ==
  /\ pc[c] = "resolving"
  /\ n \in Names(req[c]) \ (InHand(c) \cup missing[c])
  /\ \/ \E row \in accounts :
          /\ row.name = n
          /\ found' = [found EXCEPT ![c] = @ \cup {row}]
          /\ UNCHANGED missing
     \/ /\ \A row \in accounts : row.name # n
        /\ missing' = [missing EXCEPT ![c] = @ \cup {n}]
        /\ UNCHANGED found
  /\ UNCHANGED <<accounts, entries, req, pc, plan, inserted, answer>>

(* A create that hits the unique index re-reads the row that beat it.      *)
CreateAccount(c, n) ==
  /\ pc[c] = "resolving"
  /\ n \in missing[c]
  /\ missing' = [missing EXCEPT ![c] = @ \ {n}]
  /\ LET rivals == { row \in accounts : row.name = n /\ FullyOwned(n) }
         new    == [name |-> n, by |-> c]
     IN \/ /\ rivals = {}
           /\ accounts' = accounts \cup {new}
           /\ found' = [found EXCEPT ![c] = @ \cup {new}]
        \/ \E row \in rivals :
             /\ found' = [found EXCEPT ![c] = @ \cup {row}]
             /\ UNCHANGED accounts
  /\ UNCHANGED <<entries, req, pc, plan, inserted, answer>>

RowOf(c, n) == CHOOSE row \in found[c] : row.name = n

Assembled(c) ==
  LET legs == Postings(req[c])
  IN [i \in DOMAIN legs |-> On(RowOf(c, legs[i].account), legs[i])]

Assemble(c) ==
  /\ pc[c] = "resolving"
  /\ InHand(c) = Names(req[c])
  /\ plan' = [plan EXCEPT ![c] = Assembled(c)]
  /\ Goto(c, "checking")
  /\ UNCHANGED <<accounts, entries, req, found, missing, inserted, answer>>

(* recordReversal takes its legs from the rows of the original transfer,   *)
(* ordered by a createdAt that the rows of one transaction share: in any   *)
(* order.                                                                  *)
ReadOriginal(c) ==
  /\ pc[c] = "start"
  /\ req[c].op = "reversal"
  /\ LET original == Rows(req[c].of)
     IN IF original = {}
        THEN /\ Goto(c, "failed")
             /\ UNCHANGED plan
        ELSE /\ \E order \in Bijection(1 .. Cardinality(original), original) :
                  plan' = [plan EXCEPT ![c] =
                    [i \in 1 .. Cardinality(original) |-> Swapped(order[i])]]
             /\ Goto(c, "checking")
  /\ UNCHANGED <<accounts, entries, req, found, missing, inserted, answer>>

-------------------------------------------------------------------------------
(* postTransfer.                                                           *)

(* Fewer than two legs, or totals that differ, throw.                      *)
ValidNoSum(c) == Len(plan[c]) >= 2                    \* defect: totals unchecked

Valid(c) == Len(plan[c]) >= 2 /\ Balanced(Legs(c))

(* A first leg on the books is a replay, answered with its transfer.       *)
PreCheck(c) ==
  /\ pc[c] = "checking"
  /\ IF ~Valid(c)
     THEN /\ Goto(c, "failed")
          /\ UNCHANGED answer
     ELSE IF FirstLeg(req[c].key) # {}
     THEN /\ answer' = [answer EXCEPT ![c] = Rows(req[c].key)]
          /\ Goto(c, "returned")
     ELSE /\ Goto(c, "posting")
          /\ UNCHANGED answer
  /\ UNCHANGED <<accounts, entries, req, found, missing, plan, inserted>>

(* The checks on each leg before it is written.                            *)
OneSidedNever(leg) == leg.debit >= 0 /\ leg.credit >= 0 \* defect: both sides pass

OneSided(leg) ==
  /\ leg.debit >= 0 /\ leg.credit >= 0
  /\ ~ (leg.debit > 0 /\ leg.credit > 0)

Taken(k, i) == \E e \in entries : e.key = k /\ e.index = i

InsertLegNoTx(c) ==                            \* defect: no $transaction
  LET i == inserted[c] + 1
  IN /\ pc[c] = "posting"
     /\ inserted[c] < Len(plan[c])
     /\ ~ Taken(req[c].key, i)
     /\ inserted' = [inserted EXCEPT ![c] = i]
     /\ entries' = entries \cup { e \in Legs(c) : e.index = i }
     /\ UNCHANGED <<accounts, req, pc, found, missing, plan, answer>>

(* An uncommitted row with this leg key makes the insert wait; a committed *)
(* one makes it fail with P2002.  Either error rolls the transaction back. *)
InsertLeg(c) ==
  LET i == inserted[c] + 1
      k == req[c].key
  IN /\ pc[c] = "posting"
     /\ inserted[c] < Len(plan[c])
     /\ IF ~OneSided(plan[c][i])
        THEN /\ inserted' = [inserted EXCEPT ![c] = 0]
             /\ Goto(c, "failed")
        ELSE /\ \A d \in Call \ {c} : ~ (req[d].key = k /\ inserted[d] >= i)
             /\ IF Taken(k, i)
                THEN /\ inserted' = [inserted EXCEPT ![c] = 0]
                     /\ Goto(c, "conflict")
                ELSE /\ inserted' = [inserted EXCEPT ![c] = i]
                     /\ UNCHANGED pc
     /\ UNCHANGED <<accounts, entries, req, found, missing, plan, answer>>

CommitHoldsLocks(c) ==                         \* defect: the legs stay locked
  /\ pc[c] = "posting"
  /\ inserted[c] = Len(plan[c])
  /\ entries' = entries \cup Legs(c)
  /\ answer' = [answer EXCEPT ![c] = Legs(c)]
  /\ Goto(c, "returned")
  /\ UNCHANGED <<accounts, req, found, missing, plan, inserted>>

(* The commit may succeed while its acknowledgement is lost.               *)
Commit(c) ==
  /\ pc[c] = "posting"
  /\ inserted[c] = Len(plan[c])
  /\ entries' = entries \cup Legs(c)
  /\ inserted' = [inserted EXCEPT ![c] = 0]
  /\ \/ /\ answer' = [answer EXCEPT ![c] = Legs(c)]
        /\ Goto(c, "returned")
     \/ /\ Goto(c, "failed")
        /\ UNCHANGED answer
  /\ UNCHANGED <<accounts, req, found, missing, plan>>

ReadSiblingOwn(c) ==                           \* defect: answers its own legs
  /\ pc[c] = "conflict"
  /\ answer' = [answer EXCEPT ![c] = Legs(c)]
  /\ Goto(c, "returned")
  /\ UNCHANGED <<accounts, entries, req, found, missing, plan, inserted>>

(* After P2002: answer with the sibling's transfer, or give up with        *)
(* LedgerIdempotencyConflictError when there is none.                      *)
ReadSibling(c) ==
  /\ pc[c] = "conflict"
  /\ IF FirstLeg(req[c].key) # {}
     THEN /\ answer' = [answer EXCEPT ![c] = Rows(req[c].key)]
          /\ Goto(c, "returned")
     ELSE /\ Goto(c, "conflicted")
          /\ UNCHANGED answer
  /\ UNCHANGED <<accounts, entries, req, found, missing, plan, inserted>>

(* An await rejects or the process dies: an open transaction rolls back.   *)
Fail(c) ==
  /\ pc[c] \notin {"returned", "failed", "conflicted"}
  /\ inserted' = [inserted EXCEPT ![c] = 0]
  /\ Goto(c, "failed")
  /\ UNCHANGED <<accounts, entries, req, found, missing, plan, answer>>

Step(c) ==
  \/ Begin(c)
  \/ \E n \in Names(req[c]) : FindAccount(c, n) \/ CreateAccount(c, n)
  \/ Assemble(c)
  \/ ReadOriginal(c)
  \/ PreCheck(c)
  \/ InsertLeg(c)
  \/ Commit(c)
  \/ ReadSibling(c)

Next == \E c \in Call : Step(c) \/ Fail(c)

Spec == Init /\ [][Next]_vars

(* The runtime and the database do not stop while some call can go on.     *)
FairSpec == Spec /\ WF_vars(\E c \in Call : Step(c))

-------------------------------------------------------------------------------
(* Properties.                                                             *)

(* The rows under a key are all the legs of one call and of no other,      *)
(* whatever raced it, failed half way or replayed the key: postTransfer's  *)
(* "post a balanced multi-leg transfer atomically".                        *)
TransfersWhole ==
  \A k \in Key : Rows(k) # {} =>
    \E c \in Call : req[c].key = k /\ Rows(k) = Legs(c) /\ Valid(c)

(* What the nightly ledger-invariant job verifies: debits equal credits    *)
(* over the whole table at every instant, open transactions included.      *)
BooksBalance == Balanced(entries)

(* LedgerIdempotencyConflictError is dead code: a call whose insert was    *)
(* refused always finds the transfer that refused it.                      *)
NoConflictError == \A c \in Call : pc[c] # "conflicted"

(* Two calls that create the same borrower's receivable at once share one  *)
(* account row, so what the member owes is never split in two.             *)
ReceivableUnique ==
  \A u \in User, ch \in Chama, a, b \in accounts :
    a.name = b.name /\ a.name \in {Principal(u, ch), Interest(u, ch)} => a = b

(* A call never waits for ever: those that hold leg keys always finish or  *)
(* roll back, so everyone queued behind them gets an answer.               *)
CallsEnd ==
  <>(\A c \in Call : pc[c] \in {"returned", "failed"})

(* To its callers the ledger is the atomic, idempotent book of LedgerSpec. *)
Book == INSTANCE LedgerSpec WITH
          asked  <- [c \in Call |-> IF plan[c] = << >> THEN {}
                                    ELSE {[key |-> req[c].key, rows |-> Legs(c)]}],
          posted <- [k \in Key |-> Rows(k)]

ImplementsLedgerSpec == Book!Spec

(* recordLoanRepayment says the repayment clears the principal receivable: *)
(* what stays on it is the principal lent and not yet repaid.              *)
Net(name) ==
  LET rows == { e \in entries : e.account.name = name }
  IN DebitTotal(rows) - CreditTotal(rows)

Principals(op, u, ch) ==
  MapThenSumSet(LAMBDA c : req[c].amount,
                { c \in Call : /\ req[c].op = op
                               /\ req[c].user = u /\ req[c].chama = ch
                               /\ Rows(req[c].key) = Legs(c) })

RepaymentClearsPrincipal ==
  \A u \in User, ch \in Chama :
    Net(Principal(u, ch)) =
      Principals("disbursement", u, ch) - Principals("repayment", u, ch)
===============================================================================
