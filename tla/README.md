# Pamoja Wealth backend: a TLA+ verification project

The repository is the Express/Prisma/BullMQ backend of a savings-group
("chama") application for Kenya: groups collect contributions over M-Pesa, keep
a double-entry ledger in Postgres, lend, vote, sell shares and pay out.  This
directory models its money paths and most of what lies around them,
model-checks them with TLC on small instances, and proves with TLAPS, for every
instance, the safety properties that the runs check.

## 1. The system

### Processes and shared state

* HTTP handlers (Express), any number at once; every `await` is a point where
  another handler runs, and the process may die at any of them.
* BullMQ workers (`src/jobs/workers`), fed by handlers and by a cron scheduler
  (`src/jobs/scheduler.ts`) through Redis queues.  A job whose worker stalls is
  given to another worker.
* Postgres through Prisma.  Almost every operation reads a row, decides, and
  writes by id: the write is not conditional on what was read, and few
  operations use `$transaction`.  Unique indexes are the only guard against
  races that the code can count on.
* Redis as a document store for some features (share offerings, bidding rounds,
  freeze flags, idempotency cache), read and rewritten without `WATCH`.
* Safaricom Daraja: STK push (a prompt on the phone, answered by a callback),
  C2B (a paybill payment confirmed to a webhook), B2C (a payment out, answered
  by a result or a timeout callback).  Callbacks are late, repeated or lost.

### Components

| Component | State | Operations | What is hard | What makes it correct | Module |
|---|---|---|---|---|---|
| Ledger (`ledger.service.ts`) | `LedgerAccount`, `LedgerEntry` | `record*`, `recordReversal`, `postTransfer`, `verifyGlobalBalance` | calls with one key, accounts created concurrently, failure between legs | transfers whole, books balanced, one transfer per key | `Ledger` |
| STK payments (`contribute`, `stk-callback`, poller) | `Transaction`, `Donation` | `contribute`, `donate`, `processStkCallback`, `stk-status-poll` | early, repeated, lost callbacks; poller against callback; death after the post | completed only if on the ledger, posted once, nothing pending for ever | `StkPayments`, `Paybill` |
| C2B payments (`mpesa-c2b`) | `MpesaCallback`, `Donation`, BullMQ job | confirmation webhook, `processConfirmation` | three layers of deduplication; stalls and retries; payer changing sides | processed only if on the ledger, posted once, every job ends | `C2BPayments` |
| Payouts (`payouts.routes`, `dividend-payout`, `b2c-callback`) | `PayoutRequest`, `PayoutSignature` | create, sign, cancel, pay, result, timeout | writes on stale reads, jobs run twice, callbacks in any order | no payment without the signatures; disbursed means settled | `Payouts` |
| Wallets (`wallet.service`) | `Wallet`, `Transaction`, linked accounts | deposit, withdraw, legacy callback, accounts | absolute balances from stale reads, repeated callbacks | nothing credited that no callback brought | `Wallets` |
| Loans (`loans.service`, overdue worker) | `Loan`, guarantors, schedule, `Transaction` | apply, approve, reject, repay, overdue | decisions on stale status | repayments are recorded; disbursed by overlapping approvals at most | `Loans` |
| Votes (`votes.service`, expiry worker) | `Vote`, `VoteOption`, `VoteBallot` | create, cast, close, expire | casting against closing | ballots are counted once; a late vote ends and stays ended | `Votes` |
| Groups (`chamas.service`) | `Membership`, `Invitation`, `JoinRequest`, the group's row | found, join by four doors, decide, roles, remove; settings, archive, donate | check-then-insert, roles read before the write | capacity up to the joins that overlap, ownership handed on by owners | `Groups`, `GroupPage` |
| Shares and bidding (`share-offering`, `bidding-payout`, `shareable-link`) | Redis documents, `PayoutRequest` | offer, invest, confirm, close, dividend, link; open, bid, close | lost updates on whole documents | shares sold have a holder, the best bid wins, a tie goes to the senior member (**it does not**) | `Shares`, `Bidding` |
| Billing (`billing.service`) | `Subscription`, `Invoice`, coupons | trial, checkout, change, cancel, invoice, pay, dun, expire | jobs against requests, deaths between rows | paid invoices are on the ledger, dunning ends | `Billing` |
| Fees, referrals, reports (`revenue-config`, `fees`, `referral`, revenue routes) | referral codes and sign-ups, `AuditReport` | quote, track, cash out, buy, generate | rounding, floors and caps | no fee cliff | `Revenue` |
| Group freeze (`circuit-breaker`) | Redis flag | freeze, unfreeze, sweep | flag read by nobody | a frozen group pays nothing (**it does**) | `Freeze` |
| Idempotency middleware | Redis cache | one answer per key | overlap of equal requests | (contained, not asserted) | `Idempotency` |
| Rule engine (`rule-engine`, `rule-enforcer`) | `ChamaRule` chain | publish, evaluate | overlapping publications | one unbroken chain, its last link in force | `Rules` |
| Authentication (`auth`, `otp`, `jwt`) | Redis counters, codes and tokens | register, login, code, reset, refresh | counters read before and written after | a burst passes the limits only by what overlaps | `Auth` |
| KYC and AML (`kyc`, `aml`) | documents, flags, tier; lists, rules, reports | upload, verify, limits, export, erase; refresh, screen, monitor | flags from stale reads | a tier is proven | `Kyc`, `Watch` |
| Meetings, goals, investments, documents | `Meeting`, attendance, `Document`, `SavingsGoal`, `Investment` | create, answer, upload, delete, contribute | counters beside rows, objects beside rows | types | `Meetings` |
| Bulk import (`bulk-import`) | `Transaction`, `Membership`, `Invitation` | import contributions, members | repeated references | credits add up | `Imports` |
| Messaging (`websocket`, `chat`, `dm`, `notifications`, `push`) | rooms, `ChatMessage`, `DirectMessage`, `Notification`, devices | connect, join, send, read, remind | membership checked once | types | `Messaging` |
| WhatsApp bot (`whatsapp`) | `WhatsAppSession` | message, amount, choice, yes | messages repeated and at once | prompts were offered | `Bot` |
| Preferences (`settings`, `network`, `integrations`, `users`) | Redis documents, phone | change, connect, disconnect | read, merge, write back | types (keys within what was asked) | `Preferences` |
| Credit passport (`trust-score`, `verifiable-credential`) | cached score, credentials | score, issue, verify | cache never invalidated | types | `Passport` |
| Own jobs (`jobs/workers/index`) | `AnalyticsCache`, `Notification` | compute figures, remind of dues and meetings, prune | reads of different moments, runs begun again | types (no health row without its contributions) | `Sweeps` |
| Gates (`webhook-guard`, `plan-gate`, `feature-gate`, `daraja-breaker`) | breaker state | admit, refuse, open, probe | states of the breaker | types | `Gates` |

The components of the last rows keep single rows that nothing else depends on;
their modules say what their requests do to them, and are checked for their
types alone.  Provider adapters, the job wiring, and read-only analytics and
exports are listed in `PROJECT.json` with the reason they are left out.
`PROJECT.json` also lists, under `hazards`, the places where this code can go
wrong and a test would hardly reach, and the property that watches each.

### How the modelled parts interact

    contribute/donate --push--> Daraja --callback--> processStkCallback --+
            stk-status-poll --query--> Daraja        (same function)      |
    Safaricom C2B --> webhook --job--> processConfirmation ---------------+--> Ledger
    executeDividend / cash-out --> sign --job--> worker --B2C--> Daraja --> result/timeout

`StkPayments` and `C2BPayments` use the ledger through its abstract promise
(`LedgerSpec`: at most one transfer per key, answered again when the key comes
again), which `Ledger` is shown to implement.  Payouts do not post to the
ledger: nothing in the code calls `recordPayout`.

`Freeze` is composed with `Payouts` (it EXTENDS it), since what is asked of the
freeze is about payouts.  The remaining components meet only through what the
requests of one read of another, which their modules take as an input:
whether a user is a member, the verdict of the rules, the price of a plan.
They share no row that both write, so they are checked side by side rather
than multiplied (see the bounds).

## 2. Modules

* `LedgerSpec`: the abstract ledger.
* `PaymentSpec`: what a mobile-money payment comes to, whichever way it was
  made: booked once and for good, shown as arrived or on the donor wall only
  when booked.  `PayoutSpec`: what a payout promises its group: no payment
  without the signatures, each for one payout and decided once, and rows that
  name a payment of their own and say "arrived" only of a settled one.
* `Ledger`: `ledger.service.ts`, one action per await of a call:
  `Begin`, `FindAccount`, `CreateAccount` (the `Promise.all` of look-ups, in any
  order), `Assemble` or `ReadOriginal` (reversal), `PreCheck`, `InsertLeg`,
  `Commit`, `ReadSibling` (after P2002), `Fail`.  The database is READ
  COMMITTED: an insert waits for an open transaction that holds its key, then
  fails on a unique violation.  Legs in an open transaction live in
  `inserted[c]`, not in `entries`.  A unique index over nullable columns
  constrains only rows without nulls, so system, pool and member accounts may
  be created twice, as in Postgres.  Legs, rows and balance are defined first.
* `StkPayments`: `api[t]` is the await of the request that opened payment `t`,
  `job[w]` that of a delivery or of the poller inside `processStkCallback`;
  `todo` and `expired` are the poller's round.  `prompt`, `copies`, `age` and
  `member` are the phone, Safaricom, the clock and the group.
* `Payouts`: `web[r]` a signing or cancelling request, `run[x]` a run of the
  worker, `call[h]` a callback delivery; `payment` is what Daraja did.
* `C2BPayments`: `hook[d]` a delivery at the webhook, `run[w]` a run of the
  worker, `job/tries/stalls` BullMQ's record of the job.  A stalled run may go
  on without its job (`held` is false).
* `Wallets`, `Loans`, `Votes`, `Groups`, `Shares`, `Bidding`, `Rules`, `Kyc`,
  `Auth`, `Idempotency`, `Meetings`, `Bot`, `Preferences`: requests
  are calls (`loanCall[c]`, `groupCall[c]`, ...), one record per request with
  the place it is at and what it has read; each `await` of a handler that
  touches state is one action, so what a call carries may be stale when it
  writes.  What the database does in one transaction is one step.  A death
  leaves what was written.
* `Billing`: a call, or the worker's job, is a small machine: `do` is what it
  decided and `at` where it is.  The three jobs run one at a time on one worker;
  the invoicing job lists what is due and reads each subscription again
  (`StartGenerate`, `ReadToGenerate`).  Prices are in cents, and an invoice that
  rounds to less than a shilling is paid without a push: for the difference of a
  plan change, which shrinks with the days left, both cases are open
  (`RoundsToZero`), and the change goes on after the payment (`changePaid`).
* `Wallets`: `processDeposit` in its three awaits, `CheckDeposit` (the status),
  `ReadWallet` (the balance), `CreditWallet` (both rows, unconditionally).  A
  callback that comes between the first two credits the deposit a second time, on
  top of the first.
* `Shares`: a holding is stored (`AddHolding`) before it is indexed
  (`IndexHolding`); the cap table and the dividends see the indexed ones.
* `Bidding`: `Best` is the code's sort, the highest bid and among equal ones the
  first that was made.  `Senior`, who joined first, is read by no action, only by
  the property about the comments' rule.
* `Rules`: a place or an employer that a member names is the set of the names its
  text includes, which is what `includes` compares.
* `Meetings` holds two machines that share nothing: a meeting with its guests,
  and what is filed with a group (documents, goals, investments: `FileSpec`).
* `Imports`, `GroupPage`, `Revenue`, `Gates`, `Watch`, `Messaging`,
  `Passport`: mostly one step per operation, where the code has one write.
* `Paybill`: what a push does before its payment is opened: the counter of the
  phone, which stays for ever when a request stops between `INCR` and `EXPIRE`,
  and the account number of the group.  A number is never shared by two groups
  (the column is unique), but what was quoted to Safaricom may be overwritten:
  the update that stores a made-up number does not look again.
* `Sweeps`: the workers that belong to no service; a worker that dies begins
  again from the top, and reminds whom it reminded before.
* `Freeze`: the freeze beside the actions of `Payouts`.
* `LedgerProofs`: the theorems about `Ledger` and `C2BPayments`.  `StkProofs`,
  `PayoutProofs`: those about `StkPayments` and `Payouts`.  `MoneyProofs`: the
  rows that keep amounts outside the ledger (`Loans`, `Wallets`, `Imports`,
  `Revenue`, `Paybill`).  `GroupProofs`: what members do with one another
  (`Groups`, `Shares`, `Bidding`, `Rules`, `Votes`, `Meetings`, `Sweeps`,
  `GroupPage`).  `AccountProofs`: what is kept of one customer (`Kyc`, `Auth`,
  `Bot`, `Billing`, `Gates`, `Idempotency`, `Watch`, `Messaging`,
  `Preferences`, `Passport`).  `CommunityProofs`: the two compositions.  `Sums`:
  the lemmas about sums over finite sets that most of them need.
* `MC*`: instances for TLC (`Bidding.cfg` and `Freeze.cfg` need none: they run
  `Bidding` and `Freeze` themselves).

Operators marked `defect` are plausible bugs of the definition after them;
substituted for it, each makes TLC violate the property `PROJECT.json` names
under `mutants`.  No specification uses them.

## 3. What the runs check

| Run | Shows |
|---|---|
| `ledger` | types; transfers whole (`TransfersWhole`); the books balance at every instant (`BooksBalance`); `LedgerIdempotencyConflictError` is never thrown; calls end; the ledger implements `LedgerSpec` |
| `ledger_repayment` | **violated**: a repayment does not lower the principal receivable |
| `stk` | completed payments are on the ledger, posted once; donor-wall rows are backed and nothing booked is taken back (the run implements `PaymentSpec`); a payment fails only for a reason; a payment with a stored checkout id settles |
| `stk_money_moved` | **violated**: the poller fails a payment that is on the ledger |
| `payouts` | no money without the required signatures; disbursed means settled; a payout on its way is traced by a payment of its own, and a payment never changes its payout or its fate (the run implements `PayoutSpec`) |
| `payouts_once` | **violated**: a payout can be paid twice |
| `payouts_late` | **violated**: a success after the timeout does not flip the payout back |
| `c2b` | a processed confirmation is on the ledger, posted once per receipt; what was shown stays shown and is backed (the run implements `PaymentSpec`, whose `Final` is true here and not of `stk`); every queued job ends |
| `community` | eighteen components: types; repayments never shown beyond their records; a loan disbursed at most as often as approvals overlap, and never before its decision; no wallet credit beyond what callbacks brought; capacity exceeded only by joins that overlap; ownership only handed on; shares sold have a holder; a settled round has the highest of its bids, one per member; the rules are one chain; a tier is proven; limits passed only by requests under way; no fee cliff; imports add up; prompts were offered |
| `platform` | votes, billing, page, messaging, preferences, passport: types; ballots are counted, and a passed vote has one; late votes end and stay ended; paid invoices are on the ledger and none is written off early; an overdue open invoice leaves that state |
| `freeze` | **violated**: a payout of a frozen group is signed |
| `bid_ties` | **violated**: of two equal bids the earlier wins, against a member who joined first |

The violated runs each check one sentence the repository says about itself;
`PROJECT.json` quotes it under `findings`.

### Bounds, and why they are enough

* Ledger: three calls, three keys, one user, one group, in six workloads chosen
  so that every pair of operations that can meet does: one key used for two
  operations, a reversal racing its original, both sides of a loan, a payout
  retried, unbalanced and two-sided legs, two postings and their reversal.
  Calls interact only through a shared key or a shared account, which two calls
  reach; the third observes.  Amounts of 0 to 2 tell the legs apart.
* STK: one payment from its start and one already waiting for the poller (a
  reachable state, named in `MCStkPayments`), two copies of each callback, two
  deliveries at once, one death of the poller, `Batch = 1` for the code's 50, so
  that a round cannot take everything.
* Payouts: one payout of two signatures, one of one; two officers, two requests,
  two worker runs, two B2C payments, two callback deliveries, one job run again.
  The violated runs use one payout and three requests.
* C2B: two bodies of one receipt, two deliveries, two workers, two attempts for
  the code's 8, one stall (BullMQ's default).  Two attempts reach every
  combination of a first try that got anywhere and a last one.

* `community` and `platform`: `focus` is chosen in the initial state; the
  component it names runs and the others rest, so the state space is the sum of
  theirs and not the product.  Nothing is lost by it, because no two of them
  write the same row and no property speaks of two.  Within a component two
  requests overlap (one in billing and on the page, beside the jobs): each
  hazard listed is a race of two, and the third request of a loan or a group
  starts when one of them ends.  Loans: one loan, three repayments of 1 or 2
  against 3, so that it is repaid short, exactly and beyond.  Wallets: two
  checkouts, one paid and one not, two callbacks each, so that a deposit can be
  credited twice.  Groups: four users and
  two places, so that two can join one place, three requests begun, two of them at
  once.  Shares: two holdings that together exceed the offering, one of a guest,
  two shares counted as sold before the last confirmation.  Bidding: two bidders,
  one of whom may leave, up to three bids of 1, 2 or 9 against a pot of 3, so that
  two amounts are allowed, one is not, and a bid may be equalled, outbid and replaced.  Rules: two
  publishers, three versions.  Kyc: one user with two documents and any proofs
  to start from.  Auth: limits of 2 and 1 for the code's 10 and 5.  Billing: one
  invoice, two dunning attempts for the code's 3, a 100% coupon (an invoice of
  nothing), and two events in all that are each a request or a death of the
  worker, so that either meets the jobs alone and one meets the other.  Votes: two votes, one
  voter, two requests.  Revenue: the amounts around each floor, cap and
  threshold of the schedule.  Paybill: two groups whose ids hash to one code, one
  suffix, two requests, a limit of 1 for the code's 10.  Sweeps: one member, two
  months, so that a job can begin in one and write in the other.

Ages, attempts, stalls, reruns, copies and deaths are capped in the guards by
the constants of those names.  Deadlock is not checked: requests end.

### Fairness

* Ledger: the runtime and the database go on while some call can (one weak
  fairness for all calls); nothing makes a particular call succeed.
* STK: the poller's round is started by cron every minute and its steps go on;
  time passes.  Nothing is assumed of requests, payers or Safaricom.
* C2B: workers take waiting jobs and go on with what they do.
* Payouts: none; only safety is checked.
* Votes: the close-expired job runs (it is scheduled every few minutes).
  Nothing is assumed of ballots or of the close endpoint.
* Billing: a job that runs goes on (weak fairness of the worker's steps), and an
  invoice that is due again and again is not passed over by the daily job for
  ever (strong fairness, because requests and the other jobs come in between
  and disable it for a while).  Payments, requests and deaths are not counted on.
* The other components: none; only safety is checked of them.

### What the violated runs found

* `ledger_repayment`, `stk_money_moved`, `payouts_once`, `payouts_late`: see the
  table.
* `freeze`: `assertNotFrozen` promises 423 LOCKED for everything that moves
  money; it has no caller.
* `bid_ties`: `closeBidRound` says that the member who joined first wins a tie and
  never reads when a member joined.

## 4. What is proved

Each theorem holds for every value of the constants under the named assumptions
of the modules, which TLC evaluates in the runs.  Most give the constants their
types.  The ones that say more:

* `NoOne` is neither a user nor a group; `Worker` is no request of billing and
  `NoInvoice` no invoice: names that the code has no use for.
* Requests are finitely many at a time (`GroupCall`, `AuthCall`, `LoanCall`,
  `WalletCall`), and so are the users of a group (`User`), its bidders (`Bidder`),
  votes with their options and voters, the checkouts that were paid (`PaidOk`),
  the holdings of shares (`Holding`), the guests of a meeting (`Guest`) and the
  officers of a payout (`Officer`).  Counts and sums need it.
* The rows of an import are typed (`ImportFile`), and amounts are positive, as the
  zod schemas of the routes have it (`Gross`, `LoanAmount`, ...).  They are whole:
  fractions of a shilling, which some schemas admit, are not covered.

Every invariant, type, action property and refinement that a passing run checks
is the statement of a theorem.  Only liveness is left to TLC.

### Money on the ledger

* `LedgerProofs`: `TypeCorrect`, `WholeTransfers`, `ConflictErrorIsDead`,
  `ReceivablesShared`, `BooksAlwaysBalance`, and `Refinement`
  (`Spec => ImplementsLedgerSpec`).  The inductive invariant `IInv` is needed
  because `TransfersWhole` speaks only of committed rows: it adds that legs are
  inserted only by a call that is posting, that its plan is valid, and that two
  open transactions of one key never both hold the same leg, which is what makes
  a commit add a whole transfer or none.  The balance follows from it: a commit
  adds rows that are disjoint from those there, and their debits equal their
  credits because the plan was valid.  `ReceivablesShared` (a borrower's
  receivable is one row, however many calls create it) is proved and not run.
* `StkProofs`: `StkTypeCorrect`, `CompletedIsOnBooks`, `DonorWallBacked`,
  `PaymentPostedOnce`, `StkPromise`.  The strengthening (`SInv`) says that a worker past its
  ledger post has the payment's transfer on the books; transfers are never
  removed.  `FailedWithAReason` has a second one (`FInv`): the reason is there
  before the row says "failed".  Only an answered prompt is called back about, a
  worker that brings a failure brings the payer's refusal, and the poller's round
  holds only rows with a checkout id, those it expires aged.
* `C2BPayments`, in `LedgerProofs`: `C2BTypeCorrect`, `ProcessedIsOnBooks`,
  `ReceiptPostedOnce`, `C2BDonorsBacked`, `C2BPromise`.  The strengthening (`CInv`) is that of `StkProofs` for a
  job's run, with two facts about the queue: one worker at most holds a job,
  and what can still run has attempts left (`HeldOnce`), without which the
  attempts would not stay within their limit; and what is queued or running has
  its row (`QueuedRows`).
* `PayoutProofs`: `PayoutTypeCorrect`, `SignedBeforePaid`, `DisbursedIsSettled`,
  `DisbursementIsTraceable`, `PayoutPromise`.  The first strengthening (`PInv`) says that whatever
  can still lead to a payment (a request past the count, the status pending, a
  run of the worker that read it) belongs to a payout that has its signatures,
  and signatures are never taken back.  A queued job need not be signed for: the
  worker reads the status first.  The second (`TInv`) follows a payment: what a
  row, a run, a notice or a callback says of it stays true until it is written
  down, because a payment never changes its payout and is settled for good.
* `StkPromise` and `C2BPromise` (`Spec => ImplementsPaymentSpec`).  A payment is
  booked by the transfers of the books that name it, arrived when its row says
  completed (processed), walled when its row is among the donors.  A post maps to
  `Book`, and only if no row names the payment yet (`KeyedByPayment`: a key is
  the payment's own); a write of the row maps to `Show` or `PutOnWall`, whose
  guard is what `SInv` (`CInv`) says of a worker past its post; a failure written
  over a completed row is the `Withdraw` that only pushes have; every other step
  changes nothing the promise speaks of.
* `PayoutPromise` (`Spec => ImplementsPayoutSpec`): the guard of `Pay` is `PInv`,
  those of `ShowOnItsWay` and `ShowArrived` are `TInv`.
* `DonorWallBacked`, `C2BDonorsBacked` and `DisbursementIsTraceable` say of a
  state what these refinements say of every step.  They are theorems and no
  longer checked by a run of their own.

### Amounts outside the ledger (`MoneyProofs`)

* `DisbursementsStayBounded`: the disbursements of a loan and the approvals under
  way are together no more than the requests (`BoundedLoan`): a disbursement takes
  one from the second count to the first, and once the loan is decided no request
  joins the approvals.  Two of them may both disburse.
* `NothingIsDecidedByRoute`: `requirePermission` takes the path's `:id` for the
  group's, and on the loan routes it is the loan's, so it refuses every officer
  and no loan is ever decided, unless a group has the id of a loan.  (The routes
  that close a vote and change a meeting or an investment share the fault.)
* `LoanTypeCorrect`, from `LoanShape`: a request that carries a loan carries one
  that is there.
* `RepaymentsAreBacked`.  A repayment writes the amount it read plus its own, so
  what it *read* must still be backed when it writes (`BackInv`).  It is, since
  nothing that backs a loan (a transaction, or what a request has written and not
  recorded, be it dead) is ever taken away.
* `CreditsAreBacked`.  The wallet is written with an absolute balance.  Every
  balance that a callback holds, and the wallet's own, is within what has landed:
  what callbacks brought less what callbacks still carry (`CreditInv`).  Hence a
  stale write loses an amount, two callbacks of one deposit may both be credited,
  and nothing is invented.
* `ImportsAreAccounted`, row by row: after each row of the file the totals are the
  sums of the rows created so far (`Tallied`), or a reference was taken and the
  transaction commits nothing.
* `QuotesHaveNoCliff`: a quote is what the computation gives (`RevInv`), and for
  each entry of the schedule the computation is checked at its floor, at its cap
  and between.
* `PaybillTypeCorrect` holds what the unique column is for: no number finds two
  groups, in whatever order numbers are made up, claimed and stored.
* `WalletTypeCorrect`, `ImportTypeCorrect`, `RevTypeCorrect`.

### Members of a group (`GroupProofs`)

* `OwnershipIsHandedOn`: an appointment to owner under way was begun by an owner
  (`OwnersAppoint`, in `GInv`).
* `CapacityIsKept`: members who came by themselves *and* requests that are past
  the check never exceed the places by more than the other requests
  (`PlacesCounted`); an entry moves one from the second count to the first.
* `SalesHaveHolders`: a copy of an offering that counts shares as sold has a
  confirmed holding behind it by the time it is written back (`DocBacked`,
  `ShareCallOK`), whoever wrote in between, because a confirmed holding stays one;
  two requests never add the same holding (`OneAdder`).
* `BestBidWins`: every copy of a round, stored or carried, is in order by itself
  (`DocOK`), so it does not matter which of them is written last.
* `BylawsFormOneChain`: the version in force is the last one, and a publication
  commits only on the version that it read.
* `BallotsAreCounted`: counts never fall and ballots stay, so the support that a
  closing has read is still there when it writes `passed` (`HasSupport`, in
  `VoteInv`); that a user votes once is the primary key inside the transaction,
  whatever the check before it has read.
* `VoteTypeCorrect`: the ballots of an option are at most the pairs of a voter and
  a vote.  `BidTypeCorrect`: a dividend is a whole part of a bid, and that is
  below the pot.
* `ShareTypeCorrect`: what a request carries between its reads and its writes
  still fits the offering and its shares (`SharesInRange`, `PayoutsOK`); the cents of a dividend are a sum over
  the confirmed holdings, whole because each weight is.
* `PageTypeCorrect`: the amount raised is the sum of the gifts of `donate()`, a
  gift at a time; link donations and the rows that payments mirror are not in it.  `SweepTypeCorrect`: a health row stands beside its contributions row,
  since no run writes the second before the first.  `MeetTypeCorrect`: a count of
  guests that a request carries is at most their number, however stale.
* `GroupTypeCorrect`, `RuleTypeCorrect`, `FileTypeCorrect`.

### Customers (`AccountProofs`)

* `TiersAreProven`: flags are only raised, so a tier that the flags of a moment
  gave is deserved when it is written (`TiersDeserved`).
* `BurstsAreBounded`: what is counted and what is past the check stay within the
  limit and one per other request (`AuthInv`); `CounterStep` is the argument once
  for both counters.
* `PromptsAreOffered`: a row that awaits a confirmation, in the table or in the
  hands of a handler, names what was offered (`RowOffered`, in `BotInv`).
* `InvoicesStayAccounted`.  Dunning counts its attempts in one step and writes
  off in another, so an invoice must not be worked on by two calls: payments
  apart, one call at most works on an invoice (`OneOwner`), and once it is overdue
  that call is the worker's job (`OverdueIsTheWorkers`).  `BillCallOK` says what a
  call at each place still knows of its invoice.
* `FirstAnswerStays`: of two requests that ran a handler under one key the second
  to store changes nothing.  That both ran it is the middleware's own gap
  (`PROJECT.json`, hazards).
* `PrefTypeCorrect`: no two subscribers share a phone, since the check and the
  write meet in a unique column.  `PassTypeCorrect`: the points of a standing are
  whole numbers, hence a score that is cached or signed lies within its bounds and
  in the band it carries, of whatever age it is.
* `KycTypeCorrect`, `AuthTypeCorrect`, `BotTypeCorrect`, `BillTypeCorrect`,
  `GateTypeCorrect`, `IdemTypeCorrect`, `WatchTypeCorrect`, `MsgTypeCorrect`.

### The components together (`CommunityProofs`)

`CommunityIsItsParts` and `PlatformIsItsParts`: every behaviour of a composition
is one of each of its components, because a step of the whole is a step of the
component in focus and leaves the variables of the others alone (and the
platform's fairness is that of votes and billing).  From it and the theorems
above follow `CommunityTypeCorrect`, `CommunityIsSafe`, `PlatformTypeCorrect` and
`PlatformIsSafe`: all that the runs `community` and `platform` check, liveness
apart, for every value of the constants.  No component's proof looks at another's
variables, so none had to be done again.

### Sums

`SumFunctionOnSet` of the community modules is a recursive function inside a
fold.  That its recursion is well defined, that a sum does not depend on the
element it takes first, and what it becomes when a set is joined, a weight is
raised or two functions are added, are inductions over the size of a set.  The
provers cannot instantiate the library's induction theorems; `Sums` argues by a
least counterexample instead (`LeastNumber`, from the well-foundedness of the
naturals), and `MoneyProofs` does the same for the rows of a file.

### Only model-checked

* Liveness, which is out of the prover's reach: `CallsEnd`, `StoredSettles`,
  `QueuedSettles`, `LateVotesClose`, `OverdueIsSettled`.
* The violated runs: each is a behaviour that TLC found.

## 5. Not modelled

* The HTTP layer.  It matters: `app.ts` mounts `express.json()` before the
  routes, so on the STK and B2C callback routes `raw()` finds a parsed body,
  `req.body.toString()` is `[object Object]`, and the handlers are given `{}`.
  The models start at `processStkCallback` and `handleB2CResult`.  (The C2B
  route reads its body in another way.)
* The same payment reported by an STK callback and by a C2B confirmation: the
  two post it under different keys.  Whether Safaricom sends both depends on
  the paybill's registration, which the repository does not say.
* Amounts, currencies and rounding where no property depends on them; the 2.5%
  of a donation that goes to the platform is the `part` of a request.
* The database's own failures other than an error or a lost acknowledgement.
* The wiring of the queues.  `scheduler.ts` takes queues by position: the sweep
  of anomalies is queued to the payout worker, which throws, and the nudges run
  the sweep.  It is constant, and there is no behaviour to explore.
* Provider adapters, PDFs, exports, language-model calls, email and SMS: I/O.
* Code without callers, unless a module says it is modelled as exported
  (`confirmHolding`, `verifyKycDocument`, `trackReferralSignup`): wallet
  `processWithdrawal`, `rule-guard`, `nudges`, `chat-upgrades`, `notify`,
  `sendPush`, `invalidateTrustScore`.  WebAuthn's routes answer 503: the library
  they need is not among the dependencies.
* Writes that always fail, because the query names a column the schema lacks:
  the rewards of referrals, the erasure of a user's data, and the audit
  rows without a hash.
* The money of a donation through the public link.  `public.routes.ts` writes the
  row pending and says that it is "updated to confirmed via M-Pesa callback"; no
  callback looks for such a row.
* Lost updates that the code does not exclude and no sentence of the repository
  denies (two changes of one settings document, a wallet credited by two
  callbacks at once): the models contain them, and state what survives.

## 6. Plan

1. Done: `LedgerSpec`, `PaymentSpec`, `PayoutSpec`, and `Ledger`, `StkPayments`,
   `C2BPayments`, `Payouts` with proofs that they implement them.
2. Done: the modules of `community` and `platform`, and `Freeze`, checked.
3. Done: their types and safety properties proved, each component's alone and
   those of the two compositions (section 4).
4. Open: abstract specifications of the other components: a vote that is open and
   then closed for good, a breaker that admits or refuses.
5. Open: a composition of `Payouts` and `Shares` (a dividend is a payout request),
   which today meet in the input of `Payouts`.
6. Stays with TLC: liveness.
