----------------------------- MODULE StkPayments ------------------------------
(***************************************************************************)
(* M-Pesa STK pushes: contribute.service.ts and donate() open a payment,   *)
(* stk-callback.service.ts settles it when Safaricom calls back, and the   *)
(* stk-status-poll worker chases the payments nobody called back about.    *)
(*                                                                         *)
(* Every await is a step: a request, the deliveries of a callback and the  *)
(* poller interleave anywhere between them, nothing holds a lock or a      *)
(* transaction, and any of them may die at an await.  Safaricom may lose a *)
(* callback, send it more than once, or send it before the request has     *)
(* stored the checkout id by which the callback is matched.  The ledger is *)
(* used through its promise (LedgerSpec): one transfer per key, replayed   *)
(* when the key comes again.                                               *)
(***************************************************************************)
EXTENDS Integers, FiniteSets

CONSTANTS
  Tx,          \* payments
  Donation,    \* those opened by donate(), marked in their description
  Webhook,     \* callback deliveries being handled
  Poller,      \* the stk-status-poll worker
  Public,      \* is the group a fundraiser, or open to the public?
  Copies,      \* at most how often a callback is sent
  Batch,       \* payments the poller takes per round (the code's 50)
  MaxFaults    \* bound on the poller's deaths

ASSUME TxAssumption ==
  Donation \subseteq Tx /\ Poller \notin Webhook /\ Public \in BOOLEAN

ASSUME BoundAssumption == {Copies, Batch, MaxFaults} \subseteq Nat

VARIABLES
  api,         \* api[t]: the await of the request that opened t
  status,      \* status[t]: of the Transaction row
  stored,      \* stored[t]: the row has its mpesaCheckoutRequestId
  age,         \* age[t]: 0, 1 past STK_POLL_AGE_MS, 2 past STK_TIMEOUT_MS
  prompt,      \* prompt[t]: what became of the prompt on the phone
  copies,      \* copies[t]: callbacks on their way
  member,      \* member[t]: the payer has an active membership
  books,       \* transfers on the ledger: [key, tx, kind]
  donors,      \* payments with a row on the donor wall
  job,         \* job[w]: what worker w is doing in processStkCallback
  todo,        \* payments left in the poller's round
  expired,     \* those of its round it found past the timeout
  faults       \* deaths of the poller so far

vars == <<api, status, stored, age, prompt, copies, member, books, donors,
          job, todo, expired, faults>>

Worker == Webhook \cup {Poller}

Kind == {"contribution", "donation"}

Idle == [at |-> "idle"]

Job ==
  {Idle}
    \cup [at : {"find"}, tx : Tx, code : {0, 1}, receipt : BOOLEAN]
    \cup [at : {"fail", "decide"}, tx : Tx]
    \cup [at : {"post", "mirror", "complete"}, tx : Tx, kind : Kind]

Transfer == [key : Tx, tx : Tx, kind : Kind]

TypeOK ==
  /\ api \in [Tx -> {"ready", "created", "accepted", "refused", "over"}]
  /\ status \in [Tx -> {"none", "pending", "completed", "failed"}]
  /\ stored \in [Tx -> BOOLEAN]
  /\ age \in [Tx -> 0 .. 2]
  /\ prompt \in [Tx -> {"none", "shown", "paid", "declined"}]
  /\ copies \in [Tx -> 0 .. Copies]
  /\ member \in [Tx -> BOOLEAN]
  /\ books \subseteq Transfer
  /\ donors \subseteq Tx
  /\ job \in [Worker -> Job]
  /\ expired \subseteq todo /\ todo \subseteq Tx
  /\ faults \in 0 .. MaxFaults

Init ==
  /\ api      = [t \in Tx |-> "ready"]
  /\ status   = [t \in Tx |-> "none"]
  /\ stored   = [t \in Tx |-> FALSE]
  /\ age      = [t \in Tx |-> 0]
  /\ prompt   = [t \in Tx |-> "none"]
  /\ copies   = [t \in Tx |-> 0]
  /\ member \in { m \in [Tx -> BOOLEAN] : \A t \in Tx \ Donation : m[t] }
  /\ books    = {}
  /\ donors   = {}
  /\ job      = [w \in Worker |-> Idle]
  /\ todo     = {}
  /\ expired  = {}
  /\ faults   = 0

-------------------------------------------------------------------------------
(* contribute() and donate(): create the row, fire the push, store its id. *)

requestFrame == <<age, member, books, donors, job, todo, expired, faults>>

Goto(t, l) == api' = [api EXCEPT ![t] = l]

SetStatus(t, s) == status' = [status EXCEPT ![t] = s]

CreatePending(t) ==
  /\ api[t] = "ready"
  /\ SetStatus(t, "pending")
  /\ Goto(t, "created")
  /\ UNCHANGED <<stored, prompt, copies, requestFrame>>

(* fireDaraja rejects when the breaker is open, when Daraja refuses, and   *)
(* after 30 s without an answer: the phone may show the prompt all the     *)
(* same.                                                                   *)
FirePush(t) ==
  /\ api[t] = "created"
  /\ \/ /\ prompt' = [prompt EXCEPT ![t] = "shown"]
        /\ Goto(t, "accepted") \/ Goto(t, "refused")
     \/ /\ Goto(t, "refused")
        /\ UNCHANGED prompt
  /\ UNCHANGED <<status, stored, copies, requestFrame>>

StoreCheckoutId(t) ==
  /\ api[t] = "accepted"
  /\ stored' = [stored EXCEPT ![t] = TRUE]
  /\ Goto(t, "over")
  /\ UNCHANGED <<status, prompt, copies, requestFrame>>

InitiationFailed(t) ==
  /\ api[t] = "refused"
  /\ SetStatus(t, "failed")
  /\ Goto(t, "over")
  /\ UNCHANGED <<stored, prompt, copies, requestFrame>>

RequestDies(t) ==
  /\ api[t] \in {"created", "accepted", "refused"}
  /\ Goto(t, "over")
  /\ UNCHANGED <<status, stored, prompt, copies, requestFrame>>

-------------------------------------------------------------------------------
(* The payer, Safaricom and the clock (external).                          *)

externalFrame == <<api, status, stored, books, donors, job, todo, expired, faults>>

Answer(t) ==
  /\ prompt[t] = "shown"
  /\ \E a \in {"paid", "declined"} : prompt' = [prompt EXCEPT ![t] = a]
  /\ copies' = [copies EXCEPT ![t] = Copies]
  /\ UNCHANGED <<age, member, externalFrame>>

CallbackLost(t) ==
  /\ copies[t] > 0
  /\ copies' = [copies EXCEPT ![t] = @ - 1]
  /\ UNCHANGED <<age, prompt, member, externalFrame>>

GrowOlder(t) ==
  /\ status[t] # "none" /\ age[t] < 2
  /\ age' = [age EXCEPT ![t] = @ + 1]
  /\ UNCHANGED <<prompt, copies, member, externalFrame>>

Leave(t) ==
  /\ member[t]
  /\ member' = [member EXCEPT ![t] = FALSE]
  /\ UNCHANGED <<age, prompt, copies, externalFrame>>

-------------------------------------------------------------------------------
(* processStkCallback.                                                     *)

paymentFrame == <<api, stored, age, prompt, member>>
workerFrame  == <<copies, todo, expired, faults>>

Do(w, j) == job' = [job EXCEPT ![w] = j]

(* Only the callback of a payment that went through carries metadata, and  *)
(* in it the receipt.                                                      *)
Receive(w, t) ==
  /\ job[w] = Idle
  /\ copies[t] > 0
  /\ copies' = [copies EXCEPT ![t] = @ - 1]
  /\ LET paid == prompt[t] = "paid"
     IN Do(w, [at |-> "find", tx |-> t,
               code |-> IF paid THEN 0 ELSE 1, receipt |-> paid])
  /\ UNCHANGED <<status, books, donors, todo, expired, faults, paymentFrame>>

(* Read the row, in no transaction: an unknown id and a settled payment    *)
(* end it; a success without a receipt leaves the payment pending.         *)
Settled(t) == status[t] \in {"completed", "failed"}

FindPayment(w) ==
  /\ job[w].at = "find"
  /\ LET t == job[w].tx
     IN Do(w, IF ~ stored[t] \/ Settled(t) THEN Idle
              ELSE IF job[w].code # 0 THEN [at |-> "fail", tx |-> t]
              ELSE IF job[w].receipt THEN [at |-> "decide", tx |-> t]
              ELSE Idle)
  /\ UNCHANGED <<status, books, donors, paymentFrame, workerFrame>>

MarkFailed(w) ==
  /\ job[w].at = "fail"
  /\ SetStatus(job[w].tx, "failed")
  /\ Do(w, Idle)
  /\ UNCHANGED <<books, donors, paymentFrame, workerFrame>>

DecideMirrorsFirst(w) ==                 \* defect: donor wall before the ledger
  /\ job[w].at = "decide"
  /\ donors' = donors \cup {job[w].tx}
  /\ Do(w, [at |-> "post", tx |-> job[w].tx, kind |-> "contribution"])
  /\ UNCHANGED <<status, books, paymentFrame, workerFrame>>

(* Marked a donation, or paid into a public group by who is no member now. *)
DecideKind(w) ==
  /\ job[w].at = "decide"
  /\ LET t == job[w].tx
     IN Do(w, [at |-> "post", tx |-> t,
               kind |-> IF t \in Donation \/ (~ member[t] /\ Public)
                        THEN "donation" ELSE "contribution"])
  /\ UNCHANGED <<status, books, donors, paymentFrame, workerFrame>>

(* The key is stk-push:{receipt}; a payment has one receipt.               *)
KeyPerWorker(w) == w                     \* defect: a key of each delivery

LedgerKey(w) == job[w].tx

Posted(w) ==
  IF \E b \in books : b.key = LedgerKey(w)
  THEN books
  ELSE books \cup {[key |-> LedgerKey(w), tx |-> job[w].tx, kind |-> job[w].kind]}

PostLedger(w) ==
  /\ job[w].at = "post"
  /\ books' = Posted(w)
  /\ Do(w, [job[w] EXCEPT !.at =
              IF job[w].kind = "donation" THEN "mirror" ELSE "complete"])
  /\ UNCHANGED <<status, donors, paymentFrame, workerFrame>>

PostFailsButCompletes(w) ==              \* defect: the error is ignored
  /\ job[w].at = "post"
  /\ Do(w, [job[w] EXCEPT !.at = "complete"])
  /\ UNCHANGED <<status, books, donors, paymentFrame, workerFrame>>

(* A failed post leaves the payment pending; the transfer may be there.    *)
PostFails(w) ==
  /\ job[w].at = "post"
  /\ books' \in {books, Posted(w)}
  /\ Do(w, Idle)
  /\ UNCHANGED <<status, donors, paymentFrame, workerFrame>>

MirrorDonation(w) ==
  /\ job[w].at = "mirror"
  /\ donors' \in {donors, donors \cup {job[w].tx}}
  /\ Do(w, [job[w] EXCEPT !.at = "complete"])
  /\ UNCHANGED <<status, books, paymentFrame, workerFrame>>

CompletePayment(w) ==
  /\ job[w].at = "complete"
  /\ SetStatus(job[w].tx, "completed")
  /\ Do(w, Idle)
  /\ UNCHANGED <<books, donors, paymentFrame, workerFrame>>

Dies(w) ==
  /\ w # Poller
  /\ job[w] # Idle
  /\ Do(w, Idle)
  /\ UNCHANGED <<status, books, donors, paymentFrame, workerFrame>>

Process(w) ==
  \/ FindPayment(w) \/ MarkFailed(w) \/ DecideKind(w) \/ PostLedger(w)
  \/ PostFails(w) \/ MirrorDonation(w) \/ CompletePayment(w)

-------------------------------------------------------------------------------
(* stk-status-poll, every 60 s, one payment after the other.               *)

pollFrame == <<copies, books, donors, paymentFrame>>

Candidates == { t \in Tx : status[t] = "pending" /\ stored[t] /\ age[t] >= 1 }

PollStart ==
  /\ job[Poller] = Idle /\ todo = {}
  /\ \E S \in SUBSET Candidates :
       /\ S # {}
       /\ Cardinality(S) = Batch \/ (Cardinality(S) < Batch /\ S = Candidates)
       /\ todo' = S
       /\ expired' = { t \in S : age[t] = 2 }
  /\ UNCHANGED <<status, job, faults, pollFrame>>

PollTimeoutNever(t) ==                   \* defect: expired payments are skipped
  /\ job[Poller] = Idle
  /\ t \in expired
  /\ todo' = todo \ {t} /\ expired' = expired \ {t}
  /\ UNCHANGED <<status, job, faults, pollFrame>>

PollTimeoutKeeps(t) ==                   \* defect: the round forgets its place
  /\ job[Poller] = Idle
  /\ t \in expired
  /\ SetStatus(t, "failed")
  /\ todo' = todo \ {t}
  /\ UNCHANGED <<job, expired, faults, pollFrame>>

PollTimeout(t) ==
  /\ job[Poller] = Idle
  /\ t \in expired
  /\ SetStatus(t, "failed")
  /\ todo' = todo \ {t} /\ expired' = expired \ {t}
  /\ UNCHANGED <<job, faults, pollFrame>>

(* A prompt still on the phone answers 1037 and is left for later, like a  *)
(* query that fails; a payment found settled is put through the callback's *)
(* path, without metadata.                                                 *)
StillOpenNever(t) == FALSE               \* defect: 1037 taken for a failure

StillOpen(t) == prompt[t] = "shown"

PollQuery(t) ==
  /\ job[Poller] = Idle
  /\ t \in todo \ expired
  /\ todo' = todo \ {t}
  /\ \/ UNCHANGED job
     \/ /\ ~ StillOpen(t)
        /\ Do(Poller, [at |-> "find", tx |-> t,
                       code |-> IF prompt[t] = "paid" THEN 0 ELSE 1,
                       receipt |-> FALSE])
  /\ UNCHANGED <<status, expired, faults, pollFrame>>

PollerDies ==
  /\ job[Poller] # Idle \/ todo # {}
  /\ faults < MaxFaults
  /\ faults' = faults + 1
  /\ Do(Poller, Idle)
  /\ todo' = {} /\ expired' = {}
  /\ UNCHANGED <<status, pollFrame>>

Poll == PollStart \/ (\E t \in Tx : PollTimeout(t) \/ PollQuery(t)) \/ Process(Poller)

Request(t) ==
  CreatePending(t) \/ FirePush(t) \/ StoreCheckoutId(t) \/ InitiationFailed(t)
    \/ RequestDies(t)

World(t) == Answer(t) \/ CallbackLost(t) \/ GrowOlder(t) \/ Leave(t)

Next ==
  \/ \E t \in Tx : Request(t) \/ World(t)
  \/ \E w \in Webhook :
       Process(w) \/ Dies(w) \/ \E t \in Tx : Receive(w, t)
  \/ Poll \/ PollerDies

Spec == Init /\ [][Next]_vars

(* The scheduler starts a round every minute, a round that starts goes on, *)
(* and time passes.  Nothing is assumed of requests, payers or Safaricom.  *)
FairSpec == Spec /\ WF_vars(Poll) /\ \A t \in Tx : WF_vars(GrowOlder(t))

-------------------------------------------------------------------------------
(* Properties.                                                             *)

OnBooks(t) == \E b \in books : b.tx = t

(* A payment shown as completed has its money on the ledger, whichever of  *)
(* the deliveries completed it and whatever became of the others.          *)
CompletedOnBooks == \A t \in Tx : status[t] = "completed" => OnBooks(t)

(* One payment is one transfer: a delivery repeated, retried after a death *)
(* or judged to be of another kind by then does not post it again.         *)
OnBooksOnce ==
  \A a, b \in books : a.tx = b.tx => a = b

(* A donation that came by M-Pesa is on the donor wall only if its money   *)
(* is on the ledger.                                                       *)
DonorsBacked == \A t \in donors : OnBooks(t)

(* A payment fails for a reason: its push was refused, its payer declined, *)
(* or it went unsettled for seven minutes; never while the phone still     *)
(* shows the prompt of a push that was accepted in time.                   *)
FailedForAReason ==
  \A t \in Tx : status[t] = "failed" =>
    prompt[t] = "declined" \/ age[t] = 2 \/ ~ stored[t]

(* A payment whose checkout id is stored does not stay pending for ever,   *)
(* even if its callback is lost and the poller dies now and then.          *)
StoredSettles ==
  \A t \in Tx : stored[t] /\ status[t] = "pending" ~> Settled(t)

(* Requests, deliveries and the poller keep what PaymentSpec promises: one *)
(* transfer per payment, booked for good and before the payment is shown   *)
(* as completed or its payer on the donor wall.  What is shown is not      *)
(* final: the poller fails what it found past the timeout, whatever has    *)
(* become of it since (workers/index.ts:291).                              *)
BookedFor == [t \in Tx |-> { b \in books : b.tx = t }]

Completed == { t \in Tx : status[t] = "completed" }

Promise ==
  INSTANCE PaymentSpec WITH
    Payment <- Tx, Final <- FALSE,
    booked <- BookedFor, arrived <- Completed, walled <- donors

ImplementsPaymentSpec == Promise!Spec

(* processStkCallback: "Do NOT mark the Transaction failed (the money DID  *)
(* move)".                                                                 *)
MoneyMovedNeverFailed ==
  \A t \in Tx : OnBooks(t) => status[t] # "failed"
===============================================================================
