------------------------------- MODULE StkProofs ------------------------------
(***************************************************************************)
(* Proofs about StkPayments, for every set of payments and deliveries.     *)
(*                                                                         *)
(* A worker that is past its ledger post carries the evidence in its place *)
(* in processStkCallback: the transfer under its payment's key is there,   *)
(* and nothing takes a transfer off the books (JobsBacked).                *)
(***************************************************************************)
EXTENDS StkPayments, TLAPS

JobsBacked ==
  \A w \in Worker : job[w].at \in {"mirror", "complete"} => OnBooks(job[w].tx)

KeyedByPayment == \A b \in books : b.key = b.tx

SInv ==
  /\ TypeOK
  /\ JobsBacked
  /\ KeyedByPayment
  /\ CompletedOnBooks
  /\ DonorsBacked

(* Before any request nothing is posted, mirrored or completed.            *)
LEMMA InitSInv == Init => SInv
BY TxAssumption, BoundAssumption
DEF Init, SInv, TypeOK, Job, Idle, JobsBacked, KeyedByPayment, CompletedOnBooks,
    DonorsBacked

(* What a job looks like at each place it can be.                          *)
LEMMA JobShape ==
  ASSUME NEW j \in Job
  PROVE  /\ j.at \in {"idle", "find", "fail", "decide", "post", "mirror", "complete"}
         /\ j.at # "idle" => j.tx \in Tx
         /\ j.at \in {"post", "mirror", "complete"} =>
              /\ j.kind \in Kind
              /\ j = [at |-> j.at, tx |-> j.tx, kind |-> j.kind]
BY DEF Job, Idle

(* The jobs the actions write are jobs.                                    *)
LEMMA JobForms ==
  /\ Idle \in Job /\ Idle.at = "idle"
  /\ \A t \in Tx, c \in {0, 1}, r \in BOOLEAN :
       [at |-> "find", tx |-> t, code |-> c, receipt |-> r] \in Job
  /\ \A t \in Tx : [at |-> "fail", tx |-> t] \in Job /\ [at |-> "decide", tx |-> t] \in Job
  /\ \A t \in Tx, k \in Kind, a \in {"post", "mirror", "complete"} :
       [at |-> a, tx |-> t, kind |-> k] \in Job
BY DEF Job, Idle

(* Transfers stay, so what was backed by one stays backed: a step has to   *)
(* answer only for the jobs, the payments and the rows it changes.         *)
LEMMA Backing ==
  ASSUME SInv, TypeOK', KeyedByPayment', books \subseteq books',
         \A w \in Worker : \/ job'[w] = job[w]
                           \/ job'[w].at \notin {"mirror", "complete"}
                           \/ OnBooks(job[w].tx)',
         \A t \in Tx : \/ status'[t] = status[t]
                       \/ status'[t] # "completed"
                       \/ OnBooks(t)',
         \A t \in donors' : t \in donors \/ OnBooks(t)'
  PROVE  SInv'
<1>1. \A t : OnBooks(t) => OnBooks(t)'
  BY DEF OnBooks
<1>2. JobsBacked'
  <2> SUFFICES ASSUME NEW w \in Worker, job'[w].at \in {"mirror", "complete"}
               PROVE  OnBooks(job[w].tx)'
    BY DEF JobsBacked
  <2>1. CASE job'[w] = job[w]
    <3>1. \E b \in books : b.tx = job[w].tx
      BY <2>1 DEF SInv, JobsBacked, OnBooks
    <3> QED
      BY <2>1, <3>1 DEF OnBooks
  <2>2. CASE job'[w] # job[w]
    BY <2>2
  <2> QED
    BY <2>1, <2>2
<1>3. CompletedOnBooks'
  BY <1>1 DEF SInv, CompletedOnBooks
<1>4. DonorsBacked'
  BY <1>1 DEF SInv, DonorsBacked
<1> QED
  BY <1>2, <1>3, <1>4 DEF SInv

(* A step that touches neither the ledger, the donor wall nor a worker.    *)
LEMMA OutsideStep ==
  ASSUME SInv, TypeOK', UNCHANGED <<books, donors, job>>,
         \A t \in Tx : status'[t] = status[t] \/ status'[t] # "completed"
  PROVE  SInv'
BY Backing DEF SInv, KeyedByPayment

(* A worker moves to a place that claims no transfer.                      *)
LEMMA JobStep ==
  ASSUME SInv, NEW w \in Worker, NEW j \in Job,
         j.at \notin {"mirror", "complete"}, job' = [job EXCEPT ![w] = j],
         TypeOK', UNCHANGED <<books, donors>>,
         \A t \in Tx : status'[t] = status[t] \/ status'[t] # "completed"
  PROVE  SInv'
<1>1. \A v \in Worker : job'[v] = job[v] \/ job'[v].at \notin {"mirror", "complete"}
  BY DEF SInv, TypeOK
<1> QED
  BY <1>1, Backing DEF SInv, KeyedByPayment

(* contribute and donate keep the invariant: they neither complete a       *)
(* payment nor touch the ledger.                                           *)
LEMMA RequestSInv ==
  ASSUME SInv, NEW t \in Tx, Request(t)
  PROVE  SInv'
<1>1. TypeOK'
  <2>1. CASE CreatePending(t)
    BY <2>1 DEF SInv, TypeOK, CreatePending, SetStatus, Goto, requestFrame
  <2>2. CASE FirePush(t)
    BY <2>2 DEF SInv, TypeOK, FirePush, Goto, requestFrame
  <2>3. CASE StoreCheckoutId(t)
    BY <2>3 DEF SInv, TypeOK, StoreCheckoutId, Goto, requestFrame
  <2>4. CASE InitiationFailed(t)
    BY <2>4 DEF SInv, TypeOK, InitiationFailed, SetStatus, Goto, requestFrame
  <2>5. CASE RequestDies(t)
    BY <2>5 DEF SInv, TypeOK, RequestDies, Goto, requestFrame
  <2> QED
    BY <2>1, <2>2, <2>3, <2>4, <2>5 DEF Request
<1>2. UNCHANGED <<books, donors, job>>
  BY DEF Request, CreatePending, FirePush, StoreCheckoutId, InitiationFailed,
         RequestDies, requestFrame
<1>3. \A u \in Tx : status'[u] = status[u] \/ status'[u] # "completed"
  BY DEF Request, CreatePending, FirePush, StoreCheckoutId, InitiationFailed,
         RequestDies, SetStatus, SInv, TypeOK
<1> QED
  BY <1>1, <1>2, <1>3, OutsideStep

(* Payers, Safaricom and the clock keep the invariant.                     *)
LEMMA WorldSInv ==
  ASSUME SInv, NEW t \in Tx, World(t)
  PROVE  SInv'
<1>1. TypeOK'
  <2>1. CASE Answer(t)
    BY <2>1, BoundAssumption DEF SInv, TypeOK, Answer, externalFrame
  <2>2. CASE CallbackLost(t)
    BY <2>2, BoundAssumption DEF SInv, TypeOK, CallbackLost, externalFrame
  <2>3. CASE GrowOlder(t)
    BY <2>3 DEF SInv, TypeOK, GrowOlder, externalFrame
  <2>4. CASE Leave(t)
    BY <2>4 DEF SInv, TypeOK, Leave, externalFrame
  <2> QED
    BY <2>1, <2>2, <2>3, <2>4 DEF World
<1>2. UNCHANGED <<status, books, donors, job>>
  BY DEF World, Answer, CallbackLost, GrowOlder, Leave, externalFrame
<1> QED
  BY <1>1, <1>2, OutsideStep

(* A callback that is picked up keeps the invariant.                       *)
LEMMA ReceiveSInv ==
  ASSUME SInv, NEW w \in Webhook, NEW t \in Tx, Receive(w, t)
  PROVE  SInv'
<1> DEFINE j == [at |-> "find", tx |-> t,
                 code |-> IF prompt[t] = "paid" THEN 0 ELSE 1,
                 receipt |-> prompt[t] = "paid"]
<1>1. j \in Job /\ j.at = "find" /\ w \in Worker
  BY JobForms DEF Worker
<1>2. job' = [job EXCEPT ![w] = j]
  BY DEF Receive, Do
<1> HIDE DEF j
<1>3. TypeOK'
  BY <1>1, <1>2, BoundAssumption DEF SInv, TypeOK, Receive, paymentFrame
<1> QED
  BY <1>1, <1>2, <1>3, JobStep DEF Receive

(* The rounds of the poller keep the invariant.                            *)
LEMMA PollSInv ==
  ASSUME SInv,
         \/ PollStart \/ PollerDies
         \/ \E t \in Tx : PollTimeout(t) \/ PollQuery(t)
  PROVE  SInv'
<1>1. CASE PollStart
  <2>1. TypeOK'
    <3>1. todo' \subseteq Tx /\ expired' \subseteq todo'
      BY <1>1 DEF PollStart, Candidates
    <3> QED
      BY <1>1, <3>1 DEF SInv, TypeOK, PollStart, pollFrame, paymentFrame
  <2> QED
    BY <1>1, <2>1, OutsideStep DEF PollStart, pollFrame, paymentFrame
<1>2. CASE PollerDies
  <2>1. TypeOK'
    <3>1. job' \in [Worker -> Job]
      BY <1>2, JobForms DEF SInv, TypeOK, PollerDies, Do
    <3>2. faults' \in 0 .. MaxFaults
      BY <1>2, BoundAssumption DEF SInv, TypeOK, PollerDies
    <3> QED
      BY <1>2, <3>1, <3>2 DEF SInv, TypeOK, PollerDies, pollFrame, paymentFrame
  <2> QED
    BY <1>2, <2>1, JobForms, JobStep DEF PollerDies, Do, pollFrame, Worker
<1>3. ASSUME NEW t \in Tx, PollTimeout(t) PROVE SInv'
  <2>1. TypeOK'
    BY <1>3 DEF SInv, TypeOK, PollTimeout, SetStatus, pollFrame, paymentFrame
  <2> QED
    BY <1>3, <2>1, OutsideStep DEF PollTimeout, SetStatus, pollFrame, SInv, TypeOK
<1>4. ASSUME NEW t \in Tx, PollQuery(t) PROVE SInv'
  <2> DEFINE j == [at |-> "find", tx |-> t,
                   code |-> IF prompt[t] = "paid" THEN 0 ELSE 1, receipt |-> FALSE]
  <2>1. j \in Job /\ j.at = "find" /\ Poller \in Worker
    BY JobForms DEF Worker
  <2>2. UNCHANGED job \/ job' = [job EXCEPT ![Poller] = j]
    BY <1>4 DEF PollQuery, Do
  <2> HIDE DEF j
  <2>3. TypeOK'
    BY <1>4, <2>1, <2>2 DEF SInv, TypeOK, PollQuery, pollFrame, paymentFrame
  <2> QED
    BY <1>4, <2>1, <2>2, <2>3, JobStep, OutsideStep DEF PollQuery, pollFrame
<1> QED
  BY <1>1, <1>2, <1>3, <1>4

(* Steps of processStkCallback that claim nothing new.                     *)
LEMMA ReadingSInv ==
  ASSUME SInv, NEW w \in Worker,
         FindPayment(w) \/ MarkFailed(w) \/ DecideKind(w) \/ Dies(w)
  PROVE  SInv'
<1>1. job[w] \in Job /\ (job[w] # Idle => job[w].tx \in Tx)
  <2>1. \A j \in Job : j # Idle => j.tx \in Tx
    BY DEF Job
  <2> QED
    BY <2>1 DEF SInv, TypeOK
<1>2. job[w] # Idle
  BY JobForms DEF FindPayment, MarkFailed, DecideKind, Dies
<1>3. PICK j \in Job : /\ j.at \in {"idle", "fail", "decide", "post"}
                       /\ job' = [job EXCEPT ![w] = j]
  <2>1. CASE FindPayment(w)
    BY <1>1, <1>2, <2>1, JobForms DEF FindPayment, Do
  <2>2. CASE MarkFailed(w) \/ Dies(w)
    BY <2>2, JobForms DEF MarkFailed, Dies, Do
  <2>3. CASE DecideKind(w)
    BY <1>1, <1>2, <2>3, JobForms DEF DecideKind, Do, Kind
  <2> QED
    BY <2>1, <2>2, <2>3
<1>4. /\ UNCHANGED <<books, donors, paymentFrame, workerFrame>>
      /\ \/ UNCHANGED status
         \/ status' = [status EXCEPT ![job[w].tx] = "failed"]
  BY DEF FindPayment, MarkFailed, DecideKind, Dies, SetStatus
<1>5. TypeOK'
  BY <1>1, <1>2, <1>3, <1>4 DEF SInv, TypeOK, paymentFrame, workerFrame
<1>6. \A t \in Tx : status'[t] = status[t] \/ status'[t] # "completed"
  BY <1>4 DEF SInv, TypeOK
<1> QED
  BY <1>3, <1>4, <1>5, <1>6, JobStep

(* A post leaves the transfer of the payment on the books.                 *)
LEMMA PostedFacts ==
  ASSUME SInv, NEW w \in Worker, job[w].at = "post"
  PROVE  /\ job[w].tx \in Tx
         /\ books \subseteq Posted(w)
         /\ Posted(w) \subseteq Transfer
         /\ \A b \in Posted(w) : b.key = b.tx
         /\ \E b \in Posted(w) : b.tx = job[w].tx
<1>1. job[w].tx \in Tx /\ job[w].kind \in Kind
  BY JobShape DEF SInv, TypeOK
<1>2. [key |-> job[w].tx, tx |-> job[w].tx, kind |-> job[w].kind] \in Transfer
  BY <1>1 DEF Transfer
<1>3. CASE \E b \in books : b.key = LedgerKey(w)
  <2>1. Posted(w) = books
    BY <1>3 DEF Posted
  <2> QED
    BY <1>1, <1>3, <2>1 DEF LedgerKey, SInv, TypeOK, KeyedByPayment
<1>4. CASE ~ \E b \in books : b.key = LedgerKey(w)
  <2>1. Posted(w) = books \cup
          {[key |-> job[w].tx, tx |-> job[w].tx, kind |-> job[w].kind]}
    BY <1>4 DEF Posted, LedgerKey
  <2> QED
    BY <1>1, <1>2, <2>1 DEF SInv, TypeOK, KeyedByPayment
<1> QED
  BY <1>3, <1>4

(* The ledger post, and its failure, keep the invariant.                   *)
LEMMA PostingSInv ==
  ASSUME SInv, NEW w \in Worker, PostLedger(w) \/ PostFails(w)
  PROVE  SInv'
<1>1. job[w].at = "post" /\ books' \in {books, Posted(w)}
  BY DEF PostLedger, PostFails
<1>2. /\ job[w].tx \in Tx /\ job[w].kind \in Kind
      /\ job[w] = [at |-> "post", tx |-> job[w].tx, kind |-> job[w].kind]
  BY <1>1, JobShape DEF SInv, TypeOK
<1>3. /\ books \subseteq books' /\ books' \subseteq Transfer
      /\ \A b \in books' : b.key = b.tx
  BY <1>1, PostedFacts DEF SInv, TypeOK, KeyedByPayment
<1>4. \/ job' = [job EXCEPT ![w] = Idle]
      \/ /\ \E b \in books' : b.tx = job[w].tx
         /\ \E a \in {"mirror", "complete"} :
              job' = [job EXCEPT ![w] =
                        [at |-> a, tx |-> job[w].tx, kind |-> job[w].kind]]
  <2>1. CASE PostFails(w)
    BY <2>1 DEF PostFails, Do
  <2>2. CASE PostLedger(w)
    <3>1. \E b \in books' : b.tx = job[w].tx
      BY <1>1, <2>2, PostedFacts DEF PostLedger
    <3>2. \E a \in {"mirror", "complete"} : job' = [job EXCEPT ![w] = [@ EXCEPT !.at = a]]
      BY <2>2 DEF PostLedger, Do
    <3> QED
      BY <1>2, <3>1, <3>2
  <2> QED
    BY <2>1, <2>2
<1>5. TypeOK'
  <2>1. job' \in [Worker -> Job]
    <3>1. \A a \in {"mirror", "complete"} :
            [at |-> a, tx |-> job[w].tx, kind |-> job[w].kind] \in Job
      BY <1>2, JobForms
    <3>2. \E j \in Job : job' = [job EXCEPT ![w] = j]
      BY <1>4, <3>1, JobForms
    <3> QED
      BY <3>2 DEF SInv, TypeOK
  <2>2. UNCHANGED <<status, donors, paymentFrame, workerFrame>>
    BY DEF PostLedger, PostFails
  <2> QED
    BY <1>3, <2>1, <2>2 DEF SInv, TypeOK, paymentFrame, workerFrame
<1>6. \A v \in Worker : \/ job'[v] = job[v]
                        \/ job'[v].at \notin {"mirror", "complete"}
                        \/ OnBooks(job[v].tx)'
  BY <1>4, JobForms DEF SInv, TypeOK, OnBooks
<1>7. UNCHANGED <<status, donors>>
  BY DEF PostLedger, PostFails
<1> QED
  BY <1>3, <1>5, <1>6, <1>7, Backing DEF KeyedByPayment

(* The steps around the ledger post keep the invariant.                    *)
LEMMA ClosingSInv ==
  ASSUME SInv, NEW w \in Worker, MirrorDonation(w) \/ CompletePayment(w)
  PROVE  SInv'
<1>1. /\ job[w].at \in {"mirror", "complete"} /\ job[w].tx \in Tx /\ job[w].kind \in Kind
      /\ job[w] = [at |-> job[w].at, tx |-> job[w].tx, kind |-> job[w].kind]
  BY JobShape DEF SInv, TypeOK, MirrorDonation, CompletePayment
<1>2. OnBooks(job[w].tx) /\ UNCHANGED books
  BY <1>1 DEF SInv, JobsBacked, MirrorDonation, CompletePayment
<1>3. \/ /\ job' = [job EXCEPT ![w] = [at |-> "complete", tx |-> job[w].tx,
                                        kind |-> job[w].kind]]
         /\ donors' \in {donors, donors \cup {job[w].tx}}
         /\ UNCHANGED status
      \/ /\ job' = [job EXCEPT ![w] = Idle]
         /\ status' = [status EXCEPT ![job[w].tx] = "completed"]
         /\ UNCHANGED donors
  BY <1>1 DEF MirrorDonation, CompletePayment, Do, SetStatus
<1>4. TypeOK'
  <2>1. job' \in [Worker -> Job]
    <3>1. [at |-> "complete", tx |-> job[w].tx, kind |-> job[w].kind] \in Job
      BY <1>1, JobForms
    <3>2. \E j \in Job : job' = [job EXCEPT ![w] = j]
      BY <1>3, <3>1, JobForms
    <3> QED
      BY <3>2 DEF SInv, TypeOK
  <2>2. /\ status' \in [Tx -> {"none", "pending", "completed", "failed"}]
        /\ donors' \subseteq Tx
    BY <1>1, <1>3 DEF SInv, TypeOK
  <2>3. UNCHANGED <<books, paymentFrame, workerFrame>>
    BY DEF MirrorDonation, CompletePayment
  <2> QED
    BY <2>1, <2>2, <2>3 DEF SInv, TypeOK, paymentFrame, workerFrame
<1>5. \A v \in Worker : \/ job'[v] = job[v]
                        \/ job'[v].at \notin {"mirror", "complete"}
                        \/ OnBooks(job[v].tx)'
  BY <1>1, <1>2, <1>3, JobForms DEF SInv, TypeOK, OnBooks
<1>6. \A t \in Tx : status'[t] = status[t] \/ status'[t] # "completed" \/ OnBooks(t)'
  BY <1>1, <1>2, <1>3 DEF SInv, TypeOK, OnBooks
<1>7. \A t \in donors' : t \in donors \/ OnBooks(t)'
  BY <1>2, <1>3 DEF OnBooks
<1> QED
  BY <1>2, <1>4, <1>5, <1>6, <1>7, Backing DEF SInv, KeyedByPayment

(* Every step of the STK module keeps the invariant.                       *)
LEMMA NextSInv == SInv /\ [Next]_vars => SInv'
<1> SUFFICES ASSUME SInv, [Next]_vars PROVE SInv'
  OBVIOUS
<1>1. CASE UNCHANGED vars
  <2>1. TypeOK'
    BY <1>1 DEF vars, SInv, TypeOK
  <2> QED
    BY <1>1, <2>1, OutsideStep DEF vars
<1>2. ASSUME NEW w \in Worker, Process(w) PROVE SInv'
  BY <1>2, ReadingSInv, PostingSInv, ClosingSInv DEF Process
<1>3. ASSUME NEW w \in Webhook, Dies(w) PROVE SInv'
  BY <1>3, ReadingSInv DEF Worker
<1> QED
  BY <1>1, <1>2, <1>3, RequestSInv, WorldSInv, ReceiveSInv, PollSInv
  DEF Next, Poll, Worker

(* The inductive invariant of STK payments: who is past the ledger post    *)
(* has its transfer on the books.                                          *)
THEOREM StkInvariance == Spec => []SInv
BY InitSInv, NextSInv, PTL DEF Spec

(* Every payment shown as completed is on the ledger.                      *)
THEOREM CompletedIsOnBooks == Spec => []CompletedOnBooks
<1>1. SInv => CompletedOnBooks
  BY DEF SInv
<1> QED
  BY <1>1, StkInvariance, PTL

(* Every name on the donor wall has its money on the ledger.               *)
THEOREM DonorWallBacked == Spec => []DonorsBacked
<1>1. SInv => DonorsBacked
  BY DEF SInv
<1> QED
  BY <1>1, StkInvariance, PTL

(* The ledger holds one transfer per key.                                  *)
KeysDiffer == \A a, b \in books : a.key = b.key => a = b

(* No payment is posted twice, however often its callback is delivered,    *)
(* polled or retried.                                                      *)
THEOREM PaymentPostedOnce == Spec => []OnBooksOnce
<1>1. Init => KeysDiffer
  BY DEF Init, KeysDiffer
<1>2. KeysDiffer /\ [Next]_vars => KeysDiffer'
  <2> SUFFICES ASSUME KeysDiffer, [Next]_vars PROVE KeysDiffer'
    OBVIOUS
  <2>1. UNCHANGED books \/ \E w \in Worker : books' = Posted(w)
    BY DEF Next, Request, CreatePending, FirePush, StoreCheckoutId, InitiationFailed,
           RequestDies, requestFrame, World, Answer, CallbackLost, GrowOlder, Leave,
           externalFrame, Process, FindPayment, MarkFailed, DecideKind, PostLedger,
           PostFails, MirrorDonation, CompletePayment, Dies, Receive, Poll, PollStart,
           PollTimeout, PollQuery, PollerDies, pollFrame, vars, Worker
  <2>2. CASE UNCHANGED books
    BY <2>2 DEF KeysDiffer
  <2>3. ASSUME NEW w \in Worker, books' = Posted(w) PROVE KeysDiffer'
    BY <2>3 DEF KeysDiffer, Posted
  <2> QED
    BY <2>1, <2>2, <2>3
<1>3. SInv /\ KeysDiffer => OnBooksOnce
  BY DEF SInv, KeyedByPayment, KeysDiffer, OnBooksOnce
<1> QED
  BY <1>1, <1>2, <1>3, StkInvariance, PTL DEF Spec
(* Every reachable state is typed, the worker's place in the code included.*)
THEOREM StkTypeCorrect == Spec => []TypeOK
<1>1. SInv => TypeOK
  BY DEF SInv
<1> QED
  BY <1>1, StkInvariance, PTL

-------------------------------------------------------------------------------
(* Why a payment fails.  The reason is known before the row says "failed": *)
(* a decline is on its way to the row in the hands of a worker, and only a *)
(* row with its checkout id, whose request is over, is polled or matched.  *)

(* A request shows its prompt once, and is over when it has stored the id. *)
RequestsInOrder ==
  \A t \in Tx :
    /\ api[t] \in {"ready", "created"} => prompt[t] = "none"
    /\ stored[t] => api[t] = "over"
    /\ api[t] = "accepted" \/ stored[t] => prompt[t] # "none"
    /\ status[t] = "failed" => api[t] = "over"

(* Only an answered prompt is called back about.                           *)
CallbacksAnswer ==
  \A t \in Tx : copies[t] > 0 => prompt[t] \in {"paid", "declined"}

(* A worker that brings a failure brings the payer's refusal.              *)
BringsDecline(w) ==
  /\ job[w].at = "find" /\ job[w].code # 0 => prompt[job[w].tx] = "declined"
  /\ job[w].at = "fail" => prompt[job[w].tx] = "declined" /\ stored[job[w].tx]

JobsDecline == \A w \in Worker : BringsDecline(w)

(* The round of the poller holds rows with an id, those it expires aged 2. *)
RoundsStored ==
  /\ \A t \in todo : stored[t]
  /\ \A t \in expired : age[t] = 2

FInv ==
  /\ RequestsInOrder
  /\ CallbacksAnswer
  /\ JobsDecline
  /\ RoundsStored
  /\ FailedForAReason

(* Nothing is asked, answered or failed before the first request.          *)
LEMMA InitFInv == Init => FInv
BY DEF Init, FInv, RequestsInOrder, CallbacksAnswer, JobsDecline, BringsDecline, Idle,
       RoundsStored, FailedForAReason

(* A decline, an age and a stored id are for good, so a step has to answer *)
(* only for the failures, the jobs and the rounds it makes.                *)
LEMMA ReasonStep ==
  ASSUME SInv, FInv, RequestsInOrder', CallbacksAnswer',
         \A t \in Tx : /\ prompt[t] = "declined" => prompt'[t] = "declined"
                       /\ stored[t] => stored'[t]
                       /\ age[t] = 2 => age'[t] = 2,
         \A t \in Tx : status'[t] = "failed" =>
           \/ (status[t] = "failed" /\ stored'[t] = stored[t])
           \/ prompt'[t] = "declined" \/ age'[t] = 2 \/ ~ stored'[t],
         \A w \in Worker : job'[w] = job[w] \/ BringsDecline(w)',
         \A t \in todo' : t \in todo \/ stored'[t],
         \A t \in expired' : t \in expired \/ age'[t] = 2
  PROVE  FInv'
<1>1. JobsDecline'
  <2> SUFFICES ASSUME NEW w \in Worker, job'[w] = job[w] PROVE BringsDecline(w)'
    BY DEF JobsDecline
  <2>1. job[w].at \in {"find", "fail"} => job[w].tx \in Tx
    BY JobShape DEF SInv, TypeOK
  <2> QED
    BY <2>1 DEF FInv, JobsDecline, BringsDecline
<1>2. RoundsStored'
  BY DEF FInv, RoundsStored, SInv, TypeOK
<1>3. FailedForAReason'
  BY DEF FInv, FailedForAReason
<1> QED
  BY <1>1, <1>2, <1>3 DEF FInv

(* The request: it fails its row only when the push was refused, and then  *)
(* never stores an id.                                                     *)
LEMMA RequestFInv ==
  ASSUME SInv, FInv, NEW u \in Tx, Request(u)
  PROVE  FInv'
<1> USE DEF requestFrame, Goto, SetStatus
<1>1. RequestsInOrder' /\ CallbacksAnswer'
  <2>1. CASE CreatePending(u)
    BY <2>1 DEF CreatePending, FInv, RequestsInOrder, CallbacksAnswer, SInv, TypeOK
  <2>2. CASE FirePush(u)
    BY <2>2 DEF FirePush, FInv, RequestsInOrder, CallbacksAnswer, SInv, TypeOK
  <2>3. CASE StoreCheckoutId(u)
    BY <2>3 DEF StoreCheckoutId, FInv, RequestsInOrder, CallbacksAnswer, SInv, TypeOK
  <2>4. CASE InitiationFailed(u)
    BY <2>4 DEF InitiationFailed, FInv, RequestsInOrder, CallbacksAnswer, SInv, TypeOK
  <2>5. CASE RequestDies(u)
    BY <2>5 DEF RequestDies, FInv, RequestsInOrder, CallbacksAnswer, SInv, TypeOK
  <2> QED
    BY <2>1, <2>2, <2>3, <2>4, <2>5 DEF Request
<1>2. \A t \in Tx : /\ prompt[t] = "declined" => prompt'[t] = "declined"
                    /\ stored[t] => stored'[t]
  BY DEF Request, CreatePending, FirePush, StoreCheckoutId, InitiationFailed, RequestDies,
         FInv, RequestsInOrder, SInv, TypeOK
<1>3. \A t \in Tx : status'[t] = "failed" =>
        (status[t] = "failed" /\ stored'[t] = stored[t]) \/ ~ stored'[t]
  BY DEF Request, CreatePending, FirePush, StoreCheckoutId, InitiationFailed, RequestDies,
         FInv, RequestsInOrder, SInv, TypeOK
<1>4. UNCHANGED <<age, job, todo, expired>>
  BY DEF Request, CreatePending, FirePush, StoreCheckoutId, InitiationFailed, RequestDies
<1> QED
  BY <1>1, <1>2, <1>3, <1>4, ReasonStep

(* The payer answers a prompt that is shown, once.                         *)
LEMMA WorldFInv ==
  ASSUME SInv, FInv, NEW u \in Tx, World(u)
  PROVE  FInv'
<1> USE DEF externalFrame
<1>1. RequestsInOrder' /\ CallbacksAnswer'
  <2>1. CASE Answer(u)
    BY <2>1 DEF Answer, FInv, RequestsInOrder, CallbacksAnswer, SInv, TypeOK
  <2>2. CASE CallbackLost(u)
    BY <2>2 DEF CallbackLost, FInv, RequestsInOrder, CallbacksAnswer, SInv, TypeOK
  <2>3. CASE GrowOlder(u) \/ Leave(u)
    BY <2>3 DEF GrowOlder, Leave, FInv, RequestsInOrder, CallbacksAnswer
  <2> QED
    BY <2>1, <2>2, <2>3 DEF World
<1>2. \A t \in Tx : /\ prompt[t] = "declined" => prompt'[t] = "declined"
                    /\ age[t] = 2 => age'[t] = 2
  BY DEF World, Answer, CallbackLost, GrowOlder, Leave, SInv, TypeOK
<1>3. UNCHANGED <<status, stored, job, todo, expired>>
  BY DEF World, Answer, CallbackLost, GrowOlder, Leave
<1> QED
  BY <1>1, <1>2, <1>3, ReasonStep

(* A callback brings what the payer answered.                              *)
LEMMA ReceiveFInv ==
  ASSUME SInv, FInv, NEW w \in Webhook, NEW u \in Tx, Receive(w, u)
  PROVE  FInv'
<1>1. w \in Worker /\ w # Poller
  BY TxAssumption DEF Worker
<1>2. BringsDecline(w)' /\ \A v \in Worker : v # w => job'[v] = job[v]
  BY <1>1 DEF Receive, Do, BringsDecline, paymentFrame, FInv, CallbacksAnswer, SInv, TypeOK
<1>3. RequestsInOrder' /\ CallbacksAnswer'
  BY DEF Receive, paymentFrame, FInv, RequestsInOrder, CallbacksAnswer, SInv, TypeOK
<1> QED
  BY <1>2, <1>3, ReasonStep DEF Receive, paymentFrame

(* The poller takes rows with an id, expires those aged 2, and has an      *)
(* answer that is no success only of a prompt that was declined.           *)
LEMMA PollFInv ==
  ASSUME SInv, FInv,
         \/ PollStart \/ PollerDies
         \/ \E t \in Tx : PollTimeout(t) \/ PollQuery(t)
  PROVE  FInv'
<1> USE DEF pollFrame, paymentFrame
<1>1. Poller \in Worker
  BY DEF Worker
<1>2. ASSUME UNCHANGED <<api, stored, prompt, copies>>,
             \A t \in Tx : status'[t] = "failed" => status[t] = "failed" \/ stored[t]
      PROVE  RequestsInOrder' /\ CallbacksAnswer'
  BY <1>2 DEF FInv, RequestsInOrder, CallbacksAnswer
<1>3. CASE PollStart
  <2>1. /\ \A t \in todo' : stored[t]
        /\ \A t \in expired' : age[t] = 2
    BY <1>3 DEF PollStart, Candidates
  <2> QED
    BY <1>2, <1>3, <2>1, ReasonStep DEF PollStart
<1>4. CASE PollerDies
  <2>1. \A w \in Worker : job'[w] = job[w] \/ BringsDecline(w)'
    BY <1>1, <1>4 DEF PollerDies, Do, BringsDecline, Idle, SInv, TypeOK
  <2>2. UNCHANGED <<status, stored, prompt, age, copies, api>> /\ todo' = {} /\ expired' = {}
    BY <1>4 DEF PollerDies
  <2> QED
    BY <1>2, <2>1, <2>2, ReasonStep
<1>5. ASSUME NEW t \in Tx, PollTimeout(t) PROVE FInv'
  <2>1. /\ UNCHANGED <<stored, prompt, age, copies, api, job>>
        /\ todo' \subseteq todo /\ expired' \subseteq expired
    BY <1>5 DEF PollTimeout
  <2>2. \A s \in Tx : status'[s] = "failed" => status[s] = "failed" \/ (stored[s] /\ age[s] = 2)
    <3>1. stored[t] /\ age[t] = 2
      <4>1. t \in expired /\ t \in todo
        BY <1>5 DEF PollTimeout, SInv, TypeOK
      <4> QED
        BY <4>1 DEF FInv, RoundsStored
    <3>2. \A s \in Tx : s = t \/ status'[s] = status[s]
      BY <1>5 DEF PollTimeout, SetStatus, SInv, TypeOK
    <3> QED
      BY <3>1, <3>2
  <2> QED
    BY <1>2, <2>1, <2>2, ReasonStep
<1>6. ASSUME NEW t \in Tx, PollQuery(t) PROVE FInv'
  <2>1. stored[t] /\ prompt[t] \in {"shown", "paid", "declined"}
    BY <1>6 DEF PollQuery, FInv, RoundsStored, RequestsInOrder, SInv, TypeOK
  <2>2. \A w \in Worker : job'[w] = job[w] \/ BringsDecline(w)'
    BY <1>1, <1>6, <2>1 DEF PollQuery, StillOpen, Do, BringsDecline, SInv, TypeOK
  <2>3. /\ UNCHANGED <<status, stored, prompt, age, copies, api>>
        /\ todo' \subseteq todo /\ expired' = expired
    BY <1>6 DEF PollQuery
  <2> QED
    BY <1>2, <2>2, <2>3, ReasonStep
<1> QED
  BY <1>3, <1>4, <1>5, <1>6

(* processStkCallback passes the decline on from the read to the write.    *)
LEMMA ProcessFInv ==
  ASSUME SInv, FInv, NEW w \in Worker, Process(w) \/ Dies(w)
  PROVE  FInv'
<1>1. job[w].at \in {"find", "fail"} => job[w].tx \in Tx
  BY JobShape DEF SInv, TypeOK
<1>2. UNCHANGED <<api, stored, age, prompt, copies, todo, expired>>
  BY DEF Process, FindPayment, MarkFailed, DecideKind, PostLedger, PostFails,
         MirrorDonation, CompletePayment, Dies, paymentFrame, workerFrame
<1>3. \A v \in Worker : job'[v] = job[v] \/ BringsDecline(v)'
  <2> USE DEF Do, BringsDecline, paymentFrame, SInv, TypeOK
  <2>1. CASE FindPayment(w)
    BY <1>1, <2>1 DEF FindPayment, Idle, FInv, JobsDecline
  <2>2. CASE MarkFailed(w) \/ PostFails(w) \/ CompletePayment(w) \/ Dies(w)
    BY <2>2 DEF MarkFailed, PostFails, CompletePayment, Dies, Idle
  <2>3. CASE DecideKind(w) \/ PostLedger(w) \/ MirrorDonation(w)
    <3>1. \A v \in Worker \ {w} : job'[v] = job[v]
      BY <2>3 DEF DecideKind, PostLedger, MirrorDonation
    <3>2. job'[w].at \notin {"find", "fail"}
      <4>1. job[w].at \in {"post", "mirror"} =>
              job[w] = [at |-> job[w].at, tx |-> job[w].tx, kind |-> job[w].kind]
        BY JobShape
      <4> QED
        BY <2>3, <4>1 DEF DecideKind, PostLedger, MirrorDonation
    <3> QED
      BY <3>1, <3>2
  <2> QED
    BY <2>1, <2>2, <2>3 DEF Process
<1>4. \A t \in Tx : status'[t] = "failed" =>
        status[t] = "failed" \/ (prompt[t] = "declined" /\ stored[t])
  <2>1. \/ UNCHANGED status
        \/ status' = [status EXCEPT ![job[w].tx] = "completed"]
        \/ /\ job[w].at = "fail"
           /\ status' = [status EXCEPT ![job[w].tx] = "failed"]
    BY DEF Process, FindPayment, MarkFailed, DecideKind, PostLedger, PostFails,
           MirrorDonation, CompletePayment, Dies, SetStatus
  <2>2. job[w].at = "fail" => prompt[job[w].tx] = "declined" /\ stored[job[w].tx]
    BY DEF FInv, JobsDecline, BringsDecline
  <2>3. \A t \in Tx : t # job[w].tx => status'[t] = status[t] \/ status'[t] # "failed"
    BY <2>1 DEF SInv, TypeOK
  <2>4. job[w].at # "fail" => \A t \in Tx : status'[t] = status[t] \/ status'[t] # "failed"
    BY <2>1 DEF SInv, TypeOK
  <2> QED
    BY <2>2, <2>3, <2>4
<1>5. RequestsInOrder' /\ CallbacksAnswer'
  BY <1>2, <1>4 DEF FInv, RequestsInOrder, CallbacksAnswer
<1> QED
  BY <1>2, <1>3, <1>4, <1>5, ReasonStep

(* Every step of the STK module keeps the reasons.                         *)
LEMMA NextFInv == SInv /\ FInv /\ [Next]_vars => FInv'
<1> SUFFICES ASSUME SInv, FInv, [Next]_vars PROVE FInv'
  OBVIOUS
<1>1. CASE UNCHANGED vars
  BY <1>1 DEF vars, FInv, RequestsInOrder, CallbacksAnswer, JobsDecline, BringsDecline,
              RoundsStored, FailedForAReason
<1>2. ASSUME NEW w \in Worker, Process(w) \/ Dies(w) PROVE FInv'
  BY <1>2, ProcessFInv
<1> QED
  BY <1>1, <1>2, RequestFInv, WorldFInv, ReceiveFInv, PollFInv DEF Next, Poll, Worker

(* A payment is shown as failed only when its push was refused, its payer  *)
(* declined, or seven minutes went by: whatever callbacks are lost,        *)
(* repeated, early or overtaken by the poller.                             *)
THEOREM FailedWithAReason == Spec => []FailedForAReason
<1>1. FInv => FailedForAReason
  BY DEF FInv
<1> QED
  BY <1>1, InitFInv, NextFInv, StkInvariance, PTL DEF Spec
-------------------------------------------------------------------------------
(* What PaymentSpec promises.  A step books, shows, withdraws or mirrors   *)
(* one payment, or does nothing that the promise speaks of; SInv gives     *)
(* each of them its guard.                                                 *)

LEMMA InitPromise == Init => Promise!Init
BY DEF Init, Promise!Init, BookedFor, Completed

(* A row that is written with anything but "completed" shows its payment   *)
(* as arrived no longer, if it ever did.                                   *)
LEMMA WithdrawnStep ==
  ASSUME SInv, UNCHANGED <<books, donors>>, NEW t \in Tx,
         NEW s \in {"none", "pending", "failed"},
         UNCHANGED status \/ status' = [status EXCEPT ![t] = s]
  PROVE  Promise!Withdraw(t) \/ UNCHANGED Promise!vars
<1>1. BookedFor' = BookedFor
  BY DEF BookedFor
<1>2. CASE UNCHANGED status
  BY <1>1, <1>2 DEF Promise!vars, Completed
<1>3. CASE status' = [status EXCEPT ![t] = s]
  <2>1. Completed' = Completed \ {t}
    BY <1>3 DEF Completed, SInv, TypeOK
  <2> QED
    BY <1>1, <2>1 DEF Promise!Withdraw
<1> QED
  BY <1>2, <1>3

(* Requests, the payer, Safaricom, the clock and the reading steps of a    *)
(* worker write no more than one such row.                                 *)
LEMMA QuietSteps ==
  ASSUME SInv, [Next]_vars,
         \A w \in Worker : ~ (PostLedger(w) \/ PostFails(w) \/ MirrorDonation(w)
                                \/ CompletePayment(w))
  PROVE  \/ UNCHANGED <<status, books, donors>>
         \/ /\ UNCHANGED <<books, donors>>
            /\ \E t \in Tx, s \in {"none", "pending", "failed"} :
                 status' = [status EXCEPT ![t] = s]
<1>1. CASE \E t \in Tx : Request(t) \/ World(t)
  BY <1>1 DEF Request, CreatePending, FirePush, StoreCheckoutId, InitiationFailed,
              RequestDies, requestFrame, World, Answer, CallbackLost, GrowOlder, Leave,
              externalFrame, SetStatus
<1>2. ASSUME NEW w \in Worker, FindPayment(w) \/ DecideKind(w) \/ Dies(w)
      PROVE  UNCHANGED <<status, books, donors>>
  BY <1>2 DEF FindPayment, DecideKind, Dies
<1>3. ASSUME NEW w \in Worker, MarkFailed(w)
      PROVE  /\ UNCHANGED <<books, donors>>
             /\ \E t \in Tx : status' = [status EXCEPT ![t] = "failed"]
  <2>1. job[w].tx \in Tx
    BY <1>3, JobShape DEF MarkFailed, SInv, TypeOK
  <2> QED
    BY <1>3, <2>1 DEF MarkFailed, SetStatus
<1>4. ASSUME NEW w \in Webhook, NEW t \in Tx, Receive(w, t)
      PROVE  UNCHANGED <<status, books, donors>>
  BY <1>4 DEF Receive
<1>5. CASE PollStart \/ PollerDies \/ \E t \in Tx : PollQuery(t)
  BY <1>5 DEF PollStart, PollerDies, PollQuery, pollFrame
<1>6. ASSUME NEW t \in Tx, PollTimeout(t)
      PROVE  UNCHANGED <<books, donors>> /\ status' = [status EXCEPT ![t] = "failed"]
  BY <1>6 DEF PollTimeout, pollFrame, SetStatus
<1>7. CASE UNCHANGED vars
  BY <1>7 DEF vars
<1> QED
  BY <1>1, <1>2, <1>3, <1>4, <1>5, <1>6, <1>7 DEF Next, Poll, Process, Worker

(* The ledger post books the payment of the job, or finds it booked.       *)
LEMMA PostingBooks ==
  ASSUME SInv, NEW w \in Worker, PostLedger(w) \/ PostFails(w)
  PROVE  Promise!Book(job[w].tx) \/ UNCHANGED Promise!vars
<1> DEFINE t   == job[w].tx
           new == [key |-> t, tx |-> t, kind |-> job[w].kind]
<1>1. job[w].at = "post" /\ books' \in {books, Posted(w)} /\ UNCHANGED <<status, donors>>
  BY DEF PostLedger, PostFails
<1>2. t \in Tx /\ new \in Transfer
  BY <1>1, JobShape DEF SInv, TypeOK, Transfer
<1>3. CASE books' = books
  BY <1>1, <1>3 DEF Promise!vars, BookedFor, Completed
<1>4. CASE books' # books
  <2>1. books' = books \cup {new} /\ ~ \E b \in books : b.key = t
    BY <1>1, <1>4 DEF Posted, LedgerKey
  <2>2. \A b \in books : b.tx # t
    BY <2>1 DEF SInv, KeyedByPayment
  <2>3. \A u \in Tx : { b \in books' : b.tx = u } =
                        IF u = t THEN {new} ELSE { b \in books : b.tx = u }
    BY <2>1, <2>2
  <2> HIDE DEF new, t
  <2>4. BookedFor[t] = {} /\ BookedFor' = [BookedFor EXCEPT ![t] = {new}]
    BY <1>2, <2>2, <2>3 DEF BookedFor
  <2>5. UNCHANGED <<Completed, donors>>
    BY <1>1 DEF Completed
  <2> QED
    BY <1>2, <2>4, <2>5 DEF Promise!Book, t
<1> QED
  BY <1>3, <1>4

(* Mirroring and completing come after the post.                           *)
LEMMA ClosingShows ==
  ASSUME SInv, NEW w \in Worker, MirrorDonation(w) \/ CompletePayment(w)
  PROVE  \/ Promise!PutOnWall(job[w].tx) \/ Promise!Show(job[w].tx)
         \/ UNCHANGED Promise!vars
<1> DEFINE t == job[w].tx
<1>1. job[w].at \in {"mirror", "complete"} /\ t \in Tx /\ UNCHANGED books
  BY JobShape DEF SInv, TypeOK, MirrorDonation, CompletePayment
<1>2. BookedFor[t] # {} /\ BookedFor' = BookedFor
  BY <1>1 DEF SInv, JobsBacked, OnBooks, BookedFor
<1>3. CASE MirrorDonation(w)
  BY <1>2, <1>3 DEF MirrorDonation, Promise!PutOnWall, Promise!vars, Completed
<1>4. CASE CompletePayment(w)
  <2>1. Completed' = Completed \cup {t} /\ UNCHANGED donors
    BY <1>1, <1>4 DEF CompletePayment, SetStatus, Completed, SInv, TypeOK
  <2> QED
    BY <1>2, <2>1 DEF Promise!Show
<1> QED
  BY <1>3, <1>4

LEMMA NextPromise == SInv /\ [Next]_vars => [Promise!Next]_Promise!vars
<1> SUFFICES ASSUME SInv, [Next]_vars PROVE [Promise!Next]_Promise!vars
  OBVIOUS
<1>1. ASSUME NEW w \in Worker, PostLedger(w) \/ PostFails(w)
      PROVE  Promise!Next \/ UNCHANGED Promise!vars
  <2>1. job[w].tx \in Tx
    BY <1>1, JobShape DEF PostLedger, PostFails, SInv, TypeOK
  <2> QED
    BY <1>1, <2>1, PostingBooks DEF Promise!Next
<1>2. ASSUME NEW w \in Worker, MirrorDonation(w) \/ CompletePayment(w)
      PROVE  Promise!Next \/ UNCHANGED Promise!vars
  <2>1. job[w].tx \in Tx
    BY <1>2, JobShape DEF MirrorDonation, CompletePayment, SInv, TypeOK
  <2> QED
    BY <1>2, <2>1, ClosingShows DEF Promise!Next
<1>3. CASE \A w \in Worker : ~ (PostLedger(w) \/ PostFails(w) \/ MirrorDonation(w)
                                  \/ CompletePayment(w))
  <2>1. CASE UNCHANGED <<status, books, donors>>
    BY <2>1 DEF Promise!vars, BookedFor, Completed
  <2>2. ASSUME NEW t \in Tx, NEW s \in {"none", "pending", "failed"},
               UNCHANGED <<books, donors>>, status' = [status EXCEPT ![t] = s]
        PROVE  Promise!Next \/ UNCHANGED Promise!vars
    BY <2>2, WithdrawnStep DEF Promise!Next
  <2> QED
    BY <1>3, <2>1, <2>2, QuietSteps
<1> QED
  BY <1>1, <1>2, <1>3

(* STK payments implement PaymentSpec, whatever requests, deliveries,      *)
(* payers and the poller do to one another.                                *)
THEOREM StkPromise == Spec => ImplementsPaymentSpec
BY InitPromise, NextPromise, StkInvariance, PTL DEF Spec, ImplementsPaymentSpec, Promise!Spec
===============================================================================
