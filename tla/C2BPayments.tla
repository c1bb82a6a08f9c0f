----------------------------- MODULE C2BPayments ------------------------------
(***************************************************************************)
(* M-Pesa paybill payments nobody asked for in the app: Safaricom has      *)
(* moved the money and posts a confirmation, the webhook                   *)
(* (webhooks/mpesa-c2b.routes.ts) keeps it as an MpesaCallback row and     *)
(* queues a job, and processConfirmation (mpesa-c2b.service.ts) puts the   *)
(* payment on the ledger.                                                  *)
(*                                                                         *)
(* Safaricom may send a confirmation again, with the same body or with     *)
(* another (the balance it quotes has changed).  The row is deduplicated   *)
(* by the hash of the body, the job by the id of the row, the transfer by  *)
(* the receipt.  BullMQ (external) gives a failed job further attempts,    *)
(* and hands a job to another worker when the one that has it stalls,      *)
(* which may be dead or only slow.  The ledger is used through its promise *)
(* (LedgerSpec): one transfer per key, replayed when the key comes again.  *)
(***************************************************************************)
EXTENDS Integers

CONSTANTS
  Payment,     \* payments, by their M-Pesa receipt
  Body,        \* request bodies that confirm them
  Receipt,     \* Receipt[b]: the payment that b confirms
  Public,      \* payments to a group that takes public donations
  Delivery,    \* deliveries of confirmations, of any body
  Worker,      \* concurrent runs of the reconcile-mpesa worker
  Attempts,    \* attempts of a job (the code's 8)
  MaxStalls    \* stalls BullMQ allows a job (its default of 1)

ASSUME ReceiptAssumption ==
  Receipt \in [Body -> Payment] /\ Public \subseteq Payment

ASSUME BoundAssumption == Attempts \in Nat \ {0} /\ MaxStalls \in Nat

VARIABLES
  hook,        \* hook[d]: what the webhook is doing with delivery d
  rows,        \* bodies with an MpesaCallback row
  processed,   \* those of them with processedAt set
  job,         \* job[b]: the job of b's row
  tries,       \* tries[b]: its failed attempts
  stalls,      \* stalls[b]: how often it stalled
  run,         \* run[w]: what worker w is doing
  member,      \* payments whose payer is an active member of the group
  books,       \* transfers on the ledger: [key, payment, kind]
  donors       \* payments with a Donation row

queueVars == <<job, tries, stalls>>

c2bVars == <<hook, rows, processed, queueVars, run, member, books, donors>>

Idle == [at |-> "idle"]
Over == [at |-> "over"]

Kind == {"contribution", "donation"}

Run ==
  {Idle}
    \cup [at : {"finding", "deciding", "finishing"}, body : Body, held : BOOLEAN]
    \cup [at : {"posting", "mirroring"}, body : Body, held : BOOLEAN, kind : Kind]

C2BTypeOK ==
  /\ hook \in [Delivery -> {Idle, Over} \cup [at : {"creating", "enqueueing"}, body : Body]]
  /\ processed \subseteq rows /\ rows \subseteq Body
  /\ job \in [Body -> {"none", "waiting", "active", "done", "dropped"}]
  /\ tries \in [Body -> 0 .. Attempts]
  /\ stalls \in [Body -> 0 .. MaxStalls]
  /\ run \in [Worker -> Run]
  /\ member \subseteq Payment /\ donors \subseteq Payment
  /\ books \subseteq [key : Payment, payment : Payment, kind : Kind]

C2BInit ==
  /\ hook  = [d \in Delivery |-> Idle]
  /\ rows  = {} /\ processed = {}
  /\ job   = [b \in Body |-> "none"]
  /\ tries = [b \in Body |-> 0] /\ stalls = [b \in Body |-> 0]
  /\ run   = [w \in Worker |-> Idle]
  /\ member \in SUBSET Payment
  /\ books = {} /\ donors = {}

-------------------------------------------------------------------------------
(* POST /webhooks/daraja/c2b/confirmation: 200 whatever happens.           *)

Hook(d, h) == hook' = [hook EXCEPT ![d] = h]

hookFrame == <<processed, tries, stalls, run, member, books, donors>>

FindDuplicate(d, b) ==
  /\ hook[d] = Idle
  /\ Hook(d, IF b \in rows THEN Over ELSE [at |-> "creating", body |-> b])
  /\ UNCHANGED <<rows, job, hookFrame>>

(* The hash is unique: a row created meanwhile is an error, and swallowed. *)
CreateRow(d) ==
  /\ hook[d].at = "creating"
  /\ LET b == hook[d].body
     IN /\ rows' = rows \cup {b}
        /\ Hook(d, IF b \in rows THEN Over ELSE [at |-> "enqueueing", body |-> b])
  /\ UNCHANGED <<job, hookFrame>>

(* A job id the queue knows is not added again.                            *)
Enqueue(d) ==
  /\ hook[d].at = "enqueueing"
  /\ job' = [job EXCEPT ![hook[d].body] = IF @ = "none" THEN "waiting" ELSE @]
  /\ Hook(d, Over)
  /\ UNCHANGED <<rows, hookFrame>>

(* The database or Redis fails, which is swallowed, or the server dies.    *)
HookStops(d) ==
  /\ hook[d].at \in {"creating", "enqueueing"}
  /\ Hook(d, Over)
  /\ UNCHANGED <<rows, job, hookFrame>>

(* Payers join the group and leave it.                                     *)
Move(p) ==
  /\ member' = IF p \in member THEN member \ {p} ELSE member \cup {p}
  /\ UNCHANGED <<hook, rows, processed, queueVars, run, books, donors>>

-------------------------------------------------------------------------------
(* BullMQ (external).                                                      *)

Go(w, r) == run' = [run EXCEPT ![w] = r]

queueFrame == <<hook, rows, processed, member, books, donors>>

TakeJob(w, b) ==
  /\ run[w] = Idle
  /\ job[b] = "waiting"
  /\ job' = [job EXCEPT ![b] = "active"]
  /\ Go(w, [at |-> "finding", body |-> b, held |-> TRUE])
  /\ UNCHANGED <<tries, stalls, queueFrame>>

(* The worker of a job lost its lock: it is dead, or goes on regardless.   *)
Stall(w) ==
  /\ run[w] # Idle /\ run[w].held
  /\ LET b == run[w].body
     IN IF stalls[b] < MaxStalls
        THEN /\ stalls' = [stalls EXCEPT ![b] = @ + 1]
             /\ job' = [job EXCEPT ![b] = "waiting"]
        ELSE /\ job' = [job EXCEPT ![b] = "dropped"]
             /\ UNCHANGED stalls
  /\ Go(w, Idle) \/ Go(w, [run[w] EXCEPT !.held = FALSE])
  /\ UNCHANGED <<tries, queueFrame>>

(* Only who holds the job decides what becomes of it.                      *)
Return(w) ==
  LET b == run[w].body
  IN /\ job' = IF run[w].held THEN [job EXCEPT ![b] = "done"] ELSE job
     /\ Go(w, Idle)
     /\ UNCHANGED <<tries, stalls>>

ThrowUncounted(w) ==                     \* defect: attempts without end
  LET b == run[w].body
  IN /\ IF run[w].held
        THEN job' = [job EXCEPT ![b] = "waiting"] /\ UNCHANGED tries
        ELSE UNCHANGED <<job, tries>>
     /\ Go(w, Idle)
     /\ UNCHANGED stalls

ThrowOneTooMany(w) ==                    \* defect: off by one
  LET b == run[w].body
  IN /\ IF run[w].held
        THEN /\ tries' = [tries EXCEPT ![b] = @ + 1]
             /\ job' = [job EXCEPT ![b] = IF tries[b] <= Attempts
                                          THEN "waiting" ELSE "dropped"]
        ELSE UNCHANGED <<job, tries>>
     /\ Go(w, Idle)
     /\ UNCHANGED stalls

(* The error is thrown again; the note of it on the row is left out.       *)
Throw(w) ==
  LET b == run[w].body
  IN /\ IF run[w].held
        THEN /\ tries' = [tries EXCEPT ![b] = @ + 1]
             /\ job' = [job EXCEPT ![b] = IF tries[b] + 1 < Attempts
                                          THEN "waiting" ELSE "dropped"]
        ELSE UNCHANGED <<job, tries>>
     /\ Go(w, Idle)
     /\ UNCHANGED stalls

-------------------------------------------------------------------------------
(* processConfirmation.                                                    *)

Paid(w) == Receipt[run[w].body]

FindRow(w) ==
  /\ run[w].at = "finding"
  /\ IF run[w].body \in processed
     THEN Return(w)
     ELSE Go(w, [run[w] EXCEPT !.at = "deciding"]) /\ UNCHANGED queueVars
  /\ UNCHANGED <<hook, rows, processed, member, books, donors>>

To(w, step, kind) ==
  Go(w, [at |-> step, body |-> run[w].body, held |-> run[w].held, kind |-> kind])

DecideMirrorsFirst(w) ==                 \* defect: donor wall before the ledger
  /\ run[w].at = "deciding"
  /\ IF Paid(w) \in member
     THEN /\ To(w, "posting", "contribution")
          /\ UNCHANGED <<queueVars, donors>>
     ELSE IF Paid(w) \in Public
     THEN /\ To(w, "posting", "contribution")
          /\ donors' = donors \cup {Paid(w)}
          /\ UNCHANGED queueVars
     ELSE Throw(w) /\ UNCHANGED donors
  /\ UNCHANGED <<hook, rows, processed, member, books>>

(* A member contributes, anyone may donate to a public group, and the rest *)
(* is refused.                                                             *)
Decide(w) ==
  /\ run[w].at = "deciding"
  /\ IF Paid(w) \in member
     THEN To(w, "posting", "contribution") /\ UNCHANGED queueVars
     ELSE IF Paid(w) \in Public
     THEN To(w, "posting", "donation") /\ UNCHANGED queueVars
     ELSE Throw(w)
  /\ UNCHANGED <<hook, rows, processed, member, books, donors>>

(* The key is mpesa-c2b:{receipt}.                                         *)
KeyOfRow(w) == run[w].body               \* defect: mpesa-c2b:{callback id}

LedgerKey(w) == Paid(w)

Posted(w) ==
  IF \E t \in books : t.key = LedgerKey(w)
  THEN books
  ELSE books \cup {[key |-> LedgerKey(w), payment |-> Paid(w), kind |-> run[w].kind]}

Finishing(w) == [at |-> "finishing", body |-> run[w].body, held |-> run[w].held]

Post(w) ==
  /\ run[w].at = "posting"
  /\ books' = Posted(w)
  /\ Go(w, IF run[w].kind = "donation"
           THEN [run[w] EXCEPT !.at = "mirroring"] ELSE Finishing(w))
  /\ UNCHANGED <<hook, rows, processed, queueVars, member, donors>>

(* Donation.reference is unique, and nothing catches the error.            *)
Mirror(w) ==
  /\ run[w].at = "mirroring"
  /\ donors' = donors \cup {Paid(w)}
  /\ IF Paid(w) \in donors
     THEN Throw(w)
     ELSE Go(w, Finishing(w)) /\ UNCHANGED queueVars
  /\ UNCHANGED <<hook, rows, processed, member, books>>

Finish(w) ==
  /\ run[w].at = "finishing"
  /\ processed' = processed \cup {run[w].body}
  /\ Return(w)
  /\ UNCHANGED <<hook, rows, member, books, donors>>

FailsButFinishes(w) ==                   \* defect: the ledger's error is ignored
  /\ run[w].at = "posting"
  /\ Go(w, Finishing(w))
  /\ UNCHANGED <<hook, rows, processed, queueVars, member, books, donors>>

(* A call fails: the group or the data of the payment are no good, or the  *)
(* database is down; what was asked of it may have been done.              *)
Fails(w) ==
  /\ run[w].at \in {"deciding", "posting", "mirroring", "finishing"}
  /\ books' \in IF run[w].at = "posting" THEN {books, Posted(w)} ELSE {books}
  /\ Throw(w)
  /\ UNCHANGED <<hook, rows, processed, member, donors>>

Work(w) ==
  \/ \E b \in Body : TakeJob(w, b)
  \/ FindRow(w) \/ Decide(w) \/ Post(w) \/ Mirror(w) \/ Finish(w) \/ Fails(w)

C2BNext ==
  \/ \E d \in Delivery :
       (\E b \in Body : FindDuplicate(d, b)) \/ CreateRow(d) \/ Enqueue(d) \/ HookStops(d)
  \/ \E p \in Payment : Move(p)
  \/ \E w \in Worker : Work(w) \/ Stall(w)

C2BSpec == C2BInit /\ [][C2BNext]_c2bVars

(* Workers take the jobs that wait and go on with those they have; nothing *)
(* is assumed of Safaricom, the webhook or the payers.                     *)
C2BFairSpec == C2BSpec /\ \A w \in Worker : WF_c2bVars(Work(w))

-------------------------------------------------------------------------------
(* Properties.                                                             *)

OnBooks(p) == \E t \in books : t.payment = p

(* A confirmation marked processed has its money on the ledger, whichever  *)
(* attempt, worker or copy of it did so.                                   *)
ProcessedOnBooks == \A b \in processed : OnBooks(Receipt[b])

(* One receipt is one transfer, though it comes in several bodies, is run  *)
(* by several workers at a time, or is retried after its transfer went     *)
(* through and its payer changed sides.                                    *)
OnBooksOnce == \A s, t \in books : s.payment = t.payment => s = t

(* A donation that came by M-Pesa is on the donor wall only if its money   *)
(* is on the ledger.                                                       *)
DonorsBacked == \A p \in donors : OnBooks(p)

(* The webhook and the workers keep what PaymentSpec promises: one         *)
(* transfer per receipt, booked for good and before one of its             *)
(* confirmations is marked processed or its payer put on the donor wall;   *)
(* and a confirmation stays processed.                                     *)
BookedFor == [p \in Payment |-> { t \in books : t.payment = p }]

Arrived == { Receipt[b] : b \in processed }

Promise ==
  INSTANCE PaymentSpec WITH
    Transfer <- [key : Payment, payment : Payment, kind : Kind], Final <- TRUE,
    booked <- BookedFor, arrived <- Arrived, walled <- donors

ImplementsPaymentSpec == Promise!Spec

(* A confirmation that was queued is dealt with: its job ends, done or     *)
(* given up after its attempts, and does not circle for ever.              *)
QueuedSettles ==
  \A b \in Body : job[b] = "waiting" ~> job[b] \in {"done", "dropped"}
===============================================================================
