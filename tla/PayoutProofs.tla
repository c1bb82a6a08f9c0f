----------------------------- MODULE PayoutProofs -----------------------------
(***************************************************************************)
(* Proofs about Payouts, for every set of payouts, officers, requests,     *)
(* worker runs and callbacks.                                              *)
(*                                                                         *)
(* Signatures are never taken back, so whatever may still lead to a        *)
(* payment is safe once its payout has them: a request past the count, the *)
(* status "pending" it writes, and a worker run that read that status.     *)
(***************************************************************************)
EXTENDS Payouts, FiniteSetTheorems, TLAPS

Signed(p) == Required[p] > 1 => Cardinality(signed[p]) >= Required[p]

PendingSigned == \A p \in Payout : status[p] = "pending" => Signed(p)

ReleasesSigned ==
  \A r \in Request : web[r].at = "releasing" => Signed(web[r].payout)

RunsSigned == \A x \in Run : run[x].at = "paying" => Signed(run[x].payout)

PaymentsSigned ==
  \A v \in Conversation : payment[v] # Free => Signed(payment[v].payout)

PInv ==
  /\ TypeOK
  /\ PendingSigned
  /\ ReleasesSigned
  /\ RunsSigned
  /\ PaymentsSigned

-------------------------------------------------------------------------------
(* Types.                                                                  *)

(* What a request looks like at each place.                                *)
LEMMA WebShape ==
  ASSUME TypeOK, NEW r \in Request
  PROVE  /\ web[r].at \in {"signing", "counting"} =>
              /\ web[r].payout \in Payout
              /\ web[r].officer \in Officer
              /\ [web[r] EXCEPT !.at = "counting"] \in WebJob
              /\ [web[r] EXCEPT !.at = "counting"].at = "counting"
         /\ web[r].at \in {"releasing", "enqueueing", "cancelling"} =>
              /\ web[r].payout \in Payout
              /\ [web[r] EXCEPT !.at = "enqueueing"] \in WebJob
              /\ [web[r] EXCEPT !.at = "enqueueing"].at = "enqueueing"
         /\ Over \in WebJob
<1>1. web[r] \in WebJob
  BY DEF TypeOK
<1> QED
  BY <1>1 DEF WebJob, Idle, Over

(* What a worker run looks like at each place.                             *)
LEMMA RunShape ==
  ASSUME TypeOK, NEW x \in Run
  PROVE  /\ run[x] \notin {Idle, Over} => run[x].payout \in Payout
         /\ run[x].at \in {"checking", "paying", "refusing", "recording"} =>
              run[x].payout \in Payout
         /\ run[x].at = "checking" =>
              \A a \in {"paying", "refusing"} :
                /\ [run[x] EXCEPT !.at = a] \in RunJob
                /\ [run[x] EXCEPT !.at = a].at = a
                /\ [run[x] EXCEPT !.at = a].payout = run[x].payout
         /\ run[x].at = "recording" => run[x].conv \in Conversation
         /\ Idle \in RunJob /\ Over \in RunJob
<1>1. run[x] \in RunJob
  BY DEF TypeOK
<1> QED
  BY <1>1 DEF RunJob, Idle, Over

(* What a payment that was made looks like.                                *)
LEMMA PaymentShape ==
  ASSUME TypeOK, NEW v \in Conversation
  PROVE  /\ payment[v] # Free => payment[v].payout \in Payout
         /\ payment[v].outcome = "open" =>
              /\ payment[v] # Free
              /\ \A o \in {"settled", "rejected"} :
                   /\ [payment[v] EXCEPT !.outcome = o] \in Payment
                   /\ [payment[v] EXCEPT !.outcome = o].payout = payment[v].payout
<1>1. payment[v] \in Payment
  BY DEF TypeOK
<1> QED
  BY <1>1 DEF Payment, Free

(* Creating, signing, releasing and cancelling keep the types.             *)
LEMMA WebType ==
  ASSUME TypeOK,
         \/ \E p \in Payout : Create(p)
         \/ \E r \in Request :
              \/ \E p \in Payout : CancelRead(r, p) \/ \E o \in Officer : SignRead(r, p, o)
              \/ SignInsert(r) \/ SignCount(r) \/ Release(r) \/ Enqueue(r)
              \/ CancelWrite(r) \/ RequestDies(r)
  PROVE  TypeOK'
<1> USE DEF TypeOK, SetStatus, Web, webFrame, darajaVars, PayoutStatus
<1>1. ASSUME NEW p \in Payout, Create(p) PROVE TypeOK'
  BY <1>1 DEF Create
<1>2. ASSUME NEW r \in Request, NEW p \in Payout, CancelRead(r, p) PROVE TypeOK'
  BY <1>2 DEF CancelRead, WebJob
<1>3. ASSUME NEW r \in Request, NEW p \in Payout, NEW o \in Officer, SignRead(r, p, o)
      PROVE  TypeOK'
  BY <1>3 DEF SignRead, WebJob
<1>4. ASSUME NEW r \in Request, SignInsert(r) PROVE TypeOK'
  <2>1. web[r].payout \in Payout /\ web[r].officer \in Officer
    BY <1>4, WebShape DEF SignInsert
  <2>2. signed' \in [Payout -> SUBSET Officer]
    BY <1>4, <2>1 DEF SignInsert
  <2>3. [web[r] EXCEPT !.at = "counting"] \in WebJob
    BY <1>4, WebShape DEF SignInsert
  <2>4. web' \in [Request -> WebJob]
    BY <1>4, <2>3 DEF SignInsert
  <2> QED
    BY <1>4, <2>2, <2>4 DEF SignInsert
<1>5. ASSUME NEW r \in Request, SignCount(r) PROVE TypeOK'
  <2>1. web[r].payout \in Payout
    BY <1>5, WebShape DEF SignCount
  <2>2. [at |-> "releasing", payout |-> web[r].payout] \in WebJob /\ Over \in WebJob
    BY <2>1 DEF WebJob
  <2> QED
    BY <1>5, <2>2 DEF SignCount
<1>6. ASSUME NEW r \in Request, Release(r) PROVE TypeOK'
  BY <1>6, WebShape DEF Release
<1>7. ASSUME NEW r \in Request, Enqueue(r) PROVE TypeOK'
  <2>1. web[r].payout \in Payout /\ Over \in WebJob
    BY <1>7, WebShape DEF Enqueue
  <2>2. jobs' \in [Payout -> Nat]
    BY <1>7, <2>1 DEF Enqueue
  <2> QED
    BY <1>7, <2>1, <2>2 DEF Enqueue
<1>8. ASSUME NEW r \in Request, CancelWrite(r) \/ RequestDies(r) PROVE TypeOK'
  BY <1>8, WebShape DEF CancelWrite, RequestDies, WebJob
<1> QED
  BY <1>1, <1>2, <1>3, <1>4, <1>5, <1>6, <1>7, <1>8

(* The worker keeps the types.                                             *)
LEMMA RunType ==
  ASSUME TypeOK, NEW x \in Run,
         \/ \E p \in Payout : TakeJob(x, p)
         \/ CheckStatus(x) \/ Refuse(x) \/ Pay(x) \/ Record(x) \/ RunDies(x)
  PROVE  TypeOK'
<1> USE DEF TypeOK, SetStatus, Worker, runFrame, PayoutStatus
<1>0. Idle \in RunJob /\ Over \in RunJob
  BY DEF RunJob
<1>1. ASSUME NEW p \in Payout, TakeJob(x, p) PROVE TypeOK'
  BY <1>1 DEF TakeJob, RunJob
<1>2. CASE CheckStatus(x)
  <2>1. \A a \in {"paying", "refusing"} : [run[x] EXCEPT !.at = a] \in RunJob
    BY <1>2, RunShape DEF CheckStatus
  <2>2. run' \in [Run -> RunJob]
    BY <1>0, <1>2, <2>1 DEF CheckStatus
  <2> QED
    BY <1>2, <2>2 DEF CheckStatus
<1>3. CASE Refuse(x)
  BY <1>0, <1>3, RunShape DEF Refuse
<1>4. CASE Pay(x)
  <2>1. run[x].payout \in Payout
    BY <1>4, RunShape DEF Pay
  <2>2. \A v \in Conversation :
          /\ [payout |-> run[x].payout, outcome |-> "open"] \in Payment
          /\ [at |-> "recording", payout |-> run[x].payout, conv |-> v] \in RunJob
    BY <2>1 DEF Payment, RunJob
  <2> QED
    BY <1>0, <1>4, <2>2 DEF Pay
<1>5. CASE Record(x)
  BY <1>0, <1>5, RunShape DEF Record
<1>6. CASE RunDies(x)
  <2>1. run[x].payout \in Payout
    BY <1>6, RunShape DEF RunDies
  <2>2. reruns' \in 0 .. MaxReruns
    BY <1>6, FinitenessAssumption DEF RunDies
  <2> QED
    BY <1>0, <1>6, <2>1, <2>2 DEF RunDies
<1> QED
  BY <1>1, <1>2, <1>3, <1>4, <1>5, <1>6

(* Daraja and its callbacks keep the types.                                *)
LEMMA DarajaType ==
  ASSUME TypeOK,
         \/ \E v \in Conversation : Settle(v) \/ TimeOut(v)
         \/ \E h \in Handler :
              (\E n \in notices : ResultRead(h, n)) \/ ResultWrite(h) \/ CallbackDies(h)
  PROVE  TypeOK'
<1> USE DEF TypeOK
<1>1. ASSUME NEW v \in Conversation, Settle(v) PROVE TypeOK'
  <2>1. PICK o \in {"settled", "rejected"} :
           /\ payment' = [payment EXCEPT ![v].outcome = o]
           /\ notices' = notices \cup {[conv |-> v, ok |-> o = "settled"]}
    BY <1>1 DEF Settle
  <2>2. payment' \in [Conversation -> Payment]
    BY <1>1, <2>1, PaymentShape DEF Settle
  <2>3. notices' \subseteq Notice
    <3>1. [conv |-> v, ok |-> o = "settled"] \in Notice
      BY Zenon DEF Notice
    <3> QED
      BY <2>1, <3>1
  <2> QED
    BY <1>1, <2>2, <2>3 DEF Settle
<1>2. ASSUME NEW v \in Conversation, TimeOut(v) PROVE TypeOK'
  <2>1. [conv |-> v, ok |-> TimeoutResult] \in Notice
    BY DEF TimeoutResult, Notice
  <2> QED
    BY <1>2, <2>1 DEF TimeOut
<1>3. ASSUME NEW h \in Handler, NEW n \in notices, ResultRead(h, n) PROVE TypeOK'
  BY <1>3 DEF ResultRead, Callback, callFrame, darajaVars, Notice
<1>4. ASSUME NEW h \in Handler, ResultWrite(h) PROVE TypeOK'
  <2>1. call[h].payout \in Payout
    BY <1>4 DEF ResultWrite, Idle, Over
  <2> QED
    BY <1>4, <2>1
    DEF ResultWrite, SetStatus, Callback, callFrame, darajaVars, PayoutStatus
<1>5. ASSUME NEW h \in Handler, CallbackDies(h) PROVE TypeOK'
  BY <1>5 DEF CallbackDies, Callback, callFrame, darajaVars
<1> QED
  BY <1>1, <1>2, <1>3, <1>4, <1>5

-------------------------------------------------------------------------------
(* Signatures.                                                             *)

(* A payout that has its signatures keeps them.                            *)
LEMMA SignedStays ==
  ASSUME TypeOK, TypeOK', NEW p \in Payout, signed[p] \subseteq signed'[p], Signed(p)
  PROVE  Signed(p)'
<1>1. IsFiniteSet(signed'[p])
  BY FinitenessAssumption, FS_Subset DEF TypeOK
<1>2. IsFiniteSet(signed[p])
  BY FinitenessAssumption, FS_Subset DEF TypeOK
<1>3. Cardinality(signed[p]) <= Cardinality(signed'[p])
  BY <1>1, FS_Subset
<1>4. Cardinality(signed[p]) \in Nat /\ Cardinality(signed'[p]) \in Nat
  BY <1>1, <1>2, FS_CardinalityType
<1>5. Required[p] \in Nat
  BY RequiredAssumption
<1> QED
  BY <1>3, <1>4, <1>5 DEF Signed

(* No step takes a signature back.                                         *)
LEMMA SignaturesGrow ==
  ASSUME TypeOK, [Next]_vars
  PROVE  \A p \in Payout : signed[p] \subseteq signed'[p]
<1>1. signed' = signed \/ \E r \in Request : SignInsert(r)
  BY DEF Next, Create, CancelRead, SignRead, SignCount, Release, Enqueue,
         CancelWrite, RequestDies, webFrame, TakeJob, CheckStatus, Refuse, Pay,
         Record, RunDies, runFrame, Settle, TimeOut, ResultRead, ResultWrite,
         CallbackDies, callFrame, vars
<1>2. ASSUME NEW r \in Request, SignInsert(r)
      PROVE  \A p \in Payout : signed[p] \subseteq signed'[p]
  BY <1>2, WebShape DEF SignInsert, TypeOK
<1> QED
  BY <1>1, <1>2

(* A step that leaves the signatures enough where they were has to answer  *)
(* only for the releases, statuses, runs and payments it changes.          *)
LEMMA SignedStep ==
  ASSUME PInv, TypeOK', \A p \in Payout : signed[p] \subseteq signed'[p],
         \A p \in Payout : \/ status'[p] = status[p]
                           \/ status'[p] # "pending"
                           \/ Signed(p)
                           \/ Required[p] = 1,
         \A r \in Request : \/ web'[r] = web[r]
                            \/ web'[r].at # "releasing"
                            \/ web'[r].payout \in Payout /\ Signed(web'[r].payout),
         \A x \in Run : \/ run'[x] = run[x]
                        \/ run'[x].at # "paying"
                        \/ run'[x].payout \in Payout /\ Signed(run'[x].payout),
         \A v \in Conversation :
           \/ payment'[v] = payment[v]
           \/ payment'[v].payout \in Payout /\ Signed(payment'[v].payout)
  PROVE  PInv'
<1> USE DEF PInv
<1>1. \A p \in Payout : Signed(p) => Signed(p)'
  BY SignedStays
<1>2. \A p \in Payout : Required[p] = 1 => Signed(p)'
  BY DEF Signed
<1>3. PendingSigned'
  BY <1>1, <1>2 DEF PendingSigned
<1>4. ReleasesSigned'
  <2> SUFFICES ASSUME NEW r \in Request, web'[r].at = "releasing"
               PROVE  Signed(web[r].payout)'
    BY DEF ReleasesSigned
  <2>1. web[r].at = "releasing" => web[r].payout \in Payout
    BY WebShape DEF TypeOK
  <2> QED
    BY <1>1, <2>1 DEF ReleasesSigned, Signed
<1>5. RunsSigned'
  <2> SUFFICES ASSUME NEW x \in Run, run'[x].at = "paying"
               PROVE  Signed(run[x].payout)'
    BY DEF RunsSigned
  <2>1. run[x].at = "paying" => run[x].payout \in Payout
    BY RunShape DEF TypeOK
  <2> QED
    BY <1>1, <2>1 DEF RunsSigned, Signed
<1>6. PaymentsSigned'
  <2> SUFFICES ASSUME NEW v \in Conversation, payment'[v] # Free
               PROVE  Signed(payment[v].payout)'
    BY DEF PaymentsSigned, Free
  <2>1. payment[v] # Free => payment[v].payout \in Payout
    BY PaymentShape DEF TypeOK
  <2> QED
    BY <1>1, <2>1 DEF PaymentsSigned, Signed
<1> QED
  BY <1>3, <1>4, <1>5, <1>6

-------------------------------------------------------------------------------
(* The invariant.                                                          *)

(* At the start there is nothing to answer for.                            *)
LEMMA InitPInv == Init => PInv
<1> SUFFICES ASSUME Init PROVE PInv
  OBVIOUS
<1>1. TypeOK
  BY FinitenessAssumption DEF Init, TypeOK, PayoutStatus, WebJob, RunJob, Payment
<1>2. PendingSigned /\ ReleasesSigned /\ RunsSigned /\ PaymentsSigned
  BY DEF Init, PendingSigned, ReleasesSigned, RunsSigned, PaymentsSigned, Idle, Free
<1> QED
  BY <1>1, <1>2 DEF PInv

(* Requests: only a count that was enough leads to a release, and only a   *)
(* release or a single required signature to "pending".                    *)
LEMMA WebSigned ==
  ASSUME PInv, TypeOK', \A p \in Payout : signed[p] \subseteq signed'[p],
         \/ \E p \in Payout : Create(p)
         \/ \E r \in Request :
              \/ \E p \in Payout : CancelRead(r, p) \/ \E o \in Officer : SignRead(r, p, o)
              \/ SignInsert(r) \/ SignCount(r) \/ Release(r) \/ Enqueue(r)
              \/ CancelWrite(r) \/ RequestDies(r)
  PROVE  PInv'
<1> USE DEF PInv, TypeOK, SetStatus, Web, webFrame, darajaVars
<1>1. ASSUME NEW p \in Payout, Create(p) PROVE PInv'
  BY <1>1, SignedStep, RequiredAssumption DEF Create
<1>2. ASSUME NEW r \in Request, NEW p \in Payout, CancelRead(r, p) PROVE PInv'
  BY <1>2, SignedStep DEF CancelRead
<1>3. ASSUME NEW r \in Request, NEW p \in Payout, NEW o \in Officer, SignRead(r, p, o)
      PROVE  PInv'
  BY <1>3, SignedStep DEF SignRead
<1>4. ASSUME NEW r \in Request, SignInsert(r) PROVE PInv'
  BY <1>4, SignedStep, WebShape DEF SignInsert
<1>5. ASSUME NEW r \in Request, SignCount(r) PROVE PInv'
  BY <1>5, SignedStep, WebShape DEF SignCount, Enough, Signed, Over
<1>6. ASSUME NEW r \in Request, Release(r) PROVE PInv'
  BY <1>6, SignedStep, WebShape DEF Release, ReleasesSigned
<1>7. ASSUME NEW r \in Request, Enqueue(r) PROVE PInv'
  BY <1>7, SignedStep DEF Enqueue, Over
<1>8. ASSUME NEW r \in Request, CancelWrite(r) \/ RequestDies(r) PROVE PInv'
  BY <1>8, SignedStep, WebShape DEF CancelWrite, RequestDies, Over
<1> QED
  BY <1>1, <1>2, <1>3, <1>4, <1>5, <1>6, <1>7, <1>8

(* The worker: it pays what it saw pending, and no signature has gone      *)
(* since.                                                                  *)
LEMMA RunSigned ==
  ASSUME PInv, TypeOK', \A p \in Payout : signed[p] \subseteq signed'[p],
         NEW x \in Run,
         \/ \E p \in Payout : TakeJob(x, p)
         \/ CheckStatus(x) \/ Refuse(x) \/ Pay(x) \/ Record(x) \/ RunDies(x)
  PROVE  PInv'
<1> USE DEF PInv, TypeOK, SetStatus, Worker, runFrame
<1>1. ASSUME NEW p \in Payout, TakeJob(x, p) PROVE PInv'
  BY <1>1, SignedStep DEF TakeJob
<1>2. CASE CheckStatus(x)
  <2>1. \A w \in Run \ {x} : run'[w] = run[w]
    BY <1>2 DEF CheckStatus
  <2>2. \/ run'[x].at # "paying"
        \/ run'[x].payout \in Payout /\ Signed(run'[x].payout)
    <3>1. CASE status[run[x].payout] # "pending"
      BY <1>2, <3>1 DEF CheckStatus, Over
    <3>2. CASE status[run[x].payout] = "pending"
      <4>1. run[x].payout \in Payout /\ Signed(run[x].payout)
        BY <1>2, <3>2, RunShape DEF CheckStatus, PendingSigned
      <4>2. PICK a \in {"paying", "refusing"} : run' = [run EXCEPT ![x] = [@ EXCEPT !.at = a]]
        BY <1>2, <3>2 DEF CheckStatus
      <4>3. run'[x] = [run[x] EXCEPT !.at = a]
        BY <4>2
      <4>4. run'[x].payout = run[x].payout
        BY <1>2, <4>3, RunShape DEF CheckStatus
      <4> QED
        BY <4>1, <4>4
    <3> QED
      BY <3>1, <3>2
  <2> QED
    BY <1>2, <2>1, <2>2, SignedStep DEF CheckStatus
<1>3. CASE Refuse(x)
  BY <1>3, SignedStep, RunShape DEF Refuse, Over
<1>4. CASE Pay(x)
  <2>1. run[x].payout \in Payout /\ Signed(run[x].payout)
    BY <1>4, RunShape DEF Pay, RunsSigned
  <2> QED
    BY <1>4, <2>1, SignedStep DEF Pay, Over
<1>5. CASE Record(x)
  BY <1>5, SignedStep, RunShape DEF Record, Over
<1>6. CASE RunDies(x)
  BY <1>6, SignedStep DEF RunDies, Over
<1> QED
  BY <1>1, <1>2, <1>3, <1>4, <1>5, <1>6

(* Daraja and its callbacks: an outcome does not change what was paid for, *)
(* and no callback makes a payout pending.                                 *)
LEMMA DarajaSigned ==
  ASSUME PInv, TypeOK', \A p \in Payout : signed[p] \subseteq signed'[p],
         \/ \E v \in Conversation : Settle(v) \/ TimeOut(v)
         \/ \E h \in Handler :
              (\E n \in notices : ResultRead(h, n)) \/ ResultWrite(h) \/ CallbackDies(h)
  PROVE  PInv'
<1> USE DEF PInv, TypeOK
<1>1. ASSUME NEW v \in Conversation, Settle(v) PROVE PInv'
  <2>1. payment[v] # Free /\ payment[v].payout \in Payout /\ Signed(payment[v].payout)
    BY <1>1, PaymentShape DEF Settle, Free, PaymentsSigned
  <2>2. payment'[v].payout = payment[v].payout
    BY <1>1, <2>1, PaymentShape DEF Settle
  <2>3. \A u \in Conversation : u # v => payment'[u] = payment[u]
    BY <1>1 DEF Settle
  <2>4. \A u \in Conversation :
          \/ payment'[u] = payment[u]
          \/ payment'[u].payout \in Payout /\ Signed(payment'[u].payout)
    BY <2>1, <2>2, <2>3
  <2> QED
    BY <1>1, <2>4, SignedStep DEF Settle
<1>2. ASSUME NEW v \in Conversation, TimeOut(v) PROVE PInv'
  BY <1>2, SignedStep DEF TimeOut
<1>3. ASSUME NEW h \in Handler, NEW n \in notices, ResultRead(h, n) PROVE PInv'
  BY <1>3, SignedStep DEF ResultRead, callFrame, darajaVars
<1>4. ASSUME NEW h \in Handler, ResultWrite(h) PROVE PInv'
  BY <1>4, SignedStep DEF ResultWrite, SetStatus, callFrame, darajaVars
<1>5. ASSUME NEW h \in Handler, CallbackDies(h) PROVE PInv'
  BY <1>5, SignedStep DEF CallbackDies, callFrame, darajaVars
<1> QED
  BY <1>1, <1>2, <1>3, <1>4, <1>5

(* Every step keeps the invariant.                                         *)
LEMMA NextPInv == PInv /\ [Next]_vars => PInv'
<1> SUFFICES ASSUME PInv, [Next]_vars PROVE PInv'
  OBVIOUS
<1>0. TypeOK
  BY DEF PInv
<1>1. \A p \in Payout : signed[p] \subseteq signed'[p]
  BY <1>0, SignaturesGrow
<1>2. TypeOK'
  <2>1. CASE UNCHANGED vars
    BY <1>0, <2>1 DEF TypeOK, vars
  <2>2. CASE Next
    BY <1>0, <2>2, WebType, RunType, DarajaType DEF Next
  <2> QED
    BY <2>1, <2>2
<1>3. CASE UNCHANGED vars
  BY <1>1, <1>2, <1>3, SignedStep DEF vars
<1>4. CASE Next
  BY <1>1, <1>2, <1>4, WebSigned, RunSigned, DarajaSigned DEF Next
<1> QED
  BY <1>3, <1>4

(* Whatever is released, pending, being paid or paid has its signatures.   *)
THEOREM PayoutInvariance == Spec => []PInv
<1> QED
  BY InitPInv, NextPInv, PTL DEF Spec

(* Types: every variable of the model stays in its set.                    *)
THEOREM PayoutTypeCorrect == Spec => []TypeOK
<1>1. PInv => TypeOK
  BY DEF PInv
<1> QED
  BY <1>1, PayoutInvariance, PTL

(* However signing, cancelling, queueing, paying, reruns and callbacks     *)
(* interleave, B2C money has left only for a payout whose required         *)
(* signatures are in.                                                      *)
THEOREM SignedBeforePaid == Spec => []PaidOnlyWhenSigned
<1>1. PInv => PaidOnlyWhenSigned
  BY DEF PInv, PaymentsSigned, PaidOnlyWhenSigned, Payments, Signed
<1> QED
  BY <1>1, PayoutInvariance, PTL
-------------------------------------------------------------------------------
(* Traces.  A payment keeps its payout, and once settled stays settled; so *)
(* what a row, a run, a notice or a callback says of a payment stays true  *)
(* until it is written down.                                               *)

Settled(p) == \E v \in Payments(p) : payment[v].outcome = "settled"

RowsTraced ==
  \A p \in Payout :
    /\ conv[p] \subseteq Payments(p)
    /\ status[p] \in {"disbursing", "disbursed"} => conv[p] # {}
    /\ status[p] = "disbursed" => Settled(p)

RunMade(x) == run[x].at = "recording" => run[x].conv \in Payments(run[x].payout)

RunsMade == \A x \in Run : RunMade(x)

NoticesTrue == \A n \in notices : n.ok => payment[n.conv].outcome = "settled"

CallTrue(h) ==
  call[h].at = "writing" =>
    /\ conv[call[h].payout] # {}
    /\ call[h].ok => Settled(call[h].payout)

CallsTrue == \A h \in Handler : CallTrue(h)

TInv ==
  /\ RowsTraced
  /\ RunsMade
  /\ NoticesTrue
  /\ CallsTrue

(* No step frees a payment, moves it to another payout or takes its        *)
(* settlement back.                                                        *)
LEMMA PaymentsStay ==
  ASSUME TypeOK, [Next]_vars
  PROVE  \A v \in Conversation : payment[v] # Free =>
           /\ payment'[v] # Free
           /\ payment'[v].payout = payment[v].payout
           /\ payment[v].outcome = "settled" => payment'[v].outcome = "settled"
<1>1. \/ payment' = payment
      \/ \E x \in Run : Pay(x)
      \/ \E v \in Conversation : Settle(v)
  BY DEF Next, Create, CancelRead, SignRead, SignInsert, SignCount, Release, Enqueue,
         CancelWrite, RequestDies, webFrame, darajaVars, TakeJob, CheckStatus, Refuse,
         Record, RunDies, TimeOut, ResultRead, ResultWrite, CallbackDies, callFrame, vars
<1>2. ASSUME NEW x \in Run, Pay(x), NEW v \in Conversation, payment[v] # Free
      PROVE  payment'[v] = payment[v]
  BY <1>2 DEF Pay, TypeOK
<1>3. ASSUME NEW u \in Conversation, Settle(u), NEW v \in Conversation, payment[v] # Free
      PROVE  /\ payment'[v] # Free
             /\ payment'[v].payout = payment[v].payout
             /\ payment[v].outcome = "settled" => payment'[v].outcome = "settled"
  <2>1. CASE u # v
    BY <1>3, <2>1 DEF Settle, TypeOK
  <2>2. CASE u = v
    <3>1. PICK o \in {"settled", "rejected"} : payment' = [payment EXCEPT ![v].outcome = o]
      BY <1>3, <2>2 DEF Settle
    <3>2. payment'[v] = [payment[v] EXCEPT !.outcome = o] /\ payment[v].outcome = "open"
      BY <1>3, <2>2, <3>1 DEF Settle, TypeOK
    <3>3. payment[v] \in [payout : Payout, outcome : {"open", "settled", "rejected"}]
      BY <1>3 DEF TypeOK, Payment
    <3> QED
      BY <3>2, <3>3 DEF Free
  <2> QED
    BY <2>1, <2>2
<1> QED
  BY <1>1, <1>2, <1>3

(* So what was paid for a payout stays paid for it.                        *)
LEMMA PaidStays ==
  ASSUME TypeOK, [Next]_vars, NEW p \in Payout
  PROVE  /\ Payments(p) \subseteq Payments(p)'
         /\ Settled(p) => Settled(p)'
  BY PaymentsStay DEF Payments, Settled

(* A step has to answer only for the rows, runs, notices and callbacks it  *)
(* changes.                                                                *)
LEMMA TraceStep ==
  ASSUME TypeOK, TInv, [Next]_vars,
         \A p \in Payout : \/ conv'[p] = conv[p]
                           \/ conv'[p] # {} /\ conv'[p] \subseteq Payments(p)',
         \A p \in Payout : \/ status'[p] = status[p]
                           \/ status'[p] \notin {"disbursing", "disbursed"}
                           \/ /\ conv'[p] # {}
                              /\ status'[p] = "disbursed" => Settled(p),
         \A x \in Run : run'[x] = run[x] \/ RunMade(x)',
         \A n \in notices' : \/ n \in notices
                             \/ n.ok => payment'[n.conv].outcome = "settled",
         \A h \in Handler : \/ call'[h] = call[h]
                            \/ call'[h].at # "writing"
                            \/ /\ call'[h].payout \in Payout
                               /\ conv[call'[h].payout] # {}
                               /\ call'[h].ok => Settled(call'[h].payout)
  PROVE  TInv'
<1>1. \A p \in Payout : /\ Payments(p) \subseteq Payments(p)'
                        /\ Settled(p) => Settled(p)'
                        /\ conv[p] # {} => conv'[p] # {}
  BY PaidStays
<1>2. RowsTraced'
  <2> SUFFICES ASSUME NEW p \in Payout
               PROVE  /\ conv'[p] \subseteq Payments(p)'
                      /\ status'[p] \in {"disbursing", "disbursed"} => conv'[p] # {}
                      /\ status'[p] = "disbursed" => Settled(p)'
    BY DEF RowsTraced
  <2>1. conv'[p] \subseteq Payments(p)'
    BY <1>1 DEF TInv, RowsTraced
  <2>2. status'[p] \in {"disbursing", "disbursed"} => conv'[p] # {}
    BY <1>1 DEF TInv, RowsTraced
  <2>3. status'[p] = "disbursed" => Settled(p)'
    BY <1>1 DEF TInv, RowsTraced
  <2> QED
    BY <2>1, <2>2, <2>3
<1>3. RunsMade'
  <2> SUFFICES ASSUME NEW x \in Run, run'[x] = run[x], run[x].at = "recording"
               PROVE  RunMade(x)'
    BY DEF RunsMade, RunMade
  <2>1. run[x].payout \in Payout /\ run[x].conv \in Payments(run[x].payout)
    BY RunShape DEF TInv, RunsMade, RunMade
  <2>2. run[x].conv \in Conversation /\ payment[run[x].conv] # Free
    BY <2>1 DEF Payments
  <2> QED
    BY <2>1, <2>2, PaymentsStay DEF RunMade, Payments
<1>4. NoticesTrue'
  <2> SUFFICES ASSUME NEW n \in notices', n.ok
               PROVE  payment'[n.conv].outcome = "settled"
    BY DEF NoticesTrue
  <2>1. CASE n \in notices
    <3>1. n.conv \in Conversation /\ payment[n.conv].outcome = "settled"
      BY <2>1 DEF TInv, NoticesTrue, TypeOK, Notice
    <3>2. payment[n.conv] # Free
      BY <3>1 DEF Free
    <3> QED
      BY <3>1, <3>2, PaymentsStay
  <2> QED
    BY <2>1
<1>5. CallsTrue'
  <2> SUFFICES ASSUME NEW h \in Handler, call'[h].at = "writing" PROVE CallTrue(h)'
    BY DEF CallsTrue, CallTrue
  <2>1. call[h].at = "writing" => call[h].payout \in Payout
    BY DEF TypeOK, Idle, Over
  <2>2. /\ call'[h].payout \in Payout
        /\ conv[call'[h].payout] # {}
        /\ call'[h].ok => Settled(call'[h].payout)
    BY <2>1 DEF TInv, CallsTrue, CallTrue
  <2>3. /\ conv'[call'[h].payout] # {}
        /\ call'[h].ok => \E v \in Conversation :
             /\ payment'[v] # Free /\ payment'[v].payout = call'[h].payout
             /\ payment'[v].outcome = "settled"
    BY <1>1, <2>2, PaymentsStay DEF Settled, Payments
  <2> QED
    BY <2>3 DEF CallTrue, Settled, Payments
<1> QED
  BY <1>2, <1>3, <1>4, <1>5 DEF TInv

(* Requests touch no trace, and neither create nor cancel is a payment.    *)
LEMMA WebTraced ==
  ASSUME TypeOK, TInv, [Next]_vars,
         \/ \E p \in Payout : Create(p)
         \/ \E r \in Request :
              \/ \E p \in Payout : CancelRead(r, p) \/ \E o \in Officer : SignRead(r, p, o)
              \/ SignInsert(r) \/ SignCount(r) \/ Release(r) \/ Enqueue(r)
              \/ CancelWrite(r) \/ RequestDies(r)
  PROVE  TInv'
<1> USE DEF SetStatus, webFrame, darajaVars
<1>1. UNCHANGED <<conv, run, call, payment, notices>>
  BY DEF Create, CancelRead, SignRead, SignInsert, SignCount, Release, Enqueue,
         CancelWrite, RequestDies
<1>2. \A p \in Payout : \/ status'[p] = status[p]
                        \/ status'[p] \notin {"disbursing", "disbursed"}
  BY DEF TypeOK, Create, CancelRead, SignRead, SignInsert, SignCount, Release, Enqueue,
         CancelWrite, RequestDies
<1> QED
  BY <1>1, <1>2, TraceStep

(* The worker: what it records is the payment it made.                     *)
LEMMA RunTraced ==
  ASSUME TypeOK, TInv, [Next]_vars, NEW x \in Run,
         \/ \E p \in Payout : TakeJob(x, p)
         \/ CheckStatus(x) \/ Refuse(x) \/ Pay(x) \/ Record(x) \/ RunDies(x)
  PROVE  TInv'
<1> USE DEF TypeOK, SetStatus, Worker, runFrame
<1>0. Over.at # "recording"
  BY DEF Over
<1>1. ASSUME NEW p \in Payout, TakeJob(x, p) PROVE TInv'
  BY <1>1, TraceStep DEF TakeJob, RunMade
<1>2. CASE CheckStatus(x)
  <2>1. \A a \in {"paying", "refusing"} : [run[x] EXCEPT !.at = a].at # "recording"
    BY <1>2, RunShape DEF CheckStatus
  <2> QED
    BY <1>0, <1>2, <2>1, TraceStep DEF CheckStatus, RunMade
<1>3. CASE Refuse(x)
  BY <1>0, <1>3, RunShape, TraceStep DEF Refuse, RunMade
<1>4. CASE Pay(x)
  <2>1. run[x].payout \in Payout
    BY <1>4, RunShape DEF Pay
  <2>2. RunMade(x)'
    <3> SUFFICES ASSUME run'[x].at = "recording" PROVE RunMade(x)'
      BY DEF RunMade
    <3>1. PICK v \in Conversation :
            /\ payment' = [payment EXCEPT ![v] = [payout |-> run[x].payout, outcome |-> "open"]]
            /\ \/ run'[x] = [at |-> "recording", payout |-> run[x].payout, conv |-> v]
               \/ run'[x] = Over
      BY <1>0, <1>4 DEF Pay
    <3>2. run'[x] = [at |-> "recording", payout |-> run[x].payout, conv |-> v]
      BY <1>0, <3>1
    <3>3. payment'[v] = [payout |-> run[x].payout, outcome |-> "open"]
      BY <3>1
    <3> QED
      BY <3>2, <3>3 DEF RunMade, Payments, Free
  <2> QED
    BY <1>4, <2>2, TraceStep DEF Pay
<1>5. CASE Record(x)
  <2>1. run[x].payout \in Payout /\ run[x].conv \in Payments(run[x].payout)
    BY <1>5, RunShape DEF Record, TInv, RunsMade, RunMade
  <2>2. payment' = payment
    BY <1>5 DEF Record
  <2>3. \A p \in Payout : \/ conv'[p] = conv[p]
                          \/ conv'[p] # {} /\ conv'[p] \subseteq Payments(p)'
    BY <1>5, <2>1, <2>2 DEF Record, Payments
  <2>4. \A p \in Payout : \/ status'[p] = status[p]
                          \/ status'[p] = "disbursing" /\ conv'[p] # {}
    BY <1>5, <2>1 DEF Record
  <2> QED
    BY <1>0, <1>5, <2>3, <2>4, TraceStep DEF Record, RunMade
<1>6. CASE RunDies(x)
  BY <1>0, <1>6, TraceStep DEF RunDies, RunMade
<1> QED
  BY <1>1, <1>2, <1>3, <1>4, <1>5, <1>6

(* Daraja and its callbacks: success is announced by a settlement only, and*)
(* is written to the payout whose row holds that conversation.             *)
LEMMA DarajaTraced ==
  ASSUME TypeOK, TInv, [Next]_vars,
         \/ \E v \in Conversation : Settle(v) \/ TimeOut(v)
         \/ \E h \in Handler :
              (\E n \in notices : ResultRead(h, n)) \/ ResultWrite(h) \/ CallbackDies(h)
  PROVE  TInv'
<1>1. ASSUME NEW v \in Conversation, Settle(v) PROVE TInv'
  <2>1. PICK o \in {"settled", "rejected"} :
           /\ payment' = [payment EXCEPT ![v].outcome = o]
           /\ notices' = notices \cup {[conv |-> v, ok |-> o = "settled"]}
    BY <1>1 DEF Settle
  <2>2. payment'[v].outcome = o
    <3>1. payment[v] \in [payout : Payout, outcome : {"open", "settled", "rejected"}]
      BY <1>1 DEF Settle, TypeOK, Payment, Free
    <3>2. payment'[v] = [payment[v] EXCEPT !.outcome = o]
      BY <2>1 DEF TypeOK
    <3> QED
      BY <3>1, <3>2
  <2>3. \A n \in notices' : \/ n \in notices
                            \/ n.ok => payment'[n.conv].outcome = "settled"
    <3> SUFFICES ASSUME NEW n \in notices', n \notin notices, n.ok
                 PROVE  payment'[n.conv].outcome = "settled"
      OBVIOUS
    <3>1. n = [conv |-> v, ok |-> o = "settled"]
      BY <2>1
    <3>2. n.conv = v /\ (n.ok <=> o = "settled")
      BY <3>1, Zenon
    <3> QED
      BY <2>2, <3>2
  <2> QED
    BY <1>1, <2>3, TraceStep DEF Settle
<1>2. ASSUME NEW v \in Conversation, TimeOut(v) PROVE TInv'
  <2>1. \A n \in notices' : \/ n \in notices
                            \/ n.ok => payment'[n.conv].outcome = "settled"
    BY <1>2 DEF TimeOut, TimeoutResult
  <2> QED
    BY <1>2, <2>1, TraceStep DEF TimeOut
<1>3. ASSUME NEW h \in Handler, NEW n \in notices, ResultRead(h, n) PROVE TInv'
  <2>1. UNCHANGED <<status, conv, run, payment, notices>>
    BY <1>3 DEF ResultRead, callFrame, darajaVars
  <2>2. \/ call'[h].at # "writing"
        \/ /\ call'[h].payout \in Payout
           /\ conv[call'[h].payout] # {}
           /\ call'[h].ok => Settled(call'[h].payout)
    <3> SUFFICES ASSUME call'[h].at = "writing"
                 PROVE  /\ call'[h].payout \in Payout
                        /\ conv[call'[h].payout] # {}
                        /\ call'[h].ok => Settled(call'[h].payout)
      OBVIOUS
    <3>1. PICK p \in Payout : /\ n.conv \in conv[p]
                              /\ call'[h] = [at |-> "writing", payout |-> p, ok |-> n.ok]
      BY <1>3 DEF ResultRead, Callback, Over, TypeOK
    <3>2. call'[h].payout = p /\ call'[h].ok = n.ok
      BY <3>1
    <3>3. n.conv \in Payments(p)
      BY <3>1 DEF TInv, RowsTraced
    <3>4. n.ok => Settled(p)
      BY <3>3 DEF TInv, NoticesTrue, Settled
    <3> QED
      BY <3>1, <3>2, <3>4
  <2>3. \A g \in Handler \ {h} : call'[g] = call[g]
    BY <1>3 DEF ResultRead, Callback, TypeOK
  <2> QED
    BY <2>1, <2>2, <2>3, TraceStep
<1>4. ASSUME NEW h \in Handler, ResultWrite(h) PROVE TInv'
  <2>1. UNCHANGED <<conv, run, payment, notices>>
    BY <1>4 DEF ResultWrite, callFrame, darajaVars
  <2>2. /\ call[h].payout \in Payout
        /\ conv[call[h].payout] # {}
        /\ call[h].ok => Settled(call[h].payout)
    BY <1>4 DEF ResultWrite, TInv, CallsTrue, CallTrue, TypeOK, Idle, Over
  <2>3. \A p \in Payout : \/ status'[p] = status[p]
                          \/ status'[p] \notin {"disbursing", "disbursed"}
                          \/ conv'[p] # {} /\ (status'[p] = "disbursed" => Settled(p))
    BY <1>4, <2>1, <2>2 DEF ResultWrite, SetStatus, TypeOK
  <2>4. \A g \in Handler : call'[g] = call[g] \/ call'[g].at # "writing"
    BY <1>4 DEF ResultWrite, Callback, Over, TypeOK
  <2> QED
    BY <2>1, <2>3, <2>4, TraceStep
<1>5. ASSUME NEW h \in Handler, CallbackDies(h) PROVE TInv'
  BY <1>5, TraceStep DEF CallbackDies, Callback, callFrame, darajaVars, Over, TypeOK
<1> QED
  BY <1>1, <1>2, <1>3, <1>4, <1>5

(* What rows, runs, notices and callbacks say of payments is true.         *)
THEOREM TraceInvariance == Spec => []TInv
<1>1. Init => TInv
  <2> SUFFICES ASSUME Init PROVE TInv
    OBVIOUS
  <2>1. RowsTraced
    BY DEF Init, RowsTraced
  <2>2. RunsMade /\ NoticesTrue /\ CallsTrue
    BY DEF Init, RunsMade, RunMade, NoticesTrue, CallsTrue, CallTrue, Idle
  <2> QED
    BY <2>1, <2>2 DEF TInv
<1>2. TypeOK /\ TInv /\ [Next]_vars => TInv'
  <2> SUFFICES ASSUME TypeOK, TInv, [Next]_vars PROVE TInv'
    OBVIOUS
  <2>1. CASE UNCHANGED vars
    BY <2>1, TraceStep DEF vars
  <2>2. CASE Next
    BY <2>2, WebTraced, RunTraced, DarajaTraced DEF Next
  <2> QED
    BY <2>1, <2>2
<1> QED
  BY <1>1, <1>2, PayoutTypeCorrect, PTL DEF Spec

(* A payout shown as disbursed was settled by Daraja, in whatever order    *)
(* timeouts, results, repeats and deaths come.                             *)
THEOREM DisbursedIsSettled == Spec => []DisbursedWasSettled
<1>1. TInv => DisbursedWasSettled
  BY DEF TInv, RowsTraced, DisbursedWasSettled, Settled
<1> QED
  BY <1>1, TraceInvariance, PTL

(* A payout on its way, or arrived, carries a conversation, and it is one  *)
(* of its own payments.                                                    *)
THEOREM DisbursementIsTraceable == Spec => []DisbursementTraceable
<1>1. TInv => DisbursementTraceable
  BY DEF TInv, RowsTraced, DisbursementTraceable
<1> QED
  BY <1>1, TraceInvariance, PTL
-------------------------------------------------------------------------------
(* What PayoutSpec promises.  A step of Payouts is one of its steps, whose *)
(* guard PInv or TInv gives, or changes nothing that it speaks of.         *)

LEMMA InitPromise == Init => Promise!Init
BY DEF Init, Promise!Init, MadeFor, Fate, Shown

(* A row that is written shows its new status, and no other row does.      *)
LEMMA ShownStep ==
  ASSUME TypeOK, NEW p \in Payout, NEW s, status' = [status EXCEPT ![p] = s]
  PROVE  /\ s = "disbursing" => Shown' = [Shown EXCEPT ![p] = "on-its-way"]
         /\ s = "disbursed"  => Shown' = [Shown EXCEPT ![p] = "arrived"]
         /\ s \notin {"disbursing", "disbursed"} =>
              Shown' = [Shown EXCEPT ![p] = "not-out"]
BY DEF TypeOK, Shown

LEMMA PaymentsUnseen ==
  ASSUME UNCHANGED payment
  PROVE  UNCHANGED <<MadeFor, Fate>>
BY DEF MadeFor, Fate

(* Rows that are created, released, cancelled, refused or failed.          *)
LEMMA NotOutStep ==
  ASSUME TypeOK, NEW p \in Payout,
         NEW s \in {"awaiting", "pending", "failed", "cancelled"},
         status' = [status EXCEPT ![p] = s], UNCHANGED <<conv, signed, payment>>
  PROVE  Promise!ShowNotOut(p)
BY ShownStep, PaymentsUnseen DEF Promise!ShowNotOut

LEMMA Unseen ==
  ASSUME UNCHANGED <<status, conv, signed, payment>>
  PROVE  UNCHANGED Promise!vars
BY PaymentsUnseen DEF Promise!vars, Shown

LEMMA WebPromise ==
  ASSUME TypeOK,
         \/ \E p \in Payout : Create(p)
         \/ \E r \in Request :
              \/ \E p \in Payout : CancelRead(r, p) \/ \E o \in Officer : SignRead(r, p, o)
              \/ SignInsert(r) \/ SignCount(r) \/ Release(r) \/ Enqueue(r)
              \/ CancelWrite(r) \/ RequestDies(r)
  PROVE  Promise!Next \/ UNCHANGED Promise!vars
<1> USE DEF webFrame, darajaVars, SetStatus
<1>1. ASSUME NEW p \in Payout, Create(p) PROVE Promise!Next
  BY <1>1, NotOutStep DEF Create, Promise!Next
<1>2. ASSUME NEW r \in Request, SignInsert(r)
      PROVE  Promise!Next \/ UNCHANGED Promise!vars
  <2>1. /\ web[r].payout \in Payout /\ web[r].officer \in Officer
        /\ UNCHANGED <<status, conv, payment>>
    BY <1>2, WebShape DEF SignInsert
  <2>2. CASE signed' = signed
    BY <2>1, <2>2, Unseen
  <2>3. CASE signed' = [signed EXCEPT ![web[r].payout] = @ \cup {web[r].officer}]
    <3>1. UNCHANGED <<MadeFor, Fate, Shown>>
      BY <2>1, PaymentsUnseen DEF Shown
    <3>2. Promise!Sign(web[r].payout, web[r].officer)
      BY <2>1, <2>3, <3>1 DEF Promise!Sign
    <3> QED
      BY <2>1, <3>2 DEF Promise!Next
  <2> QED
    BY <1>2, <2>2, <2>3 DEF SignInsert
<1>3. ASSUME NEW r \in Request, Release(r) \/ CancelWrite(r) PROVE Promise!Next
  <2>1. web[r].payout \in Payout
    BY <1>3, WebShape DEF Release, CancelWrite
  <2> QED
    BY <1>3, <2>1, NotOutStep DEF Release, CancelWrite, Promise!Next
<1>4. ASSUME NEW r \in Request,
             \/ \E p \in Payout : CancelRead(r, p) \/ \E o \in Officer : SignRead(r, p, o)
             \/ SignCount(r) \/ Enqueue(r) \/ RequestDies(r)
      PROVE  UNCHANGED Promise!vars
  BY <1>4, Unseen DEF CancelRead, SignRead, SignCount, Enqueue, RequestDies
<1> QED
  BY <1>1, <1>2, <1>3, <1>4

(* The worker pays what it found pending, so signed for, and records the   *)
(* payment it made.                                                        *)
LEMMA RunPromise ==
  ASSUME PInv, TInv, NEW x \in Run,
         \/ \E p \in Payout : TakeJob(x, p)
         \/ CheckStatus(x) \/ Refuse(x) \/ Pay(x) \/ Record(x) \/ RunDies(x)
  PROVE  Promise!Next \/ UNCHANGED Promise!vars
<1> USE DEF runFrame, SetStatus
<1>0. TypeOK
  BY DEF PInv
<1>1. CASE CheckStatus(x) \/ RunDies(x) \/ \E p \in Payout : TakeJob(x, p)
  BY <1>1, Unseen DEF CheckStatus, RunDies, TakeJob
<1>2. CASE Refuse(x)
  <2>1. run[x].payout \in Payout
    BY <1>0, <1>2, RunShape DEF Refuse
  <2> QED
    BY <1>0, <1>2, <2>1, NotOutStep DEF Refuse, Promise!Next
<1>3. CASE Pay(x)
  <2>1. /\ run[x].payout \in Payout /\ Promise!Released(run[x].payout)
        /\ UNCHANGED <<status, conv, signed>>
    <3>1. run[x].payout \in Payout /\ UNCHANGED <<status, conv, signed>>
      BY <1>0, <1>3, RunShape DEF Pay
    <3>2. Signed(run[x].payout)
      BY <1>3 DEF Pay, PInv, RunsSigned
    <3> QED
      BY <3>1, <3>2, Zenon
         DEF Signed, Promise!Released, Promise!Cardinality, Cardinality
  <2>2. CASE payment' = payment
    BY <2>1, <2>2, Unseen
  <2>3. ASSUME NEW v \in Conversation, payment[v] = Free,
               payment' = [payment EXCEPT
                             ![v] = [payout |-> run[x].payout, outcome |-> "open"]]
        PROVE  Promise!Next
    <3>1. payment'[v] # Free /\ payment'[v].payout = run[x].payout
          /\ payment'[v].outcome = "open"
      BY <1>0, <2>3 DEF TypeOK, Free
    <3>2. \A u \in Conversation \ {v} : payment'[u] = payment[u]
      BY <1>0, <2>3 DEF TypeOK
    <3>3. MadeFor[v] = {} /\ MadeFor' = [MadeFor EXCEPT ![v] = {run[x].payout}]
      BY <2>3, <3>1, <3>2 DEF MadeFor
    <3>4. Fate' = Fate
      BY <2>3, <3>1, <3>2 DEF Fate
    <3>5. Promise!Pay(run[x].payout, v)
      BY <2>1, <3>3, <3>4 DEF Promise!Pay, Shown
    <3> QED
      BY <2>1, <3>5 DEF Promise!Next
  <2> QED
    BY <1>3, <2>2, <2>3 DEF Pay
<1>4. CASE Record(x)
  <2>1. run[x].payout \in Payout /\ run[x].conv \in Payments(run[x].payout)
    BY <1>0, <1>4, RunShape DEF Record, TInv, RunsMade, RunMade
  <2>2. run[x].conv \in Conversation /\ run[x].payout \in MadeFor[run[x].conv]
    BY <2>1 DEF Payments, MadeFor
  <2>3. Promise!ShowOnItsWay(run[x].payout, run[x].conv)
    BY <1>0, <1>4, <2>1, <2>2, ShownStep, PaymentsUnseen DEF Record, Promise!ShowOnItsWay
  <2> QED
    BY <2>1, <2>2, <2>3 DEF Promise!Next
<1> QED
  BY <1>1, <1>2, <1>3, <1>4

(* Daraja decides a payment once; a callback shows what it was told, which *)
(* is true.                                                                *)
LEMMA DarajaPromise ==
  ASSUME TypeOK, TInv,
         \/ \E v \in Conversation : Settle(v) \/ TimeOut(v)
         \/ \E h \in Handler :
              (\E n \in notices : ResultRead(h, n)) \/ ResultWrite(h) \/ CallbackDies(h)
  PROVE  Promise!Next \/ UNCHANGED Promise!vars
<1> USE DEF callFrame, darajaVars, SetStatus
<1>1. ASSUME NEW v \in Conversation, Settle(v) PROVE Promise!Next
  <2>1. PICK o \in {"settled", "rejected"} : payment' = [payment EXCEPT ![v].outcome = o]
    BY <1>1 DEF Settle
  <2>2. /\ payment[v] \in [payout : Payout, outcome : {"open", "settled", "rejected"}]
        /\ payment[v] # Free /\ payment[v].outcome = "open"
    BY <1>1 DEF Settle, TypeOK, Payment, Free
  <2>3. payment'[v] = [payment[v] EXCEPT !.outcome = o]
    BY <2>1 DEF TypeOK
  <2>4. payment'[v] # Free /\ payment'[v].payout = payment[v].payout /\ payment'[v].outcome = o
    BY <2>2, <2>3 DEF Free
  <2>5. \A u \in Conversation \ {v} : payment'[u] = payment[u]
    BY <2>1 DEF TypeOK
  <2>6. MadeFor[v] # {} /\ MadeFor' = MadeFor
    BY <2>2, <2>4, <2>5 DEF MadeFor
  <2>7. Fate[v] = "open" /\ Fate' = [Fate EXCEPT ![v] = o]
    BY <2>2, <2>4, <2>5 DEF Fate
  <2>8. Promise!Decide(v)
    BY <1>1, <2>6, <2>7 DEF Settle, Promise!Decide, Shown
  <2> QED
    BY <2>8 DEF Promise!Next
<1>2. ASSUME NEW h \in Handler, ResultWrite(h) PROVE Promise!Next
  <2> DEFINE p == call[h].payout
  <2>1. p \in Payout /\ conv[p] # {} /\ (call[h].ok => Settled(p))
    BY <1>2 DEF ResultWrite, TInv, CallsTrue, CallTrue, TypeOK, Idle, Over
  <2>2. CASE call[h].ok
    <3>1. PICK v \in Conversation : /\ payment[v] # Free /\ payment[v].payout = p
                                    /\ payment[v].outcome = "settled"
      BY <2>1, <2>2 DEF Settled, Payments
    <3>2. p \in MadeFor[v] /\ Fate[v] = "settled"
      BY <3>1 DEF MadeFor, Fate
    <3>3. Shown' = [Shown EXCEPT ![p] = "arrived"]
      BY <1>2, <2>1, <2>2, ShownStep DEF ResultWrite
    <3>4. Promise!ShowArrived(p)
      BY <1>2, <2>1, <3>2, <3>3, PaymentsUnseen DEF ResultWrite, Promise!ShowArrived
    <3> QED
      BY <2>1, <3>4 DEF Promise!Next
  <2>3. CASE ~ call[h].ok
    BY <1>2, <2>1, <2>3, NotOutStep DEF ResultWrite, Promise!Next
  <2> QED
    BY <2>2, <2>3
<1>3. CASE \/ \E v \in Conversation : TimeOut(v)
           \/ \E h \in Handler : (\E n \in notices : ResultRead(h, n)) \/ CallbackDies(h)
  BY <1>3, Unseen DEF TimeOut, ResultRead, CallbackDies
<1> QED
  BY <1>1, <1>2, <1>3

(* Payouts implement PayoutSpec, in whatever order requests, worker runs,  *)
(* Daraja and its callbacks come, repeat or die.                           *)
THEOREM PayoutPromise == Spec => ImplementsPayoutSpec
<1>1. PInv /\ TInv /\ [Next]_vars => [Promise!Next]_Promise!vars
  <2> SUFFICES ASSUME PInv, TInv, [Next]_vars PROVE [Promise!Next]_Promise!vars
    OBVIOUS
  <2>1. CASE UNCHANGED vars
    BY <2>1, Unseen DEF vars
  <2>2. CASE Next
    BY <2>2, WebPromise, RunPromise, DarajaPromise DEF PInv, Next
  <2> QED
    BY <2>1, <2>2
<1> QED
  BY <1>1, InitPromise, PayoutInvariance, TraceInvariance, PTL
  DEF Spec, ImplementsPayoutSpec, Promise!Spec
===============================================================================
