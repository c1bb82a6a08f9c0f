--------------------------------- MODULE Kyc ----------------------------------
(***************************************************************************)
(* The identity file of a user (kyc.service.ts, kyc.routes.ts): documents  *)
(* uploaded in three separate writes, verified one by one, the tier that   *)
(* follows from them, and the limits asked about.                          *)
(*                                                                         *)
(* verifyKycDocument is exported and has no route yet; here an officer     *)
(* calls it.  Its writes are separate statements, so two verifications of  *)
(* one user overlap.  The export reads what the schema has; the erasure    *)
(* names columns it does not have, so Prisma rejects its first query and   *)
(* the handler never answers.                                              *)
(***************************************************************************)
EXTENDS Integers, FiniteSets

CONSTANTS
  KycUser, Document, OwnerOf, TypeOf,   \* whose document is which, of what type
  KycOfficer,
  KycAmount,                            \* amounts asked about
  KycMonth                              \* totals of the completed contributions of a month

ASSUME KycAssumption ==
  /\ OwnerOf \in [Document -> KycUser]
  /\ TypeOf \in [Document -> {"national_id", "passport", "selfie", "proof_of_address"}]
  /\ KycAmount \subseteq Nat /\ KycMonth \subseteq Nat

VARIABLES
  document,      \* document[d]: how far its upload is, then its status
  verifying,     \* verifying[d]: absent from the queue, due to enter it, or queued
  proven,        \* proven[u]: the verification flags of the user
  tier,          \* tier[u]: kycLevel
  desk,          \* desk[o]: the verification o's request is in
  kycAnswer      \* the answer to the last request

kycVars == <<document, verifying, proven, tier, desk, kycAnswer>>

Proof == {"id", "selfie", "address"}

Idle == [pc |-> "idle"]

KycTypeOK ==
  /\ document \in [Document -> {"none", "stored", "pending_verification", "verified", "rejected"}]
  /\ verifying \in [Document -> {"absent", "due", "queued"}]
  /\ proven \in [KycUser -> SUBSET Proof]
  /\ tier \in [KycUser -> 0 .. 3]
  /\ \A o \in KycOfficer : desk[o].pc \in {"idle", "flag", "recalculate", "write", "dequeue"}
  /\ kycAnswer \in {"none", "ok", "refused", "unanswered"}

(* An address may have been accepted before; by itself it is no tier.      *)
KycInit ==
  /\ document    = [d \in Document |-> "none"]
  /\ verifying   = [d \in Document |-> "absent"]
  /\ proven \in [KycUser -> {{}, {"address"}}]
  /\ tier        = [u \in KycUser |-> 0]
  /\ desk        = [o \in KycOfficer |-> Idle]
  /\ kycAnswer   = "none"

-------------------------------------------------------------------------------
(* Tier limits, in units of 10 000 shillings; tier 3 has none.             *)
PerTx   == [t \in 0 .. 2 |-> CASE t = 0 -> 1 [] t = 1 -> 10 [] t = 2 -> 100]
PerMonth == [t \in 0 .. 2 |-> 5 * PerTx[t]]

(* canContribute: the payment by itself, and the month with it.            *)
WithinLimits(u, amount, month) ==
  tier[u] = 3 \/ (amount <= PerTx[tier[u]] /\ month + amount <= PerMonth[tier[u]])

CheckLimit(u, amount, month) ==
  /\ kycAnswer' = IF WithinLimits(u, amount, month) THEN "ok" ELSE "refused"
  /\ UNCHANGED <<document, verifying, proven, tier, desk>>

(* uploadKycDocument: size and type, then the object, the row, the queue.  *)
UploadRefused ==
  /\ kycAnswer' = "refused"
  /\ UNCHANGED <<document, verifying, proven, tier, desk>>

StoreObject(d) ==
  /\ document[d] = "none"
  /\ document' = [document EXCEPT ![d] = "stored"]
  /\ UNCHANGED <<verifying, proven, tier, desk, kycAnswer>>

RecordDocument(d) ==
  /\ document[d] = "stored"
  /\ document' = [document EXCEPT ![d] = "pending_verification"]
  /\ verifying' = [verifying EXCEPT ![d] = "due"]
  /\ UNCHANGED <<proven, tier, desk, kycAnswer>>

(* A document decided before it is queued stays in the queue.              *)
EnqueueDocument(d) ==
  /\ verifying[d] = "due"
  /\ verifying' = [verifying EXCEPT ![d] = "queued"]
  /\ kycAnswer' = "ok"
  /\ UNCHANGED <<document, proven, tier, desk>>

-------------------------------------------------------------------------------
ProofOf(d) ==
  CASE TypeOf[d] \in {"national_id", "passport"} -> "id"
    [] TypeOf[d] = "selfie"                      -> "selfie"
    [] TypeOf[d] = "proof_of_address"            -> "address"

TierOfAnyProof(flags) == Cardinality(flags)    \* defect: any proof is a tier

TierOf(flags) ==
  CASE "id" \notin flags                                       -> 0
    [] "id" \in flags /\ "selfie" \notin flags                 -> 1
    [] {"id", "selfie"} \subseteq flags /\ "address" \notin flags -> 2
    [] flags = Proof                                           -> 3

(* verifyKycDocument: any document with a row, a decided one too.          *)
Decide(o, d, decision) ==
  /\ desk[o].pc = "idle"
  /\ document[d] \notin {"none", "stored"}
  /\ document' = [document EXCEPT ![d] = IF decision = "approved" THEN "verified" ELSE "rejected"]
  /\ desk' = [desk EXCEPT ![o] =
                [pc |-> IF decision = "approved" THEN "flag" ELSE "dequeue", of |-> d]]
  /\ UNCHANGED <<verifying, proven, tier, kycAnswer>>

SetFlag(o) ==
  /\ desk[o].pc = "flag"
  /\ proven' = [proven EXCEPT ![OwnerOf[desk[o].of]] = @ \cup {ProofOf(desk[o].of)}]
  /\ desk' = [desk EXCEPT ![o].pc = "recalculate"]
  /\ UNCHANGED <<document, verifying, tier, kycAnswer>>

(* recalculateKycTier reads the flags                                      *)
RecalculateKycTier(o) ==
  /\ desk[o].pc = "recalculate"
  /\ desk' = [desk EXCEPT ![o] = [pc |-> "write", of |-> @.of,
                                  tier |-> TierOf(proven[OwnerOf[@.of]])]]
  /\ UNCHANGED <<document, verifying, proven, tier, kycAnswer>>

(* and writes the tier they gave.                                          *)
WriteTier(o) ==
  /\ desk[o].pc = "write"
  /\ tier' = [tier EXCEPT ![OwnerOf[desk[o].of]] = desk[o].tier]
  /\ desk' = [desk EXCEPT ![o] = [pc |-> "dequeue", of |-> @.of]]
  /\ UNCHANGED <<document, verifying, proven, kycAnswer>>

Dequeue(o) ==
  /\ desk[o].pc = "dequeue"
  /\ verifying' = [verifying EXCEPT ![desk[o].of] = IF @ = "queued" THEN "absent" ELSE @]
  /\ desk' = [desk EXCEPT ![o] = Idle]
  /\ UNCHANGED <<document, proven, tier, kycAnswer>>

(* exportUserData reads the user, whom the token names, and answers.       *)
ExportData ==
  /\ kycAnswer' = "ok"
  /\ UNCHANGED <<document, verifying, proven, tier, desk>>

(* eraseUserData throws at its first query, and the handler passes nothing *)
(* on: logged by the process, never answered, nothing erased.              *)
EraseData ==
  /\ kycAnswer' = "unanswered"
  /\ UNCHANGED <<document, verifying, proven, tier, desk>>

KycNext ==
  \/ \E u \in KycUser, a \in KycAmount, month \in KycMonth : CheckLimit(u, a, month)
  \/ UploadRefused
  \/ ExportData
  \/ EraseData
  \/ \E d \in Document :
       \/ StoreObject(d)
       \/ RecordDocument(d)
       \/ EnqueueDocument(d)
       \/ \E o \in KycOfficer, decision \in {"approved", "rejected"} : Decide(o, d, decision)
  \/ \E o \in KycOfficer :
       SetFlag(o) \/ RecalculateKycTier(o) \/ WriteTier(o) \/ Dequeue(o)

KycSpec == KycInit /\ [][KycNext]_kycVars

-------------------------------------------------------------------------------
(* A tier never outruns the proofs, however verifications of one user      *)
(* overlap: the second tier takes an identity document and a selfie, the   *)
(* third an address on top (kyc.service.ts:292-323).                       *)
TierIsProven ==
  \A u \in KycUser :
    /\ tier[u] >= 1 => "id" \in proven[u]
    /\ tier[u] >= 2 => "selfie" \in proven[u]
    /\ tier[u] = 3 => "address" \in proven[u]
===============================================================================
