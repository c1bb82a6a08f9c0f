----------------------------- MODULE AccountProofs ----------------------------
(***************************************************************************)
(* Proofs about what the platform keeps of one customer: Kyc (the identity *)
(* file), Auth (the account and its counters), Bot (the conversation on    *)
(* WhatsApp), Billing (the subscription, its invoices and dunning), Gates  *)
(* and Idempotency (what a request passes before its handler), Watch (the  *)
(* money-laundering reports), Messaging, Preferences and Passport (the     *)
(* signed score), for every number of officers, requests, messages,        *)
(* webhooks and invoices.                                                  *)
(*                                                                         *)
(* They share no rows.  In each of them a handler acts on what it read some*)
(* steps before; its invariant says why that is still good enough.         *)
(***************************************************************************)
EXTENDS Kyc, Auth, Bot, Billing, Gates, Idempotency, Watch, Messaging, Preferences,
        Passport, Sums, FiniteSetTheorems, SequenceTheorems, TLAPS

-------------------------------------------------------------------------------
(* Kyc.  Flags are only ever raised, so a tier that the flags of a moment  *)
(* gave is one the flags still give when it is written.                    *)

(* What a tier takes.                                                      *)
Deserves(t, flags) ==
  /\ t \in 0 .. 3
  /\ t >= 1 => "id" \in flags
  /\ t >= 2 => "selfie" \in flags
  /\ t = 3 => "address" \in flags

KycDesk ==
  {Idle}
    \cup [pc : {"flag", "recalculate", "dequeue"}, of : Document]
    \cup [pc : {"write"}, of : Document, tier : 0 .. 3]

TiersDeserved ==
  /\ \A u \in KycUser : Deserves(tier[u], proven[u])
  /\ \A o \in KycOfficer :
       desk[o].pc = "write" => Deserves(desk[o].tier, proven[OwnerOf[desk[o].of]])

KycInv == KycTypeOK /\ desk \in [KycOfficer -> KycDesk] /\ TiersDeserved

(* What the place of a verification tells of its record.                   *)
LEMMA DeskShape ==
  ASSUME NEW s \in KycDesk
  PROVE  /\ s.pc \in {"idle", "flag", "recalculate", "write", "dequeue"}
         /\ s.pc # "idle" => s.of \in Document
         /\ s.pc = "write" => s.tier \in 0 .. 3
         /\ s.pc = "flag" => [s EXCEPT !.pc = "recalculate"]
                               = [pc |-> "recalculate", of |-> s.of]
<1>1. CASE s = Idle
  BY <1>1 DEF Idle
<1>2. CASE s \in [pc : {"flag", "recalculate", "dequeue"}, of : Document]
  BY <1>2
<1>3. CASE s \in [pc : {"write"}, of : Document, tier : 0 .. 3]
  BY <1>3
<1> QED
  BY <1>1, <1>2, <1>3 DEF KycDesk

(* The records that officers' requests write are of those kinds.           *)
LEMMA DeskForms ==
  /\ Idle \in KycDesk
  /\ \A d \in Document, p \in {"flag", "recalculate", "dequeue"} : [pc |-> p, of |-> d] \in KycDesk
  /\ \A d \in Document, t \in 0 .. 3 : [pc |-> "write", of |-> d, tier |-> t] \in KycDesk
BY DEF KycDesk

(* The tier of a set of flags is one that the flags deserve.               *)
LEMMA TierOfDeserved ==
  ASSUME NEW flags \in SUBSET Proof
  PROVE  Deserves(TierOf(flags), flags)
<1>1. CASE "id" \notin flags
  BY <1>1 DEF TierOf, Deserves, Proof
<1>2. CASE "id" \in flags /\ "selfie" \notin flags
  BY <1>2 DEF TierOf, Deserves, Proof
<1>3. CASE {"id", "selfie"} \subseteq flags /\ "address" \notin flags
  BY <1>3 DEF TierOf, Deserves, Proof
<1>4. CASE {"id", "selfie", "address"} \subseteq flags
  <2>1. flags = Proof
    BY <1>4 DEF Proof
  <2> QED
    BY <1>4, <2>1 DEF TierOf, Deserves
<1> QED
  BY <1>1, <1>2, <1>3, <1>4

(* More flags deserve no less.                                             *)
LEMMA MoreFlags ==
  ASSUME NEW t, NEW f, NEW g, Deserves(t, f), f \subseteq g
  PROVE  Deserves(t, g)
BY DEF Deserves

(* A document proves one thing.                                            *)
LEMMA ProofOfDocument == \A d \in Document : ProofOf(d) \in Proof
BY KycAssumption DEF ProofOf, Proof

(* Nobody has a tier yet, whatever is proven.                              *)
LEMMA InitKycInv == KycInit => KycInv
<1> SUFFICES ASSUME KycInit PROVE KycInv
  OBVIOUS
<1>1. proven \in [KycUser -> SUBSET Proof]
  BY DEF KycInit, Proof
<1>2. desk \in [KycOfficer -> KycDesk] /\ \A o \in KycOfficer : desk[o].pc = "idle"
  BY DeskForms DEF KycInit, Idle
<1> QED
  BY <1>1, <1>2 DEF KycInit, KycInv, KycTypeOK, TiersDeserved, Deserves

(* A step of an officer: one request moves on, and flags only grow.        *)
LEMMA DeskStep ==
  ASSUME KycInv, NEW o \in KycOfficer, NEW s \in KycDesk, desk' = [desk EXCEPT ![o] = s],
         document' \in [Document -> {"none", "stored", "pending_verification", "verified",
                                     "rejected"}],
         verifying' \in [Document -> {"absent", "due", "queued"}],
         proven' \in [KycUser -> SUBSET Proof],
         \A u \in KycUser : proven[u] \subseteq proven'[u],
         \A u \in KycUser : Deserves(tier'[u], proven'[u]),
         DOMAIN tier' = KycUser, tier' = [u \in DOMAIN tier' |-> tier'[u]],
         s.pc = "write" => Deserves(s.tier, proven'[OwnerOf[s.of]]),
         UNCHANGED kycAnswer
  PROVE  KycInv'
<1>1. desk' \in [KycOfficer -> KycDesk]
  BY DEF KycInv
<1>2. \A q \in KycOfficer :
        desk'[q].pc \in {"idle", "flag", "recalculate", "write", "dequeue"}
  BY <1>1, DeskShape
<1>3. tier' \in [KycUser -> 0 .. 3]
  BY DEF Deserves
<1>4. ASSUME NEW q \in KycOfficer, desk'[q].pc = "write"
      PROVE  Deserves(desk'[q].tier, proven'[OwnerOf[desk'[q].of]])
  <2>1. CASE q = o
    <3>1. desk'[o] = s
      BY DEF KycInv
    <3> QED
      BY <1>4, <2>1, <3>1
  <2>2. CASE q # o
    <3>1. desk'[q] = desk[q] /\ desk[q] \in KycDesk /\ desk[q].pc = "write"
      BY <1>4, <2>2 DEF KycInv
    <3>2. OwnerOf[desk[q].of] \in KycUser
      BY <3>1, DeskShape, KycAssumption
    <3>3. Deserves(desk[q].tier, proven[OwnerOf[desk[q].of]])
      BY <3>1 DEF KycInv, TiersDeserved
    <3> QED
      BY <3>1, <3>2, <3>3, MoreFlags
  <2> QED
    BY <2>1, <2>2
<1> QED
  BY <1>1, <1>2, <1>3, <1>4 DEF KycInv, KycTypeOK, TiersDeserved

(* Every step keeps the invariant.                                         *)
LEMMA NextKycInv == KycInv /\ [KycNext]_kycVars => KycInv'
<1> SUFFICES ASSUME KycInv, [KycNext]_kycVars PROVE KycInv'
  OBVIOUS
<1>0. /\ document \in [Document -> {"none", "stored", "pending_verification", "verified",
                                    "rejected"}]
      /\ verifying \in [Document -> {"absent", "due", "queued"}]
      /\ proven \in [KycUser -> SUBSET Proof] /\ tier \in [KycUser -> 0 .. 3]
      /\ \A u \in KycUser : Deserves(tier[u], proven[u])
      /\ desk \in [KycOfficer -> KycDesk]
  BY DEF KycInv, KycTypeOK, TiersDeserved
<1>1. CASE /\ UNCHANGED <<proven, tier, desk>>
           /\ document' \in [Document -> {"none", "stored", "pending_verification",
                                          "verified", "rejected"}]
           /\ verifying' \in [Document -> {"absent", "due", "queued"}]
           /\ kycAnswer' \in {"none", "ok", "refused", "unanswered"}
  BY <1>1 DEF KycInv, KycTypeOK, TiersDeserved
<1>2. CASE UNCHANGED kycVars
  BY <1>0, <1>1, <1>2 DEF kycVars, KycInv, KycTypeOK
<1>3. CASE UploadRefused \/ ExportData \/ EraseData
           \/ \E u \in KycUser, a \in KycAmount, month \in KycMonth : CheckLimit(u, a, month)
  BY <1>0, <1>1, <1>3 DEF UploadRefused, ExportData, EraseData, CheckLimit
<1>4. ASSUME NEW d \in Document, StoreObject(d) \/ RecordDocument(d) \/ EnqueueDocument(d)
      PROVE  KycInv'
  BY <1>0, <1>1, <1>4
  DEF StoreObject, RecordDocument, EnqueueDocument, KycInv, KycTypeOK
<1>5. ASSUME NEW o \in KycOfficer, NEW d \in Document, NEW decision \in {"approved", "rejected"},
             Decide(o, d, decision)
      PROVE  KycInv'
  <2> DEFINE s == [pc |-> IF decision = "approved" THEN "flag" ELSE "dequeue", of |-> d]
  <2>1. s \in KycDesk /\ s.pc # "write"
    BY DeskForms
  <2>2. document' \in [Document -> {"none", "stored", "pending_verification", "verified",
                                    "rejected"}]
    BY <1>0, <1>5 DEF Decide
  <2>3. desk' = [desk EXCEPT ![o] = s] /\ UNCHANGED <<verifying, proven, tier, kycAnswer>>
    BY <1>5 DEF Decide
  <2> HIDE DEF s
  <2> QED
    BY <1>0, <2>1, <2>2, <2>3, DeskStep
<1>6. ASSUME NEW o \in KycOfficer, SetFlag(o) PROVE KycInv'
  <2> DEFINE d == desk[o].of
             s == [pc |-> "recalculate", of |-> d]
  <2>1. desk[o].pc = "flag" /\ desk[o] \in KycDesk
    BY <1>0, <1>6 DEF SetFlag
  <2>2. d \in Document /\ [desk[o] EXCEPT !.pc = "recalculate"] = s
    BY <2>1, DeskShape
  <2>3. s \in KycDesk /\ s.pc # "write"
    BY <2>2, DeskForms
  <2>4. desk' = [desk EXCEPT ![o] = s]
    BY <1>0, <1>6, <2>2 DEF SetFlag
  <2>5. OwnerOf[d] \in KycUser /\ ProofOf(d) \in Proof
    BY <2>2, KycAssumption, ProofOfDocument
  <2>6. /\ proven' = [proven EXCEPT ![OwnerOf[d]] = proven[OwnerOf[d]] \cup {ProofOf(d)}]
        /\ UNCHANGED <<document, verifying, tier, kycAnswer>>
    BY <1>6 DEF SetFlag
  <2>7. proven' \in [KycUser -> SUBSET Proof]
    BY <1>0, <2>5, <2>6
  <2>8. \A u \in KycUser : proven[u] \subseteq proven'[u]
    BY <1>0, <2>6
  <2>9. \A u \in KycUser : Deserves(tier'[u], proven'[u])
    BY <1>0, <2>6, <2>8, MoreFlags
  <2> HIDE DEF s, d
  <2> QED
    BY <1>0, <2>3, <2>4, <2>6, <2>7, <2>8, <2>9, DeskStep
<1>7. ASSUME NEW o \in KycOfficer, RecalculateKycTier(o) PROVE KycInv'
  <2> DEFINE d == desk[o].of
             flags == proven[OwnerOf[d]]
             s == [pc |-> "write", of |-> d, tier |-> TierOf(flags)]
  <2>1. d \in Document
    BY <1>0, <1>7, DeskShape DEF RecalculateKycTier
  <2>2. flags \in SUBSET Proof
    BY <1>0, <2>1, KycAssumption
  <2>3. Deserves(TierOf(flags), flags)
    BY <2>2, TierOfDeserved
  <2>4. TierOf(flags) \in 0 .. 3
    BY <2>3 DEF Deserves
  <2>5. s \in KycDesk /\ s.of = d /\ s.tier = TierOf(flags)
    BY <2>1, <2>4, DeskForms
  <2>6. desk' = [desk EXCEPT ![o] = s]
    BY <1>0, <1>7 DEF RecalculateKycTier
  <2>7. UNCHANGED <<document, verifying, proven, tier, kycAnswer>>
    BY <1>7 DEF RecalculateKycTier
  <2>8. Deserves(s.tier, proven'[OwnerOf[s.of]])
    BY <2>3, <2>5, <2>7
  <2> HIDE DEF s, d, flags
  <2> QED
    BY <1>0, <2>5, <2>6, <2>7, <2>8, DeskStep
<1>8. ASSUME NEW o \in KycOfficer, WriteTier(o) PROVE KycInv'
  <2> DEFINE d == desk[o].of
             s == [pc |-> "dequeue", of |-> d]
  <2>1. desk[o].pc = "write" /\ d \in Document
    BY <1>0, <1>8, DeskShape DEF WriteTier
  <2>2. Deserves(desk[o].tier, proven[OwnerOf[d]])
    BY <2>1 DEF KycInv, TiersDeserved
  <2>3. s \in KycDesk /\ s.pc # "write"
    BY <2>1, DeskForms
  <2>4. /\ desk' = [desk EXCEPT ![o] = s]
        /\ tier' = [tier EXCEPT ![OwnerOf[d]] = desk[o].tier]
        /\ UNCHANGED <<document, verifying, proven, kycAnswer>>
    BY <1>0, <1>8 DEF WriteTier
  <2>5. \A u \in KycUser : Deserves(tier'[u], proven'[u])
    BY <1>0, <2>2, <2>4
  <2>6. DOMAIN tier' = KycUser /\ tier' = [u \in DOMAIN tier' |-> tier'[u]]
    BY <1>0, <2>4
  <2> HIDE DEF s, d
  <2> QED
    BY <1>0, <2>3, <2>4, <2>5, <2>6, DeskStep
<1>9. ASSUME NEW o \in KycOfficer, Dequeue(o) PROVE KycInv'
  <2>1. Idle \in KycDesk /\ Idle.pc # "write"
    BY DeskForms DEF Idle
  <2>2. desk' = [desk EXCEPT ![o] = Idle] /\ UNCHANGED <<document, proven, tier, kycAnswer>>
    BY <1>9 DEF Dequeue
  <2>3. verifying' \in [Document -> {"absent", "due", "queued"}]
    BY <1>0, <1>9, DeskShape DEF Dequeue
  <2> QED
    BY <1>0, <2>1, <2>2, <2>3, DeskStep
<1>10. CASE KycNext
  BY <1>3, <1>4, <1>5, <1>6, <1>7, <1>8, <1>9, <1>10 DEF KycNext
<1> QED
  BY <1>2, <1>10

(* The invariant of the identity file.                                     *)
THEOREM KycInvariance == KycSpec => []KycInv
BY InitKycInv, NextKycInv, PTL DEF KycSpec

(* Documents, flags, tiers and requests stay in their types                *)
(* (kyc.service.ts).                                                       *)
THEOREM KycTypeCorrect == KycSpec => []KycTypeOK
<1>1. KycInv => KycTypeOK
  BY DEF KycInv
<1> QED
  BY <1>1, KycInvariance, PTL

(* A tier never outruns the proofs, however many verifications of one user *)
(* overlap: the second tier takes an identity document and a selfie, the   *)
(* third an address on top (kyc.service.ts:292-323).                       *)
THEOREM TiersAreProven == KycSpec => []TierIsProven
<1>1. KycInv => TierIsProven
  BY DEF KycInv, TiersDeserved, Deserves, TierIsProven
<1> QED
  BY <1>1, KycInvariance, PTL
-------------------------------------------------------------------------------
(* Auth.  A request that will count was let in when the counter was below  *)
(* the limit, and counts when it stops being under way.  So what is counted*)
(* and what is under way together never pass the limit and one per other   *)
(* request.                                                                *)

Comparing == {c \in AuthCall : authCall[c].pc \in {"compare"}}
Coding    == {c \in AuthCall : authCall[c].pc \in {"code", "wrong"}}

AuthRecord ==
  [pc : {"idle", "create", "wallet", "compare", "code", "wrong", "resend", "done"}]
    \cup [pc : {"reset"}, token : ResetToken]
    \cup [pc : {"rotate"}, token : 1 .. refresh]

AuthRows ==
  /\ attempts \in Nat /\ tries \in Nat
  /\ refresh \in 0 .. MaxRefresh /\ blocked \in 0 .. refresh
  /\ resets \subseteq ResetToken /\ spent \subseteq ResetToken
  /\ userRow \in {"none", "bare", "whole"} /\ otpCode \in {"none", "sent"}
  /\ cooling \in BOOLEAN /\ isVerified \in BOOLEAN
  /\ secondFactor \in {"off", "set_up", "on"}

AuthInv ==
  /\ AuthRows
  /\ authCall \in [AuthCall -> AuthRecord]
  /\ attempts + Cardinality(Comparing) <= MaxLoginAttempts + Cardinality(AuthCall) - 1
  /\ tries + Cardinality(Coding) <= MaxAttempts + Cardinality(AuthCall) - 1

(* The requests and the limits, as numbers.                                *)
LEMMA AuthNumbers ==
  /\ MaxLoginAttempts \in Nat \ {0} /\ MaxAttempts \in Nat \ {0} /\ MaxRefresh \in Nat \ {0}
  /\ Cardinality(AuthCall) \in Nat
BY AuthAssumption, FS_CardinalityType

(* A counter k and the requests U under way become m and V: below the limit*)
(* everybody may be under way; otherwise nobody sets out, and who counts is*)
(* under way no more.                                                      *)
LEMMA CounterStep ==
  ASSUME NEW U \in SUBSET AuthCall, NEW V \in SUBSET AuthCall, NEW c \in AuthCall,
         NEW k \in Nat, NEW m \in Nat, NEW limit \in Nat \ {0},
         k + Cardinality(U) <= limit + Cardinality(AuthCall) - 1,
         \/ m < limit
         \/ m <= k /\ V \subseteq U
         \/ m <= k + 1 /\ c \in U /\ V \subseteq U \ {c}
  PROVE  m + Cardinality(V) <= limit + Cardinality(AuthCall) - 1
<1>1. IsFiniteSet(AuthCall) /\ IsFiniteSet(U) /\ IsFiniteSet(V)
  BY AuthAssumption, FS_Subset
<1>2. /\ Cardinality(AuthCall) \in Nat /\ Cardinality(U) \in Nat /\ Cardinality(V) \in Nat
  BY <1>1, FS_CardinalityType
<1>3. CASE m < limit
  <2>1. Cardinality(V) <= Cardinality(AuthCall)
    BY <1>1, FS_Subset
  <2> QED
    BY <1>2, <1>3, <2>1
<1>4. CASE m <= k /\ V \subseteq U
  <2>1. Cardinality(V) <= Cardinality(U)
    BY <1>1, <1>4, FS_Subset
  <2> QED
    BY <1>2, <1>4, <2>1
<1>5. CASE m <= k + 1 /\ c \in U /\ V \subseteq U \ {c}
  <2>1. IsFiniteSet(U \ {c}) /\ Cardinality(U \ {c}) = Cardinality(U) - 1
    BY <1>1, <1>5, FS_RemoveElement
  <2>2. Cardinality(V) <= Cardinality(U \ {c})
    BY <1>5, <2>1, FS_Subset
  <2> QED
    BY <1>2, <1>5, <2>1, <2>2
<1> QED
  BY <1>3, <1>4, <1>5

(* Nobody has asked for anything yet.                                      *)
LEMMA InitAuthInv == AuthInit => AuthInv
<1> SUFFICES ASSUME AuthInit PROVE AuthInv
  OBVIOUS
<1>1. authCall \in [AuthCall -> AuthRecord] /\ Comparing = {} /\ Coding = {}
  BY DEF AuthInit, AuthRecord, Idling, Comparing, Coding
<1>2. Cardinality(Comparing) = 0 /\ Cardinality(Coding) = 0
  BY <1>1, FS_EmptySet
<1>3. AuthRows /\ attempts = 0 /\ tries = 0
  <2>1. cooling \in BOOLEAN /\ isVerified \in BOOLEAN
    BY Zenon DEF AuthInit
  <2> QED
    BY <2>1, AuthNumbers DEF AuthInit, AuthRows
<1> QED
  BY <1>1, <1>2, <1>3, AuthNumbers DEF AuthInv

(* What a request that moves on answers for.                               *)
LEMMA AuthStep ==
  ASSUME AuthInv, AuthRows', refresh <= refresh',
         NEW c \in AuthCall, NEW s \in AuthRecord, Goto(c, s),
         \/ attempts' < MaxLoginAttempts
         \/ attempts' <= attempts /\ s.pc # "compare"
         \/ attempts' <= attempts + 1 /\ At(c, "compare") /\ s.pc # "compare",
         \/ tries' < MaxAttempts
         \/ tries' <= tries /\ s.pc \notin {"code", "wrong"}
         \/ tries' <= tries /\ At(c, "code")
         \/ tries' <= tries + 1 /\ At(c, "wrong") /\ s.pc \notin {"code", "wrong"}
  PROVE  AuthInv'
<1>1. refresh \in Nat /\ refresh' \in Nat /\ attempts \in Nat /\ attempts' \in Nat
      /\ tries \in Nat /\ tries' \in Nat
  BY DEF AuthInv, AuthRows
<1>2. \A x \in AuthRecord : x \in AuthRecord'
  <2>1. 1 .. refresh \subseteq 1 .. refresh'
    BY <1>1
  <2> QED
    BY <2>1 DEF AuthRecord
<1>3. authCall' = [authCall EXCEPT ![c] = s] /\ authCall \in [AuthCall -> AuthRecord]
  BY DEF Goto, AuthInv
<1>4. authCall' \in [AuthCall -> AuthRecord']
  BY <1>2, <1>3
<1>5. authCall'[c] = s /\ \A d \in AuthCall : d # c => authCall'[d] = authCall[d]
  BY <1>3
<1>6. /\ Comparing \in SUBSET AuthCall /\ Comparing' \in SUBSET AuthCall
      /\ Coding \in SUBSET AuthCall /\ Coding' \in SUBSET AuthCall
  BY DEF Comparing, Coding
<1>7. attempts' + Cardinality(Comparing') <= MaxLoginAttempts + Cardinality(AuthCall) - 1
  <2>1. \/ attempts' < MaxLoginAttempts
        \/ attempts' <= attempts /\ Comparing' \subseteq Comparing
        \/ /\ attempts' <= attempts + 1 /\ c \in Comparing
           /\ Comparing' \subseteq Comparing \ {c}
    BY <1>5 DEF Comparing, At
  <2> QED
    BY <1>1, <1>6, <2>1, CounterStep, AuthNumbers DEF AuthInv
<1>8. tries' + Cardinality(Coding') <= MaxAttempts + Cardinality(AuthCall) - 1
  <2>1. \/ tries' < MaxAttempts
        \/ tries' <= tries /\ Coding' \subseteq Coding
        \/ tries' <= tries + 1 /\ c \in Coding /\ Coding' \subseteq Coding \ {c}
    BY <1>5 DEF Coding, At
  <2> QED
    BY <1>1, <1>6, <2>1, CounterStep, AuthNumbers DEF AuthInv
<1> QED
  BY <1>4, <1>7, <1>8 DEF AuthInv

(* What a step of no request answers for.                                  *)
LEMMA AuthQuietStep ==
  ASSUME AuthInv, AuthRows', UNCHANGED <<authCall, refresh>>,
         attempts' <= attempts, tries' <= tries
  PROVE  AuthInv'
<1>1. Comparing' = Comparing /\ Coding' = Coding /\ AuthRecord' = AuthRecord
  BY DEF Comparing, Coding, AuthRecord
<1>2. IsFiniteSet(Comparing) /\ IsFiniteSet(Coding)
  BY AuthAssumption, FS_Subset DEF Comparing, Coding
<1>3. Cardinality(Comparing) \in Nat /\ Cardinality(Coding) \in Nat
  BY <1>2, FS_CardinalityType
<1>4. attempts \in Nat /\ tries \in Nat /\ attempts' \in Nat /\ tries' \in Nat
  BY DEF AuthInv, AuthRows
<1> QED
  BY <1>1, <1>3, <1>4, AuthNumbers DEF AuthInv

(* The records that requests write.                                        *)
LEMMA AuthForms ==
  /\ Done \in AuthRecord /\ Done.pc = "done"
  /\ Idling \in AuthRecord /\ Idling.pc = "idle"
  /\ \A p \in {"create", "wallet", "compare", "code", "wrong", "resend"} :
       [pc |-> p] \in AuthRecord
  /\ \A t \in ResetToken : [pc |-> "reset", token |-> t] \in AuthRecord
  /\ \A t \in 1 .. refresh : [pc |-> "rotate", token |-> t] \in AuthRecord
BY DEF AuthRecord, Done, Idling

(* The token of a request is there.                                        *)
LEMMA AuthTokens ==
  ASSUME AuthInv, NEW c \in AuthCall
  PROVE  /\ At(c, "reset") => authCall[c].token \in ResetToken
         /\ At(c, "rotate") => authCall[c].token \in 1 .. refresh
<1>1. authCall[c] \in AuthRecord
  BY DEF AuthInv
<1> QED
  BY <1>1 DEF AuthRecord, At

(* Tokens are only ever issued.                                            *)
LEMMA TokensIssued ==
  ASSUME AuthRows, IssueTokens
  PROVE  refresh' \in 0 .. MaxRefresh /\ refresh <= refresh'
BY AuthNumbers DEF AuthRows, IssueTokens

(* Registration and login.                                                 *)
LEMMA LoginAuthInv ==
  ASSUME AuthInv, NEW c \in AuthCall,
         \/ BeginRegister(c) \/ CreateUser(c) \/ CreateWallet(c) \/ BeginLogin(c)
         \/ \E right \in BOOLEAN : FinishLogin(c, right)
         \/ Again(c)
  PROVE  AuthInv'
<1> USE DEF otpVars, resetVars, tokenVars
<1>1. AuthRows /\ refresh \in Nat /\ attempts \in Nat /\ tries \in Nat
  BY DEF AuthInv, AuthRows
<1>2. CASE BeginRegister(c) \/ Again(c)
  <2>1. PICK s \in AuthRecord : Goto(c, s) /\ s.pc \in {"create", "done", "idle"}
    BY <1>2, AuthForms DEF BeginRegister, Again
  <2>2. AuthRows' /\ UNCHANGED <<refresh, attempts, tries>>
    BY <1>1, <1>2 DEF BeginRegister, Again, AuthRows
  <2> QED
    BY <1>1, <2>1, <2>2, AuthStep
<1>3. CASE CreateUser(c)
  <2>1. PICK s \in AuthRecord : Goto(c, s) /\ s.pc \in {"wallet", "done"}
    BY <1>3, AuthForms DEF CreateUser
  <2>2. AuthRows' /\ UNCHANGED <<refresh, attempts, tries>>
    BY <1>1, <1>3 DEF CreateUser, AuthRows
  <2> QED
    BY <1>1, <2>1, <2>2, AuthStep
<1>4. CASE CreateWallet(c)
  <2>1. Goto(c, Done)
    BY <1>4 DEF CreateWallet
  <2>2. refresh' \in 0 .. MaxRefresh /\ refresh <= refresh'
    BY <1>1, <1>4, TokensIssued DEF CreateWallet
  <2>3. AuthRows' /\ tries' = 0 /\ UNCHANGED attempts
    BY <1>1, <1>4, <2>2 DEF CreateWallet, GenerateOtp, AuthRows
  <2> QED
    BY <1>1, <2>1, <2>2, <2>3, AuthForms, AuthNumbers, AuthStep
<1>5. CASE BeginLogin(c)
  <2>1. PICK s \in AuthRecord :
          /\ Goto(c, s) /\ s.pc \in {"compare", "done"}
          /\ s.pc = "compare" => ~ attempts >= MaxLoginAttempts
    BY <1>5, AuthForms DEF BeginLogin
  <2>2. AuthRows' /\ UNCHANGED <<refresh, attempts, tries>>
    BY <1>1, <1>5 DEF BeginLogin, AuthRows
  <2>3. s.pc # "compare" \/ attempts' < MaxLoginAttempts
    BY <1>1, <2>1, <2>2, AuthNumbers
  <2> QED
    BY <1>1, <2>1, <2>2, <2>3, AuthStep
<1>6. ASSUME NEW right \in BOOLEAN, FinishLogin(c, right) PROVE AuthInv'
  <2>1. Goto(c, Done) /\ At(c, "compare") /\ UNCHANGED tries
    BY <1>6 DEF FinishLogin
  <2>2. refresh' \in 0 .. MaxRefresh /\ refresh <= refresh'
    BY <1>1, <1>6, TokensIssued DEF FinishLogin, AuthRows
  <2>3. attempts' \in {0, attempts + 1}
    BY <1>6 DEF FinishLogin
  <2>4. AuthRows'
    BY <1>1, <1>6, <2>2, <2>3 DEF FinishLogin, AuthRows
  <2>5. attempts' <= attempts + 1
    BY <1>1, <2>3
  <2> QED
    BY <1>1, <2>1, <2>2, <2>4, <2>5, AuthForms, AuthStep
<1> QED
  BY <1>2, <1>3, <1>4, <1>5, <1>6

(* One-time codes.                                                         *)
LEMMA CodeAuthInv ==
  ASSUME AuthInv, NEW c \in AuthCall,
         \/ BeginVerifyOtp(c) \/ CountWrongOtp(c) \/ BeginResend(c) \/ FinishResend(c)
         \/ \E right \in BOOLEAN : CompareOtp(c, right)
  PROVE  AuthInv'
<1> USE DEF otpVars, resetVars, tokenVars
<1>1. AuthRows /\ refresh \in Nat /\ attempts \in Nat /\ tries \in Nat
  BY DEF AuthInv, AuthRows
<1>2. CASE BeginVerifyOtp(c)
  <2>1. PICK s \in AuthRecord :
          /\ Goto(c, s)
          /\ \/ s.pc = "done" /\ tries' = 0 /\ otpCode' = "none"
             \/ /\ s.pc = "code" /\ ~ tries >= MaxAttempts
                /\ UNCHANGED <<tries, otpCode>>
    BY <1>2, AuthForms DEF BeginVerifyOtp
  <2>2. AuthRows' /\ UNCHANGED <<refresh, attempts>>
    BY <1>1, <1>2, <2>1 DEF BeginVerifyOtp, AuthRows
  <2>3. tries' < MaxAttempts
    BY <1>1, <2>1, AuthNumbers
  <2>4. s.pc # "compare"
    BY <2>1
  <2> QED
    BY <1>1, <2>1, <2>2, <2>3, <2>4, AuthStep
<1>3. ASSUME NEW right \in BOOLEAN, CompareOtp(c, right) PROVE AuthInv'
  <2>1. PICK s \in AuthRecord :
          /\ Goto(c, s) /\ s.pc \in {"done", "wrong"}
          /\ \/ UNCHANGED <<otpCode, tries, isVerified>>
             \/ otpCode' = "none" /\ tries' = 0 /\ isVerified' = TRUE
    BY <1>1, <1>3, AuthForms DEF CompareOtp, AuthRows
  <2>2. UNCHANGED <<refresh, attempts>> /\ At(c, "code")
    BY <1>3 DEF CompareOtp
  <2>3. cooling' \in BOOLEAN /\ isVerified' \in BOOLEAN
    <3>1. UNCHANGED cooling
      BY <1>3 DEF CompareOtp
    <3> QED
      BY <1>1, <2>1, <3>1, Zenon DEF AuthRows
  <2>4. UNCHANGED <<userRow, resets, spent, blocked, secondFactor>>
    BY <1>3 DEF CompareOtp
  <2>5. AuthRows'
    BY <1>1, <2>1, <2>2, <2>3, <2>4 DEF AuthRows
  <2>6. tries' <= tries
    BY <1>1, <2>1
  <2>7. s.pc # "compare"
    BY <2>1
  <2> QED
    BY <1>1, <2>1, <2>2, <2>5, <2>6, <2>7, AuthStep
<1>4. CASE CountWrongOtp(c)
  <2>1. Goto(c, Done) /\ At(c, "wrong") /\ tries' = tries + 1
    BY <1>4 DEF CountWrongOtp
  <2>2. AuthRows' /\ UNCHANGED <<refresh, attempts>>
    BY <1>1, <1>4 DEF CountWrongOtp, AuthRows
  <2>3. tries' <= tries + 1
    BY <1>1, <2>1
  <2> QED
    BY <1>1, <2>1, <2>2, <2>3, AuthForms, AuthStep
<1>5. CASE BeginResend(c)
  <2>1. PICK s \in AuthRecord : Goto(c, s) /\ s.pc \in {"resend", "done"}
    BY <1>5, AuthForms DEF BeginResend
  <2>2. AuthRows' /\ UNCHANGED <<refresh, attempts, tries>>
    BY <1>1, <1>5 DEF BeginResend, AuthRows
  <2> QED
    BY <1>1, <2>1, <2>2, AuthStep
<1>6. CASE FinishResend(c)
  <2>1. Goto(c, Done) /\ tries' = 0 /\ UNCHANGED <<refresh, attempts>>
    BY <1>6 DEF FinishResend, GenerateOtp
  <2>2. AuthRows'
    BY <1>1, <1>6 DEF FinishResend, GenerateOtp, AuthRows
  <2> QED
    BY <1>1, <2>1, <2>2, AuthForms, AuthNumbers, AuthStep
<1> QED
  BY <1>2, <1>3, <1>4, <1>5, <1>6

(* Passwords forgotten and tokens rotated.                                 *)
LEMMA TokenAuthInv ==
  ASSUME AuthInv, NEW c \in AuthCall,
         \/ FinishReset(c) \/ FinishRotate(c)
         \/ \E t \in ResetToken : BeginReset(c, t)
         \/ \E t \in 1 .. MaxRefresh : BeginRotate(c, t)
  PROVE  AuthInv'
<1> USE DEF otpVars, resetVars, tokenVars
<1>1. AuthRows /\ refresh \in Nat /\ attempts \in Nat /\ tries \in Nat
  BY DEF AuthInv, AuthRows
<1>2. CASE FinishReset(c)
  <2>1. Goto(c, Done) /\ UNCHANGED <<refresh, attempts, tries>>
    BY <1>2 DEF FinishReset
  <2>2. AuthRows'
    BY <1>1, <1>2, AuthTokens DEF FinishReset, AuthRows
  <2> QED
    BY <1>1, <2>1, <2>2, AuthForms, AuthStep
<1>3. CASE FinishRotate(c)
  <2>1. Goto(c, Done) /\ UNCHANGED <<attempts, tries>>
    BY <1>3 DEF FinishRotate
  <2>2. refresh' \in 0 .. MaxRefresh /\ refresh <= refresh'
    BY <1>1, <1>3, TokensIssued DEF FinishRotate
  <2>3. blocked' \in 1 .. refresh
    BY <1>3, AuthTokens DEF FinishRotate
  <2>4. AuthRows'
    BY <1>1, <1>3, <2>2, <2>3 DEF FinishRotate, AuthRows
  <2> QED
    BY <1>1, <2>1, <2>2, <2>4, AuthForms, AuthStep
<1>4. ASSUME NEW t \in ResetToken, BeginReset(c, t) PROVE AuthInv'
  <2>1. PICK s \in AuthRecord : Goto(c, s) /\ s.pc \in {"reset", "done"}
    BY <1>4, AuthForms DEF BeginReset
  <2>2. AuthRows' /\ UNCHANGED <<refresh, attempts, tries>>
    BY <1>1, <1>4 DEF BeginReset, AuthRows
  <2> QED
    BY <1>1, <2>1, <2>2, AuthStep
<1>5. ASSUME NEW t \in 1 .. MaxRefresh, BeginRotate(c, t) PROVE AuthInv'
  <2>1. PICK s \in AuthRecord : Goto(c, s) /\ s.pc \in {"rotate", "done"}
    BY <1>5, AuthForms DEF BeginRotate
  <2>2. AuthRows' /\ UNCHANGED <<refresh, attempts, tries>>
    BY <1>1, <1>5 DEF BeginRotate, AuthRows
  <2> QED
    BY <1>1, <2>1, <2>2, AuthStep
<1> QED
  BY <1>2, <1>3, <1>4, <1>5

(* Every step keeps the invariant.                                         *)
LEMMA NextAuthInv == AuthInv /\ [AuthNext]_authVars => AuthInv'
<1> SUFFICES ASSUME AuthInv, [AuthNext]_authVars PROVE AuthInv'
  OBVIOUS
<1> USE DEF otpVars, resetVars, tokenVars
<1>1. AuthRows /\ attempts \in Nat /\ tries \in Nat
  BY DEF AuthInv, AuthRows
<1>2. CASE UNCHANGED authVars
  <2>1. AuthRows' /\ UNCHANGED <<authCall, refresh, attempts, tries>>
    BY <1>1, <1>2 DEF authVars, AuthRows
  <2> QED
    BY <1>1, <2>1, AuthQuietStep
<1>3. CASE LockoutEnds
  <2>1. AuthRows' /\ UNCHANGED <<authCall, refresh, tries>> /\ attempts' = 0
    BY <1>1, <1>3 DEF LockoutEnds, AuthRows
  <2> QED
    BY <1>1, <2>1, AuthQuietStep
<1>6. CASE OtpKeysExpire
  <2>1. UNCHANGED <<authCall, refresh, attempts, userRow, resets, spent, blocked, secondFactor>>
    BY <1>6 DEF OtpKeysExpire
  <2>2. cooling' \in BOOLEAN /\ isVerified' \in BOOLEAN
    <3>1. cooling' \in {cooling, FALSE} /\ isVerified' = isVerified
      BY <1>6 DEF OtpKeysExpire
    <3> QED
      BY <1>1, <3>1, Zenon DEF AuthRows
  <2>3. tries' \in {tries, 0} /\ otpCode' \in {otpCode, "none"}
    BY <1>6 DEF OtpKeysExpire
  <2>4. AuthRows'
    BY <1>1, <2>1, <2>2, <2>3 DEF AuthRows
  <2> QED
    BY <1>1, <2>1, <2>3, <2>4, AuthQuietStep
<1>4. CASE Logout \/ Enable2fa \/ Verify2fa
           \/ \E t \in ResetToken : ForgotPassword(t) \/ ResetExpires(t)
  <2>1. AuthRows' /\ UNCHANGED <<authCall, refresh, attempts, tries>>
    BY <1>1, <1>4
    DEF Logout, Enable2fa, Verify2fa, ForgotPassword, ResetExpires, AuthRows
  <2> QED
    BY <1>1, <2>1, AuthQuietStep
<1>5. CASE AuthNext
  BY <1>3, <1>4, <1>5, <1>6, LoginAuthInv, CodeAuthInv, TokenAuthInv DEF AuthNext
<1> QED
  BY <1>2, <1>5

(* The invariant of the account.                                           *)
THEOREM AuthInvariance == AuthSpec => []AuthInv
BY InitAuthInv, NextAuthInv, PTL DEF AuthSpec

(* Rows, keys, counters and requests stay in their types; in particular the*)
(* counters stay within the limits and the requests at once                *)
(* (auth.service.ts, otp.service.ts).                                      *)
THEOREM AuthTypeCorrect == AuthSpec => []AuthTypeOK
<1>1. AuthInv => AuthTypeOK
  <2> SUFFICES ASSUME AuthInv PROVE AuthTypeOK
    OBVIOUS
  <2>1. IsFiniteSet(Comparing) /\ IsFiniteSet(Coding)
    BY AuthAssumption, FS_Subset DEF Comparing, Coding
  <2>2. Cardinality(Comparing) \in Nat /\ Cardinality(Coding) \in Nat
    BY <2>1, FS_CardinalityType
  <2>3. /\ attempts \in 0 .. MaxLoginAttempts + Cardinality(AuthCall)
        /\ tries \in 0 .. MaxAttempts + Cardinality(AuthCall)
    BY <2>2, AuthNumbers DEF AuthInv, AuthRows
  <2>4. \A c \in AuthCall :
          authCall[c].pc \in {"idle", "create", "wallet", "compare", "count", "code",
                              "wrong", "resend", "reset", "rotate", "done"}
    BY DEF AuthInv, AuthRecord
  <2> QED
    BY <2>3, <2>4 DEF AuthInv, AuthRows, AuthTypeOK
<1> QED
  BY <1>1, AuthInvariance, PTL

(* A burst of logins, or of codes, gets past the limit only by the requests*)
(* that were under way when it was reached, however many there are: what   *)
(* was counted and what is still to be counted stay within the limit and   *)
(* one per other request (auth.service.ts:71-100, otp.service.ts:18-40).   *)
THEOREM BurstsAreBounded == AuthSpec => []AttemptsAreBounded
<1>1. AuthInv => AttemptsAreBounded
  BY AuthNumbers DEF AuthInv, AttemptsAreBounded, Comparing, Coding
<1> QED
  BY <1>1, AuthInvariance, PTL
-------------------------------------------------------------------------------
(* Bot.  A conversation that waits for a YES, in the row or in a copy that *)
(* the handler of a message read, names an amount and a group the user was *)
(* asked about; what was asked stays asked.                                *)

RowOffered(row) ==
  row.state = "awaiting_confirm" => \A g \in row.groups : <<row.amount, g>> \in offers

BotRecord ==
  {NoMessage, [pc |-> "prompted"]} \cup [pc : {"loaded"}, row : SessionRow]

BotInv ==
  /\ session \in SessionRow /\ RowOffered(session)
  /\ belongs \subseteq BotGroup /\ offers \subseteq Offer
  /\ prompts \in [Offer -> 0 .. MaxPrompts]
  /\ botCall \in [BotCall -> BotRecord]
  /\ \A c \in BotCall : botCall[c].pc = "loaded" => RowOffered(botCall[c].row)
  /\ PromptsWereOffered

(* What a conversation's row is made of.                                   *)
LEMMA SessionRows ==
  /\ IdleSession \in SessionRow /\ IdleSession.state = "idle"
  /\ [state |-> "awaiting_amount", amount |-> 0, groups |-> {}] \in SessionRow
  /\ \A a \in BotAmount, G \in SUBSET BotGroup, st \in {"awaiting_chama", "awaiting_confirm"} :
       [state |-> st, amount |-> a, groups |-> G] \in SessionRow
  /\ \A row \in SessionRow :
       row.state \in {"awaiting_chama", "awaiting_confirm"} =>
         row.amount \in BotAmount /\ row.groups \in SUBSET BotGroup
BY DEF SessionRow, IdleSession

(* What the place of a message tells of its record.                        *)
LEMMA BotRecords ==
  /\ NoMessage \in BotRecord /\ NoMessage.pc = "none"
  /\ [pc |-> "prompted"] \in BotRecord
  /\ \A row \in SessionRow : [pc |-> "loaded", row |-> row] \in BotRecord
  /\ \A s \in BotRecord : /\ s.pc \in {"none", "loaded", "prompted"}
                          /\ s.pc = "loaded" => s.row \in SessionRow
BY DEF BotRecord, NoMessage

(* Nobody has written yet.                                                 *)
LEMMA InitBotInv == BotInit => BotInv
<1> SUFFICES ASSUME BotInit PROVE BotInv
  OBVIOUS
<1>1. botCall \in [BotCall -> BotRecord] /\ \A c \in BotCall : botCall[c].pc = "none"
  BY BotRecords DEF BotInit
<1>2. session \in SessionRow /\ RowOffered(session)
  BY SessionRows DEF BotInit, RowOffered
<1> QED
  BY <1>1, <1>2, BotAssumption DEF BotInit, BotInv, PromptsWereOffered

(* A step writes the row and one message's record; nothing asked is taken  *)
(* back.                                                                   *)
LEMMA BotStep ==
  ASSUME BotInv, NEW c \in BotCall, NEW s \in BotRecord, botCall' = [botCall EXCEPT ![c] = s],
         offers \subseteq offers', offers' \subseteq Offer,
         session' \in SessionRow, RowOffered(session)',
         s.pc = "loaded" => s.row = session',
         prompts' \in [Offer -> 0 .. MaxPrompts],
         \A o \in Offer : prompts'[o] > 0 => o \in offers',
         UNCHANGED belongs
  PROVE  BotInv'
<1>1. /\ botCall' \in [BotCall -> BotRecord]
      /\ botCall'[c] = s
      /\ \A d \in BotCall : d # c => botCall'[d] = botCall[d]
  BY DEF BotInv
<1>2. ASSUME NEW d \in BotCall, botCall'[d].pc = "loaded" PROVE RowOffered(botCall[d].row)'
  <2>1. CASE d = c
    BY <1>1, <1>2, <2>1 DEF RowOffered
  <2>2. CASE d # c
    <3>1. RowOffered(botCall[d].row) /\ botCall'[d] = botCall[d]
      BY <1>1, <1>2, <2>2 DEF BotInv
    <3> QED
      BY <3>1 DEF RowOffered
  <2> QED
    BY <2>1, <2>2
<1> QED
  BY <1>1, <1>2 DEF BotInv, PromptsWereOffered

(* A handler that ends with nothing more to ask.                           *)
LEMMA BotEnds ==
  ASSUME BotInv, NEW c \in BotCall, Handled(c), UNCHANGED <<belongs, offers, prompts>>,
         NEW row \in SessionRow, session' = row, RowOffered(row)
  PROVE  BotInv'
<1>1. RowOffered(session)'
  BY DEF RowOffered
<1>2. NoMessage \in BotRecord /\ NoMessage.pc # "loaded"
  BY BotRecords
<1>3. botCall' = [botCall EXCEPT ![c] = NoMessage]
  BY DEF Handled
<1>4. \A o \in Offer : prompts'[o] > 0 => o \in offers'
  BY DEF BotInv, PromptsWereOffered
<1> QED
  BY <1>1, <1>2, <1>3, <1>4, BotStep DEF BotInv

(* A handler that asks the user to confirm.                                *)
LEMMA BotAsks ==
  ASSUME BotInv, NEW c \in BotCall, NEW a \in BotAmount, NEW g \in BotGroup,
         Write(c, Confirming(a, g)), offers' = offers \cup {<<a, g>>},
         UNCHANGED <<belongs, prompts>>
  PROVE  BotInv'
<1> DEFINE row == [state |-> "awaiting_confirm", amount |-> a, groups |-> {g}]
<1>1. row \in SessionRow /\ session' = row
  BY SessionRows DEF Write, Confirming
<1>2. RowOffered(session)'
  BY <1>1 DEF RowOffered
<1>3. NoMessage \in BotRecord /\ NoMessage.pc # "loaded"
  BY BotRecords
<1>4. botCall' = [botCall EXCEPT ![c] = NoMessage]
  BY DEF Write, Handled
<1>5. offers' \subseteq Offer
  BY DEF BotInv, Offer
<1>6. \A o \in Offer : prompts'[o] > 0 => o \in offers'
  BY DEF BotInv, PromptsWereOffered
<1> QED
  BY <1>1, <1>2, <1>3, <1>4, <1>5, <1>6, BotStep DEF BotInv

(* Every step keeps the invariant.                                         *)
LEMMA NextBotInv == BotInv /\ [BotNext]_botVars => BotInv'
<1> SUFFICES ASSUME BotInv, [BotNext]_botVars PROVE BotInv'
  OBVIOUS
<1>1. RowOffered(IdleSession) /\ IdleSession \in SessionRow
  BY SessionRows DEF RowOffered
<1>2. session \in SessionRow /\ RowOffered(session)
  BY DEF BotInv
<1>3. ASSUME NEW c \in BotCall, botCall[c].pc = "loaded"
      PROVE  botCall[c].row \in SessionRow /\ RowOffered(botCall[c].row)
  BY <1>3, BotRecords DEF BotInv
<1>4. CASE UNCHANGED botVars
  BY <1>4 DEF botVars, BotInv, RowOffered, PromptsWereOffered
<1>5. ASSUME NEW g \in BotGroup, BelongsChanges(g) PROVE BotInv'
  BY <1>5 DEF BelongsChanges, BotInv, RowOffered, PromptsWereOffered
<1>6. ASSUME NEW c \in BotCall, NEW stale \in BOOLEAN, LoadSession(c, stale) PROVE BotInv'
  <2>1. PICK row : row = IF stale THEN IdleSession ELSE session
    OBVIOUS
  <2>2. row \in SessionRow /\ RowOffered(row)
    BY <1>1, <1>2, <2>1
  <2> DEFINE s == [pc |-> "loaded", row |-> row]
  <2>3. s \in BotRecord /\ s.row = row
    BY <2>2, BotRecords
  <2>4. /\ session' = row /\ botCall' = [botCall EXCEPT ![c] = s]
        /\ UNCHANGED <<belongs, offers, prompts>>
    BY <1>6, <2>1 DEF LoadSession
  <2>5. RowOffered(session)'
    BY <2>2, <2>4 DEF RowOffered
  <2>6. \A o \in Offer : prompts'[o] > 0 => o \in offers'
    BY <2>4 DEF BotInv, PromptsWereOffered
  <2> HIDE DEF s
  <2> QED
    BY <2>2, <2>3, <2>4, <2>5, <2>6, BotStep DEF BotInv
<1>7. ASSUME NEW c \in BotCall, Reset(c) \/ ConfirmNo(c) \/ AfterPrompt(c) PROVE BotInv'
  BY <1>1, <1>7, BotEnds DEF Reset, ConfirmNo, AfterPrompt, Write
<1>8. ASSUME NEW c \in BotCall, Answered(c) \/ BotDies(c) PROVE BotInv'
  BY <1>2, <1>8, BotEnds DEF Answered, BotDies
<1>9. ASSUME NEW c \in BotCall, BeginContribution(c) PROVE BotInv'
  <2> DEFINE row == [state |-> "awaiting_amount", amount |-> 0, groups |-> {}]
  <2>1. row \in SessionRow /\ RowOffered(row)
    BY SessionRows DEF RowOffered
  <2>2. Handled(c) /\ session' = row /\ UNCHANGED <<belongs, offers, prompts>>
    BY <1>9 DEF BeginContribution, Write
  <2> HIDE DEF row
  <2> QED
    BY <2>1, <2>2, BotEnds
<1>10. ASSUME NEW c \in BotCall, NEW a \in BotAmount, GiveAmount(c, a) PROVE BotInv'
  <2>1. CASE belongs = {}
    BY <1>1, <1>10, <2>1, BotEnds DEF GiveAmount, Write
  <2>2. CASE belongs # {} /\ Cardinality(belongs) = 1
    <3>1. PICK g \in belongs : Write(c, Confirming(a, g)) /\ offers' = offers \cup {<<a, g>>}
      BY <1>10, <2>2 DEF GiveAmount
    <3>2. g \in BotGroup /\ UNCHANGED <<belongs, prompts>>
      BY <1>10 DEF GiveAmount, BotInv
    <3> QED
      BY <3>1, <3>2, BotAsks
  <2>3. CASE belongs # {} /\ Cardinality(belongs) # 1
    <3>1. PICK G : G = belongs
      OBVIOUS
    <3> DEFINE row == [state |-> "awaiting_chama", amount |-> a, groups |-> G]
    <3>2. row \in SessionRow /\ RowOffered(row)
      BY <3>1, SessionRows DEF RowOffered, BotInv
    <3>3. Handled(c) /\ session' = row /\ UNCHANGED <<belongs, offers, prompts>>
      BY <1>10, <2>3, <3>1 DEF GiveAmount, Write
    <3> HIDE DEF row
    <3> QED
      BY <3>2, <3>3, BotEnds
  <2> QED
    BY <2>1, <2>2, <2>3
<1>11. ASSUME NEW c \in BotCall, NEW g \in BotGroup, ChooseGroup(c, g) PROVE BotInv'
  <2>1. PICK a : a = botCall[c].row.amount
    OBVIOUS
  <2>2. a \in BotAmount
    BY <1>3, <1>11, <2>1, SessionRows DEF ChooseGroup, Read
  <2>3. /\ Write(c, Confirming(a, g)) /\ offers' = offers \cup {<<a, g>>}
        /\ UNCHANGED <<belongs, prompts>>
    BY <1>11, <2>1 DEF ChooseGroup
  <2> QED
    BY <2>2, <2>3, BotAsks
<1>12. ASSUME NEW c \in BotCall, NEW started \in BOOLEAN, ConfirmYes(c, started) PROVE BotInv'
  <2> DEFINE row == botCall[c].row
             s == [pc |-> "prompted"]
  <2>1. /\ row \in SessionRow /\ row.state = "awaiting_confirm"
        /\ \A g \in row.groups : <<row.amount, g>> \in offers
    BY <1>3, <1>12 DEF ConfirmYes, Read, RowOffered
  <2>2. /\ botCall' = [botCall EXCEPT ![c] = s]
        /\ UNCHANGED <<session, belongs, offers>>
    BY <1>12 DEF ConfirmYes
  <2>3. PICK g \in row.groups :
          IF started
          THEN /\ prompts[<<row.amount, g>>] < MaxPrompts
               /\ prompts' = [prompts EXCEPT ![<<row.amount, g>>] = @ + 1]
          ELSE UNCHANGED prompts
    BY <1>12 DEF ConfirmYes
  <2>4. PICK x \in Offer : x = <<row.amount, g>> /\ x \in offers
    BY <2>1 DEF BotInv
  <2>5. /\ prompts' \in [Offer -> 0 .. MaxPrompts]
        /\ \A o \in Offer : prompts'[o] > 0 => o \in offers'
    <3>1. CASE started
      <4>1. prompts[x] < MaxPrompts /\ prompts' = [prompts EXCEPT ![x] = prompts[x] + 1]
        BY <2>3, <2>4, <3>1
      <4>2. prompts \in [Offer -> 0 .. MaxPrompts]
        BY DEF BotInv
      <4>3. prompts[x] + 1 \in 0 .. MaxPrompts
        BY <4>1, <4>2, BotAssumption
      <4>4. prompts' \in [Offer -> 0 .. MaxPrompts]
        BY <4>1, <4>2, <4>3
      <4>5. \A o \in Offer : o # x => prompts'[o] = prompts[o]
        BY <4>1, <4>2
      <4> QED
        BY <2>2, <2>4, <4>4, <4>5 DEF BotInv, PromptsWereOffered
    <3>2. CASE ~ started
      BY <2>2, <2>3, <3>2 DEF BotInv, PromptsWereOffered
    <3> QED
      BY <3>1, <3>2
  <2>6. s \in BotRecord /\ s.pc # "loaded"
    BY BotRecords
  <2>7. session' \in SessionRow /\ RowOffered(session)'
    BY <1>2, <2>2 DEF RowOffered
  <2>8. offers \subseteq offers' /\ offers' \subseteq Offer
    BY <2>2 DEF BotInv
  <2> HIDE DEF s
  <2> QED
    BY <2>2, <2>5, <2>6, <2>7, <2>8, BotStep
<1>13. CASE BotNext
  BY <1>5, <1>6, <1>7, <1>8, <1>9, <1>10, <1>11, <1>12, <1>13 DEF BotNext
<1> QED
  BY <1>4, <1>13

(* The invariant of the conversation.                                      *)
THEOREM BotInvariance == BotSpec => []BotInv
BY InitBotInv, NextBotInv, PTL DEF BotSpec

(* Rows, offers, prompts and handlers stay in their types                  *)
(* (whatsapp.service.ts).                                                  *)
THEOREM BotTypeCorrect == BotSpec => []BotTypeOK
<1>1. BotInv => BotTypeOK
  BY BotRecords DEF BotInv, BotTypeOK
<1> QED
  BY <1>1, BotInvariance, PTL

(* However many messages overlap, a prompt is started only for an amount   *)
(* and a group the user was asked to confirm: a row of one conversation is *)
(* never completed with the context of another                             *)
(* (whatsapp.service.ts:159-228).                                          *)
THEOREM PromptsAreOffered == BotSpec => []PromptsWereOffered
<1>1. BotInv => PromptsWereOffered
  BY DEF BotInv
<1> QED
  BY <1>1, BotInvariance, PTL


-------------------------------------------------------------------------------
(* Billing.  An invoice is worked on by the call that made it, and, when it*)
(* is overdue, by the worker; payments come in from anywhere.  That no two *)
(* calls count attempts on one invoice is what keeps a plan from being     *)
(* dropped early.                                                          *)

SubRow ==
  [status : {"none", "trialing", "active", "past_due", "cancelled"},
   plan : Plans, ending : BOOLEAN, tag : Tag, due : BOOLEAN, trialOver : BOOLEAN]

InvoiceRow ==
  [status : {"none", "open", "paid", "failed", "uncollectible"},
   attempts : 0 .. MaxDunning, overdue : BOOLEAN, zero : BOOLEAN]

BillRecord ==
  [at : {"idle", "generating", "write", "publish", "invoice", "advance", "push", "sent",
         "fail", "pastDue", "drop", "dropPlan", "writeOff", "post",
         "markPaid", "activate"},
   do : {"none", "trial", "checkout", "cancel", "cancelLater", "resume",
         "toFree", "schedule", "change", "changePaid", "coupon", "generate", "expire",
         "collect", "webhook"},
   plan : Plans, tag : Tag, target : Plans, inv : Invoice \cup {NoInvoice}, seen : 0 .. MaxDunning]

(* A tag that stands for a downgrade names a plan.                         *)
TagOK(tag) == tag \in Tag /\ (tag.kind = "downgrade" => tag.of \in Plans)

(* What a call still knows of the invoice it works on.                     *)
BillCallOK(s, table, paid) ==
  /\ s \in BillRecord /\ TagOK(s.tag)
  /\ s.inv # NoInvoice => table[s.inv].status # "none"
  /\ s.at \in {"advance", "push", "sent", "fail", "writeOff", "post", "markPaid"} =>
       s.inv \in Invoice
  /\ s.at \in {"push", "sent", "fail"} => s.do # "webhook"
  /\ s.at \in {"advance", "push", "sent", "fail"} => table[s.inv].attempts < MaxDunning
  /\ s.at = "sent" => s.seen = table[s.inv].attempts
  /\ s.at = "markPaid" => s.inv \in paid
  /\ s.at \in {"drop", "dropPlan", "writeOff"} /\ s.do = "collect" =>
       s.inv \in Invoice /\ table[s.inv].attempts >= MaxDunning
  /\ s.at = "writeOff" => s.do = "collect"
  /\ s.at \in {"advance", "invoice"} => s.do # "webhook"

(* The payments of an invoice apart, one call at most works on it.         *)
OneOwner ==
  \A c, d \in BillActor :
    c # d /\ billCall[c].inv = billCall[d].inv /\ billCall[c].inv # NoInvoice =>
      billCall[c].do = "webhook" \/ billCall[d].do = "webhook"

(* And once it is overdue only the worker does.                            *)
OverdueIsTheWorkers ==
  \A i \in Invoice :
    invoice[i].overdue => \A c \in BillCall : billCall[c].inv = i => billCall[c].do = "webhook"

BillInv ==
  /\ sub \in SubRow /\ TagOK(sub.tag) /\ current \in Plans
  /\ invoice \in [Invoice -> InvoiceRow]
  /\ expired \subseteq Coupon /\ booked \subseteq Invoice
  /\ begun \in 0 .. BillMaxBegun
  /\ billCall \in [BillActor -> BillRecord]
  /\ \A c \in BillActor : BillCallOK(billCall[c], invoice, booked)
  /\ OneOwner /\ OverdueIsTheWorkers
  /\ InvoicesAreAccounted

(* The records that begin a call.                                          *)
LEMMA BillForms ==
  /\ NoTag \in Tag /\ TagOK(NoTag)
  /\ \A p \in Plans : DowngradeTag(p) \in Tag /\ TagOK(DowngradeTag(p))
  /\ \A k \in Coupon : CouponTag(k) \in Tag /\ TagOK(CouponTag(k))
  /\ BillIdle \in BillRecord /\ BillIdle.inv = NoInvoice /\ BillIdle.at = "idle"
  /\ BillIdle.do = "none" /\ BillIdle.tag = NoTag /\ BillIdle.seen = 0
BY BillingAssumption
DEF Tag, TagOK, NoTag, DowngradeTag, CouponTag, BillIdle, BillRecord

(* A call that is idle knows of no invoice.                                *)
LEMMA IdleOK == \A table, paid : BillCallOK(BillIdle, table, paid)
BY BillForms DEF BillCallOK

BegunCall(do, at, p, tag) ==
  [BillIdle EXCEPT !.at = at, !.do = do, !.plan = p, !.tag = tag]

(* What a call that has begun, and written nothing, is like.               *)
LEMMA BegunOK ==
  ASSUME NEW do \in {"trial", "checkout", "cancel", "cancelLater", "resume", "toFree",
                     "schedule", "change", "coupon", "generate", "expire"},
         NEW at \in {"generating", "write", "invoice"}, NEW p \in Plans, NEW tag, TagOK(tag)
  PROVE  /\ BegunCall(do, at, p, tag).inv = NoInvoice
         /\ \A table, paid : BillCallOK(BegunCall(do, at, p, tag), table, paid)
<1> DEFINE s == BegunCall(do, at, p, tag)
<1>1. /\ s \in BillRecord /\ s.at = at /\ s.do = do /\ s.plan = p /\ s.tag = tag
      /\ s.inv = NoInvoice
  BY BillForms DEF BillRecord, TagOK, BegunCall
<1> HIDE DEF s
<1>2. \A table, paid : BillCallOK(s, table, paid)
  BY <1>1 DEF BillCallOK
<1> QED
  BY <1>1, <1>2 DEF s

(* There is no subscription yet.                                           *)
LEMMA InitBillInv == BillInit => BillInv
<1> SUFFICES ASSUME BillInit PROVE BillInv
  OBVIOUS
<1>1. sub \in SubRow /\ TagOK(sub.tag) /\ current \in Plans
  BY BillForms, BillingAssumption DEF BillInit, SubRow
<1>2. invoice \in [Invoice -> InvoiceRow]
  BY BillingAssumption DEF BillInit, InvoiceRow
<1>3. /\ billCall \in [BillActor -> BillRecord]
      /\ \A c \in BillActor : billCall[c] = BillIdle
  BY BillForms DEF BillInit
<1>4. OneOwner /\ OverdueIsTheWorkers
  BY <1>3, BillForms DEF BillInit, OneOwner, OverdueIsTheWorkers
<1>5. \A c \in BillActor : BillCallOK(billCall[c], invoice, booked)
  BY <1>3, IdleOK
<1>6. InvoicesAreAccounted
  BY DEF BillInit, InvoicesAreAccounted
<1>7. begun \in 0 .. BillMaxBegun /\ expired \subseteq Coupon /\ booked \subseteq Invoice
  BY BillingAssumption DEF BillInit
<1> QED
  BY <1>1, <1>2, <1>3, <1>4, <1>5, <1>6, <1>7 DEF BillInv

(* What any step of one call answers for: the rows, its own record, the    *)
(* other calls' view of the rows, and who works on which invoice.          *)
BillMoveOK(c, s) ==
  /\ sub' \in SubRow /\ TagOK(sub'.tag) /\ current' \in Plans /\ UNCHANGED expired
  /\ begun' \in 0 .. BillMaxBegun /\ booked' \subseteq Invoice
  /\ invoice' \in [Invoice -> InvoiceRow] /\ InvoicesAreAccounted'
  /\ \A i \in Invoice : invoice'[i].overdue => invoice[i].overdue
  /\ BillCallOK(s, invoice', booked')
  /\ \A d \in BillActor : d # c => BillCallOK(billCall[d], invoice', booked')
  /\ \A d \in BillActor : d # c /\ billCall[d].inv = s.inv /\ s.inv # NoInvoice =>
                              s.do = "webhook" \/ billCall[d].do = "webhook"
  /\ c # Worker /\ s.inv \in Invoice /\ invoice'[s.inv].overdue => s.do = "webhook"

(* It keeps the invariant.                                                 *)
LEMMA BillMove ==
  ASSUME BillInv, NEW c \in BillActor, NEW s, BillDo(c, s), BillMoveOK(c, s)
  PROVE  BillInv'
<1>1. /\ billCall' \in [BillActor -> BillRecord]
      /\ billCall'[c] = s
      /\ \A d \in BillActor : d # c => billCall'[d] = billCall[d]
  BY DEF BillDo, BillInv, BillMoveOK, BillCallOK
<1>2. OneOwner'
  BY <1>1 DEF BillInv, OneOwner, BillMoveOK
<1>3. OverdueIsTheWorkers'
  <2> SUFFICES ASSUME NEW i \in Invoice, invoice'[i].overdue, NEW d \in BillCall,
                      billCall'[d].inv = i
               PROVE  billCall'[d].do = "webhook"
    BY DEF OverdueIsTheWorkers
  <2>1. d \in BillActor /\ d # Worker
    BY BillingAssumption DEF BillActor
  <2>2. CASE d = c
    BY <1>1, <2>1, <2>2 DEF BillMoveOK
  <2>3. CASE d # c
    BY <1>1, <2>1, <2>3 DEF BillInv, OverdueIsTheWorkers, BillMoveOK
  <2> QED
    BY <2>2, <2>3
<1>4. \A d \in BillActor : BillCallOK(billCall'[d], invoice', booked')
  BY <1>1 DEF BillMoveOK
<1> QED
  BY <1>1, <1>2, <1>3, <1>4 DEF BillInv, BillMoveOK

(* A call that goes on without touching an invoice, with the one it had or *)
(* none.                                                                   *)
LEMMA BillGoesOn ==
  ASSUME BillInv, NEW c \in BillActor, NEW s, BillDo(c, s),
         UNCHANGED <<invoice, expired, booked>>,
         sub' \in SubRow, TagOK(sub'.tag), current' \in Plans,
         begun' \in 0 .. BillMaxBegun,
         BillCallOK(s, invoice, booked),
         \/ s.inv = NoInvoice
         \/ s.do = "webhook"
         \/ s.inv = billCall[c].inv /\ billCall[c].do # "webhook"
  PROVE  BillInv'
<1>1. \A d \in BillActor : d # c /\ billCall[d].inv = s.inv /\ s.inv # NoInvoice =>
                             s.do = "webhook" \/ billCall[d].do = "webhook"
  BY DEF BillInv, OneOwner
<1>2. c # Worker /\ s.inv \in Invoice /\ invoice'[s.inv].overdue => s.do = "webhook"
  BY BillingAssumption DEF BillInv, OverdueIsTheWorkers, BillActor
<1>3. InvoicesAreAccounted'
  BY DEF BillInv, InvoicesAreAccounted
<1>4. /\ invoice' \in [Invoice -> InvoiceRow] /\ booked' \subseteq Invoice
      /\ \A d \in BillActor : BillCallOK(billCall[d], invoice', booked')
      /\ BillCallOK(s, invoice', booked')
      /\ \A i \in Invoice : invoice'[i].overdue => invoice[i].overdue
  BY DEF BillInv
<1>5. BillMoveOK(c, s)
  BY <1>1, <1>2, <1>3, <1>4 DEF BillMoveOK
<1> QED
  BY <1>5, BillMove

(* A call that writes the invoice it works on: attempts are counted by the *)
(* call that owns it, and never lowered.                                   *)
BillWritesOK(c, s, i, row) ==
  /\ billCall[c].inv = i /\ row \in InvoiceRow
  /\ invoice' = [invoice EXCEPT ![i] = row]
  /\ row.status # "none" /\ row.overdue = invoice[i].overdue
  /\ invoice[i].attempts <= row.attempts
  /\ row.attempts # invoice[i].attempts => billCall[c].do # "webhook"
  /\ row.status = "paid" => i \in booked
  /\ row.status = "uncollectible" => row.attempts >= MaxDunning
  /\ UNCHANGED <<sub, current, expired, booked, begun>>
  /\ BillCallOK(s, invoice', booked)
  /\ \/ s.inv = NoInvoice
     \/ s.do = "webhook"
     \/ s.inv = i /\ billCall[c].do # "webhook"

(* Such a write keeps the invariant.                                       *)
LEMMA BillWrites ==
  ASSUME BillInv, NEW c \in BillActor, NEW s, BillDo(c, s), NEW i \in Invoice, NEW row,
         BillWritesOK(c, s, i, row)
  PROVE  BillInv'
<1> USE DEF BillWritesOK
<1>1. /\ invoice \in [Invoice -> InvoiceRow] /\ invoice' \in [Invoice -> InvoiceRow]
      /\ invoice'[i] = row
      /\ \A j \in Invoice : j # i => invoice'[j] = invoice[j]
  BY DEF BillInv
<1>2. InvoicesAreAccounted'
  BY <1>1 DEF BillInv, InvoicesAreAccounted
<1>3. ASSUME NEW d \in BillActor, d # c
      PROVE  BillCallOK(billCall[d], invoice', booked')
  <2>1. BillCallOK(billCall[d], invoice, booked) /\ billCall[d].inv \in Invoice \cup {NoInvoice}
    BY DEF BillInv, BillCallOK, BillRecord
  <2>2. CASE billCall[d].inv # i
    <3>1. billCall[d].inv \in Invoice => invoice'[billCall[d].inv] = invoice[billCall[d].inv]
      BY <1>1, <2>2
    <3> QED
      BY <2>1, <3>1 DEF BillCallOK
  <2>3. CASE billCall[d].inv = i
    <3>1. i # NoInvoice
      BY BillingAssumption
    <3>2. billCall[c].do # "webhook" => billCall[d].do = "webhook"
      BY <1>3, <2>3, <3>1 DEF BillInv, OneOwner
    <3>3. billCall[d].do = "webhook" \/ row.attempts = invoice[i].attempts
      BY <3>2
    <3>4. invoice[i].attempts \in Nat /\ row.attempts \in Nat
      BY <1>1 DEF InvoiceRow
    <3> QED
      BY <1>1, <2>1, <2>3, <3>3, <3>4, BillingAssumption DEF BillCallOK
  <2> QED
    BY <2>2, <2>3
<1>4. \A d \in BillActor : d # c /\ billCall[d].inv = s.inv /\ s.inv # NoInvoice =>
                             s.do = "webhook" \/ billCall[d].do = "webhook"
  BY DEF BillInv, OneOwner
<1>5. \A j \in Invoice : invoice'[j].overdue => invoice[j].overdue
  BY <1>1
<1>6. c # Worker /\ s.inv \in Invoice /\ invoice'[s.inv].overdue => s.do = "webhook"
  BY <1>5, BillingAssumption DEF BillInv, OverdueIsTheWorkers, BillActor
<1>7. /\ \A d \in BillActor : d # c => BillCallOK(billCall[d], invoice', booked')
      /\ BillCallOK(s, invoice', booked') /\ booked' \subseteq Invoice
      /\ sub' \in SubRow /\ TagOK(sub'.tag) /\ current' \in Plans
      /\ begun' \in 0 .. BillMaxBegun
  BY <1>3 DEF BillInv
<1>8. BillMoveOK(c, s)
  BY <1>1, <1>2, <1>4, <1>5, <1>6, <1>7 DEF BillMoveOK
<1> QED
  BY <1>8, BillMove

(* A call that ends, or fails.                                             *)
LEMMA BillStops ==
  ASSUME BillInv, NEW c \in BillActor, BillEnds(c), UNCHANGED <<invoice, expired, booked>>,
         sub' \in SubRow, TagOK(sub'.tag), current' \in Plans, begun' \in 0 .. BillMaxBegun
  PROVE  BillInv'
<1>1. BillDo(c, BillIdle) /\ BillCallOK(BillIdle, invoice, booked) /\ BillIdle.inv = NoInvoice
  BY IdleOK, BillForms DEF BillEnds
<1> QED
  BY <1>1, BillGoesOn

BillPlaces == {"idle", "generating", "write", "publish", "invoice", "advance", "push", "sent", "fail",
               "pastDue", "drop", "dropPlan", "writeOff", "post", "markPaid", "activate"}

GoesTo(s, at) == [s EXCEPT !.at = at]

(* Going on to a place changes nothing else about a call.                  *)
LEMMA GoesToForm ==
  ASSUME NEW s \in BillRecord, NEW at \in BillPlaces
  PROVE  LET t == GoesTo(s, at)
         IN  /\ t \in BillRecord /\ t.at = at
             /\ t.do = s.do /\ t.plan = s.plan /\ t.tag = s.tag /\ t.inv = s.inv
             /\ t.seen = s.seen
BY DEF GoesTo, BillRecord, BillPlaces

(* A call that goes on to another place.                                   *)
LEMMA BillGoes ==
  ASSUME BillInv, NEW c \in BillActor, NEW at \in BillPlaces, Goes(c, at),
         UNCHANGED <<invoice, expired, booked>>,
         sub' \in SubRow, TagOK(sub'.tag), current' \in Plans, begun' \in 0 .. BillMaxBegun,
         BillCallOK(GoesTo(billCall[c], at), invoice, booked)
  PROVE  BillInv'
<1> DEFINE s == GoesTo(billCall[c], at)
<1>1. billCall[c] \in BillRecord
  BY DEF BillInv, BillCallOK
<1>2. s.inv = billCall[c].inv /\ s.do = billCall[c].do
  BY <1>1, GoesToForm
<1>3. BillDo(c, s)
  BY DEF Goes, GoesTo
<1> HIDE DEF s
<1>4. s.do = "webhook" \/ (s.inv = billCall[c].inv /\ billCall[c].do # "webhook")
  BY <1>2
<1>5. BillCallOK(s, invoice, booked)
  BY DEF s
<1> QED
  BY <1>3, <1>4, <1>5, BillGoesOn

(* A call that begins, without an invoice.                                 *)
LEMMA BillBegins ==
  ASSUME BillInv, NEW c \in BillActor,
         NEW do \in {"trial", "checkout", "cancel", "cancelLater", "resume", "toFree",
                     "schedule", "change", "coupon", "generate", "expire"},
         NEW at \in {"generating", "write", "invoice"}, NEW p \in Plans, NEW tag, TagOK(tag),
         Begins(c, do, at, p, tag), UNCHANGED <<sub, current, invoice, expired, booked>>,
         begun' \in 0 .. BillMaxBegun
  PROVE  BillInv'
<1> DEFINE s == BegunCall(do, at, p, tag)
<1>2. s.inv = NoInvoice /\ BillCallOK(s, invoice, booked)
  BY BegunOK
<1>3. BillDo(c, s)
  BY DEF Begins, BegunCall
<1> HIDE DEF s
<1>4. sub' \in SubRow /\ TagOK(sub'.tag) /\ current' \in Plans
  BY DEF BillInv
<1> QED
  BY <1>2, <1>3, <1>4, BillGoesOn

(* What is written to the subscription is a subscription.                  *)
LEMMA SubRows ==
  ASSUME BillInv
  PROVE  /\ \A st \in {"trialing", "active", "past_due", "cancelled"} :
              WithStatus(st) \in SubRow /\ WithStatus(st).tag = sub.tag
         /\ [sub EXCEPT !.due = TRUE] \in SubRow /\ [sub EXCEPT !.due = TRUE].tag = sub.tag
         /\ [sub EXCEPT !.due = FALSE] \in SubRow /\ [sub EXCEPT !.due = FALSE].tag = sub.tag
         /\ [sub EXCEPT !.trialOver = TRUE] \in SubRow
         /\ [sub EXCEPT !.trialOver = TRUE].tag = sub.tag
         /\ [sub EXCEPT !.ending = TRUE] \in SubRow /\ [sub EXCEPT !.ending = TRUE].tag = sub.tag
BY DEF BillInv, SubRow, WithStatus

(* So is what a decision makes of it.                                      *)
LEMMA DecidedRows ==
  ASSUME BillInv, NEW d \in BillRecord, TagOK(d.tag)
  PROVE  AfterDecision(d) \in SubRow /\ TagOK(AfterDecision(d).tag)
<1>1. /\ sub \in SubRow /\ TagOK(sub.tag) /\ d.plan \in Plans /\ d.tag \in Tag
      /\ NoTag \in Tag /\ TagOK(NoTag)
  BY BillForms DEF BillInv, BillRecord
<1>2. \A x \in SubRow, p \in Plans, t \in Tag, b \in BOOLEAN :
        /\ [x EXCEPT !.plan = p] \in SubRow /\ [x EXCEPT !.plan = p].tag = x.tag
        /\ [x EXCEPT !.tag = t] \in SubRow /\ [x EXCEPT !.tag = t].tag = t
        /\ [x EXCEPT !.ending = b] \in SubRow /\ [x EXCEPT !.ending = b].tag = x.tag
  BY DEF SubRow
<1>3. \A x \in SubRow, p \in Plans :
        /\ [x EXCEPT !.plan = p, !.ending = FALSE] \in SubRow
        /\ [x EXCEPT !.plan = p, !.ending = FALSE].tag = x.tag
  BY DEF SubRow
<1>4. \A x \in SubRow, p \in Plans, t \in Tag :
        /\ [x EXCEPT !.plan = p, !.tag = t] \in SubRow
        /\ [x EXCEPT !.plan = p, !.tag = t].tag = t
  BY DEF SubRow
<1>5. \A x \in SubRow, p \in Plans :
        /\ [x EXCEPT !.plan = p, !.ending = FALSE, !.due = FALSE] \in SubRow
        /\ [x EXCEPT !.plan = p, !.ending = FALSE, !.due = FALSE].tag = x.tag
  BY DEF SubRow
<1>6. \A st \in {"trialing", "active", "past_due", "cancelled"} :
        WithStatus(st) \in SubRow /\ TagOK(WithStatus(st).tag)
  BY <1>1, SubRows
<1>7. CASE d.do = "trial"
  BY <1>1, <1>5, <1>6, <1>7 DEF AfterDecision
<1>8. CASE d.do \in {"toFree", "change"}
  BY <1>1, <1>2, <1>3, <1>6, <1>8 DEF AfterDecision
<1>9. CASE d.do \in {"cancel", "cancelLater", "resume"}
  BY <1>1, <1>2, <1>6, <1>9 DEF AfterDecision
<1>10. CASE d.do = "checkout"
  <2>1. PICK x \in SubRow : x = WithStatus("active")
    BY <1>6
  <2>2. AfterDecision(d) = [x EXCEPT !.plan = d.plan, !.ending = FALSE, !.due = FALSE,
                               !.tag = d.tag]
    BY <1>10, <2>1 DEF AfterDecision
  <2>3. [x EXCEPT !.plan = d.plan, !.ending = FALSE, !.due = FALSE, !.tag = d.tag] \in SubRow
    BY <1>1 DEF SubRow
  <2>4. [x EXCEPT !.plan = d.plan, !.ending = FALSE, !.due = FALSE, !.tag = d.tag].tag = d.tag
    BY <1>1 DEF SubRow
  <2> QED
    BY <1>1, <2>2, <2>3, <2>4
<1>11. CASE d.do = "generate"
  BY <1>1, <1>4, <1>11 DEF AfterDecision
<1>12. CASE d.do \notin {"trial", "toFree", "change", "cancel", "cancelLater", "resume",
                         "checkout", "generate"}
  BY <1>1, <1>2, <1>12 DEF AfterDecision
<1> QED
  BY <1>7, <1>8, <1>9, <1>10, <1>11, <1>12

(* Requests and jobs begin.                                                *)
LEMMA BeginningBillInv ==
  ASSUME BillInv,
         \/ \E c \in BillCall :
              \/ \E p \in Plans :
                   \/ \E tag \in {NoTag} \cup {CouponTag(k) : k \in Coupon} :
                        ReadCheckout(c, p, tag)
                   \/ \E prorate \in BOOLEAN : ReadChangePlan(c, p, prorate)
              \/ \E immediate \in BOOLEAN : ReadCancel(c, immediate)
              \/ ReadResume(c)
              \/ \E k \in Coupon : ReadCoupon(c, k)
         \/ StartGenerate \/ StartExpire
  PROVE  BillInv'
<1>1. /\ "free" \in Plans /\ TagOK(NoTag) /\ begun \in 0 .. BillMaxBegun
      /\ sub \in SubRow /\ TagOK(sub.tag) /\ sub.plan \in Plans /\ BillMaxBegun \in Nat
  BY BillForms, BillingAssumption DEF BillInv, SubRow
<1>2. begun < BillMaxBegun /\ begun' = begun + 1 => begun' \in 0 .. BillMaxBegun
  BY <1>1
<1>3. BillCall \subseteq BillActor /\ Worker \in BillActor
  BY DEF BillActor
<1>4. ASSUME NEW c \in BillCall, NEW p \in Plans,
             NEW tag \in {NoTag} \cup {CouponTag(k) : k \in Coupon}, ReadCheckout(c, p, tag)
      PROVE  BillInv'
  <2>1. TagOK(tag)
    BY BillForms
  <2> QED
    BY <1>1, <1>2, <1>3, <1>4, <2>1, BillBegins DEF ReadCheckout, Accepted
<1>5. ASSUME NEW c \in BillCall, NEW p \in Plans, NEW prorate \in BOOLEAN,
             ReadChangePlan(c, p, prorate)
      PROVE  BillInv'
  <2>1. \/ Begins(c, "toFree", "write", p, NoTag)
        \/ Begins(c, "schedule", "write", "free", DowngradeTag(p))
        \/ Begins(c, "change", "invoice", p, NoTag)
        \/ Begins(c, "change", "write", p, NoTag)
    BY <1>5 DEF ReadChangePlan
  <2>2. begun' \in 0 .. BillMaxBegun /\ UNCHANGED <<sub, current, invoice, expired, booked>>
    BY <1>2, <1>5 DEF ReadChangePlan, Accepted
  <2>3. TagOK(DowngradeTag(p))
    BY BillForms
  <2> QED
    BY <1>1, <1>3, <2>1, <2>2, <2>3, BillBegins
<1>6. ASSUME NEW c \in BillCall, NEW immediate \in BOOLEAN, ReadCancel(c, immediate)
      PROVE  BillInv'
  <2>1. PICK do \in {"cancel", "cancelLater"} : Begins(c, do, "write", "free", NoTag)
    BY <1>6 DEF ReadCancel
  <2>2. begun' \in 0 .. BillMaxBegun /\ UNCHANGED <<sub, current, invoice, expired, booked>>
    BY <1>2, <1>6 DEF ReadCancel, Accepted
  <2> QED
    BY <1>1, <1>3, <2>1, <2>2, BillBegins
<1>7. ASSUME NEW c \in BillCall, ReadResume(c) PROVE BillInv'
  BY <1>1, <1>2, <1>3, <1>7, BillBegins DEF ReadResume, Accepted
<1>8. ASSUME NEW c \in BillCall, NEW k \in Coupon, ReadCoupon(c, k) PROVE BillInv'
  <2>1. TagOK(CouponTag(k))
    BY BillForms
  <2> QED
    BY <1>1, <1>2, <1>3, <1>8, <2>1, BillBegins DEF ReadCoupon, Accepted
<1>9. CASE StartGenerate
  BY <1>1, <1>3, <1>9, BillBegins DEF StartGenerate
<1>10. CASE StartExpire
  BY <1>1, <1>3, <1>10, BillBegins DEF StartExpire
<1> QED
  BY <1>4, <1>5, <1>6, <1>7, <1>8, <1>9, <1>10
(* What the invariant says of one call.                                    *)
LEMMA BillFacts ==
  ASSUME BillInv, NEW c \in BillActor
  PROVE  /\ billCall[c] \in BillRecord /\ TagOK(billCall[c].tag)
         /\ billCall[c].plan \in Plans /\ billCall[c].target \in Plans
         /\ BillCallOK(billCall[c], invoice, booked)
         /\ sub \in SubRow /\ TagOK(sub.tag) /\ sub.plan \in Plans /\ current \in Plans
         /\ begun \in 0 .. BillMaxBegun
BY DEF BillInv, BillCallOK, BillRecord, SubRow

(* The invoicing job reads the subscription again.                         *)
LEMMA ReadToGenerateBillInv ==
  ASSUME BillInv, NEW c \in BillActor, ReadToGenerate(c)
  PROVE  BillInv'
<1>1. UNCHANGED <<sub, current, invoice, expired, booked, begun>>
  BY DEF ReadToGenerate
<1>2. CASE sub.tag.kind = "downgrade"
  <2>1. sub.tag.of \in Plans
    BY <1>2, BillFacts DEF TagOK
  <2>2. Begins(c, "generate", "write", sub.tag.of, sub.tag)
    BY <1>2 DEF ReadToGenerate, GenerateInvoice
  <2> QED
    BY <1>1, <2>1, <2>2, BillBegins, BillFacts
<1>3. CASE sub.tag.kind # "downgrade"
  <2>1. Begins(c, "generate", "invoice", sub.plan, sub.tag)
    BY <1>3 DEF ReadToGenerate, GenerateInvoice
  <2> QED
    BY <1>1, <2>1, BillBegins, BillFacts
<1> QED
  BY <1>2, <1>3

(* Places where nothing is asked of a call.                                *)
LEMMA BillRests ==
  ASSUME BillInv, NEW c \in BillActor,
         NEW at \in {"write", "publish", "pastDue", "activate"},
         Goes(c, at), UNCHANGED <<invoice, expired, booked>>,
         sub' \in SubRow, TagOK(sub'.tag), current' \in Plans, begun' \in 0 .. BillMaxBegun
  PROVE  BillInv'
<1>1. at \in BillPlaces
  BY DEF BillPlaces
<1> DEFINE s == GoesTo(billCall[c], at)
<1>2. /\ s \in BillRecord /\ s.at = at /\ s.tag = billCall[c].tag
      /\ s.inv = billCall[c].inv
  BY <1>1, BillFacts, GoesToForm
<1> HIDE DEF s
<1>3. BillCallOK(s, invoice, booked)
  BY <1>2, BillFacts DEF BillCallOK
<1>4. BillCallOK(GoesTo(billCall[c], at), invoice, booked)
  BY <1>3 DEF s
<1> QED
  BY <1>1, <1>4, BillGoes

(* A decision is written.                                                  *)
LEMMA WriteDecisionBillInv ==
  ASSUME BillInv, NEW c \in BillActor, WriteDecision(c)
  PROVE  BillInv'
<1>1. /\ sub' \in SubRow /\ TagOK(sub'.tag) /\ current' \in Plans
      /\ begun' \in 0 .. BillMaxBegun /\ UNCHANGED <<invoice, expired, booked>>
  BY BillFacts, DecidedRows DEF WriteDecision
<1>2. CASE billCall[c].do \in {"trial", "cancel", "toFree", "change", "generate"}
  <2>1. Goes(c, "publish")
    BY <1>2 DEF WriteDecision
  <2> QED
    BY <1>1, <2>1, BillRests
<1>3. CASE billCall[c].do = "checkout"
  <2> DEFINE s == GoesTo(billCall[c], "invoice")
  <2>1. "invoice" \in BillPlaces
    BY DEF BillPlaces
  <2>2. /\ s \in BillRecord /\ s.at = "invoice" /\ s.tag = billCall[c].tag
        /\ s.inv = billCall[c].inv /\ s.do = "checkout"
    BY <1>3, <2>1, BillFacts, GoesToForm
  <2> HIDE DEF s
  <2>3. BillCallOK(s, invoice, booked)
    BY <2>2, BillFacts DEF BillCallOK
  <2>4. BillCallOK(GoesTo(billCall[c], "invoice"), invoice, booked)
    BY <2>3 DEF s
  <2>5. Goes(c, "invoice")
    BY <1>3 DEF WriteDecision
  <2> QED
    BY <1>1, <2>1, <2>4, <2>5, BillGoes
<1>4. CASE billCall[c].do \notin {"trial", "cancel", "toFree", "change", "generate", "checkout"}
  <2>1. BillEnds(c)
    BY <1>4 DEF WriteDecision
  <2> QED
    BY <1>1, <2>1, BillStops
<1> QED
  BY <1>2, <1>3, <1>4

(* The plan is published.                                                  *)
LEMMA PublishPlanBillInv ==
  ASSUME BillInv, NEW c \in BillActor, PublishPlan(c)
  PROVE  BillInv'
<1>1. /\ sub' \in SubRow /\ TagOK(sub'.tag) /\ current' \in Plans
      /\ begun' \in 0 .. BillMaxBegun /\ UNCHANGED <<invoice, expired, booked>>
  BY BillFacts DEF PublishPlan
<1>2. CASE billCall[c].do = "generate" /\ ~ IsFree(billCall[c].plan)
  <2> DEFINE s == GoesTo(billCall[c], "invoice")
  <2>1. "invoice" \in BillPlaces
    BY DEF BillPlaces
  <2>2. /\ s \in BillRecord /\ s.at = "invoice" /\ s.tag = billCall[c].tag
        /\ s.inv = billCall[c].inv /\ s.do = "generate"
    BY <1>2, <2>1, BillFacts, GoesToForm
  <2> HIDE DEF s
  <2>3. BillCallOK(s, invoice, booked)
    BY <2>2, BillFacts DEF BillCallOK
  <2>4. BillCallOK(GoesTo(billCall[c], "invoice"), invoice, booked)
    BY <2>3 DEF s
  <2>5. Goes(c, "invoice")
    BY <1>2 DEF PublishPlan
  <2> QED
    BY <1>1, <2>1, <2>4, <2>5, BillGoes
<1>3. CASE billCall[c].do = "changePaid"
  <2> DEFINE p == billCall[c].target
             s == BegunCall("change", "write", p, NoTag)
  <2>1. p \in Plans /\ TagOK(NoTag)
    BY BillFacts, BillForms
  <2>2. s.inv = NoInvoice /\ BillCallOK(s, invoice, booked)
    BY <2>1, BegunOK
  <2>3. BillDo(c, s)
    BY <1>3 DEF PublishPlan, Begins, BegunCall
  <2> HIDE DEF s
  <2> QED
    BY <1>1, <2>2, <2>3, BillGoesOn
<1>4. CASE /\ ~ (billCall[c].do = "generate" /\ ~ IsFree(billCall[c].plan))
           /\ billCall[c].do # "changePaid"
  <2>1. BillEnds(c)
    BY <1>4 DEF PublishPlan
  <2> QED
    BY <1>1, <2>1, BillStops
<1> QED
  BY <1>2, <1>3, <1>4

(* The record of a call that has gone on to another place.                 *)
MovedOn(s, c, at) ==
  /\ s \in BillRecord /\ s.at = at /\ s.do = billCall[c].do /\ s.plan = billCall[c].plan
  /\ s.tag = billCall[c].tag /\ s.inv = billCall[c].inv /\ s.seen = billCall[c].seen

(* It is enough to look at what is asked of the call there.                *)
LEMMA BillArrives ==
  ASSUME BillInv, NEW c \in BillActor, NEW at \in BillPlaces, Goes(c, at),
         UNCHANGED <<invoice, expired, booked>>,
         sub' \in SubRow, TagOK(sub'.tag), current' \in Plans, begun' \in 0 .. BillMaxBegun,
         \A s : MovedOn(s, c, at) => BillCallOK(s, invoice, booked)
  PROVE  BillInv'
<1>1. MovedOn(GoesTo(billCall[c], at), c, at)
  BY BillFacts, GoesToForm DEF MovedOn
<1>2. BillCallOK(GoesTo(billCall[c], at), invoice, booked)
  BY <1>1
<1> QED
  BY <1>2, BillGoes

(* The next period begins.                                                 *)
LEMMA AdvancePeriodBillInv ==
  ASSUME BillInv, NEW c \in BillActor, AdvancePeriod(c)
  PROVE  BillInv'
<1>1. sub' \in SubRow /\ TagOK(sub'.tag)
  <2>1. PICK x \in SubRow : x = WithStatus("active") /\ x.tag = sub.tag
    BY SubRows
  <2>2. [x EXCEPT !.due = FALSE] \in SubRow /\ [x EXCEPT !.due = FALSE].tag = sub.tag
    BY <2>1 DEF SubRow
  <2>3. sub' = [x EXCEPT !.due = FALSE] \/ sub' = [sub EXCEPT !.due = FALSE]
    BY <2>1 DEF AdvancePeriod
  <2> QED
    BY <2>2, <2>3, SubRows, BillFacts
<1>2. /\ current' \in Plans /\ begun' \in 0 .. BillMaxBegun
      /\ UNCHANGED <<invoice, expired, booked>> /\ Goes(c, "push")
      /\ "push" \in BillPlaces
  BY BillFacts DEF AdvancePeriod, BillPlaces
<1>3. \A s : MovedOn(s, c, "push") => BillCallOK(s, invoice, booked)
  BY BillFacts DEF AdvancePeriod, MovedOn, BillCallOK
<1> QED
  BY <1>1, <1>2, <1>3, BillArrives

(* Where a call goes on once an invoice is pushed.                         *)
LEMMA AfterPushBillInv ==
  ASSUME BillInv, NEW c \in BillActor, AfterPush(c),
         UNCHANGED <<sub, current, invoice, expired, booked, begun>>
  PROVE  BillInv'
<1>1. /\ sub' \in SubRow /\ TagOK(sub'.tag) /\ current' \in Plans
      /\ begun' \in 0 .. BillMaxBegun
  BY BillFacts
<1>2. Goes(c, "write") \/ BillEnds(c)
  BY DEF AfterPush
<1> QED
  BY <1>1, <1>2, BillRests, BillStops

(* An invoice nobody can be asked to pay.                                  *)
LEMMA NoTreasurerBillInv ==
  ASSUME BillInv, NEW c \in BillActor, NoTreasurer(c)
  PROVE  BillInv'
<1>1. /\ sub' \in SubRow /\ TagOK(sub'.tag) /\ current' \in Plans
      /\ begun' \in 0 .. BillMaxBegun /\ UNCHANGED <<invoice, expired, booked>>
      /\ "fail" \in BillPlaces /\ "drop" \in BillPlaces /\ billCall[c].at = "push"
      /\ UNCHANGED <<sub, current, invoice, expired, booked, begun>>
  BY BillFacts DEF NoTreasurer, BillPlaces
<1>2. CASE billCall[c].do = "collect"
  <2>1. \A s : MovedOn(s, c, "fail") => BillCallOK(s, invoice, booked)
    BY <1>1, BillFacts DEF MovedOn, BillCallOK
  <2>2. Goes(c, "fail")
    BY <1>2 DEF NoTreasurer
  <2> QED
    BY <1>1, <2>1, <2>2, BillArrives
<1>3. CASE billCall[c].do = "expire"
  <2>1. \A s : MovedOn(s, c, "drop") => BillCallOK(s, invoice, booked)
    BY <1>1, <1>3, BillFacts DEF MovedOn, BillCallOK
  <2>2. Goes(c, "drop")
    BY <1>3 DEF NoTreasurer
  <2> QED
    BY <1>1, <2>1, <2>2, BillArrives
<1>4. CASE billCall[c].do \notin {"collect", "expire"}
  <2>1. AfterPush(c)
    BY <1>4 DEF NoTreasurer
  <2> QED
    BY <1>1, <2>1, AfterPushBillInv
<1> QED
  BY <1>2, <1>3, <1>4

(* The answers to a push.                                                  *)
LEMMA PushBillInv ==
  ASSUME BillInv, NEW c \in BillActor, PushZero(c) \/ PushSent(c) \/ PushRefused(c)
  PROVE  BillInv'
<1>1. /\ sub' \in SubRow /\ TagOK(sub'.tag) /\ current' \in Plans
      /\ begun' \in 0 .. BillMaxBegun /\ UNCHANGED <<invoice, expired, booked>>
      /\ "fail" \in BillPlaces /\ "post" \in BillPlaces /\ billCall[c].at = "push"
  BY BillFacts DEF PushZero, PushSent, PushRefused, BillPlaces
<1>2. /\ billCall[c].inv \in Invoice /\ billCall[c].do # "webhook"
      /\ invoice[billCall[c].inv] \in InvoiceRow
      /\ invoice[billCall[c].inv].attempts \in 0 .. MaxDunning
      /\ invoice[billCall[c].inv].attempts < MaxDunning
      /\ invoice[billCall[c].inv].status # "none"
  <2>1. billCall[c].inv \in Invoice /\ billCall[c].do # "webhook"
    BY <1>1, BillFacts DEF BillCallOK
  <2>2. invoice[billCall[c].inv] \in InvoiceRow
    BY <2>1 DEF BillInv
  <2> QED
    BY <1>1, <2>1, <2>2, BillFacts, BillingAssumption DEF BillCallOK, InvoiceRow
<1>3. CASE PushZero(c)
  <2>1. \A s : MovedOn(s, c, "post") => BillCallOK(s, invoice, booked)
    BY <1>1, BillFacts DEF MovedOn, BillCallOK
  <2>2. Goes(c, "post")
    BY <1>3 DEF PushZero
  <2> QED
    BY <1>1, <2>1, <2>2, BillArrives
<1>4. CASE PushSent(c)
  <2> DEFINE s == [billCall[c] EXCEPT !.at = "sent",
                                      !.seen = invoice[billCall[c].inv].attempts]
  <2>1. /\ s \in BillRecord /\ s.at = "sent" /\ s.do = billCall[c].do
        /\ s.inv = billCall[c].inv /\ s.tag = billCall[c].tag
        /\ s.seen = invoice[billCall[c].inv].attempts
    BY <1>2, BillFacts DEF BillRecord
  <2>2. BillDo(c, s)
    BY <1>4 DEF PushSent
  <2> HIDE DEF s
  <2>3. BillCallOK(s, invoice, booked)
    BY <1>2, <2>1, BillFacts DEF BillCallOK
  <2> QED
    BY <1>1, <1>2, <2>1, <2>2, <2>3, BillGoesOn
<1>5. CASE PushRefused(c)
  <2>1. \A s : MovedOn(s, c, "fail") => BillCallOK(s, invoice, booked)
    BY <1>1, BillFacts DEF MovedOn, BillCallOK
  <2>2. Goes(c, "fail") \/ BillEnds(c)
    BY <1>5 DEF PushRefused
  <2> QED
    BY <1>1, <2>1, <2>2, BillArrives, BillStops
<1> QED
  BY <1>3, <1>4, <1>5
(* The step to another place, as a step of the call.                       *)
LEMMA BillGoesForm ==
  ASSUME BillInv, NEW c \in BillActor, NEW at \in BillPlaces, Goes(c, at)
  PROVE  \E s : BillDo(c, s) /\ MovedOn(s, c, at)
<1>1. MovedOn(GoesTo(billCall[c], at), c, at)
  BY BillFacts, GoesToForm DEF MovedOn
<1>2. BillDo(c, GoesTo(billCall[c], at))
  BY DEF Goes, GoesTo
<1> QED
  BY <1>1, <1>2

(* The row of an invoice, and its count of attempts.                       *)
LEMMA BillRows ==
  ASSUME BillInv, NEW i \in Invoice
  PROVE  /\ invoice[i] \in InvoiceRow /\ invoice[i].attempts \in 0 .. MaxDunning
         /\ invoice[i].attempts \in Nat /\ MaxDunning \in Nat
BY BillingAssumption DEF BillInv, InvoiceRow

(* An attempt is counted after the push.                                   *)
LEMMA PushCountedBillInv ==
  ASSUME BillInv, NEW c \in BillActor, PushCounted(c)
  PROVE  BillInv'
<1> DEFINE i == billCall[c].inv
           n == billCall[c].seen + 1
<1>1. /\ billCall[c].at = "sent" /\ i \in Invoice /\ billCall[c].do # "webhook"
      /\ invoice[i].attempts < MaxDunning /\ billCall[c].seen = invoice[i].attempts
      /\ invoice[i].status # "none"
  <2>1. i \in Invoice
    BY BillFacts DEF PushCounted, BillCallOK
  <2> QED
    BY <2>1, BillFacts, BillingAssumption DEF PushCounted, BillCallOK
<1>2. /\ n \in 0 .. MaxDunning /\ invoice[i].attempts <= n
      /\ invoice[i] \in InvoiceRow
  <2>1. /\ invoice[i] \in InvoiceRow /\ invoice[i].attempts \in Nat /\ MaxDunning \in Nat
    BY <1>1, BillRows
  <2> QED
    BY <1>1, <2>1
<1>3. PICK row \in InvoiceRow :
        /\ row = [invoice[i] EXCEPT !.attempts = n] /\ row.attempts = n
        /\ row.status = invoice[i].status /\ row.overdue = invoice[i].overdue
  <2>1. \A x \in InvoiceRow, m \in 0 .. MaxDunning :
          /\ [x EXCEPT !.attempts = m] \in InvoiceRow
          /\ [x EXCEPT !.attempts = m].attempts = m
          /\ [x EXCEPT !.attempts = m].status = x.status
          /\ [x EXCEPT !.attempts = m].overdue = x.overdue
    BY DEF InvoiceRow
  <2> HIDE DEF i, n
  <2> QED
    BY <1>2, <2>1
<1>4. invoice' = [invoice EXCEPT ![i] = row]
  BY <1>1, <1>3 DEF PushCounted, BillInv
<1>5. row.status = "paid" => i \in booked
  BY <1>1, <1>3 DEF BillInv, InvoicesAreAccounted
<1>6. row.status = "uncollectible" => row.attempts >= MaxDunning
  <2>1. /\ invoice[i].attempts \in Nat /\ MaxDunning \in Nat
        /\ (invoice[i].status = "uncollectible" => invoice[i].attempts >= MaxDunning)
    BY <1>1, BillRows DEF BillInv, InvoicesAreAccounted
  <2> QED
    BY <1>1, <1>3, <2>1
<1>7. PICK s : /\ BillDo(c, s) /\ s \in BillRecord /\ TagOK(s.tag)
               /\ \/ s = BillIdle
                  \/ s.at = "write" /\ s.do # "webhook" /\ s.inv = i
  <2>1. CASE Goes(c, "write")
    <3>1. "write" \in BillPlaces
      BY DEF BillPlaces
    <3> QED
      BY <1>1, <2>1, <3>1, BillGoesForm, BillFacts DEF MovedOn
  <2>2. CASE BillEnds(c)
    BY <2>2, BillForms DEF BillEnds
  <2> QED
    BY <2>1, <2>2 DEF PushCounted, AfterPush
<1>8. BillCallOK(s, invoice', booked)
  <2>1. CASE s = BillIdle
    BY <2>1, IdleOK
  <2>2. CASE s # BillIdle
    <3>1. invoice'[i] = row
      BY <1>1, <1>4 DEF BillInv
    <3> QED
      BY <1>1, <1>3, <1>7, <2>2, <3>1 DEF BillCallOK
  <2> QED
    BY <2>1, <2>2
<1>9. s.inv = NoInvoice \/ (s.inv = i /\ billCall[c].do # "webhook")
  BY <1>1, <1>7, BillForms
<1>10. row.status # "none" /\ invoice[i].attempts <= row.attempts
  BY <1>1, <1>2, <1>3
<1>11. UNCHANGED <<sub, current, expired, booked, begun>>
  BY DEF PushCounted
<1>12. BillWritesOK(c, s, i, row)
  BY <1>1, <1>3, <1>4, <1>5, <1>6, <1>8, <1>9, <1>10, <1>11 DEF BillWritesOK
<1> QED
  BY <1>1, <1>7, <1>12, BillWrites
(* A write to the invoice's status, after which the call goes on where      *)
(* nothing is asked of it: what the row must be.                           *)
LEMMA BillWritesStatus ==
  ASSUME BillInv, NEW c \in BillActor, NEW i \in Invoice, NEW row \in InvoiceRow,
         NEW s, BillDo(c, s),
         billCall[c].inv = i, invoice[i].status # "none",
         invoice' = [invoice EXCEPT ![i] = row],
         row.status \in {"paid", "failed", "uncollectible"}, row.overdue = invoice[i].overdue,
         /\ invoice[i].attempts <= row.attempts
         /\ row.attempts # invoice[i].attempts => billCall[c].do # "webhook"
         /\ row.status = "paid" => i \in booked
         /\ row.status = "uncollectible" => row.attempts >= MaxDunning,
         UNCHANGED <<sub, current, expired, booked, begun>>,
         \/ s = BillIdle
         \/ MovedOn(s, c, "pastDue")
         \/ MovedOn(s, c, "activate")
  PROVE  BillInv'
<1>1. invoice'[i] = row
  BY DEF BillInv
<1>2. BillCallOK(s, invoice', booked)
  <2>1. CASE s = BillIdle
    BY <2>1, IdleOK
  <2>2. CASE s # BillIdle
    <3>1. /\ s \in BillRecord /\ s.inv = i /\ TagOK(s.tag)
          /\ s.at \in {"pastDue", "activate"}
      BY <2>2, BillFacts DEF MovedOn
    <3> QED
      BY <1>1, <3>1 DEF BillCallOK
  <2> QED
    BY <2>1, <2>2
<1>3. s.inv = NoInvoice \/ s.do = "webhook" \/ (s.inv = i /\ billCall[c].do # "webhook")
  BY BillForms DEF MovedOn
<1>4. row.status # "none"
  OBVIOUS
<1>5. BillWritesOK(c, s, i, row)
  BY <1>2, <1>3, <1>4 DEF BillWritesOK
<1> QED
  BY <1>5, BillWrites

(* A row with another status.                                              *)
LEMMA RowMarked ==
  \A x \in InvoiceRow, st \in {"paid", "failed", "uncollectible"} :
    /\ [x EXCEPT !.status = st] \in InvoiceRow
    /\ [x EXCEPT !.status = st].status = st
    /\ [x EXCEPT !.status = st].attempts = x.attempts
    /\ [x EXCEPT !.status = st].overdue = x.overdue
BY DEF InvoiceRow

(* A row with another status, and another attempt.                         *)
LEMMA RowFailed ==
  \A x \in InvoiceRow, st \in {"paid", "failed", "uncollectible"}, m \in 0 .. MaxDunning :
    /\ [x EXCEPT !.status = st, !.attempts = m] \in InvoiceRow
    /\ [x EXCEPT !.status = st, !.attempts = m].status = st
    /\ [x EXCEPT !.status = st, !.attempts = m].attempts = m
    /\ [x EXCEPT !.status = st, !.attempts = m].overdue = x.overdue
BY DEF InvoiceRow

(* A failed attempt is counted.                                            *)
LEMMA MarkFailedBillInv ==
  ASSUME BillInv, NEW c \in BillActor, MarkFailed(c)
  PROVE  BillInv'
<1> DEFINE i == billCall[c].inv
           n == invoice[i].attempts + 1
           st == IF n >= MaxDunning THEN "uncollectible" ELSE "failed"
<1>1. /\ i \in Invoice /\ billCall[c].do # "webhook"
      /\ invoice[i].attempts < MaxDunning /\ invoice[i].status # "none"
  <2>1. i \in Invoice
    BY BillFacts DEF MarkFailed, BillCallOK
  <2> QED
    BY <2>1, BillFacts, BillingAssumption DEF MarkFailed, BillCallOK
<1>2. /\ invoice[i] \in InvoiceRow /\ n \in 0 .. MaxDunning /\ invoice[i].attempts <= n
      /\ st \in {"paid", "failed", "uncollectible"}
      /\ (st = "uncollectible" => n >= MaxDunning)
  <2>1. /\ invoice[i] \in InvoiceRow /\ invoice[i].attempts \in Nat /\ MaxDunning \in Nat
    BY <1>1, BillRows
  <2> QED
    BY <1>1, <2>1
<1>3. invoice' = [invoice EXCEPT ![i].status = st, ![i].attempts = n]
  BY DEF MarkFailed
<1> HIDE DEF n, st
<1>4. PICK row \in InvoiceRow :
        /\ row = [invoice[i] EXCEPT !.status = st, !.attempts = n] /\ row.attempts = n
        /\ row.status = st /\ row.overdue = invoice[i].overdue
  <2>1. PICK x \in InvoiceRow : x = invoice[i]
    BY <1>2
  <2>2. PICK row \in InvoiceRow : row = [x EXCEPT !.status = st, !.attempts = n]
    BY <1>2, RowFailed
  <2>3. row.attempts = n /\ row.status = st /\ row.overdue = x.overdue
    BY <1>2, <2>1, <2>2 DEF InvoiceRow
  <2> QED
    BY <2>1, <2>2, <2>3
<1>5. invoice' = [invoice EXCEPT ![i] = row]
  BY <1>1, <1>3, <1>4 DEF BillInv
<1>6. PICK s : BillDo(c, s) /\ MovedOn(s, c, "pastDue")
  <2>1. "pastDue" \in BillPlaces /\ Goes(c, "pastDue")
    BY DEF BillPlaces, MarkFailed
  <2> QED
    BY <2>1, BillGoesForm
<1>7. UNCHANGED <<sub, current, expired, booked, begun>>
  BY DEF MarkFailed
<1> HIDE DEF i
<1>8. row.status \in {"paid", "failed", "uncollectible"} /\ row.overdue = invoice[i].overdue
  BY <1>2, <1>4
<1>9. /\ invoice[i].attempts <= row.attempts
      /\ row.attempts # invoice[i].attempts => billCall[c].do # "webhook"
      /\ row.status = "paid" => i \in booked
      /\ row.status = "uncollectible" => row.attempts >= MaxDunning
  <2>1. st # "paid"
    BY DEF st
  <2> QED
    BY <1>1, <1>2, <1>4, <2>1
<1>10. billCall[c].inv = i
  BY DEF i
<1> QED
  BY <1>1, <1>5, <1>6, <1>7, <1>8, <1>9, <1>10, BillWritesStatus

(* An invoice that was dunned is written off.                              *)
LEMMA WriteOffBillInv ==
  ASSUME BillInv, NEW c \in BillActor, WriteOff(c)
  PROVE  BillInv'
<1> DEFINE i == billCall[c].inv
<1>1. /\ i \in Invoice /\ invoice[i].attempts >= MaxDunning /\ invoice[i].status # "none"
  <2>1. i \in Invoice
    BY BillFacts DEF WriteOff, BillCallOK
  <2> QED
    BY <2>1, BillFacts, BillingAssumption DEF WriteOff, BillCallOK
<1>2. invoice[i] \in InvoiceRow /\ invoice[i].attempts \in Nat
  BY <1>1, BillRows
<1>3. PICK row \in InvoiceRow :
        /\ row = [invoice[i] EXCEPT !.status = "uncollectible"]
        /\ row.attempts = invoice[i].attempts
        /\ row.status = "uncollectible" /\ row.overdue = invoice[i].overdue
  BY <1>2, RowMarked
<1>4. invoice' = [invoice EXCEPT ![i] = row]
  BY <1>1, <1>3 DEF BillInv, WriteOff
<1>5. BillDo(c, BillIdle) /\ UNCHANGED <<sub, current, expired, booked, begun>>
  BY DEF WriteOff, BillEnds
<1>6. /\ row.status \in {"paid", "failed", "uncollectible"}
      /\ invoice[i].attempts <= row.attempts
      /\ row.attempts # invoice[i].attempts => billCall[c].do # "webhook"
      /\ row.status = "paid" => i \in booked
      /\ row.status = "uncollectible" => row.attempts >= MaxDunning
  BY <1>1, <1>2, <1>3
<1> QED
  BY <1>1, <1>3, <1>4, <1>5, <1>6, BillWritesStatus

(* A payment marks its invoice paid, once the ledger holds it.             *)
LEMMA MarkPaidBillInv ==
  ASSUME BillInv, NEW c \in BillActor, MarkPaid(c)
  PROVE  BillInv'
<1> DEFINE i == billCall[c].inv
<1>1. /\ i \in Invoice /\ i \in booked /\ invoice[i].status # "none"
  <2>1. i \in Invoice
    BY BillFacts DEF MarkPaid, BillCallOK
  <2> QED
    BY <2>1, BillFacts, BillingAssumption DEF MarkPaid, BillCallOK
<1>2. invoice[i] \in InvoiceRow /\ invoice[i].attempts \in Nat
  BY <1>1, BillRows
<1>3. PICK row \in InvoiceRow :
        /\ row = [invoice[i] EXCEPT !.status = "paid"]
        /\ row.attempts = invoice[i].attempts
        /\ row.status = "paid" /\ row.overdue = invoice[i].overdue
  BY <1>2, RowMarked
<1>4. invoice' = [invoice EXCEPT ![i] = row]
  BY <1>1, <1>3 DEF BillInv, MarkPaid
<1>5. PICK s : BillDo(c, s) /\ MovedOn(s, c, "activate")
  <2>1. "activate" \in BillPlaces /\ Goes(c, "activate")
    BY DEF BillPlaces, MarkPaid
  <2> QED
    BY <2>1, BillGoesForm
<1>6. /\ row.status \in {"paid", "failed", "uncollectible"}
      /\ invoice[i].attempts <= row.attempts
      /\ row.attempts # invoice[i].attempts => billCall[c].do # "webhook"
      /\ row.status = "paid" => i \in booked
      /\ row.status = "uncollectible" => row.attempts >= MaxDunning
  BY <1>1, <1>2, <1>3
<1>7. UNCHANGED <<sub, current, expired, booked, begun>>
  BY DEF MarkPaid
<1> QED
  BY <1>1, <1>3, <1>4, <1>5, <1>6, <1>7, BillWritesStatus
(* Steps that write the subscription, or the plan, and nothing of an       *)
(* invoice.                                                                *)
LEMMA SettlingBillInv ==
  ASSUME BillInv, NEW c \in BillActor,
         \/ PastDue(c) \/ DropSubscription(c) \/ DropPlan(c) \/ Activate(c)
         \/ PricingThrows(c)
  PROVE  BillInv'
<1>1. /\ sub \in SubRow /\ TagOK(sub.tag) /\ current \in Plans /\ begun \in 0 .. BillMaxBegun
      /\ "free" \in Plans
      /\ "dropPlan" \in BillPlaces /\ "writeOff" \in BillPlaces
  BY BillFacts, BillingAssumption DEF BillPlaces
<1>2. CASE PastDue(c)
  <2>1. sub' \in SubRow /\ TagOK(sub'.tag)
    BY <1>1, <1>2, SubRows DEF PastDue
  <2> QED
    BY <1>1, <1>2, <2>1, BillStops DEF PastDue
<1>3. CASE DropSubscription(c)
  <2>1. PICK x \in SubRow : x = WithStatus("cancelled") /\ x.tag = sub.tag
    BY SubRows
  <2>2. [x EXCEPT !.plan = "free"] \in SubRow /\ [x EXCEPT !.plan = "free"].tag = sub.tag
    BY <1>1, <2>1 DEF SubRow
  <2>3. sub' \in SubRow /\ TagOK(sub'.tag)
    BY <1>1, <1>3, <2>1, <2>2 DEF DropSubscription
  <2>4. \A s : MovedOn(s, c, "dropPlan") => BillCallOK(s, invoice, booked)
    BY <1>3, BillFacts DEF DropSubscription, MovedOn, BillCallOK
  <2>5. /\ Goes(c, "dropPlan") /\ UNCHANGED <<invoice, expired, booked>>
        /\ current' \in Plans /\ begun' \in 0 .. BillMaxBegun
    BY <1>1, <1>3 DEF DropSubscription
  <2> QED
    BY <1>1, <2>3, <2>4, <2>5, BillArrives
<1>4. CASE DropPlan(c)
  <2>1. /\ UNCHANGED <<invoice, expired, booked>> /\ sub' \in SubRow /\ TagOK(sub'.tag)
        /\ current' \in Plans /\ begun' \in 0 .. BillMaxBegun
    BY <1>1, <1>4 DEF DropPlan
  <2>2. CASE billCall[c].do = "collect"
    <3>1. \A s : MovedOn(s, c, "writeOff") => BillCallOK(s, invoice, booked)
      BY <1>4, <2>2, BillFacts DEF DropPlan, MovedOn, BillCallOK
    <3>2. Goes(c, "writeOff")
      BY <1>4, <2>2 DEF DropPlan
    <3> QED
      BY <1>1, <2>1, <3>1, <3>2, BillArrives
  <2>3. CASE billCall[c].do # "collect"
    <3>1. BillEnds(c)
      BY <1>4, <2>3 DEF DropPlan
    <3> QED
      BY <2>1, <3>1, BillStops
  <2> QED
    BY <2>2, <2>3
<1>5. CASE Activate(c)
  <2>1. sub' \in SubRow /\ TagOK(sub'.tag)
    BY <1>1, <1>5, SubRows DEF Activate
  <2> QED
    BY <1>1, <1>5, <2>1, BillRests DEF Activate
<1>6. CASE PricingThrows(c)
  BY <1>1, <1>6, BillStops DEF PricingThrows
<1> QED
  BY <1>2, <1>3, <1>4, <1>5, <1>6

(* A call, or the worker, dies.                                            *)
LEMMA DyingBillInv ==
  ASSUME BillInv, NEW c \in BillActor, BillCallDies(c)
  PROVE  BillInv'
<1>1. /\ sub' \in SubRow /\ TagOK(sub'.tag) /\ current' \in Plans
      /\ UNCHANGED <<invoice, expired, booked>> /\ BillEnds(c)
  BY BillFacts DEF BillCallDies
<1>2. begun' \in 0 .. BillMaxBegun
  BY BillFacts, BillingAssumption DEF BillCallDies
<1> QED
  BY <1>1, <1>2, BillStops

(* A payment is announced.                                                 *)
LEMMA WebhookBillInv ==
  ASSUME BillInv, NEW c \in BillCall, NEW i \in Invoice, Webhook(c, i)
  PROVE  BillInv'
<1> DEFINE s == [BillIdle EXCEPT !.at = "post", !.do = "webhook", !.inv = i]
<1>1. c \in BillActor
  BY DEF BillActor
<1>2. /\ s \in BillRecord /\ s.at = "post" /\ s.do = "webhook" /\ s.inv = i /\ TagOK(s.tag)
  BY BillForms DEF BillRecord
<1>3. BillDo(c, s) /\ invoice[i].status # "none"
  BY DEF Webhook
<1> HIDE DEF s
<1>4. BillCallOK(s, invoice, booked)
  BY <1>2, <1>3 DEF BillCallOK
<1>5. /\ UNCHANGED <<invoice, expired, booked>> /\ sub' \in SubRow /\ TagOK(sub'.tag)
      /\ current' \in Plans /\ begun' \in 0 .. BillMaxBegun
  BY <1>1, BillFacts DEF Webhook
<1> QED
  BY <1>1, <1>2, <1>3, <1>4, <1>5, BillGoesOn

(* A payment is booked, unless the invoice is paid.                        *)
LEMMA PostPaymentBillInv ==
  ASSUME BillInv, NEW c \in BillActor, PostPayment(c)
  PROVE  BillInv'
<1> DEFINE i == billCall[c].inv
<1>1. i \in Invoice /\ invoice[i].status # "none" /\ sub.plan \in Plans
  BY BillFacts, BillingAssumption DEF PostPayment, BillCallOK
<1>2. CASE invoice[i].status = "paid"
  BY <1>2, AfterPushBillInv DEF PostPayment
<1>3. CASE invoice[i].status # "paid"
  <2> DEFINE s == Paying(c)
  <2>1. /\ booked' = booked \cup {i} /\ BillDo(c, s)
        /\ UNCHANGED <<sub, current, invoice, expired, begun>>
    BY <1>3 DEF PostPayment
  <2>2. /\ s \in BillRecord /\ s.at = "markPaid" /\ s.inv = i /\ TagOK(s.tag)
        /\ s.do = "webhook" \/ (s.do = "changePaid" /\ billCall[c].do # "webhook")
    <3>1. CASE billCall[c].do = "change"
      BY <1>1, <3>1, BillFacts, BillForms DEF BillRecord, Paying
    <3>2. CASE billCall[c].do # "change"
      BY <1>1, <3>2, BillFacts, BillForms, BillingAssumption DEF BillRecord, Paying
    <3> QED
      BY <3>1, <3>2
  <2> HIDE DEF s
  <2>3. BillCallOK(s, invoice', booked')
    BY <1>1, <2>1, <2>2 DEF BillCallOK
  <2>4. \A d \in BillActor : BillCallOK(billCall[d], invoice', booked')
    BY <2>1 DEF BillInv, BillCallOK
  <2>5. InvoicesAreAccounted'
    BY <2>1 DEF BillInv, InvoicesAreAccounted
  <2>6. \A d \in BillActor : d # c /\ billCall[d].inv = s.inv /\ s.inv # NoInvoice =>
                               s.do = "webhook" \/ billCall[d].do = "webhook"
    BY <2>2 DEF BillInv, OneOwner
  <2>7. c # Worker /\ s.inv \in Invoice /\ invoice'[s.inv].overdue => s.do = "webhook"
    BY <2>1, <2>2, BillingAssumption DEF BillInv, OverdueIsTheWorkers, BillActor
  <2>8. BillMoveOK(c, s)
    BY <1>1, <2>1, <2>3, <2>4, <2>5, <2>6, <2>7 DEF BillInv, BillMoveOK
  <2> QED
    BY <2>1, <2>8, BillMove
<1> QED
  BY <1>2, <1>3

(* An invoice is created: nobody works on it yet.                          *)
LEMMA CreateInvoiceBillInv ==
  ASSUME BillInv, NEW c \in BillActor, NEW i \in Invoice, CreateInvoice(c, i)
  PROVE  BillInv'
<1>0. PICK zero \in RoundsToZero(c) :
        invoice' = [invoice EXCEPT ![i] = [status |-> "open", attempts |-> 0,
                                           overdue |-> FALSE, zero |-> zero]]
  BY DEF CreateInvoice
<1> DEFINE row == [status |-> "open", attempts |-> 0, overdue |-> FALSE, zero |-> zero]
           at == IF PricedNow(c) THEN "advance" ELSE "push"
           plan == IF billCall[c].do = "change" THEN billCall[c].plan ELSE "free"
           s == [billCall[c] EXCEPT !.inv = i, !.tag = NoTag, !.at = at, !.plan = plan]
<1>1. /\ billCall[c] \in BillRecord /\ billCall[c].do # "webhook" /\ billCall[c].plan \in Plans
      /\ invoice[i].status = "none" /\ MaxDunning \in Nat \ {0}
      /\ UNCHANGED <<sub, current, expired, booked, begun>>
  BY BillFacts, BillingAssumption DEF CreateInvoice, FreshInvoice, BillCallOK
<1>2. row \in InvoiceRow /\ row.status = "open" /\ row.attempts = 0 /\ row.overdue = FALSE
  <2> DEFINE little == TotalDue(billCall[c].plan, billCall[c].tag) < 50
  <2>1. zero \in BOOLEAN
    <3>1. little \in BOOLEAN
      OBVIOUS
    <3>2. zero \in BOOLEAN \/ zero = little
      BY <1>0 DEF RoundsToZero
    <3> HIDE DEF little
    <3> QED
      BY <3>1, <3>2
  <2> QED
    BY <1>1, <2>1 DEF InvoiceRow
<1>3. invoice' = [invoice EXCEPT ![i] = row]
  BY <1>0
<1>4. BillDo(c, s)
  BY DEF CreateInvoice
<1>5. at \in {"advance", "push"} /\ plan \in Plans
  BY <1>1, BillingAssumption
<1> HIDE DEF row, at, plan
<1>6. /\ s \in BillRecord /\ s.inv = i /\ s.tag = NoTag /\ s.at \in {"advance", "push"}
      /\ s.do = billCall[c].do
  BY <1>1, <1>5, BillForms DEF BillRecord
<1> HIDE DEF s
<1>7. /\ invoice' \in [Invoice -> InvoiceRow] /\ invoice'[i] = row
      /\ \A j \in Invoice : j # i => invoice'[j] = invoice[j]
  BY <1>2, <1>3 DEF BillInv
<1>8. BillCallOK(s, invoice', booked')
  BY <1>1, <1>2, <1>6, <1>7, BillForms DEF BillCallOK
<1>9. ASSUME NEW d \in BillActor PROVE billCall[d].inv # i
  BY <1>1, BillFacts, BillingAssumption DEF BillCallOK
<1>10. \A d \in BillActor : BillCallOK(billCall[d], invoice', booked')
  <2> SUFFICES ASSUME NEW d \in BillActor PROVE BillCallOK(billCall[d], invoice', booked')
    OBVIOUS
  <2>1. billCall[d].inv \in Invoice => invoice'[billCall[d].inv] = invoice[billCall[d].inv]
    BY <1>7, <1>9
  <2>2. billCall[d].inv \in Invoice \cup {NoInvoice} /\ BillCallOK(billCall[d], invoice, booked)
    BY BillFacts DEF BillRecord
  <2> QED
    BY <1>1, <2>1, <2>2 DEF BillCallOK
<1>11. InvoicesAreAccounted'
  BY <1>1, <1>2, <1>7 DEF BillInv, InvoicesAreAccounted
<1>12. \A j \in Invoice : invoice'[j].overdue => invoice[j].overdue
  BY <1>2, <1>7
<1>13. /\ \A d \in BillActor : billCall[d].inv # s.inv
       /\ s.inv \in Invoice => ~ invoice'[s.inv].overdue
  BY <1>2, <1>6, <1>7, <1>9
<1>14. BillMoveOK(c, s)
  BY <1>1, <1>7, <1>8, <1>10, <1>11, <1>12, <1>13 DEF BillInv, BillMoveOK
<1> QED
  BY <1>4, <1>14, BillMove

(* The worker takes up an invoice that is overdue: no request pushes it.   *)
LEMMA StartCollectBillInv ==
  ASSUME BillInv, NEW i \in Invoice, StartCollect(i)
  PROVE  BillInv'
<1> DEFINE at == IF invoice[i].attempts >= MaxDunning THEN "drop" ELSE "push"
           s == [BillIdle EXCEPT !.do = "collect", !.inv = i, !.at = at]
<1>1. /\ invoice[i].status = "open" /\ invoice[i].overdue /\ Worker \in BillActor
      /\ UNCHANGED <<sub, current, invoice, expired, booked, begun>>
  BY DEF StartCollect, BillActor
<1>2. /\ at \in {"drop", "push"}
      /\ at = "drop" => invoice[i].attempts >= MaxDunning
      /\ at = "push" => invoice[i].attempts < MaxDunning
  BY BillRows
<1>3. BillDo(Worker, s)
  BY DEF StartCollect
<1> HIDE DEF at
<1>4. s \in BillRecord /\ s.inv = i /\ s.tag = NoTag /\ s.at = at /\ s.do = "collect"
  BY <1>2, BillForms DEF BillRecord
<1> HIDE DEF s
<1>5. BillCallOK(s, invoice', booked')
  BY <1>1, <1>2, <1>4, BillForms DEF BillCallOK
<1>6. \A d \in BillActor : d # Worker /\ billCall[d].inv = i => billCall[d].do = "webhook"
  BY <1>1 DEF BillInv, OverdueIsTheWorkers, BillActor
<1>7. \A d \in BillActor : BillCallOK(billCall[d], invoice', booked')
  BY <1>1 DEF BillInv
<1>8. InvoicesAreAccounted'
  BY <1>1 DEF BillInv, InvoicesAreAccounted
<1>9. BillMoveOK(Worker, s)
  BY <1>1, <1>4, <1>5, <1>6, <1>7, <1>8 DEF BillInv, BillMoveOK
<1> QED
  BY <1>1, <1>3, <1>9, BillMove

(* Time passes.                                                            *)
LEMMA TimeBillInv ==
  ASSUME BillInv,
         \/ PeriodEnds \/ TrialEnds
         \/ \E k \in Coupon : CouponExpires(k)
         \/ \E i \in Invoice : InvoiceFallsDue(i)
  PROVE  BillInv'
<1>1. ASSUME UNCHANGED <<current, invoice, booked, billCall, begun>>,
             sub' \in SubRow, TagOK(sub'.tag), expired' \subseteq Coupon
      PROVE  BillInv'
  BY <1>1 DEF BillInv, OneOwner, OverdueIsTheWorkers, InvoicesAreAccounted
<1>2. CASE PeriodEnds
  BY <1>1, <1>2, SubRows DEF PeriodEnds, BillInv
<1>3. CASE TrialEnds
  BY <1>1, <1>3, SubRows DEF TrialEnds, BillInv
<1>4. ASSUME NEW k \in Coupon, CouponExpires(k) PROVE BillInv'
  BY <1>1, <1>4 DEF CouponExpires, BillInv
<1>5. ASSUME NEW i \in Invoice, InvoiceFallsDue(i) PROVE BillInv'
  <2>1. /\ invoice[i] \in InvoiceRow
        /\ invoice' = [invoice EXCEPT ![i].overdue = TRUE]
        /\ UNCHANGED <<sub, current, expired, booked, billCall, begun>>
    BY <1>5, BillRows DEF InvoiceFallsDue
  <2>2. \A x \in InvoiceRow :
          /\ [x EXCEPT !.overdue = TRUE] \in InvoiceRow
          /\ [x EXCEPT !.overdue = TRUE].status = x.status
          /\ [x EXCEPT !.overdue = TRUE].attempts = x.attempts
    BY DEF InvoiceRow
  <2>3. /\ invoice' \in [Invoice -> InvoiceRow]
        /\ \A j \in Invoice : invoice'[j].status = invoice[j].status
                              /\ invoice'[j].attempts = invoice[j].attempts
        /\ \A j \in Invoice : j # i => invoice'[j] = invoice[j]
    BY <2>1, <2>2 DEF BillInv
  <2>4. \A c \in BillActor : BillCallOK(billCall'[c], invoice', booked')
    <3> SUFFICES ASSUME NEW c \in BillActor
                 PROVE  BillCallOK(billCall[c], invoice', booked)
      BY <2>1
    <3>1. BillCallOK(billCall[c], invoice, booked) /\ billCall[c].inv \in Invoice \cup {NoInvoice}
      BY BillFacts DEF BillRecord
    <3> QED
      BY <2>3, <3>1 DEF BillCallOK
  <2>5. InvoicesAreAccounted'
    BY <2>1, <2>3 DEF BillInv, InvoicesAreAccounted
  <2>6. OverdueIsTheWorkers'
    BY <1>5, <2>1, <2>3 DEF BillInv, OverdueIsTheWorkers, InvoiceFallsDue, BillActor
  <2>7. OneOwner'
    BY <2>1 DEF BillInv, OneOwner
  <2> QED
    BY <2>1, <2>3, <2>4, <2>5, <2>6, <2>7 DEF BillInv
<1> QED
  BY <1>2, <1>3, <1>4, <1>5

(* Every step of the subscription keeps the invariant.                     *)
LEMMA NextBillInv == BillInv /\ [BillNext]_billVars => BillInv'
<1> SUFFICES ASSUME BillInv, [BillNext]_billVars PROVE BillInv'
  OBVIOUS
<1>1. CASE UNCHANGED billVars
  BY <1>1 DEF BillInv, billVars, OneOwner, OverdueIsTheWorkers, InvoicesAreAccounted
<1>2. ASSUME NEW c \in BillActor, BillStep(c) PROVE BillInv'
  BY <1>2, ReadToGenerateBillInv, WriteDecisionBillInv, PublishPlanBillInv, AdvancePeriodBillInv,
     NoTreasurerBillInv, PushBillInv, PushCountedBillInv, MarkFailedBillInv,
     WriteOffBillInv, MarkPaidBillInv, SettlingBillInv, PostPaymentBillInv,
     CreateInvoiceBillInv
  DEF BillStep
<1>3. CASE BillNext
  BY <1>2, <1>3, BeginningBillInv, WebhookBillInv, DyingBillInv, StartCollectBillInv,
     TimeBillInv
  DEF BillNext
<1> QED
  BY <1>1, <1>3

(* The invariant of the subscription holds of every behaviour, whatever    *)
(* requests, webhooks, jobs and deaths overlap (billing.service.ts).       *)
THEOREM BillInvariance == BillSpec => []BillInv
BY InitBillInv, NextBillInv, PTL DEF BillSpec

(* Subscription, invoices and calls keep their types: in particular no     *)
(* invoice counts more than MaxDunning attempts (billing.service.ts:1074). *)
THEOREM BillTypeCorrect == BillSpec => []BillTypeOK
<1>1. BillInv => BillTypeOK
  BY DEF BillInv, BillTypeOK, SubRow, InvoiceRow, BillRecord
<1> QED
  BY <1>1, BillInvariance, PTL

(* No invoice is marked paid that the ledger does not hold, and none is    *)
(* written off before MaxDunning attempts, for any number of requests,     *)
(* webhooks and invoices (billing.service.ts:739-753, 784, 1074-1099).     *)
THEOREM InvoicesStayAccounted == BillSpec => []InvoicesAreAccounted
<1>1. BillInv => InvoicesAreAccounted
  BY DEF BillInv
<1> QED
  BY <1>1, BillInvariance, PTL

-------------------------------------------------------------------------------
(* Gates.  Whatever a request lacks or brings, a guard answers it; the     *)
(* breaker never counts more failures than calls, nor more than its window.*)

(* A guard of the callbacks lets through or refuses.                       *)
LEMMA GuardsAnswer ==
  ASSUME NEW guard \in {"daraja", "flutterwave", "ussd", "stripe"},
         NEW signature \in Part, NEW secret \in Part, NEW ip \in Part,
         Callback(guard, signature, secret, ip)
  PROVE  gateSays' \in {"next", "401", "403", "500"} /\ UNCHANGED <<circuit, calls>>
<1> DEFINE r == [signature |-> signature, secret |-> secret, ip |-> ip]
<1>1. DarajaGuard(r) \in {"next", "401", "403"}
  BY DEF DarajaGuard
<1>2. FlutterwaveGuard(r) \in {"next", "401", "500"}
  BY DEF FlutterwaveGuard
<1>3. AfricasTalkingGuard(r) \in {"next", "403"}
  BY DEF AfricasTalkingGuard
<1>4. StripeGuard(r) \in {"next", "401", "500"}
  BY DEF StripeGuard
<1> HIDE DEF r
<1>5. /\ gateSays' = CASE guard = "daraja"      -> DarajaGuard(r)
                       [] guard = "flutterwave" -> FlutterwaveGuard(r)
                       [] guard = "ussd"        -> AfricasTalkingGuard(r)
                       [] guard = "stripe"      -> StripeGuard(r)
      /\ UNCHANGED <<circuit, calls>>
  BY DEF Callback, r
<1> QED
  BY <1>1, <1>2, <1>3, <1>4, <1>5

(* Every step keeps the types.                                             *)
LEMMA NextGateTypes == GateTypeOK /\ [GateNext]_gateVars => GateTypeOK'
<1> SUFFICES ASSUME GateTypeOK, [GateNext]_gateVars PROVE GateTypeOK'
  OBVIOUS
<1> USE GatesAssumption
<1>1. ASSUME NEW guard \in {"daraja", "flutterwave", "ussd", "stripe"},
             NEW signature \in Part, NEW secret \in Part, NEW ip \in Part,
             Callback(guard, signature, secret, ip)
      PROVE  GateTypeOK'
  BY <1>1, GuardsAnswer DEF GateTypeOK
<1>2. ASSUME NEW feature \in FeaturesOf["enterprise"],
             \/ \E s \in Subscription : RequireChamaFeature(s, feature)
             \/ \E s, t \in Subscription : RequireUserFeature({s, t}, feature)
      PROVE  GateTypeOK'
  BY <1>2 DEF RequireChamaFeature, RequireUserFeature, GateTypeOK
<1>3. ASSUME NEW feature, NEW code, RequireFeatureByColumn(code, feature)
      PROVE  GateTypeOK'
  BY <1>3 DEF RequireFeatureByColumn, GateTypeOK
<1>4. CASE Fire
  <2>1. calls.fires < Volume => [calls EXCEPT !.fires = @ + 1]
                                  \in [fires : 0 .. Volume, failures : 0 .. Volume]
    BY DEF GateTypeOK
  <2> QED
    BY <1>4, <2>1 DEF Fire, GateTypeOK
<1>5. CASE CallFails
  <2>1. calls.failures < calls.fires => [calls EXCEPT !.failures = calls.failures + 1]
                                         \in [fires : 0 .. Volume, failures : 0 .. Volume]
    BY DEF GateTypeOK
  <2> QED
    BY <1>5, <2>1 DEF CallFails, GateTypeOK
<1>6. CASE ProbeSucceeds \/ ResetTimeout
  BY <1>6 DEF ProbeSucceeds, ResetTimeout, GateTypeOK
<1>7. CASE WindowRolls
  BY <1>7 DEF WindowRolls, GateTypeOK
<1>8. CASE UNCHANGED gateVars
  BY <1>8 DEF gateVars, GateTypeOK
<1> QED
  BY <1>1, <1>2, <1>3, <1>4, <1>5, <1>6, <1>7, <1>8 DEF GateNext

(* The verdicts of the guards, and the circuit and its window, are of the  *)
(* values the code knows: a request is never left without an answer        *)
(* (webhook-guard.ts, daraja-breaker.ts).                                  *)
THEOREM GateTypeCorrect == GateSpec => []GateTypeOK
<1>1. GateInit => GateTypeOK
  BY GatesAssumption DEF GateInit, GateTypeOK
<1> QED
  BY <1>1, NextGateTypes, PTL DEF GateSpec

-------------------------------------------------------------------------------
(* Idempotency.  A request that is under way keeps the key and body it came*)
(* with, so what it stores is an answer to that body.                      *)

IdemRecord ==
  {Ready}
    \cup [pc : {"handler"}, key : IdemKey, body : IdemBody]
    \cup [pc : {"store"}, key : IdemKey, body : IdemBody, status : {200, 400}]

IdemInv == IdemTypeOK /\ idemCall \in [IdemCall -> IdemRecord]

(* What the place of a request tells of its record.                        *)
LEMMA IdemRecords ==
  /\ Ready \in IdemRecord
  /\ \A k \in IdemKey, b \in IdemBody :
       /\ [pc |-> "handler", key |-> k, body |-> b] \in IdemRecord
       /\ \A s \in {200, 400} :
            [pc |-> "store", key |-> k, body |-> b, status |-> s] \in IdemRecord
  /\ \A s \in IdemRecord :
       /\ s.pc \in {"ready", "handler", "store"}
       /\ s.pc # "ready" => s.key \in IdemKey /\ s.body \in IdemBody
       /\ s.pc = "store" => s.status \in {200, 400}
BY DEF IdemRecord, Ready

(* A step writes one request's record, an answer at most, and says so.     *)
LEMMA IdemStep ==
  ASSUME IdemInv, NEW c \in IdemCall, NEW s \in IdemRecord,
         idemCall' = [idemCall EXCEPT ![c] = s],
         entry' \in [IdemKey -> Entry],
         reply' \in {"none", "next", "replayed", "conflict", "no_key"}
  PROVE  IdemInv'
<1>1. idemCall' \in [IdemCall -> IdemRecord]
  BY DEF IdemInv
<1> QED
  BY <1>1, IdemRecords DEF IdemInv, IdemTypeOK

(* Every step keeps the invariant.                                         *)
LEMMA NextIdemInv == IdemInv /\ [IdemNext]_idemVars => IdemInv'
<1> SUFFICES ASSUME IdemInv, [IdemNext]_idemVars PROVE IdemInv'
  OBVIOUS
<1>0. /\ entry \in [IdemKey -> Entry] /\ idemCall \in [IdemCall -> IdemRecord]
      /\ reply \in {"none", "next", "replayed", "conflict", "no_key"}
  BY DEF IdemInv, IdemTypeOK
<1>1. CASE KeyMissing \/ UNCHANGED idemVars
  BY <1>1 DEF KeyMissing, idemVars, IdemInv, IdemTypeOK
<1>2. ASSUME NEW c \in IdemCall, NEW k \in IdemKey, NEW body \in IdemBody,
             NEW up \in BOOLEAN, Lookup(c, k, body, up)
      PROVE  IdemInv'
  <2>1. CASE UNCHANGED idemCall
    BY <1>2, <2>1 DEF Lookup, IdemInv, IdemTypeOK
  <2>2. CASE /\ idemCall' = [idemCall EXCEPT
                               ![c] = [pc |-> "handler", key |-> k, body |-> body]]
             /\ reply' = "next"
    <3>1. [pc |-> "handler", key |-> k, body |-> body] \in IdemRecord
      BY IdemRecords
    <3>2. UNCHANGED entry
      BY <1>2 DEF Lookup
    <3> QED
      BY <1>0, <2>2, <3>1, <3>2, IdemStep
  <2> QED
    BY <1>2, <2>1, <2>2 DEF Lookup
<1>3. ASSUME NEW c \in IdemCall, NEW status \in {200, 400, 500}, Respond(c, status)
      PROVE  IdemInv'
  <2>1. idemCall[c] \in IdemRecord
    BY <1>0
  <2>2. idemCall[c].key \in IdemKey /\ idemCall[c].body \in IdemBody
    BY <1>3, <2>1, IdemRecords DEF Respond
  <2> DEFINE s == IF status < 500
                  THEN [pc |-> "store", key |-> idemCall[c].key,
                        body |-> idemCall[c].body, status |-> status]
                  ELSE Ready
  <2>3. s \in IdemRecord
    <3>1. CASE status \in {200, 400}
      <4>1. s = [pc |-> "store", key |-> idemCall[c].key,
                 body |-> idemCall[c].body, status |-> status]
        BY <3>1
      <4> QED
        BY <2>2, <3>1, <4>1 DEF IdemRecord
    <3>2. CASE status = 500
      BY <3>2, IdemRecords
    <3> QED
      BY <3>1, <3>2
  <2>4. idemCall' = [idemCall EXCEPT ![c] = s]
    BY <1>0, <1>3 DEF Respond
  <2> HIDE DEF s
  <2> QED
    <3>1. UNCHANGED <<entry, reply>>
      BY <1>3 DEF Respond
    <3> QED
      BY <1>0, <2>3, <2>4, <3>1, IdemStep
<1>4. ASSUME NEW c \in IdemCall, StoreAnswer(c) PROVE IdemInv'
  <2>1. idemCall[c] \in IdemRecord
    BY <1>0
  <2>2. /\ idemCall[c].key \in IdemKey /\ idemCall[c].body \in IdemBody
        /\ idemCall[c].status \in {200, 400}
    BY <1>4, <2>1, IdemRecords DEF StoreAnswer
  <2>3. Stored(c) \in Entry
    BY <2>2 DEF Stored, Entry
  <2>4. entry' \in [IdemKey -> Entry]
    BY <1>0, <1>4, <2>2, <2>3 DEF StoreAnswer
  <2> QED
    <3>1. idemCall' = [idemCall EXCEPT ![c] = Ready] /\ UNCHANGED reply
      BY <1>4 DEF StoreAnswer
    <3>2. Ready \in IdemRecord
      BY IdemRecords
    <3> QED
      BY <1>0, <2>4, <3>1, <3>2, IdemStep
<1>5. ASSUME NEW c \in IdemCall, StoreFails(c) PROVE IdemInv'
  <2>1. idemCall' = [idemCall EXCEPT ![c] = Ready] /\ UNCHANGED <<entry, reply>>
    BY <1>5 DEF StoreFails
  <2>2. Ready \in IdemRecord
    BY IdemRecords
  <2> QED
    BY <1>0, <2>1, <2>2, IdemStep
<1>6. ASSUME NEW k \in IdemKey, KeyExpires(k) PROVE IdemInv'
  <2>1. entry' \in [IdemKey -> Entry]
    BY <1>0, <1>6 DEF KeyExpires, Entry
  <2> QED
    BY <1>6, <2>1 DEF KeyExpires, IdemInv, IdemTypeOK
<1> QED
  BY <1>1, <1>2, <1>3, <1>4, <1>5, <1>6 DEF IdemNext

LEMMA IdemInvariance == IdemSpec => []IdemInv
<1>1. IdemInit => IdemInv
  BY IdemRecords DEF IdemInit, IdemInv, IdemTypeOK, Entry, Ready
<1> QED
  BY <1>1, NextIdemInv, PTL DEF IdemSpec

(* What is cached under a key is an answer that was captured: a success or *)
(* a client's error, to one of the bodies (idempotency.ts).                *)
THEOREM IdemTypeCorrect == IdemSpec => []IdemTypeOK
<1>1. IdemInv => IdemTypeOK
  BY DEF IdemInv
<1> QED
  BY <1>1, IdemInvariance, PTL

(* The first answer stays.  Of two requests that ran the handler under one *)
(* key the second to store changes nothing: until the key expires, every   *)
(* repetition is told the same (SET NX, idempotency.ts:122-127).           *)
THEOREM FirstAnswerStays ==
  IdemSpec => [][\A k \in IdemKey : entry[k] # NoEntry => entry'[k] \in {entry[k], NoEntry}]_idemVars
<1> DEFINE Stays(k) == entry[k] # NoEntry => entry'[k] \in {entry[k], NoEntry}
<1>1. IdemInv /\ [IdemNext]_idemVars => [\A k \in IdemKey : Stays(k)]_idemVars
  <2> SUFFICES ASSUME IdemInv, IdemNext, NEW k \in IdemKey PROVE Stays(k)
    OBVIOUS
  <2>0. entry \in [IdemKey -> Entry]
    BY DEF IdemInv, IdemTypeOK
  <2>1. CASE UNCHANGED entry
    BY <2>1
  <2>2. ASSUME NEW c \in IdemCall, StoreAnswer(c) PROVE Stays(k)
    BY <2>0, <2>2 DEF StoreAnswer
  <2>3. ASSUME NEW x \in IdemKey, KeyExpires(x) PROVE Stays(k)
    BY <2>0, <2>3 DEF KeyExpires
  <2> QED
    BY <2>1, <2>2, <2>3 DEF IdemNext, KeyMissing, Lookup, Respond, StoreFails
<1> QED
  BY <1>1, IdemInvariance, PTL DEF IdemSpec

-------------------------------------------------------------------------------
(* Watch.  A request carries what it fetched or found.                     *)

WatchRecord ==
  {OffDuty}
    \cup [pc : {"del", "sadd", "pep"}, got : SUBSET Person]
    \cup [pc : {"listed", "save"}, user : Person, hits : SUBSET {"sanctions", "pep"}]

ReportRow ==
  [rule : {"R-VEL", "R-STR", "R-THR"},
   status : {"open", "submitted", "closed_false_positive"}, amounts : History]

WatchInv ==
  /\ WatchTypeOK
  /\ watchCall \in [WatchCall -> WatchRecord]
  /\ reports \in Seq(ReportRow)

(* What the place of a request tells of its record.                        *)
LEMMA WatchRecords ==
  ASSUME NEW s \in WatchRecord
  PROVE  /\ s.pc \in {"off", "del", "sadd", "pep", "listed", "save"}
         /\ s.pc \in {"del", "sadd", "pep"} => s.got \in SUBSET Person
         /\ s.pc \in {"listed", "save"} =>
              s.user \in Person /\ s.hits \in SUBSET {"sanctions", "pep"}
BY DEF WatchRecord, OffDuty

(* The records that requests write.                                        *)
LEMMA WatchForms ==
  /\ OffDuty \in WatchRecord
  /\ \A got \in SUBSET Person, pc \in {"del", "sadd", "pep"} :
       [pc |-> pc, got |-> got] \in WatchRecord
  /\ \A u \in Person, hits \in SUBSET {"sanctions", "pep"}, pc \in {"listed", "save"} :
       [pc |-> pc, user |-> u, hits |-> hits] \in WatchRecord
BY DEF WatchRecord

(* A step writes one request's record and what it is about.                *)
LEMMA WatchMoves ==
  ASSUME WatchInv, NEW c \in WatchCall, NEW s \in WatchRecord,
         watchCall' = [watchCall EXCEPT ![c] = s],
         names' \subseteq Person, pep' \subseteq Person,
         verdictOf' \in [Person -> (SUBSET {"sanctions", "pep"}) \cup {{"unknown"}}],
         screened' \subseteq Person, UNCHANGED reports
  PROVE  WatchInv'
<1>1. watchCall' \in [WatchCall -> WatchRecord]
  BY DEF WatchInv
<1>2. \A d \in WatchCall : watchCall'[d] \in WatchRecord
  BY <1>1
<1>3. \A d \in WatchCall :
        watchCall'[d].pc \in {"off", "del", "sadd", "pep", "listed", "save"}
  BY <1>2, WatchRecords
<1> QED
  BY <1>1, <1>3 DEF WatchInv, WatchTypeOK

(* What the reports' types come down to.                                   *)
LEMMA ReportsTyped ==
  ASSUME NEW rs \in Seq(ReportRow)
  PROVE  \A i \in DOMAIN rs :
           /\ rs[i].rule \in {"R-VEL", "R-STR", "R-THR"}
           /\ rs[i].status \in {"open", "submitted", "closed_false_positive"}
<1>1. \A i \in DOMAIN rs : rs[i] \in ReportRow
  BY ElementOfSeq
<1> QED
  BY <1>1 DEF ReportRow

(* The first rule that was hit is one of the three.                        *)
LEMMA FirstHit ==
  ASSUME NEW amounts, NEW own, Hits(amounts, own) # <<>>
  PROVE  Hits(amounts, own)[1] \in {"R-VEL", "R-STR", "R-THR"}
<1> DEFINE Rule == {"R-VEL", "R-STR", "R-THR"}
           one == IF Len(amounts) > 8 THEN <<"R-VEL">> ELSE <<>>
           two == IF /\ Cardinality({i \in DOMAIN amounts : SubLimit(amounts[i])}) >= 3
                     /\ MovedInAll(amounts) >= 1000
                  THEN <<"R-STR">> ELSE <<>>
           three == IF own >= 1000 THEN <<"R-THR">> ELSE <<>>
<1>1. one \in Seq(Rule) /\ two \in Seq(Rule) /\ three \in Seq(Rule)
  <2>1. << >> \in Seq(Rule)
    BY EmptySeq
  <2>2. <<"R-VEL">> \in Seq(Rule) /\ <<"R-STR">> \in Seq(Rule) /\ <<"R-THR">> \in Seq(Rule)
    OBVIOUS
  <2> HIDE DEF Rule
  <2> QED
    BY <2>1, <2>2, Zenon
<1>2. Hits(amounts, own) = (one \o two) \o three
  BY DEF Hits
<1> HIDE DEF one, two, three, Rule
<1>3. Hits(amounts, own) \in Seq(Rule)
  BY <1>1, <1>2, ConcatProperties
<1>4. Len(Hits(amounts, own)) \in Nat /\ Len(Hits(amounts, own)) # 0
  BY <1>3, EmptySeq, LenProperties
<1>5. Hits(amounts, own)[1] \in Rule
  BY <1>3, <1>4, ElementOfSeq
<1> QED
  BY <1>5 DEF Rule

(* The steps that read and write the lists and verdicts.                   *)
LEMMA ScreeningWatchInv ==
  ASSUME WatchInv, NEW c \in WatchCall,
         \/ \E answering \in SUBSET Source : FetchLists(c, answering)
         \/ DropList(c) \/ FillList(c) \/ FillPep(c) \/ ReadPep(c)
         \/ \E given \in SUBSET Person : DropPep(c, given)
         \/ \E u \in Person, skip \in BOOLEAN : ReadSanctions(c, u, skip)
         \/ \E redisUp \in BOOLEAN : SaveVerdict(c, redisUp)
  PROVE  WatchInv'
<1>0. /\ names \subseteq Person /\ pep \subseteq Person /\ screened \subseteq Person
      /\ verdictOf \in [Person -> (SUBSET {"sanctions", "pep"}) \cup {{"unknown"}}]
      /\ watchCall \in [WatchCall -> WatchRecord] /\ watchCall[c] \in WatchRecord
  BY DEF WatchInv, WatchTypeOK
<1> DEFINE call == watchCall[c]
<1>1. ASSUME NEW answering \in SUBSET Source, FetchLists(c, answering) PROVE WatchInv'
  <2> DEFINE got == (UNION {ListedBy[s] : s \in answering}) \cup pep
  <2>1. got \in SUBSET Person
    <3>1. ASSUME NEW x \in got, x \notin pep PROVE x \in Person
      <4>1. x \in UNION {ListedBy[s] : s \in answering}
        BY <3>1
      <4>2. PICK s \in answering : x \in ListedBy[s]
        BY <4>1
      <4>3. ListedBy[s] \subseteq Person
        BY WatchAssumption
      <4> QED
        BY <4>2, <4>3
    <3> HIDE DEF got
    <3> QED
      BY <1>0, <3>1
  <2>2. CASE got = {}
    BY <1>1, <2>2 DEF FetchLists, WatchInv, WatchTypeOK
  <2>3. CASE got # {}
    <3>1. /\ watchCall' = [watchCall EXCEPT ![c] = [pc |-> "del", got |-> got]]
          /\ UNCHANGED <<names, pep, verdictOf, screened, reports>>
      BY <1>1, <2>3 DEF FetchLists, WatchStep
    <3> HIDE DEF got
    <3>2. [pc |-> "del", got |-> got] \in WatchRecord
      BY <2>1, WatchForms
    <3> QED
      BY <1>0, <3>1, <3>2, WatchMoves
  <2> QED
    BY <2>2, <2>3
<1>2. CASE DropList(c)
  <2>1. call.got \in SUBSET Person
    BY <1>0, <1>2, WatchRecords DEF DropList
  <2>2. [pc |-> "sadd", got |-> call.got] \in WatchRecord
    BY <2>1, WatchForms
  <2>3. /\ watchCall' = [watchCall EXCEPT ![c] = [pc |-> "sadd", got |-> call.got]]
        /\ names' = {} /\ UNCHANGED <<pep, verdictOf, screened, reports>>
    BY <1>2 DEF DropList, WatchStep
  <2> QED
    BY <1>0, <2>2, <2>3, WatchMoves
<1>3. CASE FillList(c) \/ FillPep(c)
  <2>1. call.got \in SUBSET Person
    BY <1>0, <1>3, WatchRecords DEF FillList, FillPep
  <2>2. OffDuty \in WatchRecord
    BY WatchForms
  <2>3. /\ watchCall' = [watchCall EXCEPT ![c] = OffDuty]
        /\ names' \subseteq names \cup call.got /\ pep' \subseteq pep \cup call.got
        /\ UNCHANGED <<verdictOf, screened, reports>>
    BY <1>3 DEF FillList, FillPep, WatchDone, WatchStep
  <2> QED
    BY <1>0, <2>1, <2>2, <2>3, WatchMoves
<1>4. ASSUME NEW given \in SUBSET Person, DropPep(c, given) PROVE WatchInv'
  <2>1. [pc |-> "pep", got |-> given] \in WatchRecord
    BY WatchForms
  <2>2. /\ watchCall' = [watchCall EXCEPT ![c] = [pc |-> "pep", got |-> given]]
        /\ pep' = {} /\ UNCHANGED <<names, verdictOf, screened, reports>>
    BY <1>4 DEF DropPep, WatchStep
  <2> QED
    BY <1>0, <2>1, <2>2, WatchMoves
<1>5. ASSUME NEW u \in Person, NEW skip \in BOOLEAN, ReadSanctions(c, u, skip)
      PROVE  WatchInv'
  <2> DEFINE hits == IF u \in names THEN {"sanctions"} ELSE {}
  <2>1. hits \in SUBSET {"sanctions", "pep"}
    OBVIOUS
  <2>2. /\ watchCall' = [watchCall EXCEPT ![c] = [pc |-> "listed", user |-> u, hits |-> hits]]
        /\ UNCHANGED <<names, pep, verdictOf, screened, reports>>
    BY <1>5 DEF ReadSanctions, WatchStep
  <2> HIDE DEF hits
  <2>3. [pc |-> "listed", user |-> u, hits |-> hits] \in WatchRecord
    BY <2>1, WatchForms
  <2> QED
    BY <1>0, <2>2, <2>3, WatchMoves
<1>6. CASE ReadPep(c)
  <2>1. call.user \in Person /\ call.hits \in SUBSET {"sanctions", "pep"}
    BY <1>0, <1>6, WatchRecords DEF ReadPep
  <2> DEFINE u == call.user
             hits == call.hits \cup IF call.user \in pep THEN {"pep"} ELSE {}
  <2>2. hits \in SUBSET {"sanctions", "pep"}
    BY <2>1
  <2>3. /\ watchCall' = [watchCall EXCEPT ![c] = [pc |-> "save", user |-> u, hits |-> hits]]
        /\ UNCHANGED <<names, pep, verdictOf, screened, reports>>
    BY <1>6 DEF ReadPep, WatchStep
  <2> HIDE DEF hits
  <2>4. [pc |-> "save", user |-> u, hits |-> hits] \in WatchRecord
    BY <2>1, <2>2, WatchForms
  <2> QED
    BY <1>0, <2>3, <2>4, WatchMoves
<1>7. ASSUME NEW up \in BOOLEAN, SaveVerdict(c, up) PROVE WatchInv'
  <2>1. call.user \in Person /\ call.hits \in SUBSET {"sanctions", "pep"}
    BY <1>0, <1>7, WatchRecords DEF SaveVerdict
  <2>2. OffDuty \in WatchRecord
    BY WatchForms
  <2>3. /\ watchCall' = [watchCall EXCEPT ![c] = OffDuty]
        /\ verdictOf' \in {verdictOf, [verdictOf EXCEPT ![call.user] = call.hits]}
        /\ screened' = screened \cup {call.user}
        /\ UNCHANGED <<names, pep, reports>>
    BY <1>7 DEF SaveVerdict, WatchDone, WatchStep
  <2>4. verdictOf' \in [Person -> (SUBSET {"sanctions", "pep"}) \cup {{"unknown"}}]
    BY <1>0, <2>1, <2>3
  <2> QED
    BY <1>0, <2>1, <2>2, <2>3, <2>4, WatchMoves
<1> QED
  BY <1>1, <1>2, <1>3, <1>4, <1>5, <1>6, <1>7

(* Every step keeps the invariant.                                         *)
LEMMA NextWatchInv == WatchInv /\ [WatchNext]_watchVars => WatchInv'
<1> SUFFICES ASSUME WatchInv, [WatchNext]_watchVars PROVE WatchInv'
  OBVIOUS
<1>0. reports \in Seq(ReportRow)
  BY DEF WatchInv
<1>1. ASSUME NEW u \in Person, VerdictExpires(u) \/ ScreenedElsewhere(u) PROVE WatchInv'
  <2>1. verdictOf' \in [Person -> (SUBSET {"sanctions", "pep"}) \cup {{"unknown"}}]
    BY <1>1 DEF WatchInv, WatchTypeOK, VerdictExpires, ScreenedElsewhere
  <2> QED
    BY <1>1, <2>1 DEF WatchInv, WatchTypeOK, VerdictExpires, ScreenedElsewhere
<1>2. ASSUME reports' \in Seq(ReportRow),
             UNCHANGED <<names, pep, verdictOf, screened, watchCall>>
      PROVE  WatchInv'
  <2>1. \A i \in DOMAIN reports' :
          /\ reports'[i].rule \in {"R-VEL", "R-STR", "R-THR"}
          /\ reports'[i].status \in {"open", "submitted", "closed_false_positive"}
    BY <1>2, ReportsTyped
  <2> QED
    BY <1>2, <2>1 DEF WatchInv, WatchTypeOK
<1>3. ASSUME NEW h \in History, NEW inserted \in BOOLEAN, NEW i \in DOMAIN h,
             Evaluate(h, i, inserted)
      PROVE  WatchInv'
  <2> DEFINE hits == Hits(h, h[i])
             row == [rule |-> hits[1], status |-> "open", amounts |-> h]
  <2>1. UNCHANGED <<names, pep, verdictOf, screened, watchCall>>
    BY <1>3 DEF Evaluate
  <2>2. CASE UNCHANGED reports
    BY <1>0, <1>2, <2>1, <2>2
  <2>3. CASE hits # <<>> /\ reports' = Append(reports, row)
    <3>1. hits[1] \in {"R-VEL", "R-STR", "R-THR"}
      BY <2>3, FirstHit
    <3>2. row \in ReportRow
      BY <3>1 DEF ReportRow
    <3> HIDE DEF row
    <3> QED
      BY <1>0, <1>2, <2>1, <2>3, <3>2, AppendProperties
  <2> QED
    BY <1>3, <2>2, <2>3 DEF Evaluate, OpenReport
<1>4. ASSUME NEW i \in DOMAIN reports, NEW s \in {"submitted", "closed_false_positive"},
             FileReport(i, s)
      PROVE  WatchInv'
  <2>1. reports[i] \in ReportRow
    BY <1>0, ElementOfSeq
  <2>2. [reports[i] EXCEPT !.status = s] \in ReportRow
    BY <2>1 DEF ReportRow
  <2>3. reports' = [reports EXCEPT ![i] = [reports[i] EXCEPT !.status = s]]
        /\ UNCHANGED <<names, pep, verdictOf, screened, watchCall>>
    BY <1>0, <1>4 DEF FileReport
  <2>4. reports' \in Seq(ReportRow)
    BY <1>0, <2>2, <2>3, ExceptSeq
  <2> QED
    BY <1>2, <2>3, <2>4
<1>5. CASE UNCHANGED watchVars
  BY <1>5 DEF watchVars, WatchInv, WatchTypeOK
<1> QED
  BY <1>1, <1>3, <1>4, <1>5, ScreeningWatchInv DEF WatchNext

(* A screening says of a person only that one of the two lists had the     *)
(* name, and a report names one of the three rules (aml.service.ts).       *)
THEOREM WatchTypeCorrect == WatchSpec => []WatchTypeOK
<1>1. WatchInit => WatchInv
  BY DEF WatchInit, WatchInv, WatchTypeOK, WatchRecord, OffDuty
<1>2. WatchInv => WatchTypeOK
  BY DEF WatchInv
<1> QED
  BY <1>1, <1>2, NextWatchInv, PTL DEF WatchSpec

-------------------------------------------------------------------------------
(* Messaging.  The rows are sequences of rows.                             *)

DirectRow ==
  {m \in [from : Chatter, to : Chatter, read : BOOLEAN] : m.from # m.to}

SocketsOK ==
  /\ insiders \subseteq Chatter
  /\ rooms \in [Socket -> SUBSET {"user", "chama"}]
  /\ joining \subseteq Socket
  /\ heard \in [Socket -> Seq(Chatter)]

RowsKept ==
  /\ chat \in Seq(Chatter)
  /\ direct \in Seq(DirectRow)
  /\ notified \in [Chatter -> Seq(BOOLEAN)]
  /\ devices \in [Chatter -> SUBSET Device]

MsgInv == SocketsOK /\ RowsKept /\ said \in 0 .. MaxSaid

LEMMA MsgInvIsTyped == MsgInv => MsgTypeOK
<1> SUFFICES ASSUME MsgInv PROVE MsgTypeOK
  OBVIOUS
<1>1. \A i \in DOMAIN direct : direct[i] \in DirectRow
  BY ElementOfSeq DEF MsgInv, RowsKept
<1>2. \A i \in DOMAIN direct : direct[i].from # direct[i].to
  BY <1>1 DEF DirectRow
<1> QED
  BY <1>2 DEF MsgInv, MsgTypeOK, SocketsOK, RowsKept

(* One notification more, or one read, or one removed.                     *)
LEMMA NotifyTyped ==
  ASSUME MsgInv, NEW u \in Chatter, Notify(u)
  PROVE  notified' \in [Chatter -> Seq(BOOLEAN)]
<1>1. notified[u] \in Seq(BOOLEAN)
  BY DEF MsgInv, RowsKept
<1>2. Append(notified[u], FALSE) \in Seq(BOOLEAN)
  BY <1>1, AppendProperties
<1> QED
  BY <1>2 DEF Notify, MsgInv, RowsKept

LEMMA SocketsMsgInv ==
  ASSUME MsgInv,
         \/ \E s \in Socket : \/ Connect(s) \/ Disconnect(s) \/ CheckMember(s)
                              \/ JoinRoom(s) \/ LeaveRoom(s) \/ ChatSend(s)
         \/ \E u \in Chatter : ChangeMembership(u)
  PROVE  MsgInv'
<1>0. SocketsOK /\ RowsKept /\ said \in 0 .. MaxSaid
  BY DEF MsgInv
<1>1. UNCHANGED messageRows
  BY DEF Connect, Disconnect, CheckMember, JoinRoom, LeaveRoom, ChatSend, ChangeMembership
<1>2. RowsKept'
  BY <1>0, <1>1 DEF RowsKept, messageRows
<1>3. said' \in 0 .. MaxSaid
  BY <1>0, MessagingAssumption
     DEF Connect, Disconnect, CheckMember, JoinRoom, LeaveRoom, ChatSend, Say,
         ChangeMembership
<1>4. SocketsOK'
  <2>1. ASSUME NEW s \in Socket, Connect(s) PROVE SocketsOK'
    BY <1>0, <2>1 DEF SocketsOK, Connect
  <2>2. ASSUME NEW s \in Socket, Disconnect(s) PROVE SocketsOK'
    <3>1. <<>> \in Seq(Chatter)
      BY EmptySeq
    <3> QED
      BY <1>0, <2>2, <3>1 DEF SocketsOK, Disconnect
  <2>3. ASSUME NEW s \in Socket, CheckMember(s) PROVE SocketsOK'
    BY <1>0, <2>3 DEF SocketsOK, CheckMember
  <2>4. ASSUME NEW s \in Socket, JoinRoom(s) PROVE SocketsOK'
    BY <1>0, <2>4 DEF SocketsOK, JoinRoom
  <2>5. ASSUME NEW s \in Socket, LeaveRoom(s) PROVE SocketsOK'
    BY <1>0, <2>5 DEF SocketsOK, LeaveRoom
  <2>6. ASSUME NEW s \in Socket, ChatSend(s) PROVE SocketsOK'
    <3>1. SocketUser[s] \in Chatter
      BY MessagingAssumption
    <3>2. \A r \in Socket : Append(heard[r], SocketUser[s]) \in Seq(Chatter)
      BY <1>0, <3>1, AppendProperties DEF SocketsOK
    <3>3. heard' = [r \in Socket |-> IF "chama" \in rooms[r]
                                     THEN Append(heard[r], SocketUser[s]) ELSE heard[r]]
          /\ UNCHANGED <<insiders, rooms, joining>>
      BY <2>6 DEF ChatSend
    <3>4. heard' \in [Socket -> Seq(Chatter)]
      BY <1>0, <3>2, <3>3 DEF SocketsOK
    <3> QED
      BY <1>0, <3>3, <3>4 DEF SocketsOK
  <2>7. ASSUME NEW u \in Chatter, ChangeMembership(u) PROVE SocketsOK'
    BY <1>0, <2>7 DEF SocketsOK, ChangeMembership, socketState
  <2> QED
    BY <2>1, <2>2, <2>3, <2>4, <2>5, <2>6, <2>7
<1> QED
  BY <1>2, <1>3, <1>4 DEF MsgInv

LEMMA RowsMsgInv ==
  ASSUME MsgInv, NEW u \in Chatter,
         \/ SendMessage(u) \/ SendReminder(u) \/ MarkAllAsRead(u)
         \/ \E v \in Chatter : SendDirect(u, v) \/ MarkRead(u, v)
         \/ \E i \in DOMAIN notified[u] : MarkAsRead(u, i) \/ RemoveNotice(u, i)
         \/ \E d \in Device : RegisterDevice(u, d) \/ UnregisterDevice(u, d)
  PROVE  MsgInv'
<1>0. /\ SocketsOK /\ said \in 0 .. MaxSaid
      /\ chat \in Seq(Chatter) /\ direct \in Seq(DirectRow)
      /\ notified \in [Chatter -> Seq(BOOLEAN)] /\ notified[u] \in Seq(BOOLEAN)
      /\ devices \in [Chatter -> SUBSET Device]
  BY DEF MsgInv, RowsKept
<1>1. UNCHANGED <<insiders, socketState>>
  BY DEF SendMessage, SendReminder, MarkAllAsRead, SendDirect, MarkRead, MarkAsRead,
         RemoveNotice, RegisterDevice, UnregisterDevice
<1>2. SocketsOK'
  BY <1>0, <1>1 DEF SocketsOK, socketState
<1>3. said' \in 0 .. MaxSaid
  <2>1. Say \/ UNCHANGED said
    BY DEF SendMessage, SendReminder, MarkAllAsRead, SendDirect, MarkRead, MarkAsRead,
           RemoveNotice, RegisterDevice, UnregisterDevice
  <2> QED
    BY <1>0, <2>1, MessagingAssumption DEF Say
<1>4. RowsKept'
  <2>1. CASE SendMessage(u)
    <3>1. Append(chat, u) \in Seq(Chatter)
      BY <1>0, AppendProperties
    <3> QED
      BY <1>0, <2>1, <3>1 DEF RowsKept, SendMessage
  <2>2. CASE SendReminder(u)
    <3>1. notified' \in [Chatter -> Seq(BOOLEAN)]
      BY <2>2, NotifyTyped DEF SendReminder
    <3> QED
      BY <1>0, <2>2, <3>1 DEF RowsKept, SendReminder
  <2>3. CASE MarkAllAsRead(u)
    <3> DEFINE all == [i \in DOMAIN notified[u] |-> TRUE]
    <3>1. all \in Seq(BOOLEAN)
      <4>1. DOMAIN notified[u] = 1 .. Len(notified[u]) /\ Len(notified[u]) \in Nat
        BY <1>0, LenProperties
      <4>2. all = [i \in 1 .. Len(notified[u]) |-> TRUE]
        BY <4>1
      <4> QED
        BY <4>1, <4>2, IsASeq
    <3>2. notified' = [notified EXCEPT ![u] = all] /\ UNCHANGED <<chat, direct, devices>>
      BY <2>3 DEF MarkAllAsRead
    <3> HIDE DEF all
    <3> QED
      BY <1>0, <3>1, <3>2 DEF RowsKept
  <2>4. ASSUME NEW v \in Chatter, SendDirect(u, v) PROVE RowsKept'
    <3> DEFINE m == [from |-> u, to |-> v, read |-> FALSE]
    <3>1. m \in DirectRow
      BY <2>4 DEF DirectRow, SendDirect
    <3>2. direct' = Append(direct, m) /\ UNCHANGED <<chat, devices>>
          /\ (Notify(v) \/ UNCHANGED notified)
      BY <2>4 DEF SendDirect
    <3> HIDE DEF m
    <3>3. direct' \in Seq(DirectRow)
      BY <1>0, <3>1, <3>2, AppendProperties
    <3>4. notified' \in [Chatter -> Seq(BOOLEAN)]
      BY <1>0, <3>2, NotifyTyped
    <3> QED
      BY <1>0, <3>2, <3>3, <3>4 DEF RowsKept
  <2>5. ASSUME NEW v \in Chatter, MarkRead(u, v) PROVE RowsKept'
    <3> DEFINE R == Unread(u, v)
               row(i) == [direct[i] EXCEPT !.read = direct[i].read \/ i \in R]
    <3>1. direct' = [i \in DOMAIN direct |-> row(i)] /\ UNCHANGED <<chat, notified, devices>>
      BY <2>5 DEF MarkRead
    <3> HIDE DEF R
    <3>2. ASSUME NEW i \in DOMAIN direct PROVE row(i) \in DirectRow
      <4>1. direct[i] \in DirectRow
        BY <1>0, ElementOfSeq
      <4>2. (direct[i].read \/ i \in R) \in BOOLEAN
        OBVIOUS
      <4> DEFINE b == direct[i].read \/ i \in R
      <4> HIDE DEF b
      <4>3. [direct[i] EXCEPT !.read = b] \in DirectRow
        BY <4>1, <4>2 DEF DirectRow, b
      <4> QED
        BY <4>3 DEF b
    <3> HIDE DEF row
    <3>3. DOMAIN direct = 1 .. Len(direct) /\ Len(direct) \in Nat
      BY <1>0, LenProperties
    <3>4. direct' = [i \in 1 .. Len(direct) |-> row(i)]
          /\ \A i \in 1 .. Len(direct) : row(i) \in DirectRow
      BY <3>1, <3>2, <3>3
    <3>5. direct' \in Seq(DirectRow)
      BY <3>3, <3>4, IsASeq
    <3> QED
      BY <1>0, <3>1, <3>5 DEF RowsKept
  <2>6. ASSUME NEW i \in DOMAIN notified[u], MarkAsRead(u, i) PROVE RowsKept'
    <3> DEFINE ns == [notified[u] EXCEPT ![i] = TRUE]
    <3>1. ns \in Seq(BOOLEAN)
      BY <1>0, ExceptSeq
    <3>2. notified' = [notified EXCEPT ![u] = ns] /\ UNCHANGED <<chat, direct, devices>>
      BY <2>6 DEF MarkAsRead
    <3> HIDE DEF ns
    <3> QED
      BY <1>0, <3>1, <3>2 DEF RowsKept
  <2>7. ASSUME NEW i \in DOMAIN notified[u], RemoveNotice(u, i) PROVE RowsKept'
    <3> DEFINE ns == notified[u]
               front == SubSeq(ns, 1, i - 1)
               back  == SubSeq(ns, i + 1, Len(ns))
    <3>1. DOMAIN ns = 1 .. Len(ns) /\ Len(ns) \in Nat
      BY <1>0, LenProperties
    <3>2. front \in Seq(BOOLEAN) /\ back \in Seq(BOOLEAN)
      <4>1. /\ i \in Int /\ 1 <= i /\ i <= Len(ns) /\ ns \in Seq(BOOLEAN)
        BY <1>0, <3>1
      <4> HIDE DEF ns
      <4>2. \A k \in 1 .. (i - 1) : k \in 1 .. Len(ns)
        BY <3>1, <4>1
      <4>3. \A k \in (i + 1) .. Len(ns) : k \in 1 .. Len(ns)
        BY <3>1, <4>1
      <4> QED
        BY <3>1, <4>1, <4>2, <4>3, SubSeqProperties
    <3>3. notified' = [notified EXCEPT ![u] = front \o back]
          /\ UNCHANGED <<chat, direct, devices>>
      BY <2>7 DEF RemoveNotice
    <3> HIDE DEF front, back
    <3>4. front \o back \in Seq(BOOLEAN)
      BY <3>2, ConcatProperties
    <3> QED
      BY <1>0, <3>3, <3>4 DEF RowsKept
  <2>8. ASSUME NEW d \in Device, RegisterDevice(u, d) \/ UnregisterDevice(u, d)
        PROVE  RowsKept'
    BY <1>0, <2>8 DEF RowsKept, RegisterDevice, UnregisterDevice
  <2> QED
    BY <2>1, <2>2, <2>3, <2>4, <2>5, <2>6, <2>7, <2>8
<1> QED
  BY <1>2, <1>3, <1>4 DEF MsgInv

(* Nobody has a direct message from himself, and rooms and notifications   *)
(* keep to their types through every order of joins, sends and reads       *)
(* (websocket/index.ts, dm.service.ts, notifications.service.ts).          *)
THEOREM MsgTypeCorrect == MsgSpec => []MsgTypeOK
<1>1. MsgInit => MsgInv
  <2> SUFFICES ASSUME MsgInit PROVE MsgInv
    OBVIOUS
  <2>1. <<>> \in Seq(Chatter) /\ <<>> \in Seq(DirectRow) /\ <<>> \in Seq(BOOLEAN)
    BY EmptySeq
  <2> QED
    BY <2>1, MessagingAssumption DEF MsgInit, MsgInv, SocketsOK, RowsKept
<1>2. MsgInv /\ [MsgNext]_msgVars => MsgInv'
  <2>1. MsgInv /\ UNCHANGED msgVars => MsgInv'
    BY DEF msgVars, MsgInv, SocketsOK, RowsKept
  <2> QED
    BY <2>1, SocketsMsgInv, RowsMsgInv DEF MsgNext
<1> QED
  BY <1>1, <1>2, MsgInvIsTyped, PTL DEF MsgSpec

-------------------------------------------------------------------------------
(* Preferences.  What a request read, and is about to write.               *)

PrefRecord ==
  {PrefIdle}
    \cup [at : {"merging"}, doc : Blob, merged : [PrefField -> BOOLEAN]]
    \cup [at : {"connecting"}, provider : Provider \ OAuthProvider]
    \cup [at : {"disconnecting"}, provider : Provider]
    \cup [at : {"renumbering"}, user : Subscriber, number : PhoneNo]

PrefInv == PrefTypeOK /\ prefCall \in [PrefCall -> PrefRecord]

LEMMA PrefPlaces ==
  ASSUME NEW s \in PrefRecord
  PROVE  /\ s.at \in {"idle", "merging", "connecting", "disconnecting", "renumbering"}
         /\ s.at = "merging" => s.doc \in Blob /\ s.merged \in [PrefField -> BOOLEAN]
         /\ s.at = "connecting" => s.provider \in Provider \ OAuthProvider
         /\ s.at = "renumbering" => s.user \in Subscriber /\ s.number \in PhoneNo
BY DEF PrefRecord, PrefIdle

(* What is kept of the documents, the integrations and the phones.         *)
Kept ==
  /\ blob \in [Blob -> [PrefField -> BOOLEAN]]
  /\ secrets \subseteq Provider \ OAuthProvider
  /\ listed \subseteq Provider \ OAuthProvider
  /\ phone \in [Subscriber -> PhoneNo]
  /\ \A u, v \in Subscriber : phone[u] = phone[v] => u = v

LEMMA PrefMoves ==
  ASSUME PrefInv, NEW c \in PrefCall, NEW s \in PrefRecord, Kept',
         BeginPrefs(c, s) \/ PrefDo(c, s)
  PROVE  PrefInv'
<1>1. prefCall' = [prefCall EXCEPT ![c] = s]
  BY DEF BeginPrefs, PrefDo
<1>2. prefCall' \in [PrefCall -> PrefRecord]
  BY <1>1 DEF PrefInv
<1>3. \A d \in PrefCall : prefCall'[d] \in PrefRecord
  BY <1>2
<1>4. \A d \in PrefCall : prefCall'[d].at \in
        {"idle", "merging", "connecting", "disconnecting", "renumbering"}
  BY <1>3, PrefPlaces
<1>5. prefBegun' \in 0 .. PrefMaxBegun
  BY PrefAssumption DEF PrefInv, PrefTypeOK, BeginPrefs, PrefDo
<1> QED
  BY <1>2, <1>4, <1>5 DEF PrefInv, PrefTypeOK, Kept

LEMMA NextPrefInv == PrefInv /\ [PrefNext]_prefVars => PrefInv'
<1> SUFFICES ASSUME PrefInv, [PrefNext]_prefVars PROVE PrefInv'
  OBVIOUS
<1>0. Kept /\ prefCall \in [PrefCall -> PrefRecord] /\ PrefIdle \in PrefRecord
  BY DEF PrefInv, PrefTypeOK, Kept, PrefRecord
<1>1. ASSUME NEW c \in PrefCall, NEW k \in Blob, NEW f \in PrefField, NEW v \in BOOLEAN,
             ReadPrefs(c, k, f, v)
      PROVE  PrefInv'
  <2>1. UNCHANGED <<blob, secrets, listed, phone>>
    BY <1>1 DEF ReadPrefs
  <2>2. PICK found \in {blob[k], Defaults} :
          BeginPrefs(c, [at |-> "merging", doc |-> k, merged |-> [found EXCEPT ![f] = v]])
    BY <1>1 DEF ReadPrefs
  <2>3. found \in [PrefField -> BOOLEAN]
    BY <1>0 DEF Kept, Defaults
  <2> DEFINE m == [found EXCEPT ![f] = v]
  <2>4. m \in [PrefField -> BOOLEAN]
    BY <2>3
  <2> HIDE DEF m
  <2>5. [at |-> "merging", doc |-> k, merged |-> m] \in PrefRecord
    BY <2>4 DEF PrefRecord
  <2>6. Kept'
    BY <1>0, <2>1 DEF Kept
  <2>7. BeginPrefs(c, [at |-> "merging", doc |-> k, merged |-> m])
    BY <2>2 DEF m
  <2> QED
    BY <2>5, <2>6, <2>7, PrefMoves
<1>2. ASSUME NEW c \in PrefCall, WritePrefs(c) PROVE PrefInv'
  <2>1. prefCall[c].doc \in Blob /\ prefCall[c].merged \in [PrefField -> BOOLEAN]
    BY <1>0, <1>2, PrefPlaces DEF WritePrefs
  <2>2. /\ blob' = [blob EXCEPT ![prefCall[c].doc] = prefCall[c].merged]
        /\ PrefDo(c, PrefIdle) /\ UNCHANGED <<secrets, listed, phone>>
    BY <1>2 DEF WritePrefs
  <2>3. Kept'
    BY <1>0, <2>1, <2>2 DEF Kept
  <2> QED
    BY <1>0, <2>2, <2>3, PrefMoves
<1>3. ASSUME NEW c \in PrefCall, NEW p \in Provider, StoreSecret(c, p) PROVE PrefInv'
  <2>1. [at |-> "connecting", provider |-> p] \in PrefRecord
    BY <1>3 DEF StoreSecret, PrefRecord
  <2>2. Kept'
    BY <1>0, <1>3 DEF Kept, StoreSecret
  <2>3. BeginPrefs(c, [at |-> "connecting", provider |-> p])
    BY <1>3 DEF StoreSecret
  <2> QED
    BY <2>1, <2>2, <2>3, PrefMoves
<1>4. ASSUME NEW c \in PrefCall, NEW p \in Provider, DeleteSecret(c, p) PROVE PrefInv'
  <2>1. [at |-> "disconnecting", provider |-> p] \in PrefRecord
    BY DEF PrefRecord
  <2>2. Kept'
    BY <1>0, <1>4 DEF Kept, DeleteSecret
  <2>3. BeginPrefs(c, [at |-> "disconnecting", provider |-> p])
    BY <1>4 DEF DeleteSecret
  <2> QED
    BY <2>1, <2>2, <2>3, PrefMoves
<1>5. ASSUME NEW c \in PrefCall, IndexProvider(c) \/ UnindexProvider(c) \/ PrefCallDies(c)
      PROVE  PrefInv'
  <2>1. prefCall[c].at = "connecting" => prefCall[c].provider \in Provider \ OAuthProvider
    BY <1>0, PrefPlaces
  <2>2. Kept' /\ PrefDo(c, PrefIdle)
    BY <1>0, <1>5, <2>1 DEF Kept, IndexProvider, UnindexProvider, PrefCallDies
  <2> QED
    BY <1>0, <2>2, PrefMoves
<1>6. ASSUME NEW c \in PrefCall, NEW u \in Subscriber, NEW n \in PhoneNo, CheckPhone(c, u, n)
      PROVE  PrefInv'
  <2>1. [at |-> "renumbering", user |-> u, number |-> n] \in PrefRecord
    BY DEF PrefRecord
  <2>2. Kept'
    BY <1>0, <1>6 DEF Kept, CheckPhone
  <2>3. BeginPrefs(c, [at |-> "renumbering", user |-> u, number |-> n])
    BY <1>6 DEF CheckPhone
  <2> QED
    BY <2>1, <2>2, <2>3, PrefMoves
<1>7. ASSUME NEW c \in PrefCall, WritePhone(c) PROVE PrefInv'
  <2> DEFINE u == prefCall[c].user
             n == prefCall[c].number
  <2>1. u \in Subscriber /\ n \in PhoneNo
    BY <1>0, <1>7, PrefPlaces DEF WritePhone
  <2>2. /\ phone' = IF \E v \in Subscriber \ {u} : phone[v] = n
                    THEN phone ELSE [phone EXCEPT ![u] = n]
        /\ PrefDo(c, PrefIdle) /\ UNCHANGED <<blob, secrets, listed>>
    BY <1>7 DEF WritePhone
  <2> HIDE DEF u, n
  <2>3. phone \in [Subscriber -> PhoneNo]
        /\ \A v, w \in Subscriber : phone[v] = phone[w] => v = w
    BY <1>0 DEF Kept
  <2>4. phone' \in [Subscriber -> PhoneNo]
        /\ \A v, w \in Subscriber : phone'[v] = phone'[w] => v = w
    <3>1. CASE \E v \in Subscriber \ {u} : phone[v] = n
      BY <2>2, <2>3, <3>1
    <3>2. CASE \A v \in Subscriber \ {u} : phone[v] # n
      BY <2>1, <2>2, <2>3, <3>2
    <3> QED
      BY <3>1, <3>2
  <2>5. Kept'
    BY <1>0, <2>2, <2>4 DEF Kept
  <2> QED
    BY <1>0, <2>2, <2>5, PrefMoves
<1>8. CASE UNCHANGED prefVars
  BY <1>8 DEF prefVars, PrefInv, PrefTypeOK
<1> QED
  BY <1>1, <1>2, <1>3, <1>4, <1>5, <1>6, <1>7, <1>8 DEF PrefNext

(* No two users hold one phone number, whatever two requests found free    *)
(* before they wrote, and no integration that asks for a redirect is ever  *)
(* connected (users.service.ts, integrations.service.ts).                  *)
THEOREM PrefTypeCorrect == PrefSpec => []PrefTypeOK
<1>1. PrefInit => PrefInv
  BY PrefAssumption DEF PrefInit, PrefInv, PrefTypeOK, PrefRecord, PrefIdle, Defaults
<1>2. PrefInv => PrefTypeOK
  BY DEF PrefInv
<1> QED
  BY <1>1, <1>2, NextPrefInv, PTL DEF PrefSpec

-------------------------------------------------------------------------------
(* The passport.  The score is computed from whole numbers, and so within  *)
(* its bounds; what is cached and signed is a score of the past.           *)

ScoreRange == ScoreFloor .. ScoreCeiling

(* The loans that count are finitely many, each repaid in tenths.          *)
LEMMA LoansCounted ==
  ASSUME NEW s \in Standing, NEW states
  PROVE  /\ IsFiniteSet(LoansIn(s, states)) /\ Cardinality(LoansIn(s, states)) \in Nat
         /\ \A i \in LoansIn(s, states) : Repaid(s.loans[i]) \in Int
<1>1. s.loans \in Seq([status : STRING, paid : Nat, pastDue : BOOLEAN])
  BY PassportAssumption
<1>2. DOMAIN s.loans = 1 .. Len(s.loans) /\ Len(s.loans) \in Nat
  BY <1>1, LenProperties
<1>3. IsFiniteSet(LoansIn(s, states))
  <2>1. IsFiniteSet(1 .. Len(s.loans))
    BY <1>2, FS_Interval
  <2> QED
    BY <1>2, <2>1, FS_Subset DEF LoansIn
<1>4. ASSUME NEW i \in LoansIn(s, states) PROVE Repaid(s.loans[i]) \in Int
  <2>1. s.loans[i] \in [status : STRING, paid : Nat, pastDue : BOOLEAN]
    <3>1. i \in DOMAIN s.loans
      BY DEF LoansIn
    <3> DEFINE ls == s.loans
               R  == [status : STRING, paid : Nat, pastDue : BOOLEAN]
    <3>2. ls \in Seq(R) /\ i \in 1 .. Len(ls)
      BY <1>1, <1>2, <3>1
    <3> HIDE DEF ls, R
    <3>3. ls[i] \in R
      BY <3>2, ElementOfSeq
    <3> QED
      BY <3>3 DEF ls, R
  <2>2. s.loans[i].paid \in Nat
    BY <2>1
  <2> DEFINE n == s.loans[i].paid
  <2>3. Repaid(s.loans[i]) \in {Most(0, n - 3), Least(10, n)}
    BY DEF Repaid
  <2> HIDE DEF n
  <2>4. n \in Nat
    BY <2>2 DEF n
  <2> QED
    BY <2>3, <2>4 DEF Most, Least
<1> QED
  BY <1>3, <1>4, FS_CardinalityType

LEMMA OnTimeTyped ==
  ASSUME NEW s \in Standing
  PROVE  OnTime(s) \in Int
<1> DEFINE counted == LoansIn(s, {"completed", "active"})
           n == Cardinality(counted)
           w == [i \in counted |-> Repaid(s.loans[i])]
           tenths == SumFunctionOnSet(w, counted)
<1>1. IsFiniteSet(counted) /\ n \in Nat /\ \A i \in counted : w[i] \in Int
  BY LoansCounted
<1>2. OnTime(s) = IF n = 0 THEN 200 ELSE (40 * tenths + n) \div (2 * n)
  BY DEF OnTime
<1> HIDE DEF counted, w
<1>3. tenths \in Int
  BY <1>1, SumInt DEF Numbers
<1> HIDE DEF n, tenths
<1>4. CASE n # 0
  <2> DEFINE a == 40 * tenths + n
             d == 2 * n
  <2>1. a \in Int /\ d \in Nat /\ d > 0
    BY <1>1, <1>3, <1>4
  <2> HIDE DEF a, d
  <2>2. a \div d \in Int
    BY <2>1
  <2> QED
    BY <1>2, <1>4, <2>2 DEF a, d
<1> QED
  BY <1>2, <1>4

(* The score is within its bounds.                                         *)
LEMMA ScoreTyped ==
  ASSUME NEW s \in Standing
  PROVE  ScoreOf(s) \in ScoreRange
<1> DEFINE bad == Cardinality(LoansIn(s, {"defaulted"}))
           raw == ScoreFloor + Least(s.streak, 24) * 8 + OnTime(s) + Least(3, s.tier) * 40
                    + Least(s.groups, 8) * 15 + Least(s.years, 5) * 20
                    - s.reports * 60 - bad * 80
<1>1. /\ s.streak \in Nat /\ s.groups \in Nat /\ s.years \in Nat
      /\ s.tier \in Nat /\ s.reports \in Nat
  BY PassportAssumption
<1>2. bad \in Nat
  BY LoansCounted
<1>3. OnTime(s) \in Int
  BY OnTimeTyped
<1>4. /\ Least(s.streak, 24) \in Int /\ Least(3, s.tier) \in Int
      /\ Least(s.groups, 8) \in Int /\ Least(s.years, 5) \in Int
  BY <1>1 DEF Least
<1> HIDE DEF bad
<1>5. raw \in Int
  BY <1>1, <1>2, <1>3, <1>4 DEF ScoreFloor
<1>6. ScoreOf(s) = Most(ScoreFloor, Least(ScoreCeiling, raw))
  BY DEF ScoreOf, bad
<1> HIDE DEF raw
<1> QED
  BY <1>5, <1>6 DEF Most, Least, ScoreRange, ScoreFloor, ScoreCeiling

-------------------------------------------------------------------------------
ScoreRecord ==
  {[at |-> "idle"]} \cup [at : {"storing"}, score : ScoreRange, sign : BOOLEAN]

CredentialOK(v) ==
  CASE v.kind = "score" -> v.score \in ScoreRange /\ v.band = Band(v.score)
    [] v.kind = "kyc"   -> v.tier \in {s.tier : s \in Standing}
    [] OTHER            -> v = [kind |-> "member"]

PassInv ==
  /\ standing \in Standing
  /\ cachedScore \in {0} \cup ScoreRange
  /\ \A v \in credentials : CredentialOK(v)
  /\ scoreCall \in [ScoreCall -> ScoreRecord]

LEMMA PassInvIsTyped == PassInv => PassTypeOK
<1> SUFFICES ASSUME PassInv PROVE PassTypeOK
  OBVIOUS
<1>1. \A c \in ScoreCall : scoreCall[c].at \in {"idle", "storing"}
  <2>1. \A r \in ScoreRecord : r.at \in {"idle", "storing"}
    BY DEF ScoreRecord
  <2>2. \A c \in ScoreCall : scoreCall[c] \in ScoreRecord
    BY DEF PassInv
  <2> QED
    BY <2>1, <2>2
<1> QED
  BY <1>1 DEF PassInv, PassTypeOK, CredentialOK, ScoreRange

(* What is signed.                                                         *)
LEMMA SignedTyped ==
  /\ \A n \in ScoreRange : CredentialOK(ScoreVc(n))
  /\ CredentialOK([kind |-> "member"])
  /\ \A s \in Standing : CredentialOK([kind |-> "kyc", tier |-> s.tier])
BY DEF CredentialOK, ScoreVc

LEMMA SignInv ==
  ASSUME \A v \in credentials : CredentialOK(v), NEW v, CredentialOK(v), Sign(v)
  PROVE  \A u \in credentials' : CredentialOK(u)
BY DEF Sign

LEMMA NextPassInv == PassInv /\ [PassNext]_passVars => PassInv'
<1> SUFFICES ASSUME PassInv, [PassNext]_passVars PROVE PassInv'
  OBVIOUS
<1>0. /\ standing \in Standing /\ cachedScore \in {0} \cup ScoreRange
      /\ \A v \in credentials : CredentialOK(v)
      /\ scoreCall \in [ScoreCall -> ScoreRecord] /\ [at |-> "idle"] \in ScoreRecord
  BY DEF PassInv, ScoreRecord
<1>1. ASSUME standing' \in Standing, cachedScore' \in {0} \cup ScoreRange,
             \A v \in credentials' : CredentialOK(v),
             scoreCall' \in [ScoreCall -> ScoreRecord]
      PROVE  PassInv'
  BY <1>1 DEF PassInv
<1>2. CASE StandingChanges
  BY <1>0, <1>1, <1>2 DEF StandingChanges
<1>3. CASE IssueOverCache
  <2>1. cachedScore \in ScoreRange
    BY <1>0, <1>3 DEF IssueOverCache
  <2>2. CredentialOK(ScoreVc(cachedScore))
    BY <2>1, SignedTyped
  <2>3. Sign(ScoreVc(cachedScore)) /\ UNCHANGED <<standing, cachedScore, scoreCall>>
    BY <1>3 DEF IssueOverCache
  <2>4. \A u \in credentials' : CredentialOK(u)
    BY <1>0, <2>2, <2>3, SignInv
  <2> QED
    BY <1>0, <1>1, <2>3, <2>4
<1>4. CASE CacheExpires
  BY <1>0, <1>1, <1>4 DEF CacheExpires
<1>5. CASE IssueMembership
  <2>1. \A u \in credentials' : CredentialOK(u)
    BY <1>0, <1>5, SignedTyped, SignInv DEF IssueMembership
  <2> QED
    BY <1>0, <1>1, <1>5, <2>1 DEF IssueMembership
<1>6. CASE IssueKyc
  <2>1. \A u \in credentials' : CredentialOK(u)
    BY <1>0, <1>6, SignedTyped, SignInv DEF IssueKyc
  <2> QED
    BY <1>0, <1>1, <1>6, <2>1 DEF IssueKyc
<1>7. ASSUME NEW c \in ScoreCall, NEW again \in BOOLEAN, ComputeScore(c, again)
      PROVE  PassInv'
  <2> DEFINE n == ScoreOf(standing)
  <2>1. n \in ScoreRange
    BY <1>0, ScoreTyped
  <2> HIDE DEF n
  <2>2. PICK sign \in {FALSE} \cup {HasKey /\ ~ again} :
          scoreCall' = [scoreCall EXCEPT ![c] = [at |-> "storing", score |-> n, sign |-> sign]]
    BY <1>7 DEF ComputeScore, n
  <2>3. sign \in BOOLEAN
    BY Zenon, PassportAssumption
  <2>4. [at |-> "storing", score |-> n, sign |-> sign] \in ScoreRecord
    BY <2>1, <2>3 DEF ScoreRecord
  <2>5. scoreCall' \in [ScoreCall -> ScoreRecord]
    BY <1>0, <2>2, <2>4
  <2> QED
    BY <1>0, <1>1, <1>7, <2>5 DEF ComputeScore
<1>8. ASSUME NEW c \in ScoreCall, StoreScore(c) PROVE PassInv'
  <2> DEFINE n == scoreCall[c].score
  <2>1. n \in ScoreRange
    BY <1>0, <1>8 DEF StoreScore, ScoreRecord
  <2>2. /\ cachedScore' \in {cachedScore, n}
        /\ Sign(ScoreVc(n)) \/ UNCHANGED credentials
        /\ scoreCall' = [scoreCall EXCEPT ![c] = [at |-> "idle"]]
        /\ UNCHANGED standing
    BY <1>8 DEF StoreScore
  <2> HIDE DEF n
  <2>3. \A u \in credentials' : CredentialOK(u)
    BY <1>0, <2>1, <2>2, SignedTyped, SignInv
  <2>4. scoreCall' \in [ScoreCall -> ScoreRecord]
    BY <1>0, <2>2
  <2> QED
    BY <1>0, <1>1, <2>1, <2>2, <2>3, <2>4
<1>9. ASSUME NEW v, CredentialExpires(v) PROVE PassInv'
  BY <1>0, <1>1, <1>9 DEF CredentialExpires
<1>10. CASE UNCHANGED passVars
  BY <1>0, <1>1, <1>10 DEF passVars
<1> QED
  BY <1>2, <1>3, <1>4, <1>5, <1>6, <1>7, <1>8, <1>9, <1>10 DEF PassNext

(* A score is between 300 and 950 whatever the record, and a credential    *)
(* says the band of the very score it was signed over, also when cached    *)
(* scores and signatures of several requests cross                         *)
(* (trust-score.service.ts, verifiable-credential.service.ts).             *)
THEOREM PassTypeCorrect == PassSpec => []PassTypeOK
<1>1. PassInit => PassInv
  BY DEF PassInit, PassInv, ScoreRecord
<1> QED
  BY <1>1, NextPassInv, PassInvIsTyped, PTL DEF PassSpec
===============================================================================
