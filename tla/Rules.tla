-------------------------------- MODULE Rules ---------------------------------
(***************************************************************************)
(* The bylaws of a group (rule-engine.service.ts, rule-enforcer.ts and the *)
(* rules controller): versions published into a hash chain by transactions *)
(* that overlap, and the evaluator the services consult before they act.   *)
(*                                                                         *)
(* publish asks for the permission manage_settings and a well-formed       *)
(* document only: no route calls the guard of rule-guard.service.ts, so the*)
(* signatures in a version are what its author wrote there.                *)
(*                                                                         *)
(* A document keeps the fields the evaluator reads, with a neutral value   *)
(* for one that is left out (0, 120, "any", an empty rotation); a context  *)
(* has Unknown for what its caller does not say, and a place or an employer*)
(* in it is the set of the names that its text includes, itself among them.*)
(* sha256 is injective here: the hash of a version is the whole chain up to*)
(* it.                                                                     *)
(***************************************************************************)
EXTENDS Integers, Sequences, FiniteSets

CONSTANTS
  RuleDoc,       \* documents, already validated by ruleDocSchema
  Publisher,     \* users with the permission
  Hook,          \* hooks: [point, and the fields its callers pass]
  Enforcing,     \* FEATURE_RULE_ENGINE_ENFORCE
  MaxVersions    \* bounds the number of versions

(* ruleDocSchema, as far as the evaluator reads the document.              *)
WellFormed(doc) ==
  /\ doc.minAge \in 0 .. 120 /\ doc.maxAge \in 0 .. 120 /\ doc.sponsors \in 0 .. 20
  /\ doc.gender \in {"any", "male", "female"} /\ doc.deposit \in Nat
  /\ doc.location \in STRING /\ doc.employer \in STRING
  /\ doc.monthly \in BOOLEAN /\ doc.dueDay \in 1 .. 31 /\ doc.graceDays \in 0 .. 60
  /\ doc.amount \in Nat \ {0} /\ doc.quorumPct \in 0 .. 100
  /\ doc.noManualExit \in BOOLEAN
  /\ doc.order \in {"rotational", "by_need", "by_vote", "lump_sum_at_term"}

(* HookContext: the kinds of the contexts.                                 *)
HookPoints == {"member_apply", "contribution_received", "loan_request", "vote_cast",
               "exit_request", "payout_initiate"}

ASSUME RulesAssumption ==
  /\ Enforcing \in BOOLEAN /\ MaxVersions \in Nat \ {0}
  /\ \A doc \in RuleDoc : WellFormed(doc)
  /\ \A x \in Hook : x.point \in HookPoints

VARIABLES
  chain,         \* the rows, by version: doc, creator, prevHash, hash, active
  publishing,    \* publishing[p]: the version p's transaction read as current
  answer         \* what the last consultation of the evaluator led to

ruleVars == <<chain, publishing, answer>>

Unknown == -1

NotPublishing == -1

RuleTypeOK ==
  /\ \A v \in DOMAIN chain :
       /\ chain[v].doc \in RuleDoc /\ chain[v].creator \in Publisher
       /\ chain[v].active \in BOOLEAN
  /\ Len(chain) <= MaxVersions
  /\ publishing \in [Publisher -> NotPublishing .. MaxVersions]
  /\ answer \in {"none", "pass", "warn", "refuse"}

RuleInit ==
  /\ chain      = <<>>
  /\ publishing = [p \in Publisher |-> NotPublishing]
  /\ answer     = "none"

-------------------------------------------------------------------------------
(* The evaluator.  Each hook yields the set of its violations.             *)

(* A name the bylaws ask for is missing from the one that was said.        *)
Misses(wanted, said) == wanted # "any" /\ said # {} /\ wanted \notin said

MemberApplyViolations(doc, x) ==
  {v \in {"AGE_TOO_LOW", "AGE_TOO_HIGH", "GENDER", "LOCATION", "EMPLOYER", "SPONSORS",
           "DEPOSIT"} :
     \/ v = "AGE_TOO_LOW"  /\ x.age # Unknown /\ x.age < doc.minAge
     \/ v = "AGE_TOO_HIGH" /\ x.age # Unknown /\ x.age > doc.maxAge
     \/ v = "GENDER"   /\ x.gender # "unsaid" /\ doc.gender \notin {"any", x.gender}
     \/ v = "LOCATION" /\ Misses(doc.location, x.location)
     \/ v = "EMPLOYER" /\ Misses(doc.employer, x.employer)
     \/ v = "SPONSORS" /\ x.sponsors < doc.sponsors
     \/ v = "DEPOSIT"  /\ doc.deposit > 0 /\ ~ x.paid /\ ~ x.queued}

(* Late is told by the day of the month alone, and only for a monthly rule.*)
IsLate(doc, day) == doc.monthly /\ day > doc.dueDay + doc.graceDays

ContributionViolations(doc, x) ==
  {v \in {"BELOW_MIN", "LATE"} :
     \/ v = "BELOW_MIN" /\ x.amount # Unknown /\ x.amount < doc.amount
     \/ v = "LATE" /\ IsLate(doc, x.day)}

(* Loan requests pass; the schema has no rule for them.                    *)
LoanViolations(doc, x) == {}

(* Quorum, when the caller says that the vote closes.                      *)
VoteViolations(doc, x) ==
  IF x.closing /\ x.eligible > 0 /\ 100 * x.cast < doc.quorumPct * x.eligible
  THEN {"QUORUM_NOT_MET"} ELSE {}

ExitViolations(doc, x) ==
  IF doc.noManualExit /\ x.manual THEN {"MANUAL_EXIT"} ELSE {}

(* The member whose turn the cycle is, in a rotation.                      *)
TurnOf(doc, cycle) == doc.rotation[(cycle % Len(doc.rotation)) + 1]

OrderViolations(doc, x) ==
  CASE doc.order = "rotational" ->
         IF x.cycle >= 0 /\ doc.rotation # <<>> /\ TurnOf(doc, x.cycle) # x.recipient
         THEN {"OUT_OF_ORDER"} ELSE {}
    [] doc.order = "by_vote" -> IF x.votePassed THEN {} ELSE {"VOTE_REQUIRED"}
    [] OTHER -> {}

(* The pool is chama.totalFunds; nothing is checked when it cannot be read.*)
PoolViolations(x) ==
  IF x.amount > 0 /\ x.pool # Unknown /\ x.pool < x.amount
  THEN {"INSUFFICIENT_POOL"} ELSE {}

Violations(doc, x) ==
  CASE x.point = "member_apply"          -> MemberApplyViolations(doc, x)
    [] x.point = "contribution_received" -> ContributionViolations(doc, x)
    [] x.point = "loan_request"          -> LoanViolations(doc, x)
    [] x.point = "vote_cast"             -> VoteViolations(doc, x)
    [] x.point = "exit_request"          -> ExitViolations(doc, x)
    [] x.point = "payout_initiate"       -> OrderViolations(doc, x) \cup PoolViolations(x)

(* activeRule: the highest version that is not superseded; 0 for none.     *)
ActiveVersion ==
  IF \E v \in DOMAIN chain : chain[v].active
  THEN CHOOSE v \in DOMAIN chain :
         chain[v].active /\ \A w \in DOMAIN chain : chain[w].active => w <= v
  ELSE 0

(* evaluate: everything is allowed without bylaws.                         *)
Allowed(x) ==
  ActiveVersion = 0 \/ Violations(chain[ActiveVersion].doc, x) = {}

-------------------------------------------------------------------------------
(* enforceRule: refuses only when the flag is set, warns in shadow mode, and*)
(* lets everything pass when the evaluation itself fails.                  *)
EnforceRule(x) ==
  /\ answer' = IF Allowed(x) THEN "pass" ELSE IF Enforcing THEN "refuse" ELSE "warn"
  /\ UNCHANGED <<chain, publishing>>

EvaluationFails ==
  /\ answer' = "pass"
  /\ UNCHANGED <<chain, publishing>>

(* publishRuleVersion, a transaction: the active version is read,          *)
BeginPublish(p) ==
  /\ publishing[p] = NotPublishing
  /\ ActiveVersion < MaxVersions
  /\ publishing' = [publishing EXCEPT ![p] = ActiveVersion]
  /\ UNCHANGED <<chain, answer>>

Genesis == <<>>

ComputeHash(prevHash, doc, creator) == Append(prevHash, <<doc, creator>>)

(* The row of the next version, hashed over its predecessor's hash.        *)
NextRow(p, doc) ==
  LET prev == IF publishing[p] = 0 THEN Genesis ELSE chain[publishing[p]].hash
  IN [doc |-> doc, creator |-> p, prevHash |-> prev,
      hash |-> ComputeHash(prev, doc, p), active |-> TRUE]

CommitPublishAnyway(p, doc) ==                 \* defect: the version is not unique
  /\ publishing[p] # NotPublishing
  /\ Len(chain) < MaxVersions
  /\ chain' = Append([w \in DOMAIN chain |->
                        [chain[w] EXCEPT !.active = @ /\ w # publishing[p]]],
                     NextRow(p, doc))
  /\ publishing' = [publishing EXCEPT ![p] = NotPublishing]
  /\ UNCHANGED answer

(* then superseded, and the next version inserted; the version is unique,  *)
(* and the transaction that comes second rolls back whole.                 *)
CommitPublish(p, doc) ==
  /\ publishing[p] # NotPublishing
  /\ LET v == publishing[p] + 1
     IN chain' = IF v \in DOMAIN chain THEN chain
                 ELSE Append([w \in DOMAIN chain |->
                                [chain[w] EXCEPT !.active = @ /\ w # publishing[p]]],
                             NextRow(p, doc))
  /\ publishing' = [publishing EXCEPT ![p] = NotPublishing]
  /\ UNCHANGED answer

RuleNext ==
  \/ \E x \in Hook : EnforceRule(x)
  \/ EvaluationFails
  \/ \E p \in Publisher :
       \/ BeginPublish(p)
       \/ \E doc \in RuleDoc : CommitPublish(p, doc)

RuleSpec == RuleInit /\ [][RuleNext]_ruleVars

-------------------------------------------------------------------------------
(* The versions form one chain whose last link alone is in force, however  *)
(* publications overlap: each row carries its predecessor's hash, its own  *)
(* covers it, and the latest is the one that is active                     *)
(* (rule-engine.service.ts:165-205).                                       *)
ChainUnbroken ==
  \A v \in DOMAIN chain :
    /\ chain[v].prevHash = (IF v = 1 THEN Genesis ELSE chain[v - 1].hash)
    /\ chain[v].hash = ComputeHash(chain[v].prevHash, chain[v].doc, chain[v].creator)
    /\ chain[v].active <=> v = Len(chain)
===============================================================================
