-------------------------------- MODULE Passport --------------------------------
(***************************************************************************)
(* The credit passport of one user: the trust score computed from their    *)
(* record and cached for five minutes (trust-score.service.ts), and the    *)
(* credentials signed over it, over a membership and over the KYC tier,    *)
(* good for ninety days (verifiable-credential.service.ts).  Neither is    *)
(* taken back when the record changes: nobody invalidates the cache, and   *)
(* no credential can be revoked.                                           *)
(*                                                                         *)
(* Ratios are counted in tenths and years in whole ones.                   *)
(***************************************************************************)
EXTENDS Integers, FiniteSets, Sequences, Functions

CONSTANTS
  Standing,     \* records the user may have: streak, groups, years, tier,
                \* reports, and loans, each with status, paid and pastDue
  HasKey,       \* whether a signing key is configured
  ScoreCall,    \* concurrent requests
  MaxHeld       \* bound: credentials held at a time

ASSUME PassportAssumption ==
  /\ HasKey \in BOOLEAN /\ MaxHeld \in Nat
  /\ \A s \in Standing :
       /\ {s.streak, s.groups, s.years, s.tier, s.reports} \subseteq Nat
       /\ s.loans \in Seq([status : STRING, paid : Nat, pastDue : BOOLEAN])

VARIABLES
  standing,     \* the record now
  cachedScore,       \* the cached score, 0 for none
  credentials,  \* credentials that verify: kind and what they say
  scoreCall     \* scoreCall[c]: what request c is doing

passVars == <<standing, cachedScore, credentials, scoreCall>>

Least(a, b) == IF a < b THEN a ELSE b
Most(a, b)  == IF a > b THEN a ELSE b

ScoreFloor   == 300
ScoreCeiling == 950

(* The part of a loan that was repaid, in tenths; three less when overdue. *)
Repaid(loan) ==
  IF loan.status = "active" /\ loan.pastDue /\ loan.paid < 10
  THEN Most(0, loan.paid - 3)
  ELSE Least(10, loan.paid)

LoansIn(s, states) == {i \in DOMAIN s.loans : s.loans[i].status \in states}

(* 200 times the mean over the loans that run or were completed, rounded.  *)
OnTime(s) ==
  LET counted == LoansIn(s, {"completed", "active"})
      n       == Cardinality(counted)
      tenths  == SumFunctionOnSet([i \in counted |-> Repaid(s.loans[i])], counted)
  IN IF n = 0 THEN 200 ELSE (40 * tenths + n) \div (2 * n)

ScoreOf(s) ==
  LET raw == ScoreFloor + Least(s.streak, 24) * 8 + OnTime(s) + Least(3, s.tier) * 40
               + Least(s.groups, 8) * 15 + Least(s.years, 5) * 20
               - s.reports * 60 - Cardinality(LoansIn(s, {"defaulted"})) * 80
  IN Most(ScoreFloor, Least(ScoreCeiling, raw))

Band(score) ==
  CASE score >= 850 -> "elite"
    [] score \in 700 .. 849 -> "strong"
    [] score \in 550 .. 699 -> "fair"
    [] score \in 400 .. 549 -> "building"
    [] OTHER -> "new"

PassTypeOK ==
  /\ standing \in Standing
  /\ cachedScore \in {0} \cup ScoreFloor .. ScoreCeiling
  /\ \A v \in credentials :
       CASE v.kind = "score" -> v.score \in ScoreFloor .. ScoreCeiling /\ v.band = Band(v.score)
         [] v.kind = "kyc"   -> v.tier \in {s.tier : s \in Standing}
         [] OTHER            -> v = [kind |-> "member"]
  /\ \A c \in ScoreCall : scoreCall[c].at \in {"idle", "storing"}

PassInit ==
  /\ standing \in Standing
  /\ cachedScore = 0 /\ credentials = {}
  /\ scoreCall = [c \in ScoreCall |-> [at |-> "idle"]]

(* Contributions, loans, reports and tiers change (the other modules).     *)
StandingChanges ==
  /\ standing' \in Standing \ {standing}
  /\ UNCHANGED <<cachedScore, credentials, scoreCall>>

Sign(v) ==
  /\ credentials' = credentials \cup {v}
  /\ Cardinality(credentials') <= MaxHeld

ScoreVc(score) == [kind |-> "score", score |-> score, band |-> Band(score)]

(* A cached score is the answer, to a credential too.                      *)
IssueOverCache ==
  /\ HasKey /\ cachedScore # 0
  /\ Sign(ScoreVc(cachedScore))
  /\ UNCHANGED <<standing, cachedScore, scoreCall>>

(* Without one, or when asked to refresh, the record is read and the score *)
(* computed; another request may be doing the same.                        *)
ComputeScore(c, refresh) ==
  /\ scoreCall[c].at = "idle"
  /\ refresh \/ cachedScore = 0
  /\ \E sign \in {FALSE} \cup {HasKey /\ ~ refresh} :
       scoreCall' = [scoreCall EXCEPT ![c] =
         [at |-> "storing", score |-> ScoreOf(standing), sign |-> sign]]
  /\ UNCHANGED <<standing, cachedScore, credentials>>

(* The score goes to the cache, unless Redis is out, and then to who asked.*)
StoreScore(c) ==
  /\ scoreCall[c].at = "storing"
  /\ cachedScore' \in {cachedScore, scoreCall[c].score}
  /\ IF scoreCall[c].sign THEN Sign(ScoreVc(scoreCall[c].score)) ELSE UNCHANGED credentials
  /\ scoreCall' = [scoreCall EXCEPT ![c] = [at |-> "idle"]]
  /\ UNCHANGED standing

CacheExpires ==
  /\ cachedScore # 0 /\ cachedScore' = 0
  /\ UNCHANGED <<standing, credentials, scoreCall>>

IssueMembership ==
  /\ HasKey /\ standing.groups > 0
  /\ Sign([kind |-> "member"])
  /\ UNCHANGED <<standing, cachedScore, scoreCall>>

IssueKyc ==
  /\ HasKey
  /\ Sign([kind |-> "kyc", tier |-> standing.tier])
  /\ UNCHANGED <<standing, cachedScore, scoreCall>>

CredentialExpires(v) ==
  /\ v \in credentials
  /\ credentials' = credentials \ {v}
  /\ UNCHANGED <<standing, cachedScore, scoreCall>>

PassNext ==
  \/ StandingChanges \/ IssueOverCache \/ CacheExpires \/ IssueMembership \/ IssueKyc
  \/ \E c \in ScoreCall : StoreScore(c) \/ \E refresh \in BOOLEAN : ComputeScore(c, refresh)
  \/ \E v \in credentials : CredentialExpires(v)

PassSpec == PassInit /\ [][PassNext]_passVars
===============================================================================
