-------------------------------- MODULE Watch ---------------------------------
(***************************************************************************)
(* The watch over members: the sanctions and PEP lists in Redis and the    *)
(* screening of names against them, the monitoring rules and the reports   *)
(* they open (aml.service.ts, aml.routes.ts).                              *)
(***************************************************************************)
EXTENDS Naturals, FiniteSets, Sequences

CONSTANTS
  Person,             \* users, and their names
  Source, ListedBy,   \* ListedBy[s]: the persons the source lists
  WatchCall,          \* requests in flight
  History,            \* the amounts, in thousands, a user moved of late
  MaxReports          \* bound on the reports opened

VARIABLES
  names, pep,         \* the two sets in Redis
  verdictOf,          \* verdictOf[u]: the cached screening, or none
  screened,           \* users flagged as screened
  reports,            \* reports opened: [rule, status, amounts]
  watchCall           \* watchCall[c]: where the request is

watchVars == <<names, pep, verdictOf, screened, reports, watchCall>>

ASSUME WatchAssumption == ListedBy \in [Source -> SUBSET Person]

OffDuty == [pc |-> "off"]

WatchTypeOK ==
  /\ names \subseteq Person /\ pep \subseteq Person
  /\ verdictOf \in [Person -> (SUBSET {"sanctions", "pep"}) \cup {{"unknown"}}]
  /\ screened \subseteq Person
  /\ \A i \in DOMAIN reports :
       /\ reports[i].rule \in {"R-VEL", "R-STR", "R-THR"}
       /\ reports[i].status \in {"open", "submitted", "closed_false_positive"}
  /\ \A c \in WatchCall : watchCall[c].pc \in {"off", "del", "sadd", "pep", "listed", "save"}

WatchInit ==
  /\ names       = {}
  /\ pep         = {}
  /\ verdictOf   = [u \in Person |-> {"unknown"}]
  /\ screened    = {}
  /\ reports     = <<>>
  /\ watchCall   = [c \in WatchCall |-> OffDuty]

WatchStep(c, s) == watchCall' = [watchCall EXCEPT ![c] = s]
WatchDone(c)    == WatchStep(c, OffDuty)

-------------------------------------------------------------------------------
(* refreshSanctionLists: every source is fetched, one that fails drops its *)
(* names; with the PEP names added, an empty whole leaves the list alone.  *)
FetchLists(c, answering) ==
  LET got == (UNION {ListedBy[s] : s \in answering}) \cup pep
  IN /\ watchCall[c] = OffDuty
     /\ IF got = {} THEN UNCHANGED watchCall ELSE WatchStep(c, [pc |-> "del", got |-> got])
     /\ UNCHANGED <<names, pep, verdictOf, screened, reports>>

(* The list is deleted, and then filled.                                   *)
DropList(c) ==
  /\ watchCall[c].pc = "del"
  /\ names' = {}
  /\ WatchStep(c, [pc |-> "sadd", got |-> watchCall[c].got])
  /\ UNCHANGED <<pep, verdictOf, screened, reports>>

FillList(c) ==
  /\ watchCall[c].pc = "sadd"
  /\ names' = names \cup watchCall[c].got
  /\ WatchDone(c)
  /\ UNCHANGED <<pep, verdictOf, screened, reports>>

(* importPepList, in the same two steps.                                   *)
DropPep(c, given) ==
  /\ watchCall[c] = OffDuty
  /\ pep' = {}
  /\ WatchStep(c, [pc |-> "pep", got |-> given])
  /\ UNCHANGED <<names, verdictOf, screened, reports>>

FillPep(c) ==
  /\ watchCall[c].pc = "pep"
  /\ pep' = pep \cup watchCall[c].got
  /\ WatchDone(c)
  /\ UNCHANGED <<names, verdictOf, screened, reports>>

(* screenUser: a cached verdict is returned as it is, unless an admin asks;*)
(* otherwise one list is read, then the other, and the verdict is cached.  *)
ReadSanctions(c, u, skipCache) ==
  /\ watchCall[c] = OffDuty
  /\ skipCache \/ verdictOf[u] = {"unknown"}
  /\ WatchStep(c, [pc |-> "listed", user |-> u,
                   hits |-> IF u \in names THEN {"sanctions"} ELSE {}])
  /\ UNCHANGED <<names, pep, verdictOf, screened, reports>>

ReadPep(c) ==
  LET call == watchCall[c]
  IN /\ call.pc = "listed"
     /\ WatchStep(c, [pc |-> "save", user |-> call.user,
          hits |-> call.hits \cup IF call.user \in pep THEN {"pep"} ELSE {}])
     /\ UNCHANGED <<names, pep, verdictOf, screened, reports>>

SaveVerdict(c, redisUp) ==
  LET call == watchCall[c]
  IN /\ call.pc = "save"
     /\ verdictOf' = IF redisUp THEN [verdictOf EXCEPT ![call.user] = call.hits] ELSE verdictOf
     /\ screened' = screened \cup {call.user}
     /\ WatchDone(c)
     /\ UNCHANGED <<names, pep, reports>>

(* A day later the cached verdict is gone.                                 *)
VerdictExpires(u) ==
  /\ verdictOf[u] # {"unknown"}
  /\ verdictOf' = [verdictOf EXCEPT ![u] = {"unknown"}]
  /\ UNCHANGED <<names, pep, screened, reports, watchCall>>

(* POST /kyc/screen without a key of the screening service, by any user and*)
(* of any user: the flags are written FALSE over what a screening found.   *)
ScreenedElsewhere(u) ==
  /\ screened' = screened \ {u}
  /\ UNCHANGED <<names, pep, verdictOf, reports, watchCall>>

-------------------------------------------------------------------------------
(* evaluateTransaction: more than 8 within the hour, three or more just    *)
(* below the limit that add up to it within the day, or the transaction    *)
(* itself at the limit.  The windows have no upper end: what came after the*)
(* transaction counts as well.                                             *)
SubLimit(a) == 2 * a > 999 /\ a < 999

MovedInAll(amounts) ==
  LET f[i \in 0 .. Len(amounts)] == IF i = 0 THEN 0 ELSE f[i - 1] + amounts[i] IN f[Len(amounts)]

Hits(amounts, own) ==
  (IF Len(amounts) > 8 THEN <<"R-VEL">> ELSE <<>>) \o
  (IF /\ Cardinality({i \in DOMAIN amounts : SubLimit(amounts[i])}) >= 3
      /\ MovedInAll(amounts) >= 1000
   THEN <<"R-STR">> ELSE <<>>) \o
  (IF own >= 1000 THEN <<"R-THR">> ELSE <<>>)

(* autoOpenStr: a report under the first rule hit.                         *)
OpenReport(hits, amounts) ==
  reports' = Append(reports, [rule |-> hits[1], status |-> "open", amounts |-> amounts])

(* Every evaluation opens another report, unless the insert fails, which   *)
(* nobody hears of.                                                        *)
Evaluate(amounts, i, inserted) ==
  LET hits == Hits(amounts, amounts[i])
  IN /\ Len(reports) < MaxReports
     /\ IF hits # <<>> /\ inserted THEN OpenReport(hits, amounts) ELSE UNCHANGED reports
     /\ UNCHANGED <<names, pep, verdictOf, screened, watchCall>>

(* The two routes write the status over whatever it is.                    *)
FileReport(i, status) ==
  /\ reports' = [reports EXCEPT ![i].status = status]
  /\ UNCHANGED <<names, pep, verdictOf, screened, watchCall>>

-------------------------------------------------------------------------------
WatchNext ==
  \/ \E c \in WatchCall :
       \/ \E answering \in SUBSET Source : FetchLists(c, answering)
       \/ DropList(c) \/ FillList(c) \/ FillPep(c) \/ ReadPep(c)
       \/ \E given \in SUBSET Person : DropPep(c, given)
       \/ \E u \in Person, skip \in BOOLEAN : ReadSanctions(c, u, skip)
       \/ \E redisUp \in BOOLEAN : SaveVerdict(c, redisUp)
  \/ \E u \in Person : VerdictExpires(u) \/ ScreenedElsewhere(u)
  \/ \E h \in History, inserted \in BOOLEAN : \E i \in DOMAIN h : Evaluate(h, i, inserted)
  \/ \E i \in DOMAIN reports, s \in {"submitted", "closed_false_positive"} : FileReport(i, s)

WatchSpec == WatchInit /\ [][WatchNext]_watchVars
===============================================================================
