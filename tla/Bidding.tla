------------------------------- MODULE Bidding --------------------------------
(***************************************************************************)
(* One bidding round for the pot of a cycle (bidding-payout.service.ts).   *)
(* The round is one JSON document in Redis with all of its bids: a bid and *)
(* the closing read it whole and write it whole, so each of them may undo  *)
(* the other.  Failed writes are swallowed.  Every await is a step, and a  *)
(* bid's time is the order in which the bids were made.  Who joined when   *)
(* is not read by the code; Senior names the members who joined first, for *)
(* the rule of seniority that its comments state.                          *)
(***************************************************************************)
EXTENDS Integers, FiniteSets, FiniteSetsExt

CONSTANTS
  Bidder,      \* members of the group; all of them may bid
  Leaver,      \* those of them that may have left it
  Senior,      \* those of them who joined before all the others
  PotKes,      \* the pot
  Bid,         \* amounts offered
  BidCall,     \* concurrent requests
  MaxBids      \* bound: bids made

ASSUME BidAssumption ==
  /\ PotKes \in Nat \ {0} /\ Bid \subseteq Nat /\ MaxBids \in Nat
  /\ Leaver \subseteq Bidder /\ Senior \subseteq Bidder /\ IsFiniteSet(Bidder)

VARIABLES
  round,       \* the document, or NoRound
  bidsMade,    \* the clock: bids made so far
  over,        \* closesAt has passed
  inGroup,     \* active members
  dividend,    \* perMemberDividendKes of the last settlement, -1 before
  bidCall      \* bidCall[c]: what request c is doing

bidVars == <<round, bidsMade, over, inGroup, dividend, bidCall>>

BidIdle == [at |-> "idle"]
NoRound == [status |-> "none"]
Nobody  == "nobody"

BidTypeOK ==
  /\ round = NoRound \/ /\ round.status \in {"open", "closed", "settled"}
                        /\ round.bids \subseteq [by : Bidder, kes : Bid, time : 1 .. MaxBids]
                        /\ round.winner \in Bidder \cup {Nobody}
  /\ bidsMade \in 0 .. MaxBids /\ over \in BOOLEAN
  /\ inGroup \subseteq Bidder
  /\ dividend \in -1 .. PotKes
  /\ \A c \in BidCall : bidCall[c].at \in
       {"idle", "opening", "bidding", "storing", "settling"}

BidInit ==
  /\ round = NoRound /\ bidsMade = 0 /\ over = FALSE
  /\ inGroup = Bidder /\ dividend = -1
  /\ bidCall = [c \in BidCall |-> BidIdle]

BidDo(c, s) == bidCall' = [bidCall EXCEPT ![c] = s]

-------------------------------------------------------------------------------
(* An open finds the round of the cycle or makes it, unguarded.            *)
ReadToOpen(c) ==
  /\ bidCall[c] = BidIdle /\ round = NoRound
  /\ BidDo(c, [at |-> "opening"])
  /\ UNCHANGED <<round, bidsMade, over, inGroup, dividend>>

OpenBidRound(c) ==
  /\ bidCall[c].at = "opening"
  /\ round' = [status |-> "open", bids |-> {}, winner |-> Nobody, kes |-> 0]
  /\ BidDo(c, BidIdle)
  /\ UNCHANGED <<bidsMade, over, inGroup, dividend>>

ReadToBidAnything(c, u, x) ==                  \* defect: bids over the pot
  /\ bidCall[c] = BidIdle
  /\ round.status = "open" /\ ~ over
  /\ BidDo(c, [at |-> "bidding", by |-> u, kes |-> x, doc |-> round])
  /\ UNCHANGED <<round, bidsMade, over, inGroup, dividend>>

(* submitBid: the document and its checks, the membership, the write.      *)
ReadToBid(c, u, x) ==
  /\ bidCall[c] = BidIdle
  /\ round.status = "open" /\ ~ over
  /\ x > 0 /\ x < PotKes
  /\ BidDo(c, [at |-> "bidding", by |-> u, kes |-> x, doc |-> round])
  /\ UNCHANGED <<round, bidsMade, over, inGroup, dividend>>

CheckBidderAmong(c) ==                         \* defect: the earlier bid is kept
  /\ bidCall[c].at = "bidding"
  /\ bidsMade < MaxBids
  /\ LET new == [by |-> bidCall[c].by, kes |-> bidCall[c].kes, time |-> bidsMade + 1]
     IN IF new.by \in inGroup
        THEN /\ BidDo(c, [at |-> "storing",
                          doc |-> [bidCall[c].doc EXCEPT !.bids = @ \cup {new}]])
             /\ bidsMade' = bidsMade + 1
        ELSE BidDo(c, BidIdle) /\ UNCHANGED bidsMade
  /\ UNCHANGED <<round, over, inGroup, dividend>>

(* An earlier bid of the same member is replaced.                          *)
CheckBidder(c) ==
  /\ bidCall[c].at = "bidding"
  /\ bidsMade < MaxBids
  /\ LET u == bidCall[c].by
         kept == {b \in bidCall[c].doc.bids : b.by # u}
         new == [by |-> u, kes |-> bidCall[c].kes, time |-> bidsMade + 1]
     IN IF u \in inGroup
        THEN /\ BidDo(c, [at |-> "storing",
                          doc |-> [bidCall[c].doc EXCEPT !.bids = kept \cup {new}]])
             /\ bidsMade' = bidsMade + 1
        ELSE BidDo(c, BidIdle) /\ UNCHANGED bidsMade
  /\ UNCHANGED <<round, over, inGroup, dividend>>

StoreRound(c) ==
  /\ bidCall[c].at = "storing"
  /\ round' = bidCall[c].doc
  /\ BidDo(c, BidIdle)
  /\ UNCHANGED <<bidsMade, over, inGroup, dividend>>

(* Redis fails and the failure is swallowed, or the server dies.           *)
BidCallDies(c) ==
  /\ bidCall[c] # BidIdle
  /\ BidDo(c, BidIdle)
  /\ UNCHANGED <<round, bidsMade, over, inGroup, dividend>>

(* closeBidRound, which does not wait for closesAt: the highest bid, and of*)
(* equal ones the first that was made, whoever made it.                    *)
Beats(a, b) == a.kes > b.kes \/ (a.kes = b.kes /\ a.time < b.time)

BestByTime(bids) ==                            \* defect: the first bid wins
  CHOOSE b \in bids : \A d \in bids : b.time <= d.time

Best(bids) == CHOOSE b \in bids : \A d \in bids \ {b} : Beats(b, d)

ReadRound(c) ==
  /\ bidCall[c] = BidIdle
  /\ round.status = "open"
  /\ IF round.bids = {}
     THEN BidDo(c, [at |-> "storing", doc |-> [round EXCEPT !.status = "closed"]])
     ELSE BidDo(c, [at |-> "settling", doc |-> round])
  /\ UNCHANGED <<round, bidsMade, over, inGroup, dividend>>

(* The active members are counted, the dividend computed and the document  *)
(* written in the end.                                                     *)
SettleRound(c) ==
  /\ bidCall[c].at = "settling"
  /\ LET best == Best(bidCall[c].doc.bids)
         n == Cardinality(inGroup)
     IN /\ dividend' = IF n > 1 THEN best.kes \div (n - 1) ELSE 0
        /\ BidDo(c, [at |-> "storing",
                     doc |-> [bidCall[c].doc EXCEPT !.status = "settled",
                                !.winner = best.by, !.kes = best.kes]])
  /\ UNCHANGED <<round, bidsMade, over, inGroup>>

(* The clock passes closesAt; members leave the group.                     *)
TimeIsUp ==
  /\ round # NoRound /\ ~ over
  /\ over' = TRUE
  /\ UNCHANGED <<round, bidsMade, inGroup, dividend, bidCall>>

Leave(u) ==
  /\ u \in inGroup
  /\ inGroup' = inGroup \ {u}
  /\ UNCHANGED <<round, bidsMade, over, dividend, bidCall>>

BidNext ==
  \/ \E c \in BidCall :
       \/ ReadToOpen(c) \/ OpenBidRound(c) \/ CheckBidder(c) \/ StoreRound(c)
       \/ ReadRound(c) \/ SettleRound(c) \/ BidCallDies(c)
       \/ \E u \in Bidder, x \in Bid : ReadToBid(c, u, x)
  \/ TimeIsUp
  \/ \E u \in Leaver : Leave(u)

BidSpec == BidInit /\ [][BidNext]_bidVars

-------------------------------------------------------------------------------
(* Whatever bids and closings write over each other, a settled round was   *)
(* won by a bid that stands in it, outbid by none, each member having one  *)
(* bid there, and for less than the pot (bidding-payout.service.ts:79,     *)
(* 88-92, 114-126).  Which of two equal bids wins is TieGoesToSenior's.    *)
SettledByBestBid ==
  round.status = "settled" =>
    /\ \E b \in round.bids : b.by = round.winner /\ b.kes = round.kes
    /\ \A b \in round.bids : b.kes <= round.kes
    /\ \A b, d \in round.bids : b.by = d.by => b = d
    /\ round.kes < PotKes

(* "Highest bid wins; on tie, earliest member (joinedAt) wins", and above  *)
(* "ties broken by member seniority (join date)" (bidding-payout.service   *)
(* .ts:95 and 15): no bid of a member who joined first loses to an equal   *)
(* bid of one who joined later.                                            *)
TieGoesToSenior ==
  round.status = "settled" =>
    \A b \in round.bids :
      b.by \in Senior /\ b.kes = round.kes => round.winner \in Senior
===============================================================================
