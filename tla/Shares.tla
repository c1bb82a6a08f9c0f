-------------------------------- MODULE Shares --------------------------------
(***************************************************************************)
(* Share offerings, the cap table and dividends (share-offering.service.ts)*)
(* and the public links investors come through (shareable-link.service.ts, *)
(* public.routes.ts).  Offerings, holdings and links are JSON documents in *)
(* Redis: every change reads a whole document and writes a whole document  *)
(* back, with nothing to notice a change in between.                       *)
(*                                                                         *)
(* The routes confirm no holding: confirmHolding is exported for the       *)
(* payment callback, which does not call it.  It is modelled as called     *)
(* once or more per holding.  PayoutRequests go on in Payouts.tla.         *)
(***************************************************************************)
EXTENDS Integers, FiniteSets, Functions

CONSTANTS
  Offering,    \* offering ids
  TotalShares, \* shares of an offering
  Price,       \* pricePerShareKes
  MinInvest,   \* minInvestmentKes, or 0
  MaxInvest,   \* maxInvestmentKes, or 0
  Holding,     \* holding ids
  InvestorOf,  \* InvestorOf[h]: who makes holding h
  Anonymous,   \* investors without an account
  Investment,  \* amounts invested
  Pot,         \* dividends
  Signatures,  \* signatures asked for by an execution
  ShareCall,   \* concurrent requests
  MaxSold,     \* bound: shares counted as sold before a further confirmation
  MaxPayouts   \* bound: PayoutRequests made

ASSUME ShareAssumption ==
  /\ TotalShares \in Nat \ {0} /\ Price \in Nat \ {0}
  /\ MinInvest \in Nat /\ MaxInvest \in Nat
  /\ MaxSold \in Nat /\ MaxPayouts \in Nat
  /\ IsFiniteSet(Holding) /\ DOMAIN InvestorOf = Holding
  /\ Investment \subseteq Nat \ {0} /\ Pot \subseteq Nat \ {0}
  /\ Signatures \subseteq 1 .. 5

VARIABLES
  offering,    \* offering[o]: [sold, status], status "none" before it is there
  holding,     \* holding[h]: [offering, amount, shares, status]
  indexed,     \* holdings in the group's index, where the cap table looks
  linked,      \* whether a public link lets investors in
  payouts,     \* PayoutRequests: [n, to, cents, status]
  queued,      \* those enqueued as dividend-payout jobs
  shareCall    \* shareCall[c]: what request c is doing

shareVars == <<offering, holding, indexed, linked, payouts, queued, shareCall>>

ShareIdle == [at |-> "idle"]
NoHolding == [status |-> "none"]

Investor == {InvestorOf[h] : h \in Holding}

ShareTypeOK ==
  /\ offering \in [Offering -> [sold : Nat, status : {"none", "open", "closed"}]]
  /\ \A h \in Holding : \/ holding[h] = NoHolding
                        \/ /\ holding[h].offering \in Offering
                           /\ holding[h].shares \in 0 .. TotalShares
                           /\ holding[h].status \in {"pending", "confirmed"}
  /\ indexed \subseteq Holding /\ linked \in BOOLEAN
  /\ payouts \subseteq [n : 1 .. MaxPayouts, to : Investor \ Anonymous, cents : Nat,
                        status : {"pending", "awaiting_signatures"}]
  /\ queued \subseteq payouts
  /\ \A c \in ShareCall : shareCall[c].at \in
       {"idle", "closing", "confirming", "selling", "adding", "indexing", "paying",
        "queueing"}

ShareInit ==
  /\ offering  = [o \in Offering |-> [sold |-> 0, status |-> "none"]]
  /\ holding   = [h \in Holding |-> NoHolding]
  /\ indexed   = {} /\ linked = FALSE
  /\ payouts   = {} /\ queued = {}
  /\ shareCall = [c \in ShareCall |-> ShareIdle]

ShareDo(c, s) == shareCall' = [shareCall EXCEPT ![c] = s]

-------------------------------------------------------------------------------
CreateOffering(o) ==
  /\ offering[o].status = "none"
  /\ offering' = [offering EXCEPT ![o].status = "open"]
  /\ UNCHANGED <<holding, indexed, linked, payouts, queued, shareCall>>

ReadToCloseOffering(c, o) ==
  /\ shareCall[c] = ShareIdle
  /\ offering[o].status # "none"
  /\ ShareDo(c, [at |-> "closing", offering |-> o, doc |-> offering[o]])
  /\ UNCHANGED <<offering, holding, indexed, linked, payouts, queued>>

CloseOffering(c) ==
  /\ shareCall[c].at = "closing"
  /\ offering' = [offering EXCEPT
       ![shareCall[c].offering] = [shareCall[c].doc EXCEPT !.status = "closed"]]
  /\ ShareDo(c, ShareIdle)
  /\ UNCHANGED <<holding, indexed, linked, payouts, queued>>

(* An officer publishes a link; disabled, or past its time, it lets nobody *)
(* in.                                                                     *)
CreateLink ==
  /\ ~ linked
  /\ linked' = TRUE
  /\ UNCHANGED <<offering, holding, indexed, payouts, queued, shareCall>>

DisableLink ==
  /\ linked
  /\ linked' = FALSE
  /\ UNCHANGED <<offering, holding, indexed, payouts, queued, shareCall>>

(* invest: whole shares, no more than the document says are left.          *)
Invest(c, o, h, x) ==
  /\ shareCall[c] = ShareIdle
  /\ holding[h] = NoHolding
  /\ \A d \in ShareCall : shareCall[d].at = "adding" => shareCall[d].holding # h
  /\ offering[o].status = "open"
  /\ MinInvest # 0 => x >= MinInvest
  /\ MaxInvest # 0 => x <= MaxInvest
  /\ x \div Price <= TotalShares - offering[o].sold
  /\ ShareDo(c, [at |-> "adding", holding |-> h,
                 row |-> [offering |-> o, amount |-> x, shares |-> x \div Price,
                          status |-> "pending"]])
  /\ UNCHANGED <<offering, holding, indexed, linked, payouts, queued>>

(* The route.  The offering is the one in the body, whatever group the link*)
(* belongs to; the push that follows the holding leads to nothing here.    *)
InvestByLink(c, o, h, x) == linked /\ Invest(c, o, h, x)

(* The document first; then its indices, of which the offering's own is    *)
(* read by nobody and the group's by the cap table.                        *)
AddHolding(c) ==
  /\ shareCall[c].at = "adding"
  /\ holding' = [holding EXCEPT ![shareCall[c].holding] = shareCall[c].row]
  /\ ShareDo(c, [at |-> "indexing", holding |-> shareCall[c].holding])
  /\ UNCHANGED <<offering, indexed, linked, payouts, queued>>

IndexHolding(c) ==
  /\ shareCall[c].at = "indexing"
  /\ indexed' = indexed \cup {shareCall[c].holding}
  /\ ShareDo(c, ShareIdle)
  /\ UNCHANGED <<offering, holding, linked, payouts, queued>>

ConfirmHoldingLater(c, h) ==                   \* defect: the offering goes first
  /\ shareCall[c] = ShareIdle
  /\ holding[h] # NoHolding
  /\ offering[holding[h].offering].sold < MaxSold
  /\ ShareDo(c, [at |-> "confirming", holding |-> h])
  /\ UNCHANGED <<offering, holding, indexed, linked, payouts, queued>>

(* confirmHolding: the holding's document, then the offering's.            *)
ConfirmHolding(c, h) ==
  /\ shareCall[c] = ShareIdle
  /\ holding[h] # NoHolding
  /\ offering[holding[h].offering].sold < MaxSold
  /\ holding' = [holding EXCEPT ![h].status = "confirmed"]
  /\ ShareDo(c, [at |-> "confirming", holding |-> h])
  /\ UNCHANGED <<offering, indexed, linked, payouts, queued>>

ReadOffering(c) ==
  /\ shareCall[c].at = "confirming"
  /\ LET h == shareCall[c].holding
     IN ShareDo(c, [at |-> "selling", offering |-> holding[h].offering,
                    doc |-> offering[holding[h].offering],
                    shares |-> holding[h].shares])
  /\ UNCHANGED <<offering, holding, indexed, linked, payouts, queued>>

SellShares(c) ==
  /\ shareCall[c].at = "selling"
  /\ LET doc  == shareCall[c].doc
         sold == doc.sold + shareCall[c].shares
     IN offering' = [offering EXCEPT ![shareCall[c].offering] =
          [sold   |-> sold,
           status |-> IF sold >= TotalShares THEN "closed" ELSE doc.status]]
  /\ ShareDo(c, ShareIdle)
  /\ UNCHANGED <<holding, indexed, linked, payouts, queued>>

-------------------------------------------------------------------------------
(* The cap table: the confirmed holdings of the group's index, by investor.*)
Confirmed(i) ==
  {h \in Holding :
     h \in indexed /\ holding[h].status = "confirmed" /\ InvestorOf[h] = i}

SharesOf(i) == SumFunctionOnSet([h \in Confirmed(i) |-> holding[h].shares], Confirmed(i))

AllShares == SumFunctionOnSet([i \in Investor |-> SharesOf(i)], Investor)

Holders == {i \in Investor : Confirmed(i) # {}}

(* declareDividend: each cut is rounded to the cent by itself.             *)
Cut(i, pot) == (2 * SharesOf(i) * pot * 100 + AllShares) \div (2 * AllShares)

(* executeDividend: the cuts are fixed first, then one PayoutRequest and   *)
(* perhaps a job per holder with an account, one after the other.          *)
DeclareDividend(c, pot, sigs) ==
  /\ shareCall[c] = ShareIdle
  /\ AllShares > 0
  /\ ShareDo(c, [at |-> "paying", sigs |-> sigs,
                 cuts |-> [i \in {j \in Holders \ Anonymous : Cut(j, pot) > 0} |->
                             Cut(i, pot)]])
  /\ UNCHANGED <<offering, holding, indexed, linked, payouts, queued>>

CreatePayout(c, i) ==
  /\ shareCall[c].at = "paying"
  /\ i \in DOMAIN shareCall[c].cuts
  /\ Cardinality(payouts) < MaxPayouts
  /\ LET cuts == shareCall[c].cuts
         p == [n |-> Cardinality(payouts) + 1, to |-> i, cents |-> cuts[i],
               status |-> IF shareCall[c].sigs > 1 THEN "awaiting_signatures"
                          ELSE "pending"]
     IN /\ payouts' = payouts \cup {p}
        /\ ShareDo(c, [at |-> IF p.status = "pending" THEN "queueing" ELSE "paying",
                       sigs |-> shareCall[c].sigs, payout |-> p,
                       cuts |-> [j \in DOMAIN cuts \ {i} |-> cuts[j]]])
  /\ UNCHANGED <<offering, holding, indexed, linked, queued>>

EnqueuePayout(c) ==
  /\ shareCall[c].at = "queueing"
  /\ queued' = queued \cup {shareCall[c].payout}
  /\ ShareDo(c, [shareCall[c] EXCEPT !.at = "paying"])
  /\ UNCHANGED <<offering, holding, indexed, linked, payouts>>

(* The request is done, or dies between two awaits.                        *)
ShareCallEnds(c) ==
  /\ shareCall[c] # ShareIdle
  /\ ShareDo(c, ShareIdle)
  /\ UNCHANGED <<offering, holding, indexed, linked, payouts, queued>>

ShareNext ==
  \/ CreateLink \/ DisableLink
  \/ \E o \in Offering : CreateOffering(o)
  \/ \E c \in ShareCall :
       \/ CloseOffering(c) \/ AddHolding(c) \/ IndexHolding(c)
       \/ ReadOffering(c) \/ SellShares(c) \/ EnqueuePayout(c) \/ ShareCallEnds(c)
       \/ \E o \in Offering :
            \/ ReadToCloseOffering(c, o)
            \/ \E h \in Holding, x \in Investment : InvestByLink(c, o, h, x)
       \/ \E h \in Holding : ConfirmHolding(c, h)
       \/ \E pot \in Pot, s \in Signatures : DeclareDividend(c, pot, s)
       \/ \E i \in Investor : CreatePayout(c, i)

ShareSpec == ShareInit /\ [][ShareNext]_shareVars

-------------------------------------------------------------------------------
(* No offering sells without holders: shares that it counts as sold are    *)
(* backed by a confirmed holding of it, whatever updates are lost or       *)
(* repeated and wherever a request stops between the two documents         *)
(* (share-offering.service.ts:146-159).                                    *)
SoldToSomebody ==
  \A o \in Offering :
    offering[o].sold > 0 =>
      \E h \in Holding :
        holding[h].status = "confirmed" /\ holding[h].offering = o
===============================================================================
