------------------------------ MODULE MCPlatform ------------------------------
(***************************************************************************)
(* Small instances of votes and billing, whose jobs must get something     *)
(* done, and of a group's page, messages, preferences and the passport,    *)
(* for TLC: one of them, the focus, runs and the others stay where they    *)
(* begin.                                                                  *)
(***************************************************************************)
EXTENDS Votes, Billing, GroupPage, Messaging, Preferences, Passport, TLC

CONSTANTS m1, m2, s1, s2

MCOptionOf == [o1 |-> "v1", o3 |-> "v2"]

MCPlanPrice == [free |-> 0, starter |-> 500, pro |-> 1500]

MCCouponPct == [k1 |-> 100]

MCGift == {[from |-> m1, amount |-> 1], [from |-> m2, amount |-> 1]}

MCSocketUser == (s1 :> m1) @@ (s2 :> m2)

MCPhone == (m1 :> 1) @@ (m2 :> 2)

MCNewcomer ==
  [streak |-> 0, groups |-> 0, years |-> 0, tier |-> 1, reports |-> 0, loans |-> <<>>]

MCStanding ==
  {MCNewcomer,
   [streak |-> 30, groups |-> 9, years |-> 6, tier |-> 3, reports |-> 0,
    loans |-> <<[status |-> "completed", paid |-> 11, pastDue |-> TRUE]>>],
   [streak |-> 2, groups |-> 1, years |-> 1, tier |-> 2, reports |-> 5,
    loans |-> <<[status |-> "active", paid |-> 2, pastDue |-> TRUE],
                [status |-> "defaulted", paid |-> 0, pastDue |-> TRUE]>>]}

VARIABLE platformFocus

platformVars ==
  <<voteVars, billVars, pageVars, msgVars, prefVars, passVars, platformFocus>>

PlatformInit ==
  /\ platformFocus \in {"votes", "billing", "page", "messaging", "preferences", "passport"}
  /\ VoteInit /\ BillInit /\ PageInit /\ MsgInit /\ PrefInit /\ PassInit
  /\ platformFocus # "page" => page.monthly = 1 /\ \A p \in PagePerson : pageRole[p] = "owner"
  /\ platformFocus # "preferences" => phone = MCPhone
  /\ platformFocus # "passport" => standing = MCNewcomer

PlatformRests ==
  /\ IF platformFocus = "votes"       THEN TRUE ELSE UNCHANGED voteVars
  /\ IF platformFocus = "billing"     THEN TRUE ELSE UNCHANGED billVars
  /\ IF platformFocus = "page"        THEN TRUE ELSE UNCHANGED pageVars
  /\ IF platformFocus = "messaging"   THEN TRUE ELSE UNCHANGED msgVars
  /\ IF platformFocus = "preferences" THEN TRUE ELSE UNCHANGED prefVars
  /\ IF platformFocus = "passport"    THEN TRUE ELSE UNCHANGED passVars

PlatformNext ==
  /\ UNCHANGED platformFocus
  /\ PlatformRests
  /\ \/ (platformFocus = "votes" /\ VoteNext)
     \/ (platformFocus = "billing" /\ BillNext)
     \/ (platformFocus = "page" /\ PageNext)
     \/ (platformFocus = "messaging" /\ MsgNext)
     \/ (platformFocus = "preferences" /\ PrefNext)
     \/ (platformFocus = "passport" /\ PassNext)

(* The jobs are the only steps counted on; a component that rests has none *)
(* enabled.                                                                *)
PlatformSpec ==
  PlatformInit /\ [][PlatformNext]_platformVars /\ VoteFair /\ BillFair

-------------------------------------------------------------------------------
(* Every component keeps to its types.                                     *)
PlatformTypeOK ==
  /\ VoteTypeOK /\ BillTypeOK /\ PageTypeOK
  /\ MsgTypeOK /\ PrefTypeOK /\ PassTypeOK
===============================================================================
