------------------------------- MODULE GroupPage -------------------------------
(***************************************************************************)
(* A group's own row (chamas.service.ts): its settings, its archiving and  *)
(* the donations to it, by members and through a public link               *)
(* (public.routes.ts).  A donation is recorded here without any payment: no*)
(* money moves and no ledger entry is made.  The rows that payments mirror *)
(* (StkPayments, C2BPayments) stand beside these, and the amount raised    *)
(* counts neither them nor those of the link.                              *)
(***************************************************************************)
EXTENDS Naturals, FiniteSets, Functions

CONSTANTS
  PagePerson,    \* members of the group
  PageKind,      \* the group's type: "fundraiser" or another
  Gift,          \* donations that are made: records with an amount
  Monthly,       \* monthly contributions that are set
  PageCall       \* concurrent requests to delete the group

ASSUME PageAssumption == \A g \in Gift : g.amount \in Nat

PageStatus == {"active", "dormant", "archived"}

VARIABLES
  pageRole,   \* pageRole[p]: p's role in the group
  page,       \* the row: status, monthly contribution and amount raised
  gifts,      \* the donation rows of members
  linkGifts,  \* the donation rows that came through the link
  pageCall    \* pageCall[c]: whether request c found its sender to be owner

pageVars == <<pageRole, page, gifts, linkGifts, pageCall>>

PageTypeOK ==
  /\ pageRole \in [PagePerson -> {"owner", "admin", "member"}]
  /\ page \in [status : PageStatus, monthly : Monthly, raised : Nat]
  /\ gifts \subseteq Gift /\ linkGifts \subseteq Gift
  /\ page.raised = SumFunctionOnSet([g \in gifts |-> g.amount], gifts)
  /\ pageCall \in [PageCall -> BOOLEAN]

PageInit ==
  /\ pageRole \in {r \in [PagePerson -> {"owner", "admin", "member"}] :
                     \E p \in PagePerson : r[p] = "owner"}
  /\ page \in [status : {"active"}, monthly : Monthly, raised : {0}]
  /\ gifts = {} /\ linkGifts = {}
  /\ pageCall = [c \in PageCall |-> FALSE]

(* What is given is written, and nothing else: status can be set to any    *)
(* value and back, also from archived.  Fields the validator accepts but   *)
(* update does not name (privacy, maxMembers, ...) are dropped.            *)
UpdatePage(p, patch) ==
  /\ pageRole[p] \in {"owner", "admin"}
  /\ page' = [page EXCEPT !.status  = IF "status" \in DOMAIN patch THEN patch.status ELSE @,
                          !.monthly = IF "monthly" \in DOMAIN patch THEN patch.monthly ELSE @]
  /\ UNCHANGED <<pageRole, gifts, linkGifts, pageCall>>

(* Deleting archives.  The sender's role is read before the write.         *)
ReadToDelete(c, p) ==
  /\ pageRole[p] = "owner" /\ ~ pageCall[c]
  /\ pageCall' = [pageCall EXCEPT ![c] = TRUE]
  /\ UNCHANGED <<pageRole, page, gifts, linkGifts>>

DeleteChama(c) ==
  /\ pageCall[c]
  /\ \/ page' = [page EXCEPT !.status = "archived"]
     \/ UNCHANGED page                          \* the request dies
  /\ pageCall' = [pageCall EXCEPT ![c] = FALSE]
  /\ UNCHANGED <<pageRole, gifts, linkGifts>>

(* A donation, when the group is a fundraiser and its rules let it in: the *)
(* row and the increment in one transaction.  Status is not looked at.     *)
Donate(g) ==
  /\ PageKind = "fundraiser"
  /\ g \notin gifts
  /\ gifts' = gifts \cup {g}
  /\ page' = [page EXCEPT !.raised = @ + g.amount]
  /\ UNCHANGED <<pageRole, linkGifts, pageCall>>

(* Anybody with the link: a row as pending as any, for a group of any type *)
(* and status.  The push is not waited for, its callback finds nothing to  *)
(* confirm, and the amount raised is not touched.                          *)
DonateByLink(g) ==
  /\ g \notin linkGifts
  /\ linkGifts' = linkGifts \cup {g}
  /\ UNCHANGED <<pageRole, page, gifts, pageCall>>

(* Roles change meanwhile (module Groups).                                 *)
ChangePageRole(p, r) ==
  /\ pageRole' = [pageRole EXCEPT ![p] = r]
  /\ UNCHANGED <<page, gifts, linkGifts, pageCall>>

PageNext ==
  \/ \E p \in PagePerson :
       \/ \E patch \in [status : PageStatus] \cup [monthly : Monthly] : UpdatePage(p, patch)
       \/ \E c \in PageCall : ReadToDelete(c, p)
       \/ \E r \in {"owner", "admin", "member"} : ChangePageRole(p, r)
  \/ \E c \in PageCall : DeleteChama(c)
  \/ \E g \in Gift : Donate(g) \/ DonateByLink(g)

PageSpec == PageInit /\ [][PageNext]_pageVars
===============================================================================
