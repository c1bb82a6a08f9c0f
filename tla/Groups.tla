-------------------------------- MODULE Groups --------------------------------
(***************************************************************************)
(* One group and its members (chamas.service.ts behind chamas.routes.ts):  *)
(* founding, joining by the four doors (an invitation's token, an invite   *)
(* code, a public group, a request that an officer decides), roles,        *)
(* removal.  Each handler reads, checks and writes in separate awaits, so  *)
(* what it read may be stale when it writes.  The group's own row is in    *)
(* GroupPage.                                                              *)
(*                                                                         *)
(* All memberships are active: no code gives one another status, so        *)
(* approveJoin, which sets active, changes nothing and is left out.  The   *)
(* rule verdict (enforceRule) only refuses.  Time enters through the       *)
(* tokens and codes that have expired.                                     *)
(***************************************************************************)
EXTENDS Integers, FiniteSets

CONSTANTS
  User,
  Founder,        \* the user who creates the group
  Token,          \* tokens of direct invitations
  GroupCall,      \* concurrent requests
  Privacies,      \* what the group may be: "public", "private", "invite_only"
  MaxMembers,     \* the capacity, or 0 for none
  Appointable,    \* bound: the roles that members are given
  GroupMaxBegun   \* bound: requests begun

GroupRole ==
  {"owner", "admin", "chairperson", "treasurer", "secretary", "member"}

ASSUME GroupAssumption ==
  /\ Founder \in User /\ IsFiniteSet(User)
  /\ GroupCall # {} /\ IsFiniteSet(GroupCall)
  /\ Privacies \subseteq {"public", "private", "invite_only"}
  /\ MaxMembers \in Nat /\ GroupMaxBegun \in Nat
  /\ Appointable \subseteq GroupRole

VARIABLES
  role,        \* role[u]: u's role, "none" without a membership
  invitation,  \* invitation[t]: its status, "none" before it is sent
               \* and "stale" when it is pending but past its time
  privacy,     \* the group's, which no code changes
  code,        \* whether some invite code is active and in time
  joinRequest, \* joinRequest[u]: the status of u's request, "none" without
  gone,        \* users who were removed or left at some time
  decided,     \* users whose membership comes from a decision
  groupBegun,  \* requests begun (for the bound)
  groupCall    \* groupCall[c]: what request c is doing

groupVars == <<role, privacy, invitation, code, joinRequest, gone,
               decided, groupBegun, groupCall>>

GroupIdle == [at |-> "idle"]

Members == {u \in User : role[u] # "none"}

GroupTypeOK ==
  /\ role \in [User -> GroupRole \cup {"none"}]
  /\ invitation \in [Token -> {"none", "pending", "stale", "accepted", "declined",
                             "expired"}]
  /\ privacy \in Privacies /\ code \in BOOLEAN
  /\ joinRequest \in [User -> {"none", "pending", "approved", "rejected"}]
  /\ gone \subseteq User /\ groupBegun \in 0 .. GroupMaxBegun
  /\ decided \subseteq User
  /\ \A c \in GroupCall : groupCall[c].at \in
       {"idle", "arriving", "entering", "deciding", "appointing", "removing"}

(* create makes the group, the owner's membership and a first code in one  *)
(* statement.                                                              *)
GroupInit ==
  /\ role        = [u \in User |-> IF u = Founder THEN "owner" ELSE "none"]
  /\ invitation  = [t \in Token |-> "none"]
  /\ privacy \in Privacies
  /\ code        = TRUE
  /\ joinRequest = [u \in User |-> "none"]
  /\ gone = {} /\ groupBegun = 0
  /\ decided     = {}
  /\ groupCall   = [c \in GroupCall |-> GroupIdle]

GroupDo(c, s) ==
  /\ groupCall' = [groupCall EXCEPT ![c] = s]
  /\ UNCHANGED groupBegun

BeginGroupCall(c, s) ==
  /\ groupCall[c] = GroupIdle
  /\ groupBegun < GroupMaxBegun
  /\ groupBegun' = groupBegun + 1
  /\ groupCall' = [groupCall EXCEPT ![c] = s]

peopleRows == <<role, joinRequest, gone, decided>>
paperRows  == <<privacy, invitation, code>>

(* requirePermission("manage_members"), by role alone.                     *)
MayManage(u) == role[u] \in {"owner", "admin", "chairperson"}

-------------------------------------------------------------------------------
StartJoinOneMore(c, u) ==                      \* defect: off by one
  /\ role[u] = "none"
  /\ MaxMembers # 0 => Cardinality(Members) <= MaxMembers
  /\ BeginGroupCall(c, [at |-> "arriving", user |-> u])
  /\ UNCHANGED <<peopleRows, paperRows>>

(* Joining: no membership, and a place left when the members are counted.  *)
StartJoin(c, u) ==
  /\ role[u] = "none"
  /\ MaxMembers # 0 => Cardinality(Members) < MaxMembers
  /\ BeginGroupCall(c, [at |-> "arriving", user |-> u])
  /\ UNCHANGED <<peopleRows, paperRows>>

(* A token is read when its invitation is pending; one whose time has      *)
(* passed is marked so and refused.                                        *)
ShowToken(c, t) ==
  /\ groupCall[c].at = "arriving"
  /\ invitation[t] \in {"pending", "stale"}
  /\ IF invitation[t] = "stale"
     THEN /\ invitation' = [invitation EXCEPT ![t] = "expired"]
          /\ GroupDo(c, GroupIdle)
     ELSE /\ GroupDo(c, [at |-> "entering", user |-> groupCall[c].user,
                         by |-> "token", token |-> t])
          /\ UNCHANGED invitation
  /\ UNCHANGED <<peopleRows, privacy, code>>

ShowCode(c) ==
  /\ groupCall[c].at = "arriving"
  /\ code
  /\ GroupDo(c, [at |-> "entering", user |-> groupCall[c].user, by |-> "code"])
  /\ UNCHANGED <<peopleRows, paperRows>>

(* A membership is unique: for one who came in meanwhile the insert fails, *)
(* and with it the acceptance of the invitation in the same transaction.   *)
Admit(u, by) ==
  /\ role' = [role EXCEPT ![u] = "member"]
  /\ decided' = IF by = "request" THEN decided \cup {u} ELSE decided \ {u}

(* Without token or code: a public group lets in, a private one files a    *)
(* request, which puts an earlier one back to pending, another refuses.    *)
ShowNothing(c) ==
  /\ groupCall[c].at = "arriving"
  /\ LET u == groupCall[c].user
     IN /\ IF privacy = "public" /\ role[u] = "none"
           THEN Admit(u, "public")
           ELSE UNCHANGED <<role, decided>>
        /\ IF privacy = "private"
           THEN joinRequest' = [joinRequest EXCEPT ![u] = "pending"]
           ELSE UNCHANGED joinRequest
  /\ GroupDo(c, GroupIdle)
  /\ UNCHANGED <<gone, paperRows>>

Enter(c) ==
  /\ groupCall[c].at = "entering"
  /\ LET u == groupCall[c].user
         by == groupCall[c].by
     IN IF role[u] # "none"
        THEN UNCHANGED <<role, decided, invitation>>
        ELSE /\ Admit(u, by)
             /\ IF by = "token"
                THEN invitation' = [invitation EXCEPT ![groupCall[c].token] = "accepted"]
                ELSE UNCHANGED invitation
  /\ GroupDo(c, GroupIdle)
  /\ UNCHANGED <<privacy, code, joinRequest, gone>>

-------------------------------------------------------------------------------
(* An officer decides a request; its capacity is not looked at.            *)
ReadRequest(c, u, o, approve) ==
  /\ MayManage(o)
  /\ joinRequest[u] = "pending"
  /\ BeginGroupCall(c, [at |-> "deciding", user |-> u, approve |-> approve])
  /\ UNCHANGED <<peopleRows, paperRows>>

(* One transaction: the decision and, when it is yes, the membership.      *)
DecideRequest(c) ==
  /\ groupCall[c].at = "deciding"
  /\ LET u == groupCall[c].user
     IN CASE ~ groupCall[c].approve ->
               /\ joinRequest' = [joinRequest EXCEPT ![u] = "rejected"]
               /\ UNCHANGED <<role, decided>>
          [] groupCall[c].approve /\ role[u] = "none" ->
               /\ joinRequest' = [joinRequest EXCEPT ![u] = "approved"]
               /\ Admit(u, "request")
          [] OTHER -> UNCHANGED <<joinRequest, role, decided>>
  /\ GroupDo(c, GroupIdle)
  /\ UNCHANGED <<gone, paperRows>>

-------------------------------------------------------------------------------
(* Invitations.  A direct one has a row; a link has only a code, and the   *)
(* token in it belongs to no row.                                          *)
Invite(o, t) ==
  /\ MayManage(o) /\ invitation[t] = "none"
  /\ invitation' = [invitation EXCEPT ![t] = "pending"]
  /\ UNCHANGED <<peopleRows, privacy, code, groupBegun, groupCall>>

InviteByLink(o) ==
  /\ MayManage(o)
  /\ code' = TRUE
  /\ UNCHANGED <<peopleRows, privacy, invitation, groupBegun, groupCall>>

(* The invitation is looked up for the invitee, not for its status.        *)
DeclineInvitation(t) ==
  /\ invitation[t] # "none"
  /\ invitation' = [invitation EXCEPT ![t] = "declined"]
  /\ UNCHANGED <<peopleRows, privacy, code, groupBegun, groupCall>>

(* The clock.  A code past its time is refused whether or not the          *)
(* cleanup-expired-invites job has marked it inactive yet.                 *)
ExpireToken(t) ==
  /\ invitation[t] = "pending"
  /\ invitation' = [invitation EXCEPT ![t] = "stale"]
  /\ UNCHANGED <<peopleRows, privacy, code, groupBegun, groupCall>>

CleanupInvites ==
  /\ code
  /\ code' = FALSE
  /\ UNCHANGED <<peopleRows, privacy, invitation, groupBegun, groupCall>>

-------------------------------------------------------------------------------
CheckAppointmentOfTarget(c, actor, target, new) ==   \* defect: the new role is unchecked
  /\ role[actor] \in {"owner", "admin"} /\ role[target] # "none"
  /\ role[target] = "owner" => role[actor] = "owner"
  /\ BeginGroupCall(c, [at |-> "appointing", user |-> target, new |-> new, as |-> role[actor]])
  /\ UNCHANGED <<peopleRows, paperRows>>

(* Roles.  An owner or an admin sets any role, the owner's and to owner    *)
(* only an owner; both roles are read before the update.                   *)
CheckAppointment(c, actor, target, new) ==
  /\ role[actor] \in {"owner", "admin"} /\ role[target] # "none"
  /\ "owner" \in {role[target], new} => role[actor] = "owner"
  /\ BeginGroupCall(c, [at |-> "appointing", user |-> target, new |-> new, as |-> role[actor]])
  /\ UNCHANGED <<peopleRows, paperRows>>

Appoint(c) ==
  /\ groupCall[c].at = "appointing"
  /\ LET u == groupCall[c].user
     IN role' = [role EXCEPT ![u] = IF @ = "none" THEN @ ELSE groupCall[c].new]
  /\ GroupDo(c, GroupIdle)
  /\ UNCHANGED <<joinRequest, gone, decided, paperRows>>

CheckRemoval(c, o, u) ==
  /\ MayManage(o)
  /\ role[u] \notin {"none", "owner"}
  /\ BeginGroupCall(c, [at |-> "removing", user |-> u])
  /\ UNCHANGED <<peopleRows, paperRows>>

RemoveMember(c) ==
  /\ groupCall[c].at = "removing"
  /\ LET u == groupCall[c].user
     IN /\ role' = [role EXCEPT ![u] = "none"]
        /\ gone' = gone \cup {u}
  /\ GroupDo(c, GroupIdle)
  /\ UNCHANGED <<joinRequest, decided, paperRows>>

(* A request that fails or dies between two awaits.                        *)
GroupCallDies(c) ==
  /\ groupCall[c] # GroupIdle
  /\ GroupDo(c, GroupIdle)
  /\ UNCHANGED <<peopleRows, paperRows>>

GroupNext ==
  \/ \E c \in GroupCall :
       \/ ShowNothing(c) \/ Enter(c) \/ DecideRequest(c) \/ Appoint(c)
       \/ RemoveMember(c) \/ GroupCallDies(c)
       \/ \E t \in Token : ShowToken(c, t)
       \/ ShowCode(c)
       \/ \E u \in User :
            \/ StartJoin(c, u)
            \/ \E o \in User :
                 \/ CheckRemoval(c, o, u)
                 \/ \E yes \in BOOLEAN : ReadRequest(c, u, o, yes)
                 \/ \E r \in Appointable : CheckAppointment(c, o, u, r)
  \/ \E o \in User :
       \/ \E t \in Token : Invite(o, t)
       \/ InviteByLink(o)
  \/ \E t \in Token : DeclineInvitation(t) \/ ExpireToken(t)
  \/ CleanupInvites

GroupSpec == GroupInit /\ [][GroupNext]_groupVars

-------------------------------------------------------------------------------
(* The capacity is exceeded at most by the joins that overlap: members who *)
(* came by themselves are no more than the places and the other requests,  *)
(* whoever is removed and let in by decision meanwhile; only decisions,    *)
(* which never look at it, go further (chamas.service.ts:358-361).         *)
CapacityKept ==
  MaxMembers # 0 =>
    Cardinality(Members \ decided)
      <= MaxMembers + Cardinality(GroupCall) - 1

(* Ownership is only handed on: nobody becomes owner while no owner is     *)
(* left and no request that an owner began is under way, so no admin can   *)
(* take over a group whose last owner stepped down                         *)
(* (chamas.service.ts:186-195).                                            *)
OwnershipHandedOn ==
  [][(/\ \A u \in User : role[u] # "owner"
      /\ \A c \in GroupCall : groupCall[c].at = "appointing" => groupCall[c].as # "owner")
       => \A u \in User : role'[u] # "owner"]_groupVars

===============================================================================
