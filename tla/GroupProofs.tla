------------------------------ MODULE GroupProofs -----------------------------
(***************************************************************************)
(* Proofs about what the members of a group do with one another: Groups    *)
(* (membership and roles), Shares (offerings), Bidding (the pot of a       *)
(* cycle), Rules (the bylaws), Votes, Meetings (and the documents filed),  *)
(* Sweeps (the daily reminders) and GroupPage (the public appeal), for     *)
(* every set of users, requests and documents.                             *)
(*                                                                         *)
(* They share no rows; each has its own inductive invariant, which says    *)
(* what a request that is under way still knows of what it read.           *)
(***************************************************************************)
EXTENDS Groups, Shares, Bidding, Rules, Votes, Meetings, Sweeps, GroupPage, Sums,
        FiniteSetTheorems, SequenceTheorems, TLAPS

-------------------------------------------------------------------------------
(* Groups.  A request at the door or entering was begun when there was     *)
(* place (Knocking); one that appoints an owner was begun by an owner.     *)

CallOfGroup ==
  {GroupIdle}
    \cup [at : {"arriving", "removing"}, user : User]
    \cup [at : {"entering"}, user : User, by : {"token"}, token : Token]
    \cup [at : {"entering"}, user : User, by : {"code"}]
    \cup [at : {"deciding"}, user : User, approve : BOOLEAN]
    \cup [at : {"appointing"}, user : User, new : GroupRole, as : GroupRole]

OwnersAppoint ==
  \A c \in GroupCall :
    groupCall[c].at = "appointing" /\ groupCall[c].new = "owner" => groupCall[c].as = "owner"

GroupShape == GroupTypeOK /\ groupCall \in [GroupCall -> CallOfGroup]

GInv == GroupShape /\ OwnersAppoint

(* What the place of a request tells of its record.                        *)
LEMMA GroupCallShape ==
  ASSUME NEW s \in CallOfGroup
  PROVE  /\ s.at \in {"idle", "arriving", "entering", "deciding", "appointing",
                      "removing"}
         /\ s.at # "idle" => s # GroupIdle /\ s.user \in User
         /\ s.at = "entering" => s.by \in {"token", "code"}
         /\ s.at = "entering" /\ s.by = "token" => s.token \in Token
         /\ s.at = "deciding" => s.approve \in BOOLEAN
         /\ s.at = "appointing" => s.new \in GroupRole
<1>1. CASE s = GroupIdle
  BY <1>1 DEF GroupIdle
<1>2. CASE s \in [at : {"arriving", "removing"}, user : User]
  BY <1>2 DEF GroupIdle
<1>3. CASE s \in [at : {"entering"}, user : User, by : {"token"}, token : Token]
  BY <1>3 DEF GroupIdle
<1>4. CASE s \in [at : {"entering"}, user : User, by : {"code"}]
  BY <1>4 DEF GroupIdle
<1>5. CASE s \in [at : {"deciding"}, user : User, approve : BOOLEAN]
  BY <1>5 DEF GroupIdle
<1>6. CASE s \in [at : {"appointing"}, user : User, new : GroupRole, as : GroupRole]
  BY <1>6 DEF GroupIdle
<1> QED
  BY <1>1, <1>2, <1>3, <1>4, <1>5, <1>6 DEF CallOfGroup

(* The records that requests write are of those kinds.                     *)
LEMMA GroupCallForms ==
  /\ GroupIdle \in CallOfGroup /\ GroupIdle.at = "idle"
  /\ \A u \in User, a \in {"arriving", "removing"} : [at |-> a, user |-> u] \in CallOfGroup
  /\ \A u \in User, t \in Token :
       [at |-> "entering", user |-> u, by |-> "token", token |-> t] \in CallOfGroup
  /\ \A u \in User : [at |-> "entering", user |-> u, by |-> "code"] \in CallOfGroup
  /\ \A u \in User, b \in BOOLEAN :
       [at |-> "deciding", user |-> u, approve |-> b] \in CallOfGroup
  /\ \A u \in User, n, r \in GroupRole :
       [at |-> "appointing", user |-> u, new |-> n, as |-> r] \in CallOfGroup
BY DEF CallOfGroup, GroupIdle

(* The founder owns the new group, and nobody asks for anything yet.       *)
LEMMA InitGInv == GroupInit => GInv
<1> SUFFICES ASSUME GroupInit PROVE GInv
  OBVIOUS
<1>1. groupCall \in [GroupCall -> CallOfGroup] /\ \A c \in GroupCall : groupCall[c].at = "idle"
  BY GroupCallForms DEF GroupInit
<1>2. GroupTypeOK
  <2>1. role \in [User -> GroupRole \cup {"none"}]
    BY DEF GroupInit, GroupRole
  <2> QED
    BY <1>1, <2>1, GroupAssumption DEF GroupInit, GroupTypeOK
<1> QED
  BY <1>1, <1>2 DEF GInv, GroupShape, OwnersAppoint

(* A step has to answer for the rows it writes and the request it moves.   *)
LEMMA GroupStep ==
  ASSUME GInv, NEW c \in GroupCall, NEW s \in CallOfGroup,
         groupCall' = [groupCall EXCEPT ![c] = s],
         s.at = "appointing" /\ s.new = "owner" => s.as = "owner",
         role' \in [User -> GroupRole \cup {"none"}],
         invitation' \in [Token -> {"none", "pending", "stale", "accepted", "declined",
                                    "expired"}],
         UNCHANGED privacy, code' \in BOOLEAN,
         joinRequest' \in [User -> {"none", "pending", "approved", "rejected"}],
         gone' \subseteq User, decided' \subseteq User,
         groupBegun' \in 0 .. GroupMaxBegun
  PROVE  GInv'
<1>1. groupCall' \in [GroupCall -> CallOfGroup]
  BY DEF GInv, GroupShape
<1>2. \A d \in GroupCall : groupCall'[d].at \in
        {"idle", "arriving", "entering", "deciding", "appointing", "removing"}
  BY <1>1, GroupCallShape
<1>3. OwnersAppoint'
  BY DEF GInv, GroupShape, OwnersAppoint
<1> QED
  BY <1>1, <1>2, <1>3 DEF GInv, GroupShape, GroupTypeOK

(* A request that begins counts, and changes nothing else.                 *)
LEMMA BeginStep ==
  ASSUME GInv, NEW c \in GroupCall, NEW s \in CallOfGroup,
         BeginGroupCall(c, s), UNCHANGED <<peopleRows, paperRows>>,
         s.at = "appointing" /\ s.new = "owner" => s.as = "owner"
  PROVE  GInv'
<1>1. groupBegun' \in 0 .. GroupMaxBegun
  BY GroupAssumption DEF BeginGroupCall, GInv, GroupShape, GroupTypeOK
<1>2. groupCall' = [groupCall EXCEPT ![c] = s]
  BY DEF BeginGroupCall
<1>3. UNCHANGED <<role, joinRequest, gone, decided, privacy, invitation, code>>
  BY DEF peopleRows, paperRows
<1> QED
  BY <1>1, <1>2, <1>3, GroupStep DEF GInv, GroupShape, GroupTypeOK

(* Joining: at the door, by token, by code, or without either.             *)
LEMMA JoiningGInv ==
  ASSUME GInv, NEW c \in GroupCall,
         \/ \E u \in User : StartJoin(c, u)
         \/ \E t \in Token : ShowToken(c, t)
         \/ ShowCode(c) \/ ShowNothing(c) \/ Enter(c)
  PROVE  GInv'
<1>1. ASSUME NEW u \in User, StartJoin(c, u) PROVE GInv'
  <2> DEFINE s == [at |-> "arriving", user |-> u]
  <2>1. s \in CallOfGroup /\ s.at = "arriving"
    BY GroupCallForms
  <2>2. BeginGroupCall(c, s) /\ UNCHANGED <<peopleRows, paperRows>>
    BY <1>1 DEF StartJoin
  <2> HIDE DEF s
  <2> QED
    BY <2>1, <2>2, BeginStep
<1> USE DEF GroupDo, peopleRows, paperRows, GroupRole
<1>2. groupCall[c].at # "idle" => groupCall[c].user \in User
  BY GroupCallShape DEF GInv, GroupShape
<1>3. ASSUME NEW t \in Token, ShowToken(c, t) PROVE GInv'
  <2>1. \E s \in CallOfGroup : s.at # "appointing" /\ groupCall' = [groupCall EXCEPT ![c] = s]
    BY <1>2, <1>3, GroupCallForms DEF ShowToken
  <2>2. /\ UNCHANGED <<role, privacy, code, joinRequest, gone, decided, groupBegun>>
        /\ \/ UNCHANGED invitation
           \/ invitation' = [invitation EXCEPT ![t] = "expired"]
    BY <1>3 DEF ShowToken
  <2> QED
    BY <2>1, <2>2, GroupStep DEF GInv, GroupShape, GroupTypeOK
<1>4. CASE ShowCode(c)
  <2>1. \E s \in CallOfGroup : s.at # "appointing" /\ groupCall' = [groupCall EXCEPT ![c] = s]
    BY <1>2, <1>4, GroupCallForms DEF ShowCode
  <2> QED
    BY <1>4, <2>1, GroupStep DEF ShowCode, GInv, GroupShape, GroupTypeOK
<1>5. CASE ShowNothing(c)
  <2>1. groupCall' = [groupCall EXCEPT ![c] = GroupIdle] /\ groupCall[c].user \in User
    BY <1>2, <1>5 DEF ShowNothing
  <2>2. /\ role' \in [User -> GroupRole \cup {"none"}]
        /\ joinRequest' \in [User -> {"none", "pending", "approved", "rejected"}]
        /\ decided' \subseteq User
        /\ UNCHANGED <<privacy, invitation, code, gone, groupBegun>>
    BY <1>5, <2>1 DEF ShowNothing, Admit, GInv, GroupShape, GroupTypeOK
  <2> QED
    BY <2>1, <2>2, GroupStep, GroupCallForms DEF GInv, GroupShape, GroupTypeOK
<1>6. CASE Enter(c)
  <2>1. groupCall' = [groupCall EXCEPT ![c] = GroupIdle] /\ groupCall[c].user \in User
    BY <1>2, <1>6 DEF Enter
  <2>2. /\ role' \in [User -> GroupRole \cup {"none"}]
        /\ decided' \subseteq User
        /\ UNCHANGED <<privacy, code, joinRequest, gone, groupBegun>>
    <3>1. CASE role[groupCall[c].user] # "none"
      BY <1>6, <3>1 DEF Enter, GInv, GroupShape, GroupTypeOK
    <3>2. CASE role[groupCall[c].user] = "none"
      BY <1>6, <2>1, <3>2 DEF Enter, Admit, GInv, GroupShape, GroupTypeOK
    <3> QED
      BY <3>1, <3>2
  <2>3. \/ UNCHANGED invitation
        \/ \E t \in Token : invitation' = [invitation EXCEPT ![t] = "accepted"]
    BY <1>6, GroupCallShape DEF Enter, GInv, GroupShape
  <2>4. invitation' \in [Token -> {"none", "pending", "stale", "accepted", "declined",
                                   "expired"}]
    BY <2>3 DEF GInv, GroupShape, GroupTypeOK
  <2> QED
    BY <2>1, <2>2, <2>4, GroupStep, GroupCallForms DEF GInv, GroupShape, GroupTypeOK
<1> QED
  BY <1>1, <1>3, <1>4, <1>5, <1>6

(* Decisions, roles, removals, and requests that die.                      *)
LEMMA ManagingGInv ==
  ASSUME GInv, NEW c \in GroupCall,
         \/ \E o \in User, u \in User : \/ CheckRemoval(c, o, u)
                             \/ \E yes \in BOOLEAN : ReadRequest(c, u, o, yes)
                             \/ \E r \in Appointable : CheckAppointment(c, o, u, r)
         \/ DecideRequest(c) \/ Appoint(c) \/ RemoveMember(c) \/ GroupCallDies(c)
  PROVE  GInv'
<1>1. ASSUME NEW o \in User, NEW u \in User, CheckRemoval(c, o, u) PROVE GInv'
  <2> DEFINE s == [at |-> "removing", user |-> u]
  <2>1. s \in CallOfGroup /\ s.at = "removing"
    BY GroupCallForms
  <2>2. BeginGroupCall(c, s) /\ UNCHANGED <<peopleRows, paperRows>>
    BY <1>1 DEF CheckRemoval
  <2> HIDE DEF s
  <2> QED
    BY <2>1, <2>2, BeginStep
<1>2. ASSUME NEW o \in User, NEW u \in User, NEW yes \in BOOLEAN, ReadRequest(c, u, o, yes)
      PROVE  GInv'
  <2> DEFINE s == [at |-> "deciding", user |-> u, approve |-> yes]
  <2>1. s \in CallOfGroup /\ s.at = "deciding"
    BY GroupCallForms
  <2>2. BeginGroupCall(c, s) /\ UNCHANGED <<peopleRows, paperRows>>
    BY <1>2 DEF ReadRequest
  <2> HIDE DEF s
  <2> QED
    BY <2>1, <2>2, BeginStep
<1>3. ASSUME NEW o \in User, NEW u \in User, NEW r \in Appointable, CheckAppointment(c, o, u, r)
      PROVE  GInv'
  <2> DEFINE s == [at |-> "appointing", user |-> u, new |-> r, as |-> role[o]]
  <2>1. role[o] \in GroupRole /\ r \in GroupRole
    BY <1>3, GroupAssumption DEF CheckAppointment, GInv, GroupShape, GroupTypeOK, GroupRole
  <2>2. s \in CallOfGroup /\ (s.new = "owner" => s.as = "owner")
    BY <1>3, <2>1, GroupCallForms DEF CheckAppointment
  <2>3. BeginGroupCall(c, s) /\ UNCHANGED <<peopleRows, paperRows>>
    BY <1>3 DEF CheckAppointment
  <2> HIDE DEF s
  <2> QED
    BY <2>2, <2>3, BeginStep
<1> USE DEF GroupDo, peopleRows, paperRows
<1>4. groupCall[c].at # "idle" => groupCall[c].user \in User
  BY GroupCallShape DEF GInv, GroupShape
<1>5. CASE DecideRequest(c)
  <2>1. groupCall' = [groupCall EXCEPT ![c] = GroupIdle] /\ groupCall[c].user \in User
    BY <1>4, <1>5 DEF DecideRequest
  <2>2. groupCall[c].approve \in BOOLEAN
    BY <1>5, GroupCallShape DEF DecideRequest, GInv, GroupShape
  <2>3. /\ role' \in [User -> GroupRole \cup {"none"}]
        /\ joinRequest' \in [User -> {"none", "pending", "approved", "rejected"}]
        /\ decided' \subseteq User
    <3>1. CASE ~ groupCall[c].approve
      BY <1>5, <2>1, <3>1 DEF DecideRequest, GInv, GroupShape, GroupTypeOK
    <3>2. CASE groupCall[c].approve /\ role[groupCall[c].user] = "none"
      BY <1>5, <2>1, <3>2 DEF DecideRequest, Admit, GInv, GroupShape, GroupTypeOK, GroupRole
    <3>3. CASE groupCall[c].approve /\ role[groupCall[c].user] # "none"
      BY <1>5, <2>1, <3>3 DEF DecideRequest, GInv, GroupShape, GroupTypeOK
    <3> QED
      BY <2>2, <3>1, <3>2, <3>3
  <2> QED
    BY <1>5, <2>1, <2>3, GroupStep, GroupCallForms
    DEF DecideRequest, GInv, GroupShape, GroupTypeOK
<1>6. CASE Appoint(c)
  <2>1. groupCall[c].user \in User /\ groupCall[c].new \in GroupRole
    BY <1>6, GroupCallShape DEF Appoint, GInv, GroupShape
  <2>2. role' \in [User -> GroupRole \cup {"none"}]
    BY <1>6, <2>1 DEF Appoint, GInv, GroupShape, GroupTypeOK
  <2> QED
    BY <1>6, <2>2, GroupStep, GroupCallForms DEF Appoint, GInv, GroupShape, GroupTypeOK
<1>7. CASE RemoveMember(c)
  <2>1. groupCall[c].user \in User
    BY <1>4, <1>7 DEF RemoveMember
  <2>2. role' \in [User -> GroupRole \cup {"none"}] /\ gone' \subseteq User
    BY <1>7, <2>1 DEF RemoveMember, GInv, GroupShape, GroupTypeOK
  <2> QED
    BY <1>7, <2>2, GroupStep, GroupCallForms DEF RemoveMember, GInv, GroupShape, GroupTypeOK
<1>8. CASE GroupCallDies(c)
  BY <1>8, GroupStep, GroupCallForms DEF GroupCallDies, GInv, GroupShape, GroupTypeOK
<1> QED
  BY <1>1, <1>2, <1>3, <1>5, <1>6, <1>7, <1>8

(* Invitations and codes are written outside any joining.                  *)
PaperStep ==
  \/ \E o \in User :
       \/ \E t \in Token : Invite(o, t)
       \/ InviteByLink(o)
  \/ \E t \in Token : DeclineInvitation(t) \/ ExpireToken(t)
  \/ CleanupInvites

LEMMA PaperGInv ==
  ASSUME GInv, PaperStep
  PROVE  GInv' /\ UNCHANGED <<role, decided, groupCall>>
<1>1. UNCHANGED <<role, joinRequest, gone, decided, privacy, groupBegun, groupCall>>
  BY DEF PaperStep, Invite, InviteByLink, DeclineInvitation, ExpireToken, CleanupInvites,
         peopleRows
<1>2. \/ UNCHANGED invitation
      \/ \E t \in Token, i \in {"pending", "declined", "stale"} :
           invitation' = [invitation EXCEPT ![t] = i]
  BY DEF PaperStep, Invite, InviteByLink, DeclineInvitation, ExpireToken, CleanupInvites
<1>3. code' \in BOOLEAN
  BY DEF PaperStep, Invite, InviteByLink, DeclineInvitation, ExpireToken, CleanupInvites,
         GInv, GroupShape, GroupTypeOK
<1> QED
  BY <1>1, <1>2, <1>3 DEF GInv, GroupShape, GroupTypeOK, OwnersAppoint

(* Every step of the group keeps the invariant.                            *)
LEMMA NextGInv == GInv /\ [GroupNext]_groupVars => GInv'
<1> SUFFICES ASSUME GInv, [GroupNext]_groupVars PROVE GInv'
  OBVIOUS
<1>1. CASE UNCHANGED groupVars
  BY <1>1 DEF groupVars, GInv, GroupShape, GroupTypeOK, OwnersAppoint
<1> QED
  BY <1>1, JoiningGInv, ManagingGInv, PaperGInv DEF GroupNext, PaperStep

(* The inductive invariant of groups: the request of one who appoints an   *)
(* owner is an owner's.                                                    *)
THEOREM GroupInvariance == GroupSpec => []GInv
BY InitGInv, NextGInv, PTL DEF GroupSpec

(* Every membership, invitation and request is typed.                      *)
THEOREM GroupTypeCorrect == GroupSpec => []GroupTypeOK
<1>1. GInv => GroupTypeOK
  BY DEF GInv, GroupShape
<1> QED
  BY <1>1, GroupInvariance, PTL

(* Nobody becomes owner but through an appointment under way that is one   *)
(* to owner.                                                               *)
LEMMA OwnersMade ==
  ASSUME GInv, [GroupNext]_groupVars, NEW u \in User, role'[u] = "owner"
  PROVE  \/ role[u] = "owner"
         \/ \E c \in GroupCall : groupCall[c].at = "appointing" /\ groupCall[c].new = "owner"
<1>1. \/ UNCHANGED role
      \/ \E v \in User, r \in {"member", "none"} : role' = [role EXCEPT ![v] = r]
      \/ \E c \in GroupCall : Appoint(c)
  <2>1. ASSUME NEW c \in GroupCall, groupCall[c].at # "idle"
        PROVE  groupCall[c].user \in User
    BY <2>1, GroupCallShape DEF GInv, GroupShape
  <2>2. ASSUME NEW c \in GroupCall, ShowNothing(c) \/ Enter(c) \/ RemoveMember(c)
        PROVE  \/ UNCHANGED role
               \/ \E v \in User, r \in {"member", "none"} : role' = [role EXCEPT ![v] = r]
    BY <2>1, <2>2 DEF ShowNothing, Enter, RemoveMember, Admit
  <2>3. ASSUME NEW c \in GroupCall, DecideRequest(c)
        PROVE  \/ UNCHANGED role
               \/ \E v \in User : role' = [role EXCEPT ![v] = "member"]
    <3>1. groupCall[c].user \in User /\ groupCall[c].approve \in BOOLEAN
      BY <2>3, GroupCallShape DEF DecideRequest, GInv, GroupShape
    <3> QED
      BY <2>3, <3>1 DEF DecideRequest, Admit
  <2>4. ASSUME PaperStep PROVE UNCHANGED role
    BY <2>4, PaperGInv
  <2> QED
    BY <2>2, <2>3, <2>4
    DEF GroupNext, PaperStep, ShowToken, ShowCode, GroupCallDies, StartJoin, CheckRemoval,
        ReadRequest, CheckAppointment, peopleRows, groupVars
<1>2. ASSUME NEW c \in GroupCall, Appoint(c)
      PROVE  role'[u] = role[u] \/ groupCall[c].new = "owner"
  BY <1>2 DEF Appoint, GInv, GroupShape, GroupTypeOK
<1>3. ASSUME NEW v \in User, NEW r \in {"member", "none"}, role' = [role EXCEPT ![v] = r]
      PROVE  role'[u] = role[u]
  BY <1>3 DEF GInv, GroupShape, GroupTypeOK
<1> QED
  BY <1>1, <1>2, <1>3 DEF Appoint

(* A group that has lost its last owner has none again, unless one that was*)
(* owner has a request under way (chamas.service.ts:186-195).              *)
THEOREM OwnershipIsHandedOn == GroupSpec => OwnershipHandedOn
<1> DEFINE A == (/\ \A u \in User : role[u] # "owner"
                 /\ \A c \in GroupCall :
                      groupCall[c].at = "appointing" => groupCall[c].as # "owner")
                 => \A u \in User : role'[u] # "owner"
<1>1. GInv /\ [GroupNext]_groupVars => [A]_groupVars
  <2> SUFFICES ASSUME GInv, [GroupNext]_groupVars PROVE A
    OBVIOUS
  <2> QED
    BY OwnersMade DEF GInv, OwnersAppoint
<1> QED
  BY <1>1, GroupInvariance, PTL DEF GroupSpec, OwnershipHandedOn

-------------------------------------------------------------------------------
(* The capacity.  Who is in by himself and who is on his way in are counted*)
(* together: a request sets out only when all the members leave a place.   *)

ByThemselves == Members \ decided

OnTheWay == {c \in GroupCall : groupCall[c].at \in {"arriving", "entering"}}

PlacesCounted ==
  MaxMembers # 0 =>
    Cardinality(ByThemselves) + Cardinality(OnTheWay)
      <= MaxMembers + Cardinality(GroupCall) - 1

(* The sets that are counted are finite.                                   *)
LEMMA CountedFinite ==
  /\ IsFiniteSet(Members) /\ IsFiniteSet(ByThemselves) /\ IsFiniteSet(OnTheWay)
  /\ IsFiniteSet(Members') /\ IsFiniteSet(ByThemselves') /\ IsFiniteSet(OnTheWay')
  /\ Cardinality(Members) \in Nat
  /\ Cardinality(ByThemselves) \in Nat /\ Cardinality(OnTheWay) \in Nat
  /\ Cardinality(ByThemselves') \in Nat /\ Cardinality(OnTheWay') \in Nat
  /\ Cardinality(GroupCall) \in Nat \ {0}
<1>1. /\ Members \subseteq User /\ ByThemselves \subseteq User /\ OnTheWay \subseteq GroupCall
      /\ Members' \subseteq User /\ ByThemselves' \subseteq User
      /\ OnTheWay' \subseteq GroupCall
  BY DEF Members, ByThemselves, OnTheWay
<1>2. \A S \in SUBSET User : IsFiniteSet(S)
  BY GroupAssumption, FS_Subset
<1>3. \A S \in SUBSET GroupCall : IsFiniteSet(S)
  BY GroupAssumption, FS_Subset
<1>4. /\ IsFiniteSet(Members) /\ IsFiniteSet(ByThemselves) /\ IsFiniteSet(OnTheWay)
      /\ IsFiniteSet(Members') /\ IsFiniteSet(ByThemselves') /\ IsFiniteSet(OnTheWay')
  BY <1>1, <1>2, <1>3
<1>5. Cardinality(GroupCall) \in Nat /\ Cardinality(GroupCall) # 0
  BY GroupAssumption, FS_CardinalityType, FS_EmptySet
<1> QED
  BY <1>4, <1>5, FS_CardinalityType

(* The founder leaves a place for the requests, if there is to be any.     *)
LEMMA InitPlaces == GroupInit => PlacesCounted
<1> SUFFICES ASSUME GroupInit, MaxMembers # 0
             PROVE  Cardinality(ByThemselves) + Cardinality(OnTheWay)
                      <= MaxMembers + Cardinality(GroupCall) - 1
  BY DEF PlacesCounted
<1>1. ByThemselves = {Founder}
  BY GroupAssumption DEF GroupInit, ByThemselves, Members
<1>2. OnTheWay = {}
  BY DEF GroupInit, OnTheWay, GroupIdle
<1>3. Cardinality(ByThemselves) = 1 /\ Cardinality(OnTheWay) = 0
  BY <1>1, <1>2, FS_Singleton, FS_EmptySet
<1>4. MaxMembers \in Nat
  BY GroupAssumption
<1> QED
  BY <1>3, <1>4, CountedFinite

(* Nobody more is in, and nobody more is on the way.                       *)
LEMMA NoMorePlaces ==
  ASSUME PlacesCounted, ByThemselves' \subseteq ByThemselves, OnTheWay' \subseteq OnTheWay
  PROVE  PlacesCounted'
<1>1. /\ Cardinality(ByThemselves') <= Cardinality(ByThemselves)
      /\ Cardinality(OnTheWay') <= Cardinality(OnTheWay)
  BY CountedFinite, FS_Subset
<1> QED
  BY <1>1, CountedFinite, GroupAssumption DEF PlacesCounted

(* Who gets in was on the way.                                             *)
LEMMA PlaceTaken ==
  ASSUME PlacesCounted, NEW u, NEW c \in OnTheWay,
         ByThemselves' \subseteq ByThemselves \cup {u}, OnTheWay' \subseteq OnTheWay \ {c}
  PROVE  PlacesCounted'
<1>1. /\ IsFiniteSet(ByThemselves \cup {u})
      /\ Cardinality(ByThemselves \cup {u}) <= Cardinality(ByThemselves) + 1
      /\ Cardinality(ByThemselves \cup {u}) \in Nat
  <2>1. /\ IsFiniteSet(ByThemselves \cup {u})
        /\ \/ Cardinality(ByThemselves \cup {u}) = Cardinality(ByThemselves)
           \/ Cardinality(ByThemselves \cup {u}) = Cardinality(ByThemselves) + 1
    BY CountedFinite, FS_AddElement
  <2> QED
    BY <2>1, CountedFinite
<1>2. /\ IsFiniteSet(OnTheWay \ {c})
      /\ Cardinality(OnTheWay \ {c}) = Cardinality(OnTheWay) - 1
  BY CountedFinite, FS_RemoveElement
<1>3. /\ Cardinality(ByThemselves') <= Cardinality(ByThemselves \cup {u})
      /\ Cardinality(OnTheWay') <= Cardinality(OnTheWay \ {c})
  BY <1>1, <1>2, FS_Subset
<1> QED
  BY <1>1, <1>2, <1>3, CountedFinite, GroupAssumption DEF PlacesCounted

(* Joining.                                                                *)
LEMMA JoiningPlaces ==
  ASSUME GInv, PlacesCounted, NEW c \in GroupCall,
         \/ \E u \in User : StartJoin(c, u)
         \/ \E t \in Token : ShowToken(c, t)
         \/ ShowCode(c) \/ ShowNothing(c) \/ Enter(c)
  PROVE  PlacesCounted'
<1> USE DEF GroupDo, BeginGroupCall, peopleRows, paperRows
<1>1. ASSUME NEW u \in User, StartJoin(c, u) PROVE PlacesCounted'
  <2> SUFFICES ASSUME MaxMembers # 0
               PROVE  Cardinality(ByThemselves') + Cardinality(OnTheWay')
                        <= MaxMembers + Cardinality(GroupCall) - 1
    BY DEF PlacesCounted
  <2>1. ByThemselves' = ByThemselves /\ Cardinality(Members) < MaxMembers
    BY <1>1 DEF StartJoin, ByThemselves, Members
  <2>2. Cardinality(ByThemselves) <= Cardinality(Members)
    BY CountedFinite, FS_Subset DEF ByThemselves
  <2>3. Cardinality(OnTheWay') <= Cardinality(GroupCall)
    <3>1. OnTheWay' \subseteq GroupCall
      BY DEF OnTheWay
    <3> QED
      BY <3>1, GroupAssumption, FS_Subset
  <2> QED
    BY <2>1, <2>2, <2>3, CountedFinite, GroupAssumption
<1>2. groupCall[c].at \in {"arriving", "entering"} => c \in OnTheWay
  BY DEF OnTheWay
<1>3. ASSUME groupCall' = [groupCall EXCEPT ![c] = GroupIdle]
      PROVE  OnTheWay' \subseteq OnTheWay \ {c}
  BY <1>3, GroupCallForms DEF OnTheWay, GInv, GroupShape
<1>4. ASSUME NEW t \in Token, ShowToken(c, t) PROVE PlacesCounted'
  <2>1. ByThemselves' = ByThemselves
    BY <1>4 DEF ShowToken, ByThemselves, Members
  <2>2. OnTheWay' \subseteq OnTheWay
    BY <1>4, <1>2 DEF ShowToken, OnTheWay, GInv, GroupShape
  <2> QED
    BY <2>1, <2>2, NoMorePlaces
<1>5. CASE ShowCode(c)
  <2>1. ByThemselves' = ByThemselves
    BY <1>5 DEF ShowCode, ByThemselves, Members
  <2>2. OnTheWay' \subseteq OnTheWay
    BY <1>5, <1>2 DEF ShowCode, OnTheWay, GInv, GroupShape
  <2> QED
    BY <2>1, <2>2, NoMorePlaces
<1>6. CASE ShowNothing(c)
  <2>1. ByThemselves' \subseteq ByThemselves \cup {groupCall[c].user}
    BY <1>6 DEF ShowNothing, Admit, ByThemselves, Members, GInv, GroupShape, GroupTypeOK
  <2> QED
    BY <1>2, <1>3, <1>6, <2>1, PlaceTaken DEF ShowNothing
<1>7. CASE Enter(c)
  <2>1. ByThemselves' \subseteq ByThemselves \cup {groupCall[c].user}
    <3>1. CASE role[groupCall[c].user] # "none"
      BY <1>7, <3>1 DEF Enter, ByThemselves, Members
    <3>2. CASE role[groupCall[c].user] = "none"
      BY <1>7, <3>2 DEF Enter, Admit, ByThemselves, Members, GInv, GroupShape, GroupTypeOK
    <3> QED
      BY <3>1, <3>2
  <2> QED
    BY <1>2, <1>3, <1>7, <2>1, PlaceTaken DEF Enter
<1> QED
  BY <1>1, <1>4, <1>5, <1>6, <1>7

(* An officer lets in whom he decided about, and takes nobody's place.     *)
LEMMA ManagingPlaces ==
  ASSUME GInv, PlacesCounted, NEW c \in GroupCall,
         \/ \E o \in User, u \in User : \/ CheckRemoval(c, o, u)
                             \/ \E yes \in BOOLEAN : ReadRequest(c, u, o, yes)
                             \/ \E r \in Appointable : CheckAppointment(c, o, u, r)
         \/ DecideRequest(c) \/ Appoint(c) \/ RemoveMember(c) \/ GroupCallDies(c)
  PROVE  PlacesCounted'
<1> USE DEF GroupDo, peopleRows, paperRows
<1>1. ASSUME NEW s, groupCall' = [groupCall EXCEPT ![c] = s],
             s.at \notin {"arriving", "entering"}
      PROVE  OnTheWay' \subseteq OnTheWay
  BY <1>1 DEF OnTheWay, GInv, GroupShape
<1>2. ASSUME \/ \E o \in User, u \in User :
                  \/ CheckRemoval(c, o, u)
                  \/ \E yes \in BOOLEAN : ReadRequest(c, u, o, yes)
                  \/ \E r \in Appointable : CheckAppointment(c, o, u, r)
      PROVE  PlacesCounted'
  <2>1. OnTheWay' \subseteq OnTheWay
    <3>1. ASSUME NEW o \in User, NEW u \in User, CheckRemoval(c, o, u)
          PROVE  OnTheWay' \subseteq OnTheWay
      BY <3>1 DEF CheckRemoval, BeginGroupCall, OnTheWay, GInv, GroupShape
    <3>2. ASSUME NEW o \in User, NEW u \in User, NEW yes \in BOOLEAN,
                 ReadRequest(c, u, o, yes)
          PROVE  OnTheWay' \subseteq OnTheWay
      BY <3>2 DEF ReadRequest, BeginGroupCall, OnTheWay, GInv, GroupShape
    <3>3. ASSUME NEW o \in User, NEW u \in User, NEW r \in Appointable,
                 CheckAppointment(c, o, u, r)
          PROVE  OnTheWay' \subseteq OnTheWay
      BY <3>3 DEF CheckAppointment, BeginGroupCall, OnTheWay, GInv, GroupShape
    <3> QED
      BY <1>2, <3>1, <3>2, <3>3
  <2>2. ByThemselves' = ByThemselves
    BY <1>2 DEF CheckRemoval, ReadRequest, CheckAppointment, ByThemselves, Members
  <2> QED
    BY <2>1, <2>2, NoMorePlaces
<1>3. ASSUME DecideRequest(c) \/ Appoint(c) \/ RemoveMember(c) \/ GroupCallDies(c)
      PROVE  PlacesCounted'
  <2>1. OnTheWay' \subseteq OnTheWay
    BY <1>1, <1>3, GroupCallForms DEF DecideRequest, Appoint, RemoveMember, GroupCallDies
  <2>2. CASE DecideRequest(c)
    <3>1. groupCall[c].approve \in BOOLEAN
      BY <2>2, GroupCallShape DEF DecideRequest, GInv, GroupShape
    <3>2. \/ UNCHANGED <<role, decided>>
          \/ Admit(groupCall[c].user, "request")
      BY <2>2, <3>1 DEF DecideRequest
    <3>3. ByThemselves' \subseteq ByThemselves
      BY <3>2 DEF Admit, ByThemselves, Members, GInv, GroupShape, GroupTypeOK
    <3> QED
      BY <2>1, <3>3, NoMorePlaces
  <2>3. CASE Appoint(c) \/ RemoveMember(c) \/ GroupCallDies(c)
    <3>1. ByThemselves' \subseteq ByThemselves
      BY <2>3 DEF Appoint, RemoveMember, GroupCallDies, ByThemselves, Members, GInv,
                  GroupShape, GroupTypeOK
    <3> QED
      BY <2>1, <3>1, NoMorePlaces
  <2> QED
    BY <1>3, <2>2, <2>3
<1> QED
  BY <1>2, <1>3

(* Every step of the group keeps the count.                                *)
LEMMA NextPlaces == GInv /\ PlacesCounted /\ [GroupNext]_groupVars => PlacesCounted'
<1> SUFFICES ASSUME GInv, PlacesCounted, [GroupNext]_groupVars PROVE PlacesCounted'
  OBVIOUS
<1>1. CASE UNCHANGED <<role, decided, groupCall>>
  <2>1. ByThemselves' = ByThemselves /\ OnTheWay' = OnTheWay
    BY <1>1 DEF ByThemselves, Members, OnTheWay
  <2> QED
    BY <2>1, NoMorePlaces
<1>2. CASE UNCHANGED groupVars
  BY <1>1, <1>2 DEF groupVars
<1>3. CASE PaperStep
  BY <1>1, <1>3, PaperGInv
<1> QED
  BY <1>2, <1>3, JoiningPlaces, ManagingPlaces DEF GroupNext, PaperStep

(* Members who came by themselves exceed the capacity at most by the joins *)
(* that overlap, whatever is removed, decided and appointed meanwhile      *)
(* (chamas.service.ts:358-361).                                            *)
THEOREM CapacityIsKept == GroupSpec => []CapacityKept
<1>1. PlacesCounted => CapacityKept
  BY CountedFinite, GroupAssumption DEF PlacesCounted, CapacityKept, ByThemselves
<1> QED
  BY <1>1, InitPlaces, NextPlaces, GroupInvariance, PTL DEF GroupSpec
-------------------------------------------------------------------------------
(* Shares.  A request that is about to write an offering back holds a copy *)
(* of it: if the copy counts shares as sold, or adds some, the offering has*)
(* a confirmed holding by now, for a confirmed holding stays one.          *)

HasConfirmed(o) ==
  \E h \in Holding : holding[h].status = "confirmed" /\ holding[h].offering = o

OfferingDoc == [sold : Nat, status : {"none", "open", "closed"}]

HoldingRow ==
  [offering : Offering, amount : Investment, shares : Nat, status : {"pending", "confirmed"}]

(* The copy of an offering counts shares as sold only if it has a holder.  *)
DocBacked(o, doc) ==
  o \in Offering /\ doc \in OfferingDoc /\ (doc.sold > 0 => HasConfirmed(o))

ShareCallOK(s) ==
  /\ s.at \in {"idle", "closing", "confirming", "selling", "adding", "indexing", "paying",
              "queueing"}
  /\ s.at \in {"closing", "selling"} => DocBacked(s.offering, s.doc)
  /\ s.at = "selling" => s.shares \in Nat /\ HasConfirmed(s.offering)
  /\ s.at = "confirming" => s.holding \in Holding /\ holding[s.holding].status = "confirmed"
  /\ s.at = "adding" => /\ s.holding \in Holding /\ holding[s.holding] = NoHolding
                        /\ s.row \in HoldingRow /\ s.row.status = "pending"
  /\ s.at = "indexing" => s.holding \in Holding
  /\ s.at = "queueing" => "at" \in DOMAIN s

(* Two requests never add the same holding.                                *)
OneAdder ==
  \A c, d \in ShareCall :
    shareCall[c].at = "adding" /\ shareCall[d].at = "adding" /\ c # d =>
      shareCall[c].holding # shareCall[d].holding

ShareRows ==
  /\ offering \in [Offering -> OfferingDoc]
  /\ holding \in [Holding -> HoldingRow \cup {NoHolding}]
  /\ DOMAIN shareCall = ShareCall

ShareInv ==
  /\ ShareRows
  /\ \A o \in Offering : DocBacked(o, offering[o])
  /\ \A c \in ShareCall : ShareCallOK(shareCall[c])
  /\ OneAdder

(* Nothing is sold yet.                                                    *)
LEMMA InitShareInv == ShareInit => ShareInv
BY DEF ShareInit, ShareInv, ShareRows, DocBacked, ShareCallOK, OneAdder, OfferingDoc,
       ShareIdle, NoHolding

(* What a step that changes no holding does to one request.                *)
LEMMA ShareStep ==
  ASSUME ShareInv, NEW c \in ShareCall, NEW s, ShareDo(c, s), ShareCallOK(s),
         UNCHANGED <<offering, holding>>,
         s.at # "adding"
  PROVE  ShareInv'
<1>1. /\ DOMAIN shareCall' = ShareCall
      /\ shareCall'[c] = s
      /\ \A d \in ShareCall : d # c => shareCall'[d] = shareCall[d]
  BY DEF ShareDo, ShareInv, ShareRows
<1>2. \A d \in ShareCall : ShareCallOK(shareCall[d])'
  BY <1>1 DEF ShareInv, ShareCallOK, DocBacked, HasConfirmed
<1>3. OneAdder'
  BY <1>1 DEF ShareInv, OneAdder
<1>4. \A o \in Offering : DocBacked(o, offering[o])'
  BY DEF ShareInv, DocBacked, HasConfirmed
<1> QED
  BY <1>1, <1>2, <1>3, <1>4 DEF ShareInv, ShareRows

(* Idle and paying requests hold nothing of an offering.                   *)
LEMMA HoldsNothing ==
  ASSUME NEW s, s.at \in {"idle", "paying"} \/ (s.at = "queueing" /\ "at" \in DOMAIN s)
  PROVE  ShareCallOK(s) /\ s.at # "adding"
BY DEF ShareCallOK

(* An offering written back by a request that is done with it.             *)
LEMMA WriteOffering ==
  ASSUME ShareInv, NEW c \in ShareCall, NEW o, NEW doc, DocBacked(o, doc),
         offering' = [offering EXCEPT ![o] = doc], UNCHANGED holding,
         ShareDo(c, ShareIdle)
  PROVE  ShareInv'
<1>1. /\ DOMAIN shareCall' = ShareCall
      /\ shareCall'[c] = ShareIdle /\ ShareIdle.at = "idle"
      /\ \A d \in ShareCall : d # c => shareCall'[d] = shareCall[d]
  BY DEF ShareDo, ShareInv, ShareRows, ShareIdle
<1>2. \A d \in ShareCall : ShareCallOK(shareCall[d])'
  BY <1>1 DEF ShareInv, ShareCallOK, DocBacked, HasConfirmed
<1>3. OneAdder'
  BY <1>1 DEF ShareInv, OneAdder
<1>4. offering' \in [Offering -> OfferingDoc]
  BY DEF ShareInv, ShareRows, DocBacked
<1>5. \A p \in Offering : DocBacked(p, offering[p])'
  BY <1>4 DEF ShareInv, ShareRows, DocBacked, HasConfirmed
<1> QED
  BY <1>1, <1>2, <1>3, <1>4, <1>5 DEF ShareInv, ShareRows

(* A holding written: what was confirmed stays so, at the same offering,   *)
(* and what a request is about to add is still missing.                    *)
LEMMA WriteHolding ==
  ASSUME ShareInv, NEW c \in ShareCall, NEW h \in Holding, NEW row \in HoldingRow,
         NEW s, ShareDo(c, s), s.at # "adding", ShareCallOK(s)',
         holding' = [holding EXCEPT ![h] = row], UNCHANGED offering,
         holding[h].status = "confirmed" =>
           row.status = "confirmed" /\ row.offering = holding[h].offering,
         \A d \in ShareCall :
           d # c /\ shareCall[d].at = "adding" => shareCall[d].holding # h
  PROVE  ShareInv'
<1>1. /\ DOMAIN shareCall' = ShareCall
      /\ shareCall'[c] = s
      /\ \A d \in ShareCall : d # c => shareCall'[d] = shareCall[d]
  BY DEF ShareDo, ShareInv, ShareRows
<1>2. holding' \in [Holding -> HoldingRow \cup {NoHolding}]
  BY DEF ShareInv, ShareRows
<1>3. /\ holding'[h] = row
      /\ \A g \in Holding : g # h => holding'[g] = holding[g]
  BY DEF ShareInv, ShareRows
<1>4. \A o : HasConfirmed(o) => HasConfirmed(o)'
  BY <1>3 DEF HasConfirmed
<1>5. ASSUME NEW d \in ShareCall PROVE ShareCallOK(shareCall[d])'
  <2>1. CASE d = c
    BY <1>1, <2>1
  <2>2. CASE d # c
    <3>1. ShareCallOK(shareCall[d]) /\ shareCall'[d] = shareCall[d]
      BY <1>1, <2>2 DEF ShareInv
    <3> QED
      BY <1>3, <1>4, <2>2, <3>1 DEF ShareCallOK, DocBacked
  <2> QED
    BY <2>1, <2>2
<1>6. OneAdder'
  BY <1>1 DEF ShareInv, OneAdder
<1>7. \A o \in Offering : DocBacked(o, offering[o])'
  BY <1>4 DEF ShareInv, DocBacked
<1> QED
  BY <1>1, <1>2, <1>5, <1>6, <1>7 DEF ShareInv, ShareRows

(* Every step keeps the invariant.                                         *)
LEMMA NextShareInv == ShareInv /\ [ShareNext]_shareVars => ShareInv'
<1> SUFFICES ASSUME ShareInv, [ShareNext]_shareVars PROVE ShareInv'
  OBVIOUS
<1> USE DEF ShareIdle
<1>1. ASSUME UNCHANGED <<offering, holding, shareCall>> PROVE ShareInv'
  BY <1>1 DEF ShareInv, ShareRows, DocBacked, HasConfirmed, ShareCallOK, OneAdder
<1>2. ASSUME NEW o \in Offering, CreateOffering(o) PROVE ShareInv'
  <2>1. offering' \in [Offering -> OfferingDoc]
    BY <1>2 DEF CreateOffering, ShareInv, ShareRows, OfferingDoc
  <2>2. \A p \in Offering : offering'[p].sold = offering[p].sold
    BY <1>2 DEF CreateOffering, ShareInv, ShareRows, OfferingDoc
  <2>3. \A p \in Offering : DocBacked(p, offering[p])'
    BY <1>2, <2>1, <2>2 DEF CreateOffering, ShareInv, DocBacked, HasConfirmed
  <2> QED
    BY <1>2, <2>1, <2>3
    DEF CreateOffering, ShareInv, ShareRows, ShareCallOK, OneAdder, DocBacked, HasConfirmed
<1>3. ASSUME NEW c \in ShareCall, NEW o \in Offering, ReadToCloseOffering(c, o)
      PROVE  ShareInv'
  <2> DEFINE s == [at |-> "closing", offering |-> o, doc |-> offering[o]]
  <2>1. ShareCallOK(s) /\ s.at # "adding"
    BY DEF ShareInv, ShareCallOK
  <2>2. ShareDo(c, s) /\ UNCHANGED <<offering, holding>>
    BY <1>3 DEF ReadToCloseOffering
  <2> HIDE DEF s
  <2> QED
    BY <2>1, <2>2, ShareStep
<1>4. ASSUME NEW c \in ShareCall, CloseOffering(c) PROVE ShareInv'
  <2> DEFINE doc == [shareCall[c].doc EXCEPT !.status = "closed"]
  <2>1. DocBacked(shareCall[c].offering, shareCall[c].doc)
    BY <1>4 DEF CloseOffering, ShareInv, ShareCallOK
  <2>2. DocBacked(shareCall[c].offering, doc)
    BY <2>1 DEF DocBacked, OfferingDoc
  <2>3. /\ offering' = [offering EXCEPT ![shareCall[c].offering] = doc]
        /\ UNCHANGED holding /\ ShareDo(c, ShareIdle)
    BY <1>4 DEF CloseOffering
  <2> HIDE DEF doc
  <2> QED
    BY <2>2, <2>3, WriteOffering
<1>5. ASSUME NEW c \in ShareCall, NEW o \in Offering, NEW h \in Holding, NEW x \in Investment,
             Invest(c, o, h, x)
      PROVE  ShareInv'
  <2> DEFINE row == [offering |-> o, amount |-> x, shares |-> x \div Price,
                     status |-> "pending"]
             s == [at |-> "adding", holding |-> h, row |-> row]
  <2>1. x \div Price \in Nat
    BY ShareAssumption
  <2>2. row \in HoldingRow /\ row.status = "pending"
    BY <2>1 DEF HoldingRow
  <2>3. ShareDo(c, s) /\ UNCHANGED <<offering, holding>> /\ holding[h] = NoHolding
    BY <1>5 DEF Invest
  <2> HIDE DEF row
  <2>4. ShareCallOK(s) /\ s.at = "adding" /\ s.holding = h
    BY <2>2, <2>3 DEF ShareCallOK
  <2>5. \A d \in ShareCall : shareCall[d].at = "adding" => shareCall[d].holding # h
    BY <1>5 DEF Invest
  <2> HIDE DEF s
  <2>6. /\ DOMAIN shareCall' = ShareCall
        /\ shareCall'[c] = s
        /\ \A d \in ShareCall : d # c => shareCall'[d] = shareCall[d]
    BY <2>3 DEF ShareDo, ShareInv, ShareRows
  <2>7. OneAdder'
    BY <2>4, <2>5, <2>6 DEF ShareInv, OneAdder
  <2>8. \A d \in ShareCall : ShareCallOK(shareCall[d])'
    BY <2>3, <2>4, <2>6 DEF ShareInv, ShareCallOK, DocBacked, HasConfirmed
  <2> QED
    BY <2>3, <2>6, <2>7, <2>8 DEF ShareInv, ShareRows, DocBacked, HasConfirmed
<1>6. ASSUME NEW c \in ShareCall, AddHolding(c) PROVE ShareInv'
  <2>0. PICK h, row : h = shareCall[c].holding /\ row = shareCall[c].row
    OBVIOUS
  <2> DEFINE s == [at |-> "indexing", holding |-> h]
  <2>1. /\ h \in Holding /\ holding[h] = NoHolding /\ row \in HoldingRow
        /\ shareCall[c].at = "adding"
    BY <1>6, <2>0 DEF AddHolding, ShareInv, ShareCallOK
  <2>2. holding[h].status = "confirmed" =>
          row.status = "confirmed" /\ row.offering = holding[h].offering
    BY <2>1 DEF NoHolding
  <2>3. \A d \in ShareCall : d # c /\ shareCall[d].at = "adding" => shareCall[d].holding # h
    BY <2>0, <2>1 DEF ShareInv, OneAdder
  <2>4. /\ holding' = [holding EXCEPT ![h] = row]
        /\ UNCHANGED offering /\ ShareDo(c, s)
    BY <1>6, <2>0 DEF AddHolding
  <2>5. ShareCallOK(s)' /\ s.at # "adding"
    BY <2>1 DEF ShareCallOK
  <2>6. h \in Holding /\ row \in HoldingRow
    BY <2>1
  <2> HIDE DEF s
  <2> QED
    BY <2>2, <2>3, <2>4, <2>5, <2>6, WriteHolding
<1>7. ASSUME NEW c \in ShareCall, NEW h \in Holding, ConfirmHolding(c, h) PROVE ShareInv'
  <2> DEFINE row == [holding[h] EXCEPT !.status = "confirmed"]
             s == [at |-> "confirming", holding |-> h]
  <2>1. holding[h] \in HoldingRow
    BY <1>7 DEF ConfirmHolding, ShareInv, ShareRows
  <2>2. row \in HoldingRow /\ row.status = "confirmed" /\ row.offering = holding[h].offering
    BY <2>1 DEF HoldingRow
  <2>3. holding' = [holding EXCEPT ![h] = row] /\ UNCHANGED offering /\ ShareDo(c, s)
    BY <1>7 DEF ConfirmHolding, ShareInv, ShareRows
  <2> HIDE DEF row
  <2>4. holding'[h] = row
    BY <2>3 DEF ShareInv, ShareRows
  <2>5. ShareCallOK(s)' /\ s.at # "adding"
    BY <2>2, <2>4 DEF ShareCallOK
  <2>6. \A d \in ShareCall : d # c /\ shareCall[d].at = "adding" => shareCall[d].holding # h
    BY <1>7 DEF ConfirmHolding, ShareInv, ShareCallOK
  <2> HIDE DEF s
  <2> QED
    BY <2>2, <2>3, <2>5, <2>6, WriteHolding
<1>8. ASSUME NEW c \in ShareCall, ReadOffering(c) PROVE ShareInv'
  <2> DEFINE h == shareCall[c].holding
             s == [at |-> "selling", offering |-> holding[h].offering,
                   doc |-> offering[holding[h].offering], shares |-> holding[h].shares]
  <2>1. h \in Holding /\ holding[h].status = "confirmed"
    BY <1>8 DEF ReadOffering, ShareInv, ShareCallOK
  <2>2. holding[h] \in HoldingRow
    BY <2>1 DEF ShareInv, ShareRows, NoHolding
  <2>3. holding[h].offering \in Offering /\ holding[h].shares \in Nat
    BY <2>2 DEF HoldingRow
  <2>4. HasConfirmed(holding[h].offering)
    BY <2>1 DEF HasConfirmed
  <2>5. ShareDo(c, s) /\ UNCHANGED <<offering, holding>>
    BY <1>8 DEF ReadOffering
  <2>6. DocBacked(holding[h].offering, offering[holding[h].offering])
    BY <2>3 DEF ShareInv
  <2> HIDE DEF h
  <2>7. ShareCallOK(s) /\ s.at # "adding"
    BY <2>3, <2>4, <2>6 DEF ShareCallOK
  <2> HIDE DEF s
  <2> QED
    BY <2>5, <2>7, ShareStep
<1>9. ASSUME NEW c \in ShareCall, SellShares(c) PROVE ShareInv'
  <2> DEFINE sold == shareCall[c].doc.sold + shareCall[c].shares
             doc == [sold |-> sold,
                     status |-> IF sold >= TotalShares THEN "closed"
                                ELSE shareCall[c].doc.status]
  <2>1. /\ DocBacked(shareCall[c].offering, shareCall[c].doc)
        /\ HasConfirmed(shareCall[c].offering) /\ shareCall[c].shares \in Nat
    BY <1>9 DEF SellShares, ShareInv, ShareCallOK
  <2>2. DocBacked(shareCall[c].offering, doc)
    BY <2>1 DEF DocBacked, OfferingDoc
  <2>3. /\ offering' = [offering EXCEPT ![shareCall[c].offering] = doc]
        /\ UNCHANGED holding /\ ShareDo(c, ShareIdle)
    BY <1>9 DEF SellShares
  <2> HIDE DEF doc
  <2> QED
    BY <2>2, <2>3, WriteOffering
<1>10. ASSUME NEW c \in ShareCall, NEW pot \in Pot, NEW n \in Signatures,
              DeclareDividend(c, pot, n)
       PROVE  ShareInv'
  <2> DEFINE s == [at |-> "paying", sigs |-> n,
                   cuts |-> [i \in {j \in Holders \ Anonymous : Cut(j, pot) > 0} |->
                               Cut(i, pot)]]
  <2>1. s.at = "paying"
    OBVIOUS
  <2>2. ShareDo(c, s) /\ UNCHANGED <<offering, holding>>
    BY <1>10 DEF DeclareDividend
  <2> HIDE DEF s
  <2> QED
    BY <2>1, <2>2, HoldsNothing, ShareStep
<1>11. ASSUME NEW c \in ShareCall, NEW i \in Investor, CreatePayout(c, i) PROVE ShareInv'
  <2> DEFINE cuts == shareCall[c].cuts
             p == [n |-> Cardinality(payouts) + 1, to |-> i, cents |-> cuts[i],
                   status |-> IF shareCall[c].sigs > 1 THEN "awaiting_signatures"
                              ELSE "pending"]
             s == [at |-> IF p.status = "pending" THEN "queueing" ELSE "paying",
                   sigs |-> shareCall[c].sigs, payout |-> p,
                   cuts |-> [j \in DOMAIN cuts \ {i} |-> cuts[j]]]
  <2>1. s.at \in {"queueing", "paying"} /\ "at" \in DOMAIN s
    OBVIOUS
  <2>2. ShareDo(c, s) /\ UNCHANGED <<offering, holding>>
    BY <1>11 DEF CreatePayout
  <2> HIDE DEF s
  <2> QED
    BY <2>1, <2>2, HoldsNothing, ShareStep
<1>12. ASSUME NEW c \in ShareCall, EnqueuePayout(c) PROVE ShareInv'
  <2> DEFINE s == [shareCall[c] EXCEPT !.at = "paying"]
  <2>1. "at" \in DOMAIN shareCall[c]
    BY <1>12 DEF EnqueuePayout, ShareInv, ShareCallOK
  <2>2. s.at = "paying"
    BY <2>1
  <2>3. ShareDo(c, s) /\ UNCHANGED <<offering, holding>>
    BY <1>12 DEF EnqueuePayout
  <2> HIDE DEF s
  <2> QED
    BY <2>2, <2>3, HoldsNothing, ShareStep
<1>13. ASSUME NEW c \in ShareCall, ShareCallEnds(c) \/ IndexHolding(c) PROVE ShareInv'
  <2>1. ShareIdle.at = "idle"
    OBVIOUS
  <2>2. ShareDo(c, ShareIdle) /\ UNCHANGED <<offering, holding>>
    BY <1>13 DEF ShareCallEnds, IndexHolding
  <2> HIDE DEF ShareIdle
  <2> QED
    BY <2>1, <2>2, HoldsNothing, ShareStep
<1>14. CASE UNCHANGED shareVars
  BY <1>1, <1>14 DEF shareVars
<1>15. CASE CreateLink \/ DisableLink
  BY <1>1, <1>15 DEF CreateLink, DisableLink
<1>16. CASE ShareNext
  BY <1>2, <1>3, <1>4, <1>5, <1>6, <1>7, <1>8, <1>9, <1>10, <1>11, <1>12, <1>13, <1>15, <1>16
  DEF ShareNext, InvestByLink
<1> QED
  BY <1>14, <1>16

(* The invariant of the offerings.                                         *)
THEOREM ShareInvariance == ShareSpec => []ShareInv
BY InitShareInv, NextShareInv, PTL DEF ShareSpec

(* No offering sells without holders: shares that it counts as sold are    *)
(* backed by a confirmed holding of it, however the reads and writes of    *)
(* requests fall and wherever one stops (share-offering.service.ts:146).   *)
THEOREM SalesHaveHolders == ShareSpec => []SoldToSomebody
<1>1. ShareInv => SoldToSomebody
  BY DEF ShareInv, DocBacked, HasConfirmed, SoldToSomebody
<1> QED
  BY <1>1, ShareInvariance, PTL
-------------------------------------------------------------------------------
(* Bidding.  Whatever documents requests carry and write over each other,  *)
(* each of them is in order by itself: one bid per member, every bid at its*)
(* own time and below the pot, and, when settled, the best of its bids the *)
(* winner.                                                                 *)

BidRow == [by : Bidder, kes : 1 .. PotKes - 1, time : Nat]

BidDoc ==
  [status : {"open", "closed", "settled"}, bids : SUBSET BidRow,
   winner : Bidder \cup {Nobody}, kes : Nat]

WonByTheBest(doc) ==
  /\ \E b \in doc.bids :
       /\ b.by = doc.winner /\ b.kes = doc.kes
       /\ \A d \in doc.bids : d # b => d.by # b.by /\ Beats(b, d)
  /\ doc.kes < PotKes

DocOK(doc) ==
  /\ doc \in BidDoc
  /\ \A b \in doc.bids : b.time <= bidsMade
  /\ \A b, d \in doc.bids : b # d => b.by # d.by /\ b.time # d.time
  /\ doc.status = "settled" => WonByTheBest(doc)

BidCallOK(s) ==
  /\ s.at \in {"idle", "opening", "bidding", "storing", "settling"}
  /\ s.at \in {"bidding", "storing", "settling"} => DocOK(s.doc)
  /\ s.at = "bidding" => /\ s.by \in Bidder /\ s.kes \in 1 .. PotKes - 1
                         /\ s.doc.status = "open"
  /\ s.at = "settling" => s.doc.bids # {}

BidInv ==
  /\ bidsMade \in Nat
  /\ round = NoRound \/ DocOK(round)
  /\ DOMAIN bidCall = BidCall
  /\ \A c \in BidCall : BidCallOK(bidCall[c])

(* The closing finds a best bid: of the highest ones, the first.           *)
LEMMA BestIsThere ==
  ASSUME NEW bids, bids \subseteq BidRow, bids # {},
         \A b, d \in bids : b # d => b.time # d.time
  PROVE  Best(bids) \in bids /\ \A d \in bids \ {Best(bids)} : Beats(Best(bids), d)
<1> USE BidAssumption
<1>1. \A b \in bids : b.kes \in 1 .. PotKes - 1 /\ b.time \in Nat /\ PotKes - b.kes \in Nat
  BY DEF BidRow
<1>2. PICK top \in bids : \A d \in bids : d.kes <= top.kes
  <2> DEFINE T == {PotKes - b.kes : b \in bids}
  <2>1. T \subseteq Nat /\ T # {}
    BY <1>1
  <2>2. PICK x \in T : \A y \in T : x <= y
    BY <2>1, LeastNumber
  <2>3. PICK b \in bids : x = PotKes - b.kes
    BY <2>2
  <2>4. ASSUME NEW d \in bids PROVE d.kes <= b.kes
    <3>1. PotKes - b.kes <= PotKes - d.kes
      BY <2>2, <2>3
    <3> QED
      BY <1>1, <3>1
  <2> QED
    BY <2>4
<1> DEFINE highest == {b \in bids : b.kes = top.kes}
<1>3. PICK b \in highest : \A d \in highest : b.time <= d.time
  <2> DEFINE T == {d.time : d \in highest}
  <2>1. T \subseteq Nat /\ T # {}
    BY <1>1
  <2>2. PICK x \in T : \A y \in T : x <= y
    BY <2>1, LeastNumber
  <2> QED
    BY <2>2
<1>4. ASSUME NEW d \in bids \ {b} PROVE Beats(b, d)
  <2>1. b.kes \in Int /\ d.kes \in Int /\ b.time \in Nat /\ d.time \in Nat
    BY <1>1
  <2>2. d.time # b.time /\ d.kes <= b.kes
    BY <1>2
  <2>3. d.kes = b.kes => b.time <= d.time
    BY <1>3
  <2> QED
    BY <2>1, <2>2, <2>3 DEF Beats
<1>5. \E x \in bids : \A d \in bids \ {x} : Beats(x, d)
  BY <1>4
<1> QED
  BY <1>5 DEF Best

(* No document is out of order because another bid was made meanwhile.     *)
LEMMA LaterDoc ==
  ASSUME bidsMade \in Nat, bidsMade' \in {bidsMade, bidsMade + 1},
         NEW CONSTANT doc, DocOK(doc)
  PROVE  DocOK(doc)'
<1>1. \A b \in doc.bids : b.time \in Nat /\ b.time <= bidsMade
  BY DEF DocOK, BidDoc, BidRow
<1>2. \A b \in doc.bids : b.time <= bidsMade'
  BY <1>1
<1> QED
  BY <1>2 DEF DocOK, WonByTheBest

(* What a step that writes no round does to one request.                   *)
LEMMA BidStep ==
  ASSUME BidInv, NEW c \in BidCall, NEW CONSTANT s, BidDo(c, s), BidCallOK(s)',
         bidsMade' \in {bidsMade, bidsMade + 1}, UNCHANGED round
  PROVE  BidInv'
<1>1. /\ DOMAIN bidCall' = BidCall
      /\ bidCall'[c] = s
      /\ \A d \in BidCall : d # c => bidCall'[d] = bidCall[d]
  BY DEF BidDo, BidInv
<1>2. ASSUME NEW CONSTANT x, BidCallOK(x) PROVE BidCallOK(x)'
  BY <1>2, LaterDoc DEF BidCallOK, BidInv
<1>3. \A d \in BidCall : BidCallOK(bidCall[d])'
  <2> TAKE d \in BidCall
  <2>1. CASE d = c
    BY <1>1, <2>1
  <2>2. CASE d # c
    BY <1>1, <1>2, <2>2 DEF BidInv
  <2> QED
    BY <2>1, <2>2
<1>4. (round = NoRound \/ DocOK(round))'
  BY LaterDoc DEF BidInv, NoRound
<1>5. bidsMade' \in Nat
  BY DEF BidInv
<1> QED
  BY <1>1, <1>3, <1>4, <1>5 DEF BidInv

(* The common case: no bid is made.                                        *)
LEMMA BidStepQuiet ==
  ASSUME BidInv, NEW c \in BidCall, NEW CONSTANT s, BidDo(c, s), BidCallOK(s),
         UNCHANGED <<bidsMade, round>>
  PROVE  BidInv'
<1>1. BidCallOK(s)'
  BY LaterDoc DEF BidCallOK, BidInv
<1> QED
  BY <1>1, BidStep

(* A document written by the request that carries it.                      *)
LEMMA WriteRound ==
  ASSUME BidInv, NEW c \in BidCall, BidDo(c, BidIdle), DocOK(round'), UNCHANGED bidsMade
  PROVE  BidInv'
<1>1. /\ DOMAIN bidCall' = BidCall
      /\ bidCall'[c] = BidIdle /\ BidIdle.at = "idle"
      /\ \A d \in BidCall : d # c => bidCall'[d] = bidCall[d]
  BY DEF BidDo, BidInv, BidIdle
<1>2. ASSUME NEW CONSTANT x, BidCallOK(x) PROVE BidCallOK(x)'
  BY <1>2, LaterDoc DEF BidCallOK, BidInv
<1>3. BidCallOK(BidIdle)
  BY <1>1 DEF BidCallOK
<1>4. \A d \in BidCall : BidCallOK(bidCall[d])'
  <2> TAKE d \in BidCall
  <2>1. BidCallOK(bidCall'[d])
    BY <1>1, <1>3 DEF BidInv
  <2> QED
    BY <1>2, <2>1
<1>5. DocOK(round)'
  BY DEF DocOK, WonByTheBest
<1> QED
  BY <1>1, <1>4, <1>5 DEF BidInv

(* Nobody has bid yet.                                                     *)
LEMMA InitBidInv == BidInit => BidInv
BY DEF BidInit, BidInv, BidCallOK, BidIdle

(* A bid replaces an earlier one of the member, in the copy the request    *)
(* carries.                                                                *)
LEMMA CheckBidderInv ==
  ASSUME BidInv, NEW c \in BidCall, CheckBidder(c)
  PROVE  BidInv'
<1>1. /\ DocOK(bidCall[c].doc) /\ bidCall[c].by \in Bidder
      /\ bidCall[c].kes \in 1 .. PotKes - 1 /\ bidCall[c].doc.status = "open"
      /\ bidsMade \in Nat
  BY DEF CheckBidder, BidInv, BidCallOK
<1>2. PICK old, u, k : old = bidCall[c].doc /\ u = bidCall[c].by /\ k = bidCall[c].kes
  OBVIOUS
<1> DEFINE kept == {b \in old.bids : b.by # u}
<1>3. PICK n : n = bidsMade
  OBVIOUS
<1> DEFINE new == [by |-> u, kes |-> k, time |-> n + 1]
           doc == [old EXCEPT !.bids = kept \cup {new}]
           s   == [at |-> "storing", doc |-> doc]
<1>4. CASE u \in inGroup
  <2>1. BidDo(c, s) /\ bidsMade' = bidsMade + 1 /\ UNCHANGED round
    BY <1>2, <1>3, <1>4 DEF CheckBidder
  <2>2. DocOK(old) /\ old \in BidDoc /\ old.status = "open"
    BY <1>1, <1>2 DEF DocOK
  <2>3. new \in BidRow /\ new.by = u /\ new.time = n + 1
    BY <1>1, <1>2, <1>3 DEF BidRow
  <2> HIDE DEF new
  <2>4. /\ doc \in BidDoc /\ doc.status = "open"
        /\ doc.bids = kept \cup {new}
    BY <2>2, <2>3 DEF BidDoc
  <2>5. \A b \in kept : b.time <= n /\ b.by # u /\ b.time \in Nat
    BY <1>3, <2>2 DEF DocOK, BidDoc, BidRow
  <2>6. \A b, d \in kept : b # d => b.by # d.by /\ b.time # d.time
    BY <2>2 DEF DocOK
  <2>7. \A b \in doc.bids : b.time <= bidsMade'
    BY <1>1, <1>3, <2>1, <2>3, <2>4, <2>5
  <2>8. \A b, d \in doc.bids : b # d => b.by # d.by /\ b.time # d.time
    BY <1>1, <1>3, <2>3, <2>4, <2>5, <2>6
  <2> HIDE DEF doc
  <2>9. DocOK(doc)'
    BY <2>4, <2>7, <2>8 DEF DocOK
  <2>10. BidCallOK(s)'
    BY <2>9 DEF BidCallOK
  <2> HIDE DEF s
  <2> QED
    BY <2>1, <2>10, BidStep
<1>5. CASE u \notin inGroup
  <2>1. BidDo(c, BidIdle) /\ UNCHANGED <<bidsMade, round>>
    BY <1>2, <1>5 DEF CheckBidder
  <2>2. BidCallOK(BidIdle)
    BY DEF BidIdle, BidCallOK
  <2> QED
    BY <2>1, <2>2, BidStepQuiet
<1> QED
  BY <1>4, <1>5

(* The closing declares the best bid of the copy it read the winner.       *)
LEMMA SettleRoundInv ==
  ASSUME BidInv, NEW c \in BidCall, SettleRound(c)
  PROVE  BidInv'
<1>1. DocOK(bidCall[c].doc) /\ bidCall[c].doc.bids # {}
  BY DEF SettleRound, BidInv, BidCallOK
<1>2. PICK old : old = bidCall[c].doc
  OBVIOUS
<1>3. PICK best : best = Best(old.bids)
  OBVIOUS
<1> DEFINE doc == [old EXCEPT !.status = "settled", !.winner = best.by, !.kes = best.kes]
           s   == [at |-> "storing", doc |-> doc]
<1>4. BidDo(c, s) /\ UNCHANGED <<bidsMade, round>>
  BY <1>2, <1>3 DEF SettleRound
<1>5. old \in BidDoc /\ old.bids \subseteq BidRow /\ DocOK(old) /\ old.bids # {}
  BY <1>1, <1>2 DEF DocOK, BidDoc
<1>6. best \in old.bids /\ \A d \in old.bids \ {best} : Beats(best, d)
  BY <1>3, <1>5, BestIsThere DEF DocOK
<1>7. best.by \in Bidder /\ best.kes \in 1 .. PotKes - 1
  BY <1>5, <1>6 DEF BidRow
<1>8. /\ doc \in BidDoc /\ doc.bids = old.bids /\ doc.winner = best.by
      /\ doc.kes = best.kes
  <2>1. best.kes \in Nat
    BY <1>7, BidAssumption
  <2> QED
    BY <1>5, <1>7, <2>1 DEF BidDoc
<1> HIDE DEF doc
<1>9. WonByTheBest(doc)
  <2>1. \A d \in old.bids : d # best => d.by # best.by /\ Beats(best, d)
    BY <1>5, <1>6 DEF DocOK
  <2>2. doc.kes < PotKes
    BY <1>7, <1>8, BidAssumption
  <2> QED
    BY <1>6, <1>8, <2>1, <2>2 DEF WonByTheBest
<1>10. BidCallOK(s)
  BY <1>5, <1>8, <1>9 DEF BidCallOK, DocOK
<1> HIDE DEF s
<1> QED
  BY <1>4, <1>10, BidStepQuiet

(* Every step keeps the invariant.                                         *)
LEMMA NextBidInv == BidInv /\ [BidNext]_bidVars => BidInv'
<1> SUFFICES ASSUME BidInv, [BidNext]_bidVars PROVE BidInv'
  OBVIOUS
<1>1. ASSUME UNCHANGED <<round, bidsMade, bidCall>> PROVE BidInv'
  BY <1>1 DEF BidInv, BidCallOK, DocOK, WonByTheBest
<1>2. ASSUME NEW c \in BidCall, ReadToOpen(c) PROVE BidInv'
  <2> DEFINE s == [at |-> "opening"]
  <2>1. BidCallOK(s)
    BY DEF BidCallOK
  <2>2. BidDo(c, s) /\ UNCHANGED <<bidsMade, round>>
    BY <1>2 DEF ReadToOpen
  <2> HIDE DEF s
  <2> QED
    BY <2>1, <2>2, BidStepQuiet
<1>3. ASSUME NEW c \in BidCall, OpenBidRound(c) PROVE BidInv'
  <2> DEFINE doc == [status |-> "open", bids |-> {}, winner |-> Nobody, kes |-> 0]
  <2>1. DocOK(doc)
    BY DEF DocOK, BidDoc
  <2>2. round' = doc /\ BidDo(c, BidIdle) /\ UNCHANGED bidsMade
    BY <1>3 DEF OpenBidRound
  <2> HIDE DEF doc
  <2> QED
    BY <2>1, <2>2, WriteRound
<1>4. ASSUME NEW c \in BidCall, StoreRound(c) PROVE BidInv'
  <2>1. DocOK(bidCall[c].doc)
    BY <1>4 DEF StoreRound, BidInv, BidCallOK
  <2>2. round' = bidCall[c].doc /\ BidDo(c, BidIdle) /\ UNCHANGED bidsMade
    BY <1>4 DEF StoreRound
  <2> QED
    BY <2>1, <2>2, WriteRound
<1>5. ASSUME NEW c \in BidCall, ReadRound(c) PROVE BidInv'
  <2>1. DocOK(round) /\ round.status = "open"
    BY <1>5 DEF ReadRound, BidInv, NoRound
  <2>2. CASE round.bids = {}
    <3>1. PICK doc : doc = [round EXCEPT !.status = "closed"]
      OBVIOUS
    <3>2. DocOK(doc)
      <4>1. doc \in BidDoc /\ doc.status = "closed" /\ doc.bids = round.bids
        BY <2>1, <3>1 DEF DocOK, BidDoc
      <4> QED
        BY <2>1, <4>1 DEF DocOK
    <3> DEFINE s == [at |-> "storing", doc |-> doc]
    <3>3. BidCallOK(s)
      BY <3>2 DEF BidCallOK
    <3>4. BidDo(c, s) /\ UNCHANGED <<bidsMade, round>>
      BY <1>5, <2>2, <3>1 DEF ReadRound
    <3> HIDE DEF s
    <3> QED
      BY <3>3, <3>4, BidStepQuiet
  <2>3. CASE round.bids # {}
    <3>1. PICK doc : doc = round
      OBVIOUS
    <3> DEFINE s == [at |-> "settling", doc |-> doc]
    <3>2. BidCallOK(s)
      BY <2>1, <2>3, <3>1 DEF BidCallOK
    <3>3. BidDo(c, s) /\ UNCHANGED <<bidsMade, round>>
      BY <1>5, <2>3, <3>1 DEF ReadRound
    <3> HIDE DEF s
    <3> QED
      BY <3>2, <3>3, BidStepQuiet
  <2> QED
    BY <2>2, <2>3
<1>6. ASSUME NEW c \in BidCall, BidCallDies(c) PROVE BidInv'
  <2>1. BidCallOK(BidIdle)
    BY DEF BidIdle, BidCallOK
  <2>2. BidDo(c, BidIdle) /\ UNCHANGED <<bidsMade, round>>
    BY <1>6 DEF BidCallDies
  <2> QED
    BY <2>1, <2>2, BidStepQuiet
<1>7. ASSUME NEW c \in BidCall, NEW u \in Bidder, NEW x \in Bid, ReadToBid(c, u, x)
      PROVE  BidInv'
  <2>1. PICK doc : doc = round
    OBVIOUS
  <2>2. DocOK(doc) /\ doc.status = "open"
    BY <1>7, <2>1 DEF ReadToBid, BidInv, NoRound
  <2>3. x \in 1 .. PotKes - 1
    BY <1>7, BidAssumption DEF ReadToBid
  <2> DEFINE s == [at |-> "bidding", by |-> u, kes |-> x, doc |-> doc]
  <2>4. BidCallOK(s)
    BY <2>2, <2>3 DEF BidCallOK
  <2>5. BidDo(c, s) /\ UNCHANGED <<bidsMade, round>>
    BY <1>7, <2>1 DEF ReadToBid
  <2> HIDE DEF s
  <2> QED
    BY <2>4, <2>5, BidStepQuiet
<1>8. CASE TimeIsUp \/ (\E u \in Leaver : Leave(u)) \/ UNCHANGED bidVars
  BY <1>1, <1>8 DEF TimeIsUp, Leave, bidVars
<1>9. CASE BidNext
  BY <1>2, <1>3, <1>4, <1>5, <1>6, <1>7, <1>8, <1>9, CheckBidderInv, SettleRoundInv
  DEF BidNext
<1> QED
  BY <1>8, <1>9

(* The invariant of the documents.                                         *)
THEOREM BidInvariance == BidSpec => []BidInv
BY InitBidInv, NextBidInv, PTL DEF BidSpec

(* Whatever bids and closings write over each other, a settled round was   *)
(* won by a bid that stands in it, outbid by none, each member having one  *)
(* bid there, and for less than the pot (bidding-payout.service.ts:79,     *)
(* 88-92, 114-126).                                                        *)
THEOREM BestBidWins == BidSpec => []SettledByBestBid
<1>1. ASSUME BidInv, round.status = "settled" PROVE SettledByBestBid
  <2>1. DocOK(round)
    BY <1>1 DEF BidInv, NoRound
  <2>2. /\ round.bids \subseteq BidRow /\ round.kes < PotKes
        /\ \A b, d \in round.bids : b # d => b.by # d.by
    BY <1>1, <2>1 DEF DocOK, BidDoc, WonByTheBest
  <2>3. PICK b \in round.bids :
           /\ b.by = round.winner /\ b.kes = round.kes
           /\ \A d \in round.bids : d # b => Beats(b, d)
    BY <1>1, <2>1 DEF DocOK, WonByTheBest
  <2>4. ASSUME NEW d \in round.bids PROVE d.kes <= round.kes
    BY <2>2, <2>3, <2>4, BidAssumption DEF Beats, BidRow
  <2> QED
    BY <2>2, <2>3, <2>4 DEF SettledByBestBid
<1>2. BidInv => SettledByBestBid
  BY <1>1 DEF SettledByBestBid
<1> QED
  BY <1>2, BidInvariance, PTL

(* The types.  A bid carries the instant it was made at, which is within   *)
(* the bound, and no member's dividend exceeds the pot.                    *)
TimedBid == [by : Bidder, kes : Bid, time : 1 .. MaxBids]

BidCallTyped(s) ==
  /\ s.at \in {"bidding", "storing", "settling"} => s.doc.bids \subseteq TimedBid
  /\ s.at = "bidding" => s.kes \in Bid

BidScalars ==
  /\ bidsMade \in 0 .. MaxBids /\ over \in BOOLEAN
  /\ inGroup \subseteq Bidder /\ dividend \in -1 .. PotKes

BidTypes ==
  /\ BidScalars
  /\ round # NoRound => round.bids \subseteq TimedBid
  /\ \A c \in BidCall : BidCallTyped(bidCall[c])

(* A whole part is no larger than the whole.                               *)
LEMMA PartOfWhole ==
  ASSUME NEW x \in Nat, NEW n \in Nat \ {0}
  PROVE  x \div n \in Nat /\ x \div n <= x
OBVIOUS

LEMMA BidTypesStep ==
  ASSUME BidInv, BidTypes, NEW c \in BidCall, NEW s, BidDo(c, s), BidCallTyped(s),
         BidScalars', round' = round \/ round'.bids \subseteq TimedBid
  PROVE  BidTypes'
<1>1. \A d \in BidCall : BidCallTyped(bidCall'[d])
  BY DEF BidDo, BidInv, BidTypes
<1> QED
  BY <1>1 DEF BidTypes, BidCallTyped, TimedBid, NoRound

LEMMA SettledDividend ==
  ASSUME BidInv, BidTypes, NEW c \in BidCall, SettleRound(c)
  PROVE  dividend' \in -1 .. PotKes
<1> DEFINE bids == bidCall[c].doc.bids
           best == Best(bids)
           n    == Cardinality(inGroup)
<1>1. DocOK(bidCall[c].doc) /\ bids # {}
  BY DEF SettleRound, BidInv, BidCallOK
<1>2. best \in bids /\ bids \subseteq BidRow
  BY <1>1, BestIsThere DEF DocOK, BidDoc
<1>3. best.kes \in 1 .. PotKes - 1 /\ PotKes \in Nat
  BY <1>2, BidAssumption DEF BidRow
<1>4. n \in Nat
  BY BidAssumption, FS_Subset, FS_CardinalityType DEF BidTypes, BidScalars
<1>5. dividend' = IF n > 1 THEN best.kes \div (n - 1) ELSE 0
  BY DEF SettleRound
<1> HIDE DEF best, n
<1>6. CASE n > 1
  <2>1. best.kes \in Nat /\ n - 1 \in Nat \ {0}
    BY <1>3, <1>4, <1>6
  <2>2. best.kes \div (n - 1) \in Nat /\ best.kes \div (n - 1) <= best.kes
    BY <2>1, PartOfWhole
  <2> QED
    BY <1>3, <1>5, <1>6, <2>2
<1>7. CASE ~ (n > 1)
  BY <1>3, <1>5, <1>7
<1> QED
  BY <1>6, <1>7

LEMMA CheckBidderTypes ==
  ASSUME BidInv, BidTypes, NEW c \in BidCall, CheckBidder(c)
  PROVE  BidTypes'
<1> DEFINE u    == bidCall[c].by
           kept == {b \in bidCall[c].doc.bids : b.by # u}
           new  == [by |-> u, kes |-> bidCall[c].kes, time |-> bidsMade + 1]
           doc  == [bidCall[c].doc EXCEPT !.bids = kept \cup {new}]
           s    == [at |-> "storing", doc |-> doc]
<1>1. /\ bidCall[c].doc \in BidDoc /\ u \in Bidder /\ bidCall[c].kes \in Bid
      /\ bidCall[c].doc.bids \subseteq TimedBid
  BY DEF CheckBidder, BidInv, BidCallOK, DocOK, BidTypes, BidCallTyped
<1>2. bidsMade \in Nat /\ bidsMade < MaxBids /\ MaxBids \in Nat
  BY BidAssumption DEF CheckBidder, BidInv
<1>3. CASE u \in inGroup
  <2>1. BidDo(c, s) /\ bidsMade' = bidsMade + 1 /\ UNCHANGED <<round, over, inGroup, dividend>>
    BY <1>3 DEF CheckBidder
  <2>2. new \in TimedBid
    BY <1>1, <1>2 DEF TimedBid
  <2> HIDE DEF new
  <2>3. doc.bids = kept \cup {new}
    BY <1>1 DEF BidDoc
  <2>4. doc.bids \subseteq TimedBid
    BY <1>1, <2>2, <2>3
  <2> HIDE DEF doc
  <2>5. BidCallTyped(s)
    BY <2>4 DEF BidCallTyped
  <2>6. BidScalars'
    BY <1>2, <2>1 DEF BidTypes, BidScalars
  <2> HIDE DEF s
  <2> QED
    BY <2>1, <2>5, <2>6, BidTypesStep
<1>4. CASE u \notin inGroup
  <2>1. BidDo(c, BidIdle) /\ UNCHANGED <<round, bidsMade, over, inGroup, dividend>>
    BY <1>4 DEF CheckBidder
  <2>2. BidCallTyped(BidIdle) /\ BidScalars'
    BY <2>1 DEF BidIdle, BidCallTyped, BidTypes, BidScalars
  <2> QED
    BY <2>1, <2>2, BidTypesStep
<1> QED
  BY <1>3, <1>4

LEMMA NextBidTypes == BidInv /\ BidTypes /\ [BidNext]_bidVars => BidTypes'
<1> SUFFICES ASSUME BidInv, BidTypes, [BidNext]_bidVars PROVE BidTypes'
  OBVIOUS
<1>1. CASE TimeIsUp \/ (\E u \in Leaver : Leave(u)) \/ UNCHANGED bidVars
  BY <1>1 DEF TimeIsUp, Leave, bidVars, BidTypes, BidScalars, BidCallTyped, TimedBid, NoRound
<1>2. BidCallTyped(BidIdle) /\ BidCallTyped([at |-> "opening"])
  BY DEF BidIdle, BidCallTyped
<1>3. ASSUME UNCHANGED <<bidsMade, over, inGroup, dividend>> PROVE BidScalars'
  BY <1>3 DEF BidTypes, BidScalars
<1>4. ASSUME NEW c \in BidCall, ReadToOpen(c) PROVE BidTypes'
  BY <1>2, <1>3, <1>4, BidTypesStep DEF ReadToOpen
<1>5. ASSUME NEW c \in BidCall, OpenBidRound(c) PROVE BidTypes'
  <2>1. round'.bids \subseteq TimedBid
    BY <1>5 DEF OpenBidRound
  <2> QED
    BY <1>2, <1>3, <1>5, <2>1, BidTypesStep DEF OpenBidRound
<1>6. ASSUME NEW c \in BidCall, StoreRound(c) PROVE BidTypes'
  <2>1. round'.bids \subseteq TimedBid
    BY <1>6 DEF StoreRound, BidTypes, BidCallTyped
  <2> QED
    BY <1>2, <1>3, <1>6, <2>1, BidTypesStep DEF StoreRound
<1>7. ASSUME NEW c \in BidCall, BidCallDies(c) PROVE BidTypes'
  BY <1>2, <1>3, <1>7, BidTypesStep DEF BidCallDies
<1>8. ASSUME NEW c \in BidCall, ReadRound(c) PROVE BidTypes'
  <2>1. round.status = "open" /\ round \in BidDoc /\ round.bids \subseteq TimedBid
    BY <1>8 DEF ReadRound, BidInv, BidTypes, DocOK, NoRound
  <2>2. PICK s : /\ BidDo(c, s)
                 /\ \/ s = [at |-> "storing", doc |-> [round EXCEPT !.status = "closed"]]
                    \/ s = [at |-> "settling", doc |-> round]
    BY <1>8 DEF ReadRound
  <2>3. [round EXCEPT !.status = "closed"].bids = round.bids
    BY <2>1 DEF BidDoc
  <2> DEFINE closed == [round EXCEPT !.status = "closed"]
  <2>4. closed.bids \subseteq TimedBid
    BY <2>1, <2>3
  <2> HIDE DEF closed
  <2>5. CASE s = [at |-> "storing", doc |-> closed]
    <3>1. BidCallTyped(s)
      BY <2>4, <2>5 DEF BidCallTyped
    <3> QED
      BY <1>3, <1>8, <2>2, <3>1, BidTypesStep DEF ReadRound
  <2>6. CASE s = [at |-> "settling", doc |-> round]
    <3>1. BidCallTyped(s)
      BY <2>1, <2>6 DEF BidCallTyped
    <3> QED
      BY <1>3, <1>8, <2>2, <3>1, BidTypesStep DEF ReadRound
  <2> QED
    BY <2>2, <2>5, <2>6 DEF closed
<1>9. ASSUME NEW c \in BidCall, NEW u \in Bidder, NEW x \in Bid, ReadToBid(c, u, x)
      PROVE  BidTypes'
  <2> DEFINE s == [at |-> "bidding", by |-> u, kes |-> x, doc |-> round]
  <2>1. round.bids \subseteq TimedBid
    BY <1>9 DEF ReadToBid, BidTypes, NoRound
  <2>2. BidCallTyped(s)
    BY <2>1 DEF BidCallTyped
  <2>3. BidDo(c, s)
    BY <1>9 DEF ReadToBid
  <2> HIDE DEF s
  <2> QED
    BY <1>3, <1>9, <2>2, <2>3, BidTypesStep DEF ReadToBid
<1>10. ASSUME NEW c \in BidCall, SettleRound(c) PROVE BidTypes'
  <2> DEFINE best == Best(bidCall[c].doc.bids)
             doc  == [bidCall[c].doc EXCEPT !.status = "settled",
                                            !.winner = best.by, !.kes = best.kes]
             s    == [at |-> "storing", doc |-> doc]
  <2>1. bidCall[c].doc \in BidDoc /\ bidCall[c].doc.bids \subseteq TimedBid
    BY <1>10 DEF SettleRound, BidInv, BidCallOK, DocOK, BidTypes, BidCallTyped
  <2>2. BidDo(c, s) /\ UNCHANGED <<round, bidsMade, over, inGroup>>
    BY <1>10 DEF SettleRound
  <2> HIDE DEF best
  <2>3. doc.bids = bidCall[c].doc.bids
    BY <2>1 DEF BidDoc
  <2>4. BidCallTyped(s)
    BY <2>1, <2>3 DEF BidCallTyped
  <2>5. BidScalars'
    BY <1>10, <2>2, SettledDividend DEF BidTypes, BidScalars
  <2> HIDE DEF s
  <2> QED
    BY <2>2, <2>4, <2>5, BidTypesStep
<1>11. CASE BidNext
  BY <1>1, <1>4, <1>5, <1>6, <1>7, <1>8, <1>9, <1>10, <1>11, CheckBidderTypes DEF BidNext
<1> QED
  BY <1>1, <1>11

(* Rounds, bids and dividends keep their types; in particular no member's  *)
(* dividend is more than the pot.                                          *)
THEOREM BidTypeCorrect == BidSpec => []BidTypeOK
<1>1. BidInit => BidTypes
  <2> SUFFICES ASSUME BidInit PROVE BidTypes
    OBVIOUS
  <2>1. dividend = -1 /\ PotKes \in Nat /\ MaxBids \in Nat
    BY BidAssumption DEF BidInit
  <2>2. dividend \in -1 .. PotKes
    BY <2>1
  <2>3. BidScalars
    <3>1. bidsMade \in 0 .. MaxBids
      BY <2>1 DEF BidInit
    <3>2. over \in BOOLEAN /\ inGroup \subseteq Bidder
      BY DEF BidInit
    <3> QED
      BY <2>2, <3>1, <3>2 DEF BidScalars
  <2>4. \A c \in BidCall : BidCallTyped(bidCall[c])
    BY DEF BidInit, BidCallTyped, BidIdle
  <2> QED
    BY <2>3, <2>4 DEF BidInit, BidTypes
<1>2. BidInv /\ BidTypes => BidTypeOK
  <2> SUFFICES ASSUME BidInv, BidTypes PROVE BidTypeOK
    OBVIOUS
  <2>1. \A c \in BidCall : bidCall[c].at \in
          {"idle", "opening", "bidding", "storing", "settling"}
    BY DEF BidInv, BidCallOK
  <2>2. round # NoRound => /\ round.status \in {"open", "closed", "settled"}
                           /\ round.bids \subseteq TimedBid
                           /\ round.winner \in Bidder \cup {Nobody}
    BY DEF BidInv, BidTypes, DocOK, BidDoc
  <2> QED
    BY <2>1, <2>2 DEF BidTypes, BidScalars, BidTypeOK, TimedBid
<1> QED
  BY <1>1, <1>2, NextBidTypes, BidInvariance, PTL DEF BidSpec

-------------------------------------------------------------------------------
(* Rules.  A transaction that publishes knows a version that was in force  *)
(* when it began, so no later one than the last; the unique version lets it*)
(* commit only if that one still is the last.                              *)

RuleHash == Seq(RuleDoc \X Publisher)

RuleRow ==
  [doc : RuleDoc, creator : Publisher, prevHash : RuleHash, hash : RuleHash,
   active : BOOLEAN]

RuleInv ==
  /\ chain \in Seq(RuleRow) /\ Len(chain) <= MaxVersions
  /\ publishing \in [Publisher -> Int]
  /\ \A p \in Publisher : \/ publishing[p] = NotPublishing
                          \/ publishing[p] \in 0 .. Len(chain) /\ publishing[p] < MaxVersions
  /\ answer \in {"none", "pass", "warn", "refuse"}
  /\ ChainUnbroken

(* The version in force is the last one.                                   *)
LEMMA LastIsActive ==
  ASSUME chain \in Seq(RuleRow), ChainUnbroken
  PROVE  ActiveVersion = Len(chain)
<1>1. DOMAIN chain = 1 .. Len(chain) /\ Len(chain) \in Nat
  BY LenProperties
<1>2. \A v \in DOMAIN chain : chain[v].active <=> v = Len(chain)
  BY DEF ChainUnbroken
<1>3. CASE Len(chain) = 0
  BY <1>1, <1>2, <1>3 DEF ActiveVersion
<1>4. CASE Len(chain) # 0
  <2>1. Len(chain) \in DOMAIN chain /\ chain[Len(chain)].active
    BY <1>1, <1>2, <1>4
  <2>2. \A v \in DOMAIN chain :
          (chain[v].active /\ \A w \in DOMAIN chain : chain[w].active => w <= v)
            <=> v = Len(chain)
    BY <1>1, <1>2, <2>1
  <2> QED
    BY <2>1, <2>2 DEF ActiveVersion
<1> QED
  BY <1>3, <1>4

(* There are no bylaws yet.                                                *)
LEMMA InitRuleInv == RuleInit => RuleInv
<1> SUFFICES ASSUME RuleInit PROVE RuleInv
  OBVIOUS
<1>1. chain \in Seq(RuleRow) /\ Len(chain) = 0 /\ DOMAIN chain = {}
  BY EmptySeq DEF RuleInit
<1>2. ChainUnbroken
  BY <1>1 DEF ChainUnbroken
<1> QED
  BY <1>1, <1>2, RulesAssumption DEF RuleInit, RuleInv, NotPublishing

(* The transaction that commits: superseding the version it read and       *)
(* inserting the next is one step, and there is none when the next exists. *)
LEMMA CommitRuleInv ==
  ASSUME RuleInv, NEW p \in Publisher, NEW doc \in RuleDoc, CommitPublish(p, doc)
  PROVE  RuleInv'
<1> DEFINE n == Len(chain)
<1>1. n \in Nat /\ DOMAIN chain = 1 .. n /\ \A w \in 1 .. n : chain[w] \in RuleRow
  BY LenProperties, ElementOfSeq DEF RuleInv
<1>2. publishing[p] \in 0 .. n /\ publishing[p] < MaxVersions
  BY DEF CommitPublish, RuleInv
<1>3. publishing' = [publishing EXCEPT ![p] = NotPublishing] /\ UNCHANGED answer
  BY DEF CommitPublish
<1>4. publishing' \in [Publisher -> Int]
  BY <1>3 DEF RuleInv, NotPublishing
<1>5. CASE publishing[p] + 1 \in DOMAIN chain
  <2>1. UNCHANGED chain
    BY <1>5 DEF CommitPublish
  <2> QED
    BY <1>3, <1>4, <2>1 DEF RuleInv, ChainUnbroken
<1>6. CASE publishing[p] + 1 \notin DOMAIN chain
  <2>1. publishing[p] = n
    BY <1>1, <1>2, <1>6
  <2> DEFINE old == [w \in 1 .. n |-> [chain[w] EXCEPT !.active = @ /\ w # n]]
             row == NextRow(p, doc)
  <2>2. chain' = Append(old, row)
    BY <1>1, <1>6, <2>1 DEF CommitPublish
  <2>3. ASSUME NEW w \in 1 .. n
        PROVE  /\ old[w] \in RuleRow /\ ~ old[w].active
               /\ old[w].doc = chain[w].doc /\ old[w].creator = chain[w].creator
               /\ old[w].prevHash = chain[w].prevHash /\ old[w].hash = chain[w].hash
    <3>1. chain[w] \in RuleRow /\ (chain[w].active <=> w = n)
      BY <1>1 DEF RuleInv, ChainUnbroken
    <3>2. old[w] = [chain[w] EXCEPT !.active = FALSE]
      <4>1. (chain[w].active /\ w # n) = FALSE
        BY <3>1
      <4> QED
        BY <4>1
    <3> QED
      BY <3>1, <3>2 DEF RuleRow
  <2>4. LET prev == IF n = 0 THEN Genesis ELSE chain[n].hash
        IN  /\ prev \in RuleHash
            /\ row = [doc |-> doc, creator |-> p, prevHash |-> prev,
                      hash |-> Append(prev, <<doc, p>>), active |-> TRUE]
    <3>1. n # 0 => chain[n].hash \in RuleHash
      BY <1>1 DEF RuleRow
    <3>2. Genesis \in RuleHash
      BY EmptySeq DEF Genesis, RuleHash
    <3> QED
      BY <2>1, <3>1, <3>2 DEF NextRow, ComputeHash
  <2>5. row \in RuleRow
    <3>1. \A h \in RuleHash : Append(h, <<doc, p>>) \in RuleHash
      BY AppendProperties DEF RuleHash
    <3> QED
      BY <2>4, <3>1 DEF RuleRow
  <2> HIDE DEF row
  <2>6. old \in Seq(RuleRow) /\ Len(old) = n
    <3>1. old \in [1 .. n -> RuleRow] /\ DOMAIN old = 1 .. n
      BY <2>3
    <3>2. old \in Seq(RuleRow)
      BY <1>1, <3>1, SeqDef
    <3> QED
      BY <1>1, <3>1, <3>2, LenProperties
  <2> HIDE DEF old
  <2>7. /\ chain' \in Seq(RuleRow) /\ Len(chain') = n + 1
        /\ \A w \in 1 .. n : chain'[w] = old[w]
        /\ chain'[n + 1] = row
    BY <2>2, <2>5, <2>6, AppendProperties
  <2>8. DOMAIN chain' = 1 .. n + 1
    BY <2>7, LenProperties
  <2>9. ChainUnbroken'
    <3> SUFFICES ASSUME NEW v \in 1 .. n + 1
                 PROVE  /\ chain'[v].prevHash = (IF v = 1 THEN Genesis ELSE chain'[v - 1].hash)
                        /\ chain'[v].hash = ComputeHash(chain'[v].prevHash, chain'[v].doc,
                                                        chain'[v].creator)
                        /\ chain'[v].active <=> v = n + 1
      BY <2>7, <2>8 DEF ChainUnbroken
    <3>1. CASE v = n + 1
      <4>1. n # 0 => chain'[n].hash = chain[n].hash
        BY <1>1, <2>3, <2>7
      <4> QED
        BY <1>1, <2>4, <2>7, <3>1, <4>1 DEF ComputeHash
    <3>2. CASE v # n + 1
      <4>1. v \in 1 .. n /\ chain'[v] = old[v]
        BY <1>1, <2>7, <3>2
      <4>2. v # 1 => v - 1 \in 1 .. n /\ chain'[v - 1].hash = chain[v - 1].hash
        BY <1>1, <2>3, <2>7, <4>1
      <4>3. /\ chain[v].prevHash = (IF v = 1 THEN Genesis ELSE chain[v - 1].hash)
            /\ chain[v].hash = ComputeHash(chain[v].prevHash, chain[v].doc, chain[v].creator)
        BY <1>1, <4>1 DEF RuleInv, ChainUnbroken
      <4> QED
        BY <2>3, <3>2, <4>1, <4>2, <4>3
    <3> QED
      BY <3>1, <3>2
  <2>10. n + 1 <= MaxVersions
    BY <1>1, <1>2, <2>1, RulesAssumption
  <2>11. \A q \in Publisher :
           \/ publishing'[q] = NotPublishing
           \/ publishing'[q] \in 0 .. Len(chain') /\ publishing'[q] < MaxVersions
    BY <1>1, <1>3, <2>7 DEF RuleInv
  <2> QED
    BY <1>3, <1>4, <2>7, <2>9, <2>10, <2>11 DEF RuleInv
<1> QED
  BY <1>5, <1>6

(* Every step keeps the invariant.                                         *)
LEMMA NextRuleInv == RuleInv /\ [RuleNext]_ruleVars => RuleInv'
<1> SUFFICES ASSUME RuleInv, [RuleNext]_ruleVars PROVE RuleInv'
  OBVIOUS
<1>1. CASE UNCHANGED <<chain, publishing>> /\ answer' \in {"none", "pass", "warn", "refuse"}
  BY <1>1 DEF RuleInv, ChainUnbroken
<1>2. CASE UNCHANGED ruleVars
  BY <1>1, <1>2 DEF ruleVars, RuleInv
<1>3. CASE EvaluationFails \/ \E x \in Hook : EnforceRule(x)
  BY <1>1, <1>3 DEF EvaluationFails, EnforceRule
<1>4. ASSUME NEW p \in Publisher, BeginPublish(p) PROVE RuleInv'
  <2>1. Len(chain) \in Nat /\ ActiveVersion = Len(chain)
    BY LenProperties, LastIsActive DEF RuleInv
  <2>2. /\ publishing' = [publishing EXCEPT ![p] = Len(chain)]
        /\ Len(chain) < MaxVersions /\ UNCHANGED <<chain, answer>>
    BY <1>4, <2>1 DEF BeginPublish
  <2> QED
    BY <2>1, <2>2 DEF RuleInv, ChainUnbroken
<1>5. CASE RuleNext
  BY <1>3, <1>4, <1>5, CommitRuleInv DEF RuleNext
<1> QED
  BY <1>2, <1>5

(* The invariant of the bylaws.                                            *)
THEOREM RuleInvariance == RuleSpec => []RuleInv
BY InitRuleInv, NextRuleInv, PTL DEF RuleSpec

(* The rows of the bylaws are what the schema says, and there are no more  *)
(* of them than the bound (rule-engine.service.ts:165-205).                *)
THEOREM RuleTypeCorrect == RuleSpec => []RuleTypeOK
<1>1. RuleInv => RuleTypeOK
  <2> SUFFICES ASSUME RuleInv PROVE RuleTypeOK
    OBVIOUS
  <2>1. \A v \in DOMAIN chain : chain[v] \in RuleRow
    BY LenProperties, ElementOfSeq DEF RuleInv
  <2>2. publishing \in [Publisher -> NotPublishing .. MaxVersions]
    BY LenProperties, RulesAssumption DEF RuleInv, NotPublishing
  <2> QED
    BY <2>1, <2>2 DEF RuleInv, RuleTypeOK, RuleRow
<1> QED
  BY <1>1, RuleInvariance, PTL

(* The versions form one chain whose last link alone is in force, however  *)
(* many publications overlap: each row carries its predecessor's hash, its *)
(* own covers it, and the latest is the one that is active                 *)
(* (rule-engine.service.ts:165-205).                                       *)
THEOREM BylawsFormOneChain == RuleSpec => []ChainUnbroken
<1>1. RuleInv => ChainUnbroken
  BY DEF RuleInv
<1> QED
  BY <1>1, RuleInvariance, PTL
-------------------------------------------------------------------------------
(* Votes.  A ballot, once cast, stays, and a count never goes down: what a *)
(* closing request read of the counts is still so when it writes.          *)

BallotRow == [vote : Vote, voter : Voter, option : Option]

BallotsFor(o) == {b \in ballot : b.option = o}

HasSupport(v) == \E b \in ballot : OptionOf[b.option] = v

VoteRecord ==
  {VoteIdle}
    \cup [at : {"casting"}, vote : Vote, voter : Voter, option : Option]
    \cup [at : {"closing"}, vote : Vote, passed : BOOLEAN]

BallotsCounted ==
  /\ ballot \subseteq BallotRow /\ IsFiniteSet(ballot)
  /\ count \in [Option -> Nat]
  /\ \A o \in Option : count[o] = Cardinality(BallotsFor(o))
  /\ \A a, b \in ballot : a.vote = b.vote /\ a.voter = b.voter => a = b

VoteInv ==
  /\ vote \in [Vote -> {"none", "open", "passed", "rejected"}] /\ late \subseteq Vote
  /\ voteCall \in [VoteCall -> VoteRecord]
  /\ BallotsCounted
  /\ \A v \in Vote : vote[v] = "passed" => HasSupport(v)
  /\ \A c \in VoteCall :
       voteCall[c].at = "closing" /\ voteCall[c].passed => HasSupport(voteCall[c].vote)

(* What the place of a request tells of its record.                        *)
LEMMA VoteRecordShape ==
  ASSUME NEW s \in VoteRecord
  PROVE  /\ s.at \in {"idle", "casting", "closing"}
         /\ s.at = "casting" =>
              [vote |-> s.vote, voter |-> s.voter, option |-> s.option] \in BallotRow
         /\ s.at = "closing" => s.vote \in Vote /\ s.passed \in BOOLEAN
<1>1. CASE s = VoteIdle
  BY <1>1 DEF VoteIdle
<1>2. CASE s \in [at : {"casting"}, vote : Vote, voter : Voter, option : Option]
  BY <1>2 DEF BallotRow
<1>3. CASE s \in [at : {"closing"}, vote : Vote, passed : BOOLEAN]
  BY <1>3, Zenon
<1> QED
  BY <1>1, <1>2, <1>3 DEF VoteRecord

(* Nothing is asked yet.                                                   *)
LEMMA InitVoteInv == VoteInit => VoteInv
<1> SUFFICES ASSUME VoteInit PROVE VoteInv
  OBVIOUS
<1>1. \A o \in Option : BallotsFor(o) = {}
  BY DEF VoteInit, BallotsFor
<1>2. BallotsCounted
  BY <1>1, FS_EmptySet DEF VoteInit, BallotsCounted
<1> QED
  BY <1>2 DEF VoteInit, VoteInv, VoteRecord, VoteIdle

(* Options that nobody chose add up to nothing.                            *)
LEMMA SupportIsVotes ==
  ASSUME BallotsCounted, NEW v \in Vote, TotalVotes(v) > 0
  PROVE  HasSupport(v)
<1> DEFINE own == {o \in Option : OptionOf[o] = v}
<1>1. IsFiniteSet(own)
  BY VoteAssumption, FS_Subset
<1>2. PICK o \in own : count[o] # 0
  <2>1. (\A o \in own : count[o] = 0) => SumFunctionOnSet(count, own) = 0
    BY <1>1, SumZero
  <2> QED
    BY <2>1 DEF TotalVotes
<1>3. BallotsFor(o) # {}
  BY <1>2, FS_EmptySet DEF BallotsCounted
<1> QED
  BY <1>2, <1>3 DEF BallotsFor, HasSupport

(* A step that casts nothing leaves the counting alone.                    *)
LEMMA NothingCast ==
  ASSUME VoteInv, UNCHANGED <<ballot, count>>,
         vote' \in [Vote -> {"none", "open", "passed", "rejected"}],
         late' \subseteq Vote,
         voteCall' \in [VoteCall -> VoteRecord],
         \A v \in Vote : vote'[v] = "passed" => HasSupport(v),
         \A c \in VoteCall :
           voteCall'[c].at = "closing" /\ voteCall'[c].passed =>
             HasSupport(voteCall'[c].vote)
  PROVE  VoteInv'
<1>1. BallotsCounted'
  BY DEF VoteInv, BallotsCounted, BallotsFor, BallotRow
<1>2. \A v : HasSupport(v) <=> HasSupport(v)'
  BY DEF HasSupport
<1>3. \A v \in Vote : vote'[v] = "passed" => HasSupport(v)'
  BY <1>2
<1>4. \A c \in VoteCall :
        voteCall'[c].at = "closing" /\ voteCall'[c].passed => HasSupport(voteCall[c].vote)'
  BY <1>2
<1> QED
  BY <1>1, <1>3, <1>4 DEF VoteInv, VoteRecord, VoteIdle

(* A ballot that is written is the only one of its user in the vote, and it*)
(* is counted.                                                             *)
LEMMA BallotIsCounted ==
  ASSUME BallotsCounted, NEW b \in BallotRow, ~ HasVoted(b.vote, b.voter),
         ballot' = ballot \cup {b}, count' = [count EXCEPT ![b.option] = @ + 1]
  PROVE  BallotsCounted'
<1>1. b \notin ballot /\ b.option \in Option
  BY DEF HasVoted, BallotRow
<1>2. ballot' \subseteq BallotRow /\ IsFiniteSet(ballot')
  BY FS_AddElement DEF BallotsCounted
<1>3. count' \in [Option -> Nat]
  BY <1>1 DEF BallotsCounted
<1>4. ASSUME NEW o \in Option PROVE count'[o] = Cardinality(BallotsFor(o)')
  <2>1. IsFiniteSet(BallotsFor(o)) /\ count[o] = Cardinality(BallotsFor(o))
    BY FS_Subset DEF BallotsCounted, BallotsFor
  <2>2. CASE o = b.option
    <3>1. BallotsFor(o)' = BallotsFor(o) \cup {b} /\ b \notin BallotsFor(o)
      BY <1>1, <2>2 DEF BallotsFor
    <3>2. Cardinality(BallotsFor(o) \cup {b}) = Cardinality(BallotsFor(o)) + 1
      BY <2>1, <3>1, FS_AddElement
    <3>3. count'[o] = count[o] + 1
      BY <2>2 DEF BallotsCounted
    <3> QED
      BY <2>1, <3>1, <3>2, <3>3
  <2>3. CASE o # b.option
    <3>1. BallotsFor(o)' = BallotsFor(o)
      BY <2>3 DEF BallotsFor
    <3>2. count'[o] = count[o]
      BY <2>3 DEF BallotsCounted
    <3> QED
      BY <2>1, <3>1, <3>2
  <2> QED
    BY <2>2, <2>3
<1>5. \A x, y \in ballot' : x.vote = y.vote /\ x.voter = y.voter => x = y
  BY DEF BallotsCounted, HasVoted
<1> QED
  BY <1>2, <1>3, <1>4, <1>5 DEF BallotsCounted, BallotRow

(* Every step keeps the invariant.                                         *)
LEMMA NextVoteInv == VoteInv /\ [VoteNext]_voteVars => VoteInv'
<1> SUFFICES ASSUME VoteInv, [VoteNext]_voteVars PROVE VoteInv'
  OBVIOUS
<1>1. CASE UNCHANGED voteVars
  BY <1>1, NothingCast DEF voteVars, VoteInv
<1>2. ASSUME NEW v \in Vote, CreateVote(v) PROVE VoteInv'
  BY <1>2, NothingCast DEF CreateVote, VoteInv
<1>3. ASSUME NEW v \in Vote, BecomeLate(v) PROVE VoteInv'
  BY <1>3, NothingCast DEF BecomeLate, VoteInv
<1>4. CASE CloseExpiredVotes
  <2>1. \A v \in Vote : vote'[v] = "passed" => vote[v] = "passed"
    BY <1>4 DEF CloseExpiredVotes
  <2>2. vote' \in [Vote -> {"none", "open", "passed", "rejected"}]
    BY <1>4 DEF CloseExpiredVotes, VoteInv
  <2> QED
    BY <1>4, <2>1, <2>2, NothingCast DEF CloseExpiredVotes, VoteInv
<1>5. ASSUME NEW c \in VoteCall, CastBallot(c) PROVE VoteInv'
  <2> DEFINE s == voteCall[c]
             b == [vote |-> s.vote, voter |-> s.voter, option |-> s.option]
  <2>1. s \in VoteRecord /\ s.at = "casting"
    BY <1>5 DEF CastBallot, VoteInv
  <2>2. b \in BallotRow
    BY <2>1, VoteRecordShape
  <2>3. voteCall' = [voteCall EXCEPT ![c] = VoteIdle] /\ UNCHANGED <<vote, late>>
    BY <1>5 DEF CastBallot, VoteDo
  <2>4. /\ voteCall' \in [VoteCall -> VoteRecord]
        /\ \A d \in VoteCall : voteCall'[d].at = "closing" => voteCall'[d] = voteCall[d]
    BY <2>3 DEF VoteInv, VoteRecord, VoteIdle
  <2>5. CASE HasVoted(b.vote, b.voter)
    <3>1. UNCHANGED <<ballot, count>>
      BY <1>5, <2>5 DEF CastBallot
    <3> QED
      BY <2>3, <2>4, <3>1, NothingCast DEF VoteInv
  <2>6. CASE ~ HasVoted(b.vote, b.voter)
    <3>1. ballot' = ballot \cup {b} /\ count' = [count EXCEPT ![b.option] = @ + 1]
      BY <1>5, <2>6 DEF CastBallot
    <3>2. BallotsCounted'
      <4> HIDE DEF b
      <4> QED
        BY <2>2, <2>6, <3>1, BallotIsCounted DEF VoteInv
    <3>3. \A v : HasSupport(v) => HasSupport(v)'
      BY <3>1 DEF HasSupport
    <3>4. \A v \in Vote : vote'[v] = "passed" => HasSupport(v)'
      BY <2>3, <3>3 DEF VoteInv
    <3>5. \A d \in VoteCall :
            voteCall'[d].at = "closing" /\ voteCall'[d].passed => HasSupport(voteCall[d].vote)'
      BY <2>4, <3>3 DEF VoteInv
    <3> QED
      BY <2>3, <2>4, <3>2, <3>4, <3>5 DEF VoteInv, VoteRecord, VoteIdle
  <2> QED
    BY <2>5, <2>6
<1>6. ASSUME NEW c \in VoteCall, WriteClosed(c) PROVE VoteInv'
  <2>1. voteCall[c] \in VoteRecord /\ voteCall[c].at = "closing"
    BY <1>6 DEF WriteClosed, VoteInv
  <2>2. voteCall[c].vote \in Vote /\ voteCall[c].passed \in BOOLEAN
    BY <2>1, VoteRecordShape
  <2>3. vote' \in [Vote -> {"none", "open", "passed", "rejected"}]
    BY <1>6, <2>2 DEF WriteClosed, VoteInv
  <2>4. \A v \in Vote : vote'[v] = "passed" => HasSupport(v)
    <3> SUFFICES ASSUME NEW v \in Vote, vote'[v] = "passed" PROVE HasSupport(v)
      OBVIOUS
    <3>1. CASE v # voteCall[c].vote
      BY <1>6, <3>1 DEF WriteClosed, VoteInv
    <3>2. CASE v = voteCall[c].vote
      <4>1. voteCall[c].passed
        BY <1>6, <2>2, <3>2 DEF WriteClosed, VoteInv
      <4> QED
        BY <2>1, <3>2, <4>1 DEF VoteInv
    <3> QED
      BY <3>1, <3>2
  <2>5. /\ voteCall' \in [VoteCall -> VoteRecord]
        /\ \A d \in VoteCall : voteCall'[d].at = "closing" => voteCall'[d] = voteCall[d]
    BY <1>6 DEF WriteClosed, VoteDo, VoteInv, VoteRecord, VoteIdle
  <2> QED
    BY <1>6, <2>3, <2>4, <2>5, NothingCast DEF WriteClosed, VoteInv
<1>7. ASSUME NEW c \in VoteCall, VoteCallDies(c) PROVE VoteInv'
  <2>1. /\ voteCall' \in [VoteCall -> VoteRecord]
        /\ \A d \in VoteCall : voteCall'[d].at = "closing" => voteCall'[d] = voteCall[d]
    BY <1>7 DEF VoteCallDies, VoteDo, VoteInv, VoteRecord, VoteIdle
  <2> QED
    BY <1>7, <2>1, NothingCast DEF VoteCallDies, VoteInv
<1>8. ASSUME NEW c \in VoteCall, NEW v \in Vote, ReadVote(c, v) PROVE VoteInv'
  <2> DEFINE p == TotalVotes(v) > 0
             s == [at |-> "closing", vote |-> v, passed |-> p]
  <2>1. p \in BOOLEAN /\ (p => HasSupport(v))
    BY SupportIsVotes DEF VoteInv
  <2>2. voteCall' = [voteCall EXCEPT ![c] = s] /\ UNCHANGED <<vote, late, ballot, count>>
    BY <1>8 DEF ReadVote, VoteDo
  <2> HIDE DEF p
  <2>3. s \in VoteRecord /\ s.vote = v /\ (s.passed <=> p)
    BY <2>1, Zenon DEF VoteRecord
  <2> HIDE DEF s
  <2>4. voteCall' \in [VoteCall -> VoteRecord]
    BY <2>2, <2>3 DEF VoteInv
  <2>5. ASSUME NEW d \in VoteCall, voteCall'[d].at = "closing", voteCall'[d].passed
        PROVE  HasSupport(voteCall'[d].vote)
    <3>1. CASE d = c
      BY <2>1, <2>2, <2>3, <2>5, <3>1, Zenon DEF VoteInv
    <3>2. CASE d # c
      <4>1. voteCall'[d] = voteCall[d]
        BY <2>2, <3>2 DEF VoteInv
      <4> QED
        BY <2>5, <4>1 DEF VoteInv
    <3> QED
      BY <3>1, <3>2
  <2> QED
    BY <2>2, <2>4, <2>5, NothingCast DEF VoteInv
<1>9. ASSUME NEW c \in VoteCall, NEW v \in Vote, NEW o \in Option, NEW u \in Voter,
             CheckBallot(c, v, o, u)
      PROVE  VoteInv'
  <2> DEFINE s == [at |-> "casting", vote |-> v, voter |-> u, option |-> o]
  <2>1. s \in VoteRecord /\ s.at # "closing"
    BY DEF VoteRecord
  <2>2. voteCall' = [voteCall EXCEPT ![c] = s] /\ UNCHANGED <<vote, late, ballot, count>>
    BY <1>9 DEF CheckBallot, VoteDo
  <2> HIDE DEF s
  <2>3. /\ voteCall' \in [VoteCall -> VoteRecord]
        /\ \A d \in VoteCall : voteCall'[d].at = "closing" => voteCall'[d] = voteCall[d]
    BY <2>1, <2>2 DEF VoteInv
  <2> QED
    BY <2>2, <2>3, NothingCast DEF VoteInv
<1> QED
  BY <1>1, <1>2, <1>3, <1>4, <1>5, <1>6, <1>7, <1>8, <1>9 DEF VoteNext

THEOREM VoteInvariance == VoteSpec => []VoteInv
BY InitVoteInv, NextVoteInv, PTL DEF VoteSpec

(* An option counts its ballots, a user has one ballot in a vote, and a    *)
(* vote that passed has one for an option of its own, for any number of    *)
(* overlapping ballots and closings (votes.service.ts:58-74, 155-169).     *)
THEOREM BallotsAreCounted == VoteSpec => []VotesAreCounted
<1>1. VoteInv => VotesAreCounted
  BY DEF VoteInv, BallotsCounted, BallotsFor, HasSupport, VotesAreCounted
<1> QED
  BY <1>1, VoteInvariance, PTL

(* Votes, ballots and requests keep their types; in particular an option   *)
(* counts at most one ballot per user and vote.                            *)
THEOREM VoteTypeCorrect == VoteSpec => []VoteTypeOK
<1>1. ASSUME VoteInv PROVE VoteTypeOK
  <2>1. ASSUME NEW o \in Option
        PROVE  count[o] \in 0 .. Cardinality(Voter) * Cardinality(Vote)
    <3> DEFINE by == [b \in BallotsFor(o) |-> <<b.voter, b.vote>>]
    <3>1. BallotsFor(o) \subseteq BallotRow /\ BallotsFor(o) \subseteq ballot
      BY <1>1 DEF VoteInv, BallotsCounted, BallotsFor
    <3>2. by \in [BallotsFor(o) -> Voter \X Vote]
      BY <3>1 DEF BallotRow
    <3>3. \A x, y \in BallotsFor(o) : by[x] = by[y] => x = y
      BY <1>1, <3>1 DEF VoteInv, BallotsCounted
    <3>4. by \in Injection(BallotsFor(o), Voter \X Vote)
      BY <3>2, <3>3 DEF Injection, IsInjective
    <3>5. /\ IsFiniteSet(Voter \X Vote)
          /\ Cardinality(Voter \X Vote) = Cardinality(Voter) * Cardinality(Vote)
          /\ Cardinality(Voter \X Vote) \in Nat
      BY VoteAssumption, FS_Product, FS_CardinalityType
    <3> HIDE DEF by
    <3>6. Cardinality(BallotsFor(o)) <= Cardinality(Voter \X Vote)
      BY <3>4, <3>5, FS_Injection
    <3> QED
      BY <1>1, <3>5, <3>6 DEF VoteInv, BallotsCounted
  <2>2. count \in [Option -> 0 .. Cardinality(Voter) * Cardinality(Vote)]
    BY <1>1, <2>1 DEF VoteInv, BallotsCounted
  <2> QED
    BY <1>1, <2>2 DEF VoteInv, BallotsCounted, VoteTypeOK, VoteRecord, BallotRow
<1> QED
  BY <1>1, VoteInvariance, PTL

-------------------------------------------------------------------------------
(* Dividends.  No holding has more shares than the offering, and a request *)
(* that pays carries cuts of holders with an account, each a number of     *)
(* cents, which needs the sums of the cap table to be numbers.             *)

PayoutRow ==
  [n : 1 .. MaxPayouts, to : Investor \ Anonymous, cents : Nat,
   status : {"pending", "awaiting_signatures"}]

SharesInRange ==
  /\ \A h \in Holding : holding[h] # NoHolding => holding[h].shares <= TotalShares
  /\ \A c \in ShareCall :
       shareCall[c].at = "adding" => shareCall[c].row.shares <= TotalShares

CutsOK(s, made) ==
  s.at \in {"paying", "queueing"} =>
    /\ DOMAIN s.cuts \subseteq Investor \ Anonymous
    /\ \A i \in DOMAIN s.cuts : s.cuts[i] \in Nat
    /\ s.at = "queueing" => s.payout \in made

PayoutsOK ==
  /\ payouts \subseteq PayoutRow /\ IsFiniteSet(payouts)
  /\ queued \subseteq payouts
  /\ \A c \in ShareCall : CutsOK(shareCall[c], payouts)

LinksOK == indexed \subseteq Holding /\ linked \in BOOLEAN

(* A holding's row, when there is one.                                     *)
LEMMA HoldingRows ==
  ASSUME ShareInv, NEW h \in Holding
  PROVE  \/ holding[h] = NoHolding
         \/ holding[h] # NoHolding /\ holding[h] \in HoldingRow
BY DEF ShareInv, ShareRows

(* What a step does to the requests.                                       *)
LEMMA ShareDoes ==
  ASSUME ShareInv, NEW c \in ShareCall, NEW s, ShareDo(c, s)
  PROVE  shareCall'[c] = s /\ \A d \in ShareCall : d # c => shareCall'[d] = shareCall[d]
BY DEF ShareInv, ShareRows, ShareDo

-------------------------------------------------------------------------------
(* The cap table.                                                          *)

LEMMA CapTable ==
  ASSUME ShareInv
  PROVE  AllShares \in Nat /\ \A i \in Investor : SharesOf(i) \in Nat
<1>1. ASSUME NEW i \in Investor PROVE SharesOf(i) \in Nat
  <2> DEFINE S == Confirmed(i)
             w == [h \in S |-> holding[h].shares]
  <2>1. S \in SUBSET Holding /\ \A h \in S : holding[h].status = "confirmed"
    BY DEF Confirmed
  <2>2. IsFiniteSet(S)
    BY <2>1, ShareAssumption, FS_Subset
  <2>3. ASSUME NEW h \in S PROVE w[h] \in Nat
    <3>1. holding[h].status = "confirmed" /\ NoHolding.status = "none" /\ h \in Holding
      BY <2>1 DEF NoHolding
    <3>2. holding[h] \in HoldingRow
      BY <3>1, HoldingRows
    <3> QED
      BY <3>2 DEF HoldingRow
  <2>4. SharesOf(i) = SumFunctionOnSet(w, S)
    BY DEF SharesOf
  <2> HIDE DEF S, w
  <2> QED
    BY <2>2, <2>3, <2>4, SumNat
<1>2. IsFiniteSet(Investor)
  <2>1. IsFiniteSet(Holding)
    BY ShareAssumption
  <2> DEFINE f == [h \in Holding |-> InvestorOf[h]]
  <2>2. f \in Surjection(Holding, Investor)
    BY DEF Surjection, Investor
  <2> QED
    BY <2>1, <2>2, FS_Surjection
<1> DEFINE v == [i \in Investor |-> SharesOf(i)]
<1>3. \A i \in Investor : v[i] \in Nat
  BY <1>1
<1>4. AllShares = SumFunctionOnSet(v, Investor)
  BY DEF AllShares
<1> HIDE DEF v
<1>5. AllShares \in Nat
  BY <1>2, <1>3, <1>4, SumNat
<1> QED
  BY <1>1, <1>5

(* So a cut is a number of cents.                                          *)
LEMMA CutTyped ==
  ASSUME ShareInv, AllShares > 0, NEW i \in Investor, NEW pot \in Pot
  PROVE  Cut(i, pot) \in Nat
<1> DEFINE a == SharesOf(i)
           b == AllShares
           n == 2 * a * pot * 100 + b
           d == 2 * b
<1>1. a \in Nat /\ b \in Nat /\ b > 0 /\ pot \in Nat
  BY CapTable, ShareAssumption
<1>2. Cut(i, pot) = n \div d
  BY DEF Cut
<1> HIDE DEF a, b
<1>3. n \in Nat /\ d \in Nat /\ d > 0
  BY <1>1
<1> HIDE DEF n, d
<1>4. n \div d \in Nat
  BY <1>3
<1> QED
  BY <1>2, <1>4

-------------------------------------------------------------------------------
(* Shares in range.                                                        *)
LEMMA NextSharesInRange ==
  ShareInv /\ SharesInRange /\ [ShareNext]_shareVars => SharesInRange'
<1> SUFFICES ASSUME ShareInv, SharesInRange, [ShareNext]_shareVars PROVE SharesInRange'
  OBVIOUS
<1>1. ASSUME UNCHANGED holding, NEW c \in ShareCall, NEW s, ShareDo(c, s),
             s.at = "adding" => s.row.shares <= TotalShares
      PROVE  SharesInRange'
  <2>1. shareCall'[c] = s /\ \A d \in ShareCall : d # c => shareCall'[d] = shareCall[d]
    BY <1>1, ShareDoes
  <2> QED
    BY <1>1, <2>1 DEF SharesInRange
<1>2. ASSUME UNCHANGED <<holding, shareCall>> PROVE SharesInRange'
  BY <1>2 DEF SharesInRange
<1>3. ASSUME NEW c \in ShareCall, NEW o \in Offering, NEW h \in Holding, NEW x \in Investment,
             Invest(c, o, h, x)
      PROVE  SharesInRange'
  <2> DEFINE row == [offering |-> o, amount |-> x, shares |-> x \div Price,
                     status |-> "pending"]
             s == [at |-> "adding", holding |-> h, row |-> row]
  <2>1. ShareDo(c, s) /\ UNCHANGED holding /\ x \div Price <= TotalShares - offering[o].sold
    BY <1>3 DEF Invest
  <2>2. offering[o].sold \in Nat
    BY DEF ShareInv, ShareRows, OfferingDoc
  <2>3. x \div Price \in Nat /\ TotalShares \in Nat
    BY ShareAssumption
  <2>4. x \div Price <= TotalShares
    BY <2>1, <2>2, <2>3
  <2>5. s.row.shares = x \div Price
    OBVIOUS
  <2> HIDE DEF s
  <2> QED
    BY <1>1, <2>1, <2>4, <2>5
<1>4. ASSUME NEW c \in ShareCall, AddHolding(c) PROVE SharesInRange'
  <2> DEFINE s == shareCall[c]
  <2>1. /\ s.at = "adding" /\ s.holding \in Holding
        /\ holding' = [holding EXCEPT ![s.holding] = s.row]
        /\ ShareDo(c, [at |-> "indexing", holding |-> s.holding])
    BY <1>4 DEF AddHolding, ShareInv, ShareCallOK
  <2>2. s.row.shares <= TotalShares
    BY <2>1 DEF SharesInRange
  <2>3. /\ shareCall'[c].at = "indexing"
        /\ \A d \in ShareCall : d # c => shareCall'[d] = shareCall[d]
    BY <2>1, ShareDoes
  <2>4. \A h \in Holding : holding'[h] = IF h = s.holding THEN s.row ELSE holding[h]
    BY <2>1 DEF ShareInv, ShareRows
  <2> HIDE DEF s
  <2> QED
    BY <2>2, <2>3, <2>4 DEF SharesInRange
<1>5. ASSUME NEW c \in ShareCall, NEW h \in Holding, ConfirmHolding(c, h) PROVE SharesInRange'
  <2>1. /\ ShareDo(c, [at |-> "confirming", holding |-> h]) /\ holding[h] # NoHolding
        /\ holding' = [holding EXCEPT ![h].status = "confirmed"]
    BY <1>5 DEF ConfirmHolding
  <2>2. holding[h] \in HoldingRow
    BY <2>1, HoldingRows
  <2>3. holding[h].shares <= TotalShares
    BY <2>1 DEF SharesInRange
  <2>4. /\ holding'[h] = [holding[h] EXCEPT !.status = "confirmed"]
        /\ \A g \in Holding : g # h => holding'[g] = holding[g]
    BY <2>1 DEF ShareInv, ShareRows
  <2>5. holding'[h].shares = holding[h].shares
    BY <2>2, <2>4 DEF HoldingRow
  <2>6. \A g \in Holding : holding'[g] # NoHolding => holding'[g].shares <= TotalShares
    BY <2>3, <2>4, <2>5 DEF SharesInRange
  <2>7. shareCall'[c].at = "confirming"
        /\ \A d \in ShareCall : d # c => shareCall'[d] = shareCall[d]
    BY <2>1, ShareDoes
  <2> QED
    BY <2>6, <2>7 DEF SharesInRange
<1>6. ASSUME NEW c \in ShareCall, NEW o \in Offering, ReadToCloseOffering(c, o)
      PROVE  SharesInRange'
  BY <1>1, <1>6 DEF ReadToCloseOffering
<1>7. ASSUME NEW c \in ShareCall,
             CloseOffering(c) \/ SellShares(c) \/ IndexHolding(c) \/ ShareCallEnds(c)
      PROVE  SharesInRange'
  <2>1. ShareDo(c, ShareIdle) /\ UNCHANGED holding /\ ShareIdle.at = "idle"
    BY <1>7 DEF CloseOffering, SellShares, IndexHolding, ShareCallEnds, ShareIdle
  <2> QED
    BY <1>1, <2>1
<1>8. ASSUME NEW c \in ShareCall, ReadOffering(c) PROVE SharesInRange'
  BY <1>1, <1>8 DEF ReadOffering
<1>9. ASSUME NEW c \in ShareCall, NEW pot \in Pot, NEW n \in Signatures,
             DeclareDividend(c, pot, n)
      PROVE  SharesInRange'
  BY <1>1, <1>9 DEF DeclareDividend
<1>10. ASSUME NEW c \in ShareCall, NEW i \in Investor, CreatePayout(c, i) PROVE SharesInRange'
  <2> DEFINE cuts == shareCall[c].cuts
             p == [n |-> Cardinality(payouts) + 1, to |-> i, cents |-> cuts[i],
                   status |-> IF shareCall[c].sigs > 1 THEN "awaiting_signatures"
                              ELSE "pending"]
             s == [at |-> IF p.status = "pending" THEN "queueing" ELSE "paying",
                   sigs |-> shareCall[c].sigs, payout |-> p,
                   cuts |-> [j \in DOMAIN cuts \ {i} |-> cuts[j]]]
  <2>1. ShareDo(c, s) /\ UNCHANGED holding
    BY <1>10 DEF CreatePayout
  <2>2. s.at # "adding"
    OBVIOUS
  <2> HIDE DEF s
  <2> QED
    BY <1>1, <2>1, <2>2
<1>11. ASSUME NEW c \in ShareCall, EnqueuePayout(c) PROVE SharesInRange'
  <2> DEFINE s == [shareCall[c] EXCEPT !.at = "paying"]
  <2>1. "at" \in DOMAIN shareCall[c]
    BY <1>11 DEF EnqueuePayout, ShareInv, ShareCallOK
  <2>2. s.at = "paying"
    BY <2>1
  <2>3. ShareDo(c, s) /\ UNCHANGED holding
    BY <1>11 DEF EnqueuePayout
  <2> HIDE DEF s
  <2> QED
    BY <1>1, <2>2, <2>3
<1>12. ASSUME NEW o \in Offering, CreateOffering(o) PROVE SharesInRange'
  BY <1>2, <1>12 DEF CreateOffering
<1>13. CASE CreateLink \/ DisableLink \/ UNCHANGED shareVars
  BY <1>2, <1>13 DEF CreateLink, DisableLink, shareVars
<1> QED
  BY <1>3, <1>4, <1>5, <1>6, <1>7, <1>8, <1>9, <1>10, <1>11, <1>12, <1>13
  DEF ShareNext, InvestByLink

(* The payouts and what paying requests carry.                             *)
LEMMA NextPayoutsOK ==
  ShareInv /\ PayoutsOK /\ [ShareNext]_shareVars => PayoutsOK'
<1> SUFFICES ASSUME ShareInv, PayoutsOK, [ShareNext]_shareVars PROVE PayoutsOK'
  OBVIOUS
<1>1. ASSUME NEW c \in ShareCall, NEW s, ShareDo(c, s), payouts \subseteq payouts',
             payouts' \subseteq PayoutRow, IsFiniteSet(payouts'),
             queued' \subseteq payouts', CutsOK(s, payouts')
      PROVE  PayoutsOK'
  <2>1. shareCall'[c] = s /\ \A d \in ShareCall : d # c => shareCall'[d] = shareCall[d]
    BY <1>1, ShareDoes
  <2>2. \A d \in ShareCall : CutsOK(shareCall'[d], payouts')
    BY <1>1, <2>1 DEF PayoutsOK, CutsOK
  <2> QED
    BY <1>1, <2>2 DEF PayoutsOK
<1>2. ASSUME NEW c \in ShareCall, NEW s, ShareDo(c, s), UNCHANGED <<payouts, queued>>,
             s.at \notin {"paying", "queueing"}
      PROVE  PayoutsOK'
  <2>1. CutsOK(s, payouts')
    BY <1>2 DEF CutsOK
  <2> QED
    BY <1>1, <1>2, <2>1 DEF PayoutsOK
<1>3. ASSUME UNCHANGED <<payouts, queued, shareCall>> PROVE PayoutsOK'
  BY <1>3 DEF PayoutsOK, CutsOK
<1>4. ASSUME NEW c \in ShareCall, NEW pot \in Pot, NEW n \in Signatures,
             DeclareDividend(c, pot, n)
      PROVE  PayoutsOK'
  <2> DEFINE paid == {j \in Holders \ Anonymous : Cut(j, pot) > 0}
             cuts == [i \in paid |-> Cut(i, pot)]
             s    == [at |-> "paying", sigs |-> n, cuts |-> cuts]
  <2>1. ShareDo(c, s) /\ UNCHANGED <<payouts, queued>> /\ AllShares > 0
    BY <1>4 DEF DeclareDividend
  <2>2. \A i \in Investor : Cut(i, pot) \in Nat
    BY <2>1, CutTyped
  <2>3. DOMAIN cuts \subseteq Investor \ Anonymous /\ \A i \in DOMAIN cuts : cuts[i] \in Nat
    BY <2>2 DEF Holders
  <2> HIDE DEF cuts
  <2>4. s.at = "paying" /\ s.cuts = cuts
    OBVIOUS
  <2> HIDE DEF s
  <2>5. CutsOK(s, payouts')
    BY <2>3, <2>4 DEF CutsOK
  <2> QED
    BY <1>1, <2>1, <2>5 DEF PayoutsOK
<1>5. ASSUME NEW c \in ShareCall, NEW i \in Investor, CreatePayout(c, i) PROVE PayoutsOK'
  <2> DEFINE cuts == shareCall[c].cuts
             n    == Cardinality(payouts) + 1
             st   == IF shareCall[c].sigs > 1 THEN "awaiting_signatures" ELSE "pending"
             p    == [n |-> n, to |-> i, cents |-> cuts[i], status |-> st]
             rest == [j \in DOMAIN cuts \ {i} |-> cuts[j]]
             s    == [at |-> IF p.status = "pending" THEN "queueing" ELSE "paying",
                      sigs |-> shareCall[c].sigs, payout |-> p, cuts |-> rest]
  <2>1. CutsOK(shareCall[c], payouts) /\ shareCall[c].at = "paying" /\ i \in DOMAIN cuts
    BY <1>5 DEF CreatePayout, PayoutsOK
  <2>2. /\ ShareDo(c, s) /\ payouts' = payouts \cup {p} /\ queued' = queued
        /\ Cardinality(payouts) < MaxPayouts
    BY <1>5 DEF CreatePayout
  <2>3. n \in 1 .. MaxPayouts
    <3>1. Cardinality(payouts) \in Nat /\ MaxPayouts \in Nat
      BY FS_CardinalityType, ShareAssumption DEF PayoutsOK
    <3> QED
      BY <2>2, <3>1
  <2>4. /\ i \in Investor \ Anonymous /\ cuts[i] \in Nat
        /\ DOMAIN cuts \subseteq Investor \ Anonymous /\ \A j \in DOMAIN cuts : cuts[j] \in Nat
    BY <2>1 DEF CutsOK
  <2>5. DOMAIN rest \subseteq Investor \ Anonymous /\ \A j \in DOMAIN rest : rest[j] \in Nat
    BY <2>4
  <2>6. st \in {"pending", "awaiting_signatures"}
    OBVIOUS
  <2>7. s.at \in {"paying", "queueing"} /\ s.payout = p /\ s.cuts = rest
    OBVIOUS
  <2> HIDE DEF rest, n, st, cuts
  <2>8. p \in PayoutRow
    BY <2>3, <2>4, <2>6 DEF PayoutRow
  <2> HIDE DEF p, s
  <2>9. /\ payouts \subseteq payouts' /\ payouts' \subseteq PayoutRow
        /\ queued' \subseteq payouts' /\ p \in payouts'
    BY <2>2, <2>8 DEF PayoutsOK
  <2>10. IsFiniteSet(payouts')
    BY <2>2, FS_AddElement DEF PayoutsOK
  <2>11. CutsOK(s, payouts')
    BY <2>5, <2>7, <2>9 DEF CutsOK
  <2> QED
    BY <1>1, <2>2, <2>9, <2>10, <2>11
<1>6. ASSUME NEW c \in ShareCall, EnqueuePayout(c) PROVE PayoutsOK'
  <2> DEFINE s == [shareCall[c] EXCEPT !.at = "paying"]
  <2>1. "at" \in DOMAIN shareCall[c] /\ shareCall[c].at = "queueing"
    BY <1>6 DEF EnqueuePayout, ShareInv, ShareCallOK
  <2>2. s.at = "paying" /\ s.cuts = shareCall[c].cuts
    BY <2>1
  <2>3. /\ ShareDo(c, s) /\ UNCHANGED payouts
        /\ queued' = queued \cup {shareCall[c].payout}
    BY <1>6 DEF EnqueuePayout
  <2> HIDE DEF s
  <2>4. CutsOK(shareCall[c], payouts)
    BY DEF PayoutsOK
  <2>5. CutsOK(s, payouts') /\ queued' \subseteq payouts'
    BY <2>1, <2>2, <2>3, <2>4 DEF CutsOK, PayoutsOK
  <2> QED
    BY <1>1, <2>3, <2>5 DEF PayoutsOK
<1>7. ASSUME NEW c \in ShareCall,
             CloseOffering(c) \/ SellShares(c) \/ IndexHolding(c) \/ ShareCallEnds(c)
      PROVE  PayoutsOK'
  <2>1. ShareDo(c, ShareIdle) /\ UNCHANGED <<payouts, queued>> /\ ShareIdle.at = "idle"
    BY <1>7 DEF CloseOffering, SellShares, IndexHolding, ShareCallEnds, ShareIdle
  <2> QED
    BY <1>2, <2>1
<1>8. ASSUME NEW c \in ShareCall, NEW o \in Offering, ReadToCloseOffering(c, o)
      PROVE  PayoutsOK'
  BY <1>2, <1>8 DEF ReadToCloseOffering
<1>9. ASSUME NEW c \in ShareCall, ReadOffering(c) \/ AddHolding(c) PROVE PayoutsOK'
  BY <1>2, <1>9 DEF ReadOffering, AddHolding
<1>10. ASSUME NEW c \in ShareCall, NEW o \in Offering, NEW h \in Holding, NEW x \in Investment,
              Invest(c, o, h, x)
       PROVE  PayoutsOK'
  BY <1>2, <1>10 DEF Invest
<1>11. ASSUME NEW c \in ShareCall, NEW h \in Holding, ConfirmHolding(c, h) PROVE PayoutsOK'
  BY <1>2, <1>11 DEF ConfirmHolding
<1>12. ASSUME NEW o \in Offering, CreateOffering(o) PROVE PayoutsOK'
  BY <1>3, <1>12 DEF CreateOffering
<1>13. CASE CreateLink \/ DisableLink \/ UNCHANGED shareVars
  BY <1>3, <1>13 DEF CreateLink, DisableLink, shareVars
<1> QED
  BY <1>4, <1>5, <1>6, <1>7, <1>8, <1>9, <1>10, <1>11, <1>12, <1>13
  DEF ShareNext, InvestByLink

(* No holding has more shares than its offering, a job is queued only for  *)
(* a PayoutRequest that was made, and each pays a number of cents to a     *)
(* holder with an account, however the cap table changes between its       *)
(* computation and the payments (share-offering.service.ts:202-260).       *)
THEOREM ShareTypeCorrect == ShareSpec => []ShareTypeOK
<1>1. ShareInit => SharesInRange /\ PayoutsOK /\ LinksOK
  <2> SUFFICES ASSUME ShareInit PROVE SharesInRange /\ PayoutsOK /\ LinksOK
    OBVIOUS
  <2>1. \A c \in ShareCall : shareCall[c].at = "idle"
    BY DEF ShareInit, ShareIdle
  <2>2. SharesInRange
    BY <2>1 DEF ShareInit, SharesInRange
  <2>3. PayoutsOK
    BY <2>1, FS_EmptySet DEF ShareInit, PayoutsOK, CutsOK
  <2> QED
    BY <2>2, <2>3 DEF ShareInit, LinksOK
<1>2. ShareInv /\ LinksOK /\ [ShareNext]_shareVars => LinksOK'
  <2> SUFFICES ASSUME ShareInv, LinksOK, [ShareNext]_shareVars PROVE LinksOK'
    OBVIOUS
  <2> USE DEF LinksOK
  <2>0. ASSUME NEW c \in ShareCall, IndexHolding(c) PROVE LinksOK'
    <3>1. shareCall[c].holding \in Holding
      BY <2>0 DEF IndexHolding, ShareInv, ShareCallOK
    <3> QED
      BY <2>0, <3>1 DEF IndexHolding
  <2>1. CASE CreateLink \/ DisableLink
    BY <2>1 DEF CreateLink, DisableLink
  <2>2. CASE \E o \in Offering : CreateOffering(o)
    BY <2>2 DEF CreateOffering
  <2>3. ASSUME NEW c \in ShareCall,
               \/ CloseOffering(c) \/ AddHolding(c) \/ ReadOffering(c) \/ SellShares(c)
               \/ EnqueuePayout(c) \/ ShareCallEnds(c)
               \/ \E i \in Investor : CreatePayout(c, i)
               \/ \E pot \in Pot, s \in Signatures : DeclareDividend(c, pot, s)
        PROVE  LinksOK'
    BY <2>3 DEF CloseOffering, AddHolding, ReadOffering, SellShares, EnqueuePayout,
                ShareCallEnds, CreatePayout, DeclareDividend
  <2>4. ASSUME NEW c \in ShareCall,
               \/ \E h \in Holding : ConfirmHolding(c, h)
               \/ \E o \in Offering : ReadToCloseOffering(c, o)
               \/ \E o \in Offering, h \in Holding, x \in Investment : Invest(c, o, h, x)
        PROVE  LinksOK'
    BY <2>4 DEF ConfirmHolding, ReadToCloseOffering, Invest
  <2>5. CASE UNCHANGED shareVars
    BY <2>5 DEF shareVars
  <2> QED
    BY <2>0, <2>1, <2>2, <2>3, <2>4, <2>5 DEF ShareNext, InvestByLink
<1>3. ShareInv /\ SharesInRange /\ PayoutsOK /\ LinksOK => ShareTypeOK
  <2> SUFFICES ASSUME ShareInv, SharesInRange, PayoutsOK, LinksOK
               PROVE  ShareTypeOK
    OBVIOUS
  <2>1. offering \in [Offering -> [sold : Nat, status : {"none", "open", "closed"}]]
    BY DEF ShareInv, ShareRows, OfferingDoc
  <2>2. ASSUME NEW h \in Holding, holding[h] # NoHolding
        PROVE  /\ holding[h].offering \in Offering
               /\ holding[h].shares \in 0 .. TotalShares
               /\ holding[h].status \in {"pending", "confirmed"}
    <3>1. holding[h] \in HoldingRow
      BY <2>2, HoldingRows
    <3>2. holding[h].shares <= TotalShares /\ TotalShares \in Nat
      BY <2>2, ShareAssumption DEF SharesInRange
    <3> QED
      BY <3>1, <3>2 DEF HoldingRow
  <2>3. \A c \in ShareCall : shareCall[c].at \in
          {"idle", "closing", "confirming", "selling", "adding", "indexing", "paying",
           "queueing"}
    BY DEF ShareInv, ShareCallOK
  <2> QED
    BY <2>1, <2>2, <2>3 DEF ShareTypeOK, PayoutsOK, PayoutRow, LinksOK
<1> QED
  BY <1>1, <1>2, <1>3, ShareInvariance, NextSharesInRange, NextPayoutsOK, PTL DEF ShareSpec

-------------------------------------------------------------------------------
(* Meetings.  A request that counted carries a number of users.            *)

MeetCounts ==
  \A c \in MeetCall :
    meetCall[c].pc \in {"insert", "write"} => meetCall[c].n \in 0 .. Cardinality(Guest)

MeetInv ==
  /\ MeetTypeOK
  /\ MeetCounts
  /\ DOMAIN meetCall = MeetCall
  /\ meeting \in [status : MeetingStatus \cup {"none"}, invited : 0 .. Cardinality(Guest),
                  attending : 0 .. Cardinality(Guest)]

(* A part of the users is no larger than all of them.                      *)
LEMMA GuestsCounted ==
  ASSUME NEW S \in SUBSET Guest
  PROVE  Cardinality(S) \in 0 .. Cardinality(Guest)
<1>1. IsFiniteSet(S) /\ Cardinality(S) <= Cardinality(Guest)
  BY MeetAssumption, FS_Subset
<1>2. Cardinality(S) \in Nat /\ Cardinality(Guest) \in Nat
  BY <1>1, MeetAssumption, FS_CardinalityType
<1> QED
  BY <1>1, <1>2

(* A request that moves on, whatever it writes to the meeting's row.       *)
LEMMA MeetStepInv ==
  ASSUME MeetInv, NEW c \in MeetCall, NEW s, MeetStep(c, s),
         s.pc \in {"waiting", "insert", "tell", "answered", "write"},
         s.pc \in {"insert", "write"} => s.n \in 0 .. Cardinality(Guest),
         meeting' \in [status : MeetingStatus \cup {"none"},
                       invited : 0 .. Cardinality(Guest),
                       attending : 0 .. Cardinality(Guest)],
         enrolled' \subseteq Guest, told' \subseteq Guest,
         rsvp' \in [Guest -> Reply \cup {"none"}]
  PROVE  MeetInv'
<1> USE DEF MeetInv, MeetTypeOK, MeetStep
<1>1. DOMAIN meetCall' = MeetCall
  OBVIOUS
<1>2. \A d \in MeetCall :
        /\ meetCall'[d].pc \in {"waiting", "insert", "tell", "answered", "write"}
        /\ meetCall'[d].pc \in {"insert", "write"} =>
             meetCall'[d].n \in 0 .. Cardinality(Guest)
  BY DEF MeetCounts
<1>3. MeetCounts'
  BY <1>2 DEF MeetCounts
<1> QED
  BY <1>1, <1>2, <1>3

LEMMA NextMeetInv == MeetInv /\ [MeetNext]_meetVars => MeetInv'
<1> SUFFICES ASSUME MeetInv, [MeetNext]_meetVars PROVE MeetInv'
  OBVIOUS
<1> DEFINE MeetingRow == [status : MeetingStatus \cup {"none"}, invited : 0 .. Cardinality(Guest),
                   attending : 0 .. Cardinality(Guest)]
<1>0. /\ enrolled \subseteq Guest /\ told \subseteq Guest /\ meeting \in MeetingRow
      /\ rsvp \in [Guest -> Reply \cup {"none"}]
      /\ \A c \in MeetCall : meetCall[c].pc \in {"insert", "write"} =>
           meetCall[c].n \in 0 .. Cardinality(Guest)
  BY DEF MeetInv, MeetTypeOK, MeetCounts
<1>1. ASSUME NEW m \in Guest, Enrol(m) PROVE MeetInv'
  BY <1>1 DEF Enrol, MeetInv, MeetTypeOK, MeetCounts
<1>2. ASSUME NEW c \in MeetCall, CountInvited(c) PROVE MeetInv'
  <2>1. Cardinality(enrolled) \in 0 .. Cardinality(Guest)
    BY <1>0, GuestsCounted
  <2> DEFINE n == Cardinality(enrolled)
             s == [pc |-> "insert", n |-> n]
  <2>2. MeetStep(c, s) /\ UNCHANGED <<enrolled, meeting, rsvp, told>>
    BY <1>2 DEF CountInvited
  <2> HIDE DEF n
  <2>3. s.pc = "insert" /\ s.n = n
    OBVIOUS
  <2>4. n \in 0 .. Cardinality(Guest)
    BY <2>1 DEF n
  <2> HIDE DEF s
  <2> QED
    BY <1>0, <2>2, <2>3, <2>4, MeetStepInv
<1>3. ASSUME NEW c \in MeetCall, InsertMeeting(c) PROVE MeetInv'
  <2> DEFINE s == [pc |-> "tell"]
  <2>1. MeetStep(c, s) /\ UNCHANGED <<enrolled, rsvp, told>>
        /\ meeting' = [status |-> "scheduled", invited |-> meetCall[c].n, attending |-> 0]
    BY <1>3 DEF InsertMeeting
  <2>2. meetCall[c].n \in 0 .. Cardinality(Guest)
    BY <1>0, <1>3 DEF InsertMeeting
  <2>3. meeting' \in MeetingRow
    <3>1. Cardinality(Guest) \in Nat
      BY MeetAssumption, FS_CardinalityType
    <3> QED
      BY <2>1, <2>2, <3>1 DEF MeetingStatus
  <2>4. s.pc = "tell"
    OBVIOUS
  <2> HIDE DEF s
  <2> QED
    BY <1>0, <2>1, <2>3, <2>4, MeetStepInv
<1>4. ASSUME NEW c \in MeetCall, NEW w \in MeetingStatus, UpdateMeeting(c, w) PROVE MeetInv'
  <2> DEFINE s == [pc |-> "tell"]
  <2>1. MeetStep(c, s) /\ UNCHANGED <<enrolled, rsvp, told>>
        /\ meeting' = [meeting EXCEPT !.status = w]
    BY <1>4 DEF UpdateMeeting
  <2>2. meeting' \in MeetingRow
    BY <1>0, <2>1
  <2>3. s.pc = "tell"
    OBVIOUS
  <2> HIDE DEF s
  <2> QED
    BY <1>0, <2>1, <2>2, <2>3, MeetStepInv
<1>5. ASSUME NEW c \in MeetCall, NEW m \in Guest, NEW r \in Reply, Rsvp(c, m, r)
      PROVE  MeetInv'
  <2> DEFINE s == [pc |-> "answered"]
  <2>1. MeetStep(c, s) /\ UNCHANGED <<enrolled, meeting, told>>
        /\ rsvp' = [rsvp EXCEPT ![m] = r]
    BY <1>5 DEF Rsvp
  <2>2. rsvp' \in [Guest -> Reply \cup {"none"}]
    BY <1>0, <2>1
  <2>3. s.pc = "answered"
    OBVIOUS
  <2> HIDE DEF s
  <2> QED
    BY <1>0, <2>1, <2>2, <2>3, MeetStepInv
<1>6. ASSUME NEW c \in MeetCall, CountAttending(c) PROVE MeetInv'
  <2> DEFINE A == {m \in Guest : rsvp[m] = "attending"}
             n == Cardinality(A)
             s == [pc |-> "write", n |-> n]
  <2>1. A \in SUBSET Guest
    OBVIOUS
  <2>2. MeetStep(c, s) /\ UNCHANGED <<enrolled, meeting, rsvp, told>>
    BY <1>6 DEF CountAttending
  <2> HIDE DEF A
  <2>3. n \in 0 .. Cardinality(Guest)
    BY <2>1, GuestsCounted
  <2> HIDE DEF n
  <2>4. s.pc = "write" /\ s.n = n
    OBVIOUS
  <2> HIDE DEF s
  <2> QED
    BY <1>0, <2>2, <2>3, <2>4, MeetStepInv
<1>7. ASSUME NEW c \in MeetCall, WriteAttending(c) PROVE MeetInv'
  <2>1. MeetStep(c, Waiting) /\ UNCHANGED <<enrolled, rsvp, told>>
        /\ meeting' = [meeting EXCEPT !.attending = meetCall[c].n]
    BY <1>7 DEF WriteAttending, MeetDone
  <2>2. meetCall[c].n \in 0 .. Cardinality(Guest)
    BY <1>0, <1>7 DEF WriteAttending
  <2>3. meeting' \in MeetingRow
    BY <1>0, <2>1, <2>2
  <2>4. Waiting.pc = "waiting"
    BY DEF Waiting
  <2> QED
    BY <1>0, <2>1, <2>3, <2>4, MeetStepInv
<1>8. ASSUME NEW c \in MeetCall, TellMembers(c) \/ MeetFails(c) PROVE MeetInv'
  <2>1. MeetStep(c, Waiting) /\ UNCHANGED <<enrolled, meeting, rsvp>>
        /\ told' \subseteq told \cup enrolled
    BY <1>8 DEF TellMembers, MeetFails, MeetDone
  <2>2. Waiting.pc = "waiting"
    BY DEF Waiting
  <2> QED
    BY <1>0, <2>1, <2>2, MeetStepInv
<1>9. CASE UNCHANGED meetVars
  BY <1>9 DEF meetVars, MeetInv, MeetTypeOK, MeetCounts
<1> QED
  BY <1>1, <1>2, <1>3, <1>4, <1>5, <1>6, <1>7, <1>8, <1>9 DEF MeetNext

(* The numbers on a meeting's row are numbers of users of the group, however *)
(* long ago a request counted them (meetings.service.ts).                  *)
THEOREM MeetTypeCorrect == MeetSpec => []MeetTypeOK
<1>1. MeetInit => MeetInv
  <2> SUFFICES ASSUME MeetInit PROVE MeetInv
    OBVIOUS
  <2>1. Cardinality(Guest) \in Nat
    BY MeetAssumption, FS_CardinalityType
  <2>2. \A c \in MeetCall : meetCall[c].pc = "waiting"
    BY DEF MeetInit, Waiting
  <2> QED
    BY <2>1, <2>2 DEF MeetInit, MeetInv, MeetTypeOK, MeetCounts, MeetingStatus, Reply
<1>2. MeetInv => MeetTypeOK
  BY DEF MeetInv
<1> QED
  BY <1>1, <1>2, NextMeetInv, PTL DEF MeetSpec

-------------------------------------------------------------------------------
(* Filing.                                                                 *)

FilingRecord == {NoFiling} \cup [pc : {"row", "unlink"}, file : File]

FileInv == FileTypeOK /\ fileCall \in [FileCall -> FilingRecord]

LEMMA FilingPlaces == \A s \in FilingRecord : s.pc \in {"none", "row", "unlink"}
                                         /\ (s.pc # "none" => s.file \in File)
BY DEF FilingRecord, NoFiling

(* A request writes its own record and the documents.                      *)
LEMMA FilingMoves ==
  ASSUME FileInv, NEW c \in FileCall, NEW s \in FilingRecord,
         fileCall' = [fileCall EXCEPT ![c] = s],
         filed' \subseteq File, stored' \subseteq File, UNCHANGED <<goal, held>>
  PROVE  FileInv'
<1>1. fileCall' \in [FileCall -> FilingRecord]
  BY DEF FileInv
<1>2. \A d \in FileCall : fileCall'[d] \in FilingRecord
  BY <1>1
<1>3. \A d \in FileCall : fileCall'[d].pc \in {"none", "row", "unlink"}
  BY <1>2, FilingPlaces
<1> QED
  BY <1>1, <1>3 DEF FileInv, FileTypeOK

LEMMA NextFileInv == FileInv /\ [FileNext]_fileVars => FileInv'
<1> SUFFICES ASSUME FileInv, [FileNext]_fileVars PROVE FileInv'
  OBVIOUS
<1>0. /\ filed \subseteq File /\ stored \subseteq File
      /\ fileCall \in [FileCall -> FilingRecord] /\ NoFiling \in FilingRecord
  BY DEF FileInv, FileTypeOK, FilingRecord
<1>1. ASSUME NEW c \in FileCall, NEW f \in File, PutObject(c, f) \/ DeleteObject(c, f)
      PROVE  FileInv'
  <2>1. /\ [pc |-> "row", file |-> f] \in FilingRecord
        /\ [pc |-> "unlink", file |-> f] \in FilingRecord
    BY DEF FilingRecord
  <2>2. \/ fileCall' = [fileCall EXCEPT ![c] = [pc |-> "row", file |-> f]]
        \/ fileCall' = [fileCall EXCEPT ![c] = [pc |-> "unlink", file |-> f]]
    BY <1>1 DEF PutObject, DeleteObject, FileStep
  <2>3. stored' \subseteq File /\ filed' \subseteq File /\ UNCHANGED <<goal, held>>
    BY <1>0, <1>1 DEF PutObject, DeleteObject
  <2> QED
    BY <2>1, <2>2, <2>3, FilingMoves
<1>2. ASSUME NEW c \in FileCall, FileDocument(c) \/ DeleteDocument(c) \/ FilingDies(c)
      PROVE  FileInv'
  <2>1. fileCall' = [fileCall EXCEPT ![c] = NoFiling] /\ UNCHANGED <<stored, goal, held>>
    BY <1>2 DEF FileDocument, DeleteDocument, FilingDies, FileDone
  <2>2. fileCall[c] \in FilingRecord
    BY <1>0
  <2>3. filed' \subseteq File
    BY <1>0, <1>2, <2>2, FilingPlaces DEF FileDocument, DeleteDocument, FilingDies
  <2> QED
    BY <1>0, <2>1, <2>3, FilingMoves
<1>3. ASSUME NEW m \in Saver, NEW a \in FileAmount \cup {0},
             goal' = [goal EXCEPT ![m] = a], UNCHANGED <<filed, stored, held, fileCall>>
      PROVE  FileInv'
  BY <1>3 DEF FileInv, FileTypeOK
<1>4. ASSUME NEW a \in FileAmount, CreateInvestment(a) \/ InvestInYield(a) PROVE FileInv'
  BY <1>4 DEF CreateInvestment, InvestInYield, FileInv, FileTypeOK
<1>5. CASE UNCHANGED fileVars
  BY <1>5 DEF fileVars, FileInv, FileTypeOK
<1>6. ASSUME NEW m \in Saver, NEW a \in FileAmount, CreateGoal(m, a) \/ UpdateGoal(m, a)
      PROVE  FileInv'
  BY <1>3, <1>6 DEF CreateGoal, UpdateGoal
<1>7. ASSUME NEW m \in Saver, RemoveGoal(m) PROVE FileInv'
  BY <1>3, <1>7 DEF RemoveGoal
<1> QED
  BY <1>1, <1>2, <1>4, <1>5, <1>6, <1>7 DEF FileNext

(* Documents, goals and the investment keep to their types, wherever an    *)
(* upload or a removal stops (documents.service.ts, goals.service.ts).     *)
THEOREM FileTypeCorrect == FileSpec => []FileTypeOK
<1>1. FileInit => FileInv
  BY DEF FileInit, FileInv, FileTypeOK, FilingRecord, NoFiling, NothingHeld
<1>2. FileInv => FileTypeOK
  BY DEF FileInv
<1> QED
  BY <1>1, <1>2, NextFileInv, PTL DEF FileSpec

-------------------------------------------------------------------------------
(* Sweeps.  What the job that runs carries: the figures it has read, and   *)
(* whom it still looks at.  The row of the contributions is there before   *)
(* the one of the health is written.                                       *)

FiguresRead(r) ==
  /\ DOMAIN r \in SUBSET Figure
  /\ "total" \in DOMAIN r => r["total"] \in 0 .. MaxTotal
  /\ "overdue" \in DOMAIN r => r["overdue"] \in 0 .. MaxDefaulted

JobAt ==
  \/ sweep = AtRest
  \/ /\ sweep.at \in {"reading", "health"}
     /\ sweep.month \in Month /\ FiguresRead(sweep.read)
     /\ sweep.at = "health" => /\ DOMAIN sweep.read = Figure
                               /\ "contributions" \in DOMAIN cached[sweep.month]
  \/ /\ sweep.at = "next"
     /\ sweep.kind \in Reminder /\ sweep.todo \in SUBSET SweepMember
  \/ /\ sweep.at = "notify"
     /\ sweep.user \in SweepMember /\ sweep.todo \in SUBSET SweepMember

RowsOK ==
  /\ cached = [k \in Month |-> cached[k]]
  /\ \A k \in Month :
       /\ DOMAIN cached[k] \subseteq {"contributions", "health"}
       /\ \A x \in DOMAIN cached[k] : cached[k][x] \in 0 .. (100 + MaxTotal)
       /\ "health" \in DOMAIN cached[k] => "contributions" \in DOMAIN cached[k]

SweepInv == SweepTypeOK /\ RowsOK /\ JobAt

(* What the types of the world come down to.                               *)
WorldTyped ==
  /\ month \in Month
  /\ working \subseteq SweepMember /\ answered \subseteq SweepMember
  /\ contributed \subseteq SweepMember \X Month
  /\ contributions \in 0 .. MaxTotal /\ defaulted \in 0 .. MaxDefaulted
  /\ hasDues \in BOOLEAN

LEMMA SweepParts ==
  SweepInv <=> /\ WorldTyped /\ RowsOK /\ JobAt
               /\ notices \in [Reminder -> [SweepMember -> 0 .. MaxNotices]]
<1>1. JobAt => sweep.at \in {"rest", "reading", "health", "next", "notify"}
  BY DEF JobAt, AtRest
<1> QED
  BY <1>1 DEF SweepInv, SweepTypeOK, WorldTyped, RowsOK

LEMMA SweepPartsNext ==
  ASSUME WorldTyped', RowsOK', JobAt',
         (notices \in [Reminder -> [SweepMember -> 0 .. MaxNotices]])'
  PROVE  SweepInv'
<1>1. JobAt' => sweep'.at \in {"rest", "reading", "health", "next", "notify"}
  BY DEF JobAt, AtRest
<1> QED
  BY <1>1 DEF SweepInv, SweepTypeOK, WorldTyped, RowsOK

(* A job that moves on writes no row.                                      *)
LEMMA JobMovesInv ==
  ASSUME SweepInv, JobAt', UNCHANGED <<worldVars, cached, notices>>
  PROVE  SweepInv'
<1>1. WorldTyped' /\ RowsOK'
  BY SweepParts DEF WorldTyped, RowsOK, worldVars
<1>2. (notices \in [Reminder -> [SweepMember -> 0 .. MaxNotices]])'
  BY SweepParts
<1> QED
  BY <1>1, <1>2, SweepPartsNext

(* A row that is written holds a number in range, and is the first or has  *)
(* the first beside it.                                                    *)
LEMMA UpsertInv ==
  ASSUME SweepInv, NEW k \in Month, NEW m \in {"contributions", "health"},
         NEW n \in 0 .. (100 + MaxTotal), Upsert(k, m, n),
         m = "health" => "contributions" \in DOMAIN cached[k]
  PROVE  RowsOK' /\ m \in DOMAIN cached'[k]
<1>0. RowsOK
  BY SweepParts
<1> DEFINE row == With(cached[k], m, n)
<1>1. cached' = [cached EXCEPT ![k] = row]
  BY DEF Upsert
<1>2. /\ DOMAIN row = DOMAIN cached[k] \cup {m} /\ row[m] = n
      /\ \A y \in DOMAIN cached[k] : y # m => row[y] = cached[k][y]
  BY DEF With
<1> HIDE DEF row
<1>3. cached' = [j \in Month |-> IF j = k THEN row ELSE cached[j]]
  BY <1>0, <1>1 DEF RowsOK
<1>4. ASSUME NEW j \in Month
      PROVE  /\ DOMAIN cached'[j] \subseteq {"contributions", "health"}
             /\ \A x \in DOMAIN cached'[j] : cached'[j][x] \in 0 .. (100 + MaxTotal)
             /\ "health" \in DOMAIN cached'[j] => "contributions" \in DOMAIN cached'[j]
  <2>0. /\ DOMAIN cached[j] \subseteq {"contributions", "health"}
        /\ \A x \in DOMAIN cached[j] : cached[j][x] \in 0 .. (100 + MaxTotal)
        /\ "health" \in DOMAIN cached[j] => "contributions" \in DOMAIN cached[j]
    BY <1>0 DEF RowsOK
  <2>1. CASE j = k
    <3>1. cached'[j] = row
      BY <1>3, <2>1
    <3>2. ASSUME NEW x \in DOMAIN row PROVE row[x] \in 0 .. (100 + MaxTotal)
      BY <1>2, <2>0, <2>1
    <3> QED
      BY <1>2, <2>0, <2>1, <3>1, <3>2
  <2>2. CASE j # k
    <3>1. cached'[j] = cached[j]
      BY <1>3, <2>2
    <3> QED
      BY <2>0, <3>1
  <2> QED
    BY <2>1, <2>2
<1>5. cached' = [j \in Month |-> cached'[j]]
  BY <1>3
<1>6. m \in DOMAIN cached'[k]
  BY <1>2, <1>3
<1> QED
  BY <1>4, <1>5, <1>6 DEF RowsOK

-------------------------------------------------------------------------------
(* The rest of the system does not touch what the jobs keep.               *)
LEMMA WorldSweepInv == ASSUME SweepInv, SweepWorld PROVE SweepInv'
<1>0. WorldTyped /\ RowsOK /\ JobAt
      /\ notices \in [Reminder -> [SweepMember -> 0 .. MaxNotices]]
  BY SweepParts
<1>1. WorldTyped'
  <2>1. CASE MonthTurns
    BY <1>0, <2>1, SweepAssumption DEF MonthTurns, WorldTyped, Month
  <2>2. ASSUME NEW u \in SweepMember, Contributes(u) PROVE WorldTyped'
    <3>1. contributions' \in 0 .. MaxTotal
      BY <1>0, <2>2, SweepAssumption DEF Contributes, WorldTyped
    <3>2. contributed' \subseteq SweepMember \X Month
      BY <1>0, <2>2 DEF Contributes, WorldTyped
    <3> QED
      BY <1>0, <2>2, <3>1, <3>2 DEF Contributes, WorldTyped
  <2>3. CASE GroupChanges
    <3>1. defaulted' \in 0 .. MaxDefaulted
      BY <1>0, <2>3, SweepAssumption DEF GroupChanges, WorldTyped
    <3>2. working' \subseteq SweepMember /\ answered' \subseteq SweepMember
      BY <1>0, <2>3 DEF GroupChanges, WorldTyped
    <3>3. hasDues' \in BOOLEAN
      BY <1>0, <2>3 DEF GroupChanges, WorldTyped
    <3> QED
      BY <1>0, <2>3, <3>1, <3>2, <3>3 DEF GroupChanges, WorldTyped
  <2> QED
    BY <2>1, <2>2, <2>3 DEF SweepWorld
<1>2. UNCHANGED <<cached, notices, sweep>>
  BY DEF SweepWorld
<1>3. RowsOK' /\ JobAt'
  BY <1>0, <1>2 DEF RowsOK, JobAt
<1> QED
  BY <1>0, <1>1, <1>2, <1>3, SweepPartsNext

(* The figures of a group.                                                 *)
LEMMA AnalyticsSweepInv ==
  ASSUME SweepInv,
         StartAnalytics \/ WriteContributions \/ WriteHealth \/ \E f \in Figure : ReadFigure(f)
  PROVE  SweepInv'
<1>0. WorldTyped /\ RowsOK /\ JobAt
      /\ notices \in [Reminder -> [SweepMember -> 0 .. MaxNotices]]
  BY SweepParts
<1>1. CASE StartAnalytics
  <2>1. sweep' = [at |-> "reading", month |-> month, read |-> <<>>]
        /\ UNCHANGED <<worldVars, cached, notices>>
    BY <1>1 DEF StartAnalytics
  <2>2. DOMAIN (<<>>) = {}
    OBVIOUS
  <2>3. FiguresRead(<<>>)
    BY <2>2 DEF FiguresRead
  <2>4. JobAt'
    BY <1>0, <2>1, <2>3 DEF JobAt, WorldTyped
  <2> QED
    BY <2>1, <2>4, JobMovesInv
<1>2. ASSUME NEW f \in Figure, ReadFigure(f) PROVE SweepInv'
  <2> DEFINE r == With(sweep.read, f, FigureNow(f))
  <2>1. sweep.month \in Month /\ FiguresRead(sweep.read) /\ sweep.at = "reading"
    BY <1>0, <1>2 DEF ReadFigure, JobAt, AtRest
  <2>2. sweep' = [sweep EXCEPT !.read = r] /\ UNCHANGED <<worldVars, cached, notices>>
    BY <1>2 DEF ReadFigure
  <2>3. /\ f = "total" => FigureNow(f) \in 0 .. MaxTotal
        /\ f = "overdue" => FigureNow(f) \in 0 .. MaxDefaulted
    BY <1>0 DEF FigureNow, WorldTyped
  <2>4. /\ DOMAIN r = DOMAIN sweep.read \cup {f} /\ r[f] = FigureNow(f)
        /\ \A y \in DOMAIN sweep.read : y # f => r[y] = sweep.read[y]
    BY DEF With
  <2> HIDE DEF r
  <2>5. FiguresRead(r)
    BY <2>1, <2>3, <2>4 DEF FiguresRead, Figure
  <2>6. sweep'.at = "reading" /\ sweep'.month \in Month /\ sweep'.read = r
    <3>1. sweep' = [sweep EXCEPT !.read = r]
      BY <2>2
    <3> QED
      BY <2>1, <3>1
  <2>7. JobAt'
    BY <2>5, <2>6 DEF JobAt
  <2> QED
    BY <2>2, <2>7, JobMovesInv
<1>3. CASE WriteContributions
  <2>1. /\ sweep.month \in Month /\ FiguresRead(sweep.read) /\ DOMAIN sweep.read = Figure
        /\ sweep.at = "reading"
    BY <1>0, <1>3 DEF WriteContributions, JobAt, AtRest
  <2>2. sweep.read["total"] \in 0 .. (100 + MaxTotal)
    BY <2>1, SweepAssumption DEF FiguresRead, Figure
  <2>3. RowsOK' /\ "contributions" \in DOMAIN cached'[sweep.month]
    BY <1>3, <2>1, <2>2, UpsertInv DEF WriteContributions
  <2>4. /\ sweep' = [sweep EXCEPT !.at = "health"] /\ UNCHANGED <<worldVars, notices>>
    BY <1>3 DEF WriteContributions
  <2>5. sweep'.at = "health" /\ sweep'.month = sweep.month /\ sweep'.read = sweep.read
    BY <2>1, <2>4
  <2>6. JobAt'
    BY <2>1, <2>3, <2>5 DEF JobAt
  <2>7. WorldTyped'
    BY <1>0, <2>4 DEF WorldTyped, worldVars
  <2> QED
    BY <1>0, <2>3, <2>4, <2>6, <2>7, SweepPartsNext
<1>4. CASE WriteHealth
  <2>1. /\ sweep.month \in Month /\ FiguresRead(sweep.read) /\ DOMAIN sweep.read = Figure
        /\ "contributions" \in DOMAIN cached[sweep.month]
    BY <1>0, <1>4 DEF WriteHealth, JobAt, AtRest
  <2>2. sweep.read["overdue"] \in Nat
    BY <2>1, SweepAssumption DEF FiguresRead, Figure
  <2>3. Health(sweep.read) \in 0 .. (100 + MaxTotal)
    <3>1. Health(sweep.read) \in 0 .. 100
      BY <2>2 DEF Health
    <3> QED
      BY <3>1, SweepAssumption
  <2>4. RowsOK'
    BY <1>4, <2>1, <2>3, UpsertInv DEF WriteHealth
  <2>5. sweep' = AtRest /\ UNCHANGED <<worldVars, notices>>
    BY <1>4 DEF WriteHealth
  <2>6. JobAt' /\ WorldTyped'
    BY <1>0, <2>5 DEF JobAt, WorldTyped, worldVars
  <2> QED
    BY <1>0, <2>4, <2>5, <2>6, SweepPartsNext
<1> QED
  BY <1>1, <1>2, <1>3, <1>4

(* One more notification of a user.                                        *)
LEMMA NotifyOfTyped ==
  ASSUME NEW kind \in Reminder, NEW u \in SweepMember, NotifyOf(kind, u),
         notices \in [Reminder -> [SweepMember -> 0 .. MaxNotices]]
  PROVE  (notices \in [Reminder -> [SweepMember -> 0 .. MaxNotices]])'
<1>1. notices[kind][u] + 1 \in 0 .. MaxNotices
  BY SweepAssumption DEF NotifyOf
<1>2. notices' = [notices EXCEPT ![kind] = [notices[kind] EXCEPT ![u] = notices[kind][u] + 1]]
  BY DEF NotifyOf
<1> QED
  BY <1>1, <1>2

(* The reminders, the pruning and the ends of jobs.                        *)
LEMMA ReminderSweepInv ==
  ASSUME SweepInv,
         \/ StartDues \/ RemindOfDues \/ StartMeetingReminders
         \/ \E u \in SweepMember : LookUpPayment(u) \/ RemindOfMeeting(u)
         \/ \E kind \in Reminder : PruneNotices(kind)
         \/ SweepDone \/ SweepDies
  PROVE  SweepInv'
<1>0. WorldTyped /\ RowsOK /\ JobAt
      /\ notices \in [Reminder -> [SweepMember -> 0 .. MaxNotices]]
  BY SweepParts
<1>1. CASE StartDues \/ StartMeetingReminders
  <2>1. /\ sweep'.at = "next" /\ sweep'.kind \in Reminder
        /\ sweep'.todo \in SUBSET SweepMember
    BY <1>0, <1>1 DEF StartDues, StartMeetingReminders, Reminder, WorldTyped
  <2>2. UNCHANGED <<worldVars, cached, notices>>
    BY <1>1 DEF StartDues, StartMeetingReminders
  <2>3. JobAt'
    BY <2>1 DEF JobAt
  <2> QED
    BY <2>2, <2>3, JobMovesInv
<1>2. ASSUME NEW u \in SweepMember, LookUpPayment(u) PROVE SweepInv'
  <2>1. sweep.todo \in SUBSET SweepMember /\ sweep.at = "next" /\ sweep.kind = "dues"
    BY <1>0, <1>2 DEF LookUpPayment, JobAt, AtRest
  <2>2. UNCHANGED <<worldVars, cached, notices>>
    BY <1>2 DEF LookUpPayment
  <2>3. CASE sweep' = [sweep EXCEPT !.todo = @ \ {u}]
    <3>1. sweep'.at = "next" /\ sweep'.kind = "dues" /\ sweep'.todo \in SUBSET SweepMember
      BY <2>1, <2>3
    <3> QED
      BY <2>2, <3>1, JobMovesInv DEF JobAt, Reminder
  <2>4. CASE sweep' = [at |-> "notify", kind |-> "dues", month |-> sweep.month,
                       todo |-> sweep.todo \ {u}, user |-> u]
    <3>1. sweep'.at = "notify" /\ sweep'.user = u /\ sweep'.todo \in SUBSET SweepMember
      BY <2>1, <2>4
    <3> QED
      BY <2>2, <3>1, JobMovesInv DEF JobAt
  <2> QED
    BY <1>2, <2>3, <2>4 DEF LookUpPayment
<1>3. CASE RemindOfDues
  <2>1. sweep.user \in SweepMember /\ sweep.todo \in SUBSET SweepMember
    BY <1>0, <1>3 DEF RemindOfDues, JobAt, AtRest
  <2>2. /\ NotifyOf("dues", sweep.user) /\ UNCHANGED <<worldVars, cached>>
        /\ sweep' = [at |-> "next", kind |-> "dues", month |-> sweep.month, todo |-> sweep.todo]
    BY <1>3 DEF RemindOfDues
  <2>3. (notices \in [Reminder -> [SweepMember -> 0 .. MaxNotices]])'
    BY <1>0, <2>1, <2>2, NotifyOfTyped DEF Reminder
  <2>4. sweep'.at = "next" /\ sweep'.kind = "dues" /\ sweep'.todo = sweep.todo
    BY <2>2
  <2>5. JobAt'
    BY <2>1, <2>4 DEF JobAt, Reminder
  <2>6. WorldTyped' /\ RowsOK'
    BY <1>0, <2>2 DEF WorldTyped, RowsOK, worldVars
  <2> QED
    BY <2>3, <2>5, <2>6, SweepPartsNext
<1>4. ASSUME NEW u \in SweepMember, RemindOfMeeting(u) PROVE SweepInv'
  <2>1. sweep.todo \in SUBSET SweepMember /\ sweep.at = "next" /\ sweep.kind = "meeting"
    BY <1>0, <1>4 DEF RemindOfMeeting, JobAt, AtRest
  <2>2. /\ NotifyOf("meeting", u) /\ UNCHANGED <<worldVars, cached>>
        /\ sweep' = [sweep EXCEPT !.todo = @ \ {u}]
    BY <1>4 DEF RemindOfMeeting
  <2>3. (notices \in [Reminder -> [SweepMember -> 0 .. MaxNotices]])'
    BY <1>0, <2>2, NotifyOfTyped DEF Reminder
  <2>4. sweep'.at = "next" /\ sweep'.kind = "meeting" /\ sweep'.todo \in SUBSET SweepMember
    BY <2>1, <2>2
  <2>5. JobAt'
    BY <2>4 DEF JobAt, Reminder
  <2>6. WorldTyped' /\ RowsOK'
    BY <1>0, <2>2 DEF WorldTyped, RowsOK, worldVars
  <2> QED
    BY <2>3, <2>5, <2>6, SweepPartsNext
<1>5. ASSUME NEW kind \in Reminder, PruneNotices(kind) PROVE SweepInv'
  <2>1. /\ notices' = [notices EXCEPT ![kind] = [u \in SweepMember |-> 0]]
        /\ UNCHANGED <<worldVars, cached, sweep>>
    BY <1>5 DEF PruneNotices
  <2>2. [u \in SweepMember |-> 0] \in [SweepMember -> 0 .. MaxNotices]
    BY SweepAssumption
  <2>3. (notices \in [Reminder -> [SweepMember -> 0 .. MaxNotices]])'
    BY <1>0, <2>1, <2>2
  <2>4. WorldTyped' /\ RowsOK' /\ JobAt'
    BY <1>0, <2>1 DEF WorldTyped, RowsOK, JobAt, worldVars
  <2> QED
    BY <2>3, <2>4, SweepPartsNext
<1>6. CASE SweepDone \/ SweepDies
  <2>1. sweep' = AtRest /\ UNCHANGED <<worldVars, cached, notices>>
    BY <1>6 DEF SweepDone, SweepDies
  <2>2. JobAt'
    BY <2>1 DEF JobAt
  <2> QED
    BY <2>1, <2>2, JobMovesInv
<1> QED
  BY <1>1, <1>2, <1>3, <1>4, <1>5, <1>6

LEMMA NextSweepInv == SweepInv /\ [SweepNext]_sweepVars => SweepInv'
<1> SUFFICES ASSUME SweepInv, [SweepNext]_sweepVars PROVE SweepInv'
  OBVIOUS
<1>1. CASE UNCHANGED sweepVars
  <2>1. JobAt'
    BY <1>1, SweepParts DEF sweepVars, JobAt
  <2> QED
    BY <1>1, <2>1, JobMovesInv DEF sweepVars, worldVars
<1> QED
  BY <1>1, WorldSweepInv, AnalyticsSweepInv, ReminderSweepInv DEF SweepNext

(* A figure that is kept is a number in range, and no group has a health   *)
(* without the sum it was kept with, whatever changes between the queries  *)
(* of the job and wherever it dies (workers/analytics.worker.ts).          *)
THEOREM SweepTypeCorrect == SweepSpec => []SweepTypeOK
<1>1. SweepInit => SweepInv
  <2> SUFFICES ASSUME SweepInit PROVE SweepInv
    OBVIOUS
  <2>1. WorldTyped
    BY SweepAssumption DEF SweepInit, WorldTyped, Month
  <2>2. \A k \in Month : cached[k] = <<>> /\ DOMAIN cached[k] = {}
    BY DEF SweepInit
  <2>3. RowsOK
    BY <2>2 DEF RowsOK, SweepInit
  <2>4. JobAt
    BY DEF JobAt, SweepInit
  <2>5. notices \in [Reminder -> [SweepMember -> 0 .. MaxNotices]]
    BY SweepAssumption DEF SweepInit
  <2> QED
    BY <2>1, <2>3, <2>4, <2>5, SweepParts
<1>2. SweepInv => SweepTypeOK
  BY DEF SweepInv
<1> QED
  BY <1>1, <1>2, NextSweepInv, PTL DEF SweepSpec

-------------------------------------------------------------------------------
(* A group's page.                                                         *)

PageInv == PageTypeOK /\ IsFiniteSet(gifts)

LEMMA NextPageInv == PageInv /\ [PageNext]_pageVars => PageInv'
<1> SUFFICES ASSUME PageInv, [PageNext]_pageVars PROVE PageInv'
  OBVIOUS
<1> DEFINE PageRow == [status : PageStatus, monthly : Monthly, raised : Nat]
<1>0. /\ pageRole \in [PagePerson -> {"owner", "admin", "member"}]
      /\ page \in PageRow /\ gifts \subseteq Gift /\ linkGifts \subseteq Gift
      /\ pageCall \in [PageCall -> BOOLEAN] /\ IsFiniteSet(gifts)
      /\ page.raised = SumFunctionOnSet([g \in gifts |-> g.amount], gifts)
  BY DEF PageInv, PageTypeOK
<1>1. ASSUME UNCHANGED gifts, page' \in PageRow, page'.raised = page.raised,
             pageRole' \in [PagePerson -> {"owner", "admin", "member"}],
             linkGifts' \subseteq Gift, pageCall' \in [PageCall -> BOOLEAN]
      PROVE  PageInv'
  BY <1>0, <1>1 DEF PageInv, PageTypeOK
<1>2. ASSUME NEW p \in PagePerson,
             NEW patch \in [status : PageStatus] \cup [monthly : Monthly], UpdatePage(p, patch)
      PROVE  PageInv'
  <2> DEFINE st == IF "status" \in DOMAIN patch THEN patch.status ELSE page.status
             mo == IF "monthly" \in DOMAIN patch THEN patch.monthly ELSE page.monthly
  <2>1. st \in PageStatus /\ mo \in Monthly
    <3>1. page.status \in PageStatus /\ page.monthly \in Monthly
      BY <1>0
    <3>2. CASE patch \in [status : PageStatus]
      BY <3>1, <3>2
    <3>3. CASE patch \in [monthly : Monthly]
      BY <3>1, <3>3
    <3> QED
      BY <3>2, <3>3
  <2>2. page' = [page EXCEPT !.status = st, !.monthly = mo]
        /\ UNCHANGED <<pageRole, gifts, linkGifts, pageCall>>
    BY <1>2 DEF UpdatePage
  <2> HIDE DEF st, mo
  <2>3. page' \in PageRow /\ page'.raised = page.raised
    BY <1>0, <2>1, <2>2
  <2> QED
    BY <1>0, <1>1, <2>2, <2>3
<1>3. ASSUME NEW c \in PageCall, NEW p \in PagePerson, ReadToDelete(c, p) PROVE PageInv'
  BY <1>0, <1>1, <1>3 DEF ReadToDelete
<1>4. ASSUME NEW c \in PageCall, DeleteChama(c) PROVE PageInv'
  <2>1. page' \in PageRow /\ page'.raised = page.raised
    BY <1>0, <1>4 DEF DeleteChama, PageStatus
  <2> QED
    BY <1>0, <1>1, <1>4, <2>1 DEF DeleteChama
<1>5. ASSUME NEW p \in PagePerson, NEW r \in {"owner", "admin", "member"}, ChangePageRole(p, r)
      PROVE  PageInv'
  BY <1>0, <1>1, <1>5 DEF ChangePageRole
<1>6. ASSUME NEW g \in Gift, DonateByLink(g) PROVE PageInv'
  BY <1>0, <1>1, <1>6 DEF DonateByLink
<1>7. ASSUME NEW g \in Gift, Donate(g) PROVE PageInv'
  <2>1. /\ g \notin gifts /\ gifts' = gifts \cup {g}
        /\ page' = [page EXCEPT !.raised = page.raised + g.amount]
        /\ UNCHANGED <<pageRole, linkGifts, pageCall>>
    BY <1>7 DEF Donate
  <2> DEFINE S == gifts \cup {g}
             v == [h \in gifts |-> h.amount]
             w == [h \in S |-> h.amount]
  <2>2. g.amount \in Nat /\ \A h \in S : h.amount \in Nat
    BY <1>0, PageAssumption
  <2>3. IsFiniteSet(S)
    BY <1>0, FS_AddElement
  <2>4. \A h \in S : w[h] \in Nat
    BY <2>2
  <2>5. w[g] = g.amount /\ \A h \in gifts : v[h] = w[h]
    OBVIOUS
  <2>6. page.raised = SumFunctionOnSet(v, gifts)
    BY <1>0
  <2> HIDE DEF v, w
  <2>7. Numbers(w, S)
    BY <2>3, <2>4 DEF Numbers
  <2>8. Numbers(w, gifts)
        /\ SumFunctionOnSet(w, S) = SumFunctionOnSet(w, gifts) + w[g]
    BY <2>1, <2>7, SumAdd
  <2>9. SumFunctionOnSet(v, gifts) = SumFunctionOnSet(w, gifts)
    BY <2>5, <2>8, SumAgree
  <2>10. page.raised + g.amount = SumFunctionOnSet(w, S)
    BY <2>5, <2>6, <2>8, <2>9
  <2>11. page' \in PageRow /\ page'.raised = page.raised + g.amount
    BY <1>0, <2>1, <2>2
  <2>12. page'.raised = SumFunctionOnSet([h \in gifts' |-> h.amount], gifts')
    BY <2>1, <2>10, <2>11 DEF w
  <2>13. IsFiniteSet(gifts') /\ gifts' \subseteq Gift
    BY <1>0, <2>1, <2>3
  <2> QED
    BY <1>0, <2>1, <2>11, <2>12, <2>13 DEF PageInv, PageTypeOK
<1>8. CASE UNCHANGED pageVars
  BY <1>0, <1>1, <1>8 DEF pageVars
<1> QED
  BY <1>2, <1>3, <1>4, <1>5, <1>6, <1>7, <1>8 DEF PageNext

(* The amount raised on a group's page is the sum of the gifts that        *)
(* donate() recorded, and of those alone: none through the link counts     *)
(* (chamas.service.ts:691-711, public.routes.ts:80).                       *)
THEOREM PageTypeCorrect == PageSpec => []PageTypeOK
<1>1. PageInit => PageInv
  <2> SUFFICES ASSUME PageInit PROVE PageInv
    OBVIOUS
  <2>1. IsFiniteSet(gifts) /\ gifts = {}
    BY FS_EmptySet DEF PageInit
  <2>2. SumFunctionOnSet([g \in gifts |-> g.amount], gifts) = 0
    BY <2>1, SumEmpty
  <2> QED
    BY <2>1, <2>2 DEF PageInit, PageInv, PageTypeOK, PageStatus
<1>2. PageInv => PageTypeOK
  BY DEF PageInv
<1> QED
  BY <1>1, <1>2, NextPageInv, PTL DEF PageSpec
===============================================================================
