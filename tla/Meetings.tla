------------------------------- MODULE Meetings -------------------------------
(***************************************************************************)
(* What a group keeps beside its money.  Its meetings (meetings.service    *)
(* and its routes): creating and changing one, answering the invitation,   *)
(* and the count of those attending that the meeting's row keeps beside    *)
(* the answers; one meeting is modelled.  Documents and the objects behind *)
(* them, savings goals and investments (documents.service with storage.ts, *)
(* goals.service, investments.service and the yield market of p2.routes).  *)
(* The two share no rows: MeetSpec and FileSpec stand side by side.        *)
(***************************************************************************)
EXTENDS Naturals, FiniteSets

CONSTANTS
  Guest,              \* users who may be in the group and answer
  MeetCall            \* requests in flight

ASSUME MeetAssumption == IsFiniteSet(Guest)

VARIABLES
  enrolled,           \* the users with an active membership
  meeting,            \* [status, invited, attending], the meeting's row
  rsvp,               \* rsvp[m]: the answer of the user, or none
  told,               \* users with a notification about the meeting
  meetCall            \* meetCall[c]: where the request is

meetVars == <<enrolled, meeting, rsvp, told, meetCall>>

Waiting == [pc |-> "waiting"]
Reply   == {"attending", "declined", "tentative"}
MeetingStatus == {"scheduled", "ongoing", "completed", "cancelled"}

MeetTypeOK ==
  /\ enrolled \subseteq Guest
  /\ meeting.status \in MeetingStatus \cup {"none"}
  /\ {meeting.invited, meeting.attending} \subseteq 0 .. Cardinality(Guest)
  /\ rsvp \in [Guest -> Reply \cup {"none"}]
  /\ told \subseteq Guest
  /\ \A c \in MeetCall : meetCall[c].pc \in {"waiting", "insert", "tell", "answered", "write"}

MeetInit ==
  /\ enrolled = {}
  /\ meeting  = [status |-> "none", invited |-> 0, attending |-> 0]
  /\ rsvp     = [m \in Guest |-> "none"]
  /\ told     = {}
  /\ meetCall = [c \in MeetCall |-> Waiting]

MeetStep(c, s) == meetCall' = [meetCall EXCEPT ![c] = s]
MeetDone(c)    == MeetStep(c, Waiting)

-------------------------------------------------------------------------------
(* Memberships come and go elsewhere; here they matter for whom a meeting  *)
(* invites.                                                                *)
Enrol(m) ==
  /\ enrolled' = IF m \in enrolled THEN enrolled \ {m} ELSE enrolled \cup {m}
  /\ UNCHANGED <<meeting, rsvp, told, meetCall>>

(* create() counts the members it invites before it inserts the meeting.   *)
CountInvited(c) ==
  /\ meetCall[c] = Waiting
  /\ meeting.status = "none"
  /\ MeetStep(c, [pc |-> "insert", n |-> Cardinality(enrolled)])
  /\ UNCHANGED <<enrolled, meeting, rsvp, told>>

InsertMeeting(c) ==
  /\ meetCall[c].pc = "insert"
  /\ meeting.status = "none"
  /\ meeting' = [status |-> "scheduled", invited |-> meetCall[c].n, attending |-> 0]
  /\ MeetStep(c, [pc |-> "tell"])
  /\ UNCHANGED <<enrolled, rsvp, told>>

(* notifyMembers: those who are members by then, and any of the            *)
(* notifications may fail.                                                 *)
TellMembers(c) ==
  /\ meetCall[c].pc = "tell"
  /\ \E heard \in SUBSET enrolled : told' = told \cup heard
  /\ MeetDone(c)
  /\ UNCHANGED <<enrolled, meeting, rsvp>>

(* update: the status is overwritten by any other, also one that was final;*)
(* whoever is told hears of it, but not of a change of title.              *)
UpdateMeeting(c, status) ==
  /\ meetCall[c] = Waiting
  /\ meeting.status # "none"
  /\ meeting' = [meeting EXCEPT !.status = status]
  /\ MeetStep(c, [pc |-> "tell"])
  /\ UNCHANGED <<enrolled, rsvp, told>>

(* rsvp() of any signed-in user, member or not: the answer is upserted,    *)
(* those attending are counted, and the count is written as it was then.   *)
Rsvp(c, m, answer) ==
  /\ meetCall[c] = Waiting
  /\ meeting.status # "none"
  /\ rsvp' = [rsvp EXCEPT ![m] = answer]
  /\ MeetStep(c, [pc |-> "answered"])
  /\ UNCHANGED <<enrolled, meeting, told>>

CountAttending(c) ==
  /\ meetCall[c].pc = "answered"
  /\ MeetStep(c, [pc |-> "write", n |-> Cardinality({m \in Guest : rsvp[m] = "attending"})])
  /\ UNCHANGED <<enrolled, meeting, rsvp, told>>

WriteAttending(c) ==
  /\ meetCall[c].pc = "write"
  /\ meeting' = [meeting EXCEPT !.attending = meetCall[c].n]
  /\ MeetDone(c)
  /\ UNCHANGED <<enrolled, rsvp, told>>

(* A request that dies, or whose write fails, leaves the count as it was.  *)
MeetFails(c) ==
  /\ meetCall[c].pc \in {"answered", "write", "tell"}
  /\ MeetDone(c)
  /\ UNCHANGED <<enrolled, meeting, rsvp, told>>

MeetNext ==
  \/ \E m \in Guest : Enrol(m)
  \/ \E c \in MeetCall :
       \/ CountInvited(c) \/ InsertMeeting(c) \/ TellMembers(c)
       \/ CountAttending(c) \/ WriteAttending(c) \/ MeetFails(c)
       \/ \E m \in Guest, r \in Reply : Rsvp(c, m, r)
       \/ \E s \in MeetingStatus : UpdateMeeting(c, s)

MeetSpec == MeetInit /\ [][MeetNext]_meetVars

-------------------------------------------------------------------------------
(* Documents, goals and investments.                                       *)
CONSTANTS
  File,               \* documents
  FileCall,           \* uploads and removals in flight
  Saver,              \* users with goals
  FileAmount          \* amounts of goals and investments

VARIABLES
  filed, stored,      \* documents with a row, and with an object in the storage
  goal,               \* goal[m]: the target of the user's goal, 0 for none
  held,               \* the row of the group's investment
  fileCall            \* fileCall[c]: where the request is

fileVars == <<filed, stored, goal, held, fileCall>>

NothingHeld == [status |-> "none", put |-> 0, worth |-> 0]
NoFiling    == [pc |-> "none"]

FileTypeOK ==
  /\ filed \subseteq File /\ stored \subseteq File
  /\ goal \in [Saver -> FileAmount \cup {0}]
  /\ held.status \in {"none", "active", "pending"}
  /\ \A c \in FileCall : fileCall[c].pc \in {"none", "row", "unlink"}

FileInit ==
  /\ filed    = {}
  /\ stored   = {}
  /\ goal     = [m \in Saver |-> 0]
  /\ held     = NothingHeld
  /\ fileCall = [c \in FileCall |-> NoFiling]

FileStep(c, pc, f) == fileCall' = [fileCall EXCEPT ![c] = [pc |-> pc, file |-> f]]
FileDone(c)        == fileCall' = [fileCall EXCEPT ![c] = NoFiling]

-------------------------------------------------------------------------------
(* upload(): the object first, under a random key of its own, then the row.*)
PutObject(c, f) ==
  /\ fileCall[c] = NoFiling
  /\ f \notin stored \cup filed
  /\ stored' = stored \cup {f}
  /\ FileStep(c, "row", f)
  /\ UNCHANGED <<filed, goal, held>>

FileDocument(c) ==
  /\ fileCall[c].pc = "row"
  /\ filed' = filed \cup {fileCall[c].file}
  /\ FileDone(c)
  /\ UNCHANGED <<stored, goal, held>>

(* remove() by any signed-in user: the object first, then the row.         *)
DeleteObject(c, f) ==
  /\ fileCall[c] = NoFiling
  /\ f \in filed
  /\ stored' = stored \ {f}
  /\ FileStep(c, "unlink", f)
  /\ UNCHANGED <<filed, goal, held>>

(* Of two removals at once the second finds no row to delete and fails.    *)
DeleteDocument(c) ==
  /\ fileCall[c].pc = "unlink"
  /\ filed' = filed \ {fileCall[c].file}
  /\ FileDone(c)
  /\ UNCHANGED <<stored, goal, held>>

(* The request dies between the two.                                       *)
FilingDies(c) ==
  /\ fileCall[c] # NoFiling
  /\ FileDone(c)
  /\ UNCHANGED <<filed, stored, goal, held>>

-------------------------------------------------------------------------------
CreateGoal(m, amount) ==
  /\ goal[m] = 0
  /\ goal' = [goal EXCEPT ![m] = amount]
  /\ UNCHANGED <<filed, stored, held, fileCall>>

(* update() and remove() look for the goal among the caller's own.         *)
UpdateGoal(m, amount) ==
  /\ goal[m] # 0
  /\ goal' = [goal EXCEPT ![m] = amount]
  /\ UNCHANGED <<filed, stored, held, fileCall>>

RemoveGoal(m) ==
  /\ goal[m] # 0
  /\ goal' = [goal EXCEPT ![m] = 0]
  /\ UNCHANGED <<filed, stored, held, fileCall>>

(* create() by the treasury: worth what was put in.                        *)
CreateInvestment(amount) ==
  /\ held = NothingHeld
  /\ held' = [status |-> "active", put |-> amount, worth |-> amount]
  /\ UNCHANGED <<filed, stored, goal, fileCall>>

(* The yield market writes a pending one; no step confirms it.             *)
InvestInYield(amount) ==
  /\ held = NothingHeld
  /\ held' = [status |-> "pending", put |-> amount, worth |-> amount]
  /\ UNCHANGED <<filed, stored, goal, fileCall>>

FileNext ==
  \/ \E c \in FileCall :
       \/ FileDocument(c) \/ DeleteDocument(c) \/ FilingDies(c)
       \/ \E f \in File : PutObject(c, f) \/ DeleteObject(c, f)
  \/ \E m \in Saver : RemoveGoal(m) \/ \E a \in FileAmount : CreateGoal(m, a) \/ UpdateGoal(m, a)
  \/ \E a \in FileAmount : CreateInvestment(a) \/ InvestInYield(a)

FileSpec == FileInit /\ [][FileNext]_fileVars
===============================================================================
