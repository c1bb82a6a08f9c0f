-------------------------------- MODULE Sweeps --------------------------------
(***************************************************************************)
(* The jobs of jobs/workers/index.ts that belong to no service: the        *)
(* figures of a group kept in the analytics cache, the reminders of unpaid *)
(* contributions and of tomorrow's meeting, and the pruning of old         *)
(* notifications.  Every await is a step, what the jobs read changes       *)
(* between them, and a worker may die at any; the scheduler, or BullMQ when*)
(* it finds the job stalled, begins it again from the top.  No job reads   *)
(* what another writes, so one of them at a time is enough.                *)
(***************************************************************************)
EXTENDS Naturals, FiniteSets

CONSTANTS
  SweepMember,        \* users of the group
  LastMonth,          \* bound: months are 0 .. LastMonth
  MaxTotal,           \* bound on what was ever contributed
  MaxDefaulted,       \* bound on the loans in default
  MaxNotices          \* bound on the notifications a user holds of one kind

ASSUME SweepAssumption == {LastMonth, MaxTotal, MaxDefaulted, MaxNotices} \subseteq Nat

VARIABLES
  month,              \* the month the clock shows
  working,            \* users with an active membership
  contributed,        \* completed contributions: <<user, month>>
  contributions,      \* the sum of all of them, in all months
  defaulted,          \* loans of the group in default
  hasDues,            \* chama.monthlyContribution is above zero
  answered,           \* users with an answer to the meeting of tomorrow
  cached,             \* cached[k]: the rows of month k, a function of metrics
  notices,            \* notices[kind][u]: notifications of user u
  sweep               \* the job that runs, and where it is

sweepVars == <<month, working, contributed, contributions, defaulted, hasDues,
               answered, cached, notices, sweep>>

worldVars == <<month, working, contributed, contributions, defaulted, hasDues, answered>>

Month  == 0 .. LastMonth
Figure == {"total", "active", "overdue"}
Reminder == {"dues", "meeting"}
AtRest == [at |-> "rest"]

SweepTypeOK ==
  /\ month \in Month
  /\ working \subseteq SweepMember /\ answered \subseteq SweepMember
  /\ contributed \subseteq SweepMember \X Month
  /\ contributions \in 0 .. MaxTotal /\ defaulted \in 0 .. MaxDefaulted
  /\ hasDues \in BOOLEAN
  /\ \A k \in Month :
       /\ DOMAIN cached[k] \subseteq {"contributions", "health"}
       /\ \A x \in DOMAIN cached[k] : cached[k][x] \in 0 .. (100 + MaxTotal)
       \* the first of the two rows is there when the second is
       /\ "health" \in DOMAIN cached[k] => "contributions" \in DOMAIN cached[k]
  /\ notices \in [Reminder -> [SweepMember -> 0 .. MaxNotices]]
  /\ sweep.at \in {"rest", "reading", "health", "next", "notify"}

SweepInit ==
  /\ month         = 0
  /\ working       = SweepMember
  /\ contributed   = {}
  /\ contributions = 0
  /\ defaulted     = 0
  /\ hasDues       = TRUE
  /\ answered      = {}
  /\ cached        = [k \in Month |-> <<>>]
  /\ notices       = [j \in Reminder |-> [u \in SweepMember |-> 0]]
  /\ sweep         = AtRest

-------------------------------------------------------------------------------
(* What goes on meanwhile: time, and the payments, members, loans, settings*)
(* and answers of the other modules.                                       *)
MonthTurns ==
  /\ month < LastMonth
  /\ month' = month + 1
  /\ UNCHANGED <<working, contributed, contributions, defaulted, hasDues, answered>>

Contributes(u) ==
  /\ contributions < MaxTotal
  /\ contributed' = contributed \cup {<<u, month>>}
  /\ contributions' = contributions + 1
  /\ UNCHANGED <<month, working, defaulted, hasDues, answered>>

GroupChanges ==
  /\ \/ /\ \E u \in working : working' = working \ {u}
        /\ UNCHANGED <<defaulted, hasDues, answered>>
     \/ /\ defaulted < MaxDefaulted
        /\ defaulted' = defaulted + 1
        /\ UNCHANGED <<working, hasDues, answered>>
     \/ /\ hasDues' = ~ hasDues
        /\ UNCHANGED <<working, defaulted, answered>>
     \/ /\ \E u \in SweepMember : answered' = answered \cup {u}
        /\ UNCHANGED <<working, defaulted, hasDues>>
  /\ UNCHANGED <<month, contributed, contributions>>

SweepWorld ==
  /\ MonthTurns \/ GroupChanges \/ \E u \in SweepMember : Contributes(u)
  /\ UNCHANGED <<cached, notices, sweep>>

-------------------------------------------------------------------------------
(* compute-analytics.  The key of the rows is the month it began in.  The  *)
(* queries run side by side, and what they find is of different moments.   *)
StartAnalytics ==
  /\ sweep = AtRest
  /\ sweep' = [at |-> "reading", month |-> month, read |-> <<>>]
  /\ UNCHANGED <<worldVars, cached, notices>>

With(f, x, value) == [y \in DOMAIN f \cup {x} |-> IF y = x THEN value ELSE f[y]]

FigureNow(f) ==
  CASE f = "total"   -> contributions
    [] f = "active"  -> Cardinality(working)
    [] f = "overdue" -> defaulted

ReadFigure(f) ==
  /\ sweep.at = "reading" /\ f \notin DOMAIN sweep.read
  /\ sweep' = [sweep EXCEPT !.read = With(@, f, FigureNow(f))]
  /\ UNCHANGED <<worldVars, cached, notices>>

Health(read) ==
  CASE read["overdue"] > 5 -> 0
    [] read["overdue"] \in 1 .. 5 -> 100 - 20 * read["overdue"]
    [] OTHER -> IF read["active"] > 0 THEN 80 ELSE 50

Upsert(k, metric, value) == cached' = [cached EXCEPT ![k] = With(@, metric, value)]

WriteContributions ==
  /\ sweep.at = "reading" /\ DOMAIN sweep.read = Figure
  /\ Upsert(sweep.month, "contributions", sweep.read["total"])
  /\ sweep' = [sweep EXCEPT !.at = "health"]
  /\ UNCHANGED <<worldVars, notices>>

WriteHealth ==
  /\ sweep.at = "health"
  /\ Upsert(sweep.month, "health", Health(sweep.read))
  /\ sweep' = AtRest
  /\ UNCHANGED <<worldVars, notices>>

-------------------------------------------------------------------------------
(* send-contribution-reminders: the members and the dues are read once, and*)
(* the payments of each when its turn comes, counted from the month the job*)
(* began in.  A member who was reminded is reminded by the next run too.   *)
StartDues ==
  /\ sweep = AtRest
  /\ hasDues
  /\ sweep' = [at |-> "next", kind |-> "dues", month |-> month, todo |-> working]
  /\ UNCHANGED <<worldVars, cached, notices>>

PaidSince(u, k) == \E k2 \in k .. LastMonth : <<u, k2>> \in contributed

LookUpPayment(u) ==
  /\ sweep.at = "next" /\ sweep.kind = "dues" /\ u \in sweep.todo
  /\ sweep' = IF PaidSince(u, sweep.month)
              THEN [sweep EXCEPT !.todo = @ \ {u}]
              ELSE [at |-> "notify", kind |-> "dues", month |-> sweep.month,
                    todo |-> sweep.todo \ {u}, user |-> u]
  /\ UNCHANGED <<worldVars, cached, notices>>

NotifyOf(kind, u) ==
  /\ notices[kind][u] < MaxNotices
  /\ notices' = [notices EXCEPT ![kind][u] = @ + 1]

RemindOfDues ==
  /\ sweep.at = "notify"
  /\ NotifyOf("dues", sweep.user)
  /\ sweep' = [at |-> "next", kind |-> "dues", month |-> sweep.month, todo |-> sweep.todo]
  /\ UNCHANGED <<worldVars, cached>>

(* send-meeting-reminders, every half hour: whoever has answered, also with*)
(* a no, and whether or not a run before told him.                         *)
StartMeetingReminders ==
  /\ sweep = AtRest
  /\ sweep' = [at |-> "next", kind |-> "meeting", todo |-> answered]
  /\ UNCHANGED <<worldVars, cached, notices>>

RemindOfMeeting(u) ==
  /\ sweep.at = "next" /\ sweep.kind = "meeting" /\ u \in sweep.todo
  /\ NotifyOf("meeting", u)
  /\ sweep' = [sweep EXCEPT !.todo = @ \ {u}]
  /\ UNCHANGED <<worldVars, cached>>

SweepDone ==
  /\ sweep.at = "next" /\ sweep.todo = {}
  /\ sweep' = AtRest
  /\ UNCHANGED <<worldVars, cached, notices>>

(* prune-old-notifications: those of 90 days ago, in one statement.        *)
PruneNotices(kind) ==
  /\ notices' = [notices EXCEPT ![kind] = [u \in SweepMember |-> 0]]
  /\ UNCHANGED <<worldVars, cached, sweep>>

SweepDies ==
  /\ sweep # AtRest
  /\ sweep' = AtRest
  /\ UNCHANGED <<worldVars, cached, notices>>

SweepNext ==
  \/ SweepWorld
  \/ StartAnalytics \/ WriteContributions \/ WriteHealth \/ \E f \in Figure : ReadFigure(f)
  \/ StartDues \/ RemindOfDues \/ StartMeetingReminders
  \/ \E u \in SweepMember : LookUpPayment(u) \/ RemindOfMeeting(u)
  \/ \E kind \in Reminder : PruneNotices(kind)
  \/ SweepDone \/ SweepDies

SweepSpec == SweepInit /\ [][SweepNext]_sweepVars
===============================================================================
