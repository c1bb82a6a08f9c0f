-------------------------------- MODULE Votes ---------------------------------
(***************************************************************************)
(* Votes of the groups (votes.service.ts) and the close-expired-votes job: *)
(* ballots, the counts kept on the options, and the three ways a vote is   *)
(* closed, by the close endpoint, by a ballot that comes too late and by   *)
(* the job.  They do not agree: the first two pass a vote that has a       *)
(* ballot, the job rejects whatever is open.                               *)
(*                                                                         *)
(* Nothing asks whether the voter is a member, nor whether the option is   *)
(* one of the vote's.  The rule verdict (enforceRule) only refuses; the    *)
(* permission on the close endpoint is that of Loans.tla, and the service  *)
(* is modelled as called for a user who may.  Every await is a step.       *)
(***************************************************************************)
EXTENDS Integers, FiniteSets, Functions

CONSTANTS
  Vote,        \* vote ids
  Option,      \* option ids
  OptionOf,    \* OptionOf[o]: the vote that o was created with
  Voter,       \* users
  VoteCall     \* concurrent requests

ASSUME VoteAssumption ==
  /\ OptionOf \in [Option -> Vote]
  /\ IsFiniteSet(Vote) /\ IsFiniteSet(Option) /\ IsFiniteSet(Voter)

VARIABLES
  vote,        \* vote[v]: its status, "none" before it is created
  late,        \* votes whose closing time has passed
  ballot,      \* the ballots: [vote, voter, option], vote and voter unique
  count,       \* count[o]: VoteOption.count
  voteCall     \* voteCall[c]: what request c is doing

voteVars == <<vote, late, ballot, count, voteCall>>

VoteIdle == [at |-> "idle"]

VoteTypeOK ==
  /\ vote \in [Vote -> {"none", "open", "passed", "rejected"}]
  /\ late \subseteq Vote
  /\ ballot \subseteq [vote : Vote, voter : Voter, option : Option]
  /\ count \in [Option -> 0 .. Cardinality(Voter) * Cardinality(Vote)]
  /\ voteCall \in [VoteCall ->
       {VoteIdle}
         \cup [at : {"casting"}, vote : Vote, voter : Voter, option : Option]
         \cup [at : {"closing"}, vote : Vote, passed : BOOLEAN]]

VoteInit ==
  /\ vote     = [v \in Vote |-> "none"]
  /\ late     = {}
  /\ ballot   = {}
  /\ count    = [o \in Option |-> 0]
  /\ voteCall = [c \in VoteCall |-> VoteIdle]

VoteDo(c, s) == voteCall' = [voteCall EXCEPT ![c] = s]

HasVoted(v, u) == \E b \in ballot : b.vote = v /\ b.voter = u

TotalVotes(v) == SumFunctionOnSet(count, {o \in Option : OptionOf[o] = v})

-------------------------------------------------------------------------------
CreateVote(v) ==
  /\ vote[v] = "none"
  /\ vote' = [vote EXCEPT ![v] = "open"]
  /\ UNCHANGED <<late, ballot, count, voteCall>>

(* The clock: closesAt passes.                                             *)
BecomeLate(v) ==
  /\ vote[v] # "none" /\ v \notin late
  /\ late' = late \cup {v}
  /\ UNCHANGED <<vote, ballot, count, voteCall>>

(* castVote up to its write: the vote is open and in time, and the user has*)
(* no ballot for it.                                                       *)
CheckBallot(c, v, o, u) ==
  /\ voteCall[c] = VoteIdle
  /\ vote[v] = "open" /\ v \notin late
  /\ vote[OptionOf[o]] # "none"
  /\ ~ HasVoted(v, u)
  /\ VoteDo(c, [at |-> "casting", vote |-> v, voter |-> u, option |-> o])
  /\ UNCHANGED <<vote, late, ballot, count>>

CastBallotTwice(c) ==                          \* defect: no unique key
  /\ voteCall[c].at = "casting"
  /\ LET b == [vote |-> voteCall[c].vote, voter |-> voteCall[c].voter,
               option |-> voteCall[c].option]
     IN ballot' = ballot \cup {b} /\ count' = [count EXCEPT ![b.option] = @ + 1]
  /\ VoteDo(c, VoteIdle)
  /\ UNCHANGED <<vote, late>>

(* The ballot and the count in one transaction, whatever became of the vote*)
(* meanwhile; a second ballot of the user fails on the unique key.         *)
CastBallot(c) ==
  /\ voteCall[c].at = "casting"
  /\ LET b == [vote |-> voteCall[c].vote, voter |-> voteCall[c].voter,
               option |-> voteCall[c].option]
     IN IF HasVoted(b.vote, b.voter)
        THEN UNCHANGED <<ballot, count>>
        ELSE /\ ballot' = ballot \cup {b}
             /\ count'  = [count EXCEPT ![b.option] = @ + 1]
  /\ VoteDo(c, VoteIdle)
  /\ UNCHANGED <<vote, late>>

(* close, called by the endpoint for any vote and by castVote for one that *)
(* is open and late: the counts are read, the status is written later.     *)
ReadVote(c, v) ==
  /\ voteCall[c] = VoteIdle
  /\ vote[v] # "none"
  /\ VoteDo(c, [at |-> "closing", vote |-> v, passed |-> TotalVotes(v) > 0])
  /\ UNCHANGED <<vote, late, ballot, count>>

WriteClosed(c) ==
  /\ voteCall[c].at = "closing"
  /\ vote' = [vote EXCEPT
       ![voteCall[c].vote] = IF voteCall[c].passed THEN "passed" ELSE "rejected"]
  /\ VoteDo(c, VoteIdle)
  /\ UNCHANGED <<late, ballot, count>>

(* The server dies, or the database fails, between two awaits.             *)
VoteCallDies(c) ==
  /\ voteCall[c] # VoteIdle
  /\ VoteDo(c, VoteIdle)
  /\ UNCHANGED <<vote, late, ballot, count>>

CloseExpiredVotesUnvoted ==                    \* defect: votes with ballots are left
  /\ \E v \in late : vote[v] = "open" /\ TotalVotes(v) = 0
  /\ vote' = [v \in Vote |->
                IF v \in late /\ vote[v] = "open" /\ TotalVotes(v) = 0
                THEN "rejected" ELSE vote[v]]
  /\ UNCHANGED <<late, ballot, count, voteCall>>

(* close-expired-votes: one update of every vote that is open and late.    *)
CloseExpiredVotes ==
  /\ \E v \in late : vote[v] = "open"
  /\ vote' = [v \in Vote |->
                IF v \in late /\ vote[v] = "open" THEN "rejected" ELSE vote[v]]
  /\ UNCHANGED <<late, ballot, count, voteCall>>

VoteNext ==
  \/ \E v \in Vote : CreateVote(v) \/ BecomeLate(v)
  \/ \E c \in VoteCall :
       \/ CastBallot(c) \/ WriteClosed(c) \/ VoteCallDies(c)
       \/ \E v \in Vote :
            \/ ReadVote(c, v)
            \/ \E o \in Option, u \in Voter : CheckBallot(c, v, o, u)
  \/ CloseExpiredVotes

(* The job runs every few minutes (scheduler.ts), and no other step is     *)
(* counted on.                                                             *)
VoteFair == WF_voteVars(CloseExpiredVotes)

VoteSpec == VoteInit /\ [][VoteNext]_voteVars /\ VoteFair

-------------------------------------------------------------------------------
(* However ballots overlap with one another and with the three ways to     *)
(* close, an option counts its ballots, a user has one ballot in a vote,   *)
(* and a vote that passed has one for an option of its own, be it cast in  *)
(* another vote (votes.service.ts:58-74, 155-169).                         *)
VotesAreCounted ==
  /\ \A o \in Option : count[o] = Cardinality({b \in ballot : b.option = o})
  /\ \A a, b \in ballot : a.vote = b.vote /\ a.voter = b.voter => a = b
  /\ \A v \in Vote : vote[v] = "passed" => \E b \in ballot : OptionOf[b.option] = v

(* Every vote whose time is over is closed: if nobody closes it, the job   *)
(* does, and a ballot still on its way does not open it again              *)
(* (workers/index.ts:45-57).                                               *)
LateVotesClose ==
  \A v \in Vote : (v \in late) ~> [](vote[v] # "open")
===============================================================================
