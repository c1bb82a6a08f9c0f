------------------------------- MODULE Imports --------------------------------
(***************************************************************************)
(* The histories of contributions and the lists of members brought over    *)
(* from a spreadsheet (bulk-import.service.ts).  Each import is one        *)
(* database transaction, and so one step.                                  *)
(***************************************************************************)
EXTENDS Integers, Sequences, FiniteSets, Functions

CONSTANTS
  ImportUser,         \* the persons the rows are about
  ImportFile,         \* a function to sequences of rows [user, amount, ref]
  ImportClock         \* the instants at which an import is committed

ASSUME ImportAssumption ==
  \A f \in DOMAIN ImportFile :
    ImportFile[f] \in Seq([user : ImportUser, amount : Int, ref : Nat])

VARIABLES
  rostered,           \* the users with a membership of the group
  imported,           \* the transactions created by imports
  tally,              \* tally[m]: totalContributions of the membership
  invited             \* the invitations created by imports

importVars == <<rostered, imported, tally, invited>>

(* A reference written in a file is <<0, n>>, one made up is the clock and *)
(* the number of rows inserted before it.                                  *)
ImportRef == (ImportClock \cup {0}) \X Nat

ImportTypeOK ==
  /\ rostered \subseteq ImportUser
  /\ \A t \in imported : t.ref \in ImportRef /\ t.user \in ImportUser
  /\ tally \in [ImportUser -> Int]
  /\ \A i \in invited : i.user \in ImportUser /\ i.clock \in ImportClock

ImportInit ==
  /\ rostered    = {}
  /\ imported    = {}
  /\ tally       = [m \in ImportUser |-> 0]
  /\ invited     = {}

-------------------------------------------------------------------------------
(* A user joins the group.                                                 *)
JoinRoster(m) ==
  /\ m \notin rostered
  /\ rostered' = rostered \cup {m}
  /\ UNCHANGED <<imported, tally, invited>>

(* The rows of commitContributions, one after the other: users who are     *)
(* unknown or not members are skipped.  References are unique: one that    *)
(* exists rolls the whole import back.  The rows come with the request and *)
(* not from the preview: their amounts are anything.                       *)
RefOf(row, inserted, clock) == IF row.ref = 0 THEN <<clock, inserted>> ELSE <<0, row.ref>>

InsertRow(acc, row, clock) ==
  LET ref == RefOf(row, acc.n, clock)
  IN IF row.user \notin rostered
     THEN acc
     ELSE [n     |-> acc.n + 1,
           ok    |-> acc.ok /\ \A t \in acc.rows : t.ref # ref,
           rows  |-> acc.rows \cup {[ref |-> ref, user |-> row.user, amount |-> row.amount]},
           total |-> [acc.total EXCEPT ![row.user] = @ + row.amount]]

Import(rows, clock) ==
  LET upTo[i \in 0 .. Len(rows)] ==
        IF i = 0
        THEN [n |-> 0, ok |-> TRUE, rows |-> imported, total |-> tally]
        ELSE InsertRow(upTo[i - 1], rows[i], clock)
  IN upTo[Len(rows)]

ImportUnchecked(rows, clock) ==                \* defect: nothing is rolled back
  LET done == Import(rows, clock)
  IN /\ imported' = imported \cup {t \in done.rows : \A u \in imported : u.ref # t.ref}
     /\ tally' = done.total
     /\ UNCHANGED <<rostered, invited>>

ImportContributions(rows, clock) ==
  LET done == Import(rows, clock)
  IN /\ done.ok
     /\ imported' = done.rows
     /\ tally' = done.total
     /\ UNCHANGED <<rostered, invited>>

(* commitMembers: an invitation for every row but those of members, who    *)
(* were invited before or not.  The token is the address and the clock.    *)
ImportMembers(rows, clock) ==
  LET added == { [user |-> rows[i].user, clock |-> clock] :
                 i \in {j \in DOMAIN rows : rows[j].user \notin rostered} }
  IN /\ added \cap invited = {}
     /\ invited' = invited \cup added
     /\ UNCHANGED <<rostered, imported, tally>>

ImportNext ==
  \/ \E m \in ImportUser : JoinRoster(m)
  \/ \E f \in DOMAIN ImportFile, t \in ImportClock :
       ImportContributions(ImportFile[f], t) \/ ImportMembers(ImportFile[f], t)

ImportSpec == ImportInit /\ [][ImportNext]_importVars

-------------------------------------------------------------------------------
(* What each transaction of a member adds.                                 *)
AmountsOf(m, rows) == [t \in {r \in rows : r.user = m} |-> t.amount]

(* What imports credited to a member is what their transactions say: rows  *)
(* that repeat a reference, earlier in the file or in another import, leave*)
(* nothing behind (bulk-import.service.ts:73-123).                         *)
ImportsAddUp ==
  \A m \in ImportUser : tally[m] = SumFunction(AmountsOf(m, imported))
===============================================================================
