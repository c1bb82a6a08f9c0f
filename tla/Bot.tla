--------------------------------- MODULE Bot ----------------------------------
(***************************************************************************)
(* The WhatsApp bot (whatsapp.service.ts, its webhook in p2.routes.ts): a  *)
(* conversation kept in a row per phone, read when a message comes in and  *)
(* written while it is handled.  Meta is answered before the handling, may *)
(* deliver a message twice and several at once, and nothing tells repeats. *)
(* One phone is modelled; the USSD menus keep no state.                    *)
(***************************************************************************)
EXTENDS Naturals, FiniteSets, TLC

CONSTANTS
  BotAmount,          \* amounts a message may name
  BotGroup,           \* active groups the user may be in
  BotCall,            \* messages being handled
  MaxPrompts          \* bound on the STK prompts started

ASSUME BotAssumption == MaxPrompts \in Nat

VARIABLES
  session,            \* the row: [state, amount, groups], groups offered or chosen
  belongs,            \* the groups the user is an active member of
  offers,             \* the contributions the user was asked to confirm
  prompts,            \* the contributions started, each as often
  botCall             \* botCall[c]: the session as the handler of the message read it

botVars == <<session, belongs, offers, prompts, botCall>>

IdleSession == [state |-> "idle", amount |-> 0, groups |-> {}]
Offer       == BotAmount \X BotGroup

SessionRow ==
  {IdleSession}
    \cup [state : {"awaiting_amount"}, amount : {0}, groups : {{}}]
    \cup [state : {"awaiting_chama", "awaiting_confirm"}, amount : BotAmount,
          groups : SUBSET BotGroup]

BotTypeOK ==
  /\ session \in SessionRow
  /\ belongs \subseteq BotGroup
  /\ offers \subseteq Offer
  /\ prompts \in [Offer -> 0 .. MaxPrompts]
  /\ \A c \in BotCall : botCall[c].pc \in {"none", "loaded", "prompted"}

NoMessage == [pc |-> "none"]

BotInit ==
  /\ session = IdleSession
  /\ belongs = {}
  /\ offers  = {}
  /\ prompts = [o \in Offer |-> 0]
  /\ botCall = [c \in BotCall |-> NoMessage]

Handled(c) == botCall' = [botCall EXCEPT ![c] = NoMessage]

(* updateSession writes state and context together; the row may be another *)
(* by now than the one the handler read.                                   *)
Write(c, row) ==
  /\ session' = row
  /\ Handled(c)

Confirming(amount, g) == [state |-> "awaiting_confirm", amount |-> amount, groups |-> {g}]

Read(c, state) == botCall[c].pc = "loaded" /\ botCall[c].row.state = state

-------------------------------------------------------------------------------
(* Memberships change elsewhere.                                           *)
BelongsChanges(g) ==
  /\ belongs' = IF g \in belongs THEN belongs \ {g} ELSE belongs \cup {g}
  /\ UNCHANGED <<session, offers, prompts, botCall>>

(* loadSession: the row of the phone, put back to idle when 30 minutes old.*)
LoadSession(c, stale) ==
  LET row == IF stale THEN IdleSession ELSE session
  IN /\ botCall[c] = NoMessage
     /\ session' = row
     /\ botCall' = [botCall EXCEPT ![c] = [pc |-> "loaded", row |-> row]]
     /\ UNCHANGED <<belongs, offers, prompts>>

(* "cancel" or "help", whatever the state.                                 *)
Reset(c) ==
  /\ botCall[c].pc = "loaded"
  /\ Write(c, IdleSession)
  /\ UNCHANGED <<belongs, offers, prompts>>

(* "contribute"                                                            *)
BeginContribution(c) ==
  /\ Read(c, "idle")
  /\ Write(c, [state |-> "awaiting_amount", amount |-> 0, groups |-> {}])
  /\ UNCHANGED <<belongs, offers, prompts>>

(* A message not understood in its state, or a question about balance,     *)
(* loans, meetings or groups, writes nothing.                              *)
Answered(c) ==
  /\ botCall[c].pc = "loaded"
  /\ Handled(c)
  /\ UNCHANGED <<session, belongs, offers, prompts>>

(* An amount: the groups are read now.  None ends it, one is asked about.  *)
GiveAmount(c, amount) ==
  /\ Read(c, "awaiting_amount")
  /\ CASE belongs = {} ->
            /\ Write(c, IdleSession)
            /\ UNCHANGED offers
       [] Cardinality(belongs) = 1 ->
            \E g \in belongs :
              /\ Write(c, Confirming(amount, g))
              /\ offers' = offers \cup {<<amount, g>>}
       [] OTHER ->
            /\ Write(c, [state |-> "awaiting_chama", amount |-> amount, groups |-> belongs])
            /\ UNCHANGED offers
  /\ UNCHANGED <<belongs, prompts>>

(* A group of the menu, by its number or name.                             *)
ChooseGroup(c, g) ==
  LET row == botCall[c].row
  IN /\ Read(c, "awaiting_chama")
     /\ g \in row.groups
     /\ Write(c, Confirming(row.amount, g))
     /\ offers' = offers \cup {<<row.amount, g>>}
     /\ UNCHANGED <<belongs, prompts>>

ConfirmYesOfNow(c, started) ==                 \* defect: the amount is read again
  LET row == botCall[c].row
  IN /\ Read(c, "awaiting_confirm")
     /\ session.amount \in BotAmount
     /\ \E g \in row.groups :
          IF started
          THEN /\ prompts[<<session.amount, g>>] < MaxPrompts
               /\ prompts' = [prompts EXCEPT ![<<session.amount, g>>] = @ + 1]
          ELSE UNCHANGED prompts
     /\ botCall' = [botCall EXCEPT ![c] = [pc |-> "prompted"]]
     /\ UNCHANGED <<session, belongs, offers>>

(* YES: contribute() starts the prompt from the context read, and the row  *)
(* goes back to idle when it returns, as it does when it throws.  Another  *)
(* YES in between starts another.                                          *)
ConfirmYes(c, started) ==
  LET row == botCall[c].row
  IN /\ Read(c, "awaiting_confirm")
     /\ \E g \in row.groups :
          IF started
          THEN /\ prompts[<<row.amount, g>>] < MaxPrompts
               /\ prompts' = [prompts EXCEPT ![<<row.amount, g>>] = @ + 1]
          ELSE UNCHANGED prompts
     /\ botCall' = [botCall EXCEPT ![c] = [pc |-> "prompted"]]
     /\ UNCHANGED <<session, belongs, offers>>

AfterPrompt(c) ==
  /\ botCall[c].pc = "prompted"
  /\ Write(c, IdleSession)
  /\ UNCHANGED <<belongs, offers, prompts>>

(* NO                                                                      *)
ConfirmNo(c) ==
  /\ Read(c, "awaiting_confirm")
  /\ Write(c, IdleSession)
  /\ UNCHANGED <<belongs, offers, prompts>>

(* A handler that dies leaves the row as it is.                            *)
BotDies(c) ==
  /\ botCall[c] # NoMessage
  /\ Handled(c)
  /\ UNCHANGED <<session, belongs, offers, prompts>>

BotNext ==
  \/ \E g \in BotGroup : BelongsChanges(g)
  \/ \E c \in BotCall :
       \/ \E stale \in BOOLEAN : LoadSession(c, stale)
       \/ Reset(c) \/ BeginContribution(c) \/ Answered(c) \/ ConfirmNo(c) \/ AfterPrompt(c) \/ BotDies(c)
       \/ \E a \in BotAmount : GiveAmount(c, a)
       \/ \E g \in BotGroup : ChooseGroup(c, g)
       \/ \E started \in BOOLEAN : ConfirmYes(c, started)

BotSpec == BotInit /\ [][BotNext]_botVars

-------------------------------------------------------------------------------
(* However messages overlap, a prompt is started only for an amount and a  *)
(* group the user was asked to confirm: a row of one conversation is never *)
(* completed with the context of another (whatsapp.service.ts:159-228).    *)
PromptsWereOffered ==
  \A o \in Offer : prompts[o] > 0 => o \in offers
===============================================================================
