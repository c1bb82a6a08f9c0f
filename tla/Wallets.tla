------------------------------- MODULE Wallets --------------------------------
(***************************************************************************)
(* The wallet of one user (wallet.service.ts) and the accounts money is    *)
(* withdrawn to.  A deposit only opens a pending transaction and pushes a  *)
(* payment request to the phone.  The callback route tries the payments of *)
(* the groups first and then the wallet's processor, which looks for a     *)
(* transaction whose reference is the checkout id: the deposits of the     *)
(* code carry references of its own making (DPS...), so it finds only the  *)
(* rows of the legacy flow it is kept for (wallet.controller.ts:41).       *)
(* A withdrawal is checked against the balance, reserves nothing, and      *)
(* nothing settles it: no code calls processWithdrawal.                    *)
(*                                                                         *)
(* Safaricom (external) reports one outcome per checkout, and may repeat   *)
(* it.  Every await is a step.                                             *)
(***************************************************************************)
EXTENDS Integers, FiniteSets, Functions

CONSTANTS
  Legacy,        \* pending deposits whose reference is their checkout id
  PaidOk,        \* those of them that the payer paid
  WalletAmount,  \* WalletAmount[t]: the amount of legacy deposit t
  WalletCall,    \* concurrent requests and callbacks
  WalletAsk,     \* amounts asked for by deposits and withdrawals
  Account,       \* bank accounts (the M-Pesa accounts' code is the same)
  WalletMaxOpen, \* bound: transactions opened
  WalletMaxBacks \* bound: callbacks per checkout

ASSUME WalletAssumption ==
  /\ PaidOk \subseteq Legacy /\ IsFiniteSet(PaidOk) /\ IsFiniteSet(WalletCall)
  /\ WalletAmount \in [Legacy -> Nat \ {0}]
  /\ WalletAsk \subseteq Nat \ {0}
  /\ WalletMaxOpen \in Nat /\ WalletMaxBacks \in Nat

VARIABLES
  balance,     \* Wallet.balance, or NoWallet before there is a row
  deposited,   \* Wallet.totalDeposits
  legacy,      \* legacy[t]: the status of legacy deposit t
  opened,      \* the transactions opened: [n, kind, amount, status, saw]
  backs,       \* backs[t]: callbacks delivered for t
  account,     \* the bank account rows, as account[a] \in BOOLEAN: is it the default
  walletCall   \* walletCall[c]: what request c is doing

walletVars ==
  <<balance, deposited, legacy, opened, backs, account, walletCall>>

moneyRows == <<balance, deposited, legacy, opened, backs>>

WalletIdle == [at |-> "idle"]
NoWallet == -1

WalletTypeOK ==
  /\ balance \in Nat \cup {NoWallet}
  /\ deposited \in Nat
  /\ legacy \in [Legacy -> {"none", "pending", "completed", "failed"}]
  /\ \A o \in opened : o.kind \in {"deposit", "withdrawal"} /\ o.status = "pending"
  /\ backs \in [Legacy -> 0 .. WalletMaxBacks]
  /\ \E A \in SUBSET Account : account \in [A -> BOOLEAN]
  /\ \A c \in WalletCall : walletCall[c].at \in
       {"idle", "making", "checking", "reading", "crediting", "failing",
        "opening", "adding", "removing", "choosing"}

(* A user with legacy deposits had a wallet to make them to.               *)
WalletInit ==
  /\ \/ balance = 0 /\ legacy = [t \in Legacy |-> "pending"]
     \/ balance = NoWallet /\ legacy = [t \in Legacy |-> "none"]
  /\ deposited = 0
  /\ opened = {}
  /\ backs = [t \in Legacy |-> 0]
  /\ account = [a \in {} |-> FALSE]
  /\ walletCall = [c \in WalletCall |-> WalletIdle]

WalletDo(c, s) == walletCall' = [walletCall EXCEPT ![c] = s]

-------------------------------------------------------------------------------
(* GET /wallet makes the row when it is missing; the user id is unique, so *)
(* of two that found nothing one fails.                                    *)
FindWallet(c) ==
  /\ walletCall[c] = WalletIdle /\ balance = NoWallet
  /\ WalletDo(c, [at |-> "making"])
  /\ UNCHANGED <<moneyRows, account>>

OpenWallet(c) ==
  /\ walletCall[c].at = "making"
  /\ balance' = IF balance = NoWallet THEN 0 ELSE balance
  /\ WalletDo(c, WalletIdle)
  /\ UNCHANGED <<deposited, legacy, opened, backs, account>>

(* Both read the wallet first; the row is written after, with the balance  *)
(* that was read.                                                          *)
AskMoney(c, kind, x) ==
  /\ walletCall[c] = WalletIdle
  /\ balance # NoWallet
  /\ Cardinality(opened) < WalletMaxOpen
  /\ WalletDo(c, [at |-> "opening", kind |-> kind, amount |-> x, saw |-> balance])
  /\ UNCHANGED <<moneyRows, account>>

(* The push, or the payout, that follows the row may fail: it is logged.   *)
AskDeposit(c, x) == AskMoney(c, "deposit", x)

(* The balance is checked and nothing is reserved.                         *)
AskWithdrawal(c, x) == balance >= x /\ AskMoney(c, "withdrawal", x)

OpenTransaction(c) ==
  /\ walletCall[c].at = "opening"
  /\ Cardinality(opened) < WalletMaxOpen
  /\ opened' = opened \cup
       {[n |-> Cardinality(opened), kind |-> walletCall[c].kind,
         amount |-> walletCall[c].amount, saw |-> walletCall[c].saw,
         status |-> "pending"]}
  /\ WalletDo(c, WalletIdle)
  /\ UNCHANGED <<balance, deposited, legacy, backs, account>>

-------------------------------------------------------------------------------
(* The callback: the row is read once for its status by the lookup and once*)
(* more by processDeposit, then the wallet, then both are written: another *)
(* callback may come in at each of the three gaps.                         *)

CallbackFindsUnread(c, t) ==                   \* defect: ResultCode is not looked at
  /\ walletCall[c] = WalletIdle
  /\ backs[t] < WalletMaxBacks
  /\ backs' = [backs EXCEPT ![t] = @ + 1]
  /\ IF legacy[t] # "pending"
     THEN UNCHANGED walletCall
     ELSE WalletDo(c, [at |-> "checking", tx |-> t])
  /\ UNCHANGED <<balance, deposited, legacy, opened, account>>

CallbackFinds(c, t) ==
  /\ walletCall[c] = WalletIdle
  /\ backs[t] < WalletMaxBacks
  /\ backs' = [backs EXCEPT ![t] = @ + 1]
  /\ IF legacy[t] # "pending"
     THEN UNCHANGED walletCall
     ELSE WalletDo(c, [at |-> IF t \in PaidOk THEN "checking" ELSE "failing",
                       tx |-> t])
  /\ UNCHANGED <<balance, deposited, legacy, opened, account>>

FailDeposit(c) ==
  /\ walletCall[c].at = "failing"
  /\ legacy' = [legacy EXCEPT ![walletCall[c].tx] = "failed"]
  /\ WalletDo(c, WalletIdle)
  /\ UNCHANGED <<balance, deposited, opened, backs, account>>

(* processDeposit: is the deposit pending still?                           *)
CheckDeposit(c) ==
  /\ walletCall[c].at = "checking"
  /\ IF legacy[walletCall[c].tx] = "pending"
     THEN WalletDo(c, [at |-> "reading", tx |-> walletCall[c].tx])
     ELSE WalletDo(c, WalletIdle)
  /\ UNCHANGED <<moneyRows, account>>

(* Then the wallet as it is now, which may hold the deposit already.       *)
ReadWallet(c) ==
  /\ walletCall[c].at = "reading"
  /\ IF balance = NoWallet
     THEN WalletDo(c, WalletIdle)
     ELSE WalletDo(c, [at |-> "crediting", tx |-> walletCall[c].tx,
                       balance |-> balance, deposited |-> deposited])
  /\ UNCHANGED <<moneyRows, account>>

(* One database transaction writes both rows, with what was read before,   *)
(* and asks nothing of the deposit's status.                               *)
CreditWallet(c) ==
  /\ walletCall[c].at = "crediting"
  /\ LET t == walletCall[c].tx
     IN /\ legacy'    = [legacy EXCEPT ![t] = "completed"]
        /\ balance'   = walletCall[c].balance + WalletAmount[t]
        /\ deposited' = walletCall[c].deposited + WalletAmount[t]
  /\ WalletDo(c, WalletIdle)
  /\ UNCHANGED <<opened, backs, account>>

(* The server dies, or the database fails, between two awaits.             *)
WalletCallDies(c) ==
  /\ walletCall[c] # WalletIdle
  /\ WalletDo(c, WalletIdle)
  /\ UNCHANGED <<moneyRows, account>>

-------------------------------------------------------------------------------
(* Accounts.  Whether a new one is the default is decided from a count read*)
(* before; remove and choose look the account up first.                    *)

CountAccounts(c, a) ==
  /\ walletCall[c] = WalletIdle
  /\ a \notin DOMAIN account
  /\ \A d \in WalletCall : walletCall[d].at = "adding" => walletCall[d].account # a
  /\ WalletDo(c, [at |-> "adding", account |-> a, first |-> DOMAIN account = {}])
  /\ UNCHANGED <<moneyRows, account>>

AddAccount(c) ==
  /\ walletCall[c].at = "adding"
  /\ LET a == walletCall[c].account
     IN account' = [b \in DOMAIN account \cup {a} |->
                      IF b = a THEN walletCall[c].first ELSE account[b]]
  /\ WalletDo(c, WalletIdle)
  /\ UNCHANGED moneyRows

FindAccount(c, a, what) ==
  /\ walletCall[c] = WalletIdle
  /\ a \in DOMAIN account
  /\ WalletDo(c, [at |-> what, account |-> a])
  /\ UNCHANGED <<moneyRows, account>>

(* Removing a default leaves no default behind.                            *)
RemoveAccount(c) ==
  /\ walletCall[c].at = "removing"
  /\ account' = [b \in DOMAIN account \ {walletCall[c].account} |-> account[b]]
  /\ WalletDo(c, WalletIdle)
  /\ UNCHANGED moneyRows

(* One transaction clears every default and sets this one; when the account*)
(* is gone the update fails and the clearing is rolled back.               *)
ChooseDefault(c) ==
  /\ walletCall[c].at = "choosing"
  /\ LET a == walletCall[c].account
     IN account' = IF a \in DOMAIN account
                   THEN [b \in DOMAIN account |-> b = a]
                   ELSE account
  /\ WalletDo(c, WalletIdle)
  /\ UNCHANGED moneyRows

WalletNext ==
  \E c \in WalletCall :
    \/ FindWallet(c) \/ OpenWallet(c) \/ OpenTransaction(c)
    \/ FailDeposit(c) \/ CheckDeposit(c) \/ ReadWallet(c) \/ CreditWallet(c)
    \/ WalletCallDies(c)
    \/ AddAccount(c) \/ RemoveAccount(c) \/ ChooseDefault(c)
    \/ \E x \in WalletAsk : AskDeposit(c, x) \/ AskWithdrawal(c, x)
    \/ \E t \in Legacy : CallbackFinds(c, t)
    \/ \E a \in Account : \/ CountAccounts(c, a)
                          \/ FindAccount(c, a, "removing")
                          \/ FindAccount(c, a, "choosing")

WalletSpec == WalletInit /\ [][WalletNext]_walletVars

-------------------------------------------------------------------------------
(* What the successful callbacks that were delivered brought in.           *)
Brought == SumFunction([t \in PaidOk |-> WalletAmount[t] * backs[t]])

(* Nothing keeps two callbacks of one deposit from crediting it twice, the *)
(* second on top of the first.  What does hold, however callbacks repeat,  *)
(* overlap and write old balances back: the wallet holds no more than what *)
(* the successful callbacks that were delivered brought in, each counted   *)
(* once, and a deposit nobody paid is never credited                       *)
(* (wallet.service.ts:135-164, 224-244).                                   *)
CreditsHaveCallbacks == balance # NoWallet => balance <= Brought
===============================================================================
