----------------------------- MODULE MCCommunity ------------------------------
(***************************************************************************)
(* Small instances of the components that share no rows, for TLC: one of   *)
(* them, the focus, runs and the others stay where they begin.             *)
(***************************************************************************)
EXTENDS Loans, Wallets, Groups, Shares, Bidding, Rules, Kyc, Auth, Gates,
        Idempotency, Revenue, Meetings, Imports, Watch, Bot,
        Paybill, Sweeps, TLC

CONSTANTS t1, t2, u1, u2, u3, u4, d1, d2

MCWalletAmount == (t1 :> 1) @@ (t2 :> 2)

MCInvestorOf == [h1 |-> "i1", h2 |-> "i2"]

MCRuleDoc ==
  LET plain == [minAge |-> 0, maxAge |-> 120, gender |-> "any", location |-> "any",
                employer |-> "any", sponsors |-> 0, deposit |-> 0, monthly |-> TRUE, dueDay |-> 5, graceDays |-> 2,
                amount |-> 2, quorumPct |-> 50, noManualExit |-> FALSE,
                order |-> "by_vote", rotation |-> <<>>]
  IN {plain,
      [plain EXCEPT !.minAge = 18, !.sponsors = 1, !.noManualExit = TRUE,
                    !.location = "nairobi", !.employer = "acme",
                    !.order = "rotational", !.rotation = <<"a", "b", "a">>]}

MCHook ==
  [point : {"member_apply"}, age : {17, 30}, gender : {"unsaid"}, sponsors : {0, 1},
   location : {{}, {"mombasa"}, {"westlands nairobi", "nairobi"}}, employer : {{}, {"acme"}},
   paid : {FALSE}, queued : {FALSE}]
    \cup [point : {"contribution_received"}, amount : {1, 2}, day : {7, 8}]
    \cup [point : {"loan_request"}]
    \cup [point : {"vote_cast"}, closing : {TRUE}, eligible : {4}, cast : {1, 2}]
    \cup [point : {"exit_request"}, manual : BOOLEAN]
    \cup [point : {"payout_initiate"}, cycle : 0 .. 2, recipient : {"a", "b"},
          votePassed : BOOLEAN, amount : {5}, pool : {4, 5}]

MCOwnerOf == [d \in {d1, d2} |-> u1]

MCTypeOf == (d1 :> "passport") @@ (d2 :> "selfie")

MCFeaturesOf ==
  [free       |-> {"basic"},
   starter    |-> {"basic"},
   pro        |-> {"basic", "exports"},
   enterprise |-> {"basic", "exports", "api_access"}]

MCImportFile ==
  [clean    |-> <<[user |-> "m1", amount |-> 2, ref |-> 1],
                  [user |-> "m2", amount |-> 1, ref |-> 0]>>,
   repeated |-> <<[user |-> "m1", amount |-> -1, ref |-> 1]>>,
   unnamed  |-> <<[user |-> "m1", amount |-> 1, ref |-> 0],
                  [user |-> "m1", amount |-> 1, ref |-> 0]>>]

MCListedBy == [ofac |-> {"p1"}, un |-> {}]

MCHashOf == [g1 |-> "h1", g2 |-> "h1"]

MCHistory == {<<1000>>, <<500, 500, 500>>, <<1, 1, 1, 1, 1, 1, 1, 1, 1>>}

-------------------------------------------------------------------------------
VARIABLE focus

Component ==
  {"loans", "wallets", "groups", "shares", "bidding", "rules", "kyc", "auth",
   "gates", "idempotency", "revenue", "meetings", "filing", "imports", "watch", "bot",
   "paybill", "sweeps"}

communityVars ==
  <<loanVars, walletVars, groupVars, shareVars, bidVars, ruleVars, kycVars, authVars,
    gateVars, idemVars, revVars, meetVars, fileVars, importVars, watchVars, botVars,
    paybillVars, sweepVars, focus>>

CommunityInit ==
  /\ focus \in Component
  /\ LoanInit /\ WalletInit /\ GroupInit /\ ShareInit /\ BidInit /\ RuleInit
  /\ KycInit /\ AuthInit /\ GateInit /\ IdemInit /\ RevInit /\ MeetInit
  /\ FileInit /\ ImportInit /\ WatchInit /\ BotInit /\ PaybillInit /\ SweepInit
  /\ focus # "groups" => privacy = "public"
  /\ focus # "wallets" => balance = 0
  /\ focus # "kyc" => \A u \in KycUser : proven[u] = {}

CommunityRests ==
  /\ IF focus = "loans"       THEN TRUE ELSE UNCHANGED loanVars
  /\ IF focus = "wallets"     THEN TRUE ELSE UNCHANGED walletVars
  /\ IF focus = "groups"      THEN TRUE ELSE UNCHANGED groupVars
  /\ IF focus = "shares"      THEN TRUE ELSE UNCHANGED shareVars
  /\ IF focus = "bidding"     THEN TRUE ELSE UNCHANGED bidVars
  /\ IF focus = "rules"       THEN TRUE ELSE UNCHANGED ruleVars
  /\ IF focus = "kyc"         THEN TRUE ELSE UNCHANGED kycVars
  /\ IF focus = "auth"        THEN TRUE ELSE UNCHANGED authVars
  /\ IF focus = "gates"       THEN TRUE ELSE UNCHANGED gateVars
  /\ IF focus = "idempotency" THEN TRUE ELSE UNCHANGED idemVars
  /\ IF focus = "revenue"     THEN TRUE ELSE UNCHANGED revVars
  /\ IF focus = "meetings"    THEN TRUE ELSE UNCHANGED meetVars
  /\ IF focus = "filing"      THEN TRUE ELSE UNCHANGED fileVars
  /\ IF focus = "imports"     THEN TRUE ELSE UNCHANGED importVars
  /\ IF focus = "watch"       THEN TRUE ELSE UNCHANGED watchVars
  /\ IF focus = "bot"         THEN TRUE ELSE UNCHANGED botVars
  /\ IF focus = "paybill"     THEN TRUE ELSE UNCHANGED paybillVars
  /\ IF focus = "sweeps"      THEN TRUE ELSE UNCHANGED sweepVars

CommunityNext ==
  /\ UNCHANGED focus
  /\ CommunityRests
  /\ \/ (focus = "loans" /\ LoanNext)       \/ (focus = "wallets" /\ WalletNext)
     \/ (focus = "groups" /\ GroupNext)     \/ (focus = "shares" /\ ShareNext)
     \/ (focus = "bidding" /\ BidNext)      \/ (focus = "rules" /\ RuleNext)
     \/ (focus = "kyc" /\ KycNext)          \/ (focus = "auth" /\ AuthNext)
     \/ (focus = "gates" /\ GateNext)       \/ (focus = "idempotency" /\ IdemNext)
     \/ (focus = "revenue" /\ RevNext)      \/ (focus = "meetings" /\ MeetNext)
     \/ (focus = "filing" /\ FileNext)      \/ (focus = "imports" /\ ImportNext)
     \/ (focus = "watch" /\ WatchNext)      \/ (focus = "bot" /\ BotNext)
     \/ (focus = "paybill" /\ PaybillNext) \/ (focus = "sweeps" /\ SweepNext)

CommunitySpec == CommunityInit /\ [][CommunityNext]_communityVars

-------------------------------------------------------------------------------
(* Every component keeps to its types.                                     *)
CommunityTypeOK ==
  /\ LoanTypeOK /\ WalletTypeOK /\ GroupTypeOK /\ ShareTypeOK /\ BidTypeOK
  /\ RuleTypeOK /\ KycTypeOK /\ AuthTypeOK /\ GateTypeOK /\ IdemTypeOK
  /\ RevTypeOK /\ MeetTypeOK /\ FileTypeOK /\ ImportTypeOK /\ WatchTypeOK /\ BotTypeOK
  /\ PaybillTypeOK /\ SweepTypeOK
===============================================================================
