---------------------------- MODULE CommunityProofs ---------------------------
(***************************************************************************)
(* The components side by side: the two compositions the runs check are    *)
(* behaviours of each of their components, so whatever was proved of a     *)
(* component alone holds where all of them run.                            *)
(***************************************************************************)
EXTENDS MCCommunity, MCPlatform, MoneyProofs, AccountProofs, GroupProofs

-------------------------------------------------------------------------------
(* The components side by side.  A step of the whole is a step of one of   *)
(* them, and the rest stand still: so the whole keeps what each promises.  *)

LEMMA CommunitySteps ==
  ASSUME [CommunityNext]_communityVars
  PROVE
    /\ [LoanNext]_loanVars /\ [WalletNext]_walletVars /\ [GroupNext]_groupVars
    /\ [ShareNext]_shareVars /\ [BidNext]_bidVars /\ [RuleNext]_ruleVars
    /\ [KycNext]_kycVars /\ [AuthNext]_authVars /\ [GateNext]_gateVars
    /\ [IdemNext]_idemVars /\ [RevNext]_revVars /\ [MeetNext]_meetVars
    /\ [FileNext]_fileVars /\ [ImportNext]_importVars /\ [WatchNext]_watchVars
    /\ [BotNext]_botVars /\ [PaybillNext]_paybillVars /\ [SweepNext]_sweepVars
<1>1. [LoanNext]_loanVars
  BY DEF CommunityNext, CommunityRests, communityVars
<1>2. [WalletNext]_walletVars
  BY DEF CommunityNext, CommunityRests, communityVars
<1>3. [GroupNext]_groupVars
  BY DEF CommunityNext, CommunityRests, communityVars
<1>4. [ShareNext]_shareVars
  BY DEF CommunityNext, CommunityRests, communityVars
<1>5. [BidNext]_bidVars
  BY DEF CommunityNext, CommunityRests, communityVars
<1>6. [RuleNext]_ruleVars
  BY DEF CommunityNext, CommunityRests, communityVars
<1>7. [KycNext]_kycVars
  BY DEF CommunityNext, CommunityRests, communityVars
<1>8. [AuthNext]_authVars
  BY DEF CommunityNext, CommunityRests, communityVars
<1>9. [GateNext]_gateVars
  BY DEF CommunityNext, CommunityRests, communityVars
<1>10. [IdemNext]_idemVars
  BY DEF CommunityNext, CommunityRests, communityVars
<1>11. [RevNext]_revVars
  BY DEF CommunityNext, CommunityRests, communityVars
<1>12. [MeetNext]_meetVars
  BY DEF CommunityNext, CommunityRests, communityVars
<1>13. [FileNext]_fileVars
  BY DEF CommunityNext, CommunityRests, communityVars
<1>14. [ImportNext]_importVars
  BY DEF CommunityNext, CommunityRests, communityVars
<1>15. [WatchNext]_watchVars
  BY DEF CommunityNext, CommunityRests, communityVars
<1>16. [BotNext]_botVars
  BY DEF CommunityNext, CommunityRests, communityVars
<1>17. [PaybillNext]_paybillVars
  BY DEF CommunityNext, CommunityRests, communityVars
<1>18. [SweepNext]_sweepVars
  BY DEF CommunityNext, CommunityRests, communityVars
<1> QED
  BY <1>1, <1>2, <1>3, <1>4, <1>5, <1>6, <1>7, <1>8, <1>9, <1>10, <1>11, <1>12,
     <1>13, <1>14, <1>15, <1>16, <1>17, <1>18

(* Every behaviour of the community is one of each of its components.      *)
THEOREM CommunityIsItsParts ==
  CommunitySpec =>
    /\ LoanSpec /\ WalletSpec /\ GroupSpec /\ ShareSpec /\ BidSpec /\ RuleSpec
    /\ KycSpec /\ AuthSpec /\ GateSpec /\ IdemSpec /\ RevSpec /\ MeetSpec
    /\ FileSpec /\ ImportSpec /\ WatchSpec /\ BotSpec /\ PaybillSpec
    /\ SweepSpec
<1>1. CommunityInit =>
        /\ LoanInit /\ WalletInit /\ GroupInit /\ ShareInit /\ BidInit
        /\ RuleInit /\ KycInit /\ AuthInit /\ GateInit /\ IdemInit /\ RevInit
        /\ MeetInit /\ FileInit /\ ImportInit /\ WatchInit /\ BotInit
        /\ PaybillInit /\ SweepInit
  BY DEF CommunityInit
<1>2. [CommunityNext]_communityVars =>
        /\ [LoanNext]_loanVars /\ [WalletNext]_walletVars
        /\ [GroupNext]_groupVars /\ [ShareNext]_shareVars /\ [BidNext]_bidVars
        /\ [RuleNext]_ruleVars /\ [KycNext]_kycVars /\ [AuthNext]_authVars
        /\ [GateNext]_gateVars /\ [IdemNext]_idemVars /\ [RevNext]_revVars
        /\ [MeetNext]_meetVars /\ [FileNext]_fileVars
        /\ [ImportNext]_importVars /\ [WatchNext]_watchVars
        /\ [BotNext]_botVars /\ [PaybillNext]_paybillVars
        /\ [SweepNext]_sweepVars
  BY CommunitySteps
<1> QED
  BY <1>1, <1>2, PTL
  DEF CommunitySpec,
      LoanSpec, WalletSpec, GroupSpec, ShareSpec, BidSpec, RuleSpec, KycSpec,
      AuthSpec, GateSpec, IdemSpec, RevSpec, MeetSpec, FileSpec, ImportSpec,
      WatchSpec, BotSpec, PaybillSpec, SweepSpec

(* Every component of the community keeps to its types.                    *)
THEOREM CommunityTypeCorrect == CommunitySpec => []CommunityTypeOK
<1>1. CommunityTypeOK <=>
        /\ LoanTypeOK /\ WalletTypeOK /\ GroupTypeOK /\ ShareTypeOK
        /\ BidTypeOK /\ RuleTypeOK /\ KycTypeOK /\ AuthTypeOK /\ GateTypeOK
        /\ IdemTypeOK /\ RevTypeOK /\ MeetTypeOK /\ FileTypeOK /\ ImportTypeOK
        /\ WatchTypeOK /\ BotTypeOK /\ PaybillTypeOK /\ SweepTypeOK
  BY DEF CommunityTypeOK
<1> QED
  BY <1>1, CommunityIsItsParts,
     LoanTypeCorrect, WalletTypeCorrect, GroupTypeCorrect, ShareTypeCorrect,
     BidTypeCorrect, RuleTypeCorrect, KycTypeCorrect, AuthTypeCorrect,
     GateTypeCorrect, IdemTypeCorrect, RevTypeCorrect, MeetTypeCorrect,
     FileTypeCorrect, ImportTypeCorrect, WatchTypeCorrect, BotTypeCorrect,
     PaybillTypeCorrect, SweepTypeCorrect, PTL

(* What each component promises holds where they all run: no repayment,    *)
(* credit or imported row without its backing, no loan disbursed oftener   *)
(* than requests overlap, no sale without its buyer, and no step that      *)
(* hands a group that lost its owners to a new one.                        *)
THEOREM CommunityIsSafe ==
  CommunitySpec =>
    /\ [](/\ RepaidIsBacked /\ DisbursementsAreBounded
          /\ CreditsHaveCallbacks /\ ImportsAddUp
          /\ NoFeeCliff /\ CapacityKept /\ SoldToSomebody
          /\ SettledByBestBid /\ ChainUnbroken /\ TierIsProven
          /\ AttemptsAreBounded /\ PromptsWereOffered)
    /\ OwnershipHandedOn
BY CommunityIsItsParts,
   RepaymentsAreBacked, CreditsAreBacked, ImportsAreAccounted, QuotesHaveNoCliff,
   CapacityIsKept, SalesHaveHolders, BestBidWins, BylawsFormOneChain,
   TiersAreProven, BurstsAreBounded, PromptsAreOffered, DisbursementsStayBounded,
   OwnershipIsHandedOn, PTL

LEMMA PlatformSteps ==
  ASSUME [PlatformNext]_platformVars
  PROVE
    /\ [VoteNext]_voteVars /\ [BillNext]_billVars /\ [PageNext]_pageVars
    /\ [MsgNext]_msgVars /\ [PrefNext]_prefVars /\ [PassNext]_passVars
<1>1. [VoteNext]_voteVars
  BY DEF PlatformNext, PlatformRests, platformVars
<1>2. [BillNext]_billVars
  BY DEF PlatformNext, PlatformRests, platformVars
<1>3. [PageNext]_pageVars
  BY DEF PlatformNext, PlatformRests, platformVars
<1>4. [MsgNext]_msgVars
  BY DEF PlatformNext, PlatformRests, platformVars
<1>5. [PrefNext]_prefVars
  BY DEF PlatformNext, PlatformRests, platformVars
<1>6. [PassNext]_passVars
  BY DEF PlatformNext, PlatformRests, platformVars
<1> QED
  BY <1>1, <1>2, <1>3, <1>4, <1>5, <1>6

(* And the platform's, whose fairness is theirs.                           *)
THEOREM PlatformIsItsParts ==
  PlatformSpec =>
    /\ VoteSpec /\ BillSpec /\ PageSpec /\ MsgSpec /\ PrefSpec /\ PassSpec
<1>1. PlatformInit =>
        /\ VoteInit /\ BillInit /\ PageInit /\ MsgInit /\ PrefInit /\ PassInit
  BY DEF PlatformInit
<1>2. [PlatformNext]_platformVars =>
        /\ [VoteNext]_voteVars /\ [BillNext]_billVars /\ [PageNext]_pageVars
        /\ [MsgNext]_msgVars /\ [PrefNext]_prefVars /\ [PassNext]_passVars
  BY PlatformSteps
<1> QED
  BY <1>1, <1>2, PTL
  DEF PlatformSpec,
      VoteSpec, BillSpec, PageSpec, MsgSpec, PrefSpec, PassSpec

(* Every component of the platform keeps to its types.                     *)
THEOREM PlatformTypeCorrect == PlatformSpec => []PlatformTypeOK
<1>1. PlatformTypeOK <=>
        /\ VoteTypeOK /\ BillTypeOK /\ PageTypeOK /\ MsgTypeOK /\ PrefTypeOK
        /\ PassTypeOK
  BY DEF PlatformTypeOK
<1> QED
  BY <1>1, PlatformIsItsParts,
     VoteTypeCorrect, BillTypeCorrect, PageTypeCorrect, MsgTypeCorrect,
     PrefTypeCorrect, PassTypeCorrect, PTL

(* On the platform every paid invoice stays accounted for, and every vote  *)
(* cast stays counted.                                                     *)
THEOREM PlatformIsSafe == PlatformSpec => [](InvoicesAreAccounted /\ VotesAreCounted)
BY PlatformIsItsParts, InvoicesStayAccounted, BallotsAreCounted, PTL
===============================================================================
