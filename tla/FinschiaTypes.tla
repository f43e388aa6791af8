--------------------------- MODULE FinschiaTypes ---------------------------
(***************************************************************************)
(* The tables of the library: the Amino converters of its modules, the     *)
(* types of its registry and how types.ts merges them.                     *)
(*                                                                         *)
(* Type URLs are written without "/lbm." and the version, Amino types      *)
(* without "lbm-sdk/".  The tables of @cosmjs, which share no Amino type   *)
(* with those below, are represented by one of their messages.             *)
(***************************************************************************)
EXTENDS Sequences

Cosmjs == {<<"bank.MsgSend", "cosmos-sdk/MsgSend">>}

CollectionTransfers == {
    <<"collection.MsgSendFT", "MsgSendFT">>,
    <<"collection.MsgOperatorSendFT", "MsgOperatorSendFT">>,
    <<"collection.MsgSendNFT", "MsgSendNFT">>,
    <<"collection.MsgOperatorSendNFT", "MsgOperatorSendNFT">>,
    <<"collection.MsgAuthorizeOperator", "collection/MsgAuthorizeOperator">>}

CollectionCreation == {
    <<"collection.MsgRevokeOperator", "MsgRevokeOperator">>,
    <<"collection.MsgCreateContract", "MsgCreateContract">>,
    <<"collection.MsgIssueFT", "MsgIssueFT">>,
    <<"collection.MsgIssueNFT", "MsgIssueNFT">>}

CollectionSupply == {
    <<"collection.MsgMintFT", "MsgMintFT">>,
    <<"collection.MsgMintNFT", "MsgMintNFT">>,
    <<"collection.MsgBurnFT", "MsgBurnFT">>,
    <<"collection.MsgOperatorBurnFT", "MsgOperatorBurnFT">>,
    <<"collection.MsgBurnNFT", "MsgBurnNFT">>,
    <<"collection.MsgOperatorBurnNFT", "MsgOperatorBurnNFT">>}

CollectionRights == {
    <<"collection.MsgModify", "collection/MsgModify">>,
    <<"collection.MsgGrantPermission", "collection/MsgGrantPermission">>,
    <<"collection.MsgRevokePermission", "collection/MsgRevokePermission">>,
    <<"collection.MsgAttach", "MsgAttach">>,
    <<"collection.MsgDetach", "MsgDetach">>}

CollectionOperatorNesting == {
    <<"collection.MsgOperatorAttach", "MsgOperatorAttach">>,
    <<"collection.MsgOperatorDetach", "MsgOperatorDetach">>}

CollectionConverters ==
    CollectionTransfers \cup CollectionCreation \cup CollectionSupply
        \cup CollectionRights \cup CollectionOperatorNesting

TokenTransfers == {
    <<"token.MsgSend", "MsgSend">>,
    <<"token.MsgOperatorSend", "MsgOperatorSend">>,
    <<"token.MsgRevokeOperator", "MsgRevokeOperator">>,
    <<"token.MsgAuthorizeOperator", "token/MsgAuthorizeOperator">>,
    <<"token.MsgIssue", "MsgIssue">>}

TokenRights == {
    <<"token.MsgGrantPermission", "token/MsgGrantPermission">>,
    <<"token.MsgRevokePermission", "token/MsgRevokePermission">>,
    <<"token.MsgMint", "MsgMint">>,
    <<"token.MsgBurn", "MsgBurn">>,
    <<"token.MsgOperatorBurn", "MsgOperatorBurn">>,
    <<"token.MsgModify", "token/MsgModify">>}

TokenConverters == TokenTransfers \cup TokenRights

FoundationTreasury == {
    <<"foundation.MsgFundTreasury", "MsgFundTreasury">>,
    <<"foundation.MsgWithdrawFromTreasury", "MsgWithdrawFromTreasury">>,
    <<"foundation.MsgUpdateMembers", "MsgUpdateMembers">>}

FoundationPolicy == {
    <<"foundation.MsgUpdateDecisionPolicy", "MsgUpdateDecisionPolicy">>}

FoundationVoting == {
    <<"foundation.MsgWithdrawProposal", "MsgWithdrawProposal">>,
    <<"foundation.MsgVote", "MsgVote">>,
    <<"foundation.MsgExec", "MsgExec">>,
    <<"foundation.MsgLeaveFoundation", "MsgLeaveFoundation">>,
    <<"foundation.MsgUpdateCensorship", "MsgUpdateCensorship">>}

FoundationGrants == {
    <<"foundation.MsgGrant", "MsgGrant">>,
    <<"foundation.MsgRevoke", "MsgRevoke">>}

FoundationAnyTypes == {
    <<"foundation.ThresholdDecisionPolicy", "ThresholdDecisionPolicy">>,
    <<"foundation.PercentageDecisionPolicy", "PercentageDecisionPolicy">>,
    <<"foundation.ReceiveFromTreasuryAuthorization",
      "ReceiveFromTreasuryAuthorization">>}

FoundationWithoutSubmitProposal ==
    FoundationTreasury \cup FoundationPolicy \cup FoundationVoting
        \cup FoundationGrants \cup FoundationAnyTypes

FoundationConverters ==
    FoundationWithoutSubmitProposal
        \cup {<<"foundation.MsgSubmitProposal", "MsgSubmitProposal">>}

\* The Any of MsgUpdateDecisionPolicy and of MsgGrant: other types throw.
AnyParts ==
    [url \in {"foundation.MsgUpdateDecisionPolicy", "foundation.MsgGrant"} |->
        IF url = "foundation.MsgGrant"
        THEN {<<"foundation.ReceiveFromTreasuryAuthorization",
                "ReceiveFromTreasuryAuthorization">>,
              <<"stakingplus.CreateValidatorAuthorization",
                "CreateValidatorAuthorization">>}
        ELSE {<<"foundation.ThresholdDecisionPolicy", "ThresholdDecisionPolicy">>,
              <<"foundation.PercentageDecisionPolicy", "PercentageDecisionPolicy">>}]

WasmplusConverters == {
    <<"wasm.MsgStoreCodeAndInstantiateContract",
      "wasm/MsgStoreCodeAndInstantiateContract">>}

FswapConverters == {
    <<"fswap.MsgSwap", "MsgSwap">>,
    <<"fswap.MsgSwapAll", "MsgSwapAll">>}

FbridgeConverters == {
    <<"fbridge.MsgTransfer", "MsgTransfer">>,
    <<"fbridge.MsgSuggestRole", "MsgSuggestRole">>,
    <<"fbridge.MsgAddVoteForRole", "MsgAddVoteForRole">>,
    <<"fbridge.MsgSetBridgeStatus", "MsgSetBridgeStatus">>}

DefaultTypesWithoutFoundation ==
    Cosmjs \cup CollectionConverters \cup TokenConverters
        \cup WasmplusConverters \cup FswapConverters \cup FbridgeConverters

DefaultTypes == DefaultTypesWithoutFoundation \cup FoundationConverters

\* The aminoTypes MsgSubmitProposal converts its messages with.
ProposalTypes == DefaultTypesWithoutFoundation \cup FoundationWithoutSubmitProposal

-----------------------------------------------------------------------------
(* The registry *)

CosmjsTypes == {"bank.MsgSend"}

CollectionTypes == {"collection." \o name : name \in {
    "MsgSendFT", "MsgOperatorSendFT", "MsgSendNFT", "MsgOperatorSendNFT",
    "MsgAuthorizeOperator", "MsgRevokeOperator", "MsgCreateContract",
    "MsgIssueFT", "MsgIssueNFT", "MsgMintFT", "MsgMintNFT", "MsgBurnFT",
    "MsgOperatorBurnFT", "MsgBurnNFT", "MsgOperatorBurnNFT", "MsgModify",
    "MsgGrantPermission", "MsgRevokePermission", "MsgAttach", "MsgDetach",
    "MsgOperatorAttach", "MsgOperatorDetach"}}

TokenTypes == {"token." \o name : name \in {
    "MsgSend", "MsgOperatorSend", "MsgRevokeOperator", "MsgAuthorizeOperator",
    "MsgIssue", "MsgGrantPermission", "MsgRevokePermission", "MsgMint",
    "MsgBurn", "MsgOperatorBurn", "MsgModify"}}

FoundationTypes == {"foundation." \o name : name \in {
    "MsgFundTreasury", "MsgWithdrawFromTreasury", "MsgUpdateMembers",
    "MsgUpdateDecisionPolicy", "MsgSubmitProposal", "MsgWithdrawProposal",
    "MsgVote", "MsgExec", "MsgLeaveFoundation", "MsgUpdateCensorship",
    "MsgGrant", "MsgRevoke", "ReceiveFromTreasuryAuthorization",
    "DecisionPolicyWindows", "ThresholdDecisionPolicy",
    "PercentageDecisionPolicy"}}

FswapTypes == {"fswap.MsgSwap", "fswap.MsgSwapAll", "fswap.MsgSetSwap"}

FbridgeTypes == {"fbridge.MsgTransfer", "fbridge.MsgSuggestRole",
                 "fbridge.MsgAddVoteForRole", "fbridge.MsgSetBridgeStatus"}

WasmplusTypes == {"wasm.MsgStoreCodeAndInstantiateContract"}

StakingplusTypes == {"stakingplus.CreateValidatorAuthorization"}

FinschiaRegistryTypes ==
    CosmjsTypes \cup CollectionTypes \cup FoundationTypes \cup StakingplusTypes
        \cup TokenTypes \cup WasmplusTypes \cup FswapTypes \cup FbridgeTypes
=============================================================================
