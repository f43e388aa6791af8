---------------------------- MODULE AminoSigning ----------------------------
(***************************************************************************)
(* SigningFinschiaClient.signAmino (signingfinschiaclient.ts 698-740): the *)
(* messages are converted to Amino JSON, the wallet signs the document,    *)
(* and the transaction is rebuilt from what it signed.  Both conversions   *)
(* go through tables from type URL to Amino type; this module is about any *)
(* tables, FinschiaTypes has those of the library.                         *)
(*                                                                         *)
(* A message is its type URL, the type of the Any it carries (the          *)
(* authorization of a MsgGrant, the policy of a MsgUpdateDecisionPolicy),  *)
(* the fields that are converted (Conversions) and the messages a          *)
(* MsgSubmitProposal wraps.  The other fields are copied one by one and    *)
(* are left out.                                                           *)
(***************************************************************************)
EXTENDS Conversions, Sequences, FiniteSets

CONSTANTS
    Converters,  \* pairs <<type URL, Amino type>>: the aminoTypes of the client
    Inner,       \* those of the aminoTypes inside MsgSubmitProposal
    Foundation,  \* those MsgSubmitProposal searches on the way back
    Parts,       \* pairs for the Any of a message, by type URL
    Registered,  \* type URLs the registry can encode
    Wrappable,   \* those createMsgSubmitProposal can encode
    Messages,    \* the messages the application may send
    MaxMsgs      \* bound on the messages of a transaction

Proposal == "foundation.MsgSubmitProposal"

\* The tables are objects, with one entry for a type URL; the types of an Any
\* are told apart; a proposal is searched in a part of what converts it.
ASSUME TablesAssumption ==
    /\ \A table \in {Converters, Inner} :
          /\ IsFiniteSet(table)
          /\ \A pair \in table : pair = <<pair[1], pair[2]>>
          /\ \A pair, other \in table : pair[1] = other[1] => pair = other
    /\ \A url \in DOMAIN Parts : \A pair, other \in Parts[url] :
          /\ pair = <<pair[1], pair[2]>>
          /\ pair[1] = other[1] \/ pair[2] = other[2] => pair = other
    /\ Foundation \subseteq Inner

\* What a message and one wrapped in a proposal consist of.
Plain(m) == [url |-> m.url, part |-> m.part, fields |-> m.fields]

Whole(m) == [url |-> m.url, part |-> m.part, fields |-> m.fields,
             inner |-> [i \in DOMAIN m.inner |-> Plain(m.inner[i])]]

ASSUME MessagesAssumption ==
    /\ \A m \in Messages :
          /\ m = Whole(m)
          /\ m.fields \in Fields
          /\ \A i \in DOMAIN m.inner : m.inner[i].fields \in Fields
          /\ m.url = Proposal \/ m.inner = <<>>  \* only proposals wrap messages
    /\ MaxMsgs \in Nat

VARIABLES
    stage,    \* where the call of signAmino is
    msgs,     \* the messages it was given
    signDoc,  \* the Amino messages the wallet was shown
    txBody    \* the messages of the transaction

vars == <<stage, msgs, signDoc, txBody>>

Stages == {"called", "asking", "rejected", "lost", "built"}

TxMsgs == UNION {[1..n -> Messages] : n \in 1..MaxMsgs}

-----------------------------------------------------------------------------
(* The conversions *)

\* AminoTypes.toAmino looks a type URL up, AminoTypes.fromAmino an Amino type:
\* it throws unless exactly one entry matches.
ByUrl(table, url) == {pair \in table : pair[1] = url}
ByType(table, type) == {pair \in table : pair[2] = type}

TypeOf(table, url) == (CHOOSE pair \in ByUrl(table, url) : TRUE)[2]
UrlOf(table, type) == (CHOOSE pair \in ByType(table, type) : TRUE)[1]

PartsOf(url) == IF url \in DOMAIN Parts THEN Parts[url] ELSE {<<"", "">>}

\* The messages of a MsgSubmitProposal are decoded with the registry and
\* converted with the inner tables.
InnerToAminoOK(m) ==
    /\ m.url \in Registered
    /\ ByUrl(Inner, m.url) # {}
    /\ ByUrl(PartsOf(m.url), m.part) # {}
    /\ FieldsToAminoOK(m.fields)

ToAminoOK(m) ==
    /\ ByUrl(Converters, m.url) # {}
    /\ ByUrl(PartsOf(m.url), m.part) # {}
    /\ FieldsToAminoOK(m.fields)
    /\ \A i \in DOMAIN m.inner : InnerToAminoOK(m.inner[i])

InnerToAmino(m) ==
    [type |-> TypeOf(Inner, m.url),
     part |-> TypeOf(PartsOf(m.url), m.part),
     fields |-> FieldsToAmino(m.fields)]

ToAmino(m) ==
    [type |-> TypeOf(Converters, m.url),
     part |-> TypeOf(PartsOf(m.url), m.part),
     fields |-> FieldsToAmino(m.fields),
     inner |-> [i \in DOMAIN m.inner |-> InnerToAmino(m.inner[i])]]

\* Faulty variant: the first match is taken.
AnyMatch(table, type) == ByType(table, type) # {}

\* Exactly one entry matches.
Unambiguous(table, type) == Cardinality(ByType(table, type)) = 1

\* fromAmino of MsgSubmitProposal searches the Foundation table for the type
\* URL, converts with the inner tables and encodes with the registry.
InnerFromAminoOK(a) ==
    /\ ByType(Foundation, a.type) # {}
    /\ Unambiguous(Inner, a.type)
    /\ UrlOf(Foundation, a.type) \in Registered
    /\ ByType(PartsOf(UrlOf(Foundation, a.type)), a.part) # {}
    /\ FieldsFromAminoOK(a.fields)

FromAminoOK(a) ==
    /\ Unambiguous(Converters, a.type)
    /\ ByType(PartsOf(UrlOf(Converters, a.type)), a.part) # {}
    /\ FieldsFromAminoOK(a.fields)
    /\ \A i \in DOMAIN a.inner : InnerFromAminoOK(a.inner[i])

InnerFromAmino(a) ==
    LET url == UrlOf(Foundation, a.type)
    IN  [url |-> url,
         part |-> UrlOf(PartsOf(url), a.part),
         fields |-> FieldsFromAmino(a.fields)]

FromAmino(a) ==
    LET url == UrlOf(Converters, a.type)
    IN  [url |-> url,
         part |-> UrlOf(PartsOf(url), a.part),
         fields |-> FieldsFromAmino(a.fields),
         inner |-> [i \in DOMAIN a.inner |-> InnerFromAmino(a.inner[i])]]

-----------------------------------------------------------------------------
(* The messages the library makes *)

Wrapped(messages) ==
    [url |-> Proposal, part |-> "", fields |-> Copied, inner |-> messages]

\* Faulty variant: the messages are encoded with the client's registry.
CreatesWithDefaultRegistry(messages) ==
    \A i \in DOMAIN messages : messages[i].url \in Registered

\* createMsgSubmitProposal encodes the messages with a registry of its own, of
\* the foundation messages alone, and throws if it does not know one.
CreatesMsgSubmitProposal(messages) ==
    \A i \in DOMAIN messages : messages[i].url \in Wrappable

\* createMakeSwapProposal wraps one MsgSetSwap.
MakeSwapProposal ==
    Wrapped(<<[url |-> "fswap.MsgSetSwap", part |-> "", fields |-> Copied]>>)

Made(m) ==
    \/ m = MakeSwapProposal
    \/ m = Wrapped(m.inner) /\ CreatesMsgSubmitProposal(m.inner)

-----------------------------------------------------------------------------
Init ==
    /\ stage = "called"
    /\ msgs \in TxMsgs
    /\ signDoc = <<>>
    /\ txBody = <<>>

\* The account is found in the wallet and every message is converted; the
\* first that cannot be converted rejects the call.
AskWallet ==
    /\ stage = "called"
    /\ \A i \in DOMAIN msgs : ToAminoOK(msgs[i])
    /\ stage' = "asking"
    /\ signDoc' = [i \in DOMAIN msgs |-> ToAmino(msgs[i])]
    /\ UNCHANGED <<msgs, txBody>>

\* Faulty variant: the call is left in a state of its own.
RejectSilently ==
    /\ stage \in {"called", "asking"}
    /\ stage' = "declined"
    /\ UNCHANGED <<msgs, signDoc, txBody>>

Reject ==
    /\ \/ stage = "called"  \* the account is not in the wallet
       \/ stage = "asking"  \* the user declines
    /\ stage' = "rejected"
    /\ UNCHANGED <<msgs, signDoc, txBody>>

RejectUnsupported ==
    /\ stage = "called"
    /\ \E i \in DOMAIN msgs : ~ ToAminoOK(msgs[i])
    /\ stage' = "rejected"
    /\ UNCHANGED <<msgs, signDoc, txBody>>

\* Faulty variant: the body is encoded with the registry of
\* createMsgSubmitProposal.
CanRebuildProposals ==
    \A i \in DOMAIN signDoc :
        /\ FromAminoOK(signDoc[i])
        /\ FromAmino(signDoc[i]).url \in Wrappable

\* The registry encodes the body from the messages that were converted back.
CanRebuild ==
    \A i \in DOMAIN signDoc :
        /\ FromAminoOK(signDoc[i])
        /\ FromAmino(signDoc[i]).url \in Registered

\* The wallet signed: all messages are rebuilt, or the signature is lost.
Rebuild ==
    /\ stage = "asking"
    /\ CanRebuild
    /\ stage' = "built"
    /\ txBody' = [i \in DOMAIN signDoc |-> FromAmino(signDoc[i])]
    /\ UNCHANGED <<msgs, signDoc>>

LoseSignature ==
    /\ stage = "asking"
    /\ ~ CanRebuild
    /\ stage' = "lost"
    /\ UNCHANGED <<msgs, signDoc, txBody>>

Next ==
    \/ AskWallet
    \/ Reject
    \/ RejectUnsupported
    \/ Rebuild
    \/ LoseSignature

Spec == Init /\ [][Next]_vars

-----------------------------------------------------------------------------
(* Properties *)

\* The variables keep their types.
TypeOK ==
    /\ stage \in Stages
    /\ msgs \in TxMsgs
    /\ DOMAIN signDoc \in {{}, DOMAIN msgs}
    /\ DOMAIN txBody \in {{}, DOMAIN msgs}

\* Amino can carry the fields of the message and of those it wraps.
Survives(m) ==
    Carried(m.fields) /\ \A i \in DOMAIN m.inner : Carried(m.inner[i].fields)

\* The way to Amino and back changes no message Amino can carry: a transaction
\* that is built has the messages the application passed, with the same types
\* inside a MsgGrant, a MsgUpdateDecisionPolicy or a proposal, the same periods
\* and documents.  In particular a message of one module never turns into one
\* of another that has its Amino type, and no period is rounded or shortened.
RebuiltAsRequested ==
    stage = "built" =>
        /\ DOMAIN txBody = DOMAIN msgs
        /\ \A i \in DOMAIN msgs : Survives(msgs[i]) => txBody[i] = msgs[i]

\* The tables fit together: what converts the messages of a proposal is part of
\* what converts messages, and what has a converter has a registry type.
TablesFit ==
    /\ Inner \subseteq Converters
    /\ \A pair \in Converters : pair[1] \in Registered

\* The registry of createMsgSubmitProposal fits the tables proposals are
\* converted with: a message it encodes and the client converts for the wallet
\* is found on the way back.  A MsgSetSwap has no converter.
ProposalTablesFit ==
    /\ ByUrl(Inner, "fswap.MsgSetSwap") = {}
    /\ \A url \in Wrappable :
          ByUrl(Inner, url) # {} =>
              /\ ByUrl(Foundation, url) # {}
              /\ Unambiguous(Inner, TypeOf(Inner, url))

\* A message whose Amino type is also that of another message.
SharesType(m) == ~ Unambiguous(Converters, TypeOf(Converters, m.url))

\* The tables fit together: after the wallet signed, a transaction fails to be
\* rebuilt only because of a period that does not fit a Long, of a message that
\* shares its Amino type or of a proposal that wraps such a message or one of
\* another module; no converter lacks a registry type and no message is
\* converted in one direction only.
LostOnlyForKnownReasons ==
    stage = "lost" => \E i \in DOMAIN msgs :
        \/ ~ Survives(msgs[i])
        \/ SharesType(msgs[i])
        \/ \E j \in DOMAIN msgs[i].inner :
              \/ SharesType(msgs[i].inner[j])
              \/ ByUrl(Foundation, msgs[i].inner[j].url) = {}

\* A proposal the library made (createMsgSubmitProposal with its own registry,
\* createMakeSwapProposal with a message that has no converter) is refused
\* before the wallet is asked or can be rebuilt, if its periods fit: whoever
\* makes proposals with these functions loses no signature to the two tables
\* that MsgSubmitProposal is converted with.
MadeProposalsAreNotLost ==
    stage = "lost" => \E i \in DOMAIN msgs :
        \/ ~ Survives(msgs[i])
        \/ SharesType(msgs[i])
        \/ msgs[i].url = Proposal /\ ~ Made(msgs[i])

\* The modules' Amino types tell their messages apart (token/aminomessages.ts
\* 73, 118, 137, 206 wonder how, and the types there are prefixed with the
\* module): what the wallet signed can be rebuilt, if it is no proposal.
MessagesSurviveSigning ==
    stage = "lost" => \E i \in DOMAIN msgs :
        \/ ~ Survives(msgs[i])
        \/ msgs[i].url = Proposal

\* A proposal whose messages the client could convert for the wallet can be
\* rebuilt: the error of MsgSubmitProposal is for a type that "does not exist
\* in the Amino message type register" (foundation/aminomessages.ts 737-739).
ProposalsSurviveSigning ==
    stage = "lost" => \E i \in DOMAIN msgs :
        \/ ~ Survives(msgs[i])
        \/ SharesType(msgs[i])
        \/ \E j \in DOMAIN msgs[i].inner : SharesType(msgs[i].inner[j])
=============================================================================
