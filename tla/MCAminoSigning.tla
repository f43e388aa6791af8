--------------------------- MODULE MCAminoSigning ---------------------------
(***************************************************************************)
(* TLC instances of AminoSigning with the tables of the library.  The      *)
(* digits of the code's numbers are cut: a second has 100 nanoseconds and  *)
(* a Long has 12 bits, so the positions of a sign, of the split and of an  *)
(* overflow all occur.                                                     *)
(***************************************************************************)
EXTENDS AminoSigning, FinschiaTypes

\* Every type of the registry or of a converter, with the Any types it may
\* carry: those that are converted and one that is not.
PartsToTry(url) ==
    CASE url = "foundation.MsgGrant" ->
            {p[1] : p \in AnyParts[url]} \cup {"authz.GenericAuthorization"}
      [] url = "foundation.MsgUpdateDecisionPolicy" ->
            {p[1] : p \in AnyParts[url]} \cup {"foundation.DecisionPolicyWindows"}
      [] OTHER -> {""}

Seconds(s, n) == [seconds |-> s, nanos |-> n]

\* Voting periods passed to createThresholdDecisionPolicy, up to the last a Long
\* holds in nanoseconds, past it, past the whole width, and as a hyphen alone.
MadePeriods == {0, 1, 20, 21, 40, 41, 2048}

\* Those of policies encoded by hand: around the split, the largest that fits,
\* negative ones, one a wrapped Long brings below the split.
HandPeriods == {Seconds(0, 5), Seconds(0, 99), Seconds(1, 1), Seconds(20, 47),
                Seconds(20, 48), Seconds(40, 91), Seconds(40, 86),
                Seconds(-1, 50), Seconds(-20, 48), Seconds(1, -5)}

PoliciesToTry ==
    {CreateDecisionPolicy(150, s, 0) : s \in MadePeriods}
        \cup {[kind |-> "policy", limit |-> 50, voting |-> d, execution |-> Seconds(0, 7)]
                 : d \in HandPeriods}

StoresToTry ==
    [kind : {"store"}, msg : Documents, permission : {"undefined", "Nobody", "unknown"}]

FieldsToTry(url) ==
    CASE url = "foundation.MsgUpdateDecisionPolicy" -> PoliciesToTry
      [] url = "wasm.MsgStoreCodeAndInstantiateContract" -> StoresToTry
      [] OTHER -> {Copied}

Urls == FinschiaRegistryTypes \cup {pair[1] : pair \in DefaultTypes}

PlainToTry == UNION {[url : {u}, part : PartsToTry(u), fields : FieldsToTry(u)] : u \in Urls}

\* Every message alone and every proposal of at most one message.
EveryMessage ==
    {[url |-> m.url, part |-> m.part, fields |-> m.fields, inner |-> <<>>] : m \in PlainToTry}
        \cup {Wrapped(<<m>>) : m \in PlainToTry}

\* The hypotheses of the theorems about lost signatures hold of these tables.
ASSUME LibraryTablesFit == TablesFit /\ ProposalTablesFit
=============================================================================
