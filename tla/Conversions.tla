---------------------------- MODULE Conversions ----------------------------
(***************************************************************************)
(* The fields the Amino converters do not copy: the periods and the        *)
(* threshold of a decision policy (utils.ts 14-35), and the document and   *)
(* the permission of a MsgStoreCodeAndInstantiateContract (wasmplus).      *)
(*                                                                         *)
(* A string of digits is the number it spells.  The code joins and splits  *)
(* these strings by position, so the definitions below say where a sign    *)
(* or a missing digit moves the split.                                     *)
(***************************************************************************)
EXTENDS Integers

CONSTANTS
    Unit,  \* the nanoseconds of a second, 10^9 in the code
    One,   \* the atomics of the decimal 1, 10^18 in the code
    Wrap   \* the values of a Long, 2^64 in the code

ASSUME ConversionsAssumption ==
    /\ Unit \in Nat /\ Unit > 9
    /\ One \in Nat /\ One > 0
    /\ Wrap \in Nat /\ Wrap > 1 /\ Wrap % 2 = 0

Half == Wrap \div 2
Longs == (0 - Half)..(Half - 1)

\* A signed Long keeps the lowest bits.
Signed(n) == ((n + Half) % Wrap) - Half

Abs(n) == IF n < 0 THEN 0 - n ELSE n

-----------------------------------------------------------------------------
(* Durations *)

\* The values of the fields; a Duration of the protocol buffers has at most
\* 999,999,999 nanoseconds, of either sign.
Durations == [seconds : Longs, nanos : (1 - Unit)..(Unit - 1)]

\* The digits of the nanoseconds are put behind those of the seconds: the sign
\* of the seconds is the sign of all of it.
Joined(d) ==
    IF d.seconds < 0 THEN d.seconds * Unit - d.nanos ELSE d.seconds * Unit + d.nanos

\* Negative nanoseconds leave a hyphen inside the string: Long.fromString throws.
HasJson(d) == d.nanos >= 0

\* Faulty variant: the seconds are scaled and the nanoseconds added, as numbers.
ProtoDurationToJsonBySum(d) == Signed(d.seconds * Unit + d.nanos)

ProtoDurationToJson(d) == Signed(Joined(d))

\* The string is longer than the digits of the nanoseconds; a sign counts.
IsSplit(j) == IF j < 0 THEN 0 - j >= Unit \div 10 ELSE j >= Unit

\* Of a split "-123456789" only the hyphen is left for the seconds:
\* Long.fromString throws.
HasDuration(j) == ~ (IsSplit(j) /\ j < 0 /\ 0 - j < Unit)

JsonDurationToProto(j) ==
    IF IsSplit(j)
    THEN [seconds |-> IF j < 0 THEN 0 - (Abs(j) \div Unit) ELSE j \div Unit,
          nanos |-> Abs(j) % Unit]
    ELSE [seconds |-> 0, nanos |-> j]

\* The durations the string has room for: no negative nanoseconds, and no more
\* than a Long holds in nanoseconds (292 years).
Fits(d) == d.nanos >= 0 /\ Joined(d) \in Longs

-----------------------------------------------------------------------------
(* Decimals, documents, permissions *)

\* The decimal point is put 18 digits from the end and the zeros after it kept.
ProtoDecimalToJson(atomics) ==
    [whole |-> atomics \div One, fraction |-> atomics % One]

JsonDecimalToProto(decimal) == decimal.whole * One + decimal.fraction

\* A document is as JSON.stringify writes it, written otherwise (blanks, a
\* number a double cannot hold), or no JSON at all.
Documents == {"canonical", "reformatted", "invalid"}

\* JSON.stringify of what JSON.parse read.
Stringified == "canonical"

AccessTypes ==
    {"Unspecified", "Nobody", "OnlyAddress", "Everybody", "AnyOfAddresses"}

\* The number of an access type this version does not know, and -1.
Permissions == AccessTypes \cup {"undefined", "unknown", "UNRECOGNIZED"}

AccessTypeToString(type) ==
    IF type \in AccessTypes THEN type ELSE "UNRECOGNIZED"

AccessTypeFromString(name) ==
    IF name \in AccessTypes THEN name ELSE "UNRECOGNIZED"

\* The permission is an optional field.
PermissionToAmino(p) == IF p = "undefined" THEN p ELSE AccessTypeToString(p)
PermissionFromAmino(p) == IF p = "undefined" THEN p ELSE AccessTypeFromString(p)

-----------------------------------------------------------------------------
(* The converted fields of a message *)

Copied == [kind |-> "copied"]

Policies ==
    [kind : {"policy"}, limit : Nat, voting : Durations, execution : Durations]

Stores == [kind : {"store"}, msg : Documents, permission : Permissions]

Fields == {Copied} \cup Policies \cup Stores

\* createThresholdDecisionPolicy, createPercentageDecisionPolicy: whole seconds
\* as an unsigned Long, which is encoded as a signed one.
CreateDecisionPolicy(limit, voting, execution) ==
    [kind |-> "policy", limit |-> limit,
     voting |-> [seconds |-> Signed(voting), nanos |-> 0],
     execution |-> [seconds |-> Signed(execution), nanos |-> 0]]

FieldsToAminoOK(f) ==
    /\ f.kind = "policy" => HasJson(f.voting) /\ HasJson(f.execution)
    /\ f.kind = "store" => f.msg # "invalid"

FieldsToAmino(f) ==
    CASE f.kind = "policy" ->
            [kind |-> "policy",
             limit |-> ProtoDecimalToJson(f.limit),
             voting |-> ProtoDurationToJson(f.voting),
             execution |-> ProtoDurationToJson(f.execution)]
      [] f.kind = "store" ->
            [kind |-> "store", msg |-> Stringified,
             permission |-> PermissionToAmino(f.permission)]
      [] OTHER -> Copied

FieldsFromAminoOK(a) ==
    a.kind = "policy" => HasDuration(a.voting) /\ HasDuration(a.execution)

FieldsFromAmino(a) ==
    CASE a.kind = "policy" ->
            [kind |-> "policy",
             limit |-> JsonDecimalToProto(a.limit),
             voting |-> JsonDurationToProto(a.voting),
             execution |-> JsonDurationToProto(a.execution)]
      [] a.kind = "store" ->
            [kind |-> "store", msg |-> a.msg,
             permission |-> PermissionFromAmino(a.permission)]
      [] OTHER -> Copied

\* What Amino can carry: durations that fit, documents as JSON.stringify writes
\* them and permissions this version knows.
Carried(f) ==
    /\ f.kind = "policy" => Fits(f.voting) /\ Fits(f.execution)
    /\ f.kind = "store" => f.msg = "canonical" /\ f.permission # "unknown"
=============================================================================
