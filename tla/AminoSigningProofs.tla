------------------------ MODULE AminoSigningProofs ------------------------
(***************************************************************************)
(* What AminoSigning keeps, for any tables, messages and widths: the       *)
(* periods that fit survive the two conversions, and so does every message *)
(* Amino can carry.                                                        *)
(***************************************************************************)
EXTENDS AminoSigning, FiniteSetTheorems, TLAPS

\* Division finds the digits that were joined.
LEMMA DivUnique ==
  ASSUME NEW u \in Nat, u > 0, NEW q \in Nat, NEW r \in 0..(u - 1)
  PROVE  (q * u + r) \div u = q /\ (q * u + r) % u = r
  OBVIOUS

\* A number a Long holds is kept.
LEMMA SignedIdentity ==
  ASSUME NEW n \in Longs
  PROVE  Signed(n) = n
<1>1. Wrap = 2 * Half /\ Half \in Nat
  BY ConversionsAssumption DEF Half
<1>2. n + Half \in 0..(Wrap - 1)
  BY <1>1 DEF Longs
<1>3. (n + Half) % Wrap = n + Half
  BY <1>1, <1>2, ConversionsAssumption
<1> QED
  BY <1>3, <1>1 DEF Signed, Longs

LEMMA LongsAreIntegers == Longs \subseteq Int
  BY ConversionsAssumption DEF Half, Longs

\* A joined number with no sign is split into its seconds and nanoseconds; one
\* with no seconds is not split.
LEMMA SplitUp ==
  ASSUME NEW s \in Nat, NEW n \in 0..(Unit - 1), NEW j \in Int, j = s * Unit + n
  PROVE  HasDuration(j) /\ JsonDurationToProto(j) = [seconds |-> s, nanos |-> n]
<1>1. CASE s = 0
  <2>1. j = n
    BY <1>1, ConversionsAssumption
  <2>2. ~ IsSplit(j)
    BY <2>1, ConversionsAssumption DEF IsSplit
  <2> QED
    BY <1>1, <2>1, <2>2 DEF HasDuration, JsonDurationToProto
<1>2. CASE s > 0
  <2>1. s * Unit >= Unit /\ s * Unit \in Int
    BY <1>2, ConversionsAssumption
  <2>2. j >= Unit
    BY <2>1, ConversionsAssumption
  <2>3. IsSplit(j) /\ ~ (j < 0)
    BY <2>2, ConversionsAssumption DEF IsSplit
  <2>4. j \div Unit = s /\ j % Unit = n
    BY DivUnique, ConversionsAssumption
  <2> QED
    BY <2>3, <2>4 DEF HasDuration, JsonDurationToProto, Abs
<1> QED
  BY <1>1, <1>2

\* The same behind a sign.
LEMMA SplitDown ==
  ASSUME NEW t \in Nat, t > 0, NEW n \in 0..(Unit - 1), NEW j \in Int,
         0 - j = t * Unit + n
  PROVE  HasDuration(j) /\ JsonDurationToProto(j) = [seconds |-> 0 - t, nanos |-> n]
<1>1. t * Unit >= Unit /\ t * Unit \in Int
  BY ConversionsAssumption
<1>2. 0 - j >= Unit /\ j < 0
  BY <1>1, ConversionsAssumption
<1>3. IsSplit(j) /\ HasDuration(j)
  <2>1. Unit >= Unit \div 10 /\ Unit \div 10 \in Int
    BY ConversionsAssumption
  <2> QED
    BY <1>2, <2>1, ConversionsAssumption DEF IsSplit, HasDuration
<1>4. (0 - j) \div Unit = t /\ (0 - j) % Unit = n
  BY DivUnique, ConversionsAssumption
<1> QED
  BY <1>2, <1>3, <1>4 DEF JsonDurationToProto, Abs

-----------------------------------------------------------------------------
\* A period that fits is the same after protoDurationToJson and
\* jsonDurationToProto (utils.ts 22-35), whatever the width of a Long and the
\* number of digits: negative seconds included.
THEOREM DurationsSurvive ==
  ASSUME NEW d \in Durations, Fits(d)
  PROVE  /\ HasDuration(ProtoDurationToJson(d))
         /\ JsonDurationToProto(ProtoDurationToJson(d)) = d
<1>1. PICK s \in Int, n \in (1 - Unit)..(Unit - 1) : d = [seconds |-> s, nanos |-> n]
  BY LongsAreIntegers DEF Durations
<1>2. n \in 0..(Unit - 1)
  BY <1>1, ConversionsAssumption DEF Fits
<1>3. PICK j \in Int : j = Joined(d)
  BY LongsAreIntegers DEF Fits
<1>4. ProtoDurationToJson(d) = j
  BY <1>3, SignedIdentity DEF Fits, ProtoDurationToJson
<1>5. CASE s >= 0
  <2>1. j = s * Unit + n
    BY <1>1, <1>3, <1>5 DEF Joined
  <2> QED
    BY <1>1, <1>2, <1>4, <1>5, <2>1, SplitUp
<1>6. CASE s < 0
  <2>1. j = s * Unit - n
    BY <1>1, <1>3, <1>6 DEF Joined
  <2>2. PICK t \in Nat : t = 0 - s
    BY <1>6
  <2>3. s * Unit = 0 - (t * Unit) /\ t * Unit \in Int
    BY <2>2, ConversionsAssumption
  <2>4. PICK p \in Int : p = t * Unit
    BY <2>3
  <2>5. n \in Int
    BY <1>2
  <2>6. 0 - j = p + n
    BY <2>1, <2>3, <2>4, <2>5
  <2>7. 0 - j = t * Unit + n
    BY <2>4, <2>6
  <2>8. [seconds |-> 0 - t, nanos |-> n] = d
    BY <1>1, <2>2
  <2> QED
    BY <1>2, <1>4, <1>6, <2>2, <2>7, <2>8, SplitDown
<1> QED
  BY <1>5, <1>6

-----------------------------------------------------------------------------
\* The whole part and the digits after the point make up the atomics again.
LEMMA DecimalsSurvive ==
  ASSUME NEW a \in Nat
  PROVE  JsonDecimalToProto(ProtoDecimalToJson(a)) = a
  BY ConversionsAssumption DEF JsonDecimalToProto, ProtoDecimalToJson

\* A permission this version knows keeps its name and its number.
LEMMA PermissionsSurvive ==
  ASSUME NEW p \in Permissions, p # "unknown"
  PROVE  PermissionFromAmino(PermissionToAmino(p)) = p
  BY DEF Permissions, AccessTypes, PermissionFromAmino, PermissionToAmino,
         AccessTypeToString, AccessTypeFromString

\* The converted fields of a message come back as they were.
LEMMA FieldsSurvive ==
  ASSUME NEW f \in Fields, Carried(f)
  PROVE  FieldsFromAmino(FieldsToAmino(f)) = f
<1>1. CASE f \in Policies
  <2>1. PICK l \in Nat, v \in Durations, e \in Durations :
            f = [kind |-> "policy", limit |-> l, voting |-> v, execution |-> e]
    BY <1>1 DEF Policies
  <2>2. Fits(v) /\ Fits(e)
    BY <2>1 DEF Carried
  <2>3. FieldsToAmino(f) = [kind |-> "policy", limit |-> ProtoDecimalToJson(l),
                            voting |-> ProtoDurationToJson(v),
                            execution |-> ProtoDurationToJson(e)]
    BY <2>1 DEF FieldsToAmino
  <2>4. FieldsFromAmino(FieldsToAmino(f)) =
            [kind |-> "policy",
             limit |-> JsonDecimalToProto(ProtoDecimalToJson(l)),
             voting |-> JsonDurationToProto(ProtoDurationToJson(v)),
             execution |-> JsonDurationToProto(ProtoDurationToJson(e))]
    BY <2>3 DEF FieldsFromAmino
  <2> QED
    BY <2>1, <2>2, <2>4, DurationsSurvive, DecimalsSurvive
<1>2. CASE f \in Stores
  <2>1. PICK d \in Documents, p \in Permissions :
            f = [kind |-> "store", msg |-> d, permission |-> p]
    BY <1>2 DEF Stores
  <2>2. d = Stringified /\ p # "unknown"
    BY <2>1 DEF Carried, Stringified
  <2>3. FieldsToAmino(f) =
            [kind |-> "store", msg |-> Stringified, permission |-> PermissionToAmino(p)]
    BY <2>1 DEF FieldsToAmino
  <2>4. FieldsFromAmino(FieldsToAmino(f)) =
            [kind |-> "store", msg |-> Stringified,
             permission |-> PermissionFromAmino(PermissionToAmino(p))]
    BY <2>3 DEF FieldsFromAmino
  <2> QED
    BY <2>1, <2>2, <2>4, PermissionsSurvive
<1>3. CASE f = Copied
  BY <1>3 DEF Copied, FieldsToAmino, FieldsFromAmino
<1> QED
  BY <1>1, <1>2, <1>3 DEF Fields

\* Where exactly one entry has an Amino type, the lookup of the type finds the
\* type URL of an entry that has it.
LEMMA UrlFound ==
  ASSUME NEW table, NEW url, NEW type,
         \A pair \in table : pair = <<pair[1], pair[2]>>,
         \A pair, other \in ByType(table, type) : pair = other,
         <<url, type>> \in table
  PROVE  UrlOf(table, type) = url
<1>1. <<url, type>> \in ByType(table, type)
  BY DEF ByType
<1>2. (CHOOSE pair \in ByType(table, type) : TRUE) \in ByType(table, type)
  BY <1>1
<1>3. (CHOOSE pair \in ByType(table, type) : TRUE) = <<url, type>>
  BY <1>1, <1>2
<1> QED
  BY <1>3 DEF UrlOf

\* A lookup that succeeds finds the entry of the type URL.
LEMMA TypeFound ==
  ASSUME NEW table, NEW url,
         \A pair \in table : pair = <<pair[1], pair[2]>>,
         ByUrl(table, url) # {}
  PROVE  <<url, TypeOf(table, url)>> \in table
<1>1. (CHOOSE pair \in ByUrl(table, url) : TRUE) \in ByUrl(table, url)
  OBVIOUS
<1> QED
  BY <1>1 DEF ByUrl, TypeOf

\* Exactly one entry: any two are the same.
LEMMA OneEntry ==
  ASSUME NEW table, IsFiniteSet(table), NEW type, Unambiguous(table, type)
  PROVE  \A pair, other \in ByType(table, type) : pair = other
<1>1. IsFiniteSet(ByType(table, type))
  BY FS_Subset DEF ByType
<1>2. \E pair : ByType(table, type) = {pair}
  BY <1>1, FS_Singleton DEF Unambiguous
<1> QED
  BY <1>2

\* The type of an Any comes back as it was.
LEMMA PartFound ==
  ASSUME NEW url, NEW part, ByUrl(PartsOf(url), part) # {}
  PROVE  UrlOf(PartsOf(url), TypeOf(PartsOf(url), part)) = part
<1> DEFINE table == PartsOf(url)
<1>1. /\ \A pair \in table : pair = <<pair[1], pair[2]>>
      /\ \A pair, other \in table : pair[2] = other[2] => pair = other
  <2>1. CASE url \in DOMAIN Parts
    <3>1. table = Parts[url]
      BY <2>1 DEF PartsOf
    <3> HIDE DEF table
    <3> QED
      BY <2>1, <3>1, TablesAssumption
  <2>2. CASE url \notin DOMAIN Parts
    <3>1. table = {<<"", "">>}
      BY <2>2 DEF PartsOf
    <3>2. \A pair \in table : pair = <<"", "">>
      BY <3>1
    <3>3. <<"", "">>[1] = "" /\ <<"", "">>[2] = ""
      OBVIOUS
    <3> HIDE DEF table
    <3> QED
      BY <3>2, <3>3
  <2> QED
    BY <2>1, <2>2
<1>2. <<part, TypeOf(table, part)>> \in table
  BY <1>1, TypeFound
<1>3. \A pair, other \in ByType(table, TypeOf(table, part)) : pair = other
  BY <1>1 DEF ByType
<1> HIDE DEF table
<1> QED
  BY <1>1, <1>2, <1>3, UrlFound DEF table

\* A table of the library: an object from type URLs to Amino types.
Table(table) ==
  /\ IsFiniteSet(table)
  /\ \A pair \in table : pair = <<pair[1], pair[2]>>
  /\ \A pair, other \in table : pair[1] = other[1] => pair = other

\* A message, or one wrapped in another, that converts both ways comes back
\* with its type URL, its Any type and its fields.
LEMMA PlainSurvives ==
  ASSUME NEW m, m.fields \in Fields, Carried(m.fields),
         NEW table, Table(table), NEW back, back \subseteq table,
         ByUrl(table, m.url) # {}, ByUrl(PartsOf(m.url), m.part) # {},
         NEW a, a.type = TypeOf(table, m.url),
         a.part = TypeOf(PartsOf(m.url), m.part),
         a.fields = FieldsToAmino(m.fields),
         Unambiguous(table, a.type), ByType(back, a.type) # {}
  PROVE  /\ UrlOf(back, a.type) = m.url
         /\ UrlOf(PartsOf(m.url), a.part) = m.part
         /\ FieldsFromAmino(a.fields) = m.fields
<1>1. \A pair \in table : pair = <<pair[1], pair[2]>>
  BY DEF Table
<1>2. <<m.url, a.type>> \in table
  BY <1>1, TypeFound
<1>3. \A pair, other \in ByType(table, a.type) : pair = other
  BY OneEntry DEF Table
<1>4. PICK found \in back : found[2] = a.type
  BY DEF ByType
<1>5. found = <<m.url, a.type>>
  <2>1. found \in ByType(table, a.type)
    BY <1>4 DEF ByType
  <2>2. <<m.url, a.type>> \in ByType(table, a.type)
    BY <1>2 DEF ByType
  <2> QED
    BY <1>3, <2>1, <2>2
<1>6. UrlOf(back, a.type) = m.url
  <2>1. <<m.url, a.type>> \in back
    BY <1>4, <1>5
  <2>2. \A pair, other \in ByType(back, a.type) : pair = other
    BY <1>3 DEF ByType
  <2>3. \A pair \in back : pair = <<pair[1], pair[2]>>
    BY <1>1
  <2> QED
    BY <2>1, <2>2, <2>3, UrlFound
<1> QED
  BY <1>6, PartFound, FieldsSurvive

\* A message that converts both ways, and that Amino can carry, comes back as
\* it was, the messages it wraps included.
LEMMA MessageSurvives ==
  ASSUME NEW m \in Messages, ToAminoOK(m), FromAminoOK(ToAmino(m)), Survives(m)
  PROVE  FromAmino(ToAmino(m)) = m
<1> DEFINE a == ToAmino(m)
<1>1. /\ m = Whole(m)
      /\ m.fields \in Fields
      /\ \A i \in DOMAIN m.inner : m.inner[i].fields \in Fields
  BY MessagesAssumption
<1>2. /\ a.type = TypeOf(Converters, m.url)
      /\ a.part = TypeOf(PartsOf(m.url), m.part)
      /\ a.fields = FieldsToAmino(m.fields)
      /\ a.inner = [i \in DOMAIN m.inner |-> InnerToAmino(m.inner[i])]
  BY DEF ToAmino
<1>6. Table(Converters) /\ Table(Inner)
  BY TablesAssumption DEF Table
<1>3. /\ UrlOf(Converters, a.type) = m.url
      /\ UrlOf(PartsOf(m.url), a.part) = m.part
      /\ FieldsFromAmino(a.fields) = m.fields
  <2>1. ByUrl(Converters, m.url) # {} /\ ByUrl(PartsOf(m.url), m.part) # {}
    BY DEF ToAminoOK
  <2>2. Unambiguous(Converters, a.type)
    BY DEF FromAminoOK
  <2>3. ByType(Converters, a.type) # {}
    <3>1. <<m.url, a.type>> \in Converters
      BY <1>2, <1>6, <2>1, TypeFound DEF Table
    <3> HIDE DEF a
    <3> QED
      BY <3>1 DEF ByType
  <2>4. Carried(m.fields) /\ m.fields \in Fields
    BY <1>1 DEF Survives
  <2>5. Converters \subseteq Converters
    OBVIOUS
  <2> HIDE DEF a
  <2> QED
    BY <1>2, <1>6, <2>1, <2>2, <2>3, <2>4, <2>5, PlainSurvives
<1>4. ASSUME NEW i \in DOMAIN m.inner
      PROVE  InnerFromAmino(InnerToAmino(m.inner[i])) = Plain(m.inner[i])
  <2> DEFINE n == m.inner[i]
             b == InnerToAmino(n)
  <2>1. InnerToAminoOK(n) /\ Carried(n.fields) /\ n.fields \in Fields
    BY <1>1 DEF ToAminoOK, Survives
  <2>2. i \in DOMAIN a.inner /\ a.inner[i] = b
    BY <1>2
  <2>3. InnerFromAminoOK(b)
    BY <2>2 DEF FromAminoOK
  <2>4. /\ b.type = TypeOf(Inner, n.url)
        /\ b.part = TypeOf(PartsOf(n.url), n.part)
        /\ b.fields = FieldsToAmino(n.fields)
    BY DEF InnerToAmino
  <2> HIDE DEF n, b, a
  <2>5. ByUrl(Inner, n.url) # {} /\ ByUrl(PartsOf(n.url), n.part) # {}
    BY <2>1 DEF InnerToAminoOK
  <2>6. Unambiguous(Inner, b.type) /\ ByType(Foundation, b.type) # {}
    BY <2>3 DEF InnerFromAminoOK
  <2>7. /\ UrlOf(Foundation, b.type) = n.url
        /\ UrlOf(PartsOf(n.url), b.part) = n.part
        /\ FieldsFromAmino(b.fields) = n.fields
    <3>1. Foundation \subseteq Inner
      BY TablesAssumption
    <3> QED
      BY <1>6, <2>1, <2>4, <2>5, <2>6, <3>1, PlainSurvives
  <2>8. InnerFromAmino(b) = Plain(n)
    BY <2>7 DEF InnerFromAmino, Plain
  <2> QED
    BY <2>8 DEF n, b
<1>5. [i \in DOMAIN a.inner |-> InnerFromAmino(a.inner[i])]
        = [i \in DOMAIN m.inner |-> Plain(m.inner[i])]
  BY <1>2, <1>4
<1>7. FromAmino(a) = Whole(m)
  <2> HIDE DEF a
  <2> QED
    BY <1>3, <1>5 DEF FromAmino, Whole
<1> QED
  BY <1>1, <1>7

\* The fields Amino can carry can be read back.
LEMMA FieldsReadBack ==
  ASSUME NEW f \in Fields, Carried(f)
  PROVE  FieldsFromAminoOK(FieldsToAmino(f))
<1>1. CASE f \in Policies
  <2>1. PICK l \in Nat, v \in Durations, e \in Durations :
            f = [kind |-> "policy", limit |-> l, voting |-> v, execution |-> e]
    BY <1>1 DEF Policies
  <2>2. Fits(v) /\ Fits(e)
    BY <2>1 DEF Carried
  <2>3. FieldsToAmino(f) = [kind |-> "policy", limit |-> ProtoDecimalToJson(l),
                            voting |-> ProtoDurationToJson(v),
                            execution |-> ProtoDurationToJson(e)]
    BY <2>1 DEF FieldsToAmino
  <2> QED
    BY <2>2, <2>3, DurationsSurvive DEF FieldsFromAminoOK
<1>2. CASE f \in Stores \/ f = Copied
  BY <1>2 DEF Stores, Copied, FieldsToAmino, FieldsFromAminoOK
<1> QED
  BY <1>1, <1>2 DEF Fields

\* The Amino type of an Any that was converted is found again.
LEMMA PartReadBack ==
  ASSUME NEW url, NEW part, ByUrl(PartsOf(url), part) # {}
  PROVE  ByType(PartsOf(url), TypeOf(PartsOf(url), part)) # {}
<1>1. PICK pair \in ByUrl(PartsOf(url), part) : pair[2] = TypeOf(PartsOf(url), part)
  BY DEF TypeOf
<1> QED
  BY <1>1 DEF ByUrl, ByType

\* What is converted with a table can be read back with a part of it, if its
\* Amino type is in that part and belongs to one entry.
LEMMA PlainReadsBack ==
  ASSUME NEW m, m.fields \in Fields, Carried(m.fields),
         NEW table, Table(table), NEW back, back \subseteq table,
         ByUrl(back, m.url) # {}, ByUrl(PartsOf(m.url), m.part) # {},
         NEW a, a.type = TypeOf(table, m.url),
         a.part = TypeOf(PartsOf(m.url), m.part),
         a.fields = FieldsToAmino(m.fields),
         Unambiguous(table, a.type)
  PROVE  /\ ByType(back, a.type) # {}
         /\ UrlOf(back, a.type) = m.url
         /\ ByType(PartsOf(m.url), a.part) # {}
         /\ FieldsFromAminoOK(a.fields)
<1>1. PICK pair \in back : pair[1] = m.url
  BY DEF ByUrl
<1>2. ByUrl(table, m.url) # {}
  BY <1>1 DEF ByUrl
<1>3. <<m.url, a.type>> \in table
  BY <1>2, TypeFound DEF Table
<1>4. pair = <<m.url, a.type>>
  <2>1. <<m.url, a.type>>[1] = m.url
    OBVIOUS
  <2> QED
    BY <1>1, <1>3, <2>1 DEF Table
<1>5. ByType(back, a.type) # {}
  BY <1>1, <1>4 DEF ByType
<1> QED
  BY <1>2, <1>5, PlainSurvives, PartReadBack, FieldsReadBack

\* A wrapped message the client converts, of a type the way back knows and
\* that belongs to one entry, can be read back.
LEMMA InnerReadsBack ==
  ASSUME NEW n, n.fields \in Fields, Carried(n.fields), InnerToAminoOK(n),
         ByUrl(Foundation, n.url) # {}, Unambiguous(Inner, TypeOf(Inner, n.url))
  PROVE  InnerFromAminoOK(InnerToAmino(n))
<1> DEFINE b == InnerToAmino(n)
<1>1. /\ b.type = TypeOf(Inner, n.url)
      /\ b.part = TypeOf(PartsOf(n.url), n.part)
      /\ b.fields = FieldsToAmino(n.fields)
  BY DEF InnerToAmino
<1> HIDE DEF b
<1>2. Table(Inner) /\ Foundation \subseteq Inner
  BY TablesAssumption DEF Table
<1>3. n.url \in Registered /\ ByUrl(PartsOf(n.url), n.part) # {}
  BY DEF InnerToAminoOK
<1>4. /\ ByType(Foundation, b.type) # {}
      /\ UrlOf(Foundation, b.type) = n.url
      /\ ByType(PartsOf(n.url), b.part) # {}
      /\ FieldsFromAminoOK(b.fields)
  BY <1>1, <1>2, <1>3, PlainReadsBack
<1> QED
  BY <1>1, <1>3, <1>4 DEF InnerFromAminoOK, b

\* A message whose Amino type is its own can be read back if those it wraps
\* can, and has its type URL again.
LEMMA MessageReadsBack ==
  ASSUME NEW m \in Messages, ToAminoOK(m), Survives(m), ~ SharesType(m),
         \A j \in DOMAIN m.inner : InnerFromAminoOK(InnerToAmino(m.inner[j]))
  PROVE  FromAminoOK(ToAmino(m)) /\ FromAmino(ToAmino(m)).url = m.url
<1> DEFINE a == ToAmino(m)
<1>1. /\ a.type = TypeOf(Converters, m.url)
      /\ a.part = TypeOf(PartsOf(m.url), m.part)
      /\ a.fields = FieldsToAmino(m.fields)
  BY DEF ToAmino
<1>2. \A j \in DOMAIN a.inner : InnerFromAminoOK(a.inner[j])
  BY DEF ToAmino
<1> HIDE DEF a
<1>3. Table(Converters)
  BY TablesAssumption DEF Table
<1>4. Converters \subseteq Converters
  OBVIOUS
<1>5. /\ ByUrl(Converters, m.url) # {} /\ ByUrl(PartsOf(m.url), m.part) # {}
      /\ m.fields \in Fields /\ Carried(m.fields)
  BY MessagesAssumption DEF ToAminoOK, Survives
<1>6. Unambiguous(Converters, a.type)
  BY <1>1 DEF SharesType
<1>7. /\ UrlOf(Converters, a.type) = m.url
      /\ ByType(PartsOf(m.url), a.part) # {}
      /\ FieldsFromAminoOK(a.fields)
  BY <1>1, <1>3, <1>4, <1>5, <1>6, PlainReadsBack
<1>8. FromAminoOK(a) /\ FromAmino(a).url = m.url
  BY <1>2, <1>6, <1>7 DEF FromAminoOK, FromAmino
<1> QED
  BY <1>8 DEF a

\* Where the tables fit together, an Amino type that is told apart by all
\* converters is told apart by those inside a proposal.
LEMMA UnsharedInside ==
  ASSUME TablesFit, NEW n, ByUrl(Inner, n.url) # {}, ~ SharesType(n)
  PROVE  Unambiguous(Inner, TypeOf(Inner, n.url))
<1> DEFINE type == TypeOf(Inner, n.url)
<1>1. <<n.url, type>> \in Inner
  BY TypeFound, TablesAssumption
<1> HIDE DEF type
<1>2. <<n.url, type>> \in Converters /\ ByUrl(Converters, n.url) # {}
  <2>1. <<n.url, type>> \in Converters
    BY <1>1 DEF TablesFit
  <2>2. <<n.url, type>>[1] = n.url
    OBVIOUS
  <2> QED
    BY <2>1, <2>2 DEF ByUrl
<1>3. TypeOf(Converters, n.url) = type
  <2>1. <<n.url, TypeOf(Converters, n.url)>> \in Converters
    BY <1>2, TypeFound, TablesAssumption
  <2>2. <<n.url, TypeOf(Converters, n.url)>> = <<n.url, type>>
    <3>1. /\ <<n.url, TypeOf(Converters, n.url)>>[1] = n.url
          /\ <<n.url, type>>[1] = n.url
      OBVIOUS
    <3> QED
      BY <1>2, <2>1, <3>1, TablesAssumption
  <2> QED
    BY <2>2
<1>4. \A pair, other \in ByType(Converters, type) : pair = other
  BY <1>3, OneEntry, TablesAssumption DEF SharesType
<1>5. ByType(Inner, type) = {<<n.url, type>>}
  <2>1. <<n.url, type>> \in ByType(Inner, type)
    BY <1>1 DEF ByType
  <2>2. ByType(Inner, type) \subseteq ByType(Converters, type)
    BY DEF ByType, TablesFit
  <2> QED
    BY <1>4, <2>1, <2>2
<1>6. Cardinality(ByType(Inner, type)) = 1
  BY <1>5, FS_Singleton
<1> QED
  BY <1>6 DEF Unambiguous, type

-----------------------------------------------------------------------------
\* The document the wallet is asked to sign is made of the messages of the
\* call, each of which could be converted.
AskedForTheMessages ==
  stage \in {"asking", "lost"} =>
      /\ \A i \in DOMAIN msgs : ToAminoOK(msgs[i])
      /\ signDoc = [i \in DOMAIN msgs |-> ToAmino(msgs[i])]

\* A signature is lost because a message cannot be rebuilt.
LostUnrebuilt == stage = "lost" => ~ CanRebuild

SigningInvariant ==
  /\ TypeOK
  /\ AskedForTheMessages
  /\ LostUnrebuilt
  /\ RebuiltAsRequested

LEMMA SigningInvariantHolds == Spec => []SigningInvariant
<1>1. Init => SigningInvariant
  <2>1. DOMAIN <<>> = {}
    OBVIOUS
  <2> QED
    BY <2>1 DEF Init, SigningInvariant, TypeOK, Stages, AskedForTheMessages,
                LostUnrebuilt, RebuiltAsRequested
<1>2. SigningInvariant /\ [Next]_vars => SigningInvariant'
  <2> SUFFICES ASSUME SigningInvariant, [Next]_vars
               PROVE  SigningInvariant'
    OBVIOUS
  <2>1. CASE AskWallet
    <3>1. DOMAIN signDoc' = DOMAIN msgs
      BY <2>1 DEF AskWallet
    <3> QED
      BY <2>1, <3>1 DEF AskWallet, SigningInvariant, TypeOK, Stages,
                        AskedForTheMessages, LostUnrebuilt, RebuiltAsRequested
  <2>2. CASE Reject
    BY <2>2 DEF Reject, SigningInvariant, TypeOK, Stages, AskedForTheMessages,
                LostUnrebuilt, RebuiltAsRequested
  <2>3. CASE RejectUnsupported
    BY <2>3 DEF RejectUnsupported, SigningInvariant, TypeOK, Stages,
                AskedForTheMessages, LostUnrebuilt, RebuiltAsRequested
  <2>4. CASE Rebuild
    <3>1. /\ msgs \in TxMsgs
          /\ \A i \in DOMAIN msgs : ToAminoOK(msgs[i])
          /\ signDoc = [i \in DOMAIN msgs |-> ToAmino(msgs[i])]
      BY <2>4 DEF Rebuild, SigningInvariant, TypeOK, AskedForTheMessages
    <3>2. DOMAIN txBody' = DOMAIN msgs
      BY <2>4, <3>1 DEF Rebuild
    <3>3. ASSUME NEW i \in DOMAIN msgs, Survives(msgs[i])
          PROVE  txBody'[i] = msgs[i]
      <4>1. msgs[i] \in Messages
        BY <3>1 DEF TxMsgs
      <4>2. FromAminoOK(ToAmino(msgs[i]))
        BY <2>4, <3>1 DEF Rebuild, CanRebuild
      <4>3. txBody'[i] = FromAmino(ToAmino(msgs[i]))
        BY <2>4, <3>1 DEF Rebuild
      <4> QED
        BY <3>1, <3>3, <4>1, <4>2, <4>3, MessageSurvives
    <3>4. RebuiltAsRequested'
      BY <2>4, <3>2, <3>3 DEF Rebuild, RebuiltAsRequested
    <3>5. TypeOK'
      BY <2>4, <3>2 DEF Rebuild, SigningInvariant, TypeOK, Stages
    <3> QED
      BY <2>4, <3>4, <3>5 DEF Rebuild, SigningInvariant, AskedForTheMessages,
                              LostUnrebuilt
  <2>5. CASE LoseSignature
    <3>1. TypeOK' /\ AskedForTheMessages' /\ RebuiltAsRequested'
      BY <2>5 DEF LoseSignature, SigningInvariant, TypeOK, Stages,
                  AskedForTheMessages, RebuiltAsRequested
    <3>2. LostUnrebuilt'
      BY <2>5 DEF LoseSignature, LostUnrebuilt, CanRebuild
    <3> QED
      BY <3>1, <3>2 DEF SigningInvariant
  <2>6. CASE UNCHANGED vars
    BY <2>6 DEF vars, SigningInvariant, TypeOK, AskedForTheMessages,
                LostUnrebuilt, CanRebuild, RebuiltAsRequested
  <2> QED
    BY <2>1, <2>2, <2>3, <2>4, <2>5, <2>6 DEF Next
<1> QED
  BY <1>1, <1>2, PTL DEF Spec

\* The stage, the messages, the document and the body of signAmino
\* (signingfinschiaclient.ts 698-740) keep their types: both have a message for
\* every one of the call, once they are made.
THEOREM SigningTypeCorrect == Spec => []TypeOK
<1>1. SigningInvariant => TypeOK
  BY DEF SigningInvariant
<1> QED
  BY <1>1, SigningInvariantHolds, PTL

\* Whatever the tables are, as long as they are tables and the proposals are
\* searched in a part of what converts them: the transaction signAmino builds
\* (signingfinschiaclient.ts 698-740) has the messages it was given, for all
\* that Amino can carry.
THEOREM MessagesAreRebuilt == Spec => []RebuiltAsRequested
<1>1. SigningInvariant => RebuiltAsRequested
  BY DEF SigningInvariant
<1> QED
  BY <1>1, SigningInvariantHolds, PTL

\* What a lost signature comes down to: a message whose type is shared or whose
\* fields Amino cannot carry, or a wrapped message that cannot be read back.
LEMMA WhatIsLost ==
  ASSUME TablesFit, SigningInvariant, stage = "lost"
  PROVE  \E i \in DOMAIN msgs :
            \/ ~ Survives(msgs[i])
            \/ SharesType(msgs[i])
            \/ \E j \in DOMAIN msgs[i].inner :
                  ~ InnerFromAminoOK(InnerToAmino(msgs[i].inner[j]))
<1>1. /\ msgs \in TxMsgs
      /\ \A i \in DOMAIN msgs : ToAminoOK(msgs[i])
      /\ signDoc = [i \in DOMAIN msgs |-> ToAmino(msgs[i])]
  BY DEF SigningInvariant, TypeOK, AskedForTheMessages
<1>2. PICK i \in DOMAIN msgs :
          ~ (/\ FromAminoOK(ToAmino(msgs[i]))
             /\ FromAmino(ToAmino(msgs[i])).url \in Registered)
  BY <1>1 DEF SigningInvariant, LostUnrebuilt, CanRebuild
<1>3. msgs[i] \in Messages /\ ToAminoOK(msgs[i])
  BY <1>1 DEF TxMsgs
<1>4. msgs[i].url \in Registered
  BY <1>3 DEF ToAminoOK, ByUrl, TablesFit
<1> QED
  BY <1>2, <1>3, <1>4, MessageReadsBack

\* Where the tables fit together, as those of types.ts do (the instances
\* evaluate TablesFit), a transaction the wallet signed is lost in signAmino
\* (signingfinschiaclient.ts 716-724) only for the reasons known.
THEOREM LossesHaveReasons ==
  ASSUME TablesFit
  PROVE  Spec => []LostOnlyForKnownReasons
<1>1. SigningInvariant => LostOnlyForKnownReasons
  <2> SUFFICES ASSUME SigningInvariant, stage = "lost"
               PROVE  \E i \in DOMAIN msgs :
                         \/ ~ Survives(msgs[i])
                         \/ SharesType(msgs[i])
                         \/ \E j \in DOMAIN msgs[i].inner :
                               \/ SharesType(msgs[i].inner[j])
                               \/ ByUrl(Foundation, msgs[i].inner[j].url) = {}
    BY DEF LostOnlyForKnownReasons
  <2>1. PICK i \in DOMAIN msgs :
            \/ ~ Survives(msgs[i])
            \/ SharesType(msgs[i])
            \/ \E j \in DOMAIN msgs[i].inner :
                  ~ InnerFromAminoOK(InnerToAmino(msgs[i].inner[j]))
    BY WhatIsLost
  <2>2. ASSUME Survives(msgs[i]), NEW j \in DOMAIN msgs[i].inner,
               ~ InnerFromAminoOK(InnerToAmino(msgs[i].inner[j]))
        PROVE  \/ SharesType(msgs[i].inner[j])
               \/ ByUrl(Foundation, msgs[i].inner[j].url) = {}
    <3> DEFINE n == msgs[i].inner[j]
    <3>1. msgs[i] \in Messages /\ ToAminoOK(msgs[i])
      BY DEF SigningInvariant, TypeOK, TxMsgs, AskedForTheMessages
    <3>2. n.fields \in Fields /\ Carried(n.fields) /\ InnerToAminoOK(n)
      BY <2>2, <3>1, MessagesAssumption DEF Survives, ToAminoOK
    <3>3. ~ InnerFromAminoOK(InnerToAmino(n))
      BY <2>2
    <3> HIDE DEF n
    <3>4. ByUrl(Inner, n.url) # {}
      BY <3>2 DEF InnerToAminoOK
    <3>5. SharesType(n) \/ ByUrl(Foundation, n.url) = {}
      BY <3>2, <3>3, <3>4, UnsharedInside, InnerReadsBack
    <3> QED
      BY <3>5 DEF n
  <2> QED
    BY <2>1, <2>2
<1> QED
  BY <1>1, SigningInvariantHolds, PTL

\* The one message of createMakeSwapProposal.
LEMMA SwapIsWrapped ==
  ASSUME NEW j \in DOMAIN MakeSwapProposal.inner
  PROVE  MakeSwapProposal.inner[j].url = "fswap.MsgSetSwap"
<1> DEFINE swap == [url |-> "fswap.MsgSetSwap", part |-> "", fields |-> Copied]
<1>1. MakeSwapProposal.inner = <<swap>>
  BY DEF MakeSwapProposal, Wrapped
<1>2. swap.url = "fswap.MsgSetSwap"
  OBVIOUS
<1>3. DOMAIN <<swap>> = {1} /\ <<swap>>[1] = swap
  OBVIOUS
<1>4. MakeSwapProposal.inner[j] = swap
  <2> HIDE DEF swap
  <2> QED
    BY <1>1, <1>3
<1> HIDE DEF swap
<1> QED
  BY <1>2, <1>4

\* Where the registry of createMsgSubmitProposal fits the tables proposals are
\* converted with, as that of foundation/messages.ts does (the instances
\* evaluate ProposalTablesFit), no signature is lost to a proposal made by it
\* or by createMakeSwapProposal (fswap/messages.ts 42).
THEOREM MadeProposalsComeBack ==
  ASSUME TablesFit, ProposalTablesFit
  PROVE  Spec => []MadeProposalsAreNotLost
<1>1. SigningInvariant => MadeProposalsAreNotLost
  <2> SUFFICES ASSUME SigningInvariant, stage = "lost"
               PROVE  \E i \in DOMAIN msgs :
                         \/ ~ Survives(msgs[i])
                         \/ SharesType(msgs[i])
                         \/ msgs[i].url = Proposal /\ ~ Made(msgs[i])
    BY DEF MadeProposalsAreNotLost
  <2>1. PICK i \in DOMAIN msgs :
            \/ ~ Survives(msgs[i])
            \/ SharesType(msgs[i])
            \/ \E j \in DOMAIN msgs[i].inner :
                  ~ InnerFromAminoOK(InnerToAmino(msgs[i].inner[j]))
    BY WhatIsLost
  <2>2. ASSUME Survives(msgs[i]), NEW j \in DOMAIN msgs[i].inner,
               ~ InnerFromAminoOK(InnerToAmino(msgs[i].inner[j]))
        PROVE  msgs[i].url = Proposal /\ ~ Made(msgs[i])
    <3> DEFINE m == msgs[i]
               n == m.inner[j]
    <3>1. m \in Messages /\ ToAminoOK(m)
      BY DEF SigningInvariant, TypeOK, TxMsgs, AskedForTheMessages
    <3>2. n.fields \in Fields /\ Carried(n.fields) /\ InnerToAminoOK(n)
      BY <2>2, <3>1, MessagesAssumption DEF Survives, ToAminoOK
    <3>3. j \in DOMAIN m.inner /\ ~ InnerFromAminoOK(InnerToAmino(n))
      BY <2>2
    <3>4. m.url = Proposal
      <4>1. DOMAIN <<>> = {}
        OBVIOUS
      <4>2. m.inner # <<>>
        BY <3>3, <4>1
      <4> QED
        BY <3>1, <4>2, MessagesAssumption
    <3>5. ByUrl(Inner, n.url) # {}
      BY <3>2 DEF InnerToAminoOK
    <3>6. m # MakeSwapProposal
      <4>1. SUFFICES ASSUME m = MakeSwapProposal PROVE FALSE
        OBVIOUS
      <4>2. n.url = "fswap.MsgSetSwap"
        BY <3>3, <4>1, SwapIsWrapped
      <4> HIDE DEF n
      <4> QED
        BY <3>5, <4>2 DEF ProposalTablesFit
    <3>7. ~ CreatesMsgSubmitProposal(m.inner)
      <4>1. SUFFICES ASSUME n.url \in Wrappable PROVE FALSE
        BY <3>3 DEF CreatesMsgSubmitProposal
      <4> HIDE DEF n
      <4>2. /\ ByUrl(Foundation, n.url) # {}
            /\ Unambiguous(Inner, TypeOf(Inner, n.url))
        BY <3>5, <4>1 DEF ProposalTablesFit
      <4> QED
        BY <3>2, <3>3, <4>2, InnerReadsBack
    <3> QED
      BY <3>4, <3>6, <3>7 DEF Made
  <2> QED
    BY <2>1, <2>2
<1> QED
  BY <1>1, SigningInvariantHolds, PTL
=============================================================================
