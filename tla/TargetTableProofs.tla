------------------------- MODULE TargetTableProofs -------------------------
(***************************************************************************)
(* Proofs about TargetTable for every schema, every policy, every stray    *)
(* type and any number of alterations by other sessions: a plan is sound,  *)
(* the table made from it is accepted, and an open load follows it.        *)
(***************************************************************************)
EXTENDS TargetTable, TLAPS

(* What planning makes of a type *)

\* The type table without its policies: the types some policy plans.
VariableArm(policy, target, t) ==
    \E n \in {MaxLength, policy.n} :
        t = SqlType(target, n, 0) /\ (n # MaxLength => policy.kind = "Bounded")
FixedArm(a, t) == a.p \in 1..MaxBinaryLen /\ t = SqlType("Binary", a.p, 0)
DecimalArm(a, t) ==
    /\ a.p # 0
    /\ t = SqlType("Decimal", NormalPrecision(a), NormalScale(a))
    /\ NormalPrecision(a) <= 38 /\ NormalScale(a) <= NormalPrecision(a)
TimestampArm(a, t) ==
    \/ HasZone(a) /\ t = SqlType("DateTimeOffset", 7, 0)
    \/ t = Plain("DateTime")
    \/ \E n \in 0..7 : t = SqlType("DateTime2", n, 0)
PlannedAs(a, t, o) ==
    \/ a.kind \in DOMAIN PlainTargets /\ t = PlainTargets[a.kind]
    \/ a.kind = "UInt64" /\ (t = SqlType("Decimal", 20, 0) \/ t = Plain("BigInt"))
    \/ a.kind \in StringFamily /\ VariableArm(o.string, "NVarChar", t)
    \/ a.kind \in BinaryFamily /\ VariableArm(o.binary, "VarBinary", t)
    \/ a.kind = "FixedSizeBinary" /\ FixedArm(a, t)
    \/ a.kind \in Decimals /\ DecimalArm(a, t)
    \/ a.kind = "Date64" /\ t = SqlType("DateTime2", 3, 0)
    \/ a.kind \in TimeKinds /\ t = SqlType("Time", TimeDigits(a), 0)
    \/ a.kind = "Timestamp" /\ TimestampArm(a, t)

LEMMA PlainKinds ==
    DOMAIN PlainTargets = {"Boolean", "UInt8", "Int8", "Int16", "Int32", "UInt16", "Int64",
                           "UInt32", "Float16", "Float32", "Float64", "Date32"}
  BY DEF PlainTargets

LEMMA FamilyKinds ==
    /\ StringFamily = {"Utf8", "LargeUtf8", "Utf8View"}
    /\ BinaryFamily = {"Binary", "LargeBinary", "BinaryView"}
    /\ Decimals = {"Decimal32", "Decimal64", "Decimal128", "Decimal256"}
    /\ TimeKinds = {"Time32", "Time64"}
  BY DEF StringFamily, BinaryFamily, Decimals, NarrowDecimals, TimeKinds

\* The arms of plan_arrow_data_type_as_mssql_type exclude each other.
LEMMA TypeTable ==
    ASSUME NEW o, NEW a
    PROVE  /\ a.kind \in DOMAIN PlainTargets => PlanType(a, o) = Planned(PlainTargets[a.kind])
           /\ a.kind = "UInt64" => PlanType(a, o) = PlanUInt64(o)
           /\ a.kind \in StringFamily => PlanType(a, o) = PlanString(o)
           /\ a.kind \in BinaryFamily => PlanType(a, o) = PlanBinary(o)
           /\ a.kind = "FixedSizeBinary" => PlanType(a, o) = PlanFixedSizeBinary(a)
           /\ a.kind \in NarrowDecimals => PlanType(a, o) = NormalizeDecimalShape(a, o)
           /\ a.kind = "Decimal256" => PlanType(a, o) = PlanDecimal256(a, o)
           /\ a.kind = "Date64" => PlanType(a, o) = PlanDate64(o)
           /\ a.kind \in TimeKinds => PlanType(a, o) = Planned(SqlType("Time", TimeDigits(a), 0))
           /\ a.kind = "Timestamp" => PlanType(a, o) = PlanTimestamp(a, o)
           /\ \/ a.kind \in DOMAIN PlainTargets \cup StringFamily \cup BinaryFamily
              \/ a.kind \in Decimals \cup TimeKinds
              \/ a.kind \in {"UInt64", "FixedSizeBinary", "Date64", "Timestamp"}
              \/ PlanType(a, o) = Refused("UnsupportedArrowType")
  BY PlainKinds DEF PlanType, StringFamily, BinaryFamily, NarrowDecimals, TimeKinds, Decimals

LEMMA VariableTypes ==
    ASSUME NEW policy, NEW target, PlanVariable(policy, target).code = "ok",
           policy.kind \in {"Max", "Bounded", "Observed"}
    PROVE  VariableArm(policy, target, PlanVariable(policy, target).type)
<1>1. CASE policy.kind = "Max"
  BY <1>1 DEF PlanVariable, Planned, VariableArm
<1>2. CASE policy.kind = "Bounded"
  BY <1>2 DEF PlanVariable, Planned, VariableArm
<1>3. CASE policy.kind = "Observed"
  BY <1>3 DEF PlanVariable, Refused
<1> QED
  BY <1>1, <1>2, <1>3

LEMMA PolicyTypes ==
    ASSUME NEW o, OptionsOK(o), NEW a, ArrowTypeOK(a), PlanType(a, o).code = "ok"
    PROVE  PlannedAs(a, PlanType(a, o).type, o)
<1> DEFINE t == PlanType(a, o).type
<1>1. CASE a.kind \in DOMAIN PlainTargets
  <2>1. t = PlainTargets[a.kind]
    BY <1>1, TypeTable DEF Planned
  <2> QED
    BY <1>1, <2>1 DEF PlannedAs
<1>2. CASE a.kind = "UInt64"
  <2>1. t = SqlType("Decimal", 20, 0) \/ t = Plain("BigInt")
    BY <1>2, TypeTable DEF PlanUInt64, Planned, Refused, OptionsOK
  <2> QED
    BY <1>2, <2>1 DEF PlannedAs
<1>3. CASE a.kind \in StringFamily
  <2>1. PlanType(a, o) = PlanVariable(o.string, "NVarChar")
    BY <1>3, TypeTable DEF PlanString
  <2>2. o.string.kind \in {"Max", "Bounded", "Observed"}
    BY DEF OptionsOK
  <2>3. VariableArm(o.string, "NVarChar", t)
    BY <2>1, <2>2, VariableTypes
  <2> QED
    BY <1>3, <2>3 DEF PlannedAs
<1>4. CASE a.kind \in BinaryFamily
  <2>1. PlanType(a, o) = PlanVariable(o.binary, "VarBinary")
    BY <1>4, TypeTable DEF PlanBinary
  <2>2. o.binary.kind \in {"Max", "Bounded", "Observed"}
    BY DEF OptionsOK
  <2>3. VariableArm(o.binary, "VarBinary", t)
    BY <2>1, <2>2, VariableTypes
  <2> QED
    BY <1>4, <2>3 DEF PlannedAs
<1>5. CASE a.kind = "FixedSizeBinary"
  <2>1. PlanType(a, o) = PlanFixedSizeBinary(a)
    BY <1>5, TypeTable
  <2>2. a.p \in 1..MaxBinaryLen /\ t = SqlType("Binary", a.p, 0)
    BY <2>1 DEF PlanFixedSizeBinary, Planned, Refused
  <2>3. FixedArm(a, t)
    BY <2>2 DEF FixedArm
  <2> QED
    BY <1>5, <2>3 DEF PlannedAs
<1>6. CASE a.kind \in Decimals
  <2>1. PlanType(a, o) = NormalizeDecimalShape(a, o)
    BY <1>6, TypeTable DEF PlanDecimal256, Refused, Decimals
  <2>2. a.p # 0 /\ (a.s >= 0 \/ o.decimal # "RejectNegativeScale")
    BY <2>1 DEF NormalizeDecimalShape, Refused, ArrowTypeOK
  <2>3. NormalizeDecimalShape(a, o) =
           IF NormalPrecision(a) <= MaxU8 /\ NormalPrecision(a) <= MaxDecimalPrecision
              /\ NormalScale(a) <= NormalPrecision(a)
           THEN Planned(SqlType("Decimal", NormalPrecision(a), NormalScale(a)))
           ELSE Refused("DecimalOutOfRange")
    BY <2>2 DEF NormalizeDecimalShape, ArrowTypeOK
  <2>4. DecimalArm(a, t)
    BY <2>1, <2>2, <2>3 DEF MaxDecimalPrecision, Planned, Refused, DecimalArm
  <2> QED
    BY <1>6, <2>4 DEF PlannedAs
<1>7. CASE a.kind = "Date64"
  <2>1. t = SqlType("DateTime2", 3, 0)
    BY <1>7, TypeTable DEF PlanDate64, Planned, Refused
  <2> QED
    BY <1>7, <2>1 DEF PlannedAs
<1>8. CASE a.kind \in TimeKinds
  <2>1. t = SqlType("Time", TimeDigits(a), 0)
    BY <1>8, TypeTable DEF Planned
  <2> QED
    BY <1>8, <2>1 DEF PlannedAs
<1>9. CASE a.kind = "Timestamp"
  <2>1. PlanType(a, o) = PlanTimestamp(a, o)
    BY <1>9, TypeTable
  <2>2. \/ HasZone(a) /\ t = SqlType("DateTimeOffset", 7, 0)
        \/ PlanType(a, o) = PlanTimestampPolicy(o)
    BY <2>1 DEF PlanTimestamp, Planned, Refused
  <2>3. \/ HasZone(a) /\ t = SqlType("DateTimeOffset", 7, 0)
        \/ t = Plain("DateTime")
        \/ o.timestamp.n \in 0..7 /\ t = SqlType("DateTime2", o.timestamp.n, 0)
    BY <2>2 DEF PlanTimestampPolicy, Planned, Refused, OptionsOK
  <2>4. TimestampArm(a, t)
    BY <2>3 DEF TimestampArm
  <2> QED
    BY <1>9, <2>4 DEF PlannedAs
<1> QED
  BY <1>1, <1>2, <1>3, <1>4, <1>5, <1>6, <1>7, <1>8, <1>9, TypeTable DEF Refused

-----------------------------------------------------------------------------
(* Facts about a planned pair of types *)

\* The arms of PlannedAs exclude each other, and there are no other kinds.
LEMMA PlannedArms ==
    ASSUME NEW a, NEW t, NEW o, PlannedAs(a, t, o)
    PROVE  /\ a.kind \in DOMAIN PlainTargets => t = PlainTargets[a.kind]
           /\ a.kind = "UInt64" => t = SqlType("Decimal", 20, 0) \/ t = Plain("BigInt")
           /\ a.kind \in StringFamily => VariableArm(o.string, "NVarChar", t)
           /\ a.kind \in BinaryFamily => VariableArm(o.binary, "VarBinary", t)
           /\ a.kind = "FixedSizeBinary" => FixedArm(a, t)
           /\ a.kind \in Decimals => DecimalArm(a, t)
           /\ a.kind = "Date64" => t = SqlType("DateTime2", 3, 0)
           /\ a.kind \in TimeKinds => t = SqlType("Time", TimeDigits(a), 0)
           /\ a.kind = "Timestamp" => TimestampArm(a, t)
           /\ \/ a.kind \in DOMAIN PlainTargets \cup StringFamily \cup BinaryFamily
              \/ a.kind \in Decimals \cup TimeKinds
              \/ a.kind \in {"UInt64", "FixedSizeBinary", "Date64", "Timestamp"}
  BY PlainKinds, FamilyKinds DEF PlannedAs

\* A field that is planned, and its mapping.
LEMMA PlannedField ==
    ASSUME NEW o \in PlanOptions, NEW s \in Schemas, NEW f \in DOMAIN s,
           PlanField(s[f], o).code = "ok"
    PROVE  /\ FieldOK(s[f]) /\ OptionsOK(o) /\ ArrowTypeOK(s[f].type)
           /\ PlannedAs(s[f].type, PlanField(s[f], o).type, o)
<1>1. FieldOK(s[f]) /\ OptionsOK(o) /\ ArrowTypeOK(s[f].type)
  BY TargetTableAssumption DEF FieldOK
<1>2. PlanField(s[f], o) = PlanType(s[f].type, o)
  BY DEF PlanField, Refused
<1> QED
  BY <1>1, <1>2, PolicyTypes

LEMMA PlainTypes ==
    ASSUME NEW k \in DOMAIN PlainTargets
    PROVE  /\ PlainTargets[k] = SqlType(PlainTargets[k].kind, IF k = "Float64" THEN 53 ELSE 0, 0)
           /\ PlainTargets[k].kind \in {"Bit", "TinyInt", "SmallInt", "Int", "BigInt", "Real",
                                        "Float", "Date"}
           /\ PlainTargets[k].kind = "Date" <=> k = "Date32"
  BY PlainKinds DEF PlainTargets, Plain, SqlType

LEMMA ScaledType ==
    ASSUME NEW t, NEW p \in Int, NEW scale \in Int,
           NEW k \in {"Decimal", "BigInt", "NVarChar", "VarBinary", "Binary", "DateTime2", "Time",
                      "DateTime", "DateTimeOffset"},
           t = SqlType(k, p, scale), k # "Decimal" => scale = 0
    PROVE  ServerType(t) /\ t.kind = k
<1>1. t.kind = k /\ t.p = p /\ t.s = scale
  BY DEF SqlType
<1>2. t = SqlType(t.kind, t.p, t.s)
  BY <1>1
<1>3. t.kind \notin {"Bitn", "Datetime", "Datetimen"}
  BY <1>1
<1>4. t.kind \notin {"Decimal", "Numeric"} => t.s = 0
  BY <1>1
<1> QED
  BY <1>1, <1>2, <1>3, <1>4 DEF ServerType

LEMMA ServerTypes ==
    ASSUME NEW a, NEW t, NEW o, ArrowTypeOK(a), OptionsOK(o), PlannedAs(a, t, o)
    PROVE  ServerType(t) /\ t.kind # "none" /\ t.kind # "Numeric"
<1>1. CASE a.kind \in DOMAIN PlainTargets /\ t = PlainTargets[a.kind]
  <2>1. /\ t = SqlType(t.kind, IF a.kind = "Float64" THEN 53 ELSE 0, 0)
        /\ t.kind \in {"Bit", "TinyInt", "SmallInt", "Int", "BigInt", "Real", "Float", "Date"}
    BY <1>1, PlainTypes
  <2>2. t.p \in {0, 53} /\ t.s = 0
    BY <2>1 DEF SqlType
  <2>3. t = SqlType(t.kind, t.p, t.s)
    BY <2>1, <2>2 DEF SqlType
  <2> QED
    BY <2>1, <2>2, <2>3 DEF ServerType
<1>2. CASE \E k \in {"Decimal", "BigInt", "NVarChar", "VarBinary", "Binary", "DateTime2", "Time",
                     "DateTime", "DateTimeOffset"}, p, scale \in Int :
              t = SqlType(k, p, scale) /\ (k # "Decimal" => scale = 0)
  <2>1. PICK k \in {"Decimal", "BigInt", "NVarChar", "VarBinary", "Binary", "DateTime2", "Time",
                    "DateTime", "DateTimeOffset"}, p \in Int, scale \in Int :
              t = SqlType(k, p, scale) /\ (k # "Decimal" => scale = 0)
    BY <1>2
  <2>2. ServerType(t) /\ t.kind = k
    BY <2>1, ScaledType
  <2> QED
    BY <2>2
<1>3. \/ a.kind \in DOMAIN PlainTargets /\ t = PlainTargets[a.kind]
      \/ \E k \in {"Decimal", "BigInt", "NVarChar", "VarBinary", "Binary", "DateTime2", "Time",
                   "DateTime", "DateTimeOffset"}, p, scale \in Int :
              t = SqlType(k, p, scale) /\ (k # "Decimal" => scale = 0)
  BY DEF PlannedAs, VariableArm, FixedArm, DecimalArm, TimestampArm, Plain, ArrowTypeOK, OptionsOK,
         MaxLength, MaxBinaryLen, NormalPrecision, NormalScale, TimeDigits
<1> QED
  BY <1>1, <1>2, <1>3

\* StorableType by kind.
LEMMA StorableKinds ==
    /\ \A t : t.kind \in {"Bit", "TinyInt", "SmallInt", "Int", "BigInt", "Real", "Float", "Date",
                          "DateTime"} => StorableType(t)
    /\ \A p, s : p = MaxLength \/ p \in 1..4000 => StorableType(SqlType("NVarChar", p, s))
    /\ \A p, s : p = MaxLength \/ p \in 1..8000 => StorableType(SqlType("VarBinary", p, s))
    /\ \A p, s : p \in 1..MaxBinaryLen => StorableType(SqlType("Binary", p, s))
    /\ \A p, s : p \in 1..38 /\ s \in 0..p => StorableType(SqlType("Decimal", p, s))
    /\ \A p, s : p \in 0..7 => /\ StorableType(SqlType("Time", p, s))
                               /\ StorableType(SqlType("DateTime2", p, s))
                               /\ StorableType(SqlType("DateTimeOffset", p, s))
<1>1. \A t : t.kind \in {"Bit", "TinyInt", "SmallInt", "Int", "BigInt", "Real", "Float", "Date",
                         "DateTime"} => StorableType(t)
  <2> SUFFICES ASSUME NEW t, t.kind \in {"Bit", "TinyInt", "SmallInt", "Int", "BigInt", "Real",
                                         "Float", "Date", "DateTime"}
               PROVE  StorableType(t)
    OBVIOUS
  <2>1. /\ t.kind # "NVarChar" /\ t.kind # "VarBinary" /\ t.kind # "Binary"
        /\ t.kind # "Decimal" /\ t.kind \notin {"Time", "DateTime2", "DateTimeOffset"}
        /\ t.kind # "none"
    OBVIOUS
  <2> QED
    BY ONLY <2>1 DEF StorableType
<1>2. \A p, s : p = MaxLength \/ p \in 1..4000 => StorableType(SqlType("NVarChar", p, s))
  BY DEF StorableType, SqlType
<1>3. \A p, s : p = MaxLength \/ p \in 1..8000 => StorableType(SqlType("VarBinary", p, s))
  BY DEF StorableType, SqlType
<1>4. \A p, s : p \in 1..MaxBinaryLen => StorableType(SqlType("Binary", p, s))
  BY DEF StorableType, SqlType, MaxBinaryLen
<1>5. \A p, s : p \in 1..38 /\ s \in 0..p => StorableType(SqlType("Decimal", p, s))
  BY DEF StorableType, SqlType
<1>6. \A p, s : p \in 0..7 => /\ StorableType(SqlType("Time", p, s))
                               /\ StorableType(SqlType("DateTime2", p, s))
                               /\ StorableType(SqlType("DateTimeOffset", p, s))
  BY DEF StorableType, SqlType
<1> QED
  BY <1>1, <1>2, <1>3, <1>4, <1>5, <1>6

\* RenderedTableIsStorable, type by type.
LEMMA StorableVariable ==
    ASSUME NEW policy, NEW t, VariableArm(policy, "NVarChar", t), LengthFits(policy, 4000)
    PROVE  StorableType(t)
<1>1. PICK n \in {MaxLength, policy.n} :
            t = SqlType("NVarChar", n, 0) /\ (n # MaxLength => policy.kind = "Bounded")
  BY DEF VariableArm
<1>2. n = MaxLength \/ n \in 1..4000
  BY <1>1 DEF LengthFits
<1> QED
  BY <1>1, <1>2, StorableKinds

LEMMA StorableBinary ==
    ASSUME NEW policy, NEW t, VariableArm(policy, "VarBinary", t), LengthFits(policy, 8000)
    PROVE  StorableType(t)
<1>1. PICK n \in {MaxLength, policy.n} :
            t = SqlType("VarBinary", n, 0) /\ (n # MaxLength => policy.kind = "Bounded")
  BY DEF VariableArm
<1>2. n = MaxLength \/ n \in 1..8000
  BY <1>1 DEF LengthFits
<1> QED
  BY <1>1, <1>2, StorableKinds

LEMMA StorableTypes ==
    ASSUME NEW a, NEW t, NEW o, ArrowTypeOK(a), PlannedAs(a, t, o),
           LengthFits(o.string, 4000), LengthFits(o.binary, 8000)
    PROVE  StorableType(t)
<1>1. CASE a.kind \in DOMAIN PlainTargets /\ t = PlainTargets[a.kind]
  <2>1. t.kind \in {"Bit", "TinyInt", "SmallInt", "Int", "BigInt", "Real", "Float", "Date"}
    BY <1>1, PlainTypes
  <2> QED
    BY <2>1, StorableKinds
<1>2. ASSUME t = Plain("BigInt") \/ t = Plain("DateTime") PROVE StorableType(t)
  <2>1. t.kind \in {"BigInt", "DateTime"}
    BY <1>2 DEF Plain, SqlType
  <2> QED
    BY <2>1, StorableKinds
<1>3. CASE a.kind = "UInt64" /\ (t = SqlType("Decimal", 20, 0) \/ t = Plain("BigInt"))
  <2>1. CASE t = SqlType("Decimal", 20, 0)
    BY <2>1, StorableKinds
  <2> QED
    BY <1>2, <1>3, <2>1
<1>4. CASE a.kind \in StringFamily /\ VariableArm(o.string, "NVarChar", t)
  BY <1>4, StorableVariable
<1>5. CASE a.kind \in BinaryFamily /\ VariableArm(o.binary, "VarBinary", t)
  BY <1>5, StorableBinary
<1>6. CASE a.kind = "FixedSizeBinary" /\ FixedArm(a, t)
  <2>1. a.p \in 1..MaxBinaryLen /\ t = SqlType("Binary", a.p, 0)
    BY <1>6 DEF FixedArm
  <2> QED
    BY <2>1, StorableKinds
<1>7. CASE a.kind \in Decimals /\ DecimalArm(a, t)
  <2>1. a.p \in Nat \ {0} /\ a.s \in Int
    BY <1>7 DEF ArrowTypeOK, DecimalArm, Decimals, NarrowDecimals
  <2>2. NormalPrecision(a) \in 1..38 /\ NormalScale(a) \in 0..NormalPrecision(a)
    BY <1>7, <2>1 DEF DecimalArm, NormalPrecision, NormalScale
  <2> QED
    BY <1>7, <2>2, StorableKinds DEF DecimalArm
<1>8. CASE a.kind = "Date64" /\ t = SqlType("DateTime2", 3, 0)
  BY <1>8, StorableKinds
<1>9. CASE a.kind \in TimeKinds /\ t = SqlType("Time", TimeDigits(a), 0)
  <2>1. TimeDigits(a) \in 0..7
    BY <1>9 DEF TimeDigits, ArrowTypeOK, TimeKinds
  <2> QED
    BY <1>9, <2>1, StorableKinds
<1>10. CASE a.kind = "Timestamp" /\ TimestampArm(a, t)
  <2>1. CASE HasZone(a) /\ t = SqlType("DateTimeOffset", 7, 0)
    BY <2>1, StorableKinds
  <2>2. CASE \E n \in 0..7 : t = SqlType("DateTime2", n, 0)
    BY <2>2, StorableKinds
  <2> QED
    BY <1>2, <1>10, <2>1, <2>2 DEF TimestampArm
<1> QED
  BY <1>1, <1>3, <1>4, <1>5, <1>6, <1>7, <1>8, <1>9, <1>10 DEF PlannedAs

HoldsItsSource(a, t) ==
    /\ a.kind \in DOMAIN ByteWidths =>
         \/ SqlWidths[t.kind] > ByteWidths[a.kind]
         \/ /\ SqlWidths[t.kind] = ByteWidths[a.kind]
            /\ SignedSource(a) = (t.kind # "TinyInt")
    /\ a.kind \in Decimals => IntegralDigits(t) >= IntegralDigits(a) /\ t.s >= a.s
    /\ a.kind \in TimeKinds => t.p = 7 \/ t.p >= a.p

LEMMA WideTypes ==
    ASSUME NEW a, NEW t, NEW o, ArrowTypeOK(a), OptionsOK(o), PlannedAs(a, t, o)
    PROVE  HoldsItsSource(a, t)
<1>1. CASE a.kind \in DOMAIN ByteWidths
  <2>1. a.kind \in {"Int8", "Int16", "Int32", "Int64", "UInt8", "UInt16", "UInt32"}
    BY <1>1 DEF ByteWidths
  <2>2. a.kind \in DOMAIN PlainTargets /\ t = PlainTargets[a.kind]
    BY <2>1, PlainKinds, PlannedArms
  <2> QED
    BY <2>1, <2>2 DEF HoldsItsSource, ByteWidths, SqlWidths, SignedSource, PlainTargets, Plain,
       SqlType, Decimals, NarrowDecimals, TimeKinds
<1>2. CASE a.kind \in Decimals
  <2>1. t = SqlType("Decimal", NormalPrecision(a), NormalScale(a))
    BY <1>2, PlannedArms DEF DecimalArm
  <2>2. a.kind \notin DOMAIN ByteWidths /\ a.kind \notin TimeKinds
    BY <1>2 DEF ByteWidths, Decimals, NarrowDecimals, TimeKinds
  <2> QED
    BY <1>2, <2>1, <2>2 DEF HoldsItsSource, IntegralDigits, NormalPrecision, NormalScale, SqlType,
       ArrowTypeOK, Decimals, NarrowDecimals
<1>3. CASE a.kind \in TimeKinds
  <2>1. t = SqlType("Time", TimeDigits(a), 0)
    BY <1>3, PlannedArms
  <2>2. a.kind \notin DOMAIN ByteWidths /\ a.kind \notin Decimals
    BY <1>3 DEF ByteWidths, Decimals, NarrowDecimals, TimeKinds
  <2> QED
    BY <1>3, <2>1, <2>2 DEF HoldsItsSource, TimeDigits, SqlType, ArrowTypeOK, TimeKinds
<1> QED
  BY <1>1, <1>2, <1>3 DEF HoldsItsSource

-----------------------------------------------------------------------------
(* The direct encoding of a planned mapping *)

\* Which classifier takes a planned mapping is settled by its Arrow type, but
\* for a uint64 and a decimal by its planned type too.
LEMMA Classifiers ==
    ASSUME NEW m, NEW o, ArrowTypeOK(m.arrow), PlannedAs(m.arrow, m.type, o)
    PROVE  /\ IsPrimitive(m) <=> \/ m.arrow.kind \in DOMAIN PlainTargets \ {"Date32"}
                                 \/ m.arrow.kind = "UInt64" /\ m.type.kind = "BigInt"
           /\ IsDecimal(m) <=> m.arrow.kind \in Decimals /\ m.type.s # 38
           /\ UInt64Target(m) = "Decimal20_0"
                 <=> m.arrow.kind = "UInt64" /\ m.type.kind # "BigInt"
           /\ UInt64Target(m) = "CheckedBigInt"
                 <=> m.arrow.kind = "UInt64" /\ m.type.kind = "BigInt"
           /\ IsVariableWidth(m) <=> m.arrow.kind \in StringFamily \cup BinaryFamily
           /\ IsFixedSizeBinary(m) <=> m.arrow.kind = "FixedSizeBinary"
           /\ IsTemporal(m) <=> m.arrow.kind \in {"Date32", "Date64", "Timestamp"} \cup TimeKinds
           /\ \/ m.arrow.kind \in DOMAIN PlainTargets \cup StringFamily \cup BinaryFamily
              \/ m.arrow.kind \in Decimals \cup TimeKinds
              \/ m.arrow.kind \in {"UInt64", "FixedSizeBinary", "Date64", "Timestamp"}
<1> DEFINE k == m.arrow.kind
<1>1. /\ k \in DOMAIN PlainTargets => m.type = PlainTargets[k]
      /\ k = "UInt64" => m.type = SqlType("Decimal", 20, 0) \/ m.type = Plain("BigInt")
      /\ k = "FixedSizeBinary" => FixedArm(m.arrow, m.type)
      /\ k = "Date64" => m.type = SqlType("DateTime2", 3, 0)
      /\ k \in TimeKinds => m.type = SqlType("Time", TimeDigits(m.arrow), 0)
      /\ k \in StringFamily => VariableArm(o.string, "NVarChar", m.type)
      /\ k \in BinaryFamily => VariableArm(o.binary, "VarBinary", m.type)
      /\ k \in Decimals => DecimalArm(m.arrow, m.type)
      /\ k = "Timestamp" => TimestampArm(m.arrow, m.type)
  BY PlannedArms
<1>2. k \in StringFamily => m.type.kind = "NVarChar"
  BY <1>1 DEF VariableArm, SqlType
<1>3. k \in BinaryFamily => m.type.kind = "VarBinary"
  BY <1>1 DEF VariableArm, SqlType
<1>4. k \in Decimals => /\ m.type = SqlType("Decimal", NormalPrecision(m.arrow),
                                             NormalScale(m.arrow))
                        /\ NormalPrecision(m.arrow) <= 38
                        /\ NormalScale(m.arrow) <= NormalPrecision(m.arrow)
  BY <1>1 DEF DecimalArm
<1>5. k = "Timestamp" => \/ HasZone(m.arrow) /\ m.type = SqlType("DateTimeOffset", 7, 0)
                         \/ m.type = Plain("DateTime")
                         \/ \E n \in 0..7 : m.type = SqlType("DateTime2", n, 0)
  BY <1>1 DEF TimestampArm
<1>6. \/ k \in DOMAIN PlainTargets \cup StringFamily \cup BinaryFamily
      \/ k \in Decimals \cup TimeKinds
      \/ k \in {"UInt64", "FixedSizeBinary", "Date64", "Timestamp"}
  BY PlannedArms
<1>7. IsPrimitive(m) <=> \/ k \in DOMAIN PlainTargets \ {"Date32"}
                         \/ k = "UInt64" /\ m.type.kind = "BigInt"
  BY <1>1 DEF IsPrimitive
<1>8. IsDecimal(m) <=> k \in Decimals /\ m.type.s # 38
  <2>1. CASE k \in Decimals
    <3>1. m.type.kind = "Decimal" /\ m.type.s = NormalScale(m.arrow)
      BY <1>4, <2>1 DEF SqlType
    <3>2. m.arrow.p \in Int /\ m.arrow.s \in Int
      BY DEF ArrowTypeOK
    <3>3. NormalScale(m.arrow) \in Int /\ NormalScale(m.arrow) <= 38
      BY <1>4, <2>1, <3>2 DEF NormalScale, NormalPrecision
    <3> QED
      BY <2>1, <3>1, <3>3 DEF IsDecimal
  <2>2. CASE k \notin Decimals
    BY <2>2 DEF IsDecimal
  <2> QED
    BY <2>1, <2>2
<1>9. /\ UInt64Target(m) = "Decimal20_0" <=> k = "UInt64" /\ m.type.kind # "BigInt"
      /\ UInt64Target(m) = "CheckedBigInt" <=> k = "UInt64" /\ m.type.kind = "BigInt"
  BY <1>1 DEF UInt64Target, SqlType, Plain
<1>10. IsVariableWidth(m) <=> k \in StringFamily \cup BinaryFamily
  BY <1>2, <1>3 DEF IsVariableWidth
<1>11. IsFixedSizeBinary(m) <=> k = "FixedSizeBinary"
  <2>1. k = "FixedSizeBinary" => m.type = SqlType("Binary", m.arrow.p, 0)
    BY <1>1 DEF FixedArm
  <2> QED
    BY <2>1 DEF IsFixedSizeBinary, SqlType
<1>12. IsTimestamp(m) <=> k = "Timestamp"
  <2>1. CASE k = "Timestamp"
    <3>1. CASE HasZone(m.arrow) /\ m.type = SqlType("DateTimeOffset", 7, 0)
      BY <2>1, <3>1 DEF IsTimestamp
    <3>2. CASE m.type = Plain("DateTime")
      BY <2>1, <3>2 DEF IsTimestamp, Plain, SqlType
    <3>3. CASE \E n \in 0..7 : m.type = SqlType("DateTime2", n, 0)
      BY <2>1, <3>3 DEF IsTimestamp, SqlType
    <3> QED
      BY <1>5, <2>1, <3>1, <3>2, <3>3
  <2>2. CASE k # "Timestamp"
    BY <2>2 DEF IsTimestamp
  <2> QED
    BY <2>1, <2>2
<1>13. IsTemporal(m) <=> k \in {"Date32", "Date64", "Timestamp"} \cup TimeKinds
  <2>1. k = "Date32" => m.type.kind = "Date"
    BY <1>1, PlainKinds, PlainTypes
  <2> QED
    BY <1>1, <1>12, <2>1 DEF IsTemporal
<1> QED
  BY <1>6, <1>7, <1>8, <1>9, <1>10, <1>11, <1>13

LEMMA OneEncoding ==
    ASSUME NEW m, NEW o, ArrowTypeOK(m.arrow), PlannedAs(m.arrow, m.type, o)
    PROVE  /\ Takers(m) = {SupportMapping(m).family} \ {"Unsupported"}
           /\ Takers(m) = {} => m.type.s = 38
           /\ SupportMapping(m) = Unsupported \/ SupportMapping(m).to = m.type
<1> DEFINE k == m.arrow.kind
<1> DEFINE TakenAs(f) == Takers(m) = {f} /\ SupportMapping(m) = Encoding(f, m)
<1>1. ASSUME NEW f \in {"Primitive", "Decimal", "UInt64Decimal20_0", "VariableWidth",
                        "FixedSizeBinary", "Temporal"},
             TakenAs(f)
      PROVE  /\ Takers(m) = {SupportMapping(m).family} \ {"Unsupported"}
             /\ Takers(m) # {}
             /\ SupportMapping(m).to = m.type
  BY <1>1 DEF Encoding
<1>2. CASE k \in DOMAIN PlainTargets \ {"Date32"} \/ (k = "UInt64" /\ m.type.kind = "BigInt")
  <2>1. TakenAs("Primitive")
    BY <1>2, Classifiers, PlainKinds, FamilyKinds DEF Takers, SupportMapping
  <2> QED
    BY <1>1, <2>1
<1>3. CASE k \in Decimals /\ m.type.s # 38
  <2>1. TakenAs("Decimal")
    BY <1>3, Classifiers, PlainKinds, FamilyKinds DEF Takers, SupportMapping
  <2> QED
    BY <1>1, <2>1
<1>4. CASE k = "UInt64" /\ m.type.kind # "BigInt"
  <2>1. TakenAs("UInt64Decimal20_0")
    BY <1>4, Classifiers, PlainKinds, FamilyKinds DEF Takers, SupportMapping
  <2> QED
    BY <1>1, <2>1
<1>5. CASE k \in StringFamily \cup BinaryFamily
  <2>1. TakenAs("VariableWidth")
    BY <1>5, Classifiers, PlainKinds, FamilyKinds DEF Takers, SupportMapping
  <2> QED
    BY <1>1, <2>1
<1>6. CASE k = "FixedSizeBinary"
  <2>1. TakenAs("FixedSizeBinary")
    BY <1>6, Classifiers, PlainKinds, FamilyKinds DEF Takers, SupportMapping
  <2> QED
    BY <1>1, <2>1
<1>7. CASE k \in {"Date32", "Date64", "Timestamp"} \cup TimeKinds
  <2>1. TakenAs("Temporal")
    BY <1>7, Classifiers, PlainKinds, FamilyKinds DEF Takers, SupportMapping
  <2> QED
    BY <1>1, <2>1
<1>8. CASE k \in Decimals /\ m.type.s = 38
  <2>1. Takers(m) = {} /\ SupportMapping(m) = Unsupported
    BY <1>8, Classifiers, PlainKinds, FamilyKinds DEF Takers, SupportMapping
  <2> QED
    BY <1>8, <2>1 DEF Unsupported
<1> QED
  BY <1>2, <1>3, <1>4, <1>5, <1>6, <1>7, <1>8, Classifiers

-----------------------------------------------------------------------------
(* The inductive invariant *)

Plan(f) == PlanField(schema[f], options)
PlannedMappings ==
    {Mapping(f, schema[f], Plan(f).type) : f \in {g \in DOMAIN schema : Plan(g).code = "ok"}}
Refusals == {[field |-> f, code |-> Plan(f).code] :
                f \in {g \in DOMAIN schema : Plan(g).code # "ok"}}

\* The fields before the next are planned or diagnosed, each in its place.
PlanningInv ==
    /\ schema \in Schemas /\ options \in PlanOptions
    /\ mappings \in Seq(PlannedMappings)
    /\ diagnostics \in Seq(Refusals)
    /\ Len(mappings) + Len(diagnostics) <= Len(schema)
    /\ \A i \in 1..Len(diagnostics) : diagnostics[i].field < NextField
    /\ \A f \in DOMAIN schema :
          f < NextField /\ Plan(f).code # "ok" =>
              \E i \in 1..Len(diagnostics) : diagnostics[i].field = f
    /\ \A i, j \in 1..Len(diagnostics) : i < j => diagnostics[i].field < diagnostics[j].field
    /\ diagnostics = <<>> => \A i \in 1..Len(mappings) : mappings[i].index = i
    /\ pc # "planning" => NextField = Len(schema) + 1
    /\ pc \notin {"planning", "refused"} => diagnostics = <<>>

\* What a table can be made of: the planned columns, and what others put there.
LiveColumns ==
    [name : {schema[f].name.text : f \in DOMAIN schema} \cup {"other", "extra"},
     type : {m.type : m \in PlannedMappings} \cup StrayTypes \cup {Plain("Int")},
     nullable : BOOLEAN]

Opening == {"ready", "resolved", "described", "validated"}
TableInv ==
    /\ table \in Seq(LiveColumns) /\ columns \in Seq(LiveColumns)
    /\ alterations \in Nat
    /\ pc \in Opening /\ alterations = 0 => table = CreateTableColumns(mappings)
    /\ pc = "described" /\ alterations = 0 => columns = table
    /\ pc = "unstorable" => ~Storable(CreateTableColumns(mappings))

\* A writer past its encoder plan has an encoding for every mapping, and past
\* the validation columns without a fault.
WriterInv ==
    /\ pc \in {"resolved", "described", "validated", "open"} /\ backend \in DirectBackends =>
          encodings = DirectPlan(mappings) /\ UnsupportedIn(mappings) = {}
    /\ pc \in {"validated", "open"} =>
          ColumnsFaults = {} /\ (backend \in DirectBackends => TypesFaults = {})

IInv == PlanningInv /\ TableInv /\ WriterInv /\ OwnTableIsAccepted

-----------------------------------------------------------------------------
(* Facts of the invariant, and its initial case *)

\* Facts about the schema being planned.
LEMMA SchemaFacts ==
    ASSUME schema \in Schemas
    PROVE  /\ schema \in Seq({schema[f] : f \in DOMAIN schema})
           /\ Len(schema) \in Nat /\ DOMAIN schema = 1..Len(schema)
<1>1. schema \in Seq({schema[f] : f \in DOMAIN schema})
  BY TargetTableAssumption
<1> QED
  BY <1>1

LEMMA LengthFacts ==
    ASSUME PlanningInv
    PROVE  /\ Len(mappings) \in Nat /\ DOMAIN mappings = 1..Len(mappings)
           /\ Len(diagnostics) \in Nat /\ DOMAIN diagnostics = 1..Len(diagnostics)
           /\ NextField \in Nat
           /\ \A i \in DOMAIN mappings : mappings[i] \in PlannedMappings
           /\ \A i \in DOMAIN diagnostics : diagnostics[i] \in Refusals
  BY DEF PlanningInv, NextField

LEMMA PlannedFacts ==
    ASSUME PlanningInv, NEW m \in PlannedMappings
    PROVE  /\ m.index \in DOMAIN schema
           /\ m = Mapping(m.index, schema[m.index], Plan(m.index).type)
           /\ m.name = schema[m.index].name.text /\ m.nullable = schema[m.index].nullable
           /\ m.arrow = schema[m.index].type /\ m.nullable \in BOOLEAN
           /\ Plan(m.index).code = "ok"
           /\ ArrowTypeOK(m.arrow) /\ OptionsOK(options)
           /\ PlannedAs(m.arrow, m.type, options)
<1>1. PICK f \in DOMAIN schema :
         Plan(f).code = "ok" /\ m = Mapping(f, schema[f], Plan(f).type)
  BY DEF PlannedMappings
<1>2. /\ m.index = f /\ m.arrow = schema[f].type /\ m.name = schema[f].name.text
      /\ m.nullable = schema[f].nullable /\ m.type = Plan(f).type
  BY <1>1 DEF Mapping
<1>3. schema \in Schemas /\ options \in PlanOptions /\ f \in 1..Len(schema)
  BY <1>1, SchemaFacts DEF PlanningInv
<1>4. FieldOK(schema[f]) /\ OptionsOK(options) /\ ArrowTypeOK(schema[f].type)
  BY <1>1, <1>3, TargetTableAssumption DEF FieldOK
<1>5. PlannedAs(schema[f].type, Plan(f).type, options)
  BY <1>1, <1>3, PlannedField DEF Plan
<1> QED
  BY <1>1, <1>2, <1>4, <1>5 DEF FieldOK

LEMMA InitInv == Init => IInv
<1> SUFFICES ASSUME Init PROVE IInv
  OBVIOUS
<1>1. schema \in Schemas /\ options \in PlanOptions /\ pc = "planning"
  BY DEF Init
<1>2. mappings = <<>> /\ diagnostics = <<>> /\ Len(mappings) = 0 /\ Len(diagnostics) = 0
  BY DEF Init
<1>3. PlanningInv
  <2>1. mappings \in Seq(PlannedMappings) /\ diagnostics \in Seq(Refusals)
    BY <1>2
  <2>2. Len(schema) \in Nat /\ DOMAIN schema = 1..Len(schema)
    BY <1>1, SchemaFacts
  <2> QED
    BY <1>1, <1>2, <2>1, <2>2 DEF PlanningInv, NextField
<1>4. TableInv
  BY DEF Init, TableInv, Opening
<1> QED
  BY <1>1, <1>3, <1>4 DEF IInv, WriterInv, OwnTableIsAccepted

\* After planning nothing touches the plan.
LEMMA PlanKept ==
    ASSUME PlanningInv, UNCHANGED planVars, pc \notin {"planning", "refused"},
           pc' # "planning"
    PROVE  /\ PlanningInv'
           /\ PlannedMappings' = PlannedMappings
           /\ LiveColumns' = LiveColumns
<1>1. /\ schema' = schema /\ options' = options /\ mappings' = mappings
      /\ diagnostics' = diagnostics
  BY DEF planVars
<1>2. /\ PlannedMappings' = PlannedMappings /\ Refusals' = Refusals
      /\ LiveColumns' = LiveColumns /\ NextField' = NextField
  BY <1>1 DEF PlannedMappings, Refusals, LiveColumns, NextField, Plan
<1>3. \A f : Plan(f)' = Plan(f)
  BY <1>1 DEF Plan
<1>4. diagnostics = <<>> /\ NextField = Len(schema) + 1
  BY DEF PlanningInv
<1> QED
  BY <1>1, <1>2, <1>3, <1>4 DEF PlanningInv

-----------------------------------------------------------------------------
(* Planning keeps the invariant *)

LEMMA PlanNextFieldInv == IInv /\ PlanNextField => IInv'
<1> SUFFICES ASSUME IInv, PlanNextField PROVE IInv'
  OBVIOUS
<1> USE DEF IInv
<1>1. /\ schema' = schema /\ options' = options /\ pc' = "planning" /\ pc = "planning"
      /\ table' = table /\ columns' = columns /\ alterations' = alterations
  BY DEF PlanNextField
<1>2. /\ PlannedMappings' = PlannedMappings /\ Refusals' = Refusals
      /\ LiveColumns' = LiveColumns
  BY <1>1 DEF PlannedMappings, Refusals, LiveColumns, Plan
<1>3. \A f : Plan(f)' = Plan(f)
  BY <1>1 DEF Plan
<1>4. Len(schema) \in Nat /\ DOMAIN schema = 1..Len(schema)
  BY SchemaFacts DEF PlanningInv
<1> DEFINE n == NextField
<1>5. n \in DOMAIN schema /\ n \in Nat /\ n = Len(mappings) + Len(diagnostics) + 1
  BY <1>4, LengthFacts DEF PlanNextField, Unplanned, NextField
<1>6. PlanningInv'
  <2>1. CASE Plan(n).code = "ok"
    <3> DEFINE m == Mapping(n, schema[n], Plan(n).type)
    <3>1. mappings' = Append(mappings, m) /\ diagnostics' = diagnostics
      BY <2>1 DEF PlanNextField, Plan
    <3>2. m \in PlannedMappings /\ m.index = n
      BY <1>5, <2>1 DEF PlannedMappings, Mapping
    <3> HIDE DEF m
    <3>3. mappings' \in Seq(PlannedMappings) /\ Len(mappings') = Len(mappings) + 1
      BY <3>1, <3>2 DEF PlanningInv
    <3>4. NextField' = n + 1
      BY <3>1, <3>3, LengthFacts DEF NextField
    <3>5. diagnostics = <<>> => \A i \in 1..Len(mappings') : mappings'[i].index = i
      BY <3>1, <3>2, <3>3, <1>5, LengthFacts DEF PlanningInv
    <3>6. \A i \in 1..Len(diagnostics) : diagnostics[i].field < n + 1
      <4>1. \A i \in 1..Len(diagnostics) : diagnostics[i].field \in DOMAIN schema
        BY LengthFacts DEF Refusals
      <4> QED
        BY <4>1, <1>4, <1>5 DEF PlanningInv
    <3>7. \A f \in DOMAIN schema :
             f < n + 1 /\ Plan(f).code # "ok" =>
                 \E i \in 1..Len(diagnostics) : diagnostics[i].field = f
      <4> SUFFICES ASSUME NEW f \in DOMAIN schema, f < n + 1, Plan(f).code # "ok"
                   PROVE  \E i \in 1..Len(diagnostics) : diagnostics[i].field = f
        OBVIOUS
      <4>1. f < n
        BY <2>1, <1>4, <1>5
      <4> QED
        BY <4>1 DEF PlanningInv
    <3>8. Len(mappings') + Len(diagnostics) <= Len(schema)
      BY <3>3, <1>4, <1>5, LengthFacts
    <3> QED
      BY <1>1, <1>2, <1>3, <3>1, <3>3, <3>4, <3>5, <3>6, <3>7, <3>8 DEF PlanningInv
  <2>2. CASE Plan(n).code # "ok"
    <3> DEFINE d == [field |-> n, code |-> Plan(n).code]
    <3>1. diagnostics' = Append(diagnostics, d) /\ mappings' = mappings
      BY <2>2 DEF PlanNextField, Plan
    <3>2. d \in Refusals /\ d.field = n
      BY <1>5, <2>2 DEF Refusals
    <3> HIDE DEF d
    <3>3. /\ diagnostics' \in Seq(Refusals) /\ Len(diagnostics') = Len(diagnostics) + 1
          /\ diagnostics' # <<>>
          /\ \A i \in 1..Len(diagnostics) : diagnostics'[i] = diagnostics[i]
          /\ diagnostics'[Len(diagnostics')] = d
      BY <3>1, <3>2, LengthFacts DEF PlanningInv
    <3>4. NextField' = n + 1
      BY <3>1, <3>3, LengthFacts DEF NextField
    <3>5. \A i \in 1..Len(diagnostics) : diagnostics[i].field \in DOMAIN schema
      BY LengthFacts DEF Refusals
    <3>6. \A i \in 1..Len(diagnostics') : diagnostics'[i].field < n + 1
      <4> SUFFICES ASSUME NEW i \in 1..Len(diagnostics') PROVE diagnostics'[i].field < n + 1
        OBVIOUS
      <4>1. CASE i = Len(diagnostics')
        BY <4>1, <3>2, <3>3, <1>5
      <4>2. CASE i # Len(diagnostics')
        <5>1. i \in 1..Len(diagnostics)
          BY <4>2, <3>3, LengthFacts
        <5>2. diagnostics[i].field < n /\ diagnostics[i].field \in Nat
          BY <5>1, <3>5, <1>4 DEF PlanningInv
        <5> QED
          BY <5>1, <5>2, <3>3, <1>5
      <4> QED
        BY <4>1, <4>2
    <3>7. \A f \in DOMAIN schema :
             f < n + 1 /\ Plan(f).code # "ok" =>
                 \E i \in 1..Len(diagnostics') : diagnostics'[i].field = f
      <4> SUFFICES ASSUME NEW f \in DOMAIN schema, f < n + 1, Plan(f).code # "ok"
                   PROVE  \E i \in 1..Len(diagnostics') : diagnostics'[i].field = f
        OBVIOUS
      <4>1. CASE f = n
        <5>1. Len(diagnostics') \in 1..Len(diagnostics')
          BY <3>3, LengthFacts
        <5> QED
          BY <4>1, <5>1, <3>2, <3>3
      <4>2. CASE f # n
        <5>1. f < n
          BY <4>2, <1>4, <1>5
        <5>2. PICK i \in 1..Len(diagnostics) : diagnostics[i].field = f
          BY <5>1 DEF PlanningInv
        <5>3. i \in 1..Len(diagnostics') /\ diagnostics'[i].field = f
          BY <5>2, <3>3, LengthFacts
        <5> QED
          BY <5>3
      <4> QED
        BY <4>1, <4>2
    <3>8. \A i, j \in 1..Len(diagnostics') :
             i < j => diagnostics'[i].field < diagnostics'[j].field
      <4> SUFFICES ASSUME NEW i \in 1..Len(diagnostics'), NEW j \in 1..Len(diagnostics'), i < j
                   PROVE  diagnostics'[i].field < diagnostics'[j].field
        OBVIOUS
      <4>1. i \in 1..Len(diagnostics) /\ diagnostics[i].field < n
        BY <3>3, LengthFacts DEF PlanningInv
      <4>2. CASE j = Len(diagnostics')
        BY <4>1, <4>2, <3>2, <3>3
      <4>3. CASE j # Len(diagnostics')
        <5>1. j \in 1..Len(diagnostics)
          BY <4>3, <3>3, LengthFacts
        <5> QED
          BY <4>1, <5>1, <3>3 DEF PlanningInv
      <4> QED
        BY <4>2, <4>3
    <3>9. Len(mappings) + Len(diagnostics') <= Len(schema)
      BY <3>3, <1>4, <1>5, LengthFacts
    <3> QED
      BY <1>1, <1>2, <1>3, <3>1, <3>3, <3>4, <3>6, <3>7, <3>8, <3>9 DEF PlanningInv
  <2> QED
    BY <2>1, <2>2
<1>7. TableInv'
  BY <1>1, <1>2 DEF TableInv, Opening
<1> QED
  BY <1>1, <1>6, <1>7 DEF WriterInv, OwnTableIsAccepted

LEMMA PlanReturnsInv == IInv /\ PlanReturns => IInv'
<1> SUFFICES ASSUME IInv, PlanReturns PROVE IInv'
  OBVIOUS
<1> USE DEF IInv
<1>1. /\ schema' = schema /\ options' = options /\ mappings' = mappings
      /\ diagnostics' = diagnostics
      /\ table' = table /\ columns' = columns /\ alterations' = alterations
      /\ pc' = IF diagnostics = <<>> THEN "planned" ELSE "refused"
  BY DEF PlanReturns, planVars
<1>2. /\ PlannedMappings' = PlannedMappings /\ Refusals' = Refusals
      /\ LiveColumns' = LiveColumns /\ NextField' = NextField
  BY <1>1 DEF PlannedMappings, Refusals, LiveColumns, Plan, NextField
<1>3. \A f : Plan(f)' = Plan(f)
  BY <1>1 DEF Plan
<1>4. NextField = Len(schema) + 1
  BY SchemaFacts, LengthFacts DEF PlanReturns, Unplanned, PlanningInv, NextField
<1>5. PlanningInv'
  BY <1>1, <1>2, <1>3, <1>4 DEF PlanningInv
<1>6. TableInv'
  BY <1>1, <1>2 DEF TableInv, Opening
<1> QED
  BY <1>1, <1>5, <1>6 DEF WriterInv, OwnTableIsAccepted

-----------------------------------------------------------------------------
(* So do the table and the first round trip *)

\* The columns of CREATE TABLE are the planned ones.
LEMMA RenderedColumns ==
    ASSUME PlanningInv
    PROVE  /\ CreateTableColumns(mappings) \in Seq(LiveColumns)
           /\ Len(CreateTableColumns(mappings)) = Len(mappings)
           /\ \A i \in DOMAIN mappings :
                 CreateTableColumns(mappings)[i] = Column(mappings[i])
<1> DEFINE cols == CreateTableColumns(mappings)
<1>1. DOMAIN mappings = 1..Len(mappings) /\ Len(mappings) \in Nat
  BY LengthFacts
<1>2. ASSUME NEW i \in DOMAIN mappings PROVE Column(mappings[i]) \in LiveColumns
  <2> DEFINE m == mappings[i]
  <2>1. m \in PlannedMappings
    BY LengthFacts
  <2> HIDE DEF m
  <2>2. m.index \in DOMAIN schema /\ m.name = schema[m.index].name.text /\ m.nullable \in BOOLEAN
    BY <2>1, PlannedFacts
  <2>3. m.type \in {p.type : p \in PlannedMappings}
    BY <2>1
  <2>4. Column(m) \in LiveColumns
    BY <2>2, <2>3 DEF Column, LiveColumns
  <2> QED
    BY <2>4 DEF m
<1>3. cols = [i \in 1..Len(mappings) |-> Column(mappings[i])]
  BY <1>1 DEF CreateTableColumns
<1>4. cols \in [1..Len(mappings) -> LiveColumns]
  BY <1>1, <1>2, <1>3
<1>5. cols \in Seq(LiveColumns) /\ Len(cols) = Len(mappings)
  BY <1>1, <1>4
<1> QED
  BY <1>1, <1>3, <1>5

LEMMA CreateTableInv == IInv /\ CreateTable => IInv'
<1> SUFFICES ASSUME IInv, CreateTable PROVE IInv'
  OBVIOUS
<1> USE DEF IInv
<1> DEFINE cols == CreateTableColumns(mappings)
<1>1. /\ UNCHANGED planVars /\ pc = "planned" /\ columns' = columns /\ alterations' = alterations
      /\ mappings' = mappings
      /\ \/ pc' = "ready" /\ table' = cols
         \/ pc' = "unstorable" /\ table' = table /\ ~Storable(cols)
  BY DEF CreateTable, planVars
<1>2. PlanningInv' /\ LiveColumns' = LiveColumns
  BY <1>1, PlanKept
<1>3. cols' = cols
  BY <1>1
<1>4. cols \in Seq(LiveColumns)
  BY RenderedColumns
<1> HIDE DEF cols
<1>5. TableInv'
  <2>1. CASE pc' = "ready" /\ table' = cols
    <3>1. CreateTableColumns(mappings)' = cols
      BY <1>3 DEF cols
    <3> QED
      BY <1>1, <1>2, <1>4, <2>1, <3>1 DEF TableInv, Opening
  <2>2. CASE pc' = "unstorable" /\ table' = table /\ ~Storable(cols)
    <3>1. CreateTableColumns(mappings)' = cols
      BY <1>3 DEF cols
    <3>2. ~Storable(CreateTableColumns(mappings))'
      BY <2>2, <3>1 DEF Storable
    <3> QED
      BY <1>1, <1>2, <2>2, <3>2 DEF TableInv, Opening
  <2> QED
    BY <1>1, <2>1, <2>2
<1> QED
  BY <1>1, <1>2, <1>5 DEF WriterInv, OwnTableIsAccepted

\* Whatever another session does, the table is made of live columns.
LEMMA AlteredColumns ==
    ASSUME NEW cols \in Seq(LiveColumns), NEW other \in Altered(cols)
    PROVE  other \in Seq(LiveColumns)
<1>1. ASSUME NEW i \in DOMAIN cols, NEW c \in Changes(cols[i]) PROVE c \in LiveColumns
  <2>1. cols[i] \in LiveColumns
    OBVIOUS
  <2>2. [cols[i] EXCEPT !.nullable = ~@] \in LiveColumns
    BY <2>1 DEF LiveColumns
  <2>3. [cols[i] EXCEPT !.name = "other"] \in LiveColumns
    BY <2>1 DEF LiveColumns
  <2>4. ASSUME NEW t \in StrayTypes PROVE [cols[i] EXCEPT !.type = t] \in LiveColumns
    BY <2>1 DEF LiveColumns
  <2> QED
    BY <1>1, <2>2, <2>3, <2>4 DEF Changes
<1>2. [name |-> "extra", type |-> Plain("Int"), nullable |-> TRUE] \in LiveColumns
  BY DEF LiveColumns
<1>3. CASE \E i \in DOMAIN cols : \E c \in Changes(cols[i]) : other = [cols EXCEPT ![i] = c]
  <2>1. PICK i \in DOMAIN cols, c \in LiveColumns : other = [cols EXCEPT ![i] = c]
    BY <1>1, <1>3
  <2> QED
    BY <2>1
<1>4. CASE other = Append(cols, [name |-> "extra", type |-> Plain("Int"), nullable |-> TRUE])
  BY <1>2, <1>4
<1>5. CASE /\ Len(cols) > 1
           /\ \/ other = SubSeq(cols, 1, Len(cols) - 1)
              \/ other = <<cols[2], cols[1]>> \o SubSeq(cols, 3, Len(cols))
  <2>1. Len(cols) \in Nat /\ cols[1] \in LiveColumns /\ cols[2] \in LiveColumns
    BY <1>5
  <2>2. SubSeq(cols, 1, Len(cols) - 1) \in Seq(LiveColumns)
    BY <1>5, <2>1
  <2>3. SubSeq(cols, 3, Len(cols)) \in Seq(LiveColumns)
    BY <1>5, <2>1
  <2>4. <<cols[2], cols[1]>> \in Seq(LiveColumns)
    BY <2>1
  <2>5. <<cols[2], cols[1]>> \o SubSeq(cols, 3, Len(cols)) \in Seq(LiveColumns)
    BY <2>3, <2>4
  <2> QED
    BY <1>5, <2>2, <2>5
<1> DEFINE Changed == UNION {{[cols EXCEPT ![i] = c] : c \in Changes(cols[i])} :
                                i \in DOMAIN cols}
           Grown == Append(cols, [name |-> "extra", type |-> Plain("Int"), nullable |-> TRUE])
           Shrunk == SubSeq(cols, 1, Len(cols) - 1)
           Swapped == <<cols[2], cols[1]>> \o SubSeq(cols, 3, Len(cols))
<1>6. Altered(cols)
         = Changed \cup {Grown} \cup (IF Len(cols) > 1 THEN {Shrunk, Swapped} ELSE {})
  BY DEF Altered
<1>7. other \in Changed =>
         \E i \in DOMAIN cols : \E c \in Changes(cols[i]) : other = [cols EXCEPT ![i] = c]
  BY Zenon
<1> HIDE DEF Changed, Grown, Shrunk, Swapped
<1>8. other \in Changed \/ other = Grown \/ (Len(cols) > 1 /\ other \in {Shrunk, Swapped})
  BY <1>6
<1> QED
  BY <1>3, <1>4, <1>5, <1>7, <1>8 DEF Grown, Shrunk, Swapped

LEMMA AlterInv == IInv /\ Alter => IInv'
<1> SUFFICES ASSUME IInv, Alter PROVE IInv'
  OBVIOUS
<1> USE DEF IInv
<1>1. /\ UNCHANGED planVars /\ pc' = pc /\ pc \in Opening /\ columns' = columns
      /\ mappings' = mappings /\ backend' = backend /\ encodings' = encodings
      /\ table' \in Altered(table) /\ alterations' = alterations + 1
  BY DEF Alter, planVars, Opening
<1>2. PlanningInv' /\ LiveColumns' = LiveColumns
  BY <1>1, PlanKept DEF Opening
<1>3. table' \in Seq(LiveColumns)
  BY <1>1, AlteredColumns DEF TableInv
<1>4. alterations' \in Nat /\ alterations' # 0
  BY <1>1 DEF TableInv
<1>5. TableInv'
  BY <1>1, <1>2, <1>3, <1>4 DEF TableInv, Opening
<1>6. ColumnsFaults' = ColumnsFaults /\ TypesFaults' = TypesFaults
  BY <1>1 DEF ColumnsFaults, TypesFaults, CountFaults, Shared
<1>7. WriterInv'
  BY <1>1, <1>6 DEF WriterInv
<1> QED
  BY <1>2, <1>4, <1>5, <1>7 DEF OwnTableIsAccepted

LEMMA NewStateInv == ASSUME NEW b \in Backends PROVE IInv /\ NewState(b) => IInv'
<1> SUFFICES ASSUME IInv, NewState(b) PROVE IInv'
  OBVIOUS
<1> USE DEF IInv
<1>1. /\ UNCHANGED planVars /\ pc = "ready" /\ columns' = columns /\ table' = table
      /\ mappings' = mappings /\ alterations' = alterations
      /\ pc' \in {"unsupported", "resolved"}
      /\ backend' \in DirectBackends => encodings' = DirectPlan(mappings)
      /\ pc' = "resolved" /\ backend' \in DirectBackends => UnsupportedIn(mappings) = {}
  BY DEF NewState, planVars
<1>2. PlanningInv' /\ LiveColumns' = LiveColumns
  BY <1>1, PlanKept
<1>3. TableInv'
  BY <1>1, <1>2 DEF TableInv, Opening, CreateTableColumns
<1>4. DirectPlan(mappings)' = DirectPlan(mappings)
      /\ UnsupportedIn(mappings)' = UnsupportedIn(mappings)
  BY <1>1
<1>5. WriterInv'
  BY <1>1, <1>4 DEF WriterInv
<1> QED
  BY <1>1, <1>2, <1>3, <1>5 DEF OwnTableIsAccepted

LEMMA DescribeInv == IInv /\ Describe => IInv'
<1> SUFFICES ASSUME IInv, Describe PROVE IInv'
  OBVIOUS
<1> USE DEF IInv
<1>1. /\ UNCHANGED planVars /\ pc = "resolved" /\ table' = table /\ backend' = backend
      /\ mappings' = mappings /\ alterations' = alterations /\ encodings' = encodings
      /\ \/ pc' = "described" /\ columns' = table
         \/ pc' = "failed" /\ columns' = columns
  BY DEF Describe, planVars
<1>2. PlanningInv' /\ LiveColumns' = LiveColumns
  BY <1>1, PlanKept
<1>3. TableInv'
  BY <1>1, <1>2 DEF TableInv, Opening
<1>4. WriterInv'
  BY <1>1 DEF WriterInv
<1> QED
  BY <1>1, <1>2, <1>3, <1>4 DEF OwnTableIsAccepted

-----------------------------------------------------------------------------
(* So do validation and the request *)

\* An encoding of the plan writes the planned type, which the server has.
LEMMA EncodedTypes ==
    ASSUME PlanningInv, NEW i \in DOMAIN mappings
    PROVE  /\ mappings[i].nullable \in BOOLEAN
           /\ ServerType(mappings[i].type) /\ mappings[i].type.kind # "Numeric"
           /\ UnsupportedIn(mappings) = {} =>
                 DirectPlan(mappings)[i].to = mappings[i].type
<1> DEFINE m == mappings[i]
<1>1. m \in PlannedMappings
  BY LengthFacts
<1>2. /\ m.nullable \in BOOLEAN
      /\ ArrowTypeOK(m.arrow) /\ OptionsOK(options) /\ PlannedAs(m.arrow, m.type, options)
  <2> HIDE DEF m
  <2> QED
    BY <1>1, PlannedFacts
<1>3. ServerType(m.type) /\ m.type.kind # "Numeric"
  BY <1>2, ServerTypes
<1>4. SupportMapping(m) = Unsupported \/ SupportMapping(m).to = m.type
  BY <1>2, OneEncoding
<1>5. UnsupportedIn(mappings) = {} => SupportMapping(m) # Unsupported
  BY DEF UnsupportedIn
<1>6. DirectPlan(mappings)[i] = SupportMapping(m)
  BY DEF DirectPlan
<1> QED
  BY <1>2, <1>3, <1>4, <1>5, <1>6

LEMMA OwnColumnsPass ==
    ASSUME PlanningInv, columns = CreateTableColumns(mappings)
    PROVE  ColumnsFaults = {}
<1>1. /\ Len(columns) = Len(mappings) /\ Len(mappings) \in Nat
      /\ Shared = DOMAIN mappings
  BY RenderedColumns, LengthFacts DEF Shared
<1>2. ASSUME NEW i \in Shared
      PROVE  columns[i].name = mappings[i].name /\ columns[i].nullable = mappings[i].nullable
  <2>1. columns[i] = Column(mappings[i])
    BY <1>1, RenderedColumns
  <2> QED
    BY <2>1 DEF Column
<1> QED
  BY <1>1, <1>2 DEF ColumnsFaults, CountFaults

LEMMA OwnTypesPass ==
    ASSUME PlanningInv, columns = CreateTableColumns(mappings),
           encodings = DirectPlan(mappings), UnsupportedIn(mappings) = {}
    PROVE  TypesFaults = {}
<1>1. /\ Len(columns) = Len(mappings) /\ Len(mappings) \in Nat
      /\ Shared = DOMAIN mappings
  BY RenderedColumns, LengthFacts DEF Shared
<1>2. ASSUME NEW i \in Shared
      PROVE  /\ TypeAccepted(ReportedType(columns[i]),
                             ExpectedType(encodings[i], mappings[i].nullable))
             /\ PrecisionAccepted(columns[i], encodings[i])
  <2>1. i \in DOMAIN mappings
    BY <1>1
  <2>2. columns[i].type = mappings[i].type /\ columns[i].nullable = mappings[i].nullable
    <3>1. columns[i] = Column(mappings[i])
      BY <2>1, RenderedColumns
    <3> QED
      BY <3>1 DEF Column
  <2>3. encodings[i].to = columns[i].type
    BY <2>1, <2>2, EncodedTypes
  <2>4. TypeAccepted(ReportedType(columns[i]),
                     ExpectedType(encodings[i], mappings[i].nullable))
    BY <2>2, <2>3 DEF TypeAccepted, ReportedType, ExpectedType
  <2>5. PrecisionAccepted(columns[i], encodings[i])
    BY <2>3 DEF PrecisionAccepted
  <2> QED
    BY <2>4, <2>5
<1> QED
  BY <1>1, <1>2 DEF TypesFaults, CountFaults

LEMMA ValidateInv == IInv /\ Validate => IInv'
<1> SUFFICES ASSUME IInv, Validate PROVE IInv'
  OBVIOUS
<1> USE DEF IInv
<1>1. /\ UNCHANGED planVars /\ pc = "described" /\ table' = table /\ backend' = backend
      /\ mappings' = mappings /\ alterations' = alterations /\ encodings' = encodings
      /\ columns' = columns
      /\ faults' = IF ColumnsFaults # {} \/ backend \notin DirectBackends
                   THEN ColumnsFaults ELSE TypesFaults
      /\ pc' = IF faults' = {} THEN "validated" ELSE "rejected"
  BY DEF Validate, planVars
<1>2. PlanningInv' /\ LiveColumns' = LiveColumns
  BY <1>1, PlanKept
<1>3. TableInv'
  BY <1>1, <1>2 DEF TableInv, Opening
<1>4. ColumnsFaults' = ColumnsFaults /\ TypesFaults' = TypesFaults
  BY <1>1 DEF ColumnsFaults, TypesFaults, CountFaults, Shared
<1>5. WriterInv'
  BY <1>1, <1>4 DEF WriterInv
<1>6. ASSUME alterations = 0 PROVE faults' = {}
  <2>1. columns = CreateTableColumns(mappings)
    BY <1>1, <1>6 DEF TableInv, Opening
  <2>2. ColumnsFaults = {}
    BY <2>1, OwnColumnsPass
  <2>3. backend \in DirectBackends => TypesFaults = {}
    BY <1>1, <2>1, OwnTypesPass DEF WriterInv
  <2> QED
    BY <1>1, <2>2, <2>3
<1>7. OwnTableIsAccepted'
  BY <1>1, <1>6 DEF OwnTableIsAccepted
<1> QED
  BY <1>2, <1>3, <1>5, <1>7

LEMMA OpenInv == IInv /\ Open => IInv'
<1> SUFFICES ASSUME IInv, Open PROVE IInv'
  OBVIOUS
<1> USE DEF IInv
<1>1. /\ UNCHANGED planVars /\ pc = "validated" /\ table' = table /\ backend' = backend
      /\ mappings' = mappings /\ alterations' = alterations /\ encodings' = encodings
      /\ columns' = columns /\ pc' \in {"open", "failed"}
  BY DEF Open, planVars
<1>2. PlanningInv' /\ LiveColumns' = LiveColumns
  BY <1>1, PlanKept
<1>3. TableInv'
  BY <1>1, <1>2 DEF TableInv, Opening
<1>4. ColumnsFaults' = ColumnsFaults /\ TypesFaults' = TypesFaults
  BY <1>1 DEF ColumnsFaults, TypesFaults, CountFaults, Shared
<1>5. WriterInv'
  BY <1>1, <1>4 DEF WriterInv
<1> QED
  BY <1>1, <1>2, <1>3, <1>5 DEF OwnTableIsAccepted

LEMMA StutterInv == IInv /\ UNCHANGED vars => IInv'
<1> SUFFICES ASSUME IInv, UNCHANGED vars PROVE IInv'
  OBVIOUS
<1>1. /\ schema' = schema /\ options' = options /\ mappings' = mappings
      /\ diagnostics' = diagnostics /\ pc' = pc /\ table' = table /\ columns' = columns
      /\ alterations' = alterations /\ backend' = backend /\ encodings' = encodings
  BY DEF vars, planVars
<1>2. /\ PlannedMappings' = PlannedMappings /\ Refusals' = Refusals
      /\ LiveColumns' = LiveColumns /\ NextField' = NextField
      /\ ColumnsFaults' = ColumnsFaults /\ TypesFaults' = TypesFaults
  BY <1>1 DEF PlannedMappings, Refusals, LiveColumns, Plan, NextField, ColumnsFaults,
              TypesFaults, CountFaults, Shared
<1>3. \A f : Plan(f)' = Plan(f)
  BY <1>1 DEF Plan
<1>4. PlanningInv'
  BY <1>1, <1>2, <1>3 DEF IInv, PlanningInv
<1>5. TableInv'
  BY <1>1, <1>2 DEF IInv, TableInv
<1>6. WriterInv' /\ OwnTableIsAccepted'
  BY <1>1, <1>2 DEF IInv, WriterInv, OwnTableIsAccepted
<1> QED
  BY <1>4, <1>5, <1>6 DEF IInv

\* The invariant holds in every reachable state.
THEOREM Invariance == Spec => []IInv
<1>1. Init => IInv
  BY InitInv
<1>2. IInv /\ [Next]_vars => IInv'
  BY PlanNextFieldInv, PlanReturnsInv, CreateTableInv, AlterInv, NewStateInv, DescribeInv,
     ValidateInv, OpenInv, StutterInv DEF Next, Done
<1> QED
  BY <1>1, <1>2, PTL DEF Spec

-----------------------------------------------------------------------------
(* The properties *)

LEMMA IInvOpenFollows == IInv => OpenLoadFollowsThePlan
<1> SUFFICES ASSUME IInv, pc = "open"
             PROVE  /\ Len(columns) = Len(mappings)
                    /\ \A i \in DOMAIN mappings :
                         /\ columns[i].name = mappings[i].name
                         /\ columns[i].nullable = mappings[i].nullable
                         /\ backend \in DirectBackends =>
                              /\ columns[i].type.kind = mappings[i].type.kind
                              /\ SameLength(i) => /\ columns[i].type = mappings[i].type
                                                  /\ WrittenFraming(i) = DeclaredFraming(i)
  BY DEF OpenLoadFollowsThePlan
<1> USE DEF IInv
<1>1. ColumnsFaults = {} /\ (backend \in DirectBackends => TypesFaults = {})
  BY DEF WriterInv
<1>2. Len(columns) = Len(mappings)
  BY <1>1 DEF ColumnsFaults, CountFaults
<1>3. Shared = DOMAIN mappings
  BY <1>2, LengthFacts DEF Shared
<1>4. \A i \in DOMAIN mappings : /\ columns[i].name = mappings[i].name
                                 /\ columns[i].nullable = mappings[i].nullable
  BY <1>1, <1>3 DEF ColumnsFaults
<1>5. ASSUME NEW i \in DOMAIN mappings, backend \in DirectBackends
      PROVE  /\ columns[i].type.kind = mappings[i].type.kind
             /\ SameLength(i) => /\ columns[i].type = mappings[i].type
                                 /\ WrittenFraming(i) = DeclaredFraming(i)
  <2> DEFINE live == columns[i].type
             plan == mappings[i].type
             nullable == mappings[i].nullable
  <2>1. /\ TypeAccepted(ReportedType(columns[i]), ExpectedType(encodings[i], nullable))
        /\ PrecisionAccepted(columns[i], encodings[i])
    BY <1>1, <1>3, <1>5 DEF TypesFaults
  <2>2. encodings[i].to = plan /\ ServerType(plan) /\ plan.kind # "Numeric"
        /\ nullable \in BOOLEAN
    BY <1>5, EncodedTypes DEF WriterInv
  <2>3. columns[i].nullable = nullable
    BY <1>4
  <2>4. ServerType(live)
    <3>1. i \in DOMAIN columns
      BY <1>2, LengthFacts DEF TableInv
    <3>2. columns[i] \in LiveColumns
      BY <3>1 DEF TableInv
    <3>3. live \in {m.type : m \in PlannedMappings} \cup StrayTypes \cup {Plain("Int")}
      BY <3>2 DEF LiveColumns
    <3>4. ASSUME NEW m \in PlannedMappings PROVE ServerType(m.type)
      BY PlannedFacts, ServerTypes
    <3>5. \A t \in StrayTypes : ServerType(t)
      BY TargetTableAssumption
    <3>6. ServerType(Plain("Int"))
      BY DEF Plain, SqlType, ServerType
    <3> QED
      BY <3>3, <3>4, <3>5, <3>6
  <2> HIDE DEF live, plan, nullable
  <2>5. /\ live.kind \notin {"Bitn", "Datetime", "Datetimen"}
        /\ plan.kind \notin {"Bitn", "Datetime", "Datetimen"}
    BY <2>2, <2>4 DEF ServerType
  <2>6. live.kind = plan.kind
    <3>1. ReportedType(columns[i]) =
            CASE live.kind = "Bit" -> IF nullable THEN "Bitn" ELSE "Bit"
              [] live.kind = "DateTime" -> IF nullable THEN "Datetimen" ELSE "Datetime"
              [] OTHER -> live.kind
      BY <2>3 DEF ReportedType, live
    <3>2. ExpectedType(encodings[i], nullable) =
            CASE plan.kind = "Bit" -> IF nullable THEN "Bitn" ELSE "Bit"
              [] plan.kind = "DateTime" -> "Datetimen"
              [] OTHER -> plan.kind
      BY <2>2 DEF ExpectedType
    <3> QED
      BY <2>1, <2>5, <3>1, <3>2 DEF TypeAccepted
  <2>7. ASSUME live.p = plan.p PROVE live = plan
    <3>1. live.s = plan.s
      <4>1. CASE plan.kind = "Decimal"
        BY <2>1, <2>2, <4>1 DEF PrecisionAccepted, live
      <4>2. CASE plan.kind # "Decimal"
        BY <2>2, <2>4, <2>6, <4>2 DEF ServerType
      <4> QED
        BY <4>1, <4>2
    <3>2. live = SqlType(live.kind, live.p, live.s) /\ plan = SqlType(plan.kind, plan.p, plan.s)
      BY <2>2, <2>4 DEF ServerType
    <3> QED
      BY <2>6, <2>7, <3>1, <3>2
  <2>8. SameLength(i) => live = plan
    BY <2>2, <2>7 DEF SameLength, live
  <2>9. live = plan => WrittenFraming(i) = DeclaredFraming(i)
    BY <2>2, <2>3 DEF WrittenFraming, DeclaredFraming, live, nullable
  <2> QED
    BY <2>6, <2>8, <2>9 DEF live, plan
<1> QED
  BY <1>2, <1>4, <1>5

LEMMA IInvAllOrNothing == IInv => PlanIsAllOrNothing
<1> SUFFICES ASSUME IInv PROVE PlanIsAllOrNothing
  OBVIOUS
<1> USE DEF IInv
<1>1. Len(schema) \in Nat /\ DOMAIN schema = 1..Len(schema)
  BY SchemaFacts DEF PlanningInv
<1>2. ASSUME pc = "refused"
      PROVE  /\ {diagnostics[i].field : i \in DOMAIN diagnostics}
                  = {f \in DOMAIN schema : PlanField(schema[f], options).code # "ok"}
             /\ \A i, j \in DOMAIN diagnostics :
                  i < j => diagnostics[i].field < diagnostics[j].field
  <2>1. ASSUME NEW i \in DOMAIN diagnostics
        PROVE  /\ diagnostics[i].field \in DOMAIN schema
               /\ PlanField(schema[diagnostics[i].field], options).code # "ok"
    <3>1. diagnostics[i] \in Refusals
      BY LengthFacts
    <3> QED
      BY <3>1 DEF Refusals, Plan
  <2>2. ASSUME NEW f \in DOMAIN schema, PlanField(schema[f], options).code # "ok"
        PROVE  \E i \in DOMAIN diagnostics : diagnostics[i].field = f
    <3>1. f < NextField
      BY <1>1, <1>2 DEF PlanningInv
    <3> QED
      BY <2>2, <3>1, LengthFacts DEF PlanningInv, Plan
  <2>3. \A i, j \in DOMAIN diagnostics : i < j => diagnostics[i].field < diagnostics[j].field
    BY LengthFacts DEF PlanningInv
  <2> QED
    BY <2>1, <2>2, <2>3
<1>3. ASSUME pc \notin {"planning", "refused"}
      PROVE  /\ Len(mappings) = Len(schema)
             /\ \A i \in DOMAIN schema : /\ mappings[i].index = i
                                         /\ mappings[i].name = schema[i].name.text
                                         /\ mappings[i].nullable = schema[i].nullable
                                         /\ mappings[i].arrow = schema[i].type
  <2>1. diagnostics = <<>> /\ Len(mappings) + Len(diagnostics) + 1 = Len(schema) + 1
    BY <1>3 DEF PlanningInv, NextField
  <2>2. Len(mappings) = Len(schema)
    <3>1. Len(diagnostics) = 0
      BY <2>1
    <3>2. Len(mappings) \in Nat
      BY LengthFacts
    <3>3. Len(mappings) + Len(diagnostics) + 1 = Len(schema) + 1
      BY <2>1
    <3> QED
      BY ONLY <3>1, <3>2, <3>3, <1>1
  <2>3. ASSUME NEW i \in DOMAIN schema
        PROVE  /\ mappings[i].index = i /\ mappings[i].name = schema[i].name.text
               /\ mappings[i].nullable = schema[i].nullable
               /\ mappings[i].arrow = schema[i].type
    <3>1. i \in 1..Len(mappings) /\ mappings[i] \in PlannedMappings
      BY <1>1, <2>2, LengthFacts
    <3>2. mappings[i].index = i
      BY <2>1, <3>1 DEF PlanningInv
    <3> DEFINE m == mappings[i]
    <3> HIDE DEF m
    <3>3. m \in PlannedMappings
      BY <3>1 DEF m
    <3>4. /\ m.name = schema[m.index].name.text /\ m.nullable = schema[m.index].nullable
          /\ m.arrow = schema[m.index].type
      BY <3>3, PlannedFacts
    <3> QED
      BY <3>2, <3>4 DEF m
  <2> QED
    BY <2>2, <2>3
<1> QED
  BY <1>2, <1>3 DEF PlanIsAllOrNothing

LEMMA IInvHoldSources == IInv => PlannedTypesHoldTheirSources
<1> SUFFICES ASSUME IInv, NEW i \in DOMAIN mappings
             PROVE  HoldsItsSource(mappings[i].arrow, mappings[i].type)
  BY DEF PlannedTypesHoldTheirSources, HoldsItsSource
<1> DEFINE m == mappings[i]
<1>1. m \in PlannedMappings
  BY LengthFacts DEF IInv
<1> HIDE DEF m
<1>2. ArrowTypeOK(m.arrow) /\ OptionsOK(options) /\ PlannedAs(m.arrow, m.type, options)
  BY <1>1, PlannedFacts DEF IInv
<1>3. HoldsItsSource(m.arrow, m.type)
  BY <1>2, WideTypes
<1> QED
  BY <1>3 DEF m

LEMMA IInvOneEncoding == IInv => OneEncodingPerMapping
<1> SUFFICES ASSUME IInv, NEW i \in DOMAIN mappings
             PROVE  /\ Takers(mappings[i])
                          = {SupportMapping(mappings[i]).family} \ {"Unsupported"}
                    /\ Takers(mappings[i]) = {} => mappings[i].type.s = 38
  BY DEF OneEncodingPerMapping
<1> DEFINE m == mappings[i]
<1>1. m \in PlannedMappings
  BY LengthFacts DEF IInv
<1> HIDE DEF m
<1>2. ArrowTypeOK(m.arrow) /\ OptionsOK(options) /\ PlannedAs(m.arrow, m.type, options)
  BY <1>1, PlannedFacts DEF IInv
<1>3. /\ Takers(m) = {SupportMapping(m).family} \ {"Unsupported"}
      /\ Takers(m) = {} => m.type.s = 38
  BY <1>2, OneEncoding
<1> QED
  BY <1>3 DEF m

LEMMA IInvStorable == IInv => RenderedTableIsStorable
<1> SUFFICES ASSUME IInv, pc = "unstorable", schema # <<>>, PolicyLengthFits,
                    \A i, j \in DOMAIN schema :
                       schema[i].name.text = schema[j].name.text => i = j
             PROVE  FALSE
  BY DEF RenderedTableIsStorable
<1> USE DEF IInv
<1> DEFINE cols == CreateTableColumns(mappings)
<1>1. /\ Len(schema) \in Nat /\ DOMAIN schema = 1..Len(schema)
      /\ schema \in Seq({schema[f] : f \in DOMAIN schema})
  BY SchemaFacts DEF PlanningInv
<1>2. /\ Len(mappings) = Len(schema)
      /\ \A i \in DOMAIN schema : /\ mappings[i].name = schema[i].name.text
                                  /\ mappings[i].index = i
  BY IInvAllOrNothing DEF PlanIsAllOrNothing
<1>3. /\ cols \in Seq(LiveColumns) /\ Len(cols) = Len(schema)
      /\ DOMAIN cols = DOMAIN schema /\ DOMAIN mappings = DOMAIN schema
      /\ \A i \in DOMAIN schema : cols[i] = Column(mappings[i])
  BY <1>1, <1>2, RenderedColumns, LengthFacts
<1> HIDE DEF cols
<1>4. ~Storable(cols)
  BY DEF TableInv, cols
<1>5. cols # <<>>
  BY <1>1, <1>3
<1>6. ASSUME NEW i \in DOMAIN schema PROVE StorableType(cols[i].type)
  <2> DEFINE m == mappings[i]
  <2>1. m \in PlannedMappings /\ cols[i].type = m.type
    BY <1>3, LengthFacts DEF Column
  <2> HIDE DEF m
  <2>2. /\ ArrowTypeOK(m.arrow) /\ OptionsOK(options) /\ PlannedAs(m.arrow, m.type, options)
    BY <2>1, PlannedFacts
  <2>3. LengthFits(options.string, 4000) /\ LengthFits(options.binary, 8000)
    BY DEF PolicyLengthFits
  <2>4. StorableType(m.type)
    BY <2>2, <2>3, StorableTypes
  <2> QED
    BY <2>1, <2>4
<1>7. ASSUME NEW i \in DOMAIN schema, NEW j \in DOMAIN schema, cols[i].name = cols[j].name
      PROVE  i = j
  <2>1. cols[i] = Column(mappings[i]) /\ cols[j] = Column(mappings[j])
    BY <1>3
  <2>2. cols[i].name = mappings[i].name /\ cols[j].name = mappings[j].name
    BY <2>1 DEF Column
  <2>3. schema[i].name.text = schema[j].name.text
    BY <1>2, <1>7, <2>2
  <2> QED
    BY <2>3
<1> QED
  BY <1>3, <1>4, <1>5, <1>6, <1>7 DEF Storable

\* Every plan is sound: all fields or the diagnostics of all bad ones, types
\* that hold what their columns carry, a table SQL Server can make, and one
\* encoding for each column (plan_arrow_schema_to_mssql_schema_inner,
\* plan_arrow_data_type_as_mssql_type, CurrentDirectMappings::support_mapping).
THEOREM PlansAreSound == Spec => []PlanIsSound
<1>1. IInv => PlanIsSound
  BY IInvAllOrNothing, IInvHoldSources, IInvStorable, IInvOneEncoding DEF PlanIsSound
<1> QED
  BY <1>1, Invariance, PTL

\* BulkWriter::new never rejects the table the plan's own CREATE TABLE made,
\* on any backend, as long as nobody altered it.
THEOREM OwnTablesAreAccepted == Spec => []OwnTableIsAccepted
<1>1. IInv => OwnTableIsAccepted
  BY DEF IInv
<1> QED
  BY <1>1, Invariance, PTL

\* However often other sessions alter the table between the round trips of
\* BulkWriter::new, the load it opens declares the columns of the plan, and a
\* direct backend frames each cell as declared where the length is the planned
\* one: the check and the request use the same columns.
THEOREM OpenLoadsFollowThePlan == Spec => []OpenLoadFollowsThePlan
<1> QED
  BY IInvOpenFollows, Invariance, PTL
=============================================================================
