---------------------------- MODULE SchemaPlan ----------------------------
(***************************************************************************)
(* From an Arrow schema to SQL Server columns (src/schema), and from the   *)
(* planned columns to direct encodings (src/conversion/arrow_to_mssql and  *)
(* src/write/direct/plan.rs).  Everything here is a pure function of its   *)
(* arguments, as in the code.                                              *)
(*                                                                         *)
(* An Arrow type is [kind, p, s, zone]: p is a decimal's precision, a      *)
(* fixed width or the fraction digits of a time unit, s a decimal's scale, *)
(* zone the time zone of a timestamp.  A SQL Server type is [kind, p, s]:  *)
(* p is a precision or a length, MaxLength for the max types.              *)
(***************************************************************************)
EXTENDS Integers, Sequences

MaxIdentifierChars == 128
MaxDecimalPrecision == 38
MaxBinaryLen == 8000
MaxU8 == 255
MaxLength == -1

SqlType(kind, p, s) == [kind |-> kind, p |-> p, s |-> s]
Plain(kind) == SqlType(kind, 0, 0)
NoType == Plain("none")

Planned(type) == [code |-> "ok", type |-> type]
Refused(code) == [code |-> code, type |-> NoType]

-----------------------------------------------------------------------------
(* The type table: plan_arrow_data_type_as_mssql_type *)

PlainTargets ==
    [Boolean |-> Plain("Bit"), UInt8 |-> Plain("TinyInt"),
     Int8 |-> Plain("SmallInt"), Int16 |-> Plain("SmallInt"),
     Int32 |-> Plain("Int"), UInt16 |-> Plain("Int"),
     Int64 |-> Plain("BigInt"), UInt32 |-> Plain("BigInt"),
     Float16 |-> Plain("Real"), Float32 |-> Plain("Real"),
     Float64 |-> SqlType("Float", 53, 0), Date32 |-> Plain("Date")]

StringFamily == {"Utf8", "LargeUtf8", "Utf8View"}
BinaryFamily == {"Binary", "LargeBinary", "BinaryView"}
NarrowDecimals == {"Decimal32", "Decimal64", "Decimal128"}
Decimals == NarrowDecimals \cup {"Decimal256"}
TimeKinds == {"Time32", "Time64"}

PlanUInt64(o) ==
    CASE o.uint64 = "Reject" -> Refused("ProfileDependentConversion")
      [] o.uint64 = "Decimal20_0" -> Planned(SqlType("Decimal", 20, 0))
      [] o.uint64 = "CheckedBigInt" -> Planned(Plain("BigInt"))

\* A policy is [kind, n]; a bounded length is taken as the caller gave it.
PlanVariable(policy, target) ==
    CASE policy.kind = "Max" -> Planned(SqlType(target, MaxLength, 0))
      [] policy.kind = "Bounded" -> Planned(SqlType(target, policy.n, 0))
      [] policy.kind = "Observed" -> Refused("ObservedDataRequired")
PlanString(o) == PlanVariable(o.string, "NVarChar")
PlanBinary(o) == PlanVariable(o.binary, "VarBinary")

PlanFixedSizeBinary(a) ==
    IF a.p \in 1..MaxBinaryLen THEN Planned(SqlType("Binary", a.p, 0))
                               ELSE Refused("UnsupportedArrowType")

\* normalize_arrow_decimal_shape, without its checks of the source: a negative
\* scale becomes trailing zeros of the integral part.
NormalPrecisionKept(a) == a.p
NormalPrecision(a) == IF a.s < 0 THEN a.p - a.s ELSE a.p
NormalScale(a) == IF a.s < 0 THEN 0 ELSE a.s
NormalizeDecimalShape(a, o) ==
    CASE a.p = 0 -> Refused("DecimalOutOfRange")
      [] a.p # 0 /\ a.s < 0 /\ o.decimal = "RejectNegativeScale" ->
            Refused("ProfileDependentConversion")
      [] OTHER -> IF NormalPrecision(a) <= MaxU8
                     /\ NormalPrecision(a) <= MaxDecimalPrecision
                     /\ NormalScale(a) <= NormalPrecision(a)
                  THEN Planned(SqlType("Decimal", NormalPrecision(a), NormalScale(a)))
                  ELSE Refused("DecimalOutOfRange")
PlanDecimal256(a, o) ==
    IF o.decimal256 = "Reject" THEN Refused("ProfileDependentConversion")
                               ELSE NormalizeDecimalShape(a, o)

PlanDate64(o) ==
    IF o.date64 = "RejectNonMidnight" THEN Refused("ObservedDataRequired")
                                      ELSE Planned(SqlType("DateTime2", 3, 0))

\* Nanoseconds are nine digits, SQL Server times have seven.
TimeDigits(a) == IF a.p > 7 THEN 7 ELSE a.p

HasZone(a) == a.zone = "named"      \* "none" and "empty" are timezone-free
PlanTimestampPolicy(o) ==
    CASE o.timestamp.kind = "DateTime" -> Planned(Plain("DateTime"))
      [] o.timestamp.kind = "DateTime2" ->
            IF o.timestamp.n <= 7 THEN Planned(SqlType("DateTime2", o.timestamp.n, 0))
                                  ELSE Refused("ProfileDependentConversion")
PlanTimestamp(a, o) ==
    CASE HasZone(a) /\ o.timezone = "Reject" -> Refused("ProfileDependentConversion")
      [] HasZone(a) /\ o.timezone = "DateTimeOffset" ->
            Planned(SqlType("DateTimeOffset", 7, 0))
      [] OTHER -> PlanTimestampPolicy(o)

PlanType(a, o) ==
    CASE a.kind \in DOMAIN PlainTargets -> Planned(PlainTargets[a.kind])
      [] a.kind = "UInt64" -> PlanUInt64(o)
      [] a.kind \in StringFamily -> PlanString(o)
      [] a.kind \in BinaryFamily -> PlanBinary(o)
      [] a.kind = "FixedSizeBinary" -> PlanFixedSizeBinary(a)
      [] a.kind \in NarrowDecimals -> NormalizeDecimalShape(a, o)
      [] a.kind = "Decimal256" -> PlanDecimal256(a, o)
      [] a.kind = "Date64" -> PlanDate64(o)
      [] a.kind \in TimeKinds -> Planned(SqlType("Time", TimeDigits(a), 0))
      [] a.kind = "Timestamp" -> PlanTimestamp(a, o)
      [] OTHER -> Refused("UnsupportedArrowType")

-----------------------------------------------------------------------------
(* Identifiers and columns *)

\* A name is [text, chars, control]: its text as a whole, its length, and
\* whether it holds a control character.
IdentifierFits(name) == /\ name.chars # 0
                        /\ ~name.control
                        /\ name.chars <= MaxIdentifierChars

\* plan_arrow_field_to_mssql_column_mapping: the name first, then the type.
PlanField(field, o) == IF IdentifierFits(field.name) THEN PlanType(field.type, o)
                                                     ELSE Refused("IdentifierInvalid")

Mapping(index, field, type) ==
    [index |-> index, arrow |-> field.type,
     name |-> field.name.text, type |-> type, nullable |-> field.nullable]

\* create_table_sql_from_mappings, as the columns its statement names.
Column(m) == [name |-> m.name, type |-> m.type, nullable |-> m.nullable]
CreateTableColumns(mappings) == [i \in DOMAIN mappings |-> Column(mappings[i])]

-----------------------------------------------------------------------------
(* Classification of a mapping, and the choice of a direct encoding *)

Encoding(family, m) == [family |-> family, from |-> m.arrow.kind, to |-> m.type]
Unsupported == [family |-> "Unsupported", from |-> "none", to |-> NoType]

IsPrimitive(m) ==
    \/ /\ m.arrow.kind \in DOMAIN PlainTargets \ {"Date32"}
       /\ m.type = PlainTargets[m.arrow.kind]
    \/ m.arrow.kind = "UInt64" /\ m.type.kind = "BigInt"

\* DecimalArrowToMssql::classify: Tiberius' Numeric has no scale of 38.
IsDecimal(m) == /\ m.type.kind = "Decimal" /\ m.arrow.kind \in Decimals
                /\ m.type.s < 38 /\ m.type.s = NormalScale(m.arrow)

UInt64Target(m) ==
    CASE m.arrow.kind = "UInt64" /\ m.type.kind = "BigInt" -> "CheckedBigInt"
      [] m.arrow.kind = "UInt64" /\ m.type = SqlType("Decimal", 20, 0) -> "Decimal20_0"
      [] OTHER -> "none"

IsVariableWidth(m) ==
    \/ m.arrow.kind \in StringFamily /\ m.type.kind = "NVarChar"
    \/ m.arrow.kind \in BinaryFamily /\ m.type.kind = "VarBinary"

IsFixedSizeBinary(m) == /\ m.arrow.kind = "FixedSizeBinary" /\ m.type.kind = "Binary"
                        /\ m.arrow.p = m.type.p

IsTimestamp(m) ==
    /\ m.arrow.kind = "Timestamp"
    /\ \/ m.type.kind = "DateTime2" /\ m.type.p <= 7
       \/ m.type.kind = "DateTime"
       \/ HasZone(m.arrow) /\ m.type = SqlType("DateTimeOffset", 7, 0)
IsTemporal(m) ==
    \/ m.arrow.kind = "Date32" /\ m.type.kind = "Date"
    \/ m.arrow.kind = "Date64" /\ m.type = SqlType("DateTime2", 3, 0)
    \/ m.arrow.kind \in TimeKinds /\ m.type = SqlType("Time", TimeDigits(m.arrow), 0)
    \/ IsTimestamp(m)

\* CurrentDirectMappings::support_mapping: the first classifier that takes it.
SupportMapping(m) ==
    CASE IsPrimitive(m) -> Encoding("Primitive", m)
      [] ~IsPrimitive(m) /\ IsDecimal(m) -> Encoding("Decimal", m)
      [] OTHER ->
            CASE UInt64Target(m) = "Decimal20_0" -> Encoding("UInt64Decimal20_0", m)
              [] UInt64Target(m) = "CheckedBigInt" -> Encoding("Primitive", m)
              [] OTHER ->
                    CASE IsVariableWidth(m) -> Encoding("VariableWidth", m)
                      [] IsFixedSizeBinary(m) -> Encoding("FixedSizeBinary", m)
                      [] IsTemporal(m) -> Encoding("Temporal", m)
                      [] OTHER -> Unsupported

\* DirectEncoderPlan::new names every mapping without an encoding.
UnsupportedIn(mappings) == {i \in DOMAIN mappings : SupportMapping(mappings[i]) = Unsupported}
DirectPlan(mappings) == [i \in DOMAIN mappings |-> SupportMapping(mappings[i])]
=============================================================================
