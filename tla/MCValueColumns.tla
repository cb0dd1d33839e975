--------------------------- MODULE MCValueColumns ---------------------------
(***************************************************************************)
(* Columns of every family through both backends: TemporalColumn with a    *)
(* scaled calendar, NumericColumn with scaled digits and bytes, TextColumn *)
(* with scaled prefixes.  The three families share no value; a behaviour   *)
(* is that of one column of one of them, in the variables they share.      *)
(***************************************************************************)
EXTENDS Integers, Sequences

\* The constants of TemporalColumn.
CONSTANTS Base, MilliScale, MicroScale, TickScale, NanoScale,
          SecondsPerMinute, MinutesPerHour, SecondsPerDay, EpochDays, MaxDays,
          DateTimeEpochDays, DateTimeMinDays, DateTimeMaxDays, FragmentsPerSecond,
          MaxOffsetMinutes, ShortTimeScale, MiddleTimeScale, FieldBytes,
          NamedOffsetSeconds(_, _), NamedSeconds,
          Mappings, TemporalColumns(_), TemporalPolicies(_), Roundings(_)

\* The constants of NumericColumn.
CONSTANTS NumberBytes, Ten, MaxPrecision, ScaleLimit, UInt64Digits,
          ShortDigits, MiddleDigits, LongDigits,
          NumericFields, NumericPolicies, NumericColumns(_)

\* The constants of TextColumn.
CONSTANTS TextBytes, MaxBinary, TextFields, TextPolicies, TextColumns(_, _)

VARIABLES family,    \* "temporal", "numeric" or "text"
          field,     \* what is planned: a field, of a temporal column its mapping
          policy, rounding,
          runtime,   \* the type of the batch's array
          column, target, tokens, encoding, lengths, filled, appended

vars == <<family, field, policy, rounding, runtime, column, target, tokens,
          encoding, lengths, filled, appended>>
Unused == "unused"

-----------------------------------------------------------------------------
(* Temporal: base 4 with scales 1, 2, 3 and 4, a day of 4 seconds, three   *)
(* days of dates and two of datetimes: every instant in and one second     *)
(* around the range.                                                       *)

NoZone == [kind |-> "none"]
Fixed(negative, hours, minutes) ==
    [kind |-> "fixed", negative |-> negative, hours |-> hours, minutes |-> minutes]
Zone(kind) == [kind |-> kind]
Named(name) == [kind |-> "named", name |-> name]

Temporal == INSTANCE TemporalColumn WITH
    ByteValues <- FieldBytes, Columns <- TemporalColumns, Policies <- TemporalPolicies,
    mapping <- field

\* A zone with one change of its offset, and one with an odd offset before it.
NamedOffset(name, second) ==
    CASE name = "changing" -> (IF second < -2 THEN 2 ELSE 0)
      [] name = "odd" -> (IF second < -2 THEN 1 ELSE -2)
      [] name = "wide" -> -4

Map(arrow, unit, zone, to, scale, nullable) ==
    [arrow |-> arrow, unit |-> unit, zone |-> zone, target |-> to,
     scale |-> scale, nullable |-> nullable]

Units == {"s", "ms", "us", "ns"}
OffsetZones == {Fixed(TRUE, 0, 1), Named("changing")}
OtherZones == {Zone("empty"), Zone("utc"), Zone("malformed"), Zone("unknown"),
               Fixed(FALSE, 0, 1), Fixed(FALSE, 0, 2), Fixed(FALSE, 1, 0), Named("odd"), Named("wide")}

KnownSeconds == -8 .. 6

EveryMapping ==
    {Map("date32", "day", NoZone, "date", 0, n) : n \in BOOLEAN}
    \cup {Map("date64", "ms", NoZone, "datetime2", 1, n) : n \in BOOLEAN}
    \cup {Map("time", u, NoZone, "time", p, FALSE) : u \in Units, p \in 0 .. 3}
    \cup {Map("timestamp", u, NoZone, "datetime", 0, n) : u \in Units, n \in BOOLEAN}
    \cup {Map("timestamp", u, NoZone, "datetime2", p, TRUE) : u \in Units, p \in 0 .. 3}
    \cup {Map("timestamp", u, z, "datetimeoffset", 3, TRUE) : u \in Units, z \in OffsetZones}
    \cup {Map("timestamp", u, z, t, 3, n) : u \in {"s", "ns"}, z \in OtherZones,
              t \in {"datetime", "datetime2", "datetimeoffset"}, n \in BOOLEAN}

\* Seconds from one before the first day to one after the last.
PerSecond(m) ==
    CASE m.unit \in {"day", "s"} -> 1 [] m.unit = "ms" -> 4
      [] m.unit = "us" -> 16 [] m.unit = "ns" -> 256
Everywhere(m) ==
    IF m.unit = "day" THEN -4 .. 3
    ELSE IF m.arrow = "time" THEN -2 .. 4 * PerSecond(m) + 1
    ELSE -9 * PerSecond(m) .. 5 * PerSecond(m)
Few(m) == {s * PerSecond(m) + d : s \in {-9, -8, -4, -3, -2, 0, 4}, d \in {-1, 0}}

Null == [kind |-> "null"]
Instant(n) == [kind |-> "value", n |-> n]
InstantColumns(m) ==
    {<<Instant(n), Null>> : n \in Few(m)} \cup {<<Null, Instant(n)>> : n \in Few(m)}
    \cup {<<Instant(n), Instant(n + 1)>> :
             n \in IF m.zone \in OtherZones THEN Few(m) ELSE Everywhere(m)}

NanosecondPolicies(m) == IF m.unit = "ns" THEN {"reject", "truncate", "round"} ELSE {"reject"}
DateTimeRoundings(m) == IF m.target = "datetime" THEN {"legacy", "modern"} ELSE {"modern"}

-----------------------------------------------------------------------------
(* Numeric: a byte of one bit, so that i128 has 16 of them, a u64 three    *)
(* decimal digits and a decimal at most four: 9999 is the largest.         *)

Numbers == INSTANCE NumericConversion WITH ByteValues <- NumberBytes

Numeric == INSTANCE NumericColumn WITH
    ByteValues <- NumberBytes, Fields <- NumericFields, PolicySet <- NumericPolicies,
    Columns <- NumericColumns, policies <- policy

DecimalNames == {"decimal32", "decimal64", "decimal128", "decimal256"}
PlainTypes == {"boolean", "int8", "int16", "int32", "int64", "uint8", "uint16", "uint32",
               "uint64", "float16", "float32", "float64"}

EveryNumericField ==
    {[arrow |-> Numbers!Plain(t), nullable |-> n] : t \in PlainTypes, n \in BOOLEAN}
    \cup {[arrow |-> Numbers!Type(d, p, s), nullable |-> n] :
             d \in DecimalNames, p \in 0 .. MaxPrecision + 1, s \in -3 .. MaxPrecision + 1, n \in {TRUE}}
    \cup {[arrow |-> Numbers!Type("decimal128", 2, s), nullable |-> FALSE] : s \in {-1, 0}}

EveryNumericPolicy ==
    [uint64 : {"reject", "decimal20_0", "checked_bigint"},
     decimal : {"normalize"}, decimal256 : {"checked_downcast"}]
    \cup [uint64 : {"reject"}, decimal : {"reject", "normalize"}, decimal256 : {"reject"}]

\* The powers of ten, the widths of the magnitudes and of i128, and around.
Boundaries == {0, 20000, 33, 328, 3277} \cup {10 ^ p : p \in 0 .. MaxPrecision}
              \cup {2 ^ b : b \in {3, 4, 7, 8, 12, 15}}
Around == {s * b + d : b \in Boundaries, s \in {-1, 1}, d \in -1 .. 1}

SignedBytes(name) ==
    CASE name = "int8" -> 1 [] name = "int16" -> 2
      [] name \in {"int32", "decimal32", "float16", "float32"} -> 4
      [] name \in {"int64", "decimal64", "float64"} -> 8 [] name = "decimal128" -> 16
Values(name) ==
    CASE name = "decimal256" -> Around
      [] name \in DecimalNames \ {"decimal256"} ->
             Around \cap Numbers!IntRange(SignedBytes(name))
      [] name = "boolean" -> {0, 1}
      [] name \in {"int8", "int16", "int32", "int64"} -> Numbers!IntRange(SignedBytes(name))
      [] name = "uint8" -> Numbers!UIntRange(1) [] name = "uint16" -> Numbers!UIntRange(2)
      [] name = "uint32" -> Numbers!UIntRange(4) [] name = "uint64" -> Numbers!UIntRange(8)
      [] name \in {"float16", "float32"} -> {-3, 0, 3} [] name = "float64" -> {-9, 0, 9}

BoundaryColumns(type) ==
    LET slots == {Numbers!Number(n) : n \in Values(type.name)}
                 \cup (IF Numbers!IsFloat(type) THEN {Numbers!NonFinite} ELSE {})
    IN  {<<v, Null>> : v \in slots} \cup {<<Null, v>> : v \in slots}
        \cup {<<Numbers!Number(0), v, v>> : v \in slots}

-----------------------------------------------------------------------------
(* Text: a byte of three values, so that the prefixes of bounded cells run *)
(* out at eight bytes and those of chunks at eighty, and are reached.      *)

Text == INSTANCE TextColumn WITH
    ByteValues <- TextBytes, Fields <- TextFields, Policies <- TextPolicies,
    Columns <- TextColumns, bound <- encoding

Strings == {"utf8", "large_utf8", "utf8_view"}
Binaries == {"binary", "large_binary", "binary_view"}

EveryTextField ==
    {[arrow |-> t, length |-> 0, nullable |-> n] : t \in Strings \cup Binaries, n \in BOOLEAN}
    \cup {[arrow |-> "fixed_size_binary", length |-> k, nullable |-> n] :
             k \in -1 .. MaxBinary + 1, n \in BOOLEAN}

EveryTextPolicy ==
    {[form |-> f, length |-> 0] : f \in {"max", "observed"}}
    \cup {[form |-> "bounded", length |-> n] : n \in {0, 1, 2, 3, 6}}

\* Two characters of one unit, and one of two units.
Characters == {<<0>>, <<5>>, <<7, 8>>}
Texts == UNION {[1 .. n -> Characters] : n \in 0 .. 3}
         \cup {[i \in 1 .. n |-> <<5>>] : n \in {4, 40, 41}}
         \cup {[i \in 1 .. n |-> <<7, 8>>] : n \in {20, 21}}
ByteStrings == UNION {[1 .. n -> 0 .. 2] : n \in 0 .. 2}
               \cup {[i \in 1 .. n |-> 2] : n \in {3, 6, 7, 8, 80, 81}}

ShortColumns(arrow, length) ==
    LET values == CASE arrow \in Strings -> Texts [] arrow \in Binaries -> ByteStrings
                    [] arrow = "fixed_size_binary" -> [1 .. length -> {0, 2}]
        slots == {[kind |-> "value", v |-> v] : v \in values}
    IN  {<<v, Null>> : v \in slots} \cup {<<Null, v>> : v \in slots}
        \cup {<<CHOOSE w \in slots : Len(w.v) = length, v, v>> : v \in slots}

-----------------------------------------------------------------------------
(* What is assumed of the constants: a column is a sequence of slots of    *)
(* its Arrow type.                                                         *)

IsColumn(c) == c \in Seq({c[r] : r \in DOMAIN c})

IsTemporalMapping(m) ==
    /\ m.arrow = "date32" => m.unit = "day"
    /\ m.arrow = "date64" => m.unit = "ms"
    /\ m.arrow \in {"time", "timestamp"} => m.unit \in Units
    /\ m.zone.kind = "fixed" => m.zone.hours \in Nat /\ m.zone.minutes \in Nat
    /\ m.zone.kind = "named" =>
           \A s \in NamedSeconds : NamedOffsetSeconds(m.zone.name, s) \in Int
IsTemporalSlot(slot) == slot = Null \/ (slot = Instant(slot.n) /\ slot.n \in Int)

TemporalAssumption ==
    /\ Temporal!ScalesAssumption /\ Temporal!CalendarAssumption /\ Temporal!PowersAssumption
    /\ Temporal!FieldsAssumption
    /\ \A m \in Mappings :
           /\ IsTemporalMapping(m)
           /\ TemporalPolicies(m) \subseteq {"reject", "truncate", "round"}
           /\ \A c \in TemporalColumns(m) :
                  IsColumn(c) /\ \A r \in DOMAIN c : IsTemporalSlot(c[r])

\* The numbers of an array, a float standing for an integer of its width.
IsNumberOf(name, n) ==
    CASE name = "boolean" -> n \in {0, 1}
      [] name = "uint8" -> n \in Numbers!UIntRange(1)
      [] name = "uint16" -> n \in Numbers!UIntRange(2)
      [] name = "uint32" -> n \in Numbers!UIntRange(4)
      [] name = "uint64" -> n \in Numbers!UIntRange(8)
      [] name = "decimal256" -> n \in Int
      [] OTHER -> n \in Numbers!IntRange(SignedBytes(name))
IsNumericSlot(type, slot) ==
    \/ slot = Numbers!Null
    \/ slot = Numbers!NonFinite /\ Numbers!IsFloat(type)
    \/ slot = Numbers!Number(slot.n) /\ IsNumberOf(type.name, slot.n)

NumericAssumption ==
    /\ Numeric!DigitsAssumption /\ Numeric!PowersAssumption
    /\ \A p \in NumericPolicies :
           /\ p.uint64 \in {"reject", "decimal20_0", "checked_bigint"}
           /\ p.decimal \in {"reject", "normalize"}
           /\ p.decimal256 \in {"reject", "checked_downcast"}
    /\ \A f \in NumericFields :
           /\ f.nullable \in BOOLEAN /\ f.arrow.name \in PlainTypes \cup DecimalNames
           /\ f.arrow.precision \in Nat /\ f.arrow.scale \in Int
           /\ \A c \in NumericColumns(f.arrow) :
                  IsColumn(c) /\ \A r \in DOMAIN c : IsNumericSlot(f.arrow, c[r])

\* A string is a sequence of characters, and they of UTF-16 units.
IsTextSlot(type, length, slot) ==
    \/ slot = Text!Null
    \/ /\ slot = Text!Value(slot.v)
       /\ CASE type \in Strings -> slot.v \in Seq(Seq(0 .. TextBytes ^ 2 - 1))
            [] type \in Binaries -> slot.v \in Seq(0 .. TextBytes - 1)
            [] type = "fixed_size_binary" ->
                   slot.v \in Seq(0 .. TextBytes - 1) /\ Len(slot.v) = length

TextAssumption ==
    /\ Text!ByteAssumption
    /\ \A p \in TextPolicies :
           p.form \in {"max", "bounded", "observed"} /\ p.length \in Nat
    /\ \A f \in TextFields :
           /\ f.nullable \in BOOLEAN /\ f.arrow \in Strings \cup Binaries \cup {"fixed_size_binary"}
           /\ f.arrow # "fixed_size_binary" \/ f.length \in 1 .. MaxBinary =>
                  \A c \in TextColumns(f.arrow, f.length) :
                      IsColumn(c) /\ \A r \in DOMAIN c : IsTextSlot(f.arrow, f.length, c[r])

ASSUME ValuesAssumption == TemporalAssumption /\ NumericAssumption /\ TextAssumption

-----------------------------------------------------------------------------
Init ==
    \/ /\ family = "temporal" /\ Temporal!Init
       /\ target = Unused /\ encoding = Unused /\ runtime = Unused
    \/ /\ family = "numeric" /\ Numeric!Init
       /\ rounding = Unused /\ runtime = Unused
    \/ /\ family = "text" /\ Text!Init
       /\ rounding = Unused

Next ==
    \/ family = "temporal" /\ Temporal!Next /\ UNCHANGED <<family, target, encoding, runtime>>
    \/ family = "numeric" /\ Numeric!Next /\ UNCHANGED <<family, rounding, runtime>>
    \/ family = "text" /\ Text!Next /\ UNCHANGED <<family, rounding>>

Spec == Init /\ [][Next]_vars

-----------------------------------------------------------------------------
(* Properties *)

\* A date or time that is accepted is the nearest instant its SQL Server type
\* has, in the order of the others, and only what has none is rejected.
InstantsAreKept == family = "temporal" => Temporal!InstantsAreKept

\* A number that is accepted is stored as it is, at the planned scale, and a
\* plan has room for the numbers of its Arrow type.
NumbersAreExact == family = "numeric" => Numeric!NumbersAreExact

\* A bound on a string or binary column counts UTF-16 units, or bytes.
LimitCountsUnits == family = "text" => Text!LimitCountsUnits

\* Two implementations of the same rules: the direct encoder takes the columns
\* the token-row path takes and blames the same row, in every family.
PathsAgree ==
    CASE family = "temporal" -> Temporal!PathsAgree
      [] family = "numeric" -> Numeric!PathsAgree
      [] family = "text" -> Text!PathsAgree

\* What the direct path measured is written by both its encoders in the lengths
\* measured, and a reader of the bytes finds the values of the token-row path.
CellsDecodeToTokens ==
    CASE family = "temporal" -> Temporal!MeasuredColumnEncodes /\ Temporal!CellsDecodeToTokens
      [] family = "numeric" -> Numeric!BytesDecodeToTokens
      [] family = "text" -> Text!MeasuredCellsFit /\ Text!CellsDecodeToSlots

\* docs/type-mapping.md: every value that fits the precision of a decimal(p, s)
\* with 0 <= s <= p <= 38 is supported.
DocumentedScalesAreWritable == family = "numeric" => Numeric!DocumentedScalesAreWritable
=============================================================================
