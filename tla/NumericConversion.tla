------------------------- MODULE NumericConversion -------------------------
(***************************************************************************)
(* Arrow booleans, integers, floats and decimals on their way to SQL       *)
(* Server: the type schema planning gives a column, the value of a cell on *)
(* the token-row path, and the bytes the direct encoder writes.  Integers  *)
(* keep their widths in bytes; what a byte holds and the digits of a       *)
(* decimal are parameters, so that a small instance has every boundary.    *)
(* The code has ByteValues = 256, Ten = 10, ShortDigits = 9 and so on.     *)
(***************************************************************************)
EXTENDS Integers, Sequences, ColumnOutcome

CONSTANTS
    ByteValues,     \* values of a byte
    Ten,            \* base of decimal scales
    MaxPrecision,   \* 38: decimal digits of SQL Server
    ScaleLimit,     \* 38: scales from here on do not fit a Tiberius Numeric
    UInt64Digits,   \* 20: decimal(20,0) holds a u64
    ShortDigits,    \* 9: digits that take 4 bytes
    MiddleDigits,   \* 19: digits that take 8 bytes
    LongDigits      \* 28: digits that take 12 bytes, more take 16

DigitsAssumption ==
    /\ {ByteValues, Ten, MaxPrecision, ScaleLimit, UInt64Digits, ShortDigits,
        MiddleDigits, LongDigits} \subseteq Nat \ {0}
    /\ ByteValues > 1 /\ Ten > 1
    /\ ShortDigits < MiddleDigits /\ MiddleDigits < LongDigits /\ LongDigits <= MaxPrecision
    /\ UInt64Digits <= MaxPrecision
    \* The digits of a magnitude fit the bytes it is written in.
    /\ Ten ^ ShortDigits <= ByteValues ^ 4 /\ Ten ^ MiddleDigits <= ByteValues ^ 8
    /\ Ten ^ LongDigits <= ByteValues ^ 12
    /\ 2 * Ten ^ MaxPrecision <= ByteValues ^ 16
    /\ ByteValues ^ 8 <= Ten ^ UInt64Digits

\* Laws of powers, which are no facts of the provers' arithmetic.
PowersAssumption ==
    /\ Ten ^ 0 = 1 /\ \A k \in 0 .. MaxPrecision : Ten ^ (k + 1) = Ten * Ten ^ k
    /\ ByteValues ^ 0 = 1 /\ \A k \in 0 .. 15 : ByteValues ^ (k + 1) = ByteValues * ByteValues ^ k

\* An Arrow slot: null, or a number, or a float that is not finite.
Null == [kind |-> "null"]
Number(n) == [kind |-> "number", n |-> n]
NonFinite == [kind |-> "nonfinite"]

\* An Arrow type and a SQL Server type: [name, precision, scale].
Type(name, precision, scale) == [name |-> name, precision |-> precision, scale |-> scale]
Plain(name) == Type(name, 0, 0)

IsDecimal(type) == type.name \in {"decimal32", "decimal64", "decimal128", "decimal256"}
IsFloat(type) == type.name \in {"float16", "float32", "float64"}

\* The integers of i8 .. i64 and u8 .. u64.
IntRange(bytes) == -(ByteValues ^ bytes \div 2) .. (ByteValues ^ bytes \div 2) - 1
UIntRange(bytes) == 0 .. ByteValues ^ bytes - 1
MaxI128 == ByteValues ^ 16 \div 2 - 1
FitsI128(n) == n \in -(MaxI128 + 1) .. MaxI128

Magnitude(n) == IF n < 0 THEN -n ELSE n

-----------------------------------------------------------------------------
(* Schema planning: the target type of a field under the planned policies. *)

PlanUInt64(policy) ==
    CASE policy = "reject" -> Fail("ProfileDependentConversion")
      [] policy = "decimal20_0" -> Ok(Type("decimal", UInt64Digits, 0))
      [] policy = "checked_bigint" -> Ok(Plain("bigint"))

\* A precision that overflows a byte is rejected as one above the maximum is.
NormalizeDecimalShape(precision, scale, policy) ==
    IF scale >= 0 THEN Ok([precision |-> precision, scale |-> scale])
    ELSE IF policy = "reject" THEN Fail("ProfileDependentConversion")
    ELSE Ok([precision |-> precision - scale, scale |-> 0])

PlanDecimal(type, policy) ==
    LET shape == NormalizeDecimalShape(type.precision, type.scale, policy)
    IN  CASE type.precision = 0 -> Fail("DecimalOutOfRange")
          [] type.precision # 0 /\ ~IsOk(shape) -> shape
          [] OTHER ->
               IF shape.value.precision > MaxPrecision \/ shape.value.scale > shape.value.precision
               THEN Fail("DecimalOutOfRange")
               ELSE Ok(Type("decimal", shape.value.precision, shape.value.scale))

PlanField(type, policies) ==
    CASE type.name = "uint64" -> PlanUInt64(policies.uint64)
      [] type.name = "decimal256" ->
             IF policies.decimal256 = "reject" THEN Fail("ProfileDependentConversion")
             ELSE PlanDecimal(type, policies.decimal)
      [] IsDecimal(type) /\ type.name # "decimal256" -> PlanDecimal(type, policies.decimal)
      [] type.name = "boolean" -> Ok(Plain("bit"))
      [] type.name = "uint8" -> Ok(Plain("tinyint"))
      [] type.name \in {"int8", "int16"} -> Ok(Plain("smallint"))
      [] type.name \in {"int32", "uint16"} -> Ok(Plain("int"))
      [] type.name \in {"int64", "uint32"} -> Ok(Plain("bigint"))
      [] type.name \in {"float16", "float32"} -> Ok(Plain("real"))
      [] type.name = "float64" -> Ok(Plain("float"))

-----------------------------------------------------------------------------
(* The runtime classification of a planned mapping.                        *)

PrimitivePairs ==
    {<<"boolean", "bit">>, <<"uint8", "tinyint">>, <<"int8", "smallint">>,
     <<"int16", "smallint">>, <<"int32", "int">>, <<"uint16", "int">>,
     <<"int64", "bigint">>, <<"uint32", "bigint">>, <<"uint64", "bigint">>,
     <<"float16", "real">>, <<"float32", "real">>, <<"float64", "float">>}

Unsupported == Fail("ValueConversionUnsupported")

ClassifyPrimitive(arrow, target) ==
    IF <<arrow.name, target.name>> \in PrimitivePairs THEN Ok("primitive") ELSE Unsupported

ClassifyUInt64(arrow, target) ==
    CASE arrow.name = "uint64" /\ target.name = "bigint" -> Ok("checked_bigint")
      [] arrow.name = "uint64" /\ target = Type("decimal", UInt64Digits, 0) -> Ok("decimal20_0")
      [] OTHER -> Unsupported

\* decimal_target: the scale must be one a Tiberius Numeric takes.
DecimalTarget(target) ==
    CASE target.name # "decimal" -> Fail("ValueTypeMismatch")
      [] target.name = "decimal" /\ target.scale \in 0 .. ScaleLimit - 1 -> Ok(target)
      [] OTHER -> Fail("DecimalOutOfRange")

ScaleCompatible(target, scale) == target.scale = (IF scale < 0 THEN 0 ELSE scale)

ClassifyDecimal(arrow, target) ==
    LET shape == DecimalTarget(target)
    IN  CASE ~IsOk(shape) -> shape
          [] IsOk(shape) /\ ~IsDecimal(arrow) -> Unsupported
          [] IsOk(shape) /\ IsDecimal(arrow) ->
               IF ScaleCompatible(target, arrow.scale) THEN Ok("decimal")
               ELSE Fail("SchemaMismatch")

\* support_mapping tries one family after the other.
DirectSupport(arrow, target) ==
    IF IsOk(ClassifyPrimitive(arrow, target)) THEN Ok("primitive")
    ELSE IF IsOk(ClassifyDecimal(arrow, target)) THEN Ok("decimal")
    ELSE IF IsOk(ClassifyUInt64(arrow, target)) THEN ClassifyUInt64(arrow, target)
    ELSE Fail("DirectEncodingUnsupportedMapping")

-----------------------------------------------------------------------------
(* Token-row conversion.  A cell value is a number and the scale sent.     *)

Cell(kind, n, scale) == [kind |-> kind, n |-> n, scale |-> scale]
NullCell(target) == [kind |-> target.name, null |-> TRUE]

\* Plausible bug: the product may wrap at the width of i128 (mutant).
CheckedProductWrapping(n, factor) ==
    LET modulus == 2 * (MaxI128 + 1)
        m == (n * factor) % modulus
    IN  Ok(IF m > MaxI128 THEN m - modulus ELSE m)
\* checked_pow and checked_mul of i128.
CheckedProduct(n, factor) ==
    IF FitsI128(factor) /\ FitsI128(n * factor) THEN Ok(n * factor) ELSE Fail("DecimalOutOfRange")

NormalizeNegativeScale(n, scale) ==
    IF scale >= 0 THEN Ok(n) ELSE CheckedProduct(n, Ten ^ (-scale))

FitsPrecision(n, precision) ==
    precision > 0 /\ n \in -(Ten ^ precision - 1) .. Ten ^ precision - 1

DecimalWithShape(n, target) ==
    IF FitsPrecision(n, target.precision) THEN Ok(Cell("decimal", n, target.scale))
    ELSE Fail("DecimalOutOfRange")

DecimalOfUInt64(arrow, target, n) ==
    LET class == ClassifyUInt64(arrow, target)
    IN  CASE ~(target.scale \in 0 .. ScaleLimit - 1) -> Fail("DecimalOutOfRange")
          [] target.scale \in 0 .. ScaleLimit - 1 /\ ~IsOk(class) -> class
          [] OTHER -> DecimalWithShape(n, target)

DecimalValue(arrow, target, n) ==
    LET class == ClassifyDecimal(arrow, target)
        normal == NormalizeNegativeScale(n, arrow.scale)
    IN  CASE ~IsOk(class) -> class
          [] IsOk(class) /\ ~FitsI128(n) -> Fail("DecimalOutOfRange")
          [] IsOk(class) /\ FitsI128(n) /\ ~IsOk(normal) -> normal
          [] OTHER -> DecimalWithShape(normal.value, target)

PrimitiveValue(arrow, target, value) ==
    CASE ~IsOk(ClassifyPrimitive(arrow, target)) -> Fail("ValueTypeMismatch")
      [] value.kind = "nonfinite" -> Fail("NonFiniteFloat")
      [] arrow.name = "uint64" /\ value.n \notin IntRange(8) -> Fail("IntegerOutOfRange")
      [] OTHER -> Ok(Cell(target.name, value.n, 0))

\* mssql_cell_from_arrow_cell, then the Tiberius value of the cell.
TokenCell(arrow, target, nullable, value) ==
    CASE value = Null ->
             IF nullable THEN Ok(NullCell(target)) ELSE Fail("NullInNonNullableColumn")
      [] value # Null /\ target.name # "decimal" -> PrimitiveValue(arrow, target, value)
      [] value # Null /\ target.name = "decimal" ->
             IF arrow.name = "uint64" THEN DecimalOfUInt64(arrow, target, value.n)
             ELSE DecimalValue(arrow, target, value.n)

-----------------------------------------------------------------------------
(* The direct encoder's own conversion, a second implementation.           *)

\* Plausible bug: the measured value is not normalized (mutant).
NormalizedDecimalUnscaled(arrow, target, n) ==
    IF FitsI128(n) /\ FitsPrecision(n, target.precision) THEN Ok(n) ELSE Fail("DecimalOutOfRange")
NormalizedDecimal(arrow, target, n) ==
    LET normal == NormalizeNegativeScale(n, arrow.scale)
    IN  CASE ~FitsI128(n) -> Fail("DecimalOutOfRange")
          [] FitsI128(n) /\ ~IsOk(normal) -> normal
          [] OTHER -> IF FitsPrecision(normal.value, target.precision) THEN normal
                      ELSE Fail("DecimalOutOfRange")

UInt64CheckedBigInt(n) == IF n \in IntRange(8) THEN Ok(n) ELSE Fail("IntegerOutOfRange")

PrimitiveValueLen(target) ==
    CASE target.name \in {"bit", "tinyint"} -> 1 [] target.name = "smallint" -> 2
      [] target.name \in {"int", "real"} -> 4 [] target.name \in {"bigint", "float"} -> 8

Digits(n) == CHOOSE d \in 1 .. MaxPrecision + 1 :
                 Magnitude(n) < Ten ^ d /\ (d = 1 \/ Magnitude(n) >= Ten ^ (d - 1))

\* decimal_magnitude_len: by the digits of the value, not of its column.
MagnitudeLen(n) ==
    CASE Digits(n) <= ShortDigits -> 4 [] Digits(n) \in ShortDigits + 1 .. MiddleDigits -> 8
      [] Digits(n) \in MiddleDigits + 1 .. LongDigits -> 12 [] OTHER -> 16
DecimalCellLen(n) == 1 + 1 + MagnitudeLen(n)

\* to_le_bytes of the low bytes, in two's complement.
LittleEndian(n, width) ==
    [i \in 1 .. width |-> ((n % ByteValues ^ width) \div ByteValues ^ (i - 1)) % ByteValues]

DecimalSign(n) == IF n < 0 THEN 0 ELSE 1

FilledMagnitude(n) ==
    IF MagnitudeLen(n) = 12
    THEN LittleEndian(Magnitude(n), 8) \o LittleEndian(Magnitude(n) \div ByteValues ^ 8, 4)
    ELSE LittleEndian(Magnitude(n), MagnitudeLen(n))
FilledDecimal(n) == <<1 + MagnitudeLen(n), DecimalSign(n)>> \o FilledMagnitude(n)

AppendedMagnitude(n) ==
    CASE MagnitudeLen(n) \in {4, 8} -> LittleEndian(Magnitude(n), MagnitudeLen(n))
      [] MagnitudeLen(n) = 12 -> LittleEndian(Magnitude(n), 8)
                                     \o LittleEndian(Magnitude(n) \div ByteValues ^ 8, 4)
      [] OTHER -> LittleEndian(Magnitude(n), 8)
                      \o LittleEndian(Magnitude(n) \div ByteValues ^ 8, 8)
AppendedDecimal(n) == <<1 + MagnitudeLen(n), DecimalSign(n)>> \o AppendedMagnitude(n)

\* The bytes of a primitive value; a nullable column has a length before it.
PrimitiveBytes(target, nullable, n) ==
    LET value == LittleEndian(n, PrimitiveValueLen(target))
    IN  IF nullable THEN <<PrimitiveValueLen(target)>> \o value ELSE value
=============================================================================
