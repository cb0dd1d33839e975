---------------------------- MODULE NumericColumn ----------------------------
(***************************************************************************)
(* One boolean, integer, float or decimal column: schema planning gives it *)
(* a target type, the token-row path converts it, and the direct path      *)
(* selects an encoding, measures it, and fills or appends it.  The loops   *)
(* over the rows stop at the first row that fails.                         *)
(***************************************************************************)
EXTENDS NumericConversion

CONSTANTS
    Fields,      \* the fields to plan: [arrow, nullable]
    PolicySet,   \* the plan options: [uint64, decimal, decimal256]
    Columns(_)   \* the columns of slots to try for an Arrow type

VARIABLES
    field, policies, column,
    target,    \* the planned type
    tokens,    \* the result of the token-row path
    encoding,  \* the direct encoding selected for the mapping
    lengths,   \* the result of measuring
    filled,    \* the result of filling the measured layout
    appended   \* the result of appending cell by cell

vars == <<field, policies, column, target, tokens, encoding, lengths, filled, appended>>

Undecided == Fail("undecided")

\* A null cell of the direct path: its length byte, zero.
NullLen == IF field.nullable THEN Ok(1) ELSE Fail("NullInNonNullableColumn")

-----------------------------------------------------------------------------
(* Measuring.                                                              *)

PrimitiveCellLen == PrimitiveValueLen(target.value) + (IF field.nullable THEN 1 ELSE 0)

\* The value of a primitive cell: only floats and u64 are checked.
CheckedPrimitive(value) ==
    CASE value.kind = "nonfinite" -> Fail("NonFiniteFloat")
      [] field.arrow.name = "uint64" -> UInt64CheckedBigInt(value.n)
      [] OTHER -> Ok(value.n)

MeasurePrimitive(value) ==
    IF IsOk(CheckedPrimitive(value)) THEN Ok(PrimitiveCellLen) ELSE CheckedPrimitive(value)

MeasureDecimal(n) ==
    LET v == NormalizedDecimal(field.arrow, target.value, n)
    IN  IF IsOk(v) THEN Ok(DecimalCellLen(v.value)) ELSE v

MeasureUInt64Decimal(n) == Ok(DecimalCellLen(n))

MeasureCell(value) ==
    CASE value = Null -> NullLen
      [] value # Null /\ encoding.value = "primitive" -> MeasurePrimitive(value)
      [] value # Null /\ encoding.value = "decimal" -> MeasureDecimal(value.n)
      [] value # Null /\ encoding.value = "decimal20_0" -> MeasureUInt64Decimal(value.n)

-----------------------------------------------------------------------------
(* Filling a measured layout: each writer compares the length of its value *)
(* with the length of the cell.                                            *)

Sized(bytes, measured) ==
    IF Len(bytes) = measured THEN Ok(bytes) ELSE Fail("DirectEncodingInvalidPayload")

FillNull(measured) == IF IsOk(NullLen) THEN Sized(<<0>>, measured) ELSE NullLen

FillPrimitive(value, measured) ==
    LET v == CheckedPrimitive(value)
    IN  IF IsOk(v) THEN Sized(PrimitiveBytes(target.value, field.nullable, v.value), measured)
        ELSE v

FillDecimal(n, measured) ==
    LET v == NormalizedDecimal(field.arrow, target.value, n)
    IN  IF IsOk(v) THEN Sized(FilledDecimal(v.value), measured) ELSE v

FillUInt64Decimal(n, measured) == Sized(FilledDecimal(n), measured)

FillCell(value, measured) ==
    CASE value = Null -> FillNull(measured)
      [] value # Null /\ encoding.value = "primitive" -> FillPrimitive(value, measured)
      [] value # Null /\ encoding.value = "decimal" -> FillDecimal(value.n, measured)
      [] value # Null /\ encoding.value = "decimal20_0" -> FillUInt64Decimal(value.n, measured)

-----------------------------------------------------------------------------
(* Appending cell by cell, with the same comparison before any byte.       *)

AppendNull(measured) == IF IsOk(NullLen) THEN Sized(<<0>>, measured) ELSE NullLen

AppendPrimitive(value, measured) ==
    LET v == CheckedPrimitive(value)
    IN  IF IsOk(v) THEN Sized(PrimitiveBytes(target.value, field.nullable, v.value), measured)
        ELSE v

AppendDecimal(n, measured) ==
    LET v == NormalizedDecimal(field.arrow, target.value, n)
    IN  CASE ~IsOk(v) -> v
          [] IsOk(v) /\ DecimalCellLen(v.value) # measured -> Fail("DirectEncodingInvalidPayload")
          [] OTHER -> Ok(AppendedDecimal(v.value))

AppendUInt64Decimal(n, measured) ==
    IF DecimalCellLen(n) # measured THEN Fail("DirectEncodingInvalidPayload")
    ELSE Ok(AppendedDecimal(n))

AppendCell(value, measured) ==
    CASE value = Null -> AppendNull(measured)
      [] value # Null /\ encoding.value = "primitive" -> AppendPrimitive(value, measured)
      [] value # Null /\ encoding.value = "decimal" -> AppendDecimal(value.n, measured)
      [] value # Null /\ encoding.value = "decimal20_0" -> AppendUInt64Decimal(value.n, measured)

-----------------------------------------------------------------------------
Init ==
    /\ field \in Fields
    /\ policies \in PolicySet
    /\ column = << >>
    /\ target = Undecided /\ encoding = Undecided
    /\ tokens = Pending /\ lengths = Pending /\ filled = Pending /\ appended = Pending

Plan ==
    /\ target.code = "undecided"
    /\ target' = PlanField(field.arrow, policies)
    /\ UNCHANGED <<field, policies, column, tokens, encoding, lengths, filled, appended>>

ConvertTokens ==
    /\ IsOk(target) /\ tokens = Pending
    /\ column' \in Columns(field.arrow)
    /\ tokens' = StopAtFirstFailure(
           [r \in DOMAIN column' |-> TokenCell(field.arrow, target.value, field.nullable, column'[r])])
    /\ UNCHANGED <<field, policies, target, encoding, lengths, filled, appended>>

\* The mapping is classified before any batch of it is measured.
SelectEncoding ==
    /\ tokens # Pending /\ encoding.code = "undecided"
    /\ encoding' = DirectSupport(field.arrow, target.value)
    /\ UNCHANGED <<field, policies, column, target, tokens, lengths, filled, appended>>

MeasureColumn ==
    /\ IsOk(encoding) /\ lengths = Pending
    /\ lengths' = StopAtFirstFailure([r \in DOMAIN column |-> MeasureCell(column[r])])
    /\ UNCHANGED <<field, policies, column, target, tokens, encoding, filled, appended>>

FillColumn ==
    /\ lengths.code = "ok" /\ filled = Pending
    /\ filled' = StopAtFirstFailure(
           [r \in DOMAIN column |-> FillCell(column[r], lengths.cells[r])])
    /\ UNCHANGED <<field, policies, column, target, tokens, encoding, lengths, appended>>

AppendColumn ==
    /\ filled # Pending /\ appended = Pending
    /\ appended' = StopAtFirstFailure(
           [r \in DOMAIN column |-> AppendCell(column[r], lengths.cells[r])])
    /\ UNCHANGED <<field, policies, column, target, tokens, encoding, lengths, filled>>

Next == Plan \/ ConvertTokens \/ SelectEncoding \/ MeasureColumn \/ FillColumn \/ AppendColumn

Spec == Init /\ [][Next]_vars

-----------------------------------------------------------------------------
(* Reference definitions.                                                  *)

\* The value of slot r in units of the planned scale, exactly: a decimal with
\* a negative scale is a whole number of its own units.
ExactValue(r) ==
    IF IsDecimal(field.arrow) /\ field.arrow.scale < 0
    THEN column[r].n * Ten ^ (-field.arrow.scale) ELSE column[r].n

\* A value the planned type has, whatever the code computes on the way.
Representable(r) ==
    CASE column[r].kind = "nonfinite" -> FALSE
      [] column[r].kind = "null" -> field.nullable
      [] OTHER ->
             CASE target.value.name = "decimal" ->
                      /\ Magnitude(ExactValue(r)) < Ten ^ target.value.precision
                      /\ target.value.scale < ScaleLimit
               [] target.value.name = "bigint" -> column[r].n \in IntRange(8)
               [] OTHER -> TRUE

\* The value a reader of the bytes of a cell finds, or Null.
Decode(bytes) ==
    LET Value(from) ==
            LET sum[i \in from .. Len(bytes) + 1] ==
                    IF i > Len(bytes) THEN 0 ELSE bytes[i] + ByteValues * sum[i + 1]
            IN  sum[from]
        width == IF field.nullable THEN Len(bytes) - 1 ELSE Len(bytes)
        unsigned == Value(IF field.nullable THEN 2 ELSE 1)
    IN  IF target.value.name = "decimal"
        THEN IF bytes[1] = 0 THEN Null
             ELSE Number(IF bytes[2] = 0 THEN -Value(3) ELSE Value(3))
        ELSE IF field.nullable /\ bytes[1] = 0 THEN Null
        ELSE Number(IF target.value.name \notin {"bit", "tinyint"}
                        /\ unsigned * 2 >= ByteValues ^ width
                    THEN unsigned - ByteValues ^ width ELSE unsigned)

-----------------------------------------------------------------------------
(* Properties                                                              *)

StopsAtFirstUnfit(result) ==
    IF result.code = "ok" THEN \A r \in DOMAIN column : Representable(r)
    ELSE /\ result.row \in DOMAIN column /\ ~Representable(result.row)
         /\ \A r \in 1 .. result.row - 1 : Representable(r)

\* What each path of the column returns: a cell for every row, or the first
\* row the planned type cannot take (the loops of both backends stop there).
FirstUnfitRow ==
    /\ tokens # Pending => StopsAtFirstUnfit(tokens)
    /\ lengths # Pending => StopsAtFirstUnfit(lengths)

\* No accepted value changes: its cell is the same number at the planned
\* scale, negative scales multiplied out, and fits the planned precision.
AcceptedValuesAreExact ==
    tokens.code = "ok" =>
        \A r \in DOMAIN column :
            column[r] # Null =>
                /\ tokens.cells[r].n = ExactValue(r)
                /\ tokens.cells[r].scale = target.value.scale
                /\ target.value.name = "decimal" =>
                       tokens.cells[r].n \in -(Ten ^ target.value.precision - 1)
                                                 .. Ten ^ target.value.precision - 1

\* A plan leaves room for its data: a value within the digits of its Arrow
\* type always converts, however planning widened the type.  Scales that do
\* not fit a Tiberius Numeric are the one exception.
PlanHasRoom ==
    IsOk(target) /\ target.value.scale < ScaleLimit /\ tokens.row # 0 =>
        LET value == column[tokens.row]
        IN  ~ /\ value.kind = "number"
              /\ \/ IsDecimal(field.arrow) /\ Magnitude(value.n) < Ten ^ field.arrow.precision
                 \/ field.arrow.name = "uint64" /\ policies.uint64 = "decimal20_0"
                 \/ ~IsDecimal(field.arrow) /\ field.arrow.name # "uint64"

NumbersAreExact == FirstUnfitRow /\ AcceptedValuesAreExact /\ PlanHasRoom

\* Two implementations of the same rules: the direct encoder takes the columns
\* the token-row path takes, and blames the same row with the same code.  A
\* mapping it has no encoding for is one the token-row path takes only nulls of.
PathsAgree ==
    /\ lengths # Pending => lengths.code = tokens.code /\ lengths.row = tokens.row
    /\ encoding.code = "DirectEncodingUnsupportedMapping" /\ tokens.code = "ok" =>
           \A r \in DOMAIN column : column[r] = Null

\* Both direct encoders write a measured column, in the lengths measured, and
\* a reader of the bytes finds the values the token-row path sends.
BytesDecodeToTokens ==
    \A result \in {filled, appended} :
        result # Pending =>
            /\ result.code = "ok"
            /\ \A r \in DOMAIN column :
                   /\ Len(result.cells[r]) = lengths.cells[r]
                   /\ Decode(result.cells[r]) =
                          IF column[r] = Null THEN Null ELSE Number(tokens.cells[r].n)

\* docs/type-mapping.md: a decimal(p, s) is supported for 0 <= s <= p <= 38.
\* The values of a planned decimal column that fit its precision convert.
DocumentedScalesAreWritable ==
    IsOk(target) /\ target.value.name = "decimal" /\ tokens.code = "DecimalOutOfRange" =>
        Magnitude(ExactValue(tokens.row)) >= Ten ^ target.value.precision
=============================================================================
