--------------------------- MODULE TemporalColumn ---------------------------
(***************************************************************************)
(* One temporal column of a batch on its way to the wire, on both          *)
(* backends: the token-row path converts it cell by cell, the direct path  *)
(* measures it and then fills or appends it.  Each step takes the column   *)
(* as the loops of the code do: up to the first row that fails.            *)
(***************************************************************************)
EXTENDS TemporalConversion, FiniteSets

CONSTANTS
    Mappings,   \* the planned mappings: arrow, unit, zone, target, scale, nullable
    Columns(_), \* the columns of values to try for a mapping
    Policies(_),  \* nanosecond policies of the plan to try for a mapping
    Roundings(_)  \* datetime roundings of the profile to try for a mapping

VARIABLES
    mapping, policy, rounding,
    column,    \* the Arrow values
    tokens,    \* result of the token-row path
    lengths,   \* result of measuring
    filled,    \* result of filling the measured layout
    appended   \* result of appending cell by cell

vars == <<mapping, policy, rounding, column, tokens, lengths, filled, appended>>

-----------------------------------------------------------------------------
(* measure_*_column_cell_lengths: the length of one cell, or its error.    *)

MeasuredLen(v) == IF IsOk(v) THEN Ok(CellLen(mapping, v.value)) ELSE v

MeasureDate(n) ==
    MeasuredLen(IF mapping.arrow = "date32" THEN DirectDateFromDate32(n)
                ELSE DirectDateTime2FromDate64(n))
MeasureTimestamp(n) == MeasuredLen(DirectTimestamp(mapping, n, policy, rounding))
MeasureDateTimeOffset(n) ==
    LET zone == ZoneForDateTimeOffset(mapping)
    IN  IF ~IsOk(zone) THEN zone
        ELSE MeasuredLen(DateTimeOffsetFromTimestamp(mapping.unit, n, policy, zone.value))
MeasureTime(n) == MeasuredLen(TimeFromArrow(mapping.unit, n, policy))

\* The zone is validated before the nullability of the column is.
MeasureCell(value) ==
    CASE ~ZoneChecked(mapping) -> Fail("TimezoneUnsupported")
      [] ZoneChecked(mapping) /\ value = Null ->
             IF mapping.nullable THEN Ok(1) ELSE Fail("NullInNonNullableColumn")
      [] ZoneChecked(mapping) /\ value # Null ->
             CASE mapping.arrow \in {"date32", "date64"} -> MeasureDate(value.n)
               [] mapping.arrow = "time" -> MeasureTime(value.n)
               [] mapping.target = "datetimeoffset" -> MeasureDateTimeOffset(value.n)
               [] OTHER -> MeasureTimestamp(value.n)

-----------------------------------------------------------------------------
(* fill_*_direct_column: the value again, into the cell of the layout.     *)

InvalidPayload == Fail("DirectEncodingInvalidPayload")

\* write_direct_*_cell: the cell must have the length this value needs.
WriteCell(v, measured) ==
    CASE ~IsOk(v) -> v
      [] IsOk(v) /\ CellLen(mapping, v.value) = measured /\ Encodable(v.value) ->
             Ok(CellFields(mapping, v.value))
      [] OTHER -> InvalidPayload

WriteNull(measured) ==
    IF mapping.nullable THEN WriteCell(Ok(Null), measured)
    ELSE Fail("NullInNonNullableColumn")

FillDate(value, measured) ==
    IF value = Null THEN WriteNull(measured)
    ELSE WriteCell(IF mapping.arrow = "date32" THEN DirectDateFromDate32(value.n)
                   ELSE DirectDateTime2FromDate64(value.n), measured)
FillTimestamp(value, measured) ==
    CASE ~ZoneChecked(mapping) -> Fail("TimezoneUnsupported")
      [] ZoneChecked(mapping) /\ value = Null -> WriteNull(measured)
      [] ZoneChecked(mapping) /\ value # Null ->
             WriteCell(DirectTimestamp(mapping, value.n, policy, rounding), measured)
FillDateTimeOffset(value, measured) ==
    CASE ~ZoneChecked(mapping) -> Fail("TimezoneUnsupported")
      [] ZoneChecked(mapping) /\ value = Null -> WriteNull(measured)
      [] ZoneChecked(mapping) /\ value # Null ->
             LET zone == ZoneForDateTimeOffset(mapping)
             IN  IF ~IsOk(zone) THEN zone
                 ELSE WriteCell(DateTimeOffsetFromTimestamp(mapping.unit, value.n, policy,
                                                            zone.value), measured)
FillTime(value, measured) ==
    IF value = Null THEN WriteNull(measured)
    ELSE WriteCell(TimeFromArrow(mapping.unit, value.n, policy), measured)

FillCell(value, measured) ==
    CASE mapping.arrow \in {"date32", "date64"} -> FillDate(value, measured)
      [] mapping.arrow = "time" -> FillTime(value, measured)
      [] mapping.target = "datetimeoffset" -> FillDateTimeOffset(value, measured)
      [] OTHER -> FillTimestamp(value, measured)

-----------------------------------------------------------------------------
(* append_*_cell: the value with its length, compared with the measured    *)
(* one before anything is appended.                                        *)

AppendValue(v, measured) ==
    CASE ~IsOk(v) -> v
      [] IsOk(v) /\ CellLen(mapping, v.value) = measured /\ Encodable(v.value) ->
             Ok(CellFields(mapping, v.value))
      [] OTHER -> InvalidPayload

AppendDate(n, measured) ==
    AppendValue(IF mapping.arrow = "date32" THEN DirectDateFromDate32(n)
                ELSE DirectDateTime2FromDate64(n), measured)
AppendTimestamp(n, measured) ==
    AppendValue(DirectTimestamp(mapping, n, policy, rounding), measured)
AppendDateTimeOffset(n, measured) ==
    LET zone == ZoneForDateTimeOffset(mapping)
    IN  IF ~IsOk(zone) THEN zone
        ELSE AppendValue(DateTimeOffsetFromTimestamp(mapping.unit, n, policy, zone.value),
                         measured)
AppendTime(n, measured) == AppendValue(TimeFromArrow(mapping.unit, n, policy), measured)

AppendCell(value, measured) ==
    CASE ~ZoneChecked(mapping) -> Fail("TimezoneUnsupported")
      [] ZoneChecked(mapping) /\ value = Null ->
             IF mapping.nullable THEN AppendValue(Ok(Null), measured)
             ELSE Fail("NullInNonNullableColumn")
      [] ZoneChecked(mapping) /\ value # Null ->
             CASE mapping.arrow \in {"date32", "date64"} -> AppendDate(value.n, measured)
               [] mapping.arrow = "time" -> AppendTime(value.n, measured)
               [] mapping.target = "datetimeoffset" -> AppendDateTimeOffset(value.n, measured)
               [] OTHER -> AppendTimestamp(value.n, measured)

-----------------------------------------------------------------------------
Init ==
    /\ mapping \in {m \in Mappings : Supported(m)}
    /\ policy \in Policies(mapping)
    /\ rounding \in Roundings(mapping)
    /\ column \in Columns(mapping)
    /\ tokens = Pending /\ lengths = Pending /\ filled = Pending /\ appended = Pending

ConvertTokens ==
    /\ tokens = Pending
    /\ tokens' = StopAtFirstFailure([r \in DOMAIN column |-> TokenCell(mapping, column[r], policy, rounding)])
    /\ UNCHANGED <<mapping, policy, rounding, column, lengths, filled, appended>>

MeasureColumn ==
    /\ tokens # Pending /\ lengths = Pending
    /\ lengths' = StopAtFirstFailure([r \in DOMAIN column |-> MeasureCell(column[r])])
    /\ UNCHANGED <<mapping, policy, rounding, column, tokens, filled, appended>>

FillColumn ==
    /\ lengths.code = "ok" /\ filled = Pending
    /\ filled' = StopAtFirstFailure([r \in DOMAIN column |-> FillCell(column[r], lengths.cells[r])])
    /\ UNCHANGED <<mapping, policy, rounding, column, tokens, lengths, appended>>

AppendColumn ==
    /\ lengths.code = "ok" /\ filled # Pending /\ appended = Pending
    /\ appended' = StopAtFirstFailure([r \in DOMAIN column |-> AppendCell(column[r], lengths.cells[r])])
    /\ UNCHANGED <<mapping, policy, rounding, column, tokens, lengths, filled>>

Next == ConvertTokens \/ MeasureColumn \/ FillColumn \/ AppendColumn

Spec == Init /\ [][Next]_vars

-----------------------------------------------------------------------------
(* Reference definitions, in fractions of a second that both sides divide. *)

Fraction == FragmentsPerSecond * Base ^ NanoScale

\* The source instant of an Arrow value and the instant of a cell.
SourceInstant(value) ==
    value.n * (IF mapping.unit = "day" THEN SecondsPerDay * Fraction
               ELSE Fraction \div Base ^ UnitScale(mapping.unit))

CellInstant(v) ==
    CASE v.kind = "date" -> (v.day - EpochDays) * SecondsPerDay * Fraction
      [] v.kind = "time" -> v.time * (Fraction \div Base ^ v.scale)
      [] v.kind = "datetime" ->
             (v.day - DateTimeEpochDays) * SecondsPerDay * Fraction
                 + v.time * (Fraction \div FragmentsPerSecond)
      [] OTHER -> (v.day - EpochDays) * SecondsPerDay * Fraction
                      + v.time * (Fraction \div Base ^ v.scale)

\* The distance of two representable instants of the target.
Step(v) ==
    CASE v.kind = "date" -> SecondsPerDay * Fraction
      [] v.kind = "datetime" -> Fraction \div FragmentsPerSecond
      [] OTHER -> Fraction \div Base ^ v.scale

TickStep == Fraction \div TicksPerSecond
MilliStep == Fraction \div Base ^ MilliScale

\* What the lossy steps before the final rounding may shift an instant by,
\* downwards and upwards, twice.
ShiftDown == IF mapping.unit = "ns" /\ policy = "truncate" THEN 2 * TickStep
             ELSE IF mapping.unit = "ns" /\ policy = "round" THEN TickStep ELSE 0
ShiftUp == IF mapping.unit = "ns" /\ policy = "round" THEN TickStep ELSE 0
Legacy == IF mapping.target = "datetime" /\ rounding = "legacy" THEN MilliStep ELSE 0
FinalShift(v) == IF v.kind \in {"datetime", "datetime2"} THEN Step(v) ELSE 0

-----------------------------------------------------------------------------
(* Properties                                                              *)

Shaped(result) ==
    \/ result = Pending
    \/ result.code = "ok" /\ result.row = 0 /\ Len(result.cells) = Len(column)
    \/ result.code \notin {"ok", "pending"} /\ result.row \in DOMAIN column

\* The result of each path is one cell per row, or an error of a row.
TypeOK == Shaped(tokens) /\ Shaped(lengths) /\ Shaped(filled) /\ Shaped(appended)

\* A converted cell is the instant nearest to its source that the target has:
\* not more than half a step away (plus what the planned policy and profile
\* allow before), a tie upwards, across midnight and below the Unix epoch.
ConversionIsNearest ==
    tokens.code = "ok" =>
        \A r \in DOMAIN column :
            column[r] # Null =>
                LET v == tokens.cells[r]
                    error == 2 * (CellInstant(v) - SourceInstant(column[r]))
                IN  /\ error <= ShiftUp + Legacy + FinalShift(v)
                    /\ error >= -(ShiftDown + Legacy + FinalShift(v))
                    /\ ShiftDown + Legacy = 0 /\ FinalShift(v) > 0 => error > -FinalShift(v)

\* Two instants keep their order, whatever both are rounded to.
OrderIsKept ==
    tokens.code = "ok" =>
        \A r, s \in DOMAIN column :
            column[r] # Null /\ column[s] # Null /\ column[r].n <= column[s].n =>
                CellInstant(tokens.cells[r]) <= CellInstant(tokens.cells[s])

\* The seconds the target has, and how far rounding or an offset can carry an
\* instant over their limits.
FirstSecond ==
    CASE mapping.target = "time" -> 0
      [] mapping.target = "datetime" ->
             (DateTimeMinDays - DateTimeEpochDays) * SecondsPerDay
      [] OTHER -> -EpochDays * SecondsPerDay
EndSecond ==
    CASE mapping.target = "time" -> SecondsPerDay
      [] mapping.target = "datetime" ->
             (DateTimeMaxDays - DateTimeEpochDays + 1) * SecondsPerDay
      [] OTHER -> (MaxDays - EpochDays + 1) * SecondsPerDay
TargetStep ==
    CASE mapping.target = "date" -> 0
      [] mapping.target = "datetime" -> Fraction \div FragmentsPerSecond
      [] OTHER -> Fraction \div Base ^ mapping.scale
OffsetMargin ==
    IF mapping.target = "datetimeoffset" THEN MaxOffsetMinutes * SecondsPerMinute * Fraction
    ELSE 0
RoundingMargin ==
    (ShiftUp + IF mapping.target = "datetimeoffset" THEN 0 ELSE TargetStep + Legacy) \div 2

\* A rejected value has a reason in the data: its zone, its lost digits, or an
\* instant that is not in the range of the target once it is rounded.
OnlyUnrepresentableIsRejected ==
    LET slot == column[tokens.row]
    IN  /\ tokens.code = "LossyConversionRequiresPolicy" =>
               mapping.unit = "ns" /\ slot.n % NanosPerTick # 0
        /\ tokens.code = "TimestampOutOfRange" =>
               \/ SourceInstant(slot) < FirstSecond * Fraction + OffsetMargin
               \/ SourceInstant(slot) >= EndSecond * Fraction - OffsetMargin - RoundingMargin

\* A datetimeoffset cell is the instant of its source, in UTC, with the offset
\* its zone has at that instant, and its local time is in range as well.
OffsetCellsKeepTheInstant ==
    tokens.code = "ok" /\ mapping.target = "datetimeoffset" =>
        \A r \in DOMAIN column :
            column[r] # Null =>
                LET v == tokens.cells[r]
                    localDay == EpochDays
                        + (CellInstant(v) + v.offset * SecondsPerMinute * Fraction)
                              \div (SecondsPerDay * Fraction)
                IN  /\ (mapping.unit # "ns" \/ policy = "reject") =>
                           CellInstant(v) = SourceInstant(column[r])
                    /\ localDay \in 0 .. MaxDays
                    /\ mapping.zone.kind = "named" =>
                           v.offset * SecondsPerMinute =
                               NamedOffsetSeconds(mapping.zone.name,
                                   SourceInstant(column[r]) \div Fraction)

InstantsAreKept ==
    /\ ConversionIsNearest
    /\ OrderIsKept
    /\ OnlyUnrepresentableIsRejected
    /\ OffsetCellsKeepTheInstant

\* Both backends admit the same columns and blame the same row.  They name
\* another code only for a null that has two faults: a column that is not
\* nullable and a zone that does not resolve.
PathsAgree ==
    tokens # Pending /\ lengths # Pending =>
        /\ tokens.row = lengths.row
        /\ \/ tokens.code = lengths.code
           \/ /\ tokens.code = "NullInNonNullableColumn"
              /\ lengths.code = "TimezoneUnsupported"
              /\ column[tokens.row] = Null /\ ~mapping.nullable

\* The two encoders of the direct path write the cells of the token path, in
\* the lengths that were measured: a measured column always encodes.
MeasuredColumnEncodes ==
    \A result \in {filled, appended} :
        result # Pending =>
            /\ result.code = "ok"
            /\ \A r \in DOMAIN column :
                   LET fields == result.cells[r]
                       widths == [i \in DOMAIN fields |-> fields[i].width]
                       bytes[i \in 0 .. Len(fields)] ==
                           IF i = 0 THEN 0 ELSE bytes[i - 1] + widths[i]
                   IN  bytes[Len(fields)] = lengths.cells[r]

\* Reading a cell back from its bytes gives the value the token path sends.
CellsDecodeToTokens ==
    filled.code = "ok" /\ tokens.code = "ok" =>
        \A r \in DOMAIN column :
            LET v == tokens.cells[r]
                n == [i \in DOMAIN filled.cells[r] |-> filled.cells[r][i].n]
            IN  CASE v.kind = "null" -> n = <<0>>
                  [] v.kind = "date" -> n[2] = v.day
                  [] v.kind = "time" -> n[2] = v.time
                  [] v.kind = "datetime" -> /\ n[Len(n) - 1] = v.day
                                            /\ n[Len(n)] = v.time
                  [] v.kind = "datetime2" -> n[2] = v.time /\ n[3] = v.day
                  [] v.kind = "datetimeoffset" ->
                         n[2] = v.time /\ n[3] = v.day /\ n[4] = v.offset
=============================================================================
