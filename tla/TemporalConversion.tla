------------------------- MODULE TemporalConversion -------------------------
(***************************************************************************)
(* The conversion of Arrow dates, times and timestamps to SQL Server       *)
(* values (mssql/cell/from_arrow/temporal) and the cells the direct        *)
(* encoder writes for them (write/direct/types/temporal), as operators on  *)
(* integers.  The powers of ten, the length of a day and the two calendars *)
(* are parameters, so that a small instance has every boundary of the real *)
(* one: the code has Base = 10, SecondsPerDay = 86400 and so on.           *)
(***************************************************************************)
EXTENDS Integers, Sequences, ColumnOutcome

CONSTANTS
    Base,               \* units of one scale per unit of the scale before it
    MilliScale,         \* 3
    MicroScale,         \* 6
    TickScale,          \* 7: ticks of 100 ns, the largest SQL Server scale
    NanoScale,          \* 9
    SecondsPerMinute,
    MinutesPerHour,
    SecondsPerDay,
    EpochDays,          \* days from 0001-01-01 to the Unix epoch
    MaxDays,            \* 9999-12-31 counted from 0001-01-01
    DateTimeEpochDays,  \* days from 1900-01-01 to the Unix epoch
    DateTimeMinDays,    \* 1753-01-01 counted from 1900-01-01
    DateTimeMaxDays,    \* 9999-12-31 counted from 1900-01-01
    FragmentsPerSecond, \* 300: the resolution of datetime
    MaxOffsetMinutes,   \* 14 hours
    ShortTimeScale,     \* 2: times up to this scale take 3 bytes
    MiddleTimeScale,    \* 4: times up to this scale take 4 bytes
    ByteValues,         \* 256
    NamedOffsetSeconds(_, _), \* offset of a zone of the database at a second
    NamedSeconds        \* the seconds the zone database can tell an offset for

ScalesAssumption ==
    /\ {Base, MilliScale, MicroScale, TickScale, NanoScale} \subseteq Nat \ {0}
    /\ Base > 1
    /\ MilliScale < MicroScale /\ MicroScale < TickScale /\ TickScale < NanoScale

CalendarAssumption ==
    /\ {SecondsPerMinute, MinutesPerHour, SecondsPerDay, FragmentsPerSecond,
        ByteValues} \subseteq Nat \ {0}
    /\ {EpochDays, MaxDays, MaxOffsetMinutes} \subseteq Nat
    /\ {DateTimeEpochDays, DateTimeMinDays, DateTimeMaxDays} \subseteq Int
    /\ MaxOffsetMinutes * SecondsPerMinute < SecondsPerDay
    \* The zone database covers the dates SQL Server has.
    /\ -EpochDays * SecondsPerDay .. (MaxDays - EpochDays + 1) * SecondsPerDay - 1
           \subseteq NamedSeconds

\* Laws of powers, which are no facts of the provers' arithmetic.
PowersAssumption ==
    /\ Base ^ 0 = 1 /\ \A k \in 0 .. NanoScale - 1 : Base ^ (k + 1) = Base * Base ^ k
    /\ ByteValues ^ 0 = 1 /\ \A k \in 0 .. 4 : ByteValues ^ (k + 1) = ByteValues * ByteValues ^ k

\* A null Arrow slot and the null cell made of it.
Null == [kind |-> "null"]

UnitScale(unit) ==
    CASE unit = "s" -> 0 [] unit = "ms" -> MilliScale
      [] unit = "us" -> MicroScale [] unit = "ns" -> NanoScale

TicksPerSecond == Base ^ TickScale
TicksPerDay == SecondsPerDay * TicksPerSecond
NanosPerTick == Base ^ (NanoScale - TickScale)
TicksPerIncrement(scale) == Base ^ (TickScale - scale)
FragmentsPerDay == SecondsPerDay * FragmentsPerSecond

\* The ticks of the first instant of datetime2 and of datetime.
DateTime2MinTicks == -EpochDays * TicksPerDay
DateTimeMinTicks == (DateTimeMinDays - DateTimeEpochDays) * TicksPerDay

\* Plausible bug: a quotient that rounds towards zero (mutant).
RoundAwayFromZero(x, f) ==
    IF x >= 0 THEN x \div f + (IF (x % f) * 2 >= f THEN 1 ELSE 0)
    ELSE -((-x) \div f + IF ((-x) % f) * 2 >= f THEN 1 ELSE 0)
\* x / f rounded to the nearest integer, a tie upwards, also below zero.
RoundHalfUp(x, f) == x \div f + IF (x % f) * 2 >= f THEN 1 ELSE 0

-----------------------------------------------------------------------------
(* Time zones.  A zone is the metadata string of the column after a look   *)
(* at its form: none, empty, "Z" or "UTC", a signed offset, something that *)
(* starts with a sign and is no offset, or a name.                         *)

IsZoneFree(zone) == zone.kind \in {"none", "empty"}

FixedMinutes(zone) == zone.hours * MinutesPerHour + zone.minutes

ParseFixedOffset(zone) ==
    IF zone.minutes >= MinutesPerHour \/ FixedMinutes(zone) > MaxOffsetMinutes
    THEN Fail("TimezoneUnsupported")
    ELSE Ok([kind |-> "fixed", minutes |-> IF zone.negative THEN -FixedMinutes(zone)
                                           ELSE FixedMinutes(zone)])

ResolveZone(zone) ==
    CASE zone.kind = "utc" -> Ok([kind |-> "fixed", minutes |-> 0])
      [] zone.kind = "fixed" -> ParseFixedOffset(zone)
      [] zone.kind = "named" -> Ok([kind |-> "named", name |-> zone.name])
      [] OTHER -> Fail("TimezoneUnsupported")

\* A resolved offset must be whole minutes and within SQL Server's range.
OffsetMinutes(seconds) ==
    IF \/ seconds % SecondsPerMinute # 0
       \/ seconds > MaxOffsetMinutes * SecondsPerMinute
       \/ -seconds > MaxOffsetMinutes * SecondsPerMinute
    THEN Fail("TimezoneUnsupported")
    ELSE Ok(seconds \div SecondsPerMinute)

OffsetForInstant(resolved, second) ==
    IF resolved.kind = "fixed" THEN Ok(resolved.minutes)
    ELSE IF second \notin NamedSeconds THEN Fail("TimestampOutOfRange")
    ELSE OffsetMinutes(NamedOffsetSeconds(resolved.name, second))

\* validate_*_timestamp_timezone_metadata: made for null values too.
ZoneChecked(mapping) ==
    \/ mapping.arrow # "timestamp"
    \/ IsZoneFree(mapping.zone)
    \/ IsOk(ResolveZone(mapping.zone))

-----------------------------------------------------------------------------
(* The values of one type, each from an Arrow number.                      *)

NanosToTicks(nanos, policy) ==
    LET rest == nanos % NanosPerTick
    IN  CASE policy = "reject" /\ rest # 0 -> Fail("LossyConversionRequiresPolicy")
          [] policy = "round" /\ rest * 2 >= NanosPerTick ->
                 Ok(nanos \div NanosPerTick + 1)
          [] OTHER -> Ok(nanos \div NanosPerTick)

Date(day) == [kind |-> "date", day |-> day]
Time(increments, scale) == [kind |-> "time", time |-> increments, scale |-> scale]
DateTime(day, fragments) == [kind |-> "datetime", day |-> day, time |-> fragments]
DateTime2(day, increments, scale) ==
    [kind |-> "datetime2", day |-> day, time |-> increments, scale |-> scale]

DateFromDate32(days) ==
    IF days + EpochDays \in 0 .. MaxDays THEN Ok(Date(days + EpochDays))
    ELSE Fail("TimestampOutOfRange")

DateTime2FromDate64(millis) ==
    LET perDay == SecondsPerDay * Base ^ MilliScale
        day == millis \div perDay + EpochDays
    IN  IF day \in 0 .. MaxDays THEN Ok(DateTime2(day, millis % perDay, MilliScale))
        ELSE Fail("TimestampOutOfRange")

TimeFromNanos(nanos, policy) ==
    IF nanos \notin 0 .. SecondsPerDay * Base ^ NanoScale - 1
    THEN Fail("TimestampOutOfRange")
    ELSE LET ticks == NanosToTicks(nanos, policy)
         IN  IF ~IsOk(ticks) THEN ticks
             ELSE IF ticks.value >= TicksPerDay THEN Fail("TimestampOutOfRange")
             ELSE Ok(Time(ticks.value, TickScale))

TimeFromInt(value, scale) ==
    IF value \in 0 .. SecondsPerDay * Base ^ scale - 1 THEN Ok(Time(value, scale))
    ELSE Fail("TimestampOutOfRange")

TimeFromArrow(unit, value, policy) ==
    IF unit = "ns" THEN TimeFromNanos(value, policy)
    ELSE TimeFromInt(value, UnitScale(unit))

\* Ticks of a timestamp of any unit; only nanoseconds can lose precision.
TimestampTicks(unit, value, policy) ==
    IF unit = "ns" THEN NanosToTicks(value, policy)
    ELSE Ok(value * TicksPerIncrement(UnitScale(unit)))

\* Rounding may carry into the next day: the day is taken afterwards.
DateTime2FromTicks(ticks, scale) ==
    LET step == TicksPerIncrement(scale)
        rounded == RoundHalfUp(ticks, step) * step
        day == rounded \div TicksPerDay + EpochDays
    IN  IF ticks < DateTime2MinTicks \/ day \notin 0 .. MaxDays
        THEN Fail("TimestampOutOfRange")
        ELSE Ok(DateTime2(day, (rounded % TicksPerDay) \div step, scale))

\* Profiles below compatibility level 130 round to milliseconds first.
DateTimeFragments(ticks, rounding) ==
    LET perMilli == TicksPerIncrement(MilliScale)
        source == IF rounding = "legacy" THEN RoundHalfUp(ticks, perMilli) * perMilli
                  ELSE ticks
    IN  RoundHalfUp(source * FragmentsPerSecond, TicksPerSecond)

DateTimeFromTicks(ticks, rounding) ==
    LET fragments == DateTimeFragments(ticks, rounding)
        day == fragments \div FragmentsPerDay + DateTimeEpochDays
    IN  IF ticks < DateTimeMinTicks \/ day \notin DateTimeMinDays .. DateTimeMaxDays
        THEN Fail("TimestampOutOfRange")
        ELSE Ok(DateTime(day, fragments % FragmentsPerDay))

DateTimeFromTimestamp(unit, value, policy, rounding) ==
    LET ticks == TimestampTicks(unit, value, policy)
    IN  IF IsOk(ticks) THEN DateTimeFromTicks(ticks.value, rounding) ELSE ticks

DateTime2FromTimestamp(unit, value, policy, scale) ==
    LET ticks == TimestampTicks(unit, value, policy)
    IN  IF IsOk(ticks) THEN DateTime2FromTicks(ticks.value, scale) ELSE ticks

\* Both the local and the UTC time must be representable; UTC is stored.
DateTimeOffsetFromTicks(ticks, minutes) ==
    LET localTicks == ticks + minutes * SecondsPerMinute * TicksPerSecond
        utc == DateTime2FromTicks(ticks, TickScale)
    IN  IF ~IsOk(DateTime2FromTicks(localTicks, TickScale)) \/ ~IsOk(utc)
        THEN Fail("TimestampOutOfRange")
        ELSE Ok([kind |-> "datetimeoffset", day |-> utc.value.day,
                 time |-> utc.value.time, scale |-> TickScale, offset |-> minutes])

\* The offset is looked up at the instant before nanoseconds are normalised.
DateTimeOffsetFromTimestamp(unit, value, policy, zone) ==
    LET second == value \div Base ^ UnitScale(unit)
        resolved == ResolveZone(zone)
        offset == OffsetForInstant(resolved.value, second)
        ticks == TimestampTicks(unit, value, policy)
    IN  CASE ~IsOk(resolved) -> resolved
          [] IsOk(resolved) /\ ~IsOk(offset) -> offset
          [] IsOk(resolved) /\ IsOk(offset) /\ ~IsOk(ticks) -> ticks
          [] OTHER -> DateTimeOffsetFromTicks(ticks.value, offset.value)

-----------------------------------------------------------------------------
(* The pairs of types that convert, and the semantic conversion of a cell. *)

Supported(mapping) ==
    LET from(arrow, target) == mapping.arrow = arrow /\ mapping.target = target
    IN  \/ from("date32", "date")
        \/ from("date64", "datetime2") /\ mapping.scale = MilliScale
        \/ /\ from("time", "time")
           /\ mapping.scale = (IF mapping.unit = "ns" THEN TickScale
                               ELSE UnitScale(mapping.unit))
        \/ from("timestamp", "datetime")
        \/ from("timestamp", "datetime2") /\ mapping.scale \in 0 .. TickScale
        \/ /\ from("timestamp", "datetimeoffset") /\ mapping.scale = TickScale
           /\ ~IsZoneFree(mapping.zone)

Unsupported == Fail("ValueConversionUnsupported")

\* A null has the checks of its target type as well, except a null date.
NullOf(mapping) ==
    CASE mapping.target = "date" -> Ok(Null)
      [] mapping.target # "date" /\ ~Supported(mapping) -> Unsupported
      [] mapping.target # "date" /\ Supported(mapping) ->
             IF ZoneChecked(mapping) THEN Ok(Null) ELSE Fail("TimezoneUnsupported")

DateCell(n) == DateFromDate32(n)

DateTimeCell(mapping, n, policy, rounding) ==
    IF ~ZoneChecked(mapping) THEN Fail("TimezoneUnsupported")
    ELSE DateTimeFromTimestamp(mapping.unit, n, policy, rounding)

DateTime2Cell(mapping, n, policy) ==
    CASE mapping.arrow = "date64" -> DateTime2FromDate64(n)
      [] mapping.arrow # "date64" /\ ~ZoneChecked(mapping) -> Fail("TimezoneUnsupported")
      [] OTHER -> DateTime2FromTimestamp(mapping.unit, n, policy, mapping.scale)

DateTimeOffsetCell(mapping, n, policy) ==
    DateTimeOffsetFromTimestamp(mapping.unit, n, policy, mapping.zone)

TokenCell(mapping, value, policy, rounding) ==
    IF value = Null
    THEN IF mapping.nullable THEN NullOf(mapping) ELSE Fail("NullInNonNullableColumn")
    ELSE IF ~Supported(mapping) THEN Unsupported
    ELSE CASE mapping.target = "date" -> DateCell(value.n)
           [] mapping.target = "time" -> TimeFromArrow(mapping.unit, value.n, policy)
           [] mapping.target = "datetime" -> DateTimeCell(mapping, value.n, policy, rounding)
           [] mapping.target = "datetime2" -> DateTime2Cell(mapping, value.n, policy)
           [] mapping.target = "datetimeoffset" -> DateTimeOffsetCell(mapping, value.n, policy)

-----------------------------------------------------------------------------
(* The direct encoder.  It has its own conversion of the two date types.   *)

DirectDateFromDate32(days) ==
    IF days + EpochDays \in 0 .. MaxDays THEN Ok(Date(days + EpochDays))
    ELSE Fail("TimestampOutOfRange")

DirectDateTime2FromDate64(millis) ==
    LET perDay == SecondsPerDay * Base ^ MilliScale
        day == millis \div perDay + EpochDays
    IN  IF day \in 0 .. MaxDays THEN Ok(DateTime2(day, millis % perDay, MilliScale))
        ELSE Fail("TimestampOutOfRange")

ZoneForDateTimeOffset(mapping) ==
    IF IsZoneFree(mapping.zone) THEN Fail("ValueTypeMismatch") ELSE Ok(mapping.zone)

\* timestamp_*_value: the target column decides.
DirectTimestamp(mapping, n, policy, rounding) ==
    CASE mapping.target = "datetime" ->
             DateTimeFromTimestamp(mapping.unit, n, policy, rounding)
      [] mapping.target = "datetime2" ->
             DateTime2FromTimestamp(mapping.unit, n, policy, mapping.scale)
      [] OTHER -> Fail("ValueTypeMismatch")

TimePayloadLen(scale) ==
    IF scale <= ShortTimeScale THEN 3 ELSE IF scale <= MiddleTimeScale THEN 4 ELSE 5

DatePayloadLen == 3
DateTimePayloadLen == 8
OffsetPayloadLen == 2
DateTimeHalfLen == 4

\* The fields of a cell hold the days and times of the calendar.
FieldsAssumption ==
    /\ MaxDays < ByteValues ^ DatePayloadLen
    /\ FragmentsPerDay <= ByteValues ^ DateTimeHalfLen
    /\ \A scale \in 0 .. TickScale :
           SecondsPerDay * Base ^ scale <= ByteValues ^ TimePayloadLen(scale)

\* A datetime column that is not nullable has no length byte.
CellLen(mapping, v) ==
    CASE v.kind = "null" -> 1
      [] v.kind = "date" -> 1 + DatePayloadLen
      [] v.kind = "time" -> 1 + TimePayloadLen(v.scale)
      [] v.kind = "datetime" -> DateTimePayloadLen + IF mapping.nullable THEN 1 ELSE 0
      [] v.kind = "datetime2" -> 1 + TimePayloadLen(v.scale) + DatePayloadLen
      [] v.kind = "datetimeoffset" ->
             1 + TimePayloadLen(v.scale) + DatePayloadLen + OffsetPayloadLen

ValidDate(day) == day \in 0 .. MaxDays
ValidTime(increments, scale) == increments \in 0 .. SecondsPerDay * Base ^ scale - 1

\* The checks the encoder makes once more before it writes a value.
Encodable(v) ==
    CASE v.kind = "null" -> TRUE
      [] v.kind = "date" -> ValidDate(v.day)
      [] v.kind = "time" -> ValidTime(v.time, v.scale)
      [] v.kind = "datetime" -> /\ v.day \in DateTimeMinDays .. DateTimeMaxDays
                                /\ v.time < FragmentsPerDay
      [] v.kind = "datetime2" -> ValidDate(v.day) /\ ValidTime(v.time, v.scale)
      [] v.kind = "datetimeoffset" ->
             /\ ValidDate(v.day) /\ ValidTime(v.time, v.scale)
             /\ v.offset \in -MaxOffsetMinutes .. MaxOffsetMinutes

\* The low bytes of a number, as one field of that width.
Low(n, width) == [width |-> width, n |-> n % ByteValues ^ width]
Signed(n, width) == [width |-> width, n |-> n]

\* The bytes of a cell as fields: length byte, time, date, offset.
CellFields(mapping, v) ==
    LET len == Low(CellLen(mapping, v) - 1, 1)
    IN  CASE v.kind = "null" -> <<Low(0, 1)>>
          [] v.kind = "date" -> <<len, Low(v.day, DatePayloadLen)>>
          [] v.kind = "time" -> <<len, Low(v.time, TimePayloadLen(v.scale))>>
          [] v.kind = "datetime" ->
                 (IF mapping.nullable THEN <<len>> ELSE << >>)
                     \o <<Signed(v.day, DateTimeHalfLen), Low(v.time, DateTimeHalfLen)>>
          [] v.kind = "datetime2" ->
                 <<len, Low(v.time, TimePayloadLen(v.scale)), Low(v.day, DatePayloadLen)>>
          [] v.kind = "datetimeoffset" ->
                 <<len, Low(v.time, TimePayloadLen(v.scale)), Low(v.day, DatePayloadLen),
                   Signed(v.offset, OffsetPayloadLen)>>
=============================================================================
