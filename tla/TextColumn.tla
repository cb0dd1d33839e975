----------------------------- MODULE TextColumn -----------------------------
(***************************************************************************)
(* One string or binary column: schema planning gives it nvarchar,         *)
(* varbinary or binary; a batch brings an array of the same family; the    *)
(* token-row path converts it, and the direct path binds the array,        *)
(* measures its cells and fills or appends their bytes.  nvarchar counts   *)
(* and writes UTF-16 code units, of two bytes each; a string is the        *)
(* sequence of its characters, a character the sequence of its units.      *)
(* The code has ByteValues = 256 and MaxBinary = 8000.                     *)
(***************************************************************************)
EXTENDS ColumnOutcome, SequencesExt

CONSTANTS
    ByteValues,    \* values of a byte
    MaxBinary,     \* the longest binary(n) of SQL Server
    Fields,        \* the fields to plan: [arrow, length, nullable]
    Policies,      \* the policies of strings and binaries: [form, length]
    Columns(_, _)  \* columns of slots to try: of an Arrow type and its length

ByteAssumption ==
    /\ ByteValues \in Nat /\ ByteValues > 1 /\ MaxBinary \in Nat
    \* A binary(n) is not longer than a cell of it, and laws of powers.
    /\ MaxBinary <= ByteValues ^ 2 - 2
    /\ ByteValues ^ 0 = 1 /\ \A k \in 0 .. 7 : ByteValues ^ (k + 1) = ByteValues * ByteValues ^ k

VARIABLES
    field, policy,
    runtime,   \* the type of the batch's array
    column,
    target,    \* the planned type: [name, limit], limit Unlimited for (max)
    tokens, bound, lengths, filled, appended

vars == <<field, policy, runtime, column, target, tokens, bound, lengths, filled, appended>>

Strings == {"utf8", "large_utf8", "utf8_view"}
Binaries == {"binary", "large_binary", "binary_view"}

Null == [kind |-> "null"]
Value(v) == [kind |-> "value", v |-> v]
Undecided == Fail("undecided")

Unlimited == -1
Target(name, limit) == [name |-> name, limit |-> limit]
Exceeds(limit, n) == limit # Unlimited /\ n > limit

BoundedPrefix == 2
PlpPrefix == 8
ChunkPrefix == 4
PlpTerminator == 4
PlpOverhead == PlpPrefix + ChunkPrefix
MaxBounded == ByteValues ^ BoundedPrefix - 2
MaxChunk == ByteValues ^ ChunkPrefix - 1

-----------------------------------------------------------------------------
(* Planning and classification.                                            *)

PlanText(name) ==
    CASE policy.form = "max" -> Ok(Target(name, Unlimited))
      [] policy.form = "bounded" -> Ok(Target(name, policy.length))
      [] policy.form = "observed" -> Fail("ObservedDataRequired")

PlanFixedSizeBinary(length) ==
    IF length \in 1 .. MaxBinary THEN Ok(Target("binary", length)) ELSE Fail("UnsupportedArrowType")

PlanField ==
    CASE field.arrow \in Strings -> PlanText("nvarchar")
      [] field.arrow \in Binaries -> PlanText("varbinary")
      [] field.arrow = "fixed_size_binary" -> PlanFixedSizeBinary(field.length)

\* The runtime types of a planned column: those of its family, or itself.
CompatibleTypes ==
    CASE field.arrow \in Strings /\ target.value.name = "nvarchar" -> Strings
      [] field.arrow \in Binaries /\ target.value.name = "varbinary" -> Binaries
      [] OTHER -> {field.arrow}

-----------------------------------------------------------------------------
(* UTF-16 and the token-row path.                                          *)

\* Plausible bug: characters are counted, not code units (mutant).
CharacterUnits(text) == text
Utf16(text) == FlattenSeq(text)
UnitCount(text) == Len(Utf16(text))

LittleEndian(n, bytes) == [i \in 1 .. bytes |-> (n \div ByteValues ^ (i - 1)) % ByteValues]
Utf16Bytes(text) == FlattenSeq([i \in 1 .. UnitCount(text) |-> LittleEndian(Utf16(text)[i], 2)])

NVarCharCell(text) ==
    IF Exceeds(target.value.limit, UnitCount(text)) THEN Fail("ValueTooLong") ELSE Ok(Value(text))
VarBinaryCell(bytes) ==
    IF Exceeds(target.value.limit, Len(bytes)) THEN Fail("ValueTooLong") ELSE Ok(Value(bytes))
BinaryCell(bytes) ==
    IF Len(bytes) # target.value.limit THEN Fail("ValueTypeMismatch") ELSE Ok(Value(bytes))

TokenCell(slot) ==
    CASE slot = Null /\ field.nullable -> Ok(Null)
      [] slot = Null /\ ~field.nullable -> Fail("NullInNonNullableColumn")
      [] slot # Null /\ target.value.name = "nvarchar" -> NVarCharCell(slot.v)
      [] slot # Null /\ target.value.name = "varbinary" -> VarBinaryCell(slot.v)
      [] slot # Null /\ target.value.name = "binary" -> BinaryCell(slot.v)

-----------------------------------------------------------------------------
(* Measuring.                                                              *)

NullCellLen ==
    IF ~field.nullable THEN Fail("NullInNonNullableColumn")
    ELSE Ok(IF target.value.limit = Unlimited THEN PlpPrefix ELSE BoundedPrefix)

BoundedCellLen(n) ==
    IF n > MaxBounded THEN Fail("DirectEncodingInvalidPayload") ELSE Ok(BoundedPrefix + n)

\* An empty value is a chunk of length zero, which is its own terminator.
PlpCellLen(n) ==
    IF n > MaxChunk THEN Fail("DirectEncodingInvalidPayload")
    ELSE Ok(PlpOverhead + n + (IF n = 0 THEN 0 ELSE PlpTerminator))

MeasureNVarChar(text) ==
    CASE target.value.limit = Unlimited -> PlpCellLen(2 * UnitCount(text))
      [] Exceeds(target.value.limit, UnitCount(text)) -> Fail("ValueTooLong")
      [] OTHER -> BoundedCellLen(2 * UnitCount(text))

MeasureVarBinary(bytes) ==
    CASE target.value.limit = Unlimited -> PlpCellLen(Len(bytes))
      [] Exceeds(target.value.limit, Len(bytes)) -> Fail("ValueTooLong")
      [] OTHER -> BoundedCellLen(Len(bytes))

MeasureFixedSizeBinary(bytes) ==
    IF Len(bytes) # target.value.limit THEN Fail("ValueTypeMismatch")
    ELSE Ok(BoundedPrefix + target.value.limit)

MeasureCell(slot) ==
    CASE slot = Null -> NullCellLen
      [] slot # Null /\ target.value.name = "nvarchar" -> MeasureNVarChar(slot.v)
      [] slot # Null /\ target.value.name = "varbinary" -> MeasureVarBinary(slot.v)
      [] slot # Null /\ target.value.name = "binary" -> MeasureFixedSizeBinary(slot.v)

-----------------------------------------------------------------------------
(* Filling a measured cell: a slice of zero bytes of the measured length.  *)

NullBytes ==
    IF target.value.limit = Unlimited THEN LittleEndian(ByteValues ^ PlpPrefix - 1, PlpPrefix)
    ELSE LittleEndian(ByteValues ^ BoundedPrefix - 1, BoundedPrefix)
PlpMarker == LittleEndian(ByteValues ^ PlpPrefix - 2, PlpPrefix)
Zeros(n) == [i \in 1 .. n |-> 0]

Sized(bytes, measured) ==
    IF Len(bytes) = measured THEN Ok(bytes) ELSE Fail("DirectEncodingInvalidPayload")

\* The bytes of units an nvarchar cell of this length holds.
BoundedUnitBytes(measured) ==
    IF measured < BoundedPrefix \/ (measured - BoundedPrefix) % 2 # 0
    THEN Fail("DirectEncodingInvalidPayload") ELSE Ok(measured - BoundedPrefix)
PlpUnitBytes(measured) ==
    CASE measured = PlpOverhead -> Ok(0)
      [] measured # PlpOverhead /\ measured < PlpOverhead + PlpTerminator ->
             Fail("DirectEncodingInvalidPayload")
      [] measured > PlpOverhead /\ (measured - PlpOverhead - PlpTerminator) % 2 # 0 ->
             Fail("DirectEncodingInvalidPayload")
      [] OTHER -> Ok(measured - PlpOverhead - PlpTerminator)

\* Plausible bug: the chunk length counts code units (mutant).
PlpBytesInUnits(n, payload, terminated) ==
    PlpMarker \o LittleEndian(n \div 2, ChunkPrefix) \o payload
        \o (IF terminated THEN Zeros(PlpTerminator) ELSE << >>)
\* A chunk of size n, and the terminator when there is room for one.
PlpBytes(n, payload, terminated) ==
    PlpMarker \o LittleEndian(n, ChunkPrefix) \o payload
        \o (IF terminated THEN Zeros(PlpTerminator) ELSE << >>)

\* The units that fit a slice of n bytes; what they do not cover stays zero.
FillUnits(n, text) ==
    [i \in 1 .. n |-> IF i \in DOMAIN Utf16Bytes(text) THEN Utf16Bytes(text)[i] ELSE 0]

\* The fill trusts the measured length: it does not count the units again.
FillNVarChar(text, measured) ==
    LET bounded == target.value.limit # Unlimited
        n == IF bounded THEN BoundedUnitBytes(measured) ELSE PlpUnitBytes(measured)
    IN  CASE ~IsOk(n) -> n
          [] IsOk(n) /\ bounded /\ n.value \div 2 > target.value.limit -> Fail("ValueTooLong")
          [] IsOk(n) /\ bounded /\ n.value \div 2 <= target.value.limit ->
                 Ok(LittleEndian(n.value, BoundedPrefix) \o FillUnits(n.value, text))
          [] IsOk(n) /\ ~bounded -> Ok(PlpBytes(n.value, FillUnits(n.value, text), n.value # 0))

FillVarBinary(bytes, measured) ==
    CASE target.value.limit = Unlimited -> Sized(PlpBytes(Len(bytes), bytes, bytes # << >>), measured)
      [] Exceeds(target.value.limit, Len(bytes)) -> Fail("ValueTooLong")
      [] OTHER -> Sized(LittleEndian(Len(bytes), BoundedPrefix) \o bytes, measured)

FillFixedSizeBinary(bytes, measured) ==
    IF Len(bytes) # target.value.limit THEN Fail("ValueTypeMismatch")
    ELSE Sized(LittleEndian(Len(bytes), BoundedPrefix) \o bytes, measured)

FillNull(measured) == IF IsOk(NullCellLen) THEN Sized(NullBytes, measured) ELSE NullCellLen

FillCell(slot, measured) ==
    CASE slot = Null -> FillNull(measured)
      [] slot # Null /\ target.value.name = "nvarchar" -> FillNVarChar(slot.v, measured)
      [] slot # Null /\ target.value.name = "varbinary" -> FillVarBinary(slot.v, measured)
      [] slot # Null /\ target.value.name = "binary" -> FillFixedSizeBinary(slot.v, measured)

-----------------------------------------------------------------------------
(* Appending: the prefix comes from the measured length, the units are all *)
(* appended.                                                               *)

AppendNVarChar(text, measured) ==
    LET bounded == target.value.limit # Unlimited
        n == IF bounded THEN BoundedUnitBytes(measured) ELSE PlpUnitBytes(measured)
    IN  CASE ~IsOk(n) -> n
          [] IsOk(n) /\ bounded /\ n.value \div 2 > target.value.limit -> Fail("ValueTooLong")
          [] IsOk(n) /\ bounded /\ n.value \div 2 <= target.value.limit ->
                 Ok(LittleEndian(n.value, BoundedPrefix) \o Utf16Bytes(text))
          [] IsOk(n) /\ ~bounded -> Ok(PlpBytes(n.value, Utf16Bytes(text), n.value # 0))

\* The other writers compare the length they expect with the measured one.
Appended(expected, measured, bytes) ==
    CASE ~IsOk(expected) -> expected
      [] IsOk(expected) /\ expected.value # measured -> Fail("DirectEncodingInvalidPayload")
      [] OTHER -> Ok(bytes)

AppendVarBinary(bytes, measured) ==
    CASE target.value.limit = Unlimited ->
             Appended(PlpCellLen(Len(bytes)), measured, PlpBytes(Len(bytes), bytes, bytes # << >>))
      [] Exceeds(target.value.limit, Len(bytes)) -> Fail("ValueTooLong")
      [] OTHER ->
             Appended(BoundedCellLen(Len(bytes)), measured,
                      LittleEndian(Len(bytes), BoundedPrefix) \o bytes)

AppendFixedSizeBinary(bytes, measured) ==
    IF Len(bytes) # target.value.limit THEN Fail("ValueTypeMismatch")
    ELSE Appended(Ok(BoundedPrefix + target.value.limit), measured,
                  LittleEndian(Len(bytes), BoundedPrefix) \o bytes)

AppendNull(measured) == Appended(NullCellLen, measured, NullBytes)

AppendCell(slot, measured) ==
    CASE slot = Null -> AppendNull(measured)
      [] slot # Null /\ target.value.name = "nvarchar" -> AppendNVarChar(slot.v, measured)
      [] slot # Null /\ target.value.name = "varbinary" -> AppendVarBinary(slot.v, measured)
      [] slot # Null /\ target.value.name = "binary" -> AppendFixedSizeBinary(slot.v, measured)

-----------------------------------------------------------------------------
Init ==
    /\ field \in Fields /\ policy \in Policies
    /\ runtime = "none" /\ column = << >>
    /\ target = Undecided /\ bound = "none"
    /\ tokens = Pending /\ lengths = Pending /\ filled = Pending /\ appended = Pending

Plan ==
    /\ target.code = "undecided"
    /\ target' = PlanField
    /\ UNCHANGED <<field, policy, runtime, column, tokens, bound, lengths, filled, appended>>

\* The array has any type of the planned family.  The length of a fixed-size
\* array is part of its type, so it is the planned one.
ConvertTokens ==
    /\ IsOk(target) /\ tokens = Pending
    /\ runtime' \in CompatibleTypes
    /\ column' \in Columns(field.arrow, field.length)
    /\ tokens' = StopAtFirstFailure([r \in DOMAIN column' |-> TokenCell(column'[r])])
    /\ UNCHANGED <<field, policy, target, bound, lengths, filled, appended>>

\* The direct encoder binds the type the array has, not the planned one.
BindColumn ==
    /\ tokens # Pending /\ bound = "none"
    /\ bound' = runtime
    /\ UNCHANGED <<field, policy, runtime, column, target, tokens, lengths, filled, appended>>

MeasureColumn ==
    /\ bound # "none" /\ lengths = Pending
    /\ lengths' = StopAtFirstFailure([r \in DOMAIN column |-> MeasureCell(column[r])])
    /\ UNCHANGED <<field, policy, runtime, column, target, tokens, bound, filled, appended>>

FillColumn ==
    /\ lengths.code = "ok" /\ filled = Pending
    /\ filled' = StopAtFirstFailure(
           [r \in DOMAIN column |-> FillCell(column[r], lengths.cells[r])])
    /\ UNCHANGED <<field, policy, runtime, column, target, tokens, bound, lengths, appended>>

AppendColumn ==
    /\ filled # Pending /\ appended = Pending
    /\ appended' = StopAtFirstFailure(
           [r \in DOMAIN column |-> AppendCell(column[r], lengths.cells[r])])
    /\ UNCHANGED <<field, policy, runtime, column, target, tokens, bound, lengths, filled>>

Next == Plan \/ ConvertTokens \/ BindColumn \/ MeasureColumn \/ FillColumn \/ AppendColumn

Spec == Init /\ [][Next]_vars

-----------------------------------------------------------------------------
(* What a reader of a TDS row finds in a cell, from the target type alone. *)

Decode(cell) ==
    LET Number(bytes) ==
            LET sum[i \in 1 .. Len(bytes) + 1] ==
                    IF i > Len(bytes) THEN 0 ELSE bytes[i] + ByteValues * sum[i + 1]
            IN  sum[1]
        short == Number(SubSeq(cell, 1, BoundedPrefix))
        chunk == Number(SubSeq(cell, PlpPrefix + 1, PlpOverhead))
        payload == SubSeq(cell, PlpOverhead + 1, PlpOverhead + chunk)
        \* Chunks follow until one of length zero.
        ended == \/ chunk = 0 /\ Len(cell) = PlpOverhead
                 \/ /\ chunk # 0 /\ Len(cell) = PlpOverhead + chunk + PlpTerminator
                    /\ SubSeq(cell, PlpOverhead + chunk + 1, Len(cell)) = Zeros(PlpTerminator)
    IN  CASE target.value.limit # Unlimited /\ short = ByteValues ^ BoundedPrefix - 1 -> Null
          [] target.value.limit # Unlimited /\ short = Len(cell) - BoundedPrefix ->
                 Value(SubSeq(cell, BoundedPrefix + 1, Len(cell)))
          [] target.value.limit = Unlimited /\ cell = NullBytes -> Null
          [] target.value.limit = Unlimited /\ cell # NullBytes /\ ended -> Value(payload)
          [] OTHER -> [kind |-> "malformed"]

Written(slot) ==
    CASE slot = Null -> Null
      [] slot # Null /\ target.value.name = "nvarchar" -> Value(Utf16Bytes(slot.v))
      [] OTHER -> slot

-----------------------------------------------------------------------------
(* Properties                                                              *)

\* docs/type-mapping.md: nvarchar(n) takes the strings of at most n UTF-16
\* units, a supplementary character counting twice, varbinary(n) the values of
\* at most n bytes, and the first row that is not one is the row of the error.
LimitCountsUnits ==
    LET limit == target.value.limit
        Fits(slot) ==
            IF slot = Null THEN field.nullable
            ELSE limit = Unlimited \/ (IF target.value.name = "nvarchar"
                                 THEN Len(FlattenSeq(slot.v)) <= limit ELSE Len(slot.v) <= limit)
    IN  tokens # Pending =>
            IF tokens.code = "ok" THEN \A r \in DOMAIN column : Fits(column[r])
            ELSE ~Fits(column[tokens.row]) /\ \A r \in 1 .. tokens.row - 1 : Fits(column[r])

\* The longest value a direct cell can hold: longer ones are taken by the
\* token-row path only.
HasCell(slot) ==
    \/ slot = Null
    \/ Len(Written(slot).v) <= (IF target.value.limit = Unlimited THEN MaxChunk ELSE MaxBounded)

\* Whatever type of the family the array has, the direct path rejects a column
\* with the code and at the row of the token-row path, as long as its values
\* have a TDS cell; then it is the first that has none.
PathsAgree ==
    lengths # Pending =>
        IF lengths.code # "DirectEncodingInvalidPayload"
        THEN lengths.code = tokens.code /\ lengths.row = tokens.row
        ELSE /\ ~HasCell(column[lengths.row])
             /\ tokens.code = "ok" \/ lengths.row < tokens.row
             /\ \A r \in 1 .. lengths.row - 1 : HasCell(column[r])

\* A measured column is always written, in cells of the measured lengths, by
\* both direct encoders, though the nvarchar writers never count again.
MeasuredCellsFit ==
    \A result \in {filled, appended} :
        result # Pending =>
            /\ result.code = "ok"
            /\ \A r \in DOMAIN column : Len(result.cells[r]) = lengths.cells[r]

\* Null, the empty value and every other value stay apart: a reader of the
\* bytes of a cell finds the slot they were written from.
CellsDecodeToSlots ==
    \A result \in {filled, appended} :
        result.code = "ok" =>
            \A r \in DOMAIN column : Decode(result.cells[r]) = Written(column[r])

=============================================================================
