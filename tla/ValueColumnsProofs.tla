------------------------- MODULE ValueColumnsProofs -------------------------
(***************************************************************************)
(* Proofs about the columns of MCValueColumns, for every base, clock,      *)
(* calendar and zone database, every number of digits and byte, every set  *)
(* of fields, policies and columns: both backends blame the same row, an   *)
(* accepted instant is the nearest one its target has, an accepted number  *)
(* keeps its value, a bound counts the units of its type and what is       *)
(* written is read back.  A loop over the rows is known by where it stops; *)
(* what is left are facts about one cell of one family.                    *)
(***************************************************************************)
EXTENDS MCValueColumns, ColumnOutcome, SequenceTheorems, WellFoundedInduction, TLAPS

-----------------------------------------------------------------------------
(* Where a loop over the rows stops *)

\* The loop over the n results f ends after all of them or at the first error.
Ends(f, n, result) ==
    \/ /\ result.code = "ok" /\ result.row = 0
       /\ result.cells = [r \in 1..n |-> f[r].value]
       /\ \A r \in 1..n : f[r].code = "ok"
    \/ /\ result.row \in 1..n /\ f[result.row].code # "ok"
       /\ result.code = f[result.row].code
       /\ \A r \in 1..(result.row - 1) : f[r].code = "ok"

LEMMA LeastElement ==
    ASSUME NEW B, B \subseteq Nat, B # {}
    PROVE  \E m \in B : \A k \in B : m <= k
<1> DEFINE R == OpToRel(<, Nat)
<1>1. IsWellFoundedOn(R, Nat)
  BY NatLessThanWellFounded
<1>2. \A k, m \in Nat : <<k, m>> \in R <=> k < m
  BY DEF OpToRel
<1> HIDE DEF R
<1>3. PICK m \in B : \A k \in B : ~ (<<k, m>> \in R)
  BY <1>1, WFMin
<1>4. ASSUME NEW k \in B PROVE m <= k
  <2>1. k \in Nat /\ m \in Nat /\ ~ (k < m)
    BY <1>2, <1>3
  <2> QED
    BY <2>1
<1> QED
  BY <1>4

LEMMA LoopEnds ==
    ASSUME NEW n \in Nat, NEW f, DOMAIN f = 1..n
    PROVE  Ends(f, n, StopAtFirstFailure(f))
<1> DEFINE failed == {r \in 1..n : f[r].code # "ok"}
           first == CHOOSE r \in failed : \A s \in failed : r <= s
<1>1. CASE failed = {}
  <2>1. StopAtFirstFailure(f) = [code |-> "ok", row |-> 0, cells |-> [r \in 1..n |-> f[r].value]]
    BY <1>1 DEF StopAtFirstFailure, IsOk
  <2> QED
    BY <1>1, <2>1 DEF Ends
<1>2. CASE failed # {}
  <2>1. failed \subseteq Nat
    OBVIOUS
  <2>2. \E m \in failed : \A k \in failed : m <= k
    <3> HIDE DEF failed
    <3> QED
      BY <1>2, <2>1, LeastElement
  <2>3. first \in failed /\ \A s \in failed : first <= s
    <3> HIDE DEF failed
    <3> QED
      BY <2>2
  <2>4. StopAtFirstFailure(f) = [code |-> f[first].code, row |-> first, cells |-> << >>]
    BY <1>2 DEF StopAtFirstFailure, IsOk
  <2> HIDE DEF first
  <2>5. \A r \in 1..(first - 1) : f[r].code = "ok"
    BY <2>3
  <2> QED
    BY <2>3, <2>4, <2>5 DEF Ends
<1> QED
  BY <1>1, <1>2

\* Loops whose results fail at the same rows stop at the same row.
LEMMA EndTogether ==
    ASSUME NEW n \in Nat, NEW f, NEW g, NEW a, NEW b, Ends(f, n, a), Ends(g, n, b),
           \A r \in 1..n : f[r].code = "ok" <=> g[r].code = "ok"
    PROVE  /\ a.row = b.row /\ (a.code = "ok" <=> b.code = "ok")
           /\ a.code = "ok" => a.row = 0
           /\ a.code # "ok" => /\ a.row \in 1..n
                               /\ a.code = f[a.row].code /\ b.code = g[a.row].code
<1>1. CASE a.code = "ok"
  <2>1. a.row = 0 /\ \A r \in 1..n : g[r].code = "ok"
    BY <1>1 DEF Ends
  <2> QED
    BY <1>1, <2>1 DEF Ends
<1>2. CASE a.code # "ok"
  <2>1. /\ a.row \in 1..n /\ f[a.row].code # "ok" /\ a.code = f[a.row].code
        /\ \A r \in 1..(a.row - 1) : f[r].code = "ok"
    BY <1>2 DEF Ends
  <2>2. /\ b.row \in 1..n /\ g[b.row].code # "ok" /\ b.code = g[b.row].code
        /\ \A r \in 1..(b.row - 1) : g[r].code = "ok"
    BY <2>1 DEF Ends
  <2>3. a.row = b.row
    BY <2>1, <2>2
  <2> QED
    BY <1>2, <2>1, <2>2, <2>3
<1> QED
  BY <1>1, <1>2

-----------------------------------------------------------------------------
(* Dates and times *)

TemporalTokens == [r \in DOMAIN column |-> Temporal!TokenCell(field, column[r], policy, rounding)]
TemporalLengths == [r \in DOMAIN column |-> Temporal!MeasureCell(column[r])]

TemporalInv ==
    /\ field \in Mappings /\ policy \in TemporalPolicies(field)
    /\ column \in TemporalColumns(field)
    /\ Temporal!Supported(field) /\ DOMAIN column = 1..Len(column) /\ Len(column) \in Nat
    /\ tokens # Pending => Ends(TemporalTokens, Len(column), tokens)
    /\ lengths # Pending => tokens # Pending /\ Ends(TemporalLengths, Len(column), lengths)

\* A cell is measured if and only if it converts, and fails with the same
\* code unless it is a null of a column that takes none.
LEMMA TemporalCellsAgree ==
    ASSUME Temporal!Supported(field), NEW v
    PROVE  LET t == Temporal!TokenCell(field, v, policy, rounding)
               m == Temporal!MeasureCell(v)
           IN  /\ t.code = "ok" <=> m.code = "ok"
               /\ t.code # "ok" =>
                     \/ t.code = m.code
                     \/ /\ t.code = "NullInNonNullableColumn" /\ m.code = "TimezoneUnsupported"
                        /\ v = Temporal!Null /\ ~field.nullable
<1> DEFINE t == Temporal!TokenCell(field, v, policy, rounding)
           m == Temporal!MeasureCell(v)
<1>1. CASE v = Temporal!Null
  <2>1. field.target = "date" => Temporal!ZoneChecked(field)
    BY DEF Temporal!Supported, Temporal!ZoneChecked
  <2>2. t.code = IF ~field.nullable THEN "NullInNonNullableColumn"
                 ELSE IF Temporal!ZoneChecked(field) THEN "ok" ELSE "TimezoneUnsupported"
    BY <1>1, <2>1 DEF Temporal!TokenCell, Temporal!NullOf, Temporal!Ok, Temporal!Fail
  <2>3. m.code = IF ~Temporal!ZoneChecked(field) THEN "TimezoneUnsupported"
                 ELSE IF field.nullable THEN "ok" ELSE "NullInNonNullableColumn"
    BY <1>1 DEF Temporal!MeasureCell, Temporal!Ok, Temporal!Fail
  <2> QED
    BY <1>1, <2>2, <2>3
<1>2. CASE v # Temporal!Null
  <2>1. CASE ~Temporal!ZoneChecked(field)
    <3>1. /\ field.arrow = "timestamp" /\ field.target \in {"datetime", "datetime2", "datetimeoffset"}
          /\ ~Temporal!IsOk(Temporal!ResolveZone(field.zone))
      BY <2>1 DEF Temporal!Supported, Temporal!ZoneChecked
    <3>2. Temporal!ResolveZone(field.zone).code = "TimezoneUnsupported"
      BY <3>1 DEF Temporal!ResolveZone, Temporal!ParseFixedOffset, Temporal!IsOk, Temporal!Ok,
         Temporal!Fail
    <3>3. m.code = "TimezoneUnsupported"
      BY <1>2, <2>1 DEF Temporal!MeasureCell, Temporal!Fail
    <3>4. CASE field.target = "datetimeoffset"
      <4>1. t = Temporal!DateTimeOffsetCell(field, v.n, policy)
        BY <1>2, <3>4 DEF Temporal!TokenCell
      <4>2. t = Temporal!ResolveZone(field.zone)
        BY <3>1, <4>1 DEF Temporal!DateTimeOffsetCell, Temporal!DateTimeOffsetFromTimestamp
      <4> QED
        BY <3>2, <3>3, <4>2
    <3>5. CASE field.target \in {"datetime", "datetime2"}
      <4>1. t = Temporal!Fail("TimezoneUnsupported")
        BY <1>2, <2>1, <3>1, <3>5
           DEF Temporal!TokenCell, Temporal!DateTimeCell, Temporal!DateTime2Cell
      <4> QED
        BY <3>3, <4>1 DEF Temporal!Fail
    <3> QED
      BY <3>1, <3>4, <3>5
  <2>2. CASE Temporal!ZoneChecked(field)
    <3>1. PICK x : m = Temporal!MeasuredLen(x) /\ t = x
      <4>1. CASE field.arrow \in {"date32", "date64"}
        <5>1. m = Temporal!MeasureDate(v.n)
          BY <1>2, <2>2, <4>1 DEF Temporal!MeasureCell, Temporal!Supported
        <5>2. field.arrow = "date32" => t = Temporal!DirectDateFromDate32(v.n)
          BY <1>2, <4>1 DEF Temporal!TokenCell, Temporal!Supported, Temporal!DateCell,
             Temporal!DateFromDate32, Temporal!DirectDateFromDate32
        <5>3. field.arrow = "date64" => t = Temporal!DirectDateTime2FromDate64(v.n)
          BY <1>2, <4>1 DEF Temporal!TokenCell, Temporal!Supported, Temporal!DateTime2Cell,
             Temporal!DateTime2FromDate64, Temporal!DirectDateTime2FromDate64
        <5> QED
          BY <4>1, <5>1, <5>2, <5>3 DEF Temporal!MeasureDate
      <4>2. CASE field.arrow = "time"
        <5>1. m = Temporal!MeasureTime(v.n)
          BY <1>2, <2>2, <4>2 DEF Temporal!MeasureCell, Temporal!Supported
        <5>2. t = Temporal!TimeFromArrow(field.unit, v.n, policy)
          BY <1>2, <4>2 DEF Temporal!TokenCell, Temporal!Supported
        <5> QED
          BY <5>1, <5>2 DEF Temporal!MeasureTime
      <4>3. CASE field.arrow = "timestamp" /\ field.target = "datetimeoffset"
        <5>1. m = Temporal!MeasureDateTimeOffset(v.n) /\ ~Temporal!IsZoneFree(field.zone)
          BY <1>2, <2>2, <4>3 DEF Temporal!MeasureCell, Temporal!Supported
        <5>2. t = Temporal!DateTimeOffsetFromTimestamp(field.unit, v.n, policy, field.zone)
          BY <1>2, <4>3 DEF Temporal!TokenCell, Temporal!DateTimeOffsetCell
        <5> QED
          BY <5>1, <5>2 DEF Temporal!MeasureDateTimeOffset, Temporal!ZoneForDateTimeOffset,
             Temporal!IsOk, Temporal!Ok
      <4>4. CASE field.arrow = "timestamp" /\ field.target \in {"datetime", "datetime2"}
        <5>1. m = Temporal!MeasureTimestamp(v.n)
          BY <1>2, <2>2, <4>4 DEF Temporal!MeasureCell
        <5>2. t = Temporal!DirectTimestamp(field, v.n, policy, rounding)
          BY <1>2, <2>2, <4>4 DEF Temporal!TokenCell, Temporal!DateTimeCell,
             Temporal!DateTime2Cell, Temporal!DirectTimestamp
        <5> QED
          BY <5>1, <5>2 DEF Temporal!MeasureTimestamp
      <4> QED
        BY <4>1, <4>2, <4>3, <4>4 DEF Temporal!Supported
    <3>2. m.code = t.code
      BY <3>1 DEF Temporal!MeasuredLen, Temporal!IsOk, Temporal!Ok
    <3> QED
      BY <3>2
  <2> QED
    BY <2>1, <2>2
<1> QED
  BY <1>1, <1>2

-----------------------------------------------------------------------------
(* Numbers *)

NumericTokens ==
    [r \in DOMAIN column |->
        Numeric!TokenCell(field.arrow, target.value, field.nullable, column[r])]
NumericLengths == [r \in DOMAIN column |-> Numeric!MeasureCell(column[r])]

NumericInv ==
    /\ field \in NumericFields /\ policy \in NumericPolicies
    /\ target = Numeric!Undecided \/ target = Numeric!PlanField(field.arrow, policy)
    /\ tokens # Pending =>
          /\ target.code = "ok" /\ column \in NumericColumns(field.arrow)
          /\ Ends(NumericTokens, Len(column), tokens)
    /\ \/ encoding = Numeric!Undecided
       \/ tokens # Pending /\ encoding = Numeric!DirectSupport(field.arrow, target.value)
    /\ lengths # Pending =>
          encoding.code = "ok" /\ tokens # Pending /\ Ends(NumericLengths, Len(column), lengths)

LEMMA NumericSlots ==
    ASSUME field \in NumericFields, column \in NumericColumns(field.arrow)
    PROVE  /\ DOMAIN column = 1..Len(column) /\ Len(column) \in Nat
           /\ \A r \in DOMAIN column : IsNumericSlot(field.arrow, column[r])
<1>1. IsColumn(column) /\ \A r \in DOMAIN column : IsNumericSlot(field.arrow, column[r])
  BY ValuesAssumption DEF NumericAssumption
<1> QED
  BY <1>1 DEF IsColumn

LEMMA NumericFacts ==
    ASSUME field \in NumericFields
    PROVE  /\ field.nullable \in BOOLEAN
           /\ field.arrow.name \in PlainTypes \cup DecimalNames
           /\ ScaleLimit \in Nat \ {0} /\ UInt64Digits \in Nat \ {0}
           /\ NumberBytes \in Nat \ {0} /\ Ten \in Nat \ {0}
           /\ NumberBytes ^ 8 \in Int /\ Ten ^ UInt64Digits \in Int
           /\ NumberBytes ^ 8 <= Ten ^ UInt64Digits
<1>1. /\ field.nullable \in BOOLEAN /\ field.arrow.name \in PlainTypes \cup DecimalNames
      /\ Numeric!DigitsAssumption
  BY ValuesAssumption DEF NumericAssumption
<1> QED
  BY <1>1 DEF Numeric!DigitsAssumption

\* A mapping with an encoding: the cell is measured if and only if it
\* converts, and fails with the same code.
LEMMA NumericCellsAgree ==
    ASSUME field \in NumericFields, NEW v, IsNumericSlot(field.arrow, v),
           encoding = Numeric!DirectSupport(field.arrow, target.value), encoding.code = "ok"
    PROVE  Numeric!TokenCell(field.arrow, target.value, field.nullable, v).code
               = Numeric!MeasureCell(v).code
<1> DEFINE t == Numeric!TokenCell(field.arrow, target.value, field.nullable, v)
           m == Numeric!MeasureCell(v)
<1>1. CASE v = Numeric!Null
  <2>1. t.code = IF field.nullable THEN "ok" ELSE "NullInNonNullableColumn"
    BY <1>1 DEF Numeric!TokenCell, Numeric!Ok, Numeric!Fail
  <2>2. m.code = IF field.nullable THEN "ok" ELSE "NullInNonNullableColumn"
    BY <1>1 DEF Numeric!MeasureCell, Numeric!NullLen, Numeric!Ok, Numeric!Fail
  <2> QED
    BY <2>1, <2>2
<1>2. CASE v # Numeric!Null
  <2>1. \/ v.kind = "nonfinite" /\ Numeric!IsFloat(field.arrow)
        \/ v.kind = "number" /\ IsNumberOf(field.arrow.name, v.n)
    BY <1>2 DEF IsNumericSlot, Numbers!NonFinite, Numbers!Number, Numbers!Null, Numeric!Null,
       Numbers!IsFloat, Numeric!IsFloat
  <2>2. CASE encoding = Numeric!Ok("primitive")
    <3>1. Numeric!IsOk(Numeric!ClassifyPrimitive(field.arrow, target.value))
      <4>1. Numeric!IsOk(Numeric!ClassifyUInt64(field.arrow, target.value))
               => Numeric!ClassifyUInt64(field.arrow, target.value) # Numeric!Ok("primitive")
        BY DEF Numeric!ClassifyUInt64, Numeric!Ok, Numeric!Unsupported, Numeric!Fail, Numeric!IsOk
      <4> QED
        BY <2>2, <4>1 DEF Numeric!DirectSupport, Numeric!Ok, Numeric!Fail
    <3>2. target.value.name # "decimal"
      BY <3>1 DEF Numeric!ClassifyPrimitive, Numeric!PrimitivePairs, Numeric!Unsupported,
         Numeric!Fail, Numeric!IsOk
    <3>3. t = Numeric!PrimitiveValue(field.arrow, target.value, v)
      BY <1>2, <3>2 DEF Numeric!TokenCell
    <3>4. m = Numeric!MeasurePrimitive(v)
      BY <1>2, <2>2 DEF Numeric!MeasureCell, Numeric!Ok
    <3>5. CASE v.kind = "nonfinite"
      <4>1. field.arrow.name # "uint64"
        BY <2>1, <3>5 DEF Numeric!IsFloat
      <4>2. t.code = "NonFiniteFloat"
        BY <3>1, <3>3, <3>5, <4>1 DEF Numeric!PrimitiveValue, Numeric!Fail
      <4>3. m.code = "NonFiniteFloat"
        BY <3>4, <3>5, <4>1 DEF Numeric!MeasurePrimitive, Numeric!CheckedPrimitive, Numeric!Fail,
           Numeric!IsOk
      <4> QED
        BY <4>2, <4>3
    <3>6. CASE v.kind # "nonfinite"
      <4> DEFINE rejected == field.arrow.name = "uint64" /\ v.n \notin Numeric!IntRange(8)
      <4>1. t.code = IF rejected THEN "IntegerOutOfRange" ELSE "ok"
        BY <3>1, <3>3, <3>6 DEF Numeric!PrimitiveValue, Numeric!Fail, Numeric!Ok
      <4>2. m.code = IF rejected THEN "IntegerOutOfRange" ELSE "ok"
        BY <3>4, <3>6 DEF Numeric!MeasurePrimitive, Numeric!CheckedPrimitive,
           Numeric!UInt64CheckedBigInt, Numeric!Fail, Numeric!Ok, Numeric!IsOk
      <4> QED
        BY <4>1, <4>2
    <3> QED
      BY <3>5, <3>6
  <2>3. CASE encoding = Numeric!Ok("decimal")
    <3>1. Numeric!IsOk(Numeric!ClassifyDecimal(field.arrow, target.value))
      <4>1. Numeric!IsOk(Numeric!ClassifyUInt64(field.arrow, target.value))
               => Numeric!ClassifyUInt64(field.arrow, target.value) # Numeric!Ok("decimal")
        BY DEF Numeric!ClassifyUInt64, Numeric!Ok, Numeric!Unsupported, Numeric!Fail, Numeric!IsOk
      <4> QED
        BY <2>3, <4>1 DEF Numeric!DirectSupport, Numeric!Ok, Numeric!Fail
    <3>2. target.value.name = "decimal" /\ Numeric!IsDecimal(field.arrow)
      BY <3>1 DEF Numeric!ClassifyDecimal, Numeric!DecimalTarget, Numeric!Unsupported,
         Numeric!Fail, Numeric!Ok, Numeric!IsOk
    <3>3. t = Numeric!DecimalValue(field.arrow, target.value, v.n)
      BY <1>2, <3>2 DEF Numeric!TokenCell, Numeric!IsDecimal
    <3>4. m = Numeric!MeasureDecimal(v.n)
      BY <1>2, <2>3 DEF Numeric!MeasureCell, Numeric!Ok
    <3> DEFINE normal == Numeric!NormalizeNegativeScale(v.n, field.arrow.scale)
    <3>5. normal.code = "ok" \/ normal.code = "DecimalOutOfRange"
      BY DEF Numeric!NormalizeNegativeScale, Numeric!CheckedProduct, Numeric!Ok, Numeric!Fail
    <3> DEFINE code == IF Numeric!FitsI128(v.n) /\ normal.code = "ok"
                           /\ Numeric!FitsPrecision(normal.value, target.value.precision)
                       THEN "ok" ELSE "DecimalOutOfRange"
    <3>6. t.code = code
      BY <3>1, <3>3, <3>5 DEF Numeric!DecimalValue, Numeric!DecimalWithShape, Numeric!Fail,
         Numeric!Ok, Numeric!IsOk
    <3>7. Numeric!NormalizedDecimal(field.arrow, target.value, v.n).code = code
      BY <3>5 DEF Numeric!NormalizedDecimal, Numeric!Fail, Numeric!IsOk
    <3>8. m.code = code
      BY <3>4, <3>7 DEF Numeric!MeasureDecimal, Numeric!Ok, Numeric!IsOk
    <3> QED
      BY <3>6, <3>8
  <2>4. CASE ~ (encoding = Numeric!Ok("primitive") \/ encoding = Numeric!Ok("decimal"))
    <3>1. /\ encoding = Numeric!ClassifyUInt64(field.arrow, target.value)
          /\ ~Numeric!IsOk(Numeric!ClassifyPrimitive(field.arrow, target.value))
      BY <2>4 DEF Numeric!DirectSupport, Numeric!Fail
    <3>2. /\ field.arrow.name = "uint64" /\ encoding = Numeric!Ok("decimal20_0")
          /\ target.value = Numeric!Type("decimal", UInt64Digits, 0)
      BY <3>1 DEF Numeric!ClassifyUInt64, Numeric!ClassifyPrimitive, Numeric!PrimitivePairs,
         Numeric!Unsupported, Numeric!Fail, Numeric!Ok, Numeric!IsOk
    <3>3. m.code = "ok"
      BY <1>2, <3>2 DEF Numeric!MeasureCell, Numeric!MeasureUInt64Decimal, Numeric!Ok
    <3>4. /\ target.value.name = "decimal" /\ target.value.scale = 0
          /\ target.value.precision = UInt64Digits
      BY <3>2 DEF Numeric!Type
    <3>5. t = Numeric!DecimalOfUInt64(field.arrow, target.value, v.n)
      BY <1>2, <3>2, <3>4 DEF Numeric!TokenCell
    <3>6. v.n \in 0 .. NumberBytes ^ 8 - 1
      BY <2>1, <3>2 DEF IsNumberOf, Numeric!IsFloat, Numbers!UIntRange
    <3>7. Numeric!FitsPrecision(v.n, UInt64Digits)
      BY <3>6, NumericFacts DEF Numeric!FitsPrecision
    <3>8. t = Numeric!DecimalWithShape(v.n, target.value)
      BY <3>1, <3>2, <3>4, <3>5, NumericFacts DEF Numeric!DecimalOfUInt64, Numeric!IsOk
    <3>9. t.code = "ok"
      BY <3>4, <3>7, <3>8 DEF Numeric!DecimalWithShape, Numeric!Ok
    <3> QED
      BY <3>3, <3>9
  <2> QED
    BY <2>2, <2>3, <2>4
<1> QED
  BY <1>1, <1>2

\* A mapping without an encoding: the token-row path converts nulls only.
LEMMA UnsupportedTakesNulls ==
    ASSUME field \in NumericFields, NEW v, IsNumericSlot(field.arrow, v), v # Numeric!Null,
           Numeric!DirectSupport(field.arrow, target.value).code # "ok"
    PROVE  Numeric!TokenCell(field.arrow, target.value, field.nullable, v).code # "ok"
<1> DEFINE t == Numeric!TokenCell(field.arrow, target.value, field.nullable, v)
<1>1. /\ ~Numeric!IsOk(Numeric!ClassifyPrimitive(field.arrow, target.value))
      /\ ~Numeric!IsOk(Numeric!ClassifyDecimal(field.arrow, target.value))
      /\ ~Numeric!IsOk(Numeric!ClassifyUInt64(field.arrow, target.value))
  BY DEF Numeric!DirectSupport, Numeric!Ok, Numeric!IsOk
<1>2. CASE target.value.name # "decimal"
  BY <1>1, <1>2 DEF Numeric!TokenCell, Numeric!PrimitiveValue, Numeric!Fail
<1>3. CASE target.value.name = "decimal" /\ field.arrow.name = "uint64"
  <2>1. t = Numeric!DecimalOfUInt64(field.arrow, target.value, v.n)
    BY <1>3 DEF Numeric!TokenCell
  <2> QED
    BY <1>1, <2>1 DEF Numeric!DecimalOfUInt64, Numeric!IsOk, Numeric!Fail
<1>4. CASE target.value.name = "decimal" /\ field.arrow.name # "uint64"
  <2>1. t = Numeric!DecimalValue(field.arrow, target.value, v.n)
    BY <1>4 DEF Numeric!TokenCell
  <2> QED
    BY <1>1, <2>1 DEF Numeric!DecimalValue, Numeric!IsOk
<1> QED
  BY <1>2, <1>3, <1>4

-----------------------------------------------------------------------------
(* Strings and binaries *)

LEMMA InductionTo ==
    ASSUME NEW n \in Nat, NEW S, 0 \in S, \A k \in 0..(n - 1) : k \in S => k + 1 \in S
    PROVE  0..n \subseteq S
<1> DEFINE B == 0..n \ S
<1>1. SUFFICES ASSUME B # {} PROVE FALSE
  OBVIOUS
<1>2. B \subseteq Nat
  OBVIOUS
<1>3. PICK m \in B : \A k \in B : m <= k
  <2> HIDE DEF B
  <2> QED
    BY <1>1, <1>2, LeastElement
<1>4. m # 0 /\ m - 1 \in 0..(n - 1) /\ m - 1 + 1 = m
  OBVIOUS
<1>5. m - 1 \in S
  BY <1>3, <1>4
<1> QED
  BY <1>4, <1>5

\* f joins the first k pieces of d, one after the other.
Joins(f, d, k) == f[0] = << >> /\ \A i \in 1..k : f[i] = f[i - 1] \o d[i]

LEMMA JoinsExist ==
    ASSUME NEW S, NEW n \in Nat, NEW d, d \in [1..n -> Seq(S)]
    PROVE  \E f \in [0..n -> Seq(S)] : Joins(f, d, n)
<1> DEFINE P == {k \in 0..n : \E f \in [0..k -> Seq(S)] : Joins(f, d, k)}
<1>1. 0 \in P
  <2> DEFINE f == [i \in 0..0 |-> << >>]
  <2>1. f \in [0..0 -> Seq(S)] /\ Joins(f, d, 0)
    BY DEF Joins
  <2> HIDE DEF f
  <2> QED
    BY <2>1
<1>2. ASSUME NEW k \in 0..(n - 1), k \in P PROVE k + 1 \in P
  <2>1. PICK f \in [0..k -> Seq(S)] : Joins(f, d, k)
    BY <1>2
  <2> DEFINE h == [i \in 0..(k + 1) |-> IF i = k + 1 THEN f[k] \o d[k + 1] ELSE f[i]]
  <2>2. f[k] \in Seq(S) /\ d[k + 1] \in Seq(S)
    BY <2>1
  <2>3. f[k] \o d[k + 1] \in Seq(S)
    BY <2>2, ConcatProperties
  <2>4. h \in [0..(k + 1) -> Seq(S)] /\ h[0] = << >>
    BY <2>1, <2>3 DEF Joins
  <2>5. ASSUME NEW i \in 1..(k + 1) PROVE h[i] = h[i - 1] \o d[i]
    <3>1. CASE i = k + 1
      <4>1. h[k + 1] = f[k] \o d[k + 1] /\ h[k] = f[k]
        <5>1. k \in 0..(k + 1) /\ k + 1 \in 0..(k + 1) /\ k # k + 1
          OBVIOUS
        <5> QED
          BY <5>1
      <4>2. i - 1 = k
        BY <3>1
      <4> HIDE DEF h
      <4> QED
        BY <3>1, <4>1, <4>2
    <3>2. CASE i # k + 1
      <4>1. i \in 1..k /\ h[i] = f[i] /\ h[i - 1] = f[i - 1]
        BY <3>2
      <4> HIDE DEF h
      <4> QED
        BY <2>1, <4>1 DEF Joins
    <3> QED
      BY <3>1, <3>2
  <2> HIDE DEF h
  <2>6. Joins(h, d, k + 1)
    BY <2>4, <2>5 DEF Joins
  <2>7. k + 1 \in 0..n
    OBVIOUS
  <2> QED
    BY <2>4, <2>6, <2>7
<1>3. 0..n \subseteq P
  <2> HIDE DEF P
  <2> QED
    BY <1>1, <1>2, InductionTo
<1>4. n \in 0..n
  OBVIOUS
<1> QED
  BY <1>3, <1>4

\* FlattenSeq joins all pieces.
LEMMA FlattenJoins ==
    ASSUME NEW S, NEW n \in Nat, NEW d, d \in [1..n -> Seq(S)],
           NEW f \in [0..n -> Seq(S)], Joins(f, d, n)
    PROVE  Text!FlattenSeq(d) = f[n]
<1> DEFINE Grows(h) == h = [i \in 1..n |-> IF i = 1 THEN d[i] ELSE h[i - 1] \o d[i]]
           flatten == CHOOSE h : Grows(h)
<1>1. Len(d) = n
  OBVIOUS
<1>2. CASE n = 0
  <2>1. Text!FlattenSeq(d) = d /\ d = << >>
    BY <1>1, <1>2 DEF Text!FlattenSeq
  <2> QED
    BY <1>2, <2>1 DEF Joins
<1>3. CASE n # 0
  <2> DEFINE g == [i \in 1..n |-> f[i]]
  <2>2. f[1] = d[1]
    <3>1. 1 \in 1..n /\ 1 - 1 = 0 /\ d[1] \in Seq(S)
      BY <1>3
    <3>2. PICK i \in 1..n : i = 1
      BY <3>1
    <3>3. f[0] = << >> /\ f[i] = f[i - 1] \o d[i]
      BY DEF Joins
    <3>4. f[1] = << >> \o d[1]
      BY <3>1, <3>2, <3>3
    <3> QED
      BY <3>1, <3>4, ConcatEmptySeq
  <2>3. ASSUME NEW i \in 1..n PROVE g[i] = IF i = 1 THEN d[i] ELSE g[i - 1] \o d[i]
    <3>1. i # 1 => i - 1 \in 1..n
      OBVIOUS
    <3> QED
      BY <2>2, <3>1 DEF Joins
  <2>4. Grows(g)
    <3>1. g = [i \in 1..n |-> g[i]]
      OBVIOUS
    <3> HIDE DEF g
    <3> QED
      BY <2>3, <3>1
  <2>5. Grows(flatten)
    <3> HIDE DEF Grows, g
    <3> QED
      BY <2>4, Zenon
  <2>6. \A i \in 1..n : flatten[i] = IF i = 1 THEN d[i] ELSE flatten[i - 1] \o d[i]
    <3> HIDE DEF flatten
    <3> QED
      BY <2>5
  <2>7. Text!FlattenSeq(d) = flatten[n]
    BY <1>1, <1>3, Zenon DEF Text!FlattenSeq
  <2> HIDE DEF flatten
  <2> DEFINE P == {k \in 0..n : k = 0 \/ flatten[k] = f[k]}
  <2>8. 0 \in P
    OBVIOUS
  <2>9. ASSUME NEW k \in 0..(n - 1), k \in P PROVE k + 1 \in P
    <3>1. PICK i \in 1..n : i = k + 1
      OBVIOUS
    <3>2. CASE k = 0
      <4>1. i = 1 /\ k + 1 \in 0..n
        BY <3>1, <3>2
      <4>2. flatten[i] = d[i]
        BY <2>6, <4>1
      <4> QED
        BY <2>2, <3>1, <4>1, <4>2
    <3>3. CASE k # 0
      <4>1. i # 1 /\ i - 1 = k /\ flatten[k] = f[k]
        BY <2>9, <3>1, <3>3
      <4>2. flatten[i] = f[i]
        BY <2>6, <4>1 DEF Joins
      <4> QED
        BY <3>1, <4>2
    <3> QED
      BY <3>2, <3>3
  <2>10. 0..n \subseteq P
    <3> HIDE DEF P
    <3> QED
      BY <2>8, <2>9, InductionTo
  <2>11. n \in P
    <3> HIDE DEF P
    <3> QED
      BY <2>10
  <2> QED
    BY <1>3, <2>7, <2>11
<1> QED
  BY <1>2, <1>3

LEMMA FlattenIsSeq ==
    ASSUME NEW S, NEW n \in Nat, NEW d, d \in [1..n -> Seq(S)]
    PROVE  Text!FlattenSeq(d) \in Seq(S)
<1>1. PICK f \in [0..n -> Seq(S)] : Joins(f, d, n)
  BY JoinsExist
<1>2. Text!FlattenSeq(d) = f[n]
  BY <1>1, FlattenJoins
<1> QED
  BY <1>1, <1>2

\* Joined pairs are twice as long as there are pairs.
LEMMA PairsFlatten ==
    ASSUME NEW S, NEW n \in Nat, NEW d, d \in [1..n -> Seq(S)], \A i \in 1..n : Len(d[i]) = 2
    PROVE  Len(Text!FlattenSeq(d)) = 2 * n
<1>1. PICK f \in [0..n -> Seq(S)] : Joins(f, d, n)
  BY JoinsExist
<1> DEFINE P == {k \in 0..n : Len(f[k]) = 2 * k}
<1>2. 0 \in P
  BY <1>1 DEF Joins
<1>3. ASSUME NEW k \in 0..(n - 1), k \in P PROVE k + 1 \in P
  <2>1. PICK i \in 1..n : i = k + 1 /\ i - 1 = k
    OBVIOUS
  <2>2. PICK a, b : a = f[k] /\ b = d[i]
    OBVIOUS
  <2>3. a \in Seq(S) /\ b \in Seq(S) /\ Len(b) = 2 /\ Len(a) = 2 * k
    BY <1>1, <1>3, <2>2
  <2>4. Len(a \o b) = Len(a) + Len(b)
    BY ONLY <2>3, ConcatProperties
  <2>5. f[i] = a \o b
    BY <1>1, <2>1, <2>2 DEF Joins
  <2> QED
    BY <2>1, <2>3, <2>4, <2>5
<1>4. 0..n \subseteq P
  <2> HIDE DEF P
  <2> QED
    BY <1>2, <1>3, InductionTo
<1>5. Len(f[n]) = 2 * n
  BY <1>4
<1> QED
  BY <1>1, <1>5, FlattenJoins

\* A UTF-16 code unit is written in two bytes.
LEMMA Utf16Length ==
    ASSUME NEW text, Text!UnitCount(text) \in Nat
    PROVE  Len(Text!Utf16Bytes(text)) = 2 * Text!UnitCount(text)
<1> DEFINE n == Text!UnitCount(text)
           d == [i \in 1..n |-> Text!LittleEndian(Text!Utf16(text)[i], 2)]
           S == UNION {{d[i][1], d[i][2]} : i \in 1..n}
<1>1. ASSUME NEW i \in 1..n PROVE d[i] \in Seq(S) /\ Len(d[i]) = 2
  <2>1. PICK b : b = d[i]
    OBVIOUS
  <2>2. b = [k \in 1..2 |-> b[k]]
    BY <2>1 DEF Text!LittleEndian
  <2>3. b[1] \in S /\ b[2] \in S
    BY <2>1
  <2>4. b \in [1..2 -> S]
    <3> HIDE DEF S, d
    <3>1. \A k \in 1..2 : b[k] \in S
      BY <2>3
    <3> QED
      BY <2>2, <3>1
  <2> HIDE DEF S, d
  <2>5. b \in Seq(S)
    <3>1. [1..2 -> S] \in {[1..k -> S] : k \in Nat}
      OBVIOUS
    <3> QED
      BY ONLY <2>4, <3>1, SeqDef
  <2>6. Len(b) = 2
    <3>1. Len(b) \in Nat /\ DOMAIN b = 1..Len(b)
      BY ONLY <2>5, LenProperties
    <3>2. DOMAIN b = 1..2
      BY ONLY <2>4
    <3>3. PICK k \in Nat : k = Len(b)
      BY ONLY <3>1
    <3>4. 1..k = 1..2
      BY ONLY <3>1, <3>2, <3>3
    <3>5. k = 2
      <4>1. 2 \in 1..k /\ (k # 0 => k \in 1..2)
        BY ONLY <3>4
      <4> QED
        BY ONLY <4>1
    <3> QED
      BY ONLY <3>3, <3>5
  <2> QED
    BY <2>1, <2>5, <2>6
<1>2. d \in [1..n -> Seq(S)]
  <2>1. d = [i \in 1..n |-> d[i]]
    OBVIOUS
  <2> HIDE DEF d, S, n
  <2> QED
    BY <1>1, <2>1
<1>3. Len(Text!FlattenSeq(d)) = 2 * n
  <2> HIDE DEF d, S, n
  <2>1. n \in Nat
    BY DEF n
  <2> QED
    BY <1>1, <1>2, <2>1, PairsFlatten
<1> QED
  BY <1>3 DEF Text!Utf16Bytes

TextTokens == [r \in DOMAIN column |-> Text!TokenCell(column[r])]
TextLengths == [r \in DOMAIN column |-> Text!MeasureCell(column[r])]

TextInv ==
    /\ field \in TextFields /\ policy \in TextPolicies
    /\ target = Text!Undecided \/ target = Text!PlanField
    /\ tokens # Pending =>
          /\ target.code = "ok" /\ column \in TextColumns(field.arrow, field.length)
          /\ Ends(TextTokens, Len(column), tokens)
    /\ encoding # "none" => tokens # Pending
    /\ lengths # Pending => tokens # Pending /\ Ends(TextLengths, Len(column), lengths)

\* What a planned field says of the cells of a batch.
TextPlanned ==
    /\ field.nullable \in BOOLEAN
    /\ target.value.limit \in Nat \cup {Text!Unlimited}
    /\ \/ field.arrow \in Strings /\ target.value.name = "nvarchar"
       \/ field.arrow \in Binaries /\ target.value.name = "varbinary"
       \/ /\ field.arrow = "fixed_size_binary" /\ target.value.name = "binary"
          /\ target.value.limit = field.length /\ field.length \in 1 .. MaxBinary

LEMMA TextPlans ==
    ASSUME field \in TextFields, policy \in TextPolicies,
           target = Text!PlanField, target.code = "ok"
    PROVE  TextPlanned
<1>1. /\ field.nullable \in BOOLEAN
      /\ field.arrow \in Strings \cup Binaries \cup {"fixed_size_binary"}
      /\ policy.form \in {"max", "bounded", "observed"} /\ policy.length \in Nat
      /\ MaxBinary \in Nat
  BY ValuesAssumption DEF TextAssumption, Text!ByteAssumption
<1>2. ASSUME NEW name, target = Text!PlanText(name)
      PROVE  target.value.name = name /\ target.value.limit \in Nat \cup {Text!Unlimited}
  BY <1>1, <1>2 DEF Text!PlanText, Text!Ok, Text!Fail, Text!Target
<1>3. CASE field.arrow \in Strings
  <2>1. target = Text!PlanText("nvarchar")
    BY <1>3 DEF Text!PlanField, Strings, Text!Strings, Text!Binaries
  <2> QED
    BY <1>1, <1>2, <1>3, <2>1 DEF TextPlanned
<1>4. CASE field.arrow \in Binaries
  <2>1. target = Text!PlanText("varbinary")
    BY <1>4 DEF Text!PlanField, Binaries, Text!Strings, Text!Binaries
  <2> QED
    BY <1>1, <1>2, <1>4, <2>1 DEF TextPlanned
<1>5. CASE field.arrow = "fixed_size_binary"
  <2>1. target = Text!PlanFixedSizeBinary(field.length)
    BY <1>5 DEF Text!PlanField, Text!Strings, Text!Binaries
  <2>2. field.length \in 1 .. MaxBinary
    BY <2>1 DEF Text!PlanFixedSizeBinary, Text!Fail
  <2>3. target.value = Text!Target("binary", field.length)
    BY <2>1, <2>2 DEF Text!PlanFixedSizeBinary, Text!Ok
  <2> QED
    BY <1>1, <1>5, <2>2, <2>3 DEF TextPlanned, Text!Target
<1> QED
  BY <1>1, <1>3, <1>4, <1>5

LEMMA TextSlots ==
    ASSUME field \in TextFields, TextPlanned, column \in TextColumns(field.arrow, field.length)
    PROVE  /\ DOMAIN column = 1..Len(column) /\ Len(column) \in Nat
           /\ \A r \in DOMAIN column : IsTextSlot(field.arrow, field.length, column[r])
<1>1. field.arrow # "fixed_size_binary" \/ field.length \in 1 .. MaxBinary
  BY DEF TextPlanned, Strings, Binaries
<1>2. /\ IsColumn(column)
      /\ \A r \in DOMAIN column : IsTextSlot(field.arrow, field.length, column[r])
  BY <1>1, ValuesAssumption DEF TextAssumption
<1> QED
  BY <1>2 DEF IsColumn

\* The cells the token-row path takes are those within the limit, and the
\* direct path takes those of them that have a TDS cell.
TextFits(slot) ==
    IF slot = Text!Null THEN field.nullable
    ELSE \/ target.value.limit = Text!Unlimited
         \/ IF target.value.name = "nvarchar"
            THEN Len(Text!FlattenSeq(slot.v)) <= target.value.limit
            ELSE Len(slot.v) <= target.value.limit

LEMMA TextCellsAgree ==
    ASSUME TextPlanned, NEW v, IsTextSlot(field.arrow, field.length, v)
    PROVE  LET t == Text!TokenCell(v)
               m == Text!MeasureCell(v)
           IN  /\ t.code = "ok" <=> TextFits(v)
               /\ m.code = "DirectEncodingInvalidPayload" =>
                      t.code = "ok" /\ ~Text!HasCell(v) /\ target.value.name # "binary"
               /\ m.code # "DirectEncodingInvalidPayload" =>
                      /\ m.code = t.code
                      /\ t.code = "ok" => Text!HasCell(v) \/ target.value.name = "binary"
<1> DEFINE t == Text!TokenCell(v)
           m == Text!MeasureCell(v)
           limit == target.value.limit
           name == target.value.name
<1>1. CASE v = Text!Null
  <2>1. field.nullable \in BOOLEAN
    BY DEF TextPlanned
  <2>2. t.code = IF field.nullable THEN "ok" ELSE "NullInNonNullableColumn"
    BY <1>1, <2>1 DEF Text!TokenCell, Text!Ok, Text!Fail
  <2>3. m.code = IF field.nullable THEN "ok" ELSE "NullInNonNullableColumn"
    BY <1>1, <2>1 DEF Text!MeasureCell, Text!NullCellLen, Text!Ok, Text!Fail
  <2> QED
    BY <1>1, <2>2, <2>3 DEF TextFits, Text!HasCell
<1>2. CASE v # Text!Null
  <2>0. /\ Text!MaxBounded \in Int /\ Text!MaxChunk \in Int
        /\ limit \in Nat \cup {Text!Unlimited} /\ Text!Unlimited = -1
    <3>1. TextBytes \in Nat /\ TextBytes > 1
      BY ValuesAssumption DEF TextAssumption, Text!ByteAssumption
    <3> QED
      BY <3>1 DEF Text!MaxBounded, Text!MaxChunk, Text!BoundedPrefix, Text!ChunkPrefix,
         Text!Unlimited, TextPlanned
  <2>1. CASE field.arrow \in Strings /\ name = "nvarchar"
    <3>1. v.v \in Seq(Seq(0 .. TextBytes ^ 2 - 1))
      BY <1>2, <2>1 DEF IsTextSlot, Strings, Binaries
    <3> DEFINE n == Text!UnitCount(v.v)
    <3>2. n \in Nat
      <4>1. PICK S, d : S = 0 .. TextBytes ^ 2 - 1 /\ d = v.v
        OBVIOUS
      <4>2. Len(d) \in Nat /\ d \in [1..Len(d) -> Seq(S)]
        BY <3>1, <4>1, LenProperties
      <4>3. Text!FlattenSeq(d) \in Seq(S)
        BY ONLY <4>2, FlattenIsSeq
      <4>4. Len(Text!FlattenSeq(d)) \in Nat
        BY <4>3, LenProperties
      <4> QED
        BY <4>1, <4>4 DEF Text!UnitCount, Text!Utf16
    <3>3. Len(Text!Written(v).v) = 2 * n
      BY <1>2, <2>1, <3>2, Utf16Length DEF Text!Written, Text!Value
    <3>4. n = Len(Text!FlattenSeq(v.v))
      BY DEF Text!UnitCount, Text!Utf16
    <3>5. t = Text!NVarCharCell(v.v) /\ m = Text!MeasureNVarChar(v.v)
      BY <1>2, <2>1 DEF Text!TokenCell, Text!MeasureCell
    <3> HIDE DEF n
    <3>6. CASE limit = Text!Unlimited
      <4>1. t.code = "ok"
        BY <3>5, <3>6 DEF Text!NVarCharCell, Text!Exceeds, Text!Ok
      <4>2. m = Text!PlpCellLen(2 * n)
        BY <3>5, <3>6 DEF Text!MeasureNVarChar, Text!Exceeds, n
      <4>3. m.code = IF 2 * n > Text!MaxChunk THEN "DirectEncodingInvalidPayload" ELSE "ok"
        BY <4>2 DEF Text!PlpCellLen, Text!Ok, Text!Fail
      <4>4. Text!HasCell(v) <=> ~ (2 * n > Text!MaxChunk)
        BY <1>2, <2>0, <3>2, <3>3, <3>6 DEF Text!HasCell
      <4> QED
        BY <1>2, <2>1, <3>6, <4>1, <4>3, <4>4 DEF TextFits
    <3>7. CASE limit # Text!Unlimited
      <4>1. t.code = IF n > limit THEN "ValueTooLong" ELSE "ok"
        BY <3>5, <3>7 DEF Text!NVarCharCell, Text!Exceeds, Text!Ok, Text!Fail, n
      <4>2. m = IF n > limit THEN Text!Fail("ValueTooLong") ELSE Text!BoundedCellLen(2 * n)
        BY <3>5, <3>7 DEF Text!MeasureNVarChar, Text!Exceeds, n
      <4>3. m.code = IF n > limit THEN "ValueTooLong"
                     ELSE IF 2 * n > Text!MaxBounded THEN "DirectEncodingInvalidPayload"
                     ELSE "ok"
        BY <4>2 DEF Text!BoundedCellLen, Text!Ok, Text!Fail
      <4>4. Text!HasCell(v) <=> ~ (2 * n > Text!MaxBounded)
        BY <1>2, <2>0, <3>2, <3>3, <3>7 DEF Text!HasCell
      <4>5. TextFits(v) <=> ~ (n > limit)
        BY <1>2, <2>0, <2>1, <3>2, <3>4, <3>7 DEF TextFits
      <4> QED
        BY <2>1, <4>1, <4>3, <4>4, <4>5
    <3> QED
      BY <3>6, <3>7
  <2>2. CASE field.arrow \in Binaries /\ name = "varbinary"
    <3> DEFINE n == Len(v.v)
    <3>1. n \in Nat
      <4>1. v.v \in Seq(0 .. TextBytes - 1)
        BY <1>2, <2>2 DEF IsTextSlot, Strings, Binaries
      <4> QED
        BY <4>1
    <3>2. Len(Text!Written(v).v) = n
      BY <1>2, <2>2 DEF Text!Written
    <3>3. t = Text!VarBinaryCell(v.v) /\ m = Text!MeasureVarBinary(v.v)
      BY <1>2, <2>2 DEF Text!TokenCell, Text!MeasureCell
    <3> HIDE DEF n
    <3>4. CASE limit = Text!Unlimited
      <4>1. t.code = "ok"
        BY <3>3, <3>4 DEF Text!VarBinaryCell, Text!Exceeds, Text!Ok
      <4>2. m = Text!PlpCellLen(n)
        BY <3>3, <3>4 DEF Text!MeasureVarBinary, Text!Exceeds, n
      <4>3. m.code = IF n > Text!MaxChunk THEN "DirectEncodingInvalidPayload" ELSE "ok"
        BY <4>2 DEF Text!PlpCellLen, Text!Ok, Text!Fail
      <4>4. Text!HasCell(v) <=> ~ (n > Text!MaxChunk)
        BY <1>2, <2>0, <3>1, <3>2, <3>4 DEF Text!HasCell
      <4> QED
        BY <1>2, <2>2, <3>4, <4>1, <4>3, <4>4 DEF TextFits
    <3>5. CASE limit # Text!Unlimited
      <4>1. t.code = IF n > limit THEN "ValueTooLong" ELSE "ok"
        BY <3>3, <3>5 DEF Text!VarBinaryCell, Text!Exceeds, Text!Ok, Text!Fail, n
      <4>2. m = IF n > limit THEN Text!Fail("ValueTooLong") ELSE Text!BoundedCellLen(n)
        BY <3>3, <3>5 DEF Text!MeasureVarBinary, Text!Exceeds, n
      <4>3. m.code = IF n > limit THEN "ValueTooLong"
                     ELSE IF n > Text!MaxBounded THEN "DirectEncodingInvalidPayload"
                     ELSE "ok"
        BY <4>2 DEF Text!BoundedCellLen, Text!Ok, Text!Fail
      <4>4. Text!HasCell(v) <=> ~ (n > Text!MaxBounded)
        BY <1>2, <2>0, <3>1, <3>2, <3>5 DEF Text!HasCell
      <4>5. TextFits(v) <=> ~ (n > limit)
        BY <1>2, <2>0, <2>2, <3>1, <3>5 DEF TextFits, n
      <4> QED
        BY <2>2, <4>1, <4>3, <4>4, <4>5
    <3> QED
      BY <3>4, <3>5
  <2>3. CASE /\ field.arrow = "fixed_size_binary" /\ name = "binary"
             /\ limit = field.length /\ field.length \in 1 .. MaxBinary
    <3>1. Len(v.v) = limit
      BY <1>2, <2>3 DEF IsTextSlot, Strings, Binaries
    <3>2. t.code = "ok"
      BY <1>2, <2>3, <3>1 DEF Text!TokenCell, Text!BinaryCell, Text!Ok
    <3>3. m.code = "ok"
      BY <1>2, <2>3, <3>1 DEF Text!MeasureCell, Text!MeasureFixedSizeBinary, Text!Ok
    <3>4. TextFits(v)
      BY <1>2, <2>0, <2>3, <3>1 DEF TextFits
    <3> QED
      BY <2>3, <3>2, <3>3, <3>4
  <2> QED
    BY <2>1, <2>2, <2>3 DEF TextPlanned
<1> QED
  BY <1>1, <1>2

-----------------------------------------------------------------------------
(* The invariant *)

IInv ==
    \/ family = "temporal" /\ TemporalInv
    \/ family = "numeric" /\ NumericInv
    \/ family = "text" /\ TextInv

LEMMA InitInvariant ==
    ASSUME Init PROVE IInv
<1>1. ASSUME family = "temporal", Temporal!Init PROVE TemporalInv
  <2>1. /\ field \in Mappings /\ Temporal!Supported(field) /\ column \in TemporalColumns(field)
        /\ policy \in TemporalPolicies(field)
        /\ tokens = Pending /\ lengths = Pending
    BY <1>1 DEF Temporal!Init, Temporal!Pending, Pending
  <2>2. IsColumn(column)
    BY <2>1, ValuesAssumption DEF TemporalAssumption
  <2> QED
    BY <2>1, <2>2 DEF TemporalInv, IsColumn
<1>2. ASSUME family = "numeric", Numeric!Init PROVE NumericInv
  BY <1>2 DEF Numeric!Init, NumericInv, Numeric!Pending, Pending
<1>3. ASSUME family = "text", Text!Init PROVE TextInv
  BY <1>3 DEF Text!Init, TextInv, Text!Pending, Pending
<1> QED
  BY <1>1, <1>2, <1>3 DEF Init, IInv

LEMMA TemporalKept ==
    ASSUME UNCHANGED <<field, policy, rounding, column>>
    PROVE  TemporalTokens' = TemporalTokens /\ TemporalLengths' = TemporalLengths
<1>1. TemporalTokens' = TemporalTokens
  BY DEF TemporalTokens
<1>2. TemporalLengths' = TemporalLengths
  BY DEF TemporalLengths, Temporal!MeasureCell, Temporal!MeasureDate, Temporal!MeasureTime,
     Temporal!MeasureTimestamp, Temporal!MeasureDateTimeOffset, Temporal!MeasuredLen
<1> QED
  BY <1>1, <1>2

LEMMA TemporalStep ==
    ASSUME TemporalInv, Temporal!Next PROVE TemporalInv'
<1> USE DEF Temporal!Pending, Pending
<1>1. CASE Temporal!ConvertTokens
  <2>1. /\ tokens' = StopAtFirstFailure(TemporalTokens) /\ tokens = Pending
        /\ UNCHANGED <<field, policy, rounding, column, lengths>>
    BY <1>1 DEF Temporal!ConvertTokens, TemporalTokens, Temporal!StopAtFirstFailure,
       StopAtFirstFailure, Temporal!IsOk, IsOk
  <2>2. DOMAIN TemporalTokens = 1..Len(column) /\ Len(column) \in Nat
    BY DEF TemporalInv, TemporalTokens
  <2>3. Ends(TemporalTokens, Len(column), tokens')
    BY <2>1, <2>2, LoopEnds
  <2>4. lengths = Pending
    BY <2>1 DEF TemporalInv
  <2> QED
    BY <2>1, <2>3, <2>4, TemporalKept DEF TemporalInv
<1>2. CASE Temporal!MeasureColumn
  <2>1. /\ lengths' = StopAtFirstFailure(TemporalLengths) /\ tokens # Pending
        /\ UNCHANGED <<field, policy, rounding, column, tokens>>
    BY <1>2 DEF Temporal!MeasureColumn, TemporalLengths, Temporal!StopAtFirstFailure,
       StopAtFirstFailure, Temporal!IsOk, IsOk
  <2>2. DOMAIN TemporalLengths = 1..Len(column) /\ Len(column) \in Nat
    BY DEF TemporalInv, TemporalLengths
  <2>3. Ends(TemporalLengths, Len(column), lengths')
    BY <2>1, <2>2, LoopEnds
  <2> QED
    BY <2>1, <2>3, TemporalKept DEF TemporalInv
<1>3. CASE Temporal!FillColumn \/ Temporal!AppendColumn
  <2>1. UNCHANGED <<field, policy, rounding, column, tokens, lengths>>
    BY <1>3 DEF Temporal!FillColumn, Temporal!AppendColumn
  <2> QED
    BY <2>1, TemporalKept DEF TemporalInv
<1> QED
  BY <1>1, <1>2, <1>3 DEF Temporal!Next

LEMMA NumericKept ==
    ASSUME UNCHANGED <<field, column, target>>
    PROVE  /\ NumericTokens' = NumericTokens
           /\ UNCHANGED encoding => NumericLengths' = NumericLengths
<1>1. NumericTokens' = NumericTokens
  BY DEF NumericTokens
<1>2. ASSUME UNCHANGED encoding PROVE NumericLengths' = NumericLengths
  BY <1>2 DEF NumericLengths, Numeric!MeasureCell, Numeric!NullLen, Numeric!MeasurePrimitive,
     Numeric!MeasureDecimal, Numeric!MeasureUInt64Decimal, Numeric!CheckedPrimitive,
     Numeric!PrimitiveCellLen
<1> QED
  BY <1>1, <1>2

LEMMA NumericStep ==
    ASSUME NumericInv, Numeric!Next PROVE NumericInv'
<1> USE DEF Numeric!Pending, Pending
<1>1. CASE Numeric!Plan
  <2>1. /\ target' = Numeric!PlanField(field.arrow, policy) /\ target.code # "ok"
        /\ UNCHANGED <<field, policy, column, tokens, encoding, lengths>>
    BY <1>1 DEF Numeric!Plan
  <2>2. tokens = Pending /\ lengths = Pending /\ encoding = Numeric!Undecided
    BY <2>1 DEF NumericInv
  <2> QED
    BY <2>1, <2>2 DEF NumericInv, Numeric!Undecided
<1>2. CASE Numeric!ConvertTokens
  <2>1. /\ target.code = "ok" /\ tokens = Pending /\ column' \in NumericColumns(field.arrow)
        /\ UNCHANGED <<field, policy, target, encoding, lengths>>
    BY <1>2 DEF Numeric!ConvertTokens, Numeric!IsOk
  <2>2. tokens' = StopAtFirstFailure(NumericTokens')
    BY <1>2 DEF Numeric!ConvertTokens, NumericTokens, Numeric!StopAtFirstFailure,
       StopAtFirstFailure, Numeric!IsOk, IsOk
  <2>3. /\ DOMAIN column' = 1..Len(column') /\ Len(column') \in Nat
        /\ DOMAIN NumericTokens' = DOMAIN column'
    <3>1. IsColumn(column')
      BY <2>1, ValuesAssumption DEF NumericAssumption, NumericInv
    <3> QED
      BY <3>1 DEF IsColumn, NumericTokens
  <2>4. Ends(NumericTokens', Len(column'), tokens')
    BY <2>2, <2>3, LoopEnds
  <2>5. lengths = Pending /\ encoding = Numeric!Undecided
    BY <2>1 DEF NumericInv
  <2> QED
    BY <2>1, <2>4, <2>5 DEF NumericInv, Numeric!Undecided
<1>3. CASE Numeric!SelectEncoding
  <2>1. /\ tokens # Pending /\ encoding.code # "ok"
        /\ encoding' = Numeric!DirectSupport(field.arrow, target.value)
        /\ UNCHANGED <<field, policy, column, target, tokens, lengths>>
    BY <1>3 DEF Numeric!SelectEncoding
  <2>2. lengths = Pending
    BY <2>1 DEF NumericInv
  <2> QED
    BY <2>1, <2>2, NumericKept DEF NumericInv, Numeric!Undecided
<1>4. CASE Numeric!MeasureColumn
  <2>1. /\ lengths' = StopAtFirstFailure(NumericLengths) /\ encoding.code = "ok"
        /\ UNCHANGED <<field, policy, column, target, tokens, encoding>>
    BY <1>4 DEF Numeric!MeasureColumn, NumericLengths, Numeric!StopAtFirstFailure,
       StopAtFirstFailure, Numeric!IsOk, IsOk
  <2>2. tokens # Pending
    BY <2>1 DEF NumericInv, Numeric!Undecided, Numeric!Fail
  <2>3. DOMAIN NumericLengths = 1..Len(column) /\ Len(column) \in Nat
    BY <2>2, NumericSlots DEF NumericInv, NumericLengths
  <2>4. Ends(NumericLengths, Len(column), lengths')
    BY <2>1, <2>3, LoopEnds
  <2> QED
    BY <2>1, <2>2, <2>4, NumericKept DEF NumericInv, Numeric!Undecided
<1>5. CASE Numeric!FillColumn \/ Numeric!AppendColumn
  <2>1. UNCHANGED <<field, policy, column, target, tokens, encoding, lengths>>
    BY <1>5 DEF Numeric!FillColumn, Numeric!AppendColumn
  <2> QED
    BY <2>1, NumericKept DEF NumericInv, Numeric!Undecided
<1> QED
  BY <1>1, <1>2, <1>3, <1>4, <1>5 DEF Numeric!Next

LEMMA TextColumnKept ==
    ASSUME UNCHANGED <<field, target, column>>
    PROVE  TextTokens' = TextTokens /\ TextLengths' = TextLengths
<1>1. TextTokens' = TextTokens
  BY DEF TextTokens, Text!TokenCell, Text!NVarCharCell, Text!VarBinaryCell, Text!BinaryCell
<1>2. TextLengths' = TextLengths
  BY DEF TextLengths, Text!MeasureCell, Text!NullCellLen, Text!MeasureNVarChar,
     Text!MeasureVarBinary, Text!MeasureFixedSizeBinary
<1> QED
  BY <1>1, <1>2

LEMMA TextPlanKept ==
    ASSUME UNCHANGED <<field, policy>> PROVE UNCHANGED Text!PlanField
BY DEF Text!PlanField, Text!PlanText, Text!PlanFixedSizeBinary

LEMMA TextStep ==
    ASSUME TextInv, Text!Next PROVE TextInv'
<1> USE DEF Text!Pending, Pending
<1>1. CASE Text!Plan
  <2>1. /\ target' = Text!PlanField /\ target.code # "ok"
        /\ UNCHANGED <<field, policy, column, tokens, encoding, lengths>>
    BY <1>1 DEF Text!Plan
  <2>2. tokens = Pending /\ lengths = Pending /\ encoding = "none"
    BY <2>1 DEF TextInv
  <2> QED
    BY <2>1, <2>2, TextPlanKept DEF TextInv
<1>2. CASE Text!ConvertTokens
  <2>1. /\ target.code = "ok" /\ tokens = Pending
        /\ column' \in TextColumns(field.arrow, field.length)
        /\ UNCHANGED <<field, policy, target, encoding, lengths>>
    BY <1>2 DEF Text!ConvertTokens, Text!IsOk
  <2>2. tokens' = StopAtFirstFailure(TextTokens')
    <3> DEFINE cells == [r \in DOMAIN column' |-> Text!TokenCell(column'[r])]
    <3>1. TextTokens' = cells
      BY <2>1 DEF TextTokens, Text!TokenCell, Text!NVarCharCell, Text!VarBinaryCell,
         Text!BinaryCell
    <3>2. tokens' = Text!StopAtFirstFailure(cells)
      BY <1>2 DEF Text!ConvertTokens
    <3>3. Text!StopAtFirstFailure(cells) = StopAtFirstFailure(cells)
      <4> HIDE DEF cells
      <4> QED
        BY DEF Text!StopAtFirstFailure, StopAtFirstFailure, Text!IsOk, IsOk
    <3> HIDE DEF cells
    <3> QED
      BY <3>1, <3>2, <3>3
  <2>3. /\ DOMAIN column' = 1..Len(column') /\ Len(column') \in Nat
        /\ DOMAIN TextTokens' = DOMAIN column'
    <3>1. target = Text!PlanField
      BY <2>1 DEF TextInv, Text!Undecided, Text!Fail
    <3>2. field.arrow # "fixed_size_binary" \/ field.length \in 1 .. MaxBinary
      BY <2>1, <3>1, TextPlans DEF TextInv, TextPlanned, Strings, Binaries
    <3>3. IsColumn(column')
      BY <2>1, <3>2, ValuesAssumption DEF TextAssumption, TextInv
    <3> QED
      BY <3>3 DEF IsColumn, TextTokens
  <2>4. Ends(TextTokens', Len(column'), tokens')
    BY <2>2, <2>3, LoopEnds
  <2>5. lengths = Pending /\ encoding = "none"
    BY <2>1 DEF TextInv
  <2> QED
    BY <2>1, <2>4, <2>5, TextPlanKept DEF TextInv
<1>3. CASE Text!BindColumn
  <2>1. tokens # Pending /\ UNCHANGED <<field, policy, column, target, tokens, lengths>>
    BY <1>3 DEF Text!BindColumn
  <2> QED
    BY <2>1, TextPlanKept, TextColumnKept DEF TextInv
<1>4. CASE Text!MeasureColumn
  <2>1. /\ lengths' = StopAtFirstFailure(TextLengths) /\ encoding # "none"
        /\ UNCHANGED <<field, policy, column, target, tokens, encoding>>
    BY <1>4 DEF Text!MeasureColumn, TextLengths, Text!StopAtFirstFailure,
       StopAtFirstFailure, Text!IsOk, IsOk
  <2>2. tokens # Pending /\ TextPlanned
    <3>1. tokens # Pending /\ target.code = "ok"
      BY <2>1 DEF TextInv
    <3>2. target = Text!PlanField
      BY <3>1 DEF TextInv, Text!Undecided, Text!Fail
    <3> QED
      BY <3>1, <3>2, TextPlans DEF TextInv
  <2>3. DOMAIN TextLengths = 1..Len(column) /\ Len(column) \in Nat
    BY <2>2, TextSlots DEF TextInv, TextLengths
  <2>4. Ends(TextLengths, Len(column), lengths')
    BY <2>1, <2>3, LoopEnds
  <2> QED
    BY <2>1, <2>2, <2>4, TextPlanKept, TextColumnKept DEF TextInv
<1>5. CASE Text!FillColumn \/ Text!AppendColumn
  <2>1. UNCHANGED <<field, policy, column, target, tokens, encoding, lengths>>
    BY <1>5 DEF Text!FillColumn, Text!AppendColumn
  <2> QED
    BY <2>1, TextPlanKept, TextColumnKept DEF TextInv
<1> QED
  BY <1>1, <1>2, <1>3, <1>4, <1>5 DEF Text!Next

LEMMA NextInvariant ==
    ASSUME IInv, [Next]_vars PROVE IInv'
<1>1. CASE family = "temporal"
  <2>1. TemporalInv
    BY <1>1 DEF IInv
  <2>2. CASE UNCHANGED vars
    <3>1. UNCHANGED <<family, field, policy, rounding, column, tokens, lengths>>
      BY <2>2 DEF vars
    <3> QED
      BY <1>1, <2>1, <3>1, TemporalKept DEF IInv, TemporalInv, Pending
  <2>3. CASE Temporal!Next /\ UNCHANGED family
    BY <1>1, <2>1, <2>3, TemporalStep DEF IInv
  <2> QED
    BY <1>1, <2>2, <2>3 DEF Next
<1>2. CASE family = "numeric"
  <2>1. NumericInv
    BY <1>2 DEF IInv
  <2>2. CASE UNCHANGED vars
    <3>1. UNCHANGED <<family, field, policy, column, target, tokens, encoding, lengths>>
      BY <2>2 DEF vars
    <3> QED
      BY <1>2, <2>1, <3>1, NumericKept DEF IInv, NumericInv, Pending, Numeric!Undecided
  <2>3. CASE Numeric!Next /\ UNCHANGED family
    BY <1>2, <2>1, <2>3, NumericStep DEF IInv
  <2> QED
    BY <1>2, <2>2, <2>3 DEF Next
<1>3. CASE family = "text"
  <2>1. TextInv
    BY <1>3 DEF IInv
  <2>2. CASE UNCHANGED vars
    <3>1. UNCHANGED <<family, field, policy, column, target, tokens, encoding, lengths>>
      BY <2>2 DEF vars
    <3> QED
      BY <1>3, <2>1, <3>1, TextColumnKept, TextPlanKept DEF IInv, TextInv, Pending
  <2>3. CASE Text!Next /\ UNCHANGED family
    BY <1>3, <2>1, <2>3, TextStep DEF IInv
  <2> QED
    BY <1>3, <2>2, <2>3 DEF Next
<1> QED
  BY <1>1, <1>2, <1>3 DEF IInv

\* Whatever the constants, the state of a column is what its family's loops
\* over the rows have computed.
LEMMA Invariant == Spec => []IInv
<1>1. Init => IInv
  BY InitInvariant
<1>2. IInv /\ [Next]_vars => IInv'
  BY NextInvariant
<1> QED
  BY <1>1, <1>2, PTL DEF Spec

-----------------------------------------------------------------------------
(* Both paths of a column end at the same row *)

LEMMA TemporalPathsAgree ==
    ASSUME TemporalInv PROVE Temporal!PathsAgree
<1> SUFFICES ASSUME tokens # Temporal!Pending, lengths # Temporal!Pending
             PROVE  /\ tokens.row = lengths.row
                    /\ \/ tokens.code = lengths.code
                       \/ /\ tokens.code = "NullInNonNullableColumn"
                          /\ lengths.code = "TimezoneUnsupported"
                          /\ column[tokens.row] = Temporal!Null /\ ~field.nullable
  BY DEF Temporal!PathsAgree
<1>1. /\ Temporal!Supported(field) /\ DOMAIN column = 1..Len(column) /\ Len(column) \in Nat
      /\ Ends(TemporalTokens, Len(column), tokens)
      /\ Ends(TemporalLengths, Len(column), lengths)
  BY DEF TemporalInv, Temporal!Pending, Pending
<1>2. ASSUME NEW r \in 1..Len(column)
      PROVE  /\ TemporalTokens[r].code = "ok" <=> TemporalLengths[r].code = "ok"
             /\ TemporalTokens[r].code # "ok" =>
                   \/ TemporalTokens[r].code = TemporalLengths[r].code
                   \/ /\ TemporalTokens[r].code = "NullInNonNullableColumn"
                      /\ TemporalLengths[r].code = "TimezoneUnsupported"
                      /\ column[r] = Temporal!Null /\ ~field.nullable
  <2>1. /\ TemporalTokens[r] = Temporal!TokenCell(field, column[r], policy, rounding)
        /\ TemporalLengths[r] = Temporal!MeasureCell(column[r])
    BY <1>1 DEF TemporalTokens, TemporalLengths
  <2> QED
    BY <1>1, <2>1, TemporalCellsAgree
<1>3. /\ tokens.row = lengths.row /\ (tokens.code = "ok" <=> lengths.code = "ok")
      /\ tokens.code # "ok" => /\ tokens.row \in 1..Len(column)
                               /\ tokens.code = TemporalTokens[tokens.row].code
                               /\ lengths.code = TemporalLengths[tokens.row].code
  BY <1>1, <1>2, EndTogether
<1>4. CASE tokens.code = "ok"
  BY <1>3, <1>4
<1>5. CASE tokens.code # "ok"
  <2>1. PICK r \in 1..Len(column) : r = tokens.row
    BY <1>3, <1>5
  <2>2. TemporalTokens[r].code # "ok"
    BY <1>3, <1>5, <2>1
  <2> QED
    BY <1>2, <1>3, <1>5, <2>1, <2>2
<1> QED
  BY <1>4, <1>5

LEMMA NumericPathsAgree ==
    ASSUME NumericInv PROVE Numeric!PathsAgree
<1>1. ASSUME lengths # Pending
      PROVE  lengths.code = tokens.code /\ lengths.row = tokens.row
  <2>1. /\ field \in NumericFields /\ column \in NumericColumns(field.arrow)
        /\ encoding.code = "ok"
        /\ encoding = Numeric!DirectSupport(field.arrow, target.value)
        /\ Ends(NumericTokens, Len(column), tokens)
        /\ Ends(NumericLengths, Len(column), lengths)
    BY <1>1 DEF NumericInv, Numeric!Undecided, Numeric!Fail
  <2>2. Len(column) \in Nat /\ DOMAIN column = 1..Len(column)
    BY <2>1, NumericSlots
  <2>3. \A r \in 1..Len(column) : NumericTokens[r].code = NumericLengths[r].code
    <3> TAKE r \in 1..Len(column)
    <3>1. IsNumericSlot(field.arrow, column[r])
      BY <2>1, <2>2, NumericSlots
    <3> QED
      BY <2>1, <2>2, <3>1, NumericCellsAgree DEF NumericTokens, NumericLengths
  <2>4. /\ tokens.row = lengths.row /\ (tokens.code = "ok" <=> lengths.code = "ok")
        /\ tokens.code # "ok" => /\ tokens.row \in 1..Len(column)
                                 /\ tokens.code = NumericTokens[tokens.row].code
                                 /\ lengths.code = NumericLengths[tokens.row].code
    BY <2>1, <2>2, <2>3, EndTogether
  <2> QED
    BY <2>3, <2>4
<1>2. ASSUME encoding.code = "DirectEncodingUnsupportedMapping", tokens.code = "ok",
             NEW r \in DOMAIN column
      PROVE  column[r] = Numeric!Null
  <2>1. /\ field \in NumericFields /\ column \in NumericColumns(field.arrow)
        /\ encoding = Numeric!DirectSupport(field.arrow, target.value)
        /\ Ends(NumericTokens, Len(column), tokens)
    BY <1>2 DEF NumericInv, Numeric!Undecided, Numeric!Fail, Pending
  <2>2. /\ Len(column) \in Nat /\ DOMAIN column = 1..Len(column)
        /\ IsNumericSlot(field.arrow, column[r])
    BY <2>1, NumericSlots
  <2>3. NumericTokens[r].code = "ok"
    BY <1>2, <2>1, <2>2 DEF Ends
  <2>4. Numeric!TokenCell(field.arrow, target.value, field.nullable, column[r]).code = "ok"
    BY <2>3 DEF NumericTokens
  <2> QED
    BY <1>2, <2>1, <2>2, <2>4, UnsupportedTakesNulls
<1> QED
  BY <1>1, <1>2 DEF Numeric!PathsAgree, Numeric!Pending, Pending

\* The cells of a text column that was converted.
LEMMA TextCells ==
    ASSUME TextInv, tokens # Pending
    PROVE  /\ TextPlanned /\ Len(column) \in Nat /\ DOMAIN column = 1..Len(column)
           /\ Ends(TextTokens, Len(column), tokens)
           /\ lengths # Pending => Ends(TextLengths, Len(column), lengths)
           /\ \A r \in 1..Len(column) :
                 /\ IsTextSlot(field.arrow, field.length, column[r])
                 /\ TextTokens[r] = Text!TokenCell(column[r])
                 /\ TextLengths[r] = Text!MeasureCell(column[r])
<1>1. /\ field \in TextFields /\ policy \in TextPolicies /\ target.code = "ok"
      /\ column \in TextColumns(field.arrow, field.length)
      /\ Ends(TextTokens, Len(column), tokens)
      /\ lengths # Pending => Ends(TextLengths, Len(column), lengths)
  BY DEF TextInv
<1>2. target = Text!PlanField
  BY <1>1 DEF TextInv, Text!Undecided, Text!Fail
<1>3. TextPlanned
  BY <1>1, <1>2, TextPlans
<1>4. /\ DOMAIN column = 1..Len(column) /\ Len(column) \in Nat
      /\ \A r \in DOMAIN column : IsTextSlot(field.arrow, field.length, column[r])
  BY <1>1, <1>3, TextSlots
<1> QED
  BY <1>1, <1>3, <1>4 DEF TextTokens, TextLengths

LEMMA TextLimitCounts ==
    ASSUME TextInv PROVE Text!LimitCountsUnits
<1>1. SUFFICES ASSUME tokens # Pending
               PROVE  IF tokens.code = "ok" THEN \A r \in DOMAIN column : TextFits(column[r])
                      ELSE /\ ~TextFits(column[tokens.row])
                           /\ \A r \in 1..(tokens.row - 1) : TextFits(column[r])
  BY DEF Text!LimitCountsUnits, TextFits, Text!Pending, Pending
<1>2. \A r \in 1..Len(column) : TextTokens[r].code = "ok" <=> TextFits(column[r])
  BY <1>1, TextCells, TextCellsAgree
<1>3. /\ DOMAIN column = 1..Len(column) /\ Len(column) \in Nat
      /\ Ends(TextTokens, Len(column), tokens)
  BY <1>1, TextCells
<1> QED
  BY <1>2, <1>3 DEF Ends

LEMMA TextPathsAgree ==
    ASSUME TextInv PROVE Text!PathsAgree
<1> DEFINE none == "DirectEncodingInvalidPayload"
           n == Len(column)
<1>1. SUFFICES ASSUME lengths # Pending
               PROVE  IF lengths.code # none
                      THEN lengths.code = tokens.code /\ lengths.row = tokens.row
                      ELSE /\ ~Text!HasCell(column[lengths.row])
                           /\ tokens.code = "ok" \/ lengths.row < tokens.row
                           /\ \A r \in 1..(lengths.row - 1) : Text!HasCell(column[r])
  BY DEF Text!PathsAgree, Text!Pending, Pending
<1>2. /\ n \in Nat /\ TextPlanned
      /\ Ends(TextTokens, n, tokens) /\ Ends(TextLengths, n, lengths)
  BY <1>1, TextCells DEF TextInv
<1>3. \A r \in 1..n :
         /\ TextLengths[r].code = none =>
                /\ TextTokens[r].code = "ok" /\ ~Text!HasCell(column[r])
                /\ target.value.name # "binary"
         /\ TextLengths[r].code # none =>
                /\ TextLengths[r].code = TextTokens[r].code
                /\ TextTokens[r].code = "ok" =>
                      Text!HasCell(column[r]) \/ target.value.name = "binary"
  <2>1. tokens # Pending
    BY <1>1 DEF TextInv
  <2> QED
    BY <1>2, <2>1, TextCells, TextCellsAgree
<1> HIDE DEF n
<1>4. CASE lengths.code # none
  <2>1. CASE lengths.code = "ok"
    <3>1. lengths.row = 0 /\ \A r \in 1..n : TextLengths[r].code = "ok"
      BY <1>2, <2>1 DEF Ends
    <3>2. \A r \in 1..n : TextTokens[r].code = "ok"
      BY <1>3, <3>1
    <3>3. tokens.code = "ok" /\ tokens.row = 0
      BY <1>2, <3>2 DEF Ends
    <3> QED
      BY <1>4, <2>1, <3>1, <3>3
  <2>2. CASE lengths.code # "ok"
    <3>1. /\ lengths.row \in 1..n /\ TextLengths[lengths.row].code # "ok"
          /\ lengths.code = TextLengths[lengths.row].code
          /\ \A r \in 1..(lengths.row - 1) : TextLengths[r].code = "ok"
      BY <1>2, <2>2 DEF Ends
    <3>2. /\ TextTokens[lengths.row].code = lengths.code
          /\ \A r \in 1..(lengths.row - 1) : TextTokens[r].code = "ok"
      BY <1>2, <1>3, <1>4, <3>1
    <3>3. /\ tokens.row \in 1..n /\ TextTokens[tokens.row].code # "ok"
          /\ tokens.code = TextTokens[tokens.row].code
          /\ \A r \in 1..(tokens.row - 1) : TextTokens[r].code = "ok"
      BY <1>2, <2>2, <3>1, <3>2 DEF Ends
    <3>4. tokens.row = lengths.row
      BY <1>2, <2>2, <3>1, <3>2, <3>3
    <3> QED
      BY <1>4, <3>2, <3>3, <3>4
  <2> QED
    BY <2>1, <2>2
<1>5. CASE lengths.code = none
  <2>1. /\ lengths.row \in 1..n /\ lengths.code = TextLengths[lengths.row].code
        /\ \A r \in 1..(lengths.row - 1) : TextLengths[r].code = "ok"
    BY <1>2, <1>5 DEF Ends
  <2>2. /\ TextTokens[lengths.row].code = "ok" /\ ~Text!HasCell(column[lengths.row])
        /\ target.value.name # "binary"
    BY <1>3, <1>5, <2>1
  <2>3. \A r \in 1..(lengths.row - 1) :
           TextTokens[r].code = "ok" /\ Text!HasCell(column[r])
    BY <1>2, <1>3, <2>1, <2>2
  <2>4. tokens.code = "ok" \/ lengths.row < tokens.row
    <3>1. CASE tokens.code # "ok"
      <4>1. tokens.row \in 1..n /\ TextTokens[tokens.row].code # "ok"
        BY <1>2, <3>1 DEF Ends
      <4> QED
        BY <1>2, <2>1, <2>2, <2>3, <4>1
    <3> QED
      BY <3>1
  <2> QED
    BY <1>5, <2>2, <2>3, <2>4
<1> QED
  BY <1>4, <1>5

-----------------------------------------------------------------------------
(* Multiples, quotients, roundings and powers *)

\* Integers are ordered as their multiples are.
LEMMA Cancel ==
    ASSUME NEW a \in Int, NEW b \in Int, NEW f \in Nat \ {0}
    PROVE  /\ a <= b <=> a * f <= b * f
           /\ a < b <=> a * f < b * f
<1>1. a * f \in Int /\ b * f \in Int
  OBVIOUS
<1>2. ASSUME a <= b PROVE a * f <= b * f
  <2>1. PICK d \in Nat : b = a + d
    BY <1>2
  <2>2. b * f = a * f + d * f /\ d * f >= 0
    BY <2>1
  <2> QED
    BY <2>2
<1>3. ASSUME b < a PROVE b * f < a * f
  <2>1. PICK d \in Nat : a = b + 1 + d
    BY <1>3
  <2>2. a * f = b * f + f + d * f /\ d * f >= 0
    BY <2>1
  <2> QED
    BY <2>2
<1>4. ASSUME a < b PROVE a * f < b * f
  <2>1. PICK d \in Nat : b = a + 1 + d
    BY <1>4
  <2>2. b * f = a * f + f + d * f /\ d * f >= 0
    BY <2>1
  <2> QED
    BY <2>2
<1>5. ASSUME b <= a PROVE b * f <= a * f
  BY <1>3, <1>5
<1> QED
  BY <1>1, <1>2, <1>3, <1>4, <1>5

\* What \div and % are.
LEMMA Quotient ==
    ASSUME NEW x \in Int, NEW f \in Nat \ {0}
    PROVE  /\ x \div f \in Int /\ x % f \in 0 .. f - 1
           /\ x = (x \div f) * f + (x % f)
<1>1. PICK q \in Int : q = x \div f
  OBVIOUS
<1>2. PICK r \in 0 .. f - 1 : r = x % f
  OBVIOUS
<1>3. r = x - f * q
  <2>1. x % f = x - f * (x \div f)
    OBVIOUS
  <2> QED
    BY <1>1, <1>2, <2>1
<1>4. x = q * f + r
  BY <1>2, <1>3
<1> QED
  BY <1>1, <1>2, <1>4

LEMMA QuotientIs ==
    ASSUME NEW q \in Int, NEW f \in Nat \ {0}, NEW r \in 0 .. f - 1
    PROVE  (q * f + r) \div f = q /\ (q * f + r) % f = r
<1>1. PICK x \in Int : x = q * f + r
  OBVIOUS
<1>2. PICK p \in Int : p = x \div f
  BY <1>1, Quotient
<1>3. PICK s \in 0 .. f - 1 : s = x % f
  BY <1>1, Quotient
<1>4. q * f + r = p * f + s
  BY <1>1, <1>2, <1>3, Quotient
<1>5. ~ (q < p)
  <2>1. SUFFICES ASSUME q + 1 <= p PROVE FALSE
    BY <1>2
  <2>2. (q + 1) * f <= p * f
    BY <2>1, Cancel
  <2>3. (q + 1) * f = q * f + f
    OBVIOUS
  <2> QED
    BY <1>3, <1>4, <2>2, <2>3
<1>6. ~ (p < q)
  <2>1. SUFFICES ASSUME p + 1 <= q PROVE FALSE
    BY <1>2
  <2>2. (p + 1) * f <= q * f
    BY <2>1, Cancel
  <2>3. (p + 1) * f = p * f + f
    OBVIOUS
  <2> QED
    BY <1>3, <1>4, <2>2, <2>3
<1>7. p = q
  BY <1>5, <1>6
<1> QED
  BY <1>1, <1>2, <1>3, <1>4, <1>7

\* The quotient as a bound.
LEMMA QuotientBound ==
    ASSUME NEW x \in Int, NEW f \in Nat \ {0}, NEW a \in Int
    PROVE  /\ a <= x \div f <=> a * f <= x
           /\ x \div f < a <=> x < a * f
<1>1. PICK q \in Int : q = x \div f
  BY Quotient
<1>2. q * f <= x /\ x < q * f + f
  BY <1>1, Quotient
<1>3. ASSUME a <= q PROVE a * f <= x
  BY <1>2, <1>3, Cancel
<1>4. ASSUME q + 1 <= a PROVE x < a * f
  <2>1. (q + 1) * f <= a * f
    BY <1>4, Cancel
  <2>2. (q + 1) * f = q * f + f
    OBVIOUS
  <2> QED
    BY <1>2, <2>1, <2>2
<1>5. a * f \in Int
  OBVIOUS
<1> QED
  BY <1>1, <1>3, <1>4, <1>5

\* Multiples cancel in a quotient, and are kept by the remainder.
LEMMA QuotientOfMultiples ==
    ASSUME NEW k \in Int, NEW d \in Nat \ {0}, NEW f \in Nat \ {0}
    PROVE  /\ (k * f) \div (d * f) = k \div d
           /\ (k * f) % (d * f) = (k % d) * f
           /\ ((k * f) % (d * f)) \div f = k % d
<1>1. PICK q \in Int, r \in 0 .. d - 1 : q = k \div d /\ r = k % d /\ k = q * d + r
  BY Quotient
<1>2. d * f \in Nat \ {0}
  OBVIOUS
<1>3. r * f \in 0 .. d * f - 1
  <2>1. r * f < d * f /\ 0 * f <= r * f
    BY <1>1, Cancel
  <2> QED
    BY <1>1, <1>2, <2>1
<1>4. k * f = q * (d * f) + r * f
  <2>1. k * f = (q * d + r) * f
    BY <1>1
  <2>2. (q * d + r) * f = q * (d * f) + r * f
    BY ONLY q \in Int, d \in Nat, f \in Nat, r \in Int
  <2> QED
    BY <2>1, <2>2, <1>1
<1>5. PICK m \in Nat \ {0} : m = d * f
  BY <1>2
<1>8. PICK s \in 0 .. m - 1 : s = r * f
  BY <1>3, <1>5
<1>6. (q * m + s) \div m = q /\ (q * m + s) % m = s
  BY <1>8, QuotientIs
<1>7. s \div f = r
  <2>1. (r * f + 0) \div f = r
    BY QuotientIs, <1>1
  <2>2. r * f + 0 = s
    BY <1>1, <1>8
  <2> QED
    BY <2>1, <2>2
<1> QED
  BY <1>1, <1>4, <1>5, <1>6, <1>7, <1>8

LEMMA Rounded ==
    ASSUME NEW x \in Int, NEW f \in Nat \ {0}
    PROVE  /\ Temporal!RoundHalfUp(x, f) \in Int
           /\ 2 * (Temporal!RoundHalfUp(x, f) * f - x) <= f /\ 2 * (Temporal!RoundHalfUp(x, f) * f - x) > -f
<1>1. PICK q \in Int, r \in 0 .. f - 1 : q = x \div f /\ r = x % f /\ x = q * f + r
  BY Quotient
<1>2. Temporal!RoundHalfUp(x, f) = q + IF r * 2 >= f THEN 1 ELSE 0
  BY <1>1 DEF Temporal!RoundHalfUp
<1>3. (q + 1) * f = q * f + f
  OBVIOUS
<1>4. q * f \in Int
  OBVIOUS
<1> QED
  BY <1>1, <1>2, <1>3, <1>4

\* Rounding keeps the order, and what is a multiple already.
LEMMA RoundedOrder ==
    ASSUME NEW x \in Int, NEW y \in Int, NEW f \in Nat \ {0}, x <= y
    PROVE  Temporal!RoundHalfUp(x, f) <= Temporal!RoundHalfUp(y, f)
<1>1. PICK a \in Int, b \in Int : a = Temporal!RoundHalfUp(x, f) /\ b = Temporal!RoundHalfUp(y, f)
  BY Rounded
<1>2. 2 * (a * f - x) <= f /\ 2 * (b * f - y) > -f
  BY <1>1, Rounded
<1>3. SUFFICES ASSUME b + 1 <= a PROVE FALSE
  BY <1>1
<1>4. (b + 1) * f <= a * f
  BY <1>3, Cancel
<1>5. (b + 1) * f = b * f + f
  OBVIOUS
<1>6. PICK p \in Int, s \in Int : p = a * f /\ s = b * f
  OBVIOUS
<1> QED
  BY <1>2, <1>4, <1>5, <1>6

LEMMA RoundedMultiple ==
    ASSUME NEW m \in Int, NEW f \in Nat \ {0}
    PROVE  Temporal!RoundHalfUp(m * f, f) = m
<1>1. (m * f + 0) \div f = m /\ (m * f + 0) % f = 0
  BY QuotientIs
<1>2. m * f + 0 = m * f
  OBVIOUS
<1> QED
  BY <1>1, <1>2 DEF Temporal!RoundHalfUp

\* The remainder of nothing lost.
LEMMA RoundedAbove ==
    ASSUME NEW x \in Int, NEW m \in Int, NEW f \in Nat \ {0}, m * f <= x
    PROVE  m <= Temporal!RoundHalfUp(x, f)
<1>1. Temporal!RoundHalfUp(m * f, f) <= Temporal!RoundHalfUp(x, f)
  BY RoundedOrder
<1> QED
  BY <1>1, RoundedMultiple

\* An exact quotient.
LEMMA ExactQuotient ==
    ASSUME NEW q \in Int, NEW f \in Nat \ {0}
    PROVE  (q * f) \div f = q
<1>1. (q * f + 0) \div f = q
  BY QuotientIs
<1>2. q * f + 0 = q * f
  OBVIOUS
<1> QED
  BY <1>1, <1>2

\* The laws of powers up to an exponent n.
LEMMA PowerLaws ==
    ASSUME NEW b \in Nat \ {0}, NEW n \in Nat, b ^ 0 = 1,
           \A k \in 0 .. n - 1 : b ^ (k + 1) = b * b ^ k
    PROVE  /\ \A k \in 0 .. n : b ^ k \in Nat \ {0}
           /\ \A j \in 0 .. n : \A k \in 0 .. n - j : b ^ (j + k) = b ^ j * b ^ k
<1> DEFINE P == {k \in 0 .. n : b ^ k \in Nat \ {0}}
<1>1. 0 \in P
  OBVIOUS
<1>2. ASSUME NEW k \in 0 .. n - 1, k \in P PROVE k + 1 \in P
  <2>1. PICK p \in Nat \ {0} : p = b ^ k
    BY <1>2
  <2>2. b ^ (k + 1) = b * p
    BY <2>1
  <2>3. b * p \in Nat \ {0}
    BY <2>1
  <2> QED
    BY <2>2, <2>3
<1>3. \A k \in 0 .. n : b ^ k \in Nat \ {0}
  <2>1. 0 .. n \subseteq P
    <3> HIDE DEF P
    <3> QED
      BY <1>1, <1>2, InductionTo
  <2> QED
    BY <2>1
<1>4. ASSUME NEW j \in 0 .. n, NEW k \in 0 .. n - j PROVE b ^ (j + k) = b ^ j * b ^ k
  <2> DEFINE Q == {i \in 0 .. k : b ^ (j + i) = b ^ j * b ^ i}
  <2>0. PICK p \in Nat : p = b ^ j
    BY <1>3
  <2>1. 0 \in Q
    BY <2>0
  <2>2. ASSUME NEW i \in 0 .. k - 1, i \in Q PROVE i + 1 \in Q
    <3>1. PICK q \in Nat : q = b ^ i
      BY <1>3
    <3>2. PICK m \in 0 .. n - 1 : m = j + i
      OBVIOUS
    <3>3. b ^ m = p * q
      BY <2>0, <2>2, <3>1, <3>2
    <3>4. b ^ (m + 1) = b * (p * q) /\ b ^ (i + 1) = b * q
      BY <3>1, <3>3
    <3>5. b * (p * q) = p * (b * q)
      BY ONLY b \in Nat, p \in Nat, q \in Nat
    <3>6. j + (i + 1) = m + 1
      BY <3>2
    <3> QED
      BY <2>0, <3>4, <3>5, <3>6
  <2>3. 0 .. k \subseteq Q
    <3> HIDE DEF Q
    <3> QED
      BY <2>1, <2>2, InductionTo
  <2> QED
    BY <2>3
<1> QED
  BY <1>3, <1>4

-----------------------------------------------------------------------------
(* Numbers are stored exactly *)

LEMMA Powers ==
    /\ Ten \in Nat /\ Ten > 1 /\ MaxPrecision \in Nat
    /\ \A k \in 0 .. MaxPrecision + 1 : Ten ^ k \in Nat \ {0}
    /\ \A k \in 0 .. MaxPrecision : Ten ^ (k + 1) = Ten * Ten ^ k
    /\ \A j \in 0 .. MaxPrecision + 1 : \A k \in 0 .. MaxPrecision + 1 - j :
           Ten ^ (j + k) = Ten ^ j * Ten ^ k
<1>1. /\ Ten \in Nat \ {0} /\ Ten > 1 /\ MaxPrecision \in Nat /\ Ten ^ 0 = 1
      /\ \A k \in 0 .. MaxPrecision : Ten ^ (k + 1) = Ten * Ten ^ k
  BY ValuesAssumption DEF NumericAssumption, Numeric!DigitsAssumption, Numeric!PowersAssumption
<1>2. PICK n \in Nat : n = MaxPrecision + 1 /\ n - 1 = MaxPrecision
  BY <1>1
<1>3. /\ \A k \in 0 .. n : Ten ^ k \in Nat \ {0}
      /\ \A j \in 0 .. n : \A k \in 0 .. n - j : Ten ^ (j + k) = Ten ^ j * Ten ^ k
  BY <1>1, <1>2, PowerLaws
<1> QED
  BY <1>1, <1>2, <1>3

LEMMA BytePowers ==
    /\ NumberBytes \in Nat /\ NumberBytes > 1 /\ NumberBytes ^ 0 = 1
    /\ \A k \in 0 .. 15 : NumberBytes ^ (k + 1) = NumberBytes * NumberBytes ^ k
    /\ \A k \in 0 .. 16 : NumberBytes ^ k \in Nat \ {0}
    /\ \A j \in 0 .. 16 : \A k \in 0 .. 16 - j :
           NumberBytes ^ (j + k) = NumberBytes ^ j * NumberBytes ^ k
<1>1. /\ NumberBytes \in Nat \ {0} /\ NumberBytes > 1 /\ NumberBytes ^ 0 = 1
      /\ \A k \in 0 .. 16 - 1 : NumberBytes ^ (k + 1) = NumberBytes * NumberBytes ^ k
  BY ValuesAssumption
     DEF NumericAssumption, Numeric!DigitsAssumption, Numeric!PowersAssumption
<1>2. 16 \in Nat
  OBVIOUS
<1> QED
  BY <1>1, <1>2, PowerLaws

LEMMA PowersGrow ==
    ASSUME NEW j \in Nat, NEW k \in 0 .. MaxPrecision + 1, j < k
    PROVE  Ten ^ j < Ten ^ k
<1> DEFINE P == {i \in 0 .. (MaxPrecision - j) : Ten ^ j < Ten ^ (j + i + 1)}
<1>0. MaxPrecision \in Nat /\ MaxPrecision - j \in Nat
  BY Powers
<1>1. ASSUME NEW i \in 0 .. MaxPrecision PROVE Ten ^ i < Ten ^ (i + 1)
  <2>1. PICK p \in Nat \ {0} : p = Ten ^ i
    BY <1>0, Powers
  <2>2. Ten ^ (i + 1) = Ten * p
    BY <2>1, Powers
  <2>3. p < Ten * p
    BY <2>1, Powers
  <2> QED
    BY <2>1, <2>2, <2>3
<1>2. 0 \in P
  BY <1>0, <1>1
<1>3. ASSUME NEW i \in 0 .. (MaxPrecision - j) - 1, i \in P PROVE i + 1 \in P
  <2>1. PICK m \in 0 .. MaxPrecision : m = j + i + 1
    BY <1>0
  <2>2. Ten ^ j < Ten ^ m /\ Ten ^ m < Ten ^ (m + 1)
    BY <1>1, <1>3, <2>1
  <2>3. Ten ^ j \in Nat /\ Ten ^ m \in Nat /\ Ten ^ (m + 1) \in Nat
    BY <1>0, <2>1, Powers
  <2>4. j + (i + 1) + 1 = m + 1
    BY <2>1
  <2> QED
    BY <1>0, <2>2, <2>3, <2>4
<1>4. 0 .. (MaxPrecision - j) \subseteq P
  <2>1. PICK n \in Nat : n = MaxPrecision - j
    BY <1>0
  <2> HIDE DEF P
  <2> QED
    BY <1>2, <1>3, <2>1, InductionTo
<1>5. PICK i \in 0 .. (MaxPrecision - j) : i = k - j - 1
  BY <1>0
<1>6. j + i + 1 = k
  BY <1>5
<1>7. i \in P
  <2> HIDE DEF P
  <2> QED
    BY <1>4
<1> QED
  BY <1>6, <1>7

LEMMA PowersAdd ==
    ASSUME NEW j \in Nat, NEW k \in Nat, j + k <= MaxPrecision + 1
    PROVE  Ten ^ (j + k) = Ten ^ j * Ten ^ k
<1>1. MaxPrecision \in Nat
  BY Powers
<1>2. j \in 0 .. MaxPrecision + 1 /\ k \in 0 .. MaxPrecision + 1 - j
  BY <1>1
<1> QED
  BY <1>2, Powers

\* What a planned numeric field says of its cells.
PlannedPrimitive ==
    /\ Numeric!IsOk(Numeric!ClassifyPrimitive(field.arrow, target.value))
    /\ target.value.name # "decimal" /\ target.value.scale = 0
    /\ ~Numeric!IsDecimal(field.arrow)
    /\ field.arrow.name = "uint64" => policy.uint64 # "decimal20_0"
    /\ target.value.name = "bigint" => field.arrow.name \in {"int64", "uint32", "uint64"}
    /\ field.arrow.name = "uint64" => target.value.name = "bigint"
PlannedUInt64 ==
    /\ field.arrow.name = "uint64"
    /\ target.value = Numeric!Type("decimal", UInt64Digits, 0)
PlannedDecimal ==
    /\ Numeric!IsDecimal(field.arrow) /\ field.arrow.precision > 0
    /\ target.value.name = "decimal"
    /\ target.value.precision =
           field.arrow.precision - (IF field.arrow.scale < 0 THEN field.arrow.scale ELSE 0)
    /\ target.value.scale = (IF field.arrow.scale < 0 THEN 0 ELSE field.arrow.scale)
    /\ target.value.precision <= MaxPrecision

LEMMA NumericPlans ==
    ASSUME field \in NumericFields, policy \in NumericPolicies,
           target = Numeric!PlanField(field.arrow, policy), target.code = "ok"
    PROVE  PlannedPrimitive \/ PlannedUInt64 \/ PlannedDecimal
<1> DEFINE type == field.arrow
<1>1. /\ type.name \in PlainTypes \cup DecimalNames
      /\ type.precision \in Nat /\ type.scale \in Int /\ MaxPrecision \in Nat
      /\ policy.uint64 \in {"reject", "decimal20_0", "checked_bigint"}
      /\ policy.decimal \in {"reject", "normalize"}
      /\ policy.decimal256 \in {"reject", "checked_downcast"}
  BY ValuesAssumption, Powers DEF NumericAssumption
<1>2. CASE type.name = "uint64"
  <2>1. target = Numeric!PlanUInt64(policy.uint64)
    BY <1>2 DEF Numeric!PlanField, Numeric!IsDecimal
  <2>2. CASE policy.uint64 = "decimal20_0"
    BY <1>2, <2>1, <2>2 DEF Numeric!PlanUInt64, Numeric!Ok, PlannedUInt64
  <2>3. CASE policy.uint64 = "checked_bigint"
    <3>1. target.value = Numeric!Plain("bigint")
      BY <2>1, <2>3 DEF Numeric!PlanUInt64, Numeric!Ok
    <3> QED
      BY <1>2, <2>3, <3>1 DEF PlannedPrimitive, Numeric!Plain, Numeric!Type, Numeric!IsDecimal,
         Numeric!ClassifyPrimitive, Numeric!PrimitivePairs, Numeric!Ok, Numeric!IsOk
  <2>4. policy.uint64 # "reject"
    BY <2>1 DEF Numeric!PlanUInt64, Numeric!Fail
  <2> QED
    BY <1>1, <2>2, <2>3, <2>4
<1>3. CASE type.name \in DecimalNames
  <2>1. Numeric!IsDecimal(type)
    BY <1>3 DEF Numeric!IsDecimal, DecimalNames
  <2>2. target = Numeric!PlanDecimal(type, policy.decimal)
    <3>1. CASE type.name = "decimal256"
      <4>1. target = IF policy.decimal256 = "reject" THEN Numeric!Fail("ProfileDependentConversion")
                     ELSE Numeric!PlanDecimal(type, policy.decimal)
        BY <3>1 DEF Numeric!PlanField
      <4> QED
        BY <4>1 DEF Numeric!Fail
    <3>2. CASE type.name # "decimal256"
      BY <1>3, <2>1, <3>2 DEF Numeric!PlanField, DecimalNames
    <3> QED
      BY <3>1, <3>2
  <2> DEFINE shape == Numeric!NormalizeDecimalShape(type.precision, type.scale, policy.decimal)
  <2>3. type.precision # 0 /\ Numeric!IsOk(shape)
    <3>1. type.precision # 0
      <4>1. CASE type.precision = 0
        BY <2>2, <4>1 DEF Numeric!PlanDecimal, Numeric!Fail
      <4> QED
        BY <4>1
    <3>2. CASE ~Numeric!IsOk(shape)
      BY <2>2, <3>1, <3>2 DEF Numeric!PlanDecimal, Numeric!IsOk
    <3> QED
      BY <3>1, <3>2
  <2>4. /\ shape.value.precision <= MaxPrecision \/ ~(shape.value.precision > MaxPrecision)
        /\ target = Numeric!Ok(Numeric!Type("decimal", shape.value.precision, shape.value.scale))
    BY <2>2, <2>3 DEF Numeric!PlanDecimal, Numeric!Fail
  <2>5. shape.value = IF type.scale >= 0
                      THEN [precision |-> type.precision, scale |-> type.scale]
                      ELSE [precision |-> type.precision - type.scale, scale |-> 0]
    BY <2>3 DEF Numeric!NormalizeDecimalShape, Numeric!Ok, Numeric!Fail, Numeric!IsOk
  <2>6. /\ target.value.name = "decimal"
        /\ target.value.precision = shape.value.precision
        /\ target.value.scale = shape.value.scale
    BY <2>4 DEF Numeric!Ok, Numeric!Type
  <2> HIDE DEF shape
  <2> QED
    BY <1>1, <2>1, <2>3, <2>4, <2>5, <2>6 DEF PlannedDecimal
<1>4. CASE type.name \in PlainTypes \ {"uint64"}
  <2>1. ~Numeric!IsDecimal(type)
    BY <1>4 DEF PlainTypes, Numeric!IsDecimal
  <2>2. PICK name : /\ target.value = Numeric!Plain(name)
                    /\ <<type.name, name>> \in Numeric!PrimitivePairs
                    /\ name # "decimal"
                    /\ name = "bigint" => type.name \in {"int64", "uint32"}
    <3>1. CASE type.name = "boolean"
      <4>1. target.value = Numeric!Plain("bit")
        BY <3>1, <2>1 DEF Numeric!PlanField, Numeric!Ok
      <4> QED
        BY <3>1, <4>1 DEF Numeric!PrimitivePairs
    <3>2. CASE type.name = "uint8"
      <4>1. target.value = Numeric!Plain("tinyint")
        BY <3>2, <2>1 DEF Numeric!PlanField, Numeric!Ok
      <4> QED
        BY <3>2, <4>1 DEF Numeric!PrimitivePairs
    <3>3. CASE type.name \in {"int8", "int16"}
      <4>1. target.value = Numeric!Plain("smallint")
        BY <3>3, <2>1 DEF Numeric!PlanField, Numeric!Ok
      <4> QED
        BY <3>3, <4>1 DEF Numeric!PrimitivePairs
    <3>4. CASE type.name \in {"int32", "uint16"}
      <4>1. target.value = Numeric!Plain("int")
        BY <3>4, <2>1 DEF Numeric!PlanField, Numeric!Ok
      <4> QED
        BY <3>4, <4>1 DEF Numeric!PrimitivePairs
    <3>5. CASE type.name \in {"int64", "uint32"}
      <4>1. target.value = Numeric!Plain("bigint")
        BY <3>5, <2>1 DEF Numeric!PlanField, Numeric!Ok
      <4> QED
        BY <3>5, <4>1 DEF Numeric!PrimitivePairs
    <3>6. CASE type.name \in {"float16", "float32"}
      <4>1. target.value = Numeric!Plain("real")
        BY <3>6, <2>1 DEF Numeric!PlanField, Numeric!Ok
      <4> QED
        BY <3>6, <4>1 DEF Numeric!PrimitivePairs
    <3>7. CASE type.name = "float64"
      <4>1. target.value = Numeric!Plain("float")
        BY <3>7, <2>1 DEF Numeric!PlanField, Numeric!Ok
      <4> QED
        BY <3>7, <4>1 DEF Numeric!PrimitivePairs
    <3> QED
      BY <1>4, <3>1, <3>2, <3>3, <3>4, <3>5, <3>6, <3>7 DEF PlainTypes
  <2> QED
    BY <1>4, <2>1, <2>2 DEF PlannedPrimitive, Numeric!ClassifyPrimitive, Numeric!Plain,
       Numeric!Type, Numeric!Ok, Numeric!IsOk
<1> QED
  BY <1>1, <1>2, <1>3, <1>4

\* The result of the token-row path for slot r is exact, and has room.
ExactCell(r, t) ==
    /\ t.code = "ok" <=> Numeric!Representable(r)
    /\ t.code = "ok" /\ column[r] # Numeric!Null =>
          /\ t.value.n = Numeric!ExactValue(r)
          /\ t.value.scale = target.value.scale
          /\ target.value.name = "decimal" =>
                t.value.n \in -(Ten ^ target.value.precision - 1)
                                  .. Ten ^ target.value.precision - 1
    /\ /\ column[r].kind = "number" /\ target.value.scale < ScaleLimit
       /\ \/ /\ Numeric!IsDecimal(field.arrow)
             /\ Numeric!Magnitude(column[r].n) < Ten ^ field.arrow.precision
          \/ field.arrow.name = "uint64" /\ policy.uint64 = "decimal20_0"
          \/ ~Numeric!IsDecimal(field.arrow) /\ field.arrow.name # "uint64"
       => Numeric!Representable(r)

LEMMA PrimitiveIsExact ==
    ASSUME field \in NumericFields, PlannedPrimitive, NEW r, column[r] # Numeric!Null,
           IsNumericSlot(field.arrow, column[r])
    PROVE  ExactCell(r, Numeric!TokenCell(field.arrow, target.value, field.nullable, column[r]))
<1> DEFINE v == column[r]
           t == Numeric!TokenCell(field.arrow, target.value, field.nullable, v)
           rejected == field.arrow.name = "uint64" /\ v.n \notin Numeric!IntRange(8)
<1>1. \/ v.kind = "nonfinite" /\ Numeric!IsFloat(field.arrow)
      \/ v.kind = "number" /\ IsNumberOf(field.arrow.name, v.n)
  BY DEF IsNumericSlot, Numbers!NonFinite, Numbers!Number, Numbers!Null, Numeric!Null,
     Numbers!IsFloat, Numeric!IsFloat
<1>2. t = Numeric!PrimitiveValue(field.arrow, target.value, v)
  BY DEF Numeric!TokenCell, PlannedPrimitive
<1>3. CASE v.kind = "nonfinite"
  <2>1. field.arrow.name # "uint64"
    BY <1>1, <1>3 DEF Numeric!IsFloat
  <2>2. t.code = "NonFiniteFloat"
    BY <1>2, <1>3, <2>1 DEF PlannedPrimitive, Numeric!PrimitiveValue, Numeric!Fail
  <2>3. ~Numeric!Representable(r)
    BY <1>3 DEF Numeric!Representable
  <2> QED
    BY <1>3, <2>2, <2>3 DEF ExactCell
<1>4. CASE v.kind = "number"
  <2>1. t = IF rejected THEN Numeric!Fail("IntegerOutOfRange")
            ELSE Numeric!Ok(Numeric!Cell(target.value.name, v.n, 0))
    BY <1>2, <1>4 DEF PlannedPrimitive, Numeric!PrimitiveValue
  <2>2. t.code = IF rejected THEN "IntegerOutOfRange" ELSE "ok"
    BY <2>1 DEF Numeric!Fail, Numeric!Ok
  <2>3. target.value.name = "bigint" /\ field.arrow.name # "uint64" => v.n \in Numeric!IntRange(8)
    <3>1. CASE field.arrow.name = "int64"
      <4>1. v.n \in Numbers!IntRange(SignedBytes("int64"))
        BY <1>1, <1>4, <3>1 DEF IsNumberOf
      <4>2. SignedBytes("int64") = 8
        BY DEF SignedBytes
      <4> QED
        BY <4>1, <4>2 DEF Numbers!IntRange, Numeric!IntRange
    <3>2. CASE field.arrow.name = "uint32"
      <4>1. v.n \in 0 .. NumberBytes ^ 4 - 1
        BY <1>1, <1>4, <3>2 DEF IsNumberOf, Numbers!UIntRange
      <4>2. /\ NumberBytes ^ 4 \in Nat /\ NumberBytes ^ 8 \in Nat
            /\ NumberBytes ^ 8 = NumberBytes ^ 4 * NumberBytes ^ 4
            /\ Ten ^ ShortDigits <= NumberBytes ^ 4
            /\ ShortDigits \in Nat \ {0} /\ ShortDigits <= MaxPrecision
        <5>1. \E j \in 0 .. 16 : \E k \in 0 .. 16 - j : j = 4 /\ k = 4 /\ j + k = 8
          OBVIOUS
        <5>2. NumberBytes ^ 8 = NumberBytes ^ 4 * NumberBytes ^ 4
          BY <5>1, BytePowers
        <5>3. NumberBytes ^ 4 \in Nat /\ NumberBytes ^ 8 \in Nat
          BY BytePowers
        <5> QED
          BY <5>2, <5>3, ValuesAssumption, Powers DEF NumericAssumption, Numeric!DigitsAssumption
      <4>3. 1 < Ten ^ ShortDigits
        <5>1. Ten ^ 0 = 1
          BY ValuesAssumption DEF NumericAssumption, Numeric!PowersAssumption
        <5>2. MaxPrecision \in Nat
          BY Powers
        <5>3. Ten ^ 0 < Ten ^ ShortDigits
          BY <4>2, <5>2, PowersGrow
        <5> QED
          BY <5>1, <5>3
      <4>4. PICK b \in Int : b = NumberBytes ^ 4
        BY <4>2
      <4>5. PICK c \in Int : c = NumberBytes ^ 8
        BY <4>2
      <4>6. Ten ^ ShortDigits \in Nat
        BY <4>2, Powers
      <4>7. b >= 2 /\ c = b * b
        BY <4>2, <4>3, <4>4, <4>5, <4>6
      <4>8. c >= 2 * b
        BY ONLY <4>7, b \in Int, c \in Int
      <4>9. v.n \in -(c \div 2) .. (c \div 2) - 1
        BY <4>1, <4>4, <4>7, <4>8
      <4> QED
        BY <4>5, <4>9 DEF Numeric!IntRange
    <3> QED
      BY <3>1, <3>2 DEF PlannedPrimitive
  <2>4. Numeric!Representable(r) <=> ~rejected
    <3>1. Numeric!Representable(r)
             <=> (target.value.name = "bigint" => v.n \in Numeric!IntRange(8))
      BY <1>4 DEF Numeric!Representable, PlannedPrimitive
    <3> QED
      BY <2>3, <3>1 DEF PlannedPrimitive
  <2>5. ~rejected => t.value.n = Numeric!ExactValue(r) /\ t.value.scale = 0
    BY <2>1 DEF Numeric!ExactValue, PlannedPrimitive, Numeric!Ok, Numeric!Cell
  <2> QED
    BY <2>2, <2>4, <2>5 DEF ExactCell, PlannedPrimitive
<1> QED
  BY <1>1, <1>3, <1>4

LEMMA UInt64IsExact ==
    ASSUME field \in NumericFields, PlannedUInt64, NEW r, column[r] # Numeric!Null,
           IsNumericSlot(field.arrow, column[r])
    PROVE  ExactCell(r, Numeric!TokenCell(field.arrow, target.value, field.nullable, column[r]))
<1> DEFINE v == column[r]
           t == Numeric!TokenCell(field.arrow, target.value, field.nullable, v)
<1>1. /\ field.arrow.name = "uint64" /\ ~Numeric!IsDecimal(field.arrow)
      /\ target.value = Numeric!Type("decimal", UInt64Digits, 0)
      /\ target.value.name = "decimal" /\ target.value.scale = 0
      /\ target.value.precision = UInt64Digits
  BY DEF PlannedUInt64, Numeric!Type, Numeric!IsDecimal
<1>2. v.kind = "number" /\ v.n \in 0 .. NumberBytes ^ 8 - 1
  BY <1>1 DEF IsNumericSlot, Numbers!NonFinite, Numbers!Number, Numbers!Null, Numeric!Null,
     Numbers!IsFloat, IsNumberOf, Numbers!UIntRange
<1>3. t = Numeric!DecimalOfUInt64(field.arrow, target.value, v.n)
  BY <1>1 DEF Numeric!TokenCell
<1>4. Numeric!IsOk(Numeric!ClassifyUInt64(field.arrow, target.value))
  BY <1>1 DEF Numeric!ClassifyUInt64, Numeric!IsOk, Numeric!Ok
<1>5. t = Numeric!DecimalWithShape(v.n, target.value)
  BY <1>1, <1>3, <1>4, NumericFacts DEF Numeric!DecimalOfUInt64
<1>6. v.n \in -(Ten ^ UInt64Digits - 1) .. Ten ^ UInt64Digits - 1 /\ v.n >= 0
  BY <1>2, NumericFacts
<1>7. t = Numeric!Ok(Numeric!Cell("decimal", v.n, 0))
  BY <1>1, <1>5, <1>6, NumericFacts DEF Numeric!DecimalWithShape, Numeric!FitsPrecision
<1>8. Numeric!ExactValue(r) = v.n
  BY <1>1 DEF Numeric!ExactValue
<1>9. Numeric!Representable(r)
  <2>1. Numeric!Representable(r) <=> /\ Numeric!Magnitude(v.n) < Ten ^ UInt64Digits
                                     /\ 0 < ScaleLimit
    BY <1>1, <1>2, <1>8 DEF Numeric!Representable
  <2>2. Numeric!Magnitude(v.n) = v.n
    BY <1>6 DEF Numeric!Magnitude
  <2> QED
    BY <1>6, <2>1, <2>2, NumericFacts
<1> QED
  BY <1>1, <1>6, <1>7, <1>8, <1>9 DEF ExactCell, Numeric!Ok, Numeric!Cell

\* Multiplying by a power of ten keeps signs and makes no magnitude smaller.
LEMMA Multiplied ==
    ASSUME NEW n \in Int, NEW f \in Nat \ {0}
    PROVE  /\ n * f \in Int
           /\ Numeric!Magnitude(n * f) = Numeric!Magnitude(n) * f
           /\ Numeric!Magnitude(n) <= Numeric!Magnitude(n * f)
<1>1. CASE n >= 0
  <2>1. n * f >= 0 /\ n <= n * f
    BY <1>1
  <2> QED
    BY <1>1, <2>1 DEF Numeric!Magnitude
<1>2. CASE n < 0
  <2>1. n * f < 0 /\ -(n * f) = (-n) * f /\ -n <= (-n) * f
    BY <1>2
  <2> QED
    BY <1>2, <2>1 DEF Numeric!Magnitude
<1> QED
  BY <1>1, <1>2

LEMMA DecimalIsExact ==
    ASSUME field \in NumericFields, PlannedDecimal, NEW r, column[r] # Numeric!Null,
           IsNumericSlot(field.arrow, column[r])
    PROVE  ExactCell(r, Numeric!TokenCell(field.arrow, target.value, field.nullable, column[r]))
<1> DEFINE v == column[r]
           t == Numeric!TokenCell(field.arrow, target.value, field.nullable, v)
           s == field.arrow.scale
           p == target.value.precision
           normal == Numeric!NormalizeNegativeScale(v.n, s)
           exact == Numeric!ExactValue(r)
           f == IF s < 0 THEN Ten ^ (-s) ELSE 1
<1>1. v.kind = "number" /\ v.n \in Int
  <2>1. v.kind = "number" /\ IsNumberOf(field.arrow.name, v.n)
    BY DEF IsNumericSlot, Numbers!NonFinite, Numbers!Number, Numbers!Null, Numeric!Null,
       Numbers!IsFloat, PlannedDecimal, Numeric!IsDecimal
  <2>2. CASE field.arrow.name = "decimal256"
    BY <2>1, <2>2 DEF IsNumberOf
  <2>3. CASE field.arrow.name # "decimal256"
    <3>1. v.n \in Numbers!IntRange(SignedBytes(field.arrow.name))
      BY <2>1, <2>3 DEF IsNumberOf, PlannedDecimal, Numeric!IsDecimal
    <3>2. SignedBytes(field.arrow.name) \in {4, 8, 16}
      BY <2>3 DEF SignedBytes, PlannedDecimal, Numeric!IsDecimal
    <3>3. PICK k \in {4, 8, 16} : k = SignedBytes(field.arrow.name)
      BY <3>2
    <3>4. PICK w \in Int : w = NumberBytes ^ k
      BY NumericFacts
    <3>5. v.n \in -(w \div 2) .. (w \div 2) - 1
      BY <3>1, <3>3, <3>4 DEF Numbers!IntRange
    <3> QED
      BY <2>1, <3>5
  <2> QED
    BY <2>1, <2>2, <2>3
<1>2. /\ s \in Int /\ field.arrow.precision \in Nat \ {0}
      /\ p = field.arrow.precision - (IF s < 0 THEN s ELSE 0)
      /\ p \in 1 .. MaxPrecision /\ MaxPrecision \in Nat
      /\ target.value.name = "decimal"
      /\ target.value.scale = (IF s < 0 THEN 0 ELSE s)
      /\ Numeric!IsDecimal(field.arrow) /\ field.arrow.name # "uint64"
  BY ValuesAssumption, Powers DEF NumericAssumption, PlannedDecimal, Numeric!IsDecimal
<1>3. f \in Nat \ {0} /\ Ten ^ p \in Nat \ {0}
  <2>1. s < 0 => -s \in 0 .. MaxPrecision + 1
    BY <1>2
  <2> QED
    BY <1>2, <2>1, Powers
<1>4. exact = v.n * f /\ exact \in Int
  BY <1>1, <1>2, <1>3 DEF Numeric!ExactValue
<1>5. /\ Numeric!Magnitude(exact) = Numeric!Magnitude(v.n) * f
      /\ Numeric!Magnitude(v.n) <= Numeric!Magnitude(exact)
  <2> HIDE DEF f, exact
  <2> QED
    BY <1>1, <1>3, <1>4, Multiplied
<1>6. PICK limit \in Int : /\ Numeric!MaxI128 = limit - 1
                           /\ Ten ^ p <= limit /\ (s < 0 => f < limit)
  <2>1. PICK w \in Int : w = NumberBytes ^ 16
    BY ValuesAssumption DEF NumericAssumption, Numeric!DigitsAssumption
  <2>2. 2 * Ten ^ MaxPrecision <= w
    BY <2>1, ValuesAssumption DEF NumericAssumption, Numeric!DigitsAssumption
  <2>3. Ten ^ p <= Ten ^ MaxPrecision /\ Ten ^ MaxPrecision \in Nat
    <3>1. p < MaxPrecision => Ten ^ p < Ten ^ MaxPrecision
      BY <1>2, PowersGrow
    <3>2. Ten ^ MaxPrecision \in Nat
      BY <1>2, Powers
    <3>3. p < MaxPrecision \/ p = MaxPrecision
      BY <1>2
    <3> HIDE DEF p
    <3> QED
      BY <1>3, <3>1, <3>2, <3>3
  <2>4. s < 0 => f < Ten ^ p
    <3>1. s < 0 => -s \in Nat /\ -s < p
      BY <1>2
    <3> QED
      BY <1>2, <3>1, PowersGrow
  <2>5. Numeric!MaxI128 = (w \div 2) - 1
    BY <2>1 DEF Numeric!MaxI128
  <2>6. Ten ^ p <= w \div 2
    <3>1. PICK a, b \in Nat : a = Ten ^ p /\ b = Ten ^ MaxPrecision
      BY <1>3, <2>3
    <3> QED
      BY <2>2, <2>3, <3>1
  <2> HIDE DEF f, p
  <2> QED
    BY <1>3, <2>4, <2>5, <2>6
<1>7. \A n \in Int : Numeric!FitsI128(n) <=> n \in -limit .. limit - 1
  BY <1>6 DEF Numeric!FitsI128
<1>8. /\ normal.code = "ok" => normal.value = exact
      /\ normal.code = "ok" <=> (s < 0 => Numeric!FitsI128(exact))
  <2>1. CASE s < 0
    <3>1. normal = Numeric!CheckedProduct(v.n, f)
      BY <1>2, <2>1 DEF Numeric!NormalizeNegativeScale
    <3>2. Numeric!FitsI128(f)
      BY <1>3, <1>6, <1>7, <2>1
    <3>3. normal = IF Numeric!FitsI128(exact) THEN Numeric!Ok(exact)
                   ELSE Numeric!Fail("DecimalOutOfRange")
      <4> HIDE DEF f, exact, normal
      <4> QED
        BY <1>4, <3>1, <3>2 DEF Numeric!CheckedProduct
    <3> HIDE DEF exact, normal
    <3> QED
      BY <2>1, <3>3 DEF Numeric!Ok, Numeric!Fail
  <2>2. CASE s >= 0
    <3>1. normal = Numeric!Ok(v.n) /\ exact = v.n
      BY <1>1, <1>2, <2>2 DEF Numeric!NormalizeNegativeScale, Numeric!ExactValue
    <3> HIDE DEF exact, normal
    <3> QED
      BY <1>2, <2>2, <3>1 DEF Numeric!Ok
  <2> QED
    BY <1>2, <2>1, <2>2
<1> DEFINE scaled == target.value.scale < ScaleLimit
<1>9. Numeric!IsOk(Numeric!ClassifyDecimal(field.arrow, target.value)) <=> scaled
  <2>1. scaled <=> target.value.scale \in 0 .. ScaleLimit - 1
    BY <1>2, NumericFacts
  <2> HIDE DEF scaled
  <2> QED
    BY <1>2, <2>1 DEF Numeric!ClassifyDecimal, Numeric!DecimalTarget, Numeric!ScaleCompatible,
       Numeric!Ok, Numeric!Fail, Numeric!IsOk
<1>10. t = Numeric!DecimalValue(field.arrow, target.value, v.n)
  BY <1>2 DEF Numeric!TokenCell
<1>11. Numeric!FitsPrecision(exact, p) <=> Numeric!Magnitude(exact) < Ten ^ p
  <2> HIDE DEF exact, p
  <2> QED
    BY <1>2, <1>3, <1>4 DEF Numeric!FitsPrecision, Numeric!Magnitude
<1>12. Numeric!FitsPrecision(exact, p) =>
          Numeric!FitsI128(v.n) /\ Numeric!FitsI128(exact)
  <2> HIDE DEF exact, p, f
  <2>1. ASSUME Numeric!Magnitude(exact) < Ten ^ p PROVE Numeric!FitsI128(v.n) /\ Numeric!FitsI128(exact)
    BY <1>1, <1>3, <1>4, <1>5, <1>6, <1>7, <2>1 DEF Numeric!Magnitude
  <2> QED
    BY <1>11, <2>1
<1>13. Numeric!Representable(r) <=> scaled /\ Numeric!FitsPrecision(exact, p)
  <2> HIDE DEF exact
  <2> QED
    BY <1>1, <1>2, <1>11 DEF Numeric!Representable, exact
<1>14. scaled /\ Numeric!FitsPrecision(exact, p) =>
          t = Numeric!Ok(Numeric!Cell("decimal", exact, target.value.scale))
  <2>1. SUFFICES ASSUME scaled, Numeric!FitsPrecision(exact, p)
                 PROVE  t = Numeric!Ok(Numeric!Cell("decimal", exact, target.value.scale))
    OBVIOUS
  <2>2. normal.code = "ok" /\ normal.value = exact /\ Numeric!FitsI128(v.n)
    BY <1>8, <1>12, <2>1
  <2>3. t = Numeric!DecimalWithShape(normal.value, target.value)
    BY <1>9, <1>10, <2>1, <2>2 DEF Numeric!DecimalValue, Numeric!IsOk
  <2> HIDE DEF exact, normal, t
  <2> QED
    BY <2>1, <2>2, <2>3 DEF Numeric!DecimalWithShape
<1>15. t.code = "ok" => scaled /\ Numeric!FitsPrecision(exact, p)
  <2> SUFFICES ASSUME t.code = "ok" PROVE scaled /\ Numeric!FitsPrecision(exact, p)
    OBVIOUS
  <2>1. scaled
    <3>1. CASE ~scaled
      <4>1. t = Numeric!ClassifyDecimal(field.arrow, target.value)
        BY <1>9, <1>10, <3>1 DEF Numeric!DecimalValue
      <4> QED
        BY <1>9, <3>1, <4>1 DEF Numeric!IsOk
    <3> QED
      BY <3>1
  <2>2. Numeric!FitsI128(v.n)
    <3>1. CASE ~Numeric!FitsI128(v.n)
      BY <1>9, <1>10, <2>1, <3>1 DEF Numeric!DecimalValue, Numeric!Fail
    <3> QED
      BY <3>1
  <2>3. normal.code = "ok"
    <3>1. CASE normal.code # "ok"
      <4>1. t = normal
        BY <1>9, <1>10, <2>1, <2>2, <3>1 DEF Numeric!DecimalValue, Numeric!IsOk
      <4> QED
        BY <3>1, <4>1
    <3> QED
      BY <3>1
  <2>4. t = Numeric!DecimalWithShape(exact, target.value)
    BY <1>8, <1>9, <1>10, <2>1, <2>2, <2>3 DEF Numeric!DecimalValue, Numeric!IsOk
  <2> HIDE DEF exact
  <2> QED
    BY <2>1, <2>4 DEF Numeric!DecimalWithShape, Numeric!Fail
<1>16. Numeric!FitsPrecision(exact, p) => exact \in -(Ten ^ p - 1) .. Ten ^ p - 1
  BY DEF Numeric!FitsPrecision
<1>17. Numeric!Magnitude(v.n) < Ten ^ field.arrow.precision =>
          Numeric!Magnitude(exact) < Ten ^ p
  <2>1. CASE s < 0
    <3>1. Ten ^ p = Ten ^ field.arrow.precision * f
      <4>1. -s \in Nat /\ field.arrow.precision + (-s) = p
        BY <1>2, <2>1
      <4> QED
        BY <1>2, <2>1, <4>1, PowersAdd
    <3>2. Ten ^ field.arrow.precision \in Nat
      BY <1>2, <2>1, Powers
    <3>3. PICK a, b \in Nat, g \in Nat \ {0} :
             a = Numeric!Magnitude(v.n) /\ b = Ten ^ field.arrow.precision /\ g = f
      <4>1. Numeric!Magnitude(v.n) \in Nat
        BY <1>1 DEF Numeric!Magnitude
      <4> QED
        BY <1>3, <3>2, <4>1
    <3>4. a < b => a * g < b * g
      BY ONLY a \in Nat, b \in Nat, g \in Nat \ {0}
    <3> HIDE DEF exact, p, f
    <3> QED
      BY <1>5, <3>1, <3>3, <3>4
  <2>2. CASE s >= 0
    <3>1. p = field.arrow.precision /\ exact = v.n
      BY <1>1, <1>2, <2>2 DEF Numeric!ExactValue
    <3> QED
      BY <3>1
  <2> QED
    BY <1>2, <2>1, <2>2
<1> HIDE DEF exact, p, t
<1>18. t.code = "ok" <=> Numeric!Representable(r)
  BY <1>13, <1>14, <1>15 DEF Numeric!Ok
<1>19. ASSUME t.code = "ok"
       PROVE  /\ t.value.n = exact /\ t.value.scale = target.value.scale
              /\ t.value.n \in -(Ten ^ p - 1) .. Ten ^ p - 1
  BY <1>14, <1>15, <1>16, <1>19 DEF Numeric!Ok, Numeric!Cell
<1>20. scaled /\ Numeric!Magnitude(v.n) < Ten ^ field.arrow.precision
          => Numeric!Representable(r)
  BY <1>11, <1>13, <1>17
<1>21. ExactCell(r, t)
  BY <1>2, <1>18, <1>19, <1>20 DEF ExactCell, exact, p
<1> QED
  BY <1>21 DEF t

\* Every slot of a converted column: exact, whatever the planned type.
LEMMA NumericCellIsExact ==
    ASSUME field \in NumericFields, policy \in NumericPolicies,
           target = Numeric!PlanField(field.arrow, policy), target.code = "ok",
           NEW r, IsNumericSlot(field.arrow, column[r])
    PROVE  ExactCell(r, Numeric!TokenCell(field.arrow, target.value, field.nullable, column[r]))
<1> DEFINE t == Numeric!TokenCell(field.arrow, target.value, field.nullable, column[r])
<1>1. CASE column[r] = Numeric!Null
  <2>1. t.code = IF field.nullable THEN "ok" ELSE "NullInNonNullableColumn"
    BY <1>1 DEF Numeric!TokenCell, Numeric!Ok, Numeric!Fail
  <2>2. column[r].kind = "null"
    BY <1>1 DEF Numeric!Null
  <2>3. Numeric!Representable(r) <=> field.nullable
    BY <2>2, NumericFacts DEF Numeric!Representable
  <2> QED
    BY <1>1, <2>1, <2>2, <2>3, NumericFacts DEF ExactCell
<1>2. CASE column[r] # Numeric!Null
  BY <1>2, NumericPlans, PrimitiveIsExact, UInt64IsExact, DecimalIsExact
<1> QED
  BY <1>1, <1>2

\* The cells of a numeric column that was converted.
LEMMA NumericCells ==
    ASSUME NumericInv, tokens # Pending
    PROVE  /\ Len(column) \in Nat /\ DOMAIN column = 1..Len(column)
           /\ Ends(NumericTokens, Len(column), tokens)
           /\ \A r \in 1..Len(column) :
                 IsNumericSlot(field.arrow, column[r]) /\ ExactCell(r, NumericTokens[r])
<1>1. /\ field \in NumericFields /\ policy \in NumericPolicies
      /\ target.code = "ok" /\ column \in NumericColumns(field.arrow)
      /\ Ends(NumericTokens, Len(column), tokens)
  BY DEF NumericInv
<1>2. target = Numeric!PlanField(field.arrow, policy)
  BY <1>1 DEF NumericInv, Numeric!Undecided, Numeric!Fail
<1>3. /\ DOMAIN column = 1..Len(column) /\ Len(column) \in Nat
      /\ \A r \in DOMAIN column : IsNumericSlot(field.arrow, column[r])
  BY <1>1, NumericSlots
<1>4. ASSUME NEW r \in 1..Len(column) PROVE ExactCell(r, NumericTokens[r])
  <2>1. NumericTokens[r]
           = Numeric!TokenCell(field.arrow, target.value, field.nullable, column[r])
    BY <1>3 DEF NumericTokens
  <2> QED
    BY <1>1, <1>2, <1>3, <2>1, NumericCellIsExact
<1> QED
  BY <1>1, <1>3, <1>4

LEMMA NumericIsExact ==
    ASSUME NumericInv PROVE Numeric!NumbersAreExact
<1>1. ASSUME tokens # Pending PROVE Numeric!StopsAtFirstUnfit(tokens)
  <2>1. \A r \in 1..Len(column) : NumericTokens[r].code = "ok" <=> Numeric!Representable(r)
    BY <1>1, NumericCells DEF ExactCell
  <2>2. /\ DOMAIN column = 1..Len(column) /\ Len(column) \in Nat
        /\ Ends(NumericTokens, Len(column), tokens)
    BY <1>1, NumericCells
  <2> QED
    BY <2>1, <2>2 DEF Ends, Numeric!StopsAtFirstUnfit
<1>2. ASSUME lengths # Pending PROVE Numeric!StopsAtFirstUnfit(lengths)
  <2>1. lengths.code = tokens.code /\ lengths.row = tokens.row
    BY <1>2, NumericPathsAgree DEF Numeric!PathsAgree, Numeric!Pending, Pending
  <2>2. tokens # Pending
    BY <1>2 DEF NumericInv
  <2> QED
    BY <1>1, <2>1, <2>2 DEF Numeric!StopsAtFirstUnfit
<1>3. Numeric!AcceptedValuesAreExact
  <2>1. SUFFICES ASSUME tokens.code = "ok", NEW r \in DOMAIN column, column[r] # Numeric!Null
                 PROVE  /\ tokens.cells[r].n = Numeric!ExactValue(r)
                        /\ tokens.cells[r].scale = target.value.scale
                        /\ target.value.name = "decimal" =>
                               tokens.cells[r].n \in -(Ten ^ target.value.precision - 1)
                                                         .. Ten ^ target.value.precision - 1
    BY DEF Numeric!AcceptedValuesAreExact
  <2>2. tokens # Pending
    BY <2>1 DEF Pending
  <2>3. /\ Len(column) \in Nat /\ DOMAIN column = 1..Len(column)
        /\ Ends(NumericTokens, Len(column), tokens)
        /\ ExactCell(r, NumericTokens[r])
    BY <2>2, NumericCells
  <2>4. tokens.cells[r] = NumericTokens[r].value /\ NumericTokens[r].code = "ok"
    BY <2>1, <2>3 DEF Ends
  <2> QED
    BY <2>1, <2>3, <2>4 DEF ExactCell
<1>4. Numeric!PlanHasRoom
  <2>1. SUFFICES ASSUME target.value.scale < ScaleLimit, tokens.row # 0,
                        column[tokens.row].kind = "number",
                        \/ /\ Numeric!IsDecimal(field.arrow)
                           /\ Numeric!Magnitude(column[tokens.row].n) < Ten ^ field.arrow.precision
                        \/ field.arrow.name = "uint64" /\ policy.uint64 = "decimal20_0"
                        \/ ~Numeric!IsDecimal(field.arrow) /\ field.arrow.name # "uint64"
                 PROVE  FALSE
    BY DEF Numeric!PlanHasRoom
  <2>2. tokens # Pending
    BY <2>1 DEF Pending
  <2>3. /\ Ends(NumericTokens, Len(column), tokens)
        /\ \A r \in 1..Len(column) : ExactCell(r, NumericTokens[r])
    BY <2>2, NumericCells
  <2>4. tokens.row \in 1..Len(column) /\ NumericTokens[tokens.row].code # "ok"
    BY <2>1, <2>3 DEF Ends
  <2> QED
    BY <2>1, <2>3, <2>4 DEF ExactCell
<1> QED
  BY <1>1, <1>2, <1>3, <1>4
     DEF Numeric!NumbersAreExact, Numeric!FirstUnfitRow, Numeric!Pending, Pending

-----------------------------------------------------------------------------
(* The clock *)

Positive == Nat \ {0}

\* Units of one scale in those of another, in a tick and in a day.
LEMMA Clock ==
    /\ {Temporal!TicksPerSecond, Temporal!TickStep, Temporal!Fraction, Temporal!NanosPerTick,
        Temporal!TicksPerDay, FragmentsPerSecond, SecondsPerDay, SecondsPerMinute,
        Base ^ NanoScale} \subseteq Positive
    /\ EpochDays \in Nat /\ MaxDays \in Nat /\ MaxOffsetMinutes \in Nat
    /\ MinutesPerHour \in Nat
    /\ {DateTimeEpochDays, DateTimeMinDays, DateTimeMaxDays} \subseteq Int
    /\ {MilliScale, MicroScale, TickScale, NanoScale} \subseteq Nat
    /\ MilliScale < MicroScale /\ MicroScale < TickScale /\ TickScale < NanoScale
    /\ Temporal!TickStep = FragmentsPerSecond * Temporal!NanosPerTick
    /\ Temporal!Fraction = Temporal!TickStep * Temporal!TicksPerSecond
    /\ Temporal!Fraction = FragmentsPerSecond * Base ^ NanoScale
    /\ Base ^ NanoScale = Temporal!NanosPerTick * Temporal!TicksPerSecond
    /\ Temporal!TicksPerDay = SecondsPerDay * Temporal!TicksPerSecond
    /\ Temporal!Fraction \div Base ^ NanoScale = FragmentsPerSecond
    /\ Temporal!Fraction \div FragmentsPerSecond = Base ^ NanoScale
    /\ \A s \in 0 .. TickScale :
          /\ Temporal!TicksPerIncrement(s) \in Positive /\ Base ^ s \in Positive
          /\ Temporal!TicksPerSecond = Base ^ s * Temporal!TicksPerIncrement(s)
          /\ Temporal!Fraction \div Base ^ s = Temporal!TickStep * Temporal!TicksPerIncrement(s)
    /\ Temporal!TicksPerIncrement(TickScale) = 1
<1> USE DEF Positive
<1>1. /\ {Base, MilliScale, MicroScale, TickScale, NanoScale} \subseteq Nat \ {0}
      /\ MilliScale < MicroScale /\ MicroScale < TickScale /\ TickScale < NanoScale
      /\ {SecondsPerMinute, MinutesPerHour, SecondsPerDay, FragmentsPerSecond} \subseteq Nat \ {0}
      /\ {EpochDays, MaxDays, MaxOffsetMinutes} \subseteq Nat
      /\ {DateTimeEpochDays, DateTimeMinDays, DateTimeMaxDays} \subseteq Int
      /\ Base ^ 0 = 1 /\ \A k \in 0 .. NanoScale - 1 : Base ^ (k + 1) = Base * Base ^ k
  BY ValuesAssumption
     DEF TemporalAssumption, Temporal!ScalesAssumption, Temporal!CalendarAssumption,
         Temporal!PowersAssumption
<1>2. PICK b \in Nat \ {0}, n \in Nat : b = Base /\ n = NanoScale
  BY <1>1
<1>3. /\ \A k \in 0 .. n : b ^ k \in Nat \ {0}
      /\ \A j \in 0 .. n : \A k \in 0 .. n - j : b ^ (j + k) = b ^ j * b ^ k
  <2>1. b ^ 0 = 1 /\ \A k \in 0 .. n - 1 : b ^ (k + 1) = b * b ^ k
    BY <1>1, <1>2
  <2> QED
    BY <2>1, PowerLaws
<1>4. PICK t \in Nat \ {0} : t = Temporal!TicksPerSecond
  BY <1>1, <1>2, <1>3 DEF Temporal!TicksPerSecond
<1>5. PICK p \in Nat \ {0} : p = Temporal!NanosPerTick
  BY <1>1, <1>2, <1>3 DEF Temporal!NanosPerTick
<1>6. PICK f \in Nat \ {0}, d \in Nat \ {0} : f = FragmentsPerSecond /\ d = SecondsPerDay
  BY <1>1
<1>7. Base ^ NanoScale = p * t
  <2>1. PICK j \in 0 .. n, k \in Nat : j = TickScale /\ k = NanoScale - TickScale /\ k \in 0 .. n - j
    BY <1>1, <1>2
  <2>2. j + k = n
    BY <1>1, <1>2, <2>1
  <2>3. b ^ n = b ^ j * b ^ k
    BY <1>3, <2>1, <2>2
  <2>4. t = b ^ j /\ p = b ^ k
    BY <1>2, <1>4, <1>5, <2>1 DEF Temporal!TicksPerSecond, Temporal!NanosPerTick
  <2>5. t * p = p * t
    OBVIOUS
  <2> QED
    BY <1>2, <2>3, <2>4, <2>5
<1>8. /\ Temporal!Fraction = (f * p) * t /\ Temporal!Fraction = f * (p * t)
      /\ Temporal!Fraction = (p * t) * f
  <2>1. Temporal!Fraction = f * (p * t)
    BY <1>6, <1>7 DEF Temporal!Fraction
  <2>2. f * (p * t) = (f * p) * t /\ f * (p * t) = (p * t) * f
    BY ONLY f \in Nat, p \in Nat, t \in Nat
  <2> QED
    BY <2>1, <2>2
<1>9. p * t \in Nat \ {0} /\ f * p \in Nat \ {0} /\ (f * p) * t \in Nat \ {0} /\ d * t \in Nat \ {0}
  <2>1. p * t \in Nat \ {0} /\ f * p \in Nat \ {0} /\ d * t \in Nat \ {0}
    BY ONLY p \in Nat \ {0}, t \in Nat \ {0}, f \in Nat \ {0}, d \in Nat \ {0}
  <2>2. PICK g \in Nat \ {0} : g = f * p
    BY <2>1
  <2>3. g * t \in Nat \ {0}
    BY ONLY g \in Nat \ {0}, t \in Nat \ {0}
  <2> QED
    BY <2>1, <2>2, <2>3
<1>10. Temporal!TickStep = f * p
  <2>1. ((f * p) * t) \div t = f * p
    BY <1>9, ExactQuotient
  <2> QED
    BY <1>4, <1>8, <2>1 DEF Temporal!TickStep
<1>11. Temporal!Fraction \div Base ^ NanoScale = f /\ Temporal!Fraction \div f = p * t
  <2>1. PICK m \in Nat \ {0} : m = p * t
    BY <1>9
  <2>2. (f * m) \div m = f /\ (m * f) \div f = m
    BY ExactQuotient
  <2> QED
    BY <1>7, <1>8, <2>1, <2>2
<1>12. ASSUME NEW s \in 0 .. TickScale
       PROVE  /\ Temporal!TicksPerIncrement(s) \in Nat \ {0} /\ Base ^ s \in Nat \ {0}
              /\ Temporal!TicksPerSecond = Base ^ s * Temporal!TicksPerIncrement(s)
              /\ Temporal!Fraction \div Base ^ s
                    = Temporal!TickStep * Temporal!TicksPerIncrement(s)
  <2>1. PICK j \in 0 .. n, k \in Nat : j = s /\ k = TickScale - s /\ k \in 0 .. n - j
    BY <1>1, <1>2
  <2>2. j + k = TickScale
    BY <1>1, <2>1
  <2>3. PICK x \in Nat \ {0} : x = b ^ j
    BY <1>3
  <2>4. PICK y \in Nat \ {0} : y = b ^ k
    BY <1>3, <2>1
  <2>5. t = x * y
    BY <1>2, <1>3, <1>4, <2>1, <2>2, <2>3, <2>4 DEF Temporal!TicksPerSecond
  <2>6. Temporal!TicksPerIncrement(s) = y /\ Base ^ s = x
    BY <1>2, <2>1, <2>3, <2>4 DEF Temporal!TicksPerIncrement
  <2>7. PICK g \in Nat \ {0} : g = f * p
    BY <1>9
  <2>8. g * (x * y) = (g * y) * x /\ g * y \in Int
    BY ONLY g \in Nat, x \in Nat, y \in Nat
  <2>9. ((g * y) * x) \div x = g * y
    BY <2>8, ExactQuotient
  <2> QED
    BY <1>4, <1>8, <1>10, <2>5, <2>6, <2>7, <2>8, <2>9
<1>13. Temporal!TicksPerIncrement(TickScale) = 1
  <2>1. TickScale - TickScale = 0
    BY <1>1
  <2> QED
    BY <1>1, <2>1 DEF Temporal!TicksPerIncrement
<1>14. Temporal!TicksPerDay = d * t
  BY <1>4, <1>6 DEF Temporal!TicksPerDay
<1>15. {Temporal!TicksPerSecond, Temporal!TickStep, Temporal!Fraction, Temporal!NanosPerTick,
        Temporal!TicksPerDay, Base ^ NanoScale} \subseteq Nat \ {0}
  BY <1>4, <1>5, <1>7, <1>8, <1>9, <1>10, <1>14
<1>16. /\ Temporal!TickStep = FragmentsPerSecond * Temporal!NanosPerTick
       /\ Temporal!Fraction = Temporal!TickStep * Temporal!TicksPerSecond
       /\ Temporal!Fraction = FragmentsPerSecond * Base ^ NanoScale
       /\ Base ^ NanoScale = Temporal!NanosPerTick * Temporal!TicksPerSecond
       /\ Temporal!TicksPerDay = SecondsPerDay * Temporal!TicksPerSecond
       /\ Temporal!Fraction \div Base ^ NanoScale = FragmentsPerSecond
       /\ Temporal!Fraction \div FragmentsPerSecond = Base ^ NanoScale
  BY <1>4, <1>5, <1>6, <1>7, <1>8, <1>10, <1>11, <1>14
<1> QED
  BY <1>1, <1>12, <1>13, <1>15, <1>16

-----------------------------------------------------------------------------
(* Ticks *)

TemporalTyped == field.unit \in Units /\ policy \in {"reject", "truncate", "round"}
TicksOf(n) == Temporal!TimestampTicks(field.unit, n, policy)
TimestampInstant(n) == n * (Temporal!Fraction \div Base ^ Temporal!UnitScale(field.unit))

LEMMA WholeTicks ==
    ASSUME TemporalTyped, field.unit # "ns", NEW n \in Int
    PROVE  /\ Temporal!UnitScale(field.unit) \in 0 .. TickScale
           /\ TicksOf(n).code = "ok"
           /\ TicksOf(n).value = n * Temporal!TicksPerIncrement(Temporal!UnitScale(field.unit))
           /\ TicksOf(n).value \in Int
           /\ TimestampInstant(n) = TicksOf(n).value * Temporal!TickStep
<1>1. Temporal!UnitScale(field.unit) \in 0 .. TickScale
  BY Clock DEF TemporalTyped, Units, Temporal!UnitScale
<1>2. PICK y \in Positive : y = Temporal!TicksPerIncrement(Temporal!UnitScale(field.unit))
  BY <1>1, Clock
<1>3. PICK g \in Positive : g = Temporal!TickStep
  BY Clock
<1>4. TicksOf(n) = Temporal!Ok(n * y)
  BY <1>2 DEF TicksOf, Temporal!TimestampTicks
<1>5. TimestampInstant(n) = n * (g * y)
  BY <1>1, <1>2, <1>3, Clock DEF TimestampInstant
<1>6. n * (g * y) = (n * y) * g /\ n * y \in Int
  BY ONLY n \in Int, g \in Positive, y \in Positive DEF Positive
<1> QED
  BY <1>1, <1>2, <1>3, <1>4, <1>5, <1>6 DEF Temporal!Ok

\* Nanoseconds are rounded to ticks, or taken for the tick they are in.
LEMMA NanosInTicks ==
    ASSUME TemporalTyped, field.unit = "ns", NEW n \in Int
    PROVE  /\ TimestampInstant(n) = n * FragmentsPerSecond
           /\ TicksOf(n).code \in {"ok", "LossyConversionRequiresPolicy"}
           /\ TicksOf(n).code = "ok" =>
                 TicksOf(n).value = IF policy = "round"
                                    THEN Temporal!RoundHalfUp(n, Temporal!NanosPerTick)
                                    ELSE n \div Temporal!NanosPerTick
           /\ TicksOf(n).code = "ok" <=>
                 (policy = "reject" => n % Temporal!NanosPerTick = 0)
<1>1. Temporal!UnitScale(field.unit) = NanoScale
  BY DEF Temporal!UnitScale
<1>2. TimestampInstant(n) = n * FragmentsPerSecond
  BY <1>1, Clock DEF TimestampInstant
<1>3. TicksOf(n) = Temporal!NanosToTicks(n, policy)
  BY DEF TicksOf, Temporal!TimestampTicks
<1>4. PICK p \in Positive : p = Temporal!NanosPerTick
  BY Clock
<1>5. PICK q \in Int : q = n \div p
  BY <1>4, Quotient DEF Positive
<1>6. PICK r \in Nat : r = n % p
  BY <1>4, Quotient DEF Positive
<1>7. TicksOf(n) = CASE policy = "reject" /\ r # 0 -> Temporal!Fail("LossyConversionRequiresPolicy")
                     [] policy = "round" /\ r * 2 >= p -> Temporal!Ok(q + 1)
                     [] OTHER -> Temporal!Ok(q)
  BY <1>3, <1>4, <1>5, <1>6 DEF Temporal!NanosToTicks
<1>8. Temporal!RoundHalfUp(n, p) = q + IF r * 2 >= p THEN 1 ELSE 0
  BY <1>5, <1>6 DEF Temporal!RoundHalfUp
<1>9. Temporal!RoundHalfUp(n, p) = IF r * 2 >= p THEN q + 1 ELSE q
  BY <1>8
<1>10. CASE policy = "reject" /\ r # 0
  BY <1>2, <1>4, <1>6, <1>7, <1>10 DEF Temporal!Fail
<1>11. CASE policy = "round" /\ r * 2 >= p
  BY <1>2, <1>4, <1>7, <1>9, <1>11 DEF Temporal!Ok
<1>12. CASE ~ (policy = "reject" /\ r # 0) /\ ~ (policy = "round" /\ r * 2 >= p)
  <2>1. TicksOf(n) = Temporal!Ok(q)
    BY <1>7, <1>12
  <2> QED
    BY <1>2, <1>4, <1>5, <1>6, <1>9, <1>12, <2>1 DEF Temporal!Ok
<1> QED
  BY <1>10, <1>11, <1>12

\* How far the ticks of a timestamp are from it, and on which side of a limit.
LEMMA TicksKept ==
    ASSUME TemporalTyped, NEW n \in Int
    PROVE  /\ TimestampInstant(n) \in Int
           /\ TicksOf(n).code = "ok" =>
                 /\ TicksOf(n).value \in Int
                 /\ 2 * (TicksOf(n).value * Temporal!TickStep - TimestampInstant(n))
                       <= Temporal!ShiftUp
                 /\ 2 * (TicksOf(n).value * Temporal!TickStep - TimestampInstant(n))
                       >= -Temporal!ShiftDown
                 /\ \A a \in Int : TicksOf(n).value < a =>
                       TimestampInstant(n) < a * Temporal!TickStep
           /\ TicksOf(n).code # "ok" =>
                 /\ TicksOf(n).code = "LossyConversionRequiresPolicy"
                 /\ field.unit = "ns" /\ n % Temporal!NanosPerTick # 0
<1>1. CASE field.unit # "ns"
  <2>1. Temporal!ShiftUp = 0 /\ Temporal!ShiftDown = 0
    BY <1>1 DEF Temporal!ShiftUp, Temporal!ShiftDown
  <2>2. PICK g \in Positive : g = Temporal!TickStep
    BY Clock
  <2>3. PICK t \in Int : t = TicksOf(n).value
    BY <1>1, WholeTicks
  <2>4. TimestampInstant(n) = t * g /\ TicksOf(n).code = "ok"
    BY <1>1, <2>2, <2>3, WholeTicks
  <2>5. t * g \in Int
    BY DEF Positive
  <2>6. \A a \in Int : t < a => t * g < a * g
    BY Cancel DEF Positive
  <2>7. t * g - t * g = 0
    BY <2>5
  <2> QED
    BY <2>1, <2>2, <2>3, <2>4, <2>5, <2>6, <2>7
<1>2. CASE field.unit = "ns"
  <2>1. PICK p \in Positive, f \in Positive, g \in Positive :
           p = Temporal!NanosPerTick /\ f = FragmentsPerSecond /\ g = Temporal!TickStep /\ g = f * p
    BY Clock
  <2>2. TimestampInstant(n) = n * f /\ n * f \in Int
    BY <1>2, <2>1, NanosInTicks DEF Positive
  <2>3. PICK q \in Int, r \in 0 .. p - 1 : q = n \div p /\ r = n % p /\ n = q * p + r
    BY Quotient DEF Positive
  <2>4. TicksOf(n).code # "ok" => policy = "reject" /\ n % Temporal!NanosPerTick # 0
    BY <1>2, NanosInTicks
  <2>5. \A x \in Int : x * g = (x * p) * f
    BY <2>1 DEF Positive
  <2>6. \A a \in Int : q < a => n * f < a * g
    <3>1. SUFFICES ASSUME NEW a \in Int, q < a PROVE n * f < a * g
      OBVIOUS
    <3>2. n < a * p
      BY <2>3, <3>1, QuotientBound DEF Positive
    <3>3. n * f < (a * p) * f
      <4>1. PICK b \in Int : b = a * p
        BY DEF Positive
      <4> QED
        BY <3>2, <4>1, Cancel DEF Positive
    <3> QED
      BY <2>5, <3>3
  <2>7. CASE TicksOf(n).code = "ok" /\ policy = "round"
    <3>1. PICK k \in Int : k = TicksOf(n).value /\ k = Temporal!RoundHalfUp(n, p)
      BY <1>2, <2>1, <2>7, NanosInTicks, Rounded DEF Positive
    <3>2. 2 * (k * p - n) <= p /\ 2 * (k * p - n) > -p
      BY <3>1, Rounded DEF Positive
    <3>3. PICK d \in Int : d = k * p - n
      BY DEF Positive
    <3>4. k * g - n * f = d * f
      <4>1. k * (f * p) - n * f = (k * p - n) * f
        BY ONLY k \in Int, p \in Positive, n \in Int, f \in Positive DEF Positive
      <4> QED
        BY <2>1, <3>3, <4>1
    <3>5. (2 * d) * f <= p * f /\ (-p) * f <= (2 * d) * f
      BY <3>2, <3>3, Cancel DEF Positive
    <3>6. 2 * (d * f) <= g /\ 2 * (d * f) >= -g
      <4>1. (2 * d) * f = 2 * (d * f) /\ p * f = f * p /\ (-p) * f = -(f * p)
        BY ONLY d \in Int, p \in Positive, f \in Positive DEF Positive
      <4> QED
        BY <2>1, <3>5, <4>1
    <3>7. Temporal!ShiftUp = g /\ Temporal!ShiftDown = g
      BY <1>2, <2>1, <2>7 DEF Temporal!ShiftUp, Temporal!ShiftDown
    <3>8. q <= k
      BY <2>3, <3>1 DEF Temporal!RoundHalfUp
    <3>9. \A a \in Int : k < a => n * f < a * g
      BY <2>6, <3>8
    <3> QED
      BY <2>1, <2>2, <2>7, <3>1, <3>4, <3>6, <3>7, <3>9
  <2>8. CASE TicksOf(n).code = "ok" /\ policy # "round"
    <3>1. TicksOf(n).value = q
      BY <1>2, <2>1, <2>3, <2>8, NanosInTicks
    <3>2. q * g - n * f = -(r * f) /\ r * f \in Nat
      <4>1. q * (f * p) - (q * p + r) * f = -(r * f) /\ r * f \in Nat
        BY ONLY q \in Int, p \in Positive, r \in Nat, f \in Positive DEF Positive
      <4> QED
        BY <2>1, <2>3, <4>1
    <3>3. r * f <= g
      <4>1. r * f <= p * f /\ p * f = f * p
        BY <2>3, Cancel DEF Positive
      <4> QED
        BY <2>1, <4>1
    <3>4. CASE policy = "reject"
      <4>1. r = 0
        BY <1>2, <2>1, <2>3, <2>8, <3>4, NanosInTicks
      <4>2. r * f = 0
        BY <4>1 DEF Positive
      <4>3. Temporal!ShiftUp = 0 /\ Temporal!ShiftDown = 0
        BY <3>4 DEF Temporal!ShiftUp, Temporal!ShiftDown
      <4>4. q * g - n * f = 0
        BY <3>2, <4>2
      <4> QED
        BY <2>1, <2>2, <2>6, <2>8, <3>1, <4>3, <4>4
    <3>5. CASE policy = "truncate"
      <4>1. Temporal!ShiftUp = 0 /\ Temporal!ShiftDown = 2 * g
        BY <1>2, <2>1, <3>5 DEF Temporal!ShiftUp, Temporal!ShiftDown
      <4>2. PICK d \in Nat : d = r * f /\ d <= g
        BY <3>2, <3>3
      <4>3. 2 * (q * g - n * f) <= 0 /\ 2 * (q * g - n * f) >= -(2 * g)
        BY <3>2, <4>2 DEF Positive
      <4> QED
        BY <2>1, <2>2, <2>6, <2>8, <3>1, <4>1, <4>3
    <3> QED
      BY <2>8, <3>4, <3>5 DEF TemporalTyped
  <2>9. TicksOf(n).code # "ok" => TicksOf(n).code = "LossyConversionRequiresPolicy"
    BY <1>2, NanosInTicks
  <2> QED
    BY <1>2, <2>2, <2>4, <2>7, <2>8, <2>9
<1> QED
  BY <1>1, <1>2

LEMMA TicksOrder ==
    ASSUME TemporalTyped, NEW m \in Int, NEW n \in Int, m <= n,
           TicksOf(m).code = "ok", TicksOf(n).code = "ok"
    PROVE  TicksOf(m).value <= TicksOf(n).value
<1>1. CASE field.unit # "ns"
  <2>1. PICK y \in Positive : y = Temporal!TicksPerIncrement(Temporal!UnitScale(field.unit))
    BY <1>1, WholeTicks, Clock
  <2>2. TicksOf(m).value = m * y /\ TicksOf(n).value = n * y
    BY <1>1, <2>1, WholeTicks
  <2> QED
    BY <2>2, Cancel DEF Positive
<1>2. CASE field.unit = "ns" /\ policy = "round"
  <2>1. PICK p \in Positive : p = Temporal!NanosPerTick
    BY Clock
  <2>2. /\ TicksOf(m).value = Temporal!RoundHalfUp(m, p)
        /\ TicksOf(n).value = Temporal!RoundHalfUp(n, p)
    BY <1>2, <2>1, NanosInTicks
  <2> QED
    BY <2>2, RoundedOrder DEF Positive
<1>3. CASE field.unit = "ns" /\ policy # "round"
  <2>1. PICK p \in Positive : p = Temporal!NanosPerTick
    BY Clock
  <2>2. TicksOf(m).value = m \div p /\ TicksOf(n).value = n \div p
    BY <1>3, <2>1, NanosInTicks
  <2>3. PICK q \in Int : q = m \div p
    BY Quotient DEF Positive
  <2>4. q * p <= m /\ q * p \in Int
    BY <2>3, QuotientBound DEF Positive
  <2>5. q * p <= n
    BY <2>4
  <2>6. q <= n \div p
    BY <2>5, QuotientBound DEF Positive
  <2> QED
    BY <2>2, <2>3, <2>6
<1> QED
  BY <1>1, <1>2, <1>3

-----------------------------------------------------------------------------
(* Instants of the SQL Server types *)

\* A day and a time as an instant, counted from the Unix epoch.
StampInstant(day, time, step) == day * SecondsPerDay * Temporal!Fraction + time * step

\* An instant that is a number of steps is cut into its day and the steps of it.
LEMMA StampOfSteps ==
    ASSUME NEW k \in Int, NEW day \in Positive, NEW step \in Positive,
           SecondsPerDay * Temporal!Fraction = day * step
    PROVE  StampInstant(k \div day, k % day, step) = k * step
<1>1. PICK q \in Int, r \in 0 .. day - 1 : q = k \div day /\ r = k % day /\ k = q * day + r
  BY Quotient DEF Positive
<1>2. PICK s \in Positive, f \in Positive : s = SecondsPerDay /\ f = Temporal!Fraction
  BY Clock
<1>3. q * s * f = q * (day * step)
  <2>1. q * s * f = q * (s * f)
    BY ONLY q \in Int, s \in Positive, f \in Positive DEF Positive
  <2> QED
    BY <1>2, <2>1
<1>4. q * (day * step) + r * step = (q * day + r) * step
  BY ONLY q \in Int, r \in Nat, day \in Positive, step \in Positive DEF Positive
<1>5. StampInstant(k \div day, k % day, step) = q * s * f + r * step
  BY <1>1, <1>2 DEF StampInstant
<1> QED
  BY <1>1, <1>3, <1>4, <1>5

LEMMA DateTime2OfTicks ==
    ASSUME NEW x \in Int, NEW scale \in 0 .. TickScale,
           NEW step \in Positive, step = Temporal!TicksPerIncrement(scale),
           NEW k \in Int, k = Temporal!RoundHalfUp(x, step),
           NEW d, d = Temporal!DateTime2FromTicks(x, scale)
    PROVE  /\ k * step \in Int
           /\ d.code \in {"ok", "TimestampOutOfRange"}
           /\ d.code = "ok" =>
                 /\ d.value.kind = "datetime2" /\ d.value.scale = scale
                 /\ StampInstant(d.value.day - EpochDays, d.value.time,
                                 Temporal!Fraction \div Base ^ scale)
                       = (k * step) * Temporal!TickStep
                 /\ (k * step) \div Temporal!TicksPerDay + EpochDays \in 0 .. MaxDays
           /\ d.code # "ok" =>
                 \/ x < (-EpochDays) * Temporal!TicksPerDay
                 \/ k * step >= (MaxDays - EpochDays + 1) * Temporal!TicksPerDay
<1>1. EpochDays \in Nat /\ MaxDays \in Nat
  BY Clock
<1>3. PICK b \in Positive, s \in Positive, g \in Positive, t \in Positive :
         /\ b = Base ^ scale /\ s = SecondsPerDay /\ g = Temporal!TickStep
         /\ t = Temporal!TicksPerSecond /\ t = b * step
  BY Clock
<1>4. PICK day \in Positive : day = s * b
  BY DEF Positive
<1>5. Temporal!TicksPerDay = day * step
  <2>1. s * (b * step) = (s * b) * step
    BY ONLY s \in Positive, b \in Positive, step \in Positive DEF Positive
  <2> QED
    BY <1>3, <1>4, <2>1, Clock
<1>6. PICK unit \in Positive : unit = g * step /\ unit = Temporal!Fraction \div Base ^ scale
  <2>1. g * step \in Positive
    BY <1>1 DEF Positive
  <2> QED
    BY <1>3, <2>1, Clock
<1>7. SecondsPerDay * Temporal!Fraction = day * unit
  <2>1. s * (g * (b * step)) = (s * b) * (g * step)
    BY ONLY s \in Positive, g \in Positive, b \in Positive, step \in Positive DEF Positive
  <2> QED
    BY <1>3, <1>4, <1>6, <2>1, Clock
<1>8. PICK q \in Int : q = (k * step) \div Temporal!TicksPerDay /\ q = k \div day
  <2>1. (k * step) \div (day * step) = k \div day
    BY ONLY k \in Int, day \in Positive, step \in Positive, QuotientOfMultiples DEF Positive
  <2> QED
    BY <1>5, <2>1, Quotient DEF Positive
<1>9. PICK r \in Int : r = ((k * step) % Temporal!TicksPerDay) \div step /\ r = k % day
  <2>1. ((k * step) % (day * step)) \div step = k % day
    BY ONLY k \in Int, day \in Positive, step \in Positive, QuotientOfMultiples DEF Positive
  <2> QED
    BY <1>5, <2>1, Quotient DEF Positive
<1>10. PICK min \in Int : min = Temporal!DateTime2MinTicks /\ min = (-EpochDays) * (day * step)
  <2>1. PICK e \in Nat, y \in Positive : e = EpochDays /\ y = Temporal!TicksPerDay
    BY Clock
  <2>2. -e * y = (-e) * y /\ (-e) * y \in Int
    BY DEF Positive
  <2> QED
    BY <1>5, <2>1, <2>2 DEF Temporal!DateTime2MinTicks
<1>11. d = IF x < min \/ q + EpochDays \notin 0 .. MaxDays
           THEN Temporal!Fail("TimestampOutOfRange")
           ELSE Temporal!Ok(Temporal!DateTime2(q + EpochDays, r, scale))
  BY <1>8, <1>9, <1>10 DEF Temporal!DateTime2FromTicks
<1>12. ASSUME d.code = "ok"
       PROVE  /\ d.value.kind = "datetime2" /\ d.value.scale = scale
              /\ StampInstant(d.value.day - EpochDays, d.value.time,
                              Temporal!Fraction \div Base ^ scale)
                    = (k * step) * Temporal!TickStep
              /\ q + EpochDays \in 0 .. MaxDays
  <2>1. /\ d = Temporal!Ok(Temporal!DateTime2(q + EpochDays, r, scale))
        /\ q + EpochDays \in 0 .. MaxDays
    BY <1>11, <1>12 DEF Temporal!Fail
  <2>2. d.value.day - EpochDays = q /\ d.value.time = r
    BY <1>1, <1>8, <2>1 DEF Temporal!Ok, Temporal!DateTime2
  <2>3. StampInstant(q, r, unit) = k * unit
    BY <1>7, <1>8, <1>9, StampOfSteps
  <2>4. k * (g * step) = (k * step) * g
    BY ONLY k \in Int, g \in Positive, step \in Positive DEF Positive
  <2> QED
    BY <1>3, <1>6, <2>1, <2>2, <2>3, <2>4 DEF Temporal!Ok, Temporal!DateTime2
<1>13. ASSUME d.code # "ok", x >= min PROVE k * step >= (MaxDays - EpochDays + 1) * (day * step)
  <2>1. q + EpochDays \notin 0 .. MaxDays
    BY <1>10, <1>11, <1>13 DEF Temporal!Ok
  <2>2. -EpochDays <= q
    <3>1. PICK m \in Int : m = (-EpochDays) * day
      BY <1>1 DEF Positive
    <3>2. m * step = min
      <4>1. PICK e \in Int : e = -EpochDays
        BY <1>1
      <4>2. (e * day) * step = e * (day * step)
        BY ONLY e \in Int, day \in Positive, step \in Positive DEF Positive
      <4> QED
        BY <1>10, <3>1, <4>1, <4>2
    <3>3. m <= k
      BY <1>1, <1>13, <3>2, RoundedAbove DEF Positive
    <3> QED
      BY <1>1, <1>8, <3>1, <3>3, QuotientBound DEF Positive
  <2>3. PICK a \in Int : a = MaxDays - EpochDays + 1 /\ a <= q
    BY <1>1, <1>8, <2>1, <2>2
  <2>4. a * day <= k
    BY <1>8, <2>3, QuotientBound DEF Positive
  <2>5. (a * day) * step <= k * step
    BY <1>1, <2>4, Cancel DEF Positive
  <2>6. (a * day) * step = a * (day * step)
    BY ONLY a \in Int, day \in Positive, step \in Positive DEF Positive
  <2> QED
    BY <2>3, <2>5, <2>6
<1>14. k * step \in Int
  BY DEF Positive
<1> QED
  BY <1>1, <1>5, <1>8, <1>10, <1>11, <1>12, <1>13, <1>14 DEF Temporal!Ok, Temporal!Fail

\* What rounding to milliseconds first does to ticks.
LegacyTicks(x) ==
    IF rounding = "legacy"
    THEN Temporal!RoundHalfUp(x, Temporal!TicksPerIncrement(MilliScale))
             * Temporal!TicksPerIncrement(MilliScale)
    ELSE x
LegacyShift == IF rounding = "legacy" THEN Temporal!MilliStep ELSE 0

LEMMA LegacyTicksKept ==
    ASSUME NEW x \in Int
    PROVE  /\ LegacyTicks(x) \in Int /\ LegacyShift \in Nat
           /\ 2 * (LegacyTicks(x) * Temporal!TickStep - x * Temporal!TickStep) <= LegacyShift
           /\ 2 * (LegacyTicks(x) * Temporal!TickStep - x * Temporal!TickStep) >= -LegacyShift
           /\ \A day \in Int : day * Temporal!TicksPerDay <= x
                 => day * Temporal!TicksPerDay <= LegacyTicks(x)
           /\ \A y \in Int : x <= y => LegacyTicks(x) <= LegacyTicks(y)
<1>1. PICK m \in Positive, b \in Positive, g \in Positive, t \in Positive, s \in Positive :
         /\ m = Temporal!TicksPerIncrement(MilliScale) /\ b = Base ^ MilliScale
         /\ g = Temporal!TickStep /\ t = Temporal!TicksPerSecond /\ t = b * m
         /\ s = SecondsPerDay /\ Temporal!MilliStep = g * m /\ Temporal!TicksPerDay = s * t
  <2>1. MilliScale \in 0 .. TickScale
    BY Clock
  <2> QED
    BY <2>1, Clock DEF Temporal!MilliStep
<1>2. x * g \in Int /\ g * m \in Nat
  BY DEF Positive
<1>3. CASE rounding # "legacy"
  <2>1. LegacyTicks(x) = x /\ LegacyShift = 0 /\ \A y : LegacyTicks(y) = y
    BY <1>3 DEF LegacyTicks, LegacyShift
  <2>2. x * g - x * g = 0
    BY <1>2
  <2> QED
    BY <1>1, <1>2, <2>1, <2>2
<1>4. CASE rounding = "legacy"
  <2>1. PICK k \in Int : k = Temporal!RoundHalfUp(x, m)
    BY Rounded DEF Positive
  <2>2. PICK l \in Int : l = LegacyTicks(x) /\ l = k * m
    BY <1>1, <1>4, <2>1 DEF LegacyTicks, Positive
  <2>3. 2 * (l - x) <= m /\ -m <= 2 * (l - x)
    BY <2>1, <2>2, Rounded DEF Positive
  <2>4. (2 * (l - x)) * g <= m * g /\ (-m) * g <= (2 * (l - x)) * g
    BY <2>3, Cancel DEF Positive
  <2>5. (2 * (l - x)) * g = 2 * (l * g - x * g) /\ m * g = g * m /\ (-m) * g = -(g * m)
    BY ONLY l \in Int, x \in Int, g \in Positive, m \in Positive DEF Positive
  <2>6. LegacyShift = g * m
    BY <1>1, <1>4 DEF LegacyShift
  <2>7. ASSUME NEW day \in Int, day * Temporal!TicksPerDay <= x
        PROVE  day * Temporal!TicksPerDay <= l
    <3>1. PICK a \in Int : a = (day * s) * b
      BY DEF Positive
    <3>2. a * m = day * (s * t)
      <4>1. ((day * s) * b) * m = day * (s * (b * m))
        BY ONLY day \in Int, s \in Positive, b \in Positive, m \in Positive DEF Positive
      <4> QED
        BY <1>1, <3>1, <4>1
    <3>3. a <= k
      BY <1>1, <2>1, <2>7, <3>2, RoundedAbove DEF Positive
    <3>4. a * m <= k * m
      BY <3>3, Cancel DEF Positive
    <3> QED
      BY <1>1, <2>2, <3>2, <3>4
  <2>8. ASSUME NEW y \in Int, x <= y PROVE l <= LegacyTicks(y)
    <3>1. PICK j \in Int : j = Temporal!RoundHalfUp(y, m)
      BY Rounded DEF Positive
    <3>2. k <= j
      BY <2>1, <2>8, <3>1, RoundedOrder DEF Positive
    <3>3. k * m <= j * m
      BY <3>2, Cancel DEF Positive
    <3>4. LegacyTicks(y) = j * m
      BY <1>1, <1>4, <3>1 DEF LegacyTicks
    <3> QED
      BY <2>2, <3>3, <3>4
  <2> QED
    BY <1>1, <1>2, <2>2, <2>4, <2>5, <2>6, <2>7, <2>8
<1> QED
  BY <1>3, <1>4

FragmentsOf(x) == Temporal!DateTimeFragments(x, rounding)

LEMMA FragmentsKept ==
    ASSUME NEW x \in Int
    PROVE  /\ FragmentsOf(x) \in Int
           /\ 2 * (FragmentsOf(x) * Base ^ NanoScale - x * Temporal!TickStep)
                 <= LegacyShift + Base ^ NanoScale
           /\ 2 * (FragmentsOf(x) * Base ^ NanoScale - x * Temporal!TickStep)
                 > -(LegacyShift + Base ^ NanoScale)
           /\ \A day \in Int : day * Temporal!TicksPerDay <= x
                 => day * Temporal!FragmentsPerDay <= FragmentsOf(x)
           /\ \A y \in Int : x <= y => FragmentsOf(x) <= FragmentsOf(y)
<1>1. PICK f \in Positive, p \in Positive, g \in Positive, t \in Positive, s \in Positive :
         /\ f = FragmentsPerSecond /\ p = Temporal!NanosPerTick /\ g = Temporal!TickStep
         /\ t = Temporal!TicksPerSecond /\ s = SecondsPerDay
         /\ g = f * p /\ Base ^ NanoScale = p * t /\ Temporal!TicksPerDay = s * t
  BY Clock
<1>2. PICK m \in Int, l \in Nat : m = LegacyTicks(x) /\ l = LegacyShift
  BY LegacyTicksKept
<1>3. \A y : FragmentsOf(y) = Temporal!RoundHalfUp(LegacyTicks(y) * f, t)
  BY <1>1 DEF FragmentsOf, LegacyTicks, Temporal!DateTimeFragments
<1>4. m * f \in Int
  BY DEF Positive
<1>5. PICK k \in Int : k = FragmentsOf(x) /\ k = Temporal!RoundHalfUp(m * f, t)
  BY <1>2, <1>3, <1>4, Rounded DEF Positive
<1>6. 2 * (k * t - m * f) <= t /\ -t < 2 * (k * t - m * f)
  BY <1>4, <1>5, Rounded DEF Positive
<1>7. PICK d \in Int : d = 2 * (k * t - m * f)
  BY DEF Positive
<1>8. d * p <= t * p /\ (-t) * p < d * p
  BY <1>6, <1>7, Cancel DEF Positive
<1>9. d * p = 2 * (k * (p * t) - m * g) /\ t * p = p * t /\ (-t) * p = -(p * t)
  <2>1. (2 * (k * t - m * f)) * p = 2 * (k * (p * t) - m * (f * p))
    BY ONLY k \in Int, t \in Positive, m \in Int, f \in Positive, p \in Positive DEF Positive
  <2>2. t * p = p * t /\ (-t) * p = -(p * t)
    BY DEF Positive
  <2> QED
    BY <1>1, <1>7, <2>1, <2>2
<1>10. PICK n \in Nat : n = p * t
  BY DEF Positive
<1>11. PICK kn \in Int, mg \in Int, xg \in Int : kn = k * n /\ mg = m * g /\ xg = x * g
  BY DEF Positive
<1>12. 2 * (kn - mg) <= n /\ 2 * (kn - mg) > -n
  BY <1>8, <1>9, <1>10, <1>11
<1>13. 2 * (mg - xg) <= l /\ 2 * (mg - xg) >= -l
  BY <1>1, <1>2, <1>11, LegacyTicksKept
<1>14. 2 * (kn - xg) <= l + n /\ 2 * (kn - xg) > -(l + n)
  BY <1>12, <1>13
<1>15. ASSUME NEW day \in Int, day * Temporal!TicksPerDay <= x
       PROVE  day * Temporal!FragmentsPerDay <= k
  <2>1. day * Temporal!TicksPerDay <= m
    BY <1>2, <1>15, LegacyTicksKept
  <2>2. PICK a \in Int, c \in Int : a = day * (s * t) /\ c = day * (s * f)
    BY DEF Positive
  <2>3. a <= m
    BY <1>1, <2>1, <2>2
  <2>4. a * f <= m * f
    BY <2>3, Cancel DEF Positive
  <2>5. a * f = c * t
    <3>1. (day * (s * t)) * f = (day * (s * f)) * t
      BY ONLY day \in Int, s \in Positive, t \in Positive, f \in Positive DEF Positive
    <3> QED
      BY <2>2, <3>1
  <2>6. c <= k
    BY <1>4, <1>5, <2>4, <2>5, RoundedAbove DEF Positive
  <2> QED
    BY <1>1, <2>2, <2>6 DEF Temporal!FragmentsPerDay
<1>16. ASSUME NEW y \in Int, x <= y PROVE k <= FragmentsOf(y)
  <2>1. PICK j \in Int : j = LegacyTicks(y)
    BY LegacyTicksKept
  <2>2. m <= j
    BY <1>2, <1>16, <2>1, LegacyTicksKept
  <2>3. m * f <= j * f /\ j * f \in Int
    BY <2>2, Cancel DEF Positive
  <2> QED
    BY <1>3, <1>4, <1>5, <2>1, <2>3, RoundedOrder DEF Positive
<1> QED
  BY <1>1, <1>2, <1>5, <1>10, <1>11, <1>14, <1>15, <1>16

LEMMA DateTimeOfTicks ==
    ASSUME NEW x \in Int, NEW k \in Int, k = FragmentsOf(x),
           NEW d, d = Temporal!DateTimeFromTicks(x, rounding)
    PROVE  /\ d.code \in {"ok", "TimestampOutOfRange"}
           /\ d.code = "ok" =>
                 /\ d.value.kind = "datetime"
                 /\ StampInstant(d.value.day - DateTimeEpochDays, d.value.time,
                                 Temporal!Fraction \div FragmentsPerSecond) = k * Base ^ NanoScale
           /\ d.code # "ok" =>
                 \/ x < (DateTimeMinDays - DateTimeEpochDays) * Temporal!TicksPerDay
                 \/ k >= (DateTimeMaxDays - DateTimeEpochDays + 1) * Temporal!FragmentsPerDay
<1>1. PICK f \in Positive, n \in Positive, s \in Positive :
         /\ f = FragmentsPerSecond /\ n = Base ^ NanoScale /\ s = SecondsPerDay
         /\ Temporal!Fraction = f * n /\ Temporal!Fraction \div FragmentsPerSecond = n
  BY Clock
<1>2. PICK e \in Int, lo \in Int, hi \in Int :
         e = DateTimeEpochDays /\ lo = DateTimeMinDays /\ hi = DateTimeMaxDays
  BY Clock
<1>3. PICK day \in Positive : day = s * f /\ day = Temporal!FragmentsPerDay
  BY <1>1 DEF Positive, Temporal!FragmentsPerDay
<1>4. SecondsPerDay * Temporal!Fraction = day * n
  <2>1. s * (f * n) = (s * f) * n
    BY ONLY s \in Positive, f \in Positive, n \in Positive DEF Positive
  <2> QED
    BY <1>1, <1>3, <2>1
<1>5. PICK q \in Int, r \in Int : q = k \div day /\ r = k % day
  BY Quotient DEF Positive
<1>6. PICK min \in Int : min = (lo - e) * Temporal!TicksPerDay
  BY Clock DEF Positive
<1>7. d = IF x < min \/ q + e \notin lo .. hi THEN Temporal!Fail("TimestampOutOfRange")
          ELSE Temporal!Ok(Temporal!DateTime(q + e, r))
  BY <1>2, <1>3, <1>5, <1>6
     DEF Temporal!DateTimeFromTicks, Temporal!DateTimeMinTicks, FragmentsOf
<1>8. ASSUME d.code = "ok"
      PROVE  /\ d.value.kind = "datetime"
             /\ StampInstant(d.value.day - e, d.value.time, n) = k * n
  <2>1. d = Temporal!Ok(Temporal!DateTime(q + e, r))
    BY <1>7, <1>8 DEF Temporal!Fail
  <2>2. d.value.day - e = q /\ d.value.time = r
    BY <2>1 DEF Temporal!Ok, Temporal!DateTime
  <2> QED
    BY <1>4, <1>5, <2>1, <2>2, StampOfSteps DEF Temporal!Ok, Temporal!DateTime
<1>9. ASSUME d.code # "ok", x >= min PROVE k >= (hi - e + 1) * day
  <2>1. q + e \notin lo .. hi
    BY <1>7, <1>9 DEF Temporal!Ok
  <2>2. lo - e <= q
    <3>1. PICK a \in Int : a = lo - e
      OBVIOUS
    <3>2. a * Temporal!TicksPerDay <= x
      BY <1>6, <1>9, <3>1
    <3>3. a * day <= k
      BY <1>3, <3>2, FragmentsKept
    <3> QED
      BY <1>5, <3>1, <3>3, QuotientBound DEF Positive
  <2>3. hi - e + 1 <= q
    BY <2>1, <2>2
  <2> QED
    BY <1>5, <2>3, QuotientBound DEF Positive
<1> QED
  BY <1>1, <1>2, <1>3, <1>6, <1>7, <1>8, <1>9 DEF Temporal!Ok, Temporal!Fail

-----------------------------------------------------------------------------
(* Cells of dates and times *)

TemporalMapped ==
    /\ Temporal!Supported(field) /\ IsTemporalMapping(field)
    /\ policy \in {"reject", "truncate", "round"}
TokenOf(v) == Temporal!TokenCell(field, v, policy, rounding)

\* What the properties say of one cell: c is the value of a slot v.
NearCell(v, c) ==
    LET error == 2 * (Temporal!CellInstant(c) - Temporal!SourceInstant(v))
    IN  /\ error <= Temporal!ShiftUp + Temporal!Legacy + Temporal!FinalShift(c)
        /\ error >= -(Temporal!ShiftDown + Temporal!Legacy + Temporal!FinalShift(c))
        /\ Temporal!ShiftDown + Temporal!Legacy = 0 /\ Temporal!FinalShift(c) > 0
              => error > -Temporal!FinalShift(c)
OutOfRange(v) ==
    \/ Temporal!SourceInstant(v)
          < Temporal!FirstSecond * Temporal!Fraction + Temporal!OffsetMargin
    \/ Temporal!SourceInstant(v)
          >= Temporal!EndSecond * Temporal!Fraction - Temporal!OffsetMargin
                 - Temporal!RoundingMargin

\* The instant of the cell an Arrow number converts to.
InstantGiven(n) ==
    IF field.arrow = "date32" THEN n * (SecondsPerDay * Temporal!Fraction)
    ELSE IF field.arrow = "date64" \/ (field.arrow = "time" /\ field.unit # "ns")
    THEN TimestampInstant(n)
    ELSE IF field.arrow = "time" \/ field.target = "datetimeoffset"
    THEN TicksOf(n).value * Temporal!TickStep
    ELSE IF field.target = "datetime2"
    THEN Temporal!RoundHalfUp(TicksOf(n).value, Temporal!TicksPerIncrement(field.scale))
             * Temporal!TicksPerIncrement(field.scale) * Temporal!TickStep
    ELSE FragmentsOf(TicksOf(n).value) * Base ^ NanoScale
NeedsTicks ==
    ~ (field.arrow \in {"date32", "date64"} \/ (field.arrow = "time" /\ field.unit # "ns"))

KeptCell(v) ==
    LET t == TokenOf(v)
    IN  /\ t.code = "ok" =>
              /\ NearCell(v, t.value)
              /\ Temporal!CellInstant(t.value) = InstantGiven(v.n)
              /\ NeedsTicks => TicksOf(v.n).code = "ok"
        /\ t.code = "TimestampOutOfRange" => OutOfRange(v)
        /\ t.code = "LossyConversionRequiresPolicy" =>
              field.unit = "ns" /\ v.n % Temporal!NanosPerTick # 0

LEMMA Margins ==
    /\ Temporal!ShiftUp \in Nat /\ Temporal!ShiftDown \in Nat /\ Temporal!Legacy \in Nat
    /\ field.unit # "ns" => Temporal!ShiftUp = 0 /\ Temporal!ShiftDown = 0
    /\ field.target # "datetime" => Temporal!Legacy = 0
    /\ field.target = "datetime" => Temporal!Legacy = LegacyShift
    /\ Temporal!OffsetMargin \in Nat
    /\ field.target # "datetimeoffset" => Temporal!OffsetMargin = 0
<1>1. LegacyShift \in Nat
  BY LegacyTicksKept
<1>2. Temporal!Legacy = IF field.target = "datetime" THEN LegacyShift ELSE 0
  BY DEF Temporal!Legacy, LegacyShift
<1>3. PICK g \in Nat : g = Temporal!TickStep
  BY Clock DEF Positive
<1>4. /\ Temporal!ShiftUp = IF field.unit = "ns" /\ policy = "round" THEN g ELSE 0
      /\ Temporal!ShiftDown = IF field.unit = "ns" /\ policy = "truncate" THEN 2 * g
                              ELSE IF field.unit = "ns" /\ policy = "round" THEN g ELSE 0
  BY <1>3 DEF Temporal!ShiftUp, Temporal!ShiftDown
<1>5. MaxOffsetMinutes * SecondsPerMinute * Temporal!Fraction \in Nat
  <2>1. PICK m \in Nat, s \in Nat, f \in Nat :
           m = MaxOffsetMinutes /\ s = SecondsPerMinute /\ f = Temporal!Fraction
    BY Clock DEF Positive
  <2>2. m * s * f \in Nat
    OBVIOUS
  <2> QED
    BY <2>1, <2>2
<1> QED
  BY <1>1, <1>2, <1>3, <1>4, <1>5 DEF Temporal!OffsetMargin

\* A multiple of the source step is a number of steps of its scale.
LEMMA ScaleSteps ==
    ASSUME NEW scale \in 0 .. TickScale
    PROVE  /\ Temporal!Fraction \div Base ^ scale \in Positive
           /\ SecondsPerDay * Temporal!Fraction
                 = (SecondsPerDay * Base ^ scale) * (Temporal!Fraction \div Base ^ scale)
           /\ SecondsPerDay * Base ^ scale \in Positive
<1>1. PICK b \in Positive, s \in Positive, g \in Positive, y \in Positive :
         /\ b = Base ^ scale /\ s = SecondsPerDay /\ g = Temporal!TickStep
         /\ y = Temporal!TicksPerIncrement(scale)
         /\ Temporal!Fraction = g * (b * y) /\ Temporal!Fraction \div Base ^ scale = g * y
  BY Clock
<1>2. s * (g * (b * y)) = (s * b) * (g * y)
  BY ONLY b \in Positive, s \in Positive, g \in Positive, y \in Positive DEF Positive
<1>3. g * y \in Positive /\ s * b \in Positive
  BY DEF Positive
<1> QED
  BY <1>1, <1>2, <1>3

\* An exact conversion is a nearest one.
LEMMA ExactIsNear ==
    ASSUME NEW v, NEW c, Temporal!SourceInstant(v) \in Int,
           Temporal!CellInstant(c) = Temporal!SourceInstant(v),
           Temporal!FinalShift(c) \in Nat
    PROVE  NearCell(v, c)
<1>1. PICK i \in Int : i = Temporal!SourceInstant(v)
  OBVIOUS
<1>2. PICK s \in Nat, u \in Nat, d \in Nat, l \in Nat :
         /\ s = Temporal!FinalShift(c) /\ u = Temporal!ShiftUp
         /\ d = Temporal!ShiftDown /\ l = Temporal!Legacy
  BY Margins
<1>3. 2 * (i - i) <= u + l + s /\ 2 * (i - i) >= -(d + l + s) /\ (s > 0 => 2 * (i - i) > -s)
  OBVIOUS
<1> QED
  BY <1>1, <1>2, <1>3 DEF NearCell

LEMMA DateCells ==
    ASSUME TemporalMapped, field.target = "date", NEW v, v # Temporal!Null, v.n \in Int
    PROVE  KeptCell(v)
<1>1. field.arrow = "date32" /\ field.unit = "day"
  BY DEF TemporalMapped, Temporal!Supported, IsTemporalMapping
<1>2. PICK n \in Int, e \in Nat, m \in Nat : n = v.n /\ e = EpochDays /\ m = MaxDays
  BY Clock
<1>3. TokenOf(v) = IF n + e \in 0 .. m THEN Temporal!Ok(Temporal!Date(n + e))
                   ELSE Temporal!Fail("TimestampOutOfRange")
  BY <1>2 DEF TokenOf, Temporal!TokenCell, Temporal!DateCell, Temporal!DateFromDate32,
     TemporalMapped
<1>4. PICK s \in Positive, f \in Positive : s = SecondsPerDay /\ f = Temporal!Fraction
  BY Clock
<1>5. Temporal!SourceInstant(v) = n * (s * f) /\ n * (s * f) \in Int
  <2>1. n * (s * f) \in Int
    BY DEF Positive
  <2> QED
    BY <1>1, <1>2, <1>4, <2>1 DEF Temporal!SourceInstant
<1>6. CASE n + e \in 0 .. m
  <2>1. TokenOf(v) = Temporal!Ok(Temporal!Date(n + e))
    BY <1>3, <1>6
  <2>2. Temporal!CellInstant(Temporal!Date(n + e)) = (n + e - e) * s * f
    BY <1>2, <1>4 DEF Temporal!CellInstant, Temporal!Date
  <2>3. (n + e - e) * s * f = n * (s * f)
    BY ONLY n \in Int, e \in Int, s \in Positive, f \in Positive DEF Positive
  <2>4. Temporal!FinalShift(Temporal!Date(n + e)) = 0
    BY DEF Temporal!FinalShift, Temporal!Date
  <2>5. NearCell(v, Temporal!Date(n + e))
    BY <1>5, <2>2, <2>3, <2>4, ExactIsNear
  <2>6. ~ NeedsTicks
    BY <1>1 DEF NeedsTicks
  <2>7. Temporal!CellInstant(Temporal!Date(n + e)) = InstantGiven(v.n)
    BY <1>1, <1>2, <1>4, <2>2, <2>3 DEF InstantGiven
  <2> QED
    BY <2>1, <2>5, <2>6, <2>7 DEF KeptCell, Temporal!Ok
<1>7. CASE n + e \notin 0 .. m
  <2>1. TokenOf(v) = Temporal!Fail("TimestampOutOfRange")
    BY <1>3, <1>7
  <2>2. OutOfRange(v)
    <3>1. Temporal!OffsetMargin = 0 /\ Temporal!RoundingMargin = 0
      <4>1. Temporal!ShiftUp + (0 + Temporal!Legacy) = 0
        BY <1>1, Margins
      <4> QED
        BY <1>1, Margins, <4>1 DEF Temporal!RoundingMargin, Temporal!TargetStep
    <3>2. Temporal!FirstSecond = -(e * s) /\ Temporal!EndSecond = (m - e + 1) * s
      BY <1>2, <1>4 DEF Temporal!FirstSecond, Temporal!EndSecond
    <3>3. PICK u \in Positive : u = s * f
      BY DEF Positive
    <3>4. n < -e \/ m - e + 1 <= n
      BY <1>7
    <3>5. n * u < (-e) * u \/ (m - e + 1) * u <= n * u
      BY <3>4, Cancel DEF Positive
    <3>6. (-e) * (s * f) = (-(e * s)) * f /\ (m - e + 1) * (s * f) = ((m - e + 1) * s) * f
      BY ONLY e \in Int, m \in Int, s \in Positive, f \in Positive DEF Positive
    <3>7. PICK lo \in Int, hi \in Int : lo = (-(e * s)) * f /\ hi = ((m - e + 1) * s) * f
      BY DEF Positive
    <3>8. n * u < lo \/ hi <= n * u
      BY <3>3, <3>5, <3>6, <3>7
    <3>9. Temporal!SourceInstant(v) < lo + 0 \/ Temporal!SourceInstant(v) >= hi - 0 - 0
      BY <1>5, <3>3, <3>7, <3>8
    <3> QED
      BY <1>4, <3>1, <3>2, <3>7, <3>9 DEF OutOfRange
  <2> QED
    BY <2>1, <2>2 DEF KeptCell, Temporal!Fail
<1> QED
  BY <1>6, <1>7

\* A count of steps that lies outside of the days from -e to m - e.
LEMMA BeyondDays ==
    ASSUME NEW n \in Int, NEW day \in Positive, NEW w \in Positive,
           NEW s \in Positive, NEW f \in Positive, s * f = day * w,
           NEW a \in Int
    PROVE  /\ n * w \in Int /\ (a * s) * f \in Int
           /\ n < a * day => n * w < (a * s) * f
           /\ a * day <= n => (a * s) * f <= n * w
<1>1. (a * day) * w = (a * s) * f
  <2>1. (a * day) * w = a * (day * w) /\ (a * s) * f = a * (s * f)
    BY ONLY a \in Int, day \in Positive, w \in Positive, s \in Positive, f \in Positive
       DEF Positive
  <2> QED
    BY <2>1
<1>2. PICK b \in Int : b = a * day
  BY DEF Positive
<1>3. /\ n < b => n * w < b * w
      /\ b <= n => b * w <= n * w
  BY Cancel DEF Positive
<1>4. n * w \in Int /\ b * w \in Int
  BY DEF Positive
<1> QED
  BY <1>1, <1>2, <1>3, <1>4

LEMMA MarginIsNatural ==
    ASSUME Temporal!TargetStep \in Nat PROVE Temporal!RoundingMargin \in Nat
<1>1. PICK u \in Nat, l \in Nat, s \in Nat :
         u = Temporal!ShiftUp /\ l = Temporal!Legacy /\ s = Temporal!TargetStep
  BY Margins
<1>2. u \div 2 \in Nat /\ (u + (s + l)) \div 2 \in Nat /\ u + 0 = u
  OBVIOUS
<1> QED
  BY <1>1, <1>2 DEF Temporal!RoundingMargin

LEMMA Date64Cells ==
    ASSUME TemporalMapped, field.arrow = "date64", NEW v, v # Temporal!Null, v.n \in Int
    PROVE  KeptCell(v)
<1>1. /\ field.target = "datetime2" /\ field.unit = "ms" /\ field.scale = MilliScale
      /\ Temporal!UnitScale(field.unit) = MilliScale /\ MilliScale \in 0 .. TickScale
  BY Clock DEF TemporalMapped, Temporal!Supported, IsTemporalMapping, Temporal!UnitScale
<1>2. PICK n \in Int, e \in Nat, m \in Nat : n = v.n /\ e = EpochDays /\ m = MaxDays
  BY Clock
<1>3. PICK s \in Positive, f \in Positive, w \in Positive, day \in Positive :
         /\ s = SecondsPerDay /\ f = Temporal!Fraction
         /\ w = Temporal!Fraction \div Base ^ MilliScale /\ day = SecondsPerDay * Base ^ MilliScale
         /\ s * f = day * w
  BY <1>1, ScaleSteps, Clock
<1>4. PICK q \in Int, r \in Int : q = n \div day /\ r = n % day
  BY Quotient DEF Positive
<1>5. TokenOf(v) = IF q + e \in 0 .. m THEN Temporal!Ok(Temporal!DateTime2(q + e, r, MilliScale))
                   ELSE Temporal!Fail("TimestampOutOfRange")
  BY <1>1, <1>2, <1>3, <1>4 DEF TokenOf, Temporal!TokenCell, Temporal!DateTime2Cell,
     Temporal!DateTime2FromDate64, TemporalMapped
<1>6. Temporal!SourceInstant(v) = n * w /\ n * w \in Int
  <2>1. n * w \in Int
    BY DEF Positive
  <2> QED
    BY <1>1, <1>2, <1>3, <2>1 DEF Temporal!SourceInstant
<1>7. CASE q + e \in 0 .. m
  <2> DEFINE c == Temporal!DateTime2(q + e, r, MilliScale)
  <2>1. TokenOf(v) = Temporal!Ok(c)
    BY <1>5, <1>7
  <2>2. Temporal!CellInstant(c) = StampInstant(q + e - e, r, w)
    BY <1>2, <1>3 DEF Temporal!CellInstant, Temporal!DateTime2, StampInstant
  <2>3. q + e - e = q
    OBVIOUS
  <2>4. Temporal!CellInstant(c) = n * w
    <3>1. StampInstant(n \div day, n % day, w) = n * w
      BY <1>3, StampOfSteps
    <3> QED
      BY <1>4, <2>2, <2>3, <3>1
  <2>5. Temporal!FinalShift(c) \in Nat
    BY <1>3 DEF Temporal!FinalShift, Temporal!Step, Temporal!DateTime2, Positive
  <2>6. NearCell(v, c)
    BY <1>6, <2>4, <2>5, ExactIsNear
  <2>7. ~ NeedsTicks
    BY DEF NeedsTicks
  <2>8. Temporal!CellInstant(c) = InstantGiven(v.n)
    BY <1>1, <1>2, <1>3, <2>4 DEF InstantGiven, TimestampInstant
  <2> QED
    BY <2>1, <2>6, <2>7, <2>8 DEF KeptCell, Temporal!Ok
<1>8. CASE q + e \notin 0 .. m
  <2>1. TokenOf(v) = Temporal!Fail("TimestampOutOfRange")
    BY <1>5, <1>8
  <2>2. OutOfRange(v)
    <3>1. Temporal!OffsetMargin = 0
      BY <1>1, Margins
    <3>2. PICK margin \in Nat : margin = Temporal!RoundingMargin
      BY <1>1, <1>3, MarginIsNatural DEF Temporal!TargetStep, Positive
    <3>3. Temporal!FirstSecond = -(e * s) /\ Temporal!EndSecond = (m - e + 1) * s
      BY <1>1, <1>2, <1>3 DEF Temporal!FirstSecond, Temporal!EndSecond
    <3>4. -(e * s) = (-e) * s
      BY DEF Positive
    <3>5. q < -e \/ m - e + 1 <= q
      BY <1>8
    <3>6. n < (-e) * day \/ (m - e + 1) * day <= n
      BY <1>4, <3>5, QuotientBound DEF Positive
    <3>7. PICK lo \in Int : lo = ((-e) * s) * f /\ (n < (-e) * day => n * w < lo)
      <4>1. PICK a \in Int : a = -e
        OBVIOUS
      <4>2. (a * s) * f \in Int /\ (n < a * day => n * w < (a * s) * f)
        BY <1>3, BeyondDays
      <4> QED
        BY <4>1, <4>2
    <3>8. PICK hi \in Int : hi = ((m - e + 1) * s) * f /\ ((m - e + 1) * day <= n => hi <= n * w)
      <4>1. PICK a \in Int : a = m - e + 1
        OBVIOUS
      <4>2. (a * s) * f \in Int /\ (a * day <= n => (a * s) * f <= n * w)
        BY <1>3, BeyondDays
      <4> QED
        BY <4>1, <4>2
    <3>9. n * w < lo + 0 \/ n * w >= hi - 0 - margin
      BY <1>6, <3>6, <3>7, <3>8
    <3> QED
      BY <1>3, <1>6, <3>1, <3>2, <3>3, <3>4, <3>7, <3>8, <3>9 DEF OutOfRange
  <2> QED
    BY <2>1, <2>2 DEF KeptCell, Temporal!Fail
<1> QED
  BY <1>7, <1>8

LEMMA TimeCells ==
    ASSUME TemporalMapped, field.arrow = "time", NEW v, v # Temporal!Null, v.n \in Int
    PROVE  KeptCell(v)
<1>1. /\ field.target = "time" /\ field.unit \in Units /\ TemporalTyped
      /\ field.scale = IF field.unit = "ns" THEN TickScale ELSE Temporal!UnitScale(field.unit)
  BY DEF TemporalMapped, Temporal!Supported, IsTemporalMapping, TemporalTyped
<1>2. PICK n \in Int : n = v.n
  OBVIOUS
<1>3. field.scale \in 0 .. TickScale /\ TickScale \in 0 .. TickScale
  BY <1>1, WholeTicks, Clock
<1>4. PICK s \in Positive, f \in Positive, w \in Positive, day \in Positive :
         /\ s = SecondsPerDay /\ f = Temporal!Fraction
         /\ w = Temporal!Fraction \div Base ^ field.scale
         /\ day = SecondsPerDay * Base ^ field.scale /\ s * f = day * w
  BY <1>3, ScaleSteps, Clock
<1>5. Temporal!SourceInstant(v) = TimestampInstant(n)
  BY <1>1, <1>2 DEF Temporal!SourceInstant, TimestampInstant, Units
<1>6. Temporal!OffsetMargin = 0 /\ Temporal!FirstSecond = 0 /\ Temporal!EndSecond = s
  BY <1>1, <1>4, Margins DEF Temporal!FirstSecond, Temporal!EndSecond
<1>7. TokenOf(v) = Temporal!TimeFromArrow(field.unit, n, policy)
  BY <1>1, <1>2 DEF TokenOf, Temporal!TokenCell, TemporalMapped
<1>8. PICK margin \in Nat : margin = Temporal!RoundingMargin
  BY <1>1, <1>4, MarginIsNatural DEF Temporal!TargetStep, Positive
<1>9. 0 * s * f = 0 /\ s * f \in Int /\ 1 * s = s
  BY DEF Positive
<1>10. \A x \in Int : Temporal!CellInstant(Temporal!Time(x, field.scale)) = x * w
                      /\ Temporal!FinalShift(Temporal!Time(x, field.scale)) = 0
  BY <1>4 DEF Temporal!CellInstant, Temporal!FinalShift, Temporal!Time
<1>11. CASE field.unit # "ns"
  <2>1. TokenOf(v) = IF n \in 0 .. day - 1 THEN Temporal!Ok(Temporal!Time(n, field.scale))
                     ELSE Temporal!Fail("TimestampOutOfRange")
    BY <1>1, <1>4, <1>7, <1>11 DEF Temporal!TimeFromArrow, Temporal!TimeFromInt
  <2>2. TimestampInstant(n) = n * w /\ n * w \in Int
    <3>1. n * w \in Int
      BY DEF Positive
    <3> QED
      BY <1>1, <1>4, <1>11, <3>1 DEF TimestampInstant
  <2>3. CASE n \in 0 .. day - 1
    <3>1. TokenOf(v) = Temporal!Ok(Temporal!Time(n, field.scale))
      BY <2>1, <2>3
    <3>2. NearCell(v, Temporal!Time(n, field.scale))
      BY <1>5, <1>10, <2>2, ExactIsNear
    <3>3. Temporal!CellInstant(Temporal!Time(n, field.scale)) = InstantGiven(v.n)
      BY <1>1, <1>2, <1>10, <1>11, <2>2 DEF InstantGiven
    <3>4. ~ NeedsTicks
      BY <1>11 DEF NeedsTicks
    <3> QED
      BY <3>1, <3>2, <3>3, <3>4 DEF KeptCell, Temporal!Ok
  <2>4. CASE n \notin 0 .. day - 1
    <3>1. TokenOf(v) = Temporal!Fail("TimestampOutOfRange")
      BY <2>1, <2>4
    <3>2. n < 0 * day \/ 1 * day <= n
      BY <2>4 DEF Positive
    <3>3. n * w < (0 * s) * f \/ (1 * s) * f <= n * w
      <4>1. \A a \in Int : /\ n < a * day => n * w < (a * s) * f
                           /\ a * day <= n => (a * s) * f <= n * w
        BY <1>4, BeyondDays
      <4> QED
        BY <3>2, <4>1
    <3>4. n * w < 0 * f + 0 \/ n * w >= s * f - 0 - margin
      BY <1>9, <2>2, <3>3 DEF Positive
    <3>5. OutOfRange(v)
      BY <1>4, <1>5, <1>6, <1>8, <2>2, <3>4 DEF OutOfRange
    <3> QED
      BY <3>1, <3>5 DEF KeptCell, Temporal!Fail
  <2> QED
    BY <2>3, <2>4
<1>12. CASE field.unit = "ns"
  <2>1. PICK h \in Positive, g \in Positive, p \in Positive, nano \in Positive :
           /\ h = FragmentsPerSecond /\ g = Temporal!TickStep /\ p = Temporal!NanosPerTick
           /\ nano = Base ^ NanoScale /\ f = h * nano /\ w = g
    BY <1>1, <1>4, <1>12, Clock DEF Temporal!TickStep, Temporal!TicksPerSecond
  <2>2. PICK nanos \in Positive : nanos = s * nano
    BY DEF Positive
  <2>3. PICK ticks \in Positive : ticks = Temporal!TicksPerDay /\ ticks = day
    BY <1>1, <1>4, <1>12, Clock DEF Temporal!TicksPerDay, Temporal!TicksPerSecond
  <2>4. TicksOf(n) = Temporal!NanosToTicks(n, policy)
    BY <1>12 DEF TicksOf, Temporal!TimestampTicks
  <2>5. TokenOf(v) = IF n \notin 0 .. nanos - 1 THEN Temporal!Fail("TimestampOutOfRange")
                     ELSE IF TicksOf(n).code # "ok" THEN TicksOf(n)
                     ELSE IF TicksOf(n).value >= ticks
                     THEN Temporal!Fail("TimestampOutOfRange")
                     ELSE Temporal!Ok(Temporal!Time(TicksOf(n).value, field.scale))
    BY <1>1, <1>4, <1>7, <1>12, <2>1, <2>2, <2>3, <2>4
       DEF Temporal!TimeFromArrow, Temporal!TimeFromNanos, Temporal!IsOk
  <2>6. PICK i \in Int : i = TimestampInstant(n) /\ i = n * h
    BY <1>1, <1>12, <2>1, TicksKept, NanosInTicks
  <2>7. PICK u \in Nat, d \in Nat : u = Temporal!ShiftUp /\ d = Temporal!ShiftDown
    BY Margins
  <2>8. Temporal!Legacy = 0
    BY <1>1, Margins
  <2>9. CASE n \notin 0 .. nanos - 1
    <3>1. TokenOf(v) = Temporal!Fail("TimestampOutOfRange")
      BY <2>5, <2>9
    <3>2. s * f = nanos * h
      <4>1. s * (h * nano) = (s * nano) * h
        BY ONLY s \in Positive, h \in Positive, nano \in Positive DEF Positive
      <4> QED
        BY <2>1, <2>2, <4>1
    <3>3. n < 0 * nanos \/ 1 * nanos <= n
      BY <2>9 DEF Positive
    <3>4. n * h < (0 * s) * f \/ (1 * s) * f <= n * h
      BY <3>2, <3>3, BeyondDays
    <3>5. i < 0 * f + 0 \/ i >= s * f - 0 - margin
      BY <1>9, <2>6, <3>4 DEF Positive
    <3>6. OutOfRange(v)
      BY <1>4, <1>5, <1>6, <1>8, <2>6, <3>5 DEF OutOfRange
    <3> QED
      BY <3>1, <3>6 DEF KeptCell, Temporal!Fail
  <2>10. CASE n \in 0 .. nanos - 1 /\ TicksOf(n).code # "ok"
    <3>1. TokenOf(v).code = TicksOf(n).code
      BY <2>5, <2>10
    <3> QED
      BY <1>1, <1>2, <2>10, <3>1, TicksKept DEF KeptCell
  <2>11. CASE n \in 0 .. nanos - 1 /\ TicksOf(n).code = "ok"
    <3>1. PICK t \in Int : t = TicksOf(n).value
      BY <1>1, <2>11, TicksKept
    <3>2. PICK tg \in Int : tg = t * g
      BY DEF Positive
    <3>3. 2 * (tg - i) <= u /\ 2 * (tg - i) >= -d
      BY <1>1, <2>1, <2>6, <2>7, <2>11, <3>1, <3>2, TicksKept
    <3>4. CASE t >= ticks
      <4>1. TokenOf(v) = Temporal!Fail("TimestampOutOfRange")
        BY <2>5, <2>11, <3>1, <3>4
      <4>2. s * f <= tg
        <5>1. 1 * day <= t
          BY <2>3, <3>4 DEF Positive
        <5>2. (1 * s) * f <= t * w
          <6>1. \A a \in Int : a * day <= t => (a * s) * f <= t * w
            BY <1>4, BeyondDays
          <6> QED
            BY <5>1, <6>1
        <5> QED
          BY <1>9, <2>1, <3>2, <5>2
      <4>3. margin = (u + w) \div 2
        BY <1>1, <1>4, <1>8, <2>7, <2>8 DEF Temporal!RoundingMargin, Temporal!TargetStep, Positive
      <4>4. PICK sf \in Int : sf = s * f
        BY <1>9
      <4>5. i >= sf - 0 - margin
        BY <3>3, <4>2, <4>3, <4>4 DEF Positive
      <4>6. OutOfRange(v)
        BY <1>4, <1>5, <1>6, <1>8, <2>6, <4>4, <4>5 DEF OutOfRange
      <4> QED
        BY <4>1, <4>6 DEF KeptCell, Temporal!Fail
    <3>5. CASE t < ticks
      <4> DEFINE c == Temporal!Time(t, field.scale)
      <4>1. TokenOf(v) = Temporal!Ok(c)
        BY <2>5, <2>11, <3>1, <3>5 DEF Positive
      <4>2. Temporal!CellInstant(c) = tg /\ Temporal!FinalShift(c) = 0
        BY <1>10, <2>1, <3>2
      <4>3. NearCell(v, c)
        <5>1. Temporal!SourceInstant(v) = i
          BY <1>5, <2>6
        <5>2. 2 * (tg - i) <= u + 0 + 0 /\ 2 * (tg - i) >= -(d + 0 + 0)
          BY <3>3
        <5> QED
          BY <2>7, <2>8, <4>2, <5>1, <5>2 DEF NearCell
      <4>4. Temporal!CellInstant(c) = InstantGiven(v.n)
        BY <1>1, <1>2, <1>12, <2>1, <3>1, <3>2, <4>2 DEF InstantGiven
      <4> QED
        BY <1>2, <2>11, <4>1, <4>3, <4>4 DEF KeptCell, Temporal!Ok
    <3> QED
      BY <2>3, <3>1, <3>4, <3>5 DEF Positive
  <2> QED
    BY <2>9, <2>10, <2>11
<1> QED
  BY <1>11, <1>12

\* The limits of the days in ticks, and as instants.
LEMMA TicksOfDays ==
    ASSUME NEW a \in Int
    PROVE  /\ a * Temporal!TicksPerDay \in Int
           /\ (a * Temporal!TicksPerDay) * Temporal!TickStep = (a * SecondsPerDay) * Temporal!Fraction
<1>1. PICK s \in Positive, t \in Positive, g \in Positive :
         /\ s = SecondsPerDay /\ t = Temporal!TicksPerSecond /\ g = Temporal!TickStep
         /\ Temporal!TicksPerDay = s * t /\ Temporal!Fraction = g * t
  BY Clock
<1>2. (a * (s * t)) * g = (a * s) * (g * t) /\ a * (s * t) \in Int
  BY ONLY a \in Int, s \in Positive, t \in Positive, g \in Positive DEF Positive
<1> QED
  BY <1>1, <1>2

LEMMA TimestampFacts ==
    ASSUME TemporalMapped, field.arrow = "timestamp", NEW v, v # Temporal!Null, v.n \in Int
    PROVE  /\ TemporalTyped /\ field.target \in {"datetime", "datetime2", "datetimeoffset"}
           /\ Temporal!SourceInstant(v) = TimestampInstant(v.n)
           /\ TimestampInstant(v.n) \in Int
           /\ field.target \in {"datetime2", "datetimeoffset"} => field.scale \in 0 .. TickScale
           /\ field.target = "datetimeoffset" => field.scale = TickScale
<1>1. /\ TemporalTyped /\ field.target \in {"datetime", "datetime2", "datetimeoffset"}
      /\ field.target \in {"datetime2", "datetimeoffset"} => field.scale \in 0 .. TickScale
      /\ field.target = "datetimeoffset" => field.scale = TickScale
  BY Clock DEF TemporalMapped, Temporal!Supported, IsTemporalMapping, TemporalTyped
<1>2. Temporal!SourceInstant(v) = TimestampInstant(v.n)
  BY <1>1 DEF Temporal!SourceInstant, TimestampInstant, TemporalTyped, Units
<1> QED
  BY <1>1, <1>2, TicksKept

\* What is left of two errors, each not more than its half step.
LEMMA ErrorsAdd ==
    ASSUME NEW y \in Int, NEW x \in Int, NEW i \in Int, NEW u \in Nat, NEW d \in Nat,
           NEW l \in Nat, NEW s \in Nat,
           2 * (y - x) <= l + s, 2 * (y - x) > -(l + s), 2 * (x - i) <= u, 2 * (x - i) >= -d
    PROVE  /\ 2 * (y - i) <= u + l + s /\ 2 * (y - i) >= -(d + l + s)
           /\ d + l = 0 => 2 * (y - i) > -s
           /\ \A e \in Int : e <= y => i >= e - (u + (s + l)) \div 2
OBVIOUS

LEMMA DateTimeCells ==
    ASSUME TemporalMapped, field.target = "datetime", NEW v, v # Temporal!Null, v.n \in Int
    PROVE  KeptCell(v)
<1>1. field.arrow = "timestamp"
  BY DEF TemporalMapped, Temporal!Supported
<1>2. PICK n \in Int : n = v.n
  OBVIOUS
<1>3. TokenOf(v) = IF ~Temporal!ZoneChecked(field) THEN Temporal!Fail("TimezoneUnsupported")
                   ELSE IF TicksOf(n).code = "ok"
                   THEN Temporal!DateTimeFromTicks(TicksOf(n).value, rounding) ELSE TicksOf(n)
  BY <1>2 DEF TokenOf, Temporal!TokenCell, TemporalMapped, Temporal!DateTimeCell,
     Temporal!DateTimeFromTimestamp, TicksOf, Temporal!IsOk
<1>4. CASE ~Temporal!ZoneChecked(field)
  BY <1>3, <1>4 DEF KeptCell, Temporal!Fail
<1>5. CASE Temporal!ZoneChecked(field) /\ TicksOf(n).code # "ok"
  BY <1>1, <1>2, <1>3, <1>5, TimestampFacts, TicksKept DEF KeptCell
<1>6. CASE Temporal!ZoneChecked(field) /\ TicksOf(n).code = "ok"
  <2>1. PICK t \in Int : t = TicksOf(n).value
    BY <1>1, <1>2, <1>6, TimestampFacts, TicksKept
  <2>2. PICK k \in Int : k = FragmentsOf(t)
    BY <2>1, FragmentsKept
  <2>3. PICK d : d = Temporal!DateTimeFromTicks(t, rounding)
    OBVIOUS
  <2>4. TokenOf(v) = d
    BY <1>3, <1>6, <2>1, <2>3
  <2>5. PICK g \in Positive, nano \in Positive, f \in Positive :
           /\ g = Temporal!TickStep /\ nano = Base ^ NanoScale /\ f = Temporal!Fraction
           /\ nano = Temporal!Fraction \div FragmentsPerSecond
    BY Clock
  <2>6. PICK i \in Int : i = TimestampInstant(n) /\ i = Temporal!SourceInstant(v)
    BY <1>1, <1>2, TimestampFacts
  <2>7. PICK u \in Nat, down \in Nat, l \in Nat :
           /\ u = Temporal!ShiftUp /\ down = Temporal!ShiftDown
           /\ l = LegacyShift /\ l = Temporal!Legacy
    BY Margins
  <2>8. PICK x \in Int, y \in Int : x = t * g /\ y = k * nano
    BY DEF Positive
  <2>9. 2 * (y - x) <= l + nano /\ 2 * (y - x) > -(l + nano)
    BY <2>2, <2>5, <2>7, <2>8, FragmentsKept
  <2>10. 2 * (x - i) <= u /\ 2 * (x - i) >= -down
    BY <1>1, <1>2, <1>6, <2>1, <2>5, <2>6, <2>7, <2>8, TimestampFacts, TicksKept
  <2>11. /\ 2 * (y - i) <= u + l + nano /\ 2 * (y - i) >= -(down + l + nano)
         /\ down + l = 0 => 2 * (y - i) > -nano
         /\ \A e \in Int : e <= y => i >= e - (u + (nano + l)) \div 2
    BY <2>9, <2>10, ErrorsAdd DEF Positive
  <2>12. CASE d.code = "ok"
    <3>1. d.value.kind = "datetime" /\ Temporal!CellInstant(d.value) = y
      BY <2>2, <2>3, <2>5, <2>8, <2>12, DateTimeOfTicks DEF Temporal!CellInstant, StampInstant
    <3>2. Temporal!FinalShift(d.value) = nano
      BY <2>5, <3>1 DEF Temporal!FinalShift, Temporal!Step
    <3>3. NearCell(v, d.value)
      BY <2>6, <2>7, <2>11, <3>1, <3>2 DEF NearCell
    <3>4. InstantGiven(n) = y
      BY <1>1, <2>1, <2>2, <2>5, <2>8 DEF InstantGiven
    <3> QED
      BY <1>2, <1>6, <2>4, <2>12, <3>1, <3>3, <3>4 DEF KeptCell
  <2>13. CASE d.code # "ok"
    <3>1. d.code = "TimestampOutOfRange"
      BY <2>2, <2>3, <2>13, DateTimeOfTicks
    <3>2. PICK a \in Int, b \in Int :
             a = DateTimeMinDays - DateTimeEpochDays /\ b = DateTimeMaxDays - DateTimeEpochDays + 1
      BY Clock
    <3>3. t < a * Temporal!TicksPerDay \/ k >= b * Temporal!FragmentsPerDay
      BY <2>2, <2>3, <2>13, <3>2, DateTimeOfTicks
    <3>4. PICK at \in Int : at = a * Temporal!TicksPerDay
      BY TicksOfDays
    <3>5. PICK lo \in Int : lo = (a * SecondsPerDay) * f /\ lo = at * g
      BY <2>5, <3>4, TicksOfDays, Clock DEF Positive
    <3>6. t < a * Temporal!TicksPerDay => i < lo
      BY <1>1, <1>2, <1>6, <2>1, <2>5, <2>6, <3>5, <3>4, TimestampFacts, TicksKept
    <3>7. PICK hi \in Int : hi = (b * SecondsPerDay) * f
                            /\ (k >= b * Temporal!FragmentsPerDay => hi <= y)
      <4>1. PICK s \in Positive, h \in Positive : s = SecondsPerDay /\ h = FragmentsPerSecond
                                                 /\ f = h * nano
        BY <2>5, Clock
      <4>2. PICK day \in Positive : day = Temporal!FragmentsPerDay /\ day = s * h
        BY <4>1 DEF Temporal!FragmentsPerDay, Positive
      <4>3. s * f = day * nano
        <5>1. s * (h * nano) = (s * h) * nano
          BY ONLY s \in Positive, h \in Positive, nano \in Positive DEF Positive
        <5> QED
          BY <4>1, <4>2, <5>1
      <4>4. (b * s) * f \in Int /\ (b * day <= k => (b * s) * f <= k * nano)
        BY <4>3, BeyondDays
      <4> QED
        BY <2>8, <4>1, <4>2, <4>4 DEF Positive
    <3>8. Temporal!RoundingMargin = (u + (nano + l)) \div 2 /\ Temporal!OffsetMargin = 0
      BY <2>5, <2>7, Margins DEF Temporal!RoundingMargin, Temporal!TargetStep
    <3>9. Temporal!FirstSecond = a * SecondsPerDay /\ Temporal!EndSecond = b * SecondsPerDay
      BY <3>2 DEF Temporal!FirstSecond, Temporal!EndSecond
    <3>10. PICK margin \in Int : margin = (u + (nano + l)) \div 2
      BY DEF Positive
    <3>11. i < lo + 0 \/ i >= hi - 0 - margin
      BY <2>11, <3>3, <3>6, <3>7, <3>10 DEF Positive
    <3>12. OutOfRange(v)
      BY <2>5, <2>6, <3>5, <3>7, <3>8, <3>9, <3>10, <3>11 DEF OutOfRange
    <3> QED
      BY <2>4, <3>1, <3>12 DEF KeptCell
  <2> QED
    BY <2>12, <2>13
<1> QED
  BY <1>4, <1>5, <1>6

LEMMA DateTime2Cells ==
    ASSUME TemporalMapped, field.target = "datetime2", field.arrow = "timestamp",
           NEW v, v # Temporal!Null, v.n \in Int
    PROVE  KeptCell(v)
<1>1. PICK n \in Int : n = v.n
  OBVIOUS
<1>2. TokenOf(v) = IF ~Temporal!ZoneChecked(field) THEN Temporal!Fail("TimezoneUnsupported")
                   ELSE IF TicksOf(n).code = "ok"
                   THEN Temporal!DateTime2FromTicks(TicksOf(n).value, field.scale) ELSE TicksOf(n)
  BY <1>1 DEF TokenOf, Temporal!TokenCell, TemporalMapped, Temporal!DateTime2Cell,
     Temporal!DateTime2FromTimestamp, TicksOf, Temporal!IsOk
<1>3. CASE ~Temporal!ZoneChecked(field)
  BY <1>2, <1>3 DEF KeptCell, Temporal!Fail
<1>4. CASE Temporal!ZoneChecked(field) /\ TicksOf(n).code # "ok"
  BY <1>1, <1>2, <1>4, TimestampFacts, TicksKept DEF KeptCell
<1>5. CASE Temporal!ZoneChecked(field) /\ TicksOf(n).code = "ok"
  <2>1. PICK t \in Int : t = TicksOf(n).value
    BY <1>1, <1>5, TimestampFacts, TicksKept
  <2>2. PICK scale \in 0 .. TickScale : scale = field.scale
    BY TimestampFacts
  <2>3. PICK step \in Positive, g \in Positive, f \in Positive :
           /\ step = Temporal!TicksPerIncrement(scale) /\ g = Temporal!TickStep
           /\ f = Temporal!Fraction /\ Temporal!Fraction \div Base ^ scale = g * step
    BY Clock
  <2>4. PICK k \in Int : k = Temporal!RoundHalfUp(t, step)
    BY Rounded DEF Positive
  <2>5. PICK d : d = Temporal!DateTime2FromTicks(t, scale)
    OBVIOUS
  <2>6. TokenOf(v) = d
    BY <1>2, <1>5, <2>1, <2>2, <2>5
  <2>7. PICK i \in Int : i = TimestampInstant(n) /\ i = Temporal!SourceInstant(v)
    BY <1>1, TimestampFacts
  <2>8. PICK u \in Nat, down \in Nat : u = Temporal!ShiftUp /\ down = Temporal!ShiftDown
    BY Margins
  <2>9. Temporal!Legacy = 0 /\ Temporal!OffsetMargin = 0
    BY Margins
  <2>10. PICK x \in Int, ks \in Int, unit \in Positive : x = t * g /\ ks = k * step /\ unit = g * step
    BY DEF Positive
  <2>11. PICK y \in Int : y = ks * g
    BY DEF Positive
  <2>12. 2 * (y - x) <= 0 + unit /\ 2 * (y - x) > -(0 + unit)
    <3>1. 2 * (ks - t) <= step /\ -step < 2 * (ks - t)
      BY <2>4, <2>10, Rounded DEF Positive
    <3>2. (2 * (ks - t)) * g <= step * g /\ (-step) * g < (2 * (ks - t)) * g
      BY <3>1, Cancel DEF Positive
    <3>3. /\ (2 * (ks - t)) * g = 2 * (ks * g - t * g)
          /\ step * g = g * step /\ (-step) * g = -(g * step)
      BY ONLY ks \in Int, t \in Int, g \in Positive, step \in Positive DEF Positive
    <3> QED
      BY <2>10, <2>11, <3>2, <3>3 DEF Positive
  <2>13. 2 * (x - i) <= u /\ 2 * (x - i) >= -down
    BY <1>1, <1>5, <2>1, <2>3, <2>7, <2>8, <2>10, TimestampFacts, TicksKept
  <2>14. /\ 2 * (y - i) <= u + 0 + unit /\ 2 * (y - i) >= -(down + 0 + unit)
         /\ down + 0 = 0 => 2 * (y - i) > -unit
         /\ \A e \in Int : e <= y => i >= e - (u + (unit + 0)) \div 2
    BY <2>12, <2>13, ErrorsAdd DEF Positive
  <2>15. CASE d.code = "ok"
    <3>1. /\ d.value.kind = "datetime2" /\ d.value.scale = scale
          /\ StampInstant(d.value.day - EpochDays, d.value.time,
                          Temporal!Fraction \div Base ^ scale) = y
      BY <2>3, <2>4, <2>5, <2>10, <2>11, <2>15, DateTime2OfTicks
    <3>2. Temporal!CellInstant(d.value) = y
      BY <3>1 DEF Temporal!CellInstant, StampInstant
    <3>3. Temporal!FinalShift(d.value) = unit
      BY <2>3, <2>10, <3>1 DEF Temporal!FinalShift, Temporal!Step
    <3>4. NearCell(v, d.value)
      BY <2>7, <2>8, <2>9, <2>14, <3>2, <3>3 DEF NearCell
    <3>5. InstantGiven(n) = y
      BY <2>1, <2>2, <2>3, <2>4, <2>10, <2>11 DEF InstantGiven
    <3> QED
      BY <1>1, <1>5, <2>6, <2>15, <3>2, <3>4, <3>5 DEF KeptCell
  <2>16. CASE d.code # "ok"
    <3>1. d.code = "TimestampOutOfRange"
      BY <2>3, <2>4, <2>5, <2>16, DateTime2OfTicks
    <3>2. PICK a \in Int, b \in Int : a = -EpochDays /\ b = MaxDays - EpochDays + 1
      BY Clock
    <3>3. t < a * Temporal!TicksPerDay \/ ks >= b * Temporal!TicksPerDay
      BY <2>3, <2>4, <2>5, <2>10, <2>16, <3>2, DateTime2OfTicks
    <3>4. PICK at \in Int, bt \in Int :
             at = a * Temporal!TicksPerDay /\ bt = b * Temporal!TicksPerDay
      BY TicksOfDays
    <3>5. PICK lo \in Int : lo = (a * SecondsPerDay) * f /\ lo = at * g
      BY <2>3, <3>4, TicksOfDays, Clock DEF Positive
    <3>6. PICK hi \in Int : hi = (b * SecondsPerDay) * f /\ hi = bt * g
      BY <2>3, <3>4, TicksOfDays, Clock DEF Positive
    <3>7. t < at => i < lo
      BY <1>1, <1>5, <2>1, <2>3, <2>7, <3>5, TimestampFacts, TicksKept
    <3>8. ks >= bt => hi <= y
      BY <2>11, <3>6, Cancel DEF Positive
    <3>9. Temporal!RoundingMargin = (u + (unit + 0)) \div 2
      BY <2>2, <2>3, <2>8, <2>9, <2>10 DEF Temporal!RoundingMargin, Temporal!TargetStep
    <3>10. Temporal!FirstSecond = a * SecondsPerDay /\ Temporal!EndSecond = b * SecondsPerDay
      <4>1. PICK e \in Nat, s \in Positive : e = EpochDays /\ s = SecondsPerDay
        BY Clock
      <4>2. -e * s = (-e) * s
        BY DEF Positive
      <4> QED
        BY <3>2, <4>1, <4>2 DEF Temporal!FirstSecond, Temporal!EndSecond
    <3>11. PICK margin \in Int : margin = (u + (unit + 0)) \div 2
      BY DEF Positive
    <3>12. i < lo + 0 \/ i >= hi - 0 - margin
      BY <2>14, <3>3, <3>4, <3>7, <3>8, <3>11
    <3>13. OutOfRange(v)
      BY <2>3, <2>7, <2>9, <3>5, <3>6, <3>9, <3>10, <3>11, <3>12 DEF OutOfRange
    <3> QED
      BY <2>6, <3>1, <3>13 DEF KeptCell
  <2> QED
    BY <2>15, <2>16
<1> QED
  BY <1>3, <1>4, <1>5

\* A datetimeoffset has the finest scale: no tick is rounded.
LEMMA WholeDateTime2 ==
    ASSUME NEW x \in Int, NEW d, d = Temporal!DateTime2FromTicks(x, TickScale)
    PROVE  /\ d.code \in {"ok", "TimestampOutOfRange"}
           /\ d.code = "ok" =>
                 /\ StampInstant(d.value.day - EpochDays, d.value.time,
                                 Temporal!Fraction \div Base ^ TickScale) = x * Temporal!TickStep
                 /\ x \div Temporal!TicksPerDay + EpochDays \in 0 .. MaxDays
           /\ d.code # "ok" =>
                 \/ x < (-EpochDays) * Temporal!TicksPerDay
                 \/ x >= (MaxDays - EpochDays + 1) * Temporal!TicksPerDay
<1>1. TickScale \in 0 .. TickScale /\ 1 = Temporal!TicksPerIncrement(TickScale) /\ 1 \in Positive
  BY Clock DEF Positive
<1>2. x = Temporal!RoundHalfUp(x, 1) /\ x * 1 = x
  <2>1. x * 1 = x
    OBVIOUS
  <2> QED
    BY <1>1, <2>1, RoundedMultiple DEF Positive
<1> QED
  BY <1>1, <1>2, DateTime2OfTicks

\* The offset of a zone at a second is a number of minutes in the range.
LEMMA Offsets ==
    ASSUME IsTemporalMapping(field), Temporal!IsOk(Temporal!ResolveZone(field.zone)), NEW second,
           NEW o, o = Temporal!OffsetForInstant(Temporal!ResolveZone(field.zone).value, second)
    PROVE  /\ o.code \in {"ok", "TimezoneUnsupported", "TimestampOutOfRange"}
           /\ o.code = "ok" =>
                 /\ o.value \in -MaxOffsetMinutes .. MaxOffsetMinutes
                 /\ field.zone.kind = "named" =>
                       o.value * SecondsPerMinute
                          = NamedOffsetSeconds(field.zone.name, second)
           /\ o.code = "TimestampOutOfRange" => second \notin NamedSeconds
<1>1. PICK max \in Nat, s \in Positive, h \in Nat :
         max = MaxOffsetMinutes /\ s = SecondsPerMinute /\ h = MinutesPerHour
  BY Clock
<1>2. CASE field.zone.kind = "utc"
  <2>1. o = Temporal!Ok(0)
    BY <1>2 DEF Temporal!ResolveZone, Temporal!OffsetForInstant, Temporal!Ok
  <2> QED
    BY <1>1, <1>2, <2>1 DEF Temporal!Ok
<1>3. CASE field.zone.kind = "fixed"
  <2>1. PICK a \in Nat, b \in Nat : a = field.zone.hours /\ b = field.zone.minutes
    BY <1>3 DEF IsTemporalMapping
  <2>2. PICK m \in Nat : m = Temporal!FixedMinutes(field.zone)
    <3>1. a * h + b \in Nat
      OBVIOUS
    <3> QED
      BY <1>1, <2>1, <3>1 DEF Temporal!FixedMinutes
  <2>3. Temporal!ResolveZone(field.zone) = Temporal!ParseFixedOffset(field.zone)
    BY <1>3 DEF Temporal!ResolveZone
  <2>4. ~ (field.zone.minutes >= MinutesPerHour \/ m > max)
    BY <1>1, <2>2, <2>3 DEF Temporal!ParseFixedOffset, Temporal!IsOk, Temporal!Fail
  <2>5. Temporal!ResolveZone(field.zone)
           = Temporal!Ok([kind |-> "fixed", minutes |-> IF field.zone.negative THEN -m ELSE m])
    BY <1>1, <2>2, <2>3, <2>4 DEF Temporal!ParseFixedOffset
  <2>6. o = Temporal!Ok(IF field.zone.negative THEN -m ELSE m)
    BY <2>5 DEF Temporal!OffsetForInstant, Temporal!Ok
  <2>7. (IF field.zone.negative THEN -m ELSE m) \in -max .. max
    BY <2>4
  <2> QED
    BY <1>1, <1>3, <2>6, <2>7 DEF Temporal!Ok
<1>4. CASE field.zone.kind = "named"
  <2>1. Temporal!ResolveZone(field.zone) = Temporal!Ok([kind |-> "named", name |-> field.zone.name])
    BY <1>4 DEF Temporal!ResolveZone
  <2>2. o = IF second \notin NamedSeconds THEN Temporal!Fail("TimestampOutOfRange")
            ELSE Temporal!OffsetMinutes(NamedOffsetSeconds(field.zone.name, second))
    BY <2>1 DEF Temporal!OffsetForInstant, Temporal!Ok
  <2>3. CASE second \notin NamedSeconds
    BY <2>2, <2>3 DEF Temporal!Fail
  <2>4. CASE second \in NamedSeconds
    <3>1. PICK n \in Int : n = NamedOffsetSeconds(field.zone.name, second)
      BY <1>4, <2>4 DEF IsTemporalMapping
    <3>2. o = Temporal!OffsetMinutes(n)
      BY <2>2, <2>4, <3>1
    <3>3. PICK q \in Int, r \in 0 .. s - 1 : q = n \div s /\ r = n % s /\ n = q * s + r
      BY Quotient DEF Positive
    <3>4. PICK ms \in Int : ms = max * s
      BY DEF Positive
    <3>5. o = IF r # 0 \/ n > ms \/ -n > ms THEN Temporal!Fail("TimezoneUnsupported")
              ELSE Temporal!Ok(q)
      BY <1>1, <3>2, <3>3, <3>4 DEF Temporal!OffsetMinutes
    <3>6. CASE r # 0 \/ n > ms \/ -n > ms
      BY <3>5, <3>6 DEF Temporal!Fail
    <3>7. CASE r = 0 /\ n <= ms /\ -n <= ms
      <4>1. n = q * s
        BY <3>3, <3>7 DEF Positive
      <4>2. q <= max
        BY <3>4, <3>7, <4>1, Cancel DEF Positive
      <4>3. -max <= q
        <5>1. PICK w \in Int : w = -max
          OBVIOUS
        <5>2. w * s = -ms
          BY <3>4, <5>1 DEF Positive
        <5>3. w * s <= q * s
          BY <3>7, <4>1, <5>2
        <5> QED
          BY <5>1, <5>3, Cancel DEF Positive
      <4>4. o = Temporal!Ok(q)
        BY <3>5, <3>7
      <4> QED
        BY <1>1, <3>1, <4>1, <4>2, <4>3, <4>4 DEF Temporal!Ok
    <3> QED
      BY <3>6, <3>7
  <2> QED
    BY <2>3, <2>4
<1> QED
  BY <1>2, <1>3, <1>4 DEF Temporal!ResolveZone, Temporal!IsOk, Temporal!Fail

\* The second of an instant, and which instants are in it.
LEMMA SecondOfInstant ==
    ASSUME TemporalTyped, NEW n \in Int,
           NEW second, second = n \div Base ^ Temporal!UnitScale(field.unit)
    PROVE  /\ second \in Int /\ second = TimestampInstant(n) \div Temporal!Fraction
           /\ \A a \in Int : /\ second < a => TimestampInstant(n) < a * Temporal!Fraction
                             /\ a <= second => a * Temporal!Fraction <= TimestampInstant(n)
<1>1. PICK b \in Positive, w \in Positive, f \in Positive :
         /\ b = Base ^ Temporal!UnitScale(field.unit) /\ f = Temporal!Fraction /\ f = b * w
         /\ w = Temporal!Fraction \div Base ^ Temporal!UnitScale(field.unit)
  <2>1. CASE field.unit = "ns"
    <3>1. PICK h \in Positive, nano \in Positive :
             /\ h = FragmentsPerSecond /\ nano = Base ^ NanoScale /\ Temporal!Fraction = h * nano
             /\ Temporal!Fraction \div Base ^ NanoScale = h
      BY Clock
    <3>2. h * nano = nano * h /\ h * nano \in Positive
      BY DEF Positive
    <3>3. Temporal!UnitScale(field.unit) = NanoScale
      BY <2>1 DEF Temporal!UnitScale
    <3> QED
      BY <3>1, <3>2, <3>3
  <2>2. CASE field.unit # "ns"
    <3>1. PICK s \in 0 .. TickScale : s = Temporal!UnitScale(field.unit)
      BY <2>2, WholeTicks
    <3>2. PICK b \in Positive, y \in Positive, g \in Positive, f \in Positive :
             /\ b = Base ^ s /\ y = Temporal!TicksPerIncrement(s) /\ g = Temporal!TickStep
             /\ f = Temporal!Fraction /\ f = g * (b * y) /\ Temporal!Fraction \div Base ^ s = g * y
      BY Clock
    <3>3. g * (b * y) = b * (g * y) /\ g * y \in Positive
      BY ONLY b \in Positive, y \in Positive, g \in Positive DEF Positive
    <3> QED
      BY <3>1, <3>2, <3>3
  <2> QED
    BY <2>1, <2>2
<1>2. PICK q \in Int : q = n \div b
  BY Quotient DEF Positive
<1>3. TimestampInstant(n) = n * w /\ n * w \in Int
  <2>1. n * w \in Int
    BY DEF Positive
  <2> QED
    BY <1>1, <2>1 DEF TimestampInstant
<1>4. (n * w) \div (b * w) = q
  BY <1>2, QuotientOfMultiples DEF Positive
<1>5. \A a \in Int : /\ q < a => n * w < a * f
                     /\ a <= q => a * f <= n * w
  <2>1. ASSUME NEW a \in Int PROVE /\ q < a => n * w < a * (b * w)
                                   /\ a <= q => a * (b * w) <= n * w
    BY <1>3, <1>4, QuotientBound DEF Positive
  <2> QED
    BY <1>1, <2>1
<1> QED
  BY <1>1, <1>2, <1>3, <1>4, <1>5

\* What the properties say of the offset of a cell.
KeptOffset(v, c) ==
    LET localDay == EpochDays
            + (Temporal!CellInstant(c) + c.offset * SecondsPerMinute * Temporal!Fraction)
                  \div (SecondsPerDay * Temporal!Fraction)
    IN  /\ (field.unit # "ns" \/ policy = "reject") =>
               Temporal!CellInstant(c) = Temporal!SourceInstant(v)
        /\ localDay \in 0 .. MaxDays
        /\ field.zone.kind = "named" =>
               c.offset * SecondsPerMinute =
                   NamedOffsetSeconds(field.zone.name,
                       Temporal!SourceInstant(v) \div Temporal!Fraction)

\* The local time of an instant lies at most the widest offset from it.
LEMMA LocalTicks ==
    ASSUME NEW t \in Int, NEW m \in -MaxOffsetMinutes .. MaxOffsetMinutes, NEW local,
           local = t + m * SecondsPerMinute * Temporal!TicksPerSecond
    PROVE  /\ local \in Int
           /\ \E width \in Nat :
                 /\ width * Temporal!TickStep
                       = MaxOffsetMinutes * SecondsPerMinute * Temporal!Fraction
                 /\ t - width <= local /\ local <= t + width
           /\ local * Temporal!TickStep
                 = t * Temporal!TickStep + m * SecondsPerMinute * Temporal!Fraction
<1>1. PICK max \in Nat, s \in Positive, ts \in Positive, g \in Positive :
         /\ max = MaxOffsetMinutes /\ s = SecondsPerMinute /\ ts = Temporal!TicksPerSecond
         /\ g = Temporal!TickStep /\ Temporal!Fraction = g * ts
  BY Clock
<1>2. m \in Int /\ -max <= m /\ m <= max
  BY <1>1
<1>3. PICK u \in Positive : u = s * ts
  BY DEF Positive
<1>4. m * s * ts = m * u /\ max * s * (g * ts) = (max * u) * g /\ m * s * (g * ts) = (m * u) * g
  <2>1. /\ m * s * ts = m * (s * ts) /\ max * s * (g * ts) = (max * (s * ts)) * g
        /\ m * s * (g * ts) = (m * (s * ts)) * g
    BY ONLY m \in Int, max \in Nat, s \in Positive, ts \in Positive, g \in Positive DEF Positive
  <2> QED
    BY <1>2, <1>3, <2>1
<1>5. PICK width \in Nat, shift \in Int : width = max * u /\ shift = m * u
  BY <1>2 DEF Positive
<1>6. -width <= shift /\ shift <= width
  <2>1. PICK low \in Int : low = -max
    OBVIOUS
  <2>2. low * u <= m * u /\ m * u <= max * u
    BY <1>2, <2>1, Cancel DEF Positive
  <2>3. low * u = -width
    BY <1>5, <2>1 DEF Positive
  <2> QED
    BY <1>5, <2>2, <2>3
<1>7. local = t + shift
  BY <1>1, <1>4, <1>5
<1>8. (t + shift) * g = t * g + shift * g
  BY DEF Positive
<1>9. local * g = t * g + m * s * Temporal!Fraction
  BY <1>1, <1>4, <1>5, <1>7, <1>8
<1>10. width * g = max * s * Temporal!Fraction
  BY <1>1, <1>4, <1>5
<1> QED
  BY <1>1, <1>5, <1>6, <1>7, <1>9, <1>10

LEMMA OutsideOf ==
    ASSUME NEW q \in Int, NEW a \in Int, NEW b \in Int, q \notin a .. b - 1
    PROVE  q < a \/ b <= q
OBVIOUS

LEMMA DateTimeOffsetCells ==
    ASSUME TemporalMapped, field.target = "datetimeoffset", NEW v, v # Temporal!Null, v.n \in Int
    PROVE  KeptCell(v) /\ (TokenOf(v).code = "ok" => KeptOffset(v, TokenOf(v).value))
<1> DEFINE second == v.n \div Base ^ Temporal!UnitScale(field.unit)
           resolved == Temporal!ResolveZone(field.zone)
           o == Temporal!OffsetForInstant(resolved.value, second)
<1>1. field.arrow = "timestamp" /\ IsTemporalMapping(field) /\ field.scale = TickScale /\ TemporalTyped
  BY TimestampFacts DEF TemporalMapped, Temporal!Supported
<1>2. PICK n \in Int : n = v.n
  OBVIOUS
<1>3. TokenOf(v) = CASE ~Temporal!IsOk(resolved) -> resolved
                     [] Temporal!IsOk(resolved) /\ ~Temporal!IsOk(o) -> o
                     [] Temporal!IsOk(resolved) /\ Temporal!IsOk(o) /\ ~Temporal!IsOk(TicksOf(n))
                           -> TicksOf(n)
                     [] OTHER -> Temporal!DateTimeOffsetFromTicks(TicksOf(n).value, o.value)
  BY <1>2 DEF TokenOf, Temporal!TokenCell, TemporalMapped, Temporal!DateTimeOffsetCell,
     Temporal!DateTimeOffsetFromTimestamp, TicksOf
<1>4. PICK i \in Int : i = TimestampInstant(n) /\ i = Temporal!SourceInstant(v)
  BY <1>1, <1>2, TimestampFacts
<1>5. PICK a \in Int, b \in Int, e \in Nat : a = -EpochDays /\ b = MaxDays - EpochDays + 1 /\ e = EpochDays
  BY Clock
<1>6. PICK g \in Positive, f \in Positive, s \in Positive, perDay \in Positive :
         /\ g = Temporal!TickStep /\ f = Temporal!Fraction /\ s = SecondsPerDay
         /\ perDay = Temporal!TicksPerDay
  BY Clock
<1>7. PICK sa \in Int, sb \in Int : sa = a * s /\ sb = b * s
  BY DEF Positive
<1>8. Temporal!FirstSecond = sa /\ Temporal!EndSecond = sb
  <2>1. -e * s = (-e) * s
    BY DEF Positive
  <2> QED
    BY <1>5, <1>6, <1>7, <2>1 DEF Temporal!FirstSecond, Temporal!EndSecond
<1>9. PICK at \in Int, bt \in Int : at = a * perDay /\ bt = b * perDay
  BY DEF Positive
<1>10. PICK lo \in Int, hi \in Int : lo = sa * f /\ hi = sb * f /\ lo = at * g /\ hi = bt * g
  <2>1. sa * f \in Int /\ sb * f \in Int
    BY DEF Positive
  <2> QED
    BY <1>6, <1>7, <1>9, <2>1, TicksOfDays
<1>11. PICK u \in Nat, down \in Nat, wide \in Nat :
          u = Temporal!ShiftUp /\ down = Temporal!ShiftDown /\ wide = Temporal!OffsetMargin
  BY Margins
<1>12. PICK margin \in Nat : margin = u \div 2 /\ margin = Temporal!RoundingMargin
  BY <1>11 DEF Temporal!RoundingMargin
<1>13. i < lo + wide \/ i >= hi - wide - margin => OutOfRange(v)
  BY <1>4, <1>6, <1>8, <1>10, <1>11, <1>12 DEF OutOfRange
<1>14. CASE ~Temporal!IsOk(resolved)
  <2>1. resolved.code = "TimezoneUnsupported"
    BY <1>14 DEF Temporal!ResolveZone, Temporal!ParseFixedOffset, Temporal!IsOk, Temporal!Ok,
       Temporal!Fail
  <2>2. TokenOf(v) = resolved
    BY <1>3, <1>14
  <2> QED
    BY <2>1, <2>2 DEF KeptCell
<1>15. CASE Temporal!IsOk(resolved) /\ ~Temporal!IsOk(o)
  <2>1. TokenOf(v) = o /\ o.code # "ok"
    BY <1>3, <1>15 DEF Temporal!IsOk
  <2>2. /\ o.code \in {"TimezoneUnsupported", "TimestampOutOfRange"}
        /\ o.code = "TimestampOutOfRange" => second \notin NamedSeconds
    BY <1>1, <1>15, <2>1, Offsets
  <2>3. ASSUME second \notin NamedSeconds PROVE OutOfRange(v)
    <3>1. PICK q \in Int : q = second
      BY <1>1, SecondOfInstant
    <3>2. -EpochDays * SecondsPerDay .. (MaxDays - EpochDays + 1) * SecondsPerDay - 1
             \subseteq NamedSeconds
      BY ValuesAssumption DEF TemporalAssumption, Temporal!CalendarAssumption
    <3>3. -e * s = (-e) * s
      BY DEF Positive
    <3>4. sa .. sb - 1 \subseteq NamedSeconds
      BY <1>5, <1>6, <1>7, <3>2, <3>3
    <3>5. q < sa \/ sb <= q
      <4>1. q \notin NamedSeconds
        BY <2>3, <3>1
      <4>2. q \notin sa .. sb - 1
        BY <3>4, <4>1
      <4>3. q \in Int /\ sa \in Int /\ sb \in Int
        BY <1>7, <3>1
      <4> QED
        BY <4>2, <4>3, OutsideOf
    <3>6. \A x \in Int : /\ q < x => i < x * f
                         /\ x <= q => x * f <= i
      <4>1. \A x \in Int :
               /\ second < x => TimestampInstant(n) < x * Temporal!Fraction
               /\ x <= second => x * Temporal!Fraction <= TimestampInstant(n)
        BY <1>1, <1>2, SecondOfInstant
      <4> QED
        BY <1>4, <1>6, <3>1, <4>1
    <3>7. i < lo \/ hi <= i
      BY <1>10, <3>5, <3>6
    <3> QED
      BY <1>13, <3>7
  <2> QED
    BY <2>1, <2>2, <2>3 DEF KeptCell
<1>16. CASE Temporal!IsOk(resolved) /\ Temporal!IsOk(o) /\ ~Temporal!IsOk(TicksOf(n))
  <2>1. TokenOf(v) = TicksOf(n) /\ TicksOf(n).code # "ok"
    BY <1>3, <1>16 DEF Temporal!IsOk
  <2> QED
    BY <1>1, <1>2, <2>1, TicksKept DEF KeptCell
<1>17. CASE Temporal!IsOk(resolved) /\ Temporal!IsOk(o) /\ Temporal!IsOk(TicksOf(n))
  <2>1. PICK t \in Int : t = TicksOf(n).value
    BY <1>1, <1>17, TicksKept DEF Temporal!IsOk
  <2>2. PICK m \in -MaxOffsetMinutes .. MaxOffsetMinutes :
           /\ m = o.value
           /\ field.zone.kind = "named" =>
                 m * SecondsPerMinute = NamedOffsetSeconds(field.zone.name, second)
    BY <1>1, <1>17, Offsets DEF Temporal!IsOk
  <2>3. PICK local \in Int : local = t + m * SecondsPerMinute * Temporal!TicksPerSecond
    BY LocalTicks
  <2>4. PICK width \in Nat : /\ width * g = wide
                             /\ t - width <= local /\ local <= t + width
    BY <1>6, <1>11, <2>3, LocalTicks DEF Temporal!OffsetMargin
  <2>5. PICK here, utc : /\ here = Temporal!DateTime2FromTicks(local, TickScale)
                         /\ utc = Temporal!DateTime2FromTicks(t, TickScale)
    OBVIOUS
  <2>6. TokenOf(v) =
           IF here.code # "ok" \/ utc.code # "ok" THEN Temporal!Fail("TimestampOutOfRange")
           ELSE Temporal!Ok([kind |-> "datetimeoffset", day |-> utc.value.day,
                             time |-> utc.value.time, scale |-> TickScale, offset |-> m])
    BY <1>3, <1>17, <2>1, <2>2, <2>3, <2>5 DEF Temporal!DateTimeOffsetFromTicks, Temporal!IsOk
  <2>7. PICK x \in Int : x = t * g
    BY DEF Positive
  <2>8. 2 * (x - i) <= u /\ 2 * (x - i) >= -down
    BY <1>1, <1>2, <1>4, <1>6, <1>11, <1>17, <2>1, <2>7, TicksKept DEF Temporal!IsOk
  <2>9. CASE here.code # "ok" \/ utc.code # "ok"
    <3>1. t < at + width \/ bt - width <= t
      <4>1. here.code # "ok" => local < at \/ local >= bt
        BY <1>5, <1>6, <1>9, <2>5, WholeDateTime2
      <4>2. utc.code # "ok" => t < at \/ t >= bt
        BY <1>5, <1>6, <1>9, <2>5, WholeDateTime2
      <4> QED
        BY <2>4, <2>9, <4>1, <4>2
    <3>2. PICK aw \in Int, bw \in Int : aw = at + width /\ bw = bt - width
      OBVIOUS
    <3>3. aw * g = lo + wide /\ bw * g = hi - wide
      <4>1. (at + width) * g = at * g + width * g /\ (bt - width) * g = bt * g - width * g
        BY ONLY at \in Int, bt \in Int, width \in Nat, g \in Positive DEF Positive
      <4> QED
        BY <1>10, <2>4, <3>2, <4>1
    <3>4. t < aw => i < aw * g
      BY <1>1, <1>2, <1>4, <1>6, <1>17, <2>1, TicksKept DEF Temporal!IsOk
    <3>5. bw <= t => bw * g <= x
      BY <2>7, Cancel DEF Positive
    <3>6. x - margin <= i
      BY <1>12, <2>8
    <3>7. i < lo + wide \/ i >= hi - wide - margin
      BY <3>1, <3>2, <3>3, <3>4, <3>5, <3>6
    <3> QED
      BY <1>13, <2>6, <2>9, <3>7 DEF KeptCell, Temporal!Fail
  <2>10. CASE here.code = "ok" /\ utc.code = "ok"
    <3> DEFINE c == [kind |-> "datetimeoffset", day |-> utc.value.day, time |-> utc.value.time,
                     scale |-> TickScale, offset |-> m]
    <3>1. TokenOf(v) = Temporal!Ok(c)
      BY <2>6, <2>10
    <3>2. Temporal!CellInstant(c) = x
      <4>1. Temporal!CellInstant(c) = StampInstant(utc.value.day - EpochDays, utc.value.time,
                                                   Temporal!Fraction \div Base ^ TickScale)
        BY DEF Temporal!CellInstant, StampInstant
      <4> QED
        BY <1>6, <2>5, <2>7, <2>10, <4>1, WholeDateTime2
    <3>3. Temporal!FinalShift(c) = 0 /\ Temporal!Legacy = 0
      BY Margins DEF Temporal!FinalShift
    <3>4. NearCell(v, c)
      <4>1. 2 * (x - i) <= u + 0 + 0 /\ 2 * (x - i) >= -(down + 0 + 0)
        BY <2>8
      <4> QED
        BY <1>4, <1>11, <3>2, <3>3, <4>1 DEF NearCell
    <3>5. InstantGiven(n) = x
      BY <1>1, <1>6, <2>1, <2>7 DEF InstantGiven
    <3>6. KeptCell(v)
      BY <1>2, <1>17, <3>1, <3>2, <3>4, <3>5 DEF KeptCell, Temporal!Ok, Temporal!IsOk
    <3>7. ASSUME field.unit # "ns" \/ policy = "reject" PROVE x = i
      <4>1. u = 0 /\ down = 0
        BY <1>11, <3>7 DEF Temporal!ShiftUp, Temporal!ShiftDown
      <4> QED
        BY <2>8, <4>1
    <3>8. (x + m * SecondsPerMinute * Temporal!Fraction) \div (s * Temporal!Fraction)
             = local \div perDay
      <4>1. local * g = x + m * SecondsPerMinute * Temporal!Fraction
        BY <1>6, <2>3, <2>7, LocalTicks
      <4>2. perDay * g = s * Temporal!Fraction
        <5>1. (1 * perDay) * g = (1 * s) * Temporal!Fraction
          BY <1>6, TicksOfDays
        <5>2. 1 * perDay = perDay /\ 1 * s = s
          BY DEF Positive
        <5> QED
          BY <5>1, <5>2
      <4>3. (local * g) \div (perDay * g) = local \div perDay
        BY QuotientOfMultiples DEF Positive
      <4> QED
        BY <4>1, <4>2, <4>3
    <3>9. local \div perDay + EpochDays \in 0 .. MaxDays
      BY <1>6, <2>5, <2>10, WholeDateTime2
    <3>10. PICK q \in Int : q = local \div perDay
      BY Quotient DEF Positive
    <3>11. EpochDays + q \in 0 .. MaxDays
      <4>1. q + e \in 0 .. MaxDays /\ q + e = e + q
        BY <1>5, <3>9, <3>10
      <4> QED
        BY <1>5, <4>1
    <3>12. second = Temporal!SourceInstant(v) \div Temporal!Fraction
      BY <1>1, <1>2, <1>4, SecondOfInstant
    <3>13. KeptOffset(v, c)
      BY <1>4, <1>6, <2>2, <3>2, <3>7, <3>8, <3>10, <3>11, <3>12 DEF KeptOffset
    <3> QED
      BY <3>1, <3>6, <3>13 DEF Temporal!Ok
  <2> QED
    BY <2>9, <2>10
<1> QED
  BY <1>14, <1>15, <1>16, <1>17

\* The instant a number converts to grows with the number.
LEMMA InstantsGrow ==
    ASSUME TemporalMapped, NEW m \in Int, NEW n \in Int, m <= n,
           NeedsTicks => TicksOf(m).code = "ok" /\ TicksOf(n).code = "ok"
    PROVE  InstantGiven(m) <= InstantGiven(n)
<1>1. CASE field.arrow = "date32"
  <2>1. PICK f \in Positive : f = SecondsPerDay * Temporal!Fraction
    BY Clock DEF Positive
  <2>2. InstantGiven(m) = m * f /\ InstantGiven(n) = n * f
    BY <1>1, <2>1 DEF InstantGiven
  <2> QED
    BY <2>2, Cancel DEF Positive
<1>2. CASE field.arrow = "date64" \/ (field.arrow = "time" /\ field.unit # "ns")
  <2>1. Temporal!UnitScale(field.unit) \in 0 .. TickScale
    BY <1>2, Clock DEF TemporalMapped, IsTemporalMapping, Units, Temporal!UnitScale
  <2>2. PICK w \in Positive : w = Temporal!Fraction \div Base ^ Temporal!UnitScale(field.unit)
    BY <2>1, ScaleSteps
  <2>3. InstantGiven(m) = m * w /\ InstantGiven(n) = n * w
    BY <1>2, <2>2 DEF InstantGiven, TimestampInstant
  <2> QED
    BY <2>3, Cancel DEF Positive
<1>3. CASE NeedsTicks
  <2>1. TemporalTyped /\ field.arrow \in {"time", "timestamp"}
    BY <1>3 DEF NeedsTicks, TemporalTyped, TemporalMapped, IsTemporalMapping, Temporal!Supported
  <2>2. PICK s \in Int, t \in Int : s = TicksOf(m).value /\ t = TicksOf(n).value
    BY <1>3, <2>1, TicksKept
  <2>3. s <= t
    BY <1>3, <2>1, <2>2, TicksOrder
  <2>4. PICK g \in Positive, nano \in Positive : g = Temporal!TickStep /\ nano = Base ^ NanoScale
    BY Clock
  <2>5. CASE field.arrow = "time" \/ field.target = "datetimeoffset"
    <3>1. InstantGiven(m) = s * g /\ InstantGiven(n) = t * g
      BY <1>3, <2>1, <2>2, <2>4, <2>5 DEF InstantGiven, NeedsTicks
    <3> QED
      BY <2>3, <3>1, Cancel DEF Positive
  <2>6. CASE field.arrow # "time" /\ field.target = "datetime2"
    <3>1. field.scale \in 0 .. TickScale
      BY <2>1, <2>6 DEF TemporalMapped, Temporal!Supported
    <3>2. PICK step \in Positive : step = Temporal!TicksPerIncrement(field.scale)
      BY <3>1, Clock
    <3>3. PICK j \in Int, k \in Int :
             j = Temporal!RoundHalfUp(s, step) /\ k = Temporal!RoundHalfUp(t, step)
      BY Rounded DEF Positive
    <3>4. j <= k
      BY <2>3, <3>3, RoundedOrder DEF Positive
    <3>5. PICK js \in Int, ks \in Int : js = j * step /\ ks = k * step
      BY DEF Positive
    <3>6. js <= ks
      BY <3>4, <3>5, Cancel DEF Positive
    <3>7. InstantGiven(m) = js * g /\ InstantGiven(n) = ks * g
      BY <1>3, <2>1, <2>2, <2>4, <2>6, <3>2, <3>3, <3>5 DEF InstantGiven, NeedsTicks
    <3> QED
      BY <3>6, <3>7, Cancel DEF Positive
  <2>7. CASE field.arrow # "time" /\ field.target \notin {"datetime2", "datetimeoffset"}
    <3>1. PICK j \in Int, k \in Int : j = FragmentsOf(s) /\ k = FragmentsOf(t)
      BY FragmentsKept
    <3>2. j <= k
      BY <2>3, <3>1, FragmentsKept
    <3>3. InstantGiven(m) = j * nano /\ InstantGiven(n) = k * nano
      BY <1>3, <2>1, <2>2, <2>4, <2>7, <3>1 DEF InstantGiven, NeedsTicks
    <3> QED
      BY <3>2, <3>3, Cancel DEF Positive
  <2> QED
    BY <2>5, <2>6, <2>7
<1> QED
  BY <1>1, <1>2, <1>3 DEF NeedsTicks

-----------------------------------------------------------------------------
(* Columns of dates and times *)

LEMMA CellsKept ==
    ASSUME TemporalMapped, NEW v, v # Temporal!Null, v.n \in Int
    PROVE  /\ KeptCell(v)
           /\ field.target = "datetimeoffset" /\ TokenOf(v).code = "ok"
                 => KeptOffset(v, TokenOf(v).value)
<1>1. \/ field.target = "date" \/ field.arrow = "date64" \/ field.arrow = "time"
      \/ field.target = "datetime" \/ field.target = "datetimeoffset"
      \/ field.arrow = "timestamp" /\ field.target = "datetime2"
  BY DEF TemporalMapped, Temporal!Supported
<1>2. CASE field.target = "datetimeoffset"
  BY <1>2, DateTimeOffsetCells
<1>3. CASE field.target # "datetimeoffset"
  BY <1>1, <1>3, DateCells, Date64Cells, TimeCells, DateTimeCells, DateTime2Cells
<1> QED
  BY <1>2, <1>3

\* A null is no reason to blame an instant.
LEMMA NullCells ==
    ASSUME TemporalMapped
    PROVE  TokenOf(Temporal!Null).code \notin {"TimestampOutOfRange", "LossyConversionRequiresPolicy"}
BY DEF TemporalMapped, TokenOf, Temporal!TokenCell, Temporal!NullOf, Temporal!Ok, Temporal!Fail,
   Temporal!Unsupported

LEMMA TemporalInstantsKept ==
    ASSUME TemporalInv PROVE Temporal!InstantsAreKept
<1>1. TemporalMapped
  BY ValuesAssumption DEF TemporalInv, TemporalAssumption, TemporalMapped
<1>2. /\ DOMAIN column = 1..Len(column) /\ Len(column) \in Nat
      /\ \A r \in DOMAIN column : IsTemporalSlot(column[r])
  BY ValuesAssumption DEF TemporalInv, TemporalAssumption
<1>3. ASSUME NEW r \in DOMAIN column, column[r] # Temporal!Null
      PROVE  /\ column[r].n \in Int /\ KeptCell(column[r])
             /\ field.target = "datetimeoffset" /\ TokenOf(column[r]).code = "ok"
                   => KeptOffset(column[r], TokenOf(column[r]).value)
  <2>1. column[r].n \in Int
    BY <1>2, <1>3 DEF IsTemporalSlot, Null, Temporal!Null
  <2> QED
    BY <1>1, <1>3, <2>1, CellsKept
<1>4. CASE tokens = Temporal!Pending
  BY <1>4 DEF Temporal!InstantsAreKept, Temporal!ConversionIsNearest, Temporal!OrderIsKept,
     Temporal!OnlyUnrepresentableIsRejected, Temporal!OffsetCellsKeepTheInstant,
     Temporal!Pending
<1>5. CASE tokens # Temporal!Pending /\ tokens.code = "ok"
  <2>1. \A r \in DOMAIN column :
           TokenOf(column[r]).code = "ok" /\ tokens.cells[r] = TokenOf(column[r]).value
    BY <1>2, <1>5 DEF TemporalInv, Ends, TemporalTokens, TokenOf, Temporal!Pending, Pending
  <2>2. Temporal!ConversionIsNearest
    <3>1. SUFFICES ASSUME NEW r \in DOMAIN column, column[r] # Temporal!Null
                   PROVE  NearCell(column[r], tokens.cells[r])
      BY DEF Temporal!ConversionIsNearest, NearCell
    <3> QED
      BY <1>3, <2>1, <3>1 DEF KeptCell
  <2>3. Temporal!OrderIsKept
    <3>1. SUFFICES ASSUME NEW r \in DOMAIN column, NEW s \in DOMAIN column,
                          column[r] # Temporal!Null, column[s] # Temporal!Null,
                          column[r].n <= column[s].n
                   PROVE  Temporal!CellInstant(tokens.cells[r])
                             <= Temporal!CellInstant(tokens.cells[s])
      BY DEF Temporal!OrderIsKept
    <3>2. PICK m \in Int, n \in Int : m = column[r].n /\ n = column[s].n
      BY <1>3, <3>1
    <3>3. /\ Temporal!CellInstant(tokens.cells[r]) = InstantGiven(m)
          /\ Temporal!CellInstant(tokens.cells[s]) = InstantGiven(n)
          /\ NeedsTicks => TicksOf(m).code = "ok" /\ TicksOf(n).code = "ok"
      BY <1>3, <2>1, <3>1, <3>2 DEF KeptCell
    <3> QED
      BY <1>1, <3>1, <3>2, <3>3, InstantsGrow
  <2>4. Temporal!OnlyUnrepresentableIsRejected
    BY <1>5 DEF Temporal!OnlyUnrepresentableIsRejected
  <2>5. Temporal!OffsetCellsKeepTheInstant
    <3>1. SUFFICES ASSUME field.target = "datetimeoffset",
                          NEW r \in DOMAIN column, column[r] # Temporal!Null
                   PROVE  KeptOffset(column[r], tokens.cells[r])
      BY DEF Temporal!OffsetCellsKeepTheInstant, KeptOffset
    <3> QED
      BY <1>3, <2>1, <3>1
  <2> QED
    BY <2>2, <2>3, <2>4, <2>5 DEF Temporal!InstantsAreKept
<1>6. CASE tokens # Temporal!Pending /\ tokens.code # "ok"
  <2>1. tokens.row \in DOMAIN column /\ tokens.code = TokenOf(column[tokens.row]).code
    BY <1>2, <1>6 DEF TemporalInv, Ends, TemporalTokens, TokenOf, Temporal!Pending, Pending
  <2>2. Temporal!OnlyUnrepresentableIsRejected
    <3>1. SUFFICES ASSUME tokens.code \in {"TimestampOutOfRange", "LossyConversionRequiresPolicy"}
                   PROVE  Temporal!OnlyUnrepresentableIsRejected
      BY DEF Temporal!OnlyUnrepresentableIsRejected
    <3>2. column[tokens.row] # Temporal!Null
      BY <1>1, <2>1, <3>1, NullCells
    <3>3. KeptCell(column[tokens.row])
      BY <1>3, <2>1, <3>2
    <3> QED
      BY <2>1, <3>3 DEF KeptCell, OutOfRange, Temporal!OnlyUnrepresentableIsRejected
  <2> QED
    BY <1>6, <2>2 DEF Temporal!InstantsAreKept, Temporal!ConversionIsNearest,
       Temporal!OrderIsKept, Temporal!OffsetCellsKeepTheInstant
<1> QED
  BY <1>4, <1>5, <1>6

\* Divided twice.
LEMMA QuotientOfQuotient ==
    ASSUME NEW x \in Int, NEW p \in Nat \ {0}, NEW b \in Nat \ {0}
    PROVE  (x \div p) \div b = x \div (p * b)
<1>1. PICK y \in Int, r \in 0 .. p - 1 : y = x \div p /\ r = x % p /\ x = y * p + r
  BY Quotient
<1>2. PICK z \in Int, d \in 0 .. b - 1 : z = y \div b /\ d = y % b /\ y = z * b + d
  BY Quotient
<1>3. x = z * (p * b) + (d * p + r)
  <2>1. (z * b + d) * p + r = z * (p * b) + (d * p + r)
    BY ONLY z \in Int, b \in Int, d \in Int, p \in Int, r \in Int
  <2> QED
    BY <1>1, <1>2, <2>1
<1>4. d * p + r \in 0 .. p * b - 1
  <2>1. PICK e \in Nat : d = b - 1 - e
    BY <1>2
  <2>2. d * p \in Nat /\ p * b \in Nat /\ e * p \in Nat
    OBVIOUS
  <2>3. d * p = p * b - p - e * p
    <3>1. (b - 1 - e) * p = p * b - p - e * p
      BY ONLY b \in Int, e \in Int, p \in Int
    <3> QED
      BY <2>1, <3>1
  <2> QED
    BY <2>2, <2>3
<1>5. p * b \in Nat \ {0}
  OBVIOUS
<1>6. x \div (p * b) = z
  BY <1>3, <1>4, <1>5, QuotientIs
<1> QED
  BY <1>1, <1>2, <1>6

-----------------------------------------------------------------------------
(* Numbers read from their bytes *)

\* The digits of s from a position to the last, as a reader sums them.
SumOf(s, from, last, b) ==
    LET sum[i \in from .. last + 1] == IF i > last THEN 0 ELSE s[i] + b * sum[i + 1]
    IN  sum[from]
Sums(f, s, from, last, b) ==
    \A i \in from .. last + 1 : f[i] = IF i > last THEN 0 ELSE s[i] + b * f[i + 1]

Naturals(s, from, last) == \A i \in from .. last : s[i] \in Nat

LEMMA SumsExist ==
    ASSUME NEW b \in Nat, NEW from \in Nat, NEW last \in Nat, from <= last + 1,
           NEW s, Naturals(s, from, last)
    PROVE  \E f \in [from .. last + 1 -> Nat] : Sums(f, s, from, last, b)
<1> DEFINE P == {k \in 0 .. last + 1 - from :
                    \E f \in [last + 1 - k .. last + 1 -> Nat] : Sums(f, s, last + 1 - k, last, b)}
<1>1. 0 \in P
  <2> DEFINE f == [i \in last + 1 - 0 .. last + 1 |-> 0]
  <2>1. f \in [last + 1 - 0 .. last + 1 -> Nat] /\ Sums(f, s, last + 1 - 0, last, b)
    BY DEF Sums
  <2> HIDE DEF f
  <2> QED
    BY <2>1
<1>2. ASSUME NEW k \in 0 .. last + 1 - from - 1, k \in P PROVE k + 1 \in P
  <2>1. PICK m \in Nat : m = last + 1 - k
    OBVIOUS
  <2>2. PICK f \in [m .. last + 1 -> Nat] : Sums(f, s, m, last, b)
    BY <1>2, <2>1
  <2>3. PICK j \in from .. last : j = m - 1 /\ j = last + 1 - (k + 1) /\ j + 1 = m
    BY <2>1
  <2>4. PICK t \in Nat : t = s[j] + b * f[m]
    <3>1. s[j] \in Nat /\ f[m] \in Nat
      BY <2>1, <2>3 DEF Naturals
    <3> QED
      BY <3>1
  <2> DEFINE h == [i \in j .. last + 1 |-> IF i = j THEN t ELSE f[i]]
  <2>5. h \in [j .. last + 1 -> Nat]
    BY <2>1, <2>3
  <2>6. ASSUME NEW i \in j .. last + 1
        PROVE  h[i] = IF i > last THEN 0 ELSE s[i] + b * h[i + 1]
    <3>1. CASE i = j
      <4>1. h[i] = t /\ h[i + 1] = f[m] /\ ~ (i > last)
        BY <2>1, <2>3, <3>1
      <4> HIDE DEF h
      <4> QED
        BY <2>4, <3>1, <4>1
    <3>2. CASE i # j
      <4>1. i \in m .. last + 1 /\ h[i] = f[i] /\ (~ (i > last) => h[i + 1] = f[i + 1])
        BY <2>1, <2>3, <3>2
      <4>2. f[i] = IF i > last THEN 0 ELSE s[i] + b * f[i + 1]
        BY <2>2, <4>1 DEF Sums
      <4> HIDE DEF h
      <4> QED
        BY <4>1, <4>2
    <3> QED
      BY <3>1, <3>2
  <2> HIDE DEF h
  <2>7. Sums(h, s, j, last, b)
    BY <2>6 DEF Sums
  <2>8. k + 1 \in 0 .. last + 1 - from
    OBVIOUS
  <2> QED
    BY <2>3, <2>5, <2>7, <2>8
<1>3. 0 .. last + 1 - from \subseteq P
  <2>1. PICK n \in Nat : n = last + 1 - from
    OBVIOUS
  <2> HIDE DEF P
  <2> QED
    BY <1>1, <1>2, <2>1, InductionTo
<1>4. PICK n \in 0 .. last + 1 - from : n = last + 1 - from /\ last + 1 - n = from
  OBVIOUS
<1> QED
  BY <1>3, <1>4

LEMMA SumIsASum ==
    ASSUME NEW b \in Nat, NEW from \in Nat, NEW last \in Nat, from <= last + 1,
           NEW s, Naturals(s, from, last)
    PROVE  \E f : Sums(f, s, from, last, b) /\ SumOf(s, from, last, b) = f[from]
<1> DEFINE Adds(f) == f = [i \in from .. last + 1 |-> IF i > last THEN 0 ELSE s[i] + b * f[i + 1]]
           sum == CHOOSE f : Adds(f)
<1>1. PICK g \in [from .. last + 1 -> Nat] : Sums(g, s, from, last, b)
  BY SumsExist
<1>2. Adds(g)
  <2>1. g = [i \in from .. last + 1 |-> g[i]]
    OBVIOUS
  <2> QED
    BY <1>1, <2>1 DEF Sums
<1>3. Adds(sum)
  <2> HIDE DEF Adds
  <2> QED
    BY <1>2, Zenon
<1>4. Sums(sum, s, from, last, b)
  <2> HIDE DEF sum
  <2> QED
    BY <1>3 DEF Sums
<1>5. SumOf(s, from, last, b) = sum[from]
  BY Zenon DEF SumOf
<1> HIDE DEF sum
<1> QED
  BY <1>4, <1>5

\* A base with the laws of its powers up to w.
Radix(b, w) == b \in Nat \ {0} /\ b ^ 0 = 1 /\ \A k \in 0 .. w - 1 : b ^ (k + 1) = b * b ^ k

\* The w digits of x stand in s from a position on.
Holds(s, at, w, x, b) ==
    x \in 0 .. b ^ w - 1 /\ \A i \in 1 .. w : s[at + i - 1] = (x \div b ^ (i - 1)) % b

\* Where the digits of x stand in w places, the sum begins with x.
LEMMA SumOfDigits ==
    ASSUME NEW b, NEW w \in Nat, Radix(b, w), NEW x,
           NEW from \in Nat, NEW last \in Nat, NEW at \in Nat, from <= at, at + w <= last + 1,
           NEW s, Holds(s, at, w, x, b),
           NEW f, Sums(f, s, from, last, b), f[at + w] \in Nat
    PROVE  f[at] = x + b ^ w * f[at + w]
<1>0. /\ b \in Nat \ {0} /\ b ^ 0 = 1 /\ \A k \in 0 .. w - 1 : b ^ (k + 1) = b * b ^ k
      /\ x \in 0 .. b ^ w - 1 /\ \A i \in 1 .. w : s[at + i - 1] = (x \div b ^ (i - 1)) % b
  BY DEF Radix, Holds
<1>1. \A k \in 0 .. w : b ^ k \in Nat \ {0}
  BY <1>0, PowerLaws
<1>2. PICK e \in Nat : e = f[at + w]
  BY <1>0
<1> DEFINE P == {k \in 0 .. w : f[at + (w - k)] = x \div b ^ (w - k) + b ^ k * e}
<1>3. 0 \in P
  <2>1. PICK d \in Nat \ {0} : d = b ^ w
    BY <1>0, <1>1
  <2>2. x \in 0 .. d - 1 /\ x = 0 * d + x
    BY <1>0, <2>1
  <2>3. x \div d = 0
    <3>1. PICK z \in Int : z = 0
      BY <1>0
    <3>2. x = z * d + x /\ x \in 0 .. d - 1
      BY <1>0, <2>2, <3>1
    <3>3. (z * d + x) \div d = z
      BY <1>0, <2>2, QuotientIs
    <3> QED
      BY <1>0, <3>1, <3>2, <3>3
  <2>4. w - 0 = w /\ b ^ 0 * e = e
    BY <1>0
  <2> QED
    BY <1>0, <1>2, <2>1, <2>3, <2>4
<1>4. ASSUME NEW k \in 0 .. w - 1, k \in P PROVE k + 1 \in P
  <2>1. PICK i \in 1 .. w : i = w - k
    BY <1>0
  <2>2. PICK p \in Nat \ {0}, q \in Nat \ {0} : p = b ^ (i - 1) /\ q = b ^ k
    BY <1>0, <1>1
  <2>3. b ^ i = p * b
    <3>1. PICK j \in 0 .. w - 1 : j = i - 1
      BY <1>0
    <3>2. b ^ (j + 1) = b * b ^ j /\ j + 1 = i
      BY <1>0, <3>1
    <3>3. b * p = p * b
      BY <1>0
    <3> QED
      BY <1>0, <2>2, <3>1, <3>2, <3>3
  <2>4. b ^ (k + 1) = b * q
    BY <1>0, <2>2
  <2>5. PICK y \in Int, d \in 0 .. b - 1, z \in Int :
           y = x \div p /\ d = y % b /\ z = y \div b /\ y = z * b + d
    <3>0. x \in Int
      <4>1. PICK m \in Nat \ {0} : m = b ^ w
        BY <1>0, <1>1
      <4>2. x \in 0 .. m - 1
        BY <1>0, <4>1
      <4> QED
        BY <1>0, <4>2
    <3>1. PICK y \in Int : y = x \div p
      BY <1>0, <3>0, Quotient
    <3>2. PICK z \in Int, d \in 0 .. b - 1 : z = y \div b /\ d = y % b /\ y = z * b + d
      BY <1>0, Quotient
    <3> QED
      BY <1>0, <3>1, <3>2
  <2>6. x \div b ^ i = z
    <3>1. x \div (p * b) = z
      BY <1>0, <2>5, QuotientOfQuotient
    <3> QED
      BY <1>0, <2>3, <3>1
  <2>7. f[at + i] = z + q * e
    BY <1>0, <1>4, <2>1, <2>2, <2>6
  <2>8. PICK j \in from .. last : j = at + i - 1 /\ j + 1 = at + i /\ ~ (j > last)
    BY <1>0
  <2>9. f[j] = s[j] + b * f[j + 1]
    BY <1>0, <2>8 DEF Sums
  <2>10. s[j] = d
    BY <1>0, <2>2, <2>5, <2>8
  <2>11. d + b * (z + q * e) = y + (b * q) * e
    <3>1. PICK c \in Int : c = b
      BY <1>0
    <3>2. d + c * (z + q * e) = (z * c + d) + (c * q) * e
      BY ONLY d \in Int, c \in Int, z \in Int, q \in Int, e \in Int
    <3> QED
      BY <2>5, <3>1, <3>2
  <2>12. f[j] = y + (b * q) * e
    BY <1>0, <2>7, <2>8, <2>9, <2>10, <2>11
  <2>13. j = at + (w - (k + 1)) /\ w - (k + 1) = i - 1 /\ k + 1 \in 0 .. w
    BY <1>0, <2>1, <2>8
  <2> QED
    BY <1>0, <2>2, <2>4, <2>5, <2>12, <2>13
<1>5. 0 .. w \subseteq P
  <2> HIDE DEF P
  <2> QED
    BY <1>0, <1>3, <1>4, InductionTo
<1>6. f[at + (w - w)] = x \div b ^ (w - w) + b ^ w * e
  <2>1. w \in 0 .. w
    BY <1>0
  <2>2. w \in P
    BY <1>0, <1>5, <2>1
  <2> QED
    BY <1>0, <2>2
<1>7. at + (w - w) = at /\ w - w = 0
  BY <1>0
<1>8. x \div 1 = x
  <2>1. x = x * 1 + 0 /\ x \in Int
    BY <1>0, <1>1
  <2> QED
    BY <1>0, <2>1, QuotientIs
<1> QED
  BY <1>0, <1>2, <1>6, <1>7, <1>8

-----------------------------------------------------------------------------
(* What the encoders have written *)

TemporalFills == [r \in DOMAIN column |-> Temporal!FillCell(column[r], lengths.cells[r])]
TemporalAppends == [r \in DOMAIN column |-> Temporal!AppendCell(column[r], lengths.cells[r])]
NumericFills == [r \in DOMAIN column |-> Numeric!FillCell(column[r], lengths.cells[r])]
NumericAppends == [r \in DOMAIN column |-> Numeric!AppendCell(column[r], lengths.cells[r])]
TextFills == [r \in DOMAIN column |-> Text!FillCell(column[r], lengths.cells[r])]
TextAppends == [r \in DOMAIN column |-> Text!AppendCell(column[r], lengths.cells[r])]

\* A column is filled and appended once it is measured, by loops over its rows.
Wrote(fills, appends) ==
    /\ filled # Pending => lengths.code = "ok" /\ Ends(fills, Len(column), filled)
    /\ appended # Pending => lengths.code = "ok" /\ Ends(appends, Len(column), appended)

WInv ==
    /\ family = "temporal" => Wrote(TemporalFills, TemporalAppends)
    /\ family = "numeric" => Wrote(NumericFills, NumericAppends)
    /\ family = "text" => Wrote(TextFills, TextAppends)

LEMMA InitWritten ==
    ASSUME Init PROVE WInv
BY DEF Init, WInv, Wrote, Pending, Temporal!Init, Numeric!Init, Text!Init,
   Temporal!Pending, Numeric!Pending, Text!Pending

LEMMA TemporalWrites ==
    ASSUME TemporalInv, Wrote(TemporalFills, TemporalAppends), Temporal!Next
    PROVE  Wrote(TemporalFills, TemporalAppends)'
<1> USE DEF Temporal!Pending, Pending
<1>1. CASE Temporal!ConvertTokens \/ Temporal!MeasureColumn
  <2>1. lengths.code # "ok"
    BY <1>1 DEF Temporal!ConvertTokens, Temporal!MeasureColumn, TemporalInv
  <2>2. filled = Pending /\ appended = Pending
    BY <2>1 DEF Wrote
  <2>3. UNCHANGED <<filled, appended>>
    BY <1>1 DEF Temporal!ConvertTokens, Temporal!MeasureColumn
  <2> QED
    BY <2>2, <2>3 DEF Wrote
<1>2. ASSUME UNCHANGED <<field, policy, rounding, column, lengths>>
      PROVE  TemporalFills' = TemporalFills /\ TemporalAppends' = TemporalAppends
  <2>1. TemporalFills' = TemporalFills
    BY <1>2 DEF TemporalFills, Temporal!FillCell, Temporal!FillDate, Temporal!FillTime,
       Temporal!FillTimestamp, Temporal!FillDateTimeOffset, Temporal!WriteNull, Temporal!WriteCell
  <2>2. TemporalAppends' = TemporalAppends
    BY <1>2 DEF TemporalAppends, Temporal!AppendCell, Temporal!AppendDate, Temporal!AppendTime,
       Temporal!AppendTimestamp, Temporal!AppendDateTimeOffset, Temporal!AppendValue
  <2> QED
    BY <2>1, <2>2
<1>3. DOMAIN TemporalFills = 1..Len(column) /\ DOMAIN TemporalAppends = 1..Len(column)
      /\ Len(column) \in Nat
  BY DEF TemporalInv, TemporalFills, TemporalAppends
<1>4. CASE Temporal!FillColumn
  <2>1. /\ filled' = StopAtFirstFailure(TemporalFills) /\ lengths.code = "ok"
        /\ UNCHANGED <<field, policy, rounding, column, lengths, appended>>
    BY <1>4 DEF Temporal!FillColumn, TemporalFills, Temporal!StopAtFirstFailure,
       StopAtFirstFailure, Temporal!IsOk, IsOk
  <2>2. Ends(TemporalFills, Len(column), filled')
    BY <2>1, <1>3, LoopEnds
  <2> QED
    BY <1>2, <2>1, <2>2 DEF Wrote
<1>5. CASE Temporal!AppendColumn
  <2>1. /\ appended' = StopAtFirstFailure(TemporalAppends) /\ lengths.code = "ok"
        /\ UNCHANGED <<field, policy, rounding, column, lengths, filled>>
    BY <1>5 DEF Temporal!AppendColumn, TemporalAppends, Temporal!StopAtFirstFailure,
       StopAtFirstFailure, Temporal!IsOk, IsOk
  <2>2. Ends(TemporalAppends, Len(column), appended')
    BY <2>1, <1>3, LoopEnds
  <2> QED
    BY <1>2, <2>1, <2>2 DEF Wrote
<1> QED
  BY <1>1, <1>4, <1>5 DEF Temporal!Next

LEMMA NumericWritesKept ==
    ASSUME UNCHANGED <<field, target, encoding, column, lengths>>
    PROVE  NumericFills' = NumericFills /\ NumericAppends' = NumericAppends
<1> USE DEF Numeric!NullLen, Numeric!CheckedPrimitive
<1>1. NumericFills' = NumericFills
  BY DEF NumericFills, Numeric!FillCell, Numeric!FillNull, Numeric!FillPrimitive,
     Numeric!FillDecimal, Numeric!FillUInt64Decimal
<1>2. NumericAppends' = NumericAppends
  BY DEF NumericAppends, Numeric!AppendCell, Numeric!AppendNull, Numeric!AppendPrimitive,
     Numeric!AppendDecimal, Numeric!AppendUInt64Decimal
<1> QED
  BY <1>1, <1>2

LEMMA NumericWrites ==
    ASSUME NumericInv, Wrote(NumericFills, NumericAppends), Numeric!Next
    PROVE  Wrote(NumericFills, NumericAppends)'
<1> USE DEF Numeric!Pending, Pending
<1>1. CASE \/ Numeric!Plan \/ Numeric!ConvertTokens \/ Numeric!SelectEncoding
           \/ Numeric!MeasureColumn
  <2>1. lengths.code # "ok"
    BY <1>1 DEF Numeric!Plan, Numeric!ConvertTokens, Numeric!SelectEncoding,
       Numeric!MeasureColumn, NumericInv
  <2>2. filled = Pending /\ appended = Pending
    BY <2>1 DEF Wrote
  <2>3. UNCHANGED <<filled, appended>>
    BY <1>1 DEF Numeric!Plan, Numeric!ConvertTokens, Numeric!SelectEncoding,
       Numeric!MeasureColumn
  <2> QED
    BY <2>2, <2>3 DEF Wrote
<1>3. ASSUME lengths.code = "ok"
      PROVE  /\ DOMAIN NumericFills = 1..Len(column) /\ DOMAIN NumericAppends = 1..Len(column)
             /\ Len(column) \in Nat
  <2>1. tokens # Pending
    BY <1>3 DEF NumericInv
  <2>2. DOMAIN column = 1..Len(column) /\ Len(column) \in Nat
    BY <2>1, NumericSlots DEF NumericInv
  <2> QED
    BY <2>2 DEF NumericFills, NumericAppends
<1>4. CASE Numeric!FillColumn
  <2>1. /\ filled' = StopAtFirstFailure(NumericFills) /\ lengths.code = "ok"
        /\ UNCHANGED <<field, target, encoding, column, lengths, appended>>
    BY <1>4 DEF Numeric!FillColumn, NumericFills, Numeric!StopAtFirstFailure,
       StopAtFirstFailure, Numeric!IsOk, IsOk
  <2>2. Ends(NumericFills, Len(column), filled')
    BY <2>1, <1>3, LoopEnds
  <2> QED
    BY NumericWritesKept, <2>1, <2>2 DEF Wrote
<1>5. CASE Numeric!AppendColumn
  <2>1. /\ appended' = StopAtFirstFailure(NumericAppends) /\ filled # Pending
        /\ UNCHANGED <<field, target, encoding, column, lengths, filled>>
    BY <1>5 DEF Numeric!AppendColumn, NumericAppends, Numeric!StopAtFirstFailure,
       StopAtFirstFailure, Numeric!IsOk, IsOk
  <2>2. lengths.code = "ok"
    BY <2>1 DEF Wrote
  <2>3. Ends(NumericAppends, Len(column), appended')
    BY <2>1, <2>2, <1>3, LoopEnds
  <2> QED
    BY NumericWritesKept, <2>1, <2>2, <2>3 DEF Wrote
<1> QED
  BY <1>1, <1>4, <1>5 DEF Numeric!Next

LEMMA TextWritesKept ==
    ASSUME UNCHANGED <<field, target, column, lengths>>
    PROVE  TextFills' = TextFills /\ TextAppends' = TextAppends
<1> USE DEF Text!NullCellLen, Text!NullBytes
<1>1. TextFills' = TextFills
  BY DEF TextFills, Text!FillCell, Text!FillNull, Text!FillNVarChar, Text!FillVarBinary,
     Text!FillFixedSizeBinary
<1>2. TextAppends' = TextAppends
  BY DEF TextAppends, Text!AppendCell, Text!AppendNull, Text!AppendNVarChar,
     Text!AppendVarBinary, Text!AppendFixedSizeBinary
<1> QED
  BY <1>1, <1>2

LEMMA TextWrites ==
    ASSUME TextInv, Wrote(TextFills, TextAppends), Text!Next
    PROVE  Wrote(TextFills, TextAppends)'
<1> USE DEF Text!Pending, Pending
<1>1. CASE Text!Plan \/ Text!ConvertTokens \/ Text!MeasureColumn
  <2>1. lengths.code # "ok"
    BY <1>1 DEF Text!Plan, Text!ConvertTokens, Text!MeasureColumn, TextInv
  <2>2. filled = Pending /\ appended = Pending
    BY <2>1 DEF Wrote
  <2>3. UNCHANGED <<filled, appended>>
    BY <1>1 DEF Text!Plan, Text!ConvertTokens, Text!MeasureColumn
  <2> QED
    BY <2>2, <2>3 DEF Wrote
<1>2. CASE Text!BindColumn
  <2>1. UNCHANGED <<field, target, column, lengths, filled, appended>>
    BY <1>2 DEF Text!BindColumn
  <2> QED
    BY <2>1, TextWritesKept DEF Wrote
<1>3. ASSUME lengths.code = "ok"
      PROVE  /\ DOMAIN TextFills = 1..Len(column) /\ DOMAIN TextAppends = 1..Len(column)
             /\ Len(column) \in Nat
  <2>1. tokens # Pending
    BY <1>3 DEF TextInv
  <2>2. DOMAIN column = 1..Len(column) /\ Len(column) \in Nat
    BY <2>1, TextCells
  <2> QED
    BY <2>2 DEF TextFills, TextAppends
<1>4. CASE Text!FillColumn
  <2>1. /\ filled' = StopAtFirstFailure(TextFills) /\ lengths.code = "ok"
        /\ UNCHANGED <<field, target, column, lengths, appended>>
    BY <1>4 DEF Text!FillColumn, TextFills, Text!StopAtFirstFailure,
       StopAtFirstFailure, Text!IsOk, IsOk
  <2>2. Ends(TextFills, Len(column), filled')
    BY <2>1, <1>3, LoopEnds
  <2> QED
    BY TextWritesKept, <2>1, <2>2 DEF Wrote
<1>5. CASE Text!AppendColumn
  <2>1. /\ appended' = StopAtFirstFailure(TextAppends) /\ filled # Pending
        /\ UNCHANGED <<field, target, column, lengths, filled>>
    BY <1>5 DEF Text!AppendColumn, TextAppends, Text!StopAtFirstFailure,
       StopAtFirstFailure, Text!IsOk, IsOk
  <2>2. lengths.code = "ok"
    BY <2>1 DEF Wrote
  <2>3. Ends(TextAppends, Len(column), appended')
    BY <2>1, <2>2, <1>3, LoopEnds
  <2> QED
    BY TextWritesKept, <2>1, <2>2, <2>3 DEF Wrote
<1> QED
  BY <1>1, <1>2, <1>4, <1>5 DEF Text!Next

LEMMA NextWritten ==
    ASSUME IInv, WInv, [Next]_vars PROVE WInv'
<1>1. CASE UNCHANGED vars
  <2>1. UNCHANGED <<family, field, policy, rounding, column, target, encoding, lengths, filled, appended>>
    BY <1>1 DEF vars
  <2>2. TemporalFills' = TemporalFills /\ TemporalAppends' = TemporalAppends
    <3>1. TemporalFills' = TemporalFills
      BY <2>1 DEF TemporalFills, Temporal!FillCell, Temporal!FillDate, Temporal!FillTime,
         Temporal!FillTimestamp, Temporal!FillDateTimeOffset, Temporal!WriteNull, Temporal!WriteCell
    <3>2. TemporalAppends' = TemporalAppends
      BY <2>1 DEF TemporalAppends, Temporal!AppendCell, Temporal!AppendDate, Temporal!AppendTime,
         Temporal!AppendTimestamp, Temporal!AppendDateTimeOffset, Temporal!AppendValue
    <3> QED
      BY <3>1, <3>2
  <2>3. NumericFills' = NumericFills /\ NumericAppends' = NumericAppends
    BY <2>1, NumericWritesKept
  <2>4. TextFills' = TextFills /\ TextAppends' = TextAppends
    BY <2>1, TextWritesKept
  <2> QED
    BY <2>1, <2>2, <2>3, <2>4 DEF WInv, Wrote, Pending
<1>2. CASE family = "temporal" /\ Temporal!Next /\ UNCHANGED family
  BY <1>2, TemporalWrites DEF IInv, WInv
<1>3. CASE family = "numeric" /\ Numeric!Next /\ UNCHANGED family
  BY <1>3, NumericWrites DEF IInv, WInv
<1>4. CASE family = "text" /\ Text!Next /\ UNCHANGED family
  BY <1>4, TextWrites DEF IInv, WInv
<1> QED
  BY <1>1, <1>2, <1>3, <1>4 DEF Next

LEMMA WrittenInvariant == Spec => []WInv
<1>1. Init => WInv
  BY InitWritten
<1>2. IInv /\ WInv /\ [Next]_vars => WInv'
  BY NextWritten
<1> QED
  BY <1>1, <1>2, Invariant, PTL DEF Spec

-----------------------------------------------------------------------------
(* Cells of dates and times, field by field *)

\* The widths of at most four fields, added up.
WidthOf(w, n) ==
    LET bytes[i \in 0 .. n] == IF i = 0 THEN 0 ELSE bytes[i - 1] + w[i] IN bytes[n]

LEMMA WidthsAdd ==
    ASSUME NEW n \in 1 .. 4, NEW w
    PROVE  \E f : /\ f[0] = 0 /\ WidthOf(w, n) = f[n]
                  /\ \A i \in 1 .. n : f[i] = f[i - 1] + w[i]
<1> DEFINE Adds(f) == f = [i \in 0 .. n |-> IF i = 0 THEN 0 ELSE f[i - 1] + w[i]]
           bytes == CHOOSE f : Adds(f)
           g == [i \in 0 .. n |->
                    IF i = 0 THEN 0 ELSE IF i = 1 THEN 0 + w[1]
                    ELSE IF i = 2 THEN 0 + w[1] + w[2] ELSE IF i = 3 THEN 0 + w[1] + w[2] + w[3]
                    ELSE 0 + w[1] + w[2] + w[3] + w[4]]
<1>1. Adds(g)
  <2>1. ASSUME NEW i \in 0 .. n PROVE g[i] = IF i = 0 THEN 0 ELSE g[i - 1] + w[i]
    <3>1. CASE i = 0
      BY <3>1
    <3>2. CASE i = 1
      BY <3>2
    <3>3. CASE i = 2
      <4>1. g[2] = 0 + w[1] + w[2] /\ g[1] = 0 + w[1]
        BY <3>3
      <4> QED
        BY <3>3, <4>1
    <3>4. CASE i = 3
      <4>1. g[3] = 0 + w[1] + w[2] + w[3] /\ g[2] = 0 + w[1] + w[2]
        BY <3>4
      <4> QED
        BY <3>4, <4>1
    <3>5. CASE i = 4
      <4>1. g[4] = 0 + w[1] + w[2] + w[3] + w[4] /\ g[3] = 0 + w[1] + w[2] + w[3]
        BY <3>5
      <4> QED
        BY <3>5, <4>1
    <3> QED
      BY <3>1, <3>2, <3>3, <3>4, <3>5
  <2>2. g = [i \in 0 .. n |-> g[i]]
    OBVIOUS
  <2> HIDE DEF g
  <2> QED
    BY <2>1, <2>2
<1>2. Adds(bytes)
  <2> HIDE DEF Adds, g
  <2> QED
    BY <1>1, Zenon
<1>3. WidthOf(w, n) = bytes[n]
  BY Zenon DEF WidthOf
<1>4. \A i \in 0 .. n : bytes[i] = IF i = 0 THEN 0 ELSE bytes[i - 1] + w[i]
  <2> HIDE DEF bytes
  <2> QED
    BY <1>2
<1>5. bytes[0] = 0 /\ \A i \in 1 .. n : bytes[i] = bytes[i - 1] + w[i]
  <2> HIDE DEF bytes
  <2> QED
    BY <1>4
<1> HIDE DEF bytes
<1> QED
  BY <1>3, <1>5

\* What the days, times and offsets of a converted cell can be.
DateTimeTime(c) ==
    /\ c.scale \in 0 .. TickScale
    /\ c.time \in 0 .. SecondsPerDay * Base ^ c.scale - 1
CalendarCell(c) ==
    \/ c.kind = "date" /\ c.day \in 0 .. MaxDays
    \/ c.kind = "time" /\ DateTimeTime(c)
    \/ /\ c.kind = "datetime" /\ c.day \in DateTimeMinDays .. DateTimeMaxDays
       /\ c.time \in 0 .. Temporal!FragmentsPerDay - 1
    \/ c.kind = "datetime2" /\ c.day \in 0 .. MaxDays /\ DateTimeTime(c)
    \/ /\ c.kind = "datetimeoffset" /\ c.day \in 0 .. MaxDays /\ DateTimeTime(c)
       /\ c.offset \in -MaxOffsetMinutes .. MaxOffsetMinutes

LEMMA DateTime2Range ==
    ASSUME NEW x \in Int, NEW scale \in 0 .. TickScale,
           NEW d, d = Temporal!DateTime2FromTicks(x, scale), d.code = "ok"
    PROVE  /\ d.value.kind = "datetime2" /\ d.value.scale = scale
           /\ d.value.day \in 0 .. MaxDays /\ DateTimeTime(d.value)
<1>1. PICK step \in Positive, b \in Positive, s \in Positive, t \in Positive :
         /\ step = Temporal!TicksPerIncrement(scale) /\ b = Base ^ scale /\ s = SecondsPerDay
         /\ t = Temporal!TicksPerSecond /\ t = b * step
  BY Clock
<1>2. PICK k \in Int : k = Temporal!RoundHalfUp(x, step)
  BY <1>1, Rounded DEF Positive
<1>3. PICK day \in Positive : day = s * b
  BY DEF Positive
<1>4. Temporal!TicksPerDay = day * step
  <2>1. s * (b * step) = (s * b) * step
    BY ONLY s \in Positive, b \in Positive, step \in Positive DEF Positive
  <2> QED
    BY <1>1, <1>3, <2>1, Clock
<1>5. PICK r \in 0 .. day - 1 : r = ((k * step) % Temporal!TicksPerDay) \div step
  <2>1. ((k * step) % (day * step)) \div step = k % day
    BY ONLY k \in Int, day \in Positive, step \in Positive, QuotientOfMultiples DEF Positive
  <2> QED
    BY <1>4, <2>1, Quotient DEF Positive
<1>6. PICK q : q = (k * step) \div Temporal!TicksPerDay + EpochDays
  OBVIOUS
<1>7. d = IF x < Temporal!DateTime2MinTicks \/ q \notin 0 .. MaxDays
          THEN Temporal!Fail("TimestampOutOfRange")
          ELSE Temporal!Ok(Temporal!DateTime2(q, r, scale))
  BY <1>1, <1>2, <1>5, <1>6 DEF Temporal!DateTime2FromTicks
<1>8. d = Temporal!Ok(Temporal!DateTime2(q, r, scale)) /\ q \in 0 .. MaxDays
  BY <1>7 DEF Temporal!Fail
<1>9. r \in 0 .. SecondsPerDay * Base ^ scale - 1
  BY <1>1, <1>3
<1> QED
  BY <1>8, <1>9 DEF Temporal!Ok, Temporal!DateTime2, DateTimeTime

LEMMA DateTimeRange ==
    ASSUME NEW x \in Int, NEW d, d = Temporal!DateTimeFromTicks(x, rounding), d.code = "ok"
    PROVE  CalendarCell(d.value)
<1>1. PICK f \in Positive, s \in Positive : f = FragmentsPerSecond /\ s = SecondsPerDay
  BY Clock
<1>2. PICK day \in Positive : day = Temporal!FragmentsPerDay
  BY <1>1 DEF Positive, Temporal!FragmentsPerDay
<1>3. PICK k \in Int : k = Temporal!DateTimeFragments(x, rounding)
  BY FragmentsKept DEF FragmentsOf
<1>4. PICK r \in 0 .. day - 1 : r = k % day
  BY Quotient DEF Positive
<1>5. PICK q : q = k \div day + DateTimeEpochDays
  OBVIOUS
<1>6. d = IF x < Temporal!DateTimeMinTicks \/ q \notin DateTimeMinDays .. DateTimeMaxDays
          THEN Temporal!Fail("TimestampOutOfRange")
          ELSE Temporal!Ok(Temporal!DateTime(q, r))
  BY <1>2, <1>3, <1>4, <1>5 DEF Temporal!DateTimeFromTicks
<1>7. /\ d = Temporal!Ok(Temporal!DateTime(q, r)) /\ q \in DateTimeMinDays .. DateTimeMaxDays
      /\ r \in 0 .. Temporal!FragmentsPerDay - 1
  BY <1>2, <1>6 DEF Temporal!Fail
<1> QED
  BY <1>7 DEF Temporal!Ok, Temporal!DateTime, CalendarCell

LEMMA TimeRange ==
    ASSUME TemporalTyped, NEW n \in Int,
           NEW t, t = Temporal!TimeFromArrow(field.unit, n, policy), t.code = "ok"
    PROVE  CalendarCell(t.value)
<1>1. CASE field.unit # "ns"
  <2>1. PICK scale \in 0 .. TickScale : scale = Temporal!UnitScale(field.unit)
    BY <1>1, WholeTicks
  <2>2. t = IF n \in 0 .. SecondsPerDay * Base ^ scale - 1
            THEN Temporal!Ok(Temporal!Time(n, scale)) ELSE Temporal!Fail("TimestampOutOfRange")
    BY <1>1, <2>1 DEF Temporal!TimeFromArrow, Temporal!TimeFromInt
  <2>3. t = Temporal!Ok(Temporal!Time(n, scale)) /\ n \in 0 .. SecondsPerDay * Base ^ scale - 1
    BY <2>2 DEF Temporal!Fail
  <2> QED
    BY <2>3 DEF Temporal!Ok, Temporal!Time, CalendarCell, DateTimeTime
<1>2. CASE field.unit = "ns"
  <2>1. PICK day \in Positive, p \in Positive :
           day = Temporal!TicksPerDay /\ p = Temporal!NanosPerTick
    BY Clock
  <2>2. PICK q \in Int, r \in 0 .. p - 1 : q = n \div p /\ r = n % p
    BY Quotient DEF Positive
  <2>3. PICK ticks : ticks = Temporal!NanosToTicks(n, policy)
    OBVIOUS
  <2>4. t = IF n \notin 0 .. SecondsPerDay * Base ^ NanoScale - 1
            THEN Temporal!Fail("TimestampOutOfRange")
            ELSE IF ticks.code # "ok" THEN ticks
            ELSE IF ticks.value >= day THEN Temporal!Fail("TimestampOutOfRange")
            ELSE Temporal!Ok(Temporal!Time(ticks.value, TickScale))
    BY <1>2, <2>1, <2>3 DEF Temporal!TimeFromArrow, Temporal!TimeFromNanos, Temporal!IsOk
  <2>5. /\ n \in 0 .. SecondsPerDay * Base ^ NanoScale - 1 /\ ~ (ticks.value >= day)
        /\ ticks.code = "ok" /\ t = Temporal!Ok(Temporal!Time(ticks.value, TickScale))
    BY <2>4 DEF Temporal!Fail
  <2>6. 0 <= q
    <3>1. PICK nanos \in Int : nanos = SecondsPerDay * Base ^ NanoScale
      BY Clock DEF Positive
    <3>2. 0 * p <= n
      BY <2>5, <3>1 DEF Positive
    <3> QED
      BY <2>2, <3>2, QuotientBound DEF Positive
  <2>7. ticks.value \in {q, q + 1}
    BY <2>1, <2>2, <2>3, <2>5 DEF Temporal!NanosToTicks, Temporal!Ok, Temporal!Fail
  <2>8. ticks.value \in 0 .. day - 1
    <3>1. PICK u \in Int : u = ticks.value /\ u \in {q, q + 1}
      BY <2>7
    <3> QED
      BY <2>5, <2>6, <3>1 DEF Positive
  <2>9. day = SecondsPerDay * Base ^ TickScale /\ TickScale \in 0 .. TickScale
    BY <2>1, Clock DEF Temporal!TicksPerDay, Temporal!TicksPerSecond
  <2> QED
    BY <2>5, <2>8, <2>9 DEF Temporal!Ok, Temporal!Time, CalendarCell, DateTimeTime
<1> QED
  BY <1>1, <1>2

LEMMA Date64Range ==
    ASSUME NEW n \in Int, NEW d, d = Temporal!DateTime2FromDate64(n), d.code = "ok"
    PROVE  CalendarCell(d.value)
<1>1. MilliScale \in 0 .. TickScale
  BY Clock
<1>2. PICK b \in Positive, s \in Positive : b = Base ^ MilliScale /\ s = SecondsPerDay
  BY <1>1, Clock
<1>3. PICK day \in Positive : day = s * b
  BY DEF Positive
<1>4. PICK r \in 0 .. day - 1 : r = n % day
  BY Quotient DEF Positive
<1>5. PICK q : q = n \div day + EpochDays
  OBVIOUS
<1>6. d = IF q \in 0 .. MaxDays THEN Temporal!Ok(Temporal!DateTime2(q, r, MilliScale))
          ELSE Temporal!Fail("TimestampOutOfRange")
  BY <1>2, <1>3, <1>4, <1>5 DEF Temporal!DateTime2FromDate64
<1>7. d = Temporal!Ok(Temporal!DateTime2(q, r, MilliScale)) /\ q \in 0 .. MaxDays
  BY <1>6 DEF Temporal!Fail
<1>8. r \in 0 .. SecondsPerDay * Base ^ MilliScale - 1
  BY <1>2, <1>3
<1> QED
  BY <1>1, <1>7, <1>8 DEF Temporal!Ok, Temporal!DateTime2, CalendarCell, DateTimeTime

LEMMA OffsetRange ==
    ASSUME TemporalMapped, field.target = "datetimeoffset", NEW v, v # Temporal!Null, v.n \in Int,
           TokenOf(v).code = "ok"
    PROVE  CalendarCell(TokenOf(v).value)
<1> DEFINE second == v.n \div Base ^ Temporal!UnitScale(field.unit)
           resolved == Temporal!ResolveZone(field.zone)
           o == Temporal!OffsetForInstant(resolved.value, second)
<1>1. field.arrow = "timestamp" /\ IsTemporalMapping(field) /\ TemporalTyped
  BY TimestampFacts DEF TemporalMapped, Temporal!Supported
<1>2. PICK n \in Int : n = v.n
  OBVIOUS
<1>3. TokenOf(v) = CASE ~Temporal!IsOk(resolved) -> resolved
                     [] Temporal!IsOk(resolved) /\ ~Temporal!IsOk(o) -> o
                     [] Temporal!IsOk(resolved) /\ Temporal!IsOk(o) /\ ~Temporal!IsOk(TicksOf(n))
                           -> TicksOf(n)
                     [] OTHER -> Temporal!DateTimeOffsetFromTicks(TicksOf(n).value, o.value)
  BY <1>2 DEF TokenOf, Temporal!TokenCell, TemporalMapped, Temporal!DateTimeOffsetCell,
     Temporal!DateTimeOffsetFromTimestamp, TicksOf
<1>4. Temporal!IsOk(resolved) /\ Temporal!IsOk(o) /\ Temporal!IsOk(TicksOf(n))
  BY <1>3 DEF Temporal!IsOk
<1>5. PICK t \in Int : t = TicksOf(n).value
  BY <1>1, <1>4, TicksKept DEF Temporal!IsOk
<1>6. PICK m \in -MaxOffsetMinutes .. MaxOffsetMinutes : m = o.value
  BY <1>1, <1>4, Offsets DEF Temporal!IsOk
<1>7. PICK utc : utc = Temporal!DateTime2FromTicks(t, TickScale)
  OBVIOUS
<1>8. PICK here : here = Temporal!DateTime2FromTicks(
                             t + m * SecondsPerMinute * Temporal!TicksPerSecond, TickScale)
  OBVIOUS
<1>9. TokenOf(v) =
         IF here.code # "ok" \/ utc.code # "ok" THEN Temporal!Fail("TimestampOutOfRange")
         ELSE Temporal!Ok([kind |-> "datetimeoffset", day |-> utc.value.day,
                           time |-> utc.value.time, scale |-> TickScale, offset |-> m])
  BY <1>3, <1>4, <1>5, <1>6, <1>7, <1>8 DEF Temporal!DateTimeOffsetFromTicks, Temporal!IsOk
<1>10. /\ utc.code = "ok"
       /\ TokenOf(v) = Temporal!Ok([kind |-> "datetimeoffset", day |-> utc.value.day,
                             time |-> utc.value.time, scale |-> TickScale, offset |-> m])
  BY <1>9 DEF Temporal!Fail
<1>11. /\ utc.value.scale = TickScale /\ utc.value.day \in 0 .. MaxDays
       /\ DateTimeTime(utc.value)
  <2>1. TickScale \in 0 .. TickScale
    BY Clock
  <2> QED
    BY <1>7, <1>10, <2>1, DateTime2Range
<1> QED
  BY <1>10, <1>11 DEF Temporal!Ok, CalendarCell, DateTimeTime

LEMMA TokenRange ==
    ASSUME TemporalMapped, NEW v, v # Temporal!Null, v.n \in Int, TokenOf(v).code = "ok"
    PROVE  CalendarCell(TokenOf(v).value)
<1>1. PICK n \in Int : n = v.n
  OBVIOUS
<1>2. CASE field.target = "date"
  <2>1. TokenOf(v) = IF n + EpochDays \in 0 .. MaxDays
                     THEN Temporal!Ok(Temporal!Date(n + EpochDays))
                     ELSE Temporal!Fail("TimestampOutOfRange")
    BY <1>1, <1>2 DEF TokenOf, Temporal!TokenCell, Temporal!DateCell, Temporal!DateFromDate32,
       TemporalMapped
  <2>2. n + EpochDays \in 0 .. MaxDays /\ TokenOf(v) = Temporal!Ok(Temporal!Date(n + EpochDays))
    BY <2>1 DEF Temporal!Fail
  <2> QED
    BY <2>2 DEF Temporal!Ok, Temporal!Date, CalendarCell
<1>3. CASE field.arrow = "date64"
  <2>1. TokenOf(v) = Temporal!DateTime2FromDate64(n)
    BY <1>1, <1>3 DEF TokenOf, Temporal!TokenCell, Temporal!DateTime2Cell, TemporalMapped,
       Temporal!Supported
  <2> QED
    BY <2>1, Date64Range
<1>4. CASE field.target = "time"
  <2>1. field.unit \in Units /\ TemporalTyped
    BY <1>4 DEF TemporalMapped, Temporal!Supported, IsTemporalMapping, TemporalTyped
  <2>2. TokenOf(v) = Temporal!TimeFromArrow(field.unit, n, policy)
    BY <1>1, <1>4 DEF TokenOf, Temporal!TokenCell, TemporalMapped
  <2> QED
    BY <2>1, <2>2, TimeRange
<1>5. CASE field.target = "datetime"
  <2>1. field.arrow = "timestamp" /\ TemporalTyped
    BY <1>5, TimestampFacts DEF TemporalMapped, Temporal!Supported
  <2>2. TokenOf(v) = IF ~Temporal!ZoneChecked(field) THEN Temporal!Fail("TimezoneUnsupported")
                     ELSE IF TicksOf(n).code = "ok"
                     THEN Temporal!DateTimeFromTicks(TicksOf(n).value, rounding) ELSE TicksOf(n)
    BY <1>1, <1>5 DEF TokenOf, Temporal!TokenCell, TemporalMapped, Temporal!DateTimeCell,
       Temporal!DateTimeFromTimestamp, TicksOf, Temporal!IsOk
  <2>3. /\ TicksOf(n).code = "ok"
        /\ TokenOf(v) = Temporal!DateTimeFromTicks(TicksOf(n).value, rounding)
    BY <2>2 DEF Temporal!Fail
  <2>4. PICK t \in Int : t = TicksOf(n).value
    BY <2>1, <2>3, TicksKept
  <2> QED
    BY <2>3, <2>4, DateTimeRange
<1>6. CASE field.target = "datetime2" /\ field.arrow # "date64"
  <2>1. field.arrow = "timestamp" /\ TemporalTyped /\ field.scale \in 0 .. TickScale
    BY <1>6, TimestampFacts DEF TemporalMapped, Temporal!Supported
  <2>2. TokenOf(v) = IF ~Temporal!ZoneChecked(field) THEN Temporal!Fail("TimezoneUnsupported")
                     ELSE IF TicksOf(n).code = "ok"
                     THEN Temporal!DateTime2FromTicks(TicksOf(n).value, field.scale)
                     ELSE TicksOf(n)
    BY <1>1, <1>6 DEF TokenOf, Temporal!TokenCell, TemporalMapped, Temporal!DateTime2Cell,
       Temporal!DateTime2FromTimestamp, TicksOf, Temporal!IsOk
  <2>3. /\ TicksOf(n).code = "ok"
        /\ TokenOf(v) = Temporal!DateTime2FromTicks(TicksOf(n).value, field.scale)
    BY <2>2 DEF Temporal!Fail
  <2>4. PICK t \in Int : t = TicksOf(n).value
    BY <2>1, <2>3, TicksKept
  <2> QED
    BY <2>1, <2>3, <2>4, DateTime2Range DEF CalendarCell
<1>7. CASE field.target = "datetimeoffset"
  BY <1>7, OffsetRange
<1> QED
  BY <1>2, <1>3, <1>4, <1>5, <1>6, <1>7 DEF TemporalMapped, Temporal!Supported

\* Both encoders write the fields of the token a cell was measured for.
LEMMA TemporalCellWritten ==
    ASSUME TemporalMapped, NEW v, v = Temporal!Null \/ v.n \in Int,
           Temporal!MeasureCell(v).code = "ok", NEW c, c = TokenOf(v).value
    PROVE  /\ c = Temporal!Null \/ CalendarCell(c)
           /\ Temporal!MeasureCell(v).value = Temporal!CellLen(field, c)
           /\ LET len == Temporal!CellLen(field, c)
                  fields == Temporal!Ok(Temporal!CellFields(field, c))
              IN  Temporal!FillCell(v, len) = fields /\ Temporal!AppendCell(v, len) = fields
<1> DEFINE len == Temporal!CellLen(field, c)
           fields == Temporal!Ok(Temporal!CellFields(field, c))
<1>1. Temporal!Supported(field) /\ TokenOf(v).code = "ok"
  BY TemporalCellsAgree DEF TemporalMapped, TokenOf
<1>2. Temporal!ZoneChecked(field)
  BY DEF Temporal!MeasureCell, Temporal!Fail
<1>3. c = Temporal!Null \/ CalendarCell(c) => Temporal!Encodable(c)
  <2>1. c = Temporal!Null => Temporal!Encodable(c)
    BY DEF Temporal!Encodable, Temporal!Null
  <2>2. \A d, s : /\ d \in 0 .. MaxDays => Temporal!ValidDate(d)
                  /\ d \in 0 .. SecondsPerDay * Base ^ s - 1 => Temporal!ValidTime(d, s)
    BY DEF Temporal!ValidDate, Temporal!ValidTime
  <2>3. \A d : d \in 0 .. Temporal!FragmentsPerDay - 1 => d < Temporal!FragmentsPerDay
    BY Clock DEF Temporal!FragmentsPerDay, Positive
  <2>4. CalendarCell(c) => Temporal!Encodable(c)
    BY <2>2, <2>3 DEF Temporal!Encodable, CalendarCell, DateTimeTime
  <2> QED
    BY <2>1, <2>4
<1>4. CASE v = Temporal!Null
  <2>1. field.nullable
    BY <1>2, <1>4 DEF Temporal!MeasureCell, Temporal!Fail
  <2>2. c = Temporal!Null
    BY <1>1, <1>4, <2>1 DEF TokenOf, Temporal!TokenCell, Temporal!NullOf, Temporal!Ok, Temporal!Fail
  <2>3. len = 1
    BY <2>2 DEF Temporal!CellLen, Temporal!Null
  <2>4. Temporal!MeasureCell(v).value = len
    BY <1>2, <1>4, <2>1, <2>3 DEF Temporal!MeasureCell, Temporal!Ok
  <2>5. Temporal!Ok(Temporal!Null).code = "ok" /\ Temporal!Ok(Temporal!Null).value = c
    BY <2>2 DEF Temporal!Ok
  <2>6. Temporal!WriteNull(len) = fields
    BY <1>3, <2>1, <2>2, <2>5 DEF Temporal!WriteNull, Temporal!WriteCell, Temporal!IsOk
  <2>7. Temporal!FillCell(v, len) = fields
    BY <1>2, <1>4, <2>6 DEF Temporal!FillCell, Temporal!FillDate, Temporal!FillTime,
       Temporal!FillTimestamp, Temporal!FillDateTimeOffset
  <2>8. Temporal!AppendCell(v, len) = fields
    BY <1>2, <1>3, <1>4, <2>1, <2>2, <2>5 DEF Temporal!AppendCell, Temporal!AppendValue, Temporal!IsOk
  <2> QED
    BY <2>2, <2>4, <2>7, <2>8
<1>5. CASE v # Temporal!Null
  <2>1. CalendarCell(c) /\ Temporal!Encodable(c)
    BY <1>1, <1>3, <1>5, TokenRange
  <2>2. PICK x : x = TokenOf(v)
    OBVIOUS
  <2>3. x.code = "ok" /\ x.value = c
    BY <1>1, <2>2
  <2>4. Temporal!WriteCell(x, len) = fields /\ Temporal!AppendValue(x, len) = fields
    BY <2>1, <2>3 DEF Temporal!WriteCell, Temporal!AppendValue, Temporal!IsOk
  <2>5. Temporal!MeasuredLen(x) = Temporal!Ok(len)
    BY <2>3 DEF Temporal!MeasuredLen, Temporal!IsOk
  <2>6. /\ Temporal!MeasureCell(v) = Temporal!MeasuredLen(x)
        /\ Temporal!FillCell(v, len) = Temporal!WriteCell(x, len)
        /\ Temporal!AppendCell(v, len) = Temporal!AppendValue(x, len)
    <3>1. CASE field.arrow \in {"date32", "date64"}
      <4>1. field.arrow = "date32" => x = Temporal!DirectDateFromDate32(v.n)
        BY <1>1, <1>5, <2>2, <3>1 DEF TokenOf, Temporal!TokenCell, Temporal!Supported,
           Temporal!DateCell, Temporal!DateFromDate32, Temporal!DirectDateFromDate32
      <4>2. field.arrow = "date64" => x = Temporal!DirectDateTime2FromDate64(v.n)
        BY <1>1, <1>5, <2>2, <3>1 DEF TokenOf, Temporal!TokenCell, Temporal!Supported,
           Temporal!DateTime2Cell, Temporal!DateTime2FromDate64, Temporal!DirectDateTime2FromDate64
      <4>3. x = IF field.arrow = "date32" THEN Temporal!DirectDateFromDate32(v.n)
                ELSE Temporal!DirectDateTime2FromDate64(v.n)
        BY <3>1, <4>1, <4>2
      <4>4. field.target # "datetimeoffset"
        BY <1>1, <3>1 DEF Temporal!Supported
      <4> QED
        BY <1>2, <1>5, <3>1, <4>3, <4>4
           DEF Temporal!MeasureCell, Temporal!MeasureDate, Temporal!FillCell, Temporal!FillDate,
               Temporal!AppendCell, Temporal!AppendDate
    <3>2. CASE field.arrow = "time"
      <4>1. x = Temporal!TimeFromArrow(field.unit, v.n, policy)
        BY <1>1, <1>5, <2>2, <3>2 DEF TokenOf, Temporal!TokenCell, Temporal!Supported
      <4>2. field.target # "datetimeoffset"
        BY <1>1, <3>2 DEF Temporal!Supported
      <4> QED
        BY <1>2, <1>5, <3>2, <4>1, <4>2
           DEF Temporal!MeasureCell, Temporal!MeasureTime, Temporal!FillCell, Temporal!FillTime,
               Temporal!AppendCell, Temporal!AppendTime
    <3>3. CASE field.arrow = "timestamp" /\ field.target = "datetimeoffset"
      <4>1. x = Temporal!DateTimeOffsetFromTimestamp(field.unit, v.n, policy, field.zone)
        BY <1>1, <1>5, <2>2, <3>3 DEF TokenOf, Temporal!TokenCell, Temporal!DateTimeOffsetCell
      <4>2. /\ Temporal!ZoneForDateTimeOffset(field).code = "ok"
            /\ Temporal!ZoneForDateTimeOffset(field).value = field.zone
        BY <1>1, <3>3 DEF Temporal!ZoneForDateTimeOffset, Temporal!Supported, Temporal!Ok
      <4> QED
        BY <1>2, <1>5, <3>3, <4>1, <4>2
           DEF Temporal!MeasureCell, Temporal!MeasureDateTimeOffset, Temporal!FillCell,
               Temporal!FillDateTimeOffset, Temporal!AppendCell, Temporal!AppendDateTimeOffset,
               Temporal!IsOk
    <3>4. CASE field.arrow = "timestamp" /\ field.target \in {"datetime", "datetime2"}
      <4>1. x = Temporal!DirectTimestamp(field, v.n, policy, rounding)
        BY <1>1, <1>2, <1>5, <2>2, <3>4 DEF TokenOf, Temporal!TokenCell, Temporal!DateTimeCell,
           Temporal!DateTime2Cell, Temporal!DirectTimestamp
      <4> QED
        BY <1>2, <1>5, <3>4, <4>1
           DEF Temporal!MeasureCell, Temporal!MeasureTimestamp, Temporal!FillCell,
               Temporal!FillTimestamp, Temporal!AppendCell, Temporal!AppendTimestamp
    <3> QED
      BY <1>1, <3>1, <3>2, <3>3, <3>4 DEF Temporal!Supported
  <2> QED
    BY <2>1, <2>4, <2>5, <2>6 DEF Temporal!Ok
<1> QED
  BY <1>4, <1>5

\* A field keeps a number that fits its bytes.
LEMMA LowKeeps ==
    ASSUME NEW w \in 0 .. 5, NEW m \in Nat, m <= FieldBytes ^ w, NEW n \in 0 .. m - 1
    PROVE  Temporal!Low(n, w).n = n /\ Temporal!Low(n, w).width = w
<1>1. /\ FieldBytes \in Nat \ {0} /\ FieldBytes ^ 0 = 1
      /\ \A k \in 0 .. 5 - 1 : FieldBytes ^ (k + 1) = FieldBytes * FieldBytes ^ k
  BY ValuesAssumption
     DEF TemporalAssumption, Temporal!CalendarAssumption, Temporal!PowersAssumption
<1>2. PICK p \in Nat \ {0} : p = FieldBytes ^ w
  <2>1. 5 \in Nat
    OBVIOUS
  <2> QED
    BY <1>1, <2>1, PowerLaws
<1>3. PICK z \in Int : z = 0
  OBVIOUS
<1>4. n \in 0 .. p - 1 /\ n = z * p + n
  BY <1>2, <1>3
<1>5. (z * p + n) % p = n
  BY <1>4, QuotientIs
<1> QED
  BY <1>2, <1>4, <1>5 DEF Temporal!Low

\* The fields of a cell hold its day, time and offset.
LEMMA FieldsHold ==
    /\ \A day \in 0 .. MaxDays : Temporal!Low(day, 3).n = day
    /\ \A time \in 0 .. Temporal!FragmentsPerDay - 1 : Temporal!Low(time, 4).n = time
    /\ \A c : DateTimeTime(c) =>
          /\ Temporal!TimePayloadLen(c.scale) \in 3 .. 5
          /\ Temporal!Low(c.time, Temporal!TimePayloadLen(c.scale)).n = c.time
<1>1. /\ MaxDays < FieldBytes ^ 3 /\ Temporal!FragmentsPerDay <= FieldBytes ^ 4
      /\ \A scale \in 0 .. TickScale :
             SecondsPerDay * Base ^ scale <= FieldBytes ^ Temporal!TimePayloadLen(scale)
  BY ValuesAssumption
     DEF TemporalAssumption, Temporal!FieldsAssumption, Temporal!DatePayloadLen,
         Temporal!DateTimeHalfLen
<1>2. \A scale : Temporal!TimePayloadLen(scale) \in 3 .. 5
  BY DEF Temporal!TimePayloadLen
<1>3. ASSUME NEW day \in 0 .. MaxDays PROVE Temporal!Low(day, 3).n = day
  <2>1. PICK m \in Nat : m = MaxDays + 1
    BY Clock
  <2>2. PICK p \in Nat : p = FieldBytes ^ 3
    <3>1. /\ FieldBytes \in Nat \ {0} /\ FieldBytes ^ 0 = 1
          /\ \A k \in 0 .. 5 - 1 : FieldBytes ^ (k + 1) = FieldBytes * FieldBytes ^ k
      BY ValuesAssumption
         DEF TemporalAssumption, Temporal!CalendarAssumption, Temporal!PowersAssumption
    <3>2. 5 \in Nat
      OBVIOUS
    <3> QED
      BY <3>1, <3>2, PowerLaws
  <2>3. m <= p /\ day \in 0 .. m - 1
    BY <1>1, <2>1, <2>2, Clock
  <2>4. m <= FieldBytes ^ 3 /\ 3 \in 0 .. 5
    BY <2>2, <2>3
  <2> QED
    BY <2>3, <2>4, LowKeeps
<1>4. ASSUME NEW time \in 0 .. Temporal!FragmentsPerDay - 1 PROVE Temporal!Low(time, 4).n = time
  <2>1. PICK m \in Nat : m = Temporal!FragmentsPerDay
    BY Clock DEF Temporal!FragmentsPerDay, Positive
  <2>2. m <= FieldBytes ^ 4 /\ 4 \in 0 .. 5 /\ time \in 0 .. m - 1
    BY <1>1, <2>1
  <2> QED
    BY <2>2, LowKeeps
<1>5. ASSUME NEW c, DateTimeTime(c)
      PROVE  Temporal!Low(c.time, Temporal!TimePayloadLen(c.scale)).n = c.time
  <2>1. PICK scale \in 0 .. TickScale : scale = c.scale
    BY <1>5 DEF DateTimeTime
  <2>2. PICK m \in Nat : m = SecondsPerDay * Base ^ scale
    <3>1. PICK s \in Nat, b \in Nat : s = SecondsPerDay /\ b = Base ^ scale
      BY Clock DEF Positive
    <3> QED
      BY <3>1
  <2>3. PICK w \in 0 .. 5 : w = Temporal!TimePayloadLen(scale)
    BY <1>2
  <2>4. m <= FieldBytes ^ w
    BY <1>1, <2>2, <2>3
  <2>5. c.time \in 0 .. m - 1
    BY <1>5, <2>1, <2>2 DEF DateTimeTime
  <2> QED
    BY <2>1, <2>3, <2>4, <2>5, LowKeeps
<1> QED
  BY <1>2, <1>3, <1>4, <1>5

\* What a reader of the fields of a cell finds.
NumbersOf(s) == [i \in DOMAIN s |-> s[i].n]
WidthsOf(s) == [i \in DOMAIN s |-> s[i].width]
FieldsRead(c, n) ==
    CASE c.kind = "null" -> n = <<0>>
      [] c.kind = "date" -> n[2] = c.day
      [] c.kind = "time" -> n[2] = c.time
      [] c.kind = "datetime" -> n[Len(n) - 1] = c.day /\ n[Len(n)] = c.time
      [] c.kind = "datetime2" -> n[2] = c.time /\ n[3] = c.day
      [] c.kind = "datetimeoffset" -> n[2] = c.time /\ n[3] = c.day /\ n[4] = c.offset

LEMMA OneField ==
    ASSUME NEW a,
           a.width \in Nat,
           NEW s, s = <<a>>
    PROVE  /\ WidthOf(WidthsOf(s), Len(s)) = a.width
           /\ NumbersOf(s) = <<a.n>>
<1>1. /\ Len(s) = 1 /\ NumbersOf(s) = <<a.n>>
      /\ WidthsOf(s)[1] = a.width
  BY DEF WidthsOf, NumbersOf
<1>2. PICK f : /\ f[0] = 0 /\ WidthOf(WidthsOf(s), 1) = f[1]
               /\ \A i \in 1 .. 1 : f[i] = f[i - 1] + WidthsOf(s)[i]
  <2>1. 1 \in 1 .. 4
    OBVIOUS
  <2> QED
    BY <2>1, WidthsAdd
<1>3. f[1] = f[0] + a.width
  BY <1>1, <1>2
<1> QED
  BY <1>1, <1>2, <1>3

LEMMA TwoFields ==
    ASSUME NEW a, NEW b,
           a.width \in Nat, b.width \in Nat,
           NEW s, s = <<a, b>>
    PROVE  /\ WidthOf(WidthsOf(s), Len(s)) = a.width + b.width
           /\ NumbersOf(s) = <<a.n, b.n>>
<1>1. /\ Len(s) = 2 /\ NumbersOf(s) = <<a.n, b.n>>
      /\ WidthsOf(s)[1] = a.width /\ WidthsOf(s)[2] = b.width
  BY DEF WidthsOf, NumbersOf
<1>2. PICK f : /\ f[0] = 0 /\ WidthOf(WidthsOf(s), 2) = f[2]
               /\ \A i \in 1 .. 2 : f[i] = f[i - 1] + WidthsOf(s)[i]
  <2>1. 2 \in 1 .. 4
    OBVIOUS
  <2> QED
    BY <2>1, WidthsAdd
<1>3. f[1] = f[0] + a.width /\ f[2] = f[1] + b.width
  BY <1>1, <1>2
<1> QED
  BY <1>1, <1>2, <1>3

LEMMA ThreeFields ==
    ASSUME NEW a, NEW b, NEW c,
           a.width \in Nat, b.width \in Nat, c.width \in Nat,
           NEW s, s = <<a, b, c>>
    PROVE  /\ WidthOf(WidthsOf(s), Len(s)) = a.width + b.width + c.width
           /\ NumbersOf(s) = <<a.n, b.n, c.n>>
<1>1. /\ Len(s) = 3 /\ NumbersOf(s) = <<a.n, b.n, c.n>>
      /\ WidthsOf(s)[1] = a.width /\ WidthsOf(s)[2] = b.width /\ WidthsOf(s)[3] = c.width
  BY DEF WidthsOf, NumbersOf
<1>2. PICK f : /\ f[0] = 0 /\ WidthOf(WidthsOf(s), 3) = f[3]
               /\ \A i \in 1 .. 3 : f[i] = f[i - 1] + WidthsOf(s)[i]
  <2>1. 3 \in 1 .. 4
    OBVIOUS
  <2> QED
    BY <2>1, WidthsAdd
<1>3. f[1] = f[0] + a.width /\ f[2] = f[1] + b.width /\ f[3] = f[2] + c.width
  BY <1>1, <1>2
<1> QED
  BY <1>1, <1>2, <1>3

AreFields(s, a, b, c, d) ==
    /\ s = <<a, b, c, d>>
    /\ a.width \in Nat /\ b.width \in Nat /\ c.width \in Nat /\ d.width \in Nat

LEMMA FourFields ==
    ASSUME NEW s, NEW a, NEW b, NEW c, NEW d, AreFields(s, a, b, c, d)
    PROVE  /\ WidthOf(WidthsOf(s), Len(s)) = a.width + b.width + c.width + d.width
           /\ NumbersOf(s) = <<a.n, b.n, c.n, d.n>>
<1>1. /\ Len(s) = 4 /\ NumbersOf(s) = <<a.n, b.n, c.n, d.n>>
      /\ WidthsOf(s)[1] = a.width /\ WidthsOf(s)[2] = b.width /\ WidthsOf(s)[3] = c.width /\ WidthsOf(s)[4] = d.width
  BY DEF WidthsOf, NumbersOf, AreFields
<1>2. PICK f : /\ f[0] = 0 /\ WidthOf(WidthsOf(s), 4) = f[4]
               /\ \A i \in 1 .. 4 : f[i] = f[i - 1] + WidthsOf(s)[i]
  <2>1. PICK k \in 1 .. 4 : k = 4
    OBVIOUS
  <2>2. PICK w : w = WidthsOf(s)
    OBVIOUS
  <2>3. \E f : f[0] = 0 /\ WidthOf(w, k) = f[k] /\ \A i \in 1 .. k : f[i] = f[i - 1] + w[i]
    BY WidthsAdd, Zenon
  <2> QED
    BY <2>1, <2>2, <2>3
<1>3. f[1] = f[0] + a.width /\ f[2] = f[1] + b.width /\ f[3] = f[2] + c.width /\ f[4] = f[3] + d.width
  BY <1>1, <1>2
<1> QED
  BY <1>1, <1>2, <1>3 DEF AreFields

LEMMA Joined ==
    ASSUME NEW a, NEW b, NEW c PROVE <<a>> \o <<b, c>> = <<a, b, c>>
<1> DEFINE S == {a, b, c}
<1>1. <<a>> \in Seq(S) /\ <<b, c>> \in Seq(S) /\ <<a, b, c>> \in Seq(S)
  OBVIOUS
<1>2. PICK t : t = <<a>> \o <<b, c>>
  OBVIOUS
<1>3. t \in Seq(S) /\ Len(t) = 3 /\ t[1] = a /\ t[2] = b /\ t[3] = c
  BY <1>1, <1>2
<1>4. \A i \in 1 .. Len(t) : t[i] = <<a, b, c>>[i]
  BY <1>3
<1>5. Len(t) = Len(<<a, b, c>>)
  BY <1>3
<1> HIDE DEF S
<1>6. t = <<a, b, c>>
  BY <1>1, <1>3, <1>4, <1>5, SeqEqual
<1> QED
  BY <1>2, <1>6

LEMMA FieldsOfCell ==
    ASSUME NEW c, c = Temporal!Null \/ CalendarCell(c),
           NEW s, s = Temporal!CellFields(field, c)
    PROVE  /\ WidthOf(WidthsOf(s), Len(s)) = Temporal!CellLen(field, c)
           /\ FieldsRead(c, NumbersOf(s))
<1>1. /\ \A n, w : Temporal!Low(n, w).width = w
      /\ \A n, w : Temporal!Signed(n, w).width = w /\ Temporal!Signed(n, w).n = n
  BY DEF Temporal!Low, Temporal!Signed
<1>2. PICK len : len = Temporal!Low(Temporal!CellLen(field, c) - 1, 1)
  OBVIOUS
<1>3. len.width = 1
  BY <1>1, <1>2
<1>4. CASE c = Temporal!Null
  <2>1. Temporal!CellLen(field, c) = 1 /\ c.kind = "null"
    BY <1>4 DEF Temporal!CellLen, Temporal!Null
  <2>2. PICK a : a = Temporal!Low(0, 1) /\ s = <<a>>
    BY <1>4 DEF Temporal!CellFields, Temporal!Null
  <2>3. a.n = 0 /\ a.width = 1
    <3>1. 1 \in 0 .. 5 /\ 1 \in Nat /\ 0 \in 0 .. 1 - 1
      OBVIOUS
    <3>2. 1 <= FieldBytes ^ 1
      <4>1. /\ FieldBytes \in Nat \ {0} /\ FieldBytes ^ 0 = 1
            /\ FieldBytes ^ (0 + 1) = FieldBytes * FieldBytes ^ 0
        BY ValuesAssumption
           DEF TemporalAssumption, Temporal!CalendarAssumption, Temporal!PowersAssumption
      <4>2. PICK b \in Nat \ {0} : b = FieldBytes /\ FieldBytes ^ 1 = b * 1
        BY <4>1
      <4> QED
        BY <4>2
    <3> QED
      BY <2>2, <3>1, <3>2, LowKeeps
  <2>4. a.width \in Nat
    BY <2>3
  <2>5. WidthOf(WidthsOf(s), Len(s)) = a.width /\ NumbersOf(s) = <<a.n>>
    BY <2>2, <2>4, OneField, Zenon
  <2> QED
    BY <2>1, <2>3, <2>5 DEF FieldsRead
<1>5. CASE c.kind = "date" /\ c.day \in 0 .. MaxDays
  <2>1. PICK a : a = Temporal!Low(c.day, 3) /\ s = <<len, a>>
    BY <1>2, <1>5 DEF Temporal!CellFields, Temporal!DatePayloadLen
  <2>2. a.n = c.day /\ a.width = 3
    BY <1>1, <1>5, <2>1, FieldsHold
  <2>3. Temporal!CellLen(field, c) = 1 + 3
    BY <1>5 DEF Temporal!CellLen, Temporal!DatePayloadLen
  <2>4. WidthOf(WidthsOf(s), Len(s)) = 1 + 3 /\ NumbersOf(s) = <<len.n, c.day>>
    <3>1. len.width \in Nat /\ a.width \in Nat
      BY <1>3, <2>2
    <3>2. WidthOf(WidthsOf(s), Len(s)) = len.width + a.width /\ NumbersOf(s) = <<len.n, a.n>>
      BY <3>1, <2>1, TwoFields, Zenon
    <3> QED
      BY <3>2, <1>3, <2>2
  <2> QED
    BY <1>5, <2>3, <2>4 DEF FieldsRead
<1>6. CASE c.kind = "time" /\ DateTimeTime(c)
  <2>1. PICK w \in 3 .. 5 : w = Temporal!TimePayloadLen(c.scale)
    BY <1>6, FieldsHold
  <2>2. PICK a : a = Temporal!Low(c.time, w) /\ s = <<len, a>>
    BY <1>2, <1>6, <2>1 DEF Temporal!CellFields
  <2>3. a.n = c.time /\ a.width = w
    BY <1>1, <1>6, <2>1, <2>2, FieldsHold
  <2>4. Temporal!CellLen(field, c) = 1 + w
    BY <1>6, <2>1 DEF Temporal!CellLen
  <2>5. WidthOf(WidthsOf(s), Len(s)) = 1 + w /\ NumbersOf(s) = <<len.n, c.time>>
    <3>1. len.width \in Nat /\ a.width \in Nat
      BY <1>3, <2>3
    <3>2. WidthOf(WidthsOf(s), Len(s)) = len.width + a.width /\ NumbersOf(s) = <<len.n, a.n>>
      BY <3>1, <2>2, TwoFields, Zenon
    <3> QED
      BY <3>2, <1>3, <2>3
  <2> QED
    BY <1>6, <2>4, <2>5 DEF FieldsRead
<1>7. CASE c.kind = "datetime" /\ c.time \in 0 .. Temporal!FragmentsPerDay - 1
  <2>1. PICK a, b : a = Temporal!Signed(c.day, 4) /\ b = Temporal!Low(c.time, 4)
    OBVIOUS
  <2>2. a.n = c.day /\ a.width = 4 /\ b.n = c.time /\ b.width = 4
    BY <1>1, <1>7, <2>1, FieldsHold
  <2>3. CASE field.nullable
    <3>1. s = <<len>> \o <<a, b>>
      BY <1>2, <1>7, <2>1, <2>3 DEF Temporal!CellFields, Temporal!DateTimeHalfLen
    <3>2. s = <<len, a, b>>
      BY <3>1, Joined
    <3>3. Temporal!CellLen(field, c) = 8 + 1
      BY <1>7, <2>3 DEF Temporal!CellLen, Temporal!DateTimePayloadLen
    <3>4. WidthOf(WidthsOf(s), Len(s)) = 1 + 4 + 4 /\ NumbersOf(s) = <<len.n, c.day, c.time>>
      <4>1. len.width \in Nat /\ a.width \in Nat /\ b.width \in Nat
        BY <1>3, <2>2
      <4>2. WidthOf(WidthsOf(s), Len(s)) = len.width + a.width + b.width /\ NumbersOf(s) = <<len.n, a.n, b.n>>
        BY <4>1, <3>2, ThreeFields, Zenon
      <4> QED
        BY <4>2, <1>3, <2>2
    <3> QED
      BY <1>7, <3>3, <3>4 DEF FieldsRead
  <2>4. CASE ~field.nullable
    <3>1. s = << >> \o <<a, b>>
      BY <1>7, <2>1, <2>4 DEF Temporal!CellFields, Temporal!DateTimeHalfLen
    <3>2. s = <<a, b>>
      BY <3>1
    <3>3. Temporal!CellLen(field, c) = 8 + 0
      BY <1>7, <2>4 DEF Temporal!CellLen, Temporal!DateTimePayloadLen
    <3>4. WidthOf(WidthsOf(s), Len(s)) = 4 + 4 /\ NumbersOf(s) = <<c.day, c.time>>
      <4>1. a.width \in Nat /\ b.width \in Nat
        BY <2>2
      <4>2. WidthOf(WidthsOf(s), Len(s)) = a.width + b.width /\ NumbersOf(s) = <<a.n, b.n>>
        BY <4>1, <3>2, TwoFields, Zenon
      <4> QED
        BY <4>2, <2>2
    <3> QED
      BY <1>7, <3>3, <3>4 DEF FieldsRead
  <2> QED
    BY <2>3, <2>4
<1>8. CASE c.kind = "datetime2" /\ c.day \in 0 .. MaxDays /\ DateTimeTime(c)
  <2>1. PICK w \in 3 .. 5 : w = Temporal!TimePayloadLen(c.scale)
    BY <1>8, FieldsHold
  <2>2. PICK a, b : a = Temporal!Low(c.time, w) /\ b = Temporal!Low(c.day, 3)
    OBVIOUS
  <2>3. s = <<len, a, b>>
    BY <1>2, <1>8, <2>1, <2>2 DEF Temporal!CellFields, Temporal!DatePayloadLen
  <2>4. a.n = c.time /\ a.width = w /\ b.n = c.day /\ b.width = 3
    BY <1>1, <1>8, <2>1, <2>2, FieldsHold
  <2>5. Temporal!CellLen(field, c) = 1 + w + 3
    BY <1>8, <2>1 DEF Temporal!CellLen, Temporal!DatePayloadLen
  <2>6. WidthOf(WidthsOf(s), Len(s)) = 1 + w + 3 /\ NumbersOf(s) = <<len.n, c.time, c.day>>
    <3>1. len.width \in Nat /\ a.width \in Nat /\ b.width \in Nat
      BY <1>3, <2>4
    <3>2. WidthOf(WidthsOf(s), Len(s)) = len.width + a.width + b.width /\ NumbersOf(s) = <<len.n, a.n, b.n>>
      BY <3>1, <2>3, ThreeFields, Zenon
    <3> QED
      BY <3>2, <1>3, <2>4
  <2> QED
    BY <1>8, <2>5, <2>6 DEF FieldsRead
<1>9. CASE c.kind = "datetimeoffset" /\ c.day \in 0 .. MaxDays /\ DateTimeTime(c)
  <2>1. PICK w \in 3 .. 5 : w = Temporal!TimePayloadLen(c.scale)
    BY <1>9, FieldsHold
  <2>2. PICK a, b, o : /\ a = Temporal!Low(c.time, w) /\ b = Temporal!Low(c.day, 3)
                       /\ o = Temporal!Signed(c.offset, 2)
    OBVIOUS
  <2>3. s = <<len, a, b, o>>
    BY <1>2, <1>9, <2>1, <2>2
       DEF Temporal!CellFields, Temporal!DatePayloadLen, Temporal!OffsetPayloadLen
  <2>4. /\ a.n = c.time /\ a.width = w /\ b.n = c.day /\ b.width = 3
        /\ o.n = c.offset /\ o.width = 2
    BY <1>1, <1>9, <2>1, <2>2, FieldsHold
  <2>5. Temporal!CellLen(field, c) = 1 + w + 3 + 2
    BY <1>9, <2>1 DEF Temporal!CellLen, Temporal!DatePayloadLen, Temporal!OffsetPayloadLen
  <2>6. WidthOf(WidthsOf(s), Len(s)) = 1 + w + 3 + 2 /\ NumbersOf(s) = <<len.n, c.time, c.day, c.offset>>
    <3>1. len.width \in Nat /\ a.width \in Nat /\ b.width \in Nat /\ o.width \in Nat
      BY <1>3, <2>4
    <3>2. WidthOf(WidthsOf(s), Len(s)) = len.width + a.width + b.width + o.width /\ NumbersOf(s) = <<len.n, a.n, b.n, o.n>>
      <4>1. AreFields(s, len, a, b, o)
        BY <3>1, <2>3 DEF AreFields
      <4> QED
        BY <4>1, FourFields
    <3> QED
      BY <3>2, <1>3, <2>4
  <2> QED
    BY <1>9, <2>5, <2>6 DEF FieldsRead
<1> QED
  BY <1>4, <1>5, <1>6, <1>7, <1>8, <1>9 DEF CalendarCell

\* Every temporal cell has the measured width, and its fields are the token's.
LEMMA TemporalDecodes ==
    ASSUME TemporalInv, Wrote(TemporalFills, TemporalAppends)
    PROVE  Temporal!MeasuredColumnEncodes /\ Temporal!CellsDecodeToTokens
<1>1. TemporalMapped /\ \A r \in DOMAIN column : column[r] = Temporal!Null \/ column[r].n \in Int
  <2>1. TemporalMapped
    BY ValuesAssumption DEF TemporalInv, TemporalAssumption, TemporalMapped
  <2>2. \A r \in DOMAIN column : IsTemporalSlot(column[r])
    BY ValuesAssumption DEF TemporalInv, TemporalAssumption
  <2> QED
    BY <2>1, <2>2 DEF IsTemporalSlot, Null, Temporal!Null
<1>2. DOMAIN column = 1 .. Len(column) /\ Len(column) \in Nat
  BY DEF TemporalInv
<1> DEFINE token(r) == TokenOf(column[r]).value
           fields(r) == Temporal!CellFields(field, token(r))
<1>3. ASSUME lengths.code = "ok", NEW r \in DOMAIN column
      PROVE  /\ token(r) = Temporal!Null \/ CalendarCell(token(r))
             /\ lengths.cells[r] = Temporal!CellLen(field, token(r))
             /\ TemporalFills[r] = Temporal!Ok(fields(r))
             /\ TemporalAppends[r] = Temporal!Ok(fields(r))
  <2>1. /\ TemporalLengths[r].code = "ok" /\ lengths.cells[r] = TemporalLengths[r].value
        /\ TemporalLengths[r] = Temporal!MeasureCell(column[r])
    <3>1. Ends(TemporalLengths, Len(column), lengths)
      BY <1>3 DEF TemporalInv, Pending
    <3>2. /\ lengths.cells = [x \in 1 .. Len(column) |-> TemporalLengths[x].value]
          /\ TemporalLengths[r].code = "ok"
      <4>1. ASSUME lengths.row \in 1 .. Len(column), TemporalLengths[lengths.row].code # "ok",
                   lengths.code = TemporalLengths[lengths.row].code
            PROVE  FALSE
        BY <1>3, <4>1
      <4> QED
        BY <1>2, <3>1, <4>1 DEF Ends
    <3> QED
      BY <1>2, <3>2 DEF TemporalLengths
  <2>2. PICK v, c : v = column[r] /\ c = token(r) /\ c = TokenOf(v).value
    OBVIOUS
  <2>3. (v = Temporal!Null \/ v.n \in Int) /\ Temporal!MeasureCell(v).code = "ok"
    BY <1>1, <2>1, <2>2
  <2>4. /\ c = Temporal!Null \/ CalendarCell(c)
        /\ Temporal!MeasureCell(v).value = Temporal!CellLen(field, c)
        /\ Temporal!FillCell(v, Temporal!CellLen(field, c))
              = Temporal!Ok(Temporal!CellFields(field, c))
        /\ Temporal!AppendCell(v, Temporal!CellLen(field, c))
              = Temporal!Ok(Temporal!CellFields(field, c))
    BY <1>1, <2>2, <2>3, TemporalCellWritten
  <2>5. lengths.cells[r] = Temporal!CellLen(field, c)
    BY <2>1, <2>2, <2>4
  <2>6. /\ TemporalFills[r] = Temporal!FillCell(v, lengths.cells[r])
        /\ TemporalAppends[r] = Temporal!AppendCell(v, lengths.cells[r])
    BY <2>2 DEF TemporalFills, TemporalAppends
  <2> QED
    BY <2>2, <2>4, <2>5, <2>6
<1> HIDE DEF token, fields
<1>4. ASSUME NEW result \in {filled, appended}, result # Pending
      PROVE  /\ lengths.code = "ok" /\ result.code = "ok"
             /\ \A r \in DOMAIN column : result.cells[r] = fields(r)
  <2>1. lengths.code = "ok"
    BY <1>4 DEF Wrote
  <2>2. ASSUME NEW f, \A r \in DOMAIN column : f[r] = Temporal!Ok(fields(r)),
               Ends(f, Len(column), result)
        PROVE  result.code = "ok" /\ \A r \in DOMAIN column : result.cells[r] = fields(r)
    <3>1. ASSUME NEW r \in DOMAIN column PROVE f[r].code = "ok" /\ f[r].value = fields(r)
      <4>1. PICK x : x = fields(r)
        OBVIOUS
      <4>2. f[r] = Temporal!Ok(x)
        BY <2>2, <4>1
      <4> QED
        BY <4>1, <4>2 DEF Temporal!Ok
    <3> QED
      BY <1>2, <2>2, <3>1 DEF Ends
  <2>3. CASE result = filled
    <3>1. Ends(TemporalFills, Len(column), result)
      BY <1>4, <2>3 DEF Wrote
    <3> QED
      BY <1>3, <2>1, <2>2, <3>1
  <2>4. CASE result = appended
    <3>1. Ends(TemporalAppends, Len(column), result)
      BY <1>4, <2>4 DEF Wrote
    <3> QED
      BY <1>3, <2>1, <2>2, <3>1
  <2> QED
    BY <2>3, <2>4
<1>5. ASSUME lengths.code = "ok", NEW r \in DOMAIN column, NEW s, s = fields(r)
      PROVE  /\ WidthOf(WidthsOf(s), Len(s)) = lengths.cells[r]
             /\ FieldsRead(token(r), NumbersOf(s))
  <2>1. PICK c : c = token(r)
    OBVIOUS
  <2>2. c = Temporal!Null \/ CalendarCell(c)
    BY <1>3, <1>5, <2>1
  <2>3. s = Temporal!CellFields(field, c)
    BY <1>5, <2>1 DEF fields
  <2>4. WidthOf(WidthsOf(s), Len(s)) = Temporal!CellLen(field, c) /\ FieldsRead(c, NumbersOf(s))
    BY <2>2, <2>3, FieldsOfCell
  <2> QED
    BY <1>3, <1>5, <2>1, <2>4
<1>6. Temporal!MeasuredColumnEncodes
  <2>1. ASSUME NEW result \in {filled, appended}, result # Pending
        PROVE  /\ result.code = "ok"
               /\ \A r \in DOMAIN column :
                     WidthOf(WidthsOf(result.cells[r]), Len(result.cells[r])) = lengths.cells[r]
    BY <1>4, <1>5, <2>1
  <2> QED
    BY <2>1, Zenon DEF Temporal!MeasuredColumnEncodes, WidthOf, WidthsOf, Temporal!Pending, Pending
<1>7. Temporal!CellsDecodeToTokens
  <2>1. SUFFICES ASSUME filled.code = "ok", tokens.code = "ok", NEW r \in DOMAIN column
                 PROVE  FieldsRead(tokens.cells[r], NumbersOf(filled.cells[r]))
    BY Zenon DEF Temporal!CellsDecodeToTokens, FieldsRead, NumbersOf
  <2>2. filled # Pending
    BY <2>1 DEF Pending
  <2>3. lengths.code = "ok" /\ filled.cells[r] = fields(r)
    BY <1>4, <2>1, <2>2
  <2>4. FieldsRead(token(r), NumbersOf(filled.cells[r]))
    BY <1>5, <2>1, <2>3
  <2>5. tokens.cells[r] = token(r)
    <3>1. Ends(TemporalTokens, Len(column), tokens)
      BY <2>1 DEF TemporalInv, Pending
    <3>2. tokens.cells = [x \in 1 .. Len(column) |-> TemporalTokens[x].value]
      BY <2>1, <3>1 DEF Ends
    <3> QED
      BY <1>2, <3>2 DEF TemporalTokens, token, TokenOf
  <2> QED
    BY <2>4, <2>5
<1> QED
  BY <1>6, <1>7

-----------------------------------------------------------------------------
(* The bytes of a number *)

\* A function over 1 .. n is a sequence of n elements.
LEMMA Listed ==
    ASSUME NEW S, NEW n \in Nat, NEW s \in [1 .. n -> S]
    PROVE  s \in Seq(S) /\ Len(s) = n
<1>1. s \in Seq(S)
  BY ONLY SeqDef
<1>2. Len(s) \in Nat /\ DOMAIN s = 1 .. Len(s)
  BY ONLY <1>1, LenProperties
<1>3. PICK k \in Nat : k = Len(s)
  BY <1>2
<1>4. 1 .. k = 1 .. n
  BY <1>2, <1>3
<1>5. k = n
  <2>1. (k # 0 => k \in 1 .. n) /\ (n # 0 => n \in 1 .. k)
    BY <1>4
  <2> QED
    BY <2>1
<1> QED
  BY <1>1, <1>3, <1>5

\* The elements of two sequences joined.
LEMMA JoinedIs ==
    ASSUME NEW s \in Seq(Nat), NEW t \in Seq(Nat)
    PROVE  /\ s \o t \in Seq(Nat) /\ Len(s \o t) = Len(s) + Len(t)
           /\ \A i \in 1 .. Len(s) + Len(t) :
                  (s \o t)[i] = IF i <= Len(s) THEN s[i] ELSE t[i - Len(s)]
<1>1. s \o t \in Seq(Nat)
  BY ConcatProperties
<1>2. Len(s \o t) = Len(s) + Len(t)
  BY ConcatProperties
<1> QED
  BY <1>1, <1>2, ConcatProperties

LEMMA NumericLittleEndian ==
    ASSUME NEW w \in 0 .. 16, NEW n \in Int
    PROVE  /\ Numeric!LittleEndian(n, w) \in Seq(Nat)
           /\ Len(Numeric!LittleEndian(n, w)) = w
           /\ Holds(Numeric!LittleEndian(n, w), 1, w, n % NumberBytes ^ w, NumberBytes)
<1>1. PICK m \in Nat \ {0} : m = NumberBytes ^ w
  BY BytePowers
<1>2. PICK u \in 0 .. m - 1 : u = n % m
  BY Quotient
<1>3. PICK s : s = Numeric!LittleEndian(n, w)
  OBVIOUS
<1>4. s = [i \in 1 .. w |-> (u \div NumberBytes ^ (i - 1)) % NumberBytes]
  BY <1>1, <1>2, <1>3 DEF Numeric!LittleEndian
<1>5. ASSUME NEW i \in 1 .. w PROVE (u \div NumberBytes ^ (i - 1)) % NumberBytes \in Nat
  <2>1. PICK k \in 0 .. 16 : k = i - 1
    OBVIOUS
  <2>2. PICK p \in Nat \ {0} : p = NumberBytes ^ k
    BY BytePowers
  <2>3. PICK b \in Nat \ {0} : b = NumberBytes
    BY BytePowers
  <2>4. PICK y \in Int : y = u \div p
    <3>1. PICK z \in Int : z = u
      BY <1>1
    <3>2. z \div p \in Int
      BY Quotient
    <3> QED
      BY <3>1, <3>2
  <2>5. y % b \in 0 .. b - 1
    BY Quotient
  <2> QED
    BY <2>1, <2>2, <2>3, <2>4, <2>5
<1>6. s \in [1 .. w -> Nat]
  BY <1>4, <1>5
<1>7. w \in Nat
  OBVIOUS
<1>8. s \in Seq(Nat) /\ Len(s) = w
  BY <1>6, <1>7, Listed
<1>9. Holds(s, 1, w, u, NumberBytes)
  <2>1. \A i \in 1 .. w : 1 + i - 1 = i
    OBVIOUS
  <2> QED
    BY <1>1, <1>4, <2>1 DEF Holds
<1> QED
  BY <1>1, <1>2, <1>3, <1>8, <1>9

LEMMA PowerOfRadix ==
    ASSUME NEW b, NEW w \in Nat, Radix(b, w), NEW k \in 0 .. w PROVE b ^ k \in Nat \ {0}
<1>1. b \in Nat \ {0} /\ b ^ 0 = 1 /\ \A i \in 0 .. w - 1 : b ^ (i + 1) = b * b ^ i
  BY DEF Radix
<1> QED
  BY <1>1, PowerLaws

\* A reader of the last w bytes finds the number they hold.
LEMMA ReadsNumber ==
    ASSUME NEW b, NEW w \in Nat, Radix(b, w), NEW at \in Nat, NEW last \in Nat, at + w = last + 1,
           NEW s, Naturals(s, at, last), NEW x, Holds(s, at, w, x, b)
    PROVE  SumOf(s, at, last, b) = x
<1>1. b \in Nat /\ at <= last + 1 /\ at <= at /\ at + w <= last + 1
  BY DEF Radix
<1>2. PICK f : Sums(f, s, at, last, b) /\ SumOf(s, at, last, b) = f[at]
  BY <1>1, SumIsASum
<1>3. f[at + w] = 0
  <2>1. PICK i \in at .. last + 1 : i = at + w /\ i > last
    BY <1>1
  <2>2. f[i] = 0
    BY <1>2, <2>1 DEF Sums
  <2> QED
    BY <2>1, <2>2
<1>4. f[at] = x + b ^ w * f[at + w]
  <2>1. f[at + w] \in Nat
    BY <1>3
  <2> QED
    BY <1>1, <1>2, <2>1, SumOfDigits
<1>5. x \in Int /\ b ^ w * 0 = 0
  <2>1. PICK m \in Nat \ {0} : m = b ^ w
    <3>1. w \in 0 .. w
      OBVIOUS
    <3> QED
      BY <3>1, PowerOfRadix
  <2>2. x \in 0 .. m - 1
    BY <2>1 DEF Holds
  <2> QED
    BY <2>1, <2>2
<1> QED
  BY <1>2, <1>3, <1>4, <1>5

\* The same of a number whose low and high bytes stand one after the other.
LEMMA ReadsHalves ==
    ASSUME NEW b, NEW w \in Nat, NEW v \in Nat, Radix(b, w), Radix(b, v),
           NEW at \in Nat, NEW to \in Nat, NEW last \in Nat, to = at + w, to + v = last + 1,
           NEW s, Naturals(s, at, last),
           NEW x, Holds(s, at, w, x, b), NEW y, Holds(s, to, v, y, b)
    PROVE  SumOf(s, at, last, b) = x + b ^ w * y
<1>1. b \in Nat /\ at <= last + 1 /\ at <= at /\ at + w <= last + 1 /\ at <= to
      /\ to + v <= last + 1
  BY DEF Radix
<1>2. PICK f : Sums(f, s, at, last, b) /\ SumOf(s, at, last, b) = f[at]
  BY <1>1, SumIsASum
<1>3. f[to + v] = 0
  <2>1. PICK i \in at .. last + 1 : i = to + v /\ i > last
    BY <1>1
  <2>2. f[i] = 0
    BY <1>2, <2>1 DEF Sums
  <2> QED
    BY <2>1, <2>2
<1>4. y \in Nat /\ b ^ v * 0 = 0
  <2>1. PICK m \in Nat \ {0} : m = b ^ v
    <3>1. v \in 0 .. v
      OBVIOUS
    <3> QED
      BY <3>1, PowerOfRadix
  <2>2. y \in 0 .. m - 1
    BY <2>1 DEF Holds
  <2> QED
    BY <2>1, <2>2
<1>5. f[to] = y
  <2>1. f[to + v] \in Nat
    BY <1>3
  <2>2. f[to] = y + b ^ v * f[to + v]
    BY <1>1, <1>2, <2>1, SumOfDigits
  <2> QED
    BY <1>3, <1>4, <2>2
<1>6. f[at] = x + b ^ w * f[at + w]
  <2>1. f[at + w] \in Nat
    BY <1>4, <1>5
  <2> QED
    BY <1>1, <1>2, <2>1, SumOfDigits
<1> QED
  BY <1>2, <1>5, <1>6

LEMMA ByteRadix == ASSUME NEW w \in 0 .. 16 PROVE Radix(NumberBytes, w)
<1>1. NumberBytes \in Nat \ {0} /\ NumberBytes ^ 0 = 1
  BY BytePowers
<1>2. ASSUME NEW k \in 0 .. w - 1 PROVE NumberBytes ^ (k + 1) = NumberBytes * NumberBytes ^ k
  <2>1. k \in 0 .. 15
    OBVIOUS
  <2> QED
    BY <2>1, BytePowers
<1> QED
  BY <1>1, <1>2 DEF Radix

\* What a part of a joined sequence holds.
LEMMA JoinedHolds ==
    ASSUME NEW s \in Seq(Nat), NEW t \in Seq(Nat), NEW w \in Nat, NEW x, NEW b,
           NEW at \in Nat \ {0}, at + w <= Len(t) + 1, Holds(t, at, w, x, b)
    PROVE  Holds(s \o t, Len(s) + at, w, x, b)
<1>1. ASSUME NEW i \in 1 .. w
      PROVE  (s \o t)[Len(s) + at + i - 1] = t[at + i - 1]
  <2>1. PICK j \in 1 .. Len(s) + Len(t) : j = Len(s) + at + i - 1 /\ j > Len(s)
    <3>1. PICK m \in Nat, n \in Nat : m = Len(s) /\ n = Len(t)
      OBVIOUS
    <3>2. m + at + i - 1 \in 1 .. m + n /\ m + at + i - 1 > m
      BY <3>1
    <3> QED
      BY <3>1, <3>2
  <2>2. (s \o t)[j] = t[j - Len(s)]
    BY <2>1, ConcatProperties
  <2>3. j - Len(s) = at + i - 1
    BY <2>1
  <2> QED
    BY <2>1, <2>2, <2>3
<1> QED
  BY <1>1 DEF Holds

LEMMA HeldByPart ==
    ASSUME NEW s \in Seq(Nat), NEW t \in Seq(Nat), NEW w \in Nat, NEW x, NEW b,
           NEW at \in Nat \ {0}, at + w <= Len(s) + 1, Holds(s, at, w, x, b)
    PROVE  Holds(s \o t, at, w, x, b)
<1>1. ASSUME NEW i \in 1 .. w PROVE (s \o t)[at + i - 1] = s[at + i - 1]
  <2>1. PICK j \in 1 .. Len(s) + Len(t) : j = at + i - 1 /\ j <= Len(s)
    OBVIOUS
  <2>2. (s \o t)[j] = s[j]
    BY <2>1, ConcatProperties
  <2> QED
    BY <2>1, <2>2
<1> QED
  BY <1>1 DEF Holds

\* The length of a magnitude has room for it.
LEMMA MagnitudeFits ==
    ASSUME NEW n \in Int, Numeric!Magnitude(n) < Ten ^ MaxPrecision
    PROVE  /\ Numeric!MagnitudeLen(n) \in {4, 8, 12, 16}
           /\ Numeric!Magnitude(n) \in 0 .. NumberBytes ^ Numeric!MagnitudeLen(n) - 1
<1>1. /\ ShortDigits \in 1 .. MaxPrecision /\ MiddleDigits \in 1 .. MaxPrecision
      /\ LongDigits \in 1 .. MaxPrecision /\ MaxPrecision \in Nat \ {0}
      /\ ShortDigits < MiddleDigits /\ MiddleDigits < LongDigits
      /\ Ten ^ ShortDigits <= NumberBytes ^ 4 /\ Ten ^ MiddleDigits <= NumberBytes ^ 8
      /\ Ten ^ LongDigits <= NumberBytes ^ 12 /\ 2 * Ten ^ MaxPrecision <= NumberBytes ^ 16
  BY ValuesAssumption DEF NumericAssumption, Numeric!DigitsAssumption
<1>2. PICK m \in Nat : m = Numeric!Magnitude(n)
  BY DEF Numeric!Magnitude
<1> DEFINE enough == {d \in 1 .. MaxPrecision + 1 : m < Ten ^ d}
           digits == {d \in 1 .. MaxPrecision + 1 : m < Ten ^ d /\ (d = 1 \/ m >= Ten ^ (d - 1))}
<1>3. \E d \in digits : TRUE
  <2>1. MaxPrecision \in enough
    BY <1>1, <1>2
  <2>2. enough \subseteq Nat /\ enough # {}
    BY <2>1
  <2>3. PICK d \in enough : \A k \in enough : d <= k
    <3> HIDE DEF enough
    <3> QED
      BY <2>2, LeastElement
  <2>4. d = 1 \/ m >= Ten ^ (d - 1)
    <3>1. CASE d # 1
      <4>1. PICK k \in 1 .. MaxPrecision + 1 : k = d - 1
        BY <1>1, <3>1
      <4>2. ~ (m < Ten ^ k)
        BY <2>3, <4>1
      <4>3. Ten ^ k \in Nat
        BY <4>1, Powers
      <4> QED
        BY <4>1, <4>2, <4>3
    <3> QED
      BY <3>1
  <2> QED
    BY <2>3, <2>4
<1>4. PICK d \in 1 .. MaxPrecision + 1 : d = Numeric!Digits(n) /\ m < Ten ^ d
  <2>1. Numeric!Digits(n) = CHOOSE d \in digits : TRUE
    <3>1. Numeric!Digits(n) = CHOOSE d \in 1 .. MaxPrecision + 1 :
                                 m < Ten ^ d /\ (d = 1 \/ m >= Ten ^ (d - 1))
      BY <1>2 DEF Numeric!Digits
    <3>2. \A d : d \in digits <=> /\ d \in 1 .. MaxPrecision + 1
                                  /\ m < Ten ^ d /\ (d = 1 \/ m >= Ten ^ (d - 1))
      OBVIOUS
    <3> QED
      BY <3>1, <3>2
  <2>2. Numeric!Digits(n) \in digits
    <3> HIDE DEF digits
    <3> QED
      BY <1>3, <2>1
  <2> QED
    BY <2>2
<1>5. ASSUME NEW k \in 1 .. MaxPrecision, d <= k PROVE m < Ten ^ k
  <2>1. CASE d = k
    BY <1>4, <2>1
  <2>2. CASE d < k
    <3>1. d \in Nat /\ k \in 0 .. MaxPrecision + 1
      BY <1>1
    <3>2. Ten ^ d < Ten ^ k
      BY <2>2, <3>1, PowersGrow
    <3>3. Ten ^ d \in Nat /\ Ten ^ k \in Nat
      BY <1>1, <3>1, Powers
    <3> QED
      BY <1>4, <3>2, <3>3
  <2> QED
    BY <1>5, <2>1, <2>2
<1>6. /\ NumberBytes ^ 4 \in Nat /\ NumberBytes ^ 8 \in Nat
      /\ NumberBytes ^ 12 \in Nat /\ NumberBytes ^ 16 \in Nat
  BY BytePowers
<1>7. /\ Ten ^ ShortDigits \in Nat /\ Ten ^ MiddleDigits \in Nat
      /\ Ten ^ LongDigits \in Nat /\ Ten ^ MaxPrecision \in Nat
  BY <1>1, Powers
<1>8. CASE d <= ShortDigits
  <2>1. Numeric!MagnitudeLen(n) = 4
    <3>1. /\ d \notin ShortDigits + 1 .. MiddleDigits /\ d \notin MiddleDigits + 1 .. LongDigits
      BY <1>1, <1>8
    <3> QED
      BY <1>4, <1>8, <3>1 DEF Numeric!MagnitudeLen
  <2>2. m < Ten ^ ShortDigits
    BY <1>1, <1>5, <1>8
  <2> QED
    BY <1>1, <1>2, <1>6, <1>7, <2>1, <2>2
<1>9. CASE d \in ShortDigits + 1 .. MiddleDigits
  <2>1. Numeric!MagnitudeLen(n) = 8
    <3>1. ~ (d <= ShortDigits) /\ d \notin MiddleDigits + 1 .. LongDigits
      BY <1>1, <1>9
    <3> QED
      BY <1>4, <1>9, <3>1 DEF Numeric!MagnitudeLen
  <2>2. m < Ten ^ MiddleDigits
    BY <1>1, <1>5, <1>9
  <2> QED
    BY <1>1, <1>2, <1>6, <1>7, <2>1, <2>2
<1>10. CASE d \in MiddleDigits + 1 .. LongDigits
  <2>1. Numeric!MagnitudeLen(n) = 12
    <3>1. ~ (d <= ShortDigits) /\ d \notin ShortDigits + 1 .. MiddleDigits
      BY <1>1, <1>10
    <3> QED
      BY <1>4, <1>10, <3>1 DEF Numeric!MagnitudeLen
  <2>2. m < Ten ^ LongDigits
    BY <1>1, <1>5, <1>10
  <2> QED
    BY <1>1, <1>2, <1>6, <1>7, <2>1, <2>2
<1>11. CASE d > LongDigits
  <2>1. Numeric!MagnitudeLen(n) = 16
    <3>1. /\ ~ (d <= ShortDigits) /\ d \notin ShortDigits + 1 .. MiddleDigits
          /\ d \notin MiddleDigits + 1 .. LongDigits
      BY <1>1, <1>11
    <3> QED
      BY <1>4, <3>1 DEF Numeric!MagnitudeLen
  <2> QED
    BY <1>1, <1>2, <1>6, <1>7, <2>1
<1> QED
  BY <1>1, <1>8, <1>9, <1>10, <1>11

\* A magnitude in its bytes, in one part or in two.
MagnitudeIn(t, n) ==
    /\ t \in Seq(Nat) /\ Len(t) = Numeric!MagnitudeLen(n)
    /\ \E w \in 0 .. 16 : \E v \in 0 .. 16 : \E x, y :
          /\ w + v = Numeric!MagnitudeLen(n)
          /\ Holds(t, 1, w, x, NumberBytes) /\ Holds(t, 1 + w, v, y, NumberBytes)
          /\ x + NumberBytes ^ w * y = Numeric!Magnitude(n)

LEMMA WholeMagnitude ==
    ASSUME NEW n \in Int, Numeric!Magnitude(n) < Ten ^ MaxPrecision
    PROVE  MagnitudeIn(Numeric!LittleEndian(Numeric!Magnitude(n), Numeric!MagnitudeLen(n)), n)
<1>1. PICK w \in 0 .. 16 : w = Numeric!MagnitudeLen(n)
  BY MagnitudeFits
<1>2. PICK m \in Nat : m = Numeric!Magnitude(n)
  BY DEF Numeric!Magnitude
<1>3. PICK p \in Nat \ {0} : p = NumberBytes ^ w
  BY BytePowers
<1>4. m \in 0 .. p - 1
  BY <1>1, <1>2, <1>3, MagnitudeFits
<1>5. m % p = m
  BY <1>4
<1>6. PICK t : t = Numeric!LittleEndian(m, w)
  OBVIOUS
<1>7. t \in Seq(Nat) /\ Len(t) = w /\ Holds(t, 1, w, m, NumberBytes)
  <2>1. m \in Int
    OBVIOUS
  <2>2. /\ Numeric!LittleEndian(m, w) \in Seq(Nat) /\ Len(Numeric!LittleEndian(m, w)) = w
        /\ Holds(Numeric!LittleEndian(m, w), 1, w, m % NumberBytes ^ w, NumberBytes)
    BY <2>1, NumericLittleEndian
  <2> QED
    BY <1>3, <1>5, <1>6, <2>2
<1>8. Holds(t, 1 + w, 0, 0, NumberBytes)
  BY BytePowers DEF Holds
<1>9. m + NumberBytes ^ w * 0 = m
  BY <1>3
<1>10. 0 \in 0 .. 16 /\ w + 0 = w
  OBVIOUS
<1>11. MagnitudeIn(t, n)
  BY <1>1, <1>2, <1>7, <1>8, <1>9, <1>10 DEF MagnitudeIn
<1> QED
  BY <1>1, <1>2, <1>6, <1>11

LEMMA HalvedMagnitude ==
    ASSUME NEW n \in Int, Numeric!Magnitude(n) < Ten ^ MaxPrecision,
           NEW v \in {4, 8}, Numeric!MagnitudeLen(n) = 8 + v
    PROVE  MagnitudeIn(Numeric!LittleEndian(Numeric!Magnitude(n), 8)
                           \o Numeric!LittleEndian(Numeric!Magnitude(n) \div NumberBytes ^ 8, v), n)
<1>1. PICK m \in Nat : m = Numeric!Magnitude(n)
  BY DEF Numeric!Magnitude
<1>2. PICK p \in Nat \ {0} : p = NumberBytes ^ 8
  BY BytePowers
<1>3. PICK q \in Nat \ {0} : q = NumberBytes ^ v
  BY BytePowers
<1>4. NumberBytes ^ (8 + v) = p * q
  <2>1. PICK j \in 0 .. 16, k \in 0 .. 16 : j = 8 /\ k = v /\ k \in 0 .. 16 - j
    OBVIOUS
  <2>2. NumberBytes ^ (j + k) = NumberBytes ^ j * NumberBytes ^ k
    BY <2>1, BytePowers
  <2> QED
    BY <1>2, <1>3, <2>1, <2>2
<1>5. m \in 0 .. p * q - 1
  BY <1>1, <1>4, MagnitudeFits
<1>6. PICK x \in 0 .. p - 1, y \in Int : x = m % p /\ y = m \div p /\ m = y * p + x
  <2>1. m \in Int
    OBVIOUS
  <2> QED
    BY <2>1, Quotient
<1>7. y \in 0 .. q - 1
  <2>1. 0 <= m \div p <=> 0 * p <= m
    BY QuotientBound
  <2>2. m \div p < q <=> m < q * p
    BY QuotientBound
  <2>3. q * p = p * q /\ 0 * p = 0
    OBVIOUS
  <2> QED
    BY <1>5, <1>6, <2>1, <2>2, <2>3
<1>8. y % q = y
  BY <1>7
<1>9. PICK low, high : low = Numeric!LittleEndian(m, 8) /\ high = Numeric!LittleEndian(y, v)
  OBVIOUS
<1>10. low \in Seq(Nat) /\ Len(low) = 8 /\ Holds(low, 1, 8, x, NumberBytes)
  <2>1. m \in Int /\ 8 \in 0 .. 16
    OBVIOUS
  <2>2. /\ Numeric!LittleEndian(m, 8) \in Seq(Nat) /\ Len(Numeric!LittleEndian(m, 8)) = 8
        /\ Holds(Numeric!LittleEndian(m, 8), 1, 8, m % NumberBytes ^ 8, NumberBytes)
    BY <2>1, NumericLittleEndian
  <2> QED
    BY <1>2, <1>6, <1>9, <2>2
<1>11. high \in Seq(Nat) /\ Len(high) = v /\ Holds(high, 1, v, y, NumberBytes)
  <2>1. v \in 0 .. 16
    OBVIOUS
  <2>2. /\ Numeric!LittleEndian(y, v) \in Seq(Nat) /\ Len(Numeric!LittleEndian(y, v)) = v
        /\ Holds(Numeric!LittleEndian(y, v), 1, v, y % NumberBytes ^ v, NumberBytes)
    BY <2>1, NumericLittleEndian
  <2> QED
    BY <1>3, <1>8, <1>9, <2>2
<1>12. PICK t : t = low \o high
  OBVIOUS
<1>13. t \in Seq(Nat) /\ Len(t) = 8 + v
  <2>1. t \in Seq(Nat) /\ Len(t) = Len(low) + Len(high)
    BY <1>10, <1>11, <1>12, ConcatProperties
  <2> QED
    BY <1>10, <1>11, <2>1
<1>14. Holds(t, 1, 8, x, NumberBytes)
  <2>1. 8 \in Nat /\ 1 \in Nat \ {0} /\ 1 + 8 <= Len(low) + 1
    BY <1>10
  <2> QED
    BY <1>10, <1>11, <1>12, <2>1, HeldByPart
<1>15. Holds(t, 1 + 8, v, y, NumberBytes)
  <2>1. v \in Nat /\ 1 \in Nat \ {0} /\ 1 + v <= Len(high) + 1
    BY <1>11
  <2>2. Holds(low \o high, Len(low) + 1, v, y, NumberBytes)
    BY <1>10, <1>11, <2>1, JoinedHolds
  <2>3. Len(low) + 1 = 1 + 8
    BY <1>10
  <2> QED
    BY <1>12, <2>2, <2>3
<1>16. x + NumberBytes ^ 8 * y = m
  <2>1. p * y = y * p /\ p * y \in Int
    BY <1>6
  <2> QED
    BY <1>2, <1>6, <2>1
<1>17. 8 \in 0 .. 16 /\ v \in 0 .. 16
  OBVIOUS
<1>18. MagnitudeIn(t, n)
  BY <1>1, <1>13, <1>14, <1>15, <1>16, <1>17 DEF MagnitudeIn
<1> QED
  BY <1>1, <1>2, <1>6, <1>9, <1>12, <1>18

\* Both encoders write a magnitude whole or halved.
LEMMA MagnitudesWritten ==
    ASSUME NEW n \in Int, Numeric!Magnitude(n) < Ten ^ MaxPrecision
    PROVE  /\ MagnitudeIn(Numeric!FilledMagnitude(n), n)
           /\ MagnitudeIn(Numeric!AppendedMagnitude(n), n)
<1>1. Numeric!MagnitudeLen(n) \in {4, 8, 12, 16}
  BY MagnitudeFits
<1>2. MagnitudeIn(Numeric!LittleEndian(Numeric!Magnitude(n), Numeric!MagnitudeLen(n)), n)
  BY WholeMagnitude
<1>3. CASE Numeric!MagnitudeLen(n) \in {4, 8}
  <2>1. Numeric!MagnitudeLen(n) # 12
    BY <1>3
  <2> QED
    BY <1>2, <1>3, <2>1 DEF Numeric!FilledMagnitude, Numeric!AppendedMagnitude
<1>4. CASE Numeric!MagnitudeLen(n) = 12
  <2>1. 4 \in {4, 8} /\ Numeric!MagnitudeLen(n) = 8 + 4
    BY <1>4
  <2>2. MagnitudeIn(Numeric!LittleEndian(Numeric!Magnitude(n), 8)
                        \o Numeric!LittleEndian(Numeric!Magnitude(n) \div NumberBytes ^ 8, 4), n)
    BY <2>1, HalvedMagnitude
  <2>3. Numeric!MagnitudeLen(n) \notin {4, 8}
    BY <1>4
  <2> QED
    BY <1>4, <2>2, <2>3 DEF Numeric!FilledMagnitude, Numeric!AppendedMagnitude
<1>5. CASE Numeric!MagnitudeLen(n) = 16
  <2>1. 8 \in {4, 8} /\ Numeric!MagnitudeLen(n) = 8 + 8
    BY <1>5
  <2>2. MagnitudeIn(Numeric!LittleEndian(Numeric!Magnitude(n), 8)
                        \o Numeric!LittleEndian(Numeric!Magnitude(n) \div NumberBytes ^ 8, 8), n)
    BY <2>1, HalvedMagnitude
  <2>3. Numeric!MagnitudeLen(n) \notin {4, 8} /\ Numeric!MagnitudeLen(n) # 12
    BY <1>5
  <2> QED
    BY <1>2, <2>2, <2>3 DEF Numeric!FilledMagnitude, Numeric!AppendedMagnitude
<1> QED
  BY <1>1, <1>3, <1>4, <1>5

\* What a reader of the bytes of a numeric cell finds.
LEMMA NumericReads ==
    ASSUME NEW bytes
    PROVE  Numeric!Decode(bytes) =
               LET width == IF field.nullable THEN Len(bytes) - 1 ELSE Len(bytes)
                   unsigned == SumOf(bytes, IF field.nullable THEN 2 ELSE 1, Len(bytes), NumberBytes)
                   rest == SumOf(bytes, 3, Len(bytes), NumberBytes)
               IN  IF target.value.name = "decimal"
                   THEN IF bytes[1] = 0 THEN Numeric!Null
                        ELSE Numeric!Number(IF bytes[2] = 0 THEN -rest ELSE rest)
                   ELSE IF field.nullable /\ bytes[1] = 0 THEN Numeric!Null
                   ELSE Numeric!Number(IF target.value.name \notin {"bit", "tinyint"}
                                           /\ unsigned * 2 >= NumberBytes ^ width
                                       THEN unsigned - NumberBytes ^ width ELSE unsigned)
BY Zenon DEF Numeric!Decode, SumOf

LEMMA DecimalReads ==
    ASSUME target.value.name = "decimal", NEW n \in Int, Numeric!Magnitude(n) < Ten ^ MaxPrecision,
           NEW t, MagnitudeIn(t, n),
           NEW s, s = <<1 + Numeric!MagnitudeLen(n), Numeric!DecimalSign(n)>> \o t
    PROVE  Len(s) = Numeric!DecimalCellLen(n) /\ Numeric!Decode(s) = Numeric!Number(n)
<1>1. PICK len \in Nat : len = Numeric!MagnitudeLen(n) /\ len \in {4, 8, 12, 16}
  BY MagnitudeFits
<1>2. PICK sign \in {0, 1} : sign = Numeric!DecimalSign(n) /\ (sign = 0 <=> n < 0)
  BY DEF Numeric!DecimalSign
<1>3. PICK head \in Seq(Nat) : head = <<1 + len, sign>>
  <2>1. PICK a \in Nat, b \in Nat : a = 1 + len /\ b = sign
    OBVIOUS
  <2>2. <<a, b>> \in Seq(Nat)
    OBVIOUS
  <2> QED
    BY <2>1, <2>2
<1>4. Len(head) = 2 /\ head[1] = 1 + len /\ head[2] = sign
  BY <1>3
<1>5. t \in Seq(Nat) /\ Len(t) = len
  BY <1>1 DEF MagnitudeIn
<1>6. s = head \o t
  BY <1>1, <1>2, <1>3
<1>7. /\ s \in Seq(Nat) /\ Len(s) = Len(head) + Len(t)
      /\ \A i \in 1 .. Len(head) + Len(t) : s[i] = IF i <= Len(head) THEN head[i] ELSE t[i - Len(head)]
  <2>1. PICK q \in Seq(Nat) : q = t
    BY <1>5
  <2>2. PICK j : j = head \o q
    OBVIOUS
  <2>3. /\ j \in Seq(Nat) /\ Len(j) = Len(head) + Len(q)
        /\ \A i \in 1 .. Len(head) + Len(q) :
               j[i] = IF i <= Len(head) THEN head[i] ELSE q[i - Len(head)]
    BY <2>2, JoinedIs
  <2> QED
    BY <1>6, <2>1, <2>2, <2>3
<1>8. Len(s) = 2 + len /\ s[1] = 1 + len /\ s[2] = sign
  BY <1>4, <1>5, <1>7
<1>9a. PICK w \in 0 .. 16 : \E v \in 0 .. 16 : \E x, y :
            /\ w + v = len
            /\ Holds(t, 1, w, x, NumberBytes) /\ Holds(t, 1 + w, v, y, NumberBytes)
            /\ x + NumberBytes ^ w * y = Numeric!Magnitude(n)
  BY <1>1 DEF MagnitudeIn
<1>9b. PICK v \in 0 .. 16 : \E x, y :
            /\ w + v = len
            /\ Holds(t, 1, w, x, NumberBytes) /\ Holds(t, 1 + w, v, y, NumberBytes)
            /\ x + NumberBytes ^ w * y = Numeric!Magnitude(n)
  BY <1>9a
<1>9. PICK x, y :
            /\ w + v = len
            /\ Holds(t, 1, w, x, NumberBytes) /\ Holds(t, 1 + w, v, y, NumberBytes)
            /\ x + NumberBytes ^ w * y = Numeric!Magnitude(n)
  BY <1>9b
<1>10. PICK at \in Nat \ {0}, last \in Nat, to \in Nat : at = 3 /\ last = Len(s) /\ to = at + w
  <2>1. Len(s) \in Nat
    BY <1>8
  <2>2. 3 \in Nat \ {0} /\ 3 + w \in Nat
    OBVIOUS
  <2> QED
    BY <2>1, <2>2
<1>11. Holds(s, at, w, x, NumberBytes)
  <2>1. 1 \in Nat \ {0} /\ 1 + w <= Len(t) + 1 /\ w \in Nat
    BY <1>5, <1>9
  <2>2. Holds(head \o t, Len(head) + 1, w, x, NumberBytes)
    BY <1>5, <1>9, <2>1, JoinedHolds
  <2>3. Len(head) + 1 = at
    BY <1>4, <1>10
  <2> QED
    BY <1>6, <2>2, <2>3
<1>12. Holds(s, to, v, y, NumberBytes)
  <2>1. PICK k \in Nat \ {0} : k = 1 + w
    OBVIOUS
  <2>2. k + v <= Len(t) + 1 /\ v \in Nat /\ Holds(t, k, v, y, NumberBytes)
    BY <1>5, <1>9, <2>1
  <2>3. Holds(head \o t, Len(head) + k, v, y, NumberBytes)
    BY <1>5, <2>2, JoinedHolds
  <2>4. Len(head) + k = to
    BY <1>4, <1>10, <2>1
  <2> QED
    BY <1>6, <2>3, <2>4
<1>13. SumOf(s, at, last, NumberBytes) = x + NumberBytes ^ w * y
  <2>1. Naturals(s, at, last)
    <3>1. ASSUME NEW i \in at .. last PROVE s[i] \in Nat
      <4>1. i \in 1 .. Len(s)
        BY <1>8, <1>10
      <4> QED
        BY <1>7, <4>1, ElementOfSeq
    <3> QED
      BY <3>1 DEF Naturals
  <2>2. at \in Nat /\ to + v = last + 1 /\ w \in Nat /\ v \in Nat
    BY <1>8, <1>9, <1>10
  <2>3. Radix(NumberBytes, w) /\ Radix(NumberBytes, v)
    BY ByteRadix
  <2> QED
    BY <1>10, <1>11, <1>12, <2>1, <2>2, <2>3, ReadsHalves
<1>14. SumOf(s, 3, Len(s), NumberBytes) = Numeric!Magnitude(n)
  BY <1>9, <1>10, <1>13
<1>15. s[1] # 0 /\ (s[2] = 0 <=> n < 0)
  BY <1>2, <1>8
<1>16. Numeric!Decode(s)
          = Numeric!Number(IF n < 0 THEN -Numeric!Magnitude(n) ELSE Numeric!Magnitude(n))
  BY <1>14, <1>15, NumericReads
<1>17. (IF n < 0 THEN -Numeric!Magnitude(n) ELSE Numeric!Magnitude(n)) = n
  BY DEF Numeric!Magnitude
<1>18. Len(s) = Numeric!DecimalCellLen(n)
  BY <1>1, <1>8 DEF Numeric!DecimalCellLen
<1> QED
  BY <1>16, <1>17, <1>18

\* Numbers of a width are numbers of twice the width.
LEMMA Widened ==
    ASSUME NEW j \in {1, 2, 4}
    PROVE  /\ Numeric!IntRange(j) \subseteq Numeric!IntRange(j + j)
           /\ Numeric!UIntRange(j) \subseteq Numeric!IntRange(j + j)
<1>1. PICK b \in Nat : b = NumberBytes /\ b > 1
  BY BytePowers
<1>2. PICK p \in Nat : p = NumberBytes ^ j
  BY BytePowers
<1>3. p >= 2
  <2>1. PICK k \in 0 .. 15 : k + 1 = j
    <3>1. j - 1 \in 0 .. 15 /\ (j - 1) + 1 = j
      OBVIOUS
    <3> QED
      BY <3>1
  <2>2. PICK q \in Nat \ {0} : q = NumberBytes ^ k
    BY BytePowers
  <2>3. p = b * q
    BY <1>1, <1>2, <2>1, <2>2, BytePowers
  <2>4. b * q >= 2
    <3>1. PICK c \in Nat : b = 2 + c
      <4>1. b - 2 \in Nat /\ b = 2 + (b - 2)
        BY <1>1
      <4> QED
        BY <4>1
    <3>2. (2 + c) * q = 2 * q + c * q /\ c * q \in Nat
      BY ONLY c \in Nat, q \in Nat \ {0}
    <3> QED
      BY <3>1, <3>2
  <2> QED
    BY <2>3, <2>4
<1>4. PICK d \in Nat : d = NumberBytes ^ (j + j) /\ d = p * p
  <2>1. PICK i \in 0 .. 16, k \in 0 .. 16 : i = j /\ k = j /\ k \in 0 .. 16 - i
    OBVIOUS
  <2>2. NumberBytes ^ (i + k) = NumberBytes ^ i * NumberBytes ^ k
    BY <2>1, BytePowers
  <2>3. p * p \in Nat
    OBVIOUS
  <2> QED
    BY <1>2, <2>1, <2>2, <2>3
<1>5. d >= 2 * p
  <2>1. PICK c \in Nat : p = 2 + c
    <3>1. p - 2 \in Nat /\ p = 2 + (p - 2)
      BY <1>3
    <3> QED
      BY <3>1
  <2>2. (2 + c) * (2 + c) = 2 * (2 + c) + c * (2 + c) /\ c * (2 + c) \in Nat
    BY ONLY c \in Nat
  <2> QED
    BY <1>4, <2>1, <2>2
<1>6. /\ -(p \div 2) .. (p \div 2) - 1 \subseteq -(d \div 2) .. (d \div 2) - 1
      /\ 0 .. p - 1 \subseteq -(d \div 2) .. (d \div 2) - 1
  BY <1>5
<1> QED
  BY <1>2, <1>4, <1>6 DEF Numeric!IntRange, Numeric!UIntRange

\* The numbers a primitive cell may hold.
WidthRange(name, w) ==
    IF name \in {"bit", "tinyint"} THEN Numeric!UIntRange(w) ELSE Numeric!IntRange(w)

LEMMA PrimitiveFits ==
    ASSUME Numeric!IsOk(Numeric!ClassifyPrimitive(field.arrow, target.value)),
           NEW n, IsNumberOf(field.arrow.name, n),
           field.arrow.name = "uint64" => n \in Numeric!IntRange(8)
    PROVE  /\ Numeric!PrimitiveValueLen(target.value) \in {1, 2, 4, 8}
           /\ n \in WidthRange(target.value.name, Numeric!PrimitiveValueLen(target.value))
<1> DEFINE a == field.arrow.name
           name == target.value.name
           w == Numeric!PrimitiveValueLen(target.value)
<1>1. <<a, name>> \in Numeric!PrimitivePairs
  BY DEF Numeric!ClassifyPrimitive, Numeric!IsOk, Numeric!Unsupported, Numeric!Fail
<1>2. /\ \A k : Numbers!IntRange(k) = Numeric!IntRange(k)
      /\ \A k : Numbers!UIntRange(k) = Numeric!UIntRange(k)
  BY DEF Numbers!IntRange, Numeric!IntRange, Numbers!UIntRange, Numeric!UIntRange
<1>3. /\ Numeric!IntRange(1) \subseteq Numeric!IntRange(2)
      /\ Numeric!UIntRange(2) \subseteq Numeric!IntRange(4)
      /\ Numeric!UIntRange(4) \subseteq Numeric!IntRange(8)
  <2>1. Numeric!IntRange(1) \subseteq Numeric!IntRange(1 + 1)
    BY Widened
  <2>2. Numeric!UIntRange(2) \subseteq Numeric!IntRange(2 + 2)
    BY Widened
  <2>3. Numeric!UIntRange(4) \subseteq Numeric!IntRange(4 + 4)
    BY Widened
  <2>4. 1 + 1 = 2 /\ 2 + 2 = 4 /\ 4 + 4 = 8
    OBVIOUS
  <2> QED
    BY <2>1, <2>2, <2>3, <2>4
<1>4. SUFFICES w \in {1, 2, 4, 8} /\ n \in WidthRange(name, w)
  OBVIOUS
<1> HIDE DEF a, name, w
<1>5. CASE a = "boolean" /\ name = "bit"
  <2>1. w = 1
    BY <1>5 DEF w, name, Numeric!PrimitiveValueLen
  <2>2. n \in {0, 1}
    BY <1>5 DEF a, IsNumberOf
  <2>3. NumberBytes ^ 1 \in Nat /\ NumberBytes ^ 1 > 1
    <3>1. PICK k \in 0 .. 15 : k = 0
      OBVIOUS
    <3>2. NumberBytes ^ (k + 1) = NumberBytes * NumberBytes ^ k /\ NumberBytes ^ k = 1 /\ k + 1 = 1
      BY <3>1, BytePowers
    <3> QED
      BY <3>2, BytePowers
  <2>4. n \in WidthRange(name, 1)
    BY <1>5, <2>2, <2>3 DEF WidthRange, Numeric!UIntRange
  <2> QED
    BY <2>1, <2>4
<1>6. CASE a = "uint8" /\ name = "tinyint"
  <2>1. w = 1
    BY <1>6 DEF w, name, Numeric!PrimitiveValueLen
  <2>2. n \in Numeric!UIntRange(1)
    BY <1>2, <1>6 DEF a, IsNumberOf
  <2> QED
    BY <1>6, <2>1, <2>2 DEF WidthRange
<1>7. ASSUME NEW width \in {1, 2, 4, 8}, name \notin {"bit", "tinyint"}, w = width,
             n \in Numeric!IntRange(width)
      PROVE  w \in {1, 2, 4, 8} /\ n \in WidthRange(name, w)
  BY <1>7 DEF WidthRange
<1>8. CASE a = "int8" /\ name = "smallint"
  <2>1. w = 2 /\ name \notin {"bit", "tinyint"}
    BY <1>8 DEF w, name, Numeric!PrimitiveValueLen
  <2>2. n \in Numeric!IntRange(1)
    BY <1>2, <1>8 DEF a, IsNumberOf, SignedBytes
  <2>3. n \in Numeric!IntRange(2)
    BY <1>3, <2>2
  <2> QED
    BY <1>7, <2>1, <2>3
<1>9. CASE a = "int16" /\ name = "smallint"
  <2>1. w = 2 /\ name \notin {"bit", "tinyint"}
    BY <1>9 DEF w, name, Numeric!PrimitiveValueLen
  <2>2. n \in Numeric!IntRange(2)
    BY <1>2, <1>9 DEF a, IsNumberOf, SignedBytes
  <2> QED
    BY <1>7, <2>1, <2>2
<1>10. CASE a = "int32" /\ name = "int"
  <2>1. w = 4 /\ name \notin {"bit", "tinyint"}
    BY <1>10 DEF w, name, Numeric!PrimitiveValueLen
  <2>2. n \in Numeric!IntRange(4)
    BY <1>2, <1>10 DEF a, IsNumberOf, SignedBytes
  <2> QED
    BY <1>7, <2>1, <2>2
<1>11. CASE a = "uint16" /\ name = "int"
  <2>1. w = 4 /\ name \notin {"bit", "tinyint"}
    BY <1>11 DEF w, name, Numeric!PrimitiveValueLen
  <2>2. n \in Numeric!UIntRange(2)
    BY <1>2, <1>11 DEF a, IsNumberOf
  <2>3. n \in Numeric!IntRange(4)
    BY <1>3, <2>2
  <2> QED
    BY <1>7, <2>1, <2>3
<1>12. CASE a = "int64" /\ name = "bigint"
  <2>1. w = 8 /\ name \notin {"bit", "tinyint"}
    BY <1>12 DEF w, name, Numeric!PrimitiveValueLen
  <2>2. n \in Numeric!IntRange(8)
    BY <1>2, <1>12 DEF a, IsNumberOf, SignedBytes
  <2> QED
    BY <1>7, <2>1, <2>2
<1>13. CASE a = "uint32" /\ name = "bigint"
  <2>1. w = 8 /\ name \notin {"bit", "tinyint"}
    BY <1>13 DEF w, name, Numeric!PrimitiveValueLen
  <2>2. n \in Numeric!UIntRange(4)
    BY <1>2, <1>13 DEF a, IsNumberOf
  <2>3. n \in Numeric!IntRange(8)
    BY <1>3, <2>2
  <2> QED
    BY <1>7, <2>1, <2>3
<1>14. CASE a = "uint64" /\ name = "bigint"
  <2>1. w = 8 /\ name \notin {"bit", "tinyint"}
    BY <1>14 DEF w, name, Numeric!PrimitiveValueLen
  <2>2. n \in Numeric!IntRange(8)
    BY <1>14 DEF a
  <2> QED
    BY <1>7, <2>1, <2>2
<1>15. CASE a \in {"float16", "float32"} /\ name = "real"
  <2>1. w = 4 /\ name \notin {"bit", "tinyint"}
    BY <1>15 DEF w, name, Numeric!PrimitiveValueLen
  <2>2. n \in Numeric!IntRange(4)
    BY <1>2, <1>15 DEF a, IsNumberOf, SignedBytes
  <2> QED
    BY <1>7, <2>1, <2>2
<1>16. CASE a = "float64" /\ name = "float"
  <2>1. w = 8 /\ name \notin {"bit", "tinyint"}
    BY <1>16 DEF w, name, Numeric!PrimitiveValueLen
  <2>2. n \in Numeric!IntRange(8)
    BY <1>2, <1>16 DEF a, IsNumberOf, SignedBytes
  <2> QED
    BY <1>7, <2>1, <2>2
<1> QED
  BY <1>1, <1>5, <1>6, <1>8, <1>9, <1>10, <1>11, <1>12, <1>13, <1>14, <1>15, <1>16
     DEF Numeric!PrimitivePairs

LEMMA PrimitiveReads ==
    ASSUME target.value.name # "decimal", field.nullable \in BOOLEAN,
           NEW w \in {1, 2, 4, 8}, w = Numeric!PrimitiveValueLen(target.value),
           NEW n, n \in WidthRange(target.value.name, w),
           NEW s, s = Numeric!PrimitiveBytes(target.value, field.nullable, n)
    PROVE  /\ Len(s) = w + (IF field.nullable THEN 1 ELSE 0)
           /\ Numeric!Decode(s) = Numeric!Number(n)
<1>0. w \in 0 .. 16 /\ w \in Nat \ {0}
  OBVIOUS
<1>1. PICK p \in Nat \ {0} : p = NumberBytes ^ w
  BY <1>0, BytePowers
<1> DEFINE small == target.value.name \in {"bit", "tinyint"}
<1>2. n \in Int /\ (small => n \in 0 .. p - 1) /\ (~ small => n \in -(p \div 2) .. (p \div 2) - 1)
  BY <1>1 DEF WidthRange, Numeric!UIntRange, Numeric!IntRange
<1>3. PICK u \in 0 .. p - 1 : u = n % p /\ (n >= 0 => u = n) /\ (n < 0 => u = n + p)
  <2>1. CASE n >= 0
    <3>1. n \in 0 .. p - 1
      BY <1>2, <2>1
    <3>2. n % p = n
      BY <3>1
    <3> QED
      BY <2>1, <3>1, <3>2
  <2>2. CASE n < 0
    <3>1. PICK q \in Int, r \in 0 .. p - 1 : q = -1 /\ r = n + p
      BY <1>2, <2>2
    <3>2. (q * p + r) % p = r
      BY QuotientIs
    <3>3. q * p + r = n
      BY <1>2, <3>1
    <3> QED
      BY <1>2, <2>2, <3>1, <3>2, <3>3
  <2> QED
    BY <1>2, <2>1, <2>2
<1>4. (IF ~ small /\ u * 2 >= p THEN u - p ELSE u) = n
  <2>1. CASE n >= 0
    BY <1>2, <1>3, <2>1
  <2>2. CASE n < 0
    BY <1>2, <1>3, <2>2
  <2> QED
    BY <1>2, <2>1, <2>2
<1>5. PICK t \in Seq(Nat) :
         t = Numeric!LittleEndian(n, w) /\ Len(t) = w /\ Holds(t, 1, w, u, NumberBytes)
  <2>1. /\ Numeric!LittleEndian(n, w) \in Seq(Nat) /\ Len(Numeric!LittleEndian(n, w)) = w
        /\ Holds(Numeric!LittleEndian(n, w), 1, w, n % NumberBytes ^ w, NumberBytes)
    BY <1>0, <1>2, NumericLittleEndian
  <2> QED
    BY <1>1, <1>3, <2>1
<1>6. Radix(NumberBytes, w)
  BY ByteRadix
<1>7. CASE ~ field.nullable
  <2>1. s = t
    BY <1>5, <1>7 DEF Numeric!PrimitiveBytes
  <2>2. SumOf(s, 1, w, NumberBytes) = u
    <3>1. Naturals(t, 1, w)
      BY <1>5 DEF Naturals
    <3>2. 1 \in Nat /\ w \in Nat /\ 1 + w = w + 1
      OBVIOUS
    <3> QED
      BY <1>5, <1>6, <2>1, <3>1, <3>2, ReadsNumber
  <2>3. Numeric!Decode(s) = Numeric!Number(IF ~ small /\ u * 2 >= p THEN u - p ELSE u)
    BY <1>1, <1>5, <1>7, <2>1, <2>2, NumericReads
  <2> QED
    BY <1>4, <1>5, <1>7, <2>1, <2>3
<1>8. CASE field.nullable
  <2>1. s = <<w>> \o t
    BY <1>5, <1>8 DEF Numeric!PrimitiveBytes
  <2>2. PICK head \in Seq(Nat) : head = <<w>> /\ Len(head) = 1 /\ head[1] = w
    <3>1. PICK a \in Nat : a = w
      OBVIOUS
    <3>2. <<a>> \in Seq(Nat)
      OBVIOUS
    <3> QED
      BY <3>1, <3>2
  <2>3. /\ s \in Seq(Nat) /\ Len(s) = Len(head) + Len(t)
        /\ \A i \in 1 .. Len(head) + Len(t) :
               s[i] = IF i <= Len(head) THEN head[i] ELSE t[i - Len(head)]
    BY <2>1, <2>2, ConcatProperties
  <2>4. Len(s) = 1 + w /\ s[1] = w
    <3>1. Len(s) = 1 + w
      BY <1>0, <1>5, <2>2, <2>3
    <3>2. 1 \in 1 .. Len(head) + Len(t) /\ 1 <= Len(head)
      BY <1>0, <1>5, <2>2
    <3>3. s[1] = head[1]
      BY <2>3, <3>2
    <3> QED
      BY <2>2, <3>1, <3>3
  <2>5. SumOf(s, 2, 1 + w, NumberBytes) = u
    <3>1. PICK last \in Nat : last = 1 + w
      OBVIOUS
    <3>2. Naturals(s, 2, last)
      <4>1. \A i \in 1 .. Len(s) : s[i] \in Nat
        BY <2>3
      <4>2. Len(s) = last
        BY <2>4, <3>1
      <4> QED
        BY <3>1, <4>1, <4>2 DEF Naturals
    <3>3. 2 \in Nat /\ w \in Nat /\ 2 + w = last + 1
      BY <3>1
    <3>4. Holds(s, 2, w, u, NumberBytes)
      <4>1. 1 \in Nat \ {0} /\ 1 + w <= Len(t) + 1 /\ w \in Nat
        BY <1>5
      <4>2. Holds(head \o t, Len(head) + 1, w, u, NumberBytes)
        BY <1>5, <4>1, JoinedHolds
      <4>3. Len(head) + 1 = 2
        BY <2>2
      <4> QED
        BY <2>1, <2>2, <4>2, <4>3
    <3> QED
      BY <1>6, <3>1, <3>2, <3>3, <3>4, ReadsNumber
  <2>6. s[1] # 0 /\ Len(s) - 1 = w
    BY <2>4
  <2>7. Numeric!Decode(s) = Numeric!Number(IF ~ small /\ u * 2 >= p THEN u - p ELSE u)
    BY <1>1, <1>8, <2>4, <2>5, <2>6, NumericReads
  <2>8. Len(s) = w + 1
    BY <1>0, <2>4
  <2> QED
    BY <1>4, <1>8, <2>7, <2>8
<1> QED
  BY <1>7, <1>8

\* A cell of its length from which a reader reads n, or null.
ReadAs(bytes, v, len, n) ==
    /\ Len(bytes) = len
    /\ Numeric!Decode(bytes) = IF v = Numeric!Null THEN Numeric!Null ELSE Numeric!Number(n)

NumericCellOf(v) == Numeric!TokenCell(field.arrow, target.value, field.nullable, v)

LEMMA NumericNullWritten ==
    ASSUME field.nullable \in BOOLEAN, NEW v, v = Numeric!Null, Numeric!MeasureCell(v).code = "ok",
           NEW len, len = Numeric!MeasureCell(v).value, NEW n
    PROVE  /\ Numeric!FillCell(v, len) = Numeric!Ok(<<0>>)
           /\ Numeric!AppendCell(v, len) = Numeric!Ok(<<0>>)
           /\ ReadAs(<<0>>, v, len, n)
<1>1. field.nullable /\ len = 1
  <2>1. Numeric!MeasureCell(v) = Numeric!NullLen
    BY DEF Numeric!MeasureCell
  <2> QED
    BY <2>1 DEF Numeric!NullLen, Numeric!Ok, Numeric!Fail
<1>2. Numeric!IsOk(Numeric!NullLen)
  BY <1>1 DEF Numeric!NullLen, Numeric!Ok, Numeric!IsOk
<1>3. PICK bytes : bytes = <<0>>
  OBVIOUS
<1>4. Len(bytes) = 1 /\ bytes[1] = 0
  BY <1>3
<1>5. Numeric!Sized(bytes, len) = Numeric!Ok(bytes)
  BY <1>1, <1>4 DEF Numeric!Sized
<1>6. Numeric!FillCell(v, len) = Numeric!Ok(bytes) /\ Numeric!AppendCell(v, len) = Numeric!Ok(bytes)
  BY <1>2, <1>3, <1>5 DEF Numeric!FillCell, Numeric!AppendCell, Numeric!FillNull, Numeric!AppendNull
<1>7. Numeric!Decode(bytes) = Numeric!Null
  BY <1>1, <1>4, NumericReads
<1> QED
  BY <1>1, <1>3, <1>4, <1>6, <1>7 DEF ReadAs

LEMMA PrimitiveWritten ==
    ASSUME field \in NumericFields, encoding = Numeric!Ok("primitive"),
           Numeric!IsOk(Numeric!ClassifyPrimitive(field.arrow, target.value)),
           NEW v, v # Numeric!Null, IsNumericSlot(field.arrow, v),
           Numeric!MeasureCell(v).code = "ok", NEW len, len = Numeric!MeasureCell(v).value
    PROVE  \E bytes :
              /\ Numeric!FillCell(v, len) = Numeric!Ok(bytes)
              /\ Numeric!AppendCell(v, len) = Numeric!Ok(bytes)
              /\ ReadAs(bytes, v, len, NumericCellOf(v).value.n)
<1>1. \/ v.kind = "nonfinite" /\ Numeric!IsFloat(field.arrow)
      \/ v.kind = "number" /\ IsNumberOf(field.arrow.name, v.n)
  BY DEF IsNumericSlot, Numbers!NonFinite, Numbers!Number, Numbers!Null, Numeric!Null,
     Numbers!IsFloat, Numeric!IsFloat
<1>2. target.value.name # "decimal"
  BY DEF Numeric!ClassifyPrimitive, Numeric!PrimitivePairs, Numeric!Unsupported,
     Numeric!Fail, Numeric!IsOk
<1>3. Numeric!MeasureCell(v) = Numeric!MeasurePrimitive(v)
  BY DEF Numeric!MeasureCell, Numeric!Ok
<1>4. Numeric!IsOk(Numeric!CheckedPrimitive(v)) /\ len = Numeric!PrimitiveCellLen
  BY <1>3 DEF Numeric!MeasurePrimitive, Numeric!IsOk, Numeric!Ok
<1>5. v.kind = "number" /\ IsNumberOf(field.arrow.name, v.n)
  <2>1. CASE v.kind = "nonfinite"
    <3>1. field.arrow.name # "uint64"
      BY <1>1, <2>1 DEF Numeric!IsFloat
    <3>2. Numeric!CheckedPrimitive(v) = Numeric!Fail("NonFiniteFloat")
      BY <2>1, <3>1 DEF Numeric!CheckedPrimitive
    <3> QED
      BY <1>4, <3>2 DEF Numeric!Fail, Numeric!IsOk
  <2> QED
    BY <1>1, <2>1
<1>6. /\ field.arrow.name = "uint64" => v.n \in Numeric!IntRange(8)
      /\ Numeric!CheckedPrimitive(v) = Numeric!Ok(v.n)
  <2>1. CASE field.arrow.name = "uint64"
    <3>1. Numeric!CheckedPrimitive(v) = Numeric!UInt64CheckedBigInt(v.n)
      BY <1>5, <2>1 DEF Numeric!CheckedPrimitive
    <3>2. v.n \in Numeric!IntRange(8)
      BY <1>4, <3>1 DEF Numeric!UInt64CheckedBigInt, Numeric!Fail, Numeric!IsOk
    <3> QED
      BY <3>1, <3>2 DEF Numeric!UInt64CheckedBigInt
  <2>2. CASE field.arrow.name # "uint64"
    BY <1>5, <2>2 DEF Numeric!CheckedPrimitive
  <2> QED
    BY <2>1, <2>2
<1>7. PICK n, w : n = v.n /\ w = Numeric!PrimitiveValueLen(target.value)
  OBVIOUS
<1>8. w \in {1, 2, 4, 8} /\ n \in WidthRange(target.value.name, w)
  BY <1>5, <1>6, <1>7, PrimitiveFits
<1>9. PICK s : s = Numeric!PrimitiveBytes(target.value, field.nullable, n)
  OBVIOUS
<1>10. /\ Len(s) = w + (IF field.nullable THEN 1 ELSE 0)
       /\ Numeric!Decode(s) = Numeric!Number(n)
  BY <1>2, <1>7, <1>8, <1>9, NumericFacts, PrimitiveReads
<1>11. len = Len(s)
  BY <1>4, <1>7, <1>10 DEF Numeric!PrimitiveCellLen
<1>12. Numeric!Sized(s, len) = Numeric!Ok(s)
  BY <1>11 DEF Numeric!Sized
<1>13. Numeric!FillCell(v, len) = Numeric!Ok(s) /\ Numeric!AppendCell(v, len) = Numeric!Ok(s)
  <2>1. /\ Numeric!FillCell(v, len) = Numeric!FillPrimitive(v, len)
        /\ Numeric!AppendCell(v, len) = Numeric!AppendPrimitive(v, len)
    BY DEF Numeric!FillCell, Numeric!AppendCell, Numeric!Ok
  <2>2. Numeric!CheckedPrimitive(v).value = n /\ Numeric!IsOk(Numeric!CheckedPrimitive(v))
    BY <1>4, <1>6, <1>7 DEF Numeric!Ok
  <2> QED
    BY <1>9, <1>12, <2>1, <2>2 DEF Numeric!FillPrimitive, Numeric!AppendPrimitive
<1>14. NumericCellOf(v).value.n = n
  <2>1. NumericCellOf(v) = Numeric!PrimitiveValue(field.arrow, target.value, v)
    BY <1>2 DEF NumericCellOf, Numeric!TokenCell
  <2>2. NumericCellOf(v) = Numeric!Ok(Numeric!Cell(target.value.name, n, 0))
    BY <1>5, <1>6, <1>7, <2>1 DEF Numeric!PrimitiveValue
  <2> QED
    BY <2>2 DEF Numeric!Ok, Numeric!Cell
<1>15. ReadAs(s, v, len, NumericCellOf(v).value.n)
  BY <1>10, <1>11, <1>14 DEF ReadAs
<1> QED
  BY <1>13, <1>15

\* Both encoders of a decimal that its magnitude has room for.
LEMMA DecimalsRead ==
    ASSUME target.value.name = "decimal", NEW n \in Int, Numeric!Magnitude(n) < Ten ^ MaxPrecision
    PROVE  /\ Len(Numeric!FilledDecimal(n)) = Numeric!DecimalCellLen(n)
           /\ Numeric!Decode(Numeric!FilledDecimal(n)) = Numeric!Number(n)
           /\ Len(Numeric!AppendedDecimal(n)) = Numeric!DecimalCellLen(n)
           /\ Numeric!Decode(Numeric!AppendedDecimal(n)) = Numeric!Number(n)
<1>1. PICK t, u : t = Numeric!FilledMagnitude(n) /\ u = Numeric!AppendedMagnitude(n)
  OBVIOUS
<1>2. MagnitudeIn(t, n) /\ MagnitudeIn(u, n)
  BY <1>1, MagnitudesWritten
<1>3. PICK s : s = <<1 + Numeric!MagnitudeLen(n), Numeric!DecimalSign(n)>> \o t
  OBVIOUS
<1>4. PICK r : r = <<1 + Numeric!MagnitudeLen(n), Numeric!DecimalSign(n)>> \o u
  OBVIOUS
<1>5. Len(s) = Numeric!DecimalCellLen(n) /\ Numeric!Decode(s) = Numeric!Number(n)
  BY <1>2, <1>3, DecimalReads
<1>6. Len(r) = Numeric!DecimalCellLen(n) /\ Numeric!Decode(r) = Numeric!Number(n)
  BY <1>2, <1>4, DecimalReads
<1>7. s = Numeric!FilledDecimal(n) /\ r = Numeric!AppendedDecimal(n)
  BY <1>1, <1>3, <1>4 DEF Numeric!FilledDecimal, Numeric!AppendedDecimal
<1> QED
  BY <1>5, <1>6, <1>7

LEMMA UInt64Written ==
    ASSUME field \in NumericFields, encoding = Numeric!Ok("decimal20_0"), PlannedUInt64,
           NEW v, v # Numeric!Null, IsNumericSlot(field.arrow, v),
           NEW len, len = Numeric!MeasureCell(v).value
    PROVE  /\ Numeric!FillCell(v, len) = Numeric!Ok(Numeric!FilledDecimal(v.n))
           /\ Numeric!AppendCell(v, len) = Numeric!Ok(Numeric!AppendedDecimal(v.n))
           /\ ReadAs(Numeric!FilledDecimal(v.n), v, len, NumericCellOf(v).value.n)
           /\ ReadAs(Numeric!AppendedDecimal(v.n), v, len, NumericCellOf(v).value.n)
<1>1. /\ field.arrow.name = "uint64" /\ ~Numeric!IsDecimal(field.arrow)
      /\ target.value = Numeric!Type("decimal", UInt64Digits, 0)
      /\ target.value.name = "decimal" /\ target.value.scale = 0
      /\ target.value.precision = UInt64Digits
  BY DEF PlannedUInt64, Numeric!Type, Numeric!IsDecimal
<1>2. v.kind = "number" /\ v.n \in 0 .. NumberBytes ^ 8 - 1
  BY <1>1 DEF IsNumericSlot, Numbers!NonFinite, Numbers!Number, Numbers!Null, Numeric!Null,
     Numbers!IsFloat, IsNumberOf, Numbers!UIntRange
<1>3. UInt64Digits \in Nat \ {0} /\ UInt64Digits <= MaxPrecision /\ MaxPrecision \in Nat
  BY ValuesAssumption DEF NumericAssumption, Numeric!DigitsAssumption
<1>4. PICK a \in Nat, b \in Nat : a = Ten ^ UInt64Digits /\ b = Ten ^ MaxPrecision /\ a <= b
  <2>1. CASE UInt64Digits = MaxPrecision
    BY <1>3, <2>1, Powers
  <2>2. CASE UInt64Digits < MaxPrecision
    <3>1. Ten ^ UInt64Digits < Ten ^ MaxPrecision
      BY <1>3, <2>2, PowersGrow
    <3>2. Ten ^ UInt64Digits \in Nat /\ Ten ^ MaxPrecision \in Nat
      BY <1>3, Powers
    <3> QED
      BY <3>1, <3>2
  <2> QED
    BY <1>3, <2>1, <2>2
<1>5. PICK n \in Int : n = v.n /\ n >= 0 /\ n < a
  BY <1>2, <1>4, NumericFacts
<1>6. Numeric!Magnitude(n) < Ten ^ MaxPrecision
  BY <1>4, <1>5 DEF Numeric!Magnitude
<1>7. /\ Len(Numeric!FilledDecimal(n)) = Numeric!DecimalCellLen(n)
      /\ Numeric!Decode(Numeric!FilledDecimal(n)) = Numeric!Number(n)
      /\ Len(Numeric!AppendedDecimal(n)) = Numeric!DecimalCellLen(n)
      /\ Numeric!Decode(Numeric!AppendedDecimal(n)) = Numeric!Number(n)
  BY <1>1, <1>6, DecimalsRead
<1>8. len = Numeric!DecimalCellLen(n)
  BY <1>5 DEF Numeric!MeasureCell, Numeric!MeasureUInt64Decimal, Numeric!Ok
<1>9. Numeric!FillCell(v, len) = Numeric!Ok(Numeric!FilledDecimal(n))
  BY <1>5, <1>7, <1>8 DEF Numeric!FillCell, Numeric!FillUInt64Decimal, Numeric!Sized, Numeric!Ok
<1>10. Numeric!AppendCell(v, len) = Numeric!Ok(Numeric!AppendedDecimal(n))
  BY <1>5, <1>8 DEF Numeric!AppendCell, Numeric!AppendUInt64Decimal, Numeric!Ok
<1>11. NumericCellOf(v).value.n = n
  <2>1. NumericCellOf(v) = Numeric!DecimalOfUInt64(field.arrow, target.value, n)
    BY <1>1, <1>5 DEF NumericCellOf, Numeric!TokenCell
  <2>2. Numeric!IsOk(Numeric!ClassifyUInt64(field.arrow, target.value))
    BY <1>1 DEF Numeric!ClassifyUInt64, Numeric!IsOk, Numeric!Ok
  <2>3. NumericCellOf(v) = Numeric!DecimalWithShape(n, target.value)
    BY <1>1, <2>1, <2>2, NumericFacts DEF Numeric!DecimalOfUInt64
  <2>4. NumericCellOf(v) = Numeric!Ok(Numeric!Cell("decimal", n, 0))
    BY <1>1, <1>3, <1>4, <1>5, <2>3 DEF Numeric!DecimalWithShape, Numeric!FitsPrecision
  <2> QED
    BY <2>4 DEF Numeric!Ok, Numeric!Cell
<1> QED
  BY <1>5, <1>7, <1>8, <1>9, <1>10, <1>11 DEF ReadAs

LEMMA DecimalWritten ==
    ASSUME field \in NumericFields, encoding = Numeric!Ok("decimal"), PlannedDecimal,
           Numeric!IsOk(Numeric!ClassifyDecimal(field.arrow, target.value)),
           NEW v, v # Numeric!Null, IsNumericSlot(field.arrow, v),
           Numeric!MeasureCell(v).code = "ok", NEW len, len = Numeric!MeasureCell(v).value
    PROVE  \E n : /\ Numeric!FillCell(v, len) = Numeric!Ok(Numeric!FilledDecimal(n))
                  /\ Numeric!AppendCell(v, len) = Numeric!Ok(Numeric!AppendedDecimal(n))
                  /\ ReadAs(Numeric!FilledDecimal(n), v, len, NumericCellOf(v).value.n)
                  /\ ReadAs(Numeric!AppendedDecimal(n), v, len, NumericCellOf(v).value.n)
<1> DEFINE normal == Numeric!NormalizeNegativeScale(v.n, field.arrow.scale)
           checked == Numeric!NormalizedDecimal(field.arrow, target.value, v.n)
<1>1. Numeric!MeasureCell(v) = Numeric!MeasureDecimal(v.n)
  BY DEF Numeric!MeasureCell, Numeric!Ok
<1>2. Numeric!IsOk(checked)
  BY <1>1 DEF Numeric!MeasureDecimal, Numeric!IsOk
<1>3. PICK n : n = checked.value
  OBVIOUS
<1>4. len = Numeric!DecimalCellLen(n)
  BY <1>1, <1>2, <1>3 DEF Numeric!MeasureDecimal, Numeric!Ok
<1>5. /\ Numeric!FitsI128(v.n) /\ Numeric!IsOk(normal) /\ n = normal.value
      /\ Numeric!FitsPrecision(n, target.value.precision)
  <2>1. Numeric!FitsI128(v.n)
    <3>1. CASE ~Numeric!FitsI128(v.n)
      <4>1. checked = Numeric!Fail("DecimalOutOfRange")
        BY <3>1 DEF Numeric!NormalizedDecimal
      <4> QED
        BY <1>2, <4>1 DEF Numeric!Fail, Numeric!IsOk
    <3> QED
      BY <3>1
  <2>2. Numeric!IsOk(normal)
    <3>1. CASE ~Numeric!IsOk(normal)
      <4>1. checked = normal
        BY <2>1, <3>1 DEF Numeric!NormalizedDecimal
      <4> QED
        BY <1>2, <4>1, <3>1
    <3> QED
      BY <3>1
  <2>3. checked = IF Numeric!FitsPrecision(normal.value, target.value.precision) THEN normal
                  ELSE Numeric!Fail("DecimalOutOfRange")
    BY <2>1, <2>2 DEF Numeric!NormalizedDecimal
  <2>4. Numeric!FitsPrecision(normal.value, target.value.precision)
    BY <1>2, <2>3 DEF Numeric!Fail, Numeric!IsOk
  <2> QED
    BY <1>3, <2>1, <2>2, <2>3, <2>4
<1>6. PICK p \in 0 .. MaxPrecision : p = target.value.precision
  <2>1. /\ field.arrow.precision \in Nat /\ field.arrow.scale \in Int /\ MaxPrecision \in Nat
    BY ValuesAssumption, Powers DEF NumericAssumption
  <2> QED
    BY <2>1 DEF PlannedDecimal
<1>7. n \in Int /\ Numeric!Magnitude(n) < Ten ^ MaxPrecision
  <2>1. PICK a \in Nat, b \in Nat : a = Ten ^ p /\ b = Ten ^ MaxPrecision /\ a <= b
    <3>0. MaxPrecision \in Nat /\ p \in Nat /\ MaxPrecision \in 0 .. MaxPrecision + 1
      BY Powers
    <3>1. CASE p = MaxPrecision
      BY <3>0, <3>1, Powers
    <3>2. CASE p < MaxPrecision
      <4>1. Ten ^ p < Ten ^ MaxPrecision
        BY <3>0, <3>2, PowersGrow
      <4>2. Ten ^ p \in Nat /\ Ten ^ MaxPrecision \in Nat
        BY <3>0, Powers
      <4> QED
        BY <4>1, <4>2
    <3> QED
      BY <3>0, <3>1, <3>2
  <2>2. n \in -(a - 1) .. a - 1
    BY <1>5, <1>6, <2>1 DEF Numeric!FitsPrecision
  <2> QED
    BY <2>1, <2>2 DEF Numeric!Magnitude
<1>8. target.value.name = "decimal" /\ Numeric!IsDecimal(field.arrow)
  BY DEF PlannedDecimal
<1>9. /\ Len(Numeric!FilledDecimal(n)) = Numeric!DecimalCellLen(n)
      /\ Numeric!Decode(Numeric!FilledDecimal(n)) = Numeric!Number(n)
      /\ Len(Numeric!AppendedDecimal(n)) = Numeric!DecimalCellLen(n)
      /\ Numeric!Decode(Numeric!AppendedDecimal(n)) = Numeric!Number(n)
  BY <1>7, <1>8, DecimalsRead
<1>10. Numeric!FillCell(v, len) = Numeric!Ok(Numeric!FilledDecimal(n))
  <2>1. Numeric!FillCell(v, len) = Numeric!FillDecimal(v.n, len)
    BY DEF Numeric!FillCell, Numeric!Ok
  <2> QED
    BY <1>2, <1>3, <1>4, <1>9, <2>1 DEF Numeric!FillDecimal, Numeric!Sized
<1>11. Numeric!AppendCell(v, len) = Numeric!Ok(Numeric!AppendedDecimal(n))
  <2>1. Numeric!AppendCell(v, len) = Numeric!AppendDecimal(v.n, len)
    BY DEF Numeric!AppendCell, Numeric!Ok
  <2> QED
    BY <1>2, <1>3, <1>4, <2>1 DEF Numeric!AppendDecimal
<1>12. NumericCellOf(v).value.n = n
  <2>1. NumericCellOf(v) = Numeric!DecimalValue(field.arrow, target.value, v.n)
    BY <1>8 DEF NumericCellOf, Numeric!TokenCell, Numeric!IsDecimal
  <2>2. NumericCellOf(v) = Numeric!DecimalWithShape(n, target.value)
    BY <1>5, <2>1 DEF Numeric!DecimalValue
  <2>3. NumericCellOf(v) = Numeric!Ok(Numeric!Cell("decimal", n, target.value.scale))
    BY <1>5, <2>2 DEF Numeric!DecimalWithShape
  <2> QED
    BY <2>3 DEF Numeric!Ok, Numeric!Cell
<1>13. /\ ReadAs(Numeric!FilledDecimal(n), v, len, NumericCellOf(v).value.n)
       /\ ReadAs(Numeric!AppendedDecimal(n), v, len, NumericCellOf(v).value.n)
  BY <1>4, <1>9, <1>12 DEF ReadAs
<1> QED
  BY <1>10, <1>11, <1>13

LEMMA NumericCellWritten ==
    ASSUME field \in NumericFields, policy \in NumericPolicies,
           target = Numeric!PlanField(field.arrow, policy), target.code = "ok",
           encoding = Numeric!DirectSupport(field.arrow, target.value), encoding.code = "ok",
           NEW v, IsNumericSlot(field.arrow, v),
           Numeric!MeasureCell(v).code = "ok", NEW len, len = Numeric!MeasureCell(v).value
    PROVE  \E bytes, others :
              /\ Numeric!FillCell(v, len) = Numeric!Ok(bytes)
              /\ Numeric!AppendCell(v, len) = Numeric!Ok(others)
              /\ ReadAs(bytes, v, len, NumericCellOf(v).value.n)
              /\ ReadAs(others, v, len, NumericCellOf(v).value.n)
<1>1. PlannedPrimitive \/ PlannedUInt64 \/ PlannedDecimal
  BY NumericPlans
<1>2. CASE v = Numeric!Null
  BY <1>2, NumericFacts, NumericNullWritten
<1>3. CASE v # Numeric!Null
  <2>1. CASE encoding = Numeric!Ok("primitive")
    <3>1. Numeric!IsOk(Numeric!ClassifyPrimitive(field.arrow, target.value))
      <4>1. Numeric!IsOk(Numeric!ClassifyUInt64(field.arrow, target.value))
               => Numeric!ClassifyUInt64(field.arrow, target.value) # Numeric!Ok("primitive")
        BY DEF Numeric!ClassifyUInt64, Numeric!Ok, Numeric!Unsupported, Numeric!Fail, Numeric!IsOk
      <4> QED
        BY <2>1, <4>1 DEF Numeric!DirectSupport, Numeric!Ok, Numeric!Fail
    <3> QED
      BY <1>3, <2>1, <3>1, PrimitiveWritten
  <2>2. CASE encoding = Numeric!Ok("decimal")
    <3>1. Numeric!IsOk(Numeric!ClassifyDecimal(field.arrow, target.value))
      <4>1. Numeric!IsOk(Numeric!ClassifyUInt64(field.arrow, target.value))
               => Numeric!ClassifyUInt64(field.arrow, target.value) # Numeric!Ok("decimal")
        BY DEF Numeric!ClassifyUInt64, Numeric!Ok, Numeric!Unsupported, Numeric!Fail, Numeric!IsOk
      <4> QED
        BY <2>2, <4>1 DEF Numeric!DirectSupport, Numeric!Ok, Numeric!Fail
    <3>2. Numeric!IsDecimal(field.arrow)
      BY <3>1 DEF Numeric!ClassifyDecimal, Numeric!DecimalTarget, Numeric!Unsupported,
         Numeric!Fail, Numeric!Ok, Numeric!IsOk
    <3>3. PlannedDecimal
      BY <1>1, <3>2 DEF PlannedPrimitive, PlannedUInt64, Numeric!IsDecimal
    <3>4. PICK n : /\ Numeric!FillCell(v, len) = Numeric!Ok(Numeric!FilledDecimal(n))
                   /\ Numeric!AppendCell(v, len) = Numeric!Ok(Numeric!AppendedDecimal(n))
                   /\ ReadAs(Numeric!FilledDecimal(n), v, len, NumericCellOf(v).value.n)
                   /\ ReadAs(Numeric!AppendedDecimal(n), v, len, NumericCellOf(v).value.n)
      BY <1>3, <2>2, <3>1, <3>3, DecimalWritten
    <3> QED
      BY <3>4
  <2>3. CASE ~ (encoding = Numeric!Ok("primitive") \/ encoding = Numeric!Ok("decimal"))
    <3>1. /\ encoding = Numeric!ClassifyUInt64(field.arrow, target.value)
          /\ ~Numeric!IsOk(Numeric!ClassifyPrimitive(field.arrow, target.value))
      BY <2>3 DEF Numeric!DirectSupport, Numeric!Fail
    <3>2. /\ field.arrow.name = "uint64" /\ encoding = Numeric!Ok("decimal20_0")
          /\ target.value = Numeric!Type("decimal", UInt64Digits, 0)
      BY <3>1 DEF Numeric!ClassifyUInt64, Numeric!ClassifyPrimitive, Numeric!PrimitivePairs,
         Numeric!Unsupported, Numeric!Fail, Numeric!Ok, Numeric!IsOk
    <3>3. PlannedUInt64
      BY <3>2 DEF PlannedUInt64
    <3>4. /\ Numeric!FillCell(v, len) = Numeric!Ok(Numeric!FilledDecimal(v.n))
          /\ Numeric!AppendCell(v, len) = Numeric!Ok(Numeric!AppendedDecimal(v.n))
          /\ ReadAs(Numeric!FilledDecimal(v.n), v, len, NumericCellOf(v).value.n)
          /\ ReadAs(Numeric!AppendedDecimal(v.n), v, len, NumericCellOf(v).value.n)
      BY <1>3, <3>2, <3>3, UInt64Written
    <3> QED
      BY <3>4
  <2> QED
    BY <2>1, <2>2, <2>3
<1> QED
  BY <1>2, <1>3

\* Every numeric cell is written in its measured length and read back.
LEMMA NumericDecodes ==
    ASSUME NumericInv, Wrote(NumericFills, NumericAppends)
    PROVE  Numeric!BytesDecodeToTokens
<1>1. SUFFICES ASSUME NEW result \in {filled, appended}, result # Pending
               PROVE  /\ result.code = "ok"
                      /\ \A r \in DOMAIN column :
                             /\ Len(result.cells[r]) = lengths.cells[r]
                             /\ Numeric!Decode(result.cells[r]) =
                                   IF column[r] = Numeric!Null THEN Numeric!Null
                                   ELSE Numeric!Number(tokens.cells[r].n)
  BY Zenon DEF Numeric!BytesDecodeToTokens, Numeric!Pending, Pending
<1>2. lengths.code = "ok"
  BY <1>1 DEF Wrote
<1>3. /\ lengths # Pending /\ encoding.code = "ok" /\ tokens # Pending
      /\ Ends(NumericLengths, Len(column), lengths)
  BY <1>2 DEF NumericInv, Pending
<1>4. /\ field \in NumericFields /\ policy \in NumericPolicies
      /\ target.code = "ok" /\ target = Numeric!PlanField(field.arrow, policy)
      /\ encoding = Numeric!DirectSupport(field.arrow, target.value)
  BY <1>3 DEF NumericInv, Numeric!Undecided, Numeric!Fail
<1>5. /\ Len(column) \in Nat /\ DOMAIN column = 1..Len(column)
      /\ Ends(NumericTokens, Len(column), tokens)
      /\ \A r \in 1..Len(column) : IsNumericSlot(field.arrow, column[r])
  BY <1>3, NumericCells
<1>6. ASSUME NEW r \in DOMAIN column
      PROVE  /\ lengths.cells[r] = Numeric!MeasureCell(column[r]).value
             /\ Numeric!MeasureCell(column[r]).code = "ok"
  <2>1. ASSUME lengths.row \in 1 .. Len(column), NumericLengths[lengths.row].code # "ok",
               lengths.code = NumericLengths[lengths.row].code
        PROVE  FALSE
    BY <1>2, <2>1
  <2>2. /\ lengths.cells = [x \in 1 .. Len(column) |-> NumericLengths[x].value]
        /\ NumericLengths[r].code = "ok"
    BY <1>3, <1>5, <2>1 DEF Ends
  <2> QED
    BY <1>5, <2>2 DEF NumericLengths
<1>7. tokens.code = "ok"
  <2>1. lengths.code = tokens.code
    BY <1>3, NumericPathsAgree DEF Numeric!PathsAgree, Numeric!Pending, Pending
  <2> QED
    BY <1>2, <2>1
<1>8. ASSUME NEW r \in DOMAIN column PROVE tokens.cells[r] = NumericCellOf(column[r]).value
  <2>1. ASSUME tokens.row \in 1 .. Len(column), NumericTokens[tokens.row].code # "ok",
               tokens.code = NumericTokens[tokens.row].code
        PROVE  FALSE
    BY <1>7, <2>1
  <2>2. tokens.cells = [x \in 1 .. Len(column) |-> NumericTokens[x].value]
    BY <1>5, <2>1 DEF Ends
  <2> QED
    BY <1>5, <2>2 DEF NumericTokens, NumericCellOf
<1> DEFINE Good(r, bytes) == ReadAs(bytes, column[r], lengths.cells[r], tokens.cells[r].n)
<1>9. ASSUME NEW r \in DOMAIN column
      PROVE  /\ NumericFills[r].code = "ok" /\ Good(r, NumericFills[r].value)
             /\ NumericAppends[r].code = "ok" /\ Good(r, NumericAppends[r].value)
  <2>1. PICK v, len : v = column[r] /\ len = lengths.cells[r]
    OBVIOUS
  <2>2. /\ IsNumericSlot(field.arrow, v) /\ Numeric!MeasureCell(v).code = "ok"
        /\ len = Numeric!MeasureCell(v).value
    BY <1>5, <1>6, <2>1
  <2>3. PICK bytes, others :
           /\ Numeric!FillCell(v, len) = Numeric!Ok(bytes)
           /\ Numeric!AppendCell(v, len) = Numeric!Ok(others)
           /\ ReadAs(bytes, v, len, NumericCellOf(v).value.n)
           /\ ReadAs(others, v, len, NumericCellOf(v).value.n)
    BY <1>3, <1>4, <2>2, NumericCellWritten
  <2>4. /\ NumericFills[r] = Numeric!FillCell(v, len)
        /\ NumericAppends[r] = Numeric!AppendCell(v, len)
    BY <2>1 DEF NumericFills, NumericAppends
  <2>5. /\ NumericFills[r].code = "ok" /\ NumericFills[r].value = bytes
        /\ NumericAppends[r].code = "ok" /\ NumericAppends[r].value = others
    BY <2>3, <2>4 DEF Numeric!Ok
  <2>6. NumericCellOf(v).value.n = tokens.cells[r].n
    BY <1>8, <2>1
  <2> QED
    BY <2>1, <2>3, <2>5, <2>6
<1>10. ASSUME NEW f, \A r \in DOMAIN column : f[r].code = "ok" /\ Good(r, f[r].value),
              Ends(f, Len(column), result)
       PROVE  result.code = "ok" /\ \A r \in DOMAIN column : Good(r, result.cells[r])
  <2> HIDE DEF Good
  <2>1. /\ result.code = "ok" /\ result.cells = [r \in 1 .. Len(column) |-> f[r].value]
    BY <1>5, <1>10 DEF Ends
  <2> QED
    BY <1>5, <1>10, <2>1
<1>11. result.code = "ok" /\ \A r \in DOMAIN column : Good(r, result.cells[r])
  <2> HIDE DEF Good
  <2>1. CASE result = filled
    <3>1. Ends(NumericFills, Len(column), result)
      BY <1>1, <2>1 DEF Wrote
    <3> QED
      BY <1>9, <1>10, <3>1
  <2>2. CASE result = appended
    <3>1. Ends(NumericAppends, Len(column), result)
      BY <1>1, <2>2 DEF Wrote
    <3> QED
      BY <1>9, <1>10, <3>1
  <2> QED
    BY <2>1, <2>2
<1> QED
  BY <1>11 DEF ReadAs

-----------------------------------------------------------------------------
(* The bytes of a text cell *)

\* What is assumed of the byte of a text cell.
LEMMA TextRadix ==
    /\ Radix(TextBytes, 8) /\ Radix(TextBytes, 4) /\ Radix(TextBytes, 2)
    /\ TextBytes > 1 /\ TextBytes \in Nat
    /\ \A k \in 0 .. 8 : TextBytes ^ k \in Nat \ {0}
    /\ TextBytes ^ 2 >= 4
<1>1. /\ TextBytes \in Nat /\ TextBytes > 1 /\ TextBytes ^ 0 = 1
      /\ \A k \in 0 .. 7 : TextBytes ^ (k + 1) = TextBytes * TextBytes ^ k
  BY ValuesAssumption DEF TextAssumption, Text!ByteAssumption
<1>2. ASSUME NEW w \in 0 .. 8 PROVE Radix(TextBytes, w)
  <2>1. ASSUME NEW k \in 0 .. w - 1 PROVE TextBytes ^ (k + 1) = TextBytes * TextBytes ^ k
    <3>1. k \in 0 .. 7
      OBVIOUS
    <3> QED
      BY <1>1, <3>1
  <2> QED
    BY <1>1, <2>1 DEF Radix
<1>3. 8 \in 0 .. 8 /\ 4 \in 0 .. 8 /\ 2 \in 0 .. 8 /\ 8 \in Nat
  OBVIOUS
<1>4. \A k \in 0 .. 8 : TextBytes ^ k \in Nat \ {0}
  BY <1>2, <1>3, PowerOfRadix
<1>5. TextBytes ^ 2 >= 4
  <2>1. PICK c \in Nat : TextBytes = 2 + c
    <3>1. TextBytes - 2 \in Nat /\ TextBytes = 2 + (TextBytes - 2)
      BY <1>1
    <3> QED
      BY <3>1
  <2>2. TextBytes ^ 2 = TextBytes * TextBytes
    <3>1. PICK k \in 0 .. 7, j \in 0 .. 7 : k = 0 /\ j = 1
      OBVIOUS
    <3>2. TextBytes ^ (k + 1) = TextBytes * TextBytes ^ k /\ k + 1 = j
      BY <1>1, <3>1
    <3>3. TextBytes ^ (j + 1) = TextBytes * TextBytes ^ j /\ j + 1 = 2
      BY <1>1, <3>1
    <3> QED
      BY <1>1, <3>1, <3>2, <3>3
  <2>3. (2 + c) * (2 + c) = 4 + (4 * c + c * c) /\ 4 * c + c * c \in Nat
    BY ONLY c \in Nat
  <2> QED
    BY <2>1, <2>2, <2>3
<1> QED
  BY <1>1, <1>2, <1>3, <1>4, <1>5

\* A number written in w bytes is read from them.
LEMMA TextLittleEndian ==
    ASSUME NEW w \in {2, 4, 8}, NEW n \in 0 .. TextBytes ^ w - 1
    PROVE  /\ Text!LittleEndian(n, w) \in Seq(Nat) /\ Len(Text!LittleEndian(n, w)) = w
           /\ SumOf(Text!LittleEndian(n, w), 1, w, TextBytes) = n
<1>0. w \in 0 .. 8 /\ w \in Nat
  OBVIOUS
<1>1. PICK m \in Nat \ {0} : m = TextBytes ^ w
  BY <1>0, TextRadix
<1>2. n \in Nat /\ n \in 0 .. m - 1
  BY <1>1
<1>3. PICK s : s = Text!LittleEndian(n, w)
  OBVIOUS
<1>4. s = [i \in 1 .. w |-> (n \div TextBytes ^ (i - 1)) % TextBytes]
  BY <1>3 DEF Text!LittleEndian
<1>5. ASSUME NEW i \in 1 .. w PROVE (n \div TextBytes ^ (i - 1)) % TextBytes \in Nat
  <2>1. PICK k \in 0 .. 8 : k = i - 1
    OBVIOUS
  <2>2. PICK p \in Nat \ {0} : p = TextBytes ^ k
    BY TextRadix
  <2>3. PICK b \in Nat \ {0} : b = TextBytes
    BY TextRadix
  <2>4. PICK y \in Int : y = n \div p
    <3>1. PICK z \in Int : z = n
      BY <1>2
    <3>2. z \div p \in Int
      BY Quotient
    <3> QED
      BY <3>1, <3>2
  <2>5. y % b \in 0 .. b - 1
    BY Quotient
  <2> QED
    BY <2>1, <2>2, <2>3, <2>4, <2>5
<1>6. s \in [1 .. w -> Nat]
  BY <1>4, <1>5
<1>7. s \in Seq(Nat) /\ Len(s) = w
  BY <1>0, <1>6, Listed
<1>8. Holds(s, 1, w, n, TextBytes)
  <2>1. \A i \in 1 .. w : 1 + i - 1 = i
    OBVIOUS
  <2> QED
    BY <1>1, <1>2, <1>4, <2>1 DEF Holds
<1>9. Naturals(s, 1, w)
  BY <1>6 DEF Naturals
<1>10. SumOf(s, 1, w, TextBytes) = n
  <2>1. Radix(TextBytes, w)
    BY TextRadix
  <2>2. 1 \in Nat /\ 1 + w = w + 1
    OBVIOUS
  <2> QED
    BY <1>0, <1>8, <1>9, <2>1, <2>2, ReadsNumber
<1> QED
  BY <1>3, <1>7, <1>10

\* A part of a sequence is the sequence with its elements.
LEMMA PartIs ==
    ASSUME NEW s \in Seq(Nat), NEW lo \in Nat \ {0}, NEW hi \in Nat, hi <= Len(s), lo <= hi + 1,
           NEW t \in Seq(Nat), Len(t) = hi + 1 - lo,
           \A i \in 1 .. Len(t) : t[i] = s[lo + i - 1]
    PROVE  SubSeq(s, lo, hi) = t
<1>1. PICK u : u = SubSeq(s, lo, hi)
  OBVIOUS
<1>2. u \in Seq(Nat) /\ Len(u) = hi + 1 - lo /\ \A i \in 1 .. Len(u) : u[i] = s[lo + i - 1]
  <2>1. PICK m \in Int, n \in Int : m = lo /\ n = hi
    OBVIOUS
  <2>2. \A i \in m .. n : s[i] \in Nat
    <3>1. ASSUME NEW i \in m .. n PROVE s[i] \in Nat
      <4>1. i \in 1 .. Len(s)
        BY <2>1, LenProperties
      <4> QED
        BY <4>1, ElementOfSeq
    <3> QED
      BY <3>1
  <2>3. /\ SubSeq(s, m, n) \in Seq(Nat)
        /\ Len(SubSeq(s, m, n)) = IF m <= n THEN n - m + 1 ELSE 0
        /\ \A i \in 1 .. n - m + 1 : SubSeq(s, m, n)[i] = s[m + i - 1]
    BY <2>2, SubSeqProperties
  <2>4. u = SubSeq(s, m, n)
    BY <1>1, <2>1
  <2>5. Len(u) = hi + 1 - lo /\ n - m + 1 = hi + 1 - lo
    BY <2>1, <2>3, <2>4
  <2> QED
    BY <2>1, <2>3, <2>4, <2>5
<1>3. Len(u) = Len(t) /\ \A i \in 1 .. Len(u) : u[i] = t[i]
  BY <1>2
<1>4. u = t
  BY <1>2, <1>3, SeqEqual
<1> QED
  BY <1>1, <1>4

\* What a reader of the bytes of a text cell finds.
LEMMA TextReads ==
    ASSUME NEW cell
    PROVE  Text!Decode(cell) =
               LET Number(bytes) == SumOf(bytes, 1, Len(bytes), TextBytes)
                   short == Number(SubSeq(cell, 1, Text!BoundedPrefix))
                   chunk == Number(SubSeq(cell, Text!PlpPrefix + 1, Text!PlpOverhead))
                   payload == SubSeq(cell, Text!PlpOverhead + 1, Text!PlpOverhead + chunk)
                   ended == \/ chunk = 0 /\ Len(cell) = Text!PlpOverhead
                            \/ /\ chunk # 0
                               /\ Len(cell) = Text!PlpOverhead + chunk + Text!PlpTerminator
                               /\ SubSeq(cell, Text!PlpOverhead + chunk + 1, Len(cell))
                                     = Text!Zeros(Text!PlpTerminator)
                   limited == target.value.limit # Text!Unlimited
               IN  CASE limited /\ short = TextBytes ^ Text!BoundedPrefix - 1 -> Text!Null
                     [] limited /\ short = Len(cell) - Text!BoundedPrefix ->
                            Text!Value(SubSeq(cell, Text!BoundedPrefix + 1, Len(cell)))
                     [] target.value.limit = Text!Unlimited /\ cell = Text!NullBytes -> Text!Null
                     [] target.value.limit = Text!Unlimited /\ cell # Text!NullBytes /\ ended ->
                            Text!Value(payload)
                     [] OTHER -> [kind |-> "malformed"]
BY Zenon DEF Text!Decode, SumOf

\* Null is a length no value has, or a chunk marker of its own.
LEMMA TextNullReads ==
    ASSUME NEW s, s = Text!NullBytes
    PROVE  /\ Len(s) = IF target.value.limit = Text!Unlimited THEN 8 ELSE 2
           /\ Text!Decode(s) = Text!Null
<1>1. CASE target.value.limit = Text!Unlimited
  <2>1. PICK m \in Nat \ {0} : m = TextBytes ^ 8
    BY TextRadix
  <2>2. m - 1 \in 0 .. TextBytes ^ 8 - 1 /\ 8 \in {2, 4, 8}
    BY <2>1
  <2>3. s = Text!LittleEndian(m - 1, 8)
    BY <1>1, <2>1 DEF Text!NullBytes, Text!PlpPrefix
  <2>4. Len(s) = 8
    BY <2>2, <2>3, TextLittleEndian
  <2>5. Text!Decode(s) = Text!Null
    BY <1>1, TextReads
  <2> QED
    BY <1>1, <2>4, <2>5
<1>2. CASE target.value.limit # Text!Unlimited
  <2>1. PICK m \in Nat : m = TextBytes ^ 2 /\ m >= 4
    BY TextRadix
  <2>2. m - 1 \in 0 .. TextBytes ^ 2 - 1 /\ 2 \in {2, 4, 8}
    BY <2>1
  <2>3. s = Text!LittleEndian(m - 1, 2)
    BY <1>2, <2>1 DEF Text!NullBytes, Text!BoundedPrefix
  <2>4. s \in Seq(Nat) /\ Len(s) = 2 /\ SumOf(s, 1, 2, TextBytes) = m - 1
    BY <2>2, <2>3, TextLittleEndian
  <2>5. SubSeq(s, 1, 2) = s
    <3>1. 1 \in Nat \ {0} /\ 2 \in Nat /\ 2 <= Len(s) /\ 1 <= 2 + 1 /\ Len(s) = 2 + 1 - 1
      BY <2>4
    <3>2. \A i \in 1 .. Len(s) : s[i] = s[1 + i - 1]
      BY <2>4
    <3> QED
      BY <2>4, <3>1, <3>2, PartIs
  <2>6. SumOf(SubSeq(s, 1, 2), 1, Len(SubSeq(s, 1, 2)), TextBytes) = m - 1
    BY <2>4, <2>5
  <2>7. m - 1 # Len(s) - 2
    BY <2>1, <2>4
  <2>8. Text!Decode(s) = Text!Null
    BY <1>2, <2>1, <2>6, <2>7, TextReads DEF Text!BoundedPrefix
  <2> QED
    BY <1>2, <2>4, <2>8
<1> QED
  BY <1>1, <1>2

\* A bounded value: a length and its bytes.
LEMMA BoundedReads ==
    ASSUME target.value.limit # Text!Unlimited, NEW payload \in Seq(Nat),
           Len(payload) <= Text!MaxBounded,
           NEW s, s = Text!LittleEndian(Len(payload), 2) \o payload
    PROVE  Len(s) = 2 + Len(payload) /\ Text!Decode(s) = Text!Value(payload)
<1>1. PICK m \in Nat : m = TextBytes ^ 2 /\ m >= 4
  <2>1. 2 \in 0 .. 8
    OBVIOUS
  <2> QED
    BY <2>1, TextRadix
<1>2. PICK n \in Nat : n = Len(payload) /\ n <= m - 2
  <2>1. Len(payload) \in Nat
    BY LenProperties
  <2> QED
    BY <1>1, <2>1 DEF Text!MaxBounded, Text!BoundedPrefix
<1>3. PICK p : p = Text!LittleEndian(n, 2)
  OBVIOUS
<1>4. p \in Seq(Nat) /\ Len(p) = 2 /\ SumOf(p, 1, 2, TextBytes) = n
  <2>1. n \in 0 .. TextBytes ^ 2 - 1 /\ 2 \in {2, 4, 8}
    BY <1>1, <1>2
  <2> QED
    BY <1>3, <2>1, TextLittleEndian
<1>5. s = p \o payload
  BY <1>2, <1>3
<1>6. /\ s \in Seq(Nat) /\ Len(s) = Len(p) + Len(payload)
      /\ \A i \in 1 .. Len(p) + Len(payload) :
             s[i] = IF i <= Len(p) THEN p[i] ELSE payload[i - Len(p)]
  <2>1. PICK q \in Seq(Nat) : q = p
    BY <1>4
  <2>2. PICK t : t = q \o payload
    OBVIOUS
  <2>3. /\ t \in Seq(Nat) /\ Len(t) = Len(q) + Len(payload)
        /\ \A i \in 1 .. Len(q) + Len(payload) :
               t[i] = IF i <= Len(q) THEN q[i] ELSE payload[i - Len(q)]
    BY <2>2, JoinedIs
  <2> QED
    BY <1>5, <2>1, <2>2, <2>3
<1>7. Len(s) = 2 + n
  BY <1>2, <1>4, <1>6
<1>8. SubSeq(s, 1, 2) = p
  <2>1. 1 \in Nat \ {0} /\ 2 \in Nat /\ 2 <= Len(s) /\ 1 <= 2 + 1 /\ Len(p) = 2 + 1 - 1
    BY <1>4, <1>7
  <2>2. \A i \in 1 .. Len(p) : p[i] = s[1 + i - 1]
    <3>1. ASSUME NEW i \in 1 .. Len(p) PROVE p[i] = s[1 + i - 1]
      <4>1. i \in 1 .. Len(p) + Len(payload) /\ i <= Len(p) /\ 1 + i - 1 = i
        BY <1>2, <1>4
      <4> QED
        BY <1>6, <4>1
    <3> QED
      BY <3>1
  <2> QED
    BY <1>4, <1>6, <2>1, <2>2, PartIs
<1>9. SubSeq(s, 3, Len(s)) = payload
  <2>1. PICK hi \in Nat : hi = Len(s)
    BY <1>7
  <2>2. 3 \in Nat \ {0} /\ hi <= Len(s) /\ 3 <= hi + 1 /\ Len(payload) = hi + 1 - 3
    BY <1>2, <1>7, <2>1
  <2>3. ASSUME NEW i \in 1 .. Len(payload) PROVE payload[i] = s[3 + i - 1]
    <3>1. PICK j \in 1 .. Len(p) + Len(payload) : j = 3 + i - 1 /\ ~ (j <= Len(p)) /\ j - Len(p) = i
      <4>1. i \in 1 .. n
        BY <1>2
      <4>2. 3 + i - 1 \in 1 .. 2 + n /\ ~ (3 + i - 1 <= 2) /\ (3 + i - 1) - 2 = i
        BY <4>1
      <4> QED
        BY <1>2, <1>4, <4>2
    <3> QED
      BY <1>6, <3>1
  <2>4. SubSeq(s, 3, hi) = payload
    BY <1>6, <2>2, <2>3, PartIs
  <2> QED
    BY <2>1, <2>4
<1>10. SumOf(SubSeq(s, 1, 2), 1, Len(SubSeq(s, 1, 2)), TextBytes) = n
  BY <1>4, <1>8
<1>11. n # m - 1 /\ n = Len(s) - 2 /\ 2 + 1 = 3
  BY <1>1, <1>2, <1>7
<1>12. Text!Decode(s) = Text!Value(SubSeq(s, 3, Len(s)))
  BY <1>1, <1>10, <1>11, TextReads DEF Text!BoundedPrefix
<1> QED
  BY <1>2, <1>7, <1>9, <1>12

\* The parts of two sequences joined: a part of the first, and the second.
LEMMA PartKept ==
    ASSUME NEW s \in Seq(Nat), NEW t \in Seq(Nat), NEW lo \in Nat \ {0}, NEW hi \in Nat,
           hi <= Len(s), lo <= hi + 1
    PROVE  SubSeq(s \o t, lo, hi) = SubSeq(s, lo, hi)
<1>1. PICK j \in Seq(Nat) : j = s \o t
  BY JoinedIs
<1>2. /\ Len(j) = Len(s) + Len(t) /\ Len(s) \in Nat /\ Len(t) \in Nat
      /\ \A i \in 1 .. Len(s) : j[i] = s[i]
  <2>1. Len(s) \in Nat /\ Len(t) \in Nat
    BY LenProperties
  <2>2. ASSUME NEW i \in 1 .. Len(s) PROVE j[i] = s[i]
    <3>1. i \in 1 .. Len(s) + Len(t) /\ i <= Len(s)
      BY <2>1
    <3> QED
      BY <1>1, <3>1, JoinedIs
  <2>3. Len(j) = Len(s) + Len(t)
    BY <1>1, JoinedIs
  <2> QED
    BY <2>1, <2>2, <2>3
<1>3. PICK m \in Int, n \in Int : m = lo /\ n = hi
  OBVIOUS
<1>4. \A i \in m .. n : s[i] \in Nat
  <2>1. ASSUME NEW i \in m .. n PROVE s[i] \in Nat
    <3>1. i \in 1 .. Len(s)
      BY <1>2, <1>3
    <3> QED
      BY <3>1, ElementOfSeq
  <2> QED
    BY <2>1
<1>5. /\ SubSeq(s, m, n) \in Seq(Nat)
      /\ Len(SubSeq(s, m, n)) = IF m <= n THEN n - m + 1 ELSE 0
      /\ \A i \in 1 .. n - m + 1 : SubSeq(s, m, n)[i] = s[m + i - 1]
  BY <1>4, SubSeqProperties
<1>6. PICK u \in Seq(Nat) : /\ u = SubSeq(s, m, n) /\ Len(u) = n - m + 1
                            /\ u = SubSeq(s, lo, hi) /\ Len(u) = hi + 1 - lo
  <2>1. m <= n + 1 /\ n - m + 1 = hi + 1 - lo
    BY <1>3
  <2>2. Len(SubSeq(s, m, n)) = n - m + 1
    BY <1>5, <2>1
  <2> QED
    BY <1>3, <1>5, <2>1, <2>2
<1>7. ASSUME NEW i \in 1 .. Len(u) PROVE u[i] = j[lo + i - 1]
  <2>1. i \in 1 .. n - m + 1 /\ lo + i - 1 \in 1 .. Len(s)
    BY <1>2, <1>3, <1>6
  <2> QED
    BY <1>2, <1>3, <1>5, <1>6, <2>1
<1>8. hi <= Len(j)
  BY <1>2
<1>9. SubSeq(j, lo, hi) = u
  BY <1>6, <1>7, <1>8, PartIs
<1> QED
  BY <1>1, <1>6, <1>9

LEMMA LastPart ==
    ASSUME NEW s \in Seq(Nat), NEW t \in Seq(Nat), NEW lo \in Nat \ {0}, NEW hi \in Nat,
           lo = Len(s) + 1, hi = Len(s) + Len(t)
    PROVE  SubSeq(s \o t, lo, hi) = t
<1>1. PICK j \in Seq(Nat) : j = s \o t
  BY JoinedIs
<1>2. Len(s) \in Nat /\ Len(t) \in Nat
  BY LenProperties
<1>3. Len(j) = Len(s) + Len(t)
  BY <1>1, JoinedIs
<1>4. ASSUME NEW i \in 1 .. Len(t) PROVE t[i] = j[lo + i - 1]
  <2>1. PICK k \in 1 .. Len(s) + Len(t) : k = lo + i - 1 /\ ~ (k <= Len(s)) /\ k - Len(s) = i
    <3>1. PICK l \in Nat, m \in Nat : l = Len(s) /\ m = Len(t)
      BY <1>2
    <3>2. i \in 1 .. m /\ lo = l + 1
      BY <3>1
    <3>3. l + i \in 1 .. l + m /\ l + i = lo + i - 1 /\ ~ (l + i <= l) /\ l + i - l = i
      BY ONLY <3>2, l \in Nat, m \in Nat
    <3> QED
      BY <3>1, <3>3
  <2> QED
    BY <1>1, <2>1, JoinedIs
<1>5. hi <= Len(j) /\ lo <= hi + 1 /\ Len(t) = hi + 1 - lo
  BY <1>2, <1>3
<1>6. SubSeq(j, lo, hi) = t
  BY <1>4, <1>5, PartIs
<1> QED
  BY <1>1, <1>6

\* An unlimited value: a marker, one chunk, and a terminator unless it is empty.
LEMMA PlpReads ==
    ASSUME target.value.limit = Text!Unlimited, NEW payload \in Seq(Nat),
           NEW n \in Nat, n = Len(payload), n <= Text!MaxChunk,
           NEW terminated, terminated <=> n # 0,
           NEW s, s = Text!PlpBytes(n, payload, terminated)
    PROVE  /\ Len(s) = 12 + n + (IF n = 0 THEN 0 ELSE 4)
           /\ Text!Decode(s) = Text!Value(payload)
<1>1. PICK p \in Seq(Nat) : p = Text!PlpMarker /\ Len(p) = 8
  <2>1. 8 \in 0 .. 8 /\ 8 \in {2, 4, 8}
    OBVIOUS
  <2>2. 8 \in 0 .. 8 /\ 2 \in 0 .. 8
    OBVIOUS
  <2>3. PICK m \in Nat \ {0} : m = TextBytes ^ 8
    BY <2>2, TextRadix
  <2>4. m >= 2
    <3>1. PICK k \in 0 .. 7 : k = 7
      OBVIOUS
    <3>2. TextBytes ^ (k + 1) = TextBytes * TextBytes ^ k /\ k + 1 = 8
      BY <3>1, ValuesAssumption DEF TextAssumption, Text!ByteAssumption
    <3>3. PICK l \in Nat \ {0} : l = TextBytes ^ k
      BY <3>1, TextRadix
    <3>4. PICK b \in Nat : b = TextBytes /\ b > 1
      BY TextRadix
    <3>5. b * l >= 2
      <4>1. PICK x \in Nat, y \in Nat : b = 2 + x /\ l = 1 + y
        <5>1. b - 2 \in Nat /\ b = 2 + (b - 2) /\ l - 1 \in Nat /\ l = 1 + (l - 1)
          BY <3>4
        <5> QED
          BY <5>1
      <4>2. (2 + x) * (1 + y) = 2 + (2 * y + x + x * y) /\ 2 * y + x + x * y \in Nat
        BY ONLY x \in Nat, y \in Nat
      <4> QED
        BY <4>1, <4>2
    <3> QED
      BY <2>3, <3>2, <3>3, <3>4, <3>5
  <2>5. m - 2 \in 0 .. TextBytes ^ 8 - 1
    BY <2>3, <2>4
  <2>6. PICK x \in 0 .. TextBytes ^ 8 - 1 : x = m - 2
    BY <2>5
  <2>7. Text!PlpMarker = Text!LittleEndian(x, 8)
    BY <2>3, <2>6 DEF Text!PlpMarker, Text!PlpPrefix
  <2>8. Text!LittleEndian(x, 8) \in Seq(Nat) /\ Len(Text!LittleEndian(x, 8)) = 8
    BY <2>1, TextLittleEndian
  <2> QED
    BY <2>7, <2>8
<1>2. PICK q \in Seq(Nat) : /\ q = Text!LittleEndian(n, 4) /\ Len(q) = 4
                            /\ SumOf(q, 1, 4, TextBytes) = n
  <2>1. 4 \in {2, 4, 8} /\ 4 \in 0 .. 8
    OBVIOUS
  <2>2. PICK m \in Nat \ {0} : m = TextBytes ^ 4
    BY <2>1, TextRadix
  <2>3. n \in 0 .. TextBytes ^ 4 - 1
    BY <2>2 DEF Text!MaxChunk, Text!ChunkPrefix
  <2> QED
    BY <2>1, <2>3, TextLittleEndian
<1>3. PICK z \in Seq(Nat) : /\ z = IF terminated THEN Text!Zeros(Text!PlpTerminator) ELSE << >>
                            /\ Len(z) = IF n = 0 THEN 0 ELSE 4
  <2>1. CASE n = 0
    <3>1. << >> \in Seq(Nat) /\ Len(<< >>) = 0
      OBVIOUS
    <3> QED
      BY <2>1, <3>1
  <2>2. CASE n # 0
    <3>1. Text!Zeros(4) \in [1 .. 4 -> Nat] /\ 4 \in Nat
      BY DEF Text!Zeros
    <3>2. Text!Zeros(4) \in Seq(Nat) /\ Len(Text!Zeros(4)) = 4
      BY <3>1, Listed
    <3> QED
      BY <2>2, <3>2 DEF Text!PlpTerminator
  <2> QED
    BY <2>1, <2>2
<1>4. PICK a \in Seq(Nat) : a = p \o q /\ Len(a) = 12
  <2>1. PICK t : t = p \o q
    OBVIOUS
  <2>2. Len(t) = Len(p) + Len(q) /\ t \in Seq(Nat)
    BY <2>1, JoinedIs
  <2>3. Len(t) = 12
    BY <1>1, <1>2, <2>2
  <2> QED
    BY <2>1, <2>2, <2>3
<1>5. PICK c \in Seq(Nat) : c = a \o payload /\ Len(c) = 12 + n
  <2>1. Len(a \o payload) = Len(a) + Len(payload) /\ a \o payload \in Seq(Nat)
    BY JoinedIs
  <2> QED
    BY <1>4, <2>1
<1>6. s = c \o z /\ Len(s) = 12 + n + (IF n = 0 THEN 0 ELSE 4)
  <2>1. s = p \o q \o payload \o z
    BY <1>1, <1>2, <1>3 DEF Text!PlpBytes, Text!ChunkPrefix
  <2>2. Len(c \o z) = Len(c) + Len(z)
    BY JoinedIs
  <2> QED
    BY <1>3, <1>4, <1>5, <2>1, <2>2
<1>7. SubSeq(s, 9, 12) = q
  <2>1. PICK lo \in Nat \ {0}, hi \in Nat : lo = 9 /\ hi = 12
    OBVIOUS
  <2>2. SubSeq(a, lo, hi) = q
    <3>1. lo = Len(p) + 1 /\ hi = Len(p) + Len(q)
      <4>1. Len(p) = 8 /\ Len(q) = 4
        BY <1>1, <1>2
      <4> QED
        BY <2>1, <4>1
    <3>2. SubSeq(p \o q, lo, hi) = q
      BY ONLY <3>1, p \in Seq(Nat), q \in Seq(Nat), lo \in Nat \ {0}, hi \in Nat, LastPart
    <3> QED
      BY <1>4, <3>2
  <2>3. SubSeq(c, lo, hi) = q
    <3>1. hi <= Len(a) /\ lo <= hi + 1
      BY <1>4, <2>1
    <3> QED
      <4>1. SubSeq(a \o payload, lo, hi) = SubSeq(a, lo, hi)
        BY <3>1, PartKept
      <4> QED
        BY <1>5, <2>2, <4>1
  <2>4. SubSeq(s, lo, hi) = q
    <3>1. hi <= Len(c) /\ lo <= hi + 1
      BY <1>5, <2>1
    <3> QED
      <4>1. SubSeq(c \o z, lo, hi) = SubSeq(c, lo, hi)
        BY <3>1, PartKept
      <4> QED
        BY <1>6, <2>3, <4>1
  <2> QED
    BY <2>1, <2>4
<1>8. SubSeq(s, 13, 12 + n) = payload
  <2>1. PICK lo \in Nat \ {0}, hi \in Nat : lo = 13 /\ hi = 12 + n
    <3>1. 13 \in Nat \ {0} /\ 12 + n \in Nat
      OBVIOUS
    <3> QED
      BY <3>1
  <2>2. SubSeq(c, lo, hi) = payload
    <3>1. lo = Len(a) + 1 /\ hi = Len(a) + Len(payload)
      BY <1>4, <2>1
    <3>2. SubSeq(a \o payload, lo, hi) = payload
      BY ONLY <3>1, a \in Seq(Nat), payload \in Seq(Nat), lo \in Nat \ {0}, hi \in Nat, LastPart
    <3> QED
      BY <1>5, <3>2
  <2>3. SubSeq(s, lo, hi) = payload
    <3>1. hi <= Len(c) /\ lo <= hi + 1
      BY <1>5, <2>1
    <3>2. SubSeq(c \o z, lo, hi) = SubSeq(c, lo, hi)
      BY <3>1, PartKept
    <3> QED
      BY <1>6, <2>2, <3>2
  <2> QED
    BY <2>1, <2>3
<1>9. ASSUME n # 0 PROVE SubSeq(s, 12 + n + 1, Len(s)) = Text!Zeros(4)
  <2>1. PICK lo \in Nat \ {0}, hi \in Nat : lo = 12 + n + 1 /\ hi = 12 + n + 4 /\ hi = Len(s)
    BY <1>6, <1>9
  <2>2. lo = Len(c) + 1 /\ hi = Len(c) + Len(z)
    BY <1>3, <1>5, <1>9, <2>1
  <2>3. SubSeq(c \o z, lo, hi) = z
    BY <2>2, LastPart
  <2> QED
    BY <1>3, <1>6, <1>9, <2>1, <2>3 DEF Text!PlpTerminator
<1>10. s # Text!NullBytes
  <2>1. PICK t : t = Text!NullBytes
    OBVIOUS
  <2>2. Len(t) = 8
    BY <2>1, TextNullReads
  <2>3. Len(s) # 8
    BY <1>6
  <2> QED
    BY <2>1, <2>2, <2>3
<1>11. SumOf(SubSeq(s, 9, 12), 1, Len(SubSeq(s, 9, 12)), TextBytes) = n
  BY <1>2, <1>7
<1>12. /\ Text!PlpPrefix + 1 = 9 /\ Text!PlpOverhead = 12 /\ Text!PlpOverhead + 1 = 13
       /\ Text!PlpTerminator = 4
  BY DEF Text!PlpPrefix, Text!PlpOverhead, Text!ChunkPrefix, Text!PlpTerminator
<1>13. \/ n = 0 /\ Len(s) = 12
       \/ n # 0 /\ Len(s) = 12 + n + 4 /\ SubSeq(s, 12 + n + 1, Len(s)) = Text!Zeros(4)
  BY <1>6, <1>9
<1>14. Text!Decode(s) = Text!Value(payload)
  BY <1>8, <1>10, <1>11, <1>12, <1>13, TextReads
<1> QED
  BY <1>6, <1>14

\* A cell of its length from which a reader reads what was written.
WrittenAs(bytes, v, len) == Len(bytes) = len /\ Text!Decode(bytes) = Text!Written(v)

\* Two bytes of each unit, and as many filled as appended.
LEMMA UnitBytes ==
    ASSUME NEW text, text \in Seq(Seq(0 .. TextBytes ^ 2 - 1))
    PROVE  /\ Text!UnitCount(text) \in Nat /\ Text!Utf16Bytes(text) \in Seq(Nat)
           /\ Len(Text!Utf16Bytes(text)) = 2 * Text!UnitCount(text)
           /\ Text!FillUnits(2 * Text!UnitCount(text), text) = Text!Utf16Bytes(text)
<1>1. PICK S : S = 0 .. TextBytes ^ 2 - 1
  OBVIOUS
<1>2. PICK units : units = Text!Utf16(text)
  OBVIOUS
<1>3. units \in Seq(S)
  <2>1. PICK d : d = text
    OBVIOUS
  <2>2. Len(d) \in Nat /\ d \in [1..Len(d) -> Seq(S)]
    BY <1>1, <2>1, LenProperties
  <2>3. Text!FlattenSeq(d) \in Seq(S)
    BY ONLY <2>2, FlattenIsSeq
  <2> QED
    BY <1>2, <2>1, <2>3 DEF Text!Utf16
<1>4. PICK n \in Nat : n = Len(units)
  BY <1>3, LenProperties
<1>5. n = Text!UnitCount(text)
  BY <1>2, <1>4 DEF Text!UnitCount
<1> DEFINE d == [i \in 1..n |-> Text!LittleEndian(units[i], 2)]
<1>6. ASSUME NEW i \in 1..n PROVE d[i] \in Seq(Nat)
  <2>1. PICK x \in 0 .. TextBytes ^ 2 - 1 : x = units[i]
    <3>1. units[i] \in S
      BY <1>3, <1>4, ElementOfSeq
    <3> QED
      BY <1>1, <3>1
  <2>2. 2 \in {2, 4, 8}
    OBVIOUS
  <2>3. Text!LittleEndian(x, 2) \in Seq(Nat)
    BY <2>2, TextLittleEndian
  <2> QED
    BY <2>1, <2>3
<1>7. d \in [1..n -> Seq(Nat)]
  BY <1>6
<1>8. Text!Utf16Bytes(text) = Text!FlattenSeq(d)
  BY <1>2, <1>5 DEF Text!Utf16Bytes
<1> HIDE DEF d
<1>9. Text!FlattenSeq(d) \in Seq(Nat)
  BY <1>7, FlattenIsSeq
<1>10. PICK b \in Seq(Nat) : b = Text!Utf16Bytes(text)
  BY <1>8, <1>9
<1>11. Len(b) = 2 * n
  BY <1>5, <1>10, Utf16Length
<1>12. Text!FillUnits(2 * n, text) = b
  <2>1. DOMAIN b = 1 .. 2 * n /\ b = [i \in 1 .. 2 * n |-> b[i]]
    BY <1>11
  <2>2. Text!FillUnits(2 * n, text) = [i \in 1 .. 2 * n |-> IF i \in DOMAIN b THEN b[i] ELSE 0]
    BY <1>10 DEF Text!FillUnits
  <2> QED
    BY <2>1, <2>2
<1> QED
  BY <1>5, <1>10, <1>11, <1>12

\* What the nvarchar writers find in a measured length.
LEMMA UnitsOfLength ==
    ASSUME NEW u \in Nat
    PROVE  /\ Text!BoundedUnitBytes(2 + 2 * u) = Text!Ok(2 * u)
           /\ Text!PlpUnitBytes(12 + 2 * u + (IF u = 0 THEN 0 ELSE 4)) = Text!Ok(2 * u)
           /\ (2 * u) \div 2 = u
<1>1. (2 * u) \div 2 = u /\ (2 * u) % 2 = 0
  OBVIOUS
<1>2. Text!BoundedUnitBytes(2 + 2 * u) = Text!Ok(2 * u)
  <2>1. ~ (2 + 2 * u < 2) /\ 2 + 2 * u - 2 = 2 * u
    OBVIOUS
  <2> QED
    BY <1>1, <2>1 DEF Text!BoundedUnitBytes, Text!BoundedPrefix
<1>3. Text!PlpUnitBytes(12 + 2 * u + (IF u = 0 THEN 0 ELSE 4)) = Text!Ok(2 * u)
  <2>1. Text!PlpOverhead = 12 /\ Text!PlpTerminator = 4
    BY DEF Text!PlpPrefix, Text!PlpOverhead, Text!ChunkPrefix, Text!PlpTerminator
  <2>2. CASE u = 0
    <3>1. PICK m \in Nat : m = 12 /\ m = 12 + 2 * u + (IF u = 0 THEN 0 ELSE 4) /\ 2 * u = 0
      BY <2>2
    <3>2. Text!PlpUnitBytes(m) = Text!Ok(0)
      BY <2>1, <3>1 DEF Text!PlpUnitBytes
    <3> QED
      BY <3>1, <3>2
  <2>3. CASE u # 0
    <3>1. PICK m \in Nat : m = 12 + 2 * u + (IF u = 0 THEN 0 ELSE 4) /\ m = 16 + 2 * u
      BY <2>3
    <3>2. m # 12 /\ ~ (m < 12 + 4) /\ m - 12 - 4 = 2 * u
      BY <3>1
    <3>3. Text!PlpUnitBytes(m) = Text!Ok(m - 12 - 4)
      BY <1>1, <2>1, <3>2 DEF Text!PlpUnitBytes
    <3> QED
      BY <3>1, <3>2, <3>3
  <2> QED
    BY <2>2, <2>3
<1> QED
  BY <1>1, <1>2, <1>3

LEMMA TextNullWritten ==
    ASSUME TextPlanned, NEW v, v = Text!Null, Text!MeasureCell(v).code = "ok",
           NEW len, len = Text!MeasureCell(v).value
    PROVE  \E bytes : /\ Text!FillCell(v, len) = Text!Ok(bytes)
                      /\ Text!AppendCell(v, len) = Text!Ok(bytes)
                      /\ WrittenAs(bytes, v, len)
<1>1. field.nullable /\ Text!NullCellLen = Text!Ok(len)
      /\ len = IF target.value.limit = Text!Unlimited THEN 8 ELSE 2
  <2>1. Text!MeasureCell(v) = Text!NullCellLen
    BY DEF Text!MeasureCell
  <2>2. field.nullable
    BY <2>1 DEF Text!NullCellLen, Text!Fail, TextPlanned
  <2> QED
    BY <2>1, <2>2 DEF Text!NullCellLen, Text!Ok, Text!PlpPrefix, Text!BoundedPrefix
<1>2. PICK bytes : bytes = Text!NullBytes
  OBVIOUS
<1>3. Len(bytes) = len /\ Text!Decode(bytes) = Text!Null
  BY <1>1, <1>2, TextNullReads
<1>4. Text!FillCell(v, len) = Text!Ok(bytes)
  <2>1. Text!IsOk(Text!NullCellLen)
    BY <1>1 DEF Text!IsOk, Text!Ok
  <2>2. Text!Sized(bytes, len) = Text!Ok(bytes)
    BY <1>3 DEF Text!Sized
  <2> QED
    BY <1>2, <2>1, <2>2 DEF Text!FillCell, Text!FillNull
<1>5. Text!AppendCell(v, len) = Text!Ok(bytes)
  <2>1. Text!IsOk(Text!NullCellLen) /\ Text!NullCellLen.value = len
    BY <1>1 DEF Text!IsOk, Text!Ok
  <2>2. Text!Appended(Text!NullCellLen, len, bytes) = Text!Ok(bytes)
    BY <2>1 DEF Text!Appended
  <2> QED
    BY <1>2, <2>2 DEF Text!AppendCell, Text!AppendNull
<1>6. Text!Written(v) = Text!Null
  BY DEF Text!Written
<1> QED
  BY <1>3, <1>4, <1>5, <1>6 DEF WrittenAs

LEMMA NVarCharWritten ==
    ASSUME TextPlanned, NEW v, v # Text!Null, target.value.name = "nvarchar",
           v.v \in Seq(Seq(0 .. TextBytes ^ 2 - 1)), Text!MeasureCell(v).code = "ok",
           NEW len, len = Text!MeasureCell(v).value
    PROVE  \E bytes : /\ Text!FillCell(v, len) = Text!Ok(bytes)
                      /\ Text!AppendCell(v, len) = Text!Ok(bytes)
                      /\ WrittenAs(bytes, v, len)
<1>1. PICK text : text = v.v
  OBVIOUS
<1>2. PICK u \in Nat : u = Text!UnitCount(text)
  BY <1>1, UnitBytes
<1>3. PICK b \in Seq(Nat) : /\ b = Text!Utf16Bytes(text) /\ Len(b) = 2 * u
                            /\ Text!FillUnits(2 * u, text) = b
  BY <1>1, <1>2, UnitBytes
<1>4. Text!Written(v) = Text!Value(b)
  BY <1>1, <1>3 DEF Text!Written
<1>5. /\ Text!MeasureCell(v) = Text!MeasureNVarChar(text)
      /\ Text!FillCell(v, len) = Text!FillNVarChar(text, len)
      /\ Text!AppendCell(v, len) = Text!AppendNVarChar(text, len)
  BY <1>1 DEF Text!MeasureCell, Text!FillCell, Text!AppendCell
<1>6. target.value.limit \in Nat \cup {Text!Unlimited} /\ Text!Unlimited = -1
  BY DEF TextPlanned, Text!Unlimited
<1>7. PICK n \in Nat : n = 2 * u /\ n \div 2 = u /\ (n # 0 <=> u # 0)
  <2>1. 2 * u \in Nat /\ (2 * u # 0 <=> u # 0)
    OBVIOUS
  <2> QED
    BY <2>1, UnitsOfLength
<1>8. PICK ok : ok = Text!Ok(n) /\ Text!IsOk(ok) /\ ok.value = n
  <2>1. Text!IsOk(Text!Ok(n)) /\ Text!Ok(n).value = n
    BY DEF Text!Ok, Text!IsOk
  <2> QED
    BY <2>1
<1>9. CASE target.value.limit = Text!Unlimited
  <2>1. Text!MeasureCell(v) = Text!PlpCellLen(n)
    BY <1>2, <1>5, <1>7, <1>9 DEF Text!MeasureNVarChar, Text!Exceeds
  <2>2. n <= Text!MaxChunk
    <3>1. ~ (n > Text!MaxChunk)
      BY <2>1 DEF Text!PlpCellLen, Text!Fail
    <3>2. Text!MaxChunk \in Int
      <4>1. 4 \in 0 .. 8
        OBVIOUS
      <4>2. TextBytes ^ 4 \in Nat \ {0}
        BY <4>1, TextRadix
      <4> QED
        BY <4>2 DEF Text!MaxChunk, Text!ChunkPrefix
    <3> QED
      BY <3>1, <3>2
  <2>3. len = 12 + n + (IF n = 0 THEN 0 ELSE 4)
    <3>1. Text!PlpOverhead = 12 /\ Text!PlpTerminator = 4
      BY DEF Text!PlpPrefix, Text!PlpOverhead, Text!ChunkPrefix, Text!PlpTerminator
    <3>2. Text!PlpCellLen(n).code = "ok"
      BY <2>1
    <3>3. Text!PlpCellLen(n) = Text!Ok(12 + n + (IF n = 0 THEN 0 ELSE 4))
      BY <3>1, <3>2 DEF Text!PlpCellLen, Text!Fail
    <3> QED
      BY <2>1, <3>3 DEF Text!Ok
  <2>4. Text!PlpUnitBytes(len) = ok
    BY <1>7, <1>8, <2>3, UnitsOfLength
  <2>5. PICK s : s = Text!PlpBytes(n, b, n # 0)
    OBVIOUS
  <2>6. Len(s) = 12 + n + (IF n = 0 THEN 0 ELSE 4) /\ Text!Decode(s) = Text!Value(b)
    <3>1. PICK terminated : terminated = (n # 0)
      OBVIOUS
    <3>2. s = Text!PlpBytes(n, b, terminated) /\ (terminated <=> n # 0) /\ n = Len(b)
      BY <1>3, <1>7, <2>5, <3>1
    <3> QED
      BY <1>9, <2>2, <3>2, PlpReads
  <2>7. Text!FillNVarChar(text, len) = Text!Ok(s)
    BY <1>3, <1>7, <1>8, <1>9, <2>4, <2>5 DEF Text!FillNVarChar
  <2>8. Text!AppendNVarChar(text, len) = Text!Ok(s)
    BY <1>3, <1>7, <1>8, <1>9, <2>4, <2>5 DEF Text!AppendNVarChar
  <2> QED
    BY <1>4, <1>5, <2>3, <2>6, <2>7, <2>8 DEF WrittenAs
<1>10. CASE target.value.limit # Text!Unlimited
  <2>1. target.value.limit \in Nat
    BY <1>6, <1>10
  <2>2. u <= target.value.limit /\ Text!MeasureCell(v) = Text!BoundedCellLen(n)
    <3>1. Text!MeasureCell(v) = IF u > target.value.limit THEN Text!Fail("ValueTooLong")
                                ELSE Text!BoundedCellLen(n)
      BY <1>2, <1>5, <1>7, <1>10 DEF Text!MeasureNVarChar, Text!Exceeds
    <3>2. ~ (u > target.value.limit)
      BY <3>1 DEF Text!Fail
    <3> QED
      BY <2>1, <3>1, <3>2
  <2>3. n <= Text!MaxBounded /\ len = 2 + n
    <3>1. ~ (n > Text!MaxBounded)
      BY <2>2 DEF Text!BoundedCellLen, Text!Fail
    <3>2. Text!MaxBounded \in Int
      <4>1. 2 \in 0 .. 8
        OBVIOUS
      <4>2. TextBytes ^ 2 \in Nat \ {0}
        BY <4>1, TextRadix
      <4> QED
        BY <4>2 DEF Text!MaxBounded, Text!BoundedPrefix
    <3>3. Text!BoundedCellLen(n) = Text!Ok(2 + n)
      BY <3>1 DEF Text!BoundedCellLen, Text!BoundedPrefix
    <3> QED
      BY <2>2, <3>1, <3>2, <3>3 DEF Text!Ok
  <2>4. Text!BoundedUnitBytes(len) = ok
    BY <1>7, <1>8, <2>3, UnitsOfLength
  <2>5. PICK s : s = Text!LittleEndian(n, 2) \o b
    OBVIOUS
  <2>6. Len(s) = 2 + n /\ Text!Decode(s) = Text!Value(b)
    <3>1. s = Text!LittleEndian(Len(b), 2) \o b /\ Len(b) <= Text!MaxBounded /\ n = Len(b)
      BY <1>3, <1>7, <2>3, <2>5
    <3> QED
      BY <1>10, <3>1, BoundedReads
  <2>7. ~ (n \div 2 > target.value.limit) /\ n \div 2 <= target.value.limit
    BY <1>7, <2>1, <2>2
  <2>8. Text!FillNVarChar(text, len) = Text!Ok(s)
    BY <1>3, <1>7, <1>8, <1>10, <2>4, <2>5, <2>7 DEF Text!FillNVarChar, Text!BoundedPrefix
  <2>9. Text!AppendNVarChar(text, len) = Text!Ok(s)
    BY <1>3, <1>7, <1>8, <1>10, <2>4, <2>5, <2>7 DEF Text!AppendNVarChar, Text!BoundedPrefix
  <2> QED
    BY <1>4, <1>5, <2>3, <2>6, <2>8, <2>9 DEF WrittenAs
<1> QED
  BY <1>9, <1>10

LEMMA BytesAreNaturals ==
    ASSUME NEW s \in Seq(0 .. TextBytes - 1) PROVE s \in Seq(Nat)
<1>1. PICK S : S = 0 .. TextBytes - 1
  OBVIOUS
<1>2. s \in Seq(S) /\ S \subseteq Nat
  BY <1>1, TextRadix
<1>3. PICK n \in Nat : n = Len(s) /\ s \in [1 .. n -> S]
  <2>1. Len(s) \in Nat /\ s \in [1 .. Len(s) -> S]
    BY ONLY <1>2, LenProperties
  <2> QED
    BY <2>1
<1>4. s \in [1 .. n -> Nat]
  BY <1>2, <1>3
<1> QED
  BY <1>4, Listed

LEMMA VarBinaryWritten ==
    ASSUME TextPlanned, NEW v, v # Text!Null, target.value.name = "varbinary",
           v = Text!Value(v.v), v.v \in Seq(0 .. TextBytes - 1), Text!MeasureCell(v).code = "ok",
           NEW len, len = Text!MeasureCell(v).value
    PROVE  \E bytes : /\ Text!FillCell(v, len) = Text!Ok(bytes)
                      /\ Text!AppendCell(v, len) = Text!Ok(bytes)
                      /\ WrittenAs(bytes, v, len)
<1>1. PICK b \in Seq(Nat) : b = v.v
  BY BytesAreNaturals
<1>2. PICK n \in Nat : n = Len(b) /\ (n # 0 <=> b # << >>)
  <2>1. Len(b) \in Nat /\ (Len(b) = 0 <=> b = << >>)
    BY EmptySeq
  <2> QED
    BY <2>1
<1>3. Text!Written(v) = Text!Value(b)
  BY <1>1 DEF Text!Written
<1>4. /\ Text!MeasureCell(v) = Text!MeasureVarBinary(b)
      /\ Text!FillCell(v, len) = Text!FillVarBinary(b, len)
      /\ Text!AppendCell(v, len) = Text!AppendVarBinary(b, len)
  BY <1>1 DEF Text!MeasureCell, Text!FillCell, Text!AppendCell
<1>5. target.value.limit \in Nat \cup {Text!Unlimited} /\ Text!Unlimited = -1
  BY DEF TextPlanned, Text!Unlimited
<1>6. CASE target.value.limit = Text!Unlimited
  <2>1. Text!MeasureCell(v) = Text!PlpCellLen(n)
    BY <1>2, <1>4, <1>6 DEF Text!MeasureVarBinary, Text!Exceeds
  <2>2. n <= Text!MaxChunk
    <3>1. ~ (n > Text!MaxChunk)
      BY <2>1 DEF Text!PlpCellLen, Text!Fail
    <3>2. Text!MaxChunk \in Int
      <4>1. 4 \in 0 .. 8
        OBVIOUS
      <4>2. TextBytes ^ 4 \in Nat \ {0}
        BY <4>1, TextRadix
      <4> QED
        BY <4>2 DEF Text!MaxChunk, Text!ChunkPrefix
    <3> QED
      BY <3>1, <3>2
  <2>3. len = 12 + n + (IF n = 0 THEN 0 ELSE 4) /\ Text!PlpCellLen(n) = Text!Ok(len)
    <3>1. Text!PlpOverhead = 12 /\ Text!PlpTerminator = 4
      BY DEF Text!PlpPrefix, Text!PlpOverhead, Text!ChunkPrefix, Text!PlpTerminator
    <3>2. Text!PlpCellLen(n).code = "ok"
      BY <2>1
    <3>3. Text!PlpCellLen(n) = Text!Ok(12 + n + (IF n = 0 THEN 0 ELSE 4))
      BY <3>1, <3>2 DEF Text!PlpCellLen, Text!Fail
    <3>4. Text!PlpCellLen(n).value = 12 + n + (IF n = 0 THEN 0 ELSE 4)
      BY <3>3 DEF Text!Ok
    <3> QED
      BY <2>1, <3>3, <3>4
  <2>4. PICK terminated : terminated = (b # << >>)
    OBVIOUS
  <2>5. PICK s : s = Text!PlpBytes(n, b, terminated)
    OBVIOUS
  <2>6. Len(s) = 12 + n + (IF n = 0 THEN 0 ELSE 4) /\ Text!Decode(s) = Text!Value(b)
    <3>1. terminated <=> n # 0
      BY <1>2, <2>4
    <3> QED
      BY <1>2, <1>6, <2>2, <2>5, <3>1, PlpReads
  <2>7. Text!FillVarBinary(b, len) = Text!Ok(s)
    <3>1. Text!Sized(s, len) = Text!Ok(s)
      BY <2>3, <2>6 DEF Text!Sized
    <3> QED
      BY <1>2, <1>6, <2>4, <2>5, <3>1 DEF Text!FillVarBinary, Text!Exceeds
  <2>8. Text!AppendVarBinary(b, len) = Text!Ok(s)
    <3>1. Text!IsOk(Text!PlpCellLen(n)) /\ Text!PlpCellLen(n).value = len
      BY <2>3 DEF Text!Ok, Text!IsOk
    <3>2. Text!Appended(Text!PlpCellLen(n), len, s) = Text!Ok(s)
      BY <3>1 DEF Text!Appended
    <3> QED
      BY <1>2, <1>6, <2>4, <2>5, <3>2 DEF Text!AppendVarBinary, Text!Exceeds
  <2> QED
    BY <1>3, <1>4, <2>3, <2>6, <2>7, <2>8 DEF WrittenAs
<1>7. CASE target.value.limit # Text!Unlimited
  <2>1. target.value.limit \in Nat
    BY <1>5, <1>7
  <2>2. ~ Text!Exceeds(target.value.limit, n) /\ Text!MeasureCell(v) = Text!BoundedCellLen(n)
    <3>1. Text!MeasureCell(v) = IF Text!Exceeds(target.value.limit, n) THEN Text!Fail("ValueTooLong")
                                ELSE Text!BoundedCellLen(n)
      BY <1>2, <1>4, <1>7 DEF Text!MeasureVarBinary
    <3> QED
      BY <3>1 DEF Text!Fail
  <2>3. n <= Text!MaxBounded /\ len = 2 + n /\ Text!BoundedCellLen(n) = Text!Ok(len)
    <3>1. ~ (n > Text!MaxBounded)
      BY <2>2 DEF Text!BoundedCellLen, Text!Fail
    <3>2. Text!MaxBounded \in Int
      <4>1. 2 \in 0 .. 8
        OBVIOUS
      <4>2. TextBytes ^ 2 \in Nat \ {0}
        BY <4>1, TextRadix
      <4> QED
        BY <4>2 DEF Text!MaxBounded, Text!BoundedPrefix
    <3>3. Text!BoundedCellLen(n) = Text!Ok(2 + n)
      BY <3>1 DEF Text!BoundedCellLen, Text!BoundedPrefix
    <3>4. Text!BoundedCellLen(n).value = 2 + n
      BY <3>3 DEF Text!Ok
    <3> QED
      BY <2>2, <3>1, <3>2, <3>3, <3>4
  <2>4. PICK s : s = Text!LittleEndian(n, 2) \o b
    OBVIOUS
  <2>5. Len(s) = 2 + n /\ Text!Decode(s) = Text!Value(b)
    <3>1. s = Text!LittleEndian(Len(b), 2) \o b /\ Len(b) <= Text!MaxBounded
      BY <1>2, <2>3, <2>4
    <3> QED
      BY <1>2, <1>7, <3>1, BoundedReads
  <2>6. Text!FillVarBinary(b, len) = Text!Ok(s)
    <3>1. Text!Sized(s, len) = Text!Ok(s)
      BY <2>3, <2>5 DEF Text!Sized
    <3> QED
      BY <1>2, <1>7, <2>2, <2>4, <3>1 DEF Text!FillVarBinary, Text!BoundedPrefix
  <2>7. Text!AppendVarBinary(b, len) = Text!Ok(s)
    <3>1. Text!IsOk(Text!BoundedCellLen(n)) /\ Text!BoundedCellLen(n).value = len
      BY <2>3 DEF Text!Ok, Text!IsOk
    <3>2. Text!Appended(Text!BoundedCellLen(n), len, s) = Text!Ok(s)
      BY <3>1 DEF Text!Appended
    <3> QED
      BY <1>2, <1>7, <2>2, <2>4, <3>2 DEF Text!AppendVarBinary, Text!BoundedPrefix
  <2> QED
    BY <1>3, <1>4, <2>3, <2>5, <2>6, <2>7 DEF WrittenAs
<1> QED
  BY <1>6, <1>7

LEMMA FixedSizeBinaryWritten ==
    ASSUME NEW v, v # Text!Null, target.value.name = "binary", v = Text!Value(v.v),
           target.value.limit \in 1 .. MaxBinary,
           v.v \in Seq(0 .. TextBytes - 1), Len(v.v) = target.value.limit,
           NEW len, len = Text!MeasureCell(v).value
    PROVE  \E bytes : /\ Text!FillCell(v, len) = Text!Ok(bytes)
                      /\ Text!AppendCell(v, len) = Text!Ok(bytes)
                      /\ WrittenAs(bytes, v, len)
<1>1. PICK b \in Seq(Nat) : b = v.v
  BY BytesAreNaturals
<1>2. PICK n \in Nat : n = Len(b) /\ n = target.value.limit /\ n <= Text!MaxBounded
  <2>1. MaxBinary \in Nat /\ MaxBinary <= TextBytes ^ 2 - 2
    BY ValuesAssumption DEF TextAssumption, Text!ByteAssumption
  <2>2. 2 \in 0 .. 8
    OBVIOUS
  <2>3. PICK m \in Nat \ {0} : m = TextBytes ^ 2
    BY <2>2, TextRadix
  <2>4. PICK n \in Nat : n = target.value.limit /\ n <= MaxBinary
    BY <2>1
  <2>5. n <= m - 2
    BY <2>1, <2>3, <2>4
  <2> QED
    BY <1>1, <2>3, <2>4, <2>5 DEF Text!MaxBounded, Text!BoundedPrefix
<1>3. Text!Written(v) = Text!Value(b)
  BY <1>1 DEF Text!Written
<1>4. /\ Text!MeasureCell(v) = Text!MeasureFixedSizeBinary(b)
      /\ Text!FillCell(v, len) = Text!FillFixedSizeBinary(b, len)
      /\ Text!AppendCell(v, len) = Text!AppendFixedSizeBinary(b, len)
  BY <1>1 DEF Text!MeasureCell, Text!FillCell, Text!AppendCell
<1>5. len = 2 + n
  <2>1. Text!MeasureCell(v) = Text!Ok(2 + n)
    BY <1>2, <1>4 DEF Text!MeasureFixedSizeBinary, Text!BoundedPrefix
  <2> QED
    BY <2>1 DEF Text!Ok
<1>6. PICK s : s = Text!LittleEndian(n, 2) \o b
  OBVIOUS
<1>7. Len(s) = 2 + n /\ Text!Decode(s) = Text!Value(b)
  <2>1. s = Text!LittleEndian(Len(b), 2) \o b /\ Len(b) <= Text!MaxBounded
    BY <1>2, <1>6
  <2>2. target.value.limit # Text!Unlimited
    BY <1>2 DEF Text!Unlimited
  <2> QED
    BY <1>2, <2>1, <2>2, BoundedReads
<1>8. Text!FillFixedSizeBinary(b, len) = Text!Ok(s)
  <2>1. Text!Sized(s, len) = Text!Ok(s)
    BY <1>5, <1>7 DEF Text!Sized
  <2> QED
    BY <1>2, <1>6, <2>1 DEF Text!FillFixedSizeBinary, Text!BoundedPrefix
<1>9. Text!AppendFixedSizeBinary(b, len) = Text!Ok(s)
  <2>1. PICK expected : expected = Text!Ok(2 + n)
    OBVIOUS
  <2>2. Text!IsOk(expected) /\ expected.value = len
    BY <1>5, <2>1 DEF Text!Ok, Text!IsOk
  <2>3. Text!Appended(expected, len, s) = Text!Ok(s)
    BY <2>2 DEF Text!Appended
  <2> QED
    BY <1>2, <1>6, <2>1, <2>3 DEF Text!AppendFixedSizeBinary, Text!BoundedPrefix
<1> QED
  BY <1>3, <1>4, <1>5, <1>7, <1>8, <1>9 DEF WrittenAs

\* Both encoders write a cell that was measured, in its length.
LEMMA TextCellWritten ==
    ASSUME TextPlanned, NEW v, IsTextSlot(field.arrow, field.length, v),
           Text!MeasureCell(v).code = "ok", NEW len, len = Text!MeasureCell(v).value
    PROVE  \E bytes : /\ Text!FillCell(v, len) = Text!Ok(bytes)
                      /\ Text!AppendCell(v, len) = Text!Ok(bytes)
                      /\ WrittenAs(bytes, v, len)
<1>1. CASE v = Text!Null
  BY <1>1, TextNullWritten
<1>2. CASE v # Text!Null
  <2>0. v = Text!Value(v.v)
    BY <1>2 DEF IsTextSlot
  <2>1. CASE field.arrow \in Strings /\ target.value.name = "nvarchar"
    <3>1. v.v \in Seq(Seq(0 .. TextBytes ^ 2 - 1))
      BY <1>2, <2>1 DEF IsTextSlot, Strings, Binaries
    <3> QED
      BY <1>2, <2>1, <3>1, NVarCharWritten
  <2>2. CASE field.arrow \in Binaries /\ target.value.name = "varbinary"
    <3>1. v.v \in Seq(0 .. TextBytes - 1)
      BY <1>2, <2>2 DEF IsTextSlot, Strings, Binaries
    <3> QED
      BY <1>2, <2>0, <2>2, <3>1, VarBinaryWritten
  <2>3. CASE /\ field.arrow = "fixed_size_binary" /\ target.value.name = "binary"
             /\ target.value.limit = field.length /\ field.length \in 1 .. MaxBinary
    <3>1. v.v \in Seq(0 .. TextBytes - 1) /\ Len(v.v) = target.value.limit
      BY <1>2, <2>3 DEF IsTextSlot, Strings, Binaries
    <3> QED
      BY <1>2, <2>0, <2>3, <3>1, FixedSizeBinaryWritten
  <2> QED
    BY <2>1, <2>2, <2>3 DEF TextPlanned
<1> QED
  BY <1>1, <1>2

\* Every text cell is written in its measured length and read back.
LEMMA TextDecodes ==
    ASSUME TextInv, Wrote(TextFills, TextAppends)
    PROVE  Text!MeasuredCellsFit /\ Text!CellsDecodeToSlots
<1>0. ASSUME NEW result \in {filled, appended}, result = Pending PROVE result.code # "ok"
  BY <1>0 DEF Pending
<1>1. SUFFICES ASSUME NEW result \in {filled, appended}, result # Pending
               PROVE  /\ result.code = "ok"
                      /\ \A r \in DOMAIN column :
                             WrittenAs(result.cells[r], column[r], lengths.cells[r])
  BY <1>0, Zenon DEF Text!MeasuredCellsFit, Text!CellsDecodeToSlots, Text!Pending, Pending, WrittenAs
<1>2. lengths.code = "ok"
  BY <1>1 DEF Wrote
<1>3. lengths # Pending /\ tokens # Pending
  BY <1>2 DEF TextInv, Pending
<1>4. /\ TextPlanned /\ Len(column) \in Nat /\ DOMAIN column = 1..Len(column)
      /\ Ends(TextLengths, Len(column), lengths)
      /\ \A r \in 1..Len(column) :
            /\ IsTextSlot(field.arrow, field.length, column[r])
            /\ TextLengths[r] = Text!MeasureCell(column[r])
  BY <1>3, TextCells
<1>5. ASSUME NEW r \in DOMAIN column
      PROVE  /\ lengths.cells[r] = Text!MeasureCell(column[r]).value
             /\ Text!MeasureCell(column[r]).code = "ok"
  <2>1. ASSUME lengths.row \in 1 .. Len(column), TextLengths[lengths.row].code # "ok",
               lengths.code = TextLengths[lengths.row].code
        PROVE  FALSE
    BY <1>2, <2>1
  <2>2. /\ lengths.cells = [x \in 1 .. Len(column) |-> TextLengths[x].value]
        /\ TextLengths[r].code = "ok"
    BY <1>4, <2>1 DEF Ends
  <2> QED
    BY <1>4, <2>2
<1> DEFINE Good(r, bytes) == WrittenAs(bytes, column[r], lengths.cells[r])
<1>6. ASSUME NEW r \in DOMAIN column
      PROVE  /\ TextFills[r].code = "ok" /\ Good(r, TextFills[r].value)
             /\ TextAppends[r].code = "ok" /\ Good(r, TextAppends[r].value)
  <2>1. PICK v, len : v = column[r] /\ len = lengths.cells[r]
    OBVIOUS
  <2>2. /\ IsTextSlot(field.arrow, field.length, v) /\ Text!MeasureCell(v).code = "ok"
        /\ len = Text!MeasureCell(v).value
    BY <1>4, <1>5, <2>1
  <2>3. PICK bytes : /\ Text!FillCell(v, len) = Text!Ok(bytes)
                     /\ Text!AppendCell(v, len) = Text!Ok(bytes)
                     /\ WrittenAs(bytes, v, len)
    BY <1>4, <2>2, TextCellWritten
  <2>4. TextFills[r] = Text!Ok(bytes) /\ TextAppends[r] = Text!Ok(bytes)
    BY <2>1, <2>3 DEF TextFills, TextAppends
  <2> QED
    BY <2>1, <2>3, <2>4 DEF Text!Ok
<1>7. ASSUME NEW f, \A r \in DOMAIN column : f[r].code = "ok" /\ Good(r, f[r].value),
             Ends(f, Len(column), result)
      PROVE  result.code = "ok" /\ \A r \in DOMAIN column : Good(r, result.cells[r])
  <2> HIDE DEF Good
  <2>1. /\ result.code = "ok" /\ result.cells = [r \in 1 .. Len(column) |-> f[r].value]
    BY <1>4, <1>7 DEF Ends
  <2> QED
    BY <1>4, <1>7, <2>1
<1>8. result.code = "ok" /\ \A r \in DOMAIN column : Good(r, result.cells[r])
  <2> HIDE DEF Good
  <2>1. CASE result = filled
    <3>1. Ends(TextFills, Len(column), result)
      BY <1>1, <2>1 DEF Wrote
    <3> QED
      BY <1>6, <1>7, <3>1
  <2>2. CASE result = appended
    <3>1. Ends(TextAppends, Len(column), result)
      BY <1>1, <2>2 DEF Wrote
    <3> QED
      BY <1>6, <1>7, <3>1
  <2> QED
    BY <2>1, <2>2
<1> QED
  BY <1>8

-----------------------------------------------------------------------------
(* The theorems *)

\* In every family, and for all columns, the direct encoder takes what the
\* token-row path takes and blames the same row: their loops over the rows
\* compute different things, whose errors fall on the same cells.
THEOREM BackendsBlameTheSameRow == Spec => []PathsAgree
<1>1. IInv => PathsAgree
  BY TemporalPathsAgree, NumericPathsAgree, TextPathsAgree DEF IInv, PathsAgree
<1> QED
  BY <1>1, Invariant, PTL

\* The bound of a string column counts UTF-16 units, and of a binary column
\* bytes: the first row that is longer is the row of the error.
THEOREM LimitsCountUnits == Spec => []LimitCountsUnits
<1>1. IInv => LimitCountsUnits
  BY TextLimitCounts DEF IInv, LimitCountsUnits
<1> QED
  BY <1>1, Invariant, PTL

\* No accepted number changes on its way, each path of a column ends with the
\* first number its planned type does not have, and no plan of an Arrow type is
\* too narrow for its numbers, at any width, precision and scale.
THEOREM NumbersKeepTheirValue == Spec => []NumbersAreExact
<1>1. IInv => NumbersAreExact
  BY NumericIsExact DEF IInv, NumbersAreExact
<1> QED
  BY <1>1, Invariant, PTL

\* A date, a time or a timestamp that is accepted is the nearest instant its
\* SQL Server type has, a tie upwards, in the order of the others and at the
\* offset its zone has then; what is rejected has lost digits or lies, once it
\* is rounded, beyond the calendar: for every clock, calendar and zone database.
THEOREM InstantsStayInPlace == Spec => []InstantsAreKept
<1>1. IInv => InstantsAreKept
  BY TemporalInstantsKept DEF IInv, InstantsAreKept
<1> QED
  BY <1>1, Invariant, PTL
\* What is measured is written: both encoders take every measured cell and give
\* it the length the row was laid out with, and a reader of the bytes finds the
\* value of the token-row path, in every family, base, byte and column.
THEOREM CellsReadAsTokens == Spec => []CellsDecodeToTokens
<1>1. IInv /\ WInv => CellsDecodeToTokens
  <2>1. CASE family = "temporal"
    BY <2>1, TemporalDecodes DEF IInv, WInv, CellsDecodeToTokens
  <2>2. CASE family = "numeric"
    BY <2>2, NumericDecodes DEF IInv, WInv, CellsDecodeToTokens
  <2>3. CASE family = "text"
    BY <2>3, TextDecodes DEF IInv, WInv, CellsDecodeToTokens
  <2> QED
    BY <2>1, <2>2, <2>3 DEF IInv
<1> QED
  BY <1>1, Invariant, WrittenInvariant, PTL
=============================================================================
