------------------------------ MODULE BcpCells ------------------------------
(***************************************************************************)
(* Which buffer the odbc-bcp runner binds for an Arrow column, what it     *)
(* writes there for a value and how the server reads it                    *)
(* (xtask/odbc-bcp-runner/src/main.rs, BcpColumnBuffer).                   *)
(*                                                                         *)
(* Arrow types are those of SchemaPlan.  The width of i128 and the length  *)
(* of a day are parameters so that a small instance reaches their edges.   *)
(***************************************************************************)
EXTENDS Integers, Sequences, SequencesExt, ColumnOutcome

CONSTANTS MaxI128,       \* 2^127 - 1
          MillisPerSecond, SecondsPerDay,
          ChronoDays,    \* days, from the epoch, chrono's dates can hold
          ServerDays     \* 0001-01-01 to 9999-12-31, from the epoch

ASSUME BcpCellsAssumption ==
    /\ MaxI128 \in Nat
    /\ {MillisPerSecond, SecondsPerDay} \subseteq Nat \ {0}
    /\ ServerDays \subseteq ChronoDays /\ ChronoDays \subseteq Int

MillisPerDay == MillisPerSecond * SecondsPerDay

-----------------------------------------------------------------------------
(* BcpColumnBuffer::{new, server_type} *)

Buffers ==
    [UInt8 |-> "U8", Int8 |-> "I16", Int16 |-> "I16",
     Int32 |-> "I32", UInt16 |-> "I32", Int64 |-> "I64", UInt32 |-> "I64",
     Float32 |-> "F32", Float64 |-> "F64", Boolean |-> "Bit",
     Utf8 |-> "WideText", Binary |-> "Binary",
     Decimal128 |-> "Text", Date32 |-> "Text", Timestamp |-> "Text"]

Bindable(kind) == IF kind \in DOMAIN Buffers THEN Ok(Buffers[kind]) ELSE Fail("ArrowType")

ServerTypes ==
    [U8 |-> "SQLINT1", I16 |-> "SQLINT2", I32 |-> "SQLINT4", I64 |-> "SQLINT8",
     F32 |-> "SQLFLT4", F64 |-> "SQLFLT8", Bit |-> "SQLBIT", Text |-> "SQLVARCHAR",
     WideText |-> "SQLNVARCHAR", Binary |-> "SQLVARBINARY"]

-----------------------------------------------------------------------------
(* Texts.  A decimal text is its sign and the digits before and after the  *)
(* point, a timestamp text its date and time fields.                       *)

Digits[m \in Nat] == IF m < 10 THEN <<m>> ELSE Append(Digits[m \div 10], m % 10)

Zeros(n) == [i \in 1 .. n |-> 0]

\* Leading zeros, so that a digit is left before the point.
Padded(digits, scale) ==
    IF Len(digits) <= scale THEN Zeros(scale - Len(digits) + 1) \o digits ELSE digits

DecimalText(negative, digits, scale) ==
    [negative |-> negative,
     whole |-> SubSeq(digits, 1, Len(digits) - scale),
     fraction |-> SubSeq(digits, Len(digits) - scale + 1, Len(digits))]

FormatDecimal(unscaled, scale) ==
    CASE scale < 0 -> Fail("DecimalScale")
      [] scale >= 0 /\ unscaled < -MaxI128 -> Fail("DecimalValue")
      [] OTHER ->
            LET magnitude == IF unscaled < 0 THEN -unscaled ELSE unscaled IN
              Ok(DecimalText(unscaled < 0, Padded(Digits[magnitude], scale), scale))

\* A year beyond four digits is written as it is.
FormatDate32(day) == IF day \in ChronoDays THEN Ok([day |-> day]) ELSE Fail("Date")

\* The fields of an instant before the epoch, had they been taken of its
\* distance to the epoch.
TimestampFieldsTowardsZero(ms) ==
    IF ms >= 0 \/ ms % MillisPerDay = 0
      THEN [day |-> ms \div MillisPerDay,
            second |-> (ms % MillisPerDay) \div MillisPerSecond,
            milli |-> ms % MillisPerSecond]
      ELSE [day |-> -((-ms) \div MillisPerDay),
            second |-> ((-ms) % MillisPerDay) \div MillisPerSecond,
            milli |-> (-ms) % MillisPerSecond]
TimestampFields(ms) ==
    [day |-> ms \div MillisPerDay,
     second |-> (ms % MillisPerDay) \div MillisPerSecond,
     milli |-> ms % MillisPerSecond]

FormatTimestampMillis(ms) ==
    IF TimestampFields(ms).day \in ChronoDays THEN Ok(TimestampFields(ms))
                                              ELSE Fail("Timestamp")

-----------------------------------------------------------------------------
(* BcpColumnBuffer::set_from_batch *)

\* The scale of a timestamp's unit: p is 3 for milliseconds.
SetTimestamp(type, value) ==
    CASE type.zone # "none" -> Fail("Timezone")
      [] type.zone = "none" /\ type.p # 3 -> Fail("TimeUnit")
      [] OTHER -> FormatTimestampMillis(value)

SetFromBatch(type, value) ==
    CASE type.kind = "Decimal128" -> FormatDecimal(value, type.s)
      [] type.kind = "Date32" -> FormatDate32(value)
      [] type.kind = "Timestamp" -> SetTimestamp(type, value)
      [] OTHER -> Ok(value)

-----------------------------------------------------------------------------
(* The server: conversion of a bound value to the type of the column *)

NumberOf(digits) == FoldLeft(LAMBDA n, digit : 10 * n + digit, 0, digits)

ReadDecimal(text, precision, scale) ==
    LET digits == text.whole \o text.fraction IN
      IF \/ text.whole = <<>> \/ Len(text.fraction) # scale
         \/ NumberOf(digits) >= 10 ^ precision
        THEN Fail("Server")
        ELSE Ok(IF text.negative THEN -NumberOf(digits) ELSE NumberOf(digits))

ServerReads(type, target, content) ==
    CASE type.kind = "Decimal128" -> ReadDecimal(content, target.p, target.s)
      [] type.kind = "Date32" ->
            IF content.day \in ServerDays THEN Ok(content.day) ELSE Fail("Server")
      [] type.kind = "Timestamp" ->
            IF content.day \in ServerDays
              THEN Ok(content.day * MillisPerDay + content.second * MillisPerSecond
                      + content.milli)
              ELSE Fail("Server")
      [] OTHER -> Ok(content)
=============================================================================
