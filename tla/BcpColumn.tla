----------------------------- MODULE BcpColumn -----------------------------
(***************************************************************************)
(* One column of a dataset through the odbc-bcp runner, row by row: the    *)
(* buffer chosen by the Arrow type, the cell set, the row sent and the     *)
(* value converted by the server to the planned column type.               *)
(***************************************************************************)
EXTENDS SchemaPlan, BcpCells

CONSTANTS Columns,      \* sets of Arrow columns: [type, nullable, values]
          PlanOptions,  \* of the benchmark
          NullSlot,
          Rows          \* rows of a dataset

VARIABLES column, slots, row, phase, content, stored, error

vars == <<column, slots, row, phase, content, stored, error>>

Target == PlanType(column.type, PlanOptions).type

Init ==
    /\ column \in Columns
    /\ PlanType(column.type, PlanOptions).code = "ok"
    /\ slots \in [1 .. Rows -> column.values \cup {NullSlot}]
    /\ row = 1
    /\ phase = "bind"
    /\ content = NullSlot
    /\ stored = <<>>
    /\ error = "none"

Stop(code) == error' = code /\ phase' = "failed"

Bind ==
    /\ phase = "bind"
    /\ IF IsOk(Bindable(column.type.kind))
         THEN phase' = "set" /\ UNCHANGED error
         ELSE Stop("ArrowType")
    /\ UNCHANGED <<column, slots, row, content, stored>>

SetNull ==
    /\ phase = "set" /\ row <= Rows /\ slots[row] = NullSlot
    /\ IF column.nullable
         THEN content' = NullSlot /\ phase' = "send" /\ UNCHANGED error
         ELSE Stop("NotNull") /\ UNCHANGED content
    /\ UNCHANGED <<column, slots, row, stored>>

SetValue ==
    /\ phase = "set" /\ row <= Rows /\ slots[row] # NullSlot
    /\ LET set == SetFromBatch(column.type, slots[row]) IN
         IF IsOk(set)
           THEN content' = set.value /\ phase' = "send" /\ UNCHANGED error
           ELSE Stop(set.code) /\ UNCHANGED content
    /\ UNCHANGED <<column, slots, row, stored>>

SendNull ==
    /\ phase = "send" /\ content = NullSlot
    /\ stored' = Append(stored, NullSlot)
    /\ row' = row + 1 /\ phase' = "set"
    /\ UNCHANGED <<column, slots, content, error>>

SendValue ==
    /\ phase = "send" /\ content # NullSlot
    /\ LET read == ServerReads(column.type, Target, content) IN
         IF IsOk(read)
           THEN /\ stored' = Append(stored, read.value)
                /\ row' = row + 1 /\ phase' = "set"
                /\ UNCHANGED error
           ELSE Stop(read.code) /\ UNCHANGED <<stored, row>>
    /\ UNCHANGED <<column, slots, content>>

Complete ==
    /\ phase = "set" /\ row > Rows
    /\ phase' = "done"
    /\ UNCHANGED <<column, slots, row, content, stored, error>>

Next == Bind \/ SetNull \/ SetValue \/ SendNull \/ SendValue \/ Complete
Spec == Init /\ [][Next]_vars

-----------------------------------------------------------------------------

\* What the server stores is what the Arrow slots hold: a decimal text keeps
\* sign, digits and scale, a timestamp text its instant, before the epoch too,
\* which takes a timezone-free column of milliseconds.
StoredIsTheColumn ==
    /\ stored = SubSeq(slots, 1, Len(stored))
    /\ column.type.kind = "Timestamp" /\ (\E i \in DOMAIN stored : stored[i] # NullSlot)
         => column.type.p = 3 /\ column.type.zone = "none"

\* A value of the server's range is refused only for a type the runner does
\* not copy: no unscaled integer, day or instant is lost on the way.
InRange(value) ==
    CASE column.type.kind = "Decimal128" -> value \in -(10 ^ Target.p - 1) .. 10 ^ Target.p - 1
      [] column.type.kind = "Date32" -> value \in ServerDays
      [] column.type.kind = "Timestamp" -> value \div MillisPerDay \in ServerDays
      [] OTHER -> TRUE
OnlyKnownRefusals ==
    phase = "failed" =>
        CASE error \in {"Timezone", "TimeUnit"} ->
                column.type.kind = "Timestamp" /\ (column.type.zone # "none" \/ column.type.p # 3)
          [] error = "DecimalScale" -> column.type.s < 0
          [] error = "NotNull" -> ~column.nullable /\ slots[row] = NullSlot
          [] error = "ArrowType" ->
                column.type.kind \in {"UInt64", "Date64", "Time32", "FixedSizeBinary", "LargeUtf8"}
          [] OTHER -> ~InRange(slots[row])

\* The server type of a fixed-width buffer has the width of the planned
\* column, so a bound value is neither cut nor widened by the server.
ServerTypeFitsThePlan ==
    phase = "set" =>
        LET server == ServerTypes[Bindable(column.type.kind).value] IN
          CASE Target.kind = "TinyInt" -> server = "SQLINT1"
            [] Target.kind = "SmallInt" -> server = "SQLINT2"
            [] Target.kind = "Int" -> server = "SQLINT4"
            [] Target.kind = "BigInt" -> server = "SQLINT8"
            [] Target.kind = "Real" -> server = "SQLFLT4"
            [] Target.kind = "Float" -> server = "SQLFLT8"
            [] Target.kind = "Bit" -> server = "SQLBIT"
            [] Target.kind = "NVarChar" -> server = "SQLNVARCHAR"
            [] Target.kind = "VarBinary" -> server = "SQLVARBINARY"
            [] OTHER -> server = "SQLVARCHAR"
=============================================================================
