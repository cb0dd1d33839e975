--------------------------- MODULE BatchAdmission ---------------------------
(***************************************************************************)
(* How a batch is admitted before any of it is sent: the schema check of   *)
(* src/write/record_batch/validate.rs, then the value pass.  The token-row *)
(* backend converts row by row (validate_batch_rows), a direct backend     *)
(* measures column by column (measure_cell_lengths); both stop at the      *)
(* first error.  A caller may also run the public preflight,               *)
(* validate_arrow_schema_against_mappings, on the schema alone.            *)
(*                                                                         *)
(* A mapping is one planned column; a field one column of the runtime      *)
(* schema.  A value is "ok", "null", or "bad" (it does not convert).       *)
(***************************************************************************)
EXTENDS Integers, Sequences

CONSTANTS
    Plans,      \* sequences of mappings a writer may be built with
    Schemas,    \* sequences of fields a batch may come with
    MaxRows     \* bound on the rows of a batch

StringFamily == {"Utf8", "LargeUtf8", "Utf8View"}
BinaryFamily == {"Binary", "LargeBinary", "BinaryView"}
Values == {"ok", "null", "bad"}

\* Schema planning gives nvarchar to strings and varbinary to binaries only.
ASSUME BatchAdmissionAssumption ==
    /\ \A s \in Schemas : Len(s) \in Nat
    /\ \A p \in Plans :
          /\ Len(p) \in Nat
          /\ \A c \in 1..Len(p) : /\ p[c].target = "varbinary" => p[c].type \in BinaryFamily
                                  /\ p[c].target = "nvarchar" => p[c].type \in StringFamily
    /\ MaxRows \in Nat

VARIABLES
    plan, schema, values, \* the planned mappings and the runtime batch
    preflight,            \* result of the public schema validation
    pc,                   \* "shape", "rows", "columns" or "done"
    row, col,             \* counters of the running value pass, from 1
    baseline, direct      \* result of the call on either backend

vars == <<plan, schema, values, preflight, pc, row, col, baseline, direct>>

Pending == [phase |-> "pending", row |-> 0, col |-> 0]
Passed == [phase |-> "accepted", row |-> 0, col |-> 0]
Rejected(phase, r, c) == [phase |-> phase, row |-> r, col |-> c]

\* write_phase_for_batch_error: a direct backend derives the phase it reports
\* from the diagnostic code, where the token-row backend names it at the call.
WritePhaseForBatchError(code) == IF code = "SchemaMismatch" THEN "BatchSchemaValidation"
                                                            ELSE "ValueConversion"

\* The diagnostic code of a cell that is refused.
CodeOf(value) == IF value = "null" THEN "NullInNonNullableColumn" ELSE "ValueOutOfRange"

-----------------------------------------------------------------------------
(* Schema checks *)

\* arrow_type_compatible_with_mapping: one string family, one binary family.
TypeFitsAnyTarget(type, m) ==
    \/ type = m.type
    \/ type \in StringFamily /\ m.type \in StringFamily
    \/ type \in BinaryFamily \cup StringFamily /\ m.target = "varbinary"
TypeFits(type, m) ==
    \/ type = m.type
    \/ type \in StringFamily /\ m.type \in StringFamily /\ m.target = "nvarchar"
    \/ type \in BinaryFamily /\ m.type \in BinaryFamily /\ m.target = "varbinary"

\* validate_schema_field_shape_against_mapping
ShapeFits(i, f, m) == m.index = i /\ f.name = m.name /\ TypeFits(f.type, m)

\* What the writer requires of the schema of a batch.
ShapeAccepted(s, p) ==
    Len(s) = Len(p) /\ \A i \in 1..Len(p) : ShapeFits(i, s[i], p[i])

\* What the public preflight requires.
PreflightNullabilityOnly(s, p) ==
    Len(s) = Len(p) /\ \A i \in 1..Len(p) : s[i].nullable = p[i].nullable
PreflightAccepted(s, p) ==
    ShapeAccepted(s, p) /\ \A i \in 1..Len(p) : s[i].nullable = p[i].nullable

-----------------------------------------------------------------------------
(* The passes *)

\* A column of a schema holds nulls only if its field is nullable: that much
\* RecordBatch::try_new guarantees.
BatchValues(s) ==
    UNION {{v \in [1..n -> [1..Len(s) -> Values]] :
              \A r \in 1..n, c \in 1..Len(s) : v[r][c] = "null" => s[c].nullable}
           : n \in 0..MaxRows}

Init ==
    /\ plan \in Plans /\ schema \in Schemas
    /\ values = <<>>
    /\ preflight = PreflightAccepted(schema, plan)
    /\ pc = "shape" /\ row = 1 /\ col = 1
    /\ baseline = Pending /\ direct = Pending

\* validate_record_batch_encoding_shape, the first step of both backends.
CheckShape ==
    /\ pc = "shape"
    /\ IF ShapeAccepted(schema, plan)
         THEN /\ values' \in BatchValues(schema)
              /\ pc' = "rows"
              /\ UNCHANGED <<baseline, direct>>
         ELSE /\ pc' = "done"
              /\ baseline' = Rejected("BatchSchemaValidation", 0, 0)
              /\ direct' = Rejected(WritePhaseForBatchError("SchemaMismatch"), 0, 0)
              /\ UNCHANGED values
    /\ UNCHANGED <<plan, schema, preflight, row, col>>

\* The value in row r of column c can be written to the target column.
ConvertsIgnoringNull(r, c) == values[r][c] # "bad"
Converts(r, c) ==
    /\ values[r][c] # "bad"
    /\ values[r][c] = "null" => plan[c].targetNullable

\* validate_batch_rows: one cell, row-major.
ConvertCell ==
    /\ pc = "rows" /\ Len(plan) > 0 /\ row <= Len(values)
    /\ IF Converts(row, col)
         THEN /\ IF col < Len(plan) THEN col' = col + 1 /\ UNCHANGED row
                                    ELSE col' = 1 /\ row' = row + 1
              /\ UNCHANGED <<pc, baseline>>
         ELSE /\ baseline' = Rejected("ValueConversion", row, col)
              /\ pc' = "columns" /\ row' = 1 /\ col' = 1
    /\ UNCHANGED <<plan, schema, values, preflight, direct>>

BaselineAccepts ==
    /\ pc = "rows" /\ (Len(plan) = 0 \/ row > Len(values))
    /\ baseline' = Passed
    /\ pc' = "columns" /\ row' = 1 /\ col' = 1
    /\ UNCHANGED <<plan, schema, values, preflight, direct>>

\* The null test of the direct measure functions reads the target nullability.
MeasuresNullByField(r, c) ==
    values[r][c] # "bad" /\ (values[r][c] = "null" => schema[c].nullable)
Measures(r, c) ==
    values[r][c] # "bad" /\ (values[r][c] = "null" => plan[c].targetNullable)

\* measure_cell_lengths: one cell, column-major.
MeasureCell ==
    /\ pc = "columns" /\ Len(values) > 0 /\ col <= Len(plan)
    /\ IF Measures(row, col)
         THEN /\ IF row < Len(values) THEN row' = row + 1 /\ UNCHANGED col
                                      ELSE row' = 1 /\ col' = col + 1
              /\ UNCHANGED <<pc, direct>>
         ELSE /\ direct' = Rejected(WritePhaseForBatchError(CodeOf(values[row][col])), row, col)
              /\ pc' = "done" /\ UNCHANGED <<row, col>>
    /\ UNCHANGED <<plan, schema, values, preflight, baseline>>

DirectAccepts ==
    /\ pc = "columns" /\ (Len(values) = 0 \/ col > Len(plan))
    /\ direct' = Passed /\ pc' = "done"
    /\ UNCHANGED <<plan, schema, values, preflight, row, col, baseline>>

Returned == pc = "done" /\ UNCHANGED vars

Next == CheckShape \/ ConvertCell \/ BaselineAccepts \/ MeasureCell \/ DirectAccepts \/ Returned

Spec == Init /\ [][Next]_vars

-----------------------------------------------------------------------------
(* Properties *)

\* The two passes visit the cells in a different order, but a batch is
\* accepted by both or rejected by both in the same phase: switching the
\* backend never changes which batches load.
BackendsAgree == pc = "done" => baseline.phase = direct.phase

AtFault(r, c) ==
    values[r][c] = "bad" \/ (values[r][c] = "null" /\ ~plan[c].targetNullable)

\* The cell a rejection points at is at fault, and it is the first such cell
\* of its pass, so the diagnostic leads to a repair in any schema.
RejectionNamesFirstFault ==
    pc = "done" =>
        /\ baseline.phase = "ValueConversion" =>
              /\ baseline.row \in 1..Len(values) /\ baseline.col \in 1..Len(plan)
              /\ AtFault(baseline.row, baseline.col)
              /\ \A r \in 1..Len(values), c \in 1..Len(plan) :
                    AtFault(r, c) => \/ baseline.row < r
                                     \/ baseline.row = r /\ baseline.col <= c
        /\ direct.phase = "ValueConversion" =>
              /\ direct.row \in 1..Len(values) /\ direct.col \in 1..Len(plan)
              /\ AtFault(direct.row, direct.col)
              /\ \A r \in 1..Len(values), c \in 1..Len(plan) :
                    AtFault(r, c) => \/ direct.col < c
                                     \/ direct.col = c /\ direct.row <= r

\* The schema check ignores the nullability of the runtime field; the value
\* pass makes up for it: an accepted batch has no null, and no value of a
\* foreign type family, for a target column that cannot hold it.
AcceptedBatchFitsTarget ==
    \A result \in {baseline, direct} :
        result.phase = "accepted" =>
            /\ Len(schema) = Len(plan)
            /\ \A c \in 1..Len(plan) :
                  /\ schema[c].name = plan[c].name
                  /\ plan[c].target = "varbinary" => schema[c].type \in BinaryFamily
                  /\ plan[c].target = "nvarchar" => schema[c].type \in StringFamily
                  /\ \A r \in 1..Len(values) :
                        values[r][c] = "null" => plan[c].targetNullable

\* A schema that passes the public preflight is never refused for its schema
\* by the writer.
PreflightIsEnough ==
    preflight => /\ baseline.phase # "BatchSchemaValidation"
                 /\ direct.phase # "BatchSchemaValidation"

\* src/write/policy.rs on SchemaCheck::Strict: "Require exact schema equality
\* with the planned schema."  A batch the writer accepts under Strict, its only
\* policy, would then have the planned names, types and nullability.
StrictMeansSchemaEquality ==
    baseline.phase = "accepted" =>
        \A c \in 1..Len(plan) : schema[c] = [name |-> plan[c].name, type |-> plan[c].type,
                                             nullable |-> plan[c].nullable]
=============================================================================
