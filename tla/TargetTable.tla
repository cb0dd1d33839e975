---------------------------- MODULE TargetTable ----------------------------
(***************************************************************************)
(* From an Arrow schema to an open bulk-load request: the schema is        *)
(* planned, somebody makes the table (from the plan's CREATE TABLE, or     *)
(* from something near it), BulkWriter::new reads the table's columns in   *)
(* one round trip, validates them, and opens the load with those columns   *)
(* in a second one (src/write/writer.rs).  Other sessions may alter the    *)
(* table at any time.  The server and the Tiberius fork are outside the    *)
(* crate: they are modelled by what new takes from them.                   *)
(***************************************************************************)
EXTENDS SchemaPlan

CONSTANTS
    Schemas,        \* Arrow schemas: sequences of [name, nullable, type]
    PlanOptions,    \* planning policies callers may choose
    StrayTypes,     \* SQL Server types a table made elsewhere may have
    MaxAlterations  \* bound on the changes other sessions make

\* Precisions, widths and policy digits are unsigned in the code, scales i8.
\* Only a decimal of the server has a scale, and no SQL type is called as the
\* nullable variants of a TDS type are.
ArrowTypeOK(a) == /\ a.p \in Int /\ a.s \in Int
                  /\ a.kind # "FixedSizeBinary" => a.p \in Nat
FieldOK(f) == f.nullable \in BOOLEAN /\ ArrowTypeOK(f.type)
OptionsOK(o) ==
    /\ \A policy \in {o.string, o.binary} :
          policy.kind \in {"Max", "Bounded", "Observed"} /\ policy.n \in Nat
    /\ o.uint64 \in {"Reject", "Decimal20_0", "CheckedBigInt"}
    /\ o.timestamp.kind \in {"DateTime", "DateTime2"} /\ o.timestamp.n \in Nat
ServerType(t) ==
    /\ t = SqlType(t.kind, t.p, t.s) /\ t.p \in Int /\ t.s \in Int
    /\ t.kind \notin {"Bitn", "Datetime", "Datetimen"}
    /\ t.kind \notin {"Decimal", "Numeric"} => t.s = 0

ASSUME TargetTableAssumption ==
    /\ \A s \in Schemas : /\ s \in Seq({s[i] : i \in DOMAIN s})
                          /\ \A i \in DOMAIN s : FieldOK(s[i])
    /\ \A o \in PlanOptions : OptionsOK(o)
    /\ \A t \in StrayTypes : ServerType(t)
    /\ MaxAlterations \in Nat

Backends == {"Auto", "BaselineTokenRow", "DirectFramedBulk", "DirectRawBulk"}
DirectBackends == {"DirectFramedBulk", "DirectRawBulk"}

VARIABLES
    schema, options,  \* what the caller plans
    pc,               \* where the caller is
    mappings,         \* columns planned so far
    diagnostics,      \* planning diagnostics: [field, code]
    table,            \* the live table: a sequence of columns
    alterations,      \* how often other sessions changed it
    backend,          \* resolved backend, "none" before
    encodings,        \* direct encodings, one per mapping
    columns,          \* the metadata new read, and then opens the load with
    faults            \* validation diagnostics: a set of [field, what]

planVars == <<schema, options, mappings, diagnostics>>
vars == <<planVars, pc, table, alterations, backend, encodings, columns, faults>>

Init ==
    /\ schema \in Schemas /\ options \in PlanOptions
    /\ pc = "planning"
    /\ mappings = <<>> /\ diagnostics = <<>>
    /\ table = <<>> /\ alterations = 0
    /\ backend = "none" /\ encodings = <<>>
    /\ columns = <<>> /\ faults = {}

-----------------------------------------------------------------------------
(* Planning: plan_arrow_schema_to_mssql_schema_inner *)

NextField == Len(mappings) + Len(diagnostics) + 1
Unplanned == NextField <= Len(schema)

\* One turn of the loop over the fields: a bad field does not end it.
PlanNextField ==
    /\ pc = "planning" /\ Unplanned
    /\ LET field == schema[NextField]
           plan == PlanField(field, options)
       IN \/ /\ plan.code = "ok"
             /\ mappings' = Append(mappings, Mapping(NextField, field, plan.type))
             /\ UNCHANGED diagnostics
          \/ /\ plan.code # "ok"
             /\ diagnostics' = Append(diagnostics, [field |-> NextField, code |-> plan.code])
             /\ UNCHANGED mappings
    /\ UNCHANGED <<schema, options, pc, table, alterations, backend, encodings, columns, faults>>

\* Any diagnostic refuses the whole schema.
PlanReturns ==
    /\ pc = "planning" /\ ~Unplanned
    /\ pc' = IF diagnostics = <<>> THEN "planned" ELSE "refused"
    /\ UNCHANGED <<planVars, table, alterations, backend, encodings, columns, faults>>

-----------------------------------------------------------------------------
(* The table on the server *)

\* SQL Server compares column names without case and bounds its types.
StorableType(t) ==
    CASE t.kind = "NVarChar" -> t.p = MaxLength \/ t.p \in 1..4000
      [] t.kind = "VarBinary" -> t.p = MaxLength \/ t.p \in 1..8000
      [] t.kind = "Binary" -> t.p \in 1..8000
      [] t.kind = "Decimal" -> t.p \in 1..38 /\ t.s \in 0..t.p
      [] t.kind \in {"Time", "DateTime2", "DateTimeOffset"} -> t.p \in 0..7
      [] OTHER -> t.kind # "none"
Storable(cols) ==
    /\ cols # <<>>
    /\ \A i \in DOMAIN cols : StorableType(cols[i].type)
    /\ \A i, j \in DOMAIN cols : cols[i].name = cols[j].name => i = j

\* The caller runs the rendered CREATE TABLE statement.
CreateTable ==
    /\ pc = "planned"
    /\ LET cols == CreateTableColumns(mappings)
       IN IF Storable(cols) THEN table' = cols /\ pc' = "ready"
                            ELSE table' = table /\ pc' = "unstorable"
    /\ UNCHANGED <<planVars, alterations, backend, encodings, columns, faults>>

Changes(column) ==
    {[column EXCEPT !.nullable = ~@], [column EXCEPT !.name = "other"]}
        \cup {[column EXCEPT !.type = t] : t \in StrayTypes}
\* Tables one change away: a column changed, dropped, added, or two exchanged.
Altered(cols) ==
    (UNION {{[cols EXCEPT ![i] = c] : c \in Changes(cols[i])} : i \in DOMAIN cols})
        \cup {Append(cols, [name |-> "extra", type |-> Plain("Int"), nullable |-> TRUE])}
        \cup (IF Len(cols) > 1
              THEN {SubSeq(cols, 1, Len(cols) - 1), <<cols[2], cols[1]>> \o SubSeq(cols, 3, Len(cols))}
              ELSE {})

\* Another session, before, between or after the round trips of new.
Alter ==
    /\ pc \in {"ready", "resolved", "described", "validated"}
    /\ alterations < MaxAlterations
    /\ table' \in Altered(table)
    /\ alterations' = alterations + 1
    /\ UNCHANGED <<planVars, pc, backend, encodings, columns, faults>>

-----------------------------------------------------------------------------
(* BulkWriter::new *)

ResolveBackend(b) == IF b = "Auto" THEN "DirectRawBulk" ELSE b

\* WriterState::new: a direct backend needs an encoding for every mapping.
NewState(b) ==
    /\ pc = "ready"
    /\ backend' = ResolveBackend(b)
    /\ encodings' = IF backend' \in DirectBackends THEN DirectPlan(mappings) ELSE <<>>
    /\ pc' = IF backend' \in DirectBackends /\ UnsupportedIn(mappings) # {}
             THEN "unsupported" ELSE "resolved"
    /\ UNCHANGED <<planVars, table, alterations, columns, faults>>

\* The reply to bulk_insert_columns, or its error.
Describe ==
    /\ pc = "resolved"
    /\ \/ pc' = "described" /\ columns' = table
       \/ pc' = "failed" /\ UNCHANGED columns
    /\ UNCHANGED <<planVars, table, alterations, backend, encodings, faults>>

\* validate_bulk_target_column: ordinals are positions of the reply, so they
\* agree; name and nullability are compared, and each difference is named.
Fault(i, what) == [field |-> i, what |-> what]
Shared == 1..(IF Len(columns) < Len(mappings) THEN Len(columns) ELSE Len(mappings))
CountFaults == IF Len(columns) # Len(mappings) THEN {Fault(0, "count")} ELSE {}
ColumnsFaults ==
    CountFaults
        \cup {Fault(i, "name") : i \in {j \in Shared : columns[j].name # mappings[j].name}}
        \cup {Fault(i, "nullable") :
                 i \in {j \in Shared : columns[j].nullable # mappings[j].nullable}}

\* tiberius::ColumnType of a live column; only bit and datetime report whether
\* they are nullable.
ReportedType(column) ==
    LET t == column.type IN
    CASE t.kind = "Bit" -> IF column.nullable THEN "Bitn" ELSE "Bit"
      [] t.kind = "DateTime" -> IF column.nullable THEN "Datetimen" ELSE "Datetime"
      [] OTHER -> t.kind

\* expected_direct_bulk_column_type
ExpectedType(e, nullable) ==
    CASE e.to.kind = "Bit" -> IF nullable THEN "Bitn" ELSE "Bit"
      [] e.to.kind = "DateTime" -> "Datetimen"
      [] OTHER -> e.to.kind

\* validate_direct_bulk_target_column_type
TypeAcceptedExactly(actual, expected) == actual = expected
TypeAccepted(actual, expected) ==
    actual = expected \/ (actual = "Datetime" /\ expected = "Datetimen")
PrecisionAccepted(column, e) ==
    e.to.kind = "Decimal" =>
        column.type.kind = "Decimal" /\ column.type.p = e.to.p /\ column.type.s = e.to.s
TypesFaults ==
    CountFaults
        \cup {Fault(i, "type") :
                 i \in {j \in Shared : ~TypeAccepted(ReportedType(columns[j]),
                                          ExpectedType(encodings[j], mappings[j].nullable))}}
        \cup {Fault(i, "precision") :
                 i \in {j \in Shared : ~PrecisionAccepted(columns[j], encodings[j])}}

\* The columns first; the types only for a direct backend, and only then.
Validate ==
    /\ pc = "described"
    /\ faults' = IF ColumnsFaults # {} \/ backend \notin DirectBackends
                 THEN ColumnsFaults ELSE TypesFaults
    /\ pc' = IF faults' = {} THEN "validated" ELSE "rejected"
    /\ UNCHANGED <<planVars, table, alterations, backend, encodings, columns>>

OpenWithFreshColumns ==
    /\ pc = "validated"
    /\ columns' = table
    /\ pc' \in {"open", "failed"}
    /\ UNCHANGED <<planVars, table, alterations, backend, encodings, faults>>

\* INSERT BULK names the columns that were read, with their types.  The server
\* refuses a column it no longer has.
Open ==
    /\ pc = "validated"
    /\ \/ /\ \A i \in DOMAIN columns : \E j \in DOMAIN table : table[j].name = columns[i].name
          /\ pc' = "open"
       \/ pc' = "failed"
    /\ UNCHANGED <<planVars, table, alterations, backend, encodings, columns, faults>>

Ended == {"refused", "unstorable", "unsupported", "rejected", "failed", "open"}
Done == pc \in Ended /\ UNCHANGED vars

Next == \/ PlanNextField \/ PlanReturns \/ CreateTable \/ Alter
        \/ (\E b \in Backends : NewState(b)) \/ Describe \/ Validate \/ Open
        \/ Done

Spec == Init /\ [][Next]_vars

-----------------------------------------------------------------------------
(* How cells are framed: what a direct backend writes for an encoding, and *)
(* what the column list of INSERT BULK declares.                           *)

LengthByte(nullable) == IF nullable THEN "byte" ELSE "bare"
LengthField(p) == IF p = MaxLength THEN "plp" ELSE "u16"
BareKinds == {"Bit", "TinyInt", "SmallInt", "Int", "BigInt", "Real", "Float", "DateTime"}

Framing(t, nullable) ==
    CASE t.kind \in BareKinds -> LengthByte(nullable)
      [] t.kind \in {"NVarChar", "VarBinary", "Binary"} -> LengthField(t.p)
      [] OTHER -> "byte"
WrittenFraming(i) == Framing(encodings[i].to, mappings[i].nullable)
DeclaredFraming(i) == Framing(columns[i].type, columns[i].nullable)

-----------------------------------------------------------------------------
(* Properties *)

\* Planning collects every fault of the schema in one pass, in field order, and
\* returns no partial plan; a plan has its fields' names at their positions.
PlanIsAllOrNothing ==
    /\ pc = "refused" =>
         /\ {diagnostics[i].field : i \in DOMAIN diagnostics}
              = {f \in DOMAIN schema : PlanField(schema[f], options).code # "ok"}
         /\ \A i, j \in DOMAIN diagnostics : i < j => diagnostics[i].field < diagnostics[j].field
    /\ pc \notin {"planning", "refused"} =>
         /\ Len(mappings) = Len(schema)
         /\ \A i \in DOMAIN schema : /\ mappings[i].index = i
                                     /\ mappings[i].name = schema[i].name.text
                                     /\ mappings[i].nullable = schema[i].nullable
                                     /\ mappings[i].arrow = schema[i].type

\* Digits left of the point that a decimal of the source, or of SQL, holds.
IntegralDigits(t) == t.p - t.s
ByteWidths == [Int8 |-> 1, Int16 |-> 2, Int32 |-> 4, Int64 |-> 8,
               UInt8 |-> 1, UInt16 |-> 2, UInt32 |-> 4]
SqlWidths == [TinyInt |-> 1, SmallInt |-> 2, Int |-> 4, BigInt |-> 8]
SignedSource(a) == a.kind \in {"Int8", "Int16", "Int32", "Int64"}

\* A planned type holds every value its Arrow type can have, whatever the
\* policies: integers fit with their sign, decimals keep all their digits, and
\* times the digits SQL Server has.  The checked uint64 conversion is the one
\* exception the policies offer.
PlannedTypesHoldTheirSources ==
    \A i \in DOMAIN mappings :
        LET a == mappings[i].arrow
            t == mappings[i].type
        IN /\ a.kind \in DOMAIN ByteWidths =>
                \/ SqlWidths[t.kind] > ByteWidths[a.kind]
                \/ /\ SqlWidths[t.kind] = ByteWidths[a.kind]
                   /\ SignedSource(a) = (t.kind # "TinyInt")
           /\ a.kind \in Decimals => /\ IntegralDigits(t) >= IntegralDigits(a)
                                     /\ t.s >= a.s
           /\ a.kind \in TimeKinds => t.p = 7 \/ t.p >= a.p

\* The CREATE TABLE rendered from a plan is refused only for what planning
\* leaves to the caller: repeated names, a policy length SQL Server does not
\* have, or no column at all.
LengthFits(policy, max) == policy.kind = "Bounded" => policy.n \in 1..max
PolicyLengthFits == LengthFits(options.string, 4000) /\ LengthFits(options.binary, 8000)
RenderedTableIsStorable ==
    pc = "unstorable" =>
        \/ schema = <<>>
        \/ ~PolicyLengthFits
        \/ \E i, j \in DOMAIN schema : i # j /\ schema[i].name.text = schema[j].name.text

\* At most one classifier takes a planned mapping, so the order in which the
\* direct plan tries them cannot matter; and every planned mapping has a direct
\* encoding, except a decimal whose scale Tiberius' Numeric cannot carry.
Takers(m) ==
    (IF IsPrimitive(m) THEN {"Primitive"} ELSE {})
        \cup (IF IsDecimal(m) THEN {"Decimal"} ELSE {})
        \cup (IF UInt64Target(m) = "Decimal20_0" THEN {"UInt64Decimal20_0"} ELSE {})
        \cup (IF IsVariableWidth(m) THEN {"VariableWidth"} ELSE {})
        \cup (IF IsFixedSizeBinary(m) THEN {"FixedSizeBinary"} ELSE {})
        \cup (IF IsTemporal(m) THEN {"Temporal"} ELSE {})
OneEncodingPerMapping ==
    \A i \in DOMAIN mappings :
        /\ Takers(mappings[i]) = {SupportMapping(mappings[i]).family} \ {"Unsupported"}
        /\ Takers(mappings[i]) = {} => mappings[i].type.s = 38

\* A plan is all of the schema or nothing, loses no value to a type that is too
\* narrow, makes a table, and has one direct encoding for each column.
PlanIsSound ==
    /\ PlanIsAllOrNothing
    /\ PlannedTypesHoldTheirSources
    /\ RenderedTableIsStorable
    /\ OneEncodingPerMapping

\* A table made from the plan and left alone is accepted by every backend.
OwnTableIsAccepted == alterations = 0 => pc # "rejected"

\* Whatever other sessions did between the round trips, the load is opened with
\* columns that agree with the plan one by one; and on a direct backend each
\* cell is framed as its declared column says, where the length or the scale of
\* the target, which the check does not look at, is the planned one.
SameLength(i) == columns[i].type.p = encodings[i].to.p
OpenLoadFollowsThePlan ==
    pc = "open" =>
        /\ Len(columns) = Len(mappings)
        /\ \A i \in DOMAIN mappings :
             /\ columns[i].name = mappings[i].name
             /\ columns[i].nullable = mappings[i].nullable
             /\ backend \in DirectBackends =>
                  /\ columns[i].type.kind = mappings[i].type.kind
                  /\ SameLength(i) => /\ columns[i].type = mappings[i].type
                                      /\ WrittenFraming(i) = DeclaredFraming(i)

\* The README: "The connected writer validates target table metadata before
\* sending rows."  On a direct backend this would mean that an accepted target
\* declares each column with the framing its cells are written in.
AcceptedTargetsFrameTheirCells ==
    pc = "open" /\ backend \in DirectBackends =>
        \A i \in DOMAIN mappings : WrittenFraming(i) = DeclaredFraming(i)
=============================================================================
