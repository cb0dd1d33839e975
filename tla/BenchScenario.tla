--------------------------- MODULE BenchScenario ---------------------------
(***************************************************************************)
(* The benchmark scenarios of xtask/src/writer_bench.rs: the schema and    *)
(* the generated columns of each, the lists of what each backend copies,   *)
(* and the reader that cuts the rows into batches for the Arrow IPC file.  *)
(*                                                                         *)
(* A column is a field of the schema, [kind, p, s, nullable], with what    *)
(* the generator makes of it: `every`, the rows it leaves NULL (every      *)
(* n-th, 0 for none) and `digits`, the longest decimal it makes.           *)
(***************************************************************************)
EXTENDS SchemaPlan, BcpCells, FiniteSets

CONSTANTS RowCounts, BatchSizes,
          InRowLimit    \* bytes of a row SQL Server stores in its page

ASSUME BenchScenarioAssumption ==
    RowCounts \subseteq Nat \ {0} /\ BatchSizes \subseteq Nat \ {0}

-----------------------------------------------------------------------------
(* Schemas and columns *)

Col(kind, nullable, every) ==
    [kind |-> kind, p |-> 0, s |-> 0, nullable |-> nullable, every |-> every, digits |-> 0]
Required(kind) == Col(kind, FALSE, 0)
Nullable(kind, every) == Col(kind, TRUE, every)
Money(p, s, nullable, every, digits) ==
    [kind |-> "Decimal128", p |-> p, s |-> s, nullable |-> nullable, every |-> every,
     digits |-> digits]
Sized(kind, p, nullable, every) == [Col(kind, nullable, every) EXCEPT !.p = p]
RequiredMillis(kind) == Sized(kind, 3, FALSE, 0)

\* for group in 0..n: the columns of every group, one group after the other.
Groups(n, G(_)) == FlattenSeq([i \in 1 .. n |-> G(i - 1)])

NarrowNumeric == <<Required("Int32"), Required("Int64"), Required("Float64")>>

ExtendedPrimitive ==
    <<Required("UInt8"), Nullable("UInt8", 7), Required("Int8"), Nullable("Int8", 11),
      Required("Int16"), Nullable("Int16", 13), Required("UInt16"), Nullable("UInt16", 17),
      Required("UInt32"), Nullable("UInt32", 19), Required("Float32"), Nullable("Float32", 23)>>

UInt64PolicyColumns ==
    <<Required("Int32"), Required("UInt64"), Required("UInt64"), Required("UInt64"),
      Nullable("UInt64", 13)>>

DateFastPath ==
    <<Required("Int32")>> \o
    Groups(8, LAMBDA g : <<Required("Date32"), Nullable("Date32", 11 + g),
                           Required("Date64"), Nullable("Date64", 13 + g)>>)

MixedNullable ==
    <<Required("Int32"), Nullable("Int64", 7), Nullable("Float64", 11), Nullable("Utf8", 5)>>

FixedSizeBinaryColumns ==
    <<Required("Int64"), Sized("FixedSizeBinary", 16, FALSE, 0),
      Sized("FixedSizeBinary", 4, TRUE, 7), Sized("FixedSizeBinary", 64, FALSE, 0)>>

WideMixed ==
    <<Required("Int64"), Required("Int32"), RequiredMillis("Timestamp"),
      Nullable("Float64", 17), Nullable("Utf8", 19), Nullable("Utf8", 23),
      Nullable("Utf8", 29), Nullable("Binary", 31)>>

DecimalTemporal ==
    <<Required("Int64"), Required("Int32"), Money(18, 4, FALSE, 0, 8),
      Money(12, 4, TRUE, 11, 5), Required("Date32"), RequiredMillis("Timestamp"),
      Nullable("Boolean", 17)>>

FixedWidth128 ==
    Groups(16, LAMBDA g :
        <<Required("Int32"), Nullable("Int32", 11 + g), Required("Int64"),
          Nullable("Int64", 13 + g), Required("Float64"), Nullable("Float64", 17 + g),
          Required("Boolean"), Nullable("Boolean", 19 + g)>>)

DecimalTemporal128 ==
    Groups(16, LAMBDA g :
        <<Money(18, 4, FALSE, 0, 8), Money(12, 4, TRUE, 11 + g, 5), Required("Date32"),
          Nullable("Date32", 13 + g), RequiredMillis("Timestamp"), RequiredMillis("Time32"),
          Sized("Time64", 6, FALSE, 0), Nullable("Boolean", 17 + g)>>)

StringHeavy ==
    <<Required("Int64"), Required("Utf8"), Nullable("Utf8", 37), Nullable("Utf8", 41),
      Nullable("Utf8", 43), Nullable("Utf8", 47), Nullable("Binary", 53)>>

\* The first integer column of wide_sparse is required in the schema and never
\* NULL in the rows, in two places of the code.
SparseInt32(g) == IF g = 0 THEN Required("Int32") ELSE Nullable("Int32", g + 11)
WideSparse ==
    Groups(8, LAMBDA g : <<SparseInt32(g)>>)
    \o Groups(8, LAMBDA g : <<Nullable("Float64", g + 13)>>)
    \o Groups(8, LAMBDA g : <<Nullable("Utf8", g + 17)>>)
    \o Groups(8, LAMBDA g : <<Nullable("Boolean", g + 23)>>)

TpchLineitemLike ==
    <<Required("Int64"), Required("Int64"), Required("Int64"), Required("Int32"),
      Money(15, 2, FALSE, 0, 4), Money(18, 2, FALSE, 0, 6), Money(10, 4, FALSE, 0, 3),
      Money(10, 4, FALSE, 0, 3), Required("Utf8"), Required("Utf8"), Required("Date32"),
      Required("Date32"), Required("Date32"), Required("Utf8"), Required("Utf8"),
      Nullable("Utf8", 101)>>

Scenarios ==
    [narrow_numeric |-> NarrowNumeric, extended_primitive |-> ExtendedPrimitive,
     uint64_policy |-> UInt64PolicyColumns, date_fast_path |-> DateFastPath,
     mixed_nullable |-> MixedNullable, fixed_size_binary |-> FixedSizeBinaryColumns,
     wide_mixed |-> WideMixed, decimal_temporal |-> DecimalTemporal,
     fixed_width_128 |-> FixedWidth128, decimal_temporal_128 |-> DecimalTemporal128,
     string_heavy |-> StringHeavy, string_heavy_text_only |-> StringHeavy,
     string_heavy_binary_only |-> StringHeavy, string_heavy_inline_4k |-> StringHeavy,
     string_heavy_edge_7k |-> StringHeavy, string_heavy_lob_9k |-> StringHeavy,
     string_heavy_unicode |-> StringHeavy, wide_sparse |-> WideSparse,
     tpch_lineitem_like |-> TpchLineitemLike]

Names == DOMAIN Scenarios

-----------------------------------------------------------------------------
(* What the backends are said to support *)

DirectRawSupported == Names \ {"wide_mixed", "tpch_lineitem_like"}

OdbcBcpUnsupported ==
    {"uint64_policy", "date_fast_path", "fixed_size_binary", "decimal_temporal_128"}

DefaultOptions ==
    [uint64 |-> "Reject", string |-> [kind |-> "Max", n |-> 0],
     binary |-> [kind |-> "Max", n |-> 0], decimal |-> "RejectNegativeScale",
     decimal256 |-> "CheckedDowncast", date64 |-> "RejectNonMidnight",
     timestamp |-> [kind |-> "DateTime2", n |-> 7], timezone |-> "Reject"]

BenchmarkPlanOptions(name) ==
    CASE name = "uint64_policy" -> [DefaultOptions EXCEPT !.uint64 = "Decimal20_0"]
      [] name = "date_fast_path" -> [DefaultOptions EXCEPT !.date64 = "TimestampDateTime2"]
      [] OTHER -> DefaultOptions

ArrowType(column) == [kind |-> column.kind, p |-> column.p, s |-> column.s, zone |-> "none"]
PlanOf(name, column) == PlanType(ArrowType(column), BenchmarkPlanOptions(name))
MappingOf(name, column) ==
    [index |-> 0, arrow |-> ArrowType(column), name |-> "c",
     type |-> PlanOf(name, column).type, nullable |-> column.nullable]

-----------------------------------------------------------------------------
(* Rows.  Only the lengths of texts and payloads are told apart. *)

IsNull(column, r) == column.every # 0 /\ r % column.every = 0
DecimalDigits(n) == Len(Digits[n])

\* StringHeavyShape::Fixed: the characters of the body, the bytes of the payload.
FixedShapes ==
    [string_heavy_inline_4k |-> [body |-> 1024, payload |-> 2048],
     string_heavy_edge_7k |-> [body |-> 1536, payload |-> 4096],
     string_heavy_lob_9k |-> [body |-> 2048, payload |-> 5120]]

\* Characters of the ASCII texts: "tenant-0000", the document types, a title
\* with twelve digits, the JSON of the metadata.
DocumentTypeChars == <<7, 5, 7, 7, 5>>
TenantChars == 11
TitleChars == 27
MetadataChars(r) ==
    33 + DecimalDigits(r % 512) + DecimalDigits(r % 17) + DecimalDigits(r)

\* Bytes of the variable-width values of a row without NULLs; UTF-16 text.
VariableBytes(name, r) ==
    LET shape == FixedShapes[name] IN
      2 * (TenantChars + DocumentTypeChars[(r % 5) + 1] + TitleChars + shape.body
           + MetadataChars(r))
      + shape.payload

-----------------------------------------------------------------------------
(* GeneratedBatchReader and the IPC file *)

VARIABLES scenario, rows, batchSize,
          offset,     \* next_offset of the reader
          file,       \* batches of the IPC file: [offset, len]
          replayed,   \* summarize_ipc_dataset: batches and rows read back
          phase       \* "write", "replay", "done" or "error"

vars == <<scenario, rows, batchSize, offset, file, replayed, phase>>

Columns == Scenarios[scenario]

Init ==
    /\ scenario \in Names
    /\ rows \in RowCounts /\ batchSize \in BatchSizes
    /\ offset = 0 /\ file = <<>>
    /\ replayed = [batches |-> 0, rows |-> 0]
    /\ phase = "write"

BatchLen == IF batchSize <= rows - offset THEN batchSize ELSE rows - offset

\* RecordBatch::try_new refuses a NULL of a required field.
Generates(from, len) ==
    \A c \in DOMAIN Columns, r \in from .. from + len - 1 :
        IsNull(Columns[c], r) => Columns[c].nullable

WriteBatch ==
    /\ phase = "write" /\ offset # rows
    /\ IF Generates(offset, BatchLen)
         THEN /\ file' = Append(file, [offset |-> offset, len |-> BatchLen])
              /\ offset' = offset + BatchLen
              /\ UNCHANGED phase
         ELSE phase' = "error" /\ UNCHANGED <<file, offset>>
    /\ UNCHANGED <<scenario, rows, batchSize, replayed>>

\* A plausible slip: a batch that cannot be full is not made.
FinishFileWithoutTail ==
    /\ phase = "write" /\ offset + batchSize > rows
    /\ phase' = "replay"
    /\ UNCHANGED <<scenario, rows, batchSize, offset, file, replayed>>
FinishFile ==
    /\ phase = "write" /\ offset = rows
    /\ phase' = "replay"
    /\ UNCHANGED <<scenario, rows, batchSize, offset, file, replayed>>

ReplayBatch ==
    /\ phase = "replay" /\ replayed.batches < Len(file)
    /\ replayed' = [batches |-> replayed.batches + 1,
                    rows |-> replayed.rows + file[replayed.batches + 1].len]
    /\ UNCHANGED <<scenario, rows, batchSize, offset, file, phase>>

ReplayEnds ==
    /\ phase = "replay" /\ replayed.batches = Len(file)
    /\ phase' = "done"
    /\ UNCHANGED <<scenario, rows, batchSize, offset, file, replayed>>

Next == WriteBatch \/ FinishFile \/ ReplayBatch \/ ReplayEnds

Spec == Init /\ [][Next]_vars

-----------------------------------------------------------------------------
\* Whatever the batch size, the file holds rows 0 .. rows-1 once and in order,
\* and the sizes compared after the replay are those asked for.
DatasetIsTheRows ==
    phase = "done" =>
        /\ FlattenSeq([b \in DOMAIN file |-> [i \in 1 .. file[b].len |-> file[b].offset + i - 1]])
             = [i \in 1 .. rows |-> i - 1]
        /\ \A b \in DOMAIN file : file[b].len \in 1 .. batchSize
        /\ replayed = [batches |-> (rows + batchSize - 1) \div batchSize, rows |-> rows]

\* A generated column is NULL only where its field allows it: no scenario fails
\* while its dataset is generated.
NullsFollowTheSchema == phase # "error"

\* Every scenario has a plan under its own options, whose decimals hold the
\* generated values; without it the compare command fails after its setup.
ScenarioIsPlanned ==
    \A c \in DOMAIN Columns :
        /\ PlanOf(scenario, Columns[c]).code = "ok"
        /\ Columns[c].kind = "Decimal128" =>
             Columns[c].digits <= PlanOf(scenario, Columns[c]).type.p

\* A scenario the direct backends are let through with has only columns the
\* direct encoder has an encoding for.
IsDirect(name) ==
    \A c \in DOMAIN Scenarios[name] :
        SupportMapping(MappingOf(name, Scenarios[name][c])) # Unsupported
DirectListIsWritable == scenario \in DirectRawSupported => IsDirect(scenario)

\* The scenarios the runner of ODBC BCP is refused are those with a column it
\* has no buffer for, and the timestamps of the others are milliseconds.
BcpListIsExact ==
    scenario \notin OdbcBcpUnsupported
        <=> \A c \in DOMAIN Columns :
                /\ IsOk(Bindable(Columns[c].kind))
                /\ Columns[c].kind = "Timestamp" => Columns[c].p = 3

\* The fixed string-heavy shapes are on the sides of the in-row limit their
\* names and descriptions say, for every row that has no NULL.
ShapesStraddleTheRowLimit ==
    phase = "done" /\ scenario \in DOMAIN FixedShapes =>
        \A r \in 0 .. rows - 1 :
            IF scenario = "string_heavy_lob_9k" THEN VariableBytes(scenario, r) > InRowLimit
                                                ELSE VariableBytes(scenario, r) <= InRowLimit
=============================================================================
