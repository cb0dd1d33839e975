---------------------------- MODULE RowEncoding ----------------------------
(***************************************************************************)
(* How a range of rows of a record batch becomes one payload of TDS rows   *)
(* (src/write/direct): the cells are measured, laid out and filled column  *)
(* by column through a table of cell positions, or through one cursor per  *)
(* row when every column has a fixed width, or appended row by row when a  *)
(* column has a variable width.  All of them must produce the same bytes.  *)
(*                                                                         *)
(* A value is NULL or the number of bytes of its encoding.  A payload byte *)
(* is named by what it stands for: the row token, byte k of a length field *)
(* that says n, byte k of the value in row r and column c, or still unset. *)
(***************************************************************************)
EXTENDS Integers, Sequences

CONSTANTS
    NULL,     \* the value of a null cell
    Plans,    \* column sequences of direct plans
    MaxRows   \* bound on the rows of a batch

\* Lengths in the encoding: primitive.rs, fixed_size_binary.rs, decimal.rs,
\* temporal/value.rs and variable_width.rs.
RowTokenLen == 1
CellLenPrefix == 1
BoundedPrefix == 2
PlpPrefix == 8
PlpChunkPrefix == 4
PlpTerminator == 4

VARIABLES
    plan,          \* columns: [family, nullable, sizes, text]
    batch,         \* values by row and column, both from 1
    start, count,  \* the range of rows to encode
    entry,         \* "writer" encodes a measured range, "slice" measures it anew
    pc,            \* stage of the encoding
    row, col,      \* loop counters, from 1
    offset,        \* bytes laid out or appended so far
    tokens,        \* row_token_offsets
    cells,         \* cell positions of the general layout, row-major
    cursors,       \* current_offsets of the fixed-width path
    bytes          \* the payload

batchVars == <<plan, batch, start, count, entry>>
layoutVars == <<offset, tokens, cells>>
vars == <<batchVars, pc, row, col, layoutVars, cursors, bytes>>

-----------------------------------------------------------------------------
(* Bytes *)

Unset == <<"unset", 0, 0, 0>>
Token == <<"token", 0, 0, 0>>
Field(name, n, width) == [k \in 1..width |-> <<name, n, 0, k>>]
ValueBytes(r, c) == [k \in 1..batch[r][c] |-> <<"value", r, c, k>>]

ColumnCount == Len(plan)
Width(k) == CHOOSE s \in k.sizes : TRUE

\* Bytes of a cell before its value.  A primitive column has a length byte
\* only when it is nullable (so has datetime, which counts as one here); the
\* other families have one always.
PrefixAlways(k) == IF k.family = "fixedBinary" THEN BoundedPrefix ELSE CellLenPrefix
FixedPrefix(k) == CASE k.family = "fixedBinary" -> BoundedPrefix
                    [] k.family = "primitive" /\ ~k.nullable -> 0
                    [] OTHER -> CellLenPrefix

NullLen(k) == CASE k.family = "max" -> PlpPrefix
                [] k.family \in {"bounded", "fixedBinary"} -> BoundedPrefix
                [] OTHER -> CellLenPrefix

\* plp_cell_len: a terminator follows only a chunk that is not empty.
PlpCellLenAlwaysEnds(n) == PlpPrefix + PlpChunkPrefix + n + PlpTerminator
PlpCellLen(n) == PlpPrefix + PlpChunkPrefix + n + (IF n = 0 THEN 0 ELSE PlpTerminator)

\* The cell length that the measure functions put into the matrix.
MeasuredLen(k, v) ==
    CASE v = NULL -> NullLen(k)
      [] v # NULL /\ k.family = "max" -> PlpCellLen(v)
      [] v # NULL /\ k.family = "bounded" -> BoundedPrefix + v
      [] OTHER -> FixedPrefix(k) + v

\* The bytes of a string as the writer derives them from the cell length,
\* because counting UTF-16 units again would be slow.
EncodedFromLen(k, len) ==
    IF k.family = "bounded" THEN len - BoundedPrefix
    ELSE IF len = PlpPrefix + PlpChunkPrefix THEN 0
    ELSE len - (PlpPrefix + PlpChunkPrefix + PlpTerminator)

\* What the write and append functions emit for the cell in row r and column
\* c, for a measured length of len.
CellBytes(r, c, len) ==
    LET k == plan[c]
        v == batch[r][c]
        n == IF k.text THEN EncodedFromLen(k, len) ELSE v
    IN CASE v = NULL -> Field("null", 0, NullLen(k))
         [] v # NULL /\ k.family = "bounded" -> Field("length", n, BoundedPrefix) \o ValueBytes(r, c)
         [] v # NULL /\ k.family = "max" ->
              Field("plp", 0, PlpPrefix) \o Field("length", n, PlpChunkPrefix)
                \o ValueBytes(r, c) \o (IF n = 0 THEN <<>> ELSE Field("end", 0, PlpTerminator))
         [] OTHER -> Field("length", v, FixedPrefix(k)) \o ValueBytes(r, c)

\* s with the bytes b from 0-based position at on.
Overwrite(s, at, b) ==
    [i \in 1..Len(s) |-> IF at < i /\ i <= at + Len(b) THEN b[i - at] ELSE s[i]]

-----------------------------------------------------------------------------
(* Which path encodes the range *)

Variable(k) == k.family \in {"bounded", "max"}
FixedWidth(k) == k.family \in {"primitive", "temporal", "fixedBinary"}
HasVariableWidthColumn == \E c \in 1..ColumnCount : Variable(plan[c])
AllFixedWidth == \A c \in 1..ColumnCount : FixedWidth(plan[c])

ValuesOf(k) == k.sizes \cup (IF k.nullable THEN {NULL} ELSE {})

\* The columns of a direct plan: a fixed width is one number, only strings are
\* texts, and a table has a column.
ColumnOK(k) ==
    /\ k.family \in {"primitive", "temporal", "fixedBinary", "decimal", "bounded", "max"}
    /\ k.nullable \in BOOLEAN /\ k.text \in BOOLEAN
    /\ k.sizes \subseteq Nat
    /\ FixedWidth(k) => \E n \in k.sizes : k.sizes = {n}
    /\ k.text => Variable(k)
ASSUME RowEncodingAssumption ==
    /\ NULL \notin Nat
    /\ MaxRows \in Nat
    /\ \A p \in Plans : /\ p \in Seq({p[c] : c \in DOMAIN p}) /\ p # <<>>
                         /\ \A c \in DOMAIN p : ColumnOK(p[c])

Init ==
    /\ plan \in Plans
    /\ \E n \in 1..MaxRows :
          /\ batch \in [1..n -> {v \in [1..Len(plan) -> UNION {ValuesOf(plan[c]) : c \in 1..Len(plan)}] :
                                   \A c \in 1..Len(plan) : v[c] \in ValuesOf(plan[c])}]
          /\ start \in 0..(n - 1) /\ count \in 1..(n - start)
    /\ entry \in {"writer", "slice"}
    /\ pc = "begin" /\ row = 1 /\ col = 1
    /\ offset = 0 /\ tokens = <<>> /\ cells = <<>> /\ cursors = <<>> /\ bytes = <<>>

\* send_measured_raw_rows and encode_checked_batch.  The fixed-width path may
\* be switched off by a profiling setting.
ChoosePath(fixedEnabled) ==
    /\ pc = "begin"
    /\ pc' = CASE entry = "writer" /\ HasVariableWidthColumn -> "append"
               [] entry = "slice" /\ AllFixedWidth /\ fixedEnabled -> "measureFixed"
               [] OTHER -> "layout"
    /\ UNCHANGED <<batchVars, row, col, layoutVars, cursors, bytes>>

\* The row of the batch that is the i-th of the range: the fill paths read a
\* slice, the append path counts from start_row.
RangeRowIgnoringStart(i) == i
RangeRow(i) == start + i

\* The row of a cell position, relative to the payload.
LayoutRowOf(i) == i

-----------------------------------------------------------------------------
(* build_fixed_width_row_range_layout and RowLayout::new *)

LayoutRow ==
    /\ pc = "layout" /\ row <= count /\ col = 1 /\ Len(tokens) < row
    /\ tokens' = Append(tokens, offset)
    /\ offset' = offset + RowTokenLen
    /\ UNCHANGED <<batchVars, pc, row, col, cells, cursors, bytes>>

\* The measured cell length the layout reads: the matrix is indexed by the
\* row of the batch.
LayoutLenOfRange(i, c) == MeasuredLen(plan[c], batch[i][c])
LayoutLen(i, c) == MeasuredLen(plan[c], batch[RangeRow(i)][c])

LayoutCell ==
    /\ pc = "layout" /\ row <= count /\ Len(tokens) = row
    /\ LET len == LayoutLen(row, col)
       IN /\ cells' = Append(cells, [row |-> LayoutRowOf(row), col |-> col, offset |-> offset, len |-> len])
          /\ offset' = offset + len
    /\ IF col < ColumnCount THEN col' = col + 1 /\ UNCHANGED row
                            ELSE col' = 1 /\ row' = row + 1
    /\ UNCHANGED <<batchVars, pc, tokens, cursors, bytes>>

\* validate_rows and validate_cells: rows are contiguous, cells inside.
RowBytes(lens) ==
    LET sum[c \in 0..Len(lens)] == IF c = 0 THEN RowTokenLen ELSE sum[c - 1] + lens[c]
    IN sum[Len(lens)]
RowLen(i) == RowBytes([c \in 1..ColumnCount |-> cells[(i - 1) * ColumnCount + c].len])
LayoutValid ==
    /\ tokens[1] = 0
    /\ \A i \in 1..Len(tokens) :
          tokens[i] + RowLen(i) = IF i < Len(tokens) THEN tokens[i + 1] ELSE offset
    /\ \A i \in 1..Len(cells) : cells[i].row <= Len(tokens)
                                /\ cells[i].offset + cells[i].len <= offset

\* allocate_rows_payload_with_tokens
Allocated == [i \in 1..offset |-> IF \E t \in 1..Len(tokens) : tokens[t] = i - 1
                                    THEN Token ELSE Unset]

\* The layout is complete: the payload is allocated and filled through the
\* cell positions, or through cursors that start at the first cell of a row.
FinishLayout(fixedEnabled) ==
    /\ pc = "layout" /\ row > count
    /\ IF ~LayoutValid
         THEN pc' = "invalid" /\ UNCHANGED <<cursors, bytes>>
         ELSE /\ bytes' = Allocated
              /\ IF entry = "writer" /\ AllFixedWidth /\ fixedEnabled
                   THEN /\ pc' = "fillFixed"
                        /\ cursors' = [i \in 1..count |-> cells[(i - 1) * ColumnCount + 1].offset]
                   ELSE pc' = "fillGeneral" /\ UNCHANGED cursors
    /\ row' = 1 /\ col' = 1
    /\ UNCHANGED <<batchVars, layoutVars>>

\* measure_fixed_width_rows: the lengths of a row are summed without a matrix.
FixedCellLen(k, v) == IF v = NULL THEN PrefixAlways(k) ELSE FixedPrefix(k) + Width(k)
FixedRowLen(i) ==
    RowBytes([c \in 1..ColumnCount |-> FixedCellLen(plan[c], batch[RangeRow(i)][c])])

MeasureFixedRow ==
    /\ pc = "measureFixed" /\ row <= count
    /\ tokens' = Append(tokens, offset)
    /\ cursors' = Append(cursors, offset + RowTokenLen)
    /\ offset' = offset + FixedRowLen(row)
    /\ row' = row + 1
    /\ UNCHANGED <<batchVars, pc, col, cells, bytes>>

AllocateFixed ==
    /\ pc = "measureFixed" /\ row > count
    /\ bytes' = Allocated
    /\ pc' = "fillFixed" /\ row' = 1 /\ col' = 1
    /\ UNCHANGED <<batchVars, layoutVars, cursors>>

-----------------------------------------------------------------------------
(* The three ways to write the cells *)

\* Columns outside, rows inside.
NextCellByColumn ==
    IF row < count THEN row' = row + 1 /\ UNCHANGED col ELSE row' = 1 /\ col' = col + 1

\* A cell is refused when its bytes do not have the length it was given.  The
\* bytes of a string are not compared: their number comes from that length.
Refused(r, c, b, len) == (batch[r][c] = NULL \/ ~plan[c].text) /\ Len(b) # len

\* fill_columns
FillCell ==
    /\ pc = "fillGeneral" /\ col <= ColumnCount
    /\ LET cell == cells[(row - 1) * ColumnCount + col]
           b == CellBytes(RangeRow(row), col, cell.len)
       IN IF cell.row # row \/ cell.col # col \/ Refused(RangeRow(row), col, b, cell.len)
            THEN pc' = "invalid" /\ UNCHANGED <<row, col, bytes>>
            ELSE bytes' = Overwrite(bytes, cell.offset, b) /\ NextCellByColumn /\ UNCHANGED pc
    /\ UNCHANGED <<batchVars, layoutVars, cursors>>

\* How far a cursor moves behind the cell it has written.
Advance(k, v) == IF v = NULL THEN PrefixAlways(k) ELSE FixedPrefix(k) + Width(k)

\* encode_fixed_width_rows: an index outside the payload fails or panics.
FillFixedCell ==
    /\ pc = "fillFixed" /\ col <= ColumnCount
    /\ LET b == CellBytes(RangeRow(row), col, 0)
           at == cursors[row]
       IN IF at + Len(b) > Len(bytes)
            THEN pc' = "invalid" /\ UNCHANGED <<row, col, cursors, bytes>>
            ELSE /\ bytes' = Overwrite(bytes, at, b)
                 /\ cursors' = [cursors EXCEPT
                                  ![row] = at + Advance(plan[col], batch[RangeRow(row)][col])]
                 /\ NextCellByColumn /\ UNCHANGED pc
    /\ UNCHANGED <<batchVars, layoutVars>>

\* EncodedRowsPayload::new
PayloadValid ==
    /\ \A i \in 1..Len(tokens) : tokens[i] < Len(bytes) /\ bytes[tokens[i] + 1] = Token
    /\ \A i \in 2..Len(tokens) : tokens[i - 1] < tokens[i]

SealPayload ==
    /\ pc \in {"fillGeneral", "fillFixed"} /\ col > ColumnCount
    /\ pc' = IF PayloadValid THEN "done" ELSE "invalid"
    /\ UNCHANGED <<batchVars, row, col, layoutVars, cursors, bytes>>

\* encode_measured_batch_range_into: rows outside, columns inside.
AppendToken ==
    /\ pc = "append" /\ row <= count /\ Len(tokens) < row
    /\ tokens' = Append(tokens, offset)
    /\ bytes' = Append(bytes, Token)
    /\ offset' = offset + RowTokenLen
    /\ UNCHANGED <<batchVars, pc, row, col, cells, cursors>>

\* The measured length, not the number of bytes put, moves the next token.
AppendCell ==
    /\ pc = "append" /\ row <= count /\ Len(tokens) = row
    /\ LET len == LayoutLen(row, col)
           b == CellBytes(RangeRow(row), col, len)
       IN IF Refused(RangeRow(row), col, b, len)
            THEN pc' = "invalid" /\ UNCHANGED <<row, col, offset, bytes>>
            ELSE /\ bytes' = bytes \o b
                 /\ offset' = offset + len
                 /\ IF col < ColumnCount THEN col' = col + 1 /\ UNCHANGED row
                                         ELSE col' = 1 /\ row' = row + 1
                 /\ UNCHANGED pc
    /\ UNCHANGED <<batchVars, tokens, cells, cursors>>

FinishAppend ==
    /\ pc = "append" /\ row > count
    /\ pc' = "done"
    /\ UNCHANGED <<batchVars, row, col, layoutVars, cursors, bytes>>

Encoded == pc \in {"done", "invalid"} /\ UNCHANGED vars

Next ==
    \/ \E fixedEnabled \in BOOLEAN : ChoosePath(fixedEnabled) \/ FinishLayout(fixedEnabled)
    \/ LayoutRow \/ LayoutCell \/ MeasureFixedRow \/ AllocateFixed
    \/ FillCell \/ FillFixedCell \/ SealPayload
    \/ AppendToken \/ AppendCell \/ FinishAppend
    \/ Encoded

Spec == Init /\ [][Next]_vars

-----------------------------------------------------------------------------
(* Properties *)

\* A TDS cell as the receiver parses it.
WireCell(r, c) ==
    LET k == plan[c]
        v == batch[r][c]
    IN IF v = NULL THEN Field("null", 0, NullLen(k))
       ELSE CASE k.family = "primitive" /\ ~k.nullable -> ValueBytes(r, c)
              [] k.family = "max" /\ v = 0 -> Field("plp", 0, 8) \o Field("length", 0, 4)
              [] k.family = "max" /\ v > 0 -> Field("plp", 0, 8) \o Field("length", v, 4)
                                                \o ValueBytes(r, c) \o Field("end", 0, 4)
              [] k.family \in {"bounded", "fixedBinary"} -> Field("length", v, 2) \o ValueBytes(r, c)
              [] OTHER -> Field("length", v, 1) \o ValueBytes(r, c)

\* A row up to its c-th cell, and the range up to its i-th row.
RowTo(r) ==
    LET to[c \in 0..ColumnCount] == IF c = 0 THEN <<Token>> ELSE to[c - 1] \o WireCell(r, c)
    IN to
RowsTo == LET to[i \in 0..count] == IF i = 0 THEN <<>>
                                     ELSE to[i - 1] \o RowTo(start + i)[ColumnCount]
          IN to

\* Whichever path encoded the range, the payload is the rows of the range one
\* after the other, each cell in its place and with its own length field.
PayloadIsRows == pc = "done" => bytes = RowsTo[count]

\* The offsets handed to Tiberius with the payload are where the rows begin,
\* relative to the payload and not to the batch, so its packets split rows
\* where they end.
TokensAreRowStarts ==
    pc = "done" =>
        /\ Len(tokens) = count
        /\ \A i \in 1..count : tokens[i] = Len(RowsTo[i - 1])

\* The "invalid payload" errors and the slice panics are unreachable on a
\* measured batch; raised in the second range of a batch they would leave the
\* first one on the wire.
MeasuredRangeEncodes == pc # "invalid"

=============================================================================
