------------------------ MODULE BatchAdmissionProofs ------------------------
(***************************************************************************)
(* Proofs about BatchAdmission for every plan, every schema and every      *)
(* number of rows: both backends admit the same batches, a rejection names *)
(* the first cell at fault, and an admitted batch fits its target.         *)
(***************************************************************************)
EXTENDS BatchAdmission, TLAPS

\* The cells a pass visits before (r, c), in either order.
RowsConvertUpTo(r, c) ==
    \A i \in 1..Len(values), j \in 1..Len(plan) :
       i < r \/ (i = r /\ j < c) => Converts(i, j)
ColumnsConvertUpTo(r, c) ==
    \A i \in 1..Len(values), j \in 1..Len(plan) :
       j < c \/ (j = c /\ i < r) => Converts(i, j)
AllConvert == \A i \in 1..Len(values), j \in 1..Len(plan) : Converts(i, j)

\* What each pass returns: the batch is accepted if all its cells convert, and
\* otherwise rejected at the first, in the order of the pass, that does not.
BaselineVerdict ==
    \/ baseline = Passed /\ AllConvert
    \/ \E r \in 1..Len(values), c \in 1..Len(plan) :
          /\ baseline = Rejected("ValueConversion", r, c)
          /\ ~Converts(r, c) /\ RowsConvertUpTo(r, c)
DirectVerdict ==
    \/ direct = Passed /\ AllConvert
    \/ \E r \in 1..Len(values), c \in 1..Len(plan) :
          /\ direct = Rejected("ValueConversion", r, c)
          /\ ~Converts(r, c) /\ ColumnsConvertUpTo(r, c)

Typed ==
    /\ plan \in Plans /\ schema \in Schemas
    /\ row \in Nat \ {0} /\ col \in Nat \ {0}
    /\ Len(values) \in Nat /\ Len(plan) \in Nat
    /\ \A i \in 1..Len(values), j \in 1..Len(schema) : values[i][j] \in Values
    /\ preflight = PreflightAccepted(schema, plan)

\* The state at the head of each loop, and at the end.
BeforeTheRows == pc = "shape" /\ baseline = Pending /\ direct = Pending /\ row = 1 /\ col = 1
InTheRows ==
    /\ pc = "rows" /\ ShapeAccepted(schema, plan)
    /\ baseline = Pending /\ direct = Pending
    /\ Len(plan) > 0 => col <= Len(plan)
    /\ RowsConvertUpTo(row, col)
InTheColumns ==
    /\ pc = "columns" /\ ShapeAccepted(schema, plan)
    /\ BaselineVerdict /\ direct = Pending
    /\ Len(values) > 0 => row <= Len(values)
    /\ ColumnsConvertUpTo(row, col)
AfterTheColumns ==
    pc = "done" /\ ShapeAccepted(schema, plan) /\ BaselineVerdict /\ DirectVerdict
ShapeRefused ==
    /\ pc = "done" /\ ~ShapeAccepted(schema, plan)
    /\ baseline = Rejected("BatchSchemaValidation", 0, 0)
    /\ direct = Rejected("BatchSchemaValidation", 0, 0)

IInv ==
    /\ Typed
    /\ BeforeTheRows \/ InTheRows \/ InTheColumns \/ AfterTheColumns \/ ShapeRefused

-----------------------------------------------------------------------------
LEMMA InitIInv == Init => IInv
<1> SUFFICES ASSUME Init PROVE IInv
  OBVIOUS
<1>1. Len(plan) \in Nat /\ Len(values) = 0
  BY BatchAdmissionAssumption DEF Init
<1> QED
  BY <1>1 DEF Init, IInv, Typed, BeforeTheRows

LEMMA CheckShapeIInv == ASSUME IInv, CheckShape PROVE IInv'
<1>1. BeforeTheRows /\ Typed /\ UNCHANGED <<plan, schema, preflight, row, col>>
  BY DEF IInv, CheckShape, InTheRows, InTheColumns, AfterTheColumns, ShapeRefused
<1>2. CASE ShapeAccepted(schema, plan)
  <2>1. /\ values' \in BatchValues(schema) /\ pc' = "rows"
        /\ UNCHANGED <<baseline, direct>>
    BY <1>2 DEF CheckShape
  <2>2. PICK n \in 0..MaxRows : values' \in [1..n -> [1..Len(schema) -> Values]]
    BY <2>1 DEF BatchValues
  <2>3. n \in Nat /\ Len(values') = n
    BY <2>2, BatchAdmissionAssumption
  <2>4. Typed'
    BY <1>1, <2>2, <2>3 DEF Typed, PreflightAccepted, ShapeAccepted
  <2>5. RowsConvertUpTo(row, col)'
    BY <1>1, <2>3 DEF RowsConvertUpTo, BeforeTheRows
  <2>6. InTheRows'
    BY <1>1, <1>2, <2>1, <2>5 DEF InTheRows, BeforeTheRows, Typed, ShapeAccepted
  <2> QED
    BY <2>4, <2>6 DEF IInv
<1>3. CASE ~ShapeAccepted(schema, plan)
  <2>1. ShapeRefused'
    BY <1>1, <1>3 DEF CheckShape, ShapeRefused, ShapeAccepted, WritePhaseForBatchError
  <2>2. Typed'
    BY <1>1, <1>3 DEF CheckShape, Typed, PreflightAccepted, ShapeAccepted
  <2> QED
    BY <2>1, <2>2 DEF IInv
<1> QED
  BY <1>2, <1>3

\* The parts of the invariant that no pass disturbs.
LEMMA BatchKept ==
    ASSUME Typed, UNCHANGED <<plan, schema, values, preflight>>,
           row' \in Nat \ {0}, col' \in Nat \ {0}
    PROVE  /\ Typed' /\ ShapeAccepted(schema, plan)' = ShapeAccepted(schema, plan)
           /\ AllConvert' = AllConvert
  BY DEF Typed, PreflightAccepted, ShapeAccepted, AllConvert, Converts

LEMMA ConvertCellIInv == ASSUME IInv, ConvertCell PROVE IInv'
<1>1. /\ InTheRows /\ Typed /\ Len(plan) > 0 /\ row <= Len(values)
      /\ UNCHANGED <<plan, schema, values, preflight, direct>>
  BY DEF IInv, ConvertCell, BeforeTheRows, InTheColumns, AfterTheColumns, ShapeRefused
<1>2. row \in 1..Len(values) /\ col \in 1..Len(plan)
  BY <1>1 DEF Typed, InTheRows
<1>3. CASE Converts(row, col)
  <2>1. /\ IF col < Len(plan) THEN col' = col + 1 /\ row' = row ELSE col' = 1 /\ row' = row + 1
        /\ UNCHANGED <<pc, baseline>>
    BY <1>3 DEF ConvertCell
  <2>2. row' \in Nat \ {0} /\ col' \in Nat \ {0} /\ col' <= Len(plan)
    BY <1>1, <2>1 DEF Typed
  <2>3. Typed' /\ ShapeAccepted(schema, plan)'
    BY <1>1, <2>2, BatchKept DEF InTheRows
  <2>4. RowsConvertUpTo(row, col)'
    <3> SUFFICES ASSUME NEW i \in 1..Len(values), NEW j \in 1..Len(plan),
                        i < row' \/ (i = row' /\ j < col')
                 PROVE  Converts(i, j)
      BY <1>1 DEF RowsConvertUpTo, Converts
    <3>1. \/ i < row \/ (i = row /\ j < col)
          \/ i = row /\ j = col
      BY <1>1, <2>1 DEF Typed
    <3> QED
      BY <1>1, <1>3, <3>1 DEF InTheRows, RowsConvertUpTo
  <2>5. InTheRows'
    BY <1>1, <2>1, <2>2, <2>3, <2>4 DEF InTheRows
  <2> QED
    BY <2>3, <2>5 DEF IInv
<1>4. CASE ~Converts(row, col)
  <2>1. /\ baseline' = Rejected("ValueConversion", row, col)
        /\ pc' = "columns" /\ row' = 1 /\ col' = 1
    BY <1>4 DEF ConvertCell
  <2>2. Typed' /\ ShapeAccepted(schema, plan)'
    BY <1>1, <2>1, BatchKept DEF InTheRows
  <2>3. BaselineVerdict'
    BY <1>1, <1>2, <1>4, <2>1 DEF BaselineVerdict, InTheRows, RowsConvertUpTo, Converts, Rejected
  <2>4. InTheColumns'
    BY <1>1, <2>1, <2>2, <2>3 DEF InTheRows, InTheColumns, ColumnsConvertUpTo, Typed
  <2> QED
    BY <2>2, <2>4 DEF IInv
<1> QED
  BY <1>3, <1>4

LEMMA BaselineAcceptsIInv == ASSUME IInv, BaselineAccepts PROVE IInv'
<1>1. /\ InTheRows /\ Typed /\ (Len(plan) = 0 \/ row > Len(values))
      /\ UNCHANGED <<plan, schema, values, preflight, direct>>
      /\ baseline' = Passed /\ pc' = "columns" /\ row' = 1 /\ col' = 1
  BY DEF IInv, BaselineAccepts, BeforeTheRows, InTheColumns, AfterTheColumns, ShapeRefused
<1>2. AllConvert
  BY <1>1 DEF AllConvert, InTheRows, RowsConvertUpTo, Typed
<1>3. Typed' /\ ShapeAccepted(schema, plan)' /\ AllConvert'
  BY <1>1, <1>2, BatchKept DEF InTheRows
<1>4. InTheColumns'
  BY <1>1, <1>3 DEF InTheRows, InTheColumns, BaselineVerdict, ColumnsConvertUpTo, Typed
<1> QED
  BY <1>3, <1>4 DEF IInv

LEMMA VerdictKept ==
    ASSUME BaselineVerdict, UNCHANGED <<plan, values, baseline>>
    PROVE  BaselineVerdict'
  BY DEF BaselineVerdict, AllConvert, RowsConvertUpTo, Converts

LEMMA MeasureCellIInv == ASSUME IInv, MeasureCell PROVE IInv'
<1>1. /\ InTheColumns /\ Typed /\ Len(values) > 0 /\ col <= Len(plan)
      /\ UNCHANGED <<plan, schema, values, preflight, baseline>>
  BY DEF IInv, MeasureCell, BeforeTheRows, InTheRows, AfterTheColumns, ShapeRefused
<1>2. /\ row \in 1..Len(values) /\ col \in 1..Len(plan)
      /\ Measures(row, col) <=> Converts(row, col)
  BY <1>1 DEF Typed, InTheColumns, Measures, Converts
<1>3. BaselineVerdict'
  BY <1>1, VerdictKept DEF InTheColumns
<1>4. CASE Measures(row, col)
  <2>1. /\ IF row < Len(values) THEN row' = row + 1 /\ col' = col ELSE row' = 1 /\ col' = col + 1
        /\ UNCHANGED <<pc, direct>>
    BY <1>4 DEF MeasureCell
  <2>2. row' \in Nat \ {0} /\ col' \in Nat \ {0} /\ row' <= Len(values)
    BY <1>1, <2>1 DEF Typed
  <2>3. Typed' /\ ShapeAccepted(schema, plan)'
    BY <1>1, <2>2, BatchKept DEF InTheColumns
  <2>4. ColumnsConvertUpTo(row, col)'
    <3> SUFFICES ASSUME NEW i \in 1..Len(values), NEW j \in 1..Len(plan),
                        j < col' \/ (j = col' /\ i < row')
                 PROVE  Converts(i, j)
      BY <1>1 DEF ColumnsConvertUpTo, Converts
    <3>1. \/ j < col \/ (j = col /\ i < row)
          \/ i = row /\ j = col
      BY <1>1, <2>1 DEF Typed
    <3> QED
      BY <1>1, <1>2, <1>4, <3>1 DEF InTheColumns, ColumnsConvertUpTo
  <2>5. InTheColumns'
    BY <1>1, <1>3, <2>1, <2>2, <2>3, <2>4 DEF InTheColumns
  <2> QED
    BY <2>3, <2>5 DEF IInv
<1>5. CASE ~Measures(row, col)
  <2>1. direct' = Rejected("ValueConversion", row, col) /\ pc' = "done" /\ UNCHANGED <<row, col>>
    BY <1>5 DEF MeasureCell, WritePhaseForBatchError, CodeOf
  <2>2. Typed' /\ ShapeAccepted(schema, plan)'
    BY <1>1, <2>1, BatchKept DEF InTheColumns, Typed
  <2>3. DirectVerdict'
    BY <1>1, <1>2, <1>5, <2>1 DEF DirectVerdict, InTheColumns, ColumnsConvertUpTo, Converts, Rejected
  <2> QED
    BY <1>3, <2>1, <2>2, <2>3 DEF IInv, AfterTheColumns
<1> QED
  BY <1>4, <1>5

LEMMA DirectAcceptsIInv == ASSUME IInv, DirectAccepts PROVE IInv'
<1>1. /\ InTheColumns /\ Typed /\ (Len(values) = 0 \/ col > Len(plan))
      /\ UNCHANGED <<plan, schema, values, preflight, row, col, baseline>>
      /\ direct' = Passed /\ pc' = "done"
  BY DEF IInv, DirectAccepts, BeforeTheRows, InTheRows, AfterTheColumns, ShapeRefused
<1>2. AllConvert
  BY <1>1 DEF AllConvert, InTheColumns, ColumnsConvertUpTo, Typed
<1>3. Typed' /\ ShapeAccepted(schema, plan)' /\ AllConvert'
  BY <1>1, <1>2, BatchKept DEF InTheColumns, Typed
<1>4. BaselineVerdict'
  BY <1>1, VerdictKept DEF InTheColumns
<1> QED
  BY <1>1, <1>3, <1>4 DEF IInv, AfterTheColumns, DirectVerdict

LEMMA NextIInv == IInv /\ [Next]_vars => IInv'
<1> SUFFICES ASSUME IInv, [Next]_vars PROVE IInv'
  OBVIOUS
<1>1. CASE vars' = vars
  <2>1. UNCHANGED <<plan, schema, values, preflight, pc, row, col, baseline, direct>>
    BY <1>1 DEF vars
  <2>2. Typed' /\ ShapeAccepted(schema, plan)' = ShapeAccepted(schema, plan)
    BY <2>1, BatchKept DEF IInv, Typed
  <2>3. /\ BeforeTheRows => BeforeTheRows'
        /\ InTheRows => InTheRows'
    BY <2>1, <2>2 DEF BeforeTheRows, InTheRows, RowsConvertUpTo, Converts
  <2>4. (BaselineVerdict => BaselineVerdict') /\ (DirectVerdict => DirectVerdict')
    BY <2>1 DEF BaselineVerdict, DirectVerdict, AllConvert, RowsConvertUpTo,
                ColumnsConvertUpTo, Converts
  <2>5. InTheColumns => InTheColumns'
    BY <2>1, <2>2, <2>4 DEF InTheColumns, ColumnsConvertUpTo, Converts
  <2>6. /\ AfterTheColumns => AfterTheColumns'
        /\ ShapeRefused => ShapeRefused'
    BY <2>1, <2>2, <2>4 DEF AfterTheColumns, ShapeRefused
  <2> QED
    BY <2>2, <2>3, <2>5, <2>6 DEF IInv
<1> QED
  BY <1>1, CheckShapeIInv, ConvertCellIInv, BaselineAcceptsIInv, MeasureCellIInv,
     DirectAcceptsIInv DEF Next, Returned

LEMMA Invariance == Spec => []IInv
  BY InitIInv, NextIInv, PTL DEF Spec

-----------------------------------------------------------------------------
\* Both backends accept the same batches, and reject the others in the same
\* phase, whatever the order in which they visit the cells: the verdict of a
\* pass is that of the whole batch.
THEOREM SameBatchesLoadOnEitherBackend == Spec => []BackendsAgree
<1>1. IInv => BackendsAgree
  <2> SUFFICES ASSUME IInv, pc = "done" PROVE baseline.phase = direct.phase
    BY DEF BackendsAgree
  <2>1. CASE ShapeRefused
    BY <2>1 DEF ShapeRefused, Rejected
  <2>2. CASE AfterTheColumns
    <3>1. \/ baseline = Passed /\ AllConvert
          \/ baseline.phase = "ValueConversion" /\ ~AllConvert
      BY <2>2 DEF AfterTheColumns, BaselineVerdict, Rejected, AllConvert
    <3>2. \/ direct = Passed /\ AllConvert
          \/ direct.phase = "ValueConversion" /\ ~AllConvert
      BY <2>2 DEF AfterTheColumns, DirectVerdict, Rejected, AllConvert
    <3> QED
      BY <3>1, <3>2
  <2> QED
    BY <2>1, <2>2 DEF IInv, BeforeTheRows, InTheRows, InTheColumns
<1> QED
  BY <1>1, Invariance, PTL

\* A value refused by validate_batch_rows or measure_cell_lengths is at fault,
\* and every cell its pass visits earlier is not.
THEOREM DiagnosticsLeadToAFault == Spec => []RejectionNamesFirstFault
<1>1. IInv => RejectionNamesFirstFault
  <2> SUFFICES ASSUME IInv, pc = "done" PROVE RejectionNamesFirstFault
    BY DEF RejectionNamesFirstFault
  <2>1. CASE ShapeRefused
    BY <2>1 DEF ShapeRefused, Rejected, RejectionNamesFirstFault
  <2>2. CASE AfterTheColumns
    <3>1. ASSUME baseline.phase = "ValueConversion"
          PROVE  /\ baseline.row \in 1..Len(values) /\ baseline.col \in 1..Len(plan)
                 /\ AtFault(baseline.row, baseline.col)
                 /\ \A r \in 1..Len(values), c \in 1..Len(plan) :
                       AtFault(r, c) => \/ baseline.row < r
                                        \/ baseline.row = r /\ baseline.col <= c
      <4>1. PICK r \in 1..Len(values), c \in 1..Len(plan) :
                   /\ baseline = Rejected("ValueConversion", r, c)
                   /\ ~Converts(r, c) /\ RowsConvertUpTo(r, c)
        BY <2>2, <3>1 DEF AfterTheColumns, BaselineVerdict, Passed
      <4>2. baseline.row = r /\ baseline.col = c
        BY <4>1 DEF Rejected
      <4>3. AtFault(r, c)
        BY <4>1 DEF Converts, AtFault
      <4>4. ASSUME NEW i \in 1..Len(values), NEW j \in 1..Len(plan), AtFault(i, j)
            PROVE  r < i \/ (r = i /\ c <= j)
        <5>1. ~(i < r \/ (i = r /\ j < c))
          BY <4>1, <4>4 DEF RowsConvertUpTo, Converts, AtFault
        <5> QED
          BY <5>1 DEF IInv, Typed
      <4> QED
        BY <4>2, <4>3, <4>4
    <3>2. ASSUME direct.phase = "ValueConversion"
          PROVE  /\ direct.row \in 1..Len(values) /\ direct.col \in 1..Len(plan)
                 /\ AtFault(direct.row, direct.col)
                 /\ \A r \in 1..Len(values), c \in 1..Len(plan) :
                       AtFault(r, c) => \/ direct.col < c
                                        \/ direct.col = c /\ direct.row <= r
      <4>1. PICK r \in 1..Len(values), c \in 1..Len(plan) :
                   /\ direct = Rejected("ValueConversion", r, c)
                   /\ ~Converts(r, c) /\ ColumnsConvertUpTo(r, c)
        BY <2>2, <3>2 DEF AfterTheColumns, DirectVerdict, Passed
      <4>2. direct.row = r /\ direct.col = c
        BY <4>1 DEF Rejected
      <4>3. AtFault(r, c)
        BY <4>1 DEF Converts, AtFault
      <4>4. ASSUME NEW i \in 1..Len(values), NEW j \in 1..Len(plan), AtFault(i, j)
            PROVE  c < j \/ (c = j /\ r <= i)
        <5>1. ~(j < c \/ (j = c /\ i < r))
          BY <4>1, <4>4 DEF ColumnsConvertUpTo, Converts, AtFault
        <5> QED
          BY <5>1 DEF IInv, Typed
      <4> QED
        BY <4>2, <4>3, <4>4
    <3> QED
      BY <3>1, <3>2 DEF RejectionNamesFirstFault
  <2> QED
    BY <2>1, <2>2 DEF IInv, BeforeTheRows, InTheRows, InTheColumns
<1> QED
  BY <1>1, Invariance, PTL

\* A type that fits the mapping of a varbinary (nvarchar) column is a binary
\* (string): the runtime type may differ from the planned one only inside its
\* family.
LEMMA FittingTypeIsInTheFamily ==
    ASSUME NEW p \in Plans, NEW c \in 1..Len(p), NEW type, TypeFits(type, p[c])
    PROVE  /\ p[c].target = "varbinary" => type \in BinaryFamily
           /\ p[c].target = "nvarchar" => type \in StringFamily
  BY BatchAdmissionAssumption DEF TypeFits, BinaryFamily, StringFamily

\* A batch either backend accepts has the planned columns, holds values of the
\* family of their targets, and has no null where the target takes none.
THEOREM AcceptedBatchesFitTheirTarget == Spec => []AcceptedBatchFitsTarget
<1>1. IInv => AcceptedBatchFitsTarget
  <2> SUFFICES ASSUME IInv, baseline.phase = "accepted" \/ direct.phase = "accepted"
               PROVE  /\ Len(schema) = Len(plan)
                      /\ \A c \in 1..Len(plan) :
                            /\ schema[c].name = plan[c].name
                            /\ plan[c].target = "varbinary" => schema[c].type \in BinaryFamily
                            /\ plan[c].target = "nvarchar" => schema[c].type \in StringFamily
                            /\ \A r \in 1..Len(values) :
                                  values[r][c] = "null" => plan[c].targetNullable
    BY DEF AcceptedBatchFitsTarget
  <2>1. ShapeAccepted(schema, plan) /\ AllConvert
    <3>1. BaselineVerdict /\ baseline.phase = "accepted" => AllConvert
      BY DEF BaselineVerdict, Rejected
    <3>2. DirectVerdict /\ direct.phase = "accepted" => AllConvert
      BY DEF DirectVerdict, Rejected
    <3>3. ~BeforeTheRows /\ ~InTheRows /\ ~ShapeRefused
      BY DEF BeforeTheRows, InTheRows, ShapeRefused, Pending, Rejected
    <3>4. direct = Pending => direct.phase # "accepted"
      BY DEF Pending
    <3> QED
      BY <3>1, <3>2, <3>3, <3>4 DEF IInv, InTheColumns, AfterTheColumns
  <2>2. ASSUME NEW c \in 1..Len(plan)
        PROVE  /\ schema[c].name = plan[c].name
               /\ plan[c].target = "varbinary" => schema[c].type \in BinaryFamily
               /\ plan[c].target = "nvarchar" => schema[c].type \in StringFamily
    <3>1. schema[c].name = plan[c].name /\ TypeFits(schema[c].type, plan[c]) /\ plan \in Plans
      BY <2>1 DEF ShapeAccepted, ShapeFits, IInv, Typed
    <3> QED
      BY <3>1, FittingTypeIsInTheFamily
  <2> QED
    BY <2>1, <2>2 DEF ShapeAccepted, AllConvert, Converts
<1> QED
  BY <1>1, Invariance, PTL

\* A schema that validate_arrow_schema_against_mappings accepts is one that the
\* writer does not refuse.
THEOREM PreflightSavesASchemaError == Spec => []PreflightIsEnough
<1>1. IInv => PreflightIsEnough
  <2> SUFFICES ASSUME IInv, preflight PROVE PreflightIsEnough
    BY DEF PreflightIsEnough
  <2>1. ShapeAccepted(schema, plan)
    BY DEF IInv, Typed, PreflightAccepted
  <2>2. BaselineVerdict => baseline.phase # "BatchSchemaValidation"
    BY DEF BaselineVerdict, Rejected, Passed
  <2>3. DirectVerdict => direct.phase # "BatchSchemaValidation"
    BY DEF DirectVerdict, Rejected, Passed
  <2>4. Pending.phase # "BatchSchemaValidation"
    BY DEF Pending
  <2> QED
    BY <2>1, <2>2, <2>3, <2>4 DEF IInv, BeforeTheRows, InTheRows, InTheColumns,
       AfterTheColumns, ShapeRefused, PreflightIsEnough
<1> QED
  BY <1>1, Invariance, PTL
=============================================================================
