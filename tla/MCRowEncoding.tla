--------------------------- MODULE MCRowEncoding ---------------------------
(***************************************************************************)
(* Small instance of RowEncoding: plans of two columns that mix every      *)
(* family and both nullabilities, value widths of at most three bytes, and *)
(* all ranges of batches of up to three rows.                              *)
(***************************************************************************)
EXTENDS RowEncoding

Column(family, nullable, sizes, text) ==
    [family |-> family, nullable |-> nullable, sizes |-> sizes, text |-> text]

IntColumn == Column("primitive", FALSE, {2}, FALSE)
NullableInt == Column("primitive", TRUE, {2}, FALSE)
Date == Column("temporal", FALSE, {3}, FALSE)
NullableDate == Column("temporal", TRUE, {3}, FALSE)
Binary == Column("fixedBinary", TRUE, {1}, FALSE)
Decimal == Column("decimal", TRUE, {1, 2}, FALSE)
NVarChar == Column("bounded", FALSE, {0, 2}, TRUE)
NVarCharMax == Column("max", TRUE, {0, 2}, TRUE)
VarBinary == Column("bounded", TRUE, {0, 1}, FALSE)
VarBinaryMax == Column("max", TRUE, {0, 1}, FALSE)

MCPlans == {<<NullableInt, IntColumn>>, <<NullableDate, Binary>>, <<Binary, Date>>,
            <<Decimal, NullableInt>>, <<NullableDate, NVarChar>>,
            <<NVarCharMax, IntColumn>>, <<Decimal, VarBinary>>, <<VarBinaryMax, NVarCharMax>>}
=============================================================================
