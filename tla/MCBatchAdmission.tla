-------------------------- MODULE MCBatchAdmission --------------------------
(***************************************************************************)
(* Small instance of BatchAdmission: no column, plans of two, one of them  *)
(* with a wrong planned index, and every schema of at most three fields    *)
(* over two names and four types, the third field fixed.                   *)
(***************************************************************************)
EXTENDS BatchAdmission

Column(i, name, type, nullable, target) ==
    [index |-> i, name |-> name, type |-> type, nullable |-> nullable,
     target |-> target, targetNullable |-> nullable]

MCPlans == {
    <<>>,
    <<Column(1, "a", "Int32", FALSE, "int"), Column(2, "b", "Utf8", TRUE, "nvarchar")>>,
    <<Column(1, "a", "Binary", TRUE, "varbinary"), Column(2, "b", "Int32", FALSE, "int")>>,
    <<Column(2, "a", "Int32", FALSE, "int"), Column(1, "b", "Utf8", TRUE, "nvarchar")>>}

Fields == [name : {"a", "b"}, type : {"Int32", "Utf8", "LargeUtf8", "LargeBinary"},
           nullable : BOOLEAN]
Extra == [name |-> "c", type |-> "Int32", nullable |-> TRUE]

MCSchemas == {<<>>} \cup {<<f>> : f \in Fields} \cup {<<f, g>> : f, g \in Fields}
             \cup {<<f, g, Extra>> : f, g \in {x \in Fields : ~x.nullable}}
=============================================================================
