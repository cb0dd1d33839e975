--------------------------- MODULE MCTargetTable ---------------------------
(* Every Arrow type alone under every policy, and pairs of fields that      *)
(* interact through their names, their faults or their order.               *)
EXTENDS TargetTable

Name(text) == [text |-> text, chars |-> 1, control |-> FALSE]
Empty == [text |-> "", chars |-> 0, control |-> FALSE]
Control == [text |-> "c", chars |-> 1, control |-> TRUE]
Chars(n) == [text |-> "long", chars |-> n, control |-> FALSE]

Type(kind, p, s, zone) == [kind |-> kind, p |-> p, s |-> s, zone |-> zone]
Bare(kind) == Type(kind, 0, 0, "none")
Field(name, type, nullable) == [name |-> name, nullable |-> nullable, type |-> type]

ArrowTypes ==
    {Bare(k) : k \in DOMAIN PlainTargets \cup {"UInt64", "Date64", "Null", "Duration", "List",
                                              "Dictionary"}
                       \cup StringFamily \cup BinaryFamily}
        \cup {Type("FixedSizeBinary", n, 0, "none") : n \in {-1, 0, 1, 8000, 8001}}
        \cup {Type(k, ps[1], ps[2], "none") :
                k \in Decimals,
                ps \in {<<0, 0>>, <<9, 2>>, <<38, 38>>, <<38, 0>>, <<39, 0>>, <<37, -1>>,
                        <<37, -2>>, <<9, 10>>, <<76, -128>>, <<200, -100>>, <<20, 0>>}}
        \cup {Type("Time32", d, 0, "none") : d \in {0, 3}}
        \cup {Type("Time64", d, 0, "none") : d \in {6, 9}}
        \cup {Type("Timestamp", d, 0, z) : d \in {0, 9}, z \in {"none", "empty", "named"}}

Pairs == LET f == {Field(Name("a"), Bare("Int32"), FALSE), Field(Name("a"), Bare("Utf8"), TRUE),
                   Field(Empty, Bare("Int32"), TRUE), Field(Name("b"), Bare("List"), TRUE),
                   Field(Name("b"), Bare("Boolean"), FALSE)}
         IN {<<x, y>> : x \in f, y \in f}

MCSchemas ==
    {<<>>}
        \cup {<<Field(Name("a"), t, n)>> : t \in ArrowTypes, n \in BOOLEAN}
        \cup {<<Field(n, Bare("Int32"), FALSE)>> : n \in {Empty, Control, Chars(128), Chars(129)}}
        \cup Pairs

Default == [string |-> [kind |-> "Max", n |-> 0], binary |-> [kind |-> "Max", n |-> 0],
            timezone |-> "Reject", timestamp |-> [kind |-> "DateTime2", n |-> 7],
            uint64 |-> "Reject", decimal |-> "RejectNegativeScale",
            decimal256 |-> "CheckedDowncast", date64 |-> "RejectNonMidnight"]
Permissive(n, m, p) ==
    [string |-> [kind |-> "Bounded", n |-> n], binary |-> [kind |-> "Bounded", n |-> m],
     timezone |-> "DateTimeOffset", timestamp |-> [kind |-> "DateTime2", n |-> p],
     uint64 |-> "Decimal20_0", decimal |-> "NormalizeNegativeScale",
     decimal256 |-> "CheckedDowncast", date64 |-> "TimestampDateTime2"]
MCOptions ==
    {Default,
     [Default EXCEPT !.string.kind = "Observed", !.binary.kind = "Observed",
                     !.decimal256 = "Reject", !.uint64 = "CheckedBigInt"],
     [Default EXCEPT !.timezone = "NormalizeUtcDateTime2", !.timestamp.kind = "DateTime"],
     Permissive(4000, 8000, 0), Permissive(4001, 8001, 7), Permissive(50, 50, 8)}

MCStrayTypes ==
    {Plain("Bit"), Plain("Int"), Plain("BigInt"), Plain("DateTime"), Plain("VarChar"), Plain("Numeric"),
     SqlType("NVarChar", 50, 0), SqlType("VarBinary", MaxLength, 0), SqlType("Decimal", 20, 0),
     SqlType("Decimal", 38, 2), SqlType("Time", 7, 0), SqlType("DateTime2", 7, 0)}
=============================================================================
