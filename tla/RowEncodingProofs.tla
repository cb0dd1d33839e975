------------------------- MODULE RowEncodingProofs --------------------------
(***************************************************************************)
(* The payload of a range is its rows, for every plan, batch and range.    *)
(*                                                                         *)
(* RowTo and RowsTo, which say what the receiver must read, are recursive  *)
(* functions that append one piece after the other.  The first part is     *)
(* about any such function (Joins): it exists, a piece stays where it was  *)
(* put, and the pieces cover the result.  That gives every row and cell a  *)
(* place in the payload (RowStart, CellAt), and IInv says of each stage of *)
(* the encoder how its offsets, positions, cursors and bytes agree with    *)
(* these places.                                                           *)
(***************************************************************************)
EXTENDS RowEncoding, WellFoundedInduction, TLAPS

-----------------------------------------------------------------------------
(* Induction up to a number, from the well-foundedness of < *)

LEMMA LeastElement ==
    ASSUME NEW S, S \subseteq Nat, S # {}
    PROVE  \E m \in S : \A k \in S : m <= k
<1> DEFINE R == OpToRel(<, Nat)
<1>1. IsWellFoundedOn(R, Nat)
  BY NatLessThanWellFounded
<1>2. \A k, m \in Nat : <<k, m>> \in R <=> k < m
  BY DEF OpToRel
<1> HIDE DEF R
<1>3. PICK m \in S : \A k \in S : ~ (<<k, m>> \in R)
  BY <1>1, WFMin
<1>4. ASSUME NEW k \in S PROVE m <= k
  <2>1. k \in Nat /\ m \in Nat /\ ~(k < m)
    BY <1>2, <1>3
  <2> QED
    BY <2>1
<1> QED
  BY <1>4

LEMMA InductionTo ==
    ASSUME NEW n \in Nat, NEW S, 0 \in S, \A k \in 0..(n - 1) : k \in S => k + 1 \in S
    PROVE  0..n \subseteq S
<1> DEFINE B == 0..n \ S
<1>1. SUFFICES ASSUME B # {} PROVE FALSE
  OBVIOUS
<1>a. B \subseteq Nat
  OBVIOUS
<1>2. PICK m \in B : \A k \in B : m <= k
  <2> HIDE DEF B
  <2> QED
    BY <1>1, <1>a, LeastElement
<1>3. m # 0 /\ m - 1 \in 0..(n - 1) /\ m - 1 + 1 = m
  OBVIOUS
<1>4. m - 1 \in S
  BY <1>2, <1>3
<1> QED
  BY <1>3, <1>4

-----------------------------------------------------------------------------
(* Recursive functions over 0..n *)

\* f starts with b and appends one piece of g after the other.
Joins(f, n, b, g) == /\ f[0] = b
                     /\ \A c \in 1..n : f[c] = f[c - 1] \o g[c]

LEMMA JoinExists ==
    ASSUME NEW n \in Nat, NEW S, NEW b \in Seq(S), NEW g \in [1..n -> Seq(S)]
    PROVE  \E f \in [0..n -> Seq(S)] : Joins(f, n, b, g)
<1> DEFINE P == {k \in 0..n : \E f \in [0..k -> Seq(S)] : Joins(f, k, b, g)}
<1>1. 0 \in P
  <2> DEFINE f == [c \in 0..0 |-> b]
  <2>1. f \in [0..0 -> Seq(S)] /\ Joins(f, 0, b, g)
    BY DEF Joins
  <2>2. 0 \in 0..n
    OBVIOUS
  <2> HIDE DEF f
  <2> QED
    BY <2>1, <2>2
<1>2. ASSUME NEW k \in 0..(n - 1), k \in P PROVE k + 1 \in P
  <2>1. PICK f \in [0..k -> Seq(S)] : Joins(f, k, b, g)
    BY <1>2
  <2> DEFINE h == [c \in 0..(k + 1) |-> IF c = k + 1 THEN f[k] \o g[k + 1] ELSE f[c]]
  <2>2. h \in [0..(k + 1) -> Seq(S)]
    <3>1. f[k] \o g[k + 1] \in Seq(S)
      OBVIOUS
    <3> QED
      BY <3>1
  <2>3. ASSUME NEW c \in 1..(k + 1) PROVE h[c] = h[c - 1] \o g[c]
    <3>1. CASE c = k + 1
      <4>1. h[k + 1] = f[k] \o g[k + 1]
        OBVIOUS
      <4>2. h[k] = f[k]
        OBVIOUS
      <4>3. c - 1 = k
        BY <3>1
      <4> HIDE DEF h
      <4> QED
        BY <3>1, <4>1, <4>2, <4>3
    <3>2. CASE c # k + 1
      <4>1. c \in 1..k /\ h[c] = f[c] /\ h[c - 1] = f[c - 1]
        BY <3>2
      <4> QED
        BY <2>1, <4>1 DEF Joins
    <3> QED
      BY <3>1, <3>2
  <2>4. h[0] = b
    BY <2>1 DEF Joins
  <2> HIDE DEF h
  <2>5. Joins(h, k + 1, b, g)
    BY <2>3, <2>4 DEF Joins
  <2>6. k + 1 \in 0..n
    OBVIOUS
  <2> QED
    BY <2>2, <2>5, <2>6
<1>3. 0..n \subseteq P
  <2> HIDE DEF P
  <2> QED
    BY <1>1, <1>2, InductionTo
<1> QED
  BY <1>3

\* What is joined stays where it is.
Begins(s, t) == Len(s) <= Len(t) /\ \A p \in 1..Len(s) : t[p] = s[p]

LEMMA JoinPrefix ==
    ASSUME NEW n \in Nat, NEW S, NEW b \in Seq(S), NEW g \in [1..n -> Seq(S)],
           NEW f \in [0..n -> Seq(S)], Joins(f, n, b, g)
    PROVE  \A i \in 0..n : \A j \in i..n : Begins(f[i], f[j])
<1> TAKE i \in 0..n
<1> DEFINE Keeps(j) == Len(f[i]) <= Len(f[j]) /\ \A p \in 1..Len(f[i]) : f[j][p] = f[i][p]
<1> DEFINE P == {k \in 0..(n - i) : Keeps(i + k)}
<1>1. 0 \in P
  OBVIOUS
<1>2. ASSUME NEW k \in 0..(n - i - 1), k \in P PROVE k + 1 \in P
  <2> DEFINE s == f[i + k]
             t == g[i + k + 1]
  <2>1. f[i + (k + 1)] = s \o t
    <3>1. i + k + 1 \in 1..n /\ i + k + 1 - 1 = i + k /\ i + (k + 1) = i + k + 1
      OBVIOUS
    <3>2. \A c \in 1..n : f[c] = f[c - 1] \o g[c]
      BY DEF Joins
    <3> PICK c \in 1..n : c = i + k + 1
      BY <3>1
    <3>3. f[c] = f[c - 1] \o g[c]
      BY <3>2
    <3>4. c - 1 = i + k
      OBVIOUS
    <3> QED
      BY <3>1, <3>3, <3>4
  <2>2. s \in Seq(S) /\ t \in Seq(S) /\ f[i] \in Seq(S)
    OBVIOUS
  <2>3. Len(f[i]) <= Len(s) /\ \A p \in 1..Len(f[i]) : s[p] = f[i][p]
    BY <1>2
  <2> HIDE DEF s, t
  <2>4. Len(s \o t) = Len(s) + Len(t) /\ \A p \in 1..Len(s) : (s \o t)[p] = s[p]
    BY <2>2
  <2>5. Keeps(i + (k + 1))
    BY <2>1, <2>2, <2>3, <2>4
  <2> HIDE DEF Keeps
  <2>6. k + 1 \in 0..(n - i)
    OBVIOUS
  <2> QED
    BY <2>5, <2>6
<1>3. 0..(n - i) \subseteq P
  <2> HIDE DEF P
  <2>1. n - i \in Nat
    OBVIOUS
  <2> QED
    BY <1>1, <1>2, <2>1, InductionTo
<1> SUFFICES ASSUME NEW j \in i..n PROVE Keeps(j)
  BY DEF Begins
<1>4. j - i \in P /\ i + (j - i) = j
  <2>1. j - i \in 0..(n - i) /\ i + (j - i) = j
    OBVIOUS
  <2> HIDE DEF P
  <2> QED
    BY <1>3, <2>1
<1> HIDE DEF Keeps
<1> QED
  BY <1>4

\* It grows by the length of each piece.
GrowsBy(f, i, piece) == Len(f[i]) = Len(f[i - 1]) + Len(piece)

LEMMA JoinLengths ==
    ASSUME NEW n \in Nat, NEW S, NEW b \in Seq(S), NEW g \in [1..n -> Seq(S)],
           NEW f \in [0..n -> Seq(S)], Joins(f, n, b, g)
    PROVE  \A i \in 1..n : GrowsBy(f, i, g[i])
<1> TAKE i \in 1..n
<1>1. f[i] = f[i - 1] \o g[i] /\ f[i - 1] \in Seq(S) /\ g[i] \in Seq(S)
  <2>1. f[i - 1] \in Seq(S) /\ g[i] \in Seq(S)
    <3>1. i - 1 \in 0..n
      OBVIOUS
    <3> QED
      BY <3>1, Zenon
  <2> QED
    BY <2>1, Zenon DEF Joins
<1>2. PICK a, c, e : a = f[i - 1] /\ c = g[i] /\ e = f[i]
  OBVIOUS
<1>3. e = a \o c /\ a \in Seq(S) /\ c \in Seq(S)
  BY ONLY <1>1, <1>2
<1>4. Len(e) = Len(a) + Len(c)
  BY ONLY <1>3
<1> QED
  BY ONLY <1>2, <1>4 DEF GrowsBy

\* Each piece lies behind the ones before it.
PieceAt(f, n, i, piece) == \A k \in 1..Len(piece) : f[n][Len(f[i - 1]) + k] = piece[k]

LEMMA JoinPiece ==
    ASSUME NEW n \in Nat, NEW S, NEW b \in Seq(S), NEW g \in [1..n -> Seq(S)],
           NEW f \in [0..n -> Seq(S)], Joins(f, n, b, g)
    PROVE  \A i \in 1..n : PieceAt(f, n, i, g[i])
<1> TAKE i \in 1..n
<1>1. f[i] = f[i - 1] \o g[i] /\ f[i - 1] \in Seq(S) /\ g[i] \in Seq(S)
  <2>1. f[i - 1] \in Seq(S) /\ g[i] \in Seq(S)
    <3>1. i - 1 \in 0..n
      OBVIOUS
    <3> QED
      BY <3>1, Zenon
  <2> QED
    BY <2>1, Zenon DEF Joins
<1>2. Len(f[i]) = Len(f[i - 1]) + Len(g[i])
  BY <1>1
<1>3. ASSUME NEW k \in 1..Len(g[i]) PROVE f[n][Len(f[i - 1]) + k] = g[i][k]
  <2>1. Len(f[i - 1]) \in Nat /\ Len(g[i]) \in Nat
    BY <1>1
  <2>2. Len(f[i - 1]) + k \in 1..Len(f[i])
    BY <1>2, <2>1
  <2>3. f[i][Len(f[i - 1]) + k] = g[i][k]
    BY <1>1, <2>1
  <2>4. i \in 0..n /\ n \in i..n
    OBVIOUS
  <2>5. \A h \in 0..n : \A j \in h..n : Begins(f[h], f[j])
    BY JoinPrefix
  <2>6. \A p \in 1..Len(f[i]) : f[n][p] = f[i][p]
    BY <2>4, <2>5 DEF Begins
  <2> QED
    BY <2>2, <2>3, <2>6
<1> QED
  BY <1>3 DEF PieceAt

\* A position is in the beginning or in one of the pieces.
LEMMA JoinCovers ==
    ASSUME NEW n \in Nat, NEW S, NEW b \in Seq(S), NEW g \in [1..n -> Seq(S)],
           NEW f \in [0..n -> Seq(S)], Joins(f, n, b, g),
           NEW p \in 1..Len(f[n])
    PROVE  \/ p \in 1..Len(b)
           \/ \E i \in 1..n : p - Len(f[i - 1]) \in 1..Len(g[i])
<1>a. \A c \in 1..n : GrowsBy(f, c, g[c])
  BY JoinLengths
<1> DEFINE Covered(k) == p \in 1..Len(f[k]) =>
              \/ p \in 1..Len(b)
              \/ \E i \in 1..n : p - Len(f[i - 1]) \in 1..Len(g[i])
<1> DEFINE P == {k \in 0..n : Covered(k)}
<1>0. p \in Int
  OBVIOUS
<1>1. 0 \in P
  BY DEF Joins
<1>2. ASSUME NEW k \in 0..(n - 1), k \in P PROVE k + 1 \in P
  <2>1. k + 1 \in 1..n /\ k + 1 - 1 = k
    OBVIOUS
  <2>2. Len(f[k + 1]) = Len(f[k]) + Len(g[k + 1])
    <3> PICK c \in 1..n : c = k + 1
      BY <2>1
    <3>2. Len(f[c]) = Len(f[c - 1]) + Len(g[c])
      BY <1>a DEF GrowsBy
    <3>3. c - 1 = k
      OBVIOUS
    <3> QED
      BY <3>2, <3>3
  <2>3. Len(f[k]) \in Nat /\ Len(g[k + 1]) \in Nat
    BY <2>1
  <2>4. Covered(k + 1)
    <3> SUFFICES ASSUME p \in 1..Len(f[k + 1])
                 PROVE  \/ p \in 1..Len(b)
                        \/ \E i \in 1..n : p - Len(f[i - 1]) \in 1..Len(g[i])
      OBVIOUS
    <3>1. CASE p \in 1..Len(f[k])
      BY <1>2, <3>1
    <3>2. CASE p \notin 1..Len(f[k])
      <4>a. p \in 1..Len(f[k + 1])
        OBVIOUS
      <4> DEFINE x == Len(f[k])
                 y == Len(g[k + 1])
                 z == Len(f[k + 1])
      <4>b. z = x + y /\ x \in Nat /\ y \in Nat /\ p \notin 1..x /\ p \in 1..z
        BY <2>2, <2>3, <3>2
      <4> HIDE DEF x, y, z
      <4>c. p - x \in 1..y
        BY <1>0, <4>b
      <4>1. p - Len(f[k]) \in 1..Len(g[k + 1])
        BY <4>c DEF x, y
      <4>2. p - Len(f[(k + 1) - 1]) \in 1..Len(g[k + 1])
        BY <2>1, <4>1
      <4> QED
        BY <2>1, <4>2
    <3> QED
      BY <3>1, <3>2
  <2> HIDE DEF Covered
  <2> QED
    BY <2>1, <2>4
<1>3. 0..n \subseteq P
  <2> HIDE DEF P
  <2> QED
    BY <1>1, <1>2, InductionTo
<1> QED
  BY <1>3

\* The sum of the lengths of the pieces.
LEMMA SumOfLengths ==
    ASSUME NEW n \in Nat, NEW S, NEW g \in [1..n -> Seq(S)],
           NEW f \in [0..n -> Seq(S)], Joins(f, n, <<Token>>, g), <<Token>> \in Seq(S),
           NEW lens, lens = [c \in 1..n |-> Len(g[c])]
    PROVE  RowBytes(lens) = Len(f[n])
<1>1. Len(lens) = n /\ lens \in Seq(Nat)
  <2>1. lens \in [1..n -> Nat]
    OBVIOUS
  <2> QED
    BY <2>1
<1>a. \A c \in 1..n : lens[c] = Len(g[c])
  OBVIOUS
<1> DEFINE sum == CHOOSE s : s = [c \in 0..n |-> IF c = 0 THEN RowTokenLen
                                                 ELSE s[c - 1] + lens[c]]
<1>2. RowBytes(lens) = sum[n]
  BY <1>1 DEF RowBytes
<1> DEFINE t == [c \in 0..n |-> Len(f[c])]
<1>3. t = [c \in 0..n |-> IF c = 0 THEN RowTokenLen ELSE t[c - 1] + lens[c]]
  <2>1. ASSUME NEW c \in 0..n
        PROVE  t[c] = IF c = 0 THEN RowTokenLen ELSE t[c - 1] + lens[c]
    <3>1. CASE c = 0
      <4>1. Len(<<Token>>) = 1 /\ f[0] = <<Token>>
        BY DEF Joins
      <4> QED
        BY <3>1, <4>1 DEF RowTokenLen
    <3>2. CASE c # 0
      <4>1. c \in 1..n /\ c - 1 \in 0..n
        BY <3>2
      <4>2. Len(f[c]) = Len(f[c - 1]) + Len(g[c])
        <5>1. \A e \in 1..n : GrowsBy(f, e, g[e])
          BY JoinLengths
        <5> QED
          BY <4>1, <5>1 DEF GrowsBy
      <4> QED
        BY <1>a, <3>2, <4>1, <4>2
    <3> QED
      BY <3>1, <3>2
  <2> QED
    BY <2>1
<1> HIDE DEF t
<1>4. sum = [c \in 0..n |-> IF c = 0 THEN RowTokenLen ELSE sum[c - 1] + lens[c]]
  BY <1>3, Zenon
<1> HIDE DEF sum
<1>5. ASSUME NEW c \in 0..n
      PROVE  /\ sum[c] = (IF c = 0 THEN RowTokenLen ELSE sum[c - 1] + lens[c])
             /\ t[c] = (IF c = 0 THEN RowTokenLen ELSE t[c - 1] + lens[c])
  BY <1>3, <1>4
<1> DEFINE P == {k \in 0..n : sum[k] = t[k]}
<1>6. 0 \in P
  <2>1. 0 \in 0..n
    OBVIOUS
  <2>2. sum[0] = RowTokenLen /\ t[0] = RowTokenLen
    BY ONLY <1>5, <2>1
  <2> QED
    BY <2>1, <2>2
<1>7. ASSUME NEW k \in 0..(n - 1), k \in P PROVE k + 1 \in P
  <2>1. k + 1 \in 0..n /\ k + 1 # 0 /\ k + 1 - 1 = k
    OBVIOUS
  <2>2. sum[k + 1] = sum[k] + lens[k + 1] /\ t[k + 1] = t[k] + lens[k + 1]
    <3> PICK c \in 0..n : c = k + 1
      BY <2>1
    <3>1. c # 0 /\ c - 1 = k
      OBVIOUS
    <3>2. sum[c] = sum[c - 1] + lens[c] /\ t[c] = t[c - 1] + lens[c]
      BY ONLY <1>5, <3>1, c \in 0..n
    <3> QED
      BY <3>1, <3>2
  <2> QED
    BY <1>7, <2>1, <2>2
<1>8. 0..n \subseteq P
  <2> HIDE DEF P
  <2> QED
    BY <1>6, <1>7, InductionTo
<1>9. sum[n] = t[n]
  BY <1>8
<1> QED
  BY <1>2, <1>9 DEF t

-----------------------------------------------------------------------------
(* The bytes of a cell *)

Names == {"unset", "token", "null", "length", "plp", "end", "value"}
Byte == Names \X Int \X Int \X Int

LEMMA TokenIsByte == Token \in Byte
BY DEF Token, Byte, Names

LEMMA FieldBytes ==
    ASSUME NEW name \in Names, NEW n \in Int, NEW w \in Nat
    PROVE  Field(name, n, w) \in Seq(Byte) /\ Len(Field(name, n, w)) = w
<1>1. \A k \in 1..w : <<name, n, 0, k>> \in Byte
  BY DEF Byte
<1> QED
  BY <1>1 DEF Field

LEMMA ValueBytesBytes ==
    ASSUME NEW r \in Int, NEW c \in Int, batch[r][c] \in Nat
    PROVE  ValueBytes(r, c) \in Seq(Byte) /\ Len(ValueBytes(r, c)) = batch[r][c]
<1>1. \A k \in 1..batch[r][c] : <<"value", r, c, k>> \in Byte
  BY DEF Byte, Names
<1> QED
  BY <1>1 DEF ValueBytes

LEMMA Concatenated ==
    ASSUME NEW S, NEW s \in Seq(S), NEW t \in Seq(S)
    PROVE  s \o t \in Seq(S) /\ Len(s \o t) = Len(s) + Len(t)
OBVIOUS

LEMMA EmptyField ==
    ASSUME NEW name, NEW n, NEW S, NEW s \in Seq(S)
    PROVE  Field(name, n, 0) \o s = s
<1>1. Field(name, n, 0) = << >>
  BY DEF Field
<1> QED
  BY <1>1

LEMMA CellsAreWireCells ==
    ASSUME NEW r \in Int, NEW c \in Int, ColumnOK(plan[c]), batch[r][c] \in ValuesOf(plan[c]), NULL \notin Nat
    PROVE  /\ WireCell(r, c) \in Seq(Byte)
           /\ Len(WireCell(r, c)) = MeasuredLen(plan[c], batch[r][c])
           /\ CellBytes(r, c, MeasuredLen(plan[c], batch[r][c])) = WireCell(r, c)
           /\ FixedWidth(plan[c]) =>
                /\ CellBytes(r, c, 0) = WireCell(r, c)
                /\ FixedCellLen(plan[c], batch[r][c]) = Len(WireCell(r, c))
                /\ Advance(plan[c], batch[r][c]) = Len(WireCell(r, c))
<1> DEFINE k == plan[c]
           v == batch[r][c]
           V == ValueBytes(r, c)
<1>1. v = NULL \/ v \in Nat
  BY DEF ColumnOK, ValuesOf
<1>2. CASE v = NULL
  <2>1. NullLen(k) \in Nat /\ MeasuredLen(k, v) = NullLen(k)
    BY <1>2 DEF NullLen, MeasuredLen, PlpPrefix, BoundedPrefix, CellLenPrefix
  <2>2. WireCell(r, c) = Field("null", 0, NullLen(k)) /\ \A len : CellBytes(r, c, len) = WireCell(r, c)
    BY <1>2 DEF WireCell, CellBytes
  <2>3. "null" \in Names
    BY DEF Names
  <2>4. WireCell(r, c) \in Seq(Byte) /\ Len(WireCell(r, c)) = NullLen(k)
    BY <2>1, <2>2, <2>3, FieldBytes
  <2>5. FixedWidth(k) => FixedCellLen(k, v) = NullLen(k) /\ Advance(k, v) = NullLen(k)
    BY <1>2 DEF FixedWidth, FixedCellLen, Advance, PrefixAlways, NullLen
  <2> QED
    BY <2>1, <2>2, <2>4, <2>5
<1>3. CASE v \in Nat
  <2>1. v # NULL
    BY <1>3
  <2>2. V \in Seq(Byte) /\ Len(V) = v
    BY <1>3, ValueBytesBytes
  <2>3. FixedWidth(k) => FixedCellLen(k, v) = FixedPrefix(k) + v /\ Advance(k, v) = FixedPrefix(k) + v
    <3>1. FixedWidth(k) => Width(k) = v
      BY <2>1 DEF ColumnOK, ValuesOf, Width
    <3> QED
      BY <2>1, <3>1 DEF FixedCellLen, Advance
  <2> DEFINE L2 == Field("length", v, 2)
             L4 == Field("length", v, 4)
             LF == Field("length", v, FixedPrefix(k))
             P == Field("plp", 0, 8)
             T == Field("end", 0, 4)
  <2>4. /\ L2 \in Seq(Byte) /\ Len(L2) = 2
        /\ L4 \in Seq(Byte) /\ Len(L4) = 4
        /\ FixedPrefix(k) \in Nat => LF \in Seq(Byte) /\ Len(LF) = FixedPrefix(k)
        /\ P \in Seq(Byte) /\ Len(P) = 8
        /\ T \in Seq(Byte) /\ Len(T) = 4
    <3>1. "length" \in Names /\ "plp" \in Names /\ "end" \in Names /\ v \in Int /\ 0 \in Int
      BY <1>3 DEF Names
    <3>2. ASSUME NEW w \in Nat
          PROVE  /\ Field("length", v, w) \in Seq(Byte) /\ Len(Field("length", v, w)) = w
                 /\ Field("plp", 0, w) \in Seq(Byte) /\ Len(Field("plp", 0, w)) = w
                 /\ Field("end", 0, w) \in Seq(Byte) /\ Len(Field("end", 0, w)) = w
      BY <3>1, FieldBytes
    <3> QED
      BY <3>2
  <2>a. /\ L2 \in Seq(Byte) /\ L4 \in Seq(Byte) /\ P \in Seq(Byte) /\ T \in Seq(Byte)
        /\ FixedPrefix(k) \in Nat => LF \in Seq(Byte)
    BY <2>4
  <2>b. V \in Seq(Byte)
    BY <2>2
  <2>5. CASE k.family = "max"
    <3>1. MeasuredLen(k, v) = PlpCellLen(v) /\ ~FixedWidth(k)
      BY <2>1, <2>5 DEF MeasuredLen, FixedWidth
    <3>2. EncodedFromLen(k, PlpCellLen(v)) = v
      BY <1>3, <2>5 DEF EncodedFromLen, PlpCellLen, PlpPrefix, PlpChunkPrefix, PlpTerminator
    <3>3. CellBytes(r, c, PlpCellLen(v)) =
            P \o L4 \o V \o (IF v = 0 THEN <<>> ELSE T)
      BY <2>1, <2>5, <3>2 DEF CellBytes, PlpPrefix, PlpChunkPrefix, PlpTerminator
    <3>4. CASE v = 0
      <4>1. WireCell(r, c) = P \o L4
        BY <2>1, <2>5, <3>4 DEF WireCell
      <4>2. PlpCellLen(v) = 12
        BY <3>4 DEF PlpCellLen, PlpPrefix, PlpChunkPrefix
      <4>3. P \o L4 \in Seq(Byte) /\ Len(P \o L4) = 12
        <5> HIDE DEF L2, L4, LF, P, T
        <5>1. P \o L4 \in Seq(Byte) /\ Len(P \o L4) = Len(P) + Len(L4)
          BY <2>a
        <5> QED
          BY <5>1, <2>4
      <4>4. V = <<>>
        BY <2>2, <3>4
      <4>5. P \o L4 \o V \o <<>> = P \o L4
        <5> HIDE DEF L4, P, V
        <5> QED
          BY <4>3, <4>4
      <4> QED
        BY <3>1, <3>3, <3>4, <4>1, <4>2, <4>3, <4>5
    <3>5. CASE v # 0
      <4>1. WireCell(r, c) = P \o L4 \o V \o T
        BY <1>3, <2>1, <2>5, <3>5 DEF WireCell
      <4>2. PlpCellLen(v) = 16 + v
        BY <1>3, <3>5 DEF PlpCellLen, PlpPrefix, PlpChunkPrefix, PlpTerminator
      <4>3. P \o L4 \o V \o T \in Seq(Byte) /\ Len(P \o L4 \o V \o T) = 16 + v
        <5>1. P \o L4 \in Seq(Byte) /\ Len(P \o L4) = 12
          <6> HIDE DEF L2, L4, LF, P, T
          <6>1. P \o L4 \in Seq(Byte) /\ Len(P \o L4) = Len(P) + Len(L4)
            BY <2>a
          <6> QED
            BY <6>1, <2>4
        <5> DEFINE Q == P \o L4
        <5> HIDE DEF L2, L4, LF, P, V, T, Q
        <5>2. Q \o V \in Seq(Byte) /\ Len(Q \o V) = 12 + v
          BY <5>1, <2>2 DEF Q
        <5>3. (Q \o V) \o T \in Seq(Byte) /\ Len((Q \o V) \o T) = 16 + v
          <6>1. /\ (Q \o V) \o T \in Seq(Byte)
                /\ Len((Q \o V) \o T) = Len(Q \o V) + Len(T)
            <7>1. Q \o V \in Seq(Byte)
              BY <5>2
            <7> QED
              BY <2>a, <7>1, Concatenated
          <6>2. Len(Q \o V) = 12 + v /\ Len(T) = 4
            BY <5>2, <2>4
          <6> QED
            BY <6>1, <6>2, <1>3
        <5> QED
          BY <5>3 DEF Q
      <4> QED
        BY <3>1, <3>3, <3>5, <4>1, <4>2, <4>3
    <3> QED
      BY <3>4, <3>5
  <2>6. CASE k.family = "bounded"
    <3>1. MeasuredLen(k, v) = 2 + v /\ ~FixedWidth(k)
      BY <2>1, <2>6 DEF MeasuredLen, FixedWidth, BoundedPrefix
    <3>2. EncodedFromLen(k, 2 + v) = v
      BY <1>3, <2>6 DEF EncodedFromLen, BoundedPrefix
    <3>3. CellBytes(r, c, 2 + v) = L2 \o V
      BY <2>1, <2>6, <3>2 DEF CellBytes, BoundedPrefix
    <3>4. WireCell(r, c) = L2 \o V
      BY <2>1, <2>6 DEF WireCell
    <3>5. L2 \o V \in Seq(Byte) /\ Len(L2 \o V) = 2 + v
      <4> HIDE DEF L2, L4, LF, P, V, T
      <4>1. L2 \o V \in Seq(Byte) /\ Len(L2 \o V) = Len(L2) + Len(V)
        BY <2>a, <2>b
      <4> QED
        BY <2>2, <2>4, <1>3, <4>1
    <3> QED
      BY <3>1, <3>3, <3>4, <3>5
  <2>7. CASE k.family \notin {"max", "bounded"}
    <3> DEFINE F == FixedPrefix(k)
    <3>1. MeasuredLen(k, v) = F + v /\ F \in Nat
      BY <2>1, <2>7 DEF MeasuredLen, FixedPrefix, BoundedPrefix, CellLenPrefix
    <3>2. \A len : CellBytes(r, c, len) = LF \o V
      BY <2>1, <2>7 DEF CellBytes
    <3>3. LF \o V \in Seq(Byte) /\ Len(LF \o V) = F + v
      <4> HIDE DEF L2, L4, LF, P, V, T
      <4>1. LF \o V \in Seq(Byte) /\ Len(LF \o V) = Len(LF) + Len(V)
        BY <2>a, <2>b, <3>1 DEF F
      <4> QED
        BY <2>2, <2>4, <1>3, <3>1, <4>1 DEF F
    <3>4. WireCell(r, c) = LF \o V
      <4>1. CASE k.family = "primitive" /\ ~k.nullable
        <5>1. WireCell(r, c) = V /\ F = 0
          BY <2>1, <4>1 DEF WireCell, FixedPrefix
        <5>2. Field("length", v, 0) \o V = V
          BY <2>2, EmptyField
        <5> QED
          BY <5>1, <5>2
      <4>2. CASE k.family = "fixedBinary"
        BY <2>1, <4>2 DEF WireCell, FixedPrefix, BoundedPrefix
      <4>3. CASE ~(k.family = "primitive" /\ ~k.nullable) /\ k.family # "fixedBinary"
        BY <2>1, <2>7, <4>3 DEF WireCell, FixedPrefix, CellLenPrefix
      <4> QED
        BY <4>1, <4>2, <4>3
    <3> HIDE DEF F, LF, V
    <3> QED
      BY <2>3, <3>1, <3>2, <3>3, <3>4 DEF F
  <2> QED
    BY <2>5, <2>6, <2>7
<1> QED
  BY <1>1, <1>2, <1>3

-----------------------------------------------------------------------------
(* Rows and cells of the range *)

\* A range of a batch of a table that a plan encodes.
RangeOK ==
    /\ plan \in Plans
    /\ start \in Nat /\ count \in Nat \ {0}
    /\ \A i \in 1..count : \A c \in 1..ColumnCount : batch[start + i][c] \in ValuesOf(plan[c])

LEMMA PlanFacts ==
    ASSUME plan \in Plans
    PROVE  /\ ColumnCount \in Nat \ {0}
           /\ \A c \in 1..ColumnCount : ColumnOK(plan[c])
           /\ NULL \notin Nat
<1>1. plan \in Seq({plan[c] : c \in DOMAIN plan}) /\ plan # <<>>
  BY RowEncodingAssumption
<1>2. Len(plan) \in Nat \ {0} /\ DOMAIN plan = 1..Len(plan)
  BY <1>1
<1> QED
  BY <1>2, RowEncodingAssumption DEF ColumnCount

LEMMA CellFacts ==
    ASSUME RangeOK, NEW i \in 1..count, NEW c \in 1..ColumnCount
    PROVE  /\ WireCell(start + i, c) \in Seq(Byte)
           /\ LayoutLen(i, c) \in Nat
           /\ LayoutLen(i, c) = Len(WireCell(start + i, c))
           /\ CellBytes(start + i, c, LayoutLen(i, c)) = WireCell(start + i, c)
           /\ FixedWidth(plan[c]) =>
                /\ CellBytes(start + i, c, 0) = WireCell(start + i, c)
                /\ FixedCellLen(plan[c], batch[start + i][c]) = LayoutLen(i, c)
                /\ Advance(plan[c], batch[start + i][c]) = LayoutLen(i, c)
<1>1. /\ start + i \in Int /\ c \in Int
      /\ ColumnOK(plan[c]) /\ batch[start + i][c] \in ValuesOf(plan[c]) /\ NULL \notin Nat
  BY PlanFacts DEF RangeOK
<1>2. LayoutLen(i, c) = MeasuredLen(plan[c], batch[start + i][c])
  BY DEF LayoutLen, RangeRow
<1>3. /\ WireCell(start + i, c) \in Seq(Byte)
      /\ Len(WireCell(start + i, c)) = MeasuredLen(plan[c], batch[start + i][c])
      /\ CellBytes(start + i, c, MeasuredLen(plan[c], batch[start + i][c])) = WireCell(start + i, c)
      /\ FixedWidth(plan[c]) =>
           /\ CellBytes(start + i, c, 0) = WireCell(start + i, c)
           /\ FixedCellLen(plan[c], batch[start + i][c]) = Len(WireCell(start + i, c))
           /\ Advance(plan[c], batch[start + i][c]) = Len(WireCell(start + i, c))
  BY <1>1, CellsAreWireCells
<1>4. Len(WireCell(start + i, c)) \in Nat
  BY <1>3
<1> QED
  BY <1>2, <1>3, <1>4

\* A recursive function that appends piece after piece.
LEMMA JoinTyped ==
    ASSUME NEW n \in Nat, NEW S, NEW b \in Seq(S), NEW g \in [1..n -> Seq(S)], NEW f,
           f = [c \in 0..n |-> IF c = 0 THEN b ELSE f[c - 1] \o g[c]]
    PROVE  f \in [0..n -> Seq(S)] /\ Joins(f, n, b, g)
<1>1. ASSUME NEW c \in 0..n
      PROVE  f[c] = IF c = 0 THEN b ELSE f[c - 1] \o g[c]
  OBVIOUS
<1> DEFINE P == {k \in 0..n : f[k] \in Seq(S)}
<1>2. 0 \in P
  BY <1>1
<1>3. ASSUME NEW k \in 0..(n - 1), k \in P PROVE k + 1 \in P
  <2>1. k + 1 \in 0..n /\ k + 1 # 0 /\ k + 1 - 1 = k /\ k + 1 \in 1..n
    OBVIOUS
  <2>2. f[k + 1] = f[k] \o g[k + 1]
    <3> PICK c \in 0..n : c = k + 1
      BY <2>1
    <3>1. f[c] = IF c = 0 THEN b ELSE f[c - 1] \o g[c]
      BY <1>1
    <3>2. c # 0 /\ c - 1 = k
      OBVIOUS
    <3> QED
      BY <3>1, <3>2
  <2>3. f[k] \in Seq(S) /\ g[k + 1] \in Seq(S)
    BY <1>3, <2>1
  <2>4. f[k] \o g[k + 1] \in Seq(S)
    BY <2>3, Concatenated
  <2> QED
    BY <2>1, <2>2, <2>4
<1>4. 0..n \subseteq P
  <2> HIDE DEF P
  <2> QED
    BY <1>2, <1>3, InductionTo
<1>5. \A c \in 0..n : f[c] \in Seq(S)
  BY <1>4
<1>6. DOMAIN f = 0..n /\ f = [c \in 0..n |-> f[c]]
  OBVIOUS
<1>7. f \in [0..n -> Seq(S)]
  BY <1>5, <1>6
<1>8. Joins(f, n, b, g)
  <2>1. ASSUME NEW c \in 1..n PROVE f[c] = f[c - 1] \o g[c]
    <3>1. c \in 0..n /\ c # 0
      OBVIOUS
    <3> QED
      BY <1>1, <3>1
  <2>2. f[0] = b
    BY <1>1
  <2> QED
    BY <2>1, <2>2 DEF Joins
<1> QED
  BY <1>7, <1>8

\* The cells of the i-th row, and the rows of the range.
CellsOf(i) == [c \in 1..ColumnCount |-> WireCell(start + i, c)]
RowsOf == [i \in 1..count |-> RowTo(start + i)[ColumnCount]]

LEMMA RowToJoins ==
    ASSUME RangeOK, NEW i \in 1..count
    PROVE  /\ CellsOf(i) \in [1..ColumnCount -> Seq(Byte)]
           /\ RowTo(start + i) \in [0..ColumnCount -> Seq(Byte)]
           /\ Joins(RowTo(start + i), ColumnCount, <<Token>>, CellsOf(i))
<1> DEFINE n == ColumnCount
           r == start + i
           g == CellsOf(i)
           Grows(f) == f = [c \in 0..n |-> IF c = 0 THEN <<Token>> ELSE f[c - 1] \o WireCell(r, c)]
<1>1. n \in Nat
  BY PlanFacts DEF RangeOK
<1>2. g \in [1..n -> Seq(Byte)]
  BY CellFacts DEF CellsOf
<1>3. <<Token>> \in Seq(Byte)
  BY TokenIsByte
<1>4. \A f : Grows(f) <=> f = [c \in 0..n |-> IF c = 0 THEN <<Token>> ELSE f[c - 1] \o g[c]]
  <2> TAKE f
  <2>1. \A c \in 0..n : c # 0 => g[c] = WireCell(r, c)
    BY <1>1 DEF CellsOf
  <2>2. [c \in 0..n |-> IF c = 0 THEN <<Token>> ELSE f[c - 1] \o WireCell(r, c)]
          = [c \in 0..n |-> IF c = 0 THEN <<Token>> ELSE f[c - 1] \o g[c]]
    BY <2>1
  <2> QED
    BY <2>2
<1>5. PICK f \in [0..n -> Seq(Byte)] : Joins(f, n, <<Token>>, g)
  <2> HIDE DEF n, g
  <2> QED
    BY <1>1, <1>2, <1>3, JoinExists
<1>6. f = [c \in 0..n |-> IF c = 0 THEN <<Token>> ELSE f[c - 1] \o g[c]]
  <2> HIDE DEF n, g
  <2>1. ASSUME NEW c \in 0..n PROVE f[c] = IF c = 0 THEN <<Token>> ELSE f[c - 1] \o g[c]
    <3>1. c # 0 => c \in 1..n
      BY <1>1
    <3> QED
      BY <1>5, <3>1 DEF Joins
  <2> QED
    BY <2>1
<1>7. Grows(f)
  BY <1>4, <1>6
<1>8. RowTo(r) = CHOOSE to : Grows(to)
  BY Zenon DEF RowTo
<1> HIDE DEF Grows
<1>9. Grows(RowTo(r))
  BY <1>7, <1>8, Zenon
<1>10. RowTo(r) = [c \in 0..n |-> IF c = 0 THEN <<Token>> ELSE RowTo(r)[c - 1] \o g[c]]
  BY <1>4, <1>9
<1>11. RowTo(r) \in [0..n -> Seq(Byte)] /\ Joins(RowTo(r), n, <<Token>>, g)
  <2> HIDE DEF n, g, r
  <2> QED
    BY <1>1, <1>2, <1>3, <1>10, JoinTyped
<1> QED
  BY <1>2, <1>11

LEMMA RowsToJoins ==
    ASSUME RangeOK
    PROVE  /\ RowsOf \in [1..count -> Seq(Byte)]
           /\ RowsTo \in [0..count -> Seq(Byte)]
           /\ Joins(RowsTo, count, <<>>, RowsOf)
<1> DEFINE n == count
           g == RowsOf
           Grows(f) == f = [i \in 0..n |-> IF i = 0 THEN <<>>
                                           ELSE f[i - 1] \o RowTo(start + i)[ColumnCount]]
<1>1. n \in Nat
  BY DEF RangeOK
<1>2. g \in [1..n -> Seq(Byte)]
  <2>1. ColumnCount \in 0..ColumnCount
    BY PlanFacts DEF RangeOK
  <2>2. ASSUME NEW i \in 1..count PROVE RowTo(start + i)[ColumnCount] \in Seq(Byte)
    <3>1. RowTo(start + i) \in [0..ColumnCount -> Seq(Byte)]
      BY RowToJoins
    <3> QED
      BY <2>1, <3>1
  <2> QED
    BY <2>2 DEF RowsOf
<1>3. <<>> \in Seq(Byte)
  OBVIOUS
<1>4. \A f : Grows(f) <=> f = [i \in 0..n |-> IF i = 0 THEN <<>> ELSE f[i - 1] \o g[i]]
  <2> TAKE f
  <2>1. \A i \in 0..n : i # 0 => g[i] = RowTo(start + i)[ColumnCount]
    BY <1>1 DEF RowsOf
  <2>2. [i \in 0..n |-> IF i = 0 THEN <<>> ELSE f[i - 1] \o RowTo(start + i)[ColumnCount]]
          = [i \in 0..n |-> IF i = 0 THEN <<>> ELSE f[i - 1] \o g[i]]
    BY <2>1
  <2> QED
    BY <2>2
<1>5. PICK f \in [0..n -> Seq(Byte)] : Joins(f, n, <<>>, g)
  <2> HIDE DEF n, g
  <2> QED
    BY <1>1, <1>2, <1>3, JoinExists
<1>6. f = [i \in 0..n |-> IF i = 0 THEN <<>> ELSE f[i - 1] \o g[i]]
  <2> HIDE DEF n, g
  <2>1. ASSUME NEW i \in 0..n PROVE f[i] = IF i = 0 THEN <<>> ELSE f[i - 1] \o g[i]
    <3>1. i # 0 => i \in 1..n
      BY <1>1
    <3> QED
      BY <1>5, <3>1 DEF Joins
  <2> QED
    BY <2>1
<1>7. Grows(f)
  BY <1>4, <1>6
<1>8. RowsTo = CHOOSE to : Grows(to)
  BY Zenon DEF RowsTo
<1> HIDE DEF Grows
<1>9. Grows(RowsTo)
  BY <1>7, <1>8, Zenon
<1>10. RowsTo = [i \in 0..n |-> IF i = 0 THEN <<>> ELSE RowsTo[i - 1] \o g[i]]
  BY <1>4, <1>9
<1>11. RowsTo \in [0..n -> Seq(Byte)] /\ Joins(RowsTo, n, <<>>, g)
  <2> HIDE DEF n, g
  <2> QED
    BY <1>1, <1>2, <1>3, <1>10, JoinTyped
<1> QED
  BY <1>2, <1>11

\* Where the i-th row begins, and where its c-th cell does (the cell behind
\* the last one is the next row).
RowStart(i) == Len(RowsTo[i - 1])
CellAt(i, c) == RowStart(i) + Len(RowTo(start + i)[c - 1])
Payload == RowsTo[count]

\* The recursive definitions, one step at a time.
LEMMA RowSteps ==
    ASSUME RangeOK, NEW i \in 1..count
    PROVE  /\ RowTo(start + i)[0] = <<Token>>
           /\ \A c \in 1..ColumnCount :
                 /\ RowTo(start + i)[c - 1] \in Seq(Byte)
                 /\ RowTo(start + i)[c] \in Seq(Byte)
                 /\ RowTo(start + i)[c] = RowTo(start + i)[c - 1] \o WireCell(start + i, c)
           /\ RowsTo[0] = <<>>
           /\ RowsTo[i - 1] \in Seq(Byte)
           /\ RowsTo[i] \in Seq(Byte)
           /\ RowTo(start + i)[ColumnCount] \in Seq(Byte)
           /\ RowsTo[i] = RowsTo[i - 1] \o RowTo(start + i)[ColumnCount]
<1> DEFINE R == RowTo(start + i)
<1>1. R \in [0..ColumnCount -> Seq(Byte)] /\ Joins(R, ColumnCount, <<Token>>, CellsOf(i))
  BY RowToJoins
<1>2. RowsTo \in [0..count -> Seq(Byte)] /\ Joins(RowsTo, count, <<>>, RowsOf)
  BY RowsToJoins
<1>3. ColumnCount \in Nat /\ count \in Nat
  BY PlanFacts DEF RangeOK
<1>4. RowsOf[i] = R[ColumnCount]
  BY DEF RowsOf
<1>5. \A c \in 1..ColumnCount : CellsOf(i)[c] = WireCell(start + i, c)
  BY DEF CellsOf
<1> HIDE DEF R
<1>6. R[0] = <<Token>> /\ \A c \in 1..ColumnCount : R[c] = R[c - 1] \o WireCell(start + i, c)
  BY <1>1, <1>5 DEF Joins
<1>7. \A c \in 1..ColumnCount : R[c - 1] \in Seq(Byte) /\ R[c] \in Seq(Byte)
  BY <1>1, <1>3
<1>8. R[ColumnCount] \in Seq(Byte) /\ RowsTo[i - 1] \in Seq(Byte) /\ RowsTo[i] \in Seq(Byte)
  BY <1>1, <1>2, <1>3
<1>9. RowsTo[0] = <<>> /\ RowsTo[i] = RowsTo[i - 1] \o R[ColumnCount]
  BY <1>2, <1>4 DEF Joins
<1> QED
  BY <1>6, <1>7, <1>8, <1>9 DEF R

LEMMA CellPlaces ==
    ASSUME RangeOK, NEW i \in 1..count
    PROVE  /\ RowStart(i) \in Nat
           /\ RowStart(i + 1) \in Nat
           /\ RowStart(i + 1) = RowStart(i) + Len(RowTo(start + i)[ColumnCount])
           /\ CellAt(i, 1) = RowStart(i) + 1
           /\ CellAt(i, ColumnCount + 1) = RowStart(i + 1)
           /\ \A c \in 1..ColumnCount : /\ CellAt(i, c) \in Nat
                                        /\ CellAt(i, c) > RowStart(i)
                                        /\ CellAt(i, c + 1) = CellAt(i, c) + LayoutLen(i, c)
                                        /\ CellAt(i, c + 1) <= RowStart(i + 1)
<1> DEFINE R == RowTo(start + i)
<1>1. ColumnCount \in Nat \ {0} /\ i - 1 + 1 = i /\ i + 1 - 1 = i /\ 1 - 1 = 0 /\ ColumnCount + 1 - 1 = ColumnCount
  BY PlanFacts DEF RangeOK
<1>2. /\ R[0] = <<Token>>
      /\ RowsTo[i - 1] \in Seq(Byte) /\ RowsTo[i] \in Seq(Byte) /\ R[ColumnCount] \in Seq(Byte)
      /\ RowsTo[i] = RowsTo[i - 1] \o R[ColumnCount]
  BY RowSteps
<1>3. RowStart(i) = Len(RowsTo[i - 1]) /\ RowStart(i + 1) = Len(RowsTo[i])
  BY <1>1 DEF RowStart
<1>4. /\ RowStart(i) \in Nat /\ RowStart(i + 1) \in Nat
      /\ RowStart(i + 1) = RowStart(i) + Len(R[ColumnCount])
  <2>1. Len(RowsTo[i - 1]) \in Nat /\ Len(RowsTo[i]) \in Nat
        /\ Len(RowsTo[i - 1] \o R[ColumnCount]) = Len(RowsTo[i - 1]) + Len(R[ColumnCount])
    <3> HIDE DEF R
    <3>1. Len(RowsTo[i - 1]) \in Nat /\ Len(RowsTo[i]) \in Nat
      <4>1. RowsTo[i - 1] \in Seq(Byte) /\ RowsTo[i] \in Seq(Byte)
        BY <1>2
      <4> QED
        BY <4>1
    <3>2. Len(RowsTo[i - 1] \o R[ColumnCount]) = Len(RowsTo[i - 1]) + Len(R[ColumnCount])
      BY <1>2, Concatenated
    <3> QED
      BY <3>1, <3>2
  <2> QED
    BY <1>2, <1>3, <2>1
<1>5. \A c : CellAt(i, c) = RowStart(i) + Len(R[c - 1])
  BY DEF CellAt
<1>6. CellAt(i, 1) = RowStart(i) + 1
  <2>1. Len(<<Token>>) = 1
    OBVIOUS
  <2>2. CellAt(i, 1) = RowStart(i) + Len(R[1 - 1])
    BY <1>5
  <2> QED
    BY <1>1, <1>2, <2>1, <2>2
<1>7. CellAt(i, ColumnCount + 1) = RowStart(i + 1)
  <2> PICK c : c = ColumnCount + 1
    OBVIOUS
  <2>1. CellAt(i, c) = RowStart(i) + Len(R[c - 1])
    BY <1>5
  <2>2. c - 1 = ColumnCount
    BY <1>1
  <2> QED
    BY <1>4, <2>1, <2>2
<1>8. ASSUME NEW c \in 1..ColumnCount
      PROVE  /\ CellAt(i, c) \in Nat
             /\ CellAt(i, c) > RowStart(i)
             /\ CellAt(i, c + 1) = CellAt(i, c) + LayoutLen(i, c)
             /\ CellAt(i, c + 1) <= RowStart(i + 1)
  <2>1. R[c - 1] \in Seq(Byte) /\ R[c] = R[c - 1] \o WireCell(start + i, c)
    BY RowSteps
  <2>2. WireCell(start + i, c) \in Seq(Byte) /\ Len(WireCell(start + i, c)) = LayoutLen(i, c)
    BY CellFacts
  <2>3. Len(R[c]) = Len(R[c - 1]) + LayoutLen(i, c) /\ Len(R[c - 1]) \in Nat
    <3>1. Len(R[c - 1] \o WireCell(start + i, c)) = Len(R[c - 1]) + Len(WireCell(start + i, c))
      BY <2>1, <2>2, Concatenated
    <3>2. Len(R[c - 1]) \in Nat
      <4> HIDE DEF R
      <4> QED
        BY <2>1
    <3> QED
      BY <2>1, <2>2, <3>1, <3>2
  <2>4. CellAt(i, c) = RowStart(i) + Len(R[c - 1]) /\ CellAt(i, c + 1) = RowStart(i) + Len(R[c])
    <3>1. c + 1 - 1 = c
      OBVIOUS
    <3>2. CellAt(i, c + 1) = RowStart(i) + Len(R[c + 1 - 1])
      BY <1>5
    <3> QED
      BY <1>5, <3>1, <3>2
  <2>5. Len(R[0]) <= Len(R[c - 1]) /\ Len(R[c]) <= Len(R[ColumnCount])
    <3>1. /\ R \in [0..ColumnCount -> Seq(Byte)]
          /\ CellsOf(i) \in [1..ColumnCount -> Seq(Byte)]
          /\ Joins(R, ColumnCount, <<Token>>, CellsOf(i))
      BY RowToJoins
    <3>2. <<Token>> \in Seq(Byte) /\ ColumnCount \in Nat
      BY <1>1, TokenIsByte
    <3>3. ASSUME NEW a \in 0..ColumnCount PROVE \A e \in a..ColumnCount : Len(R[a]) <= Len(R[e])
      <4> HIDE DEF R
      <4>1. \A e \in a..ColumnCount : Begins(R[a], R[e])
        BY <3>1, <3>2, JoinPrefix
      <4> QED
        BY <4>1 DEF Begins
    <3>4. 0 \in 0..ColumnCount /\ c - 1 \in 0..ColumnCount /\ c \in 0..ColumnCount /\ ColumnCount \in c..ColumnCount
      BY <1>1
    <3> HIDE DEF R
    <3> QED
      BY <3>3, <3>4
  <2>6. Len(R[0]) = 1
    <3>1. Len(<<Token>>) = 1
      OBVIOUS
    <3> QED
      BY <1>2, <3>1
  <2>7. Len(R[ColumnCount]) \in Nat /\ LayoutLen(i, c) \in Nat
    <3> HIDE DEF R
    <3> QED
      BY <1>2, CellFacts
  <2> DEFINE a == Len(R[c - 1])
             z == Len(R[ColumnCount])
             e == Len(R[c])
  <2>8. /\ e = a + LayoutLen(i, c) /\ a \in Nat /\ 1 <= a /\ e <= z /\ z \in Nat
        /\ CellAt(i, c) = RowStart(i) + a /\ CellAt(i, c + 1) = RowStart(i) + e
        /\ RowStart(i + 1) = RowStart(i) + z
    <3>1. 1 <= a
      BY <2>5, <2>6
    <3> QED
      BY <1>4, <2>3, <2>4, <2>5, <2>7, <3>1
  <2> HIDE DEF a, e, z, R
  <2> QED
    BY <1>4, <2>7, <2>8
<1> QED
  BY <1>4, <1>6, <1>7, <1>8

LEMMA RowStarts ==
    ASSUME RangeOK
    PROVE  /\ RowStart(1) = 0
           /\ \A i \in 1..(count + 1) : RowStart(i) \in Nat
           /\ \A i, j \in 1..(count + 1) : i < j => RowStart(i) < RowStart(j)
           /\ RowStart(count + 1) = Len(Payload)
           /\ Payload \in Seq(Byte)
<1>1. count \in Nat \ {0} /\ count + 1 - 1 = count
  BY DEF RangeOK
<1>2. RowsTo \in [0..count -> Seq(Byte)] /\ Joins(RowsTo, count, <<>>, RowsOf)
      /\ RowsOf \in [1..count -> Seq(Byte)]
  BY RowsToJoins
<1>3. RowStart(1) = 0
  BY <1>2 DEF RowStart, Joins
<1>4. RowStart(count + 1) = Len(Payload) /\ Payload \in Seq(Byte)
  BY <1>1, <1>2 DEF RowStart, Payload
<1>5. ASSUME NEW i \in 1..(count + 1) PROVE RowStart(i) \in Nat
  BY <1>1, <1>2 DEF RowStart
<1>6. ASSUME NEW i \in 1..(count + 1), NEW j \in 1..(count + 1), i < j
      PROVE  RowStart(i) < RowStart(j)
  <2>1. i \in 1..count /\ i \in 0..count /\ j - 1 \in i..count /\ i + 1 \in 1..(count + 1)
    BY <1>1, <1>6
  <2>2. RowStart(i) < RowStart(i + 1)
    <3>1. ColumnCount \in 1..ColumnCount
      BY PlanFacts DEF RangeOK
    <3>2. CellAt(i, ColumnCount) \in Nat /\ CellAt(i, ColumnCount) > RowStart(i) /\ CellAt(i, ColumnCount + 1) <= RowStart(i + 1)
          /\ CellAt(i, ColumnCount + 1) = CellAt(i, ColumnCount) + LayoutLen(i, ColumnCount)
          /\ RowStart(i) \in Nat /\ RowStart(i + 1) \in Nat
      BY <2>1, <3>1, CellPlaces
    <3>3. LayoutLen(i, ColumnCount) \in Nat
      BY <2>1, <3>1, CellFacts
    <3> QED
      BY <3>2, <3>3
  <2>3. Len(RowsTo[i]) <= Len(RowsTo[j - 1])
    <3>1. <<>> \in Seq(Byte) /\ count \in Nat
      BY <1>1
    <3>a. \A e \in i..count : Begins(RowsTo[i], RowsTo[e])
      BY <1>2, <2>1, <3>1, JoinPrefix
    <3>2. \A e \in i..count : Len(RowsTo[i]) <= Len(RowsTo[e])
      BY <3>a DEF Begins
    <3> QED
      BY <2>1, <3>2
  <2>4. RowStart(i + 1) = Len(RowsTo[i]) /\ RowStart(j) = Len(RowsTo[j - 1])
    <3>1. i + 1 - 1 = i
      OBVIOUS
    <3> QED
      BY <3>1 DEF RowStart
  <2>5. RowStart(i) \in Nat /\ RowStart(i + 1) \in Nat /\ RowStart(j) \in Nat
    BY <1>5, <2>1
  <2> QED
    BY <2>2, <2>3, <2>4, <2>5
<1> QED
  BY <1>3, <1>4, <1>5, <1>6

\* What stands where in the payload: the token of a row at its beginning, the
\* bytes of a cell at its place, and nothing else.
LEMMA TokenPlaces ==
    ASSUME RangeOK, NEW i \in 1..count
    PROVE  RowStart(i) < Len(Payload) /\ Payload[RowStart(i) + 1] = Token
<1> DEFINE R == RowTo(start + i)
           W == R[ColumnCount]
<1>1. ColumnCount \in Nat \ {0} /\ count \in Nat \ {0} /\ count + 1 \in 1..(count + 1)
      /\ i \in 1..(count + 1) /\ i < count + 1
  BY PlanFacts DEF RangeOK
<1>2. RowStart(i) < Len(Payload)
  BY <1>1, RowStarts
<1>3. W \in Seq(Byte) /\ Len(W) >= 1 /\ W[1] = Token
  <2>1. /\ R \in [0..ColumnCount -> Seq(Byte)]
        /\ CellsOf(i) \in [1..ColumnCount -> Seq(Byte)]
        /\ Joins(R, ColumnCount, <<Token>>, CellsOf(i))
    BY RowToJoins
  <2>2. <<Token>> \in Seq(Byte) /\ ColumnCount \in Nat /\ 0 \in 0..ColumnCount /\ ColumnCount \in 0..ColumnCount
    BY <1>1, TokenIsByte
  <2>3. Begins(R[0], W)
    <3> HIDE DEF R
    <3>1. \A j \in 0..ColumnCount : Begins(R[0], R[j])
      BY <2>1, <2>2, JoinPrefix
    <3> QED
      BY <2>2, <3>1
  <2>4. R[0] = <<Token>>
    BY RowSteps
  <2>5. Len(R[0]) = 1 /\ R[0][1] = Token
    <3> HIDE DEF R
    <3> QED
      BY <2>4
  <2>6. 1 \in 1..Len(R[0])
    BY <2>5
  <2>7. W \in Seq(Byte)
    BY <2>1, <2>2
  <2> HIDE DEF R
  <2>8. Len(R[0]) <= Len(R[ColumnCount]) /\ R[ColumnCount][1] = R[0][1]
    BY <2>3, <2>6 DEF Begins
  <2> QED
    BY <2>5, <2>7, <2>8
<1>4. /\ RowsTo \in [0..count -> Seq(Byte)] /\ Joins(RowsTo, count, <<>>, RowsOf)
      /\ RowsOf \in [1..count -> Seq(Byte)]
  BY RowsToJoins
<1>5. RowsOf[i] = W
  BY DEF RowsOf
<1>6. \A k \in 1..Len(RowsOf[i]) : RowsTo[count][Len(RowsTo[i - 1]) + k] = RowsOf[i][k]
  <2>1. <<>> \in Seq(Byte) /\ count \in Nat
    BY <1>1
  <2>2. \A j \in 1..count : PieceAt(RowsTo, count, j, RowsOf[j])
    BY <1>4, <2>1, JoinPiece
  <2> QED
    BY <2>2 DEF PieceAt
<1> HIDE DEF W
<1>7. 1 \in 1..Len(RowsOf[i])
  <2>1. Len(W) \in Nat
    BY <1>3
  <2> QED
    BY <1>3, <1>5, <2>1
<1>8. RowsTo[count][Len(RowsTo[i - 1]) + 1] = RowsOf[i][1]
  BY <1>6, <1>7
<1> QED
  BY <1>2, <1>3, <1>5, <1>8 DEF Payload, RowStart

LEMMA CellBytePlaces ==
    ASSUME RangeOK, NEW i \in 1..count, NEW c \in 1..ColumnCount
    PROVE  /\ CellAt(i, c) + LayoutLen(i, c) <= Len(Payload)
           /\ \A k \in 1..LayoutLen(i, c) :
                 Payload[CellAt(i, c) + k] = WireCell(start + i, c)[k]
<1> DEFINE R == RowTo(start + i)
<1>1. ColumnCount \in Nat \ {0} /\ count \in Nat \ {0} /\ count + 1 \in 1..(count + 1)
      /\ i \in 1..(count + 1) /\ i + 1 \in 1..(count + 1)
  BY PlanFacts DEF RangeOK
<1>2. /\ RowStart(i) \in Nat /\ RowStart(i + 1) \in Nat
      /\ CellAt(i, c) \in Nat
      /\ CellAt(i, c + 1) = CellAt(i, c) + LayoutLen(i, c)
      /\ CellAt(i, c + 1) <= RowStart(i + 1)
  BY CellPlaces
<1>3. LayoutLen(i, c) \in Nat /\ LayoutLen(i, c) = Len(WireCell(start + i, c))
  BY CellFacts
<1>4. RowStart(i + 1) <= Len(Payload)
  <2>1. RowStart(count + 1) = Len(Payload) /\ RowStart(count + 1) \in Nat
    BY <1>1, RowStarts
  <2>2. CASE i = count
    BY <1>2, <2>1, <2>2
  <2>3. CASE i # count
    <3>1. i + 1 < count + 1
      BY <1>1, <2>3
    <3>2. RowStart(i + 1) < RowStart(count + 1)
      BY <1>1, <3>1, RowStarts
    <3> QED
      BY <1>2, <2>1, <3>2
  <2> QED
    BY <2>2, <2>3
<1>5. Len(Payload) \in Nat
  BY <1>1, RowStarts
<1>6. CellAt(i, c) + LayoutLen(i, c) <= Len(Payload)
  BY <1>2, <1>3, <1>4, <1>5
<1>7. ASSUME NEW k \in 1..LayoutLen(i, c)
      PROVE  Payload[CellAt(i, c) + k] = WireCell(start + i, c)[k]
  <2>1. /\ CellsOf(i) \in [1..ColumnCount -> Seq(Byte)]
        /\ R \in [0..ColumnCount -> Seq(Byte)]
        /\ Joins(R, ColumnCount, <<Token>>, CellsOf(i))
    BY RowToJoins
  <2>2. <<Token>> \in Seq(Byte) /\ ColumnCount \in Nat
    BY <1>1, TokenIsByte
  <2>3. CellsOf(i)[c] = WireCell(start + i, c)
    BY DEF CellsOf
  <2>4. R[ColumnCount][Len(R[c - 1]) + k] = WireCell(start + i, c)[k]
    <3>1. \A m \in 1..Len(CellsOf(i)[c]) : R[ColumnCount][Len(R[c - 1]) + m] = CellsOf(i)[c][m]
      <4> HIDE DEF R
      <4>1. \A e \in 1..ColumnCount : PieceAt(R, ColumnCount, e, CellsOf(i)[e])
        BY <2>1, <2>2, JoinPiece
      <4> QED
        BY <4>1 DEF PieceAt
    <3>2. k \in 1..Len(CellsOf(i)[c])
      BY <1>3, <2>3
    <3> HIDE DEF R
    <3> QED
      BY <2>3, <3>1, <3>2
  <2>5. /\ RowsTo \in [0..count -> Seq(Byte)] /\ Joins(RowsTo, count, <<>>, RowsOf)
        /\ RowsOf \in [1..count -> Seq(Byte)]
    BY RowsToJoins
  <2>6. \A m \in 1..Len(RowsOf[i]) : RowsTo[count][Len(RowsTo[i - 1]) + m] = RowsOf[i][m]
    <3>1. <<>> \in Seq(Byte) /\ count \in Nat
      BY <1>1
    <3>2. \A j \in 1..count : PieceAt(RowsTo, count, j, RowsOf[j])
      BY <2>5, <3>1, JoinPiece
    <3> QED
      BY <3>2 DEF PieceAt
  <2>7. RowsOf[i] = R[ColumnCount]
    BY DEF RowsOf
  <2>8. R[c - 1] \in Seq(Byte) /\ R[ColumnCount] \in Seq(Byte)
    BY RowSteps
  <2> DEFINE x == Len(R[c - 1])
             y == RowStart(i)
             z == Len(R[ColumnCount])
  <2>9. x \in Nat /\ z \in Nat
    <3> HIDE DEF R
    <3> QED
      BY <2>8
  <2>10. CellAt(i, c) = y + x /\ RowStart(i + 1) = y + z
    BY CellPlaces DEF CellAt
  <2>11. x + k \in 1..z /\ CellAt(i, c) + k = y + (x + k)
    <3> HIDE DEF x, z
    <3> QED
      BY <1>2, <1>3, <2>9, <2>10
  <2>12. Payload[y + (x + k)] = R[ColumnCount][x + k]
    <3>1. x + k \in 1..Len(RowsOf[i])
      BY <2>7, <2>11
    <3> HIDE DEF x
    <3>2. RowsTo[count][Len(RowsTo[i - 1]) + (x + k)] = RowsOf[i][x + k]
      BY <2>6, <3>1
    <3> QED
      BY <2>7, <3>2 DEF Payload, RowStart
  <2> QED
    BY <2>4, <2>11, <2>12
<1> QED
  BY <1>6, <1>7

LEMMA PayloadCovered ==
    ASSUME RangeOK, NEW p \in 1..Len(Payload)
    PROVE  \/ \E i \in 1..count : p = RowStart(i) + 1
           \/ \E i \in 1..count : \E c \in 1..ColumnCount : p - CellAt(i, c) \in 1..LayoutLen(i, c)
<1>1. ColumnCount \in Nat \ {0} /\ count \in Nat \ {0}
  BY PlanFacts DEF RangeOK
<1>2. PICK i \in 1..count : p - Len(RowsTo[i - 1]) \in 1..Len(RowsOf[i])
  <2>1. /\ RowsTo \in [0..count -> Seq(Byte)] /\ Joins(RowsTo, count, <<>>, RowsOf)
        /\ RowsOf \in [1..count -> Seq(Byte)]
    BY RowsToJoins
  <2>2. <<>> \in Seq(Byte) /\ count \in Nat
    BY <1>1
  <2>a. 1..Len(<<>>) = {}
    OBVIOUS
  <2>3. p \in 1..Len(RowsTo[count])
    BY DEF Payload
  <2>4. \/ p \in 1..Len(<<>>)
        \/ \E i \in 1..count : p - Len(RowsTo[i - 1]) \in 1..Len(RowsOf[i])
    BY <2>1, <2>2, <2>3, JoinCovers
  <2> QED
    BY <2>a, <2>4
<1> DEFINE R == RowTo(start + i)
           q == p - Len(RowsTo[i - 1])
<1>3. q \in 1..Len(R[ColumnCount])
  BY <1>2 DEF RowsOf
<1>4. \/ q \in 1..Len(<<Token>>)
      \/ \E c \in 1..ColumnCount : q - Len(R[c - 1]) \in 1..Len(CellsOf(i)[c])
  <2>1. /\ CellsOf(i) \in [1..ColumnCount -> Seq(Byte)]
        /\ R \in [0..ColumnCount -> Seq(Byte)]
        /\ Joins(R, ColumnCount, <<Token>>, CellsOf(i))
    BY RowToJoins
  <2>2. <<Token>> \in Seq(Byte) /\ ColumnCount \in Nat
    BY <1>1, TokenIsByte
  <2> HIDE DEF R, q
  <2> QED
    BY <1>3, <2>1, <2>2, JoinCovers
<1>5. RowStart(i) = Len(RowsTo[i - 1]) /\ RowStart(i) \in Nat /\ p \in Int
  BY CellPlaces DEF RowStart
<1>6. CASE q \in 1..Len(<<Token>>)
  <2>1. Len(<<Token>>) = 1
    OBVIOUS
  <2>2. q = 1
    BY <1>6, <2>1
  <2>3. p = RowStart(i) + 1
    BY <1>5, <2>2
  <2> QED
    BY <2>3
<1>7. CASE \E c \in 1..ColumnCount : q - Len(R[c - 1]) \in 1..Len(CellsOf(i)[c])
  <2>1. PICK c \in 1..ColumnCount : q - Len(R[c - 1]) \in 1..Len(CellsOf(i)[c])
    BY <1>7
  <2>2. CellsOf(i)[c] = WireCell(start + i, c) /\ LayoutLen(i, c) = Len(WireCell(start + i, c))
    BY CellFacts DEF CellsOf
  <2>3. Len(R[c - 1]) \in Nat
    <3>1. R[c - 1] \in Seq(Byte)
      BY RowSteps
    <3> HIDE DEF R
    <3> QED
      BY <3>1
  <2>4. p - CellAt(i, c) = q - Len(R[c - 1])
    BY <1>5, <2>3 DEF CellAt
  <2>5. p - CellAt(i, c) \in 1..LayoutLen(i, c)
    BY <2>1, <2>2, <2>4
  <2> QED
    BY <2>5
<1> QED
  BY <1>4, <1>6, <1>7

-----------------------------------------------------------------------------
(* The inductive invariant *)

\* The table of cell positions, row by row.
CellIndex(i, c) == (i - 1) * ColumnCount + c
Position(i, c) == [row |-> i, col |-> c, offset |-> CellAt(i, c), len |-> LayoutLen(i, c)]
PositionOf(i, c) == cells[CellIndex(i, c)] = Position(i, c)
PositionType == [row : Nat, col : Nat, offset : Nat, len : Nat]

\* The cells that have a position, and those that have been filled.
LaidOut(i, c) == i < row \/ (i = row /\ c < col)
Filled(i, c) == c < col \/ (c = col /\ i < row)

\* Byte p of the payload belongs to a cell that is still to be filled.
Pending(p) == \E i \in 1..count : \E c \in 1..ColumnCount :
                 ~Filled(i, c) /\ p - CellAt(i, c) \in 1..LayoutLen(i, c)

StartInv ==
    /\ pc \in {"begin", "layout", "measureFixed", "fillGeneral", "fillFixed", "append", "done"}
    /\ pc = "begin" => /\ row = 1 /\ col = 1 /\ offset = 0
                       /\ tokens = <<>> /\ cells = <<>> /\ cursors = <<>> /\ bytes = <<>>

TokensInv ==
    /\ tokens \in Seq(Nat)
    /\ Len(tokens) <= count
    /\ \A i \in 1..Len(tokens) : tokens[i] = RowStart(i)

\* Row by row, the token of a row before its cells.
ByRow ==
    /\ row \in 1..(count + 1) /\ col \in 1..ColumnCount
    /\ Len(tokens) \in {row - 1, row}
    /\ Len(tokens) = row - 1 => col = 1 /\ offset = RowStart(row)
    /\ Len(tokens) = row => offset = CellAt(row, col)

LayoutInv ==
    pc = "layout" =>
        /\ ByRow
        /\ cells \in Seq(PositionType)
        /\ Len(cells) = (row - 1) * ColumnCount + (col - 1)
        /\ \A i \in 1..count : \A c \in 1..ColumnCount :
              LaidOut(i, c) => CellIndex(i, c) \in 1..Len(cells) /\ PositionOf(i, c)
        /\ \A k \in 1..Len(cells) : /\ cells[k].row <= Len(tokens)
                                    /\ cells[k].offset + cells[k].len <= offset

MeasureInv ==
    pc = "measureFixed" =>
        /\ AllFixedWidth
        /\ row \in 1..(count + 1)
        /\ Len(tokens) = row - 1
        /\ offset = RowStart(row)
        /\ cursors \in Seq(Nat)
        /\ Len(cursors) = row - 1
        /\ \A i \in 1..Len(cursors) : cursors[i] = CellAt(i, 1)

FillInv ==
    pc \in {"fillGeneral", "fillFixed"} =>
        /\ row \in 1..count /\ col \in 1..(ColumnCount + 1)
        /\ col > ColumnCount => row = 1
        /\ Len(tokens) = count
        /\ bytes \in Seq(Byte)
        /\ Len(bytes) = Len(Payload)
        /\ \A p \in 1..Len(bytes) : bytes[p] = Payload[p] \/ Pending(p)

GeneralInv ==
    pc = "fillGeneral" =>
        \A i \in 1..count : \A c \in 1..ColumnCount : PositionOf(i, c)

FixedInv ==
    pc = "fillFixed" =>
        /\ AllFixedWidth
        /\ cursors \in [1..count -> Nat]
        /\ \A i \in 1..count : cursors[i] = CellAt(i, IF i < row THEN col + 1 ELSE col)

AppendInv ==
    pc = "append" =>
        /\ ByRow
        /\ bytes = IF Len(tokens) = row THEN RowsTo[row - 1] \o RowTo(start + row)[col - 1]
                                        ELSE RowsTo[row - 1]

DoneInv == pc = "done" => bytes = Payload /\ Len(tokens) = count

IInv ==
    /\ RangeOK
    /\ StartInv
    /\ TokensInv
    /\ LayoutInv
    /\ MeasureInv
    /\ FillInv
    /\ GeneralInv
    /\ FixedInv
    /\ AppendInv
    /\ DoneInv

\* The range does not change, and with it everything that is defined by it.
LEMMA RangeKept ==
    ASSUME UNCHANGED batchVars
    PROVE  /\ RangeOK => RangeOK'
           /\ ColumnCount' = ColumnCount /\ count' = count /\ start' = start
           /\ RowsTo' = RowsTo /\ Payload' = Payload
           /\ \A r : RowTo(r)' = RowTo(r)
           /\ \A i : RowStart(i)' = RowStart(i)
           /\ \A i, c : CellAt(i, c)' = CellAt(i, c)
           /\ \A i, c : LayoutLen(i, c)' = LayoutLen(i, c)
           /\ \A i, c : CellIndex(i, c)' = CellIndex(i, c)
           /\ \A i, c : Position(i, c)' = Position(i, c)
           /\ AllFixedWidth => AllFixedWidth'
<1>1. plan' = plan /\ batch' = batch /\ start' = start /\ count' = count /\ ColumnCount' = ColumnCount
  BY DEF batchVars, ColumnCount
<1>2. \A r : RowTo(r)' = RowTo(r)
  BY <1>1 DEF RowTo, WireCell, ColumnCount, Field, ValueBytes, NullLen, Token
<1>3. RowsTo' = RowsTo
  BY <1>1 DEF RowsTo, RowTo, WireCell, ColumnCount, Field, ValueBytes, NullLen, Token
<1>4. Payload' = Payload /\ \A i : RowStart(i)' = RowStart(i)
  BY <1>1, <1>3 DEF Payload, RowStart
<1>5. \A i, c : CellAt(i, c)' = CellAt(i, c)
  BY <1>1, <1>2, <1>4 DEF CellAt
<1>6. \A i, c : LayoutLen(i, c)' = LayoutLen(i, c)
  BY <1>1 DEF LayoutLen, MeasuredLen, NullLen, PlpCellLen, FixedPrefix, RangeRow
<1>7. \A i, c : CellIndex(i, c)' = CellIndex(i, c)
  BY <1>1 DEF CellIndex
<1>8. \A i, c : Position(i, c)' = Position(i, c)
  BY <1>5, <1>6 DEF Position
<1>9. RangeOK => RangeOK'
  BY <1>1 DEF RangeOK, ValuesOf
<1>10. AllFixedWidth => AllFixedWidth'
  BY <1>1 DEF AllFixedWidth, FixedWidth
<1> QED
  BY <1>1, <1>2, <1>3, <1>4, <1>5, <1>6, <1>7, <1>8, <1>9, <1>10

LEMMA Appended ==
    ASSUME NEW S, NEW s \in Seq(S), NEW x \in S
    PROVE  /\ Append(s, x) \in Seq(S)
           /\ Len(s) \in Nat
           /\ Len(Append(s, x)) = Len(s) + 1
           /\ \A i \in 1..Len(s) : Append(s, x)[i] = s[i]
           /\ Append(s, x)[Len(s) + 1] = x
OBVIOUS

LEMMA NextIndex ==
    ASSUME NEW a \in Int, NEW n \in Int, NEW b, NEW m, b = a + 1, m = n
    PROVE  (b - 1) * m = (a - 1) * n + n
OBVIOUS

LEMMA InitEstablishes == Init => IInv
<1> SUFFICES ASSUME Init PROVE IInv
  OBVIOUS
<1>1. RangeOK
  <2>1. plan \in Plans
    BY DEF Init
  <2>2. PICK n \in 1..MaxRows :
          /\ batch \in [1..n -> {v \in [1..Len(plan) -> UNION {ValuesOf(plan[c]) : c \in 1..Len(plan)}] :
                                   \A c \in 1..Len(plan) : v[c] \in ValuesOf(plan[c])}]
          /\ start \in 0..(n - 1) /\ count \in 1..(n - start)
    BY DEF Init
  <2>3. MaxRows \in Nat
    BY RowEncodingAssumption
  <2>4. start \in Nat /\ count \in Nat \ {0}
    BY <2>2, <2>3
  <2>5. ASSUME NEW i \in 1..count, NEW c \in 1..ColumnCount
        PROVE  batch[start + i][c] \in ValuesOf(plan[c])
    <3>1. start + i \in 1..n
      BY <2>2, <2>3
    <3>2. batch[start + i] \in {v \in [1..Len(plan) -> UNION {ValuesOf(plan[e]) : e \in 1..Len(plan)}] :
                                   \A e \in 1..Len(plan) : v[e] \in ValuesOf(plan[e])}
      BY <2>2, <3>1
    <3> QED
      BY <3>2 DEF ColumnCount
  <2> QED
    BY <2>1, <2>4, <2>5 DEF RangeOK
<1>2. StartInv
  BY DEF Init, StartInv
<1>3. TokensInv
  <2>1. count \in Nat
    BY <1>1 DEF RangeOK
  <2>2. tokens = <<>>
    BY DEF Init
  <2>3. tokens \in Seq(Nat) /\ Len(tokens) = 0
    BY <2>2
  <2> QED
    BY <2>1, <2>3 DEF TokensInv
<1>4. pc = "begin"
  BY DEF Init
<1>5. LayoutInv /\ MeasureInv /\ FillInv /\ GeneralInv /\ FixedInv /\ AppendInv /\ DoneInv
  BY <1>4 DEF LayoutInv, MeasureInv, FillInv, GeneralInv, FixedInv, AppendInv, DoneInv
<1> QED
  BY <1>1, <1>2, <1>3, <1>5 DEF IInv

\* A step that leaves the tokens alone keeps their invariant.
LEMMA TokensKept ==
    ASSUME TokensInv, UNCHANGED batchVars, tokens' = tokens
    PROVE  TokensInv'
<1>1. count' = count /\ \A i : RowStart(i)' = RowStart(i)
  BY RangeKept
<1> QED
  BY <1>1 DEF TokensInv

\* A token that is put where the next row starts does, too.
LEMMA TokenAppended ==
    ASSUME TokensInv, RangeOK, UNCHANGED batchVars,
           tokens' = Append(tokens, offset), Len(tokens) + 1 <= count,
           offset = RowStart(Len(tokens) + 1)
    PROVE  TokensInv' /\ Len(tokens') = Len(tokens) + 1 /\ Len(tokens) \in Nat
<1>1. count' = count /\ \A i : RowStart(i)' = RowStart(i)
  BY RangeKept
<1>2. tokens \in Seq(Nat) /\ \A i \in 1..Len(tokens) : tokens[i] = RowStart(i)
  BY DEF TokensInv
<1>3. Len(tokens) \in Nat /\ count \in Nat
  BY <1>2 DEF RangeOK
<1>4. offset \in Nat
  <2>1. Len(tokens) + 1 \in 1..(count + 1)
    BY <1>3
  <2> QED
    BY <2>1, RowStarts
<1>5. /\ tokens' \in Seq(Nat)
      /\ Len(tokens') = Len(tokens) + 1
      /\ \A i \in 1..Len(tokens) : tokens'[i] = tokens[i]
      /\ tokens'[Len(tokens) + 1] = offset
  BY <1>2, <1>4, Appended
<1>6. ASSUME NEW i \in 1..Len(tokens') PROVE tokens'[i] = RowStart(i)'
  <2>1. i \in 1..Len(tokens) \/ i = Len(tokens) + 1
    BY <1>3, <1>5
  <2> QED
    BY <1>1, <1>2, <1>5, <2>1
<1>7. Len(tokens') <= count'
  BY <1>1, <1>3, <1>5
<1> QED
  BY <1>3, <1>5, <1>6, <1>7 DEF TokensInv

-----------------------------------------------------------------------------
(* The table of cell positions *)

LEMMA RowBegun ==
    ASSUME RangeOK, TokensInv, ByRow, row <= count, Len(tokens) < row,
           UNCHANGED <<batchVars, row, col>>,
           tokens' = Append(tokens, offset), offset' = offset + RowTokenLen
    PROVE  /\ TokensInv' /\ ByRow'
           /\ Len(tokens) \in Nat /\ Len(tokens') = Len(tokens) + 1 /\ Len(tokens) = row - 1
           /\ col = 1 /\ offset = RowStart(row) /\ offset \in Nat
<1>1. Len(tokens) \in Nat
  BY DEF TokensInv
<1>2. row \in 1..count /\ count \in Nat
  BY DEF ByRow, RangeOK
<1>3. Len(tokens) = row - 1 /\ col = 1 /\ offset = RowStart(row)
  BY <1>1, <1>2 DEF ByRow
<1>4. Len(tokens) + 1 = row
  BY <1>2, <1>3
<1>5. TokensInv' /\ Len(tokens') = Len(tokens) + 1
  BY <1>2, <1>3, <1>4, TokenAppended
<1>6. RowStart(row) \in Nat /\ CellAt(row, 1) = RowStart(row) + 1
  BY <1>2, CellPlaces
<1>7. /\ row' = row /\ col' = col /\ count' = count /\ ColumnCount' = ColumnCount
      /\ CellAt(row, 1)' = CellAt(row, 1)
  BY RangeKept
<1>8. CellAt(row', col') = CellAt(row, 1)
  BY <1>3, <1>7
<1>9. ByRow'
  <2>1. offset' = CellAt(row, 1)
    BY <1>3, <1>6 DEF RowTokenLen
  <2>2. Len(tokens') = row /\ Len(tokens') # row - 1
    BY <1>2, <1>4, <1>5
  <2>3. CellAt(row, col)' = CellAt(row, 1)
    BY <1>3, <1>7, RangeKept
  <2> QED
    BY <1>7, <2>1, <2>2, <2>3 DEF ByRow
<1> QED
  BY <1>1, <1>3, <1>5, <1>6, <1>9

LEMMA CellPassed ==
    ASSUME RangeOK, TokensInv, ByRow, row <= count, Len(tokens) = row,
           UNCHANGED <<batchVars, tokens>>,
           offset' = offset + LayoutLen(row, col),
           IF col < ColumnCount THEN col' = col + 1 /\ row' = row ELSE col' = 1 /\ row' = row + 1
    PROVE  /\ ByRow'
           /\ row \in 1..count /\ col \in 1..ColumnCount
           /\ offset = CellAt(row, col) /\ offset \in Nat /\ LayoutLen(row, col) \in Nat
<1>1. row \in 1..count /\ col \in 1..ColumnCount /\ offset = CellAt(row, col) /\ count \in Nat /\ ColumnCount \in Nat
  BY PlanFacts DEF ByRow, RangeOK
<1>2. /\ CellAt(row, col) \in Nat /\ CellAt(row, col + 1) = CellAt(row, col) + LayoutLen(row, col)
      /\ CellAt(row, ColumnCount + 1) = RowStart(row + 1)
  BY <1>1, CellPlaces
<1>3. LayoutLen(row, col) \in Nat
  BY <1>1, CellFacts
<1>4. count' = count /\ ColumnCount' = ColumnCount /\ tokens' = tokens
      /\ (\A i : RowStart(i)' = RowStart(i)) /\ (\A i, c : CellAt(i, c)' = CellAt(i, c))
  BY RangeKept
<1>5. offset' = CellAt(row, col + 1)
  BY <1>1, <1>2
<1>6. CASE col < ColumnCount
  <2>1. col' = col + 1 /\ row' = row
    BY <1>6
  <2>2. CellAt(row, col)' = CellAt(row, col + 1)
    BY <1>4, <2>1
  <2>3. ByRow'
    BY <1>1, <1>4, <1>5, <2>1, <2>2 DEF ByRow
  <2> QED
    BY <1>1, <1>2, <1>3, <2>3
<1>7. CASE ~(col < ColumnCount)
  <2>1. col' = 1 /\ row' = row + 1 /\ col = ColumnCount
    BY <1>1, <1>7
  <2>2. RowStart(row)' = RowStart(row + 1)
    BY <1>4, <2>1
  <2>3. offset' = RowStart(row + 1)
    BY <1>2, <1>5, <2>1
  <2>4. Len(tokens') = row' - 1 /\ Len(tokens') # row' /\ row' \in 1..(count' + 1) /\ col' \in 1..ColumnCount'
    BY <1>1, <1>4, <2>1
  <2>5. ByRow'
    BY <2>1, <2>2, <2>3, <2>4 DEF ByRow
  <2> QED
    BY <1>1, <1>2, <1>3, <2>5
<1> QED
  BY <1>6, <1>7

LEMMA ChoosePathKeeps == ASSUME IInv, NEW fixedEnabled \in BOOLEAN, ChoosePath(fixedEnabled) PROVE IInv'
<1>1. RangeOK /\ TokensInv /\ UNCHANGED batchVars /\ tokens' = tokens /\ pc = "begin"
  BY DEF IInv, ChoosePath, layoutVars
<1>2. /\ row = 1 /\ col = 1 /\ offset = 0 /\ tokens = <<>> /\ cells = <<>> /\ cursors = <<>> /\ bytes = <<>>
      /\ row' = 1 /\ col' = 1 /\ offset' = 0 /\ tokens' = <<>> /\ cells' = <<>> /\ cursors' = <<>> /\ bytes' = <<>>
  BY <1>1 DEF IInv, StartInv, ChoosePath, layoutVars
<1>3. RangeOK' /\ TokensInv'
  BY <1>1, RangeKept, TokensKept
<1>4. pc' \in {"append", "measureFixed", "layout"}
  BY DEF ChoosePath
<1>5. pc' = "measureFixed" => AllFixedWidth'
  BY <1>1, RangeKept DEF ChoosePath
<1>6. count \in Nat \ {0} /\ ColumnCount \in Nat \ {0} /\ count' = count /\ ColumnCount' = ColumnCount
      /\ RowStart(1)' = 0 /\ RowsTo' = RowsTo
  <2>1. RowStart(1)' = RowStart(1) /\ RowStart(1) = 0
    BY <1>1, RangeKept, RowStarts
  <2> QED
    BY <1>1, <2>1, RangeKept, PlanFacts DEF RangeOK
<1>7. Len(tokens') = 0 /\ Len(cells') = 0 /\ Len(cursors') = 0 /\ cursors' \in Seq(Nat) /\ cells' \in Seq(PositionType)
  BY <1>2
<1>8. RowStart(row)' = 0
  BY <1>2, <1>6 DEF RowStart
<1>9. ByRow'
  BY <1>2, <1>6, <1>7, <1>8 DEF ByRow
<1>10. LayoutInv'
  <2>1. Len(cells') = (row' - 1) * ColumnCount' + (col' - 1)
    BY <1>2, <1>6, <1>7
  <2>2. \A i \in 1..count' : \A c \in 1..ColumnCount' : ~LaidOut(i, c)'
    BY <1>2, <1>6 DEF LaidOut
  <2> QED
    BY <1>7, <1>9, <2>1, <2>2 DEF LayoutInv
<1>11. MeasureInv'
  BY <1>2, <1>5, <1>6, <1>7, <1>8 DEF MeasureInv
<1>12. AppendInv'
  <2>1. RowsTo[0] = <<>>
    <3>1. 1 \in 1..count
      BY <1>6
    <3> QED
      BY <1>1, <3>1, RowSteps
  <2>2. RowsTo'[row' - 1] = <<>> /\ Len(tokens') # row'
    BY <1>2, <1>6, <1>7, <2>1
  <2> QED
    BY <1>2, <1>9, <2>2 DEF AppendInv
<1> QED
  BY <1>3, <1>4, <1>10, <1>11, <1>12 DEF IInv, StartInv, FillInv, GeneralInv, FixedInv, DoneInv

LEMMA LayoutRowKeeps == ASSUME IInv, LayoutRow PROVE IInv'
<1>1. /\ RangeOK /\ TokensInv /\ pc = "layout" /\ pc' = "layout" /\ ByRow /\ row <= count /\ Len(tokens) < row
      /\ UNCHANGED <<batchVars, row, col, cells>>
      /\ tokens' = Append(tokens, offset) /\ offset' = offset + RowTokenLen
  BY DEF IInv, LayoutInv, LayoutRow
<1>2. /\ TokensInv' /\ ByRow' /\ Len(tokens) \in Nat /\ Len(tokens') = Len(tokens) + 1 /\ offset \in Nat
  BY <1>1, RowBegun
<1>3. RangeOK' /\ ColumnCount' = ColumnCount /\ count' = count
      /\ (\A i, c : CellIndex(i, c)' = CellIndex(i, c)) /\ (\A i, c : Position(i, c)' = Position(i, c))
  BY <1>1, RangeKept
<1>4. LayoutInv'
  <2>1. \A k \in 1..Len(cells) : cells[k].row <= Len(tokens') /\ cells[k].offset + cells[k].len <= offset'
    <3> TAKE k \in 1..Len(cells)
    <3>1. cells[k] \in PositionType /\ cells[k].row <= Len(tokens) /\ cells[k].offset + cells[k].len <= offset
      BY <1>1 DEF IInv, LayoutInv
    <3>2. cells[k].row \in Nat /\ cells[k].offset \in Nat /\ cells[k].len \in Nat
      BY <3>1 DEF PositionType
    <3> QED
      BY <1>1, <1>2, <3>1, <3>2 DEF RowTokenLen
  <2>2. \A i \in 1..count : \A c \in 1..ColumnCount :
           LaidOut(i, c) => CellIndex(i, c) \in 1..Len(cells) /\ PositionOf(i, c)
    BY <1>1 DEF IInv, LayoutInv
  <2>3. \A i, c : (LaidOut(i, c)' <=> LaidOut(i, c)) /\ (PositionOf(i, c)' <=> PositionOf(i, c))
    BY <1>1, <1>3 DEF LaidOut, PositionOf
  <2>4. /\ cells' \in Seq(PositionType) /\ Len(cells') = (row' - 1) * ColumnCount' + (col' - 1)
        /\ cells' = cells
    BY <1>1, <1>3 DEF IInv, LayoutInv
  <2> QED
    BY <1>2, <1>3, <2>1, <2>2, <2>3, <2>4 DEF LayoutInv
<1> QED
  BY <1>1, <1>2, <1>3, <1>4 DEF IInv, StartInv, MeasureInv, FillInv, GeneralInv, FixedInv, AppendInv, DoneInv

LEMMA LayoutCellKeeps == ASSUME IInv, LayoutCell PROVE IInv'
<1>1. /\ RangeOK /\ TokensInv /\ pc = "layout" /\ pc' = "layout" /\ ByRow /\ row <= count /\ Len(tokens) = row
      /\ UNCHANGED <<batchVars, tokens>>
      /\ offset' = offset + LayoutLen(row, col)
      /\ cells' = Append(cells, [row |-> row, col |-> col, offset |-> offset, len |-> LayoutLen(row, col)])
      /\ IF col < ColumnCount THEN col' = col + 1 /\ row' = row ELSE col' = 1 /\ row' = row + 1
  BY DEF IInv, LayoutInv, LayoutCell, LayoutRowOf
<1>2. /\ ByRow' /\ row \in 1..count /\ col \in 1..ColumnCount
      /\ offset = CellAt(row, col) /\ offset \in Nat /\ LayoutLen(row, col) \in Nat
  BY <1>1, CellPassed
<1>3. RangeOK' /\ TokensInv' /\ ColumnCount' = ColumnCount /\ count' = count
      /\ (\A i, c : CellIndex(i, c)' = CellIndex(i, c)) /\ (\A i, c : Position(i, c)' = Position(i, c))
  BY <1>1, RangeKept, TokensKept
<1>4. count \in Nat /\ ColumnCount \in Nat \ {0}
  BY <1>1, PlanFacts DEF RangeOK
<1> DEFINE x == Position(row, col)
<1>5. x \in PositionType /\ cells' = Append(cells, x)
  BY <1>1, <1>2, <1>4 DEF Position, PositionType
<1>6. cells \in Seq(PositionType) /\ Len(cells) = (row - 1) * ColumnCount + (col - 1)
  BY <1>1 DEF IInv, LayoutInv
<1>7. /\ cells' \in Seq(PositionType) /\ Len(cells) \in Nat /\ Len(cells') = Len(cells) + 1
      /\ (\A k \in 1..Len(cells) : cells'[k] = cells[k])
      /\ cells'[Len(cells) + 1] = x
  <2> HIDE DEF x
  <2>1. cells \in Seq(PositionType)
    BY <1>6
  <2> QED
    BY <1>5, <2>1, Appended
<1>8. CellIndex(row, col) = Len(cells) + 1
  <2> DEFINE m == (row - 1) * ColumnCount
  <2>1. m \in Int
    BY <1>2, <1>4
  <2>2. CellIndex(row, col) = m + col /\ Len(cells) = m + (col - 1)
    BY <1>6 DEF CellIndex
  <2> HIDE DEF m
  <2> QED
    BY <1>2, <2>1, <2>2
<1>9. Len(cells') = (row' - 1) * ColumnCount' + (col' - 1)
  <2> DEFINE m == (row - 1) * ColumnCount
  <2>1. m \in Int /\ Len(cells) = m + (col - 1)
    BY <1>2, <1>4, <1>6
  <2>2. CASE col < ColumnCount
    <3>1. row' = row /\ col' = col + 1
      BY <1>1, <2>2
    <3>2. (row' - 1) * ColumnCount' = m
      BY <1>3, <3>1
    <3> HIDE DEF m
    <3> QED
      BY <1>2, <1>7, <2>1, <3>1, <3>2
  <2>3. CASE ~(col < ColumnCount)
    <3>1. row' = row + 1 /\ col' = 1 /\ col = ColumnCount
      BY <1>1, <1>2, <1>4, <2>3
    <3>3. (row' - 1) * ColumnCount' = m + ColumnCount
      <4>1. row \in Int /\ ColumnCount \in Int
        BY <1>2, <1>4
      <4> QED
        BY <1>3, <3>1, <4>1, NextIndex
    <3> HIDE DEF m
    <3> QED
      BY <1>2, <1>4, <1>7, <2>1, <3>1, <3>3
  <2> QED
    BY <2>2, <2>3
<1>10. ASSUME NEW i \in 1..count, NEW c \in 1..ColumnCount, LaidOut(i, c)'
       PROVE  CellIndex(i, c)' \in 1..Len(cells') /\ PositionOf(i, c)'
  <2>1. LaidOut(i, c) \/ (i = row /\ c = col)
    BY <1>1, <1>2, <1>4, <1>10 DEF LaidOut
  <2>2. CASE LaidOut(i, c)
    <3>1. CellIndex(i, c) \in 1..Len(cells) /\ cells[CellIndex(i, c)] = Position(i, c)
      BY <1>1, <2>2 DEF IInv, LayoutInv, PositionOf
    <3>2. cells'[CellIndex(i, c)] = cells[CellIndex(i, c)] /\ CellIndex(i, c) \in 1..Len(cells')
      BY <1>7, <3>1
    <3> QED
      BY <1>3, <3>1, <3>2 DEF PositionOf
  <2>3. CASE i = row /\ c = col
    <3>1. CellIndex(i, c) = Len(cells) + 1 /\ CellIndex(i, c) \in 1..Len(cells')
      BY <1>7, <1>8, <2>3
    <3>2. cells'[CellIndex(i, c)] = Position(i, c)
      BY <1>7, <2>3, <3>1
    <3> QED
      BY <1>3, <3>1, <3>2 DEF PositionOf
  <2> QED
    BY <2>1, <2>2, <2>3
<1>11. ASSUME NEW k \in 1..Len(cells')
       PROVE  cells'[k].row <= Len(tokens') /\ cells'[k].offset + cells'[k].len <= offset'
  <2>1. CASE k \in 1..Len(cells)
    <3>1. cells[k] \in PositionType /\ cells[k].row <= Len(tokens) /\ cells[k].offset + cells[k].len <= offset
      BY <1>1, <1>6, <2>1 DEF IInv, LayoutInv
    <3>2. cells[k].row \in Nat /\ cells[k].offset \in Nat /\ cells[k].len \in Nat
      BY <3>1 DEF PositionType
    <3>3. cells'[k] = cells[k] /\ tokens' = tokens
      BY <1>1, <1>7, <2>1
    <3>4. offset' = offset + LayoutLen(row, col) /\ offset \in Nat /\ LayoutLen(row, col) \in Nat
      BY <1>1, <1>2
    <3> QED
      BY ONLY <3>1, <3>2, <3>3, <3>4
  <2>2. CASE k \notin 1..Len(cells)
    <3>1. cells'[k] = x
      BY <1>7, <2>2
    <3>2. x.row = row /\ x.offset = offset /\ x.len = LayoutLen(row, col)
      BY <1>2 DEF Position
    <3> QED
      BY <1>1, <1>2, <3>1, <3>2
  <2> QED
    BY <2>1, <2>2
<1>12. LayoutInv'
  BY <1>2, <1>3, <1>7, <1>9, <1>10, <1>11 DEF LayoutInv
<1> QED
  BY <1>1, <1>3, <1>12 DEF IInv, StartInv, MeasureInv, FillInv, GeneralInv, FixedInv, AppendInv, DoneInv

-----------------------------------------------------------------------------
(* The allocated payload *)

\* Summing the lengths of its cells gives the length of a row.
LEMMA RowLengths ==
    ASSUME RangeOK, NEW i \in 1..count, NEW lens,
           lens = [c \in 1..ColumnCount |-> LayoutLen(i, c)]
    PROVE  RowStart(i) + RowBytes(lens) = RowStart(i + 1)
<1> DEFINE R == RowTo(start + i)
           g == CellsOf(i)
<1>1. /\ g \in [1..ColumnCount -> Seq(Byte)]
      /\ R \in [0..ColumnCount -> Seq(Byte)]
      /\ Joins(R, ColumnCount, <<Token>>, g)
  BY RowToJoins
<1>2. ColumnCount \in Nat /\ <<Token>> \in Seq(Byte) 
  BY TokenIsByte, PlanFacts DEF RangeOK
<1>3. lens = [c \in 1..ColumnCount |-> Len(g[c])]
  <2>1. \A c \in 1..ColumnCount : Len(g[c]) = LayoutLen(i, c)
    BY CellFacts DEF CellsOf
  <2> HIDE DEF g
  <2> QED
    BY <2>1
<1>4. RowBytes(lens) = Len(R[ColumnCount])
  <2> HIDE DEF R, g
  <2> QED
    BY <1>1, <1>2, <1>3, SumOfLengths
<1>5. RowStart(i + 1) = RowStart(i) + Len(R[ColumnCount])
  BY CellPlaces
<1> QED
  BY <1>4, <1>5

LEMMA LaidOutRowLength ==
    ASSUME RangeOK, NEW i \in 1..count, \A c \in 1..ColumnCount : PositionOf(i, c)
    PROVE  RowStart(i) + RowLen(i) = RowStart(i + 1)
<1> DEFINE lens == [c \in 1..ColumnCount |-> cells[(i - 1) * ColumnCount + c].len]
<1>1. ASSUME NEW c \in 1..ColumnCount
      PROVE  cells[(i - 1) * ColumnCount + c].len = LayoutLen(i, c)
  <2>1. cells[(i - 1) * ColumnCount + c] = Position(i, c)
    BY Zenon DEF PositionOf, CellIndex
  <2> QED
    BY <2>1 DEF Position
<1>2. lens = [c \in 1..ColumnCount |-> LayoutLen(i, c)]
  BY <1>1
<1>3. RowLen(i) = RowBytes(lens)
  BY DEF RowLen
<1> HIDE DEF lens
<1> QED
  BY <1>2, <1>3, RowLengths

LEMMA FixedRowLength ==
    ASSUME RangeOK, NEW i \in 1..count, AllFixedWidth
    PROVE  RowStart(i) + FixedRowLen(i) = RowStart(i + 1)
<1> DEFINE lens == [c \in 1..ColumnCount |-> FixedCellLen(plan[c], batch[RangeRow(i)][c])]
<1>1. \A c \in 1..ColumnCount : FixedCellLen(plan[c], batch[RangeRow(i)][c]) = LayoutLen(i, c)
  BY CellFacts DEF AllFixedWidth, RangeRow
<1>2. lens = [c \in 1..ColumnCount |-> LayoutLen(i, c)]
  BY <1>1
<1>3. FixedRowLen(i) = RowBytes(lens)
  BY DEF FixedRowLen
<1> HIDE DEF lens
<1> QED
  BY <1>2, <1>3, RowLengths

\* What is unset after the allocation lies in the cells.
LEMMA AllocatedRows ==
    ASSUME RangeOK, TokensInv, Len(tokens) = count, offset = RowStart(count + 1)
    PROVE  /\ Allocated \in Seq(Byte)
           /\ Len(Allocated) = Len(Payload)
           /\ \A p \in 1..Len(Payload) :
                 \/ Allocated[p] = Payload[p]
                 \/ \E i \in 1..count : \E c \in 1..ColumnCount : p - CellAt(i, c) \in 1..LayoutLen(i, c)
<1>1. offset = Len(Payload) /\ offset \in Nat /\ count \in Nat
  BY RowStarts DEF RangeOK
<1>2. \A i \in 1..count : tokens[i] = RowStart(i) /\ RowStart(i) \in Nat
  BY CellPlaces DEF TokensInv
<1>3. Unset \in Byte /\ Token \in Byte
  BY DEF Unset, Token, Byte, Names
<1>4. Allocated \in Seq(Byte) /\ Len(Allocated) = offset
  <2>1. Allocated \in [1..offset -> Byte]
    BY <1>3 DEF Allocated
  <2> QED
    BY <1>1, <2>1
<1>5. ASSUME NEW p \in 1..Len(Payload)
      PROVE  \/ Allocated[p] = Payload[p]
             \/ \E i \in 1..count : \E c \in 1..ColumnCount : p - CellAt(i, c) \in 1..LayoutLen(i, c)
  <2>1. CASE \E i \in 1..count : p = RowStart(i) + 1
    <3>1. PICK i \in 1..count : p = RowStart(i) + 1
      BY <2>1
    <3>2. Payload[p] = Token
      BY <3>1, TokenPlaces
    <3>3. tokens[i] = p - 1 /\ i \in 1..Len(tokens)
      BY <1>2, <3>1
    <3>4. Allocated[p] = Token
      BY <1>1, <3>3 DEF Allocated
    <3> QED
      BY <3>2, <3>4
  <2>2. CASE \E i \in 1..count : \E c \in 1..ColumnCount : p - CellAt(i, c) \in 1..LayoutLen(i, c)
    BY <2>2
  <2> QED
    BY <2>1, <2>2, PayloadCovered
<1> QED
  BY <1>1, <1>4, <1>5

LEMMA AllocationStartsFill ==
    ASSUME RangeOK, TokensInv, Len(tokens) = count, offset = RowStart(count + 1),
           UNCHANGED <<batchVars, tokens>>, bytes' = Allocated, row' = 1, col' = 1
    PROVE  FillInv'
<1>1. /\ Allocated \in Seq(Byte)
      /\ Len(Allocated) = Len(Payload)
      /\ \A p \in 1..Len(Payload) :
            \/ Allocated[p] = Payload[p]
            \/ \E i \in 1..count : \E c \in 1..ColumnCount : p - CellAt(i, c) \in 1..LayoutLen(i, c)
  BY AllocatedRows
<1>2. /\ count' = count /\ ColumnCount' = ColumnCount /\ Payload' = Payload
      /\ (\A i, c : CellAt(i, c)' = CellAt(i, c)) /\ (\A i, c : LayoutLen(i, c)' = LayoutLen(i, c))
  BY RangeKept
<1>3. count \in Nat \ {0} /\ ColumnCount \in Nat \ {0}
  BY PlanFacts DEF RangeOK
<1>4. \A i \in 1..count : \A c \in 1..ColumnCount : ~Filled(i, c)'
  BY <1>3 DEF Filled
<1>5. ASSUME NEW p \in 1..Len(bytes') PROVE bytes'[p] = Payload'[p] \/ Pending(p)'
  <2>1. p \in 1..Len(Payload)
    BY <1>1
  <2>2. CASE Allocated[p] = Payload[p]
    BY <1>2, <2>2
  <2>3. CASE \E i \in 1..count : \E c \in 1..ColumnCount : p - CellAt(i, c) \in 1..LayoutLen(i, c)
    <3>1. Pending(p)'
      BY <1>2, <1>4, <2>3 DEF Pending
    <3> QED
      BY <3>1
  <2> QED
    BY <1>1, <2>1, <2>2, <2>3
<1>6. row' \in 1..count' /\ col' \in 1..(ColumnCount' + 1) /\ ~(col' > ColumnCount')
  BY <1>2, <1>3
<1>7. bytes' \in Seq(Byte) /\ Len(bytes') = Len(Payload') /\ Len(tokens') = count'
  BY <1>1, <1>2
<1> QED
  BY <1>5, <1>6, <1>7 DEF FillInv

LEMMA FinishLayoutKeeps == ASSUME IInv, NEW fixedEnabled \in BOOLEAN, FinishLayout(fixedEnabled) PROVE IInv'
<1>1. /\ RangeOK /\ TokensInv /\ pc = "layout" /\ ByRow /\ row > count
      /\ UNCHANGED <<batchVars, tokens, offset, cells>> /\ row' = 1 /\ col' = 1
  BY DEF IInv, LayoutInv, FinishLayout, layoutVars
<1>2. count \in Nat \ {0} /\ ColumnCount \in Nat \ {0} /\ Len(tokens) \in Nat /\ Len(tokens) <= count
  BY <1>1, PlanFacts DEF RangeOK, TokensInv
<1>3. row = count + 1 /\ Len(tokens) = count /\ offset = RowStart(count + 1)
  BY <1>1, <1>2 DEF ByRow
<1>4. \A i \in 1..count : \A c \in 1..ColumnCount : CellIndex(i, c) \in 1..Len(cells) /\ PositionOf(i, c)
  <2>1. \A i \in 1..count : \A c \in 1..ColumnCount : LaidOut(i, c)
    BY <1>2, <1>3 DEF LaidOut
  <2> QED
    BY <1>1, <2>1 DEF IInv, LayoutInv
<1>5. \A i \in 1..count : tokens[i] = RowStart(i)
  BY <1>1, <1>3 DEF TokensInv
<1>6. LayoutValid
  <2>1. tokens[1] = 0
    BY <1>1, <1>2, <1>5, RowStarts
  <2>2. ASSUME NEW i \in 1..Len(tokens)
        PROVE  tokens[i] + RowLen(i) = IF i < Len(tokens) THEN tokens[i + 1] ELSE offset
    <3>1. i \in 1..count /\ \A c \in 1..ColumnCount : PositionOf(i, c)
      BY <1>3, <1>4
    <3>2. RowStart(i) + RowLen(i) = RowStart(i + 1)
      BY <1>1, <3>1, LaidOutRowLength
    <3>3. CASE i < count
      <4>1. i + 1 \in 1..count
        BY <1>2, <3>1, <3>3
      <4>2. tokens[i + 1] = RowStart(i + 1)
        BY <1>5, <4>1
      <4> QED
        BY <1>3, <1>5, <3>1, <3>2, <3>3, <4>2
    <3>4. CASE ~(i < count)
      <4>1. i = count
        BY <1>2, <3>1, <3>4
      <4> QED
        BY <1>3, <1>5, <3>1, <3>2, <4>1
    <3> QED
      BY <3>3, <3>4
  <2>3. \A k \in 1..Len(cells) : cells[k].row <= Len(tokens) /\ cells[k].offset + cells[k].len <= offset
    BY <1>1 DEF IInv, LayoutInv
  <2> QED
    BY <2>1, <2>2, <2>3 DEF LayoutValid
<1>7. /\ bytes' = Allocated
      /\ \/ /\ pc' = "fillFixed" /\ AllFixedWidth
            /\ cursors' = [i \in 1..count |-> cells[(i - 1) * ColumnCount + 1].offset]
         \/ pc' = "fillGeneral"
  BY <1>6 DEF FinishLayout
<1>8. FillInv'
  BY <1>1, <1>3, <1>7, AllocationStartsFill
<1>9. /\ RangeOK' /\ TokensInv' /\ count' = count /\ ColumnCount' = ColumnCount
      /\ (\A i, c : CellIndex(i, c)' = CellIndex(i, c)) /\ (\A i, c : Position(i, c)' = Position(i, c))
      /\ (\A i, c : CellAt(i, c)' = CellAt(i, c)) /\ (AllFixedWidth => AllFixedWidth')
  BY <1>1, RangeKept, TokensKept
<1>10. GeneralInv'
  <2>1. \A i \in 1..count : \A c \in 1..ColumnCount : PositionOf(i, c)'
    BY <1>1, <1>4, <1>9 DEF PositionOf
  <2> QED
    BY <1>9, <2>1 DEF GeneralInv
<1>11. FixedInv'
  <2> SUFFICES ASSUME pc' = "fillFixed"
               PROVE  /\ AllFixedWidth' /\ cursors' \in [1..count' -> Nat]
                      /\ \A i \in 1..count' : cursors'[i] = CellAt(i, IF i < row THEN col + 1 ELSE col)'
    BY DEF FixedInv
  <2>1. AllFixedWidth /\ cursors' = [i \in 1..count |-> cells[(i - 1) * ColumnCount + 1].offset]
    BY <1>7
  <2>2. ASSUME NEW i \in 1..count
        PROVE  cells[(i - 1) * ColumnCount + 1].offset = CellAt(i, 1) /\ CellAt(i, 1) \in Nat
    <3>1. 1 \in 1..ColumnCount
      BY <1>2
    <3>2. PositionOf(i, 1) /\ CellAt(i, 1) \in Nat
      BY <1>1, <1>4, <3>1, CellPlaces
    <3> QED
      BY <3>2 DEF PositionOf, CellIndex, Position
  <2>3. ASSUME NEW i \in 1..count
        PROVE  CellAt(i, IF i < row THEN col + 1 ELSE col)' = CellAt(i, 1)
    <3>1. ~(i < row')
      BY <1>1
    <3>2. CellAt(i, IF i < row THEN col + 1 ELSE col)' = CellAt(i, IF i < row' THEN col' + 1 ELSE col')
      BY <1>9
    <3> QED
      BY <1>1, <3>1, <3>2
  <2> QED
    BY <1>9, <2>1, <2>2, <2>3
<1> QED
  BY <1>7, <1>8, <1>9, <1>10, <1>11 DEF IInv, StartInv, LayoutInv, MeasureInv, AppendInv, DoneInv

LEMMA MeasureFixedRowKeeps == ASSUME IInv, MeasureFixedRow PROVE IInv'
<1>1. /\ RangeOK /\ TokensInv /\ pc = "measureFixed" /\ pc' = "measureFixed" /\ row <= count
      /\ AllFixedWidth /\ row \in 1..(count + 1)
      /\ Len(tokens) = row - 1 /\ Len(cursors) = row - 1
      /\ offset = RowStart(row)
      /\ UNCHANGED batchVars
      /\ tokens' = Append(tokens, offset) /\ cursors' = Append(cursors, offset + RowTokenLen)
      /\ offset' = offset + FixedRowLen(row) /\ row' = row + 1
  BY DEF IInv, MeasureInv, MeasureFixedRow
<1>2. cursors \in Seq(Nat) /\ \A i \in 1..Len(cursors) : cursors[i] = CellAt(i, 1)
  BY <1>1 DEF IInv, MeasureInv
<1>3. count \in Nat \ {0} /\ row \in 1..count /\ Len(tokens) + 1 = row
  BY <1>1 DEF RangeOK
<1>4. TokensInv' /\ Len(tokens') = Len(tokens) + 1
  <2>1. Len(tokens) + 1 <= count /\ offset = RowStart(Len(tokens) + 1)
    BY <1>1, <1>3
  <2> QED
    BY <1>1, <2>1, TokenAppended
<1>5. /\ RangeOK' /\ count' = count /\ AllFixedWidth'
      /\ (\A i : RowStart(i)' = RowStart(i)) /\ (\A i, c : CellAt(i, c)' = CellAt(i, c))
  BY <1>1, RangeKept
<1>6. offset' = RowStart(row + 1)
  BY <1>1, <1>3, FixedRowLength
<1>7. offset + RowTokenLen = CellAt(row, 1) /\ CellAt(row, 1) \in Nat
  BY <1>1, <1>3, CellPlaces DEF RowTokenLen
<1>8. /\ cursors' \in Seq(Nat) /\ Len(cursors') = Len(cursors) + 1
      /\ (\A i \in 1..Len(cursors) : cursors'[i] = cursors[i])
      /\ cursors'[Len(cursors) + 1] = CellAt(row, 1)
  <2>1. offset + RowTokenLen \in Nat
    BY <1>7
  <2>2. cursors \in Seq(Nat)
    BY <1>2
  <2> QED
    BY <1>1, <1>7, <2>1, <2>2, Appended
<1>9. ASSUME NEW i \in 1..Len(cursors') PROVE cursors'[i] = CellAt(i, 1)'
  <2>1. i \in 1..Len(cursors) \/ i = row
    BY <1>1, <1>3, <1>8
  <2>2. Len(cursors) + 1 = row
    BY <1>1, <1>3
  <2> QED
    BY <1>2, <1>5, <1>8, <2>1, <2>2
<1>10. MeasureInv'
  <2>1. RowStart(row)' = RowStart(row + 1)
    BY <1>1, <1>5
  <2>2. row' \in 1..(count' + 1) /\ Len(tokens') = row' - 1 /\ Len(cursors') = row' - 1
    BY <1>1, <1>3, <1>4, <1>5, <1>8
  <2> QED
    BY <1>5, <1>6, <1>8, <1>9, <2>1, <2>2 DEF MeasureInv
<1> QED
  BY <1>1, <1>4, <1>5, <1>10 DEF IInv, StartInv, LayoutInv, FillInv, GeneralInv, FixedInv, AppendInv, DoneInv

LEMMA AllocateFixedKeeps == ASSUME IInv, AllocateFixed PROVE IInv'
<1>1. /\ RangeOK /\ TokensInv /\ pc = "measureFixed" /\ pc' = "fillFixed" /\ row > count
      /\ AllFixedWidth /\ row \in 1..(count + 1)
      /\ Len(tokens) = row - 1 /\ Len(cursors) = row - 1
      /\ offset = RowStart(row)
      /\ UNCHANGED <<batchVars, tokens, cursors>>
      /\ bytes' = Allocated /\ row' = 1 /\ col' = 1
  BY DEF IInv, MeasureInv, AllocateFixed, layoutVars
<1>2. count \in Nat \ {0} /\ row = count + 1
  BY <1>1 DEF RangeOK
<1>3. Len(tokens) = count /\ Len(cursors) = count /\ offset = RowStart(count + 1)
  BY <1>1, <1>2
<1>4. FillInv'
  BY <1>1, <1>3, AllocationStartsFill
<1>5. /\ RangeOK' /\ TokensInv' /\ count' = count /\ AllFixedWidth'
      /\ (\A i, c : CellAt(i, c)' = CellAt(i, c))
  BY <1>1, RangeKept, TokensKept
<1>6. cursors \in Seq(Nat) /\ \A i \in 1..Len(cursors) : cursors[i] = CellAt(i, 1)
  BY <1>1 DEF IInv, MeasureInv
<1>7. cursors' \in [1..count' -> Nat]
  BY <1>1, <1>3, <1>5, <1>6
<1>8. ASSUME NEW i \in 1..count
      PROVE  cursors'[i] = CellAt(i, IF i < row THEN col + 1 ELSE col)'
  <2>1. ~(i < row')
    BY <1>1
  <2>2. CellAt(i, IF i < row THEN col + 1 ELSE col)' = CellAt(i, IF i < row' THEN col' + 1 ELSE col')
    BY <1>5
  <2> QED
    BY <1>1, <1>3, <1>6, <2>1, <2>2
<1>9. FixedInv'
  BY <1>5, <1>7, <1>8 DEF FixedInv
<1> QED
  BY <1>1, <1>4, <1>5, <1>9 DEF IInv, StartInv, LayoutInv, MeasureInv, GeneralInv, AppendInv, DoneInv

-----------------------------------------------------------------------------
(* The cells are written *)

\* Writing a cell at its place leaves only the other unfilled cells pending.
LEMMA CellWritten ==
    ASSUME RangeOK, FillInv, pc \in {"fillGeneral", "fillFixed"}, col <= ColumnCount,
           UNCHANGED <<batchVars, tokens>>,
           bytes' = Overwrite(bytes, CellAt(row, col), WireCell(start + row, col)),
           NextCellByColumn
    PROVE  FillInv'
<1>1. /\ row \in 1..count /\ col \in 1..(ColumnCount + 1) /\ Len(tokens) = count
      /\ bytes \in Seq(Byte) /\ Len(bytes) = Len(Payload)
      /\ \A p \in 1..Len(bytes) : bytes[p] = Payload[p] \/ Pending(p)
  BY DEF FillInv
<1>2. count \in Nat \ {0} /\ ColumnCount \in Nat \ {0} /\ col \in 1..ColumnCount
  BY <1>1, PlanFacts DEF RangeOK
<1>3. /\ count' = count /\ ColumnCount' = ColumnCount /\ Payload' = Payload
      /\ (\A i, c : CellAt(i, c)' = CellAt(i, c)) /\ (\A i, c : LayoutLen(i, c)' = LayoutLen(i, c))
  BY RangeKept
<1> DEFINE at == CellAt(row, col)
           b == WireCell(start + row, col)
           n == LayoutLen(row, col)
<1>4. at \in Nat /\ n \in Nat /\ b \in Seq(Byte) /\ n = Len(b)
  BY <1>1, <1>2, CellPlaces, CellFacts
<1>5. \A k \in 1..n : Payload[at + k] = b[k]
  BY <1>1, <1>2, CellBytePlaces
<1>6. /\ row' \in 1..count /\ col' \in 1..(ColumnCount + 1) /\ (col' > ColumnCount => row' = 1)
      /\ \A i \in 1..count : \A c \in 1..ColumnCount :
            Filled(i, c)' => Filled(i, c) \/ (i = row /\ c = col)
  BY <1>1, <1>2 DEF NextCellByColumn, Filled
<1>7. /\ bytes' = [i \in 1..Len(bytes) |-> IF at < i /\ i <= at + n THEN b[i - at] ELSE bytes[i]]
  BY <1>4 DEF Overwrite
<1> HIDE DEF at, b, n
<1>8. Len(bytes) \in Nat /\ \A p \in 1..Len(bytes) : bytes[p] \in Byte
  BY <1>1
<1>9. \A p \in 1..Len(bytes) : (at < p /\ p <= at + n) => p - at \in 1..Len(b) /\ b[p - at] \in Byte
  <2> TAKE p \in 1..Len(bytes)
  <2> SUFFICES ASSUME at < p /\ p <= at + n PROVE p - at \in 1..Len(b) /\ b[p - at] \in Byte
    OBVIOUS
  <2>1. p - at \in 1..n
    BY <1>4, <1>8
  <2>2. \A k \in 1..Len(b) : b[k] \in Byte
    <3>1. b \in Seq(Byte)
      BY <1>4
    <3> QED
      BY <3>1
  <2> QED
    BY <1>4, <2>1, <2>2
<1>10. bytes' \in Seq(Byte) /\ Len(bytes') = Len(bytes)
  <2>1. bytes' \in [1..Len(bytes) -> Byte]
    BY <1>7, <1>8, <1>9
  <2> QED
    BY <1>8, <2>1
<1>11. ASSUME NEW p \in 1..Len(bytes') PROVE bytes'[p] = Payload'[p] \/ Pending(p)'
  <2>1. p \in 1..Len(bytes) /\ p \in Int
    BY <1>10
  <2>2. CASE at < p /\ p <= at + n
    <3>1. bytes'[p] = b[p - at]
      BY <1>7, <2>1, <2>2
    <3>2. p - at \in 1..n /\ at + (p - at) = p
      BY <1>4, <2>1, <2>2
    <3>3. Payload[at + (p - at)] = b[p - at]
      BY <1>5, <3>2
    <3> QED
      BY <1>3, <3>1, <3>2, <3>3
  <2>3. CASE ~(at < p /\ p <= at + n)
    <3>1. bytes'[p] = bytes[p]
      BY <1>7, <2>1, <2>3
    <3>2. CASE bytes[p] = Payload[p]
      BY <1>3, <3>1, <3>2
    <3>3. CASE Pending(p)
      <4>1. PICK i \in 1..count, c \in 1..ColumnCount :
              ~Filled(i, c) /\ p - CellAt(i, c) \in 1..LayoutLen(i, c)
        BY <3>3 DEF Pending
      <4>2. ~(i = row /\ c = col)
        <5> SUFFICES ASSUME i = row /\ c = col PROVE FALSE
          OBVIOUS
        <5>1. p - at \in 1..n
          BY <4>1 DEF at, n
        <5> QED
          BY <1>4, <2>1, <2>3, <5>1
      <4>3. ~Filled(i, c)'
        BY <1>6, <4>1, <4>2
      <4>4. Pending(p)'
        BY <1>3, <4>1, <4>3 DEF Pending
      <4> QED
        BY <4>4
    <3> QED
      BY <1>1, <2>1, <3>2, <3>3
  <2> QED
    BY <2>2, <2>3
<1>12. /\ row' \in 1..count' /\ col' \in 1..(ColumnCount' + 1) /\ (col' > ColumnCount' => row' = 1)
       /\ Len(tokens') = count' /\ Len(bytes') = Len(Payload')
  BY <1>1, <1>3, <1>6, <1>10
<1> QED
  BY <1>10, <1>11, <1>12 DEF FillInv

LEMMA FillCellKeeps == ASSUME IInv, FillCell PROVE IInv'
<1>1. /\ RangeOK /\ TokensInv /\ FillInv /\ pc = "fillGeneral" /\ col <= ColumnCount
      /\ UNCHANGED <<batchVars, tokens, cells>>
  BY DEF IInv, FillCell, layoutVars
<1>2. row \in 1..count /\ col \in 1..ColumnCount
  BY <1>1, PlanFacts DEF FillInv, RangeOK
<1> DEFINE cell == cells[(row - 1) * ColumnCount + col]
           b == CellBytes(RangeRow(row), col, cell.len)
<1>3. cell = Position(row, col)
  <2>1. PositionOf(row, col)
    BY <1>1, <1>2 DEF IInv, GeneralInv
  <2> QED
    BY <2>1, Zenon DEF PositionOf, CellIndex
<1>4. cell.row = row /\ cell.col = col /\ cell.offset = CellAt(row, col) /\ cell.len = LayoutLen(row, col)
  <2> HIDE DEF cell
  <2> QED
    BY <1>3 DEF Position
<1>5. b = WireCell(start + row, col) /\ Len(b) = cell.len
  <2> HIDE DEF cell
  <2> QED
    BY <1>1, <1>2, <1>4, CellFacts DEF RangeRow
<1>6. ~(cell.row # row \/ cell.col # col \/ Refused(RangeRow(row), col, b, cell.len))
  <2> HIDE DEF cell, b
  <2> QED
    BY <1>4, <1>5 DEF Refused
<1>7. bytes' = Overwrite(bytes, cell.offset, b) /\ NextCellByColumn /\ pc' = pc
  BY <1>6 DEF FillCell
<1>8. FillInv'
  <2> HIDE DEF cell, b
  <2> QED
    BY <1>1, <1>4, <1>5, <1>7, CellWritten
<1>9. /\ RangeOK' /\ TokensInv' /\ count' = count /\ ColumnCount' = ColumnCount
      /\ (\A i, c : CellIndex(i, c)' = CellIndex(i, c)) /\ (\A i, c : Position(i, c)' = Position(i, c))
  BY <1>1, RangeKept, TokensKept
<1>10. GeneralInv'
  <2>1. \A i \in 1..count : \A c \in 1..ColumnCount : PositionOf(i, c)
    BY <1>1 DEF IInv, GeneralInv
  <2>2. \A i \in 1..count : \A c \in 1..ColumnCount : PositionOf(i, c)'
    BY <1>1, <1>9, <2>1 DEF PositionOf
  <2> QED
    BY <1>9, <2>2 DEF GeneralInv
<1> HIDE DEF cell, b
<1> QED
  BY <1>1, <1>7, <1>8, <1>9, <1>10 DEF IInv, StartInv, LayoutInv, MeasureInv, FixedInv, AppendInv, DoneInv

LEMMA FillFixedCellKeeps == ASSUME IInv, FillFixedCell PROVE IInv'
<1>1. /\ RangeOK /\ TokensInv /\ FillInv /\ pc = "fillFixed" /\ col <= ColumnCount
      /\ UNCHANGED <<batchVars, tokens>>
  BY DEF IInv, FillFixedCell, layoutVars
<1>2. row \in 1..count /\ col \in 1..ColumnCount /\ count \in Nat /\ ColumnCount \in Nat \ {0}
  BY <1>1, PlanFacts DEF FillInv, RangeOK
<1>3. /\ AllFixedWidth /\ cursors \in [1..count -> Nat]
      /\ \A i \in 1..count : cursors[i] = CellAt(i, IF i < row THEN col + 1 ELSE col)
  BY <1>1 DEF IInv, FixedInv
<1> DEFINE b == CellBytes(RangeRow(row), col, 0)
           at == cursors[row]
<1>4. at = CellAt(row, col)
  BY <1>2, <1>3
<1>5. /\ b = WireCell(start + row, col) /\ Len(b) = LayoutLen(row, col)
      /\ Advance(plan[col], batch[RangeRow(row)][col]) = LayoutLen(row, col)
  BY <1>1, <1>2, <1>3, CellFacts DEF AllFixedWidth, RangeRow
<1>6. ~(at + Len(b) > Len(bytes))
  <2>1. at + Len(b) <= Len(Payload)
    BY <1>1, <1>2, <1>4, <1>5, CellBytePlaces
  <2>2. Len(bytes) = Len(Payload)
    BY <1>1 DEF FillInv
  <2>3. at \in Nat /\ Len(b) \in Nat /\ Len(Payload) \in Nat
    BY <1>1, <1>2, <1>4, <1>5, CellPlaces, CellFacts, RowStarts
  <2> HIDE DEF at, b
  <2> QED
    BY <2>1, <2>2, <2>3
<1>7. /\ bytes' = Overwrite(bytes, at, b) /\ NextCellByColumn /\ pc' = pc
      /\ cursors' = [cursors EXCEPT ![row] = at + LayoutLen(row, col)]
  BY <1>5, <1>6 DEF FillFixedCell
<1>8. FillInv'
  <2> HIDE DEF at, b
  <2> QED
    BY <1>1, <1>4, <1>5, <1>7, CellWritten
<1>9. /\ RangeOK' /\ TokensInv' /\ count' = count /\ AllFixedWidth'
      /\ (\A i, c : CellAt(i, c)' = CellAt(i, c))
  BY <1>1, <1>3, RangeKept, TokensKept
<1>10. at + LayoutLen(row, col) = CellAt(row, col + 1) /\ at + LayoutLen(row, col) \in Nat
  <2>1. CellAt(row, col) \in Nat /\ CellAt(row, col + 1) = CellAt(row, col) + LayoutLen(row, col)
    BY <1>1, <1>2, CellPlaces
  <2>2. LayoutLen(row, col) \in Nat
    BY <1>1, <1>2, CellFacts
  <2> QED
    BY <1>4, <2>1, <2>2
<1> HIDE DEF at, b
<1>11. /\ cursors' \in [1..count' -> Nat]
       /\ \A i \in 1..count : cursors'[i] = IF i = row THEN CellAt(row, col + 1) ELSE cursors[i]
  BY <1>2, <1>3, <1>7, <1>9, <1>10
<1>12. ASSUME NEW i \in 1..count
       PROVE  cursors'[i] = CellAt(i, IF i < row' THEN col' + 1 ELSE col')
  <2>1. CASE row < count
    <3>1. row' = row + 1 /\ col' = col
      BY <1>7, <2>1 DEF NextCellByColumn
    <3>2. (i < row' <=> (i < row \/ i = row))
      BY <1>2, <3>1
    <3>3. CASE i = row
      BY <1>11, <3>1, <3>2, <3>3
    <3>4. CASE i # row
      BY <1>3, <1>11, <3>1, <3>2, <3>4
    <3> QED
      BY <3>3, <3>4
  <2>2. CASE ~(row < count)
    <3>1. row' = 1 /\ col' = col + 1 /\ row = count
      BY <1>2, <1>7, <2>2 DEF NextCellByColumn
    <3>2. ~(i < row') /\ (i < row \/ i = row)
      BY <1>2, <3>1
    <3>3. CASE i = row
      BY <1>11, <3>1, <3>2, <3>3
    <3>4. CASE i # row
      BY <1>3, <1>11, <3>1, <3>2, <3>4
    <3> QED
      BY <3>3, <3>4
  <2> QED
    BY <2>1, <2>2
<1>13. FixedInv'
  <2>1. ASSUME NEW i \in 1..count
        PROVE  cursors'[i] = CellAt(i, IF i < row THEN col + 1 ELSE col)'
    <3>1. CellAt(i, IF i < row THEN col + 1 ELSE col)' = CellAt(i, IF i < row' THEN col' + 1 ELSE col')
      BY <1>9
    <3> QED
      BY <1>12, <3>1
  <2> QED
    BY <1>9, <1>11, <2>1 DEF FixedInv
<1> QED
  BY <1>1, <1>7, <1>8, <1>9, <1>13 DEF IInv, StartInv, LayoutInv, MeasureInv, GeneralInv, AppendInv, DoneInv

\* When no cell is left, the payload is complete and passes its own check.
LEMMA SealPayloadKeeps == ASSUME IInv, SealPayload PROVE IInv'
<1>1. /\ RangeOK /\ TokensInv /\ FillInv /\ pc \in {"fillGeneral", "fillFixed"} /\ col > ColumnCount
      /\ UNCHANGED <<batchVars, tokens, bytes>>
  BY DEF IInv, SealPayload, layoutVars
<1>2. count \in Nat \ {0} /\ ColumnCount \in Nat \ {0}
  BY <1>1, PlanFacts DEF RangeOK
<1>3. /\ col = ColumnCount + 1 /\ Len(tokens) = count
      /\ bytes \in Seq(Byte) /\ Len(bytes) = Len(Payload) /\ Payload \in Seq(Byte)
      /\ \A p \in 1..Len(bytes) : bytes[p] = Payload[p] \/ Pending(p)
  BY <1>1, <1>2, RowStarts DEF FillInv
<1>4. \A p : ~Pending(p)
  BY <1>2, <1>3 DEF Pending, Filled
<1>5. bytes = Payload
  <2>1. \A p \in 1..Len(bytes) : bytes[p] = Payload[p]
    BY <1>3, <1>4
  <2>2. DOMAIN bytes = 1..Len(bytes) /\ DOMAIN Payload = 1..Len(Payload)
    BY <1>3
  <2>3. bytes = [p \in 1..Len(bytes) |-> bytes[p]] /\ Payload = [p \in 1..Len(Payload) |-> Payload[p]]
    BY <1>3
  <2>4. [p \in 1..Len(bytes) |-> bytes[p]] = [p \in 1..Len(Payload) |-> Payload[p]]
    BY <1>3, <2>1
  <2> QED
    BY <2>3, <2>4
<1>6. PayloadValid
  <2>1. \A i \in 1..count : tokens[i] = RowStart(i)
    BY <1>1, <1>3 DEF TokensInv
  <2>2. ASSUME NEW i \in 1..Len(tokens)
        PROVE  tokens[i] < Len(bytes) /\ bytes[tokens[i] + 1] = Token
    BY <1>1, <1>3, <1>5, <2>1, TokenPlaces
  <2>3. ASSUME NEW i \in 2..Len(tokens) PROVE tokens[i - 1] < tokens[i]
    <3>1. i \in 1..count /\ i - 1 \in 1..count /\ i - 1 \in 1..(count + 1) /\ i \in 1..(count + 1) /\ i - 1 < i
      BY <1>2, <1>3
    <3>2. RowStart(i - 1) < RowStart(i)
      BY <1>1, <3>1, RowStarts
    <3> QED
      BY <2>1, <3>1, <3>2
  <2> QED
    BY <2>2, <2>3 DEF PayloadValid
<1>7. pc' = "done"
  BY <1>6 DEF SealPayload
<1>8. RangeOK' /\ TokensInv' /\ count' = count /\ Payload' = Payload
  BY <1>1, RangeKept, TokensKept
<1>9. DoneInv'
  BY <1>1, <1>3, <1>5, <1>8 DEF DoneInv
<1> QED
  BY <1>7, <1>8, <1>9 DEF IInv, StartInv, LayoutInv, MeasureInv, FillInv, GeneralInv, FixedInv, AppendInv

-----------------------------------------------------------------------------
(* The rows are appended *)

LEMMA AppendTokenKeeps == ASSUME IInv, AppendToken PROVE IInv'
<1>1. /\ RangeOK /\ TokensInv /\ pc = "append" /\ pc' = "append" /\ ByRow /\ row <= count /\ Len(tokens) < row
      /\ UNCHANGED <<batchVars, row, col>>
      /\ tokens' = Append(tokens, offset) /\ offset' = offset + RowTokenLen
      /\ bytes' = Append(bytes, Token)
      /\ bytes = IF Len(tokens) = row THEN RowsTo[row - 1] \o RowTo(start + row)[col - 1]
                                      ELSE RowsTo[row - 1]
  BY DEF IInv, AppendInv, AppendToken
<1>2. /\ TokensInv' /\ ByRow' /\ Len(tokens) \in Nat /\ Len(tokens') = Len(tokens) + 1 /\ Len(tokens) = row - 1
      /\ col = 1
  BY <1>1, RowBegun
<1>3. /\ RangeOK' /\ RowsTo' = RowsTo /\ start' = start /\ (\A r : RowTo(r)' = RowTo(r))
  BY <1>1, RangeKept
<1>4. row \in 1..count
  BY <1>1 DEF ByRow, RangeOK
<1>5. RowTo(start + row)[0] = <<Token>> /\ RowsTo[row - 1] \in Seq(Byte)
  BY <1>1, <1>4, RowSteps
<1>6. bytes = RowsTo[row - 1]
  BY <1>1, <1>2
<1>7. bytes' = RowsTo[row - 1] \o <<Token>>
  <2>1. \A s \in Seq(Byte) : Append(s, Token) = s \o <<Token>>
    BY TokenIsByte
  <2> QED
    BY <1>1, <1>5, <1>6, <2>1
<1>8. Len(tokens') = row
  BY <1>2, <1>4
<1>9. bytes' = RowsTo[row - 1] \o RowTo(start + row)[col - 1]
  <2>1. col - 1 = 0
    BY <1>2
  <2>2. RowTo(start + row)[col - 1] = <<Token>>
    BY <1>5, <2>1
  <2> QED
    BY <1>7, <2>2, Zenon
<1>10. RowTo(start + row)' = RowTo(start + row)
  <2>1. RowTo(start + row)' = RowTo(start' + row')
    BY <1>3
  <2> QED
    BY <1>1, <1>3, <2>1
<1>11. AppendInv'
  BY <1>1, <1>2, <1>3, <1>8, <1>9, <1>10 DEF AppendInv
<1> QED
  BY <1>1, <1>2, <1>3, <1>11 DEF IInv, StartInv, LayoutInv, MeasureInv, FillInv, GeneralInv, FixedInv, DoneInv

LEMMA Associated ==
    ASSUME NEW S, NEW a \in Seq(S), NEW b \in Seq(S), NEW c \in Seq(S)
    PROVE  (a \o b) \o c = a \o (b \o c)
OBVIOUS

LEMMA AppendCellKeeps == ASSUME IInv, AppendCell PROVE IInv'
<1>1. /\ RangeOK /\ TokensInv /\ pc = "append" /\ ByRow /\ row <= count /\ Len(tokens) = row
      /\ UNCHANGED <<batchVars, tokens>>
      /\ bytes = RowsTo[row - 1] \o RowTo(start + row)[col - 1]
  BY DEF IInv, AppendInv, AppendCell
<1>2. row \in 1..count /\ col \in 1..ColumnCount /\ count \in Nat /\ ColumnCount \in Nat \ {0}
  BY <1>1, PlanFacts DEF ByRow, RangeOK
<1> DEFINE len == LayoutLen(row, col)
           b == CellBytes(RangeRow(row), col, len)
           W == WireCell(start + row, col)
           R == RowTo(start + row)
<1>3. b = W /\ Len(b) = len /\ W \in Seq(Byte)
  BY <1>1, <1>2, CellFacts DEF RangeRow
<1>4. ~Refused(RangeRow(row), col, b, len)
  BY <1>3 DEF Refused
<1>5. /\ bytes' = bytes \o b /\ offset' = offset + len /\ pc' = pc
      /\ IF col < ColumnCount THEN col' = col + 1 /\ row' = row ELSE col' = 1 /\ row' = row + 1
  BY <1>4 DEF AppendCell
<1>6. ByRow'
  BY <1>1, <1>5, CellPassed
<1>7. /\ RangeOK' /\ TokensInv' /\ RowsTo' = RowsTo /\ start' = start /\ (\A r : RowTo(r)' = RowTo(r))
      /\ ColumnCount' = ColumnCount
  BY <1>1, RangeKept, TokensKept
<1>8. /\ R[col - 1] \in Seq(Byte) /\ R[col] = R[col - 1] \o W
      /\ RowsTo[row - 1] \in Seq(Byte)
      /\ RowsTo[row] = RowsTo[row - 1] \o R[ColumnCount]
  BY <1>1, <1>2, RowSteps
<1>9. bytes' = RowsTo[row - 1] \o R[col]
  <2> HIDE DEF R, W, b
  <2>1. (RowsTo[row - 1] \o R[col - 1]) \o W = RowsTo[row - 1] \o (R[col - 1] \o W)
    <3> DEFINE x == RowsTo[row - 1]
               y == R[col - 1]
    <3>1. x \in Seq(Byte) /\ y \in Seq(Byte) /\ W \in Seq(Byte)
      BY <1>3, <1>8
    <3> HIDE DEF x, y
    <3>2. (x \o y) \o W = x \o (y \o W)
      BY <3>1, Associated
    <3> QED
      BY <3>2 DEF x, y
  <2>2. bytes' = (RowsTo[row - 1] \o R[col - 1]) \o W
    BY <1>1, <1>3, <1>5 DEF R
  <2> QED
    BY <1>8, <2>1, <2>2
<1>10. AppendInv'
  <2>1. CASE col < ColumnCount
    <3>1. col' = col + 1 /\ row' = row /\ Len(tokens') = row' /\ col' - 1 = col
      BY <1>1, <1>2, <1>5, <2>1
    <3>2. RowTo(start + row)' = R
      <4>1. RowTo(start + row)' = RowTo(start' + row')
        BY <1>7
      <4> QED
        BY <1>7, <3>1, <4>1
    <3>3. (RowsTo[row - 1] \o RowTo(start + row)[col - 1])' = RowsTo[row - 1] \o R[col]
      BY <1>7, <3>1, <3>2
    <3> QED
      BY <1>6, <1>9, <3>1, <3>3 DEF AppendInv
  <2>2. CASE ~(col < ColumnCount)
    <3>1. col' = 1 /\ row' = row + 1 /\ Len(tokens') # row' /\ row' - 1 = row /\ col = ColumnCount
      BY <1>1, <1>2, <1>5, <2>2
    <3>2. bytes' = RowsTo[row]
      BY <1>8, <1>9, <3>1
    <3>3. bytes' = RowsTo'[row' - 1]
      BY <1>7, <3>1, <3>2
    <3> QED
      BY <1>6, <3>1, <3>3 DEF AppendInv
  <2> QED
    BY <2>1, <2>2
<1> QED
  BY <1>1, <1>5, <1>7, <1>10 DEF IInv, StartInv, LayoutInv, MeasureInv, FillInv, GeneralInv, FixedInv, DoneInv

LEMMA FinishAppendKeeps == ASSUME IInv, FinishAppend PROVE IInv'
<1>1. /\ RangeOK /\ TokensInv /\ pc = "append" /\ pc' = "done" /\ ByRow /\ row > count
      /\ UNCHANGED <<batchVars, tokens, bytes>>
      /\ bytes = IF Len(tokens) = row THEN RowsTo[row - 1] \o RowTo(start + row)[col - 1]
                                      ELSE RowsTo[row - 1]
  BY DEF IInv, AppendInv, FinishAppend, layoutVars
<1>2. count \in Nat /\ row = count + 1 /\ Len(tokens) <= count /\ Len(tokens) \in Nat
  BY <1>1 DEF ByRow, RangeOK, TokensInv
<1>3. Len(tokens) = count /\ bytes = RowsTo[count]
  <2>1. row - 1 = count /\ Len(tokens) = count /\ Len(tokens) # row
    BY <1>1, <1>2 DEF ByRow
  <2> QED
    BY <1>1, <2>1
<1>4. RangeOK' /\ TokensInv' /\ count' = count /\ Payload' = Payload
  BY <1>1, RangeKept, TokensKept
<1>5. DoneInv'
  BY <1>1, <1>3, <1>4 DEF DoneInv, Payload
<1> QED
  BY <1>1, <1>4, <1>5 DEF IInv, StartInv, LayoutInv, MeasureInv, FillInv, GeneralInv, FixedInv, AppendInv

LEMMA StutterKeeps == ASSUME IInv, UNCHANGED vars PROVE IInv'
<1>1. /\ UNCHANGED <<batchVars, tokens>>
      /\ pc' = pc /\ row' = row /\ col' = col /\ offset' = offset /\ cells' = cells
      /\ cursors' = cursors /\ bytes' = bytes
  BY DEF vars, layoutVars
<1>2. /\ RangeOK' /\ TokensInv' /\ count' = count /\ start' = start /\ ColumnCount' = ColumnCount
      /\ Payload' = Payload /\ RowsTo' = RowsTo
      /\ (\A r : RowTo(r)' = RowTo(r)) /\ (\A i : RowStart(i)' = RowStart(i))
      /\ (\A i, c : CellAt(i, c)' = CellAt(i, c)) /\ (\A i, c : LayoutLen(i, c)' = LayoutLen(i, c))
      /\ (\A i, c : CellIndex(i, c)' = CellIndex(i, c)) /\ (\A i, c : Position(i, c)' = Position(i, c))
      /\ (AllFixedWidth => AllFixedWidth')
  BY <1>1, RangeKept, TokensKept DEF IInv
<1>3. /\ RowStart(row)' = RowStart(row) /\ CellAt(row, col)' = CellAt(row, col)
      /\ RowTo(start + row)' = RowTo(start + row)
  <2>1. RowTo(start + row)' = RowTo(start' + row')
    BY <1>2
  <2>2. RowStart(row)' = RowStart(row')
    BY <1>2
  <2>3. CellAt(row, col)' = CellAt(row', col')
    BY <1>2
  <2> QED
    BY <1>1, <1>2, <2>1, <2>2, <2>3
<1>4. ByRow => ByRow'
  BY <1>1, <1>2, <1>3 DEF ByRow
<1>5. \A i, c : (LaidOut(i, c)' <=> LaidOut(i, c)) /\ (PositionOf(i, c)' <=> PositionOf(i, c))
  BY <1>1, <1>2 DEF LaidOut, PositionOf
<1>6. StartInv'
  BY <1>1 DEF IInv, StartInv
<1>7. LayoutInv'
  BY <1>1, <1>2, <1>4, <1>5 DEF IInv, LayoutInv
<1>8. MeasureInv'
  BY <1>1, <1>2, <1>3 DEF IInv, MeasureInv
<1>9. FillInv'
  <2>1. \A p : Pending(p) => Pending(p)'
    BY <1>1, <1>2 DEF Pending, Filled
  <2> QED
    BY <1>1, <1>2, <2>1 DEF IInv, FillInv
<1>10. GeneralInv'
  BY <1>1, <1>2, <1>5 DEF IInv, GeneralInv
<1>11. FixedInv'
  <2>1. \A i : CellAt(i, IF i < row THEN col + 1 ELSE col)' = CellAt(i, IF i < row THEN col + 1 ELSE col)
    <3> TAKE i
    <3>1. CellAt(i, IF i < row THEN col + 1 ELSE col)' = CellAt(i, IF i < row' THEN col' + 1 ELSE col')
      BY <1>2
    <3> QED
      BY <1>1, <3>1
  <2> QED
    BY <1>1, <1>2, <2>1 DEF IInv, FixedInv
<1>12. AppendInv'
  BY <1>1, <1>2, <1>3, <1>4 DEF IInv, AppendInv
<1>13. DoneInv'
  BY <1>1, <1>2 DEF IInv, DoneInv
<1> QED
  BY <1>2, <1>6, <1>7, <1>8, <1>9, <1>10, <1>11, <1>12, <1>13 DEF IInv

-----------------------------------------------------------------------------
(* The theorems *)

LEMMA StepsKeep == ASSUME IInv, [Next]_vars PROVE IInv'
<1>1. ASSUME NEW fixedEnabled \in BOOLEAN, ChoosePath(fixedEnabled) \/ FinishLayout(fixedEnabled)
      PROVE  IInv'
  BY <1>1, ChoosePathKeeps, FinishLayoutKeeps
<1>2. CASE LayoutRow \/ LayoutCell \/ MeasureFixedRow \/ AllocateFixed
  BY <1>2, LayoutRowKeeps, LayoutCellKeeps, MeasureFixedRowKeeps, AllocateFixedKeeps
<1>3. CASE FillCell \/ FillFixedCell \/ SealPayload
  BY <1>3, FillCellKeeps, FillFixedCellKeeps, SealPayloadKeeps
<1>4. CASE AppendToken \/ AppendCell \/ FinishAppend
  BY <1>4, AppendTokenKeeps, AppendCellKeeps, FinishAppendKeeps
<1>5. CASE Encoded \/ UNCHANGED vars
  BY <1>5, StutterKeeps DEF Encoded
<1> QED
  BY <1>1, <1>2, <1>3, <1>4, <1>5 DEF Next

\* The paths of the encoder keep the positions they have handed out, the bytes
\* they have written and the tokens they have recorded in step.
THEOREM Invariance == Spec => []IInv
<1>1. Init => IInv
  BY InitEstablishes
<1>2. IInv /\ [Next]_vars => IInv'
  BY StepsKeep
<1> QED
  BY <1>1, <1>2, PTL DEF Spec

\* Whatever the plan, the batch and the path - the table of positions, the
\* cursors or the appending writer - a finished payload is the rows of the
\* range, each cell as the receiver parses it.
THEOREM PayloadsAreRows == Spec => []PayloadIsRows
<1>1. IInv => PayloadIsRows
  BY DEF IInv, DoneInv, PayloadIsRows, Payload
<1> QED
  BY <1>1, Invariance, PTL

\* The token offsets that go with it are where its rows begin.
THEOREM TokensStartRows == Spec => []TokensAreRowStarts
<1>1. IInv => TokensAreRowStarts
  BY DEF IInv, DoneInv, TokensInv, TokensAreRowStarts, RowStart
<1> QED
  BY <1>1, Invariance, PTL

\* No measured range is refused: the layout check, the comparison of each cell
\* with its measured length, the bounds of the cursors and the check of the
\* finished payload all succeed.
THEOREM MeasuredRangesEncode == Spec => []MeasuredRangeEncodes
<1>1. IInv => MeasuredRangeEncodes
  BY DEF IInv, StartInv, MeasuredRangeEncodes
<1> QED
  BY <1>1, Invariance, PTL

=============================================================================
