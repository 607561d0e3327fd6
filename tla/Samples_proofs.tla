--------------------------- MODULE Samples_proofs ---------------------------
(***************************************************************************)
(* Theorems about what the samples do with an advertisement: its fields    *)
(* (AdFields) for any payloads, cut anywhere, and any sizes of the arrays; *)
(* and the table of the scanner (BleScanner), for any devices and sizes.   *)
(*                                                                         *)
(* For the fields the invariant says how far bt_data_parse has come, what  *)
(* the loop of log_ad_field_cb has put into its array so far, and that no  *)
(* field before the one that comes next was a name.                        *)
(***************************************************************************)
EXTENDS AdFields, BleScanner, SequenceTheorems, WellFoundedInduction, TLAPS

(* The order of the natural numbers, for proofs by a least counterexample. *)
Less == {p \in Nat \X Nat : p[1] < p[2]}

LEMMA LessWF == IsWellFoundedOn(Less, Nat)
<1>1. Less = OpToRel(<, Nat)
  BY DEF OpToRel, Less
<1> QED
  BY <1>1, NatLessThanWellFounded

(* A set of them that is not empty has a least element. *)
LEMMA LeastIn ==
  ASSUME NEW S \in SUBSET Nat, S # {}
  PROVE  \E m \in S : \A k \in S : m <= k
<1>1. PICK m \in S : \A k \in S : <<k, m>> \notin Less
  BY WFMin, LessWF, Zenon
<1>2. ASSUME NEW k \in S PROVE m <= k
  <2>1. k \in Nat /\ m \in Nat /\ <<k, m>> \notin Less
    BY <1>1
  <2> QED
    BY <2>1 DEF Less
<1> QED
  BY <1>2

(* What holds of 0, and of each number up to n if of the one before, holds *)
(* of them all: S is where it does.                                        *)
LEMMA UpTo ==
  ASSUME NEW n \in Nat, NEW S, 0 \in S,
         \A k \in 1 .. n : k - 1 \in S => k \in S
  PROVE  \A k \in 0 .. n : k \in S
<1> DEFINE Bad == {k \in 0 .. n : k \notin S}
<1> SUFFICES ASSUME Bad # {} PROVE FALSE
  OBVIOUS
<1>1. PICK k \in Bad : \A j \in Bad : k <= j
  <2>1. Bad \in SUBSET Nat
    OBVIOUS
  <2> HIDE DEF Bad
  <2> QED
    BY <2>1, LeastIn
<1>2. k \in 0 .. n /\ k \notin S
  OBVIOUS
<1>3. k \in 1 .. n
  BY <1>2
<1>4. k - 1 \in 0 .. n /\ ~(k <= k - 1)
  BY <1>3
<1>5. k - 1 \in S
  BY <1>1, <1>4
<1> QED
  BY <1>2, <1>3, <1>5

-----------------------------------------------------------------------------
(* The sums of the lengths exist, ... *)
Sums(f, k, g) ==
  /\ g \in [0 .. k -> Nat]
  /\ g[0] = 0
  /\ \A j \in 1 .. k : g[j] = g[j - 1] + 2 + f[j].data_len

LEMMA SumsStep ==
  ASSUME NEW f, NEW k \in Nat \ {0}, f[k].data_len \in Nat, NEW g, Sums(f, k - 1, g)
  PROVE  \E h : Sums(f, k, h)
<1> DEFINE h == [j \in 0 .. k |-> IF j = k THEN g[k - 1] + 2 + f[k].data_len ELSE g[j]]
<1>1. /\ g \in [0 .. k - 1 -> Nat] /\ g[0] = 0
      /\ \A j \in 1 .. k - 1 : g[j] = g[j - 1] + 2 + f[j].data_len
  BY DEF Sums
<1>2. h[0] = g[0] /\ \A j \in 0 .. k - 1 : h[j] = g[j]
  OBVIOUS
<1>3. h[k] = g[k - 1] + 2 + f[k].data_len /\ g[k - 1] \in Nat
  BY <1>1
<1>4. h \in [0 .. k -> Nat]
  BY <1>1, <1>3
<1> HIDE DEF h
<1>5. ASSUME NEW j \in 1 .. k PROVE h[j] = h[j - 1] + 2 + f[j].data_len
  <2>1. h[j - 1] = g[j - 1]
    BY <1>2
  <2>2. CASE j = k
    BY <1>3, <2>1, <2>2
  <2>3. CASE j # k
    <3>1. j \in 1 .. k - 1 /\ j \in 0 .. k - 1
      BY <2>3
    <3>2. h[j] = g[j] /\ g[j] = g[j - 1] + 2 + f[j].data_len
      BY <1>1, <1>2, <3>1
    <3> QED
      BY <2>1, <3>2
  <2> QED
    BY <2>2, <2>3
<1>6. Sums(f, k, h)
  BY <1>1, <1>2, <1>4, <1>5 DEF Sums
<1> QED
  BY <1>6

LEMMA SumsExist ==
  ASSUME NEW n \in Nat, NEW f, \A k \in 1 .. n : f[k].data_len \in Nat
  PROVE  \E g : Sums(f, n, g)
<1> DEFINE S == {k \in 0 .. n : \E g : Sums(f, k, g)}
<1>1. 0 \in S
  <2>1. Sums(f, 0, [j \in 0 .. 0 |-> 0])
    BY DEF Sums
  <2>2. \E g : Sums(f, 0, g)
    BY <2>1
  <2> QED
    BY <2>2
<1>2. ASSUME NEW k \in 1 .. n, k - 1 \in S PROVE k \in S
  <2>1. PICK g : Sums(f, k - 1, g)
    BY <1>2
  <2>2. k \in Nat \ {0} /\ f[k].data_len \in Nat
    OBVIOUS
  <2>3. \E h : Sums(f, k, h)
    BY <2>1, <2>2, SumsStep
  <2> QED
    BY <2>3
<1>3. n \in S
  <2> HIDE DEF S
  <2>1. \A k \in 0 .. n : k \in S
    BY <1>1, <1>2, UpTo
  <2>2. n \in 0 .. n
    OBVIOUS
  <2> QED
    BY <2>1, <2>2
<1> QED
  BY <1>3

LEMMA BytesOfIs ==
  ASSUME NEW f \in Seq(Fields)
  PROVE  /\ BytesOf(f)[0] = 0
         /\ \A k \in 0 .. Len(f) : BytesOf(f)[k] \in Nat
         /\ \A k \in 1 .. Len(f) :
              /\ f[k].data_len \in Nat
              /\ BytesOf(f)[k] = BytesOf(f)[k - 1] + 2 + f[k].data_len
<1> DEFINE n == Len(f)
<1>1. n \in Nat /\ \A k \in 1 .. n : f[k].data_len \in Nat
  <2>1. \A k \in 1 .. n : f[k] \in Fields
    OBVIOUS
  <2> QED
    BY <2>1 DEF Fields
<1>5. PICK g : Sums(f, n, g)
  BY <1>1, SumsExist
<1> DEFINE F(h) == [k \in 0 .. n |-> IF k = 0 THEN 0 ELSE h[k - 1] + 2 + f[k].data_len]
<1>6. g = F(g)
  <2>1. \A k \in 0 .. n : g[k] = F(g)[k]
    BY <1>1, <1>5 DEF Sums
  <2>2. DOMAIN g = 0 .. n
    BY <1>5 DEF Sums
  <2> QED
    BY <1>5, <2>1 DEF Sums
<1>7. BytesOf(f) = F(BytesOf(f))
  <2>1. BytesOf(f) = CHOOSE h : h = F(h)
    BY DEF BytesOf
  <2> QED
    BY <1>6, <2>1
<1> DEFINE B == BytesOf(f)
<1> HIDE DEF B
<1>8. B[0] = 0 /\ \A k \in 1 .. n : B[k] = B[k - 1] + 2 + f[k].data_len
  <2>1. B = [k \in 0 .. n |-> IF k = 0 THEN 0 ELSE B[k - 1] + 2 + f[k].data_len]
    BY <1>7 DEF B
  <2>2. \A k \in 0 .. n : B[k] = IF k = 0 THEN 0 ELSE B[k - 1] + 2 + f[k].data_len
    BY <2>1
  <2> HIDE DEF F
  <2> QED
    BY <1>1, <2>2
<1>9. \A k \in 0 .. n : B[k] \in Nat
  <2> DEFINE T == {k \in 0 .. n : B[k] \in Nat}
  <2>1. 0 \in T
    BY <1>1, <1>8
  <2>2. ASSUME NEW k \in 1 .. n, k - 1 \in T PROVE k \in T
    <3>1. B[k] = B[k - 1] + 2 + f[k].data_len /\ f[k].data_len \in Nat /\ B[k - 1] \in Nat
      BY <1>1, <1>8, <2>2
    <3>2. k \in 0 .. n /\ B[k] \in Nat
      BY <1>1, <3>1
    <3> QED
      BY <3>2
  <2> HIDE DEF T
  <2>3. \A k \in 0 .. n : k \in T
    BY <1>1, <2>1, <2>2, UpTo
  <2> QED
    BY <2>3 DEF T
<1> QED
  BY <1>1, <1>8, <1>9 DEF B

(* ... and grow. *)
LEMMA BytesOfGrow ==
  ASSUME NEW f \in Seq(Fields), NEW m \in 0 .. Len(f), NEW k \in 0 .. Len(f), m <= k
  PROVE  BytesOf(f)[m] <= BytesOf(f)[k]
<1> DEFINE n == Len(f)
           B == BytesOf(f)
           S == {j \in 0 .. n : m <= j => B[m] <= B[j]}
<1>1. n \in Nat
  OBVIOUS
<1>2. \A j \in 0 .. n : B[j] \in Nat
  BY BytesOfIs
<1>3. \A j \in 1 .. n : f[j].data_len \in Nat /\ B[j] = B[j - 1] + 2 + f[j].data_len
  BY BytesOfIs
<1> HIDE DEF B
<1>4. 0 \in S
  BY <1>1, <1>2
<1>5. ASSUME NEW j \in 1 .. n, j - 1 \in S PROVE j \in S
  <2>1. j \in 0 .. n /\ j - 1 \in 0 .. n /\ B[j] \in Nat /\ B[j - 1] \in Nat /\ B[m] \in Nat
    BY <1>1, <1>2
  <2>2. B[j - 1] <= B[j]
    <3>1. f[j].data_len \in Nat /\ B[j] = B[j - 1] + 2 + f[j].data_len
      BY <1>3
    <3> QED
      BY <2>1, <3>1
  <2>3. CASE m = j
    BY <2>1, <2>3
  <2>4. CASE m # j
    BY <1>5, <2>1, <2>2, <2>4
  <2> QED
    BY <2>3, <2>4
<1> HIDE DEF S
<1>6. k \in S
  BY <1>1, <1>4, <1>5, UpTo
<1> QED
  BY <1>6 DEF S, B

-----------------------------------------------------------------------------
(* How far bt_data_parse has come: what is left is what is behind the      *)
(* fields before the next one.                                             *)
Parsed ==
  /\ ad \in Payloads
  /\ callback \in {"parse_name_cb", "log_ad_field_cb"}
  /\ pc \in {"parse", "byte", "dots", "print", "end"}
  /\ at \in 1 .. Len(ad.fields) + 1
  /\ left \in Nat
  /\ left = ad.total - BytesOf(ad.fields)[at - 1]

(* The callback has a field in hand: it is there as a whole, and as much of*)
(* it is printed as may be.                                                *)
Logging == {"byte", "dots", "print"}

FieldInHand ==
  pc \in Logging =>
    /\ callback = "log_ad_field_cb"
    /\ IsWhole
    /\ len = BytesPrinted(Field.data_len)

(* Character k of the hex text. *)
TextChar(k) == IF k % 3 = 0 THEN Space ELSE <<k \div 3 + 1, k % 3>>

(* The first n characters of the array are those of the hex text. *)
TextUpTo(n) == \A k \in 1 .. n : hex[k - 1] = TextChar(k)

HexSoFar ==
  /\ hex = [k \in 0 .. HexSize - 1 |-> hex[k]]
  /\ len \in Nat /\ i \in Nat /\ pos \in Nat
  /\ pc = "byte" => i < len /\ pos = 3 * i /\ TextUpTo(pos)
  /\ pc = "dots" =>
       IF len = 0 THEN pos = 0
       ELSE pos = 3 * len - 1 /\ TextUpTo(pos) /\ hex[pos] = Nul
  /\ pc = "print" /\ len > 0 =>
       LET n == 3 * len - 1
       IN  /\ TextUpTo(n)
           /\ IF Field.data_len > MaxBytes
                THEN /\ hex[n] = Space
                     /\ hex[n + 1] = Dot /\ hex[n + 2] = Dot /\ hex[n + 3] = Dot
                     /\ hex[n + 4] = Nul
                ELSE hex[n] = Nul

(* The fields before n are not names. *)
NoNameBefore(n) == \A k \in 1 .. n - 1 : ad.fields[k].type = "other"

NameSoFar ==
  callback = "parse_name_cb" =>
    \/ name = NoName /\ NoNameBefore(at) /\ (pc = "end" => ~IsWhole)
    \/ /\ pc = "end"
       /\ at - 1 \in WholeFields /\ ad.fields[at - 1].type # "other"
       /\ name = [field |-> at - 1, len |-> NameLen(ad.fields[at - 1].data_len)]
       /\ NoNameBefore(at - 1)

AInv == Parsed /\ FieldInHand /\ HexSoFar /\ NameSoFar

-----------------------------------------------------------------------------
LEMMA PayloadFacts ==
  ASSUME NEW a \in Payloads
  PROVE  /\ a.fields \in Seq(Fields) /\ Len(a.fields) \in Nat /\ a.total \in Nat
         /\ \A k \in 1 .. Len(a.fields) :
              /\ a.fields[k] \in Fields
              /\ a.fields[k].data_len \in Nat
              /\ a.fields[k].type \in FieldTypes
<1>1. a \in [fields : Seq(Fields), total : Nat]
  BY AdAssumption
<1>2. a.fields \in Seq(Fields) /\ Len(a.fields) \in Nat /\ a.total \in Nat
  BY <1>1
<1>3. \A k \in 1 .. Len(a.fields) : a.fields[k] \in Fields
  BY <1>2
<1> QED
  BY <1>2, <1>3 DEF Fields

(* bt_data_parse goes on exactly while the next field is there as a whole. *)
LEMMA WholeIs ==
  ASSUME Parsed
  PROVE  /\ IsWhole <=> at \in WholeFields
         /\ IsWhole => /\ Field \in Fields /\ Field.data_len \in Nat
                       /\ Field.type \in FieldTypes
                       /\ at \in 1 .. Len(ad.fields)
                       /\ left - 2 - Field.data_len \in Nat
                       /\ left - 2 - Field.data_len = ad.total - BytesOf(ad.fields)[at]
<1> DEFINE f == ad.fields
           B == BytesOf(f)
<1>1. /\ f \in Seq(Fields) /\ Len(f) \in Nat /\ ad.total \in Nat
      /\ \A k \in 1 .. Len(f) :
           f[k] \in Fields /\ f[k].data_len \in Nat /\ f[k].type \in FieldTypes
  BY PayloadFacts DEF Parsed
<1>2. /\ \A k \in 0 .. Len(f) : B[k] \in Nat
      /\ \A k \in 1 .. Len(f) : B[k] = B[k - 1] + 2 + f[k].data_len
  BY <1>1, BytesOfIs
<1>3. /\ at \in 1 .. Len(f) + 1 /\ left \in Nat /\ left = ad.total - B[at - 1]
  BY DEF Parsed
<1>4. IsWhole <=> left > 1 /\ at <= Len(f) /\ 1 + f[at].data_len < left
  BY DEF IsWhole, Field
<1>5. at \in WholeFields <=> at \in 1 .. Len(f) /\ B[at] <= ad.total
  BY DEF WholeFields
<1>6. Field = f[at]
  BY DEF Field
<1> HIDE DEF f, B
<1>7. ASSUME at \in 1 .. Len(f)
      PROVE  /\ f[at].data_len \in Nat /\ B[at] \in Nat /\ B[at - 1] \in Nat
             /\ left - 2 - f[at].data_len = ad.total - B[at]
  <2>1. at \in 0 .. Len(f) /\ at - 1 \in 0 .. Len(f)
    BY <1>1, <1>7
  <2>2. f[at].data_len \in Nat /\ B[at] \in Nat /\ B[at - 1] \in Nat
    BY <1>1, <1>2, <1>7, <2>1
  <2>3. B[at] = B[at - 1] + 2 + f[at].data_len
    BY <1>2, <1>7
  <2>4. ad.total \in Nat /\ left = ad.total - B[at - 1]
    BY <1>1, <1>3
  <2>5. left - 2 - f[at].data_len = ad.total - B[at]
    BY <2>2, <2>3, <2>4
  <2> QED
    BY <2>2, <2>5
<1>8. ASSUME IsWhole PROVE at \in 1 .. Len(f)
  BY <1>1, <1>3, <1>4, <1>8
<1>9. IsWhole <=> at \in WholeFields
  <2>1. CASE at \in 1 .. Len(f)
    <3>0. /\ f[at].data_len \in Nat /\ B[at] \in Nat /\ left \in Nat /\ ad.total \in Nat
          /\ left - 2 - f[at].data_len = ad.total - B[at]
      BY <1>1, <1>3, <1>7, <2>1
    <3>1. left > 1 /\ 1 + f[at].data_len < left <=> B[at] <= ad.total
      BY <3>0
    <3>2. at <= Len(f)
      BY <2>1
    <3> QED
      BY <1>4, <1>5, <2>1, <3>1, <3>2
  <2>2. CASE at \notin 1 .. Len(f)
    BY <1>5, <1>8, <2>2
  <2> QED
    BY <2>1, <2>2
<1>10. ASSUME IsWhole PROVE left - 2 - f[at].data_len \in Nat
  <2>1. 1 + f[at].data_len < left /\ left \in Nat
    BY <1>3, <1>4, <1>10
  <2>2. f[at].data_len \in Nat
    BY <1>7, <1>8, <1>10
  <2> QED
    BY <2>1, <2>2
<1> QED
  BY <1>1, <1>6, <1>7, <1>8, <1>9, <1>10 DEF f, B

(* ... and past it there is one less to go. *)
LEMMA FieldParsed ==
  ASSUME Parsed, IsWhole, NextField, UNCHANGED <<ad, callback>>, pc' \in {"parse", "end"}
  PROVE  Parsed'
<1>1. /\ at \in 1 .. Len(ad.fields)
      /\ left - 2 - Field.data_len \in Nat
      /\ left - 2 - Field.data_len = ad.total - BytesOf(ad.fields)[at]
  BY WholeIs
<1>2. at' = at + 1 /\ left' = left - 2 - Field.data_len
  BY DEF NextField
<1>3. at' \in 1 .. Len(ad.fields) + 1 /\ at' - 1 = at
  BY <1>1, <1>2, PayloadFacts DEF Parsed
<1> QED
  BY <1>1, <1>2, <1>3 DEF Parsed

(* What snprintf writes when there is room for all of it. *)
LEMMA WrittenIs ==
  ASSUME NEW p \in Nat, NEW s, Len(s) \in Nat, p + Len(s) + 1 <= HexSize
  PROVE  /\ Written(p, s) = [k \in 0 .. HexSize - 1 |-> Written(p, s)[k]]
         /\ \A k \in 0 .. HexSize - 1 :
              Written(p, s)[k] =
                IF k < p \/ k > p + Len(s) THEN hex[k]
                ELSE IF k < p + Len(s) THEN s[k - p + 1] ELSE Nul
<1> DEFINE n == Least(Len(s), HexSize - p - 1)
<1>1. n = Len(s)
  BY AdAssumption DEF Least
<1>2. Written(p, s) =
        [k \in 0 .. HexSize - 1 |->
           CASE k \in p .. p + n - 1 -> s[k - p + 1]
             [] k = p + n            -> Nul
             [] OTHER                -> hex[k]]
  BY DEF Written
<1> HIDE DEF n
<1>3. ASSUME NEW k \in 0 .. HexSize - 1
      PROVE  Written(p, s)[k] =
                IF k < p \/ k > p + Len(s) THEN hex[k]
                ELSE IF k < p + Len(s) THEN s[k - p + 1] ELSE Nul
  <2>1. Written(p, s)[k] = CASE k \in p .. p + n - 1 -> s[k - p + 1]
                             [] k = p + n            -> Nul
                             [] OTHER                -> hex[k]
    BY <1>2
  <2>2. k \in Int /\ HexSize \in Nat
    BY AdAssumption
  <2>3. CASE k < p \/ k > p + Len(s)
    <3>1. k \notin p .. p + n - 1 /\ k # p + n
      BY <1>1, <2>2, <2>3
    <3> QED
      BY <2>1, <2>3, <3>1
  <2>4. CASE k = p + Len(s)
    <3>1. k \notin p .. p + n - 1 /\ k = p + n /\ ~(k < p \/ k > p + Len(s)) /\ ~(k < p + Len(s))
      BY <1>1, <2>2, <2>4
    <3> QED
      BY <2>1, <3>1
  <2>5. CASE k >= p /\ k < p + Len(s)
    <3>1. k \in p .. p + n - 1 /\ k # p + n /\ ~(k < p \/ k > p + Len(s))
      BY <1>1, <2>2, <2>5
    <3> QED
      BY <2>1, <2>5, <3>1
  <2> QED
    BY <2>2, <2>3, <2>4, <2>5
<1>4. Written(p, s) = [k \in 0 .. HexSize - 1 |-> Written(p, s)[k]]
  BY <1>2
<1> QED
  BY <1>3, <1>4

(* How many bytes of a field are printed, and the room they take. *)
LEMMA PrintedIs ==
  ASSUME NEW n \in Nat
  PROVE  /\ BytesPrinted(n) \in Nat /\ BytesPrinted(n) <= MaxBytes
         /\ 3 * BytesPrinted(n) + 4 <= HexSize
         /\ BytesPrinted(n) = 0 <=> n = 0
         /\ BytesPrinted(n) = Least(n, MaxBytes)
<1>1. MaxBytes \in Nat \ {0} /\ HexSize \in Nat /\ 3 * MaxBytes + 4 <= HexSize
  BY AdAssumption
<1> QED
  BY <1>1 DEF BytesPrinted, Least

(* The characters of byte number m. *)
LEMMA TextCharIs ==
  ASSUME NEW m \in Nat
  PROVE  /\ TextChar(3 * m + 1) = <<m + 1, 1>>
         /\ TextChar(3 * m + 2) = <<m + 1, 2>>
         /\ TextChar(3 * m + 3) = Space
<1>1. /\ (3 * m + 1) % 3 = 1 /\ (3 * m + 1) \div 3 = m
      /\ (3 * m + 2) % 3 = 2 /\ (3 * m + 2) \div 3 = m
      /\ (3 * m + 3) % 3 = 0
  OBVIOUS
<1> QED
  BY <1>1 DEF TextChar

-----------------------------------------------------------------------------
(* The steps. *)
LEMMA InitAInv == Init => AInv
<1> SUFFICES ASSUME Init PROVE AInv
  OBVIOUS
<1>1. /\ ad.fields \in Seq(Fields) /\ Len(ad.fields) \in Nat /\ ad.total \in Nat
      /\ BytesOf(ad.fields)[0] = 0
  BY PayloadFacts, BytesOfIs DEF Init
<1>2. Parsed
  <2>1. at \in 1 .. Len(ad.fields) + 1 /\ at - 1 = 0
    BY <1>1 DEF Init
  <2> QED
    BY <1>1, <2>1 DEF Init, Parsed
<1>3. FieldInHand
  BY DEF Init, FieldInHand, Logging
<1>4. HexSoFar
  BY DEF Init, HexSoFar
<1>5. NameSoFar
  BY DEF Init, NameSoFar, NoNameBefore
<1> QED
  BY <1>2, <1>3, <1>4, <1>5 DEF AInv

LEMMA ParseEndKeeps == AInv /\ ParseEnd => AInv'
<1> SUFFICES ASSUME AInv, ParseEnd PROVE AInv'
  OBVIOUS
<1>1. /\ pc = "parse" /\ pc' = "end" /\ ~IsWhole
      /\ UNCHANGED <<ad, callback, left, at, name, hex, len, i, pos>>
  BY DEF ParseEnd, parseVars, hexVars
<1>2. Parsed'
  BY <1>1 DEF AInv, Parsed
<1>3. FieldInHand'
  BY <1>1 DEF FieldInHand, Logging
<1>4. HexSoFar'
  BY <1>1 DEF AInv, HexSoFar
<1>5. NameSoFar'
  <2>1. ~IsWhole' /\ NoNameBefore(at)' = NoNameBefore(at)
    BY <1>1 DEF IsWhole, Field, NoNameBefore
  <2>2. callback = "parse_name_cb" => name = NoName /\ NoNameBefore(at)
    BY <1>1 DEF AInv, NameSoFar
  <2>3. callback' = "parse_name_cb" => name' = NoName /\ NoNameBefore(at)'
    BY <1>1, <2>1, <2>2 DEF NoName
  <2> QED
    BY <2>1, <2>3 DEF NameSoFar, NoName
<1> QED
  BY <1>2, <1>3, <1>4, <1>5 DEF AInv

LEMMA ParseNameKeeps == AInv /\ ParseName => AInv'
<1> SUFFICES ASSUME AInv, ParseName PROVE AInv'
  OBVIOUS
<1>1. /\ pc = "parse" /\ IsWhole /\ callback = "parse_name_cb" /\ NextField
      /\ UNCHANGED <<ad, callback, hex, len, i, pos>>
  BY DEF ParseName, hexVars
<1>2. IF IsName
        THEN /\ name' = [field |-> at, len |-> NameLen(Field.data_len)]
             /\ pc' = "end"
        ELSE UNCHANGED <<name, pc>>
  BY DEF ParseName, AfterName
<1>3. pc' \in {"parse", "end"}
  BY <1>1, <1>2
<1>4. Parsed'
  BY <1>1, <1>3, FieldParsed DEF AInv
<1>5. FieldInHand'
  BY <1>3 DEF FieldInHand, Logging
<1>6. HexSoFar'
  BY <1>1, <1>3 DEF AInv, HexSoFar
<1>7. NameSoFar'
  <2>1. name = NoName /\ NoNameBefore(at)
    BY <1>1 DEF AInv, NameSoFar
  <2>2. /\ at \in WholeFields /\ at \in 1 .. Len(ad.fields) /\ Field.type \in FieldTypes
        /\ at' = at + 1
    BY <1>1, WholeIs DEF AInv, NextField
  <2>3. at' - 1 = at /\ at \in Nat /\ ad' = ad /\ WholeFields' = WholeFields
    BY <1>1, <2>2 DEF WholeFields
  <2>4. CASE IsName
    <3>1. ad'.fields[at' - 1] = Field
      BY <2>3 DEF Field
    <3>2. at' - 1 \in WholeFields' /\ ad'.fields[at' - 1].type # "other"
      BY <2>2, <2>3, <2>4, <3>1 DEF IsName
    <3>3. name' = [field |-> at' - 1, len |-> NameLen(ad'.fields[at' - 1].data_len)]
      BY <1>2, <2>3, <2>4, <3>1
    <3>4. \A k \in 1 .. (at' - 1) - 1 : ad'.fields[k].type = "other"
      BY <2>1, <2>3 DEF NoNameBefore
    <3>5. pc' = "end"
      BY <1>2, <2>4
    <3> QED
      BY <3>2, <3>3, <3>4, <3>5 DEF NameSoFar, NoNameBefore, NameLen
  <2>5. CASE ~IsName
    <3>1. ad.fields[at].type = "other"
      BY <2>2, <2>5 DEF IsName, Field, FieldTypes
    <3>2. ASSUME NEW k \in 1 .. at' - 1 PROVE ad'.fields[k].type = "other"
      <4>1. k \in 1 .. at - 1 \/ k = at
        BY <2>3
      <4> QED
        BY <2>1, <2>3, <3>1, <4>1 DEF NoNameBefore
    <3>3. name' = NoName /\ pc' = "parse"
      BY <1>1, <1>2, <2>1, <2>5
    <3> QED
      BY <3>2, <3>3 DEF NameSoFar, NoNameBefore, NoName
  <2> QED
    BY <2>4, <2>5
<1> QED
  BY <1>4, <1>5, <1>6, <1>7 DEF AInv

(* The steps of log_ad_field_cb do not touch the name. *)
LEMMA NameUntouched ==
  ASSUME NameSoFar, callback = "log_ad_field_cb", UNCHANGED callback
  PROVE  NameSoFar'
  BY DEF NameSoFar

(* Nor is the field parsed before it is printed. *)
LEMMA FieldStays ==
  ASSUME Parsed, IsWhole, UNCHANGED <<ad, callback, left, at, name>>, pc' \in Logging
  PROVE  Parsed' /\ IsWhole' /\ Field' = Field
  BY DEF Parsed, IsWhole, Field, Logging

LEMMA LogBeginKeeps == AInv /\ LogBegin => AInv'
<1> SUFFICES ASSUME AInv, LogBegin PROVE AInv'
  OBVIOUS
<1>1. /\ IsWhole /\ callback = "log_ad_field_cb"
      /\ hex' = [k \in 0 .. HexSize - 1 |-> Unset]
      /\ len' = BytesPrinted(Field.data_len) /\ i' = 0 /\ pos' = 0
      /\ pc' = (IF len' = 0 THEN "dots" ELSE "byte")
      /\ UNCHANGED <<ad, callback, left, at, name>>
  BY DEF LogBegin, parseVars
<1>2. Field.data_len \in Nat /\ len' \in Nat
  BY <1>1, WholeIs, PrintedIs DEF AInv
<1>3. Parsed' /\ IsWhole' /\ Field' = Field
  BY <1>1, FieldStays DEF AInv, Logging
<1>4. FieldInHand'
  BY <1>1, <1>3 DEF FieldInHand, BytesPrinted
<1>5. HexSoFar'
  <2>1. hex' = [k \in 0 .. HexSize - 1 |-> hex'[k]]
    BY <1>1
  <2>2. pc' = "byte" => i' < len' /\ pos' = 3 * i' /\ TextUpTo(pos)'
    BY <1>1, <1>2 DEF TextUpTo
  <2>3. pc' = "dots" => len' = 0
    BY <1>1
  <2>4. pc' # "print"
    BY <1>1
  <2> QED
    BY <1>1, <1>2, <2>1, <2>2, <2>3, <2>4 DEF HexSoFar
<1>6. NameSoFar'
  BY <1>1, NameUntouched DEF AInv
<1> QED
  BY <1>3, <1>4, <1>5, <1>6 DEF AInv

LEMMA LogByteKeeps == AInv /\ LogByte => AInv'
<1> SUFFICES ASSUME AInv, LogByte PROVE AInv'
  OBVIOUS
<1> DEFINE digits == << <<i + 1, 1>>, <<i + 1, 2>> >>
           h == Written(pos, digits)
<1>1. /\ pc = "byte" /\ i' = i + 1
      /\ IF i < len - 1 THEN hex' = [h EXCEPT ![pos + 2] = Space] /\ pos' = pos + 3
                        ELSE hex' = h /\ pos' = pos + 2
      /\ pc' = (IF i' = len THEN "dots" ELSE "byte")
      /\ UNCHANGED <<ad, callback, left, at, name, len>>
  BY DEF LogByte, SpaceFollows, parseVars
<1>2. /\ IsWhole /\ callback = "log_ad_field_cb" /\ len = BytesPrinted(Field.data_len)
      /\ Field.data_len \in Nat
  BY <1>1, WholeIs DEF AInv, FieldInHand, Logging
<1>3. /\ len \in Nat /\ i \in Nat /\ i < len /\ pos = 3 * i /\ 3 * len + 4 <= HexSize
      /\ HexSize \in Nat
  BY <1>1, <1>2, PrintedIs, AdAssumption DEF AInv, HexSoFar
<1>4. /\ h = [k \in 0 .. HexSize - 1 |-> h[k]]
      /\ \A k \in 0 .. HexSize - 1 :
           h[k] = IF k < pos \/ k > pos + 2 THEN hex[k]
                  ELSE IF k < pos + 2 THEN digits[k - pos + 1] ELSE Nul
  <2>1. Len(digits) = 2 /\ pos \in Nat /\ pos + 2 + 1 <= HexSize
    BY <1>3
  <2>2. Len(digits) \in Nat /\ pos + Len(digits) + 1 <= HexSize
    BY <2>1
  <2> HIDE DEF digits
  <2>3. /\ h = [k \in 0 .. HexSize - 1 |-> h[k]]
        /\ \A k \in 0 .. HexSize - 1 :
             h[k] = IF k < pos \/ k > pos + Len(digits) THEN hex[k]
                    ELSE IF k < pos + Len(digits) THEN digits[k - pos + 1] ELSE Nul
    BY <2>1, <2>2, WrittenIs
  <2> HIDE DEF h
  <2> QED
    BY <2>1, <2>3
<1> HIDE DEF h
<1>5. /\ \A k \in 0 .. pos - 1 : h[k] = hex[k]
      /\ h[pos] = <<i + 1, 1>> /\ h[pos + 1] = <<i + 1, 2>> /\ h[pos + 2] = Nul
  <2>1. ASSUME NEW k \in 0 .. pos - 1 PROVE h[k] = hex[k]
    <3>1. k \in 0 .. HexSize - 1 /\ k < pos
      BY <1>3
    <3> QED
      BY <1>4, <3>1
  <2>2. /\ pos \in 0 .. HexSize - 1 /\ ~(pos < pos \/ pos > pos + 2) /\ pos < pos + 2
        /\ pos - pos + 1 = 1
        /\ pos + 1 \in 0 .. HexSize - 1 /\ ~(pos + 1 < pos \/ pos + 1 > pos + 2)
        /\ pos + 1 < pos + 2 /\ (pos + 1) - pos + 1 = 2
        /\ pos + 2 \in 0 .. HexSize - 1 /\ ~(pos + 2 < pos \/ pos + 2 > pos + 2)
        /\ ~(pos + 2 < pos + 2)
    BY <1>3
  <2>3. digits[1] = <<i + 1, 1>> /\ digits[2] = <<i + 1, 2>>
    OBVIOUS
  <2> HIDE DEF digits
  <2>4. h[pos] = digits[pos - pos + 1]
    BY <1>4, <2>2
  <2>5. h[pos + 1] = digits[(pos + 1) - pos + 1]
    BY <1>4, <2>2
  <2>6. h[pos + 2] = Nul
    BY <1>4, <2>2
  <2> QED
    BY <2>1, <2>2, <2>3, <2>4, <2>5, <2>6
<1>6. Parsed' /\ IsWhole' /\ Field' = Field
  BY <1>1, <1>2, FieldStays DEF AInv, Logging
<1>7. FieldInHand'
  BY <1>1, <1>2, <1>6 DEF FieldInHand, BytesPrinted
<1>8. TextUpTo(pos)
  BY <1>1 DEF AInv, HexSoFar
<1>9. \A k \in 1 .. pos + 2 : h[k - 1] = TextChar(k)
  <2> SUFFICES ASSUME NEW k \in 1 .. pos + 2 PROVE h[k - 1] = TextChar(k)
    OBVIOUS
  <2>1. CASE k <= pos
    <3>1. k \in 1 .. pos /\ k - 1 \in 0 .. pos - 1
      BY <1>3, <2>1
    <3> QED
      BY <1>5, <1>8, <3>1 DEF TextUpTo
  <2>2. CASE k = pos + 1
    <3>1. k - 1 = pos /\ k = 3 * i + 1
      BY <1>3, <2>2
    <3> QED
      BY <1>3, <1>5, <3>1, TextCharIs
  <2>3. CASE k = pos + 2
    <3>1. k - 1 = pos + 1 /\ k = 3 * i + 2
      BY <1>3, <2>3
    <3> QED
      BY <1>3, <1>5, <3>1, TextCharIs
  <2>4. k <= pos \/ k = pos + 1 \/ k = pos + 2
    BY <1>3
  <2> QED
    BY <2>1, <2>2, <2>3, <2>4
<1>10. CASE i < len - 1
  <2>1. hex' = [h EXCEPT ![pos + 2] = Space] /\ pos' = pos + 3
    BY <1>1, <1>10
  <2>2. /\ pc' = "byte" /\ i' < len' /\ i' \in Nat /\ len' \in Nat
        /\ pos' = 3 * i' /\ pos' \in Nat
    BY <1>1, <1>3, <1>10, <2>1
  <2>3. hex' = [k \in 0 .. HexSize - 1 |-> hex'[k]]
    BY <1>4, <2>1
  <2>4. /\ \A k \in 0 .. pos + 1 : hex'[k] = h[k]
        /\ hex'[pos + 2] = Space
    <3>1. pos + 2 \in 0 .. HexSize - 1
      BY <1>3
    <3>2. ASSUME NEW k \in 0 .. pos + 1 PROVE k \in 0 .. HexSize - 1 /\ k # pos + 2
      BY <1>3
    <3> QED
      BY <1>4, <2>1, <3>1, <3>2
  <2>5. TextUpTo(pos)'
    <3> SUFFICES ASSUME NEW k \in 1 .. pos + 3 PROVE hex'[k - 1] = TextChar(k)
      BY <2>1 DEF TextUpTo, TextChar
    <3>1. CASE k = pos + 3
      <4>1. k - 1 = pos + 2 /\ k = 3 * i + 3
        BY <1>3, <3>1
      <4> QED
        BY <1>3, <2>4, <4>1, TextCharIs
    <3>2. CASE k # pos + 3
      <4>1. k \in 1 .. pos + 2 /\ k - 1 \in 0 .. pos + 1
        BY <1>3, <3>2
      <4> QED
        BY <1>9, <2>4, <4>1
    <3> QED
      BY <3>1, <3>2
  <2>6. HexSoFar'
    BY <2>2, <2>3, <2>5 DEF HexSoFar
  <2> QED
    BY <1>1, <1>2, <1>6, <1>7, <2>6, NameUntouched DEF AInv
<1>11. CASE ~(i < len - 1)
  <2>1. hex' = h /\ pos' = pos + 2
    BY <1>1, <1>11
  <2>2. /\ pc' = "dots" /\ i' \in Nat /\ len' \in Nat /\ len' # 0
        /\ pos' = 3 * len' - 1 /\ pos' \in Nat
    BY <1>1, <1>3, <1>11, <2>1
  <2>3. TextUpTo(pos)' /\ hex'[pos'] = Nul
    BY <1>5, <1>9, <2>1 DEF TextUpTo, TextChar
  <2>4. HexSoFar'
    BY <1>4, <2>1, <2>2, <2>3 DEF HexSoFar
  <2> QED
    BY <1>1, <1>2, <1>6, <1>7, <2>4, NameUntouched DEF AInv
<1> QED
  BY <1>10, <1>11

LEMMA LogDotsKeeps == AInv /\ LogDots => AInv'
<1> SUFFICES ASSUME AInv, LogDots PROVE AInv'
  OBVIOUS
<1> DEFINE dots == <<Space, Dot, Dot, Dot>>
           h == Written(pos, dots)
<1>1. /\ pc = "dots" /\ pc' = "print"
      /\ hex' = (IF Field.data_len > MaxBytes THEN h ELSE hex)
      /\ UNCHANGED <<ad, callback, left, at, name, len, i, pos>>
  BY DEF LogDots, parseVars
<1>2. /\ IsWhole /\ callback = "log_ad_field_cb" /\ len = BytesPrinted(Field.data_len)
      /\ Field.data_len \in Nat
  BY <1>1, WholeIs DEF AInv, FieldInHand, Logging
<1>3. /\ len \in Nat /\ pos \in Nat /\ i \in Nat
      /\ 3 * len + 4 <= HexSize /\ HexSize \in Nat
      /\ hex = [k \in 0 .. HexSize - 1 |-> hex[k]]
      /\ IF len = 0 THEN pos = 0
         ELSE pos = 3 * len - 1 /\ TextUpTo(pos) /\ hex[pos] = Nul
  BY <1>1, <1>2, PrintedIs, AdAssumption DEF AInv, HexSoFar
<1>4. Parsed' /\ IsWhole' /\ Field' = Field
  BY <1>1, <1>2, FieldStays DEF AInv, Logging
<1>5. FieldInHand'
  BY <1>1, <1>2, <1>4 DEF FieldInHand, BytesPrinted
<1>6. CASE Field.data_len > MaxBytes
  <2>1. len # 0
    <3>1. Field.data_len # 0
      BY <1>2, <1>6, AdAssumption
    <3> QED
      BY <1>2, <3>1, PrintedIs
  <2>2. pos = 3 * len - 1 /\ TextUpTo(pos) /\ pos + 4 + 1 <= HexSize
    BY <1>3, <2>1
  <2>3. Len(dots) = 4
    OBVIOUS
  <2>4. /\ dots[1] = Space /\ dots[2] = Dot /\ dots[3] = Dot /\ dots[4] = Dot
    OBVIOUS
  <2> HIDE DEF dots
  <2>5. Len(dots) \in Nat /\ pos + Len(dots) + 1 <= HexSize
    BY <2>2, <2>3
  <2>6. /\ h = [k \in 0 .. HexSize - 1 |-> h[k]]
        /\ \A k \in 0 .. HexSize - 1 :
             h[k] = IF k < pos \/ k > pos + Len(dots) THEN hex[k]
                    ELSE IF k < pos + Len(dots) THEN dots[k - pos + 1] ELSE Nul
    BY <1>3, <2>5, WrittenIs
  <2> HIDE DEF h
  <2>7. \A k \in 0 .. pos - 1 : h[k] = hex[k]
    <3> SUFFICES ASSUME NEW k \in 0 .. pos - 1 PROVE h[k] = hex[k]
      OBVIOUS
    <3>0. pos \in Nat /\ HexSize \in Nat /\ pos + 4 + 1 <= HexSize
      BY <1>3, <2>2
    <3>1. k \in 0 .. HexSize - 1 /\ k < pos
      BY <3>0
    <3> QED
      BY <2>6, <3>1
  <2>8. ASSUME NEW j \in 0 .. 4 PROVE h[pos + j] = IF j < 4 THEN dots[j + 1] ELSE Nul
    <3>0. /\ pos \in Nat /\ HexSize \in Nat /\ j \in Nat /\ j <= 4
          /\ pos + 4 + 1 <= HexSize /\ Len(dots) = 4
      BY <1>3, <2>2, <2>3
    <3>1. /\ pos + j \in 0 .. HexSize - 1
          /\ ~(pos + j < pos \/ pos + j > pos + Len(dots))
          /\ (pos + j < pos + Len(dots)) <=> (j < 4)
          /\ (pos + j) - pos + 1 = j + 1
      BY <3>0
    <3>2. h[pos + j] = IF pos + j < pos + Len(dots) THEN dots[(pos + j) - pos + 1] ELSE Nul
      BY <2>6, <3>1
    <3> QED
      BY <3>1, <3>2
  <2>9. /\ h[pos + 0] = Space /\ h[pos + 1] = Dot /\ h[pos + 2] = Dot
        /\ h[pos + 3] = Dot /\ h[pos + 4] = Nul
    BY <2>4, <2>8
  <2>10. hex' = h /\ Field.data_len' > MaxBytes
    BY <1>1, <1>4, <1>6
  <2>11. TextUpTo(pos)'
    <3> SUFFICES ASSUME NEW k \in 1 .. pos PROVE h[k - 1] = TextChar(k)
      BY <1>1, <2>10 DEF TextUpTo, TextChar
    <3>1. k - 1 \in 0 .. pos - 1
      BY <1>3
    <3> QED
      BY <2>2, <2>7, <3>1 DEF TextUpTo
  <2>12. HexSoFar'
    <3>1. pos' = 3 * len' - 1 /\ TextUpTo(3 * len - 1)'
      BY <1>1, <2>2, <2>11
    <3>2. pos + 0 = pos
      BY <1>3
    <3> QED
      BY <1>1, <1>3, <2>2, <2>6, <2>9, <2>10, <3>1, <3>2 DEF HexSoFar
  <2> QED
    BY <1>1, <1>2, <1>4, <1>5, <2>12, NameUntouched DEF AInv
<1>7. CASE ~(Field.data_len > MaxBytes)
  <2>1. hex' = hex /\ ~(Field'.data_len > MaxBytes)
    BY <1>1, <1>4, <1>7
  <2>2. ASSUME len > 0 PROVE TextUpTo(3 * len - 1)' /\ hex'[3 * len' - 1] = Nul
    <3>1. pos = 3 * len - 1 /\ TextUpTo(3 * len - 1) /\ hex[3 * len - 1] = Nul
      BY <1>3, <2>2
    <3> QED
      BY <1>1, <2>1, <3>1 DEF TextUpTo, TextChar
  <2>3. hex' = [k \in 0 .. HexSize - 1 |-> hex'[k]]
    BY <1>3, <2>1
  <2>4. HexSoFar'
    BY <1>1, <1>3, <2>1, <2>2, <2>3 DEF HexSoFar
  <2> QED
    BY <1>1, <1>2, <1>4, <1>5, <2>4, NameUntouched DEF AInv
<1> QED
  BY <1>6, <1>7

LEMMA LogPrintKeeps == AInv /\ LogPrint => AInv'
<1> SUFFICES ASSUME AInv, LogPrint PROVE AInv'
  OBVIOUS
<1>1. /\ pc = "print" /\ pc' = "parse" /\ NextField
      /\ UNCHANGED <<ad, callback, name, hex, len, i, pos>>
  BY DEF LogPrint, hexVars
<1>2. IsWhole /\ callback = "log_ad_field_cb"
  BY <1>1 DEF AInv, FieldInHand, Logging
<1>3. Parsed'
  BY <1>1, <1>2, FieldParsed DEF AInv
<1>4. FieldInHand'
  BY <1>1 DEF FieldInHand, Logging
<1>5. HexSoFar'
  BY <1>1 DEF AInv, HexSoFar
<1> QED
  BY <1>1, <1>2, <1>3, <1>4, <1>5, NameUntouched DEF AInv

LEMMA StutterKeeps == AInv /\ UNCHANGED vars => AInv'
<1> SUFFICES ASSUME AInv, UNCHANGED vars PROVE AInv'
  OBVIOUS
<1>1. UNCHANGED <<ad, callback, left, at, name, pc, hex, len, i, pos>>
  BY DEF vars, parseVars, hexVars
<1>2. Parsed' /\ FieldInHand' /\ HexSoFar' /\ NameSoFar'
  BY <1>1 DEF AInv, Parsed, FieldInHand, HexSoFar, NameSoFar, IsWhole, Field, TextUpTo,
     TextChar, NoNameBefore, WholeFields, BytesPrinted, Least, NameLen, NoName
<1> QED
  BY <1>2 DEF AInv

LEMMA AdInvariant == Spec => []AInv
<1>1. Init => AInv
  BY InitAInv
<1>2. AInv /\ [Next]_vars => AInv'
  BY ParseEndKeeps, ParseNameKeeps, LogBeginKeeps, LogByteKeeps, LogDotsKeeps,
     LogPrintKeeps, StutterKeeps DEF Next
<1> QED
  BY <1>1, <1>2, PTL DEF Spec

-----------------------------------------------------------------------------
(* However long a field is, what is printed of it stays in the array.      *)
THEOREM HexStaysInBounds == Spec => []HexInBounds
<1>1. AInv => HexInBounds
  <2> SUFFICES ASSUME AInv, pc \in {"byte", "dots"} PROVE HexInBounds
    BY DEF HexInBounds
  <2>1. len = BytesPrinted(Field.data_len) /\ Field.data_len \in Nat
    BY WholeIs DEF AInv, FieldInHand, Logging
  <2>2. len \in Nat /\ 3 * len + 4 <= HexSize
    BY <2>1, PrintedIs
  <2>3. i \in Nat /\ HexSize \in Nat
    BY AdAssumption DEF AInv, HexSoFar
  <2>4. CASE pc = "byte"
    <3>1. i < len /\ pos = 3 * i
      BY <2>4 DEF AInv, HexSoFar
    <3>2. pos + 3 <= HexSize
      BY <2>2, <2>3, <3>1
    <3> QED
      BY <2>4, <3>2 DEF HexInBounds
  <2>5. CASE pc = "dots"
    <3>1. IF len = 0 THEN pos = 0 ELSE pos = 3 * len - 1
      BY <2>5 DEF AInv, HexSoFar
    <3>2. 5 <= HexSize
      BY AdAssumption
    <3>3. pos + 5 <= HexSize
      BY <2>2, <2>3, <3>1, <3>2
    <3> QED
      BY <2>5, <3>3 DEF HexInBounds
  <2> QED
    BY <2>4, <2>5
<1> QED
  BY <1>1, AdInvariant, PTL

(* The text of n bytes, character by character. *)
LEMMA TextIs ==
  ASSUME NEW n \in Nat \ {0}
  PROVE  LET m == 3 * BytesPrinted(n) - 1
         IN  /\ m \in Nat
             /\ Len(Text(n)) = IF n > MaxBytes THEN m + 4 ELSE m
             /\ \A k \in 1 .. m : Text(n)[k] = TextChar(k)
             /\ n > MaxBytes =>
                  /\ Text(n)[m + 1] = Space /\ Text(n)[m + 2] = Dot
                  /\ Text(n)[m + 3] = Dot /\ Text(n)[m + 4] = Dot
<1> DEFINE m == 3 * BytesPrinted(n) - 1
           S == Int \X Int
           a == [k \in 1 .. m |-> TextChar(k)]
           dots == <<Space, Dot, Dot, Dot>>
           b == IF n > MaxBytes THEN dots ELSE <<>>
<1>1. m \in Nat /\ BytesPrinted(n) = Least(n, MaxBytes)
  BY PrintedIs
<1>2. Text(n) = a \o b
  BY <1>1 DEF Text, TextChar
<1> HIDE DEF m
<1>3. a \in Seq(S) /\ Len(a) = m /\ \A k \in 1 .. m : a[k] = TextChar(k)
  <2>1. ASSUME NEW k \in 1 .. m PROVE TextChar(k) \in S
    <3>1. k % 3 \in Int /\ k \div 3 + 1 \in Int
      OBVIOUS
    <3> QED
      BY <3>1 DEF TextChar, Space
  <2> QED
    BY <1>1, <2>1
<1>4. /\ dots \in Seq(S) /\ Len(dots) = 4
      /\ dots[1] = Space /\ dots[2] = Dot /\ dots[3] = Dot /\ dots[4] = Dot
  <2>1. Space \in S /\ Dot \in S
    BY DEF Space, Dot
  <2> HIDE DEF S
  <2> QED
    BY <2>1
<1> HIDE DEF a, dots, S
<1>5. CASE n > MaxBytes
  <2>1. b = dots
    BY <1>5
  <2>2. /\ Len(a \o dots) = m + 4
        /\ \A k \in 1 .. m + 4 : (a \o dots)[k] = IF k <= m THEN a[k] ELSE dots[k - m]
    <3>1. /\ Len(a \o dots) = Len(a) + Len(dots)
          /\ \A k \in 1 .. Len(a) + Len(dots) :
               (a \o dots)[k] = IF k <= Len(a) THEN a[k] ELSE dots[k - Len(a)]
      BY <1>3, <1>4, ConcatProperties
    <3> QED
      BY <1>3, <1>4, <3>1
  <2>3. ASSUME NEW k \in 1 .. m PROVE (a \o dots)[k] = TextChar(k)
    <3>1. k \in 1 .. m + 4 /\ k <= m
      BY <1>1
    <3> QED
      BY <1>3, <2>2, <3>1
  <2>4. ASSUME NEW k \in m + 1 .. m + 4 PROVE (a \o dots)[k] = dots[k - m]
    <3>1. k \in 1 .. m + 4 /\ ~(k <= m)
      BY <1>1
    <3> QED
      BY <2>2, <3>1
  <2>5. Text(n) = a \o dots
    BY <1>2, <2>1
  <2>6. /\ Text(n)[m + 1] = Space /\ Text(n)[m + 2] = Dot
        /\ Text(n)[m + 3] = Dot /\ Text(n)[m + 4] = Dot
    <3>1. /\ (a \o dots)[m + 1] = dots[1] /\ (a \o dots)[m + 2] = dots[2]
          /\ (a \o dots)[m + 3] = dots[3] /\ (a \o dots)[m + 4] = dots[4]
      <4>1. /\ m + 1 \in m + 1 .. m + 4 /\ (m + 1) - m = 1
            /\ m + 2 \in m + 1 .. m + 4 /\ (m + 2) - m = 2
            /\ m + 3 \in m + 1 .. m + 4 /\ (m + 3) - m = 3
            /\ m + 4 \in m + 1 .. m + 4 /\ (m + 4) - m = 4
        BY <1>1
      <4> QED
        BY <2>4, <4>1
    <3> QED
      BY <1>4, <2>5, <3>1
  <2>7. Len(Text(n)) = m + 4 /\ \A k \in 1 .. m : Text(n)[k] = TextChar(k)
    BY <2>2, <2>3, <2>5
  <2> QED
    BY <1>1, <1>5, <2>6, <2>7 DEF m
<1>6. CASE ~(n > MaxBytes)
  <2>1. a \o b = a
    BY <1>3, <1>6, ConcatEmptySeq
  <2> QED
    BY <1>1, <1>2, <1>3, <1>6, <2>1 DEF m
<1> QED
  BY <1>5, <1>6

(* A field with data is printed as the comment says: up to 40 bytes as hex,*)
(* " ..." behind them if there are more, and a NUL.                        *)
THEOREM DataPrinted == Spec => []PrintsTheData
<1>1. AInv => PrintsTheData
  <2> SUFFICES ASSUME AInv, pc = "print", Field.data_len > 0
               PROVE  Prints(Text(Field.data_len))
    BY DEF PrintsTheData
  <2> DEFINE n == Field.data_len
             m == 3 * len - 1
             s == Text(n)
  <2>1. len = BytesPrinted(n) /\ n \in Nat \ {0}
    BY WholeIs DEF AInv, FieldInHand, Logging
  <2>2. len \in Nat /\ len > 0
    BY <2>1, PrintedIs
  <2>3. /\ TextUpTo(m)
        /\ IF n > MaxBytes
             THEN /\ hex[m] = Space
                  /\ hex[m + 1] = Dot /\ hex[m + 2] = Dot /\ hex[m + 3] = Dot
                  /\ hex[m + 4] = Nul
             ELSE hex[m] = Nul
    BY <2>2 DEF AInv, HexSoFar
  <2>4. /\ m \in Nat
        /\ Len(s) = IF n > MaxBytes THEN m + 4 ELSE m
        /\ \A k \in 1 .. m : s[k] = TextChar(k)
        /\ n > MaxBytes =>
             /\ s[m + 1] = Space /\ s[m + 2] = Dot /\ s[m + 3] = Dot /\ s[m + 4] = Dot
    BY <2>1, TextIs
  <2> HIDE DEF n, m, s
  <2>5. ASSUME NEW k \in 1 .. m PROVE hex[k - 1] = s[k]
    BY <2>3, <2>4 DEF TextUpTo
  <2>6. CASE n > MaxBytes
    <3>1. ASSUME NEW k \in 1 .. m + 4 PROVE hex[k - 1] = s[k]
      <4>1. CASE k <= m
        <5>1. k \in 1 .. m
          BY <2>4, <4>1
        <5> QED
          BY <2>5, <5>1
      <4>2. CASE k > m
        <5>1. k = m + 1 \/ k = m + 2 \/ k = m + 3 \/ k = m + 4
          BY <2>4, <4>2
        <5>2. /\ (m + 1) - 1 = m /\ (m + 2) - 1 = m + 1
              /\ (m + 3) - 1 = m + 2 /\ (m + 4) - 1 = m + 3
          BY <2>4
        <5> QED
          BY <2>3, <2>4, <2>6, <5>1, <5>2
      <4> QED
        BY <2>4, <4>1, <4>2
    <3> QED
      BY <2>3, <2>4, <2>6, <3>1 DEF Prints, s, n
  <2>7. CASE ~(n > MaxBytes)
    BY <2>3, <2>4, <2>5, <2>7 DEF Prints, s, n
  <2> QED
    BY <2>6, <2>7
<1> QED
  BY <1>1, AdInvariant, PTL

(* The name is that of the first name field that is there as a whole.      *)
THEOREM FirstNameIsTaken == Spec => []FirstNameTaken
<1>1. AInv => FirstNameTaken
  <2> SUFFICES ASSUME AInv, pc = "end", callback = "parse_name_cb"
               PROVE  LET names == {k \in WholeFields : ad.fields[k].type # "other"}
                      IN  IF names = {} THEN name = NoName
                          ELSE /\ name.field \in names
                               /\ \A k \in names : name.field <= k
                               /\ name.len = Least(ad.fields[name.field].data_len, NameSize - 1)
    BY DEF FirstNameTaken
  <2> DEFINE f == ad.fields
             names == {k \in WholeFields : f[k].type # "other"}
  <2>1. /\ f \in Seq(Fields) /\ Len(f) \in Nat /\ ad.total \in Nat
        /\ at \in 1 .. Len(f) + 1
    BY PayloadFacts DEF AInv, Parsed
  <2>2. \A k \in WholeFields : k \in 1 .. Len(f) /\ BytesOf(f)[k] <= ad.total
    BY DEF WholeFields
  <2>3. CASE name = NoName /\ NoNameBefore(at) /\ ~IsWhole
    <3>1. at \notin WholeFields
      BY <2>3, WholeIs DEF AInv
    <3>2. ASSUME NEW k \in names PROVE FALSE
      <4>1. k \in 1 .. Len(f) /\ BytesOf(f)[k] <= ad.total /\ f[k].type # "other"
        BY <2>2
      <4>2. ~(k < at)
        <5> SUFFICES ASSUME k < at PROVE FALSE
          OBVIOUS
        <5>1. k \in 1 .. at - 1
          BY <2>1, <4>1
        <5> QED
          BY <2>3, <4>1, <5>1 DEF NoNameBefore
      <4>3. at \in 1 .. Len(f) /\ at \in 0 .. Len(f) /\ k \in 0 .. Len(f) /\ at <= k
        BY <2>1, <4>1, <4>2
      <4>4. BytesOf(f)[at] <= BytesOf(f)[k] /\ BytesOf(f)[at] \in Nat /\ BytesOf(f)[k] \in Nat
        BY <2>1, <4>3, BytesOfGrow, BytesOfIs
      <4>5. BytesOf(f)[at] <= ad.total
        BY <2>1, <4>1, <4>4
      <4> QED
        BY <3>1, <4>3, <4>5 DEF WholeFields
    <3>3. names = {}
      BY <3>2
    <3> QED
      BY <2>3, <3>3
  <2>4. CASE /\ at - 1 \in WholeFields /\ f[at - 1].type # "other"
             /\ name = [field |-> at - 1, len |-> NameLen(f[at - 1].data_len)]
             /\ NoNameBefore(at - 1)
    <3>1. name.field = at - 1 /\ name.len = NameLen(f[at - 1].data_len)
      BY <2>4
    <3>2. name.field \in names
      BY <2>4, <3>1
    <3>3. ASSUME NEW k \in names PROVE name.field <= k
      <4>1. k \in 1 .. Len(f) /\ f[k].type # "other"
        BY <2>2
      <4>2. ~(k < at - 1)
        <5> SUFFICES ASSUME k < at - 1 PROVE FALSE
          OBVIOUS
        <5>1. k \in 1 .. (at - 1) - 1
          BY <2>1, <4>1
        <5> QED
          BY <2>4, <4>1, <5>1 DEF NoNameBefore
      <4> QED
        BY <2>1, <3>1, <4>1, <4>2
    <3> QED
      BY <3>1, <3>2, <3>3 DEF NameLen
  <2> QED
    BY <2>3, <2>4 DEF AInv, NameSoFar
<1> QED
  BY <1>1, AdInvariant, PTL

-----------------------------------------------------------------------------
(* The scanner, for any devices and any size of its table.                 *)
(* The first lines of the log are the table, and as long as it has room    *)
(* they are all there is; no line behind them is about a device in it.     *)
ScanInv ==
  /\ seen \in Seq(Addresses)
  /\ reports \in Seq([count : Nat, addr : Addresses])
  /\ Len(seen) <= MaxSeen
  /\ Len(seen) <= Len(reports)
  /\ Len(seen) < MaxSeen => Len(reports) = Len(seen)
  /\ \A j, k \in 1 .. Len(seen) : seen[j] = seen[k] => j = k
  /\ \A k \in 1 .. Len(seen) : reports[k].count = k /\ reports[k].addr = seen[k]
  /\ \A k \in 1 .. Len(reports) : \A j \in 1 .. Len(seen) :
       k > Len(seen) => reports[k].addr # seen[j]

LEMMA AdvertisedKeeps ==
  ASSUME ScanInv, NEW a \in Addresses, Advertised(a)
  PROVE  ScanInv'
<1> DEFINE n == Len(seen)
           l == Len(reports)
           line == [count |-> Len(seen'), addr |-> a]
<1>1. /\ \A k \in 1 .. n : seen[k] # a
      /\ seen' = IF n < MaxSeen THEN Append(seen, a) ELSE seen
      /\ reports' = Append(reports, line)
  BY DEF Advertised, New, HasRoom
<1>2. /\ seen \in Seq(Addresses) /\ n \in Nat
      /\ reports \in Seq([count : Nat, addr : Addresses]) /\ l \in Nat
      /\ MaxSeen \in Nat
  BY ScannerAssumption DEF ScanInv
<1>3. /\ n <= MaxSeen /\ n <= l
      /\ n < MaxSeen => l = n
      /\ \A j, k \in 1 .. n : seen[j] = seen[k] => j = k
      /\ \A k \in 1 .. n : reports[k].count = k /\ reports[k].addr = seen[k]
      /\ \A k \in 1 .. l : \A j \in 1 .. n : k > n => reports[k].addr # seen[j]
  BY DEF ScanInv
<1>4. seen' \in Seq(Addresses) /\ Len(seen') \in Nat
  BY <1>1, <1>2
<1>5. line.count = Len(seen') /\ line.addr = a /\ line \in [count : Nat, addr : Addresses]
  BY <1>4
<1> HIDE DEF n, l, line
<1>6. /\ reports' \in Seq([count : Nat, addr : Addresses]) /\ Len(reports') = l + 1
      /\ \A k \in 1 .. l : reports'[k] = reports[k]
      /\ reports'[l + 1] = line
  BY <1>1, <1>2, <1>5, AppendProperties DEF l
<1>7. CASE n < MaxSeen
  <2>1. /\ Len(seen') = n + 1 /\ seen'[n + 1] = a
        /\ \A k \in 1 .. n : seen'[k] = seen[k]
    BY <1>1, <1>2, <1>7, AppendProperties DEF n
  <2>2. l = n
    BY <1>3, <1>7
  <2>3. ASSUME NEW j \in 1 .. n + 1, NEW k \in 1 .. n + 1, seen'[j] = seen'[k]
        PROVE  j = k
    <3>1. j \in 1 .. n \/ j = n + 1
      BY <1>2
    <3>2. k \in 1 .. n \/ k = n + 1
      BY <1>2
    <3> QED
      BY <1>1, <1>3, <2>1, <2>3, <3>1, <3>2
  <2>4. ASSUME NEW k \in 1 .. n + 1
        PROVE  reports'[k].count = k /\ reports'[k].addr = seen'[k]
    <3>1. k \in 1 .. n \/ k = n + 1
      BY <1>2
    <3> QED
      BY <1>3, <1>5, <1>6, <2>1, <2>2, <3>1
  <2>5. /\ Len(seen') <= MaxSeen /\ Len(reports') = Len(seen') /\ Len(seen') = n + 1
        /\ \A k \in 1 .. Len(reports') : ~(k > Len(seen'))
    BY <1>2, <1>6, <1>7, <2>1, <2>2
  <2> QED
    BY <1>4, <1>6, <2>3, <2>4, <2>5 DEF ScanInv
<1>8. CASE ~(n < MaxSeen)
  <2>1. seen' = seen /\ Len(seen') = n
    BY <1>1, <1>8 DEF n
  <2>2. n <= l + 1 /\ ~(n < MaxSeen)
    BY <1>2, <1>3, <1>8
  <2>3. ASSUME NEW k \in 1 .. n PROVE reports'[k].count = k /\ reports'[k].addr = seen[k]
    <3>1. k \in 1 .. l
      BY <1>2, <1>3
    <3> QED
      BY <1>3, <1>6, <3>1
  <2>4. ASSUME NEW k \in 1 .. l + 1, NEW j \in 1 .. n, k > n
        PROVE  reports'[k].addr # seen[j]
    <3>1. k \in 1 .. l \/ k = l + 1
      BY <1>2
    <3> QED
      BY <1>1, <1>3, <1>5, <1>6, <2>4, <3>1
  <2> QED
    BY <1>3, <1>4, <1>6, <2>1, <2>2, <2>3, <2>4 DEF ScanInv
<1> QED
  BY <1>7, <1>8

LEMMA ScanInvHolds == ScannerSpec => []ScanInv
<1>1. ScannerInit => ScanInv
  BY ScannerAssumption DEF ScannerInit, ScanInv
<1>2. ScanInv /\ [ScannerNext]_scannerVars => ScanInv'
  <2> SUFFICES ASSUME ScanInv, [ScannerNext]_scannerVars PROVE ScanInv'
    OBVIOUS
  <2>1. ASSUME UNCHANGED <<seen, reports>> PROVE ScanInv'
    BY <2>1 DEF ScanInv
  <2>2. CASE Main
    BY <2>1, <2>2 DEF Main
  <2>3. CASE UNCHANGED scannerVars
    BY <2>1, <2>3 DEF scannerVars
  <2>4. CASE \E a \in Addresses : Advertised(a)
    BY <2>4, AdvertisedKeeps
  <2> QED
    BY <2>2, <2>3, <2>4 DEF ScannerNext
<1> QED
  BY <1>1, <1>2, PTL DEF ScannerSpec

(* A device in the table has one line, with its place as the number; those *)
(* that are reported again and again came when it was full.                *)
THEOREM ReportedOnce == ScannerSpec => []OnceIfInTable
<1>1. ScanInv => OnceIfInTable
  <2> SUFFICES ASSUME ScanInv PROVE OnceIfInTable
    OBVIOUS
  <2>1. Len(seen) \in Nat /\ Len(reports) \in Nat /\ MaxSeen \in Nat
    BY ScannerAssumption DEF ScanInv
  <2>2. ASSUME NEW a \in Addresses, NEW k \in 1 .. Len(seen), seen[k] = a
        PROVE  Lines(a) = {k} /\ reports[k].count = k
    <3>1. k \in 1 .. Len(reports)
      BY <2>1 DEF ScanInv
    <3>2. reports[k].addr = a /\ reports[k].count = k
      BY <2>2 DEF ScanInv
    <3>3. ASSUME NEW x \in 1 .. Len(reports), reports[x].addr = a PROVE x = k
      <4>1. CASE x > Len(seen)
        BY <2>2, <3>3, <4>1 DEF ScanInv
      <4>2. CASE ~(x > Len(seen))
        <5>1. x \in 1 .. Len(seen)
          BY <2>1, <4>2
        <5> QED
          BY <2>2, <3>3, <5>1 DEF ScanInv
      <4> QED
        BY <4>1, <4>2
    <3> QED
      BY <3>1, <3>2, <3>3 DEF Lines
  <2>3. ASSUME NEW a \in Addresses, ~ \E k \in 1 .. Len(seen) : seen[k] = a,
               NEW x \in Lines(a)
        PROVE  x > MaxSeen
    <3>1. x \in 1 .. Len(reports) /\ reports[x].addr = a
      BY DEF Lines
    <3>2. x > Len(seen)
      <4> SUFFICES ASSUME ~(x > Len(seen)) PROVE FALSE
        OBVIOUS
      <4>1. x \in 1 .. Len(seen)
        BY <2>1, <3>1
      <4> QED
        BY <2>3, <3>1, <4>1 DEF ScanInv
    <3>3. Len(reports) # Len(seen)
      BY <2>1, <3>1, <3>2
    <3>4. ~(Len(seen) < MaxSeen)
      BY <3>3 DEF ScanInv
    <3> QED
      BY <2>1, <3>1, <3>2, <3>4
  <2>4. Len(seen) <= MaxSeen
    BY DEF ScanInv
  <2> QED
    BY <2>2, <2>3, <2>4 DEF OnceIfInTable
<1> QED
  BY <1>1, ScanInvHolds, PTL
=============================================================================
