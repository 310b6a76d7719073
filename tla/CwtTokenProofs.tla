---------------------------- MODULE CwtTokenProofs ----------------------------
(***************************************************************************)
(* The proofs about CwtToken: what the encoders make of every nonce and    *)
(* uptime, byte by byte, what the decoder makes of that, and the           *)
(* invariants that follow.                                                 *)
(***************************************************************************)
EXTENDS CwtToken, SequenceTheorems, TLAPS

-----------------------------------------------------------------------------
\* Sequences

LEMMA Concat ==
  ASSUME NEW S, NEW s \in Seq(S), NEW t \in Seq(S)
  PROVE  /\ s \o t \in Seq(S) /\ Len(s \o t) = Len(s) + Len(t)
         /\ \A i \in 1 .. Len(s) : (s \o t)[i] = s[i]
         /\ \A i \in 1 .. Len(t) : (s \o t)[Len(s) + i] = t[i]
  OBVIOUS

\* a is in q, after the first n elements.
At(q, n, a) == \A i \in Nat : 1 <= i /\ i <= Len(a) => q[n + i] = a[i]

LEMMA Joined ==
  ASSUME NEW S, NEW s \in Seq(S), NEW t \in Seq(S)
  PROVE  /\ s \o t \in Seq(S) /\ Len(s \o t) = Len(s) + Len(t)
         /\ At(s \o t, 0, s) /\ At(s \o t, Len(s), t)
<1>1. Len(s) \in Nat /\ Len(t) \in Nat
  OBVIOUS
<1> DEFINE u == s \o t
<1>2. /\ u \in Seq(S) /\ Len(u) = Len(s) + Len(t)
      /\ \A i \in 1 .. Len(s) : u[i] = s[i]
      /\ \A i \in 1 .. Len(t) : u[Len(s) + i] = t[i]
  BY Concat
<1> HIDE DEF u
<1>3. u \in Seq(S) /\ Len(u) = Len(s) + Len(t) /\ At(u, 0, s) /\ At(u, Len(s), t)
  BY <1>1, <1>2 DEF At
<1> QED
  BY <1>3 DEF u

LEMMA Within ==
  ASSUME NEW q, NEW p, NEW a, NEW n \in Nat, NEW m \in Nat,
         At(q, n, p), At(p, m, a), Len(a) \in Nat, Len(p) \in Nat, m + Len(a) <= Len(p)
  PROVE  At(q, n + m, a)
<1> SUFFICES ASSUME NEW i \in Nat, 1 <= i, i <= Len(a) PROVE q[n + m + i] = a[i]
  BY DEF At
<1>1. m + i \in Nat /\ 1 <= m + i /\ m + i <= Len(p) /\ n + (m + i) = n + m + i
  OBVIOUS
<1>2. q[n + (m + i)] = p[m + i] /\ p[m + i] = a[i]
  BY <1>1 DEF At
<1> QED
  BY <1>1, <1>2

LEMMA NonceIsSeq ==
  ASSUME NEW n \in [1 .. 32 -> Byte]
  PROVE  n \in Seq(Byte) /\ Len(n) = 32
<1>1. n = [i \in 1 .. 32 |-> n[i]] /\ \A i \in 1 .. 32 : n[i] \in Byte
  OBVIOUS
<1> DEFINE m == [i \in 1 .. 32 |-> n[i]]
<1>2. m \in Seq(Byte) /\ Len(m) = 32
  BY <1>1
<1> QED
  BY <1>1, <1>2

LEMMA Single ==
  ASSUME NEW S, NEW x \in S
  PROVE  <<x>> \in Seq(S) /\ Len(<<x>>) = 1 /\ <<x>>[1] = x
  OBVIOUS

LEMMA Empty ==
  ASSUME NEW S
  PROVE  /\ <<>> \in Seq(S) /\ Len(<<>>) = 0
         /\ \A s \in Seq(S) : Len(s) = 0 => s = <<>>
  BY EmptySeq

-----------------------------------------------------------------------------
\* Numbers

\* Byte is left folded below: the provers would unfold the interval.
LEMMA ByteIsInt == \A b : b \in Byte <=> b \in Int /\ 0 <= b /\ b <= 255
  BY DEF Byte

\* z zeros, and what follows does not begin with one.
LEMMA StripZeros ==
  ASSUME NEW bs \in Seq(Byte), NEW z \in 0 .. Len(bs),
         \A j \in 1 .. z : bs[j] = 0, z < Len(bs) => bs[z + 1] # 0
  PROVE  Strip(bs) = SubSeq(bs, z + 1, Len(bs))
<1> DEFINE zeros == {i \in 0 .. Len(bs) : \A j \in 1 .. i : bs[j] = 0}
<1>1. z \in zeros /\ \A j \in zeros : j <= z
  OBVIOUS
<1>2. \A i \in zeros : (\A j \in zeros : j <= i) => i = z
  BY <1>1
<1>3. (CHOOSE i \in zeros : \A j \in zeros : j <= i) = z
  <2> HIDE DEF zeros
  <2> QED
    BY <1>1, <1>2
<1>4. 1 + z = z + 1
  OBVIOUS
<1> QED
  BY <1>3, <1>4 DEF Strip

\* A number of one byte, or of none.
LEMMA NumberOfByte ==
  ASSUME NEW n \in Byte
  PROVE  /\ Number(n) \in Seq(Byte)
         /\ n = 0 => Number(n) = <<>>
         /\ n # 0 => Len(Number(n)) = 1 /\ Number(n)[1] = n
<1> DEFINE bs == <<0, n>>
<1>1. n \div 256 = 0 /\ n % 256 = n
  BY DEF Byte
<1>2. bs \in Seq(Byte) /\ Len(bs) = 2 /\ bs[1] = 0 /\ bs[2] = n
  BY DEF Byte
<1>3. Number(n) = Strip(bs)
  BY <1>1 DEF Number
<1> HIDE DEF bs
<1>4. CASE n = 0
  <2>1. Strip(bs) = SubSeq(bs, 2 + 1, Len(bs))
    <3>1. 2 \in 0 .. Len(bs) /\ \A j \in 1 .. 2 : bs[j] = 0
      BY <1>2, <1>4
    <3> QED
      BY <1>2, <3>1, StripZeros
  <2> QED
    BY <1>2, <1>3, <1>4, <2>1, SubSeqEmpty, Empty
<1>5. CASE n # 0
  <2>1. Strip(bs) = SubSeq(bs, 1 + 1, Len(bs))
    <3>1. 1 \in 0 .. Len(bs) /\ (\A j \in 1 .. 1 : bs[j] = 0) /\ bs[1 + 1] # 0
      BY <1>2, <1>5
    <3> QED
      BY <1>2, <3>1, StripZeros
  <2>2. /\ SubSeq(bs, 2, 2) \in Seq(Byte) /\ Len(SubSeq(bs, 2, 2)) = 1
        /\ SubSeq(bs, 2, 2)[1] = n
    BY <1>2
  <2> QED
    BY <1>2, <1>3, <1>5, <2>1, <2>2
<1> QED
  BY <1>4, <1>5

LEMMA ValueOfNone == ValueOf(<<>>) = 0
<1> DEFINE value == CHOOSE g : g = [i \in 0 .. 0 |-> IF i = 0 THEN 0
                                                     ELSE 256 * g[i - 1] + <<>>[i]]
           w == [i \in 0 .. 0 |-> 0]
<1>1. w = [i \in 0 .. 0 |-> IF i = 0 THEN 0 ELSE 256 * w[i - 1] + <<>>[i]]
  OBVIOUS
<1>2. value = [i \in 0 .. 0 |-> IF i = 0 THEN 0 ELSE 256 * value[i - 1] + <<>>[i]]
  <2> HIDE DEF w
  <2> QED
    BY <1>1, ZenonT(30)
<1>3. ValueOf(<<>>) = value[0]
  BY DEF ValueOf
<1> QED
  BY <1>2, <1>3

LEMMA ValueOfByte ==
  ASSUME NEW num \in Seq(Byte), Len(num) = 1
  PROVE  ValueOf(num) = num[1]
<1> DEFINE value == CHOOSE g : g = [i \in 0 .. 1 |-> IF i = 0 THEN 0
                                                     ELSE 256 * g[i - 1] + num[i]]
           w == [i \in 0 .. 1 |-> IF i = 0 THEN 0 ELSE num[1]]
<1>5. num[1] \in Int
  <2>1. \A i \in 1 .. Len(num) : num[i] \in Byte
    OBVIOUS
  <2>2. num[1] \in Byte
    BY <2>1, Z3
  <2> QED
    BY <2>2, ByteIsInt
<1>1. w = [i \in 0 .. 1 |-> IF i = 0 THEN 0 ELSE 256 * w[i - 1] + num[i]]
  BY <1>5
<1>2. value = [i \in 0 .. 1 |-> IF i = 0 THEN 0 ELSE 256 * value[i - 1] + num[i]]
  <2> HIDE DEF w
  <2> QED
    BY <1>1, ZenonT(30)
<1>3. ValueOf(num) = value[1]
  BY DEF ValueOf
<1> HIDE DEF value
<1>4. value[0] = 0 /\ value[1] = 256 * value[1 - 1] + num[1]
  BY <1>2
<1> QED
  BY <1>3, <1>4, <1>5

-----------------------------------------------------------------------------
\* The encoders

\* The heads of lengths and small numbers.
LEMMA HeadOfByte ==
  ASSUME NEW major \in 0 .. 5, NEW n \in Byte
  PROVE  LET head == Head5(major, Number(n))
         IN /\ head \in Seq(Byte)
            /\ n <= 23 => Len(head) = 1 /\ head[1] = 32 * major + n
            /\ n > 23 => Len(head) = 2 /\ head[1] = 32 * major + 24 /\ head[2] = n
<1> DEFINE head == Head5(major, Number(n))
<1> SUFFICES /\ head \in Seq(Byte)
             /\ n <= 23 => Len(head) = 1 /\ head[1] = 32 * major + n
             /\ n > 23 => Len(head) = 2 /\ head[1] = 32 * major + 24 /\ head[2] = n
  OBVIOUS
<1>1. CASE n = 0
  <2>1. head = <<32 * major + 0>>
    BY <1>1, NumberOfByte, ValueOfNone DEF Head5
  <2>2. PICK c \in Byte : c = 32 * major + 0
    BY DEF Byte
  <2>3. head = <<c>>
    BY <2>1, <2>2, Zenon
  <2> HIDE DEF head
  <2> QED
    BY <1>1, <2>2, <2>3, Single
<1>2. CASE n \in 1 .. 23
  <2>1. Number(n) \in Seq(Byte) /\ Len(Number(n)) = 1 /\ Number(n)[1] = n
    BY <1>2, NumberOfByte
  <2>2. head = <<32 * major + n>>
    BY <1>2, <2>1, ValueOfByte DEF Head5
  <2>3. PICK c \in Byte : c = 32 * major + n
    BY <1>2 DEF Byte
  <2>4. head = <<c>>
    BY <2>2, <2>3, Zenon
  <2> HIDE DEF head
  <2> QED
    BY <1>2, <2>3, <2>4, Single
<1>3. CASE n > 23
  <2>1. Number(n) \in Seq(Byte) /\ Len(Number(n)) = 1 /\ Number(n)[1] = n
    <3>1. n # 0
      BY <1>3
    <3> QED
      BY <3>1, NumberOfByte
  <2>2. [i \in 1 .. 1 - 1 |-> 0] \in Seq(Byte) /\ Len([i \in 1 .. 1 - 1 |-> 0]) = 0
    BY DEF Byte
  <2>3. [i \in 1 .. 1 - 1 |-> 0] = <<>>
    BY <2>2, Empty
  <2>4. head = <<32 * major + 24>> \o <<>> \o Number(n)
    BY <1>3, <2>1, <2>3 DEF Head5, Byte
  <2>5. PICK c \in Byte : c = 32 * major + 24
    BY DEF Byte
  <2> DEFINE one == <<c>>
             num == Number(n)
  <2>6. one \in Seq(Byte) /\ Len(one) = 1 /\ one[1] = c
    BY Single
  <2>7. head = one \o num
    BY <2>4, <2>5, <2>6, ConcatEmptySeq
  <2>8. num \in Seq(Byte) /\ Len(num) = 1 /\ num[1] = n
    BY <2>1
  <2> HIDE DEF head, one, num
  <2>9. /\ head \in Seq(Byte) /\ Len(head) = Len(one) + Len(num)
        /\ \A i \in 1 .. Len(one) : head[i] = one[i]
        /\ \A i \in 1 .. Len(num) : head[Len(one) + i] = num[i]
    <3>1. one \in Seq(Byte) /\ num \in Seq(Byte)
      BY <2>6, <2>8
    <3> QED
      BY <2>7, <3>1, Concat
  <2>10. head[1] = c /\ head[2] = n /\ Len(head) = 2
    BY <2>6, <2>8, <2>9
  <2>11. head[1] = 32 * major + 24
    BY <2>5, <2>10, Zenon
  <2>12. ~ (n <= 23)
    BY <1>3, ByteIsInt
  <2> QED
    BY <2>9, <2>10, <2>11, <2>12, Zenon
<1> QED
  BY <1>1, <1>2, <1>3 DEF Byte

\* A string behind its head.
ItemShape(S, item, major, bs) ==
  /\ item \in Seq(S)
  /\ Len(bs) <= 23 => /\ Len(item) = 1 + Len(bs) /\ item[1] = 32 * major + Len(bs)
                      /\ \A i \in 1 .. Len(bs) : item[1 + i] = bs[i]
  /\ Len(bs) > 23 => /\ Len(item) = 2 + Len(bs) /\ item[1] = 32 * major + 24
                     /\ item[2] = Len(bs)
                     /\ \A i \in 1 .. Len(bs) : item[2 + i] = bs[i]

LEMMA HeadAndBytes ==
  ASSUME NEW S, Byte \subseteq S, NEW major \in 0 .. 5, NEW bs \in Seq(S), Len(bs) \in Byte
  PROVE  ItemShape(S, Head5(major, Number(Len(bs))) \o bs, major, bs)
<1> DEFINE n == Len(bs)
           head == Head5(major, Number(n))
           item == head \o bs
<1>1. /\ head \in Seq(Byte)
      /\ n <= 23 => Len(head) = 1 /\ head[1] = 32 * major + n
      /\ n > 23 => Len(head) = 2 /\ head[1] = 32 * major + 24 /\ head[2] = n
  BY HeadOfByte
<1>2. head \in Seq(S)
  BY <1>1, SeqMonotonic
<1> HIDE DEF head
<1>3. /\ item \in Seq(S) /\ Len(item) = Len(head) + n
      /\ \A i \in 1 .. Len(head) : item[i] = head[i]
      /\ \A i \in 1 .. n : item[Len(head) + i] = bs[i]
  BY <1>2, Concat
<1>6. n \in Nat
  BY ByteIsInt
<1> HIDE DEF n, item
<1>4. ASSUME n <= 23
      PROVE  /\ Len(item) = 1 + n /\ item[1] = 32 * major + n
             /\ \A i \in 1 .. n : item[1 + i] = bs[i]
  <2>1. Len(head) = 1 /\ head[1] = 32 * major + n
    BY <1>1, <1>4
  <2> QED
    BY <1>3, <1>6, <2>1
<1>5. ASSUME n > 23
      PROVE  /\ Len(item) = 2 + n /\ item[1] = 32 * major + 24
             /\ item[2] = n
             /\ \A i \in 1 .. n : item[2 + i] = bs[i]
  <2>1. Len(head) = 2 /\ head[1] = 32 * major + 24 /\ head[2] = n
    BY <1>1, <1>5
  <2> QED
    BY <1>3, <1>6, <2>1
<1> QED
  BY <1>3, <1>4, <1>5 DEF n, head, item, ItemShape

LEMMA TextItem ==
  ASSUME NEW bs \in Seq(Byte), Len(bs) <= 23
  PROVE  /\ AddText(bs) \in Seq(Byte) /\ Len(AddText(bs)) = 1 + Len(bs)
         /\ AddText(bs)[1] = 96 + Len(bs)
         /\ At(AddText(bs), 1, bs)
<1>0. Len(bs) \in Byte /\ Byte \subseteq Byte
  BY ByteIsInt
<1>1. Tstr \in 0 .. 5 /\ 32 * Tstr = 96
  BY DEF Tstr
<1>2. ItemShape(Byte, AddText(bs), Tstr, bs)
  BY <1>1, <1>0, HeadAndBytes DEF AddText
<1> QED
  BY <1>1, <1>2 DEF ItemShape, At

LEMMA ShortItem ==
  ASSUME NEW bs \in Seq(Byte), Len(bs) <= 23
  PROVE  /\ AddBytes(bs) \in Seq(Byte) /\ Len(AddBytes(bs)) = 1 + Len(bs)
         /\ AddBytes(bs)[1] = 64 + Len(bs)
         /\ At(AddBytes(bs), 1, bs)
<1>0. Len(bs) \in Byte /\ Byte \subseteq Byte
  BY ByteIsInt
<1>1. Bstr \in 0 .. 5 /\ 32 * Bstr = 64
  BY DEF Bstr
<1>2. ItemShape(Byte, AddBytes(bs), Bstr, bs)
  BY <1>1, <1>0, HeadAndBytes DEF AddBytes
<1> QED
  BY <1>1, <1>2 DEF ItemShape, At

LEMMA LongItem ==
  ASSUME NEW S, Byte \subseteq S, NEW bs \in Seq(S), 23 < Len(bs), Len(bs) <= 255
  PROVE  /\ AddBytes(bs) \in Seq(S) /\ Len(AddBytes(bs)) = 2 + Len(bs)
         /\ AddBytes(bs)[1] = 88 /\ AddBytes(bs)[2] = Len(bs)
         /\ At(AddBytes(bs), 2, bs)
<1>0. Len(bs) \in Byte /\ Byte \subseteq Byte
  BY ByteIsInt
<1>1. Bstr \in 0 .. 5 /\ 32 * Bstr + 24 = 88
  BY DEF Bstr
<1>2. ItemShape(S, AddBytes(bs), Bstr, bs)
  BY <1>1, <1>0, HeadAndBytes DEF AddBytes
<1> QED
  BY <1>1, <1>2 DEF ItemShape, At

\* A number behind zeros, in w bytes.
LEMMA WideHead ==
  ASSUME NEW c \in Byte, NEW num \in Seq(Byte), NEW w \in Nat, Len(num) <= w
  PROVE  LET l == Len(num)
             head == <<c>> \o [i \in 1 .. w - l |-> 0] \o num
         IN /\ head \in Seq(Byte) /\ Len(head) = 1 + w /\ head[1] = c
            /\ \A i \in 1 .. w - l : head[1 + i] = 0
            /\ \A i \in 1 .. l : head[1 + (w - l) + i] = num[i]
<1> DEFINE l == Len(num)
           z == w - l
           one == <<c>>
           zeros == [i \in 1 .. z |-> 0]
           front == one \o zeros
           head == front \o num
<1>1. one \in Seq(Byte) /\ Len(one) = 1 /\ one[1] = c
  BY Single
<1>2. l \in Nat /\ z \in Nat /\ w = z + l
  OBVIOUS
<1>3. zeros \in Seq(Byte) /\ Len(zeros) = z /\ \A i \in 1 .. z : zeros[i] = 0
  BY <1>2 DEF Byte
<1> HIDE DEF z, one, zeros
<1>4. /\ front \in Seq(Byte) /\ Len(front) = Len(one) + Len(zeros)
      /\ \A i \in 1 .. Len(one) : front[i] = one[i]
      /\ \A i \in 1 .. Len(zeros) : front[Len(one) + i] = zeros[i]
  <2>1. one \in Seq(Byte) /\ zeros \in Seq(Byte)
    BY <1>1, <1>3
  <2> QED
    BY <2>1, Concat
<1> HIDE DEF front
<1>5. /\ head \in Seq(Byte) /\ Len(head) = Len(front) + Len(num)
      /\ \A i \in 1 .. Len(front) : head[i] = front[i]
      /\ \A i \in 1 .. Len(num) : head[Len(front) + i] = num[i]
  <2>1. front \in Seq(Byte)
    BY <1>4
  <2> QED
    BY <2>1, Concat
<1> HIDE DEF l, head
<1>6. /\ Len(front) = 1 + z /\ front[1] = c
      /\ \A i \in 1 .. z : front[1 + i] = 0
  <2>1. Len(front) = 1 + z
    BY <1>1, <1>2, <1>3, <1>4
  <2>2. front[1] = c
    BY <1>1, <1>4
  <2>3. \A i \in 1 .. z : front[1 + i] = zeros[i]
    BY <1>1, <1>3, <1>4
  <2> QED
    BY <2>1, <2>2, <2>3, <1>3
<1>7. l = Len(num)
  BY DEF l
<1>8. /\ Len(head) = 1 + w /\ head[1] = c
      /\ \A i \in 1 .. z : head[1 + i] = 0
  BY <1>2, <1>5, <1>6, <1>7
<1>9. \A i \in 1 .. l : head[1 + z + i] = num[i]
  BY <1>2, <1>5, <1>6, <1>7, Z3
<1> QED
  BY <1>5, <1>8, <1>9 DEF front, one, zeros, l, z, head

\* The argument of a head, as the device has it and as the verifier reads it:
\* in the first byte, or in w more, from the first zero on.
Uptime(num) ==
  num \in Seq(Byte) /\ Len(num) <= 7 /\ (Len(num) > 0 => num[1] # 0)

WidthOf(num) ==
  IF Len(num) = 0 \/ (Len(num) = 1 /\ num[1] <= 23) THEN 0
  ELSE IF Len(num) <= 2 THEN Len(num) ELSE IF Len(num) <= 4 THEN 4 ELSE 8

LEMMA WidthIsNat == ASSUME NEW num, Uptime(num) PROVE WidthOf(num) \in {0, 1, 2, 4, 8}
<1>1. Len(num) \in Nat
  BY DEF Uptime
<1> DEFINE l == Len(num)
<1>2. WidthOf(num) = IF l = 0 \/ (l = 1 /\ num[1] <= 23) THEN 0
                     ELSE IF l <= 2 THEN l ELSE IF l <= 4 THEN 4 ELSE 8
  BY DEF WidthOf
<1>3. l \in Nat
  BY <1>1
<1> HIDE DEF l
<1> QED
  BY <1>2, <1>3

UptimeHead(head, num) ==
  LET w == WidthOf(num)
  IN /\ head \in Seq(Byte) /\ Len(head) = 1 + w
     /\ w = 0 => head[1] = (IF Len(num) = 0 THEN 0 ELSE num[1])
     /\ w > 0 => /\ head[1] = CASE w = 1 -> 24 [] w = 2 -> 25 [] w = 4 -> 26 [] w = 8 -> 27
                 /\ \A i \in 1 .. w - Len(num) : head[1 + i] = 0
                 /\ \A i \in 1 .. Len(num) : head[1 + (w - Len(num)) + i] = num[i]

LEMMA HeadOfUptime == ASSUME NEW num, Uptime(num) PROVE UptimeHead(Head5(Uint, num), num)
<1> DEFINE head == Head5(Uint, num)
<1>1. CASE Len(num) = 0
  <2>1. num = <<>>
    BY <1>1, Empty DEF Uptime
  <2>2. head = <<0>>
    BY <2>1, <1>1, ValueOfNone DEF Head5, Uint
  <2> HIDE DEF head
  <2>3. head \in Seq(Byte) /\ Len(head) = 1 /\ head[1] = 0
    BY <2>2, Single DEF Byte
  <2> QED
    BY <1>1, <2>3 DEF head, WidthOf, UptimeHead
<1>2. CASE Len(num) = 1 /\ num[1] <= 23
  <2>1. num[1] \in Byte /\ ValueOf(num) = num[1]
    BY <1>2, ValueOfByte, ElementOfSeq DEF Uptime
  <2>2. PICK c \in Byte : c = num[1]
    BY <2>1
  <2>3. head = <<c>>
    BY <1>2, <2>1, <2>2, ByteIsInt DEF Head5, Uint
  <2> HIDE DEF head
  <2>4. head \in Seq(Byte) /\ Len(head) = 1 /\ head[1] = c
    BY <2>3, Single
  <2> QED
    BY <1>2, <2>2, <2>4 DEF head, WidthOf, UptimeHead
<1>3. CASE ~ (Len(num) = 0 \/ (Len(num) = 1 /\ num[1] <= 23))
  <2> DEFINE w == WidthOf(num)
             c == CASE w = 1 -> 24 [] w = 2 -> 25 [] w = 4 -> 26 [] w = 8 -> 27
             l == Len(num)
  <2>1. l \in 1 .. 7 /\ w \in {1, 2, 4, 8} /\ l <= w
    <3>1. l \in 1 .. 7
      <4>1. l \in Nat /\ l <= 7 /\ l # 0
        BY <1>3 DEF Uptime
      <4> HIDE DEF l
      <4> QED
        BY <4>1
    <3>2. w = IF l <= 2 THEN l ELSE IF l <= 4 THEN 4 ELSE 8
      BY <1>3, Zenon DEF WidthOf
    <3> HIDE DEF l, w
    <3> QED
      BY <3>1, <3>2
  <2>2. head = <<c>> \o [i \in 1 .. w - l |-> 0] \o num
    <3>1. w = CASE l <= 2 -> l [] l \in 3 .. 4 -> 4 [] OTHER -> 8
      <4>1. w = IF l <= 2 THEN l ELSE IF l <= 4 THEN 4 ELSE 8
        BY <1>3, Zenon DEF WidthOf
      <4> HIDE DEF l, w
      <4> QED
        BY <2>1, <4>1
    <3>2. 32 * Uint + c = c /\ c = CASE w = 1 -> 24 [] w = 2 -> 25 [] w = 4 -> 26 [] OTHER -> 27
      BY <2>1 DEF Uint
    <3> QED
      BY <1>3, <3>1, <3>2 DEF Head5
  <2>3. c \in Byte /\ w \in Nat /\ l \in 0 .. w /\ num \in Seq(Byte)
    BY <2>1 DEF Byte, Uptime
  <2>5. l <= w
    BY <2>1
  <2> HIDE DEF head, w, c
  <2>4. /\ head \in Seq(Byte) /\ Len(head) = 1 + w /\ head[1] = c
        /\ \A i \in 1 .. w - l : head[1 + i] = 0
        /\ \A i \in 1 .. l : head[1 + (w - l) + i] = num[i]
    BY SMTT(30), <2>2, <2>3, <2>5, WideHead
  <2> QED
    BY <2>1, <2>4 DEF head, w, c, UptimeHead
<1> QED
  BY <1>1, <1>2, <1>3

\* The heads that are written out in puf_attest.c.
LEMMA SmallHead ==
  ASSUME NEW major \in 0 .. 5, NEW n \in Nat, n <= 23
  PROVE  LET head == Head5(major, Number(n))
         IN head \in Seq(Byte) /\ Len(head) = 1 /\ head[1] = 32 * major + n
<1>1. n \in Byte
  BY ByteIsInt
<1> QED
  BY <1>1, HeadOfByte

LEMMA IssuerIsText == Issuer \in Seq(Byte) /\ Len(Issuer) = 14
  BY DEF Issuer, Byte

LEMMA Mac0IsText == Mac0 \in Seq(Byte) /\ Len(Mac0) = 4
  BY DEF Mac0, Byte

Protected == OpenMap(1) \o AddInt(1) \o AddInt(5)

LEMMA ProtectedShape == Protected \in Seq(Byte) /\ Len(Protected) = 3
<1> DEFINE a1 == OpenMap(1)
           a2 == AddInt(1)
           a3 == AddInt(5)
           q == a1 \o a2
<1>1. a1 \in Seq(Byte) /\ Len(a1) = 1
  BY SmallHead DEF OpenMap, Map
<1>2. a2 \in Seq(Byte) /\ Len(a2) = 1
  BY SmallHead DEF AddInt, Uint
<1>3. a3 \in Seq(Byte) /\ Len(a3) = 1
  BY SmallHead DEF AddInt, Uint
<1> HIDE DEF a1, a2, a3
<1>4. q \in Seq(Byte) /\ Len(q) = Len(a1) + Len(a2)
  <2>1. a1 \in Seq(Byte) /\ a2 \in Seq(Byte)
    BY <1>1, <1>2
  <2> QED
    BY <2>1, Concat
<1> HIDE DEF q
<1>5. q \o a3 \in Seq(Byte) /\ Len(q \o a3) = Len(q) + Len(a3)
  <2>1. q \in Seq(Byte) /\ a3 \in Seq(Byte)
    BY <1>3, <1>4
  <2> QED
    BY <2>1, Concat
<1>6. Protected = q \o a3
  BY DEF Protected, q, a1, a2, a3
<1> QED
  BY <1>1, <1>2, <1>3, <1>4, <1>5, <1>6

\* Where the parts of a payload are; w is the width of its iat.
PayloadShape(bs, ms, n) ==
  LET w == WidthOf(ms)
  IN /\ bs \in Seq(Byte) /\ Len(bs) = 54 + w
     /\ At(bs, 0, OpenMap(3))
     /\ At(bs, 1, AddInt(1)) /\ At(bs, 2, AddText(Issuer))
     /\ At(bs, 17, AddInt(6)) /\ At(bs, 18, Head5(Uint, ms))
     /\ At(bs, 19 + w, AddInt(-1)) /\ At(bs, 20 + w, AddBytes(n))

LEMMA ClaimsShape ==
  ASSUME NEW ms, Uptime(ms), nonce \in [1 .. 32 -> Byte]
  PROVE  PayloadShape(Claims(ms), ms, nonce)
<1> DEFINE w == WidthOf(ms)
           a1 == OpenMap(3)
           a2 == AddInt(1)
           a3 == AddText(Issuer)
           a4 == AddInt(6)
           a5 == Head5(Uint, ms)
           a6 == AddInt(-1)
           a7 == AddBytes(nonce)
           q2 == a1 \o a2
           q3 == q2 \o a3
           q4 == q3 \o a4
           q5 == q4 \o a5
           q6 == q5 \o a6
           q7 == q6 \o a7
<1>1. a1 \in Seq(Byte) /\ Len(a1) = 1
  BY SmallHead DEF OpenMap, Map
<1>2. a2 \in Seq(Byte) /\ Len(a2) = 1
  BY SmallHead DEF AddInt, Uint
<1>3. a3 \in Seq(Byte) /\ Len(a3) = 15
  <2>1. Issuer \in Seq(Byte) /\ Len(Issuer) <= 23
    BY IssuerIsText
  <2>2. a3 \in Seq(Byte) /\ Len(a3) = 1 + Len(Issuer)
    BY <2>1, TextItem
  <2> QED
    BY <2>2, IssuerIsText
<1>4. a4 \in Seq(Byte) /\ Len(a4) = 1
  BY SmallHead DEF AddInt, Uint
<1>5. a5 \in Seq(Byte) /\ Len(a5) = 1 + w /\ w \in Nat
  <2>1. w \in Nat
    BY WidthIsNat
  <2>2. UptimeHead(a5, ms)
    BY HeadOfUptime
  <2> QED
    BY <2>1, <2>2 DEF UptimeHead
<1>6. a6 \in Seq(Byte) /\ Len(a6) = 1
  <2>1. a6 = Head5(Nint, Number(0))
    <3>1. ~ (-1 >= 0) /\ -1 - (-1) = 0
      OBVIOUS
    <3> QED
      BY <3>1, Zenon DEF AddInt
  <2>2. Nint \in 0 .. 5 /\ 0 \in Nat /\ 0 <= 23
    BY DEF Nint
  <2> HIDE DEF a6
  <2> QED
    BY <2>1, <2>2, SmallHead
<1>7. a7 \in Seq(Byte) /\ Len(a7) = 34
  <2>1. nonce \in Seq(Byte) /\ Len(nonce) = 32
    BY NonceIsSeq
  <2>2. /\ nonce \in Seq(Byte) /\ 23 < Len(nonce) /\ Len(nonce) <= 255
        /\ Byte \subseteq Byte
    BY <2>1
  <2>3. a7 \in Seq(Byte) /\ Len(a7) = 2 + Len(nonce)
    BY <2>2, LongItem
  <2> QED
    BY <2>1, <2>3
<1> HIDE DEF w, a1, a2, a3, a4, a5, a6, a7
<1>8. q2 \in Seq(Byte) /\ Len(q2) = 2 /\ At(q2, 0, a1) /\ At(q2, 1, a2)
  <2>1. a1 \in Seq(Byte) /\ a2 \in Seq(Byte)
    BY <1>1, <1>2
  <2>2. /\ q2 \in Seq(Byte) /\ Len(q2) = Len(a1) + Len(a2)
        /\ At(q2, 0, a1) /\ At(q2, Len(a1), a2)
    BY <2>1, Joined
  <2> HIDE DEF q2
  <2> QED
    BY <1>1, <1>2, <2>1, <2>2
<1> HIDE DEF q2
<1>9. q3 \in Seq(Byte) /\ Len(q3) = 17 /\ At(q3, 0, q2) /\ At(q3, 2, a3)
  <2>1. q2 \in Seq(Byte) /\ a3 \in Seq(Byte)
    BY <1>8, <1>3
  <2>2. /\ q3 \in Seq(Byte) /\ Len(q3) = Len(q2) + Len(a3)
        /\ At(q3, 0, q2) /\ At(q3, Len(q2), a3)
    BY <2>1, Joined
  <2> HIDE DEF q3
  <2> QED
    BY <1>8, <1>3, <2>1, <2>2
<1> HIDE DEF q3
<1>10. q4 \in Seq(Byte) /\ Len(q4) = 18 /\ At(q4, 0, q3) /\ At(q4, 17, a4)
  <2>1. q3 \in Seq(Byte) /\ a4 \in Seq(Byte)
    BY <1>9, <1>4
  <2>2. /\ q4 \in Seq(Byte) /\ Len(q4) = Len(q3) + Len(a4)
        /\ At(q4, 0, q3) /\ At(q4, Len(q3), a4)
    BY <2>1, Joined
  <2> HIDE DEF q4
  <2> QED
    BY <1>9, <1>4, <2>1, <2>2
<1> HIDE DEF q4
<1>11. q5 \in Seq(Byte) /\ Len(q5) = 19 + w /\ At(q5, 0, q4) /\ At(q5, 18, a5)
  <2>1. q4 \in Seq(Byte) /\ a5 \in Seq(Byte)
    BY <1>10, <1>5
  <2>2. /\ q5 \in Seq(Byte) /\ Len(q5) = Len(q4) + Len(a5)
        /\ At(q5, 0, q4) /\ At(q5, Len(q4), a5)
    BY <2>1, Joined
  <2> HIDE DEF q5
  <2> QED
    BY <1>10, <1>5, <2>1, <2>2
<1> HIDE DEF q5
<1>12. q6 \in Seq(Byte) /\ Len(q6) = 20 + w /\ At(q6, 0, q5) /\ At(q6, 19 + w, a6)
  <2>1. q5 \in Seq(Byte) /\ a6 \in Seq(Byte)
    BY <1>11, <1>6
  <2>2. /\ q6 \in Seq(Byte) /\ Len(q6) = Len(q5) + Len(a6)
        /\ At(q6, 0, q5) /\ At(q6, Len(q5), a6)
    BY <2>1, Joined
  <2> HIDE DEF q6
  <2> QED
    BY <1>11, <1>5, <1>6, <2>1, <2>2
<1> HIDE DEF q6
<1>13. q7 \in Seq(Byte) /\ Len(q7) = 54 + w /\ At(q7, 0, q6) /\ At(q7, 20 + w, a7)
  <2>1. q6 \in Seq(Byte) /\ a7 \in Seq(Byte)
    BY <1>12, <1>7
  <2>2. /\ q7 \in Seq(Byte) /\ Len(q7) = Len(q6) + Len(a7)
        /\ At(q7, 0, q6) /\ At(q7, Len(q6), a7)
    BY <2>1, Joined
  <2> HIDE DEF q7
  <2> QED
    BY <1>12, <1>5, <1>7, <2>1, <2>2
<1> HIDE DEF q7
<1>14. At(q7, 0, q5) /\ At(q7, 0, q4) /\ At(q7, 0, q3) /\ At(q7, 0, q2)
  <2>1. At(q7, 0 + 0, q5)
    <3>1. Len(q5) \in Nat /\ Len(q6) \in Nat /\ 0 + Len(q5) <= Len(q6)
      BY <1>5, <1>11, <1>12
    <3>2. At(q7, 0, q6) /\ At(q6, 0, q5)
      BY <1>12, <1>13
    <3> QED
      BY <3>1, <3>2, Within
  <2>2. At(q7, 0 + 0, q4)
    <3>1. Len(q4) \in Nat /\ Len(q5) \in Nat /\ 0 + Len(q4) <= Len(q5)
      BY <1>5, <1>10, <1>11
    <3>2. At(q7, 0, q5) /\ At(q5, 0, q4)
      BY <1>11, <2>1
    <3> QED
      BY <3>1, <3>2, Within
  <2>3. At(q7, 0 + 0, q3)
    <3>1. Len(q3) \in Nat /\ Len(q4) \in Nat /\ 0 + Len(q3) <= Len(q4)
      BY <1>9, <1>10
    <3>2. At(q7, 0, q4) /\ At(q4, 0, q3)
      BY <1>10, <2>2
    <3> QED
      BY <3>1, <3>2, Within
  <2>4. At(q7, 0 + 0, q2)
    <3>1. Len(q2) \in Nat /\ Len(q3) \in Nat /\ 0 + Len(q2) <= Len(q3)
      BY <1>8, <1>9
    <3>2. At(q7, 0, q3) /\ At(q3, 0, q2)
      BY <1>9, <2>3
    <3> QED
      BY <3>1, <3>2, Within
  <2> QED
    BY <2>1, <2>2, <2>3, <2>4
<1>15. /\ At(q7, 0 + 0, a1) /\ At(q7, 0 + 1, a2) /\ At(q7, 0 + 2, a3) /\ At(q7, 0 + 17, a4)
       /\ At(q7, 0 + 18, a5) /\ At(q7, 0 + (19 + w), a6) /\ At(q7, 20 + w, a7)
  <2>1. At(q7, 0 + 0, a1)
    <3>1. Len(a1) \in Nat /\ Len(q2) \in Nat /\ 0 + Len(a1) <= Len(q2)
      BY <1>1, <1>8
    <3>2. At(q7, 0, q2) /\ At(q2, 0, a1)
      BY <1>8, <1>14
    <3> QED
      BY <3>1, <3>2, Within
  <2>2. At(q7, 0 + 1, a2)
    <3>1. Len(a2) \in Nat /\ Len(q2) \in Nat /\ 1 + Len(a2) <= Len(q2)
      BY <1>2, <1>8
    <3>2. At(q7, 0, q2) /\ At(q2, 1, a2)
      BY <1>8, <1>14
    <3> QED
      BY <3>1, <3>2, Within
  <2>3. At(q7, 0 + 2, a3)
    <3>1. Len(a3) \in Nat /\ Len(q3) \in Nat /\ 2 + Len(a3) <= Len(q3)
      BY <1>3, <1>9
    <3>2. At(q7, 0, q3) /\ At(q3, 2, a3)
      BY <1>9, <1>14
    <3> QED
      BY <3>1, <3>2, Within
  <2>4. At(q7, 0 + 17, a4)
    <3>1. Len(a4) \in Nat /\ Len(q4) \in Nat /\ 17 + Len(a4) <= Len(q4)
      BY <1>4, <1>10
    <3>2. At(q7, 0, q4) /\ At(q4, 17, a4)
      BY <1>10, <1>14
    <3> QED
      BY <3>1, <3>2, Within
  <2>5. At(q7, 0 + 18, a5)
    <3>1. Len(a5) \in Nat /\ Len(q5) \in Nat /\ 18 + Len(a5) <= Len(q5)
      BY <1>5, <1>11
    <3>2. At(q7, 0, q5) /\ At(q5, 18, a5)
      BY <1>11, <1>14
    <3> QED
      BY <3>1, <3>2, Within
  <2>6. At(q7, 0 + (19 + w), a6)
    <3>1. /\ Len(a6) \in Nat /\ Len(q6) \in Nat /\ 19 + w + Len(a6) <= Len(q6)
          /\ 0 \in Nat /\ 19 + w \in Nat
      BY <1>5, <1>6, <1>12
    <3>2. At(q7, 0, q6) /\ At(q6, 19 + w, a6)
      BY <1>12, <1>13
    <3> DEFINE m == 19 + w
    <3> HIDE DEF m
    <3>3. At(q7, 0 + m, a6)
      <4>1. /\ Len(a6) \in Nat /\ Len(q6) \in Nat /\ m + Len(a6) <= Len(q6)
            /\ 0 \in Nat /\ m \in Nat /\ At(q6, m, a6)
        BY <3>1, <3>2 DEF m
      <4> QED
        BY <4>1, <3>2, Within
    <3> QED
      BY <3>3 DEF m
  <2> QED
    BY <1>13, <2>1, <2>2, <2>3, <2>4, <2>5, <2>6
<1>16. /\ At(q7, 0, a1) /\ At(q7, 1, a2) /\ At(q7, 2, a3) /\ At(q7, 17, a4)
       /\ At(q7, 18, a5) /\ At(q7, 19 + w, a6) /\ At(q7, 20 + w, a7)
  <2>1. 0 + 0 = 0 /\ 0 + 1 = 1 /\ 0 + 2 = 2 /\ 0 + 17 = 17 /\ 0 + 18 = 18 /\ 0 + (19 + w) = 19 + w
    BY <1>5
  <2> QED
    BY <1>15, <2>1, Zenon
<1>18. Claims(ms) = q7
  BY DEF Claims, q7, q6, q5, q4, q3, q2, a1, a2, a3, a4, a5, a6, a7
<1>17. q7 \in Seq(Byte) /\ Len(q7) = 54 + w
  BY <1>13
<1> QED
  BY <1>16, <1>17, <1>18, Zenon DEF PayloadShape, w, a1, a2, a3, a4, a5, a6, a7

-----------------------------------------------------------------------------
\* The decoder

\* bs is in data, l elements after the first n.
Holds(S, data, n, l, bs) ==
  /\ data \in Seq(S) /\ bs \in Seq(S) /\ l = Len(bs)
  /\ At(data, n, bs) /\ n + l <= Len(data)

Part(data, n, l) == SubSeq(data, n + 1, n + l)

LEMMA PartOf ==
  ASSUME NEW S, NEW data, NEW bs, NEW n \in Nat, NEW l \in Nat, Holds(S, data, n, l, bs)
  PROVE  Part(data, n, l) = bs
<1> DEFINE part == SubSeq(data, n + 1, n + l)
<1>1. part = [i \in 1 .. l |-> data[n + i]]
  <2>1. (n + l) - (n + 1) + 1 = l /\ \A i \in 1 .. l : n + 1 + i - 1 = n + i
    OBVIOUS
  <2> QED
    BY <2>1
<1>2. \A i \in 1 .. l : data[n + i] = bs[i]
  BY DEF Holds, At
<1>3. bs = [i \in 1 .. l |-> bs[i]]
  BY DEF Holds
<1> QED
  BY <1>1, <1>2, <1>3, Zenon DEF Part

LEMMA FirstByte ==
  ASSUME NEW major \in 0 .. 5, NEW k \in 0 .. 31
  PROVE  (32 * major + k) \div 32 = major /\ (32 * major + k) % 32 = k
  OBVIOUS

LEMMA SmallArgument ==
  ASSUME NEW data, NEW pos \in Nat, NEW major \in 0 .. 5, NEW k \in Nat, k <= 23,
         data[pos] = 32 * major + k
  PROVE  /\ data[pos] \div 32 = major /\ data[pos] % 32 = k
         /\ Argument(data, pos) = Number(k) /\ After(data, pos) = pos + 1
<1>1. k \in 0 .. 31
  OBVIOUS
<1>2. data[pos] \div 32 = major /\ data[pos] % 32 = k
  BY <1>1, FirstByte
<1>3. ArgWidth(k) = 0
  BY DEF ArgWidth
<1> QED
  BY <1>2, <1>3 DEF Argument, After

\* An integer in its first byte.
LEMMA SmallInt ==
  ASSUME NEW data, NEW pos \in Nat, NEW major \in {Uint, Nint}, NEW k \in Nat, k <= 23,
         data[pos] = 32 * major + k
  PROVE  InnerItem(data, pos) = [item |-> [major |-> major, val |-> Number(k)], pos |-> pos + 1]
<1>1. major \in 0 .. 5 /\ ~ (k > 26)
  BY DEF Uint, Nint
<1>2. /\ data[pos] \div 32 = major /\ data[pos] % 32 = k
      /\ Argument(data, pos) = Number(k) /\ After(data, pos) = pos + 1
  BY <1>1, SmallArgument
<1>3. major \notin {Bstr, Tstr} /\ major \notin {List, Map}
  BY DEF Uint, Nint, Bstr, Tstr, List, Map
<1> QED
  BY <1>1, <1>2, <1>3, Zenon DEF InnerItem

LEMMA ValueOfNumber == ASSUME NEW n \in Byte PROVE ValueOf(Number(n)) = n
<1>1. CASE n = 0
  BY <1>1, NumberOfByte, ValueOfNone
<1>2. CASE n # 0
  BY <1>2, NumberOfByte, ValueOfByte
<1> QED
  BY <1>1, <1>2

\* InnerItem's case of a string.
LEMMA StringItem ==
  ASSUME NEW data, NEW pos, data[pos] \div 32 \notin {Uint, Nint},
         data[pos] \div 32 \in {Bstr, Tstr}, data[pos] \div 32 \notin {List, Map}
  PROVE  InnerItem(data, pos)
           = [item |-> [major |-> data[pos] \div 32,
                        val |-> SubSeq(data, After(data, pos),
                                       (After(data, pos) + ValueOf(Argument(data, pos))) - 1)],
              pos |-> After(data, pos) + ValueOf(Argument(data, pos))]
<1> DEFINE b == data[pos] \div 32
           end == After(data, pos) + ValueOf(Argument(data, pos))
           number == [item |-> IF data[pos] % 32 > 26 THEN Absent
                               ELSE [major |-> b, val |-> Argument(data, pos)],
                      pos |-> After(data, pos)]
           string == [item |-> [major |-> b, val |-> SubSeq(data, After(data, pos), end - 1)],
                      pos |-> end]
           none == [item |-> [major |-> b, val |-> <<>>], pos |-> After(data, pos)]
<1>1. InnerItem(data, pos) = CASE b \in {Uint, Nint} -> number
                               [] b \in {Bstr, Tstr} -> string
                               [] b \in {List, Map} -> none
  BY Zenon DEF InnerItem
<1>2. InnerItem(data, pos) = string
  <2> HIDE DEF number, string, none
  <2> QED
    BY <1>1, Zenon
<1> QED
  BY <1>2

\* A string whose length is in the first byte.
LEMMA SmallString ==
  ASSUME NEW S, NEW data, NEW bs, NEW pos \in Nat,
         NEW major \in {Bstr, Tstr}, NEW k \in Nat, k <= 23,
         data[pos] = 32 * major + k, Holds(S, data, pos, k, bs)
  PROVE  InnerItem(data, pos) = [item |-> [major |-> major, val |-> bs], pos |-> pos + 1 + k]
<1>1. major \in 0 .. 5
  BY DEF Bstr, Tstr
<1>2. /\ data[pos] \div 32 = major /\ data[pos] % 32 = k
      /\ Argument(data, pos) = Number(k) /\ After(data, pos) = pos + 1
  BY <1>1, SmallArgument
<1>3. major \notin {Uint, Nint} /\ major \notin {List, Map}
  BY DEF Uint, Nint, Bstr, Tstr, List, Map
<1>4. ValueOf(Number(k)) = k
  <2>1. k \in Byte
    BY ByteIsInt
  <2> QED
    BY <2>1, ValueOfNumber
<1>5. SubSeq(data, pos + 1, pos + k) = bs
  <2>1. Part(data, pos, k) = bs
    BY PartOf
  <2> QED
    BY <2>1 DEF Part
<1>6. ((pos + 1) + k) - 1 = pos + k
  OBVIOUS
<1>7. InnerItem(data, pos)
        = [item |-> [major |-> major, val |-> SubSeq(data, pos + 1, ((pos + 1) + k) - 1)],
           pos |-> (pos + 1) + k]
  <2> DEFINE b == data[pos] \div 32
  <2>1. b \notin {Uint, Nint} /\ b \in {Bstr, Tstr} /\ b \notin {List, Map}
    BY <1>2, <1>3, Zenon
  <2>2. InnerItem(data, pos)
          = [item |-> [major |-> b,
                       val |-> SubSeq(data, After(data, pos),
                                      (After(data, pos) + ValueOf(Argument(data, pos))) - 1)],
             pos |-> After(data, pos) + ValueOf(Argument(data, pos))]
    BY <2>1, StringItem
  <2> QED
    BY <1>2, <1>4, <2>2, Zenon
<1> QED
  BY <1>5, <1>6, <1>7, Zenon

LEMMA StripOne ==
  ASSUME NEW k \in Byte, k # 0
  PROVE  Strip(<<k>>) = <<k>>
<1> DEFINE bs == <<k>>
<1>1. bs \in Seq(Byte) /\ Len(bs) = 1 /\ bs[1] = k
  BY Single
<1> HIDE DEF bs
<1>2. SubSeq(bs, 1, Len(bs)) = bs
  BY <1>1, SubSeqFull
<1>3. 0 \in 0 .. Len(bs) /\ (\A j \in 1 .. 0 : bs[j] = 0) /\ (0 < Len(bs) => bs[0 + 1] # 0)
  BY <1>1
<1>4. Strip(bs) = SubSeq(bs, 0 + 1, Len(bs)) /\ 0 + 1 = 1
  BY <1>1, <1>3, StripZeros
<1> QED
  BY <1>1, <1>2, <1>4 DEF bs

\* A string whose length is in a byte of its own.
LEMMA LongString ==
  ASSUME NEW S, NEW data, NEW bs, NEW pos \in Nat, NEW k \in Byte, k > 23,
         data[pos] = 88, data[pos + 1] = k, Holds(S, data, pos + 1, k, bs)
  PROVE  InnerItem(data, pos) = [item |-> [major |-> Bstr, val |-> bs], pos |-> pos + 2 + k]
<1>1. k \in Nat /\ k # 0
  BY ByteIsInt
<1>2. data[pos] \div 32 = Bstr /\ data[pos] % 32 = 24
  BY DEF Bstr
<1>3. Bstr \notin {Uint, Nint} /\ Bstr \in {Bstr, Tstr} /\ Bstr \notin {List, Map}
  BY DEF Uint, Nint, Bstr, Tstr, List, Map
<1>4. Argument(data, pos) = <<k>> /\ After(data, pos) = pos + 1 + 1
  <2>1. ArgWidth(24) = 1 /\ ~ (24 <= 23)
    BY DEF ArgWidth
  <2>2. SubSeq(data, pos + 1, pos + 1) = <<k>>
    <3>1. data \in Seq(S) /\ pos + 1 \in 1 .. Len(data)
      BY <1>1 DEF Holds
    <3>2. SubSeq(data, pos + 1, pos + 1)
            = <<data[pos + 1]>> \o SubSeq(data, (pos + 1) + 1, pos + 1)
      <4> DEFINE m == pos + 1
      <4>1. m \in 1 .. Len(data) /\ m \in m .. Len(data)
        BY <3>1
      <4> HIDE DEF m
      <4>2. SubSeq(data, m, m) = <<data[m]>> \o SubSeq(data, m + 1, m)
        BY <3>1, <4>1, SubSeqRecursiveFirst
      <4> QED
        BY <4>2 DEF m
    <3>3. SubSeq(data, (pos + 1) + 1, pos + 1) = <<>>
      BY SubSeqEmpty
    <3> QED
      BY <3>2, <3>3, Single, ConcatEmptySeq, Zenon
  <2>3. Argument(data, pos) = Strip(SubSeq(data, pos + 1, pos + 1))
    BY <1>2, <2>1, Zenon DEF Argument
  <2>4. After(data, pos) = pos + 1 + 1
    BY <1>2, <2>1, Zenon DEF After
  <2> QED
    BY <1>1, <2>2, <2>3, <2>4, StripOne
<1>5. ValueOf(<<k>>) = k
  BY ZenonT(30), Single, ValueOfByte
<1>6. SubSeq(data, (pos + 1) + 1, (pos + 1) + k) = bs
  <2>1. pos + 1 \in Nat
    OBVIOUS
  <2>2. Part(data, pos + 1, k) = bs
    BY <1>1, <2>1, PartOf
  <2> QED
    BY <2>2 DEF Part
<1>7. ((pos + 1 + 1) + k) - 1 = (pos + 1) + k /\ (pos + 1 + 1) + k = pos + 2 + k
  BY <1>1
<1>8. InnerItem(data, pos)
        = [item |-> [major |-> Bstr, val |-> SubSeq(data, pos + 1 + 1, ((pos + 1 + 1) + k) - 1)],
           pos |-> (pos + 1 + 1) + k]
  <2> DEFINE b == data[pos] \div 32
  <2>1. b \notin {Uint, Nint} /\ b \in {Bstr, Tstr} /\ b \notin {List, Map}
    BY <1>2, <1>3, Zenon
  <2>2. InnerItem(data, pos)
          = [item |-> [major |-> b,
                       val |-> SubSeq(data, After(data, pos),
                                      (After(data, pos) + ValueOf(Argument(data, pos))) - 1)],
             pos |-> After(data, pos) + ValueOf(Argument(data, pos))]
    BY <2>1, StringItem
  <2> QED
    BY <1>2, <1>4, <1>5, <2>2, Zenon
<1> QED
  BY <1>6, <1>7, <1>8, Zenon

\* The map of the token's unprotected header has no items.
LEMMA EmptyMap ==
  ASSUME NEW data, NEW pos \in Nat, data[pos] = 160
  PROVE  InnerItem(data, pos) = [item |-> [major |-> Map, val |-> <<>>], pos |-> pos + 1]
<1>1. Map \in 0 .. 5 /\ 0 \in Nat /\ 0 <= 23 /\ data[pos] = 32 * Map + 0
  BY DEF Map
<1>2. data[pos] \div 32 = Map /\ After(data, pos) = pos + 1
  BY <1>1, SmallArgument
<1>3. Map \notin {Uint, Nint} /\ Map \notin {Bstr, Tstr} /\ Map \in {List, Map}
  BY DEF Uint, Nint, Bstr, Tstr, List, Map
<1> QED
  BY <1>2, <1>3, Zenon DEF InnerItem

\* Reading back a number behind zeros.
LEMMA StripWide ==
  ASSUME NEW bs \in Seq(Byte), NEW num, Uptime(num), Len(num) > 0, NEW z \in Nat,
         Len(bs) = z + Len(num), \A i \in 1 .. z : bs[i] = 0, At(bs, z, num)
  PROVE  Strip(bs) = num
<1> DEFINE l == Len(num)
<1>1. l \in Nat /\ num \in Seq(Byte) /\ num[1] # 0
  BY DEF Uptime
<1>2. bs[z + 1] # 0
  <2>1. 1 \in Nat /\ 1 <= 1 /\ 1 <= Len(num)
    BY <1>1
  <2>2. bs[z + 1] = num[1]
    BY <2>1, Zenon DEF At
  <2> QED
    BY <1>1, <2>2
<1>3. Strip(bs) = SubSeq(bs, z + 1, Len(bs))
  <2>1. z \in 0 .. Len(bs)
    BY <1>1
  <2> QED
    BY <1>2, <2>1, StripZeros
<1>4. Holds(Byte, bs, z, l, num)
  BY <1>1 DEF Holds
<1>5. Part(bs, z, l) = num
  BY <1>1, <1>4, PartOf
<1> QED
  BY <1>3, <1>5, Zenon DEF Part

\* What the verifier reads of an iat of less than 64 bits.
LEMMA UptimeItem ==
  ASSUME NEW data \in Seq(Byte), NEW n \in Nat, NEW num, Uptime(num), WidthOf(num) # 8,
         At(data, n, Head5(Uint, num)), n + 1 + WidthOf(num) <= Len(data)
  PROVE  InnerItem(data, n + 1)
           = [item |-> [major |-> Uint, val |-> num], pos |-> n + 2 + WidthOf(num)]
<1> DEFINE w == WidthOf(num)
           l == Len(num)
           head == Head5(Uint, num)
           pos == n + 1
<1>1. UptimeHead(head, num)
  BY HeadOfUptime
<1>2. w \in {0, 1, 2, 4}
  BY WidthIsNat
<1>3. l \in Nat
  BY DEF Uptime
<1>4. CASE w = 0
  <2> DEFINE k == IF l = 0 THEN 0 ELSE num[1]
  <2>1. k \in Nat /\ k <= 23 /\ Number(k) = num
    <3>1. CASE l = 0
      <4>1. num = <<>>
        BY <3>1, Empty DEF Uptime
      <4>2. 0 \in Byte
        BY DEF Byte
      <4> QED
        BY <3>1, <4>1, <4>2, NumberOfByte
    <3>2. CASE l # 0
      <4>1. l = 1 /\ num[1] <= 23
        BY <1>3, <1>4, <3>2 DEF WidthOf
      <4>2. num \in Seq(Byte) /\ num[1] # 0 /\ num[1] \in Byte
        <5>1. num \in Seq(Byte) /\ num[1] # 0 /\ 1 \in 1 .. Len(num)
          BY <4>1 DEF Uptime
        <5> QED
          BY <5>1, ElementOfSeq
      <4>3. /\ Number(num[1]) \in Seq(Byte) /\ Len(Number(num[1])) = 1
            /\ Number(num[1])[1] = num[1]
        BY <4>2, NumberOfByte
      <4>4. Number(num[1]) = num
        BY <4>1, <4>2, <4>3, SeqEqual
      <4> QED
        BY <3>2, <4>1, <4>2, <4>4, ByteIsInt
    <3> QED
      BY <3>1, <3>2
  <2>2. data[pos] = k
    <3>1. Len(head) = 1 /\ head[1] = k
      BY <1>1, <1>4 DEF UptimeHead
    <3>2. 1 \in Nat /\ 1 <= 1 /\ 1 <= Len(head)
      BY <3>1
    <3> QED
      BY <3>1, <3>2, Zenon DEF At
  <2> HIDE DEF k, w
  <2>3. 32 * Uint + k = k /\ Uint \in {Uint, Nint} /\ pos \in Nat
    BY <2>1 DEF Uint
  <2> HIDE DEF pos
  <2>4. InnerItem(data, pos) = [item |-> [major |-> Uint, val |-> Number(k)], pos |-> pos + 1]
    BY <2>1, <2>2, <2>3, SmallInt
  <2>5. pos + 1 = n + 2 + w
    BY <1>4 DEF pos
  <2> QED
    BY <2>1, <2>4, <2>5, Zenon DEF pos, w
<1>5. CASE w # 0
  <2> DEFINE c == CASE w = 1 -> 24 [] w = 2 -> 25 [] w = 4 -> 26 [] w = 8 -> 27
             bs == SubSeq(data, pos + 1, pos + w)
             z == w - l
  <2>1. w \in {1, 2, 4} /\ l \in Nat /\ 0 < l /\ l <= w /\ z \in Nat /\ w = z + l
    <3>1. ~ (l = 0 \/ (l = 1 /\ num[1] <= 23))
      BY <1>5 DEF WidthOf
    <3>2. w = IF l <= 2 THEN l ELSE IF l <= 4 THEN 4 ELSE 8
      BY <3>1, Zenon DEF WidthOf
    <3> HIDE DEF w, l
    <3>3. w \in {1, 2, 4} /\ l \in Nat /\ 0 < l /\ l <= w
      BY <1>2, <1>3, <1>5, <3>1, <3>2
    <3> QED
      BY <3>3
  <2>2. /\ Len(head) = 1 + w /\ head[1] = c
        /\ \A i \in 1 .. z : head[1 + i] = 0
        /\ \A i \in 1 .. l : head[1 + z + i] = num[i]
    BY <1>1, <2>1 DEF UptimeHead
  <2>3. c % 32 = c /\ c \div 32 = Uint /\ ArgWidth(c) = w /\ ~ (c <= 23) /\ ~ (c > 26)
    BY <2>1 DEF ArgWidth, Uint
  <2> HIDE DEF w, z, l, head, c
  <2>4. /\ data[pos] = c
        /\ \A i \in 1 .. w : data[pos + i] = head[1 + i]
    <3>1. 1 \in Nat /\ 1 <= 1 /\ 1 <= Len(head)
      BY <2>1, <2>2
    <3>2. data[n + 1] = c
      BY <2>2, <3>1, Zenon DEF At, head
    <3>3. \A i \in 1 .. w : data[n + (1 + i)] = head[1 + i]
      BY <2>1, <2>2 DEF At, head
    <3> QED
      BY <3>2, <3>3, <2>1
  <2>5. /\ bs \in Seq(Byte) /\ Len(bs) = z + l
        /\ \A i \in 1 .. w : bs[i] = data[pos + i]
    <3>1. pos + w <= Len(data)
      BY DEF w
    <3>2. bs = [i \in 1 .. w |-> data[pos + i]]
      BY <2>1
    <3>3. \A i \in 1 .. w : data[pos + i] \in Byte
      BY <2>1, <3>1, ElementOfSeq
    <3> HIDE DEF bs, pos
    <3> QED
      BY <2>1, <3>2, <3>3
  <2> HIDE DEF bs
  <2>6. Strip(bs) = num
    <3> HIDE DEF pos
    <3>1. ASSUME NEW i \in 1 .. z PROVE bs[i] = 0
      <4>1. i \in 1 .. w
        BY <2>1
      <4> QED
        BY <4>1, <2>2, <2>4, <2>5, Zenon
    <3>2. At(bs, z, num)
      <4> SUFFICES ASSUME NEW i \in Nat, 1 <= i, i <= Len(num) PROVE bs[z + i] = num[i]
        BY DEF At
      <4>1. z + i \in 1 .. w /\ i \in 1 .. l /\ 1 + z + i = 1 + (z + i)
        BY <2>1 DEF l
      <4>2. bs[z + i] = head[1 + (z + i)]
        BY <4>1, <2>4, <2>5, Zenon
      <4>3. head[1 + z + i] = num[i]
        BY <4>1, <2>2, Zenon
      <4> QED
        BY <4>1, <4>2, <4>3, Zenon
    <3> QED
      BY <2>1, <2>5, <3>1, <3>2, StripWide DEF l
  <2>7. Argument(data, pos) = num
    BY <2>3, <2>4, <2>6, Zenon DEF Argument, bs
  <2>8. After(data, pos) = pos + 1 + w
    BY <2>3, <2>4, Zenon DEF After
  <2>9. Uint \in {Uint, Nint} /\ Uint \notin {Bstr, Tstr} /\ Uint \notin {List, Map}
    BY DEF Uint, Nint, Bstr, Tstr, List, Map
  <2>10. pos + 1 + w = n + 2 + w
    BY <2>1
  <2> HIDE DEF pos
  <2>11. InnerItem(data, pos)
           = [item |-> [major |-> Uint, val |-> num], pos |-> n + 2 + w]
    BY <2>3, <2>4, <2>7, <2>8, <2>9, <2>10, Zenon DEF InnerItem
  <2> QED
    BY <2>11, Zenon DEF pos, w
<1> QED
  BY <1>4, <1>5

\* A list or map of n items, at the positions p.
LEMMA Items ==
  ASSUME NEW data, NEW n \in 0 .. 6, NEW p, data[1] \div 32 \in {List, Map},
         n = (IF data[1] \div 32 = Map THEN 2 ELSE 1) * ValueOf(Argument(data, 1)),
         p[1] = After(data, 1), \A i \in 1 .. n : p[i + 1] = InnerItem(data, p[i]).pos
  PROVE  cbor_decode(data)
           = [major |-> data[1] \div 32, val |-> [i \in 1 .. n |-> InnerItem(data, p[i]).item]]
<1> DEFINE size == (IF data[1] \div 32 = Map THEN 2 ELSE 1) * ValueOf(Argument(data, 1))
           at == CHOOSE g : g = [i \in 0 .. n |-> IF i = 0 THEN After(data, 1)
                                                  ELSE InnerItem(data, g[i - 1]).pos]
           sized == CHOOSE g : g = [i \in 0 .. size |-> IF i = 0 THEN After(data, 1)
                                                        ELSE InnerItem(data, g[i - 1]).pos]
           w == [i \in 0 .. n |-> p[i + 1]]
<1>1. at = [i \in 0 .. n |-> IF i = 0 THEN After(data, 1) ELSE InnerItem(data, at[i - 1]).pos]
  <2>1. w = [i \in 0 .. n |-> IF i = 0 THEN After(data, 1) ELSE InnerItem(data, w[i - 1]).pos]
    <3> SUFFICES ASSUME NEW i \in 0 .. n
                 PROVE  p[i + 1] = IF i = 0 THEN After(data, 1)
                                   ELSE InnerItem(data, w[i - 1]).pos
      OBVIOUS
    <3>1. CASE i = 0
      BY <3>1
    <3>2. CASE i # 0
      <4>1. i \in 1 .. n /\ i - 1 \in 0 .. n /\ (i - 1) + 1 = i
        BY <3>2
      <4>2. w[i - 1] = p[i]
        BY <4>1
      <4> QED
        BY <3>2, <4>1, <4>2, Zenon
    <3> QED
      BY <3>1, <3>2
  <2> HIDE DEF w
  <2> QED
    BY <2>1, Zenon
<1> HIDE DEF at
<1>2. /\ at[0] = p[1]
      /\ \A i \in 1 .. n : at[i] = InnerItem(data, at[i - 1]).pos
  BY <1>1
<1>3. ASSUME NEW i \in 1 .. n, at[i - 1] = p[i] PROVE at[i] = p[i + 1]
  BY <1>2, <1>3, Zenon
<1>4. \A i \in 1 .. n : at[i - 1] = p[i]
  <2>1. n >= 1 => at[0] = p[1]
    BY <1>2
  <2>2. n >= 2 => at[1] = p[2]
    BY <1>3, <2>1
  <2>3. n >= 3 => at[2] = p[3]
    BY <1>3, <2>2
  <2>4. n >= 4 => at[3] = p[4]
    BY <1>3, <2>3
  <2>5. n >= 5 => at[4] = p[5]
    BY <1>3, <2>4
  <2>6. n >= 6 => at[5] = p[6]
    BY <1>3, <2>5
  <2> QED
    BY <2>1, <2>2, <2>3, <2>4, <2>5, <2>6
<1>5. cbor_decode(data)
        = [major |-> data[1] \div 32,
           val |-> [i \in 1 .. size |-> InnerItem(data, sized[i - 1]).item]]
  BY Zenon DEF cbor_decode
<1>6. size = n
  OBVIOUS
<1> HIDE DEF size
<1>7. sized = at
  BY <1>6, Zenon DEF at
<1> HIDE DEF sized
<1>8. [i \in 1 .. n |-> InnerItem(data, at[i - 1]).item]
        = [i \in 1 .. n |-> InnerItem(data, p[i]).item]
  BY <1>4, Zenon
<1> QED
  BY <1>5, <1>6, <1>7, <1>8, Zenon

-----------------------------------------------------------------------------
\* The claims, read back

LEMMA FirstOf ==
  ASSUME NEW q, NEW n \in Nat, NEW a, At(q, n, a), Len(a) \in Nat, 1 <= Len(a)
  PROVE  q[n + 1] = a[1]
<1>1. 1 \in Nat /\ 1 <= 1
  OBVIOUS
<1> QED
  BY <1>1, Zenon DEF At

IsNonce(n) == n \in [1 .. 32 -> Byte]

LEMMA NonceItem ==
  ASSUME NEW n, IsNonce(n)
  PROVE  /\ n \in Seq(Byte) /\ Len(n) = 32
         /\ AddBytes(n) \in Seq(Byte) /\ Len(AddBytes(n)) = 34
         /\ AddBytes(n)[1] = 88 /\ AddBytes(n)[2] = 32 /\ At(AddBytes(n), 2, n)
<1> DEFINE a == AddBytes(n)
<1>1. n \in Seq(Byte) /\ Len(n) = 32
  BY NonceIsSeq DEF IsNonce
<1>2. n \in Seq(Byte) /\ 23 < Len(n) /\ Len(n) <= 255 /\ Byte \subseteq Byte
  BY <1>1
<1>3. a \in Seq(Byte) /\ Len(a) = 2 + Len(n) /\ a[1] = 88 /\ a[2] = Len(n) /\ At(a, 2, n)
  BY <1>2, LongItem
<1> HIDE DEF a
<1>4. Len(a) = 34 /\ a[2] = 32
  BY <1>1, <1>3
<1> QED
  BY <1>1, <1>3, <1>4 DEF a

\* The elements of a payload that are no claim.
ClaimsBytes(bs, ms, n) ==
  LET w == WidthOf(ms)
  IN /\ bs \in Seq(Byte) /\ Len(bs) = 54 + w
     /\ bs[1] = 163
     /\ bs[2] = 1 /\ bs[3] = 110 /\ At(bs, 3, Issuer)
     /\ bs[18] = 6 /\ At(bs, 18, Head5(Uint, ms))
     /\ bs[20 + w] = 32 /\ bs[21 + w] = 88 /\ bs[22 + w] = 32 /\ At(bs, 22 + w, n)

LEMMA MinusOne == AddInt(-1) = Head5(Nint, Number(0))
<1>1. ~ (-1 >= 0) /\ -1 - (-1) = 0
  OBVIOUS
<1> QED
  BY <1>1, Zenon DEF AddInt

LEMMA ClaimsBytesOfShape ==
  ASSUME NEW bs, NEW ms, Uptime(ms), NEW n, IsNonce(n), PayloadShape(bs, ms, n)
  PROVE  ClaimsBytes(bs, ms, n)
<1> DEFINE w == WidthOf(ms)
<1>1. w \in Nat
  BY WidthIsNat
<1>2. bs \in Seq(Byte) /\ Len(bs) = 54 + w /\ At(bs, 18, Head5(Uint, ms))
  BY DEF PayloadShape
<1>3. bs[1] = 163
  <2> DEFINE a == OpenMap(3)
  <2>1. Len(a) = 1 /\ a[1] = 163
    <3>1. Map \in 0 .. 5 /\ 3 \in Nat /\ 3 <= 23 /\ 32 * Map + 3 = 163
      BY DEF Map
    <3> QED
      BY <3>1, SmallHead DEF OpenMap
  <2>2. At(bs, 0, a)
    BY DEF PayloadShape
  <2> HIDE DEF a
  <2>3. Len(a) \in Nat /\ 1 <= Len(a) /\ 0 \in Nat
    BY <2>1
  <2>4. bs[0 + 1] = a[1]
    BY <2>2, <2>3, FirstOf
  <2> QED
    BY <2>1, <2>4
<1>4. bs[2] = 1 /\ bs[18] = 6
  <2> DEFINE a == AddInt(1)
             b == AddInt(6)
  <2>1. Len(a) = 1 /\ a[1] = 1 /\ Len(b) = 1 /\ b[1] = 6
    BY SmallHead DEF AddInt, Uint
  <2>2. At(bs, 1, a) /\ At(bs, 17, b)
    BY DEF PayloadShape
  <2> HIDE DEF a, b
  <2>3. /\ Len(a) \in Nat /\ 1 <= Len(a) /\ Len(b) \in Nat /\ 1 <= Len(b)
        /\ 1 \in Nat /\ 17 \in Nat
    BY <2>1
  <2>4. bs[1 + 1] = a[1] /\ bs[17 + 1] = b[1]
    BY <2>2, <2>3, FirstOf
  <2> QED
    BY <2>1, <2>4
<1>5. bs[3] = 110 /\ At(bs, 3, Issuer)
  <2> DEFINE a == AddText(Issuer)
  <2>1. Issuer \in Seq(Byte) /\ Len(Issuer) <= 23
    BY IssuerIsText
  <2>2. Len(a) = 1 + Len(Issuer) /\ a[1] = 96 + Len(Issuer) /\ At(a, 1, Issuer)
    BY <2>1, TextItem
  <2>3. At(bs, 2, a)
    BY DEF PayloadShape
  <2> HIDE DEF a
  <2>4. Len(Issuer) \in Nat /\ Len(a) \in Nat /\ 1 <= Len(a) /\ 1 + Len(Issuer) <= Len(a)
    <3>1. Len(Issuer) \in Nat
      BY IssuerIsText
    <3>2. Len(a) = 1 + Len(Issuer)
      BY <2>2
    <3> QED
      BY <3>1, <3>2
  <2>5. bs[2 + 1] = a[1]
    BY <2>3, <2>4, FirstOf
  <2>6. At(bs, 2 + 1, Issuer)
    BY <2>2, <2>3, <2>4, Within
  <2>7. a[1] = 110
    BY <2>2, IssuerIsText
  <2> QED
    BY <2>5, <2>6, <2>7
<1>6. bs[20 + w] = 32
  <2> DEFINE a == AddInt(-1)
             m == 19 + w
  <2>1. Len(a) = 1 /\ a[1] = 32
    <3>1. Nint \in 0 .. 5 /\ 0 \in Nat /\ 0 <= 23 /\ 32 * Nint + 0 = 32
      BY DEF Nint
    <3> QED
      BY <3>1, MinusOne, SmallHead
  <2>2. At(bs, m, a)
    BY DEF PayloadShape
  <2>3. m \in Nat /\ m + 1 = 20 + w
    BY <1>1
  <2> HIDE DEF a, m, w
  <2>5. Len(a) \in Nat /\ 1 <= Len(a)
    BY <2>1
  <2>4. bs[m + 1] = a[1]
    BY <2>2, <2>3, <2>5, FirstOf
  <2> QED
    BY <2>1, <2>3, <2>4
<1>7. bs[21 + w] = 88 /\ bs[22 + w] = 32 /\ At(bs, 22 + w, n)
  <2> DEFINE a == AddBytes(n)
             m == 20 + w
  <2>1. Len(n) = 32 /\ Len(a) = 34 /\ a[1] = 88 /\ a[2] = 32 /\ At(a, 2, n)
    BY NonceItem
  <2>2. At(bs, m, a)
    BY DEF PayloadShape
  <2>3. m \in Nat /\ 2 \in Nat /\ 21 + w = m + 1 /\ 22 + w = m + 2
    BY <1>1
  <2> HIDE DEF a, m, w
  <2>4. /\ Len(n) \in Nat /\ Len(a) \in Nat /\ 1 <= Len(a) /\ 2 <= Len(a)
        /\ 2 + Len(n) <= Len(a) /\ 1 <= 2
    BY <2>1
  <2>5. bs[m + 1] = a[1]
    BY <2>2, <2>3, <2>4, FirstOf
  <2>6. bs[m + 2] = a[2]
    BY <2>2, <2>3, <2>4, Zenon DEF At
  <2>7. At(bs, m + 2, n)
    <3>1. At(a, 2, n)
      BY <2>1
    <3> QED
      BY <2>2, <2>3, <2>4, <3>1, Within
  <2> QED
    BY <2>1, <2>3, <2>5, <2>6, <2>7, Zenon
<1> QED
  BY <1>2, <1>3, <1>4, <1>5, <1>6, <1>7, Zenon DEF ClaimsBytes

\* What cbor_decode makes of a payload; with 64 bits of iat, the item after it
\* is the first of its bytes.
ClaimsRead(claims, ms, n) ==
  LET w == WidthOf(ms)
  IN /\ Len(claims) = 6
     /\ claims[1] = [major |-> Uint, val |-> Number(1)]
     /\ claims[2] = [major |-> Tstr, val |-> Issuer]
     /\ claims[3] = [major |-> Uint, val |-> Number(6)]
     /\ claims[5] = [major |-> IF w = 8 THEN Uint ELSE Nint, val |-> Number(0)]
     /\ w # 8 => /\ claims[4] = [major |-> Uint, val |-> ms]
                 /\ claims[6] = [major |-> Bstr, val |-> n]

LEMMA FirstClaims ==
  ASSUME NEW bs, NEW ms, Uptime(ms), NEW n, ClaimsBytes(bs, ms, n)
  PROVE  /\ bs[1] \div 32 = Map /\ ValueOf(Argument(bs, 1)) = 3 /\ After(bs, 1) = 2
         /\ InnerItem(bs, 2) = [item |-> [major |-> Uint, val |-> Number(1)], pos |-> 3]
         /\ InnerItem(bs, 3) = [item |-> [major |-> Tstr, val |-> Issuer], pos |-> 18]
         /\ InnerItem(bs, 18) = [item |-> [major |-> Uint, val |-> Number(6)], pos |-> 19]
<1>1. bs[1] \div 32 = Map /\ ValueOf(Argument(bs, 1)) = 3 /\ After(bs, 1) = 2
  <2>1. bs[1] = 32 * Map + 3 /\ Map \in 0 .. 5 /\ 3 \in Nat /\ 3 <= 23 /\ 1 \in Nat
    BY DEF ClaimsBytes, Map
  <2>2. bs[1] \div 32 = Map /\ Argument(bs, 1) = Number(3) /\ After(bs, 1) = 1 + 1
    BY <2>1, SmallArgument
  <2>3. ValueOf(Number(3)) = 3
    BY ValueOfNumber DEF Byte
  <2> QED
    BY <2>2, <2>3
<1>2. InnerItem(bs, 2) = [item |-> [major |-> Uint, val |-> Number(1)], pos |-> 3]
  <2>1. bs[2] = 32 * Uint + 1 /\ Uint \in {Uint, Nint} /\ 1 \in Nat /\ 1 <= 23 /\ 2 \in Nat
    BY DEF ClaimsBytes, Uint
  <2>2. InnerItem(bs, 2) = [item |-> [major |-> Uint, val |-> Number(1)], pos |-> 2 + 1]
    BY <2>1, SmallInt
  <2> QED
    BY <2>2
<1>3. InnerItem(bs, 3) = [item |-> [major |-> Tstr, val |-> Issuer], pos |-> 18]
  <2>1. /\ bs[3] = 32 * Tstr + 14 /\ Tstr \in {Bstr, Tstr} /\ 14 \in Nat /\ 14 <= 23
        /\ 3 \in Nat
    BY DEF ClaimsBytes, Tstr
  <2>2. Holds(Byte, bs, 3, 14, Issuer)
    <3>1. 3 + 14 <= Len(bs)
      BY WidthIsNat DEF ClaimsBytes
    <3> QED
      BY <3>1, IssuerIsText DEF ClaimsBytes, Holds
  <2>3. InnerItem(bs, 3) = [item |-> [major |-> Tstr, val |-> Issuer], pos |-> 3 + 1 + 14]
    BY <2>1, <2>2, SmallString
  <2> QED
    BY <2>3
<1>4. InnerItem(bs, 18) = [item |-> [major |-> Uint, val |-> Number(6)], pos |-> 19]
  <2>1. bs[18] = 32 * Uint + 6 /\ Uint \in {Uint, Nint} /\ 6 \in Nat /\ 6 <= 23 /\ 18 \in Nat
    BY DEF ClaimsBytes, Uint
  <2>2. InnerItem(bs, 18) = [item |-> [major |-> Uint, val |-> Number(6)], pos |-> 18 + 1]
    BY <2>1, SmallInt
  <2> QED
    BY <2>2
<1> QED
  BY <1>1, <1>2, <1>3, <1>4

LEMMA LastClaims ==
  ASSUME NEW bs, NEW ms, Uptime(ms), NEW n, IsNonce(n), ClaimsBytes(bs, ms, n), WidthOf(ms) # 8
  PROVE  LET w == WidthOf(ms)
         IN /\ InnerItem(bs, 19) = [item |-> [major |-> Uint, val |-> ms], pos |-> 20 + w]
            /\ InnerItem(bs, 20 + w)
                 = [item |-> [major |-> Nint, val |-> Number(0)], pos |-> 21 + w]
            /\ InnerItem(bs, 21 + w).item = [major |-> Bstr, val |-> n]
<1> DEFINE w == WidthOf(ms)
<1>1. w \in Nat
  BY WidthIsNat
<1>2. InnerItem(bs, 19) = [item |-> [major |-> Uint, val |-> ms], pos |-> 20 + w]
  <2>1. bs \in Seq(Byte) /\ At(bs, 18, Head5(Uint, ms)) /\ 18 + 1 + w <= Len(bs) /\ 18 \in Nat
    BY <1>1 DEF ClaimsBytes
  <2>2. InnerItem(bs, 18 + 1) = [item |-> [major |-> Uint, val |-> ms], pos |-> 18 + 2 + w]
    BY <2>1, UptimeItem
  <2> HIDE DEF w
  <2>3. 18 + 1 = 19 /\ 18 + 2 + w = 20 + w
    BY <1>1
  <2> QED
    BY <2>2, <2>3, Zenon
<1>3. InnerItem(bs, 20 + w) = [item |-> [major |-> Nint, val |-> Number(0)], pos |-> 21 + w]
  <2> DEFINE m == 20 + w
  <2>1. /\ bs[m] = 32 * Nint + 0 /\ Nint \in {Uint, Nint} /\ 0 \in Nat /\ 0 <= 23 /\ m \in Nat
        /\ m + 1 = 21 + w
    BY SMTT(30), <1>1 DEF ClaimsBytes, Nint
  <2> HIDE DEF m
  <2>2. InnerItem(bs, m) = [item |-> [major |-> Nint, val |-> Number(0)], pos |-> m + 1]
    BY <2>1, SmallInt
  <2> QED
    BY <2>1, <2>2, Zenon DEF m
<1>4. InnerItem(bs, 21 + w).item = [major |-> Bstr, val |-> n]
  <2> DEFINE m == 21 + w
  <2>1. bs[m] = 88 /\ bs[m + 1] = 32 /\ m \in Nat /\ m + 1 = 22 + w /\ m + 1 + 32 = Len(bs)
    BY <1>1 DEF ClaimsBytes
  <2>2. 32 \in Byte /\ 32 > 23
    BY ByteIsInt
  <2> HIDE DEF m, w
  <2>3. Holds(Byte, bs, m + 1, 32, n)
    <3>1. bs \in Seq(Byte) /\ n \in Seq(Byte) /\ 32 = Len(n)
      BY NonceItem DEF ClaimsBytes
    <3>2. m + 1 + 32 <= Len(bs)
      BY <2>1
    <3>3. At(bs, m + 1, n)
      BY <2>1, Zenon DEF ClaimsBytes, w
    <3> QED
      BY <3>1, <3>2, <3>3, Zenon DEF Holds
  <2>4. InnerItem(bs, m) = [item |-> [major |-> Bstr, val |-> n], pos |-> m + 2 + 32]
    <3>1. bs[m] = 88 /\ bs[m + 1] = 32 /\ m \in Nat
      BY <2>1
    <3> QED
      BY <2>2, <2>3, <3>1, LongString
  <2> QED
    BY <2>4 DEF m
<1> QED
  BY <1>2, <1>3, <1>4

LEMMA WideClaims ==
  ASSUME NEW bs, NEW ms, Uptime(ms), NEW n, ClaimsBytes(bs, ms, n), WidthOf(ms) = 8
  PROVE  /\ InnerItem(bs, 19).pos = 20
         /\ InnerItem(bs, 20) = [item |-> [major |-> Uint, val |-> Number(0)], pos |-> 21]
<1> DEFINE l == Len(ms)
           head == Head5(Uint, ms)
<1>1. UptimeHead(head, ms)
  BY HeadOfUptime
<1>2. l \in Nat /\ l <= 7
  BY DEF Uptime
<1>3. Len(head) = 9 /\ head[1] = 27 /\ head[2] = 0
  <2>1. /\ Len(head) = 1 + 8 /\ head[1] = 27
        /\ \A i \in 1 .. 8 - l : head[1 + i] = 0
    BY <1>1 DEF UptimeHead
  <2> HIDE DEF head, l
  <2>2. 1 \in 1 .. 8 - l
    BY <1>2
  <2> QED
    BY <2>1, <2>2
<1>4. bs[19] = 27 /\ bs[20] = 0
  <2>1. At(bs, 18, head)
    BY DEF ClaimsBytes
  <2>2. 1 \in Nat /\ 2 \in Nat /\ 1 <= 1 /\ 1 <= 2 /\ 1 <= Len(head) /\ 2 <= Len(head)
    BY <1>3
  <2>3. bs[18 + 1] = head[1] /\ bs[18 + 2] = head[2]
    BY <2>1, <2>2, Zenon DEF At
  <2> QED
    BY <1>3, <2>3
<1>5. InnerItem(bs, 19).pos = 20
  <2>1. bs[19] \div 32 = Uint /\ bs[19] % 32 = 27 /\ ArgWidth(27) = 0 /\ 19 + 1 + 0 = 20
    BY <1>4 DEF Uint, ArgWidth
  <2>2. Uint \in {Uint, Nint} /\ Uint \notin {Bstr, Tstr} /\ Uint \notin {List, Map}
    BY DEF Uint, Nint, Bstr, Tstr, List, Map
  <2>3. After(bs, 19) = 20
    BY <2>1, Zenon DEF After
  <2> DEFINE item == IF bs[19] % 32 > 26 THEN Absent ELSE [major |-> Uint, val |-> Argument(bs, 19)]
  <2>4. InnerItem(bs, 19) = [item |-> item, pos |-> 20]
    BY <2>1, <2>2, <2>3, Zenon DEF InnerItem
  <2> HIDE DEF item
  <2> QED
    BY <2>4
<1>6. InnerItem(bs, 20) = [item |-> [major |-> Uint, val |-> Number(0)], pos |-> 21]
  <2>1. bs[20] = 32 * Uint + 0 /\ Uint \in {Uint, Nint} /\ 0 \in Nat /\ 0 <= 23 /\ 20 \in Nat
    BY <1>4 DEF Uint
  <2>2. InnerItem(bs, 20) = [item |-> [major |-> Uint, val |-> Number(0)], pos |-> 20 + 1]
    BY <2>1, SmallInt
  <2> QED
    BY <2>2
<1> QED
  BY <1>5, <1>6

LEMMA DecodeClaims ==
  ASSUME NEW bs, NEW ms, Uptime(ms), NEW n, IsNonce(n), PayloadShape(bs, ms, n)
  PROVE  ClaimsRead(cbor_decode(bs).val, ms, n)
<1> DEFINE w == WidthOf(ms)
           claims == cbor_decode(bs).val
<1>1. ClaimsBytes(bs, ms, n)
  BY ClaimsBytesOfShape
<1>2. /\ bs[1] \div 32 = Map /\ ValueOf(Argument(bs, 1)) = 3 /\ After(bs, 1) = 2
      /\ InnerItem(bs, 2) = [item |-> [major |-> Uint, val |-> Number(1)], pos |-> 3]
      /\ InnerItem(bs, 3) = [item |-> [major |-> Tstr, val |-> Issuer], pos |-> 18]
      /\ InnerItem(bs, 18) = [item |-> [major |-> Uint, val |-> Number(6)], pos |-> 19]
  BY <1>1, FirstClaims
<1>3. bs[1] \div 32 \in {List, Map} /\ 6 = (IF bs[1] \div 32 = Map THEN 2 ELSE 1) * 3
  BY <1>2
<1>4. ASSUME NEW p4, NEW p5, NEW p6,
             InnerItem(bs, 19).pos = p4, InnerItem(bs, p4).pos = p5, InnerItem(bs, p5).pos = p6
      PROVE  claims = [i \in 1 .. 6 |-> InnerItem(bs, <<2, 3, 18, 19, p4, p5, p6>>[i]).item]
  <2> DEFINE p == <<2, 3, 18, 19, p4, p5, p6>>
  <2>1. p[1] = After(bs, 1)
    BY <1>2
  <2>2. \A i \in 1 .. 6 : p[i + 1] = InnerItem(bs, p[i]).pos
    <3>1. /\ p[1] = 2 /\ p[2] = 3 /\ p[3] = 18 /\ p[4] = 19
          /\ p[5] = p4 /\ p[6] = p5 /\ p[7] = p6
      OBVIOUS
    <3> HIDE DEF p
    <3>2. /\ p[2] = InnerItem(bs, p[1]).pos /\ p[3] = InnerItem(bs, p[2]).pos
          /\ p[4] = InnerItem(bs, p[3]).pos /\ p[5] = InnerItem(bs, p[4]).pos
          /\ p[6] = InnerItem(bs, p[5]).pos /\ p[7] = InnerItem(bs, p[6]).pos
      BY <1>2, <1>4, <3>1
    <3> QED
      BY SMTT(30), <3>2
  <2> HIDE DEF p
  <2>3. 6 \in 0 .. 6 /\ 6 = (IF bs[1] \div 32 = Map THEN 2 ELSE 1) * ValueOf(Argument(bs, 1))
    BY <1>2, <1>3
  <2>4. cbor_decode(bs) = [major |-> bs[1] \div 32, val |-> [i \in 1 .. 6 |-> InnerItem(bs, p[i]).item]]
    BY <1>3, <2>1, <2>2, <2>3, Items
  <2> QED
    BY <2>4 DEF p
<1> HIDE DEF claims
<1>5. CASE w # 8
  <2>1. /\ InnerItem(bs, 19) = [item |-> [major |-> Uint, val |-> ms], pos |-> 20 + w]
        /\ InnerItem(bs, 20 + w) = [item |-> [major |-> Nint, val |-> Number(0)], pos |-> 21 + w]
        /\ InnerItem(bs, 21 + w).item = [major |-> Bstr, val |-> n]
    BY <1>1, <1>5, LastClaims
  <2> DEFINE p4 == 20 + w
             p5 == 21 + w
             p6 == InnerItem(bs, p5).pos
             p == <<2, 3, 18, 19, p4, p5, p6>>
  <2>2. claims = [i \in 1 .. 6 |-> InnerItem(bs, p[i]).item]
    BY <1>4, <2>1
  <2>3. Len(claims) = 6 /\ \A i \in 1 .. 6 : claims[i] = InnerItem(bs, p[i]).item
    BY <2>2
  <2>4. p[1] = 2 /\ p[2] = 3 /\ p[3] = 18 /\ p[4] = 19 /\ p[5] = p4 /\ p[6] = p5
    OBVIOUS
  <2> HIDE DEF p, p4, p5, p6, w
  <2>5. /\ claims[1] = InnerItem(bs, 2).item /\ claims[2] = InnerItem(bs, 3).item
        /\ claims[3] = InnerItem(bs, 18).item /\ claims[4] = InnerItem(bs, 19).item
        /\ claims[5] = InnerItem(bs, p4).item /\ claims[6] = InnerItem(bs, p5).item
    BY <2>3, <2>4
  <2> QED
    BY <1>2, <1>5, <2>1, <2>3, <2>5 DEF ClaimsRead, claims, p4, p5, w
<1>6. CASE w = 8
  <2>1. InnerItem(bs, 19).pos = 20
    BY <1>1, <1>6, WideClaims
  <2>2. InnerItem(bs, 20) = [item |-> [major |-> Uint, val |-> Number(0)], pos |-> 21]
    BY <1>1, <1>6, WideClaims
  <2> DEFINE p6 == InnerItem(bs, 21).pos
             p == <<2, 3, 18, 19, 20, 21, p6>>
  <2>3. claims = [i \in 1 .. 6 |-> InnerItem(bs, p[i]).item]
    BY <1>4, <2>1, <2>2
  <2>4. Len(claims) = 6 /\ \A i \in 1 .. 6 : claims[i] = InnerItem(bs, p[i]).item
    BY <2>3
  <2>5. p[1] = 2 /\ p[2] = 3 /\ p[3] = 18 /\ p[5] = 20
    OBVIOUS
  <2> HIDE DEF p, p6
  <2>6. /\ claims[1] = InnerItem(bs, 2).item /\ claims[2] = InnerItem(bs, 3).item
        /\ claims[3] = InnerItem(bs, 18).item /\ claims[5] = InnerItem(bs, 20).item
    BY <2>4, <2>5
  <2> QED
    BY <1>2, <1>6, <2>2, <2>4, <2>6 DEF ClaimsRead, claims
<1> QED
  BY <1>5, <1>6 DEF claims

LEMMA GetAt ==
  ASSUME NEW claims, Len(claims) = 6, NEW k, NEW j \in 1 .. 3,
         \A i \in 1 .. 3 : claims[2 * i - 1] = k <=> i = j
  PROVE  Get(claims, k) = claims[2 * j]
<1> DEFINE at == {i \in 1 .. Len(claims) \div 2 : claims[2 * i - 1] = k}
<1>1. at = {j}
  BY Z3
<1>2. Get(claims, k)
        = IF at = {} THEN Absent ELSE claims[2 * CHOOSE i \in at : \A h \in at : h <= i]
  BY Zenon DEF Get
<1> HIDE DEF at
<1>3. (CHOOSE i \in at : \A h \in at : h <= i) = j
  BY <1>1
<1>4. at # {}
  BY <1>1
<1> QED
  BY <1>2, <1>3, <1>4, Zenon

LEMMA GetNone ==
  ASSUME NEW claims, Len(claims) = 6, NEW k, \A i \in 1 .. 3 : claims[2 * i - 1] # k
  PROVE  Get(claims, k) = Absent
<1> DEFINE at == {i \in 1 .. Len(claims) \div 2 : claims[2 * i - 1] = k}
<1>1. at = {}
  BY Z3
<1>2. Get(claims, k)
        = IF at = {} THEN Absent ELSE claims[2 * CHOOSE i \in at : \A h \in at : h <= i]
  BY Zenon DEF Get
<1> QED
  BY <1>1, <1>2, Zenon

LEMMA OneIsNotSix == Number(1) # Number(6)
<1>1. 1 \in Byte /\ 6 \in Byte /\ 1 # 0 /\ 6 # 0
  BY ByteIsInt
<1>2. Number(1)[1] = 1 /\ Number(6)[1] = 6
  BY <1>1, NumberOfByte
<1> QED
  BY <1>2

\* What verify_cose_mac0 looks up.
LEMMA GetClaims ==
  ASSUME NEW claims, NEW ms, NEW n, ClaimsRead(claims, ms, n)
  PROVE  LET w == WidthOf(ms)
             nonce_tok == Get(claims, [major |-> Nint, val |-> Number(0)])
         IN /\ w = 8 => nonce_tok.major = None
            /\ w # 8 => /\ nonce_tok = [major |-> Bstr, val |-> n]
                        /\ Get(claims, [major |-> Uint, val |-> Number(1)]).val = Issuer
                        /\ Get(claims, [major |-> Uint, val |-> Number(6)]).val = ms
<1> DEFINE w == WidthOf(ms)
           k1 == [major |-> Uint, val |-> Number(1)]
           k6 == [major |-> Uint, val |-> Number(6)]
           k8 == [major |-> Uint, val |-> Number(0)]
           k0 == [major |-> Nint, val |-> Number(0)]
<1>1. /\ Len(claims) = 6
      /\ claims[1] = k1 /\ claims[3] = k6 /\ claims[5] = (IF w = 8 THEN k8 ELSE k0)
      /\ claims[2] = [major |-> Tstr, val |-> Issuer]
      /\ w # 8 => /\ claims[4] = [major |-> Uint, val |-> ms]
                  /\ claims[6] = [major |-> Bstr, val |-> n]
  BY DEF ClaimsRead
<1>2. k1 # k6 /\ k1 # k0 /\ k6 # k0 /\ k8 # k0
  <2>1. Uint # Nint
    BY DEF Uint, Nint
  <2> QED
    BY <2>1, OneIsNotSix
<1> HIDE DEF k1, k6, k8, k0, w
<1>3. CASE w = 8
  <2>1. \A i \in 1 .. 3 : claims[2 * i - 1] # k0
    BY <1>1, <1>2, <1>3
  <2>2. Get(claims, k0) = Absent
    <3>1. Len(claims) = 6
      BY <1>1
    <3> QED
      BY <2>1, <3>1, GetNone, Zenon
  <2> QED
    BY <1>3, <2>2 DEF k0, w, Absent
<1>4. CASE w # 8
  <2>1. /\ \A i \in 1 .. 3 : claims[2 * i - 1] = k0 <=> i = 3
        /\ \A i \in 1 .. 3 : claims[2 * i - 1] = k1 <=> i = 1
        /\ \A i \in 1 .. 3 : claims[2 * i - 1] = k6 <=> i = 2
    BY <1>1, <1>2, <1>4
  <2>2. Len(claims) = 6 /\ 1 \in 1 .. 3 /\ 2 \in 1 .. 3 /\ 3 \in 1 .. 3
    BY <1>1
  <2>3. /\ Get(claims, k0) = claims[2 * 3] /\ Get(claims, k1) = claims[2 * 1]
        /\ Get(claims, k6) = claims[2 * 2]
    BY <2>1, <2>2, GetAt, Zenon
  <2>4. /\ Get(claims, k0) = [major |-> Bstr, val |-> n] /\ Get(claims, k1).val = Issuer
        /\ Get(claims, k6).val = ms
    BY <1>1, <1>4, <2>3
  <2> QED
    BY <1>4, <2>4 DEF k0, k1, k6, w
<1> QED
  BY <1>3, <1>4 DEF w

-----------------------------------------------------------------------------
\* The token, and what the decoder makes of it

LEMMA Kept ==
  ASSUME NEW S, NEW s \in Seq(S), NEW t \in Seq(S), NEW n \in Nat, NEW a, At(s, n, a),
         Len(a) \in Nat, n + Len(a) <= Len(s)
  PROVE  At(s \o t, n, a)
<1> DEFINE u == s \o t
<1>1. \A i \in 1 .. Len(s) : u[i] = s[i]
  BY Concat
<1> HIDE DEF u
<1> SUFFICES ASSUME NEW i \in Nat, 1 <= i, i <= Len(a) PROVE u[n + i] = a[i]
  BY DEF At, u
<1>2. n + i \in 1 .. Len(s)
  OBVIOUS
<1>3. s[n + i] = a[i]
  BY DEF At
<1> QED
  BY <1>1, <1>2, <1>3

LEMMA SmallBytes ==
  /\ OpenArray(4) \in Seq(Byte) /\ Len(OpenArray(4)) = 1 /\ OpenArray(4)[1] = 132
  /\ OpenMap(0) \in Seq(Byte) /\ Len(OpenMap(0)) = 1 /\ OpenMap(0)[1] = 160
<1>1. List \in 0 .. 5 /\ 4 \in Nat /\ 4 <= 23 /\ 32 * List + 4 = 132
  BY DEF List
<1>2. Map \in 0 .. 5 /\ 0 \in Nat /\ 0 <= 23 /\ 32 * Map + 0 = 160
  BY DEF Map
<1>3. OpenArray(4) \in Seq(Byte) /\ Len(OpenArray(4)) = 1 /\ OpenArray(4)[1] = 132
  BY <1>1, SmallHead DEF OpenArray
<1>4. OpenMap(0) \in Seq(Byte) /\ Len(OpenMap(0)) = 1 /\ OpenMap(0)[1] = 160
  BY <1>2, SmallHead DEF OpenMap
<1> QED
  BY <1>3, <1>4

TokenOf(pr, pl, m) == OpenArray(4) \o AddBytes(pr) \o OpenMap(0) \o AddBytes(pl) \o AddBytes(m)

\* What is put in it: a header of three bytes, a payload whose length takes a
\* byte of its own, and a MAC.
Parts(S, pr, pl, m) ==
  /\ Byte \subseteq S
  /\ pr \in Seq(Byte) /\ Len(pr) = 3
  /\ pl \in Seq(Byte) /\ 23 < Len(pl) /\ Len(pl) <= 255
  /\ m \in Seq(S) /\ Len(m) = 32

LEMMA PartItems ==
  ASSUME NEW S, NEW pr, NEW pl, NEW m, Parts(S, pr, pl, m)
  PROVE  /\ AddBytes(pr) \in Seq(S) /\ Len(AddBytes(pr)) = 4 /\ AddBytes(pr)[1] = 67
         /\ At(AddBytes(pr), 1, pr)
         /\ AddBytes(pl) \in Seq(S) /\ Len(AddBytes(pl)) = 2 + Len(pl)
         /\ AddBytes(pl)[1] = 88 /\ AddBytes(pl)[2] = Len(pl) /\ At(AddBytes(pl), 2, pl)
         /\ AddBytes(m) \in Seq(S) /\ Len(AddBytes(m)) = 34
         /\ AddBytes(m)[1] = 88 /\ AddBytes(m)[2] = 32 /\ At(AddBytes(m), 2, m)
<1>1. /\ AddBytes(pr) \in Seq(S) /\ Len(AddBytes(pr)) = 4 /\ AddBytes(pr)[1] = 67
      /\ At(AddBytes(pr), 1, pr)
  <2> DEFINE a == AddBytes(pr)
  <2>1. pr \in Seq(Byte) /\ Len(pr) <= 23
    BY DEF Parts
  <2>2. a \in Seq(Byte) /\ Len(a) = 1 + Len(pr) /\ a[1] = 64 + Len(pr) /\ At(a, 1, pr)
    BY <2>1, ShortItem
  <2> HIDE DEF a
  <2>3. a \in Seq(S)
    BY <2>2, SeqMonotonic DEF Parts
  <2>4. Len(a) = 4 /\ a[1] = 67
    BY <2>2 DEF Parts
  <2> QED
    BY <2>2, <2>3, <2>4 DEF a
<1>2. /\ AddBytes(pl) \in Seq(S) /\ Len(AddBytes(pl)) = 2 + Len(pl)
      /\ AddBytes(pl)[1] = 88 /\ AddBytes(pl)[2] = Len(pl) /\ At(AddBytes(pl), 2, pl)
  <2>1. pl \in Seq(S) /\ 23 < Len(pl) /\ Len(pl) <= 255 /\ Byte \subseteq S
    BY SeqMonotonic DEF Parts
  <2> QED
    BY <2>1, LongItem
<1>3. /\ AddBytes(m) \in Seq(S) /\ Len(AddBytes(m)) = 34
      /\ AddBytes(m)[1] = 88 /\ AddBytes(m)[2] = 32 /\ At(AddBytes(m), 2, m)
  <2> DEFINE a == AddBytes(m)
  <2>1. m \in Seq(S) /\ 23 < Len(m) /\ Len(m) <= 255 /\ Byte \subseteq S
    BY DEF Parts
  <2>2. a \in Seq(S) /\ Len(a) = 2 + Len(m) /\ a[1] = 88 /\ a[2] = Len(m) /\ At(a, 2, m)
    BY <2>1, LongItem
  <2> HIDE DEF a
  <2>3. Len(a) = 34 /\ a[2] = 32
    BY <2>2 DEF Parts
  <2> QED
    BY <2>2, <2>3 DEF a
<1> QED
  BY <1>1, <1>2, <1>3

\* Where the parts of a token are.
TokenShape(t, S, pr, pl, m) ==
  LET l == Len(pl)
  IN /\ t \in Seq(S) /\ Len(t) = 42 + l
     /\ At(t, 0, OpenArray(4)) /\ At(t, 1, AddBytes(pr)) /\ At(t, 5, OpenMap(0))
     /\ At(t, 6, AddBytes(pl)) /\ At(t, 8 + l, AddBytes(m))

LEMMA TokenShapeOf ==
  ASSUME NEW S, NEW pr, NEW pl, NEW m, Parts(S, pr, pl, m)
  PROVE  TokenShape(TokenOf(pr, pl, m), S, pr, pl, m)
<1> DEFINE l == Len(pl)
           a1 == OpenArray(4)
           a2 == AddBytes(pr)
           a3 == OpenMap(0)
           a4 == AddBytes(pl)
           a5 == AddBytes(m)
           q2 == a1 \o a2
           q3 == q2 \o a3
           q4 == q3 \o a4
           q5 == q4 \o a5
<1>1. a1 \in Seq(S) /\ Len(a1) = 1 /\ a3 \in Seq(S) /\ Len(a3) = 1
  BY SmallBytes, SeqMonotonic DEF Parts
<1>2. /\ a2 \in Seq(S) /\ Len(a2) = 4 /\ a4 \in Seq(S) /\ Len(a4) = 2 + l
      /\ a5 \in Seq(S) /\ Len(a5) = 34
  BY PartItems
<1>3. l \in Nat
  BY DEF Parts
<1> HIDE DEF l, a1, a2, a3, a4, a5
<1>4. a1 \in Seq(S) /\ a2 \in Seq(S) /\ a3 \in Seq(S) /\ a4 \in Seq(S) /\ a5 \in Seq(S)
  BY <1>1, <1>2
<1>5. q2 \in Seq(S) /\ Len(q2) = 5 /\ At(q2, 0, a1) /\ At(q2, 1, a2)
  <2>1. /\ q2 \in Seq(S) /\ Len(q2) = Len(a1) + Len(a2)
        /\ At(q2, 0, a1) /\ At(q2, Len(a1), a2)
    BY <1>4, Joined
  <2> HIDE DEF q2
  <2> QED
    BY <1>1, <1>2, <2>1
<1>6. q3 \in Seq(S) /\ Len(q3) = 6 /\ At(q3, 0, a1) /\ At(q3, 1, a2) /\ At(q3, 5, a3)
  <2>1. q2 \in Seq(S)
    BY <1>5
  <2>2. q3 \in Seq(S) /\ Len(q3) = Len(q2) + Len(a3) /\ At(q3, Len(q2), a3)
    BY <1>4, <2>1, Joined
  <2>3. /\ 0 \in Nat /\ 1 \in Nat /\ Len(a1) \in Nat /\ Len(a2) \in Nat
        /\ 0 + Len(a1) <= Len(q2) /\ 1 + Len(a2) <= Len(q2) /\ At(q2, 0, a1) /\ At(q2, 1, a2)
    BY <1>1, <1>2, <1>5
  <2>4. At(q3, 0, a1) /\ At(q3, 1, a2)
    BY <1>4, <2>1, <2>3, Kept
  <2> HIDE DEF q3
  <2> QED
    BY <1>1, <1>5, <2>2, <2>4
<1>7. /\ q4 \in Seq(S) /\ Len(q4) = 8 + l
      /\ At(q4, 0, a1) /\ At(q4, 1, a2) /\ At(q4, 5, a3) /\ At(q4, 6, a4)
  <2>1. q3 \in Seq(S)
    BY <1>6
  <2>2. q4 \in Seq(S) /\ Len(q4) = Len(q3) + Len(a4) /\ At(q4, Len(q3), a4)
    BY <1>4, <2>1, Joined
  <2>3. /\ 0 \in Nat /\ 1 \in Nat /\ 5 \in Nat
        /\ Len(a1) \in Nat /\ Len(a2) \in Nat /\ Len(a3) \in Nat
        /\ 0 + Len(a1) <= Len(q3) /\ 1 + Len(a2) <= Len(q3) /\ 5 + Len(a3) <= Len(q3)
        /\ At(q3, 0, a1) /\ At(q3, 1, a2) /\ At(q3, 5, a3)
    BY <1>1, <1>2, <1>6
  <2>4. At(q4, 0, a1) /\ At(q4, 1, a2) /\ At(q4, 5, a3)
    BY <1>4, <2>1, <2>3, Kept
  <2> HIDE DEF q4
  <2> QED
    BY <1>2, <1>3, <1>6, <2>2, <2>4
<1>8. /\ q5 \in Seq(S) /\ Len(q5) = 42 + l
      /\ At(q5, 0, a1) /\ At(q5, 1, a2) /\ At(q5, 5, a3) /\ At(q5, 6, a4)
      /\ At(q5, 8 + l, a5)
  <2>1. q4 \in Seq(S)
    BY <1>7
  <2>2. q5 \in Seq(S) /\ Len(q5) = Len(q4) + Len(a5) /\ At(q5, Len(q4), a5)
    BY <1>4, <2>1, Joined
  <2>3. /\ 0 \in Nat /\ 1 \in Nat /\ 5 \in Nat /\ 6 \in Nat
        /\ Len(a1) \in Nat /\ Len(a2) \in Nat /\ Len(a3) \in Nat /\ Len(a4) \in Nat
        /\ 0 + Len(a1) <= Len(q4) /\ 1 + Len(a2) <= Len(q4) /\ 5 + Len(a3) <= Len(q4)
        /\ 6 + Len(a4) <= Len(q4)
        /\ At(q4, 0, a1) /\ At(q4, 1, a2) /\ At(q4, 5, a3) /\ At(q4, 6, a4)
    BY <1>1, <1>2, <1>3, <1>7
  <2>4. At(q5, 0, a1) /\ At(q5, 1, a2) /\ At(q5, 5, a3) /\ At(q5, 6, a4)
    BY <1>4, <2>1, <2>3, Kept
  <2> HIDE DEF q5
  <2> QED
    BY <1>2, <1>3, <1>7, <2>2, <2>4
<1> HIDE DEF q5
<1>9. TokenOf(pr, pl, m) = q5
  BY DEF TokenOf, q5, q4, q3, q2, a1, a2, a3, a4, a5
<1> QED
  BY <1>8, <1>9, Zenon DEF TokenShape, l, a1, a2, a3, a4, a5

TokenBytes(t, S, pr, pl, m) ==
  LET l == Len(pl)
  IN /\ t \in Seq(S) /\ Len(t) = 42 + l
     /\ t[1] = 132
     /\ t[2] = 67 /\ At(t, 2, pr)
     /\ t[6] = 160
     /\ t[7] = 88 /\ t[8] = l /\ At(t, 8, pl)
     /\ t[9 + l] = 88 /\ t[10 + l] = 32 /\ At(t, 10 + l, m)

LEMMA TokenBytesOfShape ==
  ASSUME NEW S, NEW pr, NEW pl, NEW m, Parts(S, pr, pl, m), NEW t,
         TokenShape(t, S, pr, pl, m)
  PROVE  TokenBytes(t, S, pr, pl, m)
<1> DEFINE l == Len(pl)
           a1 == OpenArray(4)
           a2 == AddBytes(pr)
           a3 == OpenMap(0)
           a4 == AddBytes(pl)
           a5 == AddBytes(m)
           n5 == 8 + l
<1>1. /\ t \in Seq(S) /\ Len(t) = 42 + l
      /\ At(t, 0, a1) /\ At(t, 1, a2) /\ At(t, 5, a3) /\ At(t, 6, a4) /\ At(t, n5, a5)
  BY DEF TokenShape
<1>2. Len(a1) = 1 /\ a1[1] = 132 /\ Len(a3) = 1 /\ a3[1] = 160
  BY SmallBytes
<1>3. /\ Len(a2) = 4 /\ a2[1] = 67 /\ At(a2, 1, pr)
      /\ Len(a4) = 2 + l /\ a4[1] = 88 /\ a4[2] = l /\ At(a4, 2, pl)
      /\ Len(a5) = 34 /\ a5[1] = 88 /\ a5[2] = 32 /\ At(a5, 2, m)
  BY PartItems
<1>4. l \in Nat /\ Len(pr) = 3 /\ Len(m) = 32
  BY DEF Parts
<1> HIDE DEF a1, a2, a3, a4, a5
<1>5. /\ 0 \in Nat /\ 1 \in Nat /\ 2 \in Nat /\ 5 \in Nat /\ 6 \in Nat /\ n5 \in Nat
      /\ Len(a1) \in Nat /\ 1 <= Len(a1) /\ Len(a2) \in Nat /\ 1 <= Len(a2)
      /\ Len(a3) \in Nat /\ 1 <= Len(a3) /\ Len(a4) \in Nat /\ 1 <= Len(a4) /\ 2 <= Len(a4)
      /\ Len(a5) \in Nat /\ 1 <= Len(a5) /\ 2 <= Len(a5)
      /\ Len(pr) \in Nat /\ 1 + Len(pr) <= Len(a2)
      /\ Len(pl) \in Nat /\ 2 + Len(pl) <= Len(a4)
      /\ Len(m) \in Nat /\ 2 + Len(m) <= Len(a5) /\ 1 <= 2
  BY <1>2, <1>3, <1>4
<1>6. 9 + l = n5 + 1 /\ 10 + l = n5 + 2
  BY <1>4
<1> HIDE DEF n5, l
<1>7. /\ t[0 + 1] = a1[1] /\ t[1 + 1] = a2[1] /\ t[5 + 1] = a3[1] /\ t[6 + 1] = a4[1]
      /\ t[n5 + 1] = a5[1]
  BY ZenonT(30), <1>1, <1>5, FirstOf
<1>8. t[6 + 2] = a4[2] /\ t[n5 + 2] = a5[2]
  BY <1>1, <1>5, Zenon DEF At
<1>9. At(t, 1 + 1, pr) /\ At(t, 6 + 2, pl) /\ At(t, n5 + 2, m)
  <2>1. At(a2, 1, pr) /\ At(a4, 2, pl) /\ At(a5, 2, m)
    BY <1>3
  <2> QED
    BY <1>1, <1>5, <2>1, Within
<1>10. /\ t[1] = 132 /\ t[2] = 67 /\ At(t, 2, pr) /\ t[6] = 160
       /\ t[7] = 88 /\ t[8] = l /\ At(t, 8, pl)
  <2>1. t[1] = a1[1] /\ t[2] = a2[1] /\ t[6] = a3[1] /\ t[7] = a4[1]
    BY <1>7
  <2>2. t[8] = a4[2]
    BY <1>8
  <2>3. 1 + 1 = 2 /\ 6 + 2 = 8
    OBVIOUS
  <2>4. At(t, 2, pr) /\ At(t, 8, pl)
    BY <1>9, <2>3, Zenon
  <2>5. t[1] = 132 /\ t[6] = 160
    BY <1>2, <2>1
  <2>6. t[2] = 67 /\ t[7] = 88 /\ t[8] = l
    BY <1>3, <2>1, <2>2
  <2> QED
    BY <2>4, <2>5, <2>6, Zenon
<1>11. t[9 + l] = 88 /\ t[10 + l] = 32 /\ At(t, 10 + l, m)
  BY <1>3, <1>6, <1>7, <1>8, <1>9, Zenon
<1> QED
  BY <1>1, <1>10, <1>11, Zenon DEF TokenBytes, l

LEMMA TokenItems ==
  ASSUME NEW S, NEW pr, NEW pl, NEW m, Parts(S, pr, pl, m), NEW t,
         TokenBytes(t, S, pr, pl, m)
  PROVE  LET l == Len(pl)
         IN /\ t[1] \div 32 = List /\ ValueOf(Argument(t, 1)) = 4 /\ After(t, 1) = 2
            /\ InnerItem(t, 2) = [item |-> [major |-> Bstr, val |-> pr], pos |-> 6]
            /\ InnerItem(t, 6) = [item |-> [major |-> Map, val |-> <<>>], pos |-> 7]
            /\ InnerItem(t, 7) = [item |-> [major |-> Bstr, val |-> pl], pos |-> 9 + l]
            /\ InnerItem(t, 9 + l).item = [major |-> Bstr, val |-> m]
<1> DEFINE l == Len(pl)
<1>1. /\ l \in Byte /\ l \in Nat /\ l > 23 /\ pl \in Seq(S) /\ pr \in Seq(S) /\ 3 = Len(pr)
      /\ m \in Seq(S) /\ 32 = Len(m)
  BY ByteIsInt, SeqMonotonic DEF Parts
<1>2. t[1] \div 32 = List /\ ValueOf(Argument(t, 1)) = 4 /\ After(t, 1) = 2
  <2>1. t[1] = 32 * List + 4 /\ List \in 0 .. 5 /\ 4 \in Nat /\ 4 <= 23 /\ 1 \in Nat
    BY DEF TokenBytes, List
  <2>2. t[1] \div 32 = List /\ Argument(t, 1) = Number(4) /\ After(t, 1) = 1 + 1
    BY <2>1, SmallArgument
  <2>3. ValueOf(Number(4)) = 4
    BY ValueOfNumber DEF Byte
  <2> QED
    BY <2>2, <2>3
<1>3. InnerItem(t, 2) = [item |-> [major |-> Bstr, val |-> pr], pos |-> 6]
  <2>1. /\ t[2] = 32 * Bstr + 3 /\ Bstr \in {Bstr, Tstr} /\ 3 \in Nat /\ 3 <= 23
        /\ 2 \in Nat
    BY DEF TokenBytes, Bstr
  <2>2. Holds(S, t, 2, 3, pr)
    <3>1. 2 + 3 <= Len(t) /\ At(t, 2, pr) /\ t \in Seq(S)
      BY <1>1 DEF TokenBytes
    <3> QED
      BY <3>1, <1>1, Zenon DEF Holds
  <2>3. InnerItem(t, 2) = [item |-> [major |-> Bstr, val |-> pr], pos |-> 2 + 1 + 3]
    BY <2>1, <2>2, SmallString
  <2> QED
    BY <2>3
<1>4. InnerItem(t, 6) = [item |-> [major |-> Map, val |-> <<>>], pos |-> 7]
  <2>1. t[6] = 160 /\ 6 \in Nat
    BY DEF TokenBytes
  <2>2. InnerItem(t, 6) = [item |-> [major |-> Map, val |-> <<>>], pos |-> 6 + 1]
    BY <2>1, EmptyMap
  <2> QED
    BY <2>2
<1>5. InnerItem(t, 7) = [item |-> [major |-> Bstr, val |-> pl], pos |-> 9 + l]
  <2>1. t[7] = 88 /\ t[7 + 1] = l /\ 7 \in Nat
    BY DEF TokenBytes
  <2>2. Holds(S, t, 7 + 1, l, pl)
    <3>1. 7 + 1 + l <= Len(t) /\ At(t, 7 + 1, pl) /\ t \in Seq(S)
      BY <1>1 DEF TokenBytes
    <3> QED
      BY <3>1, <1>1, Zenon DEF Holds
  <2>3. l \in Byte /\ l > 23 /\ 7 + 2 + l = 9 + l
    BY <1>1
  <2> HIDE DEF l
  <2>4. InnerItem(t, 7) = [item |-> [major |-> Bstr, val |-> pl], pos |-> 7 + 2 + l]
    BY <2>1, <2>2, <2>3, LongString
  <2> QED
    BY <2>3, <2>4, Zenon
<1>6. InnerItem(t, 9 + l).item = [major |-> Bstr, val |-> m]
  <2> DEFINE n == 9 + l
  <2>1. n \in Nat /\ n + 1 = 10 + l /\ n + 1 + 32 = Len(t)
    BY <1>1 DEF TokenBytes
  <2>2. 32 \in Byte /\ 32 > 23
    BY ByteIsInt
  <2>3. t[n] = 88 /\ t[n + 1] = 32 /\ At(t, n + 1, m) /\ t \in Seq(S)
    BY <2>1, Zenon DEF TokenBytes
  <2> HIDE DEF n, l
  <2>4. n + 1 + 32 <= Len(t)
    BY <2>1
  <2>5. Holds(S, t, n + 1, 32, m)
    BY <1>1, <2>3, <2>4, Zenon DEF Holds
  <2>6. InnerItem(t, n) = [item |-> [major |-> Bstr, val |-> m], pos |-> n + 2 + 32]
    <3>1. n \in Nat /\ t[n] = 88 /\ t[n + 1] = 32
      BY <2>1, <2>3
    <3> QED
      BY <2>2, <2>5, <3>1, LongString
  <2> QED
    BY <2>6 DEF n
<1> QED
  BY <1>2, <1>3, <1>4, <1>5, <1>6

LEMMA DecodeToken ==
  ASSUME NEW S, NEW pr, NEW pl, NEW m, Parts(S, pr, pl, m)
  PROVE  LET decoded == cbor_decode(TokenOf(pr, pl, m))
         IN /\ decoded.major = List /\ Len(decoded.val) = 4
            /\ decoded.val[1].val = pr /\ decoded.val[3].val = pl /\ decoded.val[4].val = m
<1> DEFINE t == TokenOf(pr, pl, m)
           l == Len(pl)
           n == 9 + l
           end == InnerItem(t, n).pos
           p == <<2, 6, 7, n, end>>
<1>1. TokenBytes(t, S, pr, pl, m)
  BY TokenShapeOf, TokenBytesOfShape
<1>2. /\ t[1] \div 32 = List /\ ValueOf(Argument(t, 1)) = 4 /\ After(t, 1) = 2
      /\ InnerItem(t, 2) = [item |-> [major |-> Bstr, val |-> pr], pos |-> 6]
      /\ InnerItem(t, 6) = [item |-> [major |-> Map, val |-> <<>>], pos |-> 7]
      /\ InnerItem(t, 7) = [item |-> [major |-> Bstr, val |-> pl], pos |-> n]
      /\ InnerItem(t, n).item = [major |-> Bstr, val |-> m]
  BY <1>1, TokenItems
<1>3. List # Map
  BY DEF List, Map
<1>4. /\ t[1] \div 32 \in {List, Map} /\ 4 \in 0 .. 6
      /\ 4 = (IF t[1] \div 32 = Map THEN 2 ELSE 1) * ValueOf(Argument(t, 1))
  BY <1>2, <1>3
<1> HIDE DEF t, n, end
<1>5. p[1] = 2 /\ p[2] = 6 /\ p[3] = 7 /\ p[4] = n /\ p[5] = end
  OBVIOUS
<1> HIDE DEF p
<1>6. p[1] = After(t, 1) /\ \A i \in 1 .. 4 : p[i + 1] = InnerItem(t, p[i]).pos
  <2>1. /\ p[2] = InnerItem(t, p[1]).pos /\ p[3] = InnerItem(t, p[2]).pos
        /\ p[4] = InnerItem(t, p[3]).pos /\ p[5] = InnerItem(t, p[4]).pos
    BY <1>2, <1>5 DEF end
  <2> QED
    BY <1>2, <1>5, <2>1
<1>7. cbor_decode(t)
        = [major |-> t[1] \div 32, val |-> [i \in 1 .. 4 |-> InnerItem(t, p[i]).item]]
  BY <1>4, <1>6, Items
<1> DEFINE decoded == cbor_decode(t)
<1>8. /\ decoded.major = List /\ Len(decoded.val) = 4
      /\ \A i \in 1 .. 4 : decoded.val[i] = InnerItem(t, p[i]).item
  BY <1>2, <1>7
<1> HIDE DEF decoded
<1>9. /\ decoded.val[1] = InnerItem(t, 2).item /\ decoded.val[3] = InnerItem(t, 7).item
      /\ decoded.val[4] = InnerItem(t, n).item
  BY <1>5, <1>8
<1>10. /\ decoded.major = List /\ Len(decoded.val) = 4
       /\ decoded.val[1].val = pr /\ decoded.val[3].val = pl /\ decoded.val[4].val = m
  BY <1>2, <1>8, <1>9
<1> QED
  BY <1>10 DEF decoded, t

-----------------------------------------------------------------------------
\* The two MAC_structures

LEMMA OneByte ==
  ASSUME NEW s \in Seq(Byte), Len(s) = 1, NEW c \in Byte, s[1] = c
  PROVE  s = <<c>>
<1> DEFINE t == <<c>>
<1>1. t \in Seq(Byte) /\ Len(t) = 1 /\ t[1] = c
  BY Single
<1> HIDE DEF t
<1>2. Len(s) = Len(t) /\ \A i \in 1 .. Len(s) : s[i] = t[i]
  BY <1>1
<1>3. s = t
  BY <1>1, <1>2, SeqEqual
<1> QED
  BY <1>3 DEF t

LEMMA TwoBytes ==
  ASSUME NEW s \in Seq(Byte), Len(s) = 2, NEW c \in Byte, NEW d \in Byte, s[1] = c, s[2] = d
  PROVE  s = <<c, d>>
<1> DEFINE t == <<c, d>>
<1>1. t \in Seq(Byte) /\ Len(t) = 2 /\ t[1] = c /\ t[2] = d
  OBVIOUS
<1> HIDE DEF t
<1>2. Len(s) = Len(t) /\ \A i \in 1 .. Len(s) : s[i] = t[i]
  BY <1>1
<1>3. s = t
  BY <1>1, <1>2, SeqEqual
<1> QED
  BY <1>3 DEF t

\* The encoder's strings and the verifier's are the same.
LEMMA BstrAgrees ==
  ASSUME NEW bs \in Seq(Byte), Len(bs) <= 255
  PROVE  AddBytes(bs) = cbor_bstr(bs)
<1> DEFINE n == Len(bs)
           head == Head5(Bstr, Number(n))
<1>1. n \in Byte /\ n \in Nat /\ Bstr \in 0 .. 5 /\ 32 * Bstr = 64 /\ 32 * Bstr + 24 = 88
  BY ByteIsInt DEF Bstr
<1> HIDE DEF n
<1>2. /\ head \in Seq(Byte)
      /\ n <= 23 => Len(head) = 1 /\ head[1] = 32 * Bstr + n
      /\ n > 23 => Len(head) = 2 /\ head[1] = 32 * Bstr + 24 /\ head[2] = n
  <2>1. n \in Byte /\ Bstr \in 0 .. 5
    BY <1>1
  <2> QED
    BY <2>1, HeadOfByte
<1> HIDE DEF head
<1>3. CASE n <= 23
  <2>1. PICK c \in Byte : c = 64 + n
    BY <1>1, <1>3, ByteIsInt
  <2>2. Len(head) = 1 /\ head[1] = c
    BY <1>1, <1>2, <1>3, <2>1
  <2>3. head = <<c>>
    BY <1>2, <2>2, OneByte
  <2> QED
    BY <1>3, <2>1, <2>3, Zenon DEF AddBytes, cbor_bstr, head, n
<1>4. CASE n > 23
  <2>1. PICK c \in Byte : c = 88
    BY <1>1, ByteIsInt
  <2>2. Len(head) = 2 /\ head[1] = c /\ head[2] = n /\ ~ (n <= 23)
    BY <1>1, <1>2, <1>4, <2>1
  <2>3. head = <<c, n>>
    BY <1>1, <1>2, <2>2, TwoBytes
  <2>4. head = <<88, n>> /\ ~ (n <= 23)
    BY <2>1, <2>2, <2>3, Zenon
  <2> QED
    BY <2>4, Zenon DEF AddBytes, cbor_bstr, head, n
<1> QED
  BY <1>1, <1>3, <1>4

\* puf_attest.c's, and verifier_mqtt.py's.
StructureOf(pr, pl) ==
  OpenArray(4) \o AddText(Mac0) \o AddBytes(pr) \o AddBytes(<<>>) \o AddBytes(pl)
Rebuilt(pr, pl) ==
  <<132, 100>> \o Mac0 \o cbor_bstr(pr) \o <<64>> \o cbor_bstr(pl)

LEMMA StructuresAgree ==
  ASSUME NEW pr \in Seq(Byte), Len(pr) <= 255, NEW pl \in Seq(Byte), Len(pl) <= 255
  PROVE  StructureOf(pr, pl) = Rebuilt(pr, pl)
<1>1. AddBytes(pr) = cbor_bstr(pr) /\ AddBytes(pl) = cbor_bstr(pl)
  BY BstrAgrees
<1>2. AddBytes(<<>>) = <<64>>
  <2>1. <<>> \in Seq(Byte) /\ Len(<<>>) <= 23 /\ Len(<<>>) = 0
    BY Empty
  <2>2. /\ AddBytes(<<>>) \in Seq(Byte) /\ Len(AddBytes(<<>>)) = 1 + Len(<<>>)
        /\ AddBytes(<<>>)[1] = 64 + Len(<<>>)
    BY <2>1, ShortItem
  <2> DEFINE a == AddBytes(<<>>)
  <2>3. a \in Seq(Byte) /\ Len(a) = 1 /\ a[1] = 64 /\ 64 \in Byte
    BY <2>1, <2>2, ByteIsInt
  <2> HIDE DEF a
  <2>4. a = <<64>>
    BY <2>3, OneByte
  <2> QED
    BY <2>4 DEF a
<1>3. OpenArray(4) \o AddText(Mac0) = <<132, 100>> \o Mac0
  <2> DEFINE a == <<132>>
             b == <<100>>
             c == Head5(Tstr, Number(Len(Mac0)))
  <2>1. 132 \in Byte /\ 100 \in Byte
    BY DEF Byte
  <2>2. OpenArray(4) = a
    BY <2>1, SmallBytes, OneByte
  <2>3. c = b
    <3>1. Tstr \in 0 .. 5 /\ 4 \in Nat /\ 4 <= 23 /\ 32 * Tstr + 4 = 100
      BY DEF Tstr
    <3>2. c = Head5(Tstr, Number(4))
      BY IssuerIsText, Mac0IsText
    <3> HIDE DEF c
    <3>3. c \in Seq(Byte) /\ Len(c) = 1 /\ c[1] = 100
      BY <3>1, <3>2, SmallHead
    <3> QED
      BY <2>1, <3>3, OneByte
  <2>4. a \o b = <<132, 100>>
    <3>1. /\ a \in Seq(Byte) /\ Len(a) = 1 /\ a[1] = 132
          /\ b \in Seq(Byte) /\ Len(b) = 1 /\ b[1] = 100
      BY <2>1, Single
    <3> DEFINE u == a \o b
    <3> HIDE DEF a, b
    <3>2. /\ u \in Seq(Byte) /\ Len(u) = Len(a) + Len(b)
          /\ \A i \in 1 .. Len(a) : u[i] = a[i]
          /\ \A i \in 1 .. Len(b) : u[Len(a) + i] = b[i]
      <4>1. a \in Seq(Byte) /\ b \in Seq(Byte)
        BY <3>1
      <4> QED
        BY <4>1, Concat
    <3> HIDE DEF u
    <3>3. u \in Seq(Byte) /\ Len(u) = 2 /\ u[1] = 132 /\ u[2] = 100
      BY <3>1, <3>2
    <3>4. u = <<132, 100>>
      BY <2>1, <3>3, TwoBytes
    <3> QED
      BY <3>4 DEF u
  <2>5. a \in Seq(Byte) /\ b \in Seq(Byte) /\ Mac0 \in Seq(Byte)
    BY <2>1, Single, Mac0IsText
  <2> HIDE DEF a, b, c
  <2>6. (a \o b) \o Mac0 = a \o (b \o Mac0)
    <3> DEFINE d == Mac0
    <3> HIDE DEF d
    <3>1. a \in Seq(Byte) /\ b \in Seq(Byte) /\ d \in Seq(Byte)
      BY <2>5 DEF d
    <3>2. (a \o b) \o d = a \o (b \o d)
      BY <3>1, Z3T(30)
    <3> QED
      BY <3>2 DEF d
  <2>7. AddText(Mac0) = b \o Mac0
    BY <2>3, Zenon DEF AddText, c
  <2> QED
    BY <2>2, <2>4, <2>6, <2>7, Zenon
<1> QED
  BY <1>1, <1>2, <1>3, Zenon DEF StructureOf, Rebuilt

LEMMA StructureFits ==
  ASSUME NEW pr \in Seq(Byte), Len(pr) <= 16,
         NEW pl \in Seq(Byte), 23 < Len(pl), Len(pl) <= 96
  PROVE  StructureOf(pr, pl) \in Seq(Byte) /\ Len(StructureOf(pr, pl)) <= 160
<1> DEFINE a1 == OpenArray(4)
           a2 == AddText(Mac0)
           a3 == AddBytes(pr)
           a4 == AddBytes(<<>>)
           a5 == AddBytes(pl)
           q2 == a1 \o a2
           q3 == q2 \o a3
           q4 == q3 \o a4
           q5 == q4 \o a5
<1>1. a1 \in Seq(Byte) /\ Len(a1) = 1
  BY SmallBytes
<1>2. a2 \in Seq(Byte) /\ Len(a2) = 5
  <2>1. Mac0 \in Seq(Byte) /\ Len(Mac0) <= 23
    BY Mac0IsText
  <2>2. a2 \in Seq(Byte) /\ Len(a2) = 1 + Len(Mac0)
    BY <2>1, TextItem
  <2> QED
    BY <2>2, Mac0IsText
<1>3. a3 \in Seq(Byte) /\ Len(a3) = 1 + Len(pr)
  <2>1. Len(pr) <= 23
    OBVIOUS
  <2> QED
    BY <2>1, ShortItem
<1>4. a4 \in Seq(Byte) /\ Len(a4) = 1
  <2>1. <<>> \in Seq(Byte) /\ Len(<<>>) <= 23
    BY Empty
  <2>2. a4 \in Seq(Byte) /\ Len(a4) = 1 + Len(<<>>)
    BY <2>1, ShortItem
  <2> QED
    BY <2>2, Empty
<1>5. a5 \in Seq(Byte) /\ Len(a5) = 2 + Len(pl)
  <2>1. Byte \subseteq Byte /\ Len(pl) <= 255
    OBVIOUS
  <2> QED
    BY <2>1, LongItem
<1> HIDE DEF a1, a2, a3, a4, a5
<1>6. q2 \in Seq(Byte) /\ Len(q2) = 6
  <2>1. a1 \in Seq(Byte) /\ a2 \in Seq(Byte)
    BY <1>1, <1>2
  <2>2. q2 \in Seq(Byte) /\ Len(q2) = Len(a1) + Len(a2)
    BY <2>1, Concat
  <2> HIDE DEF q2
  <2> QED
    BY <1>1, <1>2, <2>2
<1> HIDE DEF q2
<1>7. q3 \in Seq(Byte) /\ Len(q3) = Len(q2) + Len(a3)
  <2>1. q2 \in Seq(Byte) /\ a3 \in Seq(Byte)
    BY <1>3, <1>6
  <2> QED
    BY <2>1, Concat
<1> HIDE DEF q3
<1>8. q4 \in Seq(Byte) /\ Len(q4) = Len(q3) + Len(a4)
  <2>1. q3 \in Seq(Byte) /\ a4 \in Seq(Byte)
    BY <1>4, <1>7
  <2> QED
    BY <2>1, Concat
<1> HIDE DEF q4
<1>9. q5 \in Seq(Byte) /\ Len(q5) = Len(q4) + Len(a5)
  <2>1. q4 \in Seq(Byte) /\ a5 \in Seq(Byte)
    BY <1>5, <1>8
  <2> QED
    BY <2>1, Concat
<1> HIDE DEF q5
<1>10. Len(pr) \in Nat /\ Len(pl) \in Nat
  OBVIOUS
<1> HIDE DEF q5
<1>11. Len(q5) <= 160
  BY <1>3, <1>4, <1>5, <1>6, <1>7, <1>8, <1>9, <1>10
<1> QED
  BY <1>9, <1>11 DEF StructureOf, q5, q4, q3, q2, a1, a2, a3, a4, a5

-----------------------------------------------------------------------------
\* MACs and digits

\* Bytes, and those of MACs.
MacByte == Byte \cup [key : Keys, message : Seq(Byte), at : 1 .. 32]

LEMMA HmacShape ==
  ASSUME NEW k \in Keys, NEW m \in Seq(Byte)
  PROVE  Hmac(k, m) \in Seq(MacByte) /\ Len(Hmac(k, m)) = 32
<1>1. ASSUME NEW i \in 1 .. 32 PROVE [key |-> k, message |-> m, at |-> i] \in MacByte
  BY DEF MacByte
<1> HIDE DEF MacByte
<1> DEFINE e(i) == [key |-> k, message |-> m, at |-> i]
<1>2. \A i \in 1 .. 32 : e(i) \in MacByte
  BY <1>1
<1>3. Hmac(k, m) = [i \in 1 .. 32 |-> e(i)]
  BY DEF Hmac
<1> HIDE DEF e
<1> QED
  BY <1>2, <1>3

\* Nothing else has the same MAC.
LEMMA HmacInjective ==
  ASSUME NEW k, NEW m, NEW j, NEW n
  PROVE  Hmac(k, m) = Hmac(j, n) <=> k = j /\ m = n
<1>1. ASSUME Hmac(k, m) = Hmac(j, n) PROVE k = j /\ m = n
  <2>1. Hmac(k, m)[1] = Hmac(j, n)[1]
    BY <1>1
  <2>2. [key |-> k, message |-> m, at |-> 1] = [key |-> j, message |-> n, at |-> 1]
    BY <2>1 DEF Hmac
  <2> QED
    BY <2>2
<1> QED
  BY <1>1

LEMMA HexAndBack ==
  ASSUME NEW S, NEW t \in Seq(S)
  PROVE  Len(Hex(t)) = 2 * Len(t) /\ FromHex(Hex(t)) = t
<1> DEFINE l == Len(t)
           digit == [i \in 1 .. 2 * l |-> <<t[(i + 1) \div 2],
                                            IF i % 2 = 1 THEN "high" ELSE "low">>]
<1>1. l \in Nat /\ t = [i \in 1 .. l |-> t[i]]
  OBVIOUS
<1>2. Hex(t) = digit
  BY DEF Hex
<1> HIDE DEF l
<1>3. Len(digit) = 2 * l /\ (2 * l) \div 2 = l
  BY <1>1
<1>4. ASSUME NEW i \in 1 .. l PROVE digit[2 * i - 1][1] = t[i]
  <2>1. 2 * i - 1 \in 1 .. 2 * l /\ ((2 * i - 1) + 1) \div 2 = i
    BY <1>1
  <2> QED
    BY <2>1
<1> HIDE DEF digit
<1>5. FromHex(digit) = [i \in 1 .. l |-> digit[2 * i - 1][1]]
  BY <1>3 DEF FromHex
<1>6. [i \in 1 .. l |-> digit[2 * i - 1][1]] = [i \in 1 .. l |-> t[i]]
  BY <1>4
<1> QED
  BY <1>1, <1>2, <1>3, <1>5, <1>6 DEF l

-----------------------------------------------------------------------------
\* The verdict on any token of the device

LEMMA WidthAndLength ==
  ASSUME NEW ms, Uptime(ms)
  PROVE  WidthOf(ms) = 8 <=> Len(ms) > 4
<1> DEFINE l == Len(ms)
<1>1. l \in Nat
  BY DEF Uptime
<1>2. WidthOf(ms) = IF l = 0 \/ (l = 1 /\ ms[1] <= 23) THEN 0
                    ELSE IF l <= 2 THEN l ELSE IF l <= 4 THEN 4 ELSE 8
  BY DEF WidthOf
<1> HIDE DEF l
<1>3. WidthOf(ms) = 8 <=> l > 4
  BY <1>1, <1>2
<1> QED
  BY <1>3, Zenon DEF l

LEMMA NoncesAreNonces == \A n \in Nonces : IsNonce(n)
  BY NoncesAssumption DEF IsNonce

LEMMA UptimesAreUptimes == \A ms \in Uptimes : Uptime(ms)
  BY UptimesAssumption DEF Uptime

\* A token with the MAC under k of the MAC_structure of what is in it.
VerdictOn(k, ms, n) ==
  IF k # K_auth THEN Fail("MAC verification failed")
  ELSE IF Len(ms) > 4 THEN Fail("Nonce missing")
  ELSE IF n # nonce_sent THEN Fail("Nonce mismatch")
  ELSE [says |-> "PASS", issuer |-> Issuer, iat |-> ms]

LEMMA VerifyToken ==
  ASSUME NEW k \in Keys, NEW ms, Uptime(ms), NEW n, IsNonce(n), NEW pl, PayloadShape(pl, ms, n)
  PROVE  verify_cose_mac0(TokenOf(Protected, pl, Hmac(k, StructureOf(Protected, pl))))
           = VerdictOn(k, ms, n)
<1> DEFINE sent == StructureOf(Protected, pl)
           m == Hmac(k, sent)
           t == TokenOf(Protected, pl, m)
           w == WidthOf(ms)
           decoded == cbor_decode(t)
           parts == decoded.val
           claims == cbor_decode(parts[3].val).val
           nonce_tok == Get(claims, [major |-> Nint, val |-> Number(0)])
<1>1. Protected \in Seq(Byte) /\ Len(Protected) = 3
  BY ProtectedShape
<1>2. pl \in Seq(Byte) /\ 23 < Len(pl) /\ Len(pl) <= 62
  <2>1. pl \in Seq(Byte) /\ Len(pl) = 54 + w
    BY DEF PayloadShape
  <2>2. w \in {0, 1, 2, 4, 8}
    BY WidthIsNat
  <2> HIDE DEF w
  <2> QED
    BY <2>1, <2>2
<1>3. sent \in Seq(Byte)
  <2>1. Len(Protected) <= 16 /\ Len(pl) <= 96
    BY <1>1, <1>2
  <2> QED
    BY <1>1, <1>2, <2>1, StructureFits
<1>4. m \in Seq(MacByte) /\ Len(m) = 32
  BY <1>3, HmacShape
<1>5. Parts(MacByte, Protected, pl, m)
  BY <1>1, <1>2, <1>4 DEF Parts, MacByte
<1>6. /\ decoded.major = List /\ Len(parts) = 4
      /\ parts[1].val = Protected /\ parts[3].val = pl /\ parts[4].val = m
  BY <1>5, DecodeToken
<1>7. ClaimsRead(claims, ms, n)
  BY <1>6, DecodeClaims
<1>8. /\ w = 8 => nonce_tok.major = None
      /\ w # 8 => /\ nonce_tok = [major |-> Bstr, val |-> n]
                  /\ Get(claims, [major |-> Uint, val |-> Number(1)]).val = Issuer
                  /\ Get(claims, [major |-> Uint, val |-> Number(6)]).val = ms
  BY <1>7, GetClaims
<1>9. w = 8 <=> Len(ms) > 4
  BY WidthAndLength
<1>10. <<132, 100>> \o Mac0 \o cbor_bstr(parts[1].val) \o <<64>> \o cbor_bstr(parts[3].val)
         = sent
  <2>1. Len(Protected) <= 255 /\ Len(pl) <= 255
    BY <1>1, <1>2
  <2>2. sent = Rebuilt(Protected, pl)
    BY <1>1, <1>2, <2>1, StructuresAgree
  <2> QED
    BY <1>6, <2>2, Zenon DEF Rebuilt
<1> DEFINE structure == <<132, 100>> \o Mac0 \o cbor_bstr(parts[1].val) \o <<64>>
                                     \o cbor_bstr(parts[3].val)
           issuer == Get(claims, [major |-> Uint, val |-> Number(1)]).val
           time == Get(claims, [major |-> Uint, val |-> Number(6)]).val
<1>11. verify_cose_mac0(t)
         = IF decoded.major # List \/ Len(parts) # 4 THEN Fail("Not a valid COSE_Mac0")
           ELSE IF Hmac(K_auth, structure) # parts[4].val THEN Fail("MAC verification failed")
           ELSE IF nonce_tok.major # Bstr THEN Fail("Nonce missing")
           ELSE IF nonce_tok.val # nonce_sent THEN Fail("Nonce mismatch")
           ELSE [says |-> "PASS", issuer |-> issuer, iat |-> time]
  BY Zenon DEF verify_cose_mac0
<1>12. Hmac(K_auth, structure) # parts[4].val <=> k # K_auth
  <2>1. structure = sent /\ parts[4].val = Hmac(k, sent)
    BY <1>6, <1>10
  <2> HIDE DEF structure, sent, parts
  <2>2. Hmac(K_auth, structure) = Hmac(k, sent) <=> K_auth = k /\ structure = sent
    BY HmacInjective
  <2> QED
    BY <2>1, <2>2, Zenon
<1>13. None # Bstr
  BY DEF None, Bstr
<1> HIDE DEF sent, m, t, w, decoded, parts, claims, nonce_tok, structure, issuer, time
<1>14. verify_cose_mac0(t) = VerdictOn(k, ms, n)
  <2>1. CASE k # K_auth
    BY <2>1, <1>6, <1>11, <1>12, Zenon DEF VerdictOn
  <2>2. CASE k = K_auth /\ Len(ms) > 4
    BY <2>2, <1>6, <1>8, <1>9, <1>11, <1>12, <1>13, Zenon DEF VerdictOn
  <2>3. CASE k = K_auth /\ ~ (Len(ms) > 4)
    <3>1. nonce_tok.major = Bstr /\ nonce_tok.val = n /\ issuer = Issuer /\ time = ms
      BY <2>3, <1>8, <1>9 DEF issuer, time
    <3> QED
      BY <2>3, <3>1, <1>6, <1>11, <1>12, Zenon DEF VerdictOn
  <2> QED
    BY <2>1, <2>2, <2>3
<1> QED
  BY <1>14 DEF t, m, sent

-----------------------------------------------------------------------------
\* The invariant: what each buffer holds, at each step of the device and the
\* verifier.  Everything else follows from what was proved of its contents.

HasNonce == IF pc = "nonce" THEN nonce = <<>> ELSE nonce \in Nonces

HasProt == prot = IF pc \in {"nonce", "protected"} THEN <<>> ELSE Protected

HasPayload ==
  IF pc \in {"nonce", "protected", "payload"} THEN iat = <<>> /\ payload = <<>>
  ELSE iat \in Uptimes /\ payload = Claims(iat)

HasStructure ==
  pc \in {"mac", "assemble", "publish", "verify", "verified", "psa_error"} =>
    mac_structure = StructureOf(prot, payload)

HasMac == mac = IF pc = "assemble" THEN Hmac(key, mac_structure) ELSE <<>>

HasToken ==
  token = IF pc \in {"publish", "verify", "verified"}
          THEN TokenOf(prot, payload, Hmac(key, StructureOf(prot, payload)))
          ELSE <<>>

HasHex == hex = IF pc \in {"verify", "verified"} THEN Hex(token) ELSE <<>>

HasVerdict ==
  verdict = IF pc = "verified" THEN VerdictOn(key, iat, nonce)
            ELSE [says |-> "", issuer |-> <<>>, iat |-> <<>>]

CInv ==
  /\ pc \in {"nonce", "protected", "payload", "mac_structure", "mac", "assemble", "publish",
             "verify", "verified", "psa_error"}
  /\ key \in Keys /\ nonce_sent \in Nonces
  /\ HasNonce /\ HasProt /\ HasPayload /\ HasStructure /\ HasMac /\ HasToken /\ HasHex
  /\ HasVerdict

\* The contents of the buffers once they are built.
LEMMA BuffersFit ==
  ASSUME IsNonce(nonce), NEW ms, Uptime(ms), NEW k \in Keys
  PROVE  LET pl == Claims(ms)
             sent == StructureOf(Protected, pl)
             t == TokenOf(Protected, pl, Hmac(k, sent))
         IN /\ pl \in Seq(Byte) /\ Len(pl) <= PayloadSize
            /\ Len(sent) <= MacStructSize
            /\ Len(Hmac(k, sent)) = 32
            /\ t \in Seq(MacByte) /\ Len(t) \in Nat /\ Len(t) <= TokenMax
<1> DEFINE pl == Claims(ms)
           sent == StructureOf(Protected, pl)
           m == Hmac(k, sent)
           t == TokenOf(Protected, pl, m)
           w == WidthOf(ms)
<1>1. pl \in Seq(Byte) /\ Len(pl) = 54 + w
  BY ClaimsShape DEF PayloadShape, IsNonce
<1>2. w \in {0, 1, 2, 4, 8}
  BY WidthIsNat
<1> HIDE DEF w, pl
<1>3. 23 < Len(pl) /\ Len(pl) <= 96 /\ Len(pl) <= 255 /\ 42 + Len(pl) <= 256
  BY <1>1, <1>2
<1>4. Protected \in Seq(Byte) /\ Len(Protected) = 3 /\ Len(Protected) <= 16
  BY ProtectedShape
<1>5. sent \in Seq(Byte) /\ Len(sent) <= 160
  <2>1. /\ Protected \in Seq(Byte) /\ Len(Protected) <= 16
        /\ pl \in Seq(Byte) /\ 23 < Len(pl) /\ Len(pl) <= 96
    BY <1>1, <1>3, <1>4
  <2> QED
    BY <2>1, StructureFits
<1> HIDE DEF sent
<1>6. m \in Seq(MacByte) /\ Len(m) = 32
  BY <1>5, HmacShape
<1> HIDE DEF m
<1>7. Parts(MacByte, Protected, pl, m)
  BY <1>1, <1>3, <1>4, <1>6 DEF Parts, MacByte
<1>8. t \in Seq(MacByte) /\ Len(t) = 42 + Len(pl)
  BY <1>7, TokenShapeOf DEF TokenShape
<1> HIDE DEF t
<1>9. Len(t) \in Nat /\ Len(t) <= 256
  BY <1>1, <1>3, <1>8
<1> QED
  BY <1>1, <1>3, <1>5, <1>6, <1>8, <1>9 DEF PayloadSize, MacStructSize, TokenMax, pl, sent, m, t

LEMMA TokenIsBuilt ==
  ASSUME CInv, pc \in {"publish", "verify", "verified"}
  PROVE  token \in Seq(MacByte) /\ Len(token) \in Nat /\ Len(token) <= TokenMax
<1>1. /\ prot = Protected /\ payload = Claims(iat) /\ iat \in Uptimes /\ nonce \in Nonces
      /\ key \in Keys
      /\ token = TokenOf(prot, payload, Hmac(key, StructureOf(prot, payload)))
  BY DEF CInv, HasProt, HasPayload, HasNonce, HasToken
<1>2. IsNonce(nonce) /\ Uptime(iat)
  BY <1>1, NoncesAreNonces, UptimesAreUptimes
<1>3. LET t == TokenOf(Protected, Claims(iat), Hmac(key, StructureOf(Protected, Claims(iat))))
      IN t \in Seq(MacByte) /\ Len(t) \in Nat /\ Len(t) <= TokenMax
  BY <1>1, <1>2, BuffersFit
<1> QED
  BY <1>1, <1>3, Zenon

LEMMA CInvInit == Init => CInv
  BY DEF Init, CInv, HasNonce, HasProt, HasPayload, HasStructure, HasMac, HasToken, HasHex,
         HasVerdict

LEMMA CInvNext == CInv /\ [Next]_vars => CInv'
<1> SUFFICES ASSUME CInv, [Next]_vars PROVE CInv'
  OBVIOUS
<1> USE DEF CInv
<1>1. CASE ReceiveNonce
  <2>1. PICK n \in Nonces : nonce' = FromHex(Hex(n))
    BY <1>1 DEF ReceiveNonce
  <2>2. nonce' = n
    <3>1. IsNonce(n)
      BY NoncesAreNonces
    <3>2. n \in Seq(Byte)
      BY <3>1, NonceItem
    <3> QED
      BY <2>1, <3>2, HexAndBack
  <2> QED
    BY <1>1, <2>2 DEF ReceiveNonce, Goto, HasNonce, HasProt, HasPayload, HasStructure, HasMac,
                     HasToken, HasHex, HasVerdict
<1>2. CASE BuildProtected
  <2>1. prot' = Protected /\ pc' = "payload"
    <3>1. Len(Protected) <= ProtSize
      BY ProtectedShape DEF ProtSize
    <3>2. prot' = Protected
      BY <1>2 DEF BuildProtected, Protected
    <3> QED
      BY <1>2, <3>1, <3>2 DEF BuildProtected, Finish, Goto
  <2> QED
    BY <1>2, <2>1 DEF BuildProtected, HasNonce, HasProt, HasPayload, HasStructure, HasMac,
                     HasToken, HasHex, HasVerdict
<1>3. CASE BuildPayload
  <2>1. pc = "payload" /\ iat' \in Uptimes /\ payload' = Claims(iat') /\ nonce' = nonce
    BY <1>3 DEF BuildPayload
  <2>2. Len(payload') <= PayloadSize
    <3>1. IsNonce(nonce) /\ Uptime(iat')
      BY <2>1, NoncesAreNonces, UptimesAreUptimes DEF HasNonce
    <3> QED
      BY <2>1, <3>1, BuffersFit
  <2>3. pc' = "mac_structure"
    BY <1>3, <2>2 DEF BuildPayload, Finish, Goto
  <2>4. payload' = Claims(iat)'
    BY <2>1 DEF Claims
  <2> QED
    BY <1>3, <2>1, <2>3, <2>4 DEF BuildPayload, HasNonce, HasProt, HasPayload, HasStructure,
                     HasMac, HasToken, HasHex, HasVerdict
<1>4. CASE BuildMacStructure
  <2>1. /\ pc = "mac_structure" /\ nonce' = nonce /\ iat' = iat /\ prot' = prot
        /\ payload' = payload /\ key' = key
    BY <1>4 DEF BuildMacStructure
  <2>2. prot = Protected /\ payload = Claims(iat) /\ iat \in Uptimes /\ nonce \in Nonces
    BY <2>1 DEF HasProt, HasPayload, HasNonce
  <2>3. mac_structure' = StructureOf(prot, payload)
    BY <1>4, Zenon DEF BuildMacStructure, StructureOf
  <2>4. Len(mac_structure') <= MacStructSize
    <3>1. IsNonce(nonce) /\ Uptime(iat)
      BY <2>2, NoncesAreNonces, UptimesAreUptimes
    <3>2. Len(StructureOf(Protected, Claims(iat))) <= MacStructSize
      BY <3>1, BuffersFit
    <3> QED
      BY <2>2, <2>3, <3>2, Zenon
  <2>5. pc' = "mac"
    BY <1>4, <2>4 DEF BuildMacStructure, Finish, Goto
  <2>6. Claims(iat)' = Claims(iat)
    BY <2>1 DEF Claims
  <2> QED
    BY <1>4, <2>1, <2>2, <2>3, <2>5, <2>6 DEF BuildMacStructure, HasNonce, HasProt, HasPayload,
                     HasStructure, HasMac, HasToken, HasHex, HasVerdict
<1>5. CASE ComputeMac
  <2>1. Claims(iat)' = Claims(iat)
    BY <1>5 DEF ComputeMac, Claims
  <2> QED
    BY <1>5, <2>1 DEF ComputeMac, Goto, HasNonce, HasProt, HasPayload, HasStructure, HasMac,
                     HasToken, HasHex, HasVerdict
<1>6. CASE PsaFails
  <2>1. Claims(iat)' = Claims(iat)
    BY <1>6 DEF PsaFails, Claims
  <2> QED
    BY <1>6, <2>1 DEF PsaFails, Goto, HasNonce, HasProt, HasPayload, HasStructure, HasMac,
                     HasToken, HasHex, HasVerdict
<1>7. CASE Assemble
  <2>1. /\ pc = "assemble" /\ nonce' = nonce /\ iat' = iat /\ prot' = prot
        /\ payload' = payload /\ key' = key
    BY <1>7 DEF Assemble
  <2>2. /\ prot = Protected /\ payload = Claims(iat) /\ iat \in Uptimes /\ nonce \in Nonces
        /\ mac = Hmac(key, StructureOf(prot, payload))
    BY <2>1 DEF HasProt, HasPayload, HasNonce, HasMac, HasStructure
  <2>3. token' = TokenOf(prot, payload, Hmac(key, StructureOf(prot, payload)))
    BY <1>7, <2>2, Zenon DEF Assemble, TokenOf
  <2>4. Len(token') <= TokenMax
    <3>1. IsNonce(nonce) /\ Uptime(iat)
      BY <2>2, NoncesAreNonces, UptimesAreUptimes
    <3>2. Len(TokenOf(Protected, Claims(iat), Hmac(key, StructureOf(Protected, Claims(iat)))))
            <= TokenMax
      BY <3>1, BuffersFit
    <3> QED
      BY <2>2, <2>3, <3>2, Zenon
  <2>5. pc' = "publish"
    BY <1>7, <2>4 DEF Assemble, Finish, Goto
  <2>6. Claims(iat)' = Claims(iat)
    BY <2>1 DEF Claims
  <2> QED
    BY <1>7, <2>1, <2>2, <2>3, <2>5, <2>6 DEF Assemble, HasNonce, HasProt, HasPayload,
                     HasStructure, HasMac, HasToken, HasHex, HasVerdict
<1>8. CASE Publish
  <2>1. Claims(iat)' = Claims(iat)
    BY <1>8 DEF Publish, Claims
  <2> QED
    BY <1>8, <2>1 DEF Publish, Goto, HasNonce, HasProt, HasPayload, HasStructure, HasMac,
                     HasToken, HasHex, HasVerdict
<1>9. CASE OnToken
  <2>1. /\ pc = "verify" /\ pc' = "verified" /\ verdict' = verify_cose_mac0(FromHex(hex))
        /\ key' = key /\ iat' = iat /\ nonce' = nonce /\ nonce_sent' = nonce_sent
    BY <1>9 DEF OnToken, Goto
  <2>2. /\ prot = Protected /\ payload = Claims(iat) /\ iat \in Uptimes /\ nonce \in Nonces
        /\ hex = Hex(token)
        /\ token = TokenOf(Protected, payload, Hmac(key, StructureOf(Protected, payload)))
    BY <2>1 DEF HasProt, HasPayload, HasNonce, HasToken, HasHex
  <2>3. IsNonce(nonce) /\ Uptime(iat)
    BY <2>2, NoncesAreNonces, UptimesAreUptimes
  <2>4. token \in Seq(MacByte)
    BY <2>2, <2>3, BuffersFit
  <2>5. FromHex(hex) = token
    BY <2>2, <2>4, HexAndBack
  <2>6. PayloadShape(payload, iat, nonce)
    BY <2>2, <2>3, ClaimsShape DEF IsNonce
  <2>7. verify_cose_mac0(token) = VerdictOn(key, iat, nonce)
    BY <2>2, <2>3, <2>6, VerifyToken
  <2>8. verdict' = VerdictOn(key, iat, nonce)'
    BY <2>1, <2>5, <2>7 DEF VerdictOn
  <2>9. Claims(iat)' = Claims(iat)
    BY <2>1 DEF Claims
  <2> QED
    BY <1>9, <2>1, <2>8, <2>9 DEF OnToken, HasNonce, HasProt, HasPayload, HasStructure, HasMac,
                     HasToken, HasHex, HasVerdict
<1>10. CASE UNCHANGED vars
  BY <1>10 DEF vars, HasNonce, HasProt, HasPayload, HasStructure, HasMac, HasToken, HasHex,
               HasVerdict, Claims, VerdictOn
<1> QED
  BY <1>1, <1>2, <1>3, <1>4, <1>5, <1>6, <1>7, <1>8, <1>9, <1>10 DEF Next

LEMMA CInvAlways == Spec => []CInv
  BY CInvInit, CInvNext, PTL DEF Spec

-----------------------------------------------------------------------------
\* The theorems

\* Every buffer holds bytes at every step, and the MAC is in memory only
\* between ComputeMac and Assemble.
THEOREM TypeCorrect == Spec => []TypeOK
<1>1. CInv => TypeOK
  <2> SUFFICES ASSUME CInv PROVE TypeOK
    OBVIOUS
  <2> USE DEF CInv
  <2>1. /\ pc \in {"nonce", "protected", "payload", "mac_structure", "mac", "assemble",
                   "publish", "verify", "verified", "too_long", "psa_error"}
        /\ key \in Keys /\ nonce_sent \in Nonces /\ nonce \in Nonces \cup {<<>>}
        /\ iat \in Uptimes \cup {<<>>}
    BY DEF HasNonce, HasPayload
  <2>2. prot \in Seq(Byte)
    BY ProtectedShape, Empty DEF HasProt
  <2>3. payload \in Seq(Byte)
    <3>1. CASE payload = <<>>
      BY <3>1, Empty
    <3>2. CASE payload # <<>>
      <4>1. IsNonce(nonce) /\ Uptime(iat) /\ payload = Claims(iat)
        BY <3>2, NoncesAreNonces, UptimesAreUptimes DEF HasPayload, HasNonce
      <4> QED
        BY <4>1, BuffersFit
    <3> QED
      BY <3>1, <3>2
  <2>4. \A i \in DOMAIN prot \cup DOMAIN payload :
          /\ i \in DOMAIN prot => prot[i] \in Byte
          /\ i \in DOMAIN payload => payload[i] \in Byte
    BY <2>2, <2>3
  <2>5. Len(mac) = IF pc = "assemble" THEN 32 ELSE 0
    <3>1. CASE pc = "assemble"
      <4>1. /\ IsNonce(nonce) /\ Uptime(iat) /\ prot = Protected /\ payload = Claims(iat)
            /\ mac = Hmac(key, StructureOf(prot, payload))
        BY <3>1, NoncesAreNonces, UptimesAreUptimes
           DEF HasPayload, HasNonce, HasProt, HasMac, HasStructure
      <4>2. Len(Hmac(key, StructureOf(Protected, Claims(iat)))) = 32
        BY <4>1, BuffersFit
      <4> QED
        BY <3>1, <4>1, <4>2, Zenon
    <3>2. CASE pc # "assemble"
      BY <3>2, Empty DEF HasMac
    <3> QED
      BY <3>1, <3>2
  <2>6. Len(hex) \in {0, 2 * Len(token)}
    <3>1. CASE pc \in {"verify", "verified"}
      <4>1. token \in Seq(MacByte)
        BY <3>1, TokenIsBuilt
      <4>2. hex = Hex(token)
        BY <3>1 DEF HasHex
      <4> QED
        BY <4>1, <4>2, HexAndBack
    <3>2. CASE pc \notin {"verify", "verified"}
      BY <3>2, Empty DEF HasHex
    <3> QED
      BY <3>1, <3>2
  <2>7. verdict.says \in {"", "Not a valid COSE_Mac0", "MAC verification failed",
                          "Nonce missing", "Nonce mismatch", "PASS"}
    BY DEF HasVerdict, VerdictOn, Fail
  <2> QED
    BY <2>1, <2>4, <2>5, <2>6, <2>7 DEF TypeOK
<1> QED
  BY <1>1, CInvAlways, PTL

\* No buffer of puf_attest_build is too small, whatever the key, the nonce and
\* the uptime, and the hex digits of the token fit puf_mqtt_publish_token's.
THEOREM AlwaysFits == Spec => []FitsBuffers
<1>1. CInv => FitsBuffers
  <2> SUFFICES ASSUME CInv PROVE FitsBuffers
    OBVIOUS
  <2> USE DEF CInv
  <2>1. CASE pc \in {"verify", "verified"}
    <3>1. token \in Seq(MacByte) /\ Len(token) \in Nat /\ Len(token) <= TokenMax
      BY <2>1, TokenIsBuilt
    <3>2. hex = Hex(token)
      BY <2>1 DEF HasHex
    <3>3. Len(hex) = 2 * Len(token)
      BY <3>1, <3>2, HexAndBack
    <3> QED
      BY <2>1, <3>1, <3>3 DEF FitsBuffers, TokenMax
  <2>2. CASE pc \notin {"verify", "verified"}
    BY <2>2, Empty DEF FitsBuffers, HasHex, TokenMax
  <2> QED
    BY <2>1, <2>2
<1> QED
  BY <1>1, CInvAlways, PTL

\* The verifier's decoder and the device's encoder agree on every token: it is
\* refused for the right reason, or passes.
THEOREM VerdictCorrect == Spec => []VerdictIsRight
<1>1. CInv => VerdictIsRight
  <2> SUFFICES ASSUME CInv, pc = "verified" PROVE VerdictIsRight
    BY DEF VerdictIsRight
  <2>1. verdict = VerdictOn(key, iat, nonce)
    BY DEF CInv, HasVerdict
  <2>2. Len(iat) \in Nat
    BY UptimesAreUptimes DEF CInv, HasPayload, Uptime
  <2>3. CASE key # K_auth
    BY <2>1, <2>3, Zenon DEF VerdictOn, Fail, VerdictIsRight
  <2>4. CASE key = K_auth /\ Len(iat) > 4
    <3>1. ~ (Len(iat) <= 4)
      BY <2>2, <2>4
    <3> QED
      BY <2>1, <2>4, <3>1, Zenon DEF VerdictOn, Fail, VerdictIsRight
  <2>5. CASE key = K_auth /\ Len(iat) <= 4
    <3> DEFINE l == Len(iat)
    <3>1. ~ (l > 4)
      <4> HIDE DEF l
      <4> QED
        BY <2>2, <2>5 DEF l
    <3>2. CASE nonce # nonce_sent
      BY <2>1, <2>5, <3>1, <3>2, Zenon DEF VerdictOn, Fail, VerdictIsRight
    <3>3. CASE nonce = nonce_sent
      BY <2>1, <2>5, <3>1, <3>3, Zenon DEF VerdictOn, Fail, VerdictIsRight
    <3> QED
      BY <3>2, <3>3
  <2>6. Len(iat) > 4 \/ Len(iat) <= 4
    BY <2>2
  <2> QED
    BY <2>3, <2>4, <2>5, <2>6
<1> QED
  BY <1>1, CInvAlways, PTL

\* A token that passes carries the device's issuer and uptime to the verifier.
THEOREM ClaimsArrive == Spec => []ClaimsKept
<1>1. CInv => ClaimsKept
  <2> SUFFICES ASSUME CInv, verdict.says = "PASS"
               PROVE  verdict.issuer = Issuer /\ verdict.iat = iat
    BY DEF ClaimsKept
  <2>1. pc = "verified" /\ verdict = VerdictOn(key, iat, nonce)
    BY DEF CInv, HasVerdict
  <2>2. verdict = [says |-> "PASS", issuer |-> Issuer, iat |-> iat]
    BY <2>1 DEF VerdictOn, Fail
  <2> QED
    BY <2>2
<1> QED
  BY <1>1, CInvAlways, PTL
=============================================================================
