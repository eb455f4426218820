-------------------------- MODULE OrderBook_proofs --------------------------
(***************************************************************************)
(* OrderBook for every set of ids, prices, quantities and deltas, however  *)
(* the two kinds of operation are mixed: the iterators of the index, the   *)
(* aggregates of the levels, a feed that is delivered again, and what hash *)
(* and diff tell of two books.                                             *)
(***************************************************************************)
EXTENDS OrderBook, SequenceTheorems, FiniteSetTheorems, TLAPS

Node == [id : OrderId, leaves : Nat \ {0}, at : Nat]
LevelType == [qty : Nat, cnt : Nat, fifo : Seq(Node)]
BookType == [Side -> [Price -> LevelType]]

-----------------------------------------------------------------------------
(* A fifo and the sum over it *)

\* The nodes of a fifo were all made before the call numbered c, each by a call
\* of its own.
FifoOK(q, c) ==
  /\ \A i \in 1 .. Len(q) : q[i].at < c
  /\ \A i, j \in 1 .. Len(q) : q[i].at = q[j].at => i = j

\* total is the sum over q: acc holds the sums over its beginnings, which grow.
Sums(q, total) ==
  \E acc \in [0 .. Len(q) -> Nat] :
    /\ acc[0] = 0 /\ acc[Len(q)] = total
    /\ \A i \in 1 .. Len(q) : acc[i] = acc[i - 1] + q[i].leaves
    /\ \A i, j \in 0 .. Len(q) : i < j => acc[i] < acc[j]

LEMMA AppendIs ==
  ASSUME NEW q \in Seq(Node), NEW n \in Node
  PROVE  /\ Len(q) \in Nat /\ Append(q, n) \in Seq(Node)
         /\ Len(Append(q, n)) = Len(q) + 1
         /\ \A i \in 1 .. Len(q) : Append(q, n)[i] = q[i]
         /\ Append(q, n)[Len(q) + 1] = n
         /\ \A i \in 1 .. Len(q) : q[i] \in Node
BY LenProperties, AppendProperties

LEMMA RemoveAtIs ==
  ASSUME NEW q \in Seq(Node), NEW k \in 1 .. Len(q)
  PROVE  /\ Len(q) \in Nat /\ RemoveAt(q, k) \in Seq(Node)
         /\ Len(RemoveAt(q, k)) = Len(q) - 1
         /\ \A i \in 1 .. Len(q) - 1 : RemoveAt(q, k)[i] = IF i < k THEN q[i] ELSE q[i + 1]
         /\ \A i \in 1 .. Len(q) : q[i] \in Node
<1> DEFINE a == SubSeq(q, 1, k - 1)
           b == SubSeq(q, k + 1, Len(q))
<1>1. Len(q) \in Nat /\ k \in Nat /\ \A i \in 1 .. Len(q) : q[i] \in Node
  BY LenProperties
<1>2. /\ a \in Seq(Node) /\ Len(a) = k - 1
      /\ \A i \in 1 .. k - 1 : a[i] = q[i]
  <2>1. \A i \in 1 .. k - 1 : q[i] \in Node
    BY <1>1
  <2>2. k - 1 \in Int /\ (1 <= k - 1 \/ k - 1 = 0) /\ k - 1 - 1 + 1 = k - 1
    BY <1>1
  <2> QED BY <1>1, <2>1, <2>2, SubSeqProperties
<1>3. /\ b \in Seq(Node) /\ Len(b) = Len(q) - k
      /\ \A i \in 1 .. Len(q) - k : b[i] = q[k + i]
  <2>1. /\ \A i \in k + 1 .. Len(q) : q[i] \in Node
        /\ k + 1 \in Int /\ Len(q) \in Int
    BY <1>1
  <2>2. /\ b \in Seq(Node) /\ Len(b) = IF k + 1 <= Len(q) THEN Len(q) - (k + 1) + 1 ELSE 0
        /\ \A i \in 1 .. Len(q) - (k + 1) + 1 : b[i] = q[k + 1 + i - 1]
    BY <2>1, SubSeqProperties
  <2>3. Len(q) - (k + 1) + 1 = Len(q) - k /\ (k + 1 <= Len(q) \/ Len(q) - k = 0)
    BY <1>1
  <2>4. ASSUME NEW i \in 1 .. Len(q) - k PROVE b[i] = q[k + i]
    <3>1. i \in 1 .. Len(q) - (k + 1) + 1
      BY <2>3
    <3> HIDE DEF b
    <3>2. b[i] = q[k + 1 + i - 1]
      BY <2>2, <3>1
    <3>3. k + 1 + i - 1 = k + i
      BY <1>1
    <3> QED BY <3>2, <3>3
  <2> HIDE DEF b
  <2>5. Len(b) = Len(q) - k
    BY <2>2, <2>3
  <2> QED BY <2>2, <2>4, <2>5
<1> HIDE DEF a, b
<1>4. /\ a \o b \in Seq(Node) /\ Len(a \o b) = Len(q) - 1
      /\ \A i \in 1 .. Len(q) - 1 :
           (a \o b)[i] = IF i <= k - 1 THEN a[i] ELSE b[i - (k - 1)]
  <2>1. Len(a) + Len(b) = Len(q) - 1
    BY <1>1, <1>2, <1>3
  <2>2. /\ a \o b \in Seq(Node) /\ Len(a \o b) = Len(a) + Len(b)
        /\ \A i \in 1 .. Len(a) + Len(b) :
             (a \o b)[i] = IF i <= Len(a) THEN a[i] ELSE b[i - Len(a)]
    BY <1>2, <1>3, ConcatProperties
  <2> QED BY <1>2, <2>1, <2>2
<1>5. RemoveAt(q, k) = a \o b
  BY DEF RemoveAt, a, b
<1>6. ASSUME NEW i \in 1 .. Len(q) - 1
      PROVE  (a \o b)[i] = IF i < k THEN q[i] ELSE q[i + 1]
  <2>2. CASE i < k
    BY <1>1, <1>2, <1>4, <2>2
  <2>3. CASE ~(i < k)
    <3>1. i - (k - 1) \in 1 .. Len(q) - k /\ k + (i - (k - 1)) = i + 1
      BY <1>1, <2>3
    <3>2. b[i - (k - 1)] = q[i + 1]
      BY <1>3, <3>1
    <3> QED BY <1>1, <1>4, <2>3, <3>2
  <2> QED BY <2>2, <2>3
<1> QED BY <1>1, <1>4, <1>5, <1>6

LEMMA AppendKeepsFifo ==
  ASSUME NEW q \in Seq(Node), NEW c \in Nat, FifoOK(q, c), NEW n \in Node, n.at = c
  PROVE  FifoOK(Append(q, n), c + 1)
<1> DEFINE r == Append(q, n)
<1>1. /\ Len(q) \in Nat /\ Len(r) = Len(q) + 1 /\ r[Len(q) + 1] = n
      /\ \A i \in 1 .. Len(q) : r[i] = q[i] /\ q[i].at \in Nat
  <2>1. \A i \in 1 .. Len(q) : r[i] = q[i] /\ q[i] \in Node
    BY AppendIs
  <2>2. Len(q) \in Nat /\ Len(r) = Len(q) + 1 /\ r[Len(q) + 1] = n
    BY AppendIs
  <2> HIDE DEF r
  <2> QED BY <2>1, <2>2 DEF Node
<1> HIDE DEF r
<1>2. \A i \in 1 .. Len(r) : i \in 1 .. Len(q) \/ i = Len(q) + 1
  BY <1>1
<1>3. \A i \in 1 .. Len(q) : r[i].at < c /\ r[i].at \in Nat
  BY <1>1 DEF FifoOK
<1>4. r[Len(q) + 1].at = c
  BY <1>1
<1>5. \A i \in 1 .. Len(r) : r[i].at < c + 1
  BY <1>2, <1>3, <1>4
<1>6. ASSUME NEW i \in 1 .. Len(r), NEW j \in 1 .. Len(r), r[i].at = r[j].at PROVE i = j
  BY <1>1, <1>2, <1>3, <1>4, <1>6 DEF FifoOK
<1> QED BY <1>5, <1>6 DEF FifoOK, r

LEMMA RemoveKeepsFifo ==
  ASSUME NEW q \in Seq(Node), NEW c \in Nat, FifoOK(q, c), NEW k \in 1 .. Len(q)
  PROVE  /\ FifoOK(RemoveAt(q, k), c)
         /\ \A i \in 1 .. Len(q) : i # k => \E j \in 1 .. Len(RemoveAt(q, k)) : RemoveAt(q, k)[j] = q[i]
<1> DEFINE r == RemoveAt(q, k)
<1>1. /\ Len(q) \in Nat /\ Len(r) = Len(q) - 1 /\ k \in Nat
      /\ \A i \in 1 .. Len(q) - 1 : r[i] = IF i < k THEN q[i] ELSE q[i + 1]
  BY RemoveAtIs
<1> HIDE DEF r
<1> DEFINE from(i) == IF i < k THEN i ELSE i + 1
<1>2. \A i \in 1 .. Len(r) : from(i) \in 1 .. Len(q) /\ r[i] = q[from(i)]
  BY <1>1
<1>3. \A i, j \in 1 .. Len(r) : from(i) = from(j) => i = j
  BY <1>1
<1>4. ASSUME NEW i \in 1 .. Len(q), i # k PROVE \E j \in 1 .. Len(r) : r[j] = q[i]
  <2>1. CASE i < k
    <3>1. i \in 1 .. Len(r) /\ r[i] = q[i]
      BY <1>1, <2>1
    <3> QED BY <3>1
  <2>2. CASE ~(i < k)
    <3>1. /\ i - 1 \in 1 .. Len(r) /\ i - 1 \in 1 .. Len(q) - 1
          /\ ~(i - 1 < k) /\ i - 1 + 1 = i
      BY <1>1, <1>4, <2>2
    <3>2. r[i - 1] = q[i]
      BY <1>1, <3>1
    <3> QED BY <3>1, <3>2
  <2> QED BY <2>1, <2>2
<1> HIDE DEF from
<1>5. \A i \in 1 .. Len(r) : r[i].at < c
  BY <1>2 DEF FifoOK
<1>6. ASSUME NEW i \in 1 .. Len(r), NEW j \in 1 .. Len(r), r[i].at = r[j].at PROVE i = j
  <2>1. from(i) = from(j)
    BY <1>2, <1>6 DEF FifoOK
  <2> QED BY <2>1, <1>3
<1>7. FifoOK(r, c)
  BY <1>5, <1>6 DEF FifoOK
<1> QED BY <1>4, <1>7 DEF r

LEMMA NothingSums == Sums(<<>>, 0)
<1> DEFINE acc == [i \in 0 .. 0 |-> 0]
<1>1. Len(<<>>) = 0
  BY EmptySeq
<1>2. /\ acc \in [0 .. 0 -> Nat] /\ acc[0] = 0
      /\ \A i \in 1 .. 0 : FALSE
      /\ \A i, j \in 0 .. 0 : ~(i < j)
  OBVIOUS
<1> QED BY <1>1, <1>2 DEF Sums

LEMMA SumAppend ==
  ASSUME NEW q \in Seq(Node), NEW total \in Nat, Sums(q, total), NEW n \in Node
  PROVE  Sums(Append(q, n), total + n.leaves)
<1> DEFINE r == Append(q, n)
           len == Len(q)
<1>1. /\ len \in Nat /\ Len(r) = len + 1 /\ r[len + 1] = n
      /\ \A i \in 1 .. len : r[i] = q[i]
      /\ n.leaves \in Nat /\ n.leaves > 0
  BY AppendIs DEF Node
<1>2. PICK acc \in [0 .. len -> Nat] :
        /\ acc[0] = 0 /\ acc[len] = total
        /\ \A i \in 1 .. len : acc[i] = acc[i - 1] + q[i].leaves
        /\ \A i, j \in 0 .. len : i < j => acc[i] < acc[j]
  BY DEF Sums
<1> HIDE DEF r, len
<1> DEFINE new == [i \in 0 .. len + 1 |-> IF i <= len THEN acc[i] ELSE total + n.leaves]
<1>3. /\ new \in [0 .. len + 1 -> Nat]
      /\ \A i \in 0 .. len : new[i] = acc[i]
      /\ new[len + 1] = total + n.leaves
  BY <1>1, <1>2
<1> HIDE DEF new
<1>4. new[0] = 0
  BY <1>1, <1>2, <1>3
<1>5. ASSUME NEW i \in 1 .. len + 1 PROVE new[i] = new[i - 1] + r[i].leaves
  <2>1. CASE i = len + 1
    BY <1>1, <1>2, <1>3, <2>1
  <2>2. CASE i # len + 1
    <3>1. i \in 1 .. len /\ i \in 0 .. len /\ i - 1 \in 0 .. len
      BY <1>1, <2>2
    <3> QED BY <1>1, <1>2, <1>3, <3>1
  <2> QED BY <2>1, <2>2
<1>6. ASSUME NEW i \in 0 .. len + 1, NEW j \in 0 .. len + 1, i < j PROVE new[i] < new[j]
  <2>1. i \in 0 .. len /\ new[i] = acc[i] /\ acc[i] \in Nat
    BY <1>1, <1>2, <1>3, <1>6
  <2>2. CASE j = len + 1
    <3>1. i = len \/ i < len
      BY <1>1, <2>1
    <3>2. len \in 0 .. len
      BY <1>1
    <3>3. acc[i] <= total
      BY <1>2, <2>1, <3>1, <3>2
    <3> QED BY <1>1, <1>3, <2>1, <2>2, <3>3
  <2>3. CASE j # len + 1
    <3>1. j \in 0 .. len
      BY <1>1, <2>3
    <3> QED BY <1>2, <1>3, <1>6, <2>1, <3>1
  <2> QED BY <2>2, <2>3
<1> QED BY <1>1, <1>3, <1>4, <1>5, <1>6 DEF Sums, r

LEMMA SumRemove ==
  ASSUME NEW q \in Seq(Node), NEW total \in Nat, Sums(q, total), NEW k \in 1 .. Len(q)
  PROVE  /\ q[k].leaves <= total
         /\ Sums(RemoveAt(q, k), total - q[k].leaves)
<1> DEFINE r == RemoveAt(q, k)
           len == Len(q)
           gone == q[k].leaves
<1>1. /\ len \in Nat /\ Len(r) = len - 1 /\ k \in Nat /\ 1 <= k /\ k <= len
      /\ \A i \in 1 .. len - 1 : r[i] = IF i < k THEN q[i] ELSE q[i + 1]
      /\ \A i \in 1 .. len : q[i].leaves \in Nat
  <2>1. /\ len \in Nat /\ Len(r) = len - 1
        /\ \A i \in 1 .. len - 1 : r[i] = IF i < k THEN q[i] ELSE q[i + 1]
    BY RemoveAtIs
  <2>2. \A i \in 1 .. len : q[i] \in Node
    BY RemoveAtIs
  <2>3. \A i \in 1 .. len : q[i].leaves \in Nat
    BY <2>2 DEF Node
  <2> HIDE DEF r
  <2> QED BY <2>1, <2>3
<1>2. PICK acc \in [0 .. len -> Nat] :
        /\ acc[0] = 0 /\ acc[len] = total
        /\ \A i \in 1 .. len : acc[i] = acc[i - 1] + q[i].leaves
        /\ \A i, j \in 0 .. len : i < j => acc[i] < acc[j]
  BY DEF Sums
<1>3. gone \in Nat /\ acc[k] = acc[k - 1] + gone
  BY <1>1, <1>2
<1> HIDE DEF r, len, gone
<1>4. ASSUME NEW i \in 0 .. len, i >= k PROVE acc[i] >= acc[k] /\ acc[i] \in Nat
  <2>1. (i = k \/ k < i) /\ k \in 0 .. len
    BY <1>1, <1>4
  <2> QED BY <1>2, <2>1
<1>5. /\ k - 1 \in 0 .. len /\ acc[k - 1] \in Nat
      /\ \A i \in 0 .. len : i < k => acc[i] <= acc[k - 1] /\ acc[i] \in Nat
  <2>1. k - 1 \in 0 .. len
    BY <1>1
  <2>2. ASSUME NEW i \in 0 .. len, i < k PROVE acc[i] <= acc[k - 1] /\ acc[i] \in Nat
    <3>1. i = k - 1 \/ i < k - 1
      BY <1>1, <2>2
    <3> QED BY <1>2, <2>1, <3>1
  <2> QED BY <1>2, <2>1, <2>2
<1> DEFINE new == [i \in 0 .. len - 1 |-> IF i < k THEN acc[i] ELSE acc[i + 1] - gone]
<1>6. /\ \A i \in 0 .. len - 1 : i < k => new[i] = acc[i] /\ i \in 0 .. len
      /\ \A i \in 0 .. len - 1 :
           ~(i < k) => new[i] = acc[i + 1] - gone /\ i + 1 \in 0 .. len /\ i + 1 > k
  BY <1>1
<1>7. ASSUME NEW i \in 0 .. len - 1 PROVE new[i] \in Nat
  <2>1. CASE i < k
    BY <1>5, <1>6, <2>1
  <2>2. CASE ~(i < k)
    <3>1. new[i] = acc[i + 1] - gone /\ i + 1 \in 0 .. len /\ i + 1 >= k
      BY <1>1, <1>6, <2>2
    <3>2. acc[i + 1] >= acc[k] /\ acc[i + 1] \in Nat
      BY <1>4, <3>1
    <3> HIDE DEF new
    <3> QED BY <1>3, <1>5, <3>1, <3>2
  <2> QED BY <2>1, <2>2
<1>8. new \in [0 .. len - 1 -> Nat]
  <2> DEFINE body(i) == IF i < k THEN acc[i] ELSE acc[i + 1] - gone
  <2>1. \A i \in 0 .. len - 1 : body(i) \in Nat
    BY <1>7
  <2> QED BY <2>1
<1> HIDE DEF new
<1>9. new[0] = 0
  BY <1>1, <1>2, <1>6
<1>10. new[len - 1] = total - gone /\ gone <= total
  <2>1. acc[len] >= acc[k] /\ len \in 0 .. len /\ len - 1 \in 0 .. len - 1
    BY <1>1, <1>4
  <2>2. CASE k = len
    BY <1>1, <1>2, <1>3, <1>5, <1>6, <2>1, <2>2
  <2>3. CASE k # len
    BY <1>1, <1>2, <1>3, <1>5, <1>6, <2>1, <2>3
  <2> QED BY <2>2, <2>3
<1>11. ASSUME NEW i \in 1 .. len - 1 PROVE new[i] = new[i - 1] + r[i].leaves
  <2>1. /\ i \in 1 .. len /\ i + 1 \in 1 .. len /\ i + 1 - 1 = i /\ i - 1 + 1 = i
        /\ i \in 0 .. len - 1 /\ i - 1 \in 0 .. len - 1
        /\ i \in 0 .. len /\ i - 1 \in 0 .. len /\ i \in Nat
    BY <1>1
  <2>2. acc[i] = acc[i - 1] + q[i].leaves /\ acc[i + 1] = acc[i] + q[i + 1].leaves
    <3>1. \A j \in 1 .. len : acc[j] = acc[j - 1] + q[j].leaves
      BY <1>2
    <3> DEFINE j == i + 1
    <3>2. j \in 1 .. len /\ j - 1 = i
      BY <2>1
    <3>3. acc[j] = acc[i] + q[j].leaves
      <4> HIDE DEF j
      <4> QED BY <3>1, <3>2
    <3> QED BY <2>1, <3>1, <3>3
  <2>3. /\ acc[i] \in Nat /\ acc[i - 1] \in Nat /\ acc[i + 1] \in Nat /\ gone \in Nat
        /\ q[i].leaves \in Nat /\ q[i + 1].leaves \in Nat
    <3>1. acc[i] \in Nat /\ acc[i - 1] \in Nat /\ acc[i + 1] \in Nat
      BY <2>1
    <3> QED BY <1>1, <1>3, <2>1, <3>1
  <2>4. CASE i < k
    <3>1. i - 1 < k
      BY <1>1, <2>1, <2>4
    <3>2. new[i] = acc[i] /\ new[i - 1] = acc[i - 1] /\ r[i] = q[i]
      BY <1>1, <1>6, <2>1, <2>4, <3>1
    <3> QED BY <2>2, <3>2
  <2>5. CASE i = k
    <3>1. ~(i < k) /\ i - 1 < k
      BY <1>1, <2>5
    <3>2. new[i] = acc[i + 1] - gone /\ new[i - 1] = acc[i - 1] /\ r[i] = q[i + 1]
      BY <1>1, <1>6, <2>1, <3>1
    <3>3. acc[i + 1] = acc[i - 1] + gone + q[i + 1].leaves
      BY <1>3, <2>2, <2>5
    <3>4. acc[i + 1] - gone = acc[i - 1] + q[i + 1].leaves
      <4> DEFINE x == acc[i + 1]
                 y == acc[i - 1]
                 z == q[i + 1].leaves
      <4>1. x \in Nat /\ y \in Nat /\ z \in Nat /\ gone \in Nat /\ x = y + gone + z
        BY <2>3, <3>3
      <4> HIDE DEF x, y, z
      <4>2. x - gone = y + z
        BY <4>1
      <4> QED BY <4>2 DEF x, y, z
    <3> QED BY <3>2, <3>4
  <2>6. CASE i > k
    <3>1. ~(i < k) /\ ~(i - 1 < k)
      BY <1>1, <2>1, <2>6
    <3>2. new[i] = acc[i + 1] - gone /\ new[i - 1] = acc[i] - gone /\ r[i] = q[i + 1]
      BY <1>1, <1>6, <2>1, <3>1
    <3>3. acc[i + 1] - gone = (acc[i] - gone) + q[i + 1].leaves
      <4> DEFINE x == acc[i + 1]
                 y == acc[i]
                 z == q[i + 1].leaves
      <4>1. x \in Nat /\ y \in Nat /\ z \in Nat /\ gone \in Nat /\ x = y + z
        BY <2>2, <2>3
      <4> HIDE DEF x, y, z
      <4>2. x - gone = (y - gone) + z
        BY <4>1
      <4> QED BY <4>2 DEF x, y, z
    <3> QED BY <3>2, <3>3
  <2> QED BY <1>1, <2>4, <2>5, <2>6
<1>12. ASSUME NEW i \in 0 .. len - 1, NEW j \in 0 .. len - 1, i < j PROVE new[i] < new[j]
  <2>1. i \in Nat /\ j \in Nat
    BY <1>1
  <2>2. CASE j < k
    BY <1>1, <1>2, <1>6, <1>12, <2>1, <2>2
  <2>3. CASE i < k /\ ~(j < k)
    <3>1. new[i] = acc[i] /\ acc[i] <= acc[k - 1] /\ acc[i] \in Nat
      BY <1>5, <1>6, <2>3
    <3>2. new[j] = acc[j + 1] - gone /\ acc[k] < acc[j + 1] /\ acc[j + 1] \in Nat
      <4>1. j + 1 \in 0 .. len /\ k \in 0 .. len /\ k < j + 1 /\ new[j] = acc[j + 1] - gone
        BY <1>1, <1>6, <2>3
      <4> QED BY <1>2, <4>1
    <3> QED BY <1>3, <1>5, <3>1, <3>2
  <2>4. CASE ~(i < k) /\ ~(j < k)
    <3>1. new[i] = acc[i + 1] - gone /\ new[j] = acc[j + 1] - gone
      BY <1>6, <2>4
    <3>2. acc[i + 1] < acc[j + 1] /\ acc[i + 1] \in Nat /\ acc[j + 1] \in Nat
      BY <1>2, <1>6, <1>12, <2>1, <2>4
    <3> QED BY <1>3, <3>1, <3>2
  <2> QED BY <1>1, <1>12, <2>1, <2>2, <2>3, <2>4
<1>13. Sums(r, total - gone)
  BY <1>1, <1>8, <1>9, <1>10, <1>11, <1>12 DEF Sums
<1> QED BY <1>10, <1>13 DEF r, gone

\* A sum is zero only over nothing.
LEMMA SumPositive ==
  ASSUME NEW q \in Seq(Node), NEW total, Sums(q, total)
  PROVE  total \in Nat /\ Len(q) \in Nat /\ (total > 0 <=> Len(q) > 0)
<1>1. Len(q) \in Nat
  BY LenProperties
<1>2. PICK acc \in [0 .. Len(q) -> Nat] :
        /\ acc[0] = 0 /\ acc[Len(q)] = total
        /\ \A i, j \in 0 .. Len(q) : i < j => acc[i] < acc[j]
  BY DEF Sums
<1>3. 0 \in 0 .. Len(q) /\ Len(q) \in 0 .. Len(q)
  BY <1>1
<1> QED BY <1>1, <1>2, <1>3

\* There is one sum, the one that adds up node by node.
LEMMA SumIsFifoQty ==
  ASSUME NEW q \in Seq(Node), NEW total, Sums(q, total)
  PROVE  FifoQty(q) = total
<1> DEFINE len == Len(q)
           P(g) == g = [i \in 0 .. len |-> IF i = 0 THEN 0 ELSE g[i - 1] + q[i].leaves]
           first == CHOOSE g : P(g)
<1>1. len \in Nat
  BY LenProperties
<1>2. PICK acc \in [0 .. len -> Nat] :
        /\ acc[0] = 0 /\ acc[len] = total
        /\ \A i \in 1 .. len : acc[i] = acc[i - 1] + q[i].leaves
  BY DEF Sums
<1>3. FifoQty(q) = first[len]
  BY DEF FifoQty
<1> HIDE DEF len
<1>4. P(acc)
  <2>1. \A i \in 0 .. len : acc[i] = IF i = 0 THEN 0 ELSE acc[i - 1] + q[i].leaves
    BY <1>1, <1>2
  <2> QED BY <2>1
<1>5. P(first)
  <2> HIDE DEF P
  <2> QED BY <1>4
<1>6. \A i \in 0 .. len : first[i] = IF i = 0 THEN 0 ELSE first[i - 1] + q[i].leaves
  <2> HIDE DEF first
  <2> QED BY <1>5
<1> HIDE DEF first, P
<1>7. ASSUME NEW n \in 0 .. len, first[n] # acc[n] PROVE FALSE
  <2> DEFINE Bad == {i \in 0 .. len : first[i] # acc[i]}
  <2>1. Bad \subseteq Nat /\ Bad # {}
    <3>1. n \in Bad
      BY <1>7
    <3>2. 0 .. len \subseteq Nat
      BY <1>1
    <3> QED BY <3>1, <3>2
  <2>2. PICK i \in Bad : \A j \in Bad : <<j, i>> \notin OpToRel(<, Nat)
    <3> HIDE DEF Bad
    <3> QED BY <2>1, NatLessThanWellFounded, WFMin
  <2>3. i \in 0 .. len /\ first[i] # acc[i] /\ \A j \in Bad : ~(j < i)
    BY <2>1, <2>2 DEF OpToRel
  <2>4. CASE i = 0
    BY <1>2, <1>6, <2>3, <2>4
  <2>5. CASE i # 0
    <3>1. i - 1 \in 0 .. len /\ i - 1 < i /\ i \in 1 .. len
      BY <1>1, <2>3, <2>5
    <3>2. first[i - 1] = acc[i - 1]
      BY <2>3, <3>1
    <3> QED BY <1>2, <1>6, <2>3, <2>5, <3>1, <3>2
  <2> QED BY <2>4, <2>5
<1>8. len \in 0 .. len
  BY <1>1
<1> QED BY <1>2, <1>3, <1>7, <1>8

-----------------------------------------------------------------------------
(* The inductive invariant *)

\* The level has a node of this order, made by that call.
Points(L, id, at) == \E i \in 1 .. Len(L.fifo) : L.fifo[i].id = id /\ L.fifo[i].at = at

\* A book b and an index ix after c calls of addOrder, when a delta has erased
\* the nodes w.
BookOK(b, ix, c, w) ==
  /\ b \in BookType /\ ix \in [OrderId -> Entry \cup {NoEntry}] /\ c \in Nat
  /\ \A s \in Side, p \in Price : FifoOK(b[s][p].fifo, c)
  /\ \A id \in OrderId : ix[id] # NoEntry =>
       Points(b[ix[id].side][ix[id].px], id, ix[id].at) \/ ix[id].at \in w

\* The aggregates of a level are those of its fifo.
Counted(L) == L.cnt = Len(L.fifo) /\ Sums(L.fifo, L.qty)
AllCounted(b) == \A s \in Side, p \in Price : Counted(b[s][p])

NotHollow(b) == \A s \in Side, p \in Price : b[s][p].qty > 0 <=> b[s][p].cnt > 0

OBInv ==
  /\ use \in SUBSET {"L2", "L3"}
  /\ BookOK(levels, index, clock, wiped)
  /\ use = {"L3"} => wiped = {} /\ AllCounted(levels)
  /\ use = {"L2"} => NotHollow(levels)

-----------------------------------------------------------------------------
(* L3 operations *)

LEMMA UnlinkIs ==
  ASSUME NEW L \in LevelType, NEW c \in Nat, FifoOK(L.fifo, c), NEW k \in 1 .. Len(L.fifo)
  PROVE  LET n == L.fifo[k]
         IN  Unlink(L, n.at) = [qty  |-> IF L.qty > n.leaves THEN L.qty - n.leaves ELSE 0,
                                cnt  |-> IF L.cnt > 0 THEN L.cnt - 1 ELSE 0,
                                fifo |-> RemoveAt(L.fifo, k)]
<1>1. DOMAIN L.fifo = 1 .. Len(L.fifo)
  BY LenProperties DEF LevelType
<1>2. Place(L.fifo, L.fifo[k].at) = k
  BY <1>1 DEF Place, FifoOK
<1> QED BY <1>2 DEF Unlink

\* Taking out a node leaves the others where they were, and the aggregates right.
LEMMA UnlinkKeeps ==
  ASSUME NEW L \in LevelType, NEW c \in Nat, FifoOK(L.fifo, c), NEW k \in 1 .. Len(L.fifo),
         NEW at, at = L.fifo[k].at
  PROVE  /\ Unlink(L, at) \in LevelType /\ FifoOK(Unlink(L, at).fifo, c)
         /\ \A id, other : Points(L, id, other) /\ other # at => Points(Unlink(L, at), id, other)
         /\ Counted(L) => Counted(Unlink(L, at))
<1> DEFINE M == Unlink(L, at)
           n == L.fifo[k]
           r == RemoveAt(L.fifo, k)
<1>1. /\ L.fifo \in Seq(Node) /\ L.qty \in Nat /\ L.cnt \in Nat
      /\ n.leaves \in Nat /\ r \in Seq(Node) /\ Len(r) = Len(L.fifo) - 1 /\ Len(L.fifo) \in Nat
  <2>1. L.fifo \in Seq(Node) /\ L.qty \in Nat /\ L.cnt \in Nat
    BY DEF LevelType
  <2>2. n \in Node /\ r \in Seq(Node) /\ Len(r) = Len(L.fifo) - 1 /\ Len(L.fifo) \in Nat
    BY <2>1, RemoveAtIs
  <2> QED BY <2>1, <2>2 DEF Node
<1>2. M = [qty  |-> IF L.qty > n.leaves THEN L.qty - n.leaves ELSE 0,
           cnt  |-> IF L.cnt > 0 THEN L.cnt - 1 ELSE 0,
           fifo |-> r]
  BY UnlinkIs
<1>3. /\ FifoOK(r, c)
      /\ \A i \in 1 .. Len(L.fifo) : i # k => \E j \in 1 .. Len(r) : r[j] = L.fifo[i]
  BY <1>1, RemoveKeepsFifo
<1> HIDE DEF M, n, r
<1>4. M \in LevelType /\ M.fifo = r
  BY <1>1, <1>2 DEF LevelType
<1>5. ASSUME NEW id, NEW other, Points(L, id, other), other # at PROVE Points(M, id, other)
  <2>1. PICK i \in 1 .. Len(L.fifo) : L.fifo[i].id = id /\ L.fifo[i].at = other
    BY <1>5 DEF Points
  <2>2. i # k
    BY <1>5, <2>1
  <2>3. PICK j \in 1 .. Len(r) : r[j] = L.fifo[i]
    BY <1>3, <2>2
  <2> QED BY <1>4, <2>1, <2>3 DEF Points
<1>6. ASSUME Counted(L) PROVE Counted(M)
  <2>1. L.cnt = Len(L.fifo) /\ Sums(L.fifo, L.qty)
    BY <1>6 DEF Counted
  <2>2. n.leaves <= L.qty /\ Sums(r, L.qty - n.leaves)
    BY <1>1, <2>1, SumRemove DEF n, r
  <2>3. M.qty = L.qty - n.leaves
    BY <1>1, <1>2, <2>2
  <2>4. M.cnt = Len(r)
    BY <1>1, <1>2, <2>1
  <2> QED BY <1>4, <2>2, <2>3, <2>4 DEF Counted
<1> QED BY <1>3, <1>4, <1>5, <1>6 DEF M

\* A canceled order leaves a book that is sound.
LEMMA CancelKeeps ==
  ASSUME BookOK(levels, index, clock, wiped), NEW id \in OrderId, ~Dangles(id)
  PROVE  /\ BookOK(LevelsWithout(id), IndexWithout(id), clock, wiped)
         /\ AllCounted(levels) => AllCounted(LevelsWithout(id))
<1> DEFINE e == index[id]
           ix == IndexWithout(id)
           b == LevelsWithout(id)
<1>1. /\ levels \in BookType /\ index \in [OrderId -> Entry \cup {NoEntry}] /\ clock \in Nat
      /\ \A s \in Side, p \in Price : FifoOK(levels[s][p].fifo, clock)
      /\ \A o \in OrderId : index[o] # NoEntry =>
           Points(levels[index[o].side][index[o].px], o, index[o].at) \/ index[o].at \in wiped
  BY DEF BookOK
<1>2. /\ ix \in [OrderId -> Entry \cup {NoEntry}] /\ ix[id] = NoEntry
      /\ \A o \in OrderId : o # id => ix[o] = index[o]
  BY <1>1 DEF IndexWithout
<1>3. CASE b = levels
  BY <1>1, <1>2, <1>3 DEF BookOK
<1>4. CASE b # levels
  <2>1. /\ e # NoEntry /\ LevelOf(e) # EmptyLevel
        /\ b = [levels EXCEPT ![e.side][e.px] = Unlink(@, e.at)]
    BY <1>4 DEF LevelsWithout
  <2>2. e \in Entry /\ e.side \in Side /\ e.px \in Price
    BY <1>1, <2>1 DEF Entry
  <2> DEFINE L == levels[e.side][e.px]
             M == Unlink(L, e.at)
  <2>3. L \in LevelType /\ FifoOK(L.fifo, clock) /\ L.fifo \in Seq(Node)
    BY <1>1, <2>2 DEF BookType, LevelType
  <2>4. PICK k \in 1 .. Len(L.fifo) : L.fifo[k].id = id /\ L.fifo[k].at = e.at
    BY <2>1, <2>3, LenProperties DEF Dangles, Live, LevelOf, ToSet
  <2>5. /\ M \in LevelType /\ FifoOK(M.fifo, clock)
        /\ \A o, other : Points(L, o, other) /\ other # e.at => Points(M, o, other)
        /\ Counted(L) => Counted(M)
    BY <1>1, <2>3, <2>4, UnlinkKeeps
  <2> HIDE DEF M
  <2>6. /\ b \in BookType
        /\ \A s \in Side, p \in Price :
             b[s][p] = IF s = e.side /\ p = e.px THEN M ELSE levels[s][p]
    <3>1. b = [levels EXCEPT ![e.side][e.px] = M]
      BY <2>1 DEF M
    <3>2. levels \in [Side -> [Price -> LevelType]] /\ M \in LevelType
      BY <1>1, <2>5 DEF BookType
    <3>3. b \in [Side -> [Price -> LevelType]]
      BY <2>2, <3>1, <3>2
    <3>4. \A s \in Side, p \in Price :
            b[s][p] = IF s = e.side /\ p = e.px THEN M ELSE levels[s][p]
      BY <2>2, <3>1, <3>2
    <3> QED BY <3>3, <3>4 DEF BookType
  <2>7. ASSUME NEW o \in OrderId, ix[o] # NoEntry
        PROVE  Points(b[ix[o].side][ix[o].px], o, ix[o].at) \/ ix[o].at \in wiped
    <3>1. o # id /\ ix[o] = index[o] /\ index[o] \in Entry
      BY <1>1, <1>2, <2>7
    <3>2. index[o].side \in Side /\ index[o].px \in Price
      BY <3>1 DEF Entry
    <3>3. CASE index[o].side = e.side /\ index[o].px = e.px
      <4>1. ASSUME Points(L, o, index[o].at) PROVE index[o].at # e.at
        <5>1. PICK i \in 1 .. Len(L.fifo) : L.fifo[i].id = o /\ L.fifo[i].at = index[o].at
          BY <4>1 DEF Points
        <5> QED BY <2>3, <2>4, <3>1, <5>1 DEF FifoOK
      <4> HIDE DEF L, e
      <4> QED BY <1>1, <2>5, <2>6, <2>7, <3>1, <3>2, <3>3, <4>1 DEF L
    <3>4. CASE ~(index[o].side = e.side /\ index[o].px = e.px)
      BY <1>1, <2>6, <2>7, <3>1, <3>2, <3>4
    <3> QED BY <3>3, <3>4
  <2>8. \A s \in Side, p \in Price : FifoOK(b[s][p].fifo, clock)
    BY <1>1, <2>5, <2>6
  <2>9. AllCounted(levels) => AllCounted(b)
    BY <2>2, <2>5, <2>6 DEF AllCounted
  <2> QED BY <1>1, <1>2, <2>6, <2>7, <2>8, <2>9 DEF BookOK
<1> QED BY <1>3, <1>4

\* A new order leaves a book that is sound.
LEMMA AddKeeps ==
  ASSUME NEW b, NEW ix, BookOK(b, ix, clock, wiped), NEW id \in OrderId,
         NEW s \in Side, NEW p \in Price, NEW qty \in OrderQtys, AddTo(b, ix, id, s, p, qty)
  PROVE  /\ BookOK(levels', index', clock', wiped)
         /\ AllCounted(b) => AllCounted(levels')
<1> DEFINE n == [id |-> id, leaves |-> qty, at |-> clock]
           L == b[s][p]
           M == [qty |-> L.qty + qty, cnt |-> L.cnt + 1, fifo |-> Append(L.fifo, n)]
<1>1. /\ b \in BookType /\ ix \in [OrderId -> Entry \cup {NoEntry}] /\ clock \in Nat
      /\ \A r \in Side, t \in Price : FifoOK(b[r][t].fifo, clock)
      /\ \A o \in OrderId : ix[o] # NoEntry =>
           Points(b[ix[o].side][ix[o].px], o, ix[o].at) \/ ix[o].at \in wiped
  BY DEF BookOK
<1>2. n \in Node /\ n.leaves = qty /\ n.at = clock /\ n.id = id /\ qty \in Nat
  BY <1>1, OrderBookAssumption DEF Node
<1>3. /\ L \in LevelType /\ L.qty \in Nat /\ L.cnt \in Nat /\ L.fifo \in Seq(Node)
      /\ FifoOK(L.fifo, clock)
  BY <1>1 DEF BookType, LevelType
<1>4. /\ clock' = clock + 1
      /\ levels' = [b EXCEPT ![s][p] = M]
      /\ index' = [ix EXCEPT ![id] = [side |-> s, px |-> p, at |-> clock]]
  BY DEF AddTo
<1> HIDE DEF n, L
<1>5. /\ Append(L.fifo, n) \in Seq(Node) /\ FifoOK(Append(L.fifo, n), clock + 1)
      /\ Len(Append(L.fifo, n)) = Len(L.fifo) + 1 /\ Len(L.fifo) \in Nat
      /\ \A i \in 1 .. Len(L.fifo) : Append(L.fifo, n)[i] = L.fifo[i]
      /\ Append(L.fifo, n)[Len(L.fifo) + 1] = n
  BY <1>1, <1>2, <1>3, AppendIs, AppendKeepsFifo
<1>6. M \in LevelType /\ M.fifo = Append(L.fifo, n)
  BY <1>2, <1>3, <1>5 DEF LevelType
<1>7. /\ Points(M, id, clock)
      /\ \A o, at : Points(L, o, at) => Points(M, o, at)
  <2>1. Points(M, id, clock)
    <3>1. Len(L.fifo) + 1 \in 1 .. Len(M.fifo)
      BY <1>5, <1>6
    <3> QED BY <1>2, <1>5, <1>6, <3>1 DEF Points
  <2>2. \A i \in 1 .. Len(L.fifo) : i \in 1 .. Len(M.fifo)
    BY <1>5, <1>6
  <2> QED BY <1>5, <1>6, <2>1, <2>2 DEF Points
<1>8. Counted(L) => Counted(M)
  <2> SUFFICES ASSUME Counted(L) PROVE Counted(M)
    OBVIOUS
  <2>1. L.cnt = Len(L.fifo) /\ Sums(Append(L.fifo, n), L.qty + qty)
    BY <1>2, <1>3, SumAppend DEF Counted
  <2> QED BY <1>5, <2>1 DEF Counted
<1>9. FifoOK(M.fifo, clock + 1)
  BY <1>5, <1>6
<1> HIDE DEF M
<1>10. /\ levels' \in BookType
       /\ \A r \in Side, t \in Price :
            levels'[r][t] = IF r = s /\ t = p THEN M ELSE b[r][t]
  BY <1>1, <1>4, <1>6 DEF BookType
<1>11. ASSUME NEW r \in Side, NEW t \in Price PROVE FifoOK(levels'[r][t].fifo, clock + 1)
  <2>1. CASE r = s /\ t = p
    BY <1>9, <1>10, <2>1
  <2>2. CASE ~(r = s /\ t = p)
    <3> DEFINE q == b[r][t].fifo
    <3>1. FifoOK(q, clock) /\ q \in Seq(Node)
      BY <1>1 DEF BookType, LevelType
    <3>2. \A i \in 1 .. Len(q) : q[i] \in Node
      BY <3>1, LenProperties
    <3> HIDE DEF q
    <3>3. FifoOK(q, clock + 1)
      BY <1>1, <3>1, <3>2 DEF FifoOK, Node
    <3> QED BY <1>10, <2>2, <3>3 DEF q
  <2> QED BY <2>1, <2>2
<1>12. /\ index' \in [OrderId -> Entry \cup {NoEntry}]
       /\ \A o \in OrderId :
            index'[o] = IF o = id THEN [side |-> s, px |-> p, at |-> clock] ELSE ix[o]
  BY <1>1, <1>4 DEF Entry
<1>13. ASSUME NEW o \in OrderId, index'[o] # NoEntry
       PROVE  Points(levels'[index'[o].side][index'[o].px], o, index'[o].at)
              \/ index'[o].at \in wiped
  <2>1. CASE o = id
    BY <1>7, <1>10, <1>12, <2>1
  <2>2. CASE o # id
    <3>1. ix[o] = index'[o] /\ ix[o] \in Entry /\ ix[o].side \in Side /\ ix[o].px \in Price
      BY <1>1, <1>12, <1>13, <2>2 DEF Entry
    <3>2. \A a : Points(b[ix[o].side][ix[o].px], o, a)
                   => Points(levels'[ix[o].side][ix[o].px], o, a)
      BY <1>7, <1>10, <3>1 DEF L
    <3> QED BY <1>1, <1>13, <3>1, <3>2
  <2> QED BY <2>1, <2>2
<1>14. AllCounted(b) => AllCounted(levels')
  BY <1>8, <1>10 DEF AllCounted, L
<1> QED BY <1>1, <1>4, <1>10, <1>11, <1>12, <1>13, <1>14 DEF BookOK

-----------------------------------------------------------------------------
(* L2 operations *)

\* What a delta makes of the level it names.
Changed(L, d) ==
  IF d.action = "Erase" \/ d.qty = 0 \/ d.cnt = 0 THEN EmptyLevel
  ELSE [qty |-> d.qty, cnt |-> d.cnt, fifo |-> L.fifo]

LEMMA EmptyIs == EmptyLevel \in LevelType /\ Len(EmptyLevel.fifo) = 0
BY EmptySeq DEF EmptyLevel, LevelType

LEMMA UpsertedLevel ==
  ASSUME NEW L \in LevelType, NEW qty \in Nat, NEW cnt \in Nat
  PROVE  [[L EXCEPT !.qty = qty] EXCEPT !.cnt = cnt] = [qty |-> qty, cnt |-> cnt, fifo |-> L.fifo]
<1>1. [L EXCEPT !.qty = qty] = [qty |-> qty, cnt |-> L.cnt, fifo |-> L.fifo]
  BY DEF LevelType
<1>2. [[qty |-> qty, cnt |-> L.cnt, fifo |-> L.fifo] EXCEPT !.cnt = cnt]
        = [qty |-> qty, cnt |-> cnt, fifo |-> L.fifo]
  OBVIOUS
<1> QED BY <1>1, <1>2

LEMMA AppliedIs ==
  ASSUME NEW b \in BookType, NEW d \in Deltas
  PROVE  /\ Applied(b, d) \in BookType
         /\ \A s \in Side, p \in Price :
              Applied(b, d)[s][p] = IF s = d.side /\ p = d.px THEN Changed(b[s][p], d) ELSE b[s][p]
<1>1. d.side \in Side /\ d.px \in Price /\ d.qty \in Nat /\ d.cnt \in Nat
  BY OrderBookAssumption
<1> DEFINE L == b[d.side][d.px]
           M == Changed(L, d)
<1>2. /\ L \in LevelType /\ M \in LevelType
      /\ L = [qty |-> L.qty, cnt |-> L.cnt, fifo |-> L.fifo]
  BY <1>1, EmptyIs DEF BookType, LevelType, Changed
<1>3. Applied(b, d) = [b EXCEPT ![d.side][d.px] = M]
  <2>1. CASE d.action = "Erase" \/ d.qty = 0 \/ d.cnt = 0
    BY <2>1 DEF Applied, UpsertLevel, EraseLevel, Changed
  <2>2. CASE ~(d.action = "Erase" \/ d.qty = 0 \/ d.cnt = 0)
    <3>1. Applied(b, d) = [b EXCEPT ![d.side][d.px].qty = d.qty, ![d.side][d.px].cnt = d.cnt]
      BY <2>2 DEF Applied, UpsertLevel
    <3>2. [[L EXCEPT !.qty = d.qty] EXCEPT !.cnt = d.cnt] = M
      <4>1. M = [qty |-> d.qty, cnt |-> d.cnt, fifo |-> L.fifo]
        BY <2>2 DEF Changed
      <4> HIDE DEF L, M
      <4> QED BY <1>1, <1>2, <4>1, UpsertedLevel
    <3>3. b \in [Side -> [Price -> LevelType]]
      BY DEF BookType
    <3> QED BY <1>1, <3>1, <3>2, <3>3
  <2> QED BY <2>1, <2>2
<1> HIDE DEF M
<1>4. /\ Applied(b, d) \in BookType
      /\ \A s \in Side, p \in Price :
           Applied(b, d)[s][p] = IF s = d.side /\ p = d.px THEN M ELSE b[s][p]
  BY <1>1, <1>2, <1>3 DEF BookType
<1> QED BY <1>4 DEF M

LEMMA SameBook ==
  ASSUME NEW b \in BookType, NEW c \in BookType,
         \A s \in Side, p \in Price : b[s][p] = c[s][p]
  PROVE  b = c
<1>1. \A s \in Side : b[s] = c[s]
  BY DEF BookType
<1> QED BY <1>1 DEF BookType

\* An erased level takes its nodes with it, and they are remembered.
LEMMA DeltaKeeps ==
  ASSUME BookOK(levels, index, clock, wiped), NEW d \in Deltas, ApplyDelta(d)
  PROVE  /\ BookOK(levels', index', clock', wiped')
         /\ NotHollow(levels) => NotHollow(levels')
<1>1. /\ levels \in BookType /\ index \in [OrderId -> Entry \cup {NoEntry}] /\ clock \in Nat
      /\ \A s \in Side, p \in Price : FifoOK(levels[s][p].fifo, clock)
      /\ \A o \in OrderId : index[o] # NoEntry =>
           Points(levels[index[o].side][index[o].px], o, index[o].at) \/ index[o].at \in wiped
  BY DEF BookOK
<1> DEFINE L == levels[d.side][d.px]
           M == Changed(L, d)
           lost == {n.at : n \in ToSet(L.fifo) \ ToSet(M.fifo)}
<1>2. /\ levels' \in BookType /\ index' = index /\ clock' = clock
      /\ \A s \in Side, p \in Price :
           levels'[s][p] = IF s = d.side /\ p = d.px THEN Changed(levels[s][p], d) ELSE levels[s][p]
  BY <1>1, AppliedIs DEF ApplyDelta
<1>3. d.side \in Side /\ d.px \in Price /\ d.qty \in Nat /\ d.cnt \in Nat
  BY OrderBookAssumption
<1>4. wiped' = wiped \cup lost
  BY <1>2, <1>3 DEF ApplyDelta
<1>5. /\ L \in LevelType /\ L.fifo \in Seq(Node) /\ FifoOK(L.fifo, clock)
      /\ Len(L.fifo) \in Nat /\ DOMAIN L.fifo = 1 .. Len(L.fifo)
  <2>1. L \in LevelType /\ L.fifo \in Seq(Node)
    BY <1>1, <1>3 DEF BookType, LevelType
  <2> QED BY <1>1, <1>3, <2>1, LenProperties
<1>6. M = EmptyLevel \/ M.fifo = L.fifo
  BY DEF Changed
<1> HIDE DEF M
<1>7. FifoOK(M.fifo, clock)
  <2>1. CASE M = EmptyLevel
    BY <2>1, EmptyIs DEF FifoOK
  <2> QED BY <1>5, <1>6, <2>1
<1>8. ASSUME NEW o, NEW at, Points(L, o, at) PROVE Points(M, o, at) \/ at \in wiped'
  <2>1. CASE M.fifo = L.fifo
    BY <1>8, <2>1 DEF Points
  <2>2. CASE M = EmptyLevel
    <3>1. PICK i \in 1 .. Len(L.fifo) : L.fifo[i].at = at
      BY <1>8 DEF Points
    <3>2. ToSet(M.fifo) = {}
      BY <2>2 DEF ToSet, EmptyLevel
    <3>3. L.fifo[i] \in ToSet(L.fifo)
      BY <1>5 DEF ToSet
    <3> QED BY <1>4, <3>1, <3>2, <3>3
  <2> QED BY <1>6, <2>1, <2>2
<1> HIDE DEF L, lost
<1>9. \A s \in Side, p \in Price :
        levels'[s][p] = IF s = d.side /\ p = d.px THEN M ELSE levels[s][p]
  BY <1>2 DEF M, L
<1>10. ASSUME NEW o \in OrderId, index'[o] # NoEntry
       PROVE  Points(levels'[index'[o].side][index'[o].px], o, index'[o].at)
              \/ index'[o].at \in wiped'
  <2>1. index[o] \in Entry /\ index[o].side \in Side /\ index[o].px \in Price /\ index'[o] = index[o]
    BY <1>1, <1>2, <1>10 DEF Entry
  <2>2. CASE index[o].at \in wiped
    BY <1>4, <2>1, <2>2
  <2>3. CASE Points(levels[index[o].side][index[o].px], o, index[o].at)
    BY <1>8, <1>9, <2>1, <2>3 DEF L
  <2> QED BY <1>1, <1>10, <2>1, <2>2, <2>3
<1>11. \A s \in Side, p \in Price : FifoOK(levels'[s][p].fifo, clock)
  BY <1>1, <1>7, <1>9
<1>12. NotHollow(levels) => NotHollow(levels')
  <2>1. M.qty > 0 <=> M.cnt > 0
    BY <1>3 DEF M, Changed, EmptyLevel
  <2> QED BY <1>9, <2>1 DEF NotHollow
<1> QED BY <1>1, <1>2, <1>10, <1>11, <1>12 DEF BookOK

-----------------------------------------------------------------------------
(* The invariants of the run *)

LEMMA OBInitKeeps == OBInit => OBInv
<1> SUFFICES ASSUME OBInit PROVE OBInv
  OBVIOUS
<1>1. /\ use \in SUBSET {"L2", "L3"} /\ clock = 0 /\ wiped = {}
      /\ levels \in BookType /\ index \in [OrderId -> Entry \cup {NoEntry}]
      /\ \A id \in OrderId : index[id] = NoEntry
      /\ \A s \in Side, p \in Price : levels[s][p] = EmptyLevel
  BY OrderBookAssumption, EmptyIs DEF OBInit, BookType
<1>2. FifoOK(EmptyLevel.fifo, 0)
  BY EmptyIs DEF FifoOK
<1>3. Counted(EmptyLevel)
  BY EmptyIs, NothingSums DEF Counted, EmptyLevel
<1>4. BookOK(levels, index, clock, wiped)
  BY <1>1, <1>2 DEF BookOK
<1>5. AllCounted(levels) /\ NotHollow(levels)
  BY <1>1, <1>3 DEF AllCounted, NotHollow, EmptyLevel
<1> QED BY <1>1, <1>4, <1>5 DEF OBInv

LEMMA OBStepKeeps == ASSUME OBInv, [OBNext]_obVars PROVE OBInv'
<1>1. /\ use \in SUBSET {"L2", "L3"} /\ BookOK(levels, index, clock, wiped)
      /\ use = {"L3"} => wiped = {} /\ AllCounted(levels)
      /\ use = {"L2"} => NotHollow(levels)
  BY DEF OBInv
<1>2. CASE UNCHANGED obVars
  BY <1>2 DEF OBInv, obVars
<1>3. ASSUME NEW d \in Deltas, ApplyDelta(d) PROVE OBInv'
  <2>1. "L2" \in use /\ use' = use
    BY <1>3 DEF ApplyDelta
  <2> QED BY <1>1, <1>3, <2>1, DeltaKeeps DEF OBInv
<1>4. ASSUME "L3" \in use, use' = use, wiped' = wiped,
             BookOK(levels', index', clock', wiped),
             AllCounted(levels) => AllCounted(levels')
      PROVE  OBInv'
  BY <1>1, <1>4 DEF OBInv
<1>5. ASSUME NEW id \in OrderId, CancelOrder(id) PROVE OBInv'
  <2>1. /\ "L3" \in use /\ UNCHANGED <<use, clock, wiped>> /\ ~Dangles(id)
        /\ levels' = LevelsWithout(id) /\ index' = IndexWithout(id)
    BY <1>5 DEF CancelOrder
  <2> QED BY <1>1, <1>4, <2>1, CancelKeeps
<1>6. ASSUME NEW id \in OrderId, UseFreed(id) PROVE OBInv'
  BY <1>6 DEF UseFreed, OBInv
<1>7. ASSUME NEW id \in OrderId, NEW s \in Side, NEW p \in Price, NEW qty \in OrderQtys,
             AddOrder(id, s, p, qty)
      PROVE  OBInv'
  <2>1. "L3" \in use /\ UNCHANGED <<use, wiped>> /\ AddTo(levels, index, id, s, p, qty)
    BY <1>7 DEF AddOrder
  <2> QED BY <1>1, <1>4, <2>1, AddKeeps
<1>8. ASSUME NEW id \in OrderId, NEW s \in Side, NEW p \in Price, NEW qty \in OrderQtys,
             NEW prev \in OrderId, ReplaceOrder(prev, id, s, p, qty)
      PROVE  OBInv'
  <2>1. /\ "L3" \in use /\ UNCHANGED <<use, wiped>> /\ ~Dangles(prev)
        /\ AddTo(LevelsWithout(prev), IndexWithout(prev), id, s, p, qty)
    BY <1>8 DEF ReplaceOrder
  <2>2. /\ BookOK(LevelsWithout(prev), IndexWithout(prev), clock, wiped)
        /\ AllCounted(levels) => AllCounted(LevelsWithout(prev))
    BY <1>1, <2>1, CancelKeeps
  <2> QED BY <1>4, <2>1, <2>2, AddKeeps
<1> QED BY <1>2, <1>3, <1>5, <1>6, <1>7, <1>8 DEF OBNext

\* The inductive invariant of the book, whichever operations a program calls.
THEOREM OrderBookInvariance == OBSpec => []OBInv
<1> QED BY OBInitKeeps, OBStepKeeps, PTL DEF OBSpec

\* Every iterator of l3_index_ points at a node of its order that rests in the
\* level the entry names, unless a delta erased that level under the order.
THEOREM IteratorsLive == OBSpec => []IndexLive
<1>1. OBInv => IndexLive
  <2> SUFFICES ASSUME OBInv, NEW id \in OrderId, index[id] # NoEntry, index[id].at \notin wiped
               PROVE  Live(id)
    BY DEF IndexLive
  <2> DEFINE L == levels[index[id].side][index[id].px]
  <2>1. Points(L, id, index[id].at) /\ levels \in BookType /\ index[id] \in Entry
    BY DEF OBInv, BookOK
  <2>2. L.fifo \in Seq(Node)
    BY <2>1 DEF BookType, LevelType, Entry
  <2> QED BY <2>1, <2>2, LenProperties DEF Points, Live, LevelOf, ToSet
<1> QED BY <1>1, OrderBookInvariance, PTL

\* While only L3 operations are called, nothing corrupts the index.
THEOREM OrdersNeverDangle == OBSpec => [](use = {"L3"} => \A id \in OrderId : ~Dangles(id))
<1>1. OBInv => (use = {"L3"} => \A id \in OrderId : ~Dangles(id))
  <2> SUFFICES ASSUME OBInv, use = {"L3"}, NEW id \in OrderId, index[id] # NoEntry PROVE Live(id)
    BY DEF Dangles
  <2> DEFINE L == levels[index[id].side][index[id].px]
  <2>1. Points(L, id, index[id].at) /\ levels \in BookType /\ index[id] \in Entry
    BY DEF OBInv, BookOK
  <2>2. L.fifo \in Seq(Node)
    BY <2>1 DEF BookType, LevelType, Entry
  <2> QED BY <2>1, <2>2, LenProperties DEF Points, Live, LevelOf, ToSet
<1> QED BY <1>1, OrderBookInvariance, PTL

\* While only L3 operations are called, the aggregates of a level are those of its
\* fifo: agg_qty > leaves is never false where it should be true, and nothing
\* remains of a level whose last order went.
THEOREM AggregatesAreTheFifos == OBSpec => []Accounts
<1>1. OBInv => Accounts
  <2> SUFFICES ASSUME OBInv, use = {"L3"}, NEW s \in Side, NEW p \in Price
               PROVE  LET L == levels[s][p] IN L.cnt = Len(L.fifo) /\ L.qty = FifoQty(L.fifo)
    BY DEF Accounts
  <2>1. Counted(levels[s][p])
    BY DEF OBInv, AllCounted
  <2>2. levels[s][p].fifo \in Seq(Node)
    BY DEF OBInv, BookOK, BookType, LevelType
  <2> QED BY <2>1, <2>2, SumIsFifoQty DEF Counted
<1> QED BY <1>1, OrderBookInvariance, PTL

\* A book fed by one kind of operation holds no level that counts orders but no
\* quantity, or the other way round.
THEOREM LevelsNotHollow == OBSpec => []NoHollowLevel
<1>1. OBInv => NoHollowLevel
  <2> SUFFICES ASSUME OBInv, Cardinality(use) = 1, NEW s \in Side, NEW p \in Price
               PROVE  levels[s][p].qty > 0 <=> levels[s][p].cnt > 0
    BY DEF NoHollowLevel
  <2>1. use \in SUBSET {"L2", "L3"}
    BY DEF OBInv
  <2>2. IsFiniteSet(use)
    <3>1. IsFiniteSet({"L2"} \cup {"L3"}) /\ {"L2"} \cup {"L3"} = {"L2", "L3"}
      BY FS_Singleton, FS_AddElement
    <3> QED BY <2>1, <3>1, FS_Subset
  <2>3. PICK u : use = {u}
    BY <2>2, FS_Singleton
  <2>4. CASE use = {"L2"}
    BY <2>4 DEF OBInv, NotHollow
  <2>5. CASE use = {"L3"}
    <3>1. Counted(levels[s][p]) /\ levels[s][p].fifo \in Seq(Node)
      BY <2>5 DEF OBInv, AllCounted, BookOK, BookType, LevelType
    <3> QED BY <3>1, SumPositive DEF Counted
  <2> QED BY <2>1, <2>3, <2>4, <2>5
<1> QED BY <1>1, OrderBookInvariance, PTL

\* Two deltas delivered a second time leave the book where the first delivery had
\* left it.
THEOREM ReplayDoesNothing == OBSpec => []ReplayHarmless
<1>1. OBInv => ReplayHarmless
  <2> SUFFICES ASSUME OBInv, NEW d \in Deltas, NEW e \in Deltas
               PROVE  LET once == Applied(Applied(levels, d), e)
                      IN  Applied(Applied(once, d), e) = once
    BY DEF ReplayHarmless
  <2> DEFINE first == Applied(levels, d)
             once == Applied(first, e)
             third == Applied(once, d)
             twice == Applied(third, e)
  <2>1. levels \in BookType
    BY DEF OBInv, BookOK
  <2>2. first \in BookType /\ once \in BookType /\ third \in BookType /\ twice \in BookType
    BY <2>1, AppliedIs
  <2>3. \A s \in Side, p \in Price :
          /\ first[s][p] = IF s = d.side /\ p = d.px THEN Changed(levels[s][p], d) ELSE levels[s][p]
          /\ once[s][p] = IF s = e.side /\ p = e.px THEN Changed(first[s][p], e) ELSE first[s][p]
          /\ third[s][p] = IF s = d.side /\ p = d.px THEN Changed(once[s][p], d) ELSE once[s][p]
          /\ twice[s][p] = IF s = e.side /\ p = e.px THEN Changed(third[s][p], e) ELSE third[s][p]
    BY <2>1, <2>2, AppliedIs
  <2> HIDE DEF first, once, third, twice
  <2>4. \A L : /\ Changed(Changed(L, d), d) = Changed(L, d)
               /\ Changed(Changed(L, e), e) = Changed(L, e)
               /\ LET M == Changed(Changed(L, d), e) IN Changed(Changed(M, d), e) = M
    BY DEF Changed, EmptyLevel
  <2>5. \A s \in Side, p \in Price : twice[s][p] = once[s][p]
    BY <2>3, <2>4
  <2>6. twice = once
    BY <2>2, <2>5, SameBook
  <2> QED BY <2>6 DEF first, once, third, twice
<1> QED BY <1>1, OrderBookInvariance, PTL

-----------------------------------------------------------------------------
(* Levels in the order of the maps *)

\* The prices of K ahead of p, and the place of p that follows from them.
Before(s, K, p) == {r \in K : Ahead(s, r, p)}
Rank(s, K, p) == Cardinality(Before(s, K, p)) + 1

InOrder(s, K, q) ==
  /\ q \in [1 .. Cardinality(K) -> K]
  /\ \A i, j \in 1 .. Cardinality(K) : i < j => Ahead(s, q[i], q[j])

LEMMA BeforeFinite ==
  ASSUME NEW s, NEW K \in SUBSET Price, NEW p
  PROVE  /\ IsFiniteSet(K) /\ Cardinality(K) \in Nat
         /\ IsFiniteSet(Before(s, K, p)) /\ Cardinality(Before(s, K, p)) \in Nat
<1>1. IsFiniteSet(K)
  BY OrderBookAssumption, FS_Subset
<1>2. Before(s, K, p) \in SUBSET K
  BY DEF Before
<1>3. IsFiniteSet(Before(s, K, p))
  BY <1>1, <1>2, FS_Subset
<1> QED BY <1>1, <1>3, FS_CardinalityType

\* A price has the place of its rank, and the prices ahead of it smaller ones.
LEMMA RankIs ==
  ASSUME NEW s, NEW K \in SUBSET Price, NEW p \in K
  PROVE  /\ Rank(s, K, p) \in 1 .. Cardinality(K)
         /\ \A r \in K : Ahead(s, p, r) => Rank(s, K, p) < Rank(s, K, r)
         /\ \A r \in K : Rank(s, K, p) = Rank(s, K, r) => p = r
<1>1. \A x \in K : x \in Nat /\ ~Ahead(s, x, x)
  BY OrderBookAssumption DEF Ahead
<1>2. \A x, y \in K : x # y => Ahead(s, x, y) \/ Ahead(s, y, x)
  BY <1>1 DEF Ahead
<1>3. \A x, y, z \in K : Ahead(s, x, y) /\ Ahead(s, y, z) => Ahead(s, x, z)
  BY <1>1 DEF Ahead
<1>4. ASSUME NEW x \in K, NEW y \in K, Ahead(s, x, y) PROVE Rank(s, K, x) < Rank(s, K, y)
  <2> DEFINE X == Before(s, K, x)
             Y == Before(s, K, y)
  <2>1. X \in SUBSET Y /\ x \in Y /\ x \notin X
    BY <1>1, <1>3, <1>4 DEF Before
  <2>2. IsFiniteSet(Y) /\ Cardinality(X) \in Nat /\ Cardinality(Y) \in Nat
    BY BeforeFinite
  <2> HIDE DEF X, Y
  <2>3. Cardinality(X) < Cardinality(Y)
    BY <2>1, <2>2, FS_Subset
  <2> QED BY <2>2, <2>3 DEF Rank, X, Y
<1>5. Rank(s, K, p) \in 1 .. Cardinality(K)
  <2>1. Before(s, K, p) \in SUBSET K /\ p \notin Before(s, K, p)
    BY <1>1 DEF Before
  <2>2. /\ IsFiniteSet(K) /\ Cardinality(K) \in Nat /\ Cardinality(Before(s, K, p)) \in Nat
    BY BeforeFinite
  <2>3. Cardinality(Before(s, K, p)) < Cardinality(K)
    BY <2>1, <2>2, FS_Subset
  <2> QED BY <2>2, <2>3 DEF Rank
<1>6. ASSUME NEW r \in K, Rank(s, K, p) = Rank(s, K, r), p # r PROVE FALSE
  <2>1. Cardinality(Before(s, K, p)) \in Nat
    BY BeforeFinite
  <2>2. Rank(s, K, p) \in Nat
    BY <2>1 DEF Rank
  <2>3. Rank(s, K, p) < Rank(s, K, r) \/ Rank(s, K, r) < Rank(s, K, p)
    BY <1>2, <1>4, <1>6
  <2> QED BY <1>6, <2>2, <2>3
<1> QED BY <1>4, <1>5, <1>6

\* The prices can be put in order.
LEMMA OrderExists ==
  ASSUME NEW s, NEW K \in SUBSET Price PROVE \E q : InOrder(s, K, q)
<1> DEFINE n == Cardinality(K)
           f == [p \in K |-> Rank(s, K, p)]
<1>1. n \in Nat
  BY BeforeFinite
<1>2. f \in Injection(K, 1 .. n)
  <2>1. f \in [K -> 1 .. n]
    BY RankIs
  <2>2. \A p, r \in K : f[p] = f[r] => p = r
    BY RankIs
  <2> QED BY <2>1, <2>2 DEF Injection, IsInjective
<1>3. IsFiniteSet(1 .. n) /\ Cardinality(1 .. n) = n
  <2>1. IsFiniteSet(1 .. n) /\ Cardinality(1 .. n) = IF 1 > n THEN 0 ELSE n - 1 + 1
    BY <1>1, FS_Interval
  <2> QED BY <1>1, <2>1
<1> HIDE DEF f
<1>4. f \in Surjection(K, 1 .. n)
  BY <1>2, <1>3, FS_Injection
<1> DEFINE q == [i \in 1 .. n |-> CHOOSE p \in K : f[p] = i]
<1>5. ASSUME NEW i \in 1 .. n PROVE q[i] \in K /\ Rank(s, K, q[i]) = i
  <2>1. \E p \in K : f[p] = i
    BY <1>4 DEF Surjection
  <2> QED BY <2>1 DEF f
<1>6. q \in [1 .. n -> K]
  BY <1>5
<1> HIDE DEF q, n
<1>7. ASSUME NEW i \in 1 .. n, NEW j \in 1 .. n, i < j PROVE Ahead(s, q[i], q[j])
  <2>1. q[i] \in K /\ q[j] \in K /\ Rank(s, K, q[i]) = i /\ Rank(s, K, q[j]) = j
    BY <1>5
  <2>2. ~Ahead(s, q[j], q[i])
    <3>1. \A x, y \in K : Ahead(s, x, y) => Rank(s, K, x) < Rank(s, K, y)
      BY RankIs
    <3>2. ~(j < i)
      BY <1>1, <1>7
    <3> QED BY <2>1, <3>1, <3>2
  <2>3. q[i] # q[j]
    BY <1>1, <1>7, <2>1
  <2>4. q[i] \in Nat /\ q[j] \in Nat
    BY <2>1, OrderBookAssumption
  <2> QED BY <2>2, <2>3, <2>4 DEF Ahead
<1> QED BY <1>6, <1>7 DEF InOrder, n

\* The place of a price in the order is its rank.
LEMMA PlaceIsRank ==
  ASSUME NEW s, NEW K \in SUBSET Price, NEW q, InOrder(s, K, q)
  PROVE  /\ \A i \in 1 .. Cardinality(K) : Rank(s, K, q[i]) = i
         /\ \A p \in K : q[Rank(s, K, p)] = p
<1> DEFINE n == Cardinality(K)
<1>1. n \in Nat /\ IsFiniteSet(K)
  BY BeforeFinite
<1>2. q \in [1 .. n -> K] /\ \A i, j \in 1 .. n : i < j => Ahead(s, q[i], q[j])
  BY DEF InOrder
<1> HIDE DEF n
<1>3. \A x \in K : x \in Nat
  BY OrderBookAssumption
<1>4. ASSUME NEW i \in 1 .. n, NEW j \in 1 .. n, i # j
      PROVE  q[i] # q[j] /\ (i < j <=> Ahead(s, q[i], q[j]))
  <2>1. i < j \/ j < i
    BY <1>1, <1>4
  <2>2. q[i] \in Nat /\ q[j] \in Nat
    BY <1>2, <1>3
  <2>3. CASE i < j
    BY <1>2, <2>2, <2>3 DEF Ahead
  <2>4. CASE j < i
    <3>1. Ahead(s, q[j], q[i]) /\ ~(i < j)
      BY <1>1, <1>2, <2>4
    <3> QED BY <2>2, <3>1 DEF Ahead
  <2> QED BY <2>1, <2>3, <2>4
<1>5. IsFiniteSet(1 .. n) /\ Cardinality(1 .. n) = n
  <2>1. IsFiniteSet(1 .. n) /\ Cardinality(1 .. n) = IF 1 > n THEN 0 ELSE n - 1 + 1
    BY <1>1, FS_Interval
  <2> QED BY <1>1, <2>1
<1>6. q \in Surjection(1 .. n, K)
  <2>1. q \in Injection(1 .. n, K)
    BY <1>2, <1>4 DEF Injection, IsInjective
  <2> QED BY <1>1, <1>5, <2>1, FS_Injection DEF n
<1>7. ASSUME NEW i \in 1 .. n PROVE Rank(s, K, q[i]) = i
  <2> DEFINE B == Before(s, K, q[i])
             I == 1 .. (i - 1)
             g == [j \in I |-> q[j]]
  <2>1. \A j \in I : j \in 1 .. n /\ j < i
    BY <1>1
  <2>2. \A j \in I : q[j] \in B
    BY <1>2, <1>4, <2>1 DEF Before
  <2>3. ASSUME NEW p \in B PROVE \E j \in I : q[j] = p
    <3>1. p \in K /\ Ahead(s, p, q[i])
      BY DEF Before
    <3>2. PICK j \in 1 .. n : q[j] = p
      BY <1>6, <3>1 DEF Surjection
    <3>3. j # i
      BY <1>2, <1>3, <3>1, <3>2 DEF Ahead
    <3>4. j < i
      BY <1>4, <3>1, <3>2, <3>3
    <3> QED BY <1>1, <3>2, <3>4
  <2> HIDE DEF B
  <2>4. g \in Bijection(I, B)
    <3>1. g \in [I -> B]
      BY <2>2
    <3>2. \A j, k \in I : g[j] = g[k] => j = k
      BY <1>4, <2>1
    <3>3. \A p \in B : \E j \in I : g[j] = p
      BY <2>3
    <3> HIDE DEF g, I
    <3> QED BY <3>1, <3>2, <3>3 DEF Bijection, Injection, Surjection, IsInjective
  <2>5. ExistsBijection(I, B)
    BY <2>4 DEF ExistsBijection
  <2>6. i - 1 \in Nat
    BY <1>1
  <2>7. Cardinality(B) = i - 1
    BY <2>5, <2>6, FS_CountingElements
  <2> QED BY <1>1, <2>7 DEF Rank, B
<1>8. ASSUME NEW p \in K PROVE q[Rank(s, K, p)] = p
  <2>1. PICK i \in 1 .. n : q[i] = p
    BY <1>6 DEF Surjection
  <2> QED BY <1>7, <2>1
<1> QED BY <1>7, <1>8 DEF n

LEMMA RankedIs ==
  ASSUME NEW b, NEW s
  PROVE  InOrder(s, Keys(b, s), Ranked(b, s)) /\ Keys(b, s) \in SUBSET Price
<1>1. Keys(b, s) \in SUBSET Price
  BY DEF Keys
<1>2. \E q : InOrder(s, Keys(b, s), q)
  BY <1>1, OrderExists
<1> QED BY <1>1, <1>2 DEF Ranked, InOrder

-----------------------------------------------------------------------------
(* The levels that a snapshot shows *)

\* The prices that a snapshot of that depth shows, and what it shows of a level.
Shown(b, s, depth) == {p \in Keys(b, s) : Rank(s, Keys(b, s), p) <= depth}
Row(b, s, p) == [side |-> s, px |-> p, qty |-> b[s][p].qty, cnt |-> b[s][p].cnt]
Extent(b, s, depth) == IF Cardinality(Keys(b, s)) < depth THEN Cardinality(Keys(b, s)) ELSE depth

\* One side of a snapshot lists the prices shown, each once.
LEMMA SummaryIs ==
  ASSUME NEW b, NEW s, NEW depth \in Nat
  PROVE  LET q == Ranked(b, s)
             m == Extent(b, s, depth)
             S == Summary(b, s, depth)
         IN  /\ m \in Nat /\ m <= Cardinality(Keys(b, s)) /\ S = [i \in 1 .. m |-> Row(b, s, q[i])]
             /\ \A i \in 1 .. m : q[i] \in Shown(b, s, depth) /\ Rank(s, Keys(b, s), q[i]) = i
             /\ \A p \in Shown(b, s, depth) :
                  Rank(s, Keys(b, s), p) \in 1 .. m /\ q[Rank(s, Keys(b, s), p)] = p
<1> DEFINE K == Keys(b, s)
           q == Ranked(b, s)
           m == Extent(b, s, depth)
           n == Cardinality(K)
<1>1. InOrder(s, K, q) /\ K \in SUBSET Price
  BY RankedIs
<1> HIDE DEF K, q
<1>2. n \in Nat /\ q \in [1 .. n -> K]
  BY <1>1, BeforeFinite DEF InOrder
<1>3. Len(q) = n
  BY <1>2
<1>4. m \in Nat /\ m <= n /\ m <= depth /\ m = IF Len(q) < depth THEN Len(q) ELSE depth
  BY <1>2, <1>3 DEF Extent, K
<1> HIDE DEF n, m
<1>5. Summary(b, s, depth) = [i \in 1 .. m |-> Row(b, s, q[i])]
  BY <1>4 DEF Summary, Row, q
<1>6. /\ \A i \in 1 .. n : Rank(s, K, q[i]) = i
      /\ \A p \in K : q[Rank(s, K, p)] = p /\ Rank(s, K, p) \in 1 .. n
  BY <1>1, PlaceIsRank, RankIs DEF n
<1>7. ASSUME NEW i \in 1 .. m PROVE q[i] \in Shown(b, s, depth) /\ Rank(s, K, q[i]) = i
  <2>1. i \in 1 .. n /\ i <= depth
    BY <1>2, <1>4
  <2>2. Rank(s, K, q[i]) = i /\ q[i] \in K
    BY <1>2, <1>6, <2>1
  <2> QED BY <2>1, <2>2 DEF Shown, K
<1>8. ASSUME NEW p \in Shown(b, s, depth)
      PROVE  Rank(s, K, p) \in 1 .. m /\ q[Rank(s, K, p)] = p
  <2>1. p \in K /\ Rank(s, K, p) <= depth
    BY DEF Shown, K
  <2>2. q[Rank(s, K, p)] = p /\ Rank(s, K, p) \in 1 .. n
    BY <1>6, <2>1
  <2>3. Rank(s, K, p) <= m
    BY <1>2, <1>3, <1>4, <2>1, <2>2
  <2> QED BY <1>2, <1>4, <2>2, <2>3
<1> QED BY <1>4, <1>5, <1>7, <1>8 DEF K, q, m, n

\* A snapshot lists the bids it shows, then the asks.
LEMMA SnapshotIs ==
  ASSUME NEW b, NEW depth \in Nat
  PROVE  LET S == SnapshotL2(b, depth)
             m == Extent(b, "Bid", depth)
             k == Extent(b, "Ask", depth)
         IN  /\ m \in Nat /\ k \in Nat /\ Len(S) = m + k /\ DOMAIN S = 1 .. m + k
             /\ \A i \in 1 .. m : S[i] = Row(b, "Bid", Ranked(b, "Bid")[i])
             /\ \A i \in 1 .. k : S[m + i] = Row(b, "Ask", Ranked(b, "Ask")[i])
<1> DEFINE m == Extent(b, "Bid", depth)
           k == Extent(b, "Ask", depth)
           bids == Summary(b, "Bid", depth)
           asks == Summary(b, "Ask", depth)
           R == {bids[i] : i \in 1 .. m} \cup {asks[i] : i \in 1 .. k}
<1>1. /\ m \in Nat /\ bids = [i \in 1 .. m |-> Row(b, "Bid", Ranked(b, "Bid")[i])]
      /\ k \in Nat /\ asks = [i \in 1 .. k |-> Row(b, "Ask", Ranked(b, "Ask")[i])]
  BY SummaryIs
<1> HIDE DEF m, k, bids, asks
<1>2. bids \in [1 .. m -> R] /\ asks \in [1 .. k -> R]
  BY <1>1
<1> HIDE DEF R
<1>3. bids \in Seq(R) /\ asks \in Seq(R) /\ Len(bids) = m /\ Len(asks) = k
  BY <1>1, <1>2
<1> DEFINE S == bids \o asks
<1>4. /\ S \in Seq(R) /\ Len(S) = m + k
      /\ \A i \in 1 .. m : S[i] = bids[i]
      /\ \A i \in 1 .. k : S[m + i] = asks[i]
  BY <1>1, <1>3
<1>5. SnapshotL2(b, depth) = S
  BY DEF SnapshotL2, bids, asks
<1> HIDE DEF S
<1>6. DOMAIN S = 1 .. m + k
  BY <1>4, LenProperties
<1>7. /\ \A i \in 1 .. m : S[i] = Row(b, "Bid", Ranked(b, "Bid")[i])
      /\ \A i \in 1 .. k : S[m + i] = Row(b, "Ask", Ranked(b, "Ask")[i])
  BY <1>1, <1>4
<1> QED BY <1>1, <1>4, <1>5, <1>6, <1>7 DEF m, k

\* It has a row for each price shown, and one at most of each price of a side.
LEMMA SnapshotRows ==
  ASSUME NEW b, NEW depth \in Nat
  PROVE  LET S == SnapshotL2(b, depth)
         IN  /\ IsFiniteSet(DOMAIN S) /\ Len(S) \in Nat /\ DOMAIN S = 1 .. Len(S)
             /\ \A i \in DOMAIN S : \E s \in Side : \E p \in Shown(b, s, depth) : S[i] = Row(b, s, p)
             /\ \A s \in Side : \A p \in Shown(b, s, depth) : \E i \in DOMAIN S : S[i] = Row(b, s, p)
             /\ \A i, j \in DOMAIN S : SameKey(S[i], S[j]) => i = j
<1> DEFINE S == SnapshotL2(b, depth)
           m == Extent(b, "Bid", depth)
           k == Extent(b, "Ask", depth)
           q(s) == Ranked(b, s)
           rank(s, p) == Rank(s, Keys(b, s), p)
<1>1. /\ m \in Nat /\ k \in Nat /\ Len(S) = m + k /\ DOMAIN S = 1 .. m + k
      /\ \A i \in 1 .. m : S[i] = Row(b, "Bid", q("Bid")[i])
      /\ \A i \in 1 .. k : S[m + i] = Row(b, "Ask", q("Ask")[i])
  BY SnapshotIs
<1>2. /\ \A i \in 1 .. m : q("Bid")[i] \in Shown(b, "Bid", depth) /\ rank("Bid", q("Bid")[i]) = i
      /\ \A p \in Shown(b, "Bid", depth) :
           rank("Bid", p) \in 1 .. m /\ q("Bid")[rank("Bid", p)] = p
  BY SummaryIs
<1>3. /\ \A i \in 1 .. k : q("Ask")[i] \in Shown(b, "Ask", depth) /\ rank("Ask", q("Ask")[i]) = i
      /\ \A p \in Shown(b, "Ask", depth) :
           rank("Ask", p) \in 1 .. k /\ q("Ask")[rank("Ask", p)] = p
  BY SummaryIs
<1> HIDE DEF S, m, k, q, rank
<1>4. IsFiniteSet(DOMAIN S)
  BY <1>1, FS_Interval
<1>5. ASSUME NEW i \in DOMAIN S
      PROVE  \/ i \in 1 .. m /\ S[i] = Row(b, "Bid", q("Bid")[i])
             \/ i - m \in 1 .. k /\ S[i] = Row(b, "Ask", q("Ask")[i - m])
  <2>1. i \in 1 .. m \/ (i - m \in 1 .. k /\ m + (i - m) = i)
    BY <1>1
  <2> QED BY <1>1, <2>1
<1>6. \A i \in DOMAIN S : \E s \in Side : \E p \in Shown(b, s, depth) : S[i] = Row(b, s, p)
  BY <1>2, <1>3, <1>5 DEF Side
<1>7. ASSUME NEW s \in Side, NEW p \in Shown(b, s, depth) PROVE \E i \in DOMAIN S : S[i] = Row(b, s, p)
  <2>1. CASE s = "Bid"
    <3>1. rank("Bid", p) \in DOMAIN S /\ rank("Bid", p) \in 1 .. m /\ q("Bid")[rank("Bid", p)] = p
      BY <1>1, <1>2, <2>1
    <3> QED BY <1>1, <2>1, <3>1
  <2>2. CASE s = "Ask"
    <3>1. rank("Ask", p) \in 1 .. k /\ q("Ask")[rank("Ask", p)] = p
      BY <1>3, <2>2
    <3>2. m + rank("Ask", p) \in DOMAIN S
      BY <1>1, <3>1
    <3> QED BY <1>1, <2>2, <3>1, <3>2
  <2> QED BY <2>1, <2>2 DEF Side
<1>8. ASSUME NEW i \in DOMAIN S, NEW j \in DOMAIN S, SameKey(S[i], S[j]) PROVE i = j
  <2>1. S[i].side = S[j].side /\ S[i].px = S[j].px
    BY <1>8 DEF SameKey
  <2>5. \A h \in DOMAIN S :
          \/ h \in 1 .. m /\ S[h].side = "Bid" /\ S[h].px = q("Bid")[h]
          \/ h - m \in 1 .. k /\ S[h].side = "Ask" /\ S[h].px = q("Ask")[h - m]
    BY <1>5 DEF Row
  <2>2. CASE S[i].side = "Bid"
    <3>1. i \in 1 .. m /\ j \in 1 .. m /\ q("Bid")[i] = q("Bid")[j]
      BY <2>1, <2>2, <2>5
    <3> QED BY <1>2, <3>1
  <2>3. CASE S[i].side = "Ask"
    <3>1. i - m \in 1 .. k /\ j - m \in 1 .. k /\ q("Ask")[i - m] = q("Ask")[j - m]
      BY <2>1, <2>3, <2>5
    <3>2. i - m = j - m
      BY <1>3, <3>1
    <3> QED BY <1>1, <3>2
  <2>4. S[i].side = "Bid" \/ S[i].side = "Ask"
    BY <2>5
  <2> QED BY <2>2, <2>3, <2>4
<1> QED BY <1>1, <1>4, <1>6, <1>7, <1>8 DEF S

-----------------------------------------------------------------------------
(* What a delta does to the levels shown *)

\* A price more or less moves the rank of another by one at most.
LEMMA RankMoves ==
  ASSUME NEW s, NEW K \in SUBSET Price, NEW p \in Price, NEW r \in K
  PROVE  /\ Rank(s, K, r) \in Nat /\ Rank(s, K \cup {p}, r) \in Nat
         /\ Rank(s, K, r) <= Rank(s, K \cup {p}, r)
         /\ Rank(s, K \cup {p}, r) <= Rank(s, K, r) + 1
<1> DEFINE X == Before(s, K, r)
           Y == Before(s, K \cup {p}, r)
<1>1. X \in SUBSET Y /\ Y \in SUBSET (X \cup {p})
  BY DEF Before
<1>2. /\ IsFiniteSet(X) /\ Cardinality(X) \in Nat
      /\ IsFiniteSet(Y) /\ Cardinality(Y) \in Nat
  BY BeforeFinite
<1> HIDE DEF X, Y
<1>3. IsFiniteSet(X \cup {p}) /\ Cardinality(X \cup {p}) <= Cardinality(X) + 1
  <2>1. /\ IsFiniteSet(X \cup {p})
        /\ Cardinality(X \cup {p}) = IF p \in X THEN Cardinality(X) ELSE Cardinality(X) + 1
    BY <1>2, FS_AddElement
  <2> QED BY <1>2, <2>1
<1>4. Cardinality(X) <= Cardinality(Y) /\ Cardinality(Y) <= Cardinality(X \cup {p})
  BY <1>1, <1>2, <1>3, FS_Subset
<1>5. Cardinality(X \cup {p}) \in Nat
  BY <1>3, FS_CardinalityType
<1>6. Cardinality(Y) <= Cardinality(X) + 1
  BY <1>2, <1>3, <1>4, <1>5
<1> QED BY <1>2, <1>4, <1>6 DEF Rank, X, Y

\* What a level more at p does to what is shown: only p comes in, and one price at
\* most goes out.
LEMMA ShownMoves ==
  ASSUME NEW b, NEW c, NEW s, NEW depth \in Nat, NEW p \in Price,
         Keys(c, s) = Keys(b, s) \cup {p}
  PROVE  /\ \A r \in Shown(c, s, depth) : r = p \/ r \in Shown(b, s, depth)
         /\ \A r, t \in Shown(b, s, depth) \ Shown(c, s, depth) : r = t
<1> DEFINE K == Keys(b, s)
<1>1. K \in SUBSET Price
  BY DEF Keys
<1>2. \A r \in K : /\ Rank(s, K, r) \in Nat /\ Rank(s, K \cup {p}, r) \in Nat
                   /\ Rank(s, K, r) <= Rank(s, K \cup {p}, r)
                   /\ Rank(s, K \cup {p}, r) <= Rank(s, K, r) + 1
  BY <1>1, RankMoves
<1>3. \A r, t \in K : Rank(s, K, r) = Rank(s, K, t) => r = t
  BY <1>1, RankIs
<1> HIDE DEF K
<1>4. /\ \A r : r \in Shown(b, s, depth) <=> r \in K /\ Rank(s, K, r) <= depth
      /\ \A r : r \in Shown(c, s, depth) <=> r \in K \cup {p} /\ Rank(s, K \cup {p}, r) <= depth
  BY DEF Shown, K
<1>5. ASSUME NEW r \in Shown(c, s, depth), r # p PROVE r \in Shown(b, s, depth)
  <2>1. r \in K /\ Rank(s, K \cup {p}, r) <= depth
    BY <1>4, <1>5
  <2>2. Rank(s, K, r) <= depth
    BY <1>2, <2>1
  <2> QED BY <1>4, <2>1, <2>2
<1>6. ASSUME NEW r \in Shown(b, s, depth) \ Shown(c, s, depth) PROVE r \in K /\ Rank(s, K, r) = depth
  <2>1. r \in K /\ Rank(s, K, r) <= depth /\ ~(Rank(s, K \cup {p}, r) <= depth)
    BY <1>4
  <2> QED BY <1>2, <2>1
<1> QED BY <1>3, <1>5, <1>6

\* The same prices shown, with the same levels, make the same list.
LEMMA SameSummary ==
  ASSUME NEW b, NEW c, NEW s, NEW depth \in Nat, Shown(b, s, depth) = Shown(c, s, depth),
         \A p \in Shown(b, s, depth) : Row(b, s, p) = Row(c, s, p)
  PROVE  Summary(b, s, depth) = Summary(c, s, depth)
<1>1. ASSUME NEW x \in {b, c}, NEW y \in {b, c}, NEW p \in Shown(x, s, depth),
             NEW r \in Before(s, Keys(x, s), p)
      PROVE  r \in Before(s, Keys(y, s), p)
  <2> DEFINE K == Keys(x, s)
  <2>1. p \in K /\ Rank(s, K, p) <= depth /\ r \in K /\ Ahead(s, r, p) /\ K \in SUBSET Price
    BY DEF Shown, Before, Keys
  <2> HIDE DEF K
  <2>2. Rank(s, K, r) < Rank(s, K, p) /\ Rank(s, K, r) \in Nat /\ Rank(s, K, p) \in Nat
    <3>1. Cardinality(K) \in Nat
      BY <2>1, BeforeFinite
    <3> QED BY <2>1, <3>1, RankIs
  <2>3. Rank(s, K, r) <= depth
    BY <2>1, <2>2
  <2>4. r \in Shown(x, s, depth)
    BY <2>1, <2>3 DEF Shown, K
  <2>5. r \in Shown(y, s, depth)
    BY <2>4
  <2> QED BY <2>1, <2>5 DEF Before, Shown
<1>2. ASSUME NEW p \in Shown(b, s, depth) PROVE Rank(s, Keys(b, s), p) = Rank(s, Keys(c, s), p)
  <2>1. p \in Shown(c, s, depth)
    OBVIOUS
  <2>2. Before(s, Keys(b, s), p) = Before(s, Keys(c, s), p)
    BY <1>1, <2>1
  <2> QED BY <2>2 DEF Rank
<1> DEFINE q == Ranked(b, s)
           w == Ranked(c, s)
           m == Extent(b, s, depth)
           k == Extent(c, s, depth)
           rb(p) == Rank(s, Keys(b, s), p)
           rc(p) == Rank(s, Keys(c, s), p)
<1>3. /\ m \in Nat /\ Summary(b, s, depth) = [i \in 1 .. m |-> Row(b, s, q[i])]
      /\ \A i \in 1 .. m : q[i] \in Shown(b, s, depth) /\ rb(q[i]) = i
      /\ \A p \in Shown(b, s, depth) : rb(p) \in 1 .. m /\ q[rb(p)] = p
  BY SummaryIs
<1>4. /\ k \in Nat /\ Summary(c, s, depth) = [i \in 1 .. k |-> Row(c, s, w[i])]
      /\ \A i \in 1 .. k : w[i] \in Shown(c, s, depth) /\ rc(w[i]) = i
      /\ \A p \in Shown(c, s, depth) : rc(p) \in 1 .. k /\ w[rc(p)] = p
  BY SummaryIs
<1>5. \A p \in Shown(b, s, depth) : rb(p) = rc(p)
  BY <1>2
<1> HIDE DEF q, w, m, k, rb, rc
<1>6. \A i \in 1 .. m : i \in 1 .. k /\ w[i] = q[i]
  BY <1>3, <1>4, <1>5
<1>7. \A i \in 1 .. k : i \in 1 .. m
  BY <1>3, <1>4, <1>5
<1>8. m = k
  <2>1. m <= k
    BY <1>3, <1>4, <1>6
  <2>2. k <= m
    <3>1. k # 0 => k \in 1 .. m
      BY <1>4, <1>7
    <3> QED BY <1>3, <1>4, <3>1
  <2> QED BY <1>3, <1>4, <2>1, <2>2
<1>9. \A i \in 1 .. m : Row(b, s, q[i]) = Row(c, s, w[i])
  BY <1>3, <1>6
<1> QED BY <1>3, <1>4, <1>8, <1>9

\* Two books that differ in the level of side s at p, if at all.
OneApart(b, c, s, p) ==
  \A t \in Side, r \in Price : t # s \/ r # p => c[t][r] = b[t][r]

\* Then a side has the same prices in both, or one of them has p besides.
LEMMA KeysApart ==
  ASSUME NEW b, NEW c, NEW s \in Side, NEW p \in Price, OneApart(b, c, s, p)
  PROVE  /\ \A t \in Side \ {s} : Keys(c, t) = Keys(b, t)
         /\ \/ Keys(c, s) = Keys(b, s)
            \/ Keys(c, s) = Keys(b, s) \cup {p}
            \/ Keys(b, s) = Keys(c, s) \cup {p} /\ p \notin Keys(c, s)
<1>1. \A t \in Side \ {s} : Keys(c, t) = Keys(b, t)
  BY DEF OneApart, Keys
<1>2. \A r \in Price \ {p} : c[s][r] = b[s][r]
  BY DEF OneApart
<1>3. \A r \in Price \ {p} : r \in Keys(c, s) <=> r \in Keys(b, s)
  BY <1>2 DEF Keys
<1>4. Keys(c, s) \in SUBSET Price /\ Keys(b, s) \in SUBSET Price
  BY DEF Keys
<1> QED BY <1>1, <1>3, <1>4

\* The differences that diff_levels counts are where the prices shown or their
\* levels differ.
Unmatched(sim, mine) ==
  {i \in DOMAIN sim : \/ Lacks(mine, sim[i])
                      \/ \E R \in ToSet(mine) : SameKey(sim[i], R) /\ sim[i] # R}
Missing(sim, mine) == {i \in DOMAIN mine : Lacks(sim, mine[i])}

LEMMA DiffIs ==
  ASSUME NEW sim, NEW mine
  PROVE  DiffLevels(sim, mine) = Cardinality(Unmatched(sim, mine)) + Cardinality(Missing(sim, mine))
BY DEF DiffLevels, Unmatched, Missing

\* A row that the other list has, too, is not lacking there.
LEMMA RowIn ==
  ASSUME NEW b, NEW depth \in Nat, NEW s \in Side, NEW p, NEW L, L.side = s, L.px = p
  PROVE  /\ Lacks(SnapshotL2(b, depth), L) <=> p \notin Shown(b, s, depth)
         /\ \A R \in ToSet(SnapshotL2(b, depth)) : SameKey(L, R) => R = Row(b, s, p)
<1> DEFINE S == SnapshotL2(b, depth)
<1>1. /\ \A i \in DOMAIN S : \E t \in Side : \E r \in Shown(b, t, depth) : S[i] = Row(b, t, r)
      /\ \A t \in Side : \A r \in Shown(b, t, depth) : \E i \in DOMAIN S : S[i] = Row(b, t, r)
  BY SnapshotRows
<1>2. ToSet(S) = {S[i] : i \in DOMAIN S}
  BY DEF ToSet
<1> HIDE DEF S
<1>3. ASSUME NEW R \in ToSet(S), SameKey(L, R) PROVE R = Row(b, s, p) /\ p \in Shown(b, s, depth)
  <2>1. PICK i \in DOMAIN S : R = S[i]
    BY <1>2
  <2>2. PICK t \in Side : \E r \in Shown(b, t, depth) : R = Row(b, t, r)
    BY <1>1, <2>1
  <2>3. PICK r \in Shown(b, t, depth) : R = Row(b, t, r)
    BY <2>2
  <2>4. t = s /\ r = p
    BY <1>3, <2>3 DEF SameKey, Row
  <2> QED BY <2>3, <2>4
<1>4. ASSUME p \in Shown(b, s, depth) PROVE ~Lacks(S, L)
  <2>1. PICK i \in DOMAIN S : S[i] = Row(b, s, p)
    BY <1>1, <1>4
  <2>2. Row(b, s, p) \in ToSet(S) /\ SameKey(L, Row(b, s, p))
    BY <1>2, <2>1 DEF SameKey, Row
  <2> QED BY <2>2 DEF Lacks
<1> QED BY <1>3, <1>4 DEF Lacks, S

\* No difference is counted between equal lists only.
LEMMA NoDiffSame ==
  ASSUME NEW b, NEW c, NEW depth \in Nat
  PROVE  LET sim == SnapshotL2(c, depth)
             mine == SnapshotL2(b, depth)
         IN  /\ IsFiniteSet(Unmatched(sim, mine)) /\ IsFiniteSet(Missing(sim, mine))
             /\ DiffLevels(sim, mine) = 0 <=> sim = mine
<1> DEFINE sim == SnapshotL2(c, depth)
           mine == SnapshotL2(b, depth)
           U == Unmatched(sim, mine)
           M == Missing(sim, mine)
<1>1. /\ IsFiniteSet(DOMAIN sim)
      /\ \A i \in DOMAIN sim : \E t \in Side : \E r \in Shown(c, t, depth) : sim[i] = Row(c, t, r)
      /\ \A t \in Side : \A r \in Shown(c, t, depth) : \E i \in DOMAIN sim : sim[i] = Row(c, t, r)
      /\ \A i, j \in DOMAIN sim : SameKey(sim[i], sim[j]) => i = j
  BY SnapshotRows
<1>2. /\ IsFiniteSet(DOMAIN mine)
      /\ \A i \in DOMAIN mine : \E t \in Side : \E r \in Shown(b, t, depth) : mine[i] = Row(b, t, r)
      /\ \A t \in Side : \A r \in Shown(b, t, depth) : \E i \in DOMAIN mine : mine[i] = Row(b, t, r)
  BY SnapshotRows
<1>3. IsFiniteSet(U) /\ IsFiniteSet(M)
  <2>1. U \in SUBSET DOMAIN sim /\ M \in SUBSET DOMAIN mine
    BY DEF Unmatched, Missing
  <2> HIDE DEF U, M, sim, mine
  <2> QED BY <1>1, <1>2, <2>1, FS_Subset
<1>4. DiffLevels(sim, mine) = 0 <=> U = {} /\ M = {}
  <2>1. DiffLevels(sim, mine) = Cardinality(U) + Cardinality(M)
    BY DiffIs
  <2> HIDE DEF U, M
  <2>2. Cardinality(U) \in Nat /\ Cardinality(M) \in Nat
    BY <1>3, FS_CardinalityType
  <2>3. (Cardinality(U) = 0 <=> U = {}) /\ (Cardinality(M) = 0 <=> M = {})
    BY <1>3, FS_EmptySet
  <2> HIDE DEF sim, mine
  <2> QED BY <2>1, <2>2, <2>3
<1>5. ASSUME sim = mine PROVE U = {} /\ M = {}
  <2>1. \A L : SameKey(L, L)
    BY DEF SameKey
  <2>2. ToSet(sim) = {sim[i] : i \in DOMAIN sim} /\ ToSet(mine) = ToSet(sim)
    BY <1>5 DEF ToSet
  <2>3. \A i \in DOMAIN sim : ~Lacks(sim, sim[i])
    BY <2>1, <2>2 DEF Lacks
  <2>4. M = {}
    <3>1. Missing(sim, sim) = {}
      BY <2>3 DEF Missing
    <3> QED BY <1>5, <3>1
  <2>5. \A i \in DOMAIN sim : \A R \in ToSet(sim) : SameKey(sim[i], R) => sim[i] = R
    BY <1>1, <2>2
  <2>6. U = {}
    <3>1. Unmatched(sim, sim) = {}
      BY <2>3, <2>5 DEF Unmatched
    <3> QED BY <1>5, <3>1
  <2> QED BY <2>4, <2>6
<1>6. ASSUME U = {}, M = {} PROVE sim = mine
  <2>1. \A i \in DOMAIN sim : ~Lacks(mine, sim[i])
                              /\ \A R \in ToSet(mine) : SameKey(sim[i], R) => sim[i] = R
    BY <1>6 DEF Unmatched
  <2>2. \A i \in DOMAIN mine : ~Lacks(sim, mine[i])
    BY <1>6 DEF Missing
  <2> HIDE DEF U, M
  <2>3. ASSUME NEW t \in Side, NEW r \in Shown(c, t, depth)
        PROVE  r \in Shown(b, t, depth) /\ Row(c, t, r) = Row(b, t, r)
    <3>1. PICK i \in DOMAIN sim : sim[i] = Row(c, t, r)
      BY <1>1
    <3>2. Row(c, t, r).side = t /\ Row(c, t, r).px = r
      BY DEF Row
    <3>3. /\ Lacks(mine, Row(c, t, r)) <=> r \notin Shown(b, t, depth)
          /\ \A R \in ToSet(mine) : SameKey(Row(c, t, r), R) => R = Row(b, t, r)
      BY <3>2, RowIn
    <3>4. \E R \in ToSet(mine) : SameKey(Row(c, t, r), R)
      BY <2>1, <3>1 DEF Lacks
    <3> QED BY <2>1, <3>1, <3>3, <3>4
  <2>4. ASSUME NEW t \in Side, NEW r \in Shown(b, t, depth) PROVE r \in Shown(c, t, depth)
    <3>1. PICK i \in DOMAIN mine : mine[i] = Row(b, t, r)
      BY <1>2
    <3>2. Row(b, t, r).side = t /\ Row(b, t, r).px = r
      BY DEF Row
    <3>3. Lacks(sim, Row(b, t, r)) <=> r \notin Shown(c, t, depth)
      BY <3>2, RowIn
    <3> QED BY <2>2, <3>1, <3>3
  <2>5. ASSUME NEW t \in Side PROVE Summary(b, t, depth) = Summary(c, t, depth)
    <3>1. Shown(b, t, depth) = Shown(c, t, depth)
      BY <2>3, <2>4
    <3>2. \A r \in Shown(b, t, depth) : Row(b, t, r) = Row(c, t, r)
      BY <2>3, <3>1
    <3> QED BY <3>1, <3>2, SameSummary
  <2> QED BY <2>5 DEF SnapshotL2, Side
<1> QED BY <1>3, <1>4, <1>5, <1>6

LEMMA AtMostOne ==
  ASSUME NEW T, IsFiniteSet(T), \A x, y \in T : x = y
  PROVE  Cardinality(T) \in Nat /\ Cardinality(T) <= 1
<1>1. CASE T = {}
  BY <1>1, FS_EmptySet
<1>2. CASE T # {}
  <2>1. PICK x : T = {x}
    BY <1>2
  <2>2. Cardinality({x}) = 1
    BY FS_Singleton
  <2> QED BY <2>1, <2>2
<1> QED BY <1>1, <1>2

\* Books one level apart differ in two rows at most.
LEMMA DiffOfTwo ==
  ASSUME NEW b, NEW c, NEW s \in Side, NEW p \in Price, OneApart(b, c, s, p), NEW depth \in Nat
  PROVE  DiffLevels(SnapshotL2(c, depth), SnapshotL2(b, depth)) <= 2
<1> DEFINE sim == SnapshotL2(c, depth)
           mine == SnapshotL2(b, depth)
           U == Unmatched(sim, mine)
           M == Missing(sim, mine)
           C == Shown(c, s, depth)
           B == Shown(b, s, depth)
<1>1. /\ \A i \in DOMAIN sim : \E t \in Side : \E r \in Shown(c, t, depth) : sim[i] = Row(c, t, r)
      /\ \A i, j \in DOMAIN sim : SameKey(sim[i], sim[j]) => i = j
  BY SnapshotRows
<1>2. /\ \A i \in DOMAIN mine : \E t \in Side : \E r \in Shown(b, t, depth) : mine[i] = Row(b, t, r)
      /\ \A i, j \in DOMAIN mine : SameKey(mine[i], mine[j]) => i = j
  BY SnapshotRows
<1>3. \A t \in Side \ {s} : Shown(c, t, depth) = Shown(b, t, depth)
  BY KeysApart DEF Shown
<1>4. \A t \in Side, r \in Price : t # s \/ r # p => Row(c, t, r) = Row(b, t, r)
  BY DEF OneApart, Row
<1>5. \A t : Shown(c, t, depth) \subseteq Price
  BY DEF Shown, Keys
<1>6. ASSUME NEW i \in U
      PROVE  i \in DOMAIN sim /\ sim[i].side = s /\ sim[i].px \in C
             /\ (sim[i].px = p \/ sim[i].px \notin B)
  <2>1. i \in DOMAIN sim /\ \/ Lacks(mine, sim[i])
                            \/ \E R \in ToSet(mine) : SameKey(sim[i], R) /\ sim[i] # R
    BY DEF Unmatched
  <2>2. PICK t \in Side : \E r \in Shown(c, t, depth) : sim[i] = Row(c, t, r)
    BY <1>1, <2>1
  <2>3. PICK r \in Shown(c, t, depth) : sim[i] = Row(c, t, r)
    BY <2>2
  <2>4. sim[i].side = t /\ sim[i].px = r
    BY <2>3 DEF Row
  <2>5. /\ Lacks(mine, sim[i]) <=> r \notin Shown(b, t, depth)
        /\ \A R \in ToSet(mine) : SameKey(sim[i], R) => R = Row(b, t, r)
    BY <2>4, RowIn
  <2>6. r \notin Shown(b, t, depth) \/ Row(c, t, r) # Row(b, t, r)
    BY <2>1, <2>3, <2>5
  <2> HIDE DEF U, M, sim, mine
  <2>7. r \notin Shown(b, t, depth) \/ (t = s /\ r = p)
    BY <1>4, <1>5, <2>6
  <2>8. t = s
    BY <1>3, <2>7
  <2> QED BY <2>1, <2>4, <2>7, <2>8
<1>7. ASSUME NEW i \in M
      PROVE  i \in DOMAIN mine /\ mine[i].side = s /\ mine[i].px \in B \ C
  <2>1. i \in DOMAIN mine /\ Lacks(sim, mine[i])
    BY DEF Missing
  <2>2. PICK t \in Side : \E r \in Shown(b, t, depth) : mine[i] = Row(b, t, r)
    BY <1>2, <2>1
  <2>3. PICK r \in Shown(b, t, depth) : mine[i] = Row(b, t, r)
    BY <2>2
  <2>4. mine[i].side = t /\ mine[i].px = r
    BY <2>3 DEF Row
  <2>5. Lacks(sim, mine[i]) <=> r \notin Shown(c, t, depth)
    BY <2>4, RowIn
  <2> HIDE DEF U, M, sim, mine
  <2>6. t = s
    BY <1>3, <2>1, <2>5
  <2> QED BY <2>1, <2>4, <2>5, <2>6
<1>8. DiffLevels(sim, mine) = Cardinality(U) + Cardinality(M)
  BY DiffIs
<1>9. IsFiniteSet(U) /\ IsFiniteSet(M)
  BY NoDiffSame
<1>10. CASE Keys(c, s) = Keys(b, s)
  <2>1. C = B
    BY <1>10 DEF Shown
  <2> HIDE DEF U, M, sim, mine, C, B
  <2>2. M = {} /\ \A i \in U : i \in DOMAIN sim /\ sim[i].side = s /\ sim[i].px = p
    BY <1>6, <1>7, <2>1
  <2>3. \A i, j \in U : i = j
    BY <1>1, <2>2 DEF SameKey
  <2>4. \A i, j \in M : i = j
    BY <2>2
  <2>5. Cardinality(U) \in Nat /\ Cardinality(U) <= 1 /\ Cardinality(M) \in Nat /\ Cardinality(M) <= 1
    BY <1>9, <2>3, <2>4, AtMostOne
  <2> QED BY <1>8, <2>5 DEF sim, mine
<1>11. CASE Keys(c, s) = Keys(b, s) \cup {p}
  <2>1. (\A r \in C : r = p \/ r \in B) /\ (\A r, t \in B \ C : r = t)
    BY <1>11, ShownMoves
  <2> HIDE DEF U, M, sim, mine, C, B
  <2>2. \A i \in U : i \in DOMAIN sim /\ sim[i].side = s /\ sim[i].px = p
    BY <1>6, <2>1
  <2>3. \A i, j \in U : i = j
    BY <1>1, <2>2 DEF SameKey
  <2>4. ASSUME NEW i \in M, NEW j \in M PROVE i = j
    <3>1. mine[i].px = mine[j].px
      BY <1>7, <2>1
    <3> QED BY <1>2, <1>7, <3>1 DEF SameKey
  <2>5. Cardinality(U) \in Nat /\ Cardinality(U) <= 1 /\ Cardinality(M) \in Nat /\ Cardinality(M) <= 1
    BY <1>9, <2>3, <2>4, AtMostOne
  <2> QED BY <1>8, <2>5 DEF sim, mine
<1>12. CASE Keys(b, s) = Keys(c, s) \cup {p} /\ p \notin Keys(c, s)
  <2>1. (\A r \in B : r = p \/ r \in C) /\ (\A r, t \in C \ B : r = t)
    BY <1>12, ShownMoves
  <2>2. p \notin C
    BY <1>12 DEF Shown
  <2> HIDE DEF U, M, sim, mine, C, B
  <2>3. ASSUME NEW i \in U, NEW j \in U PROVE i = j
    <3>1. sim[i].px \in C \ B /\ sim[j].px \in C \ B
      BY <1>6, <2>2
    <3>2. sim[i].px = sim[j].px
      BY <2>1, <3>1
    <3> QED BY <1>1, <1>6, <3>2 DEF SameKey
  <2>4. \A i \in M : mine[i].px = p /\ i \in DOMAIN mine /\ mine[i].side = s
    BY <1>7, <2>1
  <2>5. \A i, j \in M : i = j
    BY <1>2, <2>4 DEF SameKey
  <2>6. Cardinality(U) \in Nat /\ Cardinality(U) <= 1 /\ Cardinality(M) \in Nat /\ Cardinality(M) <= 1
    BY <1>9, <2>3, <2>5, AtMostOne
  <2> QED BY <1>8, <2>6 DEF sim, mine
<1> QED BY <1>10, <1>11, <1>12, KeysApart

\* A delta is applied to one level.
LEMMA DeltaApart ==
  ASSUME NEW b \in BookType, NEW d \in Deltas
  PROVE  OneApart(b, Applied(b, d), d.side, d.px) /\ d.side \in Side /\ d.px \in Price
BY AppliedIs, OrderBookAssumption DEF OneApart

-----------------------------------------------------------------------------

\* The cross-validator's diff is zero only between equal lists, and a missed delta
\* is never counted as more than two levels, whatever the depth.
THEOREM DiffTellsDelta == OBSpec => []DiffShowsDelta
<1>1. OBInv => DiffShowsDelta
  <2> SUFFICES ASSUME OBInv, NEW d \in Deltas, NEW depth \in 1 .. Cardinality(Price)
               PROVE  LET sim  == SnapshotL2(Applied(levels, d), depth)
                          mine == SnapshotL2(levels, depth)
                      IN  /\ DiffLevels(sim, mine) <= 2
                          /\ DiffLevels(sim, mine) = 0 <=> sim = mine
    BY DEF DiffShowsDelta
  <2>1. levels \in BookType
    BY DEF OBInv, BookOK
  <2>2. depth \in Nat
    <3>1. Cardinality(Price) \in Nat
      BY OrderBookAssumption, FS_CardinalityType
    <3> QED BY <3>1
  <2>3. DiffLevels(SnapshotL2(Applied(levels, d), depth), SnapshotL2(levels, depth)) <= 2
    BY <2>1, <2>2, DeltaApart, DiffOfTwo
  <2>4. LET sim  == SnapshotL2(Applied(levels, d), depth)
            mine == SnapshotL2(levels, depth)
        IN  DiffLevels(sim, mine) = 0 <=> sim = mine
    BY <2>2, NoDiffSame
  <2> QED BY <2>3, <2>4
<1> QED BY <1>1, OrderBookInvariance, PTL
=============================================================================
