-------------------------- MODULE IpsharkFrameProof --------------------------
(***************************************************************************)
(* Proofs about IpsharkFrame, for every number of CPUs, every size of      *)
(* kfifos, arrays and requests, and any packets, faults and restarts.      *)
(***************************************************************************)
EXTENDS IpsharkFrame, TLAPS, FiniteSetTheorems, SequenceTheorems, WellFoundedInduction

-----------------------------------------------------------------------------
(***************************************************************************)
(* Batches and kfifos.                                                     *)
(***************************************************************************)
Batch == Seq(CPU \X Nat)

\* The places of a CPU can be counted.
LEMMA PlacesProperties ==
  ASSUME NEW b \in Batch, NEW c \in CPU
  PROVE  /\ Places(c, b) \subseteq 1 .. Len(b) /\ Len(b) \in Nat
         /\ \A i \in Places(c, b) : i \in 1 .. Len(b) /\ b[i][1] = c /\ b[i][2] \in Nat
         /\ IsFiniteSet(Places(c, b)) /\ From(c, b) \in Nat
<1>1. /\ Len(b) \in Nat /\ DOMAIN b = 1 .. Len(b)
      /\ \A i \in 1 .. Len(b) : b[i] \in CPU \X Nat
  BY LenProperties DEF Batch
<1>2. Places(c, b) \subseteq 1 .. Len(b)
  BY <1>1 DEF Places
<1>3. IsFiniteSet(1 .. Len(b))
  BY <1>1, FS_Interval
<1>4. IsFiniteSet(Places(c, b)) /\ Cardinality(Places(c, b)) \in Nat
  BY <1>2, <1>3, FS_Subset, FS_CardinalityType
<1> QED
  BY <1>1, <1>2, <1>4 DEF Places, From

LEMMA EmptyBatch ==
  /\ << >> \in Batch
  /\ \A c \in CPU : Places(c, << >>) = {} /\ From(c, << >>) = 0
<1>1. DOMAIN << >> = {}
  OBVIOUS
<1> QED
  BY <1>1, FS_EmptySet, EmptySeq DEF Places, From, Batch

\* What kfifo_out takes from the front of a kfifo, and what it leaves.
Front(c, q, k) == [i \in 1 .. k |-> <<c, q[i]>>]
Rest(q, k)     == SubSeq(q, k + 1, Len(q))

LEMMA FrontProperties ==
  ASSUME NEW c \in CPU, NEW q \in Seq(Nat), NEW k \in 0 .. Len(q)
  PROVE  /\ Front(c, q, k) \in Batch /\ Len(Front(c, q, k)) = k
         /\ \A i \in 1 .. k : Front(c, q, k)[i] = <<c, q[i]>> /\ q[i] \in Nat
<1>1. k \in Nat /\ \A i \in 1 .. k : i \in 1 .. Len(q) /\ q[i] \in Nat
  BY LenProperties
<1>2. Front(c, q, k) \in [1 .. k -> CPU \X Nat]
  BY <1>1 DEF Front
<1>3. Front(c, q, k) \in Batch
  BY <1>1, <1>2, SeqDef DEF Batch
<1>4. DOMAIN Front(c, q, k) = 1 .. k
  BY DEF Front
<1>5. Len(Front(c, q, k)) \in Nat /\ 1 .. Len(Front(c, q, k)) = 1 .. k
  BY <1>3, <1>4, LenProperties DEF Batch
<1>6. Len(Front(c, q, k)) = k
  BY <1>1, <1>5
<1> QED
  BY <1>1, <1>3, <1>6 DEF Front

LEMMA RestProperties ==
  ASSUME NEW q \in Seq(Nat), NEW k \in 0 .. Len(q)
  PROVE  /\ Rest(q, k) \in Seq(Nat) /\ Len(Rest(q, k)) = Len(q) - k
         /\ \A i \in 1 .. Len(q) - k : Rest(q, k)[i] = q[k + i] /\ k + i \in 1 .. Len(q)
<1>1. Len(q) \in Nat /\ k \in Nat /\ k <= Len(q) /\ \A i \in 1 .. Len(q) : q[i] \in Nat
  BY LenProperties
<1>2. PICK m \in Int, n \in Int : m = k + 1 /\ n = Len(q)
  BY <1>1
<1>3. /\ SubSeq(q, m, n) \in Seq(Nat)
      /\ Len(SubSeq(q, m, n)) = IF m <= n THEN n - m + 1 ELSE 0
      /\ \A i \in 1 .. n - m + 1 : SubSeq(q, m, n)[i] = q[m + i - 1]
  <2>1. \A i \in m .. n : q[i] \in Nat
    BY <1>1, <1>2
  <2> QED
    BY <2>1, SubSeqProperties
<1>4. Rest(q, k) = SubSeq(q, m, n)
  BY <1>2 DEF Rest
<1>5. Len(Rest(q, k)) = Len(q) - k
  BY <1>1, <1>2, <1>3, <1>4
<1>6. ASSUME NEW i \in 1 .. Len(q) - k
      PROVE  Rest(q, k)[i] = q[k + i] /\ k + i \in 1 .. Len(q)
  <2>1. i \in 1 .. n - m + 1 /\ m + i - 1 = k + i /\ k + i \in 1 .. Len(q)
    BY <1>1, <1>2
  <2> QED
    BY <1>3, <1>4, <2>1
<1> QED
  BY <1>3, <1>4, <1>5, <1>6

\* The places of a batch with another one behind.
LEMMA PlacesOfBoth ==
  ASSUME NEW b \in Batch, NEW t \in Batch, NEW c \in CPU
  PROVE  /\ b \o t \in Batch /\ Len(b \o t) = Len(b) + Len(t)
         /\ \A i \in 1 .. Len(b) : (b \o t)[i] = b[i]
         /\ \A i \in 1 .. Len(t) : (b \o t)[Len(b) + i] = t[i]
         /\ Places(c, b \o t) =
              Places(c, b) \cup {j \in Len(b) + 1 .. Len(b) + Len(t) : t[j - Len(b)][1] = c}
<1>1. /\ Len(b) \in Nat /\ Len(t) \in Nat
      /\ DOMAIN b = 1 .. Len(b) /\ DOMAIN t = 1 .. Len(t)
  BY LenProperties DEF Batch
<1>2. /\ b \o t \in Batch /\ Len(b \o t) = Len(b) + Len(t)
      /\ \A i \in 1 .. Len(b) + Len(t) : (b \o t)[i] = IF i <= Len(b) THEN b[i] ELSE t[i - Len(b)]
  BY ConcatProperties DEF Batch
<1>3. DOMAIN (b \o t) = 1 .. Len(b) + Len(t)
  BY <1>2, LenProperties DEF Batch
<1>4. \A i \in 1 .. Len(b) : (b \o t)[i] = b[i]
  BY <1>1, <1>2
<1>5. \A i \in 1 .. Len(t) : (b \o t)[Len(b) + i] = t[i]
  BY <1>1, <1>2
<1>6. ASSUME NEW j \in 1 .. Len(b) + Len(t)
      PROVE  /\ j \in Places(c, b \o t) <=> (b \o t)[j][1] = c
             /\ j <= Len(b) => (j \in Places(c, b \o t) <=> j \in Places(c, b))
             /\ j > Len(b) => j \notin Places(c, b) /\ j \in Len(b) + 1 .. Len(b) + Len(t)
                              /\ (j \in Places(c, b \o t) <=> t[j - Len(b)][1] = c)
  BY <1>1, <1>2, <1>3 DEF Places
<1>7. Places(c, b) \subseteq 1 .. Len(b) /\ Places(c, b \o t) \subseteq 1 .. Len(b) + Len(t)
  BY <1>1, <1>3 DEF Places
<1>8. ASSUME NEW j
      PROVE  j \in Places(c, b \o t) <=>
               j \in Places(c, b) \/ (j \in Len(b) + 1 .. Len(b) + Len(t) /\ t[j - Len(b)][1] = c)
  <2>1. CASE j \in 1 .. Len(b)
    BY <1>1, <1>6, <2>1
  <2>2. CASE j \in Len(b) + 1 .. Len(b) + Len(t)
    <3>1. j \in 1 .. Len(b) + Len(t) /\ j > Len(b)
      BY <1>1, <2>2
    <3> QED
      BY <1>6, <2>2, <3>1
  <2>3. CASE j \notin 1 .. Len(b) + Len(t)
    BY <1>1, <1>7, <2>3
  <2> QED
    BY <1>1, <2>1, <2>2, <2>3
<1> QED
  BY <1>2, <1>4, <1>5, <1>8

\* A CPU's packets are one more for each that is taken from its kfifo.
LEMMA TakeCounts ==
  ASSUME NEW b \in Batch, NEW c \in CPU, NEW q \in Seq(Nat), NEW k \in 0 .. Len(q)
  PROVE  /\ From(c, b \o Front(c, q, k)) = From(c, b) + k
         /\ Places(c, b \o Front(c, q, k)) = Places(c, b) \cup (Len(b) + 1 .. Len(b) + k)
         /\ \A d \in CPU \ {c} : /\ Places(d, b \o Front(c, q, k)) = Places(d, b)
                                 /\ From(d, b \o Front(c, q, k)) = From(d, b)
<1>1. Len(q) \in Nat /\ k \in Nat /\ Len(b) \in Nat
  BY LenProperties DEF Batch
<1>2. PICK t : t = Front(c, q, k)
  OBVIOUS
<1>3. t \in Batch /\ Len(t) = k /\ \A i \in 1 .. k : t[i][1] = c
  BY <1>2, FrontProperties
<1>4. \A j \in Len(b) + 1 .. Len(b) + k : t[j - Len(b)][1] = c
  <2> TAKE j \in Len(b) + 1 .. Len(b) + k
  <2>1. j - Len(b) \in 1 .. k
    BY <1>1
  <2> QED
    BY <1>3, <2>1
<1>5. Places(c, b \o t) = Places(c, b) \cup (Len(b) + 1 .. Len(b) + k)
  <2>1. {j \in Len(b) + 1 .. Len(b) + k : t[j - Len(b)][1] = c} = Len(b) + 1 .. Len(b) + k
    BY <1>4
  <2>t. t \in Batch
    BY <1>3
  <2>2. Places(c, b \o t) =
          Places(c, b) \cup {j \in Len(b) + 1 .. Len(b) + Len(t) : t[j - Len(b)][1] = c}
    BY <2>t, PlacesOfBoth
  <2> QED
    BY <1>3, <2>1, <2>2
<1>6. Cardinality(Places(c, b \o t)) = Cardinality(Places(c, b)) + k
  <2> DEFINE P == Places(c, b)
             Q == Len(b) + 1 .. Len(b) + k
  <2>1. IsFiniteSet(P) /\ P \subseteq 1 .. Len(b) /\ Cardinality(P) \in Nat
    BY PlacesProperties DEF From
  <2>2. IsFiniteSet(Q) /\ Cardinality(Q) = k
    <3>1. PICK m \in Int, n \in Int : m = Len(b) + 1 /\ n = Len(b) + k
      BY <1>1
    <3>2. IsFiniteSet(m .. n) /\ Cardinality(m .. n) = IF m > n THEN 0 ELSE n - m + 1
      BY FS_Interval
    <3> QED
      BY <1>1, <3>1, <3>2
  <2>3. P \cap Q = {}
    BY <1>1, <2>1
  <2>4. Cardinality(P \cup Q) = Cardinality(P) + Cardinality(Q) - Cardinality(P \cap Q)
    BY <2>1, <2>2, FS_Union
  <2>5. Cardinality(P \cap Q) = 0
    BY <2>3, FS_EmptySet
  <2>6. Cardinality(P \cup Q) = Cardinality(P) + k
    <3> HIDE DEF P, Q
    <3> QED
      BY <1>1, <2>1, <2>2, <2>4, <2>5
  <2> QED
    BY <1>5, <2>6
<1>7. ASSUME NEW d \in CPU \ {c}  PROVE Places(d, b \o t) = Places(d, b)
  <2>1. {j \in Len(b) + 1 .. Len(b) + k : t[j - Len(b)][1] = d} = {}
    BY <1>4
  <2>t. t \in Batch
    BY <1>3
  <2>2. Places(d, b \o t) =
          Places(d, b) \cup {j \in Len(b) + 1 .. Len(b) + Len(t) : t[j - Len(b)][1] = d}
    BY <2>t, PlacesOfBoth
  <2> QED
    BY <1>3, <2>1, <2>2
<1> QED
  BY <1>2, <1>5, <1>6, <1>7 DEF From

\* What moves from the front of the kfifo to the end of the array stays in order.
LEMMA TakeKeepsOrder ==
  ASSUME NEW b \in Batch, NEW c \in CPU, NEW q \in Seq(Nat), NEW k \in 0 .. Len(q),
         NEW l \in Int, NEW n \in Nat, InOrder(c, b, q, l, n)
  PROVE  InOrder(c, b \o Front(c, q, k), Rest(q, k), l, n)
<1>1. /\ Len(q) \in Nat /\ k \in Nat /\ k <= Len(q) /\ Len(b) \in Nat
      /\ DOMAIN q = 1 .. Len(q) /\ \A i \in 1 .. Len(q) : q[i] \in Nat
  BY LenProperties DEF Batch
<1>2. PICK t : t = Front(c, q, k)
  OBVIOUS
<1>3. PICK r : r = Rest(q, k)
  OBVIOUS
<1>4. t \in Batch /\ Len(t) = k /\ \A i \in 1 .. k : t[i][2] = q[i]
  BY <1>2, FrontProperties
<1>5. PICK a : a = b \o t
  OBVIOUS
<1>6. DOMAIN r = 1 .. Len(q) - k /\ \A i \in DOMAIN r : r[i] = q[k + i] /\ k + i \in 1 .. Len(q)
  <2>1. /\ r \in Seq(Nat) /\ Len(r) = Len(q) - k
        /\ \A i \in 1 .. Len(q) - k : r[i] = q[k + i] /\ k + i \in 1 .. Len(q)
    BY <1>3, RestProperties
  <2>2. DOMAIN r = 1 .. Len(r)
    BY <2>1, LenProperties
  <2> QED
    BY <2>1, <2>2
<1> DEFINE Old == Places(c, b)
           New == Len(b) + 1 .. Len(b) + k
<1>7. Places(c, a) = Old \cup New
  BY <1>2, <1>5, TakeCounts
<1>8. \A i \in Old : i \in 1 .. Len(b) /\ a[i] = b[i] /\ b[i][2] \in Nat
  <2>1. \A i \in Old : i \in 1 .. Len(b) /\ b[i][2] \in Nat
    BY PlacesProperties
  <2>2. \A i \in 1 .. Len(b) : (b \o t)[i] = b[i]
    BY <1>4, PlacesOfBoth
  <2> QED
    BY <1>5, <2>1, <2>2
<1>9. ASSUME NEW i \in New
      PROVE  i - Len(b) \in 1 .. k /\ i - Len(b) \in 1 .. Len(q) /\ a[i][2] = q[i - Len(b)]
  <2>1. PICK m \in 1 .. k : i = Len(b) + m /\ m = i - Len(b)
    <3>1. i - Len(b) \in 1 .. k /\ i = Len(b) + (i - Len(b))
      BY <1>1
    <3> QED
      BY <3>1
  <2>2. a[Len(b) + m] = t[m]
    BY <1>4, <1>5, PlacesOfBoth
  <2> QED
    BY <1>1, <1>4, <2>1, <2>2
<1>10. /\ \A i \in Old : l < b[i][2] /\ b[i][2] < n
       /\ \A i \in 1 .. Len(q) : l < q[i] /\ q[i] < n
       /\ \A i, j \in Old : i < j => b[i][2] < b[j][2]
       /\ \A i, j \in 1 .. Len(q) : i < j => q[i] < q[j]
       /\ \A i \in Old, j \in 1 .. Len(q) : b[i][2] < q[j]
  BY <1>1 DEF InOrder
<1> HIDE DEF Old, New
<1>11. \A i \in Old \cup New : l < a[i][2] /\ a[i][2] < n
  BY <1>8, <1>9, <1>10
<1>12. \A i \in DOMAIN r : l < r[i] /\ r[i] < n
  BY <1>6, <1>10
<1>13. ASSUME NEW i \in Old \cup New, NEW j \in Old \cup New, i < j
       PROVE  a[i][2] < a[j][2]
  <2>1. CASE i \in Old /\ j \in Old
    BY <1>8, <1>10, <1>13, <2>1
  <2>2. CASE i \in Old /\ j \in New
    BY <1>8, <1>9, <1>10, <2>2
  <2>3. CASE i \in New /\ j \in Old
    BY <1>1, <1>8, <1>13, <2>3 DEF New
  <2>4. CASE i \in New /\ j \in New
    <3>1. i - Len(b) < j - Len(b)
      BY <1>1, <1>13, <2>4 DEF New
    <3> QED
      BY <1>9, <1>10, <2>4, <3>1
  <2> QED
    BY <2>1, <2>2, <2>3, <2>4
<1>14. ASSUME NEW i \in DOMAIN r, NEW j \in DOMAIN r, i < j  PROVE r[i] < r[j]
  <2>1. k + i < k + j
    BY <1>1, <1>6, <1>14
  <2> QED
    BY <1>6, <1>10, <2>1
<1>15. ASSUME NEW i \in Old \cup New, NEW j \in DOMAIN r  PROVE a[i][2] < r[j]
  <2>1. CASE i \in Old
    BY <1>6, <1>8, <1>10, <2>1
  <2>2. CASE i \in New
    <3>1. i - Len(b) < k + j
      BY <1>1, <1>6, <1>9, <2>2
    <3> QED
      BY <1>6, <1>9, <1>10, <2>2, <3>1
  <2> QED
    BY <2>1, <2>2
<1>16. InOrder(c, a, r, l, n)
  BY <1>7, <1>11, <1>12, <1>13, <1>14, <1>15 DEF InOrder
<1> QED
  BY <1>2, <1>3, <1>5, <1>16

\* The packets of the other CPUs stay where they are.
LEMMA TakeKeepsOthers ==
  ASSUME NEW b \in Batch, NEW c \in CPU, NEW q \in Seq(Nat), NEW k \in 0 .. Len(q),
         NEW d \in CPU \ {c}, NEW p, NEW l, NEW n, InOrder(d, b, p, l, n)
  PROVE  InOrder(d, b \o Front(c, q, k), p, l, n)
<1>1. PICK a : a = b \o Front(c, q, k)
  OBVIOUS
<1>2. Places(d, a) = Places(d, b)
  BY <1>1, TakeCounts
<1>3. \A i \in Places(d, b) : a[i] = b[i]
  BY <1>1, FrontProperties, PlacesOfBoth, PlacesProperties
<1>4. InOrder(d, a, p, l, n)
  BY <1>2, <1>3 DEF InOrder
<1> QED
  BY <1>1, <1>4

\* A packet that comes by is behind all others, whether the kfifo takes it or not.
LEMMA PutKeepsOrder ==
  ASSUME NEW b \in Batch, NEW c \in CPU, NEW q \in Seq(Nat), NEW l \in Int, NEW n \in Nat,
         l < n, InOrder(c, b, q, l, n)
  PROVE  InOrder(c, b, Append(q, n), l, n + 1) /\ InOrder(c, b, q, l, n + 1)
<1>1. /\ Len(q) \in Nat /\ DOMAIN q = 1 .. Len(q) /\ \A i \in 1 .. Len(q) : q[i] \in Nat
  BY LenProperties
<1>2. PICK a : a = Append(q, n)
  OBVIOUS
<1>3. /\ DOMAIN a = 1 .. Len(q) + 1 /\ \A i \in 1 .. Len(q) : a[i] = q[i]
      /\ a[Len(q) + 1] = n
  BY <1>2, AppendProperties, LenProperties
<1>4. \A i \in Places(c, b) : b[i][2] \in Nat
  BY PlacesProperties
<1>5. ASSUME NEW i \in DOMAIN a, i # Len(q) + 1  PROVE i \in DOMAIN q
  BY <1>1, <1>3, <1>5
<1>6. InOrder(c, b, q, l, n + 1)
  BY <1>1, <1>4 DEF InOrder
<1>7. \A i \in DOMAIN a : l < a[i] /\ a[i] < n + 1
  BY <1>1, <1>3, <1>5 DEF InOrder
<1>8. \A i, j \in DOMAIN a : i < j => a[i] < a[j]
  BY <1>1, <1>3, <1>5 DEF InOrder
<1>9. \A i \in Places(c, b), j \in DOMAIN a : b[i][2] < a[j]
  BY <1>1, <1>3, <1>4, <1>5 DEF InOrder
<1>10. InOrder(c, b, a, l, n + 1)
  BY <1>6, <1>7, <1>8, <1>9 DEF InOrder
<1> QED
  BY <1>2, <1>6, <1>10

\* Without the batch, or without the kfifo, the rest is in order.
LEMMA LessIsInOrder ==
  ASSUME NEW c \in CPU, NEW b, NEW q, NEW l, NEW n, InOrder(c, b, q, l, n)
  PROVE  InOrder(c, b, << >>, l, n) /\ InOrder(c, << >>, q, l, n)
<1>1. DOMAIN << >> = {} /\ Places(c, << >>) = {}
  BY EmptyBatch
<1> QED
  BY <1>1 DEF InOrder

\* A batch has a last packet of each CPU it has one of.
LEMMA LatestProperties ==
  ASSUME NEW b \in Batch, NEW c \in CPU, Places(c, b) # {}
  PROVE  \E i \in Places(c, b) : /\ \A j \in Places(c, b) : j <= i
                                 /\ Latest(c, b) = b[i][2] /\ Latest(c, b) \in Nat
<1> DEFINE mine == Places(c, b)
<1>1. mine \subseteq 1 .. Len(b) /\ Len(b) \in Nat /\ \A i \in mine : b[i][2] \in Nat
  BY PlacesProperties
<1>2. \E i \in mine : \A j \in mine : j <= i
  <2> DEFINE T == {m \in Nat : \E i \in mine : m = Len(b) - i}
             R == {ss \in Nat \X Nat : ss[1] < ss[2]}
  <2>1. T \subseteq Nat /\ T # {}
    <3>1. PICK i \in mine : TRUE
      OBVIOUS
    <3>2. Len(b) - i \in Nat
      BY <1>1, <3>1
    <3> QED
      BY <3>1, <3>2
  <2>2. IsWellFoundedOn(R, Nat)
    BY NatLessThanWellFounded DEF OpToRel
  <2>3. PICK m \in T : \A y \in T : <<y, m>> \notin R
    BY <2>1, <2>2, WFMin
  <2>4. PICK i \in mine : m = Len(b) - i
    BY <2>3
  <2>5. ASSUME NEW j \in mine  PROVE j <= i
    <3>1. Len(b) - j \in T /\ Len(b) - j \in Nat /\ m \in Nat
      BY <1>1, <2>1
    <3>2. ~ Len(b) - j < m
      BY <2>3, <3>1
    <3> QED
      BY <1>1, <2>4, <3>1, <3>2
  <2> QED
    BY <2>5
<1>3. PICK i \in mine : (\A j \in mine : j <= i) /\ Latest(c, b) = b[i][2]
  BY <1>2 DEF Latest
<1> QED
  BY <1>1, <1>3

\* What is in the kfifo is behind the last packet that was handled.
LEMMA HandleKeepsOrder ==
  ASSUME NEW b \in Batch, NEW c \in CPU, NEW q \in Seq(Nat), NEW l \in Int, NEW n \in Nat,
         InOrder(c, b, q, l, n), Places(c, b) # {}
  PROVE  Latest(c, b) < n /\ InOrder(c, << >>, q, Latest(c, b), n)
<1>1. PICK i \in Places(c, b) : Latest(c, b) = b[i][2]
  BY LatestProperties
<1>2. DOMAIN << >> = {} /\ Places(c, << >>) = {}
  BY EmptyBatch
<1> QED
  BY <1>1, <1>2 DEF InOrder


\* The packets of kfifos from a CPU on; Queued is about those that there are.
Packets(f, m) == UNION {{c} \X DOMAIN f[c] : c \in m .. NCpu - 1}

LEMMA CpuProperties ==
  /\ NCpu \in Nat \ {0} /\ CPU = 0 .. NCpu - 1 /\ 0 \in CPU
  /\ \A c \in CPU : c \in Nat /\ c + 1 \in 0 .. NCpu /\ (c # NCpu - 1 => c + 1 \in CPU)
BY QueueAssumption DEF CPU

LEMMA PacketsElements ==
  ASSUME NEW f \in [CPU -> Seq(Nat)], NEW m \in 0 .. NCpu
  PROVE  \A x : x \in Packets(f, m) <=>
                  \E c \in CPU : \E i \in 1 .. Len(f[c]) : m <= c /\ x = <<c, i>>
<1>1. NCpu \in Nat /\ CPU = 0 .. NCpu - 1 /\ m \in Nat
  BY CpuProperties
<1>2. \A c \in m .. NCpu - 1 : c \in CPU /\ m <= c
  BY <1>1
<1>3. \A c \in CPU : m <= c => c \in m .. NCpu - 1
  BY <1>1
<1>4. \A c \in CPU : DOMAIN f[c] = 1 .. Len(f[c])
  BY LenProperties
<1>5. ASSUME NEW x \in Packets(f, m)
      PROVE  \E c \in CPU : \E i \in 1 .. Len(f[c]) : m <= c /\ x = <<c, i>>
  <2>1. PICK c \in m .. NCpu - 1 : x \in {c} \X DOMAIN f[c]
    BY <1>5 DEF Packets
  <2>2. PICK i \in DOMAIN f[c] : x = <<c, i>>
    BY <2>1
  <2> QED
    BY <1>2, <1>4, <2>2
<1>6. ASSUME NEW c \in CPU, NEW i \in 1 .. Len(f[c]), m <= c
      PROVE  <<c, i>> \in Packets(f, m)
  <2>1. c \in m .. NCpu - 1 /\ <<c, i>> \in {c} \X DOMAIN f[c]
    BY <1>3, <1>4, <1>6
  <2> QED
    BY <2>1 DEF Packets
<1>7. ASSUME NEW x
      PROVE  x \in Packets(f, m) <=>
               \E c \in CPU : \E i \in 1 .. Len(f[c]) : m <= c /\ x = <<c, i>>
  <2>1. CASE x \in Packets(f, m)
    BY <1>5, <2>1
  <2>2. CASE \E c \in CPU : \E i \in 1 .. Len(f[c]) : m <= c /\ x = <<c, i>>
    BY <1>6, <2>2
  <2> QED
    BY <2>1, <2>2
<1> QED
  BY <1>7

\* There are finitely many, and none behind the last CPU.
LEMMA PacketsFinite ==
  ASSUME NEW f \in [CPU -> Seq(Nat)], \A c \in CPU : Len(f[c]) <= IP_FIFO_SIZE, NEW m \in 0 .. NCpu
  PROVE  /\ IsFiniteSet(Packets(f, m)) /\ Cardinality(Packets(f, m)) \in Nat
         /\ m = NCpu => Cardinality(Packets(f, m)) = 0
<1>1. NCpu \in Nat /\ CPU = 0 .. NCpu - 1
  BY CpuProperties
<1>2. IP_FIFO_SIZE \in Nat
  BY QueueAssumption
<1>3. IsFiniteSet(CPU) /\ IsFiniteSet(1 .. IP_FIFO_SIZE)
  BY <1>1, <1>2, FS_Interval
<1>4. IsFiniteSet(CPU \X (1 .. IP_FIFO_SIZE))
  BY <1>3, FS_Product
<1>5. Packets(f, m) \subseteq CPU \X (1 .. IP_FIFO_SIZE)
  <2>1. ASSUME NEW c \in CPU, NEW i \in 1 .. Len(f[c])  PROVE i \in 1 .. IP_FIFO_SIZE
    <3>1. Len(f[c]) \in Nat
      BY LenProperties
    <3> QED
      BY <1>2, <3>1
  <2> QED
    BY <2>1, PacketsElements
<1>6. IsFiniteSet(Packets(f, m)) /\ Cardinality(Packets(f, m)) \in Nat
  BY <1>4, <1>5, FS_Subset, FS_CardinalityType
<1>7. m = NCpu => Packets(f, m) = {}
  <2>1. \A c \in CPU : ~ NCpu <= c
    BY <1>1
  <2> QED
    BY <2>1, PacketsElements
<1> QED
  BY <1>6, <1>7, FS_EmptySet

\* The packets of a CPU and those of the CPUs behind it.
LEMMA PacketsSplit ==
  ASSUME NEW f \in [CPU -> Seq(Nat)], \A c \in CPU : Len(f[c]) <= IP_FIFO_SIZE, NEW m \in CPU
  PROVE  Cardinality(Packets(f, m)) = Len(f[m]) + Cardinality(Packets(f, m + 1))
<1>1. m \in Nat /\ m \in 0 .. NCpu /\ m + 1 \in 0 .. NCpu /\ CPU = 0 .. NCpu - 1 /\ NCpu \in Nat
  BY CpuProperties
<1> DEFINE A == {m} \X (1 .. Len(f[m]))
           B == Packets(f, m + 1)
<1>2. Len(f[m]) \in Nat
  BY LenProperties
<1>3. IsFiniteSet(A) /\ Cardinality(A) = Len(f[m])
  <2>1. IsFiniteSet({m}) /\ Cardinality({m}) = 1
    BY FS_Singleton
  <2>2. IsFiniteSet(1 .. Len(f[m])) /\ Cardinality(1 .. Len(f[m])) = Len(f[m])
    BY <1>2, FS_Interval
  <2>3. IsFiniteSet(A) /\ Cardinality(A) = Cardinality({m}) * Cardinality(1 .. Len(f[m]))
    BY <2>1, <2>2, FS_Product
  <2>4. 1 * Len(f[m]) = Len(f[m])
    BY <1>2
  <2> QED
    BY <2>1, <2>2, <2>3, <2>4
<1>4. IsFiniteSet(B) /\ Cardinality(B) \in Nat
  BY <1>1, PacketsFinite
<1>5. \A x : x \in Packets(f, m) <=>
               \E c \in CPU : \E i \in 1 .. Len(f[c]) : m <= c /\ x = <<c, i>>
  BY <1>1, PacketsElements
<1>6. \A x : x \in B <=> \E c \in CPU : \E i \in 1 .. Len(f[c]) : m + 1 <= c /\ x = <<c, i>>
  BY <1>1, PacketsElements
<1>7. Packets(f, m) = A \cup B
  <2>1. ASSUME NEW x  PROVE x \in Packets(f, m) <=> x \in A \cup B
    <3>1. x \in Packets(f, m) <=> \E c \in CPU : \E i \in 1 .. Len(f[c]) : m <= c /\ x = <<c, i>>
      BY <1>5
    <3>2. x \in B <=> \E c \in CPU : \E i \in 1 .. Len(f[c]) : m + 1 <= c /\ x = <<c, i>>
      BY <1>6
    <3>3. \A c \in CPU : m <= c <=> c = m \/ m + 1 <= c
      BY <1>1
    <3>4. x \in A <=> \E i \in 1 .. Len(f[m]) : x = <<m, i>>
      OBVIOUS
    <3> HIDE DEF A, B
    <3> QED
      BY <3>1, <3>2, <3>3, <3>4
  <2> QED
    BY <2>1
<1>8. A \cap B = {}
  <2>1. ASSUME NEW x \in A, x \in B  PROVE FALSE
    <3>1. PICK c \in CPU : \E i \in 1 .. Len(f[c]) : m + 1 <= c /\ x = <<c, i>>
      BY <1>6, <2>1
    <3>2. x[1] = m /\ x[1] = c
      BY <2>1, <3>1
    <3> QED
      BY <1>1, <3>1, <3>2
  <2> QED
    BY <2>1
<1>9. Cardinality(A \cup B) = Cardinality(A) + Cardinality(B) - Cardinality(A \cap B)
  BY <1>3, <1>4, FS_Union
<1>10. Cardinality(A \cap B) = 0
  BY <1>8, FS_EmptySet
<1> HIDE DEF A
<1> QED
  BY <1>2, <1>3, <1>4, <1>7, <1>9, <1>10

\* A put makes no kfifo shorter.
LEMMA PacketsGrow ==
  ASSUME NEW f \in [CPU -> Seq(Nat)], NEW g \in [CPU -> Seq(Nat)], NEW m \in 0 .. NCpu,
         \A c \in CPU : Len(g[c]) <= IP_FIFO_SIZE, \A c \in CPU : m <= c => Len(f[c]) <= Len(g[c])
  PROVE  /\ IsFiniteSet(Packets(f, m)) /\ Cardinality(Packets(f, m)) \in Nat
         /\ Cardinality(Packets(f, m)) <= Cardinality(Packets(g, m))
<1>1. Packets(f, m) \subseteq Packets(g, m)
  <2>1. ASSUME NEW c \in CPU, m <= c, NEW i \in 1 .. Len(f[c])  PROVE i \in 1 .. Len(g[c])
    <3>1. Len(f[c]) \in Nat /\ Len(g[c]) \in Nat /\ Len(f[c]) <= Len(g[c])
      BY <2>1, LenProperties
    <3> QED
      BY <3>1
  <2> QED
    BY <2>1, PacketsElements
<1>2. IsFiniteSet(Packets(g, m))
  BY PacketsFinite
<1> QED
  BY <1>1, <1>2, FS_Subset, FS_CardinalityType

-----------------------------------------------------------------------------
(***************************************************************************)
(* Types, threads, arrays and requests.                                     *)
(***************************************************************************)

LEMMA PutStep ==
  ASSUME BatchInv, NEW c \in CPU, ip_queue_put(c), UNCHANGED framevars
  PROVE  BatchInv'
<1>0. TypeOK /\ ThreadInv /\ ArrayInv /\ RequestInv /\ GetInv /\ TakesAll
  BY DEF BatchInv
<1>1. QueueTypeOK'
  <2>1. /\ fifo[c] \in Seq(Nat) /\ next[c] \in Nat /\ lost[c] \in Nat /\ Len(fifo[c]) \in Nat
        /\ next[c] < MaxPkts
    BY <1>0, LenProperties DEF TypeOK, QueueTypeOK, ip_queue_put
  <2>2. next' \in [CPU -> 0 .. MaxPkts]
    <3>1. next[c] + 1 \in 0 .. MaxPkts
      BY <2>1, QueueAssumption
    <3> QED
      BY <1>0, <3>1 DEF TypeOK, QueueTypeOK, ip_queue_put
  <2>3. /\ fifo' \in [CPU -> Seq(Nat)] /\ \A d \in CPU : Len(fifo'[d]) <= IP_FIFO_SIZE
        /\ lost' \in [CPU -> Nat]
    <3>1. CASE HasRoom(c)
      <4>1. PICK q : q = Append(fifo[c], next[c])
        OBVIOUS
      <4>2. q \in Seq(Nat) /\ Len(q) <= IP_FIFO_SIZE
        BY <2>1, <3>1, <4>1, AppendProperties, QueueAssumption DEF HasRoom
      <4>3. fifo' = [fifo EXCEPT ![c] = q] /\ lost' = lost
        BY <3>1, <4>1 DEF ip_queue_put
      <4>4. fifo' \in [CPU -> Seq(Nat)]
        BY <1>0, <4>2, <4>3 DEF TypeOK, QueueTypeOK
      <4>5. \A d \in CPU : Len(fifo'[d]) <= IP_FIFO_SIZE
        BY <1>0, <4>2, <4>3 DEF TypeOK, QueueTypeOK
      <4> QED
        BY <1>0, <4>3, <4>4, <4>5 DEF TypeOK, QueueTypeOK
    <3>2. CASE ~ HasRoom(c)
      <4>1. fifo' = fifo /\ lost' = [lost EXCEPT ![c] = @ + 1]
        BY <3>2 DEF ip_queue_put
      <4>2. lost[c] + 1 \in Nat
        BY <2>1
      <4>3. lost' \in [CPU -> Nat]
        BY <1>0, <4>1, <4>2 DEF TypeOK, QueueTypeOK
      <4> QED
        BY <1>0, <4>1, <4>3 DEF TypeOK, QueueTypeOK
    <3> QED
      BY <3>1, <3>2
  <2> QED
    BY <1>0, <2>2, <2>3 DEF TypeOK, QueueTypeOK, ip_queue_put
<1>2. TypeOK'
  BY <1>0, <1>1, QueueAssumption, FrameAssumption DEF TypeOK, ThreadInv, ArrayInv, RequestInv, ip_queue_put, HasRoom, framevars
<1>3. ThreadInv'
  BY <1>0 DEF ThreadInv, RequestInv, ip_queue_put, HasRoom, framevars
<1>4. ArrayInv'
  BY <1>0, FrameAssumption DEF TypeOK, ThreadInv, ArrayInv, RequestInv, ip_queue_put, HasRoom, framevars
<1>5. RequestInv'
  BY <1>0 DEF TypeOK, QueueTypeOK, ThreadInv, RequestInv, ip_queue_put, HasRoom, framevars
<1>6. GetInv' /\ TakesAll'
  <2>1. UNCHANGED <<kpc, cpu, there, arr, kn, un>>
    BY DEF ip_queue_put
  <2>2. CASE kpc = "get"
    <3>1. PICK g : g = fifo'
      OBVIOUS
    <3>2. /\ fifo \in [CPU -> Seq(Nat)] /\ g \in [CPU -> Seq(Nat)] /\ cpu \in CPU
          /\ \A d \in CPU : Len(g[d]) <= IP_FIFO_SIZE
      BY <1>0, <1>1, <3>1 DEF TypeOK, QueueTypeOK, ip_queue_put
    <3>3. \A d \in CPU : Len(fifo[d]) <= Len(g[d])
      <4> TAKE d \in CPU
      <4>1. Len(fifo[d]) \in Nat
        BY <3>2, LenProperties
      <4>2. CASE HasRoom(c) /\ d = c
        <5>1. g[d] = Append(fifo[d], next[d]) /\ next[d] \in Nat
          BY <1>0, <3>1, <3>2, <4>2 DEF TypeOK, QueueTypeOK, ip_queue_put
        <5>2. fifo[d] \in Seq(Nat)
          BY <3>2
        <5> QED
          BY <4>1, <5>1, <5>2, AppendProperties
      <4>3. CASE ~ (HasRoom(c) /\ d = c)
        <5>1. g[d] = fifo[d]
          BY <3>1, <3>2, <4>3 DEF ip_queue_put
        <5> QED
          BY <4>1, <5>1
      <4> QED
        BY <4>2, <4>3
    <3>4. 0 \in 0 .. NCpu /\ cpu \in 0 .. NCpu
      BY <3>2, CpuProperties
    <3>5. /\ Cardinality(Packets(fifo, 0)) <= Cardinality(Packets(g, 0))
          /\ Cardinality(Packets(fifo, 0)) \in Nat /\ Cardinality(Packets(g, 0)) \in Nat
      BY <3>2, <3>3, <3>4, PacketsGrow, PacketsFinite
    <3>6. /\ Cardinality(Packets(fifo, cpu)) <= Cardinality(Packets(g, cpu))
          /\ Cardinality(Packets(fifo, cpu)) \in Nat /\ Cardinality(Packets(g, cpu)) \in Nat
      BY <3>2, <3>3, <3>4, PacketsGrow, PacketsFinite
    <3>7. /\ ip_queue_len = Cardinality(Packets(fifo, 0))
          /\ ip_queue_len' = Cardinality(Packets(g, 0))
          /\ Cardinality(Queued(cpu)) = Cardinality(Packets(fifo, cpu))
          /\ Cardinality(Queued(cpu))' = Cardinality(Packets(g, cpu))
      BY <2>1, <3>1 DEF ip_queue_len, Queued, Packets
    <3>8. there \in Nat /\ Len(arr) \in Nat
      BY <1>0, LenProperties DEF TypeOK, QueueTypeOK
    <3>9. GetInv'
      <4>1. CASE cpu = 0
        BY <1>0, <2>1, <2>2, <3>5, <3>7, <4>1 DEF GetInv
      <4>2. CASE cpu # 0
        BY <1>0, <2>1, <2>2, <3>6, <3>7, <3>8, <4>2 DEF GetInv
      <4> QED
        BY <4>1, <4>2
    <3> QED
      BY <2>1, <2>2, <3>9 DEF TakesAll
  <2>3. CASE kpc # "get"
    BY <1>0, <2>1, <2>3 DEF GetInv, TakesAll
  <2> QED
    BY <2>2, <2>3
<1> QED
  BY <1>2, <1>3, <1>4, <1>5, <1>6 DEF BatchInv

LEMMA BeginStep ==
  ASSUME BatchInv, FetchBegins, UNCHANGED framevars
  PROVE  BatchInv'
<1>0. TypeOK /\ ThreadInv /\ ArrayInv /\ RequestInv /\ GetInv /\ TakesAll
  BY DEF BatchInv
<1>1. QueueTypeOK'
  <2>1. Fault => faults' \in 0 .. MaxFaults
    BY <1>0, QueueAssumption DEF TypeOK, QueueTypeOK, Fault
  <2>2. faults' \in 0 .. MaxFaults
    BY <1>0, <2>1 DEF TypeOK, QueueTypeOK, FetchBegins, Steps
  <2>3. kn' \in Nat /\ un' \in Nat
    BY <1>0 DEF TypeOK, QueueTypeOK, FetchBegins, Steps
  <2>4. kpc' \in {"out", "begin", "wait", "get", "copy", "ok", "error"}
    BY <1>0 DEF TypeOK, QueueTypeOK, FetchBegins, Steps
  <2> QED
    BY <1>0, <2>2, <2>3, <2>4 DEF TypeOK, QueueTypeOK, FetchBegins, Steps
<1>2. TypeOK'
  BY <1>0, <1>1, QueueAssumption, FrameAssumption DEF TypeOK, ThreadInv, ArrayInv, RequestInv, FetchBegins, Steps, Fault, framevars
<1>3. ThreadInv'
  BY <1>0 DEF ThreadInv, RequestInv, FetchBegins, Steps, Fault, framevars
<1>4. ArrayInv'
  BY <1>0, FrameAssumption DEF TypeOK, ThreadInv, ArrayInv, RequestInv, FetchBegins, Steps, Fault, framevars
<1>5. RequestInv'
  BY <1>0 DEF TypeOK, QueueTypeOK, ThreadInv, RequestInv, FetchBegins, Steps, Fault, framevars
<1>6. GetInv' /\ TakesAll'
  BY <1>0 DEF GetInv, TakesAll, ThreadInv, RequestInv, ip_queue_len, Queued, FetchBegins, Steps, Fault, framevars
<1> QED
  BY <1>2, <1>3, <1>4, <1>5, <1>6 DEF BatchInv

LEMMA WaitStep ==
  ASSUME BatchInv, WaitReady \/ WaitTimeout \/ WaitSignal, UNCHANGED framevars
  PROVE  BatchInv'
<1>0. TypeOK /\ ThreadInv /\ ArrayInv /\ RequestInv /\ GetInv /\ TakesAll
  BY DEF BatchInv
<1>w. /\ kpc = "wait" /\ kpc' \in {"get", "error"} /\ UNCHANGED framevars
      /\ UNCHANGED <<active, fifo, next, cpu, infonum, arr, ubuf, lost, there>>
  BY DEF WaitReady, WaitTimeout, WaitSignal, GoesOn, GivesUp, Steps
<1>n. /\ kpc' = "get" => kn' = kn /\ un' = un
      /\ un' = un \/ un' = 0
      /\ kn' = kn \/ kn' = 0
  BY DEF WaitReady, WaitTimeout, WaitSignal, GoesOn, GivesUp, Steps
<1>1. QueueTypeOK'
  <2>1. Fault => faults' \in 0 .. MaxFaults
    BY <1>0, QueueAssumption DEF TypeOK, QueueTypeOK, Fault
  <2>2. faults' \in 0 .. MaxFaults
    BY <1>0, <2>1 DEF TypeOK, QueueTypeOK, WaitReady, WaitTimeout, WaitSignal, GoesOn, GivesUp, Steps
  <2>3. kn' \in Nat /\ un' \in Nat
    <3>1. kn \in Nat /\ un \in Nat
      BY <1>0 DEF TypeOK, QueueTypeOK
    <3> QED
      BY <1>n, <3>1
  <2> QED
    BY <1>0, <1>w, <2>2, <2>3 DEF TypeOK, QueueTypeOK
<1>2. TypeOK'
  BY <1>0, <1>1, <1>w DEF TypeOK, framevars
<1>3. ThreadInv'
  BY <1>0, <1>w DEF ThreadInv, framevars
<1>4. ArrayInv'
  <2>1. UNCHANGED <<fpc, mode, cur, size, held, lastn, nextn>>
    BY <1>w DEF framevars
  <2>2. Block \in Nat /\ lastn \in Nat
    BY <1>0, FrameAssumption, QueueAssumption DEF TypeOK
  <2>3. fpc' = "fetch" => un' <= (IF mode = "ut" THEN Block ELSE lastn)
    BY <1>0, <1>n, <2>1, <2>2 DEF ArrayInv
  <2> QED
    BY <1>0, <2>1, <2>3 DEF ArrayInv
<1>5. RequestInv'
  <2>1. arr = << >> /\ cpu = 0 /\ ubuf = << >> /\ kn = un /\ kn \in 1 .. MaxFetch /\ Len(<< >>) = 0
    BY <1>0, <1>w, EmptySeq DEF RequestInv
  <2> QED
    BY <1>w, <1>n, <2>1 DEF RequestInv
<1>6. GetInv' /\ TakesAll'
  <2>1. kpc = "wait" /\ cpu = 0 /\ UNCHANGED <<fifo, cpu, there, arr>> /\ kpc' \in {"get", "error"}
    BY <1>0 DEF RequestInv, WaitReady, WaitTimeout, WaitSignal, GoesOn, GivesUp, Steps
  <2>2. ip_queue_len \in Nat /\ Enough \in Nat
    <3>1. 0 \in 0 .. NCpu
      BY CpuProperties
    <3>2. Cardinality(Packets(fifo, 0)) \in Nat
      BY <1>0, <3>1, PacketsFinite DEF TypeOK, QueueTypeOK
    <3> QED
      BY <3>2, QueueAssumption DEF ip_queue_len, Queued, Packets
  <2>3. kpc' = "get" => ip_queue_len > Enough \/ ip_queue_len > 0
    BY DEF WaitReady, WaitTimeout, WaitSignal, GoesOn, GivesUp, Steps
  <2>4. kpc' = "get" => ip_queue_len > 0
    BY <2>2, <2>3
  <2>5. ip_queue_len' = ip_queue_len
    BY <2>1 DEF ip_queue_len, Queued
  <2> QED
    BY <2>1, <2>4, <2>5 DEF GetInv, TakesAll
<1> QED
  BY <1>2, <1>3, <1>4, <1>5, <1>6 DEF BatchInv

LEMMA NoAccessStep ==
  ASSUME BatchInv, NoAccess, UNCHANGED framevars
  PROVE  BatchInv'
<1>0. TypeOK /\ ThreadInv /\ ArrayInv /\ RequestInv /\ GetInv /\ TakesAll
  BY DEF BatchInv
<1>1. QueueTypeOK'
  BY <1>0, QueueAssumption, FrameAssumption DEF TypeOK, QueueTypeOK, NoAccess, Steps, Fault, framevars
<1>2. TypeOK'
  BY <1>0, <1>1, QueueAssumption, FrameAssumption DEF TypeOK, ThreadInv, ArrayInv, RequestInv, NoAccess, Steps, Fault, framevars
<1>3. ThreadInv'
  BY <1>0 DEF ThreadInv, RequestInv, NoAccess, Steps, Fault, framevars
<1>4. ArrayInv'
  BY <1>0, FrameAssumption DEF TypeOK, ThreadInv, ArrayInv, RequestInv, NoAccess, Steps, Fault, framevars
<1>5. RequestInv'
  BY <1>0 DEF TypeOK, QueueTypeOK, ThreadInv, RequestInv, NoAccess, Steps, Fault, framevars
<1>6. GetInv' /\ TakesAll'
  BY <1>0 DEF GetInv, TakesAll, ThreadInv, RequestInv, ip_queue_len, Queued, NoAccess, Steps, Fault, framevars
<1> QED
  BY <1>2, <1>3, <1>4, <1>5, <1>6 DEF BatchInv

LEMMA CopyStep ==
  ASSUME BatchInv, Copies, UNCHANGED framevars
  PROVE  BatchInv'
<1>0. TypeOK /\ ThreadInv /\ ArrayInv /\ RequestInv /\ GetInv /\ TakesAll
  BY DEF BatchInv
<1>1. QueueTypeOK'
  <2>1. Fault => faults' \in 0 .. MaxFaults
    BY <1>0, QueueAssumption DEF TypeOK, QueueTypeOK, Fault
  <2>2. \A c \in CPU : From(c, arr) \in Nat /\ lost[c] \in Nat
    BY <1>0, PlacesProperties DEF TypeOK, QueueTypeOK, Batch
  <2>3. lost' \in [CPU -> Nat] /\ faults' \in 0 .. MaxFaults
    <3>1. CASE UNCHANGED <<lost, faults>>
      BY <1>0, <3>1 DEF TypeOK, QueueTypeOK
    <3>2. CASE Lose(arr) /\ Fault
      <4>1. \A c \in CPU : lost[c] + From(c, arr) \in Nat
        BY <2>2
      <4>2. lost' \in [CPU -> Nat]
        BY <3>2, <4>1 DEF Lose
      <4> QED
        BY <2>1, <3>2, <4>2
    <3> QED
      BY <3>1, <3>2 DEF Copies
  <2>4. arr' \in Seq(CPU \X Nat) /\ ubuf' \in Seq(CPU \X Nat) /\ un' \in Nat
    BY <1>0, EmptyBatch DEF TypeOK, QueueTypeOK, Copies, Batch
  <2> QED
    BY <1>0, <2>3, <2>4 DEF TypeOK, QueueTypeOK, Copies
<1>2. TypeOK'
  BY <1>0, <1>1, QueueAssumption, FrameAssumption DEF TypeOK, ThreadInv, ArrayInv, RequestInv, Copies, Fault, Lose, framevars
<1>3. ThreadInv'
  BY <1>0 DEF ThreadInv, RequestInv, Copies, Fault, Lose, framevars
<1>4. ArrayInv'
  <2>1. un' = un \/ (un' = kn /\ kn <= un)
    BY <1>0 DEF RequestInv, Copies
  <2>2. kn \in Nat /\ un \in Nat /\ lastn \in Nat /\ Block \in Nat /\ kpc = "copy"
    BY <1>0, QueueAssumption, FrameAssumption DEF TypeOK, QueueTypeOK, Copies
  <2>3. fpc' = "fetch" => un' <= (IF mode' = "ut" THEN Block ELSE lastn')
    BY <1>0, <2>1, <2>2 DEF ArrayInv, framevars
  <2> QED
    BY <1>0, <2>3 DEF ArrayInv, framevars
<1>5. RequestInv'
  <2>1. kn = Len(arr) /\ kn \in 1 .. un /\ un <= MaxFetch /\ ubuf = << >> /\ cpu = 0
    BY <1>0 DEF RequestInv, Copies
  <2>2. un \in Nat /\ MaxFetch \in Nat
    BY <1>0, QueueAssumption DEF TypeOK, QueueTypeOK
  <2>3. CASE kpc' = "ok"
    BY <2>1, <2>2, <2>3 DEF RequestInv, Copies
  <2>4. CASE kpc' = "error"
    BY <2>1, <2>4 DEF RequestInv, Copies
  <2> QED
    BY <2>3, <2>4 DEF Copies
<1>6. GetInv' /\ TakesAll'
  BY <1>0 DEF GetInv, TakesAll, ThreadInv, RequestInv, ip_queue_len, Queued, Copies, Fault, Lose, framevars
<1> QED
  BY <1>2, <1>3, <1>4, <1>5, <1>6 DEF BatchInv

LEMMA RegisterStep ==
  ASSUME BatchInv, NEW m \in {"mt", "ut"}, Register(m)
  PROVE  BatchInv'
<1>0. TypeOK /\ ThreadInv /\ ArrayInv /\ RequestInv /\ GetInv /\ TakesAll
  BY DEF BatchInv
<1>1. QueueTypeOK'
  BY <1>0, QueueAssumption, FrameAssumption DEF TypeOK, QueueTypeOK, Register, ThreadSame, queuevars
<1>2. TypeOK'
  BY <1>0, <1>1, QueueAssumption, FrameAssumption DEF TypeOK, ThreadInv, ArrayInv, RequestInv, Register, ThreadSame, queuevars
<1>3. ThreadInv'
  BY <1>0 DEF ThreadInv, RequestInv, Register, ThreadSame, queuevars
<1>4. ArrayInv'
  BY <1>0, FrameAssumption DEF TypeOK, ThreadInv, ArrayInv, RequestInv, Register, ThreadSame, queuevars
<1>5. RequestInv'
  BY <1>0 DEF TypeOK, QueueTypeOK, ThreadInv, RequestInv, Register, ThreadSame, queuevars
<1>6. GetInv' /\ TakesAll'
  BY <1>0 DEF GetInv, TakesAll, ThreadInv, RequestInv, ip_queue_len, Queued, Register, ThreadSame, queuevars
<1> QED
  BY <1>2, <1>3, <1>4, <1>5, <1>6 DEF BatchInv

LEMMA StartStep ==
  ASSUME BatchInv, Start
  PROVE  BatchInv'
<1>0. TypeOK /\ ThreadInv /\ ArrayInv /\ RequestInv /\ GetInv /\ TakesAll
  BY DEF BatchInv
<1>1. QueueTypeOK'
  BY <1>0, QueueAssumption, FrameAssumption DEF TypeOK, QueueTypeOK, Start, ThreadSame, queuevars
<1>2. TypeOK'
  BY <1>0, <1>1, QueueAssumption, FrameAssumption DEF TypeOK, ThreadInv, ArrayInv, RequestInv, Start, ThreadSame, queuevars
<1>3. ThreadInv'
  BY <1>0 DEF ThreadInv, RequestInv, Start, ThreadSame, queuevars
<1>4. ArrayInv'
  BY <1>0, FrameAssumption DEF TypeOK, ThreadInv, ArrayInv, RequestInv, Start, ThreadSame, queuevars
<1>5. RequestInv'
  BY <1>0 DEF TypeOK, QueueTypeOK, ThreadInv, RequestInv, Start, ThreadSame, queuevars
<1>6. GetInv' /\ TakesAll'
  BY <1>0 DEF GetInv, TakesAll, ThreadInv, RequestInv, ip_queue_len, Queued, Start, ThreadSame, queuevars
<1> QED
  BY <1>2, <1>3, <1>4, <1>5, <1>6 DEF BatchInv

LEMMA ConfigStep ==
  ASSUME BatchInv, Config
  PROVE  BatchInv'
<1>0. TypeOK /\ ThreadInv /\ ArrayInv /\ RequestInv /\ GetInv /\ TakesAll
  BY DEF BatchInv
<1>1. QueueTypeOK'
  BY <1>0, QueueAssumption, FrameAssumption DEF TypeOK, QueueTypeOK, Config, ThreadSame
<1>2. TypeOK'
  BY <1>0, <1>1, QueueAssumption, FrameAssumption DEF TypeOK, ThreadInv, ArrayInv, RequestInv, Config, ThreadSame
<1>3. ThreadInv'
  BY <1>0 DEF ThreadInv, RequestInv, Config, ThreadSame
<1>4. ArrayInv'
  BY <1>0, FrameAssumption DEF TypeOK, ThreadInv, ArrayInv, RequestInv, Config, ThreadSame
<1>5. RequestInv'
  BY <1>0 DEF TypeOK, QueueTypeOK, ThreadInv, RequestInv, Config, ThreadSame
<1>6. GetInv' /\ TakesAll'
  BY <1>0 DEF GetInv, TakesAll, ThreadInv, RequestInv, ip_queue_len, Queued, Config, ThreadSame
<1> QED
  BY <1>2, <1>3, <1>4, <1>5, <1>6 DEF BatchInv

LEMMA CreateStep ==
  ASSUME BatchInv, Create
  PROVE  BatchInv'
<1>0. TypeOK /\ ThreadInv /\ ArrayInv /\ RequestInv /\ GetInv /\ TakesAll
  BY DEF BatchInv
<1>1. QueueTypeOK'
  BY <1>0, QueueAssumption, FrameAssumption DEF TypeOK, QueueTypeOK, Create, queuevars
<1>2. TypeOK'
  BY <1>0, <1>1, QueueAssumption, FrameAssumption DEF TypeOK, ThreadInv, ArrayInv, RequestInv, Create, queuevars
<1>3. ThreadInv'
  BY <1>0 DEF ThreadInv, RequestInv, Create, queuevars
<1>4. ArrayInv'
  BY <1>0, FrameAssumption DEF TypeOK, ThreadInv, ArrayInv, RequestInv, Create, queuevars
<1>5. RequestInv'
  BY <1>0 DEF TypeOK, QueueTypeOK, ThreadInv, RequestInv, Create, queuevars
<1>6. GetInv' /\ TakesAll'
  BY <1>0 DEF GetInv, TakesAll, ThreadInv, RequestInv, ip_queue_len, Queued, Create, queuevars
<1> QED
  BY <1>2, <1>3, <1>4, <1>5, <1>6 DEF BatchInv

LEMMA StartFailsStep ==
  ASSUME BatchInv, StartFails
  PROVE  BatchInv'
<1>0. TypeOK /\ ThreadInv /\ ArrayInv /\ RequestInv /\ GetInv /\ TakesAll
  BY DEF BatchInv
<1>1. QueueTypeOK'
  <2>1. \A c \in CPU : Len(fifo[c]) \in Nat /\ lost[c] \in Nat
    BY <1>0, LenProperties DEF TypeOK, QueueTypeOK
  <2>2. lost' \in [CPU -> Nat]
    BY <2>1 DEF StartFails, Close
  <2>3. fifo' \in [CPU -> Seq(Nat)] /\ \A c \in CPU : Len(fifo'[c]) <= IP_FIFO_SIZE
    BY EmptySeq, QueueAssumption DEF StartFails, Close
  <2> QED
    BY <1>0, <2>2, <2>3 DEF TypeOK, QueueTypeOK, StartFails, Close
<1>2. TypeOK'
  BY <1>0, <1>1, QueueAssumption, FrameAssumption DEF TypeOK, ThreadInv, ArrayInv, RequestInv, StartFails, ThreadSame, Close
<1>3. ThreadInv'
  BY <1>0 DEF ThreadInv, RequestInv, StartFails, ThreadSame, Close
<1>4. ArrayInv'
  BY <1>0, FrameAssumption DEF TypeOK, ThreadInv, ArrayInv, RequestInv, StartFails, ThreadSame, Close
<1>5. RequestInv'
  BY <1>0 DEF TypeOK, QueueTypeOK, ThreadInv, RequestInv, StartFails, ThreadSame, Close
<1>6. GetInv' /\ TakesAll'
  BY <1>0 DEF GetInv, TakesAll, ThreadInv, RequestInv, ip_queue_len, Queued, StartFails, ThreadSame, Close
<1> QED
  BY <1>2, <1>3, <1>4, <1>5, <1>6 DEF BatchInv

LEMMA StopStep ==
  ASSUME BatchInv, Stop
  PROVE  BatchInv'
<1>0. TypeOK /\ ThreadInv /\ ArrayInv /\ RequestInv /\ GetInv /\ TakesAll
  BY DEF BatchInv
<1>1. QueueTypeOK'
  BY <1>0, QueueAssumption, FrameAssumption DEF TypeOK, QueueTypeOK, Stop, ThreadSame, queuevars
<1>2. TypeOK'
  BY <1>0, <1>1, QueueAssumption, FrameAssumption DEF TypeOK, ThreadInv, ArrayInv, RequestInv, Stop, ThreadSame, queuevars
<1>3. ThreadInv'
  BY <1>0 DEF ThreadInv, RequestInv, Stop, ThreadSame, queuevars
<1>4. ArrayInv'
  BY <1>0, FrameAssumption DEF TypeOK, ThreadInv, ArrayInv, RequestInv, Stop, ThreadSame, queuevars
<1>5. RequestInv'
  BY <1>0 DEF TypeOK, QueueTypeOK, ThreadInv, RequestInv, Stop, ThreadSame, queuevars
<1>6. GetInv' /\ TakesAll'
  BY <1>0 DEF GetInv, TakesAll, ThreadInv, RequestInv, ip_queue_len, Queued, Stop, ThreadSame, queuevars
<1> QED
  BY <1>2, <1>3, <1>4, <1>5, <1>6 DEF BatchInv

LEMMA JoinStep ==
  ASSUME BatchInv, Join
  PROVE  BatchInv'
<1>0. TypeOK /\ ThreadInv /\ ArrayInv /\ RequestInv /\ GetInv /\ TakesAll
  BY DEF BatchInv
<1>1. QueueTypeOK'
  BY <1>0, QueueAssumption, FrameAssumption DEF TypeOK, QueueTypeOK, Join, ThreadSame, queuevars
<1>2. TypeOK'
  BY <1>0, <1>1, QueueAssumption, FrameAssumption DEF TypeOK, ThreadInv, ArrayInv, RequestInv, Join, ThreadSame, queuevars
<1>3. ThreadInv'
  BY <1>0 DEF ThreadInv, RequestInv, Join, ThreadSame, queuevars
<1>4. ArrayInv'
  BY <1>0, FrameAssumption DEF TypeOK, ThreadInv, ArrayInv, RequestInv, Join, ThreadSame, queuevars
<1>5. RequestInv'
  BY <1>0 DEF TypeOK, QueueTypeOK, ThreadInv, RequestInv, Join, ThreadSame, queuevars
<1>6. GetInv' /\ TakesAll'
  BY <1>0 DEF GetInv, TakesAll, ThreadInv, RequestInv, ip_queue_len, Queued, Join, ThreadSame, queuevars
<1> QED
  BY <1>2, <1>3, <1>4, <1>5, <1>6 DEF BatchInv

LEMMA ExitStep ==
  ASSUME BatchInv, Exit
  PROVE  BatchInv'
<1>0. TypeOK /\ ThreadInv /\ ArrayInv /\ RequestInv /\ GetInv /\ TakesAll
  BY DEF BatchInv
<1>1. QueueTypeOK'
  <2>1. \A c \in CPU : Len(fifo[c]) \in Nat /\ lost[c] \in Nat
    BY <1>0, LenProperties DEF TypeOK, QueueTypeOK
  <2>2. lost' \in [CPU -> Nat]
    BY <2>1 DEF Exit, Close
  <2>3. fifo' \in [CPU -> Seq(Nat)] /\ \A c \in CPU : Len(fifo'[c]) <= IP_FIFO_SIZE
    BY EmptySeq, QueueAssumption DEF Exit, Close
  <2> QED
    BY <1>0, <2>2, <2>3 DEF TypeOK, QueueTypeOK, Exit, Close
<1>2. TypeOK'
  BY <1>0, <1>1, QueueAssumption, FrameAssumption DEF TypeOK, ThreadInv, ArrayInv, RequestInv, Exit, ThreadSame, Close
<1>3. ThreadInv'
  BY <1>0 DEF ThreadInv, RequestInv, Exit, ThreadSame, Close
<1>4. ArrayInv'
  BY <1>0, FrameAssumption DEF TypeOK, ThreadInv, ArrayInv, RequestInv, Exit, ThreadSame, Close
<1>5. RequestInv'
  BY <1>0 DEF TypeOK, QueueTypeOK, ThreadInv, RequestInv, Exit, ThreadSame, Close
<1>6. GetInv' /\ TakesAll'
  BY <1>0 DEF GetInv, TakesAll, ThreadInv, RequestInv, ip_queue_len, Queued, Exit, ThreadSame, Close
<1> QED
  BY <1>2, <1>3, <1>4, <1>5, <1>6 DEF BatchInv

LEMMA LeavesStep ==
  ASSUME BatchInv, Leaves
  PROVE  BatchInv'
<1>0. TypeOK /\ ThreadInv /\ ArrayInv /\ RequestInv /\ GetInv /\ TakesAll
  BY DEF BatchInv
<1>1. QueueTypeOK'
  BY <1>0, QueueAssumption, FrameAssumption DEF TypeOK, QueueTypeOK, Leaves, Without, ControlSame
<1>2. TypeOK'
  BY <1>0, <1>1, QueueAssumption, FrameAssumption DEF TypeOK, ThreadInv, ArrayInv, RequestInv, Leaves, Without, ControlSame
<1>3. ThreadInv'
  BY <1>0 DEF ThreadInv, RequestInv, Leaves, Without, ControlSame
<1>4. ArrayInv'
  BY <1>0, FrameAssumption DEF TypeOK, ThreadInv, ArrayInv, RequestInv, Leaves, Without, ControlSame
<1>5. RequestInv'
  BY <1>0 DEF TypeOK, QueueTypeOK, ThreadInv, RequestInv, Leaves, Without, ControlSame
<1>6. GetInv' /\ TakesAll'
  BY <1>0 DEF GetInv, TakesAll, ThreadInv, RequestInv, ip_queue_len, Queued, Leaves, Without, ControlSame
<1> QED
  BY <1>2, <1>3, <1>4, <1>5, <1>6 DEF BatchInv

LEMMA AskWithStackStep ==
  ASSUME BatchInv, AskWithStack
  PROVE  BatchInv'
<1>0. TypeOK /\ ThreadInv /\ ArrayInv /\ RequestInv /\ GetInv /\ TakesAll
  BY DEF BatchInv
<1>1. QueueTypeOK'
  BY <1>0, QueueAssumption, FrameAssumption DEF TypeOK, QueueTypeOK, AskWithStack, Asks, ControlSame
<1>2. TypeOK'
  BY <1>0, <1>1, QueueAssumption, FrameAssumption DEF TypeOK, ThreadInv, ArrayInv, RequestInv, AskWithStack, Asks, ControlSame
<1>3. ThreadInv'
  BY <1>0 DEF ThreadInv, RequestInv, AskWithStack, Asks, ControlSame
<1>4. ArrayInv'
  BY <1>0, FrameAssumption DEF TypeOK, ThreadInv, ArrayInv, RequestInv, AskWithStack, Asks, ControlSame
<1>5. RequestInv'
  BY <1>0 DEF TypeOK, QueueTypeOK, ThreadInv, RequestInv, AskWithStack, Asks, ControlSame
<1>6. GetInv' /\ TakesAll'
  BY <1>0 DEF GetInv, TakesAll, ThreadInv, RequestInv, ip_queue_len, Queued, AskWithStack, Asks, ControlSame
<1> QED
  BY <1>2, <1>3, <1>4, <1>5, <1>6 DEF BatchInv

LEMMA AskWithNewStep ==
  ASSUME BatchInv, AskWithNew
  PROVE  BatchInv'
<1>0. TypeOK /\ ThreadInv /\ ArrayInv /\ RequestInv /\ GetInv /\ TakesAll
  BY DEF BatchInv
<1>1. QueueTypeOK'
  BY <1>0, QueueAssumption, FrameAssumption DEF TypeOK, QueueTypeOK, AskWithNew, Asks, ControlSame
<1>2. TypeOK'
  <2>1. Array \in Buffers \ DOMAIN size
    BY <1>0 DEF TypeOK, AskWithNew, Array, FreeBuffer
  <2>2. PICK a \in Buffers : a = Array
    BY <2>1
  <2>3. DOMAIN size' = {a} \cup DOMAIN size
    BY <2>2 DEF AskWithNew
  <2> QED
    BY <1>0, <1>1, <2>2, <2>3 DEF TypeOK, AskWithNew, Asks, ControlSame
<1>3. ThreadInv'
  BY <1>0 DEF ThreadInv, RequestInv, AskWithNew, Asks, ControlSame
<1>4. ArrayInv'
  <2>1. Array \in Buffers \ DOMAIN size
    BY <1>0 DEF TypeOK, AskWithNew, Array, FreeBuffer
  <2>2. PICK a : a = Array /\ a \notin DOMAIN size
    BY <2>1
  <2>3. cur' = a /\ a \notin held' /\ a \in DOMAIN size' /\ size'[a] = nextn
    BY <1>0, <2>2 DEF TypeOK, AskWithNew
  <2>4. lastn' = nextn /\ un' = nextn /\ mode' = "mt" /\ nextn \in Nat
    BY <1>0 DEF TypeOK, AskWithNew, Asks, ControlSame
  <2> QED
    BY <2>3, <2>4 DEF ArrayInv
<1>5. RequestInv'
  BY <1>0 DEF TypeOK, QueueTypeOK, ThreadInv, RequestInv, AskWithNew, Asks, ControlSame
<1>6. GetInv' /\ TakesAll'
  BY <1>0 DEF GetInv, TakesAll, ThreadInv, RequestInv, ip_queue_len, Queued, AskWithNew, Asks, ControlSame
<1> QED
  BY <1>2, <1>3, <1>4, <1>5, <1>6 DEF BatchInv

LEMMA AskAgainStep ==
  ASSUME BatchInv, AskAgain
  PROVE  BatchInv'
<1>0. TypeOK /\ ThreadInv /\ ArrayInv /\ RequestInv /\ GetInv /\ TakesAll
  BY DEF BatchInv
<1>1. QueueTypeOK'
  BY <1>0, QueueAssumption, FrameAssumption DEF TypeOK, QueueTypeOK, AskAgain, Asks, ControlSame
<1>2. TypeOK'
  BY <1>0, <1>1, QueueAssumption, FrameAssumption DEF TypeOK, ThreadInv, ArrayInv, RequestInv, AskAgain, Asks, ControlSame
<1>3. ThreadInv'
  BY <1>0 DEF ThreadInv, RequestInv, AskAgain, Asks, ControlSame
<1>4. ArrayInv'
  BY <1>0, FrameAssumption DEF TypeOK, ThreadInv, ArrayInv, RequestInv, AskAgain, Asks, ControlSame
<1>5. RequestInv'
  BY <1>0 DEF TypeOK, QueueTypeOK, ThreadInv, RequestInv, AskAgain, Asks, ControlSame
<1>6. GetInv' /\ TakesAll'
  BY <1>0 DEF GetInv, TakesAll, ThreadInv, RequestInv, ip_queue_len, Queued, AskAgain, Asks, ControlSame
<1> QED
  BY <1>2, <1>3, <1>4, <1>5, <1>6 DEF BatchInv

LEMMA NoMemoryStep ==
  ASSUME BatchInv, NoMemory
  PROVE  BatchInv'
<1>0. TypeOK /\ ThreadInv /\ ArrayInv /\ RequestInv /\ GetInv /\ TakesAll
  BY DEF BatchInv
<1>1. QueueTypeOK'
  <2>1. \A c \in CPU : Len(fifo[c]) \in Nat /\ lost[c] \in Nat
    BY <1>0, LenProperties DEF TypeOK, QueueTypeOK
  <2>2. lost' \in [CPU -> Nat]
    BY <2>1 DEF NoMemory, Close
  <2>3. fifo' \in [CPU -> Seq(Nat)] /\ \A c \in CPU : Len(fifo'[c]) <= IP_FIFO_SIZE
    BY EmptySeq, QueueAssumption DEF NoMemory, Close
  <2> QED
    BY <1>0, <2>2, <2>3 DEF TypeOK, QueueTypeOK, NoMemory, Close
<1>2. TypeOK'
  <2>1. DOMAIN size' = {} /\ held' = {}
    BY DEF NoMemory
  <2>2. lastn' = 0 /\ nextn' = 0 /\ 0 \in 0 .. 2 * MaxFetch
    BY QueueAssumption DEF NoMemory
  <2>3. DOMAIN size' \subseteq Buffers /\ held' \subseteq DOMAIN size'
    BY <2>1
  <2> QED
    BY <1>0, <1>1, <2>2, <2>3 DEF TypeOK, NoMemory, Close
<1>3. ThreadInv'
  BY <1>0 DEF ThreadInv, RequestInv, NoMemory, Close
<1>4. ArrayInv'
  BY <1>0, FrameAssumption DEF TypeOK, ThreadInv, ArrayInv, RequestInv, NoMemory, Close
<1>5. RequestInv'
  BY <1>0 DEF TypeOK, QueueTypeOK, ThreadInv, RequestInv, NoMemory, Close
<1>6. GetInv' /\ TakesAll'
  BY <1>0 DEF GetInv, TakesAll, ThreadInv, RequestInv, ip_queue_len, Queued, NoMemory, Close
<1> QED
  BY <1>2, <1>3, <1>4, <1>5, <1>6 DEF BatchInv

LEMMA FetchFailedStep ==
  ASSUME BatchInv, FetchFailed
  PROVE  BatchInv'
<1>0. TypeOK /\ ThreadInv /\ ArrayInv /\ RequestInv /\ GetInv /\ TakesAll
  BY DEF BatchInv
<1>1. QueueTypeOK'
  BY <1>0, QueueAssumption, FrameAssumption DEF TypeOK, QueueTypeOK, FetchFailed, Returned, ControlSame
<1>2. TypeOK'
  BY <1>0, <1>1, QueueAssumption, FrameAssumption DEF TypeOK, ThreadInv, ArrayInv, RequestInv, FetchFailed, Returned, ControlSame
<1>3. ThreadInv'
  BY <1>0 DEF ThreadInv, RequestInv, FetchFailed, Returned, ControlSame
<1>4. ArrayInv'
  BY <1>0, FrameAssumption DEF TypeOK, ThreadInv, ArrayInv, RequestInv, FetchFailed, Returned, ControlSame
<1>5. RequestInv'
  BY <1>0 DEF TypeOK, QueueTypeOK, ThreadInv, RequestInv, FetchFailed, Returned, ControlSame
<1>6. GetInv' /\ TakesAll'
  BY <1>0 DEF GetInv, TakesAll, ThreadInv, RequestInv, ip_queue_len, Queued, FetchFailed, Returned, ControlSame
<1> QED
  BY <1>2, <1>3, <1>4, <1>5, <1>6 DEF BatchInv

LEMMA HandleStep ==
  ASSUME BatchInv, Handle
  PROVE  BatchInv'
<1>0. TypeOK /\ ThreadInv /\ ArrayInv /\ RequestInv /\ GetInv /\ TakesAll
  BY DEF BatchInv
<1>1. QueueTypeOK'
  BY <1>0, QueueAssumption, FrameAssumption DEF TypeOK, QueueTypeOK, Handle, Returned, ControlSame
<1>2. TypeOK'
  <2>1. ubuf \in Batch /\ SubSeq(ubuf, 1, un) = ubuf /\ un \in 1 .. MaxFetch /\ MaxFetch \in Nat
    BY <1>0, QueueAssumption, SubSeqFull DEF TypeOK, QueueTypeOK, RequestInv, Handle, Batch
  <2>2. PICK b \in Batch : b = SubSeq(ubuf, 1, un)
    BY <2>1
  <2>3. got' \in [CPU -> Nat]
    <3>1. \A c \in CPU : got[c] + From(c, b) \in Nat
      BY <1>0, PlacesProperties DEF TypeOK
    <3> QED
      BY <2>2, <3>1 DEF Handle
  <2>4. last' \in [CPU -> Int]
    <3>1. \A c \in CPU : Places(c, b) # {} => Latest(c, b) \in Int
      BY LatestProperties
    <3>2. \A c \in CPU : last[c] \in Int
      BY <1>0 DEF TypeOK
    <3> QED
      BY <2>2, <3>1, <3>2 DEF Handle
  <2>5. nextn' \in 0 .. 2 * MaxFetch
    <3>1. /\ nextn \in 0 .. 2 * MaxFetch /\ lastn \in 0 .. 2 * MaxFetch
          /\ First \in 1 .. MaxFetch
      BY <1>0, FrameAssumption DEF TypeOK
    <3>2. lastn \div 2 \in 0 .. 2 * MaxFetch
      BY <2>1, <3>1
    <3>3. un = lastn => lastn * 2 \in 0 .. 2 * MaxFetch
      BY <2>1, <3>1
    <3>4. un \in 0 .. 2 * MaxFetch /\ First \in 0 .. 2 * MaxFetch
      BY <2>1, <3>1
    <3>5. Next_n(un, lastn) \in 0 .. 2 * MaxFetch
      BY <3>2, <3>3, <3>4 DEF Next_n
    <3> QED
      BY <3>1, <3>5 DEF Handle
  <2>6. held' \subseteq DOMAIN size'
    BY <1>0 DEF TypeOK, ArrayInv, ThreadInv, Handle, Returned, ControlSame
  <2> QED
    BY <1>0, <1>1, <2>3, <2>4, <2>5, <2>6 DEF TypeOK, Handle, Returned, ControlSame
<1>3. ThreadInv'
  BY <1>0 DEF ThreadInv, RequestInv, Handle, Returned, ControlSame
<1>4. ArrayInv'
  <2>1. un \in 1 .. MaxFetch /\ MaxFetch \in Nat /\ lastn \in Nat /\ First \in Nat \ {0}
    BY <1>0, QueueAssumption, FrameAssumption DEF TypeOK, QueueTypeOK, RequestInv, Handle
  <2>2. mode = "mt" => nextn' # 0
    <3>1. Next_n(un, lastn) # 0
      BY <2>1 DEF Next_n
    <3> QED
      BY <3>1 DEF Handle
  <2> QED
    BY <2>2 DEF ArrayInv, Handle, Returned, ControlSame
<1>5. RequestInv'
  BY <1>0 DEF TypeOK, QueueTypeOK, ThreadInv, RequestInv, Handle, Returned, ControlSame
<1>6. GetInv' /\ TakesAll'
  BY <1>0 DEF GetInv, TakesAll, ThreadInv, RequestInv, ip_queue_len, Queued, Handle, Returned, ControlSame
<1> QED
  BY <1>2, <1>3, <1>4, <1>5, <1>6 DEF BatchInv

LEMMA DestroyStep ==
  ASSUME BatchInv, NEW b \in Buffers, Destroy(b)
  PROVE  BatchInv'
<1>0. TypeOK /\ ThreadInv /\ ArrayInv /\ RequestInv /\ GetInv /\ TakesAll
  BY DEF BatchInv
<1>1. QueueTypeOK'
  BY <1>0, QueueAssumption, FrameAssumption DEF TypeOK, QueueTypeOK, Destroy, Without, queuevars
<1>2. TypeOK'
  BY <1>0, <1>1, QueueAssumption, FrameAssumption DEF TypeOK, ThreadInv, ArrayInv, RequestInv, Destroy, Without, queuevars
<1>3. ThreadInv'
  BY <1>0 DEF ThreadInv, RequestInv, Destroy, Without, queuevars
<1>4. ArrayInv'
  BY <1>0, FrameAssumption DEF TypeOK, ThreadInv, ArrayInv, RequestInv, Destroy, Without, queuevars
<1>5. RequestInv'
  BY <1>0 DEF TypeOK, QueueTypeOK, ThreadInv, RequestInv, Destroy, Without, queuevars
<1>6. GetInv' /\ TakesAll'
  BY <1>0 DEF GetInv, TakesAll, ThreadInv, RequestInv, ip_queue_len, Queued, Destroy, Without, queuevars
<1> QED
  BY <1>2, <1>3, <1>4, <1>5, <1>6 DEF BatchInv

\* One CPU of ip_queue_get: as many packets as there are and as there is room
\* for, and then the next CPU or the end.
LEMMA GetParts ==
  ASSUME BatchInv, ip_queue_get
  PROVE  \E out \in 0 .. Len(fifo[cpu]) :
           /\ cpu \in CPU /\ fifo[cpu] \in Seq(Nat) /\ arr \in Batch
           /\ kn = un /\ kn \in 1 .. MaxFetch
           /\ arr' = arr \o Front(cpu, fifo[cpu], out) /\ arr' \in Batch
           /\ fifo' = [fifo EXCEPT ![cpu] = Rest(fifo[cpu], out)]
           /\ Len(arr') = Len(arr) + out /\ Len(arr') <= kn /\ infonum' \in 0 .. MaxFetch
           /\ \/ /\ kpc' = "get" /\ cpu' = cpu + 1 /\ cpu' \in CPU /\ kn' = kn
                 /\ infonum' = kn - Len(arr') /\ Len(arr') < kn /\ out = Len(fifo[cpu])
              \/ /\ kpc' = "copy" /\ cpu' = 0 /\ kn' = Len(arr')
                 /\ Len(arr') = kn \/ (cpu = NCpu - 1 /\ out = Len(fifo[cpu]))
<1> DEFINE want == IF cpu = 0 THEN kn ELSE infonum
           all  == Copied([i \in 1 .. (IF Len(fifo[cpu]) < want THEN Len(fifo[cpu]) ELSE want)
                             |-> <<cpu, fifo[cpu][i]>>])
<1>1. /\ cpu \in CPU /\ fifo[cpu] \in Seq(Nat) /\ Len(fifo[cpu]) \in Nat
      /\ arr \in Batch /\ Len(arr) \in Nat
      /\ kn = un /\ kn \in 1 .. MaxFetch /\ MaxFetch \in Nat /\ Len(arr) < kn
  BY LenProperties, QueueAssumption DEF BatchInv, TypeOK, QueueTypeOK, RequestInv, Batch, ip_queue_get
<1>2. want = kn - Len(arr)
  <2>1. CASE cpu = 0
    <3>1. arr = << >> /\ Len(arr) = 0
      BY <2>1, EmptySeq DEF BatchInv, RequestInv, ip_queue_get
    <3> QED
      BY <1>1, <2>1, <3>1
  <2>2. CASE cpu # 0
    BY <2>2 DEF BatchInv, RequestInv, ip_queue_get
  <2> QED
    BY <2>1, <2>2
<1>3. PICK out \in 0 .. Len(fifo[cpu]) :
        /\ out = IF Len(fifo[cpu]) < want THEN Len(fifo[cpu]) ELSE want
        /\ out <= kn - Len(arr) /\ (out = kn - Len(arr) \/ out = Len(fifo[cpu]))
  <2>1. PICK l \in Nat, w \in Nat : l = Len(fifo[cpu]) /\ w = kn - Len(arr) /\ w = want
    <3>1. kn - Len(arr) \in Nat
      BY <1>1
    <3> QED
      BY <1>1, <1>2, <3>1
  <2> HIDE DEF want
  <2>2. PICK o \in Nat : o = IF l < w THEN l ELSE w
    OBVIOUS
  <2>3. o \in 0 .. l /\ o <= w /\ (o = w \/ o = l)
    BY <2>2
  <2> QED
    BY <2>1, <2>2, <2>3
<1>4. all = arr \o Front(cpu, fifo[cpu], out)
  BY <1>3 DEF Copied, Front
<1>5. arr' = all /\ arr' = arr \o Front(cpu, fifo[cpu], out)
  BY <1>4 DEF ip_queue_get
<1>6. arr' \in Batch /\ Len(arr') = Len(arr) + out
  <2>1. Front(cpu, fifo[cpu], out) \in Batch /\ Len(Front(cpu, fifo[cpu], out)) = out
    BY <1>1, FrontProperties
  <2>2. PICK t \in Batch : t = Front(cpu, fifo[cpu], out)
    BY <2>1
  <2>3. PICK b \in Batch : b = arr
    BY <1>1
  <2>4. b \o t \in Batch /\ Len(b \o t) = Len(b) + Len(t)
    BY ConcatProperties DEF Batch
  <2> QED
    BY <1>5, <2>1, <2>2, <2>3, <2>4
<1>7. fifo' = [fifo EXCEPT ![cpu] = Rest(fifo[cpu], out)]
  BY <1>3 DEF ip_queue_get, Rest
<1>8. PICK room : room = kn - Len(arr')
  OBVIOUS
<1>9. /\ infonum' = IF LoopEnds(room) THEN 0 ELSE room
      /\ cpu' = IF LoopEnds(room) THEN 0 ELSE cpu + 1
      /\ kn' = IF LoopEnds(room) THEN Len(arr') ELSE kn
      /\ kpc' = IF LoopEnds(room) THEN "copy" ELSE "get"
  <2>1. room = Room(Len(all))
    BY <1>5, <1>8 DEF Room
  <2> HIDE DEF all
  <2> QED
    BY <1>5, <2>1 DEF ip_queue_get
<1>10. Len(arr') <= kn /\ room \in 0 .. MaxFetch
  <2>1. PICK l \in Nat, n \in Nat : l = Len(arr) /\ n = kn /\ n <= MaxFetch
    BY <1>1
  <2>2. out \in Nat /\ out <= n - l /\ Len(arr') = l + out
    BY <1>1, <1>3, <1>6, <2>1
  <2>3. l + out <= n /\ n - (l + out) \in 0 .. MaxFetch
    BY <1>1, <2>1, <2>2
  <2> QED
    BY <1>8, <2>1, <2>2, <2>3
<1>11. CASE LoopEnds(room)
  <2>1. Len(arr') = kn \/ (cpu = NCpu - 1 /\ out = Len(fifo[cpu]))
    <3>1. CASE room <= 0
      <4>1. PICK l \in Nat, n \in Nat : l = Len(arr') /\ n = kn
        BY <1>1, <1>3, <1>6
      <4> QED
        BY <1>8, <1>10, <3>1, <4>1
    <3>2. CASE cpu = NCpu - 1 /\ ~ room <= 0
      <4>1. out # kn - Len(arr)
        BY <1>1, <1>6, <1>8, <3>2
      <4> QED
        BY <1>3, <3>2, <4>1
    <3> QED
      BY <1>11, <3>1, <3>2 DEF LoopEnds
  <2>2. kpc' = "copy" /\ cpu' = 0 /\ kn' = Len(arr') /\ infonum' \in 0 .. MaxFetch
    BY <1>1, <1>9, <1>11
  <2> QED
    BY <1>1, <1>5, <1>6, <1>7, <1>10, <2>1, <2>2
<1>12. CASE ~ LoopEnds(room)
  <2>1. cpu # NCpu - 1 /\ Len(arr') < kn /\ out = Len(fifo[cpu])
    BY <1>1, <1>3, <1>6, <1>8, <1>10, <1>12 DEF LoopEnds
  <2>2. cpu + 1 \in CPU
    BY <1>1, <2>1, CpuProperties
  <2> QED
    BY <1>1, <1>3, <1>5, <1>6, <1>7, <1>8, <1>9, <1>10, <1>12, <2>1, <2>2
<1> QED
  BY <1>11, <1>12

\* What the other CPUs still have, after one of them.
LEMMA GetRest ==
  ASSUME BatchInv, ip_queue_get
  PROVE  /\ fifo' \in [CPU -> Seq(Nat)] /\ \A c \in CPU : Len(fifo'[c]) <= IP_FIFO_SIZE
         /\ Cardinality(Packets(fifo', cpu + 1)) = Cardinality(Packets(fifo, cpu + 1))
         /\ Cardinality(Packets(fifo, cpu)) = Len(fifo[cpu]) + Cardinality(Packets(fifo, cpu + 1))
         /\ Cardinality(Packets(fifo, cpu + 1)) \in Nat
         /\ cpu = NCpu - 1 => Cardinality(Packets(fifo, cpu + 1)) = 0
<1>1. PICK out \in 0 .. Len(fifo[cpu]) :
        cpu \in CPU /\ fifo[cpu] \in Seq(Nat) /\ fifo' = [fifo EXCEPT ![cpu] = Rest(fifo[cpu], out)]
  BY GetParts
<1>2. fifo \in [CPU -> Seq(Nat)] /\ (\A c \in CPU : Len(fifo[c]) <= IP_FIFO_SIZE) /\ IP_FIFO_SIZE \in Nat
  BY QueueAssumption DEF BatchInv, TypeOK, QueueTypeOK
<1>3. PICK r : r = Rest(fifo[cpu], out)
  OBVIOUS
<1>4. r \in Seq(Nat) /\ Len(r) <= IP_FIFO_SIZE
  <2>1. r \in Seq(Nat) /\ Len(r) = Len(fifo[cpu]) - out
    BY <1>1, <1>3, RestProperties
  <2>2. Len(fifo[cpu]) \in Nat /\ Len(fifo[cpu]) <= IP_FIFO_SIZE
    BY <1>1, <1>2, LenProperties
  <2> QED
    BY <1>2, <2>1, <2>2
<1>5. PICK g : g = fifo' /\ g = [fifo EXCEPT ![cpu] = r]
  BY <1>1, <1>3
<1>6. g \in [CPU -> Seq(Nat)] /\ \A c \in CPU : g[c] = IF c = cpu THEN r ELSE fifo[c]
  BY <1>2, <1>4, <1>5
<1>7. \A c \in CPU : Len(g[c]) <= IP_FIFO_SIZE
  BY <1>2, <1>4, <1>6
<1>8. PICK m \in 0 .. NCpu : m = cpu + 1
  BY <1>1, CpuProperties
<1>9. Cardinality(Packets(g, m)) = Cardinality(Packets(fifo, m))
  <2>1. \A c \in CPU : m <= c => g[c] = fifo[c] /\ Len(fifo[c]) \in Nat
    <3>1. \A c \in CPU : m <= c => c # cpu
      BY <1>1, <1>8, CpuProperties
    <3> QED
      BY <1>2, <1>6, <3>1, LenProperties
  <2>2. \A c \in CPU : m <= c => Len(g[c]) <= Len(fifo[c]) /\ Len(fifo[c]) <= Len(g[c])
    BY <2>1
  <2>3. /\ Cardinality(Packets(fifo, m)) <= Cardinality(Packets(g, m))
        /\ Cardinality(Packets(fifo, m)) \in Nat
    BY <1>2, <1>6, <1>7, <2>2, PacketsGrow
  <2>4. /\ Cardinality(Packets(g, m)) <= Cardinality(Packets(fifo, m))
        /\ Cardinality(Packets(g, m)) \in Nat
    BY <1>2, <1>6, <1>7, <2>2, PacketsGrow
  <2> QED
    BY <2>3, <2>4
<1>10. Cardinality(Packets(fifo, cpu)) = Len(fifo[cpu]) + Cardinality(Packets(fifo, m))
  BY <1>1, <1>2, <1>8, PacketsSplit
<1>11. /\ Cardinality(Packets(fifo, m)) \in Nat
       /\ m = NCpu => Cardinality(Packets(fifo, m)) = 0
  BY <1>2, PacketsFinite
<1>12. cpu = NCpu - 1 => m = NCpu
  BY <1>8, CpuProperties
<1> QED
  BY <1>5, <1>6, <1>7, <1>8, <1>9, <1>10, <1>11, <1>12

LEMMA GetStep ==
  ASSUME BatchInv, ip_queue_get, UNCHANGED framevars
  PROVE  BatchInv'
<1>0. TypeOK /\ ThreadInv /\ ArrayInv /\ RequestInv /\ GetInv /\ TakesAll
  BY DEF BatchInv
<1>1. PICK out \in 0 .. Len(fifo[cpu]) :
           /\ cpu \in CPU /\ fifo[cpu] \in Seq(Nat) /\ arr \in Batch
           /\ kn = un /\ kn \in 1 .. MaxFetch
           /\ arr' \in Batch
           /\ Len(arr') = Len(arr) + out /\ Len(arr') <= kn /\ infonum' \in 0 .. MaxFetch
           /\ \/ /\ kpc' = "get" /\ cpu' = cpu + 1 /\ cpu' \in CPU /\ kn' = kn
                 /\ infonum' = kn - Len(arr') /\ Len(arr') < kn /\ out = Len(fifo[cpu])
              \/ /\ kpc' = "copy" /\ cpu' = 0 /\ kn' = Len(arr')
                 /\ Len(arr') = kn \/ (cpu = NCpu - 1 /\ out = Len(fifo[cpu]))
  BY GetParts
<1> DEFINE here == Cardinality(Packets(fifo, cpu))
           rest == Cardinality(Packets(fifo, cpu + 1))
<1>2. here = Len(fifo[cpu]) + rest /\ rest \in Nat /\ (cpu = NCpu - 1 => rest = 0)
  BY GetRest
<1>3. Len(arr) \in Nat /\ Len(arr') \in Nat /\ Len(fifo[cpu]) \in Nat /\ out \in Nat /\ here \in Nat
  <2>1. Len(arr) \in Nat /\ Len(arr') \in Nat
    BY <1>1, LenProperties DEF Batch
  <2>2. Len(fifo[cpu]) \in Nat
    BY <1>1, LenProperties
  <2>3. out \in Nat /\ here \in Nat
    BY <1>2, <2>2
  <2> QED
    BY <2>1, <2>2, <2>3
<1>4. /\ kpc = "get" /\ UNCHANGED <<un, ubuf, active, next, lost, faults>>
      /\ there' = IF cpu = 0 THEN ip_queue_len ELSE there
  BY DEF ip_queue_get
\* As much as there was then is in the array or still in a kfifo.
<1>5. there' \in Nat /\ there' > 0 /\ Len(arr) + here >= there'
  <2>1. CASE cpu = 0
    <3>1. arr = << >> /\ Len(arr) = 0
      BY <1>0, <1>4, <2>1, EmptySeq DEF RequestInv
    <3>2. ip_queue_len = here
      BY <2>1 DEF ip_queue_len, Queued, Packets
    <3>3. ip_queue_len > 0
      BY <1>0, <1>4, <2>1 DEF GetInv
    <3> QED
      BY <1>3, <1>4, <2>1, <3>1, <3>2, <3>3
  <2>2. CASE cpu # 0
    <3>1. Cardinality(Queued(cpu)) = here
      BY DEF Queued, Packets
    <3> QED
      BY <1>0, <1>4, <2>2, <3>1 DEF GetInv, TypeOK, QueueTypeOK
  <2> QED
    BY <2>1, <2>2
<1> HIDE DEF here, rest
<1>6. MaxFetch \in Nat /\ 0 \in CPU /\ NCpu \in Nat \ {0}
  BY QueueAssumption, CpuProperties
<1>7. QueueTypeOK'
  <2>1. fifo' \in [CPU -> Seq(Nat)] /\ \A c \in CPU : Len(fifo'[c]) <= IP_FIFO_SIZE
    BY GetRest
  <2>2. kn' \in Nat /\ cpu' \in CPU /\ kpc' \in {"get", "copy"}
    BY <1>1, <1>3, <1>6
  <2> QED
    BY <1>0, <1>1, <1>4, <1>5, <2>1, <2>2 DEF TypeOK, QueueTypeOK, Batch
<1>8. TypeOK'
  BY <1>0, <1>7 DEF TypeOK, framevars
<1>9. ThreadInv'
  BY <1>0, <1>1, <1>4 DEF ThreadInv, framevars
<1>10. ArrayInv'
  BY <1>0, <1>4 DEF ArrayInv, framevars
<1>11. CASE kpc' = "get"
  <2>1. /\ cpu' = cpu + 1 /\ cpu' # 0 /\ kn' = kn /\ infonum' = kn - Len(arr')
        /\ Len(arr') < kn /\ out = Len(fifo[cpu])
    BY <1>1, <1>11, CpuProperties
  <2>2. RequestInv'
    BY <1>0, <1>1, <1>4, <1>11, <2>1 DEF RequestInv
  <2>3. Cardinality(Queued(cpu))' = rest
    BY <2>1, GetRest DEF Queued, Packets, rest
  <2>4. Len(arr') + rest >= there'
    BY <1>1, <1>2, <1>3, <1>5, <2>1
  <2>5. GetInv' /\ TakesAll'
    BY <1>5, <1>11, <2>1, <2>3, <2>4 DEF GetInv, TakesAll
  <2> QED
    BY <1>8, <1>9, <1>10, <2>2, <2>5 DEF BatchInv
<1>12. CASE kpc' = "copy"
  <2>1. cpu' = 0 /\ kn' = Len(arr') /\ (Len(arr') = kn \/ (cpu = NCpu - 1 /\ out = Len(fifo[cpu])))
    BY <1>1, <1>12
  <2>2. kn' = un \/ kn' >= there'
    BY <1>1, <1>2, <1>3, <1>5, <2>1
  <2>3. kn' \in 1 .. un /\ un <= MaxFetch
    BY <1>1, <1>3, <1>5, <1>6, <2>1, <2>2
  <2>4. RequestInv'
    BY <1>0, <1>1, <1>4, <1>12, <2>1, <2>3 DEF RequestInv
  <2>5. GetInv' /\ TakesAll'
    BY <1>4, <1>12, <2>2 DEF GetInv, TakesAll
  <2> QED
    BY <1>8, <1>9, <1>10, <2>4, <2>5 DEF BatchInv
<1> QED
  BY <1>1, <1>11, <1>12

LEMMA BatchInvInit ==
  Init => BatchInv
<1> SUFFICES ASSUME Init PROVE BatchInv
  OBVIOUS
<1>1. /\ << >> \in Seq(Nat) /\ << >> \in Seq(CPU \X Nat) /\ Len(<< >>) = 0 /\ DOMAIN << >> = {}
      /\ 0 \in CPU /\ 0 \in 0 .. MaxPkts /\ 0 \in 0 .. MaxFaults /\ 0 \in 0 .. MaxFetch
      /\ 0 \in 0 .. 2 * MaxFetch /\ 0 <= IP_FIFO_SIZE
  BY EmptySeq, QueueAssumption, CpuProperties
<1>2. QueueTypeOK
  BY <1>1 DEF Init, QueueInit, QueueTypeOK
<1>3. TypeOK
  BY <1>1, <1>2 DEF Init, TypeOK
<1>4. ThreadInv /\ ArrayInv /\ RequestInv /\ GetInv /\ TakesAll
  BY DEF Init, QueueInit, ThreadInv, ArrayInv, RequestInv, GetInv, TakesAll
<1> QED
  BY <1>3, <1>4 DEF BatchInv

LEMMA BatchInvStep ==
  ASSUME BatchInv, [Next]_vars
  PROVE  BatchInv'
<1>1. CASE Next
  <2>1. ASSUME Caller  PROVE BatchInv'
    BY <2>1, ConfigStep, CreateStep, StartFailsStep, JoinStep, ExitStep DEF Caller
  <2>2. ASSUME Kernel  PROVE BatchInv'
    BY <2>2, BeginStep, WaitStep, NoAccessStep, GetStep, CopyStep DEF Kernel, fetch_info
  <2>3. ASSUME Fetcher  PROVE BatchInv'
    BY <2>2, <2>3, LeavesStep, AskWithStackStep, AskWithNewStep, AskAgainStep, NoMemoryStep,
       FetchFailedStep, HandleStep DEF Fetcher
  <2> QED
    BY <1>1, <2>1, <2>3, RegisterStep, StartStep, StopStep, DestroyStep, PutStep DEF Next
<1>2. CASE UNCHANGED vars
  <2>1. UNCHANGED queuevars /\ UNCHANGED framevars
    BY <1>2 DEF vars
  <2>2. QueueTypeOK'
    BY <2>1 DEF BatchInv, TypeOK, QueueTypeOK, queuevars
  <2>3. TypeOK'
    BY <2>1, <2>2 DEF BatchInv, TypeOK, framevars
  <2>4. ThreadInv' /\ ArrayInv' /\ RequestInv'
    BY <2>1 DEF BatchInv, ThreadInv, ArrayInv, RequestInv, queuevars, framevars
  <2>5. GetInv' /\ TakesAll'
    BY <2>1 DEF BatchInv, GetInv, TakesAll, ip_queue_len, Queued, queuevars
  <2> QED
    BY <2>3, <2>4, <2>5 DEF BatchInv
<1> QED
  BY <1>1, <1>2

LEMMA BatchInvHolds == Spec => []BatchInv
<1>1. BatchInv /\ [Next]_vars => BatchInv'
  BY BatchInvStep
<1> QED
  BY BatchInvInit, <1>1, PTL DEF Spec

\* Every variable has the values its C type and its use allow: the requests are
\* never below nothing or beyond twice what the kernel takes.
THEOREM TypeCorrect == Spec => []TypeOK
<1>1. BatchInv => TypeOK
  BY DEF BatchInv
<1> QED
  BY <1>1, BatchInvHolds, PTL

\* The kernel never writes behind an array or into one that was given away,
\* whatever fails and however the thread adapts its requests.
THEOREM ArrayIsLargeEnough == Spec => []BatchFits
<1>1. ASSUME BatchInv  PROVE BatchFits
  <2>0. TypeOK /\ ThreadInv /\ ArrayInv /\ RequestInv
    BY <1>1 DEF BatchInv
  <2>1. ASSUME kpc \in {"wait", "get", "copy"}
        PROVE  un <= (IF cur = Stack THEN Block ELSE size[cur]) /\ cur \notin held
    <3>1. fpc = "fetch" /\ (mode = "mt" \/ mode = "ut")
      BY <2>0, <2>1 DEF ThreadInv, TypeOK
    <3>2. CASE mode = "ut"
      BY <2>0, <3>1, <3>2, FrameAssumption DEF ArrayInv, TypeOK
    <3>3. CASE mode = "mt"
      BY <2>0, <3>1, <3>3, FrameAssumption DEF ArrayInv, TypeOK
    <3> QED
      BY <3>1, <3>2, <3>3
  <2>2. Len(arr) <= un
    <3>1. un \in Nat /\ kn \in Nat /\ MaxFetch \in Nat /\ Len(arr) \in Nat
      BY <2>0, QueueAssumption, LenProperties DEF TypeOK, QueueTypeOK
    <3>2. CASE kpc \in {"get", "copy"}
      BY <2>0, <3>1, <3>2 DEF RequestInv
    <3>3. CASE kpc \notin {"get", "copy"}
      BY <2>0, <3>1, <3>3, EmptySeq DEF RequestInv
    <3> QED
      BY <3>2, <3>3
  <2>3. kpc = "ok" => un = Len(ubuf) /\ un > 0
    BY <2>0 DEF RequestInv, TypeOK, QueueTypeOK
  <2> QED
    BY <2>1, <2>2, <2>3 DEF BatchFits
<1> QED
  BY <1>1, BatchInvHolds, PTL

\* A batch takes all that was in the kfifos of all the CPUs when it began, or
\* as many as it asked for, whatever is put meanwhile.
THEOREM AllIsTaken == Spec => []TakesAll
<1>1. BatchInv => TakesAll
  BY DEF BatchInv
<1> QED
  BY <1>1, BatchInvHolds, PTL

-----------------------------------------------------------------------------
(***************************************************************************)
(* The order of the packets.                                               *)
(***************************************************************************)
\* What InOrderOnce and LastInv say of a CPU.
Once(c, way, queue, handled, dropped, latest, came) ==
  /\ InOrder(c, way, queue, latest, came)
  /\ handled + dropped + From(c, way) + Len(queue) = came
  /\ latest < came

OnceHere(c) == Once(c, ubuf \o arr, fifo[c], got[c], lost[c], last[c], next[c])

LEMMA OnceEverywhere ==
  InOrderOnce /\ LastInv <=> \A c \in CPU : OnceHere(c)
BY DEF InOrderOnce, LastInv, OnceHere, Once

LEMMA OnceEverywhereNext ==
  InOrderOnce' /\ LastInv' <=> \A c \in CPU : OnceHere(c)'
BY DEF InOrderOnce, LastInv, OnceHere, Once

\* The array of the kernel and the user's are not in use at the same time.
LEMMA WayProperties ==
  ASSUME BatchInv
  PROVE  /\ ubuf \o arr \in Batch /\ ubuf \in Batch /\ arr \in Batch
         /\ kpc = "ok" => ubuf \o arr = ubuf /\ arr = << >>
         /\ kpc # "ok" => ubuf \o arr = arr /\ ubuf = << >>
         /\ \A c \in CPU : /\ From(c, ubuf \o arr) \in Nat
                           /\ fifo[c] \in Seq(Nat) /\ Len(fifo[c]) \in Nat
                           /\ got[c] \in Nat /\ lost[c] \in Nat /\ next[c] \in Nat /\ last[c] \in Int
<1>1. ubuf \in Batch /\ arr \in Batch
  BY DEF BatchInv, TypeOK, QueueTypeOK, Batch
<1>2. ubuf \o arr \in Batch
  BY <1>1, ConcatProperties DEF Batch
<1>3. kpc = "ok" => arr = << >>
  BY DEF BatchInv, RequestInv
<1>4. kpc # "ok" => ubuf = << >>
  BY DEF BatchInv, RequestInv
<1>5. ubuf \o << >> = ubuf /\ << >> \o arr = arr
  BY <1>1, ConcatEmptySeq DEF Batch
<1>6. \A c \in CPU : From(c, ubuf \o arr) \in Nat
  BY <1>2, PlacesProperties
<1>7. \A c \in CPU : fifo[c] \in Seq(Nat) /\ Len(fifo[c]) \in Nat
  BY LenProperties DEF BatchInv, TypeOK, QueueTypeOK
<1>8. \A c \in CPU : got[c] \in Nat /\ lost[c] \in Nat /\ next[c] \in Nat /\ last[c] \in Int
  BY DEF BatchInv, TypeOK, QueueTypeOK
<1> QED
  BY <1>1, <1>2, <1>3, <1>4, <1>5, <1>6, <1>7, <1>8

\* A step that moves no packet.
LEMMA OnceStays ==
  ASSUME OrderInv, UNCHANGED <<ubuf, arr, fifo, got, lost, last, next>>
  PROVE  InOrderOnce' /\ LastInv'
BY DEF OrderInv, InOrderOnce, LastInv

\* A packet that comes by is behind those of its CPU, or lost.
LEMMA OncePut ==
  ASSUME OrderInv, NEW c \in CPU, ip_queue_put(c), UNCHANGED framevars
  PROVE  InOrderOnce' /\ LastInv'
<1>1. BatchInv /\ \A d \in CPU : OnceHere(d)
  BY OnceEverywhere DEF OrderInv
<1>2. PICK w \in Batch : w = ubuf \o arr /\ w = (ubuf \o arr)'
  <2>1. ubuf \o arr \in Batch
    BY <1>1, WayProperties
  <2> QED
    BY <2>1 DEF ip_queue_put
<1>3. UNCHANGED <<got, last>>
  BY DEF framevars
<1>4. fifo \in [CPU -> Seq(Nat)] /\ next \in [CPU -> Nat] /\ lost \in [CPU -> Nat]
  <2>1. QueueTypeOK
    BY <1>1 DEF BatchInv, TypeOK
  <2>2. fifo \in [CPU -> Seq(Nat)] /\ lost \in [CPU -> Nat]
    BY <2>1 DEF QueueTypeOK
  <2>3. next \in [CPU -> Nat]
    BY <2>1 DEF QueueTypeOK
  <2> QED
    BY <2>2, <2>3
<1>5. ASSUME NEW d \in CPU, d # c  PROVE OnceHere(d)'
  <2>1. fifo'[d] = fifo[d] /\ lost'[d] = lost[d] /\ next'[d] = next[d]
    BY <1>4, <1>5 DEF ip_queue_put
  <2> QED
    BY <1>1, <1>2, <1>3, <2>1 DEF OnceHere
<1>6. OnceHere(c)'
  <2>1. PICK q \in Seq(Nat), l \in Int, n \in Nat, g \in Nat, x \in Nat :
          q = fifo[c] /\ l = last[c] /\ n = next[c] /\ g = got[c] /\ x = lost[c]
    BY <1>1, WayProperties
  <2>2. /\ InOrder(c, w, q, l, n) /\ g + x + From(c, w) + Len(q) = n /\ l < n
        /\ From(c, w) \in Nat /\ Len(q) \in Nat
    BY <1>1, <1>2, <2>1, WayProperties DEF OnceHere, Once
  <2>3. next'[c] = n + 1 /\ last'[c] = l /\ got'[c] = g
    BY <1>3, <1>4, <2>1 DEF ip_queue_put
  <2>4. InOrder(c, w, Append(q, n), l, n + 1) /\ InOrder(c, w, q, l, n + 1)
    BY <2>2, PutKeepsOrder
  <2>7. /\ g + x + From(c, w) + (Len(q) + 1) = n + 1 /\ l < n + 1
        /\ g + (x + 1) + From(c, w) + Len(q) = n + 1
    <3>1. PICK f \in Nat, m \in Nat : f = From(c, w) /\ m = Len(q) /\ g + x + f + m = n
      BY <2>2
    <3>2. g + x + f + (m + 1) = n + 1 /\ g + (x + 1) + f + m = n + 1 /\ l < n + 1
      BY <2>2, <3>1
    <3> QED
      BY <3>1, <3>2
  <2>5. CASE HasRoom(c)
    <3>1. fifo'[c] = Append(q, n) /\ lost'[c] = x
      BY <1>4, <2>1, <2>5 DEF ip_queue_put
    <3>2. Len(Append(q, n)) = Len(q) + 1
      BY AppendProperties
    <3>3. g + x + From(c, w) + (Len(q) + 1) = n + 1 /\ l < n + 1
      BY <2>7
    <3>4. Once(c, w, Append(q, n), g, x, l, n + 1)
      BY <2>4, <3>2, <3>3 DEF Once
    <3> QED
      BY <1>2, <2>3, <3>1, <3>4 DEF OnceHere
  <2>6. CASE ~ HasRoom(c)
    <3>1. fifo'[c] = q /\ lost'[c] = x + 1
      BY <1>4, <2>1, <2>6 DEF ip_queue_put
    <3>2. g + (x + 1) + From(c, w) + Len(q) = n + 1 /\ l < n + 1
      BY <2>7
    <3>3. Once(c, w, q, g, x + 1, l, n + 1)
      BY <2>4, <3>2 DEF Once
    <3> QED
      BY <1>2, <2>3, <3>1, <3>3 DEF OnceHere
  <2> QED
    BY <2>5, <2>6
<1> QED
  BY <1>5, <1>6, OnceEverywhereNext

\* What is taken from a kfifo is behind what the array has of its CPU.
LEMMA OnceGet ==
  ASSUME OrderInv, ip_queue_get, UNCHANGED framevars
  PROVE  InOrderOnce' /\ LastInv'
<1>1. BatchInv /\ \A d \in CPU : OnceHere(d)
  BY OnceEverywhere DEF OrderInv
<1>2. PICK out \in 0 .. Len(fifo[cpu]) :
           /\ cpu \in CPU /\ fifo[cpu] \in Seq(Nat) /\ arr \in Batch
           /\ arr' = arr \o Front(cpu, fifo[cpu], out) /\ arr' \in Batch
           /\ fifo' = [fifo EXCEPT ![cpu] = Rest(fifo[cpu], out)]
  BY <1>1, GetParts
<1>3. PICK c \in CPU, q \in Seq(Nat) : c = cpu /\ q = fifo[cpu]
  BY <1>2
<1>k. PICK k \in 0 .. Len(q) : k = out
  BY <1>2, <1>3
<1>4. PICK w \in Batch : w = arr
  BY <1>2
<1>5. PICK v \in Batch : v = w \o Front(c, q, k) /\ v = arr'
  BY <1>2, <1>3, <1>k, <1>4
<1>6. kpc = "get" /\ ubuf' = ubuf /\ UNCHANGED <<got, lost, last, next>>
  BY DEF ip_queue_get, framevars
<1>7. ubuf \o arr = w /\ (ubuf \o arr)' = v
  <2>1. ubuf = << >>
    BY <1>1, <1>6, WayProperties
  <2>2. << >> \o w = w /\ << >> \o v = v
    BY ConcatEmptySeq DEF Batch
  <2> QED
    BY <1>4, <1>5, <1>6, <2>1, <2>2
<1>8. fifo \in [CPU -> Seq(Nat)] /\ fifo' = [fifo EXCEPT ![c] = Rest(q, k)]
  BY <1>1, <1>2, <1>3, <1>k DEF BatchInv, TypeOK, QueueTypeOK
<1>9. ASSUME NEW d \in CPU, d # c  PROVE OnceHere(d)'
  <2>1. fifo'[d] = fifo[d]
    BY <1>8, <1>9
  <2>2. Once(d, w, fifo[d], got[d], lost[d], last[d], next[d])
    BY <1>1, <1>7 DEF OnceHere
  <2>3. InOrder(d, v, fifo[d], last[d], next[d])
    BY <1>5, <1>9, <2>2, TakeKeepsOthers DEF Once
  <2>4. From(d, v) = From(d, w)
    <3>1. \A e \in CPU \ {c} : From(e, w \o Front(c, q, k)) = From(e, w)
      BY TakeCounts
    <3> QED
      BY <1>5, <1>9, <3>1
  <2>5. Once(d, v, fifo[d], got[d], lost[d], last[d], next[d])
    BY <2>2, <2>3, <2>4 DEF Once
  <2> QED
    BY <1>6, <1>7, <2>1, <2>5 DEF OnceHere
<1>10. OnceHere(c)'
  <2>1. PICK l \in Int, n \in Nat, g \in Nat, x \in Nat :
          l = last[c] /\ n = next[c] /\ g = got[c] /\ x = lost[c]
    BY <1>1, WayProperties
  <2>2. /\ InOrder(c, w, q, l, n) /\ g + x + From(c, w) + Len(q) = n /\ l < n
        /\ From(c, w) \in Nat /\ Len(q) \in Nat
    BY <1>1, <1>3, <1>7, <2>1, WayProperties DEF OnceHere, Once
  <2>3. InOrder(c, v, Rest(q, k), l, n)
    BY <1>5, <2>2, TakeKeepsOrder
  <2>4. From(c, v) = From(c, w) + k /\ Len(Rest(q, k)) = Len(q) - k
    <3>1. From(c, w \o Front(c, q, k)) = From(c, w) + k
      BY TakeCounts
    <3> QED
      BY <1>5, <3>1, RestProperties
  <2>5. g + x + From(c, v) + Len(Rest(q, k)) = n
    BY <2>2, <2>4
  <2>6. Once(c, v, Rest(q, k), g, x, l, n)
    BY <2>2, <2>3, <2>5 DEF Once
  <2>7. fifo'[c] = Rest(q, k)
    BY <1>8
  <2> QED
    BY <1>6, <1>7, <2>1, <2>6, <2>7 DEF OnceHere
<1> QED
  BY <1>9, <1>10, OnceEverywhereNext

\* The array becomes the user's, or what is in it is lost.
LEMMA OnceCopies ==
  ASSUME OrderInv, Copies, UNCHANGED framevars
  PROVE  InOrderOnce' /\ LastInv'
<1>1. BatchInv /\ \A d \in CPU : OnceHere(d)
  BY OnceEverywhere DEF OrderInv
<1>2. kpc = "copy" /\ arr' = << >> /\ UNCHANGED <<fifo, next, got, last>>
  BY DEF Copies, framevars
<1>3. PICK w \in Batch : w = arr /\ ubuf = << >> /\ w = ubuf \o arr
  BY <1>1, <1>2, WayProperties
<1>4. w \o << >> = w /\ << >> \o << >> = << >>
  BY EmptyBatch, ConcatEmptySeq DEF Batch
<1>5. CASE ubuf' = arr /\ UNCHANGED lost
  <2>1. (ubuf \o arr)' = w
    BY <1>2, <1>3, <1>4, <1>5
  <2> QED
    BY <1>1, <1>2, <1>3, <1>5, <2>1, OnceEverywhereNext DEF OnceHere
<1>6. CASE Lose(arr) /\ UNCHANGED ubuf
  <2>1. (ubuf \o arr)' = << >>
    BY <1>2, <1>3, <1>4, <1>6
  <2>2. ASSUME NEW c \in CPU  PROVE OnceHere(c)'
    <3>1. PICK q \in Seq(Nat), l \in Int, n \in Nat, g \in Nat, x \in Nat :
            q = fifo[c] /\ l = last[c] /\ n = next[c] /\ g = got[c] /\ x = lost[c]
      BY <1>1, WayProperties
    <3>2. /\ InOrder(c, w, q, l, n) /\ g + x + From(c, w) + Len(q) = n /\ l < n
          /\ From(c, w) \in Nat /\ Len(q) \in Nat
      BY <1>1, <1>3, <3>1, WayProperties DEF OnceHere, Once
    <3>3. lost'[c] = x + From(c, w)
      BY <1>3, <1>6, <3>1 DEF Lose
    <3>4. InOrder(c, << >>, q, l, n)
      BY <3>2, LessIsInOrder
    <3>5. From(c, << >>) = 0
      BY EmptyBatch
    <3>6. g + (x + From(c, w)) + 0 + Len(q) = n
      BY <3>2
    <3>7. Once(c, << >>, q, g, x + From(c, w), l, n)
      BY <3>2, <3>4, <3>5, <3>6 DEF Once
    <3> QED
      BY <1>2, <2>1, <3>1, <3>3, <3>7 DEF OnceHere
  <2> QED
    BY <2>2, OnceEverywhereNext
<1> QED
  BY <1>5, <1>6 DEF Copies

\* What is in the kfifos when the device is closed is lost.
LEMMA OnceClose ==
  ASSUME OrderInv, Close, UNCHANGED <<got, last>>
  PROVE  InOrderOnce' /\ LastInv'
<1>1. BatchInv /\ \A d \in CPU : OnceHere(d)
  BY OnceEverywhere DEF OrderInv
<1>2. PICK w \in Batch : w = ubuf \o arr /\ w = (ubuf \o arr)'
  BY <1>1, WayProperties DEF Close
<1>3. ASSUME NEW c \in CPU  PROVE OnceHere(c)'
  <2>1. PICK q \in Seq(Nat), l \in Int, n \in Nat, g \in Nat, x \in Nat :
          q = fifo[c] /\ l = last[c] /\ n = next[c] /\ g = got[c] /\ x = lost[c]
    BY <1>1, WayProperties
  <2>2. /\ InOrder(c, w, q, l, n) /\ g + x + From(c, w) + Len(q) = n /\ l < n
        /\ From(c, w) \in Nat /\ Len(q) \in Nat
    BY <1>1, <1>2, <2>1, WayProperties DEF OnceHere, Once
  <2>3. fifo'[c] = << >> /\ lost'[c] = x + Len(q) /\ next'[c] = n /\ got'[c] = g /\ last'[c] = l
    BY <2>1 DEF Close
  <2>4. InOrder(c, w, << >>, l, n)
    BY <2>2, LessIsInOrder
  <2>5. Len(<< >>) = 0 /\ g + (x + Len(q)) + From(c, w) + 0 = n
    BY <2>2, EmptySeq
  <2>6. Once(c, w, << >>, g, x + Len(q), l, n)
    BY <2>2, <2>4, <2>5 DEF Once
  <2> QED
    BY <1>2, <2>3, <2>6 DEF OnceHere
<1> QED
  BY <1>3, OnceEverywhereNext

\* What the kfifos have is behind what is handled.
LEMMA OnceHandle ==
  ASSUME OrderInv, Handle
  PROVE  InOrderOnce' /\ LastInv'
<1>1. BatchInv /\ \A d \in CPU : OnceHere(d)
  BY OnceEverywhere DEF OrderInv
<1>2. kpc = "ok" /\ ubuf' = << >> /\ UNCHANGED <<arr, fifo, next, lost>>
  BY DEF Handle, Returned
<1>3. PICK w \in Batch : w = ubuf /\ w = ubuf \o arr /\ arr = << >>
  BY <1>1, <1>2, WayProperties
<1>4. (ubuf \o arr)' = << >>
  <2>1. << >> \o << >> = << >>
    BY EmptyBatch, ConcatEmptySeq DEF Batch
  <2> QED
    BY <1>2, <1>3, <2>1
<1>5. SubSeq(ubuf, 1, un) = w
  <2>1. un = Len(w)
    BY <1>1, <1>2, <1>3 DEF BatchInv, RequestInv
  <2> QED
    BY <1>3, <2>1, SubSeqFull DEF Batch
<1>6. ASSUME NEW c \in CPU  PROVE OnceHere(c)'
  <2>1. PICK q \in Seq(Nat), l \in Int, n \in Nat, g \in Nat, x \in Nat :
          q = fifo[c] /\ l = last[c] /\ n = next[c] /\ g = got[c] /\ x = lost[c]
    BY <1>1, WayProperties
  <2>2. /\ InOrder(c, w, q, l, n) /\ g + x + From(c, w) + Len(q) = n /\ l < n
        /\ From(c, w) \in Nat /\ Len(q) \in Nat
    BY <1>1, <1>3, <2>1, WayProperties DEF OnceHere, Once
  <2>3. /\ got'[c] = g + From(c, w)
        /\ last'[c] = IF Places(c, w) = {} THEN l ELSE Latest(c, w)
    BY <1>5, <2>1 DEF Handle
  <2>4. From(c, << >>) = 0
    BY EmptyBatch
  <2>5. (g + From(c, w)) + x + 0 + Len(q) = n
    BY <2>2
  <2>6. InOrder(c, << >>, q, last'[c], n) /\ last'[c] < n
    <3>1. CASE Places(c, w) = {}
      BY <2>2, <2>3, <3>1, LessIsInOrder
    <3>2. CASE Places(c, w) # {}
      BY <2>2, <2>3, <3>2, HandleKeepsOrder
    <3> QED
      BY <3>1, <3>2
  <2>7. Once(c, << >>, q, g + From(c, w), x, last'[c], n)
    BY <2>4, <2>5, <2>6 DEF Once
  <2> QED
    BY <1>2, <1>4, <2>1, <2>3, <2>7 DEF OnceHere
<1> QED
  BY <1>6, OnceEverywhereNext

LEMMA OrderInvInit ==
  Init => OrderInv
<1> SUFFICES ASSUME Init PROVE OrderInv
  OBVIOUS
<1>1. BatchInv
  BY BatchInvInit
<1>2. kpc # "ok" /\ arr = << >>
  BY DEF Init, QueueInit
<1>3. ubuf \o arr = << >>
  BY <1>1, <1>2, WayProperties
<1>4. ASSUME NEW c \in CPU  PROVE OnceHere(c)
  <2>1. /\ fifo[c] = << >> /\ got[c] = 0 /\ lost[c] = 0 /\ last[c] = -1 /\ next[c] = 0
    BY <1>4 DEF Init, QueueInit
  <2>2. Places(c, << >>) = {} /\ From(c, << >>) = 0 /\ Len(<< >>) = 0 /\ DOMAIN << >> = {}
    BY EmptyBatch, EmptySeq
  <2>3. Once(c, << >>, << >>, 0, 0, -1, 0)
    BY <2>2 DEF Once, InOrder
  <2> QED
    BY <1>3, <2>1, <2>3 DEF OnceHere
<1> QED
  BY <1>1, <1>4, OnceEverywhere DEF OrderInv

LEMMA OrderInvStep ==
  ASSUME OrderInv, [Next]_vars
  PROVE  OrderInv'
<1>1. BatchInv'
  BY BatchInvStep DEF OrderInv
<1> DEFINE Same == UNCHANGED <<ubuf, arr, fifo, got, lost, last, next>>
<1>2. ASSUME Caller  PROVE InOrderOnce' /\ LastInv'
  <2>1. Config \/ Create \/ Join => Same
    BY DEF Config, Create, Join, ThreadSame, queuevars
  <2>2. StartFails \/ Exit => Close /\ UNCHANGED <<got, last>>
    BY DEF StartFails, Exit, ThreadSame
  <2> QED
    BY <1>2, <2>1, <2>2, OnceStays, OnceClose DEF Caller
<1>3. ASSUME Kernel  PROVE InOrderOnce' /\ LastInv'
  <2>1. UNCHANGED framevars /\ UNCHANGED <<got, last>>
    BY <1>3 DEF Kernel, framevars
  <2>2. FetchBegins \/ WaitReady \/ WaitTimeout \/ WaitSignal \/ NoAccess => Same
    BY <2>1 DEF FetchBegins, WaitReady, WaitTimeout, WaitSignal, NoAccess, GoesOn, GivesUp, Steps
  <2> QED
    BY <1>3, <2>1, <2>2, OnceStays, OnceGet, OnceCopies DEF Kernel, fetch_info
<1>4. ASSUME Fetcher  PROVE InOrderOnce' /\ LastInv'
  <2>1. Leaves \/ AskWithStack \/ AskWithNew \/ AskAgain \/ FetchFailed => Same
    BY DEF Leaves, AskWithStack, AskWithNew, AskAgain, Asks, FetchFailed, Returned
  <2>2. NoMemory => Close /\ UNCHANGED <<got, last>>
    BY DEF NoMemory
  <2> QED
    BY <1>3, <1>4, <2>1, <2>2, OnceStays, OnceClose, OnceHandle DEF Fetcher
<1>5. ASSUME Next  PROVE InOrderOnce' /\ LastInv'
  <2>1. Start \/ Stop => Same
    BY DEF Start, Stop, ThreadSame, queuevars
  <2>2. \A m \in {"mt", "ut"} : Register(m) => Same
    BY DEF Register, ThreadSame, queuevars
  <2>3. \A b \in Buffers : Destroy(b) => Same
    BY DEF Destroy, queuevars
  <2> QED
    BY <1>2, <1>4, <1>5, <2>1, <2>2, <2>3, OnceStays, OncePut DEF Next
<1>6. UNCHANGED vars => Same
  BY DEF vars, queuevars, framevars
<1> QED
  BY <1>1, <1>5, <1>6, OnceStays DEF OrderInv

\* The packets of a CPU reach the handler in the order they came by, none twice,
\* and each that came by is handled, on its way or counted as lost: over the
\* kfifos, the array of the kernel, the user's memory and any number of errors
\* and restarts.
THEOREM PacketsArriveInOrder == Spec => []InOrderOnce
<1>1. OrderInv => InOrderOnce
  BY DEF OrderInv
<1>2. OrderInv /\ [Next]_vars => OrderInv'
  BY OrderInvStep
<1> QED
  BY <1>1, <1>2, OrderInvInit, PTL DEF Spec
=============================================================================
