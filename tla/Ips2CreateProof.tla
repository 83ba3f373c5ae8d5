--------------------------- MODULE Ips2CreateProof ---------------------------
(***************************************************************************)
(* Proofs about Ips2Create, for every number of CPUs, every table of sizes *)
(* and every width of the unsigned shorts up to 16 bits.                   *)
(***************************************************************************)
EXTENDS Ips2Create, TLAPS, SequenceTheorems, WellFoundedInduction

\* A non-empty set of natural numbers has a least element.
LEMMA LeastElement ==
  ASSUME NEW T, T \subseteq Nat, T # {}
  PROVE  \E x \in T : \A y \in T : x <= y
<1> DEFINE R == {ss \in Nat \X Nat : ss[1] < ss[2]}
<1>1. IsWellFoundedOn(R, Nat)
  BY NatLessThanWellFounded DEF OpToRel
<1>2. PICK x \in T : \A y \in T : <<y, x>> \notin R
  BY <1>1, WFMin
<1>3. ASSUME NEW y \in T  PROVE x <= y
  <2>1. x \in Nat /\ y \in Nat
    OBVIOUS
  <2>2. y < x => <<y, x>> \in R
    BY <2>1
  <2> QED
    BY <1>2, <2>1, <2>2
<1> QED
  BY <1>3

\* getsize returns one of the configured sizes, whichever CPU asks.
LEMMA getsizeType ==
  ASSUME NEW s \in Tables, NEW d \in Sizes, NEW c \in Int
  PROVE  getsize(c, s, d) \in Sizes
<1>1. CASE Entries(c, s) = {}
  BY <1>1 DEF getsize
<1>2. CASE Entries(c, s) # {}
  <2>1. s \in Seq([cpuidx : Int, size : Sizes])
    BY TableAssumption
  <2>2. Entries(c, s) \subseteq 1 .. Len(s) /\ Len(s) \in Nat
    BY <2>1, LenProperties DEF Entries
  <2>3. \E i \in Entries(c, s) : \A j \in Entries(c, s) : i <= j
    BY <1>2, <2>2, LeastElement
  <2> DEFINE first == CHOOSE i \in Entries(c, s) : \A j \in Entries(c, s) : i <= j
  <2>4. first \in 1 .. Len(s)
    BY <2>2, <2>3
  <2> HIDE DEF first
  <2>5. s[first] \in [cpuidx : Int, size : Sizes]
    BY <2>1, <2>4, ElementOfSeq
  <2> QED
    BY <1>2, <2>5 DEF getsize, first
<1> QED
  BY <1>1, <1>2

LEMMA Pow2Type == Pow2 \subseteq Nat
BY DEF Pow2

\* The kfifo of a size is never smaller than the size.
LEMMA RoundUpBound ==
  ASSUME NEW n \in 0 .. Word - 1
  PROVE  roundup_pow_of_two(n) \in Nat /\ n <= roundup_pow_of_two(n)
<1>1. Word \in Nat /\ Pow2From(n) \subseteq Nat
  BY WordAssumption, Pow2Type DEF Pow2From
<1>2. Pow2From(n) # {}
  <2>1. PICK k \in Pow2 : Word <= k
    BY WordAssumption
  <2>2. k >= n
    BY <1>1, <2>1, Pow2Type
  <2> QED
    BY <2>1, <2>2 DEF Pow2From
<1>3. \E x \in Pow2From(n) : \A y \in Pow2From(n) : x <= y
  BY <1>1, <1>2, LeastElement
<1>4. Min(Pow2From(n)) \in Pow2From(n)
  BY <1>3 DEF Min
<1>5. \A k \in Pow2From(n) : n <= k
  BY <1>1 DEF Pow2From
<1> QED
  BY <1>1, <1>4, <1>5 DEF roundup_pow_of_two

\* What the 16-bit sum is, and what the test pre < size finds out about it.
LEMMA WrapTest ==
  ASSUME NEW a \in 0 .. Word - 1, NEW b \in 0 .. Word - 1
  PROVE  /\ Plus(a, b) \in 0 .. Word - 1
         /\ a + b < Word => Plus(a, b) = a + b /\ b <= Plus(a, b)
         /\ a + b >= Word => Plus(a, b) < b
BY WordAssumption DEF Plus

\* The three facts that make a partition.
LEMMA PartitionIntro ==
  ASSUME NEW C, NEW b, NEW e, NEW t,
         \A c \in C : Range2Slots(b[c], e[c]) \subseteq 0 .. t - 1,
         \A s \in 0 .. t - 1 : \E c \in C : s \in Range2Slots(b[c], e[c]),
         \A c, d \in C : c # d => Range2Slots(b[c], e[c]) \cap Range2Slots(b[d], e[d]) = {}
  PROVE  Partition(C, b, e, t)
BY Zenon DEF Partition

\* One more range behind the others keeps the partition.
LEMMA PartitionGrows ==
  ASSUME NEW n \in CPU, NEW b \in [CPU -> Nat], NEW e \in [CPU -> Nat],
         NEW t \in Nat, NEW k \in Nat,
         Partition(0 .. n - 1, b, e, t)
  PROVE  Partition(0 .. n, [b EXCEPT ![n] = t], [e EXCEPT ![n] = t + k], t + k)
<1> DEFINE b2 == [b EXCEPT ![n] = t]
           e2 == [e EXCEPT ![n] = t + k]
<1>1. /\ b2[n] = t /\ e2[n] = t + k
      /\ \A c \in 0 .. n - 1 : b2[c] = b[c] /\ e2[c] = e[c]
  BY CpuAssumption DEF CPU
<1>2. /\ b2 \in [CPU -> Nat] /\ e2 \in [CPU -> Nat]
      /\ 0 .. n \subseteq CPU
      /\ \A c \in 0 .. n : c \in 0 .. n - 1 \/ c = n
      /\ 0 .. n - 1 \subseteq 0 .. n /\ n \in 0 .. n
  BY CpuAssumption DEF CPU
<1> HIDE DEF b2, e2
<1>3. ASSUME NEW c \in 0 .. n
      PROVE  Range2Slots(b2[c], e2[c]) \subseteq 0 .. (t + k) - 1
  <2>1. CASE c \in 0 .. n - 1
    <3>1. Range2Slots(b[c], e[c]) \subseteq 0 .. t - 1
      BY <2>1 DEF Partition
    <3>2. 0 .. t - 1 \subseteq 0 .. (t + k) - 1
      OBVIOUS
    <3> QED
      BY <1>1, <2>1, <3>1, <3>2
  <2>2. CASE c = n
    BY <1>1, <2>2 DEF Range2Slots
  <2> QED
    BY <1>2, <2>1, <2>2
<1>4. ASSUME NEW s \in 0 .. (t + k) - 1
      PROVE  \E c \in 0 .. n : s \in Range2Slots(b2[c], e2[c])
  <2>1. CASE s < t
    <3>1. s \in 0 .. t - 1
      BY <2>1
    <3>2. PICK c \in 0 .. n - 1 : s \in Range2Slots(b[c], e[c])
      BY <3>1 DEF Partition
    <3> QED
      BY <1>1, <1>2, <3>2
  <2>2. CASE s >= t
    <3>1. s \in Range2Slots(b2[n], e2[n])
      BY <1>1, <2>2 DEF Range2Slots
    <3> QED
      BY <1>2, <3>1
  <2> QED
    BY <2>1, <2>2
<1>5. ASSUME NEW c \in 0 .. n, NEW d \in 0 .. n, c # d
      PROVE  Range2Slots(b2[c], e2[c]) \cap Range2Slots(b2[d], e2[d]) = {}
  <2>1. CASE c \in 0 .. n - 1 /\ d \in 0 .. n - 1
    BY <1>1, <1>5, <2>1 DEF Partition
  <2>2. ASSUME NEW x \in 0 .. n - 1
        PROVE  Range2Slots(b2[x], e2[x]) \cap Range2Slots(b2[n], e2[n]) = {}
    <3>1. Range2Slots(b2[x], e2[x]) \subseteq 0 .. t - 1
      BY <1>1 DEF Partition
    <3>2. Range2Slots(b2[n], e2[n]) \cap 0 .. t - 1 = {}
      BY <1>1 DEF Range2Slots
    <3> QED
      BY <3>1, <3>2
  <2> QED
    BY <1>2, <1>5, <2>1, <2>2
<1>6. Partition(0 .. n, b2, e2, t + k)
  <2>1. \A c \in 0 .. n : Range2Slots(b2[c], e2[c]) \subseteq 0 .. (t + k) - 1
    BY <1>3
  <2>2. \A s \in 0 .. (t + k) - 1 : \E c \in 0 .. n : s \in Range2Slots(b2[c], e2[c])
    BY <1>4
  <2>3. \A c, d \in 0 .. n : c # d =>
           Range2Slots(b2[c], e2[c]) \cap Range2Slots(b2[d], e2[d]) = {}
    BY <1>5
  <2> QED
    BY <2>1, <2>2, <2>3, PartitionIntro
<1> QED
  BY <1>6 DEF b2, e2

\* No range at all cuts the empty interval.
LEMMA PartitionEmpty ==
  ASSUME NEW b, NEW e
  PROVE  Partition(0 .. 0 - 1, b, e, 0)
BY DEF Partition

-----------------------------------------------------------------------------
LEMMA InitIInv == Init => IInv
<1> SUFFICES ASSUME Init PROVE IInv
  OBVIOUS
<1> USE DEF Init, Released, NoList
<1>1. TypeOK
  BY CpuAssumption, WordAssumption DEF TypeOK, CPU, NoError
<1>2. Progress /\ BuffersOwned /\ NothingLeft
  BY DEF Progress, BuffersOwned, NothingLeft
<1> QED
  BY <1>1, <1>2 DEF IInv

\* What a turn knows of the sizes when it begins.
LEMMA TurnFacts ==
  ASSUME TypeOK, pc = "loop", Progress
  PROVE  /\ cpu \in CPU /\ cpu + 1 \in 0 .. NCpu
         /\ size \in 0 .. Word - 1
         /\ NextPre \in 0 .. Word - 1
         /\ ~ Wrapped => NextPre = pre + size
<1>1. cpu \in CPU /\ cpu + 1 \in 0 .. NCpu
  BY CpuAssumption DEF TypeOK, Progress, CPU
<1>2. size \in 0 .. Word - 1
  <2>1. cpu \in Int /\ table \in Tables /\ dflt \in Sizes
    BY CpuAssumption DEF TypeOK
  <2>2. size \in Sizes
    BY <2>1, getsizeType DEF size
  <2> QED
    BY <2>2, SizeAssumption
<1>3. pre \in 0 .. Word - 1
  BY DEF TypeOK
<1>4. /\ NextPre \in 0 .. Word - 1
      /\ pre + size < Word => NextPre = pre + size /\ size <= NextPre
      /\ pre + size >= Word => NextPre < size
  BY <1>2, <1>3, WrapTest DEF NextPre
<1>5. ~ Wrapped => NextPre = pre + size
  BY <1>2, <1>3, <1>4, WordAssumption DEF Wrapped
<1> QED
  BY <1>1, <1>2, <1>4, <1>5

\* The turn that completes a CPU.
LEMMA TurnFillsIInv ==
  ASSUME IInv, TurnFills
  PROVE  IInv'
<1> USE CpuAssumption
<1>0. Word \in Nat \ {0}
  BY WordAssumption
<1>1. pc = "loop" /\ ~ Wrapped /\ ~ KfifoRefuses(size)
  BY DEF TurnFills, Filled, TurnFits, TurnBegins
<1>2. /\ cpu \in CPU /\ cpu + 1 \in 0 .. NCpu
      /\ size \in 0 .. Word - 1
      /\ NextPre \in 0 .. Word - 1
      /\ NextPre = pre + size
  BY <1>1, TurnFacts DEF IInv
<1>3. /\ TypeOK /\ BuffersOwned
      /\ qptr /\ ret = NoError /\ Built(0 .. cpu - 1)
  BY <1>1 DEF IInv, Progress
<1>4. PICK n \in CPU, k \in 0 .. Word - 1, t \in 0 .. Word - 1 :
         n = cpu /\ k = size /\ t = pre
  BY <1>2, <1>3 DEF TypeOK
<1>5. /\ n \in Nat /\ n + 1 \in 0 .. NCpu /\ (n + 1) - 1 = n /\ n \notin 0 .. n - 1
      /\ 0 .. n = (0 .. n - 1) \cup {n} /\ 0 .. n \subseteq CPU
      /\ k \in Nat /\ t \in Nat /\ t + k \in 0 .. Word - 1
  BY <1>2, <1>4 DEF CPU
<1>6. k <= roundup_pow_of_two(k) /\ roundup_pow_of_two(k) \in Nat
  BY RoundUpBound
<1>7. /\ ret' = NoError /\ qptr' = qptr /\ table' = table /\ dflt' = dflt
      /\ mlive' = mlive /\ elem' = elem
      /\ cpu' = n + 1 /\ pre' = t + k
      /\ data' = data \cup {n} /\ rbuf' = rbuf \cup {n} /\ ibuf' = ibuf \cup {n}
      /\ start' = [start EXCEPT ![n] = t]
      /\ end' = [end EXCEPT ![n] = t + k]
      /\ pc' = IF n + 1 < NCpu THEN "loop" ELSE "area"
      /\ idle' = [idle EXCEPT ![n] = [i \in 1 .. k |-> t + i - 1]]
  <2> DEFINE fill == IF k < roundup_pow_of_two(k) THEN k ELSE roundup_pow_of_two(k)
  <2>1. fill = k /\ ~ (fill < k)
    BY <1>5, <1>6
  <2> HIDE DEF fill
  <2>2. /\ idle' = [idle EXCEPT ![n] = [i \in 1 .. fill |-> t + i - 1]]
        /\ ret' = IF fill < k THEN ENOMEM ELSE ret
        /\ pc' = IF n + 1 < NCpu THEN "loop" ELSE IF ret' = NoError THEN "area" ELSE "undo"
        /\ cpu' = n + 1 /\ rbuf' = rbuf \cup {n} /\ ibuf' = ibuf \cup {n}
    BY <1>4 DEF TurnFills, Filled, fill
  <2>3. /\ data' = data \cup {n} /\ start' = [start EXCEPT ![n] = t]
        /\ end' = [end EXCEPT ![n] = t + k] /\ pre' = t + k
        /\ UNCHANGED <<table, dflt, qptr, mlive, elem>>
    BY <1>2, <1>4 DEF TurnFills, Filled, TurnFits, TurnBegins, locals, area
  <2> QED
    BY <1>3, <2>1, <2>2, <2>3
<1>8. TypeOK'
  <2>1. [i \in 1 .. k |-> t + i - 1] \in Seq(0 .. Word - 1)
    <3>1. \A i \in 1 .. k : t + i - 1 \in 0 .. Word - 1
      BY <1>0, <1>5
    <3>2. [i \in 1 .. k |-> t + i - 1] \in [1 .. k -> 0 .. Word - 1]
      BY <3>1
    <3> QED
      BY <1>5, <3>2, SeqDef
  <2>2. idle' \in [CPU -> Seq(0 .. Word - 1)]
    BY <1>3, <1>7, <2>1 DEF TypeOK
  <2>3. ~ mlive
    BY <1>1 DEF IInv, Progress
  <2>4. start' \in [CPU -> 0 .. Word - 1] /\ end' \in [CPU -> 0 .. Word - 1]
    BY <1>3, <1>5, <1>7 DEF TypeOK
  <2> QED
    BY <1>3, <1>5, <1>7, <2>2, <2>3, <2>4 DEF TypeOK
<1>9. Built(0 .. n)'
  <2>1. Partition(0 .. n, start', end', pre')
    <3>1. start \in [CPU -> Nat] /\ end \in [CPU -> Nat]
      <4>1. 0 .. Word - 1 \subseteq Nat
        OBVIOUS
      <4> QED
        BY <1>3, <4>1 DEF TypeOK
    <3>2. Partition(0 .. n - 1, start, end, t)
      BY <1>3, <1>4 DEF Built
    <3>3. Partition(0 .. n, [start EXCEPT ![n] = t], [end EXCEPT ![n] = t + k], t + k)
      BY <1>5, <3>1, <3>2, PartitionGrows
    <3> QED
      BY <1>7, <3>3
  <2>2. ASSUME NEW c \in 0 .. n - 1 PROVE idle'[c] = Listing(c)'
    <3>1. c \in CPU /\ c # n
      BY <1>5
    <3>2. idle'[c] = idle[c] /\ start'[c] = start[c] /\ end'[c] = end[c]
      BY <1>3, <1>7, <3>1 DEF TypeOK
    <3>3. idle[c] = Listing(c)
      BY <1>3, <1>4 DEF Built
    <3> QED
      BY <3>2, <3>3 DEF Listing
  <2>3. idle'[n] = Listing(n)'
    <3>1. start'[n] = t /\ end'[n] = t + k /\ idle'[n] = [i \in 1 .. k |-> t + i - 1]
      BY <1>3, <1>7 DEF TypeOK
    <3>2. (t + k) - t = k
      BY <1>5
    <3> QED
      BY <3>1, <3>2 DEF Listing
  <2>4. data' = 0 .. n /\ rbuf' = 0 .. n /\ ibuf' = 0 .. n
    BY <1>3, <1>4, <1>5, <1>7 DEF Built
  <2>5. \A c \in 0 .. n : idle'[c] = Listing(c)'
    BY <1>5, <2>2, <2>3
  <2> QED
    BY <2>1, <2>4, <2>5 DEF Built
<1>10. Progress'
  <2>1. CASE n + 1 < NCpu
    <3>1. Built(0 .. cpu - 1)'
      BY <1>5, <1>7, <1>9
    <3>2. pc' = "loop" /\ ~ mlive'
      BY <1>1, <1>7, <2>1 DEF IInv, Progress
    <3> QED
      BY <1>3, <1>7, <2>1, <3>1, <3>2 DEF Progress
  <2>2. CASE ~ (n + 1 < NCpu)
    <3>1. CPU = 0 .. n
      BY <1>5, <2>2 DEF CPU
    <3>2. Built(CPU)'
      BY <1>9, <3>1
    <3>3. pc' = "area" /\ ~ mlive'
      BY <1>1, <1>7, <2>2 DEF IInv, Progress
    <3> QED
      BY <1>3, <1>7, <2>2, <3>2, <3>3 DEF Progress
  <2> QED
    BY <2>1, <2>2
<1>11. BuffersOwned' /\ NothingLeft'
  BY <1>3, <1>7 DEF BuffersOwned, NothingLeft
<1> QED
  BY <1>8, <1>10, <1>11 DEF IInv
-----------------------------------------------------------------------------
\* The other steps keep the inductive invariant.
LEMMA NextIInv == IInv /\ [Next]_vars => IInv'
<1> SUFFICES ASSUME IInv, [Next]_vars PROVE IInv'
  OBVIOUS
<1> USE DEF IInv
<1>0. Word \in Nat \ {0} /\ 0 \in 0 .. Word - 1 /\ NCpu \in Nat \ {0}
  BY WordAssumption, CpuAssumption
<1>1. ASSUME NEW s \in Tables, NEW d \in Sizes, Create(s, d) PROVE IInv'
  <2>2. Released /\ ~ mlive'
    BY <1>1 DEF Create, NothingLeft, Released, area
  <2>1. TypeOK'
    <3>1. 0 \in 0 .. NCpu
      BY <1>0
    <3> QED
      BY <1>0, <1>1, <2>2, <3>1 DEF Create, TypeOK, bufs, area
  <2>3. Built(0 .. cpu - 1)'
    <3>1. cpu' = 0 /\ pre' = 0 /\ data' = {} /\ rbuf' = {} /\ ibuf' = {}
      BY <1>1, <2>2 DEF Create, Released, bufs
    <3>2. Partition(0 .. 0 - 1, start', end', 0)
      BY PartitionEmpty
    <3>3. 0 .. 0 - 1 = {}
      OBVIOUS
    <3> QED
      BY <3>1, <3>2, <3>3 DEF Built
  <2>4. Progress'
    BY <1>0, <1>1, <2>2, <2>3 DEF Create, Progress
  <2>5. BuffersOwned' /\ NothingLeft'
    BY <1>1, <2>2 DEF Create, BuffersOwned, NothingLeft, Released, bufs
  <2> QED
    BY <2>1, <2>4, <2>5
<1>2. CASE CreateNoPercpu
  BY <1>2 DEF CreateNoPercpu, TypeOK, Progress, Built, Listing, BuffersOwned, NothingLeft,
              Released, locals, bufs, area
<1>3. ASSUME pc = "loop", pc' = "undo", ret' \in {ENOMEM, EINVAL},
             UNCHANGED <<table, dflt, cpu, qptr, ibuf, idle, mlive, elem>>,
             data' = data \/ data' = data \cup {cpu},
             rbuf' = rbuf \/ (rbuf' = rbuf \cup {cpu} /\ data' = data \cup {cpu}),
             pre' \in 0 .. Word - 1,
             start' \in [CPU -> 0 .. Word - 1], end' \in [CPU -> 0 .. Word - 1]
      PROVE  IInv'
  <2>1. ~ mlive /\ cpu \in CPU
    BY <1>3, TurnFacts DEF Progress
  <2>2. TypeOK'
    BY <1>3, <2>1 DEF TypeOK
  <2>3. Progress' /\ NothingLeft'
    BY <1>3, <2>1 DEF Progress, NothingLeft
  <2>4. BuffersOwned'
    BY <1>3 DEF BuffersOwned
  <2> QED
    BY <2>2, <2>3, <2>4
<1>4. CASE TurnNoData
  BY <1>3, <1>4 DEF TurnNoData, Break, TypeOK, locals, bufs, area
<1>5. ASSUME TurnBegins
      PROVE  /\ pc = "loop" /\ cpu \in CPU /\ pre \in 0 .. Word - 1
             /\ NextPre \in 0 .. Word - 1
             /\ start' \in [CPU -> 0 .. Word - 1]
             /\ UNCHANGED <<table, dflt, qptr, mlive, elem>>
             /\ data' = data \cup {cpu} /\ pre' = NextPre
  <2>1. pc = "loop" /\ cpu \in CPU /\ NextPre \in 0 .. Word - 1
    BY <1>5, TurnFacts DEF TurnBegins
  <2> QED
    BY <1>5, <2>1 DEF TurnBegins, TypeOK, locals, area
<1>6. CASE TurnWraps
  <2>1. end' = end /\ end \in [CPU -> 0 .. Word - 1]
    BY <1>6 DEF TurnWraps, TypeOK
  <2> QED
    BY <1>3, <1>5, <1>6, <2>1 DEF TurnWraps, Break, bufs
<1>7. ASSUME TurnFits PROVE end' \in [CPU -> 0 .. Word - 1]
  BY <1>5, <1>7 DEF TurnFits, TypeOK
<1>8. CASE TurnNoReady
  BY <1>3, <1>5, <1>7, <1>8 DEF TurnNoReady, TurnFits, Break, bufs
<1>9. CASE TurnNoIdle
  BY <1>3, <1>5, <1>7, <1>9 DEF TurnNoIdle, TurnFits, Break
<1>10. CASE TurnFills
  BY <1>10, TurnFillsIInv
<1>11. CASE AreaFails
  BY <1>11 DEF AreaFails, Break, TypeOK, Progress, BuffersOwned, NothingLeft, locals, bufs, area
<1>12. CASE Area
  <2>1. Built(CPU)'
    BY <1>12 DEF Area, Progress, Built, Listing, bufs
  <2>2. TypeOK'
    BY <1>12 DEF Area, TypeOK, locals, bufs, MemState
  <2> QED
    BY <1>12, <2>1, <2>2 DEF Area, Progress, BuffersOwned, NothingLeft, bufs
<1>13. ASSUME ip_queue_exit, pc' = "released", cpu' = 0, pre' = 0, UNCHANGED <<ret, locals>>
       PROVE  IInv'
  <2>1. Released'
    BY <1>13 DEF ip_queue_exit, Freed, Released, BuffersOwned
  <2>2. << >> \in Seq(0 .. Word - 1)
    BY EmptySeq
  <2>3. /\ idle' \in [CPU -> Seq(0 .. Word - 1)]
        /\ start' \in [CPU -> 0 .. Word - 1] /\ end' \in [CPU -> 0 .. Word - 1]
    BY <1>0, <1>13, <2>2 DEF ip_queue_exit, TypeOK, NoList
  <2>4. cpu' \in 0 .. NCpu /\ pre' \in 0 .. Word - 1
    BY <1>0, <1>13
  <2>5. TypeOK'
    BY <1>13, <2>1, <2>3, <2>4 DEF TypeOK, Released, locals
  <2> QED
    BY <1>13, <2>1, <2>5 DEF Progress, BuffersOwned, NothingLeft, Released
<1>14. CASE Undo
  BY <1>13, <1>14 DEF Undo
<1>15. CASE Exit
  BY <1>13, <1>15 DEF Exit
<1>16. CASE UNCHANGED vars
  BY <1>16 DEF vars, locals, bufs, area, TypeOK, Progress, Built, Listing, BuffersOwned,
               NothingLeft, Released
<1> QED
  BY <1>1, <1>2, <1>4, <1>6, <1>8, <1>9, <1>10, <1>11, <1>12, <1>14, <1>15, <1>16 DEF Next

\* The inductive invariant holds in every reachable state.
THEOREM Invariance == Spec => []IInv
<1>1. Init => IInv
  BY InitIInv
<1>2. IInv /\ [Next]_vars => IInv'
  BY NextIInv
<1> QED
  BY <1>1, <1>2, PTL DEF Spec

\* Every variable of ip_queue_create keeps its type, whatever the sizes are:
\* the 16-bit arithmetic on the ranges never leaves unsigned short.
THEOREM TypeCorrect == Spec => []TypeOK
<1>1. IInv => TypeOK
  BY DEF IInv
<1> QED
  BY <1>1, Invariance, PTL

\* The ranges ip_queue_create computes cut the slots into disjoint parts.
THEOREM RangesArePartition == Spec => []RangesPartition
<1>1. IInv => RangesPartition
  BY DEF IInv, Progress, Built, RangesPartition
<1> QED
  BY <1>1, Invariance, PTL

\* A created queue is in the initial state of Ips2Queue.
THEOREM QueueIsHandedOver == Spec => []HandsOver
<1>1. IInv => HandsOver
  <2> SUFFICES ASSUME IInv, pc = "created"
               PROVE  /\ qptr /\ mlive /\ data = CPU /\ rbuf = CPU /\ ibuf = CPU
                      /\ idle = [c \in CPU |-> [i \in 1 .. end[c] - start[c] |-> start[c] + i - 1]]
                      /\ elem = [s \in 0 .. pre - 1 |-> MEM_FREE]
    BY DEF HandsOver
  <2>1. /\ qptr /\ mlive /\ Built(CPU) /\ idle \in [CPU -> Seq(0 .. Word - 1)]
        /\ elem = [s \in 0 .. pre - 1 |-> MEM_FREE]
    BY DEF IInv, Progress, TypeOK
  <2>2. idle = [c \in CPU |-> [i \in 1 .. end[c] - start[c] |-> start[c] + i - 1]]
    BY <2>1 DEF Built, Listing
  <2> QED
    BY <2>1, <2>2 DEF Built
<1> QED
  BY <1>1, Invariance, PTL

\* Whichever allocation failed, and after ip_queue_exit, nothing is left.
THEOREM NothingIsLeft == Spec => []NothingLeft
<1>1. IInv => NothingLeft
  BY DEF IInv
<1> QED
  BY <1>1, Invariance, PTL
=============================================================================
