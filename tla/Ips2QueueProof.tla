--------------------------- MODULE Ips2QueueProof ---------------------------
(***************************************************************************)
(* Proofs about Ips2Queue, for every number of CPUs and producers, every   *)
(* layout of the slots that ip_queue_create can leave behind and every     *)
(* batch size.                                                             *)
(***************************************************************************)
EXTENDS Ips2Queue, TLAPS, SequenceTheorems, FiniteSetTheorems, FunctionTheorems

-----------------------------------------------------------------------------
(***************************************************************************)
(* The kfifo operations.                                                   *)
(***************************************************************************)

\* kfifo_get takes the first index and leaves the others.
LEMMA GetProperties ==
  ASSUME NEW S, NEW q \in Seq(S), q # << >>
  PROVE  /\ Head(q) \in S /\ Head(q) \in Range(q)
         /\ Tail(q) \in Seq(S)
         /\ Range(q) = Range(Tail(q)) \cup {Head(q)}
         /\ IsInjective(q) => Head(q) \notin Range(Tail(q)) /\ IsInjective(Tail(q))
<1>1. /\ Head(q) \in S /\ Tail(q) \in Seq(S) /\ Len(Tail(q)) = Len(q) - 1
      /\ \A i \in 1 .. Len(Tail(q)) : Tail(q)[i] = q[i + 1]
  BY HeadTailProperties
<1>2. Len(q) \in Nat /\ Len(q) # 0 /\ DOMAIN q = 1 .. Len(q) /\ Head(q) = q[1]
  BY EmptySeq, LenProperties
<1>3. DOMAIN Tail(q) = 1 .. Len(q) - 1
  BY <1>1, LenProperties
<1>4. Range(q) = Range(Tail(q)) \cup {Head(q)}
  <2>1. ASSUME NEW i \in DOMAIN q PROVE q[i] \in Range(Tail(q)) \cup {Head(q)}
    <3>1. CASE i = 1
      BY <1>2, <3>1
    <3>2. CASE i # 1
      <4>1. i - 1 \in DOMAIN Tail(q) /\ Tail(q)[i - 1] = q[i]
        BY <1>1, <1>2, <1>3, <3>2
      <4> QED
        BY <4>1 DEF Range
    <3> QED
      BY <3>1, <3>2
  <2>2. ASSUME NEW i \in DOMAIN Tail(q) PROVE Tail(q)[i] \in Range(q)
    <3>1. i + 1 \in DOMAIN q /\ Tail(q)[i] = q[i + 1]
      BY <1>1, <1>2, <1>3
    <3> QED
      BY <3>1 DEF Range
  <2>3. Head(q) \in Range(q)
    BY <1>2 DEF Range
  <2> QED
    BY <2>1, <2>2, <2>3 DEF Range
<1>5. ASSUME IsInjective(q) PROVE Head(q) \notin Range(Tail(q)) /\ IsInjective(Tail(q))
  <2>1. ASSUME NEW i \in DOMAIN Tail(q) PROVE Tail(q)[i] # Head(q)
    <3>1. i + 1 \in DOMAIN q /\ 1 \in DOMAIN q /\ i + 1 # 1 /\ Tail(q)[i] = q[i + 1]
      BY <1>1, <1>2, <1>3
    <3> QED
      BY <1>2, <1>5, <3>1 DEF IsInjective
  <2>2. ASSUME NEW i \in DOMAIN Tail(q), NEW j \in DOMAIN Tail(q), Tail(q)[i] = Tail(q)[j]
        PROVE  i = j
    <3>1. /\ i + 1 \in DOMAIN q /\ Tail(q)[i] = q[i + 1]
          /\ j + 1 \in DOMAIN q /\ Tail(q)[j] = q[j + 1]
          /\ i \in Int /\ j \in Int
      BY <1>1, <1>2, <1>3
    <3>2. i + 1 = j + 1
      BY <1>5, <2>2, <3>1 DEF IsInjective
    <3> QED
      BY <3>1, <3>2
  <2> QED
    BY <2>1, <2>2 DEF Range, IsInjective
<1> QED
  BY <1>1, <1>4, <1>5

\* kfifo_put, when there is room, adds the index and nothing else.
LEMMA PutProperties ==
  ASSUME NEW S, NEW q \in Seq(S), NEW x \in S, NEW n
  PROVE  /\ kfifo_put(q, n, x) \in Seq(S)
         /\ Range(kfifo_put(q, n, x)) \subseteq Range(q) \cup {x}
         /\ Len(q) < n =>
              /\ Range(kfifo_put(q, n, x)) = Range(q) \cup {x}
              /\ Len(kfifo_put(q, n, x)) = Len(q) + 1
              /\ IsInjective(q) /\ x \notin Range(q) => IsInjective(kfifo_put(q, n, x))
<1> DEFINE r == Append(q, x)
<1>1. /\ r \in Seq(S) /\ Len(r) = Len(q) + 1
      /\ \A i \in 1 .. Len(q) : r[i] = q[i]
      /\ r[Len(q) + 1] = x
  BY AppendProperties
<1>2. Len(q) \in Nat /\ DOMAIN q = 1 .. Len(q) /\ DOMAIN r = 1 .. Len(q) + 1
  BY <1>1, LenProperties
<1> HIDE DEF r
<1>3. \A i \in DOMAIN r : (i \in DOMAIN q /\ r[i] = q[i]) \/ (i = Len(q) + 1 /\ r[i] = x)
  BY <1>1, <1>2
<1>4. Range(r) = Range(q) \cup {x}
  <2>1. Len(q) + 1 \in DOMAIN r /\ DOMAIN q \subseteq DOMAIN r
    BY <1>2
  <2> QED
    BY <1>1, <1>2, <1>3, <2>1 DEF Range
<1>5. ASSUME IsInjective(q), x \notin Range(q) PROVE IsInjective(r)
  BY <1>3, <1>5 DEF IsInjective, Range
<1>6. kfifo_put(q, n, x) = IF Len(q) < n THEN r ELSE q
  BY DEF kfifo_put, r
<1> QED
  BY <1>1, <1>4, <1>5, <1>6

\* kfifo_out splits the list into what it copies and what it leaves.
LEMMA OutProperties ==
  ASSUME NEW S, NEW q \in Seq(S), NEW n \in 0 .. Len(q)
  PROVE  /\ SubSeq(q, 1, n) \in Seq(S) /\ kfifo_out(q, n) \in Seq(S)
         /\ Len(SubSeq(q, 1, n)) = n /\ Len(kfifo_out(q, n)) = Len(q) - n
         /\ Range(q) = Range(SubSeq(q, 1, n)) \cup Range(kfifo_out(q, n))
         /\ IsInjective(q) =>
              /\ IsInjective(SubSeq(q, 1, n)) /\ IsInjective(kfifo_out(q, n))
              /\ Range(SubSeq(q, 1, n)) \cap Range(kfifo_out(q, n)) = {}
<1>1. Len(q) \in Nat /\ DOMAIN q = 1 .. Len(q) /\ \A i \in 1 .. Len(q) : q[i] \in S
  BY LenProperties, ElementOfSeq
<1> DEFINE a == SubSeq(q, 1, n)
           b == SubSeq(q, n + 1, Len(q))
<1>2. a \in Seq(S) /\ Len(a) = n /\ \A i \in 1 .. n : a[i] = q[i]
  <2>1. n \in Int /\ \A i \in 1 .. n : q[i] \in S
    BY <1>1
  <2> QED
    BY <1>1, <2>1, SubSeqProperties
<1>3. b \in Seq(S) /\ Len(b) = Len(q) - n /\ \A i \in 1 .. Len(q) - n : b[i] = q[n + i]
  <2> DEFINE l == Len(q)
  <2>1. n \in Int /\ l \in Int /\ n <= l /\ \A i \in n + 1 .. l : q[i] \in S
    BY <1>1
  <2>2. /\ b \in Seq(S) /\ Len(b) = IF n + 1 <= l THEN l - (n + 1) + 1 ELSE 0
        /\ \A i \in 1 .. l - (n + 1) + 1 : b[i] = q[(n + 1) + i - 1]
    BY <2>1, SubSeqProperties
  <2> HIDE DEF b, l
  <2>3. l - (n + 1) + 1 = l - n /\ (~ (n + 1 <= l) => l - n = 0)
    BY <2>1
  <2>4. \A i \in 1 .. l - n : (n + 1) + i - 1 = n + i
    BY <2>1
  <2>5. b \in Seq(S) /\ Len(b) = l - n /\ \A i \in 1 .. l - n : b[i] = q[n + i]
    BY <2>2, <2>3, <2>4
  <2> QED
    BY <2>5 DEF l
<1>4. DOMAIN a = 1 .. n /\ DOMAIN b = 1 .. Len(q) - n
  BY <1>2, <1>3, LenProperties
<1> HIDE DEF a, b
<1>5. \A i \in DOMAIN a : i \in DOMAIN q /\ a[i] = q[i] /\ i <= n /\ i \in Int
  BY <1>1, <1>2, <1>4
<1>6. \A i \in DOMAIN b : n + i \in DOMAIN q /\ b[i] = q[n + i] /\ n + i > n /\ i \in Int
  BY <1>1, <1>3, <1>4
<1>7. \A i \in DOMAIN q : \/ i \in DOMAIN a
                          \/ i - n \in DOMAIN b /\ q[i] = b[i - n]
  <2>1. ASSUME NEW i \in DOMAIN q, i > n PROVE i - n \in DOMAIN b /\ n + (i - n) = i
    BY <1>1, <1>4, <2>1
  <2>2. ASSUME NEW i \in DOMAIN q, ~ (i > n) PROVE i \in DOMAIN a
    BY <1>1, <1>4, <2>2
  <2> QED
    BY <1>6, <2>1, <2>2
<1>8. Range(q) = Range(a) \cup Range(b)
  BY <1>5, <1>6, <1>7 DEF Range
<1>9. ASSUME IsInjective(q)
      PROVE  IsInjective(a) /\ IsInjective(b) /\ Range(a) \cap Range(b) = {}
  <2>1. IsInjective(a)
    BY <1>5, <1>9 DEF IsInjective
  <2>2. ASSUME NEW i \in DOMAIN b, NEW j \in DOMAIN b, b[i] = b[j] PROVE i = j
    <3>1. n + i = n + j
      BY <1>6, <1>9, <2>2 DEF IsInjective
    <3> QED
      BY <1>6, <3>1
  <2>3. ASSUME NEW i \in DOMAIN a, NEW j \in DOMAIN b PROVE a[i] # b[j]
    <3>1. i # n + j /\ i \in DOMAIN q /\ n + j \in DOMAIN q
      BY <1>5, <1>6
    <3> QED
      BY <1>5, <1>6, <1>9, <3>1 DEF IsInjective
  <2> QED
    BY <2>1, <2>2, <2>3 DEF IsInjective, Range
<1> QED
  BY <1>2, <1>3, <1>8, <1>9 DEF a, b, kfifo_out

\* Two lists without a common index stay without duplicates when joined.
LEMMA JoinProperties ==
  ASSUME NEW S, NEW q \in Seq(S), NEW r \in Seq(S)
  PROVE  /\ q \o r \in Seq(S) /\ Len(q \o r) = Len(q) + Len(r)
         /\ Range(q \o r) = Range(q) \cup Range(r)
         /\ IsInjective(q) /\ IsInjective(r) /\ Range(q) \cap Range(r) = {} => IsInjective(q \o r)
<1> DEFINE t == q \o r
<1>1. /\ t \in Seq(S) /\ Len(t) = Len(q) + Len(r)
      /\ \A i \in 1 .. Len(q) + Len(r) : t[i] = IF i <= Len(q) THEN q[i] ELSE r[i - Len(q)]
  BY ConcatProperties
<1>2. Range(t) = Range(q) \cup Range(r)
  BY RangeConcatenation
<1>3. /\ Len(q) \in Nat /\ Len(r) \in Nat
      /\ DOMAIN q = 1 .. Len(q) /\ DOMAIN r = 1 .. Len(r) /\ DOMAIN t = 1 .. Len(q) + Len(r)
  BY <1>1, LenProperties
<1> HIDE DEF t
<1>4. ASSUME NEW i \in DOMAIN t
      PROVE  \/ i \in DOMAIN q /\ t[i] = q[i]
             \/ i \notin DOMAIN q /\ i - Len(q) \in DOMAIN r /\ t[i] = r[i - Len(q)] /\ i \in Int
  BY <1>1, <1>3
<1>5. ASSUME IsInjective(q), IsInjective(r), Range(q) \cap Range(r) = {},
             NEW i \in DOMAIN t, NEW j \in DOMAIN t, t[i] = t[j]
      PROVE  i = j
  <2>1. CASE i \in DOMAIN q /\ j \in DOMAIN q
    BY <1>4, <1>5, <2>1 DEF IsInjective
  <2>2. CASE i \notin DOMAIN q /\ j \notin DOMAIN q
    <3>1. i - Len(q) = j - Len(q) /\ i \in Int /\ j \in Int
      BY <1>4, <1>5, <2>2 DEF IsInjective
    <3> QED
      BY <1>3, <3>1
  <2>3. CASE i \in DOMAIN q /\ j \notin DOMAIN q
    BY <1>4, <1>5, <2>3 DEF Range
  <2>4. CASE i \notin DOMAIN q /\ j \in DOMAIN q
    BY <1>4, <1>5, <2>4 DEF Range
  <2> QED
    BY <2>1, <2>2, <2>3, <2>4
<1> QED
  BY <1>1, <1>2, <1>5 DEF IsInjective, t

-----------------------------------------------------------------------------
(***************************************************************************)
(* Types, and the bound of the batch.                                      *)
(***************************************************************************)
LEMMA InitIsInv1 == Init => Inv1
<1> SUFFICES ASSUME Init PROVE Inv1
  OBVIOUS
<1>1. NCpu \in Nat /\ NCpu > 0 /\ 0 \in CPU /\ Total \in Nat /\ 0 \in Slot
  BY CpuAssumption, LayoutAssumption DEF CPU, Slot
<1>2. idle \in [CPU -> Seq(Slot)]
  <2>1. ASSUME NEW c \in CPU
        PROVE  [i \in 1 .. End[c] - Start[c] |-> Start[c] + i - 1] \in Seq(Slot)
    <3>1. Start[c] \in Nat /\ End[c] \in Nat /\ Start[c] .. End[c] - 1 \subseteq Slot
      BY <2>1, LayoutAssumption DEF Partition, Range2Slots, Slot
    <3>2. \A i \in 1 .. End[c] - Start[c] : Start[c] + i - 1 \in Slot
      <4>1. \A i \in 1 .. End[c] - Start[c] : Start[c] + i - 1 \in Start[c] .. End[c] - 1
        BY <3>1
      <4> QED
        BY <3>1, <4>1
    <3>3. PICK n \in Nat : 1 .. End[c] - Start[c] = 1 .. n
      <4>1. CASE End[c] - Start[c] \in Nat
        BY <4>1
      <4>2. CASE End[c] - Start[c] \notin Nat
        <5>1. 1 .. End[c] - Start[c] = 1 .. 0
          BY <3>1, <4>2
        <5> QED
          BY <5>1
      <4> QED
        BY <4>1, <4>2
    <3> DEFINE f == [i \in 1 .. End[c] - Start[c] |-> Start[c] + i - 1]
    <3>4. f \in [1 .. End[c] - Start[c] -> Slot]
      BY <3>2
    <3> HIDE DEF f
    <3>5. f \in [1 .. n -> Slot]
      BY <3>3, <3>4
    <3>6. f \in Seq(Slot)
      BY <3>5, SeqDef
    <3> QED
      BY <3>6 DEF f
  <2> QED
    BY <2>1 DEF Init
<1>3. TypeOK
  <2>1. << >> \in Seq(Slot) /\ Batch \in Nat
    BY BatchAssumption, EmptySeq
  <2>2. /\ ready \in [CPU -> Seq(Slot)] /\ arr \in Seq(Slot)
        /\ alarm \in [CPU -> BOOLEAN]
        /\ state \in [Slot -> MemState] /\ info \in [Slot -> Nat]
    BY <2>1 DEF Init, MemState
  <2>3. /\ ppc \in [Producer -> {"out", "count", "enter", "check", "fill", "publish", "putback", "alarm", "wake"}]
        /\ reg \in [Producer -> Nat] /\ pkt \in [Producer -> Nat]
        /\ pcpu \in [Producer -> CPU] /\ cand \in [Producer -> Slot]
    BY <1>1 DEF Init
  <2>4. puttimes \in Nat /\ npkt \in Nat /\ fpc = "user" /\ fcur \in CPU /\ num \in Int
    BY <1>1, <2>1 DEF Init
  <2>5. held = {} /\ rpc = "user" /\ rset = {} /\ ritem \in Slot /\ broken = FALSE
    BY <1>1 DEF Init
  <2> QED
    BY <1>2, <2>2, <2>3, <2>4, <2>5 DEF TypeOK
<1>4. BatchInv
  <2>1. arr = << >> /\ num = Batch /\ fpc = "user"
    BY DEF Init
  <2>2. Len(arr) = 0 /\ Batch \in Nat
    BY <2>1, BatchAssumption, EmptySeq
  <2> QED
    BY <2>1, <2>2 DEF BatchInv, BatchFits
<1> QED
  BY <1>3, <1>4 DEF Inv1

\* One step of ip_queue_put, ip_queue_wakeup.
LEMMA PutKeepsTypes ==
  ASSUME TypeOK, NEW p \in Producer, Put(p)
  PROVE  TypeOK'
<1> USE DEF TypeOK, slotVars, prodVars, fetchVars, recVars
<1>1. CASE PutLoad(p)
  <2>1. npkt' \in Nat /\ pkt' \in [Producer -> Nat] /\ reg' \in [Producer -> Nat]
    BY <1>1 DEF PutLoad
  <2>2. ppc' = [ppc EXCEPT ![p] = "count"]
    BY <1>1 DEF PutLoad
  <2>3. UNCHANGED <<idle, ready, state, info, alarm, puttimes, pcpu, cand, fpc, fcur, num, arr, held,
                    rpc, rset, ritem, broken>>
    BY <1>1 DEF PutLoad
  <2> QED
    BY <2>1, <2>2, <2>3
<1>2. CASE PutCount(p)
  BY <1>2, SMTT(30) DEF PutCount
<1>3. ASSUME NEW c \in CPU, TakeIdle(p, c),
             UNCHANGED <<ready, state, info, alarm, puttimes, npkt, reg, fetchVars, held, recVars>>
      PROVE  TypeOK'
  <2>1. CASE idle[c] = << >>
    <3>1. 0 \in CPU /\ 0 \in Slot
      BY LayoutAssumption, CpuAssumption DEF CPU, Slot
    <3>2. /\ ppc' = [ppc EXCEPT ![p] = "wake"] /\ pkt' = [pkt EXCEPT ![p] = 0]
          /\ pcpu' = [pcpu EXCEPT ![p] = 0] /\ cand' = [cand EXCEPT ![p] = 0]
          /\ idle' = idle
      BY <1>3, <2>1 DEF TakeIdle, NoIdle
    <3> QED
      BY <1>3, <3>1, <3>2
  <2>2. CASE idle[c] # << >>
    <3>1. Head(idle[c]) \in Slot /\ Tail(idle[c]) \in Seq(Slot)
      BY <2>2, GetProperties
    <3> QED
      BY <1>3, <2>2, <3>1 DEF TakeIdle, NoIdle
  <2> QED
    BY <2>1, <2>2
<1>4. ASSUME NEW c \in CPU, PutGet(p, c) PROVE TypeOK'
  BY <1>3, <1>4 DEF PutGet
<1>5. CASE PutRetry(p)
  BY <1>3, <1>5 DEF PutRetry
<1>6. CASE PutCheck(p)
  BY <1>6 DEF PutCheck
<1>7. CASE PutFill(p)
  BY <1>7 DEF PutFill, MemState
<1>8. CASE PutPublish(p)
  <2> DEFINE c == pcpu[p]
  <2>1. ready[c] \in Seq(Slot) /\ idle[c] \in Seq(Slot) /\ cand[p] \in Slot
    OBVIOUS
  <2>2. 0 \in Slot
    BY LayoutAssumption DEF Slot
  <2>3. /\ kfifo_put(ready[c], Cap[c], cand[p]) \in Seq(Slot)
        /\ kfifo_put(idle[c], Cap[c], cand[p]) \in Seq(Slot)
    BY <2>1, PutProperties
  <2>4. ready' \in [CPU -> Seq(Slot)] /\ cand' \in [Producer -> Slot]
    BY <1>8, <2>2, <2>3 DEF PutPublish
  <2>5. /\ ppc' \in [Producer -> {"out", "count", "enter", "check", "fill", "publish", "putback", "alarm", "wake"}]
        /\ pkt' \in [Producer -> Nat]
    BY <1>8 DEF PutPublish
  <2> QED
    BY <1>8, <2>4, <2>5 DEF PutPublish
<1>11. CASE PutBack(p)
  <2> DEFINE c == pcpu[p]
  <2>3. idle[c] \in Seq(Slot) /\ cand[p] \in Slot
    OBVIOUS
  <2>4. 0 \in Slot
    BY LayoutAssumption DEF Slot
  <2>1. kfifo_put(idle[c], Cap[c], cand[p]) \in Seq(Slot) /\ 0 \in Slot
    BY <2>3, <2>4, PutProperties
  <2>2. Returning(c) \in BOOLEAN
    BY DEF Returning
  <2> QED
    <3>1. idle' \in [CPU -> Seq(Slot)] /\ cand' \in [Producer -> Slot] /\ broken' \in BOOLEAN
      BY <1>11, <2>1, <2>2 DEF PutBack, Risk
    <3>2. ppc' \in [Producer -> {"out", "count", "enter", "check", "fill", "publish", "putback", "alarm", "wake"}]
      BY <1>11 DEF PutBack
    <3> QED
      BY <1>11, <3>1, <3>2 DEF PutBack
<1>9. CASE PutAlarm(p)
  <2>1. ASSUME NEW on, NEW len, NEW n PROVE AlarmNext(on, len, n) \in BOOLEAN
    <3>1. CASE on
      BY <3>1 DEF AlarmNext
    <3>2. CASE ~ on
      BY <3>2 DEF AlarmNext
    <3> QED
      BY <3>1, <3>2
  <2>2. 0 \in CPU
    BY CpuAssumption DEF CPU
  <2> QED
    BY <1>9, <2>1, <2>2 DEF PutAlarm
<1>10. CASE PutWake(p)
  BY <1>10 DEF PutWake
<1> QED
  BY <1>1, <1>2, <1>4, <1>5, <1>6, <1>7, <1>8, <1>9, <1>10, <1>11 DEF Put

\* What kfifo_out copies to idx_array fits there.
LEMMA MovedProperties ==
  ASSUME Inv1, fpc = "move"
  PROVE  /\ Moved \in Nat /\ Moved <= num /\ Len(arr) \in Nat
         /\ ready[fcur] \in Seq(Slot) /\ Moved \in 0 .. Len(ready[fcur])
         /\ SubSeq(ready[fcur], 1, Moved) \in Seq(Slot)
         /\ kfifo_out(ready[fcur], Moved) \in Seq(Slot)
         /\ arr \o SubSeq(ready[fcur], 1, Moved) \in Seq(Slot)
         /\ Len(arr \o SubSeq(ready[fcur], 1, Moved)) = Len(arr) + Moved
<1>1. ready[fcur] \in Seq(Slot) /\ arr \in Seq(Slot) /\ num \in Int /\ num > 0
  BY DEF Inv1, TypeOK, BatchInv, BatchFits
<1>2. Len(ready[fcur]) \in Nat /\ Len(arr) \in Nat
  BY <1>1, LenProperties
<1>3. Moved \in 0 .. Len(ready[fcur]) /\ Moved \in Nat /\ Moved <= num
  BY <1>1, <1>2 DEF Moved
<1>4. /\ SubSeq(ready[fcur], 1, Moved) \in Seq(Slot)
      /\ kfifo_out(ready[fcur], Moved) \in Seq(Slot)
      /\ Len(SubSeq(ready[fcur], 1, Moved)) = Moved
  BY <1>1, <1>3, OutProperties
<1>5. /\ arr \o SubSeq(ready[fcur], 1, Moved) \in Seq(Slot)
      /\ Len(arr \o SubSeq(ready[fcur], 1, Moved)) = Len(arr) + Moved
  BY <1>1, <1>4, ConcatProperties
<1> QED
  BY <1>1, <1>2, <1>3, <1>4, <1>5

\* One step of ips_fetch: an index leaves a ready list for idx_array, and the
\* loop over the CPUs stays among them.
LEMMA FetchKeepsTypes ==
  ASSUME Inv1, FetchStep \/ FetchTimeout \/ FetchSignal
  PROVE  TypeOK'
<1> USE DEF Inv1, TypeOK, slotVars, prodVars, fetchVars, recVars
<1>1. ASSUME NEW from, NEW to \in {"user", "asleep", "woken", "hasdata", "reset", "move", "return"},
             FetchGoto(from, to), UNCHANGED held, puttimes' \in Nat
      PROVE  TypeOK'
  BY <1>1 DEF FetchGoto
<1>2. ASSUME NEW from, FetchGoto(from, IF shall_wakeup THEN "reset" ELSE "asleep"), UNCHANGED <<puttimes, held>>
      PROVE  TypeOK'
  BY <1>1, <1>2
<1>3. CASE FetchCall \/ FetchWoken
  BY <1>2, <1>3 DEF FetchCall, FetchWoken, WaitLook
<1>4. CASE FetchTimeout
  BY <1>1, <1>4 DEF FetchTimeout
<1>5. CASE FetchSignal
  BY <1>1, <1>5 DEF FetchSignal
<1>6. CASE FetchHasData
  BY <1>1, <1>6 DEF FetchHasData
<1>7. CASE FetchReset
  BY <1>1, <1>7 DEF FetchReset
<1>8. CASE FetchMove
  <2>1. /\ kfifo_out(ready[fcur], Moved) \in Seq(Slot)
        /\ arr \o SubSeq(ready[fcur], 1, Moved) \in Seq(Slot)
        /\ Moved \in Nat /\ Len(arr) \in Nat
    BY <1>8, MovedProperties DEF FetchMove
  <2>2. MoveLeft(Moved) \in Int
    BY <2>1 DEF MoveLeft
  <2>3. (IF MoveEnds(Moved) THEN 0 ELSE fcur + 1) \in CPU
    BY CpuAssumption DEF MoveEnds, CPU
  <2>4. ready' \in [CPU -> Seq(Slot)] /\ arr' \in Seq(Slot) /\ num' \in Int /\ fcur' \in CPU
    BY <1>8, <2>1, <2>2, <2>3 DEF FetchMove
  <2> QED
    BY <1>8, <2>4 DEF FetchMove
<1>9. CASE FetchReturn
  <2>1. Range(arr) \subseteq Slot /\ << >> \in Seq(Slot) /\ Batch \in Int
    BY RangeOfSeq, EmptySeq, BatchAssumption
  <2> QED
    BY <1>9, <2>1 DEF FetchReturn
<1> QED
  BY <1>3, <1>4, <1>5, <1>6, <1>7, <1>8, <1>9 DEF FetchStep

\* One step of the user or of ip_queue_recycle.
LEMMA RecycleKeepsTypes ==
  ASSUME TypeOK, Free \/ RecycleStep
  PROVE  TypeOK'
<1> USE DEF TypeOK, slotVars, prodVars, fetchVars, recVars
<1>1. 0 \in Slot
  BY LayoutAssumption DEF Slot
<1>7. Slot \subseteq Index
  BY CarelessAssumption, LayoutAssumption DEF Slot, Index
<1>8. ASSUME NEW b \in BOOLEAN, Risk(b) PROVE broken' \in BOOLEAN
  BY <1>8 DEF Risk
<1>2. ASSUME NEW S \in Freeable, FreeCall(S) PROVE TypeOK'
  <2>1. S \subseteq Index
    BY <1>7 DEF Freeable
  <2>2. (Cardinality(S) > Batch) \in BOOLEAN
    OBVIOUS
  <2> QED
    BY <1>2, <1>8, <2>1, <2>2 DEF FreeCall
<1>3. ASSUME NEW i \in rset, RecycleSkip(i) PROVE TypeOK'
  BY <1>1, <1>3 DEF RecycleSkip, RecycleDone
<1>6. ASSUME NEW i \in rset, RecycleBeyond(i) PROVE TypeOK'
  BY <1>1, <1>6, <1>8 DEF RecycleBeyond, RecycleDone
<1>4. ASSUME NEW i \in rset, RecycleMark(i) PROVE TypeOK'
  BY <1>4 DEF RecycleMark, MemState
<1>5. ASSUME NEW c \in CPU, RecyclePut(c) PROVE TypeOK'
  <2>1. kfifo_put(idle[c], Cap[c], ritem) \in Seq(Slot)
    BY PutProperties
  <2>2. broken' \in BOOLEAN
    BY <1>5, <1>8 DEF RecyclePut, PuttingBack
  <2> QED
    BY <1>1, <1>5, <2>1, <2>2 DEF RecyclePut, RecycleDone
<1> QED
  BY <1>2, <1>3, <1>4, <1>5, <1>6 DEF Free, RecycleStep

\* A fetch never holds more indexes than the batch, and between two fetches
\* the batch is whole.
LEMMA StepKeepsBatchInv ==
  ASSUME Inv1, [Next]_vars
  PROVE  BatchInv'
<1> USE DEF Inv1, TypeOK, BatchInv, BatchFits
<1>1. ASSUME UNCHANGED fetchVars PROVE BatchInv'
  BY <1>1 DEF fetchVars
<1>2. ASSUME NEW p \in Producer, Put(p) PROVE BatchInv'
  <2>1. CASE PutWake(p)
    BY <2>1 DEF PutWake
  <2>2. CASE UNCHANGED fetchVars
    BY <1>1, <2>2
  <2> QED
    BY <1>2, <2>1, <2>2
    DEF Put, PutLoad, PutCount, PutGet, PutRetry, PutCheck, PutFill, PutPublish, PutBack, PutAlarm
<1>3. ASSUME NEW from \in {"user", "asleep", "woken", "hasdata", "reset"}, NEW to, FetchGoto(from, to)
      PROVE  to # "return" => BatchInv'
  <2>1. Len(arr) = 0 /\ arr = << >> /\ num = Batch
    BY <1>3, EmptySeq DEF FetchGoto
  <2> QED
    BY <1>3, <2>1, BatchAssumption DEF FetchGoto
<1>4. CASE FetchCall \/ FetchWoken \/ FetchHasData \/ FetchReset \/ FetchTimeout \/ FetchSignal
  BY <1>3, <1>4 DEF FetchCall, FetchWoken, FetchHasData, FetchReset, FetchTimeout, FetchSignal, WaitLook
<1>5. CASE FetchMove
  <2>1. /\ Len(arr') = Len(arr) + Moved /\ num' = MoveLeft(Moved)
        /\ fpc' = IF MoveEnds(Moved) THEN "return" ELSE "move"
        /\ Len(arr) + num <= Batch /\ num \in Int
    BY <1>5, MovedProperties DEF FetchMove
  <2>2. Moved \in Nat /\ Moved <= num /\ Len(arr) \in Nat /\ Batch \in Nat
    BY <1>5, MovedProperties, BatchAssumption DEF FetchMove
  <2> QED
    <3> HIDE DEF Inv1, TypeOK
    <3>1. Len(arr') <= Batch
      BY <2>1, <2>2
    <3>2. CASE Moved = 0
      BY <1>5, <2>1, <2>2, <3>1, <3>2 DEF MoveLeft, FetchMove, Inv1
    <3>3. CASE Moved > 0
      <4>1. num' = num - (Len(arr) + Moved)
        BY <2>1, <3>3, <2>2 DEF MoveLeft
      <4>2. fpc' = IF num' <= 0 \/ fcur = NCpu - 1 THEN "return" ELSE "move"
        BY <2>1, <3>3 DEF MoveEnds
      <4>3. num' > 0 => Len(arr') + num' <= Batch
        BY <2>1, <2>2, <4>1
      <4>4. fpc' = "move" => num' > 0
        BY <2>1, <2>2, <4>1, <4>2
      <4>5. fpc' \in {"move", "return"}
        BY <4>2
      <4> QED
        BY <3>1, <4>3, <4>4, <4>5
    <3> QED
      BY <2>2, <3>2, <3>3
<1>6. CASE FetchReturn
  BY <1>6, EmptySeq, BatchAssumption DEF FetchReturn
<1>7. CASE Free \/ RecycleStep
  BY <1>1, <1>7 DEF Free, FreeCall, RecycleStep, RecycleSkip, RecycleBeyond, RecycleMark, RecyclePut
<1>8. CASE UNCHANGED vars
  BY <1>1, <1>8 DEF vars
<1> QED
  BY <1>2, <1>4, <1>5, <1>6, <1>7, <1>8 DEF Next, FetchStep

LEMMA StepKeepsInv1 == Inv1 /\ [Next]_vars => Inv1'
<1> SUFFICES ASSUME Inv1, [Next]_vars PROVE Inv1'
  OBVIOUS
<1>1. TypeOK'
  <2>1. CASE UNCHANGED vars
    BY <2>1 DEF vars, slotVars, prodVars, fetchVars, recVars, Inv1, TypeOK
  <2>2. CASE Next
    BY <2>2, PutKeepsTypes, FetchKeepsTypes, RecycleKeepsTypes DEF Next, Inv1
  <2> QED
    BY <2>1, <2>2
<1> QED
  BY <1>1, StepKeepsBatchInv DEF Inv1

LEMMA Inv1Holds == Spec => []Inv1
<1> QED
  BY InitIsInv1, StepKeepsInv1, PTL DEF Spec

\* Every variable of the queue and of the parties that run it keeps its type.
THEOREM TypeCorrect == Spec => []TypeOK
<1>1. Inv1 => TypeOK
  BY DEF Inv1
<1> QED
  BY <1>1, Inv1Holds, PTL

\* ip_queue_move2dma never writes behind idx_array, for every number of CPUs
\* and every way the ready packets are spread over them.
THEOREM MoveStaysInTheArray == Spec => []BatchFits
<1>1. Inv1 => BatchFits
  BY DEF Inv1, BatchInv
<1> QED
  BY <1>1, Inv1Holds, PTL

-----------------------------------------------------------------------------
(***************************************************************************)
(* The wait and the wakeup.                                                *)
(***************************************************************************)
LEMMA StepKeepsNoLostWakeup ==
  ASSUME Inv1, NoLostWakeup, [Next]_vars
  PROVE  NoLostWakeup'
<1> USE DEF NoLostWakeup, shall_wakeup
<1>1. ppc \in [Producer -> {"out", "count", "enter", "check", "fill", "publish", "putback", "alarm", "wake"}]
  BY DEF Inv1, TypeOK
<1>2. ASSUME NEW p \in Producer, ppc' = [ppc EXCEPT ![p] = ppc'[p]],
             ppc'[p] \notin {"out", "count"} \/ ppc[p] \in {"out", "count"},
             UNCHANGED <<fpc, puttimes>>
      PROVE  NoLostWakeup'
  BY <1>1, <1>2
<1>3. ASSUME NEW p \in Producer, Put(p) PROVE NoLostWakeup'
  <2>1. CASE PutLoad(p)
    BY <1>1, <1>2, <2>1 DEF PutLoad, fetchVars
  <2>2. CASE PutCount(p)
    BY <1>1, <2>2 DEF PutCount
  <2>3. ASSUME NEW c \in CPU, TakeIdle(p, c), UNCHANGED <<puttimes, fetchVars>> PROVE NoLostWakeup'
    BY <1>1, <1>2, <2>3 DEF TakeIdle, NoIdle, fetchVars
  <2>4. ASSUME NEW c \in CPU, PutGet(p, c) PROVE NoLostWakeup'
    BY <2>3, <2>4 DEF PutGet
  <2>5. CASE PutRetry(p)
    BY <2>3, <2>5 DEF PutRetry, Inv1, TypeOK
  <2>6. CASE PutCheck(p)
    BY <1>1, <1>2, <2>6 DEF PutCheck, fetchVars
  <2>7. CASE PutFill(p)
    BY <1>1, <1>2, <2>7 DEF PutFill, fetchVars
  <2>8. CASE PutPublish(p)
    BY <1>1, <1>2, <2>8 DEF PutPublish, fetchVars
  <2>11. CASE PutBack(p)
    BY <1>1, <1>2, <2>11 DEF PutBack, fetchVars
  <2>9. CASE PutAlarm(p)
    BY <1>1, <1>2, <2>9 DEF PutAlarm, fetchVars
  <2>10. CASE PutWake(p)
    BY <2>10 DEF PutWake
  <2> QED
    BY <1>3, <2>1, <2>2, <2>4, <2>5, <2>6, <2>7, <2>8, <2>9, <2>10, <2>11 DEF Put
<1>4. CASE FetchStep
  BY <1>4 DEF FetchStep, FetchCall, FetchWoken, WaitLook, FetchHasData, FetchReset, FetchGoto,
     FetchMove, FetchReturn
<1>5. CASE FetchTimeout \/ FetchSignal
  BY <1>5 DEF FetchTimeout, FetchSignal, FetchGoto
<1>6. ASSUME UNCHANGED <<fpc, puttimes, ppc>> PROVE NoLostWakeup'
  BY <1>6
<1>7. CASE Free
  BY <1>6, <1>7 DEF Free, FreeCall, prodVars, fetchVars
<1>8. CASE RecycleStep
  BY <1>6, <1>8 DEF RecycleStep, RecycleSkip, RecycleBeyond, RecycleMark, RecyclePut, prodVars, fetchVars
<1>9. CASE UNCHANGED vars
  BY <1>6, <1>9 DEF vars, prodVars, fetchVars
<1> QED
  BY <1>3, <1>4, <1>5, <1>7, <1>8, <1>9 DEF Next

\* The fetcher never sleeps while the wait condition holds, unless a producer
\* that will wake it up is on its way: for any number of hooks and every
\* interleaving of their unlocked increments with the reset of the counter.
THEOREM WakeupIsNotLost == Spec => []NoLostWakeup
<1>1. Init => NoLostWakeup
  BY DEF Init, NoLostWakeup
<1>2. Inv1 /\ NoLostWakeup /\ [Next]_vars => NoLostWakeup'
  BY StepKeepsNoLostWakeup
<1> QED
  BY <1>1, <1>2, Inv1Holds, PTL DEF Spec

-----------------------------------------------------------------------------
(***************************************************************************)
(* What holds whatever the user frees.                                     *)
(***************************************************************************)
LEMMA InitIsInv2 == Init => Inv2
<1> SUFFICES ASSUME Init PROVE Inv2
  OBVIOUS
<1>1. Inv1
  BY InitIsInv1
<1>2. SectionExclusive /\ CheckedFree
  BY DEF Init, SectionExclusive, InSection, CheckedFree
<1>3. OwnRange
  <2>1. ASSUME NEW c \in CPU PROVE Range(idle[c]) \subseteq OwnSlots(c)
    <3>1. Start[c] \in Nat /\ End[c] \in Nat
      BY LayoutAssumption
    <3>2. \A i \in 1 .. End[c] - Start[c] : Start[c] + i - 1 \in Start[c] .. End[c] - 1
      BY <3>1
    <3> QED
      BY <3>2 DEF Init, Range, OwnSlots, Range2Slots
  <2>2. ASSUME NEW c \in CPU PROVE Range(ready[c]) = {}
    BY EmptySeq, LenProperties DEF Init, Range
  <2>3. \A p \in Producer : ~ InHand(p)
    BY DEF Init, InHand
  <2> QED
    BY <2>1, <2>2, <2>3 DEF OwnRange
<1> QED
  BY <1>1, <1>2, <1>3 DEF Inv2

\* An index has one owner.
LEMMA OwnersDiffer ==
  ASSUME NEW c \in CPU, NEW d \in CPU, c # d, NEW s \in OwnSlots(c), NEW t \in OwnSlots(d)
  PROVE  s # t
  BY LayoutAssumption DEF Partition, OwnSlots

\* Who enters the section of a CPU finds it empty.
LEMMA StepKeepsSection ==
  ASSUME Inv1, SectionExclusive, [Next]_vars
  PROVE  SectionExclusive'
<1> USE DEF SectionExclusive, InSection
<1>1. /\ ppc \in [Producer -> {"out", "count", "enter", "check", "fill", "publish", "putback", "alarm", "wake"}]
      /\ pcpu \in [Producer -> CPU]
  BY DEF Inv1, TypeOK
<1>2. ASSUME NEW p \in Producer, ppc' = [ppc EXCEPT ![p] = ppc'[p]], pcpu' = pcpu,
             InSection(p)' => InSection(p)
      PROVE  SectionExclusive'
  BY <1>1, <1>2
<1>3. ASSUME NEW p \in Producer, Put(p) PROVE SectionExclusive'
  <2>1. CASE PutLoad(p) \/ PutCount(p) \/ PutCheck(p) \/ PutFill(p) \/ PutPublish(p)
           \/ PutBack(p) \/ PutWake(p)
    BY <1>1, <1>2, <2>1 DEF PutLoad, PutCount, PutCheck, PutFill, PutPublish, PutBack, PutWake
  <2>2. CASE PutAlarm(p)
    BY <1>1, <2>2 DEF PutAlarm
  <2>3. ASSUME NEW c \in CPU, TakeIdle(p, c), ~ Occupied(c) \/ (InSection(p) /\ pcpu[p] = c)
        PROVE  SectionExclusive'
    <3>1. \A q \in Producer : q # p => ppc'[q] = ppc[q] /\ pcpu'[q] = pcpu[q]
      BY <1>1, <2>3 DEF TakeIdle, NoIdle
    <3>2. InSection(p)' => pcpu'[p] = c
      BY <1>1, <2>3 DEF TakeIdle, NoIdle
    <3>3. \A q \in Producer : q # p /\ InSection(q) => pcpu[q] # c
      BY <2>3 DEF Occupied
    <3> QED
      BY <3>1, <3>2, <3>3
  <2>4. ASSUME NEW c \in CPU, PutGet(p, c) PROVE SectionExclusive'
    <3>1. TakeIdle(p, c) /\ ~ Occupied(c)
      BY <2>4 DEF PutGet
    <3> HIDE DEF SectionExclusive, InSection
    <3> QED
      BY <2>3, <3>1
  <2>5. CASE PutRetry(p)
    BY <1>1, <2>3, <2>5 DEF PutRetry
  <2> QED
    BY <1>3, <2>1, <2>2, <2>4, <2>5 DEF Put
<1>4. ASSUME UNCHANGED prodVars PROVE SectionExclusive'
  BY <1>4 DEF prodVars
<1>5. CASE FetchStep \/ FetchTimeout \/ FetchSignal
  BY <1>4, <1>5 DEF FetchStep, FetchCall, FetchWoken, WaitLook, FetchHasData, FetchReset,
     FetchGoto, FetchMove, FetchReturn, FetchTimeout, FetchSignal
<1>6. CASE Free \/ RecycleStep
  BY <1>4, <1>6 DEF Free, FreeCall, RecycleStep, RecycleSkip, RecycleBeyond, RecycleMark, RecyclePut
<1>7. CASE UNCHANGED vars
  BY <1>4, <1>7 DEF vars
<1> QED
  BY <1>3, <1>5, <1>6, <1>7 DEF Next

\* Every index goes back to the CPU that owns it.
LEMMA StepKeepsOwnRange ==
  ASSUME Inv1, OwnRange, [Next]_vars
  PROVE  OwnRange'
<1>1. /\ ppc \in [Producer -> {"out", "count", "enter", "check", "fill", "publish", "putback", "alarm", "wake"}]
      /\ pcpu \in [Producer -> CPU] /\ cand \in [Producer -> Slot]
      /\ idle \in [CPU -> Seq(Slot)] /\ ready \in [CPU -> Seq(Slot)] /\ ritem \in Slot
  BY DEF Inv1, TypeOK
<1>2. ASSUME UNCHANGED <<idle, ready, pcpu, cand>>,
             \A p \in Producer : InHand(p)' => InHand(p)
      PROVE  OwnRange'
  BY <1>2 DEF OwnRange
<1>3. ASSUME NEW p \in Producer, Put(p) PROVE OwnRange'
  <2>1. CASE PutLoad(p) \/ PutCount(p) \/ PutCheck(p) \/ PutFill(p) \/ PutWake(p)
    BY <1>1, <1>2, <2>1 DEF PutLoad, PutCount, PutCheck, PutFill, PutWake, InHand, slotVars
  <2>2. CASE PutAlarm(p)
    BY <1>1, <2>2 DEF PutAlarm, OwnRange, InHand, slotVars
  <2>3. ASSUME NEW c \in CPU, TakeIdle(p, c), UNCHANGED ready PROVE OwnRange'
    <3>1. CASE idle[c] = << >>
      BY <1>1, <2>3, <3>1 DEF TakeIdle, NoIdle, OwnRange, InHand
    <3>2. CASE idle[c] # << >>
      <4>1. /\ Range(Tail(idle[c])) \subseteq Range(idle[c])
            /\ Head(idle[c]) \in Range(idle[c])
        BY <1>1, <3>2, GetProperties
      <4>2. /\ ppc' = [ppc EXCEPT ![p] = "check"] /\ pcpu' = [pcpu EXCEPT ![p] = c]
            /\ cand' = [cand EXCEPT ![p] = Head(idle[c])]
            /\ idle' = [idle EXCEPT ![c] = Tail(idle[c])]
        BY <2>3, <3>2 DEF TakeIdle, NoIdle
      <4> QED
        BY <1>1, <2>3, <4>1, <4>2 DEF OwnRange, InHand
    <3> QED
      BY <3>1, <3>2
  <2>4. ASSUME NEW c \in CPU, PutGet(p, c) PROVE OwnRange'
    BY <2>3, <2>4 DEF PutGet
  <2>5. CASE PutRetry(p)
    BY <1>1, <2>3, <2>5 DEF PutRetry
  <2>6. CASE PutPublish(p)
    <3> DEFINE c == pcpu[p]
    <3>1. Range(kfifo_put(ready[c], Cap[c], cand[p])) \subseteq Range(ready[c]) \cup {cand[p]}
      BY <1>1, PutProperties
    <3>2. cand[p] \in OwnSlots(c) /\ c \in CPU
      BY <1>1, <2>6 DEF PutPublish, OwnRange, InHand
    <3>3. \A q \in Producer : InHand(q)' => InHand(q) /\ cand'[q] = cand[q]
      BY <1>1, <2>6 DEF PutPublish, InHand
    <3>4. \A d \in CPU : Range(ready'[d]) \subseteq Range(ready[d]) \cup (IF d = c THEN {cand[p]} ELSE {})
      BY <1>1, <2>6, <3>1 DEF PutPublish
    <3>5. pcpu' = pcpu /\ idle' = idle
      BY <2>6 DEF PutPublish
    <3> QED
      BY <3>2, <3>3, <3>4, <3>5 DEF OwnRange
  <2>7. CASE PutBack(p)
    <3> DEFINE c == pcpu[p]
    <3>1. Range(kfifo_put(idle[c], Cap[c], cand[p])) \subseteq Range(idle[c]) \cup {cand[p]}
      BY <1>1, PutProperties
    <3>2. cand[p] \in OwnSlots(c) /\ c \in CPU
      BY <1>1, <2>7 DEF PutBack, OwnRange, InHand
    <3>3. \A q \in Producer : InHand(q)' => InHand(q) /\ cand'[q] = cand[q]
      BY <1>1, <2>7 DEF PutBack, InHand
    <3>4. \A d \in CPU : Range(idle'[d]) \subseteq Range(idle[d]) \cup (IF d = c THEN {cand[p]} ELSE {})
      BY <1>1, <2>7, <3>1 DEF PutBack
    <3>5. pcpu' = pcpu /\ ready' = ready
      BY <2>7 DEF PutBack
    <3> QED
      BY <3>2, <3>3, <3>4, <3>5 DEF OwnRange
  <2> QED
    BY <1>3, <2>1, <2>2, <2>4, <2>5, <2>6, <2>7 DEF Put
<1>4. CASE FetchMove
  <2>1. Range(kfifo_out(ready[fcur], Moved)) \subseteq Range(ready[fcur])
    BY <1>1, <1>4, MovedProperties, OutProperties DEF FetchMove
  <2>2. fcur \in CPU /\ ready' = [ready EXCEPT ![fcur] = kfifo_out(ready[fcur], Moved)]
    BY <1>4 DEF FetchMove, Inv1, TypeOK
  <2> QED
    BY <1>1, <1>4, <2>1, <2>2 DEF FetchMove, OwnRange, InHand, prodVars
<1>5. CASE (FetchStep /\ ~ FetchMove) \/ FetchTimeout \/ FetchSignal
  BY <1>2, <1>5 DEF FetchStep, FetchCall, FetchWoken, WaitLook, FetchHasData, FetchReset,
     FetchGoto, FetchReturn, FetchTimeout, FetchSignal, InHand, slotVars, prodVars
<1>6. ASSUME NEW c \in CPU, RecyclePut(c) PROVE OwnRange'
  <2>1. Range(kfifo_put(idle[c], Cap[c], ritem)) \subseteq Range(idle[c]) \cup {ritem}
    BY <1>1, PutProperties
  <2>2. ritem \in OwnSlots(c)
    <3>1. ritem \in Int /\ Start[c] \in Nat /\ End[c] \in Nat
      BY <1>1, LayoutAssumption DEF Slot
    <3>2. ritem >= Start[c] /\ ritem < End[c]
      BY <1>6 DEF RecyclePut, Owns
    <3> QED
      BY <3>1, <3>2 DEF OwnSlots, Range2Slots
  <2>3. idle' = [idle EXCEPT ![c] = kfifo_put(idle[c], Cap[c], ritem)]
    BY <1>6 DEF RecyclePut
  <2> QED
    BY <1>1, <1>6, <2>1, <2>2, <2>3 DEF RecyclePut, OwnRange, InHand, prodVars
<1>7. CASE Free \/ (RecycleStep /\ \A c \in CPU : ~ RecyclePut(c))
  BY <1>2, <1>7 DEF Free, FreeCall, RecycleStep, RecycleSkip, RecycleBeyond, RecycleMark, InHand, slotVars, prodVars
<1>8. CASE UNCHANGED vars
  BY <1>2, <1>8 DEF vars, slotVars, prodVars, InHand
<1> QED
  BY <1>3, <1>4, <1>5, <1>6, <1>7, <1>8 DEF Next, RecycleStep

\* Producers that hold a slot at the same time hold different ones.
LEMMA HandsDiffer ==
  ASSUME Inv2, NEW p \in Producer, NEW q \in Producer, InHand(p), InHand(q), p # q
  PROVE  cand[p] # cand[q]
<1>1. pcpu[p] # pcpu[q]
  BY DEF Inv2, SectionExclusive, InSection, InHand
<1>2. /\ cand[p] \in OwnSlots(pcpu[p]) /\ cand[q] \in OwnSlots(pcpu[q])
      /\ pcpu[p] \in CPU /\ pcpu[q] \in CPU
  BY DEF Inv2, OwnRange, Inv1, TypeOK
<1> QED
  BY <1>1, <1>2, OwnersDiffer

LEMMA StepKeepsCheckedFree ==
  ASSUME Inv2, [Next]_vars
  PROVE  CheckedFree'
<1>1. /\ ppc \in [Producer -> {"out", "count", "enter", "check", "fill", "publish", "putback", "alarm", "wake"}]
      /\ cand \in [Producer -> Slot] /\ state \in [Slot -> MemState]
  BY DEF Inv2, Inv1, TypeOK
<1>2. ASSUME UNCHANGED <<state, cand>>, \A p \in Producer : ppc'[p] = "fill" => ppc[p] = "fill"
      PROVE  CheckedFree'
  BY <1>2 DEF CheckedFree, Inv2
<1>3. ASSUME NEW p \in Producer, Put(p) PROVE CheckedFree'
  <2>1. CASE PutLoad(p) \/ PutCount(p) \/ PutAlarm(p) \/ PutWake(p)
    BY <1>1, <1>2, <2>1 DEF PutLoad, PutCount, PutAlarm, PutWake, slotVars
  <2>2. ASSUME NEW c \in CPU, TakeIdle(p, c), UNCHANGED state PROVE CheckedFree'
    <3>1. \A q \in Producer : ppc'[q] = "fill" => ppc[q] = "fill" /\ cand'[q] = cand[q]
      BY <1>1, <2>2 DEF TakeIdle, NoIdle
    <3> QED
      BY <2>2, <3>1 DEF CheckedFree, Inv2
  <2>3. ASSUME NEW c \in CPU, PutGet(p, c) PROVE CheckedFree'
    BY <2>2, <2>3 DEF PutGet
  <2>4. CASE PutRetry(p)
    BY <2>2, <2>4 DEF PutRetry, Inv2, Inv1, TypeOK
  <2>5. CASE PutCheck(p)
    BY <1>1, <2>5 DEF PutCheck, CheckedFree, Inv2, slotVars
  <2>6. CASE PutFill(p)
    <3>1. ASSUME NEW q \in Producer, ppc'[q] = "fill" PROVE state'[cand'[q]] # MEM_INUSE
      <4>1. q # p /\ ppc[q] = "fill" /\ cand'[q] = cand[q] /\ ppc[p] = "fill"
        BY <1>1, <2>6, <3>1 DEF PutFill
      <4>2. cand[q] # cand[p]
        BY <4>1, HandsDiffer DEF InHand
      <4> QED
        BY <1>1, <2>6, <4>1, <4>2 DEF PutFill, CheckedFree, Inv2
    <3> QED
      BY <3>1 DEF CheckedFree
  <2>7. CASE PutPublish(p)
    <3>1. \A q \in Producer : ppc'[q] = "fill" => ppc[q] = "fill" /\ cand'[q] = cand[q]
      BY <1>1, <2>7 DEF PutPublish
    <3> QED
      BY <2>7, <3>1 DEF CheckedFree, Inv2, PutPublish
  <2>8. CASE PutBack(p)
    <3>1. \A q \in Producer : ppc'[q] = "fill" => ppc[q] = "fill" /\ cand'[q] = cand[q]
      BY <1>1, <2>8 DEF PutBack
    <3> QED
      BY <2>8, <3>1 DEF CheckedFree, Inv2, PutBack
  <2> QED
    BY <1>3, <2>1, <2>3, <2>4, <2>5, <2>6, <2>7, <2>8 DEF Put
<1>4. CASE FetchStep \/ FetchTimeout \/ FetchSignal
  BY <1>2, <1>4 DEF FetchStep, FetchCall, FetchWoken, WaitLook, FetchHasData, FetchReset,
     FetchGoto, FetchMove, FetchReturn, FetchTimeout, FetchSignal, slotVars, prodVars
<1>5. ASSUME NEW i \in rset, RecycleMark(i) PROVE CheckedFree'
  <2>1. \A s \in Slot : state'[s] = MEM_INUSE => state[s] = MEM_INUSE
    BY <1>1, <1>5 DEF RecycleMark, MEM_INUSE, MEM_USED
  <2> QED
    BY <1>1, <1>5, <2>1 DEF RecycleMark, CheckedFree, Inv2, prodVars
<1>6. ASSUME NEW i \in rset, RecycleSkip(i) \/ RecycleBeyond(i) PROVE CheckedFree'
  BY <1>2, <1>6 DEF RecycleSkip, RecycleBeyond, slotVars, prodVars
<1>7. ASSUME NEW c \in CPU, RecyclePut(c) PROVE CheckedFree'
  BY <1>2, <1>7 DEF RecyclePut, prodVars
<1>8. CASE Free
  BY <1>2, <1>8 DEF Free, FreeCall, slotVars, prodVars
<1>9. CASE UNCHANGED vars
  BY <1>2, <1>9 DEF vars, slotVars, prodVars
<1> QED
  BY <1>3, <1>4, <1>5, <1>6, <1>7, <1>8, <1>9 DEF Next, RecycleStep

LEMMA Inv2Holds == Spec => []Inv2
<1>1. Inv2 /\ [Next]_vars => Inv2'
  BY StepKeepsInv1, StepKeepsSection, StepKeepsOwnRange, StepKeepsCheckedFree DEF Inv2
<1> QED
  BY InitIsInv2, <1>1, PTL DEF Spec

\* No step writes to a slot that is in use.
LEMMA StepKeepsInUse ==
  ASSUME Inv2, [Next]_vars
  PROVE  [\A s \in Slot : state[s] = MEM_INUSE => info'[s] = info[s]]_vars
<1> SUFFICES ASSUME NEW s \in Slot, state[s] = MEM_INUSE PROVE info'[s] = info[s]
  OBVIOUS
<1>1. ASSUME NEW p \in Producer, PutFill(p) PROVE info'[s] = info[s]
  <2>1. s # cand[p]
    BY <1>1 DEF PutFill, Inv2, CheckedFree
  <2> QED
    BY <1>1, <2>1 DEF PutFill, Inv2, Inv1, TypeOK
<1>2. ASSUME NEW p \in Producer, Put(p), ~ PutFill(p) PROVE info' = info
  BY <1>2 DEF Put, PutLoad, PutCount, PutGet, PutRetry, PutCheck, PutPublish, PutBack, PutAlarm, PutWake, slotVars
<1>3. CASE FetchStep \/ FetchTimeout \/ FetchSignal
  BY <1>3 DEF FetchStep, FetchCall, FetchWoken, WaitLook, FetchHasData, FetchReset,
     FetchGoto, FetchMove, FetchReturn, FetchTimeout, FetchSignal, slotVars
<1>4. CASE Free \/ RecycleStep
  BY <1>4 DEF Free, FreeCall, RecycleStep, RecycleSkip, RecycleBeyond, RecycleMark, RecyclePut, slotVars
<1>5. CASE UNCHANGED vars
  BY <1>5 DEF vars, slotVars
<1> QED
  BY <1>1, <1>2, <1>3, <1>4, <1>5 DEF Next

\* ip_queue_put overwrites no slot that is in use, whatever indexes the user
\* frees, and however often, as long as the code itself is not broken: up to the
\* step that reads behind the area or the array of indexes, or that makes a
\* second writer of an idle list, the packets he is still reading stay whole.
THEOREM InUseIsStable == Spec => InUseStable
<1>1. Inv2 /\ [Next]_vars => [\A s \in Slot : state[s] = MEM_INUSE => info'[s] = info[s]]_vars
  BY StepKeepsInUse
<1> QED
  BY <1>1, Inv2Holds, PTL DEF Spec, InUseStable

-----------------------------------------------------------------------------
(***************************************************************************)
(* The indexes when the user frees only what he was given.  The proofs     *)
(* move an index from one place to the next, one action at a time.         *)
(***************************************************************************)

\* A list without duplicates of the indexes of a CPU is never longer than the
\* CPU's range, and is shorter when one of the indexes is elsewhere.
LEMMA RoomLeft ==
  ASSUME NEW c \in CPU, NEW q \in Seq(Slot), Range(q) \subseteq OwnSlots(c), IsInjective(q),
         NEW x \in OwnSlots(c), x \notin Range(q)
  PROVE  Len(q) < Cap[c]
<1>1. /\ Start[c] \in Nat /\ End[c] \in Nat /\ Cap[c] \in Nat /\ End[c] - Start[c] <= Cap[c]
      /\ OwnSlots(c) = Start[c] .. End[c] - 1
  BY LayoutAssumption, CapAssumption DEF OwnSlots, Range2Slots
<1>2. Len(q) \in Nat /\ DOMAIN q = 1 .. Len(q) /\ q \in [1 .. Len(q) -> Slot]
  BY LenProperties
<1>3. q \in [1 .. Len(q) -> OwnSlots(c)]
  BY <1>2 DEF Range
<1>4. q \in Injection(1 .. Len(q), OwnSlots(c))
  BY <1>2, <1>3 DEF Injection, IsInjective
<1>5. /\ IsFiniteSet(OwnSlots(c))
      /\ Cardinality(OwnSlots(c)) = IF Start[c] > End[c] - 1 THEN 0 ELSE (End[c] - 1) - Start[c] + 1
  <2>1. Start[c] \in Int /\ End[c] - 1 \in Int
    BY <1>1
  <2> QED
    BY <1>1, <2>1, FS_Interval
<1>6. Cardinality(OwnSlots(c)) = End[c] - Start[c]
  BY <1>1, <1>5
<1>7. Cardinality(1 .. Len(q)) = Len(q)
  <2>1. 1 \in Int /\ Len(q) \in Int
    BY <1>2
  <2>2. Cardinality(1 .. Len(q)) = IF 1 > Len(q) THEN 0 ELSE Len(q) - 1 + 1
    BY <2>1, FS_Interval
  <2> QED
    BY <1>2, <2>2
<1>8. /\ Cardinality(1 .. Len(q)) <= Cardinality(OwnSlots(c))
      /\ Cardinality(1 .. Len(q)) = Cardinality(OwnSlots(c)) => q \in Surjection(1 .. Len(q), OwnSlots(c))
  BY <1>4, <1>5, FS_Injection
<1>9. q \notin Surjection(1 .. Len(q), OwnSlots(c))
  BY <1>2 DEF Surjection, Range
<1> QED
  BY <1>1, <1>2, <1>6, <1>7, <1>8, <1>9

\* Who is in the section of a CPU is the only one with a slot in hand there.
LEMMA OneHand ==
  ASSUME Inv2, NEW p \in Producer, InHand(p)
  PROVE  Hand(pcpu[p]) = {cand[p]}
<1>1. \A q \in Producer : InHand(q) /\ pcpu[q] = pcpu[p] => q = p
  BY DEF Inv2, SectionExclusive, InSection, InHand
<1> QED
  BY <1>1 DEF Hand

\* The place of an index excludes every other, of the other CPUs as well.
LEMMA PlacesDiffer ==
  ASSUME Inv3, NEW c \in CPU, NEW d \in CPU, c # d
  PROVE  /\ Range(idle[c]) \cap (Range(idle[d]) \cup Range(ready[d]) \cup Hand(d)) = {}
         /\ Range(ready[c]) \cap (Range(idle[d]) \cup Range(ready[d]) \cup Hand(d)) = {}
         /\ Hand(c) \cap (Range(idle[d]) \cup Range(ready[d]) \cup Hand(d)) = {}
<1>1. \A e \in CPU : Range(idle[e]) \cup Range(ready[e]) \cup Hand(e) \subseteq OwnSlots(e)
  BY DEF Inv3, SlotConservation, OwnRange, Hand
<1>2. OwnSlots(c) \cap OwnSlots(d) = {}
  BY OwnersDiffer
<1> QED
  BY <1>1, <1>2

LEMMA InitIsInv3 == Init => Inv3
<1> SUFFICES ASSUME Init PROVE Inv3
  OBVIOUS
<1>1. Inv2
  BY InitIsInv2
<1>2. /\ \A c \in CPU : Range(ready[c]) = {} /\ Hand(c) = {}
      /\ Range(arr) = {} /\ held = {} /\ rset = {} /\ Lent = {} /\ rpc = "user"
      /\ \A c \in CPU : IsInjective(ready[c])
      /\ IsInjective(arr)
  BY EmptySeq, LenProperties DEF Init, Range, Hand, InHand, Lent, IsInjective
<1>3. ASSUME NEW c \in CPU PROVE IsInjective(idle[c]) /\ OwnSlots(c) \subseteq Range(idle[c])
  <2>1. Start[c] \in Nat /\ End[c] \in Nat /\ OwnSlots(c) = Start[c] .. End[c] - 1
    BY LayoutAssumption DEF OwnSlots, Range2Slots
  <2>2. idle[c] = [i \in 1 .. End[c] - Start[c] |-> Start[c] + i - 1]
    BY DEF Init
  <2>3. IsInjective(idle[c])
    BY <2>1, <2>2 DEF IsInjective
  <2>4. ASSUME NEW s \in OwnSlots(c) PROVE s \in Range(idle[c])
    <3>1. s - Start[c] + 1 \in 1 .. End[c] - Start[c] /\ Start[c] + (s - Start[c] + 1) - 1 = s
      <4>1. PICK x \in Nat, y \in Nat : x = Start[c] /\ y = End[c] /\ s \in x .. y - 1
        BY <2>1, <2>4
      <4>2. s - x + 1 \in 1 .. y - x /\ x + (s - x + 1) - 1 = s
        BY <4>1
      <4> QED
        BY <4>1, <4>2
    <3>2. s - Start[c] + 1 \in DOMAIN idle[c] /\ idle[c][s - Start[c] + 1] = s
      BY <2>2, <3>1
    <3> QED
      BY <3>2 DEF Range
  <2> QED
    BY <2>3, <2>4
<1>4. NoDuplicates /\ OnePlace /\ NoLeak
  BY <1>2, <1>3 DEF NoDuplicates, OnePlace, NoLeak
<1>5. StateMatchesPlace
  <2>1. \A c \in CPU : \A s \in Range(idle[c]) : state[s] # MEM_INUSE
    <3>1. \A c \in CPU : Range(idle[c]) \subseteq Slot
      BY <1>1, RangeOfSeq DEF Inv2, Inv1, TypeOK
    <3> QED
      BY <3>1 DEF Init, MEM_FREE, MEM_INUSE
  <2>2. \A p \in Producer : ~ InHand(p)
    BY DEF Init, InHand
  <2> QED
    BY <1>2, <2>1, <2>2 DEF StateMatchesPlace
<1>6. Unbroken
  BY <1>2 DEF Init, Unbroken
<1> QED
  BY <1>1, <1>2, <1>4, <1>5, <1>6 DEF Inv3, SlotConservation, RecycleInv, Inv2

\* A step that moves no index keeps every index in its place.
LEMMA SamePlaces ==
  ASSUME Inv3, UNCHANGED <<idle, ready, arr, held, rset, pcpu, cand>>,
         \A p \in Producer : InHand(p)' = InHand(p)
  PROVE  /\ NoDuplicates' /\ OnePlace' /\ NoLeak'
         /\ Lent' = Lent
<1>1. \A c \in CPU : Hand(c)' = Hand(c)
  BY DEF Hand
<1>2. Lent' = Lent
  BY DEF Lent
<1>3. NoDuplicates'
  BY DEF Inv3, SlotConservation, NoDuplicates
<1>4. OnePlace'
  BY <1>1, <1>2 DEF Inv3, SlotConservation, OnePlace
<1>5. NoLeak'
  BY <1>1, <1>2 DEF Inv3, SlotConservation, NoLeak
<1> QED
  BY <1>2, <1>3, <1>4, <1>5

\* ip_queue_put takes an index from idle into its hand.
LEMMA TakeKeepsPlaces ==
  ASSUME Inv3, NEW p \in Producer, NEW c \in CPU, PutGet(p, c)
  PROVE  NoDuplicates' /\ OnePlace' /\ NoLeak' /\ StateMatchesPlace'
<1>1. /\ ppc \in [Producer -> {"out", "count", "enter", "check", "fill", "publish", "putback", "alarm", "wake"}]
      /\ pcpu \in [Producer -> CPU] /\ cand \in [Producer -> Slot]
      /\ idle \in [CPU -> Seq(Slot)] /\ ready \in [CPU -> Seq(Slot)]
  BY DEF Inv3, Inv2, Inv1, TypeOK
<1>2. ppc[p] = "enter" /\ ~ InHand(p) /\ Hand(c) = {}
  BY DEF PutGet, Occupied, Hand, InHand, InSection
<1>3. UNCHANGED <<ready, state, arr, held, rset, rpc, ritem>> /\ Lent' = Lent
  BY DEF PutGet, fetchVars, recVars, Lent
<1>4. CASE idle[c] = << >>
  <2>1. idle' = idle /\ ~ InHand(p)' /\ \A q \in Producer : q # p => ppc'[q] = ppc[q] /\ pcpu'[q] = pcpu[q] /\ cand'[q] = cand[q]
    BY <1>1, <1>4 DEF PutGet, TakeIdle, NoIdle, InHand
  <2>2. \A d \in CPU : Hand(d)' = Hand(d)
    BY <1>2, <2>1 DEF Hand, InHand
  <2>3. NoDuplicates' /\ OnePlace' /\ NoLeak'
    BY <1>3, <2>1, <2>2 DEF Inv3, SlotConservation, NoDuplicates, OnePlace, NoLeak
  <2>4. StateMatchesPlace'
    BY <1>3, <2>1 DEF Inv3, SlotConservation, StateMatchesPlace, InHand
  <2> QED
    BY <2>3, <2>4
<1>5. CASE idle[c] # << >>
  <2> DEFINE h == Head(idle[c])
             t == Tail(idle[c])
  <2>1. /\ ppc' = [ppc EXCEPT ![p] = "check"] /\ pcpu' = [pcpu EXCEPT ![p] = c]
        /\ cand' = [cand EXCEPT ![p] = h] /\ idle' = [idle EXCEPT ![c] = t]
    BY <1>5 DEF PutGet, TakeIdle, NoIdle
  <2>2. /\ Range(idle[c]) = Range(t) \cup {h} /\ h \in Range(idle[c])
        /\ h \notin Range(t) /\ IsInjective(t)
    BY <1>1, <1>5, GetProperties DEF Inv3, SlotConservation, NoDuplicates
  <2>3. /\ idle'[c] = t /\ \A d \in CPU : d # c => idle'[d] = idle[d]
        /\ ppc'[p] = "check" /\ pcpu'[p] = c /\ cand'[p] = h
        /\ \A q \in Producer : q # p => ppc'[q] = ppc[q] /\ pcpu'[q] = pcpu[q] /\ cand'[q] = cand[q]
    BY <1>1, <2>1
  <2> HIDE DEF h, t
  <2>4. Hand(c)' = {h} /\ \A d \in CPU : d # c => Hand(d)' = Hand(d)
    <3>1. \A q \in Producer : q # p => ~ (InHand(q) /\ pcpu[q] = c)
      BY <1>2 DEF Hand
    <3> QED
      BY <1>2, <2>3, <3>1 DEF Hand, InHand
  <2>5. NoDuplicates'
    BY <1>3, <2>2, <2>3 DEF Inv3, SlotConservation, NoDuplicates
  <2>6. OnePlace'
    BY <1>2, <1>3, <2>2, <2>3, <2>4 DEF Inv3, SlotConservation, OnePlace
  <2>7. NoLeak'
    BY <1>2, <1>3, <2>2, <2>3, <2>4 DEF Inv3, SlotConservation, NoLeak
  <2>8. StateMatchesPlace'
    <3>1. state[h] # MEM_INUSE
      BY <2>2 DEF Inv3, SlotConservation, StateMatchesPlace
    <3>2. \A d \in CPU : Range(idle'[d]) \subseteq Range(idle[d])
      BY <2>2, <2>3
    <3>3. \A q \in Producer : InHand(q)' => (state[cand'[q]] = MEM_INUSE <=> ppc'[q] = "publish")
      BY <2>3, <3>1 DEF Inv3, SlotConservation, StateMatchesPlace, InHand
    <3> QED
      BY <1>3, <3>2, <3>3 DEF Inv3, SlotConservation, StateMatchesPlace
  <2> QED
    BY <2>5, <2>6, <2>7, <2>8
<1> QED
  BY <1>4, <1>5

\* ip_queue_put fills the slot it holds: no other place has this slot.
LEMMA FillKeepsPlaces ==
  ASSUME Inv3, NEW p \in Producer, PutFill(p)
  PROVE  NoDuplicates' /\ OnePlace' /\ NoLeak' /\ StateMatchesPlace'
<1>1. /\ ppc \in [Producer -> {"out", "count", "enter", "check", "fill", "publish", "putback", "alarm", "wake"}]
      /\ pcpu[p] \in CPU /\ cand \in [Producer -> Slot] /\ state \in [Slot -> MemState]
      /\ idle \in [CPU -> Seq(Slot)] /\ ready \in [CPU -> Seq(Slot)]
      /\ arr \in Seq(Slot) /\ held \subseteq Slot /\ rset \subseteq Slot
  BY DEF Inv3, Inv2, Inv1, TypeOK, SlotConservation, Unbroken
<1>2. ppc[p] = "fill" /\ InHand(p) /\ Hand(pcpu[p]) = {cand[p]}
  BY OneHand DEF PutFill, InHand, Inv3
<1>3. /\ ppc'[p] = "publish" /\ \A q \in Producer : q # p => ppc'[q] = ppc[q]
      /\ state'[cand[p]] = MEM_INUSE /\ \A s \in Slot : s # cand[p] => state'[s] = state[s]
  BY <1>1 DEF PutFill
<1>4. /\ UNCHANGED <<idle, ready, arr, held, rset, pcpu, cand, rpc, ritem>>
      /\ \A q \in Producer : InHand(q)' = InHand(q)
  BY <1>2, <1>3 DEF PutFill, fetchVars, recVars, InHand
<1>5. NoDuplicates' /\ OnePlace' /\ NoLeak' /\ Lent' = Lent
  BY <1>4, SamePlaces
<1>6. \A c \in CPU : cand[p] \notin Range(idle[c]) /\ cand[p] \notin Range(ready[c])
  BY <1>1, <1>2, PlacesDiffer DEF Inv3, SlotConservation, OnePlace
<1>7. cand[p] \notin Lent
  BY <1>1, <1>2 DEF Inv3, SlotConservation, OnePlace
<1>8. \A q \in Producer : q # p /\ InHand(q) => cand[q] # cand[p]
  BY <1>2, HandsDiffer DEF Inv3
<1>9. /\ \A c \in CPU : Range(idle[c]) \subseteq Slot /\ Range(ready[c]) \subseteq Slot
      /\ Lent \subseteq Slot
  BY <1>1, RangeOfSeq DEF Lent
<1>10. \A q \in Producer : InHand(q)' => (state'[cand'[q]] = MEM_INUSE <=> ppc'[q] = "publish")
  <2> SUFFICES ASSUME NEW q \in Producer, InHand(q)
               PROVE  state'[cand'[q]] = MEM_INUSE <=> ppc'[q] = "publish"
    BY <1>4
  <2>1. CASE q = p
    BY <1>3, <1>4, <2>1
  <2>2. CASE q # p
    <3>1. state'[cand[q]] = state[cand[q]] /\ ppc'[q] = ppc[q] /\ cand'[q] = cand[q]
      BY <1>1, <1>3, <1>4, <1>8, <2>2
    <3> QED
      BY <3>1 DEF Inv3, SlotConservation, StateMatchesPlace
  <2> QED
    BY <2>1, <2>2
<1>11. StateMatchesPlace'
  <2>1. \A c \in CPU : /\ \A s \in Range(idle[c]) : state'[s] # MEM_INUSE
                       /\ \A s \in Range(ready[c]) : state'[s] = MEM_INUSE
    BY <1>3, <1>6, <1>9 DEF Inv3, SlotConservation, StateMatchesPlace
  <2>2. \A s \in Lent : state'[s] = MEM_INUSE <=> ~ (rpc = "put" /\ s = ritem)
    BY <1>3, <1>7, <1>9 DEF Inv3, SlotConservation, StateMatchesPlace
  <2> QED
    BY <1>4, <1>5, <1>10, <2>1, <2>2 DEF StateMatchesPlace
<1> QED
  BY <1>5, <1>11

\* ip_queue_put always finds room in the ready list for the slot it holds.
LEMMA PublishHasRoom ==
  ASSUME Inv3, NEW p \in Producer, PutPublish(p)
  PROVE  /\ ready' = [ready EXCEPT ![pcpu[p]] = kfifo_put(ready[pcpu[p]], Cap[pcpu[p]], cand[p])]
         /\ idle' = idle
         /\ Len(ready[pcpu[p]]) < Cap[pcpu[p]]
         /\ cand[p] \notin Range(ready[pcpu[p]])
         /\ ppc' = [ppc EXCEPT ![p] = "alarm"] /\ cand' = [cand EXCEPT ![p] = 0]
<1>1. pcpu[p] \in CPU /\ ready[pcpu[p]] \in Seq(Slot)
  BY DEF Inv3, Inv2, Inv1, TypeOK
<1>2. InHand(p) /\ Hand(pcpu[p]) = {cand[p]}
  BY OneHand DEF PutPublish, InHand, Inv3
<1>3. cand[p] \in OwnSlots(pcpu[p]) /\ Range(ready[pcpu[p]]) \subseteq OwnSlots(pcpu[p])
  BY <1>1, <1>2 DEF Inv3, SlotConservation, OwnRange
<1>4. cand[p] \notin Range(ready[pcpu[p]]) /\ IsInjective(ready[pcpu[p]])
  BY <1>1, <1>2 DEF Inv3, SlotConservation, OnePlace, NoDuplicates
<1>5. Len(ready[pcpu[p]]) < Cap[pcpu[p]]
  BY <1>1, <1>3, <1>4, RoomLeft
<1> QED
  BY <1>4, <1>5 DEF PutPublish

\* ip_queue_put hands the slot from its hand to the ready list.
LEMMA PublishKeepsPlaces ==
  ASSUME Inv3, NEW p \in Producer, PutPublish(p)
  PROVE  NoDuplicates' /\ OnePlace' /\ NoLeak' /\ StateMatchesPlace'
<1>1. /\ ppc \in [Producer -> {"out", "count", "enter", "check", "fill", "publish", "putback", "alarm", "wake"}]
      /\ pcpu \in [Producer -> CPU] /\ cand \in [Producer -> Slot]
      /\ idle \in [CPU -> Seq(Slot)] /\ ready \in [CPU -> Seq(Slot)]
  BY DEF Inv3, Inv2, Inv1, TypeOK
<1>2. PICK c \in CPU : c = pcpu[p]
  BY <1>1
<1>3. PICK s \in Slot : s = cand[p]
  BY <1>1
<1>4. PICK r \in Seq(Slot) : r = kfifo_put(ready[c], Cap[c], s)
  BY <1>1, PutProperties
<1>5. /\ ready' = [ready EXCEPT ![c] = r] /\ idle' = idle
      /\ Range(r) = Range(ready[c]) \cup {s} /\ IsInjective(r)
  <2>1. s \notin Range(ready[c]) /\ Len(ready[c]) < Cap[c] /\ IsInjective(ready[c])
    BY <1>2, <1>3, PublishHasRoom DEF Inv3, SlotConservation, NoDuplicates
  <2>2. ready' = [ready EXCEPT ![c] = r] /\ idle' = idle
    BY <1>2, <1>3, <1>4, PublishHasRoom
  <2>3. Range(r) = Range(ready[c]) \cup {s} /\ IsInjective(r)
    BY <1>1, <1>4, <2>1, PutProperties
  <2> QED
    BY <2>2, <2>3
<1>6. ppc[p] = "publish" /\ InHand(p) /\ Hand(c) = {s}
  BY <1>2, <1>3, OneHand DEF PutPublish, InHand, Inv3
<1>7. /\ ppc'[p] = "alarm" /\ pcpu' = pcpu
      /\ \A q \in Producer : q # p => ppc'[q] = ppc[q] /\ cand'[q] = cand[q]
  BY <1>1, PublishHasRoom DEF PutPublish
<1>8. UNCHANGED <<state, arr, held, rset, rpc, ritem>> /\ Lent' = Lent
  BY DEF PutPublish, fetchVars, recVars, Lent
<1>9. Hand(c)' = {} /\ \A d \in CPU : d # c => Hand(d)' = Hand(d)
  <2>1. \A q \in Producer : InHand(q) /\ pcpu[q] = c => q = p
    BY <1>2, <1>6 DEF Inv3, Inv2, SectionExclusive, InSection, InHand
  <2> QED
    BY <1>2, <1>7, <2>1 DEF Hand, InHand
<1>10. ready'[c] = r /\ \A d \in CPU : d # c => ready'[d] = ready[d]
  BY <1>1, <1>5
<1>11. NoDuplicates'
  BY <1>5, <1>8, <1>10 DEF Inv3, SlotConservation, NoDuplicates
<1>12. OnePlace'
  BY <1>5, <1>6, <1>8, <1>9, <1>10 DEF Inv3, SlotConservation, OnePlace
<1>13. NoLeak'
  BY <1>5, <1>6, <1>8, <1>9, <1>10 DEF Inv3, SlotConservation, NoLeak
<1>14. StateMatchesPlace'
  <2>1. state[s] = MEM_INUSE
    BY <1>3, <1>6 DEF Inv3, SlotConservation, StateMatchesPlace
  <2>2. \A q \in Producer : InHand(q)' => (state[cand'[q]] = MEM_INUSE <=> ppc'[q] = "publish")
    BY <1>7 DEF Inv3, SlotConservation, StateMatchesPlace, InHand
  <2> QED
    BY <1>5, <1>8, <1>10, <2>1, <2>2 DEF Inv3, SlotConservation, StateMatchesPlace
<1> QED
  BY <1>11, <1>12, <1>13, <1>14

\* Nobody puts an index back, and every index ip_queue_recycle is given is one
\* of the area.
LEMMA NoWildSteps ==
  ASSUME Inv3
  PROVE  /\ \A p \in Producer : ~ PutBack(p)
         /\ \A i \in rset : ~ RecycleBeyond(i)
         /\ \A c \in CPU : ~ PuttingBack(c)
  BY DEF Inv3, SlotConservation, Unbroken, PutBack, RecycleBeyond, PuttingBack

\* ip_queue_put finds the slot it took free: no used slot is ever idle.
LEMMA PutKeepsPlaces ==
  ASSUME Inv3, NEW p \in Producer, Put(p)
  PROVE  NoDuplicates' /\ OnePlace' /\ NoLeak' /\ StateMatchesPlace'
<1>1. /\ ppc \in [Producer -> {"out", "count", "enter", "check", "fill", "publish", "putback", "alarm", "wake"}]
      /\ pcpu \in [Producer -> CPU] /\ cand \in [Producer -> Slot]
  BY DEF Inv3, Inv2, Inv1, TypeOK
<1>2. ASSUME UNCHANGED <<idle, ready, arr, held, rset, pcpu, cand, state, rpc, ritem>>,
             \A q \in Producer : InHand(q)' = InHand(q),
             \A q \in Producer : InHand(q) => (ppc'[q] = "publish" <=> ppc[q] = "publish")
      PROVE  NoDuplicates' /\ OnePlace' /\ NoLeak' /\ StateMatchesPlace'
  <2>1. NoDuplicates' /\ OnePlace' /\ NoLeak' /\ Lent' = Lent
    BY <1>2, SamePlaces
  <2>2. StateMatchesPlace'
    BY <1>2, <2>1 DEF Inv3, SlotConservation, StateMatchesPlace
  <2> QED
    BY <2>1, <2>2
<1>3. CASE PutLoad(p) \/ PutCount(p) \/ PutWake(p)
  BY <1>1, <1>2, <1>3 DEF PutLoad, PutCount, PutWake, InHand, slotVars, fetchVars, recVars
<1>4. ~ PutRetry(p)
  BY DEF PutRetry, InHand, Inv3, SlotConservation, StateMatchesPlace
<1>5. CASE PutCheck(p)
  BY <1>1, <1>2, <1>5 DEF PutCheck, InHand, slotVars, fetchVars, recVars
<1>6. CASE PutAlarm(p)
  <2>1. /\ UNCHANGED <<idle, ready, arr, held, rset, cand, state, rpc, ritem>>
        /\ \A q \in Producer : InHand(q)' = InHand(q) /\ (InHand(q) => pcpu'[q] = pcpu[q] /\ ppc'[q] = ppc[q])
    BY <1>1, <1>6 DEF PutAlarm, InHand, slotVars, fetchVars, recVars
  <2>2. Lent' = Lent /\ \A d \in CPU : Hand(d)' = Hand(d)
    BY <2>1 DEF Lent, Hand
  <2>3. NoDuplicates' /\ OnePlace' /\ NoLeak'
    BY <2>1, <2>2 DEF Inv3, SlotConservation, NoDuplicates, OnePlace, NoLeak
  <2>4. StateMatchesPlace'
    BY <2>1, <2>2 DEF Inv3, SlotConservation, StateMatchesPlace
  <2> QED
    BY <2>3, <2>4
<1> QED
  BY <1>3, <1>4, <1>5, <1>6, NoWildSteps, TakeKeepsPlaces, FillKeepsPlaces, PublishKeepsPlaces DEF Put

\* One turn of ip_queue_move2dma: the head of a ready list goes to idx_array.
LEMMA MoveKeepsPlaces ==
  ASSUME Inv3, FetchMove
  PROVE  NoDuplicates' /\ OnePlace' /\ NoLeak' /\ StateMatchesPlace'
<1>1. /\ arr \in Seq(Slot) /\ ready \in [CPU -> Seq(Slot)] /\ Inv1
  BY DEF Inv3, Inv2, Inv1, TypeOK
<1>2. PICK c \in CPU : c = fcur
  BY DEF Inv3, Inv2, Inv1, TypeOK
<1>3. PICK a \in Seq(Slot) : a = SubSeq(ready[c], 1, Moved)
  BY <1>1, <1>2, MovedProperties DEF FetchMove
<1>4. PICK b \in Seq(Slot) : b = kfifo_out(ready[c], Moved)
  BY <1>1, <1>2, MovedProperties DEF FetchMove
<1>5. /\ Range(ready[c]) = Range(a) \cup Range(b) /\ Range(a) \cap Range(b) = {}
      /\ IsInjective(a) /\ IsInjective(b)
  <2>1. Moved \in 0 .. Len(ready[c]) /\ ready[c] \in Seq(Slot) /\ IsInjective(ready[c])
    BY <1>1, <1>2, MovedProperties DEF FetchMove, Inv3, SlotConservation, NoDuplicates
  <2> QED
    BY <1>3, <1>4, <2>1, OutProperties
<1>6. Range(arr) \cap Range(a) = {} /\ IsInjective(arr)
  BY <1>5 DEF Inv3, SlotConservation, OnePlace, NoDuplicates, Lent
<1>7. Range(arr \o a) = Range(arr) \cup Range(a) /\ IsInjective(arr \o a)
  BY <1>1, <1>5, <1>6, JoinProperties
<1>8. arr' = arr \o a /\ ready'[c] = b /\ \A d \in CPU : d # c => ready'[d] = ready[d]
  BY <1>1, <1>2, <1>3, <1>4 DEF FetchMove
<1>9. UNCHANGED <<idle, state, prodVars, held, rset, rpc, ritem>>
  BY DEF FetchMove, recVars
<1>10. /\ \A d \in CPU : Hand(d)' = Hand(d)
       /\ Lent' = Lent \cup Range(a)
  BY <1>7, <1>8, <1>9 DEF Hand, InHand, Lent, prodVars
<1>11. NoDuplicates'
  BY <1>5, <1>7, <1>8, <1>9 DEF Inv3, SlotConservation, NoDuplicates
<1>12. OnePlace'
  <2>1. ASSUME NEW d \in CPU
        PROVE  /\ (Range(idle[d]) \cap Range(ready[d]) = {})'
               /\ (Range(idle[d]) \cap Hand(d) = {})'
               /\ (Range(ready[d]) \cap Hand(d) = {})'
               /\ (Lent \cap (Range(idle[d]) \cup Range(ready[d]) \cup Hand(d)) = {})'
    <3>1. CASE d = c
      <4>1. /\ ready'[d] = b /\ idle'[d] = idle[d] /\ Hand(d)' = Hand(d)
            /\ Lent' = Lent \cup Range(a) /\ Range(ready[d]) = Range(a) \cup Range(b)
        BY <1>5, <1>8, <1>9, <1>10, <3>1
      <4>2. /\ Range(idle[d]) \cap Range(ready[d]) = {} /\ Range(idle[d]) \cap Hand(d) = {}
            /\ Range(ready[d]) \cap Hand(d) = {}
            /\ Lent \cap (Range(idle[d]) \cup Range(ready[d]) \cup Hand(d)) = {}
        BY DEF Inv3, SlotConservation, OnePlace
      <4> QED
        BY <1>5, <4>1, <4>2
    <3>2. CASE d # c
      <4>1. Range(a) \cap (Range(idle[d]) \cup Range(ready[d]) \cup Hand(d)) = {}
        BY <1>5, <3>2, PlacesDiffer
      <4> QED
        BY <1>8, <1>9, <1>10, <3>2, <4>1 DEF Inv3, SlotConservation, OnePlace
    <3> QED
      BY <3>1, <3>2
  <2>2. (Range(arr) \cap held = {})' /\ (Range(arr) \cap rset = {})' /\ (held \cap rset = {})'
    <3>1. Range(a) \cap held = {} /\ Range(a) \cap rset = {}
      BY <1>5 DEF Inv3, SlotConservation, OnePlace, Lent
    <3> QED
      BY <1>7, <1>8, <1>9, <3>1 DEF Inv3, SlotConservation, OnePlace
  <2> QED
    BY <2>1, <2>2 DEF OnePlace
<1>13. NoLeak'
  BY <1>5, <1>8, <1>9, <1>10 DEF Inv3, SlotConservation, NoLeak
<1>14. StateMatchesPlace'
  <2>1. \A s \in Range(a) : state[s] = MEM_INUSE /\ ~ (rpc = "put" /\ s = ritem)
    BY <1>5 DEF Inv3, SlotConservation, OnePlace, StateMatchesPlace, RecycleInv, Lent
  <2> QED
    BY <1>5, <1>8, <1>9, <1>10, <2>1 DEF Inv3, SlotConservation, StateMatchesPlace, InHand, prodVars
<1> QED
  BY <1>11, <1>12, <1>13, <1>14

\* ips_fetch returns: what is in idx_array is now with the user.
LEMMA ReturnKeepsPlaces ==
  ASSUME Inv3, FetchReturn
  PROVE  NoDuplicates' /\ OnePlace' /\ NoLeak' /\ StateMatchesPlace'
<1>1. Range(arr') = {} /\ IsInjective(arr')
  BY EmptySeq, LenProperties DEF FetchReturn, Range, IsInjective
<1>2. UNCHANGED <<idle, ready, state, prodVars, rset, rpc, ritem>> /\ held' = held \cup Range(arr)
  BY DEF FetchReturn, recVars, slotVars
<1>3. /\ \A d \in CPU : Hand(d)' = Hand(d)
      /\ Lent' = Lent
  BY <1>1, <1>2 DEF Hand, InHand, Lent, prodVars
<1>4. NoDuplicates'
  BY <1>1, <1>2 DEF Inv3, SlotConservation, NoDuplicates
<1>5. OnePlace'
  BY <1>1, <1>2, <1>3 DEF Inv3, SlotConservation, OnePlace
<1>6. NoLeak'
  BY <1>2, <1>3 DEF Inv3, SlotConservation, NoLeak
<1>7. StateMatchesPlace'
  BY <1>2, <1>3 DEF Inv3, SlotConservation, StateMatchesPlace, InHand, prodVars
<1> QED
  BY <1>4, <1>5, <1>6, <1>7

\* The other steps of ips_fetch leave the indexes alone.
LEMMA FetchKeepsPlaces ==
  ASSUME Inv3, FetchStep \/ FetchTimeout \/ FetchSignal
  PROVE  NoDuplicates' /\ OnePlace' /\ NoLeak' /\ StateMatchesPlace'
<1>1. ASSUME UNCHANGED <<slotVars, prodVars, arr, held, recVars>>
      PROVE  NoDuplicates' /\ OnePlace' /\ NoLeak' /\ StateMatchesPlace'
  <2>1. /\ UNCHANGED <<idle, ready, state, arr, held, rset, rpc, ritem, ppc, pcpu, cand>>
        /\ \A q \in Producer : InHand(q)' = InHand(q)
    BY <1>1 DEF slotVars, prodVars, recVars, InHand
  <2>2. NoDuplicates' /\ OnePlace' /\ NoLeak' /\ Lent' = Lent
    BY <2>1, SamePlaces
  <2>3. StateMatchesPlace'
    BY <2>1, <2>2 DEF Inv3, SlotConservation, StateMatchesPlace
  <2> QED
    BY <2>2, <2>3
<1>2. CASE FetchCall \/ FetchWoken \/ FetchHasData \/ FetchReset \/ FetchTimeout \/ FetchSignal
  BY <1>1, <1>2 DEF FetchCall, FetchWoken, WaitLook, FetchHasData, FetchReset, FetchTimeout,
     FetchSignal, FetchGoto
<1> QED
  BY <1>2, MoveKeepsPlaces, ReturnKeepsPlaces DEF FetchStep

\* The user frees indexes he was given: ip_queue_recycle has them now.
LEMMA FreeKeepsPlaces ==
  ASSUME Inv3, ~ Careless, Free
  PROVE  NoDuplicates' /\ OnePlace' /\ NoLeak' /\ StateMatchesPlace' /\ RecycleInv'
<1>1. PICK S \in SUBSET held : S # {} /\ FreeCall(S)
  BY DEF Free, Freeable
<1>2. /\ rpc = "user" /\ rset = {} /\ rpc' = "next" /\ rset' = S /\ held' = held \ S
      /\ UNCHANGED <<idle, ready, state, arr, prodVars>>
  BY <1>1 DEF FreeCall, Inv3, RecycleInv, slotVars, fetchVars
<1>3. /\ \A d \in CPU : Hand(d)' = Hand(d)
      /\ Lent' = Lent
  BY <1>2 DEF Hand, InHand, Lent, prodVars
<1>4. NoDuplicates'
  BY <1>2 DEF Inv3, SlotConservation, NoDuplicates
<1>5. OnePlace'
  BY <1>2, <1>3 DEF Inv3, SlotConservation, OnePlace
<1>6. NoLeak'
  BY <1>2, <1>3 DEF Inv3, SlotConservation, NoLeak
<1>7. StateMatchesPlace'
  BY <1>2, <1>3 DEF Inv3, SlotConservation, StateMatchesPlace, InHand, prodVars
<1>8. RecycleInv'
  BY <1>2 DEF RecycleInv
<1> QED
  BY <1>4, <1>5, <1>6, <1>7, <1>8

\* ip_queue_recycle marks a slot; its index stays with it.
LEMMA MarkKeepsPlaces ==
  ASSUME Inv3, NEW i \in rset, RecycleMark(i)
  PROVE  NoDuplicates' /\ OnePlace' /\ NoLeak' /\ StateMatchesPlace' /\ RecycleInv'
<1>1. /\ state \in [Slot -> MemState] /\ rset \subseteq Slot /\ i \in Slot
      /\ cand \in [Producer -> Slot] /\ pcpu \in [Producer -> CPU]
      /\ idle \in [CPU -> Seq(Slot)] /\ ready \in [CPU -> Seq(Slot)]
      /\ arr \in Seq(Slot) /\ held \subseteq Slot
  BY DEF Inv3, Inv2, Inv1, TypeOK, SlotConservation, Unbroken
<1>2. /\ rpc = "next" /\ rpc' = "put" /\ ritem' = i /\ rset' = rset
      /\ state'[i] # MEM_INUSE /\ \A s \in Slot : s # i => state'[s] = state[s]
  BY <1>1 DEF RecycleMark, MEM_USED, MEM_INUSE
<1>3. UNCHANGED <<idle, ready, arr, held, rset, pcpu, cand, ppc>> /\ \A q \in Producer : InHand(q)' = InHand(q)
  BY DEF RecycleMark, prodVars, fetchVars, InHand
<1>4. NoDuplicates' /\ OnePlace' /\ NoLeak' /\ Lent' = Lent
  BY <1>3, SamePlaces
<1>5. /\ i \in Lent
      /\ \A c \in CPU : i \notin Range(ready[c]) /\ i \notin Hand(c)
  BY DEF Lent, Inv3, SlotConservation, OnePlace
<1>6. /\ \A c \in CPU : Range(idle[c]) \subseteq Slot /\ Range(ready[c]) \subseteq Slot
      /\ Lent \subseteq Slot
  BY <1>1, RangeOfSeq DEF Lent
<1>7. \A q \in Producer : InHand(q) => cand[q] # i
  BY <1>1, <1>5 DEF Hand
<1>8. StateMatchesPlace'
  <2>1. \A c \in CPU : /\ \A s \in Range(idle[c]) : state'[s] # MEM_INUSE
                       /\ \A s \in Range(ready[c]) : state'[s] = MEM_INUSE
    BY <1>2, <1>5, <1>6 DEF Inv3, SlotConservation, StateMatchesPlace
  <2>2. \A q \in Producer : InHand(q) => (state'[cand[q]] = MEM_INUSE <=> ppc[q] = "publish")
    BY <1>1, <1>2, <1>7 DEF Inv3, SlotConservation, StateMatchesPlace
  <2>3. \A s \in Lent : state'[s] = MEM_INUSE <=> s # i
    BY <1>2, <1>6 DEF Inv3, SlotConservation, StateMatchesPlace
  <2> QED
    BY <1>2, <1>3, <1>4, <2>1, <2>2, <2>3 DEF StateMatchesPlace
<1>9. RecycleInv'
  BY <1>2 DEF RecycleInv
<1> QED
  BY <1>4, <1>8, <1>9

\* ip_queue_recycle always finds room in the idle list of the owner.
LEMMA RecycleHasRoom ==
  ASSUME Inv3, NEW c \in CPU, RecyclePut(c)
  PROVE  /\ ritem \in rset /\ ritem \in OwnSlots(c)
         /\ idle[c] \in Seq(Slot) /\ ritem \in Slot /\ ritem \notin Range(idle[c])
         /\ Len(idle[c]) < Cap[c]
<1>1. ritem \in Slot /\ idle[c] \in Seq(Slot)
  BY DEF Inv3, Inv2, Inv1, TypeOK
<1>2. ritem \in OwnSlots(c)
  <2>1. ritem \in Int /\ Start[c] \in Nat /\ End[c] \in Nat
    BY <1>1, LayoutAssumption DEF Slot
  <2>2. ritem >= Start[c] /\ ritem < End[c]
    BY DEF RecyclePut, Owns
  <2> QED
    BY <2>1, <2>2 DEF OwnSlots, Range2Slots
<1>3. ritem \in rset
  BY DEF RecyclePut, Inv3, RecycleInv
<1>4. ritem \notin Range(idle[c]) /\ IsInjective(idle[c]) /\ Range(idle[c]) \subseteq OwnSlots(c)
  BY <1>3 DEF Inv3, SlotConservation, OnePlace, NoDuplicates, OwnRange, Lent
<1> QED
  BY <1>1, <1>2, <1>3, <1>4, RoomLeft

\* ip_queue_recycle gives a slot back to its owner.
LEMMA GiveBackKeepsPlaces ==
  ASSUME Inv3, NEW c \in CPU, RecyclePut(c)
  PROVE  NoDuplicates' /\ OnePlace' /\ NoLeak' /\ StateMatchesPlace' /\ RecycleInv'
<1>1. idle \in [CPU -> Seq(Slot)]
  BY DEF Inv3, Inv2, Inv1, TypeOK
<1>2. PICK s \in Slot : s = ritem
  BY RecycleHasRoom
<1>3. PICK r \in Seq(Slot) : r = kfifo_put(idle[c], Cap[c], s)
  BY <1>1, PutProperties
<1>4. /\ s \in rset /\ s \in OwnSlots(c) /\ s \notin Range(idle[c]) /\ IsInjective(idle[c])
      /\ Len(idle[c]) < Cap[c]
  BY <1>2, RecycleHasRoom DEF Inv3, SlotConservation, NoDuplicates
<1>5. Range(r) = Range(idle[c]) \cup {s} /\ IsInjective(r)
  BY <1>1, <1>3, <1>4, PutProperties
<1>6. idle'[c] = r /\ \A d \in CPU : d # c => idle'[d] = idle[d]
  BY <1>1, <1>2, <1>3 DEF RecyclePut
<1>7. /\ rpc = "put" /\ rset' = rset \ {s} /\ rpc' # "put"
      /\ rpc' = "user" => rset' = {}
      /\ UNCHANGED <<ready, state, prodVars, arr, held>>
  BY <1>2 DEF RecyclePut, RecycleDone, fetchVars
<1>8. \A d \in CPU : Hand(d)' = Hand(d)
  BY <1>7 DEF Hand, InHand, prodVars
<1>9. /\ Lent = Lent' \cup {s} /\ s \notin Lent'
      /\ \A d \in CPU : s \notin Range(ready[d]) /\ s \notin Hand(d)
  <2>1. s \notin Range(arr) /\ s \notin held
    BY <1>4 DEF Inv3, SlotConservation, OnePlace
  <2>2. s \in Lent
    BY <1>4 DEF Lent
  <2> QED
    BY <1>4, <1>7, <2>1, <2>2 DEF Lent, Inv3, SlotConservation, OnePlace
<1>10. NoDuplicates'
  BY <1>5, <1>6, <1>7 DEF Inv3, SlotConservation, NoDuplicates
<1>11. OnePlace'
  <2>1. ASSUME NEW d \in CPU
        PROVE  /\ (Range(idle[d]) \cap Range(ready[d]) = {})'
               /\ (Range(idle[d]) \cap Hand(d) = {})'
               /\ (Range(ready[d]) \cap Hand(d) = {})'
               /\ (Lent \cap (Range(idle[d]) \cup Range(ready[d]) \cup Hand(d)) = {})'
    <3>1. /\ Range(idle'[d]) \subseteq Range(idle[d]) \cup {s}
          /\ ready'[d] = ready[d] /\ Hand(d)' = Hand(d)
      BY <1>5, <1>6, <1>7, <1>8
    <3>2. /\ Range(idle[d]) \cap Range(ready[d]) = {} /\ Range(idle[d]) \cap Hand(d) = {}
          /\ Range(ready[d]) \cap Hand(d) = {}
          /\ Lent \cap (Range(idle[d]) \cup Range(ready[d]) \cup Hand(d)) = {}
      BY DEF Inv3, SlotConservation, OnePlace
    <3> QED
      BY <1>9, <3>1, <3>2
  <2>2. (Range(arr) \cap held = {})' /\ (Range(arr) \cap rset = {})' /\ (held \cap rset = {})'
    BY <1>7 DEF Inv3, SlotConservation, OnePlace
  <2> QED
    BY <2>1, <2>2 DEF OnePlace
<1>12. NoLeak'
  <2> SUFFICES ASSUME NEW d \in CPU, NEW x \in OwnSlots(d)
               PROVE  x \in Range(idle'[d]) \cup Range(ready'[d]) \cup Hand(d)' \cup Lent'
    BY DEF NoLeak
  <2>1. x \in Range(idle[d]) \cup Range(ready[d]) \cup Hand(d) \cup Lent
    BY DEF Inv3, SlotConservation, NoLeak
  <2>2. CASE x = s
    <3>1. d = c
      BY <1>4, <2>2, OwnersDiffer
    <3> QED
      BY <1>5, <1>6, <2>2, <3>1
  <2>3. CASE x # s
    BY <1>5, <1>6, <1>7, <1>8, <1>9, <2>1, <2>3
  <2> QED
    BY <2>2, <2>3
<1>13. StateMatchesPlace'
  <2>1. state[s] # MEM_INUSE
    BY <1>2, <1>7, <1>9 DEF Inv3, SlotConservation, StateMatchesPlace
  <2>2. \A x \in Lent' : state[x] = MEM_INUSE
    BY <1>2, <1>7, <1>9 DEF Inv3, SlotConservation, StateMatchesPlace
  <2> QED
    BY <1>5, <1>6, <1>7, <2>1, <2>2 DEF Inv3, SlotConservation, StateMatchesPlace, InHand, prodVars
<1>14. RecycleInv'
  BY <1>7 DEF RecycleInv
<1> QED
  BY <1>10, <1>11, <1>12, <1>13, <1>14

\* Nor does a step of theirs break anything: two writers of an idle list, an
\* index behind the area or an idx_num beyond the array take a careless user.
LEMMA StepKeepsUnbroken ==
  ASSUME ~ Careless, Inv3, [Next]_vars
  PROVE  Unbroken'
<1>1. /\ ~ broken /\ rset \subseteq Slot /\ held \subseteq Slot
      /\ \A p \in Producer : ppc[p] # "putback"
      /\ ppc \in [Producer -> {"out", "count", "enter", "check", "fill", "publish", "putback", "alarm", "wake"}]
  BY DEF Inv3, SlotConservation, Unbroken, Inv2, Inv1, TypeOK
<1>2. ASSUME UNCHANGED recVars, \A q \in Producer : ppc'[q] # "putback" PROVE Unbroken'
  BY <1>1, <1>2 DEF recVars, Unbroken
<1>3. ASSUME NEW p \in Producer, Put(p) PROVE Unbroken'
  <2>1. CASE PutPublish(p)
    <3>1. \A q \in Producer : ppc'[q] # "putback"
      BY <1>1, <2>1, PublishHasRoom
    <3> QED
      BY <1>2, <2>1, <3>1 DEF PutPublish
  <2>2. CASE ~ PutPublish(p)
    <3>1. /\ UNCHANGED recVars
          /\ \A q \in Producer : ppc'[q] # "putback"
      BY <1>1, <1>3, <2>2, NoWildSteps DEF Put, PutLoad, PutCount, PutGet, PutRetry, TakeIdle,
         PutCheck, PutFill, PutAlarm, PutWake
    <3> QED
      BY <1>2, <3>1
  <2> QED
    BY <2>1, <2>2
<1>4. CASE FetchStep \/ FetchTimeout \/ FetchSignal
  BY <1>1, <1>2, <1>4 DEF FetchStep, FetchCall, FetchWoken, WaitLook, FetchHasData, FetchReset,
     FetchMove, FetchReturn, FetchTimeout, FetchSignal, FetchGoto, prodVars
<1>5. CASE Free
  <2>1. PICK S \in SUBSET held : Cardinality(S) <= Batch /\ FreeCall(S)
    BY <1>5 DEF Free, Freeable
  <2>2. Cardinality(S) \in Nat
    <3>1. 0 \in Int /\ Total - 1 \in Int
      BY LayoutAssumption
    <3>2. IsFiniteSet(Slot)
      BY <3>1, FS_Interval DEF Slot
    <3>3. IsFiniteSet(S)
      BY <1>1, <2>1, <3>2, FS_Subset
    <3> QED
      BY <3>3, FS_CardinalityType
  <2>3. (Cardinality(S) > Batch) = FALSE
    BY <2>1, <2>2, BatchAssumption
  <2> QED
    BY <1>1, <2>1, <2>3 DEF FreeCall, Risk, Unbroken, prodVars
<1>6. CASE RecycleStep
  <2>1. ASSUME NEW i \in rset, RecycleSkip(i) \/ RecycleMark(i)
        PROVE  rset' \subseteq rset /\ UNCHANGED <<ppc, broken>>
    BY <2>1 DEF RecycleSkip, RecycleMark, RecycleDone, prodVars
  <2>2. ASSUME NEW c \in CPU, RecyclePut(c)
        PROVE  rset' \subseteq rset /\ UNCHANGED ppc /\ ~ broken'
    <3>1. PuttingBack(c) = FALSE
      BY NoWildSteps DEF PuttingBack
    <3> QED
      BY <2>2, <3>1 DEF RecyclePut, RecycleDone, Risk, prodVars
  <2>3. rset' \subseteq rset /\ UNCHANGED ppc /\ ~ broken'
    BY <1>1, <1>6, <2>1, <2>2, NoWildSteps DEF RecycleStep
  <2> QED
    BY <1>1, <2>3 DEF Unbroken
<1>7. CASE UNCHANGED vars
  BY <1>1, <1>2, <1>7 DEF vars, prodVars
<1> QED
  BY <1>3, <1>4, <1>5, <1>6, <1>7 DEF Next

LEMMA StepKeepsInv3 ==
  ASSUME ~ Careless, Inv3, [Next]_vars
  PROVE  Inv3'
<1>1. Inv2'
  BY StepKeepsInv1, StepKeepsSection, StepKeepsOwnRange, StepKeepsCheckedFree DEF Inv3, Inv2
<1>2. OwnRange' /\ Unbroken'
  BY <1>1, StepKeepsUnbroken DEF Inv2
<1>3. ASSUME UNCHANGED recVars PROVE RecycleInv'
  BY <1>3 DEF recVars, RecycleInv, Inv3
<1>4. ASSUME NEW p \in Producer, Put(p)
      PROVE  NoDuplicates' /\ OnePlace' /\ NoLeak' /\ StateMatchesPlace' /\ RecycleInv'
  <2>1. UNCHANGED recVars
    BY <1>4, NoWildSteps DEF Put, PutLoad, PutCount, PutGet, PutRetry, PutCheck, PutFill, PutPublish,
       PutAlarm, PutWake
  <2> QED
    BY <1>3, <1>4, <2>1, PutKeepsPlaces
<1>5. CASE FetchStep \/ FetchTimeout \/ FetchSignal
  <2>1. UNCHANGED recVars
    BY <1>5 DEF FetchStep, FetchCall, FetchWoken, WaitLook, FetchHasData, FetchReset, FetchMove,
       FetchReturn, FetchTimeout, FetchSignal, FetchGoto
  <2> QED
    BY <1>1, <1>2, <1>3, <1>5, <2>1, FetchKeepsPlaces DEF Inv3, SlotConservation
<1>6. ASSUME NEW i \in rset PROVE ~ RecycleSkip(i)
  BY <1>6 DEF RecycleSkip, Lent, Inv3, SlotConservation, StateMatchesPlace
<1>7. CASE RecycleStep
  BY <1>1, <1>2, <1>6, <1>7, NoWildSteps, MarkKeepsPlaces, GiveBackKeepsPlaces DEF RecycleStep, Inv3, SlotConservation
<1>8. CASE Free
  BY <1>1, <1>2, <1>8, FreeKeepsPlaces DEF Inv3, SlotConservation
<1>9. CASE UNCHANGED vars
  <2>1. /\ UNCHANGED <<idle, ready, state, arr, held, rset, rpc, ritem, ppc, pcpu, cand>>
        /\ UNCHANGED recVars
        /\ \A q \in Producer : InHand(q)' = InHand(q)
    BY <1>9 DEF vars, slotVars, prodVars, fetchVars, recVars, InHand
  <2>2. NoDuplicates' /\ OnePlace' /\ NoLeak' /\ Lent' = Lent
    BY <2>1, SamePlaces
  <2>3. StateMatchesPlace'
    BY <2>1, <2>2 DEF Inv3, SlotConservation, StateMatchesPlace
  <2> QED
    BY <1>1, <1>2, <1>3, <2>1, <2>2, <2>3 DEF Inv3, SlotConservation
<1>10. CASE \E p \in Producer : Put(p)
  BY <1>1, <1>2, <1>4, <1>10 DEF Inv3, SlotConservation
<1> QED
  BY <1>5, <1>7, <1>8, <1>9, <1>10 DEF Next

LEMMA Inv3Holds ==
  ASSUME ~ Careless
  PROVE  Spec => []Inv3
<1>1. Inv3 /\ [Next]_vars => Inv3'
  BY StepKeepsInv3
<1> QED
  BY InitIsInv3, <1>1, PTL DEF Spec

\* No slot is lost, doubled or in two places, and its state byte says where it
\* is, for every number of CPUs, hooks and slots: ip_queue_put, ip_queue_move2dma
\* and ip_queue_recycle keep it without a lock between them, if the user frees
\* only indexes he was given, and each once.
THEOREM SlotsAreConserved ==
  ASSUME ~ Careless
  PROVE  Spec => []SlotConservation
<1>1. Inv3 => SlotConservation
  BY DEF Inv3
<1> QED
  BY <1>1, Inv3Holds, PTL

\* ip_queue_put fills a slot that is on no list and not with the user.
LEMMA StepKeepsLoans ==
  ASSUME Inv3, [Next]_vars
  PROVE  [\A s \in Slot : SlotOnLoan(s) => info'[s] = info[s]]_vars
<1> SUFFICES ASSUME NEW s \in Slot, SlotOnLoan(s) PROVE info'[s] = info[s]
  OBVIOUS
<1>1. CASE \E p \in Producer : PutFill(p)
  <2>1. PICK p \in Producer : PutFill(p)
    BY <1>1
  <2>2. pcpu[p] \in CPU /\ InHand(p) /\ Hand(pcpu[p]) = {cand[p]}
    BY <2>1, OneHand DEF PutFill, InHand, Inv3, Inv2, Inv1, TypeOK
  <2>3. s # cand[p]
    <3>1. cand[p] \notin Lent
      BY <2>2 DEF Inv3, SlotConservation, OnePlace
    <3>2. \A c \in CPU : cand[p] \notin Range(ready[c])
      BY <2>2, PlacesDiffer DEF Inv3, SlotConservation, OnePlace
    <3> QED
      BY <3>1, <3>2 DEF SlotOnLoan
  <2> QED
    BY <2>1, <2>3 DEF PutFill, Inv3, Inv2, Inv1, TypeOK
<1>2. CASE ~ \E p \in Producer : PutFill(p)
  <2>1. ASSUME NEW p \in Producer, Put(p) PROVE info' = info
    BY <1>2, <2>1 DEF Put, PutLoad, PutCount, PutGet, PutRetry, PutCheck, PutPublish, PutBack, PutAlarm, PutWake, slotVars
  <2>2. CASE FetchStep \/ FetchTimeout \/ FetchSignal
    BY <2>2 DEF FetchStep, FetchCall, FetchWoken, WaitLook, FetchHasData, FetchReset,
       FetchGoto, FetchMove, FetchReturn, FetchTimeout, FetchSignal, slotVars
  <2>3. CASE Free \/ RecycleStep
    BY <2>3 DEF Free, FreeCall, RecycleStep, RecycleSkip, RecycleBeyond, RecycleMark, RecyclePut, slotVars
  <2>4. CASE UNCHANGED vars
    BY <2>4 DEF vars, slotVars
  <2> QED
    BY <2>1, <2>2, <2>3, <2>4 DEF Next
<1> QED
  BY <1>1, <1>2

\* The packet of a slot on its way to the user, with him or on its way back
\* does not change: the memory he maps is only written before he is told of it
\* and after he gave it back.
THEOREM LoansAreStable ==
  ASSUME ~ Careless
  PROVE  Spec => LoanStable
<1>1. Inv3 /\ [Next]_vars => [\A s \in Slot : SlotOnLoan(s) => info'[s] = info[s]]_vars
  BY StepKeepsLoans
<1> QED
  BY <1>1, Inv3Holds, PTL DEF Spec, LoanStable

-----------------------------------------------------------------------------
(***************************************************************************)
(* The refinement of PacketChannel: first where the packets are.           *)
(***************************************************************************)
LEMMA InitIsInv4 == Init => Inv4
<1> SUFFICES ASSUME Init PROVE Inv4
  OBVIOUS
<1>1. Inv3
  BY InitIsInv3
<1>2. ASSUME NEW s \in Slot PROVE ~ SlotOnLoan(s)
  BY EmptySeq, LenProperties DEF Init, SlotOnLoan, Lent, Range
<1>3. npkt = 0 /\ \A p \in Producer : ~ Carries(p) /\ ppc[p] # "publish"
  BY DEF Init, Carries
<1> QED
  BY <1>1, <1>2, <1>3, BoundAssumption DEF Inv4, PacketInv

\* ip_queue_put adds the slot it filled to the ready and lent ones; its other
\* steps leave them as they are.
LEMMA LoansOfPut ==
  ASSUME Inv3, NEW p \in Producer, Put(p), NEW s \in Slot, SlotOnLoan(s)'
  PROVE  SlotOnLoan(s) \/ (PutPublish(p) /\ s = cand[p])
<1>1. /\ ready \in [CPU -> Seq(Slot)] /\ cand \in [Producer -> Slot] /\ pcpu \in [Producer -> CPU]
  BY DEF Inv3, Inv2, Inv1, TypeOK
<1>2. CASE ~ PutPublish(p)
  <2>1. ready' = ready /\ Lent' = Lent
    BY <1>2, NoWildSteps DEF Put, PutLoad, PutCount, PutGet, PutRetry, PutCheck, PutFill, PutAlarm, PutWake,
       slotVars, fetchVars, recVars, Lent
  <2> QED
    BY <2>1 DEF SlotOnLoan
<1>3. CASE PutPublish(p)
  <2>1. PICK c \in CPU : c = pcpu[p]
    BY <1>1
  <2>2. Range(kfifo_put(ready[c], Cap[c], cand[p])) \subseteq Range(ready[c]) \cup {cand[p]}
    BY <1>1, PutProperties
  <2>3. \A d \in CPU : Range(ready'[d]) \subseteq Range(ready[d]) \cup {cand[p]}
    <3>1. ready' = [ready EXCEPT ![c] = kfifo_put(ready[c], Cap[c], cand[p])]
      BY <1>3, <2>1, PublishHasRoom
    <3> QED
      BY <1>1, <2>2, <3>1
  <2>4. Lent' = Lent
    BY <1>3 DEF PutPublish, Lent, fetchVars, recVars
  <2> QED
    BY <1>3, <2>3, <2>4 DEF SlotOnLoan
<1> QED
  BY <1>2, <1>3

\* The steps of the fetcher, the user and the recycler.
OtherStep == FetchStep \/ FetchTimeout \/ FetchSignal \/ Free \/ RecycleStep \/ UNCHANGED vars

\* They pass a slot on or give it back.
LEMMA LoansOfOthers ==
  ASSUME Inv3, ~ Careless, OtherStep, NEW s \in Slot, SlotOnLoan(s)'
  PROVE  SlotOnLoan(s)
<1>1. /\ ready \in [CPU -> Seq(Slot)] /\ arr \in Seq(Slot) /\ Inv1
  BY DEF Inv3, Inv2, Inv1, TypeOK
<1>2. ASSUME ready' = ready, Lent' \subseteq Lent
      PROVE  SlotOnLoan(s)
  BY <1>2 DEF SlotOnLoan
<1>3. CASE FetchMove
  <2>1. PICK c \in CPU : c = fcur
    BY DEF Inv3, Inv2, Inv1, TypeOK
  <2>2. /\ Moved \in 0 .. Len(ready[c]) /\ ready[c] \in Seq(Slot)
        /\ SubSeq(ready[c], 1, Moved) \in Seq(Slot)
    BY <1>1, <1>3, <2>1, MovedProperties DEF FetchMove
  <2>3. /\ Range(ready[c]) = Range(SubSeq(ready[c], 1, Moved)) \cup Range(kfifo_out(ready[c], Moved))
        /\ Range(arr \o SubSeq(ready[c], 1, Moved)) = Range(arr) \cup Range(SubSeq(ready[c], 1, Moved))
    <3>1. Range(ready[c]) = Range(SubSeq(ready[c], 1, Moved)) \cup Range(kfifo_out(ready[c], Moved))
      BY <2>2, OutProperties
    <3>2. PICK a \in Seq(Slot) : a = SubSeq(ready[c], 1, Moved)
      BY <2>2
    <3>3. Range(arr \o a) = Range(arr) \cup Range(a)
      BY <1>1, RangeConcatenation
    <3> QED
      BY <3>1, <3>2, <3>3
  <2>4. /\ arr' = arr \o SubSeq(ready[c], 1, Moved) /\ held' = held /\ rset' = rset
        /\ ready'[c] = kfifo_out(ready[c], Moved) /\ \A d \in CPU : d # c => ready'[d] = ready[d]
    BY <1>1, <1>3, <2>1 DEF FetchMove, recVars
  <2> QED
    BY <2>3, <2>4 DEF SlotOnLoan, Lent
<1>4. CASE FetchReturn
  <2>1. Range(<< >>) = {}
    BY EmptySeq, LenProperties DEF Range
  <2> QED
    BY <1>2, <1>4, <2>1 DEF FetchReturn, Lent, slotVars, recVars
<1>5. CASE FetchCall \/ FetchWoken \/ FetchHasData \/ FetchReset \/ FetchTimeout \/ FetchSignal
  BY <1>2, <1>5 DEF FetchCall, FetchWoken, WaitLook, FetchHasData, FetchReset,
     FetchGoto, FetchTimeout, FetchSignal, slotVars, recVars, Lent
<1>6. CASE Free
  BY <1>2, <1>6 DEF Free, Freeable, FreeCall, slotVars, fetchVars, Lent
<1>7. CASE RecycleStep
  BY <1>2, <1>7 DEF RecycleStep, RecycleSkip, RecycleBeyond, RecycleMark, RecyclePut, RecycleDone, slotVars,
     fetchVars, Lent
<1>8. CASE UNCHANGED vars
  BY <1>2, <1>8 DEF vars, slotVars, fetchVars, recVars, Lent
<1> QED
  BY <1>3, <1>4, <1>5, <1>6, <1>7, <1>8 DEF OtherStep, FetchStep

\* The slot ip_queue_put fills is not ready and not lent.
LEMMA HandIsNotOnLoan ==
  ASSUME Inv3, NEW p \in Producer, InHand(p)
  PROVE  ~ SlotOnLoan(cand[p])
<1>1. pcpu[p] \in CPU /\ Hand(pcpu[p]) = {cand[p]}
  BY OneHand DEF Inv3, Inv2, Inv1, TypeOK
<1>2. cand[p] \notin Lent
  BY <1>1 DEF Inv3, SlotConservation, OnePlace
<1>3. \A c \in CPU : cand[p] \notin Range(ready[c])
  BY <1>1, PlacesDiffer DEF Inv3, SlotConservation, OnePlace
<1> QED
  BY <1>2, <1>3 DEF SlotOnLoan

\* Packets have one place each; this is what a step needs to keep it so.
LEMMA PacketsKept ==
  ASSUME Inv4, npkt' \in Nat, npkt <= npkt', npkt' <= MaxPkt,
         NEW p \in Producer,
         \A q \in Producer : q # p => ppc'[q] = ppc[q] /\ pkt'[q] = pkt[q] /\ cand'[q] = cand[q],
         Carries(p)' => \/ Carries(p) /\ pkt'[p] = pkt[p]
                        \/ pkt'[p] = npkt' /\ npkt' = npkt + 1,
         ppc'[p] = "publish" => info'[cand'[p]] = pkt'[p],
         \A q \in Producer : q # p /\ ppc[q] = "publish" => info'[cand[q]] = info[cand[q]],
         \A s \in Slot : SlotOnLoan(s)' =>
            \/ SlotOnLoan(s) /\ info'[s] = info[s]
            \/ Carries(p) /\ ~ Carries(p)' /\ s = cand[p] /\ info'[s] = pkt[p]
  PROVE  PacketInv'
<1> USE DEF Inv4
<1>1. npkt \in Nat /\ MaxPkt \in Nat
  BY BoundAssumption DEF Inv3, Inv2, Inv1, TypeOK
<1>2. \A q \in Producer : q # p => Carries(q)' = Carries(q)
  BY DEF Carries
<1>3. \A q \in Producer : Carries(q)' => pkt'[q] \in 1 .. npkt'
  BY <1>1, <1>2 DEF PacketInv
<1>4. \A q, r \in Producer : Carries(q)' /\ Carries(r)' /\ pkt'[q] = pkt'[r] => q = r
  <2>1. \A q \in Producer : Carries(q) => pkt[q] \in 1 .. npkt
    BY DEF PacketInv
  <2>2. \A q \in Producer : q # p /\ Carries(q)' /\ Carries(p)' => pkt'[q] # pkt'[p]
    <3> SUFFICES ASSUME NEW q \in Producer, q # p, Carries(q)', Carries(p)' PROVE pkt'[q] # pkt'[p]
      OBVIOUS
    <3>1. Carries(q) /\ pkt'[q] = pkt[q]
      BY <1>2
    <3>2. pkt[q] # npkt + 1
      BY <1>1, <2>1, <3>1
    <3> QED
      BY <3>1, <3>2 DEF PacketInv
  <2>3. \A q, r \in Producer : q # p /\ r # p /\ Carries(q)' /\ Carries(r)' /\ pkt'[q] = pkt'[r] => q = r
    BY <1>2 DEF PacketInv
  <2> QED
    BY <2>2, <2>3
<1>5. \A q \in Producer : ppc'[q] = "publish" => info'[cand'[q]] = pkt'[q]
  BY DEF PacketInv
<1>6. seenBar \subseteq seenBar'
  <2> SUFFICES ASSUME NEW n \in seenBar PROVE n \in seenBar'
    OBVIOUS
  <2>1. n \in 1 .. npkt /\ n \in 1 .. npkt' /\ \A q \in Producer : Carries(q) => pkt[q] # n
    BY <1>1 DEF seenBar, InFlight
  <2>2. \A q \in Producer : Carries(q)' => pkt'[q] # n
    BY <1>1, <1>2, <2>1
  <2> QED
    BY <2>1, <2>2 DEF seenBar, InFlight
<1>7. Carries(p) /\ ~ Carries(p)' => pkt[p] \in seenBar'
  <2> SUFFICES ASSUME Carries(p), ~ Carries(p)' PROVE pkt[p] \in seenBar'
    OBVIOUS
  <2>1. pkt[p] \in 1 .. npkt'
    BY <1>1 DEF PacketInv
  <2>2. \A q \in Producer : Carries(q)' => pkt'[q] # pkt[p]
    BY <1>2 DEF PacketInv
  <2> QED
    BY <2>1, <2>2 DEF seenBar, InFlight
<1>8. \A s \in Slot : SlotOnLoan(s)' => info'[s] \in seenBar'
  BY <1>6, <1>7 DEF PacketInv
<1>9. \A s, t \in Slot : SlotOnLoan(s)' /\ SlotOnLoan(t)' /\ info'[s] = info'[t] => s = t
  <2>1. \A s \in Slot : SlotOnLoan(s) /\ Carries(p) => info[s] # pkt[p]
    BY DEF PacketInv, seenBar, InFlight
  <2> QED
    BY <2>1 DEF PacketInv
<1> QED
  BY <1>3, <1>4, <1>5, <1>8, <1>9 DEF PacketInv

LEMMA StepKeepsPacketInv ==
  ASSUME Inv4, ~ Careless, [Next]_vars
  PROVE  PacketInv'
<1> USE DEF Inv4
<1>1. /\ ppc \in [Producer -> {"out", "count", "enter", "check", "fill", "publish", "putback", "alarm", "wake"}]
      /\ pkt \in [Producer -> Nat] /\ cand \in [Producer -> Slot] /\ info \in [Slot -> Nat]
      /\ npkt \in Nat /\ npkt <= MaxPkt /\ MaxPkt \in Nat
  BY BoundAssumption DEF Inv3, Inv2, Inv1, TypeOK, PacketInv
<1>2. ASSUME NEW p \in Producer, Put(p) PROVE PacketInv'
  <2>1. ASSUME UNCHANGED <<info, npkt>>, ~ PutPublish(p),
               \A q \in Producer : q # p => ppc'[q] = ppc[q] /\ pkt'[q] = pkt[q] /\ cand'[q] = cand[q],
               Carries(p)' => Carries(p) /\ pkt'[p] = pkt[p],
               ppc'[p] # "publish"
        PROVE  PacketInv'
    <3>1. \A s \in Slot : SlotOnLoan(s)' => SlotOnLoan(s) /\ info'[s] = info[s]
      BY <1>2, <2>1, LoansOfPut
    <3> HIDE DEF Inv4
    <3> QED
      BY <1>1, <2>1, <3>1, PacketsKept
  <2>2. CASE PutLoad(p)
    <3>1. /\ npkt' = npkt + 1 /\ npkt < MaxPkt /\ pkt'[p] = npkt' /\ info' = info /\ ppc'[p] = "count"
          /\ \A q \in Producer : q # p => ppc'[q] = ppc[q] /\ pkt'[q] = pkt[q] /\ cand'[q] = cand[q]
      BY <1>1, <2>2 DEF PutLoad, slotVars
    <3>2. \A s \in Slot : SlotOnLoan(s)' => SlotOnLoan(s) /\ info'[s] = info[s]
      BY <1>2, <2>2, <3>1, LoansOfPut DEF PutPublish, PutLoad
    <3>3. npkt' \in Nat /\ npkt <= npkt' /\ npkt' <= MaxPkt
      BY <1>1, <3>1
    <3> HIDE DEF Inv4
    <3> QED
      BY <3>1, <3>2, <3>3, PacketsKept
  <2>3. CASE PutCount(p) \/ PutCheck(p) \/ PutWake(p) \/ PutAlarm(p)
    <3>1. /\ UNCHANGED <<info, npkt>> /\ ~ PutPublish(p) /\ pkt'[p] = pkt[p]
          /\ \A q \in Producer : q # p => ppc'[q] = ppc[q] /\ pkt'[q] = pkt[q] /\ cand'[q] = cand[q]
      BY <1>1, <2>3 DEF PutCount, PutCheck, PutWake, PutAlarm, PutPublish, slotVars
    <3>2. ppc'[p] # "publish" /\ (Carries(p)' => Carries(p))
      BY <1>1, <2>3 DEF PutCount, PutCheck, PutWake, PutAlarm, Carries
    <3> QED
      BY <2>1, <3>1, <3>2
  <2>4. ASSUME NEW c \in CPU, TakeIdle(p, c), UNCHANGED <<info, npkt>>, ppc[p] \in {"enter", "check"}
        PROVE  PacketInv'
    <3>1. \A q \in Producer : q # p => ppc'[q] = ppc[q] /\ pkt'[q] = pkt[q] /\ cand'[q] = cand[q]
      BY <1>1, <2>4 DEF TakeIdle, NoIdle
    <3>2. ppc'[p] # "publish" /\ (Carries(p)' => Carries(p) /\ pkt'[p] = pkt[p])
      BY <1>1, <2>4 DEF TakeIdle, NoIdle, Carries
    <3>3. ~ PutPublish(p)
      BY <2>4 DEF PutPublish
    <3> QED
      BY <2>1, <2>4, <3>1, <3>2, <3>3
  <2>5. ASSUME NEW c \in CPU, PutGet(p, c) PROVE PacketInv'
    BY <2>4, <2>5 DEF PutGet
  <2>6. CASE PutRetry(p)
    BY <2>4, <2>6 DEF PutRetry, Inv3, Inv2, Inv1, TypeOK
  <2>7. CASE PutFill(p)
    <3>1. /\ UNCHANGED <<npkt, pkt, cand>> /\ ppc[p] = "fill" /\ ppc'[p] = "publish"
          /\ info' = [info EXCEPT ![cand[p]] = pkt[p]]
          /\ \A q \in Producer : q # p => ppc'[q] = ppc[q]
      BY <1>1, <2>7 DEF PutFill
    <3>2. info'[cand[p]] = pkt[p] /\ \A s \in Slot : s # cand[p] => info'[s] = info[s]
      BY <1>1, <3>1
    <3>3. InHand(p) /\ Carries(p)
      BY <3>1 DEF InHand, Carries
    <3>4. \A q \in Producer : q # p /\ ppc[q] = "publish" => info'[cand[q]] = info[cand[q]]
      BY <1>1, <3>2, <3>3, HandsDiffer DEF InHand, Inv3
    <3>5. \A s \in Slot : SlotOnLoan(s)' => SlotOnLoan(s) /\ info'[s] = info[s]
      BY <1>2, <3>1, <3>2, <3>3, LoansOfPut, HandIsNotOnLoan DEF PutPublish
    <3> HIDE DEF Inv4
    <3> QED
      BY <1>1, <3>1, <3>2, <3>3, <3>4, <3>5, PacketsKept
  <2>8. CASE PutPublish(p)
    <3>1. /\ UNCHANGED <<info, npkt>> /\ ppc[p] = "publish" /\ ppc'[p] = "alarm"
          /\ \A q \in Producer : q # p => ppc'[q] = ppc[q] /\ pkt'[q] = pkt[q] /\ cand'[q] = cand[q]
      BY <1>1, <1>2, <2>8, PublishHasRoom DEF PutPublish
    <3>2. Carries(p) /\ ~ Carries(p)' /\ info[cand[p]] = pkt[p]
      BY <3>1 DEF Carries, PacketInv
    <3>3. \A s \in Slot : SlotOnLoan(s)' => SlotOnLoan(s) \/ s = cand[p]
      BY <1>2, LoansOfPut
    <3>4. \A s \in Slot : SlotOnLoan(s)' =>
             \/ SlotOnLoan(s) /\ info'[s] = info[s]
             \/ Carries(p) /\ ~ Carries(p)' /\ s = cand[p] /\ info'[s] = pkt[p]
      BY <3>1, <3>2, <3>3
    <3> HIDE DEF Inv4
    <3> QED
      BY <1>1, <3>1, <3>2, <3>4, PacketsKept
  <2> QED
    BY <1>2, <2>2, <2>3, <2>5, <2>6, <2>7, <2>8, NoWildSteps DEF Put
<1>3. CASE OtherStep
  <2>1. UNCHANGED <<info, npkt, ppc, pkt, cand>>
    BY <1>3 DEF OtherStep, FetchStep, FetchCall, FetchWoken, WaitLook, FetchHasData, FetchReset,
       FetchMove, FetchReturn, FetchTimeout, FetchSignal, FetchGoto, Free, FreeCall, RecycleStep,
       RecycleSkip, RecycleBeyond, RecycleMark, RecyclePut, vars, slotVars, prodVars
  <2>2. \A s \in Slot : SlotOnLoan(s)' => SlotOnLoan(s)
    BY <1>3, LoansOfOthers
  <2>3. seenBar' = seenBar /\ \A q \in Producer : Carries(q)' = Carries(q)
    BY <2>1 DEF seenBar, InFlight, Carries
  <2> QED
    BY <2>1, <2>2, <2>3 DEF PacketInv
<1> QED
  BY <1>2, <1>3 DEF Next, OtherStep

LEMMA Inv4Holds ==
  ASSUME ~ Careless
  PROVE  Spec => []Inv4
<1>1. Inv4 /\ [Next]_vars => Inv4'
  BY StepKeepsInv3, StepKeepsPacketInv DEF Inv4
<1> QED
  BY InitIsInv4, <1>1, PTL DEF Spec

\* The packets a list of slots points to, in a memory f.
Packets(f, q) == [i \in DOMAIN q |-> f[q[i]]]

LEMMA PacketsProperties ==
  ASSUME NEW f \in [Slot -> Nat], NEW q \in Seq(Slot)
  PROVE  /\ Packets(f, q) \in Seq(Nat) /\ Len(Packets(f, q)) = Len(q)
         /\ \A i \in 1 .. Len(q) : Packets(f, q)[i] = f[q[i]]
         /\ Range(Packets(f, q)) = {f[s] : s \in Range(q)}
<1>1. /\ Len(q) \in Nat /\ DOMAIN q = 1 .. Len(q)
      /\ \A i \in 1 .. Len(q) : q[i] \in Slot
  BY LenProperties, ElementOfSeq
<1> DEFINE r == [i \in 1 .. Len(q) |-> f[q[i]]]
<1>2. Packets(f, q) = r
  BY <1>1 DEF Packets
<1>3. r \in [1 .. Len(q) -> Nat]
  BY <1>1
<1>4. r \in Seq(Nat)
  BY <1>1, <1>3, SeqDef
<1>5. DOMAIN r = 1 .. Len(q) /\ \A i \in 1 .. Len(q) : r[i] = f[q[i]]
  OBVIOUS
<1> HIDE DEF r
<1>6. Len(r) = Len(q)
  <2>1. Len(r) \in Nat /\ DOMAIN r = 1 .. Len(r)
    BY <1>4, LenProperties
  <2> QED
    BY <1>1, <1>5, <2>1
<1>7. Range(r) = {f[s] : s \in Range(q)}
  BY <1>1, <1>5 DEF Range
<1> QED
  BY <1>2, <1>4, <1>5, <1>6, <1>7

\* A memory is only seen through the slots of the list.
LEMMA PacketsSame ==
  ASSUME NEW f, NEW g, NEW q \in Seq(Slot), \A s \in Range(q) : f[s] = g[s]
  PROVE  Packets(f, q) = Packets(g, q)
<1>1. \A i \in DOMAIN q : f[q[i]] = g[q[i]]
  BY DEF Range
<1> QED
  BY <1>1 DEF Packets

LEMMA NotTheLast == \A n \in Nat : \A i \in 1 .. n + 1 : i # n + 1 => i \in 1 .. n
OBVIOUS

\* A slot at the end of the list is a packet at the end of the channel.
LEMMA PacketsAppend ==
  ASSUME NEW f \in [Slot -> Nat], NEW q \in Seq(Slot), NEW x \in Slot
  PROVE  Packets(f, Append(q, x)) = Append(Packets(f, q), f[x])
<1>1. /\ Append(q, x) \in Seq(Slot) /\ Len(Append(q, x)) = Len(q) + 1
      /\ \A i \in 1 .. Len(q) : Append(q, x)[i] = q[i]
      /\ Append(q, x)[Len(q) + 1] = x /\ Len(q) \in Nat
  BY AppendProperties, LenProperties
<1>2. PICK a \in Seq(Slot) : a = Append(q, x)
  BY <1>1
<1>3. PICK t \in Seq(Nat) : t = Packets(f, q)
  BY PacketsProperties
<1>4. Len(t) = Len(q) /\ \A i \in 1 .. Len(q) : t[i] = f[q[i]]
  BY <1>3, PacketsProperties
<1>5. /\ Append(t, f[x]) \in Seq(Nat) /\ Len(Append(t, f[x])) = Len(q) + 1
      /\ \A i \in 1 .. Len(q) : Append(t, f[x])[i] = t[i]
      /\ Append(t, f[x])[Len(q) + 1] = f[x]
  BY <1>4, AppendProperties
<1>6. /\ Packets(f, a) \in Seq(Nat) /\ Len(Packets(f, a)) = Len(q) + 1
      /\ \A i \in 1 .. Len(q) + 1 : Packets(f, a)[i] = f[a[i]]
  <2>1. Packets(f, a) \in Seq(Nat) /\ Len(Packets(f, a)) = Len(a)
    BY PacketsProperties
  <2>2. \A i \in 1 .. Len(a) : Packets(f, a)[i] = f[a[i]]
    BY PacketsProperties
  <2>3. Len(a) = Len(q) + 1
    BY <1>1, <1>2
  <2> QED
    BY <2>1, <2>2, <2>3
<1>7. \A i \in 1 .. Len(q) + 1 : Packets(f, a)[i] = Append(t, f[x])[i]
  <2> SUFFICES ASSUME NEW i \in 1 .. Len(q) + 1  PROVE Packets(f, a)[i] = Append(t, f[x])[i]
    OBVIOUS
  <2>1. CASE i = Len(q) + 1
    BY <1>1, <1>2, <1>5, <1>6, <2>1
  <2>2. CASE i # Len(q) + 1
    <3>1. i \in 1 .. Len(q)
      BY <1>1, <2>2, NotTheLast
    <3>2. Packets(f, a)[i] = f[a[i]] /\ a[i] = q[i]
      <4>1. a[i] = q[i]
        BY <1>1, <1>2, <3>1
      <4>2. Packets(f, a)[i] = f[a[i]]
        BY <1>6
      <4> QED
        BY <4>1, <4>2
    <3>3. Append(t, f[x])[i] = f[q[i]]
      BY <1>4, <1>5, <3>1
    <3> QED
      BY <3>2, <3>3
  <2> QED
    BY <2>1, <2>2
<1>8. Packets(f, a) = Append(t, f[x])
  BY <1>5, <1>6, <1>7, SeqEqual
<1> QED
  BY <1>2, <1>3, <1>8

\* A part of the list is a part of the channel.
LEMMA PacketsSubSeq ==
  ASSUME NEW f \in [Slot -> Nat], NEW q \in Seq(Slot), NEW n \in 0 .. Len(q)
  PROVE  /\ Packets(f, SubSeq(q, 1, n)) = SubSeq(Packets(f, q), 1, n)
         /\ Packets(f, kfifo_out(q, n)) = SubSeq(Packets(f, q), n + 1, Len(Packets(f, q)))
<1>1. Len(q) \in Nat /\ n \in Nat /\ n <= Len(q)
  BY LenProperties
<1>2. PICK t \in Seq(Nat) : t = Packets(f, q)
  BY PacketsProperties
<1>3. Len(t) = Len(q) /\ \A i \in 1 .. Len(q) : t[i] = f[q[i]]
  BY <1>2, PacketsProperties
<1>4. ASSUME NEW m \in {1, n + 1}, NEW l \in {n, Len(q)}, l - m + 1 \in Nat
      PROVE  Packets(f, SubSeq(q, m, l)) = SubSeq(t, m, l)
  <2>1. m \in Int /\ l \in Int /\ \A i \in m .. l : i \in 1 .. Len(q)
    BY <1>1
  <2>2. \A i \in m .. l : q[i] \in Slot
    BY <2>1, ElementOfSeq
  <2>3. \A i \in m .. l : t[i] \in Nat
    BY <1>3, <2>1, ElementOfSeq
  <2>4. PICK k \in Nat : k = l - m + 1
    BY <1>4
  <2>5. (IF m <= l THEN l - m + 1 ELSE 0) = k /\ \A i \in 1 .. k : m + i - 1 \in m .. l
    BY <2>1, <2>4
  <2>6. /\ SubSeq(q, m, l) \in Seq(Slot) /\ Len(SubSeq(q, m, l)) = k
        /\ \A i \in 1 .. k : SubSeq(q, m, l)[i] = q[m + i - 1]
    BY <2>1, <2>2, <2>4, <2>5, SubSeqProperties
  <2>7. /\ SubSeq(t, m, l) \in Seq(Nat) /\ Len(SubSeq(t, m, l)) = k
        /\ \A i \in 1 .. k : SubSeq(t, m, l)[i] = t[m + i - 1]
    BY <2>1, <2>3, <2>4, <2>5, SubSeqProperties
  <2>8. PICK a \in Seq(Slot) : a = SubSeq(q, m, l)
    BY <2>6
  <2>9. PICK b \in Seq(Nat) : b = SubSeq(t, m, l)
    BY <2>7
  <2>10. Packets(f, a) \in Seq(Nat) /\ Len(Packets(f, a)) = k /\ \A i \in 1 .. k : Packets(f, a)[i] = f[a[i]]
    BY <2>6, <2>8, PacketsProperties
  <2>11. \A i \in 1 .. k : Packets(f, a)[i] = b[i]
    <3> SUFFICES ASSUME NEW i \in 1 .. k PROVE Packets(f, a)[i] = b[i]
      OBVIOUS
    <3>1. PICK j \in 1 .. Len(q) : j = m + i - 1
      BY <2>1, <2>5
    <3>2. a[i] = q[j] /\ b[i] = t[j]
      BY <2>6, <2>7, <2>8, <2>9, <3>1
    <3> QED
      BY <1>3, <2>10, <3>1, <3>2
  <2>12. Packets(f, a) = b
    BY <2>7, <2>9, <2>10, <2>11, SeqEqual
  <2> QED
    BY <2>8, <2>9, <2>12
<1>5. n - 1 + 1 \in Nat /\ Len(q) - (n + 1) + 1 \in Nat
  BY <1>1
<1> QED
  BY <1>2, <1>3, <1>4, <1>5 DEF kfifo_out

\* The abstract specification counts and collects as the detailed one does.
LEMMA SameOperators ==
  /\ \A S : Channel!Cardinality(S) = Cardinality(S)
  /\ \A f : Channel!Range(f) = Range(f)
<1>1. \A S : Channel!Cardinality(S) = Cardinality(S)
  BY DEF Channel!Cardinality, Cardinality
<1>2. \A f : Channel!Range(f) = Range(f)
  BY DEF Channel!Range, Range
<1> QED
  BY <1>1, <1>2

\* The buffers of a CPU that the channel counts as taken are its slots that are
\* ready or lent.
LEMMA TakenAreOnLoan ==
  ASSUME Inv4, NEW c \in CPU
  PROVE  /\ IsFiniteSet(OwnSlots(c))
         /\ Range(ready[c]) \cup (Lent \cap OwnSlots(c)) \subseteq OwnSlots(c)
         /\ Channel!Taken(c) = Cardinality(Range(ready[c]) \cup (Lent \cap OwnSlots(c)))
<1>1. /\ ready[c] \in Seq(Slot) /\ info \in [Slot -> Nat] /\ Lent \subseteq Slot
      /\ Range(ready[c]) \subseteq OwnSlots(c) /\ IsInjective(ready[c])
      /\ Lent \cap Range(ready[c]) = {}
  <2>1. arr \in Seq(Slot) /\ held \subseteq Slot /\ rset \subseteq Slot
    BY DEF Inv4, Inv3, Inv2, Inv1, TypeOK, SlotConservation, Unbroken
  <2>2. Lent \subseteq Slot
    BY <2>1, RangeOfSeq DEF Lent
  <2> QED
    BY <2>2 DEF Inv4, Inv3, SlotConservation, OwnRange, NoDuplicates, OnePlace, Inv2, Inv1, TypeOK
<1>2. IsFiniteSet(OwnSlots(c))
  <2>1. Start[c] \in Int /\ End[c] - 1 \in Int
    BY LayoutAssumption
  <2> QED
    BY <2>1, FS_Interval DEF OwnSlots, Range2Slots
<1> DEFINE L == Lent \cap OwnSlots(c)
           R == Range(ready[c])
           P == {info[s] : s \in L}
<1>3. IsFiniteSet(L) /\ IsFiniteSet(R) /\ Cardinality(L) \in Nat /\ Cardinality(R) \in Nat
  BY <1>1, <1>2, FS_Subset, FS_CardinalityType
<1>4. Cardinality(P) = Cardinality(L)
  <2> DEFINE f == [s \in L |-> info[s]]
  <2>1. \A s \in L : s \in Slot /\ SlotOnLoan(s)
    BY <1>1 DEF SlotOnLoan
  <2>2. \A s, t \in L : f[s] = f[t] => s = t
    BY <2>1 DEF Inv4, PacketInv
  <2>3. f \in [L -> P] /\ \A x \in P : \E s \in L : f[s] = x
    OBVIOUS
  <2> HIDE DEF f, L, P
  <2>4. f \in Bijection(L, P)
    BY <2>2, <2>3, Fun_IsBij
  <2>5. ExistsBijection(L, P)
    BY <2>4 DEF ExistsBijection
  <2> QED
    BY <1>3, <2>5, FS_Bijection
<1>5. Len(ready[c]) = Cardinality(R)
  <2>1. Len(ready[c]) \in Nat /\ DOMAIN ready[c] = 1 .. Len(ready[c])
    BY <1>1, LenProperties
  <2>2. /\ \A i, j \in 1 .. Len(ready[c]) : ready[c][i] = ready[c][j] => i = j
        /\ ready[c] \in [1 .. Len(ready[c]) -> R]
        /\ \A x \in R : \E i \in 1 .. Len(ready[c]) : ready[c][i] = x
    <3>1. ready[c] \in [1 .. Len(ready[c]) -> Slot]
      BY <1>1, LenProperties
    <3>2. /\ \A i, j \in 1 .. Len(ready[c]) : ready[c][i] = ready[c][j] => i = j
          /\ \A i \in 1 .. Len(ready[c]) : ready[c][i] \in R
          /\ \A x \in R : \E i \in 1 .. Len(ready[c]) : ready[c][i] = x
      BY <1>1, <2>1 DEF IsInjective, Range
    <3> HIDE DEF R
    <3> QED
      BY <3>1, <3>2
  <2> HIDE DEF R
  <2>3. ready[c] \in Bijection(1 .. Len(ready[c]), R)
    BY <2>2, Fun_IsBij
  <2>4. ExistsBijection(1 .. Len(ready[c]), R)
    BY <2>3 DEF ExistsBijection
  <2> QED
    BY <2>1, <2>4, FS_CountingElements
<1>6. R \cap L = {} /\ R \cup L \subseteq OwnSlots(c)
  BY <1>1
<1>7. Cardinality(R \cup L) = Cardinality(R) + Cardinality(L)
  <2> HIDE DEF R, L
  <2>1. Cardinality(R \cup L) = Cardinality(R) + Cardinality(L) - Cardinality(R \cap L)
    BY <1>3, FS_Union
  <2>2. Cardinality(R \cap L) = 0
    BY <1>6, FS_EmptySet
  <2> QED
    BY <1>3, <2>1, <2>2
<1>8. Channel!Taken(c) = Len(ready[c]) + Cardinality(P)
  <2>1. chanBar[c] = Packets(info, ready[c]) /\ lentBar[c] = P
    BY DEF chanBar, lentBar, Content, Packets
  <2>2. Len(chanBar[c]) = Len(ready[c])
    BY <1>1, <2>1, PacketsProperties
  <2> QED
    BY <2>1, <2>2, SameOperators DEF Channel!Taken
<1> QED
  BY <1>2, <1>4, <1>5, <1>6, <1>7, <1>8

\* The channel of a CPU changes only as far as its ready list does.
LEMMA ChannelKept ==
  ASSUME Inv4, ~ Careless, [Next]_vars, NEW c \in CPU, ready'[c] = ready[c]
  PROVE  chanBar'[c] = chanBar[c]
<1>1. ready[c] \in Seq(Slot)
  BY DEF Inv4, Inv3, Inv2, Inv1, TypeOK
<1>2. \A s \in Range(ready[c]) : info[s] = info'[s]
  <2>1. \A s \in Range(ready[c]) : s \in Slot /\ SlotOnLoan(s)
    BY <1>1, RangeOfSeq DEF SlotOnLoan
  <2>2. CASE UNCHANGED vars
    BY <2>2 DEF vars, slotVars
  <2>3. CASE Next /\ ~ UNCHANGED vars
    BY <2>1, <2>3, StepKeepsLoans DEF Inv4
  <2> QED
    BY <2>2, <2>3
<1>3. Packets(info, ready[c]) = Packets(info', ready[c])
  BY <1>1, <1>2, PacketsSame
<1> QED
  BY <1>3 DEF chanBar, Content, Packets

LEMMA LentKept ==
  ASSUME Inv4, ~ Careless, [Next]_vars, Lent' = Lent
  PROVE  lentBar' = lentBar
<1>1. Lent \subseteq Slot
  <2>1. arr \in Seq(Slot) /\ held \subseteq Slot /\ rset \subseteq Slot
    BY DEF Inv4, Inv3, Inv2, Inv1, TypeOK, SlotConservation, Unbroken
  <2> QED
    BY <2>1, RangeOfSeq DEF Lent
<1>2. \A s \in Lent : info'[s] = info[s]
  <2>1. \A s \in Lent : s \in Slot /\ SlotOnLoan(s)
    BY <1>1 DEF SlotOnLoan
  <2>2. CASE UNCHANGED vars
    BY <2>2 DEF vars, slotVars
  <2>3. CASE Next /\ ~ UNCHANGED vars
    BY <2>1, <2>3, StepKeepsLoans DEF Inv4
  <2> QED
    BY <2>2, <2>3
<1> QED
  BY <1>2 DEF lentBar

LEMMA ChannelFunctions ==
  /\ chanBar = [c \in CPU |-> chanBar[c]] /\ chanBar' = [c \in CPU |-> chanBar'[c]]
  /\ lentBar = [c \in CPU |-> lentBar[c]] /\ lentBar' = [c \in CPU |-> lentBar'[c]]
  BY DEF chanBar, lentBar

\* A packet that leaves its producer has been seen from then on.
LEMMA SeenGrows ==
  ASSUME Inv4, NEW p \in Producer, Carries(p), ~ Carries(p)', npkt' = npkt,
         \A q \in Producer : q # p => ppc'[q] = ppc[q] /\ pkt'[q] = pkt[q]
  PROVE  /\ pkt[p] \in 1 .. MaxPkt /\ pkt[p] \notin seenBar
         /\ seenBar' = seenBar \cup {pkt[p]}
<1>1. npkt \in Nat /\ npkt <= MaxPkt /\ MaxPkt \in Nat /\ pkt[p] \in 1 .. npkt
  BY BoundAssumption DEF Inv4, PacketInv, Inv3, Inv2, Inv1, TypeOK
<1>2. \A q \in Producer : q # p => Carries(q)' = Carries(q)
  BY DEF Carries
<1>3. InFlight = InFlight' \cup {pkt[p]} /\ pkt[p] \notin InFlight'
  BY <1>2 DEF InFlight, Inv4, PacketInv
<1> QED
  BY <1>1, <1>3 DEF seenBar

\* What neither publishes nor drops a packet leaves the seen ones alone.
LEMMA SeenKept ==
  ASSUME npkt' = npkt,
         \A q \in Producer : Carries(q)' = Carries(q) /\ pkt'[q] = pkt[q]
  PROVE  seenBar' = seenBar
  BY DEF seenBar, InFlight

\* The initial state is an empty channel for each CPU.
LEMMA InitImplements == Init => Channel!ChInit
<1> SUFFICES ASSUME Init PROVE Channel!ChInit
  OBVIOUS
<1>1. \A c \in CPU : chanBar[c] = << >>
  <2> SUFFICES ASSUME NEW c \in CPU PROVE chanBar[c] = << >>
    OBVIOUS
  <2>1. ready[c] = << >> /\ << >> \in Seq(Slot) /\ Len(<< >>) = 0
    BY EmptySeq DEF Init
  <2>2. info \in [Slot -> Nat]
    BY InitIsInv4 DEF Inv4, Inv3, Inv2, Inv1, TypeOK
  <2>3. Packets(info, << >>) \in Seq(Nat) /\ Len(Packets(info, << >>)) = 0
    BY <2>1, <2>2, PacketsProperties
  <2>4. Packets(info, << >>) = << >>
    BY <2>3, EmptySeq
  <2> QED
    BY <2>1, <2>4 DEF chanBar, Content, Packets
<1>2. \A c \in CPU : lentBar[c] = {}
  <2>1. Range(<< >>) = {}
    BY EmptySeq, LenProperties DEF Range
  <2> QED
    BY <2>1 DEF lentBar, Lent, Init
<1>3. seenBar = {}
  BY DEF Init, seenBar
<1> QED
  BY <1>1, <1>2, <1>3, ChannelFunctions DEF Channel!ChInit

\* ip_queue_put finds no index: the ready and lent slots are all there are.
LEMMA DropImplements ==
  ASSUME Inv4, ~ Careless, NEW p \in Producer, NEW c \in CPU, PutGet(p, c), idle[c] = << >>
  PROVE  Channel!Drop(c, pkt[p])
<1>1. /\ ppc \in [Producer -> {"out", "count", "enter", "check", "fill", "publish", "putback", "alarm", "wake"}]
      /\ pkt \in [Producer -> Nat]
  BY DEF Inv4, Inv3, Inv2, Inv1, TypeOK
<1>2. /\ npkt' = npkt /\ ppc[p] = "enter" /\ ppc'[p] = "wake"
      /\ \A q \in Producer : q # p => ppc'[q] = ppc[q] /\ pkt'[q] = pkt[q]
  BY <1>1 DEF PutGet, TakeIdle, NoIdle
<1>3. Carries(p) /\ ~ Carries(p)'
  BY <1>2 DEF Carries
<1>4. pkt[p] \notin seenBar /\ seenBar' = seenBar \cup {pkt[p]}
  BY <1>2, <1>3, SeenGrows
<1>5. Channel!Taken(c) = Cardinality(OwnSlots(c))
  <2>1. Hand(c) = {} /\ Range(idle[c]) = {}
    BY EmptySeq, LenProperties DEF PutGet, Occupied, Hand, InHand, InSection, Range
  <2>2. OwnSlots(c) \subseteq Range(ready[c]) \cup Lent
    BY <2>1 DEF Inv4, Inv3, SlotConservation, NoLeak
  <2>3. Range(ready[c]) \cup (Lent \cap OwnSlots(c)) = OwnSlots(c)
    BY <2>2, TakenAreOnLoan
  <2> QED
    BY <2>3, TakenAreOnLoan
<1>6. chanBar' = chanBar /\ lentBar' = lentBar
  <2>1. ready' = ready /\ Lent' = Lent /\ [Next]_vars
    BY DEF PutGet, Lent, fetchVars, recVars, Next, Put, Inv4, Inv3, SlotConservation, Unbroken
  <2>2. \A d \in CPU : chanBar'[d] = chanBar[d]
    BY <2>1, ChannelKept
  <2> QED
    BY <2>1, <2>2, LentKept, ChannelFunctions
<1> QED
  BY <1>4, <1>5, <1>6, SameOperators DEF Channel!Drop

\* ip_queue_put hands over a packet: a slot of the CPU was free for it.
LEMMA AcceptImplements ==
  ASSUME Inv4, ~ Careless, NEW p \in Producer, PutPublish(p)
  PROVE  Channel!Accept(pcpu[p], pkt[p])
<1>1. /\ ppc \in [Producer -> {"out", "count", "enter", "check", "fill", "publish", "putback", "alarm", "wake"}]
      /\ pkt \in [Producer -> Nat] /\ cand \in [Producer -> Slot] /\ ready \in [CPU -> Seq(Slot)]
      /\ info \in [Slot -> Nat] /\ Inv3
  BY DEF Inv4, Inv3, Inv2, Inv1, TypeOK
<1>2. PICK c \in CPU : c = pcpu[p]
  BY DEF Inv4, Inv3, Inv2, Inv1, TypeOK
<1>3. /\ UNCHANGED <<npkt, info>> /\ ppc[p] = "publish" /\ ppc'[p] = "alarm"
      /\ \A q \in Producer : q # p => ppc'[q] = ppc[q] /\ pkt'[q] = pkt[q]
  BY <1>1, PublishHasRoom DEF PutPublish
<1>4. Carries(p) /\ ~ Carries(p)' /\ InHand(p) /\ info[cand[p]] = pkt[p]
  BY <1>3 DEF Carries, InHand, Inv4, PacketInv
<1>5. pkt[p] \notin seenBar /\ seenBar' = seenBar \cup {pkt[p]}
  BY <1>3, <1>4, SeenGrows
<1>6. Channel!Taken(c) < Cardinality(OwnSlots(c))
  <2> DEFINE T == Range(ready[c]) \cup (Lent \cap OwnSlots(c))
  <2>1. IsFiniteSet(OwnSlots(c)) /\ T \subseteq OwnSlots(c) /\ Channel!Taken(c) = Cardinality(T)
    BY TakenAreOnLoan
  <2>2. cand[p] \in OwnSlots(c) /\ cand[p] \notin T
    <3>1. cand[p] \in OwnSlots(c)
      BY <1>2, <1>4 DEF Inv4, Inv3, SlotConservation, OwnRange
    <3>2. cand[p] \notin Range(ready[c]) /\ cand[p] \notin Lent
      BY <1>1, <1>4, HandIsNotOnLoan DEF SlotOnLoan
    <3> QED
      BY <3>1, <3>2
  <2> HIDE DEF T
  <2>3. Cardinality(T) <= Cardinality(OwnSlots(c)) /\ Cardinality(T) # Cardinality(OwnSlots(c))
    BY <2>1, <2>2, FS_Subset
  <2>4. Cardinality(T) \in Nat /\ Cardinality(OwnSlots(c)) \in Nat
    BY <2>1, FS_Subset, FS_CardinalityType
  <2> QED
    BY <2>1, <2>3, <2>4
<1>7. chanBar' = [chanBar EXCEPT ![c] = Append(chanBar[c], pkt[p])]
  <2>1. [Next]_vars
    BY <1>1 DEF Next, Put, Inv3, SlotConservation, Unbroken
  <2>2. ready' = [ready EXCEPT ![c] = Append(ready[c], cand[p])]
    BY <1>1, <1>2, PublishHasRoom DEF kfifo_put
  <2>3. ready'[c] = Append(ready[c], cand[p]) /\ \A d \in CPU : d # c => ready'[d] = ready[d]
    BY <1>1, <2>2
  <2>4. \A d \in CPU : d # c => chanBar'[d] = chanBar[d]
    BY <2>1, <2>3, ChannelKept
  <2>5. chanBar'[c] = Append(chanBar[c], pkt[p])
    <3>1. ready[c] \in Seq(Slot) /\ cand[p] \in Slot
      BY <1>1
    <3>2. Packets(info, Append(ready[c], cand[p])) = Append(Packets(info, ready[c]), info[cand[p]])
      BY <1>1, <3>1, PacketsAppend
    <3>3. chanBar[c] = Packets(info, ready[c]) /\ chanBar'[c] = Packets(info', ready'[c])
      BY DEF chanBar, Content, Packets
    <3> QED
      BY <1>3, <1>4, <2>3, <3>2, <3>3
  <2> QED
    BY <2>4, <2>5, ChannelFunctions
<1>8. lentBar' = lentBar
  <2>1. Lent' = Lent /\ [Next]_vars
    BY <1>1 DEF PutPublish, Lent, fetchVars, recVars, Next, Put, Inv3, SlotConservation, Unbroken
  <2> QED
    BY <2>1, LentKept
<1> QED
  BY <1>2, <1>5, <1>6, <1>7, <1>8, SameOperators DEF Channel!Accept

\* One turn of ip_queue_move2dma takes the packets at the head of one channel.
LEMMA FetchImplements ==
  ASSUME Inv4, ~ Careless, FetchMove
  PROVE  IF Moved = 0 THEN UNCHANGED Channel!chVars
         ELSE /\ Moved \in 1 .. Batch /\ Moved <= Len(chanBar[fcur])
              /\ Channel!Fetch(fcur, Moved)
<1>1. /\ arr \in Seq(Slot) /\ held \subseteq Slot /\ rset \subseteq Slot
      /\ ready \in [CPU -> Seq(Slot)] /\ info \in [Slot -> Nat] /\ Inv1 /\ Inv3
  BY DEF Inv4, Inv3, Inv2, Inv1, TypeOK, SlotConservation, Unbroken
<1>2. PICK c \in CPU : c = fcur
  BY DEF Inv4, Inv3, Inv2, Inv1, TypeOK
<1>3. PICK n \in 0 .. Len(ready[c]) : n = Moved
  BY <1>1, <1>2, MovedProperties DEF FetchMove
<1>4. n \in Nat /\ n <= Batch
  <2>1. Moved \in Nat /\ Moved <= num /\ Len(arr) \in Nat
    BY <1>1, MovedProperties DEF FetchMove
  <2>2. num > 0 /\ Len(arr) + num <= Batch /\ num \in Int /\ Batch \in Nat
    BY <1>1, BatchAssumption DEF FetchMove, Inv1, TypeOK, BatchInv, BatchFits
  <2> QED
    BY <1>3, <2>1, <2>2
<1>5. PICK q \in Seq(Slot) : q = ready[c]
  BY <1>1
<1>6. PICK a \in Seq(Slot) : a = SubSeq(q, 1, n)
  BY <1>3, <1>5, OutProperties
<1>7. PICK b \in Seq(Slot) : b = kfifo_out(q, n)
  BY <1>3, <1>5, OutProperties
<1>8. /\ arr' = arr \o a /\ ready' = [ready EXCEPT ![c] = b]
      /\ UNCHANGED <<info, held, rset, npkt, prodVars>>
  BY <1>2, <1>3, <1>5, <1>6, <1>7 DEF FetchMove, recVars
<1>9. Lent' = Lent \cup Range(a)
  <2>1. Range(arr \o a) = Range(arr) \cup Range(a)
    BY <1>1, RangeConcatenation
  <2> QED
    BY <1>8, <2>1 DEF Lent
<1>10. Range(a) \subseteq OwnSlots(c)
  <2>1. Range(a) \subseteq Range(q)
    BY <1>3, <1>5, <1>6, OutProperties
  <2> QED
    BY <1>5, <2>1 DEF Inv4, Inv3, SlotConservation, OwnRange
<1>11. seenBar' = seenBar
  BY <1>8 DEF seenBar, InFlight, Carries, prodVars
<1>12. [Next]_vars
  BY <1>1 DEF Next, FetchStep, Inv3, SlotConservation, Unbroken
<1>13. ready'[c] = b /\ \A d \in CPU : d # c => ready'[d] = ready[d]
  BY <1>1, <1>8
<1>14. \A d \in CPU : d # c => chanBar'[d] = chanBar[d]
  BY <1>12, <1>13, ChannelKept
<1>15. chanBar[c] = Packets(info, q) /\ chanBar'[c] = Packets(info, b)
  BY <1>5, <1>8, <1>13 DEF chanBar, Content, Packets
<1>16. \A d \in CPU : lentBar'[d] = IF d = c THEN lentBar[c] \cup {info[s] : s \in Range(a)} ELSE lentBar[d]
  <2> SUFFICES ASSUME NEW d \in CPU
               PROVE  lentBar'[d] = IF d = c THEN lentBar[c] \cup {info[s] : s \in Range(a)} ELSE lentBar[d]
    OBVIOUS
  <2>1. lentBar'[d] = {info[s] : s \in (Lent \cup Range(a)) \cap OwnSlots(d)}
    BY <1>8, <1>9 DEF lentBar
  <2>2. CASE d = c
    <3>1. (Lent \cup Range(a)) \cap OwnSlots(d) = (Lent \cap OwnSlots(c)) \cup Range(a)
      BY <1>10, <2>2
    <3>2. lentBar[c] = {info[s] : s \in Lent \cap OwnSlots(c)}
      BY DEF lentBar
    <3>3. lentBar'[d] = {info[s] : s \in (Lent \cap OwnSlots(c)) \cup Range(a)}
      BY <2>1, <3>1
    <3> QED
      BY <2>2, <3>2, <3>3
  <2>3. CASE d # c
    <3>1. (Lent \cup Range(a)) \cap OwnSlots(d) = Lent \cap OwnSlots(d)
      BY <1>10, <2>3, OwnersDiffer
    <3> QED
      BY <2>1, <2>3, <3>1 DEF lentBar
  <2> QED
    BY <2>2, <2>3
<1>17. CASE n = 0
  <2>1. Len(a) = 0 /\ a = << >> /\ Range(a) = {}
    <3>1. Len(a) = 0
      BY <1>3, <1>5, <1>6, <1>17, OutProperties
    <3>2. a = << >>
      BY <3>1, EmptySeq
    <3> QED
      BY <3>1, <3>2, LenProperties DEF Range
  <2>2. b = q
    <3>1. b = SubSeq(q, 1, Len(q))
      BY <1>7, <1>17 DEF kfifo_out
    <3> QED
      BY <3>1, SubSeqFull
  <2>3. \A d \in CPU : chanBar'[d] = chanBar[d] /\ lentBar'[d] = lentBar[d]
    BY <1>14, <1>15, <1>16, <2>1, <2>2
  <2> QED
    BY <1>3, <1>11, <1>17, <2>3, ChannelFunctions DEF Channel!chVars
<1>18. CASE n # 0
  <2>1. /\ Packets(info, a) = SubSeq(Packets(info, q), 1, n)
        /\ Packets(info, b) = SubSeq(Packets(info, q), n + 1, Len(Packets(info, q)))
        /\ Len(Packets(info, q)) = Len(q)
        /\ Range(Packets(info, a)) = {info[s] : s \in Range(a)}
    <3>1. n \in 0 .. Len(q)
      BY <1>5
    <3>2. /\ Packets(info, a) = SubSeq(Packets(info, q), 1, n)
          /\ Packets(info, b) = SubSeq(Packets(info, q), n + 1, Len(Packets(info, q)))
      BY <1>1, <1>6, <1>7, <3>1, PacketsSubSeq
    <3> QED
      BY <1>1, <3>2, PacketsProperties
  <2>2. chanBar' = [chanBar EXCEPT ![c] = SubSeq(chanBar[c], n + 1, Len(chanBar[c]))]
    BY <1>14, <1>15, <2>1, ChannelFunctions
  <2>3. lentBar' = [lentBar EXCEPT ![c] = lentBar[c] \cup Range(SubSeq(chanBar[c], 1, n))]
    BY <1>15, <1>16, <2>1, ChannelFunctions
  <2>4. n \in 1 .. Batch /\ n <= Len(chanBar[c])
    BY <1>4, <1>5, <1>15, <1>18, <2>1, BatchAssumption, LenProperties
  <2>5. Channel!Fetch(c, n)
    BY <1>11, <2>2, <2>3, SameOperators DEF Channel!Fetch
  <2> QED
    BY <1>2, <1>3, <1>18, <2>4, <2>5
<1> QED
  BY <1>17, <1>18

\* ip_queue_recycle gives the buffer of one lent packet back.
LEMMA ReturnImplements ==
  ASSUME Inv4, ~ Careless, NEW c \in CPU, RecyclePut(c)
  PROVE  info[ritem] \in lentBar[c] /\ Channel!Return(c, info[ritem])
<1>1. /\ arr \in Seq(Slot) /\ held \subseteq Slot /\ rset \subseteq Slot /\ Inv3
  BY DEF Inv4, Inv3, Inv2, Inv1, TypeOK, SlotConservation, Unbroken
<1>2. PICK x \in Slot : x = ritem
  BY <1>1, RecycleHasRoom
<1>3. x \in rset /\ x \in OwnSlots(c)
  BY <1>1, <1>2, RecycleHasRoom
<1>4. rset' = rset \ {x} /\ UNCHANGED <<ready, info, arr, held, npkt, prodVars>>
  BY <1>2 DEF RecyclePut, RecycleDone, fetchVars
<1>5. Lent' = Lent \ {x} /\ x \in Lent /\ Lent \subseteq Slot
  <2>1. x \notin Range(arr) /\ x \notin held
    BY <1>3 DEF Inv4, Inv3, SlotConservation, OnePlace
  <2> QED
    BY <1>1, <1>3, <1>4, <2>1, RangeOfSeq DEF Lent
<1>6. \A s \in Lent : s # x => info[s] # info[x]
  <2>1. \A s \in Lent : SlotOnLoan(s) /\ s \in Slot
    BY <1>5 DEF SlotOnLoan
  <2> QED
    BY <1>5, <2>1 DEF Inv4, PacketInv
<1>7. \A d \in CPU : lentBar'[d] = IF d = c THEN lentBar[c] \ {info[x]} ELSE lentBar[d]
  <2> SUFFICES ASSUME NEW d \in CPU
               PROVE  lentBar'[d] = IF d = c THEN lentBar[c] \ {info[x]} ELSE lentBar[d]
    OBVIOUS
  <2>1. lentBar'[d] = {info[s] : s \in (Lent \ {x}) \cap OwnSlots(d)}
    BY <1>4, <1>5 DEF lentBar
  <2>2. CASE d = c
    <3>1. {info[s] : s \in (Lent \ {x}) \cap OwnSlots(c)} = {info[s] : s \in Lent \cap OwnSlots(c)} \ {info[x]}
      BY <1>6
    <3> QED
      BY <2>1, <2>2, <3>1 DEF lentBar
  <2>3. CASE d # c
    <3>1. (Lent \ {x}) \cap OwnSlots(d) = Lent \cap OwnSlots(d)
      BY <1>3, <2>3, OwnersDiffer
    <3> QED
      BY <2>1, <2>3, <3>1 DEF lentBar
  <2> QED
    BY <2>2, <2>3
<1>8. lentBar' = [lentBar EXCEPT ![c] = lentBar[c] \ {info[x]}]
  BY <1>7, ChannelFunctions
<1>9. chanBar' = chanBar /\ seenBar' = seenBar
  BY <1>4 DEF chanBar, Content, seenBar, InFlight, Carries, prodVars
<1>10. info[x] \in lentBar[c]
  BY <1>3, <1>5 DEF lentBar
<1> QED
  BY <1>2, <1>8, <1>9, <1>10 DEF Channel!Return

\* Every step of the queue is a step of the channel or leaves it alone.
LEMMA StepImplements ==
  ASSUME Inv4, ~ Careless, [Next]_vars
  PROVE  [Channel!ChNext]_(Channel!chVars)
<1>1. /\ ppc \in [Producer -> {"out", "count", "enter", "check", "fill", "publish", "putback", "alarm", "wake"}]
      /\ pkt \in [Producer -> Nat] /\ npkt \in Nat /\ pcpu \in [Producer -> CPU] /\ fcur \in CPU
      /\ Inv3
  BY DEF Inv4, Inv3, Inv2, Inv1, TypeOK
<1>2. ASSUME ready' = ready, Lent' = Lent, seenBar' = seenBar PROVE UNCHANGED Channel!chVars
  <2>1. \A c \in CPU : chanBar'[c] = chanBar[c]
    BY <1>2, ChannelKept
  <2> QED
    BY <1>2, <2>1, LentKept, ChannelFunctions DEF Channel!chVars
<1>3. ASSUME NEW p \in Producer, Put(p) PROVE [Channel!ChNext]_(Channel!chVars)
  <2>1. CASE PutLoad(p)
    <3>1. InFlight' = InFlight \cup {npkt + 1} /\ npkt' = npkt + 1
      <4>1. /\ npkt' = npkt + 1 /\ pkt'[p] = npkt + 1
            /\ \A q \in Producer : q # p => pkt'[q] = pkt[q] /\ Carries(q)' = Carries(q)
            /\ Carries(p)' /\ ~ Carries(p)
        BY <1>1, <2>1 DEF PutLoad, Carries
      <4> QED
        BY <4>1 DEF InFlight
    <3>2. seenBar' = seenBar
      BY <1>1, <3>1 DEF seenBar
    <3> QED
      BY <1>2, <2>1, <3>2 DEF PutLoad, Lent, slotVars, fetchVars, recVars
  <2>2. CASE PutCount(p) \/ PutCheck(p) \/ PutWake(p) \/ PutAlarm(p) \/ PutFill(p)
    <3>1. npkt' = npkt /\ \A q \in Producer : Carries(q)' = Carries(q) /\ pkt'[q] = pkt[q]
      BY <1>1, <2>2 DEF PutCount, PutCheck, PutWake, PutAlarm, PutFill, Carries
    <3>2. seenBar' = seenBar
      BY <3>1, SeenKept
    <3>3. ready' = ready /\ Lent' = Lent
      BY <2>2 DEF PutCount, PutCheck, PutWake, PutAlarm, PutFill, Lent, slotVars, fetchVars, recVars
    <3> QED
      BY <1>2, <3>2, <3>3
  <2>3. ASSUME NEW c \in CPU, PutGet(p, c) PROVE [Channel!ChNext]_(Channel!chVars)
    <3>1. CASE idle[c] = << >>
      <4>1. Channel!Drop(c, pkt[p]) /\ pkt[p] \in 1 .. MaxPkt
        <5>1. ppc[p] = "enter" /\ Carries(p)
          BY <2>3 DEF PutGet, Carries
        <5>2. pkt[p] \in 1 .. MaxPkt
          BY <1>1, <5>1, BoundAssumption DEF Inv4, PacketInv
        <5> QED
          BY <2>3, <3>1, <5>2, DropImplements
      <4> QED
        BY <4>1 DEF Channel!ChNext
    <3>2. CASE idle[c] # << >>
      <4>1. npkt' = npkt /\ \A q \in Producer : Carries(q)' = Carries(q) /\ pkt'[q] = pkt[q]
        BY <1>1, <2>3, <3>2 DEF PutGet, TakeIdle, NoIdle, Carries
      <4>2. seenBar' = seenBar
        BY <4>1, SeenKept
      <4> QED
        BY <1>2, <2>3, <4>2 DEF PutGet, Lent, fetchVars, recVars
    <3> QED
      BY <3>1, <3>2
  <2>4. CASE PutPublish(p)
    <3>1. pkt[p] \in 1 .. MaxPkt
      <4>1. Carries(p)
        BY <2>4 DEF PutPublish, Carries
      <4> QED
        BY <1>1, <4>1, BoundAssumption DEF Inv4, PacketInv
    <3>2. Channel!Accept(pcpu[p], pkt[p]) /\ pcpu[p] \in CPU
      BY <1>1, <2>4, AcceptImplements
    <3> QED
      BY <3>1, <3>2 DEF Channel!ChNext
  <2>5. ~ PutRetry(p)
    BY <1>1 DEF PutRetry, InHand, Inv3, SlotConservation, StateMatchesPlace
  <2> QED
    BY <1>1, <1>3, <2>1, <2>2, <2>3, <2>4, <2>5, NoWildSteps DEF Put
<1>4. CASE OtherStep
  <2>1. seenBar' = seenBar
    <3>1. UNCHANGED <<npkt, ppc, pkt>>
      BY <1>4 DEF OtherStep, FetchStep, FetchCall, FetchWoken, WaitLook, FetchHasData, FetchReset,
         FetchMove, FetchReturn, FetchTimeout, FetchSignal, FetchGoto, Free, FreeCall, RecycleStep,
         RecycleSkip, RecycleBeyond, RecycleMark, RecyclePut, vars, prodVars
    <3> QED
      BY <3>1 DEF seenBar, InFlight, Carries
  <2>2. CASE FetchMove
    <3>1. CASE Moved = 0
      BY <2>2, <3>1, FetchImplements
    <3>2. CASE Moved # 0
      <4>1. Moved \in 1 .. Batch /\ Moved <= Len(chanBar[fcur]) /\ Channel!Fetch(fcur, Moved)
        BY <2>2, <3>2, FetchImplements
      <4> QED
        BY <1>1, <4>1 DEF Channel!ChNext
    <3> QED
      BY <3>1, <3>2
  <2>3. CASE FetchReturn
    <3>1. Range(<< >>) = {}
      BY EmptySeq, LenProperties DEF Range
    <3>2. ready' = ready /\ Lent' = Lent
      BY <2>3, <3>1 DEF FetchReturn, Lent, slotVars, recVars
    <3> QED
      BY <1>2, <2>1, <3>2
  <2>4. CASE FetchCall \/ FetchWoken \/ FetchHasData \/ FetchReset \/ FetchTimeout \/ FetchSignal
    <3>1. ready' = ready /\ Lent' = Lent
      BY <2>4 DEF FetchCall, FetchWoken, WaitLook, FetchHasData, FetchReset, FetchTimeout,
         FetchSignal, FetchGoto, Lent, slotVars, recVars
    <3> QED
      BY <1>2, <2>1, <3>1
  <2>5. CASE Free
    <3>1. PICK S \in SUBSET held : FreeCall(S)
      BY <2>5 DEF Free, Freeable
    <3>2. rset = {} /\ rset' = S /\ held' = held \ S /\ UNCHANGED <<ready, arr>>
      BY <1>1, <3>1 DEF FreeCall, Inv3, RecycleInv, slotVars, fetchVars
    <3>3. Lent' = Lent
      BY <3>2 DEF Lent
    <3> QED
      BY <1>2, <2>1, <3>2, <3>3
  <2>6. CASE RecycleStep
    <3>1. ASSUME NEW i \in rset PROVE ~ RecycleSkip(i)
      BY <1>1, <3>1 DEF RecycleSkip, Lent, Inv3, SlotConservation, StateMatchesPlace
    <3>2. ASSUME NEW i \in rset, RecycleMark(i) PROVE ready' = ready /\ Lent' = Lent
      BY <3>2 DEF RecycleMark, Lent, fetchVars
    <3>3. ASSUME NEW c \in CPU, RecyclePut(c) PROVE [Channel!ChNext]_(Channel!chVars)
      <4>1. info[ritem] \in lentBar[c] /\ Channel!Return(c, info[ritem])
        BY <3>3, ReturnImplements
      <4> QED
        BY <4>1 DEF Channel!ChNext
    <3> QED
      BY <1>1, <1>2, <2>1, <2>6, <3>1, <3>2, <3>3, NoWildSteps DEF RecycleStep
  <2>7. CASE UNCHANGED vars
    <3>1. ready' = ready /\ Lent' = Lent
      BY <2>7 DEF vars, slotVars, fetchVars, recVars, Lent
    <3> QED
      BY <1>2, <2>1, <3>1
  <2> QED
    BY <1>4, <2>2, <2>3, <2>4, <2>5, <2>6, <2>7 DEF OtherStep, FetchStep
<1> QED
  BY <1>3, <1>4 DEF Next, OtherStep

\* The queue is a bounded FIFO for each CPU: packets leave in the order they
\* came, each at most once, and one is dropped only when all the buffers of
\* its CPU are ready or lent.  For every number of CPUs, hooks, slots and
\* packets, if the user frees only what he was given.
THEOREM QueueIsAChannel ==
  ASSUME ~ Careless
  PROVE  Spec => ImplementsChannel
<1>1. Inv4 /\ [Next]_vars => [Channel!ChNext]_(Channel!chVars)
  BY StepImplements
<1> QED
  BY InitImplements, <1>1, Inv4Holds, PTL DEF Spec, ImplementsChannel, Channel!ChSpec

=============================================================================
