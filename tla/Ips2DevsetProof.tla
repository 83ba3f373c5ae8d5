--------------------------- MODULE Ips2DevsetProof ---------------------------
(***************************************************************************)
(* Proofs about Ips2Devset, for every set of names, every hash function    *)
(* and every list.                                                         *)
(***************************************************************************)
EXTENDS Ips2Devset, TLAPS, WellFoundedInduction

\* A non-empty set of natural numbers has a least element.
LEMMA LeastElement ==
  ASSUME NEW T, T \subseteq Nat, T # {}
  PROVE  \E x \in T : \A y \in T : x <= y
<1> DEFINE R == {ss \in Nat \X Nat : ss[1] < ss[2]}
<1>1. IsWellFoundedOn(R, Nat)
  BY NatLessThanWellFounded DEF OpToRel
<1>2. PICK x \in T : \A y \in T : <<y, x>> \notin R
  BY <1>1, WFMin
<1>3. ASSUME NEW y \in T  PROVE x <= y
  <2>1. x \in Nat /\ y \in Nat
    OBVIOUS
  <2>2. y < x => <<y, x>> \in R
    BY <2>1
  <2> QED
    BY <1>2, <2>1, <2>2
<1> QED
  BY <1>3

\* The inner loop of the sort finds the first smallest hash of the rest.
LEMMA SmallProperties ==
  ASSUME TypeOK, i < elenum
  PROVE  /\ Small \in i .. elenum - 1
         /\ Small \in Index /\ i \in Index
         /\ \A j \in i .. elenum - 1 : hash[Small] <= hash[j]
<1> DEFINE Rest == i .. elenum - 1
<1>1. i \in Nat /\ elenum \in Nat /\ hash \in [Index -> Nat] /\ i \in Rest /\ Rest \subseteq Index
  BY DEF TypeOK, Index
<1> DEFINE Values == {hash[j] : j \in Rest}
<1>2. Values \subseteq Nat /\ Values # {}
  BY <1>1
<1>3. PICK m \in Values : \A y \in Values : m <= y
  BY <1>2, LeastElement
<1> DEFINE Places == {j \in Rest : hash[j] = m}
<1>4. Places \subseteq Nat /\ Places # {}
  BY <1>1, <1>3
<1>5. PICK s \in Places : \A y \in Places : s <= y
  BY <1>4, LeastElement
<1>6. \A j \in Rest : hash[s] <= hash[j]
  BY <1>3, <1>5
<1>7. ASSUME NEW j \in i .. s - 1  PROVE hash[s] < hash[j]
  <2>1. s \in Rest /\ hash[s] = m /\ j \in Rest /\ j \in Nat /\ s \in Nat /\ j < s
    BY <1>1, <1>5
  <2>2. hash[j] # m
    BY <2>1, <1>5
  <2>3. hash[s] <= hash[j] /\ hash[s] \in Nat /\ hash[j] \in Nat
    BY <1>1, <1>6, <2>1
  <2> QED
    BY <2>1, <2>2, <2>3
<1>8. s \in Rest
  BY <1>5
<1> DEFINE IsSmall(x) ==
      /\ \A j \in i .. elenum - 1 : hash[x] <= hash[j]
      /\ \A j \in i .. x - 1 : hash[x] < hash[j]
<1>9. \E x \in i .. elenum - 1 : IsSmall(x)
  BY <1>6, <1>7, <1>8
<1>10. Small = CHOOSE x \in i .. elenum - 1 : IsSmall(x)
  BY DEF Small
<1>11. Small \in i .. elenum - 1 /\ IsSmall(Small)
  <2> HIDE DEF IsSmall
  <2> QED
    BY <1>9, <1>10
<1> QED
  BY <1>1, <1>11

\* What the two memcpys of a swap leave at each place.
LEMMA SwappedValues ==
  ASSUME NEW S, NEW f \in [Index -> S], NEW a \in Index, NEW b \in Index
  PROVE  /\ Swapped(f, a, b) \in [Index -> S]
         /\ \A k \in Index : Swapped(f, a, b)[k] =
              IF k = b THEN f[a] ELSE IF k = a THEN f[b] ELSE f[k]
BY DEF Swapped

\* The middle of a window that is not empty lies in it.
LEMMA MidProperties ==
  ASSUME low \in Int, high \in Int
  PROVE  Mid \in Int /\ (low <= high => low <= Mid /\ Mid <= high)
BY DEF Mid

-----------------------------------------------------------------------------
(***************************************************************************)
(* Type correctness.                                                       *)
(***************************************************************************)
LEMMA EmptyArray ==
  ASSUME NEW S
  PROVE  Empty \in [0 .. 0 - 1 -> S]
<1>1. 0 .. -1 = {} /\ 0 .. 0 - 1 = {}
  OBVIOUS
<1> QED
  BY <1>1 DEF Empty

LEMMA TypeInit == Init => TypeOK
<1> SUFFICES ASSUME Init  PROVE TypeOK
  OBVIOUS
<1>1. Empty \in [Index -> Name] /\ Empty \in [Index -> Nat]
  BY EmptyArray DEF Init, Index
<1>2. NoPacket \in Packets
  BY DEF NoPacket, Packets
<1>3. list \in [Index -> Name] /\ name \in [Index -> Name] /\ hash \in [Index -> Nat]
  BY <1>1 DEF Init
<1>4. elenum \in Nat /\ i \in Nat /\ low \in Int /\ high \in Int /\ t \in Int
  BY DEF Init
<1>5. /\ pc = "rest" /\ black = FALSE /\ live = FALSE /\ tmpname = FALSE
      /\ pkt = NoPacket /\ who = "in" /\ verdict = "none"
  BY DEF Init
<1> QED
  BY <1>2, <1>3, <1>4, <1>5 DEF TypeOK

\* The answer of one devset_ignore disturbs no type.
LEMMA AnswerType ==
  ASSUME TypeOK, NEW v \in BOOLEAN, Answer(v)
  PROVE  TypeOK'
BY DEF TypeOK, Answer, data, Index, Packets

LEMMA TypeStep == TypeOK /\ [Next]_vars => TypeOK'
<1> SUFFICES ASSUME TypeOK, [Next]_vars  PROVE TypeOK'
  OBVIOUS
<1>1. CASE devset_exit
  <2>1. Empty \in [Index' -> Name] /\ Empty \in [Index' -> Nat]
    BY <1>1, EmptyArray DEF devset_exit, Index
  <2> QED
    BY <1>1, <2>1 DEF devset_exit, Forget, search, TypeOK, NoPacket, Packets
<1>2. ASSUME NEW c \in Configs, devset_init(c)  PROVE TypeOK'
  <2>1. c.white_black \in BOOLEAN /\ c.devnum \in Nat /\ c.devlist \in [0 .. c.devnum - 1 -> Name]
    BY ConfigAssumption
  <2>2. [k \in 0 .. c.devnum - 1 |-> jhash[c.devlist[k]]] \in [0 .. c.devnum - 1 -> Nat]
    BY <2>1, HashAssumption
  <2> QED
    BY <1>2, <2>1, <2>2 DEF devset_init, Forget, search, TypeOK, Index, NoPacket, Packets
<1>3. ASSUME NEW p \in Packets, Hook(p)  PROVE TypeOK'
  BY <1>3 DEF Hook, TypeOK, Index, data, search
<1>4. CASE OrderTurn
  <2>1. Small \in Index /\ i \in Index
    BY <1>4, SmallProperties DEF OrderTurn
  <2>2. Swapped(hash, i, Small) \in [Index -> Nat] /\ Swapped(name, i, Small) \in [Index -> Name]
    BY <2>1, SwappedValues DEF TypeOK
  <2> QED
    BY <1>4, <2>2 DEF OrderTurn, TypeOK, Index, search
<1>5. CASE OrderOops
  BY <1>5 DEF OrderOops, TypeOK, Index, data, search
<1>6. CASE OrderDone
  BY <1>6 DEF OrderDone, TypeOK, Index, data, search
<1>7. CASE AskNobody
  BY <1>7, AnswerType DEF AskNobody
<1>8. CASE AskEmpty
  BY <1>8, AnswerType DEF AskEmpty
<1>9. CASE AskBegins
  BY <1>9 DEF AskBegins, TypeOK, Index, data
<1>10. CASE SearchLower
  BY <1>10, MidProperties DEF SearchLower, TypeOK, Index, data
<1>11. CASE SearchUpper
  BY <1>11, MidProperties DEF SearchUpper, TypeOK, Index, data
<1>12. CASE SearchEnds
  <2>1. Found \in Int
    BY MidProperties DEF Found, TypeOK
  <2> QED
    BY <1>12, <2>1 DEF SearchEnds, TypeOK, Index, data
<1>13. CASE Decide
  <2>1. black \in BOOLEAN
    BY DEF TypeOK
  <2>2. (IF Match THEN black ELSE ~ black) \in BOOLEAN
    BY <2>1
  <2> QED
    BY <1>13, <2>2, AnswerType DEF Decide
<1>14. CASE UNCHANGED vars
  BY <1>14 DEF vars, data, search, TypeOK, Index
<1> QED
  BY <1>1, <1>2, <1>3, <1>4, <1>5, <1>6, <1>7, <1>8, <1>9, <1>10, <1>11, <1>12, <1>13, <1>14
     DEF Next, Progress
-----------------------------------------------------------------------------
(***************************************************************************)
(* The sort.                                                               *)
(***************************************************************************)
LEMMA SetInit == Init => SetInv /\ OrderInv
<1> SUFFICES ASSUME Init  PROVE SetInv /\ OrderInv
  OBVIOUS
<1>1. Index = {} /\ DOMAIN list = {}
  BY DEF Init, Index, Empty
<1> QED
  BY <1>1 DEF Init, SetInv, OrderInv, SortedTo, Listed

\* An exchange keeps every name next to its hash, and keeps all names.
LEMMA SwapKeeps ==
  ASSUME TypeOK, SetInv, NEW a \in Index, NEW b \in Index
  PROVE  /\ {Swapped(name, a, b)[k] : k \in Index} = Listed
         /\ \A k \in Index : Swapped(hash, a, b)[k] = jhash[Swapped(name, a, b)[k]]
<1>1. name \in [Index -> Name] /\ hash \in [Index -> Nat]
  BY DEF TypeOK
<1> DEFINE nn == Swapped(name, a, b)
           hh == Swapped(hash, a, b)
<1>2. \A k \in Index : nn[k] = IF k = b THEN name[a] ELSE IF k = a THEN name[b] ELSE name[k]
  BY <1>1 DEF Swapped
<1>3. \A k \in Index : hh[k] = IF k = b THEN hash[a] ELSE IF k = a THEN hash[b] ELSE hash[k]
  BY <1>1 DEF Swapped
<1> HIDE DEF nn, hh
<1>4. {nn[k] : k \in Index} \subseteq {name[k] : k \in Index}
  BY <1>2
<1>5. ASSUME NEW k \in Index  PROVE \E j \in Index : nn[j] = name[k]
  <2>1. CASE k = a
    BY <2>1, <1>2
  <2>2. CASE k = b
    BY <2>2, <1>2
  <2>3. CASE k # a /\ k # b
    BY <2>3, <1>2
  <2> QED
    BY <2>1, <2>2, <2>3
<1>6. {nn[k] : k \in Index} = Listed
  BY <1>4, <1>5 DEF SetInv
<1>7. \A k \in Index : hh[k] = jhash[nn[k]]
  BY <1>2, <1>3 DEF SetInv
<1> QED
  BY <1>6, <1>7 DEF nn, hh

\* A turn of the sort brings the next smallest hash to its place.
LEMMA SwapSorts ==
  ASSUME TypeOK, OrderInv, pc = "order", i < elenum
  PROVE  \A a, b \in Index : a < i + 1 /\ a < b =>
           Swapped(hash, i, Small)[a] <= Swapped(hash, i, Small)[b]
<1>1. i \in Nat /\ elenum \in Nat /\ hash \in [Index -> Nat]
  BY DEF TypeOK
<1>2. /\ Small \in i .. elenum - 1 /\ Small \in Index /\ i \in Index
      /\ \A j \in i .. elenum - 1 : hash[Small] <= hash[j]
  BY SmallProperties
<1> DEFINE hh == Swapped(hash, i, Small)
<1>3. \A k \in Index : hh[k] = IF k = Small THEN hash[i] ELSE IF k = i THEN hash[Small] ELSE hash[k]
  BY <1>1, <1>2, SwappedValues
<1> HIDE DEF hh
<1>4. PICK s : s = Small
  OBVIOUS
<1>5. \A a, b \in Index : a < i /\ a < b => hash[a] <= hash[b]
  BY DEF OrderInv, SortedTo
<1> SUFFICES ASSUME NEW a \in Index, NEW b \in Index, a < i + 1, a < b
             PROVE  hh[a] <= hh[b]
  BY DEF hh
<1>6. a \in Nat /\ b \in Nat /\ b < elenum /\ s \in Nat /\ i <= s /\ s \in Index
  BY <1>1, <1>2, <1>4 DEF Index
<1>7. CASE a < i
  <2>1. hh[a] = hash[a]
    BY <1>1, <1>3, <1>4, <1>6, <1>7
  <2>2. hash[a] <= hash[b] /\ hash[a] <= hash[i] /\ hash[a] <= hash[s]
    BY <1>1, <1>2, <1>5, <1>6, <1>7
  <2> QED
    BY <1>3, <1>4, <2>1, <2>2
<1>8. CASE a = i
  <2>1. hh[a] = hash[s]
    BY <1>3, <1>4, <1>8
  <2>2. b \in i .. elenum - 1 /\ i \in i .. elenum - 1 /\ b # i
    BY <1>1, <1>6, <1>8
  <2>3. hash[s] <= hash[b] /\ hash[s] <= hash[i]
    BY <1>2, <1>4, <2>2
  <2> QED
    BY <1>3, <1>4, <2>1, <2>2, <2>3
<1> QED
  BY <1>1, <1>6, <1>7, <1>8

LEMMA SetStep == TypeOK /\ TypeOK' /\ SetInv /\ OrderInv /\ [Next]_vars => SetInv' /\ OrderInv'
<1> SUFFICES ASSUME TypeOK, TypeOK', SetInv, OrderInv, [Next]_vars  PROVE SetInv' /\ OrderInv'
  OBVIOUS
<1> DEFINE Kept == pc' \notin {"order", "oops"} /\ pc \notin {"order", "oops"} /\ UNCHANGED <<list, data>>
<1>1. CASE devset_exit
  <2>1. elenum' = 0 /\ list' = Empty /\ pc' = "rest"
    BY <1>1 DEF devset_exit
  <2>2. Index' = {} /\ DOMAIN list' = {}
    BY <2>1 DEF Index, Empty
  <2> QED
    BY <2>1, <2>2 DEF SetInv, OrderInv, SortedTo, Listed
<1>2. ASSUME NEW c \in Configs, devset_init(c)  PROVE SetInv' /\ OrderInv'
  <2>1. /\ elenum' = c.devnum /\ list' = c.devlist /\ name' = c.devlist /\ i' = 0 /\ live' = TRUE
        /\ hash' = [k \in 0 .. c.devnum - 1 |-> jhash[c.devlist[k]]]
        /\ pc' = "order"
    BY <1>2 DEF devset_init
  <2>2. c.devnum \in Nat /\ DOMAIN c.devlist = 0 .. c.devnum - 1
    BY ConfigAssumption
  <2>3. Index' = 0 .. c.devnum - 1 /\ Listed' = {c.devlist[k] : k \in 0 .. c.devnum - 1}
    BY <2>1, <2>2 DEF Index, Listed
  <2>4. SetInv'
    BY <2>1, <2>3 DEF SetInv
  <2>5. \A a \in Index' : ~ (a < 0)
    BY <2>2, <2>3
  <2> QED
    BY <2>1, <2>2, <2>4, <2>5 DEF OrderInv, SortedTo
<1>3. CASE OrderTurn
  <2>1. /\ pc = "order" /\ pc' = "order" /\ i < elenum /\ i' = i + 1 /\ list' = list
        /\ hash' = Swapped(hash, i, Small) /\ name' = Swapped(name, i, Small)
        /\ elenum' = elenum /\ live' = live
    BY <1>3 DEF OrderTurn
  <2>2. Small \in Index /\ i \in Index /\ Index' = Index /\ Listed' = Listed
    BY <2>1, SmallProperties DEF Index, Listed
  <2>3. SetInv'
    <3>1. PICK a : a = Small
      OBVIOUS
    <3>2. name' = Swapped(name, i, a) /\ hash' = Swapped(hash, i, a) /\ a \in Index
      BY <2>1, <2>2, <3>1
    <3>3. /\ {Swapped(name, i, a)[k] : k \in Index} = Listed
          /\ \A k \in Index : Swapped(hash, i, a)[k] = jhash[Swapped(name, i, a)[k]]
      BY <2>2, <3>2, SwapKeeps
    <3>4. /\ {name'[k] : k \in Index'} = Listed'
          /\ \A k \in Index' : hash'[k] = jhash[name'[k]]
      BY <2>2, <3>2, <3>3
    <3> QED
      BY <2>1, <3>4 DEF SetInv
  <2>4. SortedTo(i)'
    BY <2>1, <2>2, SwapSorts DEF SortedTo
  <2>5. i + 1 <= elenum
    BY <2>1 DEF TypeOK
  <2> QED
    BY <2>1, <2>3, <2>4, <2>5 DEF OrderInv
<1>4. CASE OrderOops
  BY <1>4 DEF OrderOops, data, SetInv, OrderInv, SortedTo, Index, Listed
<1>5. CASE OrderDone
  <2>1. SortedTo(i) /\ i >= elenum /\ i \in Nat /\ elenum \in Nat
    BY <1>5 DEF OrderDone, OrderInv, TypeOK
  <2>2. SortedTo(elenum)
    BY <2>1 DEF SortedTo, Index
  <2> QED
    BY <1>5, <2>2 DEF OrderDone, data, SetInv, OrderInv, SortedTo, Index, Listed
<1>6. CASE Kept
  BY <1>6 DEF data, SetInv, OrderInv, SortedTo, Index, Listed
<1>7. CASE UNCHANGED vars
  BY <1>7 DEF vars, data, SetInv, OrderInv, SortedTo, Index, Listed
<1>8. (\E p \in Packets : Hook(p)) \/ AskNobody \/ AskEmpty \/ AskBegins \/ SearchLower \/ SearchUpper \/ SearchEnds \/ Decide => Kept
  BY DEF Hook, AskNobody, AskEmpty, AskBegins, SearchLower, SearchUpper, SearchEnds, Decide, Answer, TypeOK
<1> QED
  BY <1>1, <1>2, <1>3, <1>4, <1>5, <1>6, <1>7, <1>8 DEF Next, Progress
-----------------------------------------------------------------------------
(***************************************************************************)
(* The search.                                                             *)
(***************************************************************************)

\* What may be used of the arrays while a device is searched for.
Searching ==
  /\ low \in Int /\ high \in Int /\ elenum \in Nat /\ t \in Int
  /\ hash \in [Index -> Nat] /\ h \in Nat
  /\ \A a, b \in Index : a < b => hash[a] <= hash[b]

LEMMA SearchingHolds ==
  ASSUME TypeOK, OrderInv, pc \in {"ask", "search", "decide"}, dev # NoDev
  PROVE  Searching
<1>1. dev \in Name
  BY DEF TypeOK, Packets, dev
<1>2. h \in Nat
  BY <1>1, HashAssumption DEF h
<1>3. \A a, b \in Index : a < b => hash[a] <= hash[b]
  BY DEF OrderInv, SortedTo, TypeOK, Index
<1> QED
  BY <1>2, <1>3 DEF Searching, TypeOK

\* A turn to the left keeps the window right, and halves it.
LEMMA LowerTurn ==
  ASSUME Searching, WindowHolds, SearchLower
  PROVE  WindowHolds' /\ 2 * (high' - low' + 1) <= (high - low) + 1
<1>1. /\ pc = "search" /\ pc' = "search" /\ low' = low /\ high' = Mid - 1
      /\ UNCHANGED <<elenum, hash, h>>
      /\ low <= high /\ hash[low] < h /\ h < hash[high] /\ h < hash[Mid]
  BY DEF SearchLower, Between, data, h, dev
<1>2. /\ 0 <= low /\ high < elenum
      /\ \A k \in Index : hash[k] = h => low <= k /\ k <= high
  BY <1>1 DEF WindowHolds
<1>3. PICK m : m = Mid
  OBVIOUS
<1>4. m \in Int /\ low <= m /\ m <= high /\ 2 * (m - low) <= high - low
  BY <1>1, <1>3 DEF Mid, Searching
<1>5. low \in Index /\ m \in Index
  BY <1>1, <1>2, <1>4 DEF Index, Searching
<1>6. low # m
  BY <1>1, <1>3, <1>5 DEF Searching
<1>7. ASSUME NEW k \in Index, hash[k] = h  PROVE k <= m - 1
  <2>1. ~ (m < k) /\ k # m
    BY <1>1, <1>3, <1>5, <1>7 DEF Searching
  <2> QED
    BY <2>1, <1>4 DEF Index, Searching
<1>8. low <= m - 1 /\ m - 1 < elenum /\ 2 * (((m - 1) - low) + 1) <= (high - low) + 1
  BY <1>1, <1>2, <1>4, <1>6 DEF Searching
<1>9. Index' = Index
  BY <1>1 DEF Index
<1> QED
  BY <1>1, <1>2, <1>3, <1>7, <1>8, <1>9 DEF WindowHolds

\* So does a turn to the right.
LEMMA UpperTurn ==
  ASSUME Searching, WindowHolds, SearchUpper
  PROVE  WindowHolds' /\ 2 * (high' - low' + 1) <= (high - low) + 1
<1>1. /\ pc = "search" /\ pc' = "search" /\ high' = high /\ low' = Mid + 1
      /\ UNCHANGED <<elenum, hash, h>>
      /\ low <= high /\ hash[low] < h /\ h < hash[high] /\ h > hash[Mid]
  BY DEF SearchUpper, Between, data, h, dev
<1>2. /\ 0 <= low /\ high < elenum
      /\ \A k \in Index : hash[k] = h => low <= k /\ k <= high
  BY <1>1 DEF WindowHolds
<1>3. PICK m : m = Mid
  OBVIOUS
<1>4. m \in Int /\ low <= m /\ m <= high /\ high - low <= 2 * (m - low) + 1
  BY <1>1, <1>3 DEF Mid, Searching
<1>5. high \in Index /\ m \in Index
  BY <1>1, <1>2, <1>4 DEF Index, Searching
<1>6. high # m
  BY <1>1, <1>3, <1>5 DEF Searching
<1>7. ASSUME NEW k \in Index, hash[k] = h  PROVE m + 1 <= k
  <2>1. ~ (k < m) /\ k # m
    BY <1>1, <1>3, <1>5, <1>7 DEF Searching
  <2> QED
    BY <2>1, <1>4 DEF Index, Searching
<1>8. m + 1 <= high /\ 0 <= m + 1 /\ 2 * ((high - (m + 1)) + 1) <= (high - low) + 1
  BY <1>1, <1>2, <1>4, <1>6 DEF Searching
<1>9. Index' = Index
  BY <1>1 DEF Index
<1> QED
  BY <1>1, <1>2, <1>3, <1>7, <1>8, <1>9 DEF WindowHolds

\* When the loop is left, t is the place of an entry with the hash, or there
\* is none.
LEMMA EndTurn ==
  ASSUME Searching, WindowHolds, SearchEnds
  PROVE  WindowHolds'
<1>1. /\ pc = "search" /\ pc' = "decide" /\ t' = Found
      /\ UNCHANGED <<elenum, hash, h>>
      /\ ~ Between \/ h = hash[Mid]
  BY DEF SearchEnds, data, h, dev
<1>2. /\ 0 <= low /\ low <= high /\ high < elenum
      /\ \A k \in Index : hash[k] = h => low <= k /\ k <= high
  BY <1>1 DEF WindowHolds
<1>3. low \in Index /\ high \in Index /\ Mid \in Index
  BY <1>2, MidProperties DEF Index, Searching
<1>4. Index \subseteq Nat /\ Index' = Index
  BY <1>1 DEF Index, Searching
<1>5. CASE Between
  <2>1. t' = Mid /\ h = hash[Mid]
    BY <1>1, <1>2, <1>5 DEF Found, Searching
  <2>2. t' \in Index' /\ hash'[t'] = h' /\ t' # -1
    BY <1>1, <1>3, <1>4, <2>1
  <2> QED
    BY <1>1, <2>2 DEF WindowHolds
<1>6. CASE ~ Between /\ (h = hash[high] \/ h = hash[low])
  <2>1. t' \in {low, high} /\ hash[t'] = h
    BY <1>1, <1>2, <1>6 DEF Found, Searching
  <2>2. t' \in Index' /\ hash'[t'] = h' /\ t' # -1
    BY <1>1, <1>3, <1>4, <2>1
  <2> QED
    BY <1>1, <2>2 DEF WindowHolds
<1>7. CASE ~ Between /\ h # hash[high] /\ h # hash[low]
  <2>1. t' = -1
    BY <1>1, <1>2, <1>7 DEF Found, Searching
  <2>2. h < hash[low] \/ hash[high] < h
    BY <1>2, <1>3, <1>7 DEF Between, Searching
  <2>3. ASSUME NEW k \in Index, hash[k] = h  PROVE FALSE
    <3>1. low <= k /\ k <= high
      BY <1>2, <2>3
    <3>2. low < k /\ k < high
      BY <1>3, <1>4, <1>7, <2>3, <3>1 DEF Searching
    <3>3. hash[low] <= hash[k] /\ hash[k] <= hash[high]
      BY <1>3, <3>2 DEF Searching
    <3> QED
      BY <1>3, <2>2, <2>3, <3>3 DEF Searching
  <2>4. \A k \in Index' : hash'[k] # h'
    BY <1>1, <1>4, <2>3
  <2> QED
    BY <1>1, <2>1, <2>4 DEF WindowHolds
<1> QED
  BY <1>5, <1>6, <1>7

\* The window of a search that begins is the whole array.
LEMMA FirstTurn ==
  ASSUME TypeOK, AskBegins
  PROVE  WindowHolds'
<1>1. /\ pc' = "search" /\ low' = 0 /\ high' = elenum - 1 /\ elenum - 1 >= 0
      /\ UNCHANGED <<elenum, hash, h>>
  BY DEF AskBegins, data, h, dev
<1>2. elenum \in Nat
  BY DEF TypeOK
<1> QED
  BY <1>1, <1>2 DEF WindowHolds, Index

LEMMA WindowStep ==
  TypeOK /\ OrderInv /\ AskInv /\ WindowHolds /\ [Next]_vars => WindowHolds'
<1> SUFFICES ASSUME TypeOK, OrderInv, AskInv, WindowHolds, [Next]_vars  PROVE WindowHolds'
  OBVIOUS
<1>1. CASE AskBegins
  BY <1>1, FirstTurn
<1>2. ASSUME SearchLower \/ SearchUpper \/ SearchEnds  PROVE Searching
  <2>1. pc = "search"
    BY <1>2 DEF SearchLower, SearchUpper, SearchEnds
  <2> QED
    BY <2>1, SearchingHolds DEF AskInv
<1>3. CASE SearchLower \/ SearchUpper \/ SearchEnds
  BY <1>2, <1>3, LowerTurn, UpperTurn, EndTurn
<1>4. ASSUME \/ devset_exit \/ (\E c \in Configs : devset_init(c)) \/ (\E p \in Packets : Hook(p))
             \/ OrderTurn \/ OrderOops \/ OrderDone \/ AskNobody \/ AskEmpty \/ Decide
      PROVE  pc' \notin {"search", "decide"}
  BY <1>4 DEF devset_exit, devset_init, Hook, OrderTurn, OrderOops, OrderDone, AskNobody, AskEmpty, Decide, Answer
<1>5. pc' \notin {"search", "decide"} => WindowHolds'
  BY DEF WindowHolds
<1>6. CASE UNCHANGED vars
  BY <1>6 DEF vars, data, search, WindowHolds, Index, h, dev
<1> QED
  BY <1>1, <1>3, <1>4, <1>5, <1>6 DEF Next, Progress

-----------------------------------------------------------------------------
(***************************************************************************)
(* The verdict.                                                            *)
(***************************************************************************)

\* The part of the invariant that does not speak of the loops.
VerdictInv == AskInv /\ VerdictRight

\* Once devset_ignore answers rightly for one device, ignore goes on rightly.
LEMMA AnswerRight ==
  ASSUME TypeOK, VerdictInv, pc \in {"ask", "search", "decide"},
         NEW v \in BOOLEAN, Answer(v), Told(dev, v)
  PROVE  VerdictInv'
<1>1. /\ UNCHANGED <<list, black, pkt>>
      /\ pc' = IF v /\ who = "in" THEN "ask" ELSE "rest"
      /\ who' = IF v THEN "out" ELSE who
      /\ verdict' = IF ~ v THEN "count" ELSE IF who = "out" THEN "ignore" ELSE verdict
  BY DEF Answer, data
<1>2. /\ Wanted(pkt.in)' <=> Wanted(pkt.in)
      /\ Wanted(pkt.out)' <=> Wanted(pkt.out)
      /\ Clashes(pkt.in)' <=> Clashes(pkt.in)
      /\ Clashes(pkt.out)' <=> Clashes(pkt.out)
  BY <1>1 DEF Wanted, Clashes, Listed
<1>3. pkt' = pkt /\ verdict = "none" /\ who \in {"in", "out"}
  BY <1>1 DEF VerdictInv, AskInv, TypeOK
<1>4. CASE v /\ who = "in"
  <2>1. pc' = "ask" /\ who' = "out" /\ verdict' = "none"
    BY <1>1, <1>3, <1>4
  <2>2. Told(pkt.in, TRUE)
    BY <1>4 DEF dev
  <2>3. Told(pkt.in, TRUE)'
    BY <1>2, <1>3, <2>2 DEF Told
  <2> QED
    BY <1>3, <2>1, <2>3 DEF VerdictInv, AskInv, VerdictRight
<1>5. CASE v /\ who = "out"
  <2>1. pc' = "rest" /\ verdict' = "ignore"
    BY <1>1, <1>5
  <2>2. Told(pkt.in, TRUE) /\ Told(pkt.out, TRUE)
    BY <1>5 DEF dev, VerdictInv, AskInv
  <2>3. (~ Wanted(pkt.in) /\ ~ Wanted(pkt.out)) \/ Clashes(pkt.in) \/ Clashes(pkt.out)
    BY <2>2 DEF Told
  <2>4. (~ Wanted(pkt.in)' /\ ~ Wanted(pkt.out)') \/ Clashes(pkt.in)' \/ Clashes(pkt.out)'
    BY <1>2, <1>3, <2>3
  <2> QED
    BY <2>1, <2>4 DEF VerdictInv, AskInv, VerdictRight
<1>6. CASE ~ v
  <2>1. pc' = "rest" /\ verdict' = "count"
    BY <1>1, <1>6
  <2>2. Wanted(dev) \/ Clashes(dev)
    BY <1>6 DEF Told
  <2>3. dev \in {pkt.in, pkt.out}
    BY <1>3 DEF dev
  <2>4. Wanted(pkt.in) \/ Wanted(pkt.out) \/ Clashes(pkt.in) \/ Clashes(pkt.out)
    BY <2>2, <2>3
  <2>5. Wanted(pkt.in)' \/ Wanted(pkt.out)' \/ Clashes(pkt.in)' \/ Clashes(pkt.out)'
    BY <1>2, <1>3, <2>4
  <2> QED
    BY <2>1, <2>5 DEF VerdictInv, AskInv, VerdictRight
<1> QED
  BY <1>3, <1>4, <1>5, <1>6

\* The name of the entry found decides, unless another listed name has its hash.
LEMMA MatchRight ==
  ASSUME TypeOK, SetInv, WindowHolds, pc = "decide", dev # NoDev
  PROVE  Told(dev, IF Match THEN black ELSE ~ black)
<1>1. /\ {name[k] : k \in Index} = Listed
      /\ \A k \in Index : hash[k] = jhash[name[k]]
      /\ black \in BOOLEAN
  BY DEF SetInv, TypeOK
<1>2. IF t = -1 THEN \A k \in Index : hash[k] # h ELSE t \in Index /\ hash[t] = h
  BY DEF WindowHolds
<1>3. CASE Match
  <2>1. dev \in Listed
    BY <1>1, <1>2, <1>3 DEF Match
  <2> QED
    BY <1>1, <1>3, <2>1 DEF Told, Wanted
<1>4. CASE ~ Match /\ dev \notin Listed
  BY <1>1, <1>4 DEF Told, Wanted
<1>5. CASE ~ Match /\ dev \in Listed
  <2>1. PICK k \in Index : name[k] = dev
    BY <1>1, <1>5
  <2>2. hash[k] = h
    BY <1>1, <2>1 DEF h
  <2>3. t # -1 /\ t \in Index /\ hash[t] = h /\ name[t] # dev
    BY <1>2, <1>5, <2>2 DEF Match
  <2>4. name[t] \in Listed /\ jhash[name[t]] = jhash[dev]
    BY <1>1, <2>3 DEF h
  <2> QED
    BY <1>5, <2>3, <2>4 DEF Told, Clashes
<1> QED
  BY <1>3, <1>4, <1>5

LEMMA VerdictStep ==
  TypeOK /\ SetInv /\ WindowHolds /\ VerdictInv /\ [Next]_vars => VerdictInv'
<1> SUFFICES ASSUME TypeOK, SetInv, WindowHolds, VerdictInv, [Next]_vars  PROVE VerdictInv'
  OBVIOUS
<1>1. black \in BOOLEAN /\ elenum \in Nat
  BY DEF TypeOK
<1>2. CASE devset_exit
  BY <1>2 DEF devset_exit, Forget, VerdictInv, AskInv, VerdictRight
<1>3. ASSUME NEW c \in Configs, devset_init(c)  PROVE VerdictInv'
  BY <1>3 DEF devset_init, Forget, VerdictInv, AskInv, VerdictRight
<1>4. ASSUME NEW p \in Packets, Hook(p)  PROVE VerdictInv'
  BY <1>4 DEF Hook, VerdictInv, AskInv, VerdictRight
<1>5. CASE OrderTurn \/ OrderOops \/ OrderDone
  <2>1. pc = "order" /\ pc' \in {"order", "oops", "rest"} /\ verdict' = verdict
    BY <1>5 DEF OrderTurn, OrderOops, OrderDone
  <2> QED
    BY <2>1 DEF VerdictInv, AskInv, VerdictRight
<1>6. CASE AskNobody
  <2>1. pc = "ask" /\ Answer(TRUE) /\ Told(dev, TRUE)
    BY <1>6 DEF AskNobody, Told, Wanted
  <2> QED
    BY <2>1, AnswerRight
<1>7. CASE AskEmpty
  <2>1. pc = "ask" /\ dev # NoDev /\ Answer(elenum - 1 < 0 /\ ~ black) /\ elenum = 0
    BY <1>1, <1>7 DEF AskEmpty, SetInv
  <2>2. Index = {}
    BY <2>1 DEF Index
  <2>3. Listed = {}
    BY <2>2 DEF SetInv
  <2>4. (elenum - 1 < 0 /\ ~ black) <=> ~ black
    BY <2>1
  <2>5. Told(dev, elenum - 1 < 0 /\ ~ black)
    BY <1>1, <2>1, <2>3, <2>4 DEF Told, Wanted
  <2>6. (elenum - 1 < 0 /\ ~ black) \in BOOLEAN
    OBVIOUS
  <2> QED
    BY <2>1, <2>5, <2>6, AnswerRight
<1>8. CASE AskBegins
  <2>1. pc = "ask" /\ pc' = "search" /\ UNCHANGED <<list, black, pkt, who, verdict>> /\ dev # NoDev /\ dev' = dev
    BY <1>8 DEF AskBegins, data, dev
  <2> QED
    BY <2>1 DEF VerdictInv, AskInv, VerdictRight, Told, Wanted, Clashes, Listed
<1>9. CASE SearchLower \/ SearchUpper \/ SearchEnds
  <2>1. /\ pc = "search" /\ pc' \in {"search", "decide"}
        /\ UNCHANGED <<list, black, pkt, who, verdict>> /\ dev' = dev
    BY <1>9 DEF SearchLower, SearchUpper, SearchEnds, data, dev
  <2> QED
    BY <2>1 DEF VerdictInv, AskInv, VerdictRight, Told, Wanted, Clashes, Listed
<1>10. CASE Decide
  <2>1. pc = "decide" /\ Answer(IF Match THEN black ELSE ~ black) /\ dev # NoDev
    BY <1>10 DEF Decide, VerdictInv, AskInv
  <2>2. Told(dev, IF Match THEN black ELSE ~ black)
    BY <2>1, MatchRight
  <2>3. (IF Match THEN black ELSE ~ black) \in BOOLEAN
    BY <1>1
  <2> QED
    BY <2>1, <2>2, <2>3, AnswerRight
<1>11. CASE UNCHANGED vars
  <2>1. UNCHANGED <<pc, list, black, pkt, who, verdict>> /\ dev' = dev
    BY <1>11 DEF vars, data, dev
  <2> QED
    BY <2>1 DEF VerdictInv, AskInv, VerdictRight, Told, Wanted, Clashes, Listed
<1> QED
  BY <1>2, <1>3, <1>4, <1>5, <1>6, <1>7, <1>8, <1>9, <1>10, <1>11 DEF Next, Progress

-----------------------------------------------------------------------------
(***************************************************************************)
(* The theorems.                                                           *)
(***************************************************************************)
LEMMA StrengtheningHolds == Spec => []IInv
<1>1. Init => IInv
  BY TypeInit, SetInit DEF Init, IInv, WindowHolds, AskInv, VerdictRight
<1>2. IInv /\ [Next]_vars => IInv'
  BY TypeStep, SetStep, WindowStep, VerdictStep DEF IInv, VerdictInv
<1> QED
  BY <1>1, <1>2, PTL DEF Spec

\* The variables of devset.c and of its callers keep their types: the arrays
\* always have elenum entries.
THEOREM TypeCorrect == Spec => []TypeOK
<1>1. IInv => TypeOK
  BY DEF IInv
<1> QED
  BY <1>1, StrengtheningHolds, PTL

\* For every list, __devset_order leaves the listed names, next to their
\* hashes, in the order of the hashes.
THEOREM OrderIsOrder == Spec => []Ordered
<1>1. IInv => Ordered
  BY DEF IInv, SetInv, OrderInv, SortedTo, Ordered, TypeOK, Index
<1> QED
  BY <1>1, StrengtheningHolds, PTL

\* For every list and every name, the search of devset_ignore stays in the
\* arrays and ends at an entry with the hash of the name if there is one.
THEOREM SearchIsRight == Spec => []WindowHolds
<1>1. IInv => WindowHolds
  BY DEF IInv
<1> QED
  BY <1>1, StrengtheningHolds, PTL

\* Every verdict of ignore is what the list says, but for clashes of hashes.
THEOREM VerdictIsRight == Spec => []VerdictRight
<1>1. IInv => VerdictRight
  BY DEF IInv
<1> QED
  BY <1>1, StrengtheningHolds, PTL

\* A turn of the search that does not end it at least halves its window: the
\* search is logarithmic in the length of the list, whatever the hashes are.
THEOREM SearchHalves == Spec => Halves
<1>1. ASSUME IInv, [Next]_vars, pc = "search", pc' = "search"
      PROVE  \/ 2 * (high' - low' + 1) <= (high - low) + 1
             \/ UNCHANGED vars
  <2>1. Searching /\ WindowHolds
    BY <1>1, SearchingHolds DEF IInv, AskInv
  <2>2. SearchLower \/ SearchUpper \/ UNCHANGED vars
    BY <1>1 DEF Next, Progress, devset_exit, devset_init, Hook, OrderTurn, OrderOops, OrderDone,
       AskNobody, AskEmpty, AskBegins, SearchEnds, Decide
  <2> QED
    BY <2>1, <2>2, LowerTurn, UpperTurn
<1>2. IInv /\ [Next]_vars =>
        [pc = "search" /\ pc' = "search" => 2 * (high' - low' + 1) <= (high - low) + 1]_vars
  BY <1>1
<1> QED
  BY <1>2, StrengtheningHolds, PTL DEF Spec, Halves
=============================================================================
