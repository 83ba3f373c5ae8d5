---------------------------- MODULE NfsRuleProof ----------------------------
(***************************************************************************)
(* Theorems about NfsRule: with rules that have their wildcards in the     *)
(* same fields, the tree is a table of rules.                              *)
(***************************************************************************)
EXTENDS NfsRule, TLAPS, SequenceTheorems, WellFoundedInduction

\* A non-empty set of natural numbers has a least element.
LEMMA LeastElement ==
  ASSUME NEW T, T \subseteq Nat, T # {}
  PROVE  \E x \in T : \A y \in T : x <= y
<1> DEFINE R == {ss \in Nat \X Nat : ss[1] < ss[2]}
<1>1. IsWellFoundedOn(R, Nat)
  BY NatLessThanWellFounded DEF OpToRel
<1>2. PICK x \in T : \A y \in T : <<y, x>> \notin R
  BY <1>1, WFMin
<1>3. ASSUME NEW y \in T  PROVE x <= y
  <2>1. x \in Nat /\ y \in Nat
    OBVIOUS
  <2>2. y < x => <<y, x>> \in R
    BY <2>1
  <2> QED
    BY <1>2, <2>1, <2>2
<1> QED
  BY <1>3

-----------------------------------------------------------------------------
(***************************************************************************)
(* The order of rules.                                                     *)
(***************************************************************************)
LEMMA FieldsAreNames ==
  /\ \A k \in 1 .. 6 : Fields[k] \in FieldName
  /\ \A f \in FieldName : \E k \in 1 .. 6 : Fields[k] = f
  /\ Fields[1] = "protocol"
<1>1. ASSUME NEW k \in 1 .. 6  PROVE Fields[k] \in FieldName
  BY DEF Fields, FieldName
<1>2. ASSUME NEW f \in FieldName  PROVE \E k \in 1 .. 6 : Fields[k] = f
  <2>1. Fields[1] = "protocol" /\ Fields[2] = "dir" /\ Fields[3] = "lport"
    BY DEF Fields
  <2>2. Fields[4] = "rport" /\ Fields[5] = "lip" /\ Fields[6] = "rip"
    BY DEF Fields
  <2> QED
    BY <2>1, <2>2 DEF FieldName
<1> QED
  BY <1>1, <1>2 DEF Fields

LEMMA FieldIsNat ==
  ASSUME NEW a \in Rule, NEW k \in 1 .. 6
  PROVE  a[Fields[k]] \in Nat /\ a.protocol \in Nat
<1>1. Fields[k] \in FieldName /\ "protocol" \in FieldName
  BY FieldsAreNames DEF FieldName
<1> QED
  BY <1>1 DEF Rule

\* Of the protocols of two rules the greater rule has the one that is not less.
LEMMA GreaterProtocol ==
  ASSUME NEW x \in Rule, NEW y \in Rule, Greater(x, y)
  PROVE  x.protocol >= y.protocol
<1>1. PICK k \in 1 .. 6 :
        /\ Differ(x, y, k) /\ x[Fields[k]] > y[Fields[k]]
        /\ \A j \in 1 .. k - 1 : ~ Differ(x, y, j)
  BY DEF Greater
<1>2. x.protocol \in Nat /\ y.protocol \in Nat
  BY FieldIsNat
<1>3. CASE k = 1
  BY <1>1, <1>2, <1>3, FieldsAreNames
<1>4. CASE k # 1
  <2>1. ~ Differ(x, y, 1)
    BY <1>1, <1>4
  <2>2. x.protocol = y.protocol
    BY <2>1, FieldsAreNames DEF Differ
  <2> QED
    BY <1>2, <2>2
<1> QED
  BY <1>3, <1>4

LEMMA LargerProtocol ==
  ASSUME NEW x \in Rule, NEW y \in Rule, x.protocol > y.protocol
  PROVE  Greater(x, y)
<1>1. x.protocol \in Nat /\ y.protocol \in Nat
  BY FieldIsNat
<1>2. Differ(x, y, 1) /\ x[Fields[1]] > y[Fields[1]]
  BY <1>1, FieldsAreNames DEF Differ
<1>3. \A j \in 1 .. 1 - 1 : ~ Differ(x, y, j)
  OBVIOUS
<1> QED
  BY <1>2, <1>3 DEF Greater

\* Among rules of one protocol with the same wildcards rulecmp is transitive.
\* One of the outer two may be a packet, which has values elsewhere.
LEMMA GreaterTransitive ==
  ASSUME NEW x \in Rule, NEW y \in Rule, NEW z \in Rule,
         x.protocol = y.protocol /\ y.protocol = z.protocol =>
           \A f \in FieldName :
             \/ y[f] = 0 /\ (x[f] = 0 \/ z[f] = 0)
             \/ x[f] # 0 /\ y[f] # 0 /\ z[f] # 0,
         Greater(x, y), Greater(y, z)
  PROVE  Greater(x, z)
<1>1. x.protocol >= y.protocol /\ y.protocol >= z.protocol
  BY GreaterProtocol
<1>2. x.protocol \in Nat /\ y.protocol \in Nat /\ z.protocol \in Nat
  BY FieldIsNat
<1>3. CASE x.protocol > z.protocol
  BY <1>3, LargerProtocol
<1>4. CASE x.protocol = y.protocol /\ y.protocol = z.protocol
  <2>1. PICK k \in 1 .. 6 :
          /\ Differ(x, y, k) /\ x[Fields[k]] > y[Fields[k]]
          /\ \A j \in 1 .. k - 1 : ~ Differ(x, y, j)
    BY DEF Greater
  <2>2. PICK l \in 1 .. 6 :
          /\ Differ(y, z, l) /\ y[Fields[l]] > z[Fields[l]]
          /\ \A j \in 1 .. l - 1 : ~ Differ(y, z, j)
    BY DEF Greater
  <2>3. \A j \in 1 .. 6 :
          \/ y[Fields[j]] = 0 /\ (x[Fields[j]] = 0 \/ z[Fields[j]] = 0)
          \/ x[Fields[j]] # 0 /\ y[Fields[j]] # 0 /\ z[Fields[j]] # 0
    BY <1>4, FieldsAreNames
  <2>4. \A j \in 1 .. 6 : x[Fields[j]] \in Nat /\ y[Fields[j]] \in Nat /\ z[Fields[j]] \in Nat
    BY FieldIsNat
  <2>5. ASSUME NEW j \in 1 .. 6, ~ Differ(x, y, j), ~ Differ(y, z, j)
        PROVE  ~ Differ(x, z, j)
    BY <1>4, <2>3, <2>5, FieldsAreNames DEF Differ
  <2>6. ASSUME NEW j \in 1 .. 6,
               Differ(x, y, j) => x[Fields[j]] > y[Fields[j]],
               Differ(y, z, j) => y[Fields[j]] > z[Fields[j]],
               Differ(x, y, j) \/ Differ(y, z, j)
        PROVE  Differ(x, z, j) /\ x[Fields[j]] > z[Fields[j]]
    BY <1>4, <2>3, <2>4, <2>6, FieldsAreNames DEF Differ
  <2>7. PICK n \in 1 .. 6 :
          /\ n <= k /\ n <= l
          /\ n = k \/ n = l
    BY <2>1, <2>2
  <2>8. Differ(x, z, n) /\ x[Fields[n]] > z[Fields[n]]
    <3>1. CASE n = k /\ n = l
      BY <2>1, <2>2, <2>6, <3>1
    <3>2. CASE n = k /\ n < l
      <4>1. ~ Differ(y, z, n)
        BY <2>2, <3>2
      <4> QED
        BY <2>1, <2>6, <3>2, <4>1
    <3>3. CASE n < k /\ n = l
      <4>1. ~ Differ(x, y, n)
        BY <2>1, <3>3
      <4> QED
        BY <2>2, <2>6, <3>3, <4>1
    <3> QED
      BY <2>7, <3>1, <3>2, <3>3
  <2>9. ASSUME NEW j \in 1 .. n - 1  PROVE ~ Differ(x, z, j)
    <3>1. j \in 1 .. 6 /\ j \in 1 .. k - 1 /\ j \in 1 .. l - 1
      BY <2>7
    <3> QED
      BY <2>1, <2>2, <2>5, <3>1
  <2> QED
    BY <2>8, <2>9 DEF Greater
<1> QED
  BY <1>1, <1>2, <1>3, <1>4

\* A packet that is before or behind a rule does not match it.
LEMMA GreaterIsNoMatch ==
  ASSUME NEW p \in Rule, NEW r \in Rule, r.protocol # 0,
         Greater(p, r) \/ Greater(r, p)
  PROVE  ~ Matches(p, r)
<1>1. PICK k \in 1 .. 6 : Differ(p, r, k)
  BY DEF Greater, Differ
<1>2. Fields[k] \in FieldName /\ r[Fields[k]] # p[Fields[k]] /\ r[Fields[k]] # 0
  BY <1>1, FieldsAreNames DEF Differ
<1> QED
  BY <1>2 DEF Matches

\* Rules one of which is before the other do not overlap.
LEMMA GreaterIsNoOverlap ==
  ASSUME NEW r \in Rule, NEW s \in Rule, r.protocol # 0, s.protocol # 0,
         Greater(r, s) \/ Greater(s, r)
  PROVE  ~ Table!Overlap(r, s)
<1>1. PICK k \in 1 .. 6 : Differ(r, s, k)
  BY DEF Greater, Differ
<1>2. /\ Fields[k] \in FieldName
      /\ r[Fields[k]] # s[Fields[k]] /\ r[Fields[k]] # 0 /\ s[Fields[k]] # 0
  BY <1>1, FieldsAreNames DEF Differ
<1> QED
  BY <1>2 DEF Table!Overlap, Table!FieldName, FieldName

\* Rules that compare equal differ in no field.
LEMMA SameDiffersNowhere ==
  ASSUME NEW r \in Rule, NEW s \in Rule, Same(r, s), NEW k \in 1 .. 6
  PROVE  ~ Differ(r, s, k)
<1> DEFINE D == {j \in 1 .. 6 : Differ(r, s, j)}
<1>1. SUFFICES ASSUME D # {}  PROVE FALSE
  OBVIOUS
<1>2. PICK n \in D : \A j \in D : n <= j
  BY <1>1, LeastElement
<1>3. \A j \in 1 .. n - 1 : j \in 1 .. 6 /\ ~ Differ(r, s, j) /\ ~ Differ(s, r, j)
  <2>1. ASSUME NEW j \in 1 .. n - 1  PROVE j \in 1 .. 6 /\ ~ Differ(r, s, j)
    BY <1>2
  <2>2. ASSUME NEW j \in 1 .. 6, ~ Differ(r, s, j)  PROVE ~ Differ(s, r, j)
    BY <2>2 DEF Differ
  <2> QED
    BY <2>1, <2>2
<1>4. Differ(r, s, n) /\ Differ(s, r, n)
  BY DEF Differ
<1>5. r[Fields[n]] > s[Fields[n]] \/ s[Fields[n]] > r[Fields[n]]
  BY <1>4, FieldIsNat DEF Differ
<1>6. Greater(r, s) \/ Greater(s, r)
  BY <1>3, <1>4, <1>5 DEF Greater
<1> QED
  BY <1>6 DEF Same

LEMMA SameOverlaps ==
  ASSUME NEW r \in Rule, NEW s \in Rule, Same(r, s)
  PROVE  Table!Overlap(r, s)
<1>1. ASSUME NEW f \in FieldName  PROVE r[f] = 0 \/ s[f] = 0 \/ r[f] = s[f]
  <2>1. PICK k \in 1 .. 6 : Fields[k] = f
    BY FieldsAreNames
  <2> QED
    BY <2>1, SameDiffersNowhere DEF Differ
<1> QED
  BY <1>1 DEF Table!Overlap, Table!FieldName, FieldName

LEMMA SameMatches ==
  ASSUME Uniform, NEW p \in Packets, NEW r \in Rules, Same(p, r)
  PROVE  Matches(p, r)
<1>1. p \in Rule /\ r \in Rule
  BY RuleAssumption
<1>2. p.protocol = r.protocol
  BY <1>1, SameDiffersNowhere, FieldsAreNames DEF Differ
<1>3. ASSUME NEW f \in FieldName  PROVE r[f] = 0 \/ r[f] = p[f]
  <2>1. PICK k \in 1 .. 6 : Fields[k] = f
    BY FieldsAreNames
  <2>2. p[f] = 0 => r[f] = 0
    BY <1>2 DEF Uniform
  <2> QED
    BY <1>1, <2>1, <2>2, SameDiffersNowhere DEF Differ
<1> QED
  BY <1>3 DEF Matches

-----------------------------------------------------------------------------
(***************************************************************************)
(* Linking and erasing.                                                    *)
(***************************************************************************)
LEMMA Inserted ==
  ASSUME NEW S, NEW s \in Seq(S), NEW i \in 1 .. Len(s) + 1, NEW e \in S
  PROVE  /\ InsertAt(s, i, e) \in Seq(S)
         /\ Len(InsertAt(s, i, e)) = Len(s) + 1
         /\ \A k \in 1 .. Len(s) + 1 :
              InsertAt(s, i, e)[k] = IF k < i THEN s[k] ELSE IF k = i THEN e ELSE s[k - 1]
<1> DEFINE a == SubSeq(s, 1, i - 1)
           b == SubSeq(s, i, Len(s))
<1>1. a \in Seq(S) /\ Len(a) = i - 1 /\ \A k \in 1 .. i - 1 : a[k] = s[k]
  BY SubSeqProperties
<1>2. b \in Seq(S) /\ Len(b) = Len(s) - i + 1 /\ \A k \in 1 .. Len(s) - i + 1 : b[k] = s[i + k - 1]
  BY SubSeqProperties
<1>3. <<e>> \in Seq(S) /\ Len(<<e>>) = 1 /\ <<e>>[1] = e
  OBVIOUS
<1> HIDE DEF a, b
<1>4. /\ a \o <<e>> \in Seq(S) /\ Len(a \o <<e>>) = i
      /\ \A k \in 1 .. i : (a \o <<e>>)[k] = IF k < i THEN s[k] ELSE e
  BY <1>1, <1>3, ConcatProperties
<1> DEFINE c == a \o <<e>>
<1> HIDE DEF c
<1>5. c \in Seq(S) /\ Len(c) = i /\ \A k \in 1 .. i : c[k] = IF k < i THEN s[k] ELSE e
  BY <1>4 DEF c
<1>6. /\ c \o b \in Seq(S) /\ Len(c \o b) = Len(s) + 1
      /\ \A k \in 1 .. Len(s) + 1 : (c \o b)[k] = IF k <= i THEN c[k] ELSE b[k - i]
  BY <1>2, <1>5, ConcatProperties
<1>7. InsertAt(s, i, e) = c \o b
  BY DEF InsertAt, a, b, c
<1>8. ASSUME NEW k \in 1 .. Len(s) + 1
      PROVE  (c \o b)[k] = IF k < i THEN s[k] ELSE IF k = i THEN e ELSE s[k - 1]
  <2>1. CASE k <= i
    BY <1>5, <1>6, <2>1
  <2>2. CASE ~ (k <= i)
    <3>1. PICK j \in 1 .. Len(s) - i + 1 : j = k - i /\ i + j - 1 = k - 1
      BY <2>2
    <3>2. b[j] = s[k - 1]
      BY <1>2, <3>1
    <3>3. (c \o b)[k] = b[j]
      BY <1>6, <2>2, <3>1
    <3> QED
      BY <2>2, <3>2, <3>3
  <2> QED
    BY <2>1, <2>2
<1> QED
  BY <1>6, <1>7, <1>8

LEMMA Removed ==
  ASSUME NEW S, NEW s \in Seq(S), NEW i \in 1 .. Len(s)
  PROVE  /\ RemoveAt(s, i) \in Seq(S)
         /\ Len(RemoveAt(s, i)) = Len(s) - 1
         /\ \A k \in 1 .. Len(s) - 1 :
              RemoveAt(s, i)[k] = IF k < i THEN s[k] ELSE s[k + 1]
<1> DEFINE a == SubSeq(s, 1, i - 1)
           b == SubSeq(s, i + 1, Len(s))
<1>1. a \in Seq(S) /\ Len(a) = i - 1 /\ \A k \in 1 .. i - 1 : a[k] = s[k]
  BY SubSeqProperties
<1>2. b \in Seq(S) /\ Len(b) = Len(s) - i /\ \A k \in 1 .. Len(s) - i : b[k] = s[i + k]
  BY SubSeqProperties
<1> HIDE DEF a, b
<1>3. /\ a \o b \in Seq(S) /\ Len(a \o b) = Len(s) - 1
      /\ \A k \in 1 .. Len(s) - 1 : (a \o b)[k] = IF k <= i - 1 THEN a[k] ELSE b[k - (i - 1)]
  <2>1. a \o b \in Seq(S) /\ Len(a \o b) = Len(a) + Len(b)
    BY <1>1, <1>2, ConcatProperties
  <2>2. \A k \in 1 .. Len(a) + Len(b) : (a \o b)[k] = IF k <= Len(a) THEN a[k] ELSE b[k - Len(a)]
    BY <1>1, <1>2, ConcatProperties
  <2>3. Len(s) \in Nat /\ Len(a) = i - 1 /\ Len(a) + Len(b) = Len(s) - 1
    BY <1>1, <1>2
  <2> QED
    BY <2>1, <2>2, <2>3
<1>4. RemoveAt(s, i) = a \o b
  BY DEF RemoveAt, a, b
<1>5. ASSUME NEW k \in 1 .. Len(s) - 1
      PROVE  (a \o b)[k] = IF k < i THEN s[k] ELSE s[k + 1]
  <2>1. CASE k < i
    BY <1>1, <1>3, <2>1
  <2>2. CASE ~ (k < i)
    <3>1. PICK j \in 1 .. Len(s) - i : j = k - (i - 1) /\ i + j = k + 1
      BY <2>2
    <3>2. b[j] = s[k + 1]
      BY <1>2, <3>1
    <3>3. (a \o b)[k] = b[j]
      BY <1>3, <2>2, <3>1
    <3> QED
      BY <2>2, <3>2, <3>3
  <2> QED
    BY <2>1, <2>2
<1> QED
  BY <1>3, <1>4, <1>5

-----------------------------------------------------------------------------
(***************************************************************************)
(* The types, the lock and the walks, for any rules.                       *)
(***************************************************************************)
LEMMA WalkInit == Init => WalkInv
<1> SUFFICES ASSUME Init  PROVE WalkInv
  OBVIOUS
<1> USE DEF Init
<1>1. NoRule \in Rule
  BY DEF NoRule, Rule
<1>2. TypeOK
  BY <1>1 DEF TypeOK, None
<1>3. LockInv
  BY DEF LockInv, Writing
<1>4. WalkInTree
  BY DEF WalkInTree, Walks
<1> QED
  BY <1>2, <1>3, <1>4 DEF WalkInv

\* A call begins.
LEMMA WalkEnter ==
  ASSUME WalkInv, NEW t \in Thread, NEW call \in {"add", "rmv", "find"}, NEW r \in Rule,
         call # "find" => r \in Rules /\ CanWrite,
         call = "find" => r \in Packets /\ CanRead,
         Enter(t, call, r)
  PROVE  WalkInv'
<1> USE DEF WalkInv, Enter
<1>1. TypeOK'
  <2>1. Len(order) \in Nat
    BY DEF TypeOK
  <2> QED
    BY <2>1 DEF TypeOK
<1>2. LockInv'
  <2>1. CASE call = "find"
    BY <2>1 DEF LockInv, Writing, CanRead, TypeOK
  <2>2. CASE call # "find"
    BY <2>2 DEF LockInv, Writing, CanWrite, TypeOK
  <2> QED
    BY <2>1, <2>2
<1>3. WalkInTree'
  <2> SUFFICES ASSUME NEW u \in Thread, Walks(u)'
               PROVE  (1 <= lo[u] /\ lo[u] <= hi[u] + 1 /\ hi[u] <= Len(order))'
    BY DEF WalkInTree
  <2>1. CASE u = t
    <3>1. Len(order) \in Nat /\ lo'[u] = 1 /\ hi'[u] = Len(order)
      BY <2>1 DEF TypeOK
    <3> QED
      BY <3>1
  <2>2. CASE u # t
    BY <2>2 DEF WalkInTree, Walks, TypeOK
  <2> QED
    BY <2>1, <2>2
<1> QED
  BY <1>1, <1>2, <1>3

\* A turn goes down, the tree and the calls stay.
LEMMA WalkTurn ==
  ASSUME WalkInv, NEW t \in Thread, NEW m \in 1 .. Len(order),
         GoLeft(t, m) \/ GoRight(t, m)
  PROVE  WalkInv'
<1> USE DEF WalkInv, GoLeft, GoRight
<1>0. Len(order) \in Nat /\ lo[t] \in Nat /\ hi[t] \in Nat /\ lo[t] <= m /\ m <= hi[t]
  BY DEF TypeOK
<1>1. TypeOK'
  <2>1. m - 1 \in Nat /\ m + 1 \in Nat
    BY <1>0
  <2>2. CASE GoLeft(t, m)
    BY <2>1, <2>2 DEF TypeOK
  <2>3. CASE GoRight(t, m)
    BY <2>1, <2>3 DEF TypeOK
  <2> QED
    BY <2>2, <2>3
<1>2. LockInv'
  BY DEF LockInv, Writing
<1>3. WalkInTree'
  <2> SUFFICES ASSUME NEW u \in Thread, Walks(u)'
               PROVE  (1 <= lo[u] /\ lo[u] <= hi[u] + 1 /\ hi[u] <= Len(order))'
    BY DEF WalkInTree
  <2>1. Walks(u) /\ 1 <= lo[u] /\ lo[u] <= hi[u] + 1 /\ hi[u] <= Len(order)
    BY DEF WalkInTree, Walks
  <2>2. CASE u = t /\ GoLeft(t, m)
    BY <1>0, <2>1, <2>2 DEF TypeOK
  <2>3. CASE u = t /\ GoRight(t, m)
    BY <1>0, <2>1, <2>3 DEF TypeOK
  <2>4. CASE u # t
    BY <2>1, <2>4 DEF TypeOK
  <2> QED
    BY <2>2, <2>3, <2>4
<1> QED
  BY <1>1, <1>2, <1>3

\* A walk ends: its thread no longer walks; if the tree changed nobody does.
LEMMA WalkEnds ==
  ASSUME WalkInv, NEW t \in Thread, pc[t] # "idle", NEW a \in Int, a # None, Tell(t, a),
         order' \in Seq(Rules), order' # order => Writing(t)
  PROVE  WalkInv'
<1> USE DEF WalkInv, Tell
<1>1. TypeOK'
  BY DEF TypeOK
<1>2. LockInv'
  BY DEF LockInv, Writing, TypeOK
<1>3. WalkInTree'
  <2> SUFFICES ASSUME NEW u \in Thread, Walks(u)'
               PROVE  (1 <= lo[u] /\ lo[u] <= hi[u] + 1 /\ hi[u] <= Len(order))'
    BY DEF WalkInTree
  <2>1. u # t
    BY DEF Walks, TypeOK
  <2>2. Walks(u)
    BY <2>1 DEF Walks, TypeOK
  <2>3. order' = order
    BY <2>1, <2>2 DEF LockInv, Walks
  <2> QED
    BY <2>2, <2>3 DEF WalkInTree
<1> QED
  BY <1>1, <1>2, <1>3

LEMMA LinkedIsRules ==
  ASSUME WalkInv, NEW t \in Thread, AddLink(t)
  PROVE  lo[t] \in 1 .. Len(order) + 1 /\ hi[t] = lo[t] - 1 /\ arg[t] \in Rules
<1>1. Walks(t) /\ Writing(t) /\ lo[t] > hi[t]
  BY DEF AddLink, Misses, Writing
<1>2. 1 <= lo[t] /\ lo[t] <= hi[t] + 1 /\ hi[t] <= Len(order) /\ arg[t] \in Rules
  BY <1>1 DEF WalkInv, WalkInTree, LockInv
<1>3. Len(order) \in Nat /\ lo[t] \in Nat /\ hi[t] \in Nat
  BY DEF WalkInv, TypeOK
<1> QED
  BY <1>1, <1>2, <1>3

LEMMA WalkNext ==
  ASSUME WalkInv, [Next]_vars
  PROVE  WalkInv'
<1> USE DEF WalkInv
<1>0. order \in Seq(Rules)
  BY DEF TypeOK
<1>1. CASE UNCHANGED vars
  BY <1>1 DEF vars, TypeOK, LockInv, WalkInTree, Walks, Writing
<1>2. ASSUME NEW t \in Thread, NEW r \in Rules, AddLock(t, r) \/ RmvLock(t, r)
      PROVE  WalkInv'
  <2>1. PICK call \in {"add", "rmv"} : CanWrite /\ Enter(t, call, r)
    BY <1>2 DEF AddLock, RmvLock
  <2> QED
    BY <2>1, WalkEnter, RuleAssumption
<1>3. ASSUME NEW t \in Thread, NEW p \in Packets, FindLock(t, p)
      PROVE  WalkInv'
  BY <1>3, WalkEnter, RuleAssumption DEF FindLock
<1>4. ASSUME NEW t \in Thread, NEW m \in 1 .. Len(order), Turn(t, m)
      PROVE  WalkInv'
  <2>1. CASE GoLeft(t, m) \/ GoRight(t, m)
    BY <2>1, WalkTurn
  <2>2. CASE AddRefused(t, m)
    BY <1>0, <2>2, WalkEnds DEF AddRefused, No, None
  <2>3. CASE RmvErase(t, m)
    <3>1. order' \in Seq(Rules)
      BY <1>0, <2>3, Removed DEF RmvErase
    <3> QED
      BY <2>3, <3>1, WalkEnds DEF RmvErase, Yes, None, Writing
  <2>4. CASE FindHit(t, m)
    <3>1. order[m] \in Rule
      BY <1>0, RuleAssumption
    <3>2. order[m].typeidx \in Nat
      BY <3>1 DEF Rule
    <3> QED
      BY <1>0, <2>4, <3>2, WalkEnds DEF FindHit, None
  <2> QED
    BY <1>4, <2>1, <2>2, <2>3, <2>4 DEF Turn
<1>5. ASSUME NEW t \in Thread, AddLink(t)
      PROVE  WalkInv'
  <2>1. order' \in Seq(Rules)
    BY <1>0, <1>5, LinkedIsRules, Inserted DEF AddLink
  <2> QED
    BY <1>5, <2>1, WalkEnds DEF AddLink, Yes, None, Writing
<1>6. ASSUME NEW t \in Thread, NotFound(t)
      PROVE  WalkInv'
  BY <1>0, <1>6, WalkEnds DEF NotFound, No, None
<1>7. ASSUME NEW t \in Thread, Unlock(t)
      PROVE  WalkInv'
  <2> USE <1>7 DEF Unlock
  <2>1. NoRule \in Rule
    BY DEF NoRule, Rule
  <2>2. TypeOK'
    BY <2>1 DEF TypeOK, None
  <2>3. LockInv'
    BY DEF LockInv, Writing, TypeOK
  <2>4. WalkInTree'
    BY DEF WalkInTree, Walks, TypeOK
  <2> QED
    BY <2>2, <2>3, <2>4
<1>8. CASE clear_nfsrule
  <2> USE <1>8 DEF clear_nfsrule
  <2>1. TypeOK'
    BY EmptySeq DEF TypeOK
  <2>2. LockInv'
    BY DEF LockInv, Writing
  <2>3. WalkInTree'
    BY DEF WalkInTree, Walks, CanWrite
  <2> QED
    BY <2>1, <2>2, <2>3
<1> QED
  BY <1>1, <1>2, <1>3, <1>4, <1>5, <1>6, <1>7, <1>8 DEF Next

\* Every variable keeps its type, whatever the rules are.
THEOREM TypeCorrect == Spec => []TypeOK
<1>1. WalkInv => TypeOK
  BY DEF WalkInv
<1> QED
  BY <1>1, WalkInit, WalkNext, PTL DEF Spec

\* The lock keeps the nodes of every walk in the tree.
THEOREM WalkStaysInTree == Spec => []WalkInTree
<1>1. WalkInv => WalkInTree
  BY DEF WalkInv
<1> QED
  BY <1>1, WalkInit, WalkNext, PTL DEF Spec

-----------------------------------------------------------------------------
(***************************************************************************)
(* The order of the tree, for rules that have their wildcards in the same  *)
(* fields.                                                                 *)
(***************************************************************************)
LEMMA ArgTransitive ==
  ASSUME Uniform, NEW a \in Rules \cup Packets, NEW r \in Rules, NEW s \in Rules
  PROVE  /\ Greater(a, r) /\ Greater(r, s) => Greater(a, s)
         /\ Greater(r, a) /\ Greater(s, r) => Greater(s, a)
<1>1. a \in Rule /\ r \in Rule /\ s \in Rule
  BY RuleAssumption
<1>2. ASSUME a.protocol = r.protocol, r.protocol = s.protocol, NEW f \in FieldName
      PROVE  \/ r[f] = 0 /\ s[f] = 0
             \/ a[f] # 0 /\ r[f] # 0 /\ s[f] # 0
  <2>1. r[f] = 0 <=> s[f] = 0
    BY <1>2 DEF Uniform
  <2>2. a[f] = 0 => r[f] = 0
    <3>1. CASE a \in Rules
      BY <1>2, <3>1 DEF Uniform
    <3>2. CASE a \in Packets
      BY <1>2, <3>2 DEF Uniform
    <3> QED
      BY <3>1, <3>2
  <2> QED
    BY <2>1, <2>2
<1>3. ASSUME Greater(a, r), Greater(r, s)  PROVE Greater(a, s)
  BY <1>1, <1>2, <1>3, GreaterTransitive
<1>4. ASSUME Greater(r, a), Greater(s, r)  PROVE Greater(s, a)
  BY <1>1, <1>2, <1>4, GreaterTransitive
<1> QED
  BY <1>3, <1>4

\* What a thread that walks looks for.
LEMMA ArgLookedFor ==
  ASSUME WalkInv, NEW t \in Thread, Walks(t)
  PROVE  arg[t] \in Rules \cup Packets
<1>1. pc[t] \in {"add", "rmv", "find"}
  BY DEF WalkInv, TypeOK, Walks
<1> QED
  BY <1>1 DEF WalkInv, LockInv, Writing

LEMMA TreeInit == Init => TreeInv
<1> SUFFICES ASSUME Init  PROVE TreeInv
  OBVIOUS
<1>1. Len(order) = 0
  BY DEF Init
<1>2. \A k \in 1 .. Len(order) : FALSE
  BY <1>1
<1> QED
  BY <1>2 DEF TreeInv, Sorted, NothingBehind, FoundIfMatches

LEMMA TreeEnter ==
  ASSUME WalkInv, TreeInv, NEW t \in Thread, NEW call, NEW r, Enter(t, call, r)
  PROVE  TreeInv'
<1> USE DEF TreeInv, Enter
<1>0. Len(order) \in Nat
  BY DEF WalkInv, TypeOK
<1>1. Sorted'
  BY DEF Sorted
<1>2. NothingBehind'
  <2> SUFFICES ASSUME NEW u \in Thread, Walks(u)', NEW k \in 1 .. Len(order)
               PROVE  /\ k < lo'[u] => Greater(arg'[u], order[k])
                      /\ k > hi'[u] => Greater(order[k], arg'[u])
    BY DEF NothingBehind
  <2>1. CASE u = t
    <3>1. lo'[u] = 1 /\ hi'[u] = Len(order)
      BY <2>1 DEF WalkInv, TypeOK
    <3> QED
      BY <1>0, <3>1
  <2>2. CASE u # t
    BY <2>2 DEF NothingBehind, Walks, WalkInv, TypeOK
  <2> QED
    BY <2>1, <2>2
<1>3. FoundIfMatches'
  <2> SUFFICES ASSUME NEW u \in Thread, pc'[u] = "find", got'[u] = No, NEW k \in 1 .. Len(order)
               PROVE  ~ Matches(arg'[u], order[k])
    BY DEF FoundIfMatches
  <2>1. u # t
    BY DEF WalkInv, LockInv, No, None
  <2> QED
    BY <2>1 DEF FoundIfMatches, WalkInv, TypeOK
<1> QED
  BY <1>1, <1>2, <1>3

LEMMA TreeTurn ==
  ASSUME Uniform, WalkInv, TreeInv, NEW t \in Thread, NEW m \in 1 .. Len(order),
         GoLeft(t, m) \/ GoRight(t, m)
  PROVE  TreeInv'
<1> USE DEF TreeInv
<1>1. Sorted' /\ FoundIfMatches'
  BY DEF Sorted, FoundIfMatches, GoLeft, GoRight
<1>2. NothingBehind'
  <2>0. order' = order /\ arg' = arg /\ pc' = pc /\ got' = got /\ Walks(t)
    BY DEF GoLeft, GoRight
  <2> SUFFICES ASSUME NEW u \in Thread, Walks(u), NEW k \in 1 .. Len(order)
               PROVE  /\ k < lo'[u] => Greater(arg[u], order[k])
                      /\ k > hi'[u] => Greater(order[k], arg[u])
    BY <2>0 DEF NothingBehind, Walks
  <2>1. /\ k < lo[u] => Greater(arg[u], order[k])
        /\ k > hi[u] => Greater(order[k], arg[u])
    BY DEF NothingBehind
  <2>2. CASE u # t
    BY <2>1, <2>2 DEF GoLeft, GoRight, WalkInv, TypeOK
  <2>3. CASE u = t
    <3>1. arg[t] \in Rules \cup Packets /\ order[m] \in Rules /\ order[k] \in Rules
      BY <2>0, ArgLookedFor DEF WalkInv, TypeOK
    <3>2. /\ k < m => Greater(order[m], order[k])
          /\ m < k => Greater(order[k], order[m])
      BY DEF Sorted
    <3>3. CASE GoLeft(t, m)
      <4>1. lo'[t] = lo[t] /\ hi'[t] = m - 1 /\ Greater(order[m], arg[t])
        BY <3>3 DEF GoLeft, WalkInv, TypeOK
      <4>2. ASSUME k > m - 1  PROVE Greater(order[k], arg[t])
        <5>1. k = m \/ m < k
          BY <4>2
        <5> QED
          BY <3>1, <3>2, <4>1, <5>1, ArgTransitive
      <4> QED
        BY <2>1, <2>3, <4>1, <4>2
    <3>4. CASE GoRight(t, m)
      <4>1. hi'[t] = hi[t] /\ lo'[t] = m + 1 /\ Greater(arg[t], order[m])
        BY <3>4 DEF GoRight, WalkInv, TypeOK
      <4>2. ASSUME k < m + 1  PROVE Greater(arg[t], order[k])
        <5>1. k = m \/ k < m
          BY <4>2
        <5> QED
          BY <3>1, <3>2, <4>1, <5>1, ArgTransitive
      <4> QED
        BY <2>1, <2>3, <4>1, <4>2
    <3> QED
      BY <3>3, <3>4
  <2> QED
    BY <2>2, <2>3
<1> QED
  BY <1>1, <1>2

\* At a leaf every rule of the tree is before or behind what is looked for.
LEMMA LeafSeparates ==
  ASSUME WalkInv, TreeInv, NEW t \in Thread, Misses(t), NEW k \in 1 .. Len(order)
  PROVE  Greater(arg[t], order[k]) \/ Greater(order[k], arg[t])
<1>1. k < lo[t] \/ k > hi[t]
  BY DEF Misses, WalkInv, TypeOK
<1> QED
  BY <1>1 DEF TreeInv, NothingBehind, Misses

\* A walk ends and the tree stays.
LEMMA TreeTold ==
  ASSUME WalkInv, TreeInv, NEW t \in Thread, NEW a \in Int, a # None, Tell(t, a), order' = order,
         pc[t] = "find" /\ a = No => \A k \in 1 .. Len(order) : ~ Matches(arg[t], order[k])
  PROVE  TreeInv'
<1> USE DEF TreeInv, Tell
<1>1. Sorted'
  BY DEF Sorted
<1>2. NothingBehind'
  BY DEF NothingBehind, Walks, WalkInv, TypeOK
<1>3. FoundIfMatches'
  <2> SUFFICES ASSUME NEW u \in Thread, pc[u] = "find", got'[u] = No, NEW k \in 1 .. Len(order)
               PROVE  ~ Matches(arg[u], order[k])
    BY DEF FoundIfMatches
  <2>1. CASE u = t
    BY <2>1 DEF WalkInv, TypeOK
  <2>2. CASE u # t
    BY <2>2 DEF FoundIfMatches, WalkInv, TypeOK
  <2> QED
    BY <2>1, <2>2
<1> QED
  BY <1>1, <1>2, <1>3

\* A writer is alone: when it changed the tree, nobody walks or has searched.
LEMMA TreeWritten ==
  ASSUME WalkInv, NEW t \in Thread, Writing(t), NEW a \in Int, a # None, Tell(t, a), Sorted'
  PROVE  TreeInv'
<1>1. NothingBehind'
  BY DEF NothingBehind, Walks, WalkInv, TypeOK, LockInv, Tell
<1>2. FoundIfMatches'
  BY DEF FoundIfMatches, WalkInv, LockInv, Writing, Tell
<1> QED
  BY <1>1, <1>2 DEF TreeInv

LEMMA SortedLinked ==
  ASSUME WalkInv, TreeInv, NEW t \in Thread, AddLink(t)
  PROVE  Sorted'
<1> DEFINE n == Len(order)
           i == lo[t]
<1>0. order \in Seq(Rules) /\ n \in Nat
  BY DEF WalkInv, TypeOK
<1>1. i \in 1 .. n + 1 /\ hi[t] = i - 1 /\ arg[t] \in Rules
  BY LinkedIsRules
<1>2. /\ Len(order') = n + 1
      /\ \A k \in 1 .. n + 1 :
           order'[k] = IF k < i THEN order[k] ELSE IF k = i THEN arg[t] ELSE order[k - 1]
  BY <1>0, <1>1, Inserted DEF AddLink
<1>3. /\ \A k \in 1 .. n : k < i => Greater(arg[t], order[k])
      /\ \A k \in 1 .. n : k >= i => Greater(order[k], arg[t])
  <2>1. Walks(t)
    BY DEF AddLink, Misses
  <2>2. \A k \in 1 .. n : /\ k < lo[t] => Greater(arg[t], order[k])
                          /\ k > hi[t] => Greater(order[k], arg[t])
    BY <2>1 DEF TreeInv, NothingBehind
  <2>3. \A k \in 1 .. n : k >= i => k > hi[t]
    BY <1>0, <1>1
  <2> QED
    BY <2>2, <2>3
<1>4. \A a, b \in 1 .. n : a < b => Greater(order[b], order[a])
  BY DEF TreeInv, Sorted
<1> HIDE DEF n, i
<1>5. ASSUME NEW a \in 1 .. n + 1, NEW b \in 1 .. n + 1, a < b
      PROVE  Greater(order'[b], order'[a])
  <2>1. CASE b < i
    BY <1>0, <1>1, <1>2, <1>4, <1>5, <2>1
  <2>2. CASE b = i
    BY <1>0, <1>1, <1>2, <1>3, <1>5, <2>2
  <2>3. CASE b > i
    <3>1. PICK c \in 1 .. n : c = b - 1 /\ c >= i
      BY <1>0, <1>1, <2>3
    <3>2. order'[b] = order[c]
      BY <1>0, <1>1, <1>2, <2>3, <3>1
    <3>3. CASE a < i
      BY <1>0, <1>1, <1>2, <1>4, <3>1, <3>2, <3>3
    <3>4. CASE a = i
      BY <1>0, <1>1, <1>2, <1>3, <3>1, <3>2, <3>4
    <3>5. CASE a > i
      <4>1. PICK d \in 1 .. n : d = a - 1 /\ d < c
        BY <1>0, <1>1, <1>5, <3>1, <3>5
      <4>2. order'[a] = order[d]
        BY <1>0, <1>1, <1>2, <3>5, <4>1
      <4> QED
        BY <1>4, <3>2, <4>1, <4>2
    <3> QED
      BY <1>1, <3>3, <3>4, <3>5
  <2> QED
    BY <1>1, <2>1, <2>2, <2>3
<1> QED
  BY <1>2, <1>5 DEF Sorted

LEMMA SortedErased ==
  ASSUME WalkInv, TreeInv, NEW t \in Thread, NEW m \in 1 .. Len(order), RmvErase(t, m)
  PROVE  Sorted'
<1> DEFINE n == Len(order)
<1>0. order \in Seq(Rules) /\ n \in Nat
  BY DEF WalkInv, TypeOK
<1>1. /\ Len(order') = n - 1
      /\ \A k \in 1 .. n - 1 : order'[k] = IF k < m THEN order[k] ELSE order[k + 1]
  BY <1>0, Removed DEF RmvErase
<1>2. \A a, b \in 1 .. n : a < b => Greater(order[b], order[a])
  BY DEF TreeInv, Sorted
<1> HIDE DEF n
<1>3. ASSUME NEW a \in 1 .. n - 1, NEW b \in 1 .. n - 1, a < b
      PROVE  Greater(order'[b], order'[a])
  <2>1. PICK c \in 1 .. n : order'[a] = order[c] /\ c = IF a < m THEN a ELSE a + 1
    BY <1>0, <1>1
  <2>2. PICK d \in 1 .. n : order'[b] = order[d] /\ d = IF b < m THEN b ELSE b + 1
    BY <1>0, <1>1
  <2>3. c < d
    BY <1>0, <1>3, <2>1, <2>2
  <2> QED
    BY <1>2, <2>1, <2>2, <2>3
<1> QED
  BY <1>1, <1>3 DEF Sorted

LEMMA TreeNext ==
  ASSUME Uniform, WalkInv, TreeInv, [Next]_vars
  PROVE  TreeInv'
<1>1. CASE UNCHANGED vars
  BY <1>1 DEF vars, TreeInv, Sorted, NothingBehind, Walks, FoundIfMatches
<1>2. ASSUME NEW t \in Thread, NEW r \in Rules, AddLock(t, r) \/ RmvLock(t, r)
      PROVE  TreeInv'
  BY <1>2, TreeEnter DEF AddLock, RmvLock
<1>3. ASSUME NEW t \in Thread, NEW p \in Packets, FindLock(t, p)
      PROVE  TreeInv'
  BY <1>3, TreeEnter DEF FindLock
<1>4. ASSUME NEW t \in Thread, NEW m \in 1 .. Len(order), Turn(t, m)
      PROVE  TreeInv'
  <2>1. CASE GoLeft(t, m) \/ GoRight(t, m)
    BY <2>1, TreeTurn
  <2>2. CASE AddRefused(t, m)
    BY <2>2, TreeTold DEF AddRefused, No, None
  <2>3. CASE RmvErase(t, m)
    BY <2>3, SortedErased, TreeWritten DEF RmvErase, Yes, None, Writing
  <2>4. CASE FindHit(t, m)
    <3>1. order[m] \in Rule
      BY RuleAssumption DEF WalkInv, TypeOK
    <3>2. order[m].typeidx \in Nat
      BY <3>1 DEF Rule
    <3> QED
      BY <2>4, <3>2, TreeTold DEF FindHit, No, None
  <2> QED
    BY <1>4, <2>1, <2>2, <2>3, <2>4 DEF Turn
<1>5. ASSUME NEW t \in Thread, AddLink(t)
      PROVE  TreeInv'
  BY <1>5, SortedLinked, TreeWritten DEF AddLink, Yes, None, Writing
<1>6. ASSUME NEW t \in Thread, NotFound(t)
      PROVE  TreeInv'
  <2>1. ASSUME pc[t] = "find", NEW k \in 1 .. Len(order)
        PROVE  ~ Matches(arg[t], order[k])
    <3>1. arg[t] \in Packets /\ order[k] \in Rules
      BY <2>1 DEF WalkInv, LockInv, TypeOK
    <3>2. arg[t] \in Rule /\ order[k] \in Rule /\ order[k].protocol # 0
      BY <3>1, RuleAssumption DEF Uniform
    <3>3. Greater(arg[t], order[k]) \/ Greater(order[k], arg[t])
      BY <1>6, LeafSeparates DEF NotFound
    <3> QED
      BY <3>2, <3>3, GreaterIsNoMatch
  <2> QED
    BY <1>6, <2>1, TreeTold DEF NotFound, No, None
<1>7. ASSUME NEW t \in Thread, Unlock(t)
      PROVE  TreeInv'
  BY <1>7 DEF Unlock, TreeInv, Sorted, NothingBehind, Walks, FoundIfMatches, WalkInv, TypeOK, No, None
<1>8. CASE clear_nfsrule
  <2>1. \A k \in 1 .. Len(order') : FALSE
    BY <1>8 DEF clear_nfsrule
  <2> QED
    BY <2>1 DEF TreeInv, Sorted, NothingBehind, FoundIfMatches
<1> QED
  BY <1>1, <1>2, <1>3, <1>4, <1>5, <1>6, <1>7, <1>8 DEF Next

\* If rules have their wildcards in the same fields, a walk leaves nothing
\* behind that compares equal.
THEOREM NothingIsLeftBehind ==
  ASSUME Uniform
  PROVE  Spec => []NothingBehind
<1>1. Init => WalkInv /\ TreeInv
  BY WalkInit, TreeInit
<1>2. WalkInv /\ TreeInv /\ [Next]_vars => WalkInv' /\ TreeInv'
  BY WalkNext, TreeNext
<1>3. WalkInv /\ TreeInv => NothingBehind
  BY DEF TreeInv
<1> QED
  BY <1>1, <1>2, <1>3, PTL DEF Spec

\* If rules have their wildcards in the same fields, a hook is told -1 only
\* if no rule matches its packet.
THEOREM MatchIsFound ==
  ASSUME Uniform
  PROVE  Spec => []FoundIfMatches
<1>1. Init => WalkInv /\ TreeInv
  BY WalkInit, TreeInit
<1>2. WalkInv /\ TreeInv /\ [Next]_vars => WalkInv' /\ TreeInv'
  BY WalkNext, TreeNext
<1>3. WalkInv /\ TreeInv => FoundIfMatches
  BY DEF TreeInv
<1> QED
  BY <1>1, <1>2, <1>3, PTL DEF Spec

-----------------------------------------------------------------------------
(***************************************************************************)
(* The tree implements the table: a walk takes effect where it ends.       *)
(***************************************************************************)
InTree == {order[k] : k \in 1 .. Len(order)}

LEMMA LinkAddsOne ==
  ASSUME WalkInv, NEW t \in Thread, AddLink(t)
  PROVE  InTree' = InTree \cup {arg[t]}
<1> DEFINE n == Len(order)
           i == lo[t]
<1>0. order \in Seq(Rules) /\ n \in Nat
  BY DEF WalkInv, TypeOK
<1>1. i \in 1 .. n + 1 /\ arg[t] \in Rules
  BY LinkedIsRules
<1>2. /\ Len(order') = n + 1
      /\ \A k \in 1 .. n + 1 :
           order'[k] = IF k < i THEN order[k] ELSE IF k = i THEN arg[t] ELSE order[k - 1]
  BY <1>0, <1>1, Inserted DEF AddLink
<1>3. InTree = {order[k] : k \in 1 .. n} /\ InTree' = {order'[k] : k \in 1 .. n + 1}
  BY <1>2 DEF InTree
<1> HIDE DEF n, i
<1>4. ASSUME NEW k \in 1 .. n  PROVE order[k] \in InTree'
  <2>1. PICK j \in 1 .. n + 1 : j = IF k < i THEN k ELSE k + 1
    BY <1>0
  <2>2. order'[j] = order[k]
    BY <1>0, <1>1, <1>2, <2>1
  <2> QED
    BY <1>3, <2>2
<1>5. arg[t] \in InTree'
  BY <1>0, <1>1, <1>2, <1>3
<1>6. ASSUME NEW k \in 1 .. n + 1  PROVE order'[k] \in InTree \cup {arg[t]}
  <2>1. CASE k = i
    BY <1>1, <1>2, <2>1
  <2>2. CASE k # i
    <3>1. PICK j \in 1 .. n : j = IF k < i THEN k ELSE k - 1
      BY <1>0, <1>1, <2>2
    <3>2. order'[k] = order[j]
      BY <1>0, <1>1, <1>2, <2>2, <3>1
    <3> QED
      BY <1>3, <3>2
  <2> QED
    BY <2>1, <2>2
<1> QED
  BY <1>3, <1>4, <1>5, <1>6

\* No rule is in the tree twice.
LEMMA SortedIsDistinct ==
  ASSUME WalkInv, TreeInv, NEW a \in 1 .. Len(order), NEW b \in 1 .. Len(order), a # b
  PROVE  order[a] # order[b]
<1>1. Greater(order[b], order[a]) \/ Greater(order[a], order[b])
  BY DEF TreeInv, Sorted
<1> QED
  BY <1>1 DEF Greater, Differ

LEMMA EraseRemovesOne ==
  ASSUME WalkInv, TreeInv, NEW t \in Thread, NEW m \in 1 .. Len(order), RmvErase(t, m)
  PROVE  InTree' = InTree \ {order[m]}
<1> DEFINE n == Len(order)
<1>0. order \in Seq(Rules) /\ n \in Nat /\ m \in 1 .. n
  BY DEF WalkInv, TypeOK
<1>1. /\ Len(order') = n - 1
      /\ \A k \in 1 .. n - 1 : order'[k] = IF k < m THEN order[k] ELSE order[k + 1]
  BY <1>0, Removed DEF RmvErase
<1>2. InTree = {order[k] : k \in 1 .. n} /\ InTree' = {order'[k] : k \in 1 .. n - 1}
  BY <1>1 DEF InTree
<1>3. \A a, b \in 1 .. n : a # b => order[a] # order[b]
  BY SortedIsDistinct
<1> HIDE DEF n
<1>4. ASSUME NEW k \in 1 .. n, k # m  PROVE order[k] \in InTree'
  <2>1. PICK j \in 1 .. n - 1 : j = IF k < m THEN k ELSE k - 1
    BY <1>0, <1>4
  <2>2. order'[j] = order[k]
    BY <1>0, <1>1, <1>4, <2>1
  <2> QED
    BY <1>2, <2>2
<1>5. ASSUME NEW k \in 1 .. n - 1  PROVE order'[k] \in InTree \ {order[m]}
  <2>1. PICK j \in 1 .. n : j # m /\ j = IF k < m THEN k ELSE k + 1
    BY <1>0
  <2>2. order'[k] = order[j]
    BY <1>0, <1>1, <2>1
  <2>3. order[j] # order[m]
    BY <1>0, <1>3, <2>1
  <2> QED
    BY <1>2, <2>2, <2>3
<1> QED
  BY <1>2, <1>4, <1>5

\* At a leaf no rule of the tree overlaps with the rule that is looked for.
LEMMA LeafIsFree ==
  ASSUME Uniform, WalkInv, TreeInv, NEW t \in Thread, Misses(t), arg[t] \in Rules
  PROVE  \A s \in InTree : ~ Table!Overlap(arg[t], s)
<1> SUFFICES ASSUME NEW k \in 1 .. Len(order)
             PROVE  ~ Table!Overlap(arg[t], order[k])
  BY DEF InTree
<1>1. order[k] \in Rules
  BY DEF WalkInv, TypeOK
<1>2. arg[t] \in Rule /\ order[k] \in Rule /\ arg[t].protocol # 0 /\ order[k].protocol # 0
  BY <1>1, RuleAssumption DEF Uniform
<1>3. Greater(arg[t], order[k]) \/ Greater(order[k], arg[t])
  BY LeafSeparates
<1> QED
  BY <1>2, <1>3, GreaterIsNoOverlap

LEMMA TableTell ==
  ASSUME NEW t \in Thread, Walks(t), NEW a, Tell(t, a)
  PROVE  Table!Tell(t, a)
BY DEF Walks, Tell, Table!Tell, Table!None, None

\* Every step of the tree is a step of the table or none.
LEMMA TableNext ==
  ASSUME Uniform, WalkInv, TreeInv, TreeInv', [Next]_vars
  PROVE  [Table!Next]_<<InTree, pc, arg, got>>
<1>1. CASE UNCHANGED vars
  BY <1>1 DEF vars, InTree
<1>2. ASSUME NEW t \in Thread, NEW r, NEW call, Enter(t, call, r)
      PROVE  Table!Call(t, call, r)
  BY <1>2 DEF Enter, Table!Call
<1>3. ASSUME NEW t \in Thread, NEW r \in Rules, AddLock(t, r) \/ RmvLock(t, r)
      PROVE  Table!Next
  BY <1>2, <1>3 DEF AddLock, RmvLock, Table!Next
<1>4. ASSUME NEW t \in Thread, NEW p \in Packets, FindLock(t, p)
      PROVE  Table!Next
  BY <1>2, <1>4 DEF FindLock, Table!Next
<1>5. ASSUME NEW t \in Thread, NEW m \in 1 .. Len(order), Turn(t, m)
      PROVE  [Table!Next]_<<InTree, pc, arg, got>>
  <2>1. order[m] \in Rules /\ order[m] \in Rule /\ order[m] \in InTree
    BY RuleAssumption DEF WalkInv, TypeOK, InTree
  <2>2. CASE GoLeft(t, m) \/ GoRight(t, m)
    BY <2>2 DEF GoLeft, GoRight, InTree
  <2>3. CASE AddRefused(t, m)
    <3>1. arg[t] \in Rule
      BY <2>3, RuleAssumption DEF AddRefused, WalkInv, LockInv, Writing
    <3>2. Table!Overlap(arg[t], order[m])
      BY <2>1, <2>3, <3>1, SameOverlaps DEF AddRefused, Meets
    <3>3. Table!Tell(t, Table!No)
      BY <2>3, TableTell DEF AddRefused, Meets, No, Table!No
    <3>4. InTree' = InTree
      BY <2>3 DEF AddRefused, InTree
    <3>5. Table!Add(t)
      BY <2>1, <2>3, <3>2, <3>3, <3>4 DEF AddRefused, Table!Add, InTree
    <3> QED
      BY <3>5 DEF Table!Next
  <2>4. CASE RmvErase(t, m)
    <3>1. arg[t] \in Rule
      BY <2>4, RuleAssumption DEF RmvErase, WalkInv, LockInv, Writing
    <3>2. Table!Overlap(arg[t], order[m])
      BY <2>1, <2>4, <3>1, SameOverlaps DEF RmvErase, Meets
    <3>3. Table!Tell(t, Table!Yes)
      BY <2>4, TableTell DEF RmvErase, Meets, Yes, Table!Yes
    <3>4. InTree' = InTree \ {order[m]}
      BY <2>4, EraseRemovesOne
    <3>5. Table!Remove(t)
      BY <2>1, <2>4, <3>2, <3>3, <3>4 DEF RmvErase, Table!Remove, InTree
    <3> QED
      BY <3>5 DEF Table!Next
  <2>5. CASE FindHit(t, m)
    <3>1. arg[t] \in Packets
      BY <2>5 DEF FindHit, WalkInv, LockInv
    <3>2. Matches(arg[t], order[m])
      BY <2>1, <2>5, <3>1, SameMatches DEF FindHit, Meets
    <3>3. Table!Matches(arg[t], order[m])
      BY <3>2 DEF Matches, Table!Matches, FieldName, Table!FieldName
    <3>4. Table!Tell(t, order[m].typeidx)
      BY <2>5, TableTell DEF FindHit, Meets
    <3>5. InTree' = InTree
      BY <2>5 DEF FindHit, InTree
    <3>6. Table!Find(t)
      BY <2>1, <2>5, <3>3, <3>4, <3>5 DEF FindHit, Table!Find, InTree
    <3> QED
      BY <3>6 DEF Table!Next
  <2> QED
    BY <1>5, <2>2, <2>3, <2>4, <2>5 DEF Turn
<1>6. ASSUME NEW t \in Thread, AddLink(t)
      PROVE  Table!Next
  <2>1. \A s \in InTree : ~ Table!Overlap(arg[t], s)
    BY <1>6, LinkedIsRules, LeafIsFree DEF AddLink
  <2>2. InTree' = InTree \cup {arg[t]}
    BY <1>6, LinkAddsOne
  <2>3. Table!Tell(t, Table!Yes)
    BY <1>6, TableTell DEF AddLink, Misses, Yes, Table!Yes
  <2>4. Table!Add(t)
    BY <1>6, <2>1, <2>2, <2>3 DEF AddLink, Table!Add, InTree
  <2> QED
    BY <2>4 DEF Table!Next
<1>7. ASSUME NEW t \in Thread, NotFound(t)
      PROVE  Table!Next
  <2>1. Table!Tell(t, Table!No) /\ InTree' = InTree
    BY <1>7, TableTell DEF NotFound, Misses, No, Table!No, InTree
  <2>2. CASE pc[t] = "rmv"
    <3>1. arg[t] \in Rules
      BY <2>2 DEF WalkInv, LockInv, Writing
    <3>2. \A s \in InTree : ~ Table!Overlap(arg[t], s)
      BY <1>7, <3>1, LeafIsFree DEF NotFound
    <3>3. Table!Remove(t)
      BY <2>1, <2>2, <3>2 DEF Table!Remove, InTree
    <3> QED
      BY <3>3 DEF Table!Next
  <2>3. CASE pc[t] = "find"
    <3>1. pc'[t] = "find" /\ got'[t] = No /\ order' = order /\ arg' = arg
      BY <1>7, <2>3 DEF NotFound, Tell, WalkInv, TypeOK
    <3>2. \A k \in 1 .. Len(order) : ~ Matches(arg[t], order[k])
      BY <3>1 DEF TreeInv, FoundIfMatches
    <3>3. \A s \in InTree : ~ Table!Matches(arg[t], s)
      BY <3>2 DEF InTree, Matches, Table!Matches, FieldName, Table!FieldName
    <3>4. Table!Find(t)
      BY <2>1, <2>3, <3>3 DEF Table!Find, InTree
    <3> QED
      BY <3>4 DEF Table!Next
  <2> QED
    BY <1>7, <2>2, <2>3 DEF NotFound
<1>8. ASSUME NEW t \in Thread, Unlock(t)
      PROVE  Table!Next
  <2>1. Table!NoRule = NoRule
    BY DEF Table!NoRule, NoRule, FieldName, Table!FieldName
  <2>2. Table!Return(t)
    BY <1>8, <2>1 DEF Unlock, Table!Return, Table!None, None
  <2> QED
    BY <2>2 DEF Table!Next
<1>9. CASE clear_nfsrule
  <2>1. InTree' = {} /\ UNCHANGED <<pc, arg, got>> /\ \A t \in Thread : pc[t] = "idle"
    BY <1>9 DEF clear_nfsrule, CanWrite, InTree
  <2>2. Table!Clear
    BY <2>1 DEF Table!Clear, InTree
  <2> QED
    BY <2>2 DEF Table!Next
<1> QED
  BY <1>1, <1>3, <1>4, <1>5, <1>6, <1>7, <1>8, <1>9 DEF Next

\* With rules that have their wildcards in the same fields, the tree, its
\* lock and its walks implement a table of rules with atomic calls.
THEOREM TreeIsTable ==
  ASSUME Uniform
  PROVE  Spec => ImplementsTable
<1>1. Init => WalkInv /\ TreeInv
  BY WalkInit, TreeInit
<1>2. Init => Table!Init
  <2>1. Table!NoRule = NoRule
    BY DEF Table!NoRule, NoRule, FieldName, Table!FieldName
  <2> QED
    BY <2>1 DEF Init, Table!Init, Table!None, None
<1>3. WalkInv /\ TreeInv /\ [Next]_vars => WalkInv' /\ TreeInv'
  BY WalkNext, TreeNext
<1>4. WalkInv /\ TreeInv /\ TreeInv' /\ [Next]_vars => [Table!Next]_<<InTree, pc, arg, got>>
  BY TableNext
<1>5. WalkInv /\ TreeInv /\ TreeInv' /\ [Next]_vars => [Table!Next]_Table!vars
  BY <1>4 DEF InTree, Table!vars
<1> QED
  BY <1>1, <1>2, <1>3, <1>5, PTL DEF Spec, ImplementsTable, Table!Spec
=============================================================================
