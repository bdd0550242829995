-------------------------- MODULE ShadowHostProofs --------------------------
(***************************************************************************)
(* The pages of a snapshot, put together, are the snapshot in the order of *)
(* its cursor; hence a read that returns holds one state of the view,      *)
(* whatever commits and aborts meet it; and the lock file names the one    *)
(* process that uses the host, wherever processes are told to stop, throw  *)
(* or are killed.  The matcher's prefetch leaves out no row of its boxes,  *)
(* its validators admit what it decides, and the legacy report might have  *)
(* decided so.                                                             *)
(***************************************************************************)
EXTENDS ShadowHost, ApizzaMatching, SequenceTheorems, FiniteSetTheorems, TLAPS

-----------------------------------------------------------------------------
(* ORDER BY. *)

\* s lists the rows of S once each, by their cursors.
Lists(s, S) ==
  /\ s \in [1..Cardinality(S) -> S]
  /\ \A i, j \in DOMAIN s : i < j => s[i] # s[j] /\ Cursor[s[i]] <= Cursor[s[j]]

\* Some row of a set that is not empty has the least cursor.
LEMMA LeastCursor ==
  ASSUME NEW S \in SUBSET Row, S # {}
  PROVE  \E r \in S : \A q \in S : Cursor[r] <= Cursor[q]
<1> DEFINE C == {Cursor[r] : r \in S}
<1>1. C \subseteq Nat /\ C # {}
  BY SnapshotAssumption
<1>2. PICK c \in C : \A d \in C : ~ (<<d, c>> \in OpToRel(<, Nat))
  <2> HIDE DEF C
  <2> QED BY <1>1, NatLessThanWellFounded, WFMin
<1>3. \A d \in C : ~ (d < c)
  BY <1>1, <1>2 DEF OpToRel
<1>4. PICK r \in S : c = Cursor[r]
  OBVIOUS
<1>5. \A q \in S : Cursor[r] <= Cursor[q]
  BY <1>3, <1>4, SnapshotAssumption
<1> QED BY <1>5

\* The rows of a finite set can be listed: a row with the least cursor comes first.
LEMMA Listing ==
  ASSUME NEW S \in SUBSET Row, IsFiniteSet(S)
  PROVE  \E s : Lists(s, S)
<1> DEFINE Unlisted == {T \in SUBSET S : ~ \E s : Lists(s, T)}
<1>1. Unlisted = {}
  <2> SUFFICES ASSUME Unlisted # {} PROVE FALSE
    OBVIOUS
  <2>1. FiniteSubsetsOf(S) = SUBSET S
    BY FS_FiniteSubsetsOfFinite
  <2>2. PICK T \in Unlisted : \A U \in Unlisted : <<U, T>> \notin StrictSubsetOrdering(S)
    <3>1. IsWellFoundedOn(StrictSubsetOrdering(S), SUBSET S)
      BY <2>1, FS_StrictSubsetOrderingWellFounded
    <3>2. Unlisted \subseteq SUBSET S
      OBVIOUS
    <3> HIDE DEF Unlisted
    <3> QED BY <3>1, <3>2, WFMin
  <2>3. T # {}
    <3>1. Lists(<< >>, {})
      BY FS_EmptySet DEF Lists
    <3> QED BY <3>1
  <2>4. PICK r \in T : \A q \in T : Cursor[r] <= Cursor[q]
    BY <2>3, LeastCursor
  <2>u. PICK U : U = T \ {r}
    OBVIOUS
  <2>5. PICK n \in Nat : n = Cardinality(U) /\ Cardinality(T) = n + 1
    <3>1. IsFiniteSet(T)
      BY FS_Subset
    <3>2. IsFiniteSet(U) /\ Cardinality(U) = Cardinality(T) - 1
      BY <2>u, <3>1, FS_RemoveElement
    <3>3. Cardinality(T) \in Nat /\ Cardinality(U) \in Nat
      BY <3>1, <3>2, FS_CardinalityType
    <3> QED BY <3>2, <3>3
  <2>6. PICK s : Lists(s, U)
    <3>1. U \in SUBSET S /\ T \in SUBSET S /\ U \subseteq T /\ U # T
      BY <2>u
    <3>2. <<U, T>> \in StrictSubsetOrdering(S)
      BY <3>1 DEF StrictSubsetOrdering
    <3>3. U \notin Unlisted
      BY <2>2, <3>2
    <3> QED BY <3>1, <3>3
  <2> DEFINE t == [i \in 1..(n + 1) |-> IF i = 1 THEN r ELSE s[i - 1]]
  <2>7. s \in [1..n -> U]
    BY <2>5, <2>6 DEF Lists
  <2>8. t \in [1..(n + 1) -> T]
    <3>1. ASSUME NEW i \in 1..(n + 1) PROVE (IF i = 1 THEN r ELSE s[i - 1]) \in T
      <4>1. i = 1 \/ i - 1 \in 1..n
        BY <2>5
      <4>2. i - 1 \in 1..n => s[i - 1] \in T
        BY <2>u, <2>7
      <4> QED BY <4>1, <4>2
    <3> QED BY <3>1
  <2>9. ASSUME NEW i \in 1..(n + 1), NEW j \in 1..(n + 1), i < j
        PROVE  t[i] # t[j] /\ Cursor[t[i]] <= Cursor[t[j]]
    <3>1. /\ j - 1 \in 1..n /\ t[j] = s[j - 1]
          /\ s[j - 1] \in U
      BY <2>5, <2>7, <2>9
    <3>2. CASE i = 1
      BY <2>4, <2>u, <3>1, <3>2
    <3>3. CASE i # 1
      <4>1. i - 1 \in 1..n /\ t[i] = s[i - 1] /\ i - 1 < j - 1
        BY <2>5, <2>9, <3>3
      <4> QED BY <2>6, <2>7, <3>1, <4>1 DEF Lists
    <3> QED BY <3>2, <3>3
  <2>10. Lists(t, T)
    <3>1. DOMAIN t = 1..(n + 1)
      OBVIOUS
    <3> HIDE DEF t
    <3> QED BY <2>5, <2>8, <2>9, <3>1 DEF Lists
  <2> QED BY <2>10
<1> QED BY <1>1

\* What the queries order is listed, and a listing leaves no row out.
LEMMA OrderedLists ==
  ASSUME NEW S \in SUBSET Row, IsFiniteSet(S)
  PROVE  /\ Lists(Ordered(S), S)
         /\ Cardinality(S) \in Nat
         /\ \A r \in S : \E i \in 1..Cardinality(S) : r = Ordered(S)[i]
<1> DEFINE n == Cardinality(S)
           s == Ordered(S)
<1>1. Lists(s, S)
  BY Listing DEF Lists, Ordered
<1>2. n \in Nat /\ IsFiniteSet(1..n) /\ Cardinality(1..n) = n
  BY FS_CardinalityType, FS_Interval
<1>3. s \in [1..n -> S]
  BY <1>1 DEF Lists
<1>4. s \in Injection(1..n, S)
  <2>1. \A i, j \in 1..n : s[i] = s[j] => i = j
    BY <1>1, <1>2, <1>3 DEF Lists
  <2> HIDE DEF s, n
  <2> QED BY <1>3, <2>1 DEF Injection, IsInjective
<1>5. s \in Surjection(1..n, S)
  BY <1>2, <1>4, FS_Injection
<1>6. \A r \in S : \E i \in 1..n : r = s[i]
  BY <1>5 DEF Surjection
<1> QED BY <1>1, <1>2, <1>6

-----------------------------------------------------------------------------
(* The pages. *)

\* s holds the first rows of S, by their cursors.
FirstOf(s, S) ==
  /\ s \in Seq(S)
  /\ Increasing(s)
  /\ \A r \in S : Cursor[r] <= After(s) => r \in ToSet(s)

LEMMA AfterIsCursor ==
  ASSUME NEW S \in SUBSET Row, NEW s \in Seq(S)
  PROVE  /\ Len(s) \in Nat
         /\ After(s) \in Nat
         /\ s # << >> => Len(s) \in 1..Len(s) /\ After(s) = Cursor[s[Len(s)]]
         /\ s = << >> => After(s) = 0
<1>1. Len(s) \in Nat /\ s \in [1..Len(s) -> S] /\ (s # << >> => Len(s) # 0)
  BY LenProperties, EmptySeq
<1>2. CASE s = << >>
  BY <1>1, <1>2 DEF After
<1>3. CASE s # << >>
  <2>1. Len(s) \in 1..Len(s) /\ s[Len(s)] \in Row
    BY <1>1, <1>3
  <2>2. After(s) = Cursor[s[Len(s)]]
    BY <1>3 DEF After, Last
  <2> QED BY <1>1, <1>3, <2>1, <2>2, SnapshotAssumption
<1> QED BY <1>2, <1>3

\* Of a sequence in the order of its cursor, After() bounds every row.
LEMMA AfterBounds ==
  ASSUME NEW S \in SUBSET Row, NEW s \in Seq(S), Increasing(s), NEW i \in 1..Len(s)
  PROVE  Cursor[s[i]] <= After(s)
<1>1. Len(s) \in Nat /\ s \in [1..Len(s) -> S] /\ DOMAIN s = 1..Len(s)
  BY LenProperties
<1>2. s # << >>
  BY <1>1, EmptySeq
<1>3. After(s) = Cursor[s[Len(s)]] /\ Len(s) \in 1..Len(s)
  BY <1>2, AfterIsCursor
<1>4. CASE i = Len(s)
  BY <1>1, <1>3, <1>4, SnapshotAssumption
<1>5. CASE i < Len(s)
  <2>1. Cursor[s[i]] < Cursor[s[Len(s)]]
    BY <1>1, <1>3, <1>5 DEF Increasing
  <2>2. Cursor[s[i]] \in Nat /\ Cursor[s[Len(s)]] \in Nat
    BY <1>1, <1>3, SnapshotAssumption
  <2> QED BY <1>3, <2>1, <2>2
<1>6. i = Len(s) \/ i < Len(s)
  <2>1. PICK n \in Nat : n = Len(s)
    BY <1>1
  <2> QED BY <2>1
<1> QED BY <1>4, <1>5, <1>6

\* A page is the next rows after those read so far, in the order of the cursor: none is
\* skipped between it and what is left, and one that is not full leaves nothing.
LEMMA PageIsNext ==
  ASSUME NEW S \in SUBSET Row, IsFiniteSet(S), UniqueCursors(S),
         NEW s \in Seq(S), NEW limit \in Nat
  PROVE  LET page == PageOf(S, s, limit) IN
         /\ page \in Seq(S)
         /\ Increasing(page)
         /\ \A i \in 1..Len(page) : Cursor[page[i]] > After(s)
         /\ \A r \in S : Cursor[r] > After(s) =>
              \/ r \in ToSet(page)
              \/ Len(page) = limit /\ \A i \in 1..Len(page) : Cursor[page[i]] < Cursor[r]
<1> DEFINE R == Beyond(S, s)
           rest == Ordered(R)
           page == PageOf(S, s, limit)
<1>1. R \in SUBSET S /\ R \in SUBSET Row /\ IsFiniteSet(R)
  BY FS_Subset DEF Beyond
<1>2. PICK n \in Nat : n = Cardinality(R)
  BY <1>1, OrderedLists
<1> HIDE DEF R
<1>3. /\ rest \in [1..n -> R]
      /\ \A i, j \in 1..n : i < j => rest[i] # rest[j] /\ Cursor[rest[i]] <= Cursor[rest[j]]
      /\ \A r \in R : \E i \in 1..n : r = rest[i]
  <2>1. Lists(rest, R) /\ \A r \in R : \E i \in 1..Cardinality(R) : r = rest[i]
    BY <1>1, OrderedLists
  <2> HIDE DEF rest
  <2> QED BY <1>2, <2>1 DEF Lists
<1> HIDE DEF rest
<1>4. \A i, j \in 1..n : i < j => Cursor[rest[i]] < Cursor[rest[j]]
  <2> SUFFICES ASSUME NEW i \in 1..n, NEW j \in 1..n, i < j
               PROVE  Cursor[rest[i]] < Cursor[rest[j]]
    OBVIOUS
  <2>1. rest[i] \in S /\ rest[j] \in S /\ rest[i] # rest[j]
    BY <1>1, <1>3
  <2>2. Cursor[rest[i]] # Cursor[rest[j]]
    BY <2>1 DEF UniqueCursors
  <2>3. Cursor[rest[i]] \in Nat /\ Cursor[rest[j]] \in Nat
    BY <2>1, SnapshotAssumption
  <2> QED BY <1>3, <2>2, <2>3
<1>5. rest \in Seq(S) /\ Len(rest) = n
  BY <1>1, <1>2, <1>3
<1>6. PICK k \in 0..n : /\ k = (IF n < limit THEN n ELSE limit)
                        /\ page = SubSeq(rest, 1, k)
  BY <1>2, <1>5 DEF PageOf, rest, R
<1>7. page \in Seq(S) /\ Len(page) = k /\ \A i \in 1..k : page[i] = rest[i]
  <2>1. \A i \in 1..k : rest[i] \in S
    BY <1>1, <1>3, <1>6
  <2> HIDE DEF page
  <2> QED BY <1>6, <2>1, SubSeqProperties
<1>8. DOMAIN page = 1..k
  BY <1>7, LenProperties
<1> HIDE DEF page
<1>9. Increasing(page)
  BY <1>4, <1>6, <1>7, <1>8 DEF Increasing
<1>10. \A i \in 1..Len(page) : Cursor[page[i]] > After(s)
  <2>1. \A i \in 1..k : rest[i] \in R
    BY <1>3, <1>6
  <2> QED BY <1>7, <2>1 DEF R, Beyond
<1>11. ASSUME NEW r \in S, Cursor[r] > After(s)
       PROVE  \/ r \in ToSet(page)
              \/ Len(page) = limit /\ \A i \in 1..Len(page) : Cursor[page[i]] < Cursor[r]
  <2>1. r \in R
    BY <1>11 DEF R, Beyond
  <2>2. PICK i \in 1..n : r = rest[i]
    BY <1>3, <2>1
  <2>3. CASE i <= k
    <3>1. i \in 1..k /\ r = page[i]
      BY <1>6, <1>7, <2>2, <2>3
    <3> QED BY <1>8, <3>1 DEF ToSet
  <2>4. CASE i > k
    BY <1>4, <1>6, <1>7, <2>2, <2>4
  <2> QED BY <2>3, <2>4
<1> QED BY <1>7, <1>9, <1>10, <1>11 DEF page

\* Page after page, a read holds the first rows of its snapshot; and all of them once a
\* page is short.
LEMMA PageGrows ==
  ASSUME NEW S \in SUBSET Row, IsFiniteSet(S), UniqueCursors(S),
         NEW s, FirstOf(s, S), NEW limit \in Nat
  PROVE  LET page == PageOf(S, s, limit) IN
         /\ FirstOf(s \o page, S)
         /\ Len(page) < limit => ToSet(s \o page) = S
<1> DEFINE page == PageOf(S, s, limit)
           t == s \o page
<1>1. s \in Seq(S) /\ Len(s) \in Nat /\ DOMAIN s = 1..Len(s) /\ s \in [1..Len(s) -> S]
  BY LenProperties DEF FirstOf
<1>2. /\ page \in Seq(S)
      /\ Increasing(page)
      /\ \A i \in 1..Len(page) : Cursor[page[i]] > After(s)
      /\ \A r \in S : Cursor[r] > After(s) =>
           \/ r \in ToSet(page)
           \/ Len(page) = limit /\ \A i \in 1..Len(page) : Cursor[page[i]] < Cursor[r]
  BY <1>1, PageIsNext
<1> HIDE DEF page
<1>3. Len(page) \in Nat /\ DOMAIN page = 1..Len(page) /\ page \in [1..Len(page) -> S]
  BY <1>2, LenProperties
<1>4. /\ t \in Seq(S) /\ Len(t) = Len(s) + Len(page)
      /\ DOMAIN t = 1..Len(t) /\ Len(t) \in Nat
      /\ \A i \in 1..Len(s) : t[i] = s[i]
      /\ \A i \in 1..Len(page) : t[Len(s) + i] = page[i]
  <2>1. /\ t \in Seq(S) /\ Len(t) = Len(s) + Len(page)
        /\ \A i \in 1..Len(s) + Len(page) :
             t[i] = IF i <= Len(s) THEN s[i] ELSE page[i - Len(s)]
    BY <1>1, <1>2, ConcatProperties
  <2>2. DOMAIN t = 1..Len(t) /\ Len(t) \in Nat
    BY <2>1, LenProperties
  <2> HIDE DEF t
  <2>3. \A i \in 1..Len(s) : t[i] = s[i]
    BY <1>1, <1>3, <2>1
  <2>4. ASSUME NEW i \in 1..Len(page) PROVE t[Len(s) + i] = page[i]
    <3>1. /\ Len(s) + i \in 1..Len(s) + Len(page)
          /\ ~ (Len(s) + i <= Len(s)) /\ (Len(s) + i) - Len(s) = i
      BY <1>1, <1>3
    <3> QED BY <2>1, <3>1
  <2> QED BY <2>1, <2>2, <2>3, <2>4
<1>5. ToSet(t) = ToSet(s) \cup ToSet(page)
  <2>1. ToSet(t) \subseteq ToSet(s) \cup ToSet(page)
    <3> SUFFICES ASSUME NEW i \in 1..Len(t) PROVE t[i] \in ToSet(s) \cup ToSet(page)
      BY <1>4 DEF ToSet
    <3>1. CASE i <= Len(s)
      BY <1>1, <1>4, <3>1 DEF ToSet
    <3>2. CASE i > Len(s)
      <4>1. i - Len(s) \in 1..Len(page) /\ t[i] = page[i - Len(s)]
        <5>1. i - Len(s) \in 1..Len(page) /\ Len(s) + (i - Len(s)) = i
          BY <1>1, <1>3, <1>4, <3>2
        <5> QED BY <1>4, <5>1
      <4> QED BY <1>3, <4>1 DEF ToSet
    <3> QED BY <1>1, <1>4, <3>1, <3>2
  <2>2. ToSet(s) \subseteq ToSet(t)
    BY <1>1, <1>3, <1>4 DEF ToSet
  <2>3. ToSet(page) \subseteq ToSet(t)
    <3> SUFFICES ASSUME NEW i \in 1..Len(page) PROVE page[i] \in ToSet(t)
      BY <1>3 DEF ToSet
    <3>1. Len(s) + i \in 1..Len(t) /\ t[Len(s) + i] = page[i]
      BY <1>1, <1>3, <1>4
    <3> QED BY <1>4, <3>1 DEF ToSet
  <2> QED BY <2>1, <2>2, <2>3
<1> HIDE DEF t
<1>6. Increasing(t)
  <2> SUFFICES ASSUME NEW i \in 1..Len(t), NEW j \in 1..Len(t), i < j
               PROVE  Cursor[t[i]] < Cursor[t[j]]
    BY <1>4 DEF Increasing
  <2>1. CASE j <= Len(s)
    BY <1>1, <1>4, <2>1 DEF Increasing, FirstOf
  <2>2. CASE i <= Len(s) /\ j > Len(s)
    <3>1. PICK l \in 1..Len(page) : j = Len(s) + l
      <4>1. j - Len(s) \in 1..Len(page) /\ j = Len(s) + (j - Len(s))
        BY <1>1, <1>3, <1>4, <2>2
      <4> QED BY <4>1
    <3>2. Cursor[s[i]] <= After(s) /\ t[i] = s[i] /\ s[i] \in S
      <4>1. i \in 1..Len(s) /\ Increasing(s)
        BY <1>1, <1>4, <2>2 DEF FirstOf
      <4> QED BY <1>1, <1>4, <4>1, AfterBounds
    <3>3. Cursor[page[l]] > After(s) /\ t[j] = page[l] /\ page[l] \in S
      BY <1>2, <1>3, <1>4, <3>1
    <3>4. Cursor[s[i]] \in Nat /\ Cursor[page[l]] \in Nat /\ After(s) \in Nat
      BY <1>1, <3>2, <3>3, AfterIsCursor, SnapshotAssumption
    <3> QED BY <3>2, <3>3, <3>4
  <2>3. CASE i > Len(s)
    <3>1. PICK l \in 1..Len(page), m \in 1..Len(page) :
            i = Len(s) + l /\ j = Len(s) + m /\ l < m
      <4>1. /\ i - Len(s) \in 1..Len(page) /\ i = Len(s) + (i - Len(s))
            /\ j - Len(s) \in 1..Len(page) /\ j = Len(s) + (j - Len(s))
            /\ i - Len(s) < j - Len(s)
        BY <1>1, <1>3, <1>4, <2>3
      <4> QED BY <4>1
    <3>2. Cursor[page[l]] < Cursor[page[m]]
      BY <1>2, <1>3, <3>1 DEF Increasing
    <3> QED BY <1>4, <3>1, <3>2
  <2> QED BY <1>1, <1>4, <2>1, <2>2, <2>3
<1>7. ASSUME NEW r \in S, r \notin ToSet(t)
      PROVE  Len(page) = limit /\ Cursor[r] > After(t)
  <2>1. Cursor[r] > After(s)
    BY <1>1, <1>5, <1>7, AfterIsCursor, SnapshotAssumption DEF FirstOf
  <2>2. Len(page) = limit /\ \A i \in 1..Len(page) : Cursor[page[i]] < Cursor[r]
    BY <1>2, <1>5, <1>7, <2>1
  <2>3. CASE Len(page) = 0
    <3>1. page = << >>
      BY <1>2, <2>3, EmptySeq
    <3>2. t = s
      BY <1>1, <3>1, ConcatEmptySeq DEF t
    <3> QED BY <2>1, <2>2, <3>2
  <2>4. CASE Len(page) # 0
    <3>1. t # << >> /\ t[Len(t)] = page[Len(page)] /\ Len(page) \in 1..Len(page)
      BY <1>1, <1>3, <1>4, <2>4, EmptySeq
    <3>2. After(t) = Cursor[page[Len(page)]]
      BY <1>4, <3>1, AfterIsCursor
    <3>3. Cursor[r] \in Nat /\ page[Len(page)] \in S
      BY <1>3, <3>1, SnapshotAssumption
    <3>4. After(t) < Cursor[r]
      BY <2>2, <3>1, <3>2
    <3> QED BY <2>2, <3>2, <3>3, <3>4, SnapshotAssumption
  <2> QED BY <2>3, <2>4
<1>8. FirstOf(t, S)
  <2>1. \A r \in S : Cursor[r] <= After(t) => r \in ToSet(t)
    <3> SUFFICES ASSUME NEW r \in S, r \notin ToSet(t) PROVE ~ (Cursor[r] <= After(t))
      OBVIOUS
    <3>1. Cursor[r] > After(t) /\ Cursor[r] \in Nat /\ After(t) \in Nat
      BY <1>4, <1>7, AfterIsCursor, SnapshotAssumption
    <3> QED BY <3>1
  <2> QED BY <1>4, <1>6, <2>1 DEF FirstOf
<1>9. Len(page) < limit => ToSet(t) = S
  <2>1. ToSet(t) \subseteq S
    BY <1>4, LenProperties DEF ToSet
  <2>2. ASSUME Len(page) < limit, NEW r \in S PROVE r \in ToSet(t)
    <3>1. PICK n \in Nat : n = Len(page)
      BY <1>3
    <3>2. Len(page) # limit
      BY <2>2, <3>1
    <3> QED BY <1>7, <3>2
  <2> QED BY <2>1, <2>2
<1> QED BY <1>8, <1>9 DEF t, page

\* Nothing fits in every grant.
LEMMA EmptyFits == Fits(<< >>)
<1>1. SumBytes(<< >>) = 0
  <2> DEFINE E == DOMAIN << >>
             sum == CHOOSE sum : sum = [T \in SUBSET E |->
                      IF T = {} THEN 0 ELSE sum[T \ {Max(T)}] + Bytes[<< >>[Max(T)]]]
  <2>1. E = {}
    OBVIOUS
  <2>2. SumBytes(<< >>) = sum[E]
    BY DEF SumBytes, FoldLeft, MapThenFoldSet
  <2> QED BY <2>1, <2>2
<1> QED BY <1>1, SnapshotAssumption DEF Fits

-----------------------------------------------------------------------------
(* The invariants. *)

ReaderType ==
  /\ view \in Views
  /\ stage \in [Proc -> Stages]
  /\ aborted \in [Proc -> BOOLEAN]
  /\ connection \in [Proc -> {"none", "leased", "idle"}]
  /\ snapshot \in [Proc -> SUBSET Row]
  /\ rows \in [Proc -> Seq(Row)]
  /\ seen \in [Proc -> SUBSET Views]

HostType ==
  /\ lock \in [owner : Proc \X Nat, written : BOOLEAN] \cup {None}
  /\ phase \in [Proc -> Phases]
  /\ run \in [Proc -> Nat]
  /\ terminated \in [Proc -> BOOLEAN]
  /\ poolOpen \in [Proc -> BOOLEAN]
  /\ stateOpen \in [Proc -> BOOLEAN]
  /\ lockFailed \in [Proc -> BOOLEAN]

\* The read of p has seen the present view; its transaction, once begun, sees a view of
\* the time of the read; and what it has read are the first rows of that snapshot.
Reads(p) ==
  /\ Awaits(p) => view \in seen[p]
  /\ stage[p] \in {"connecting", "leased", "attesting"} => rows[p] = << >>
  /\ InTransaction(p) => snapshot[p] \in seen[p]
  /\ stage[p] = "paging" => /\ UniqueCursors(snapshot[p])
                            /\ FirstOf(rows[p], snapshot[p])
                            /\ Len(rows[p]) <= MaxRecords /\ Fits(rows[p])
  /\ stage[p] = "returned" => /\ \E S \in seen[p] : UniqueCursors(S) /\ ToSet(rows[p]) = S
                              /\ Increasing(rows[p])
                              /\ Len(rows[p]) <= MaxRecords /\ Fits(rows[p])

ReadInv == ReaderType /\ \A p \in Proc : Reads(p)

\* The lock file p has opened and not yet written.
Unwritten(p) == [owner |-> <<p, run[p]>>, written |-> FALSE]

\* The lock names p from when its file is opened until it is released, unless writing or
\* releasing it failed, and never a run still to come; what p holds is closed by the
\* cleanup of its phase.
Locks(p) ==
  /\ phase[p] = "writing" => lock = Unwritten(p)
  /\ phase[p] \in Working \cup {"canonical"} => lock = Mine(p)
  /\ phase[p] \in {"locking", "pool", "state", "lock", "exited"} /\ ~lockFailed[p] =>
       lock # Unwritten(p)
  /\ phase[p] = "exited" /\ ~lockFailed[p] => lock # Mine(p)
  /\ lock # None /\ lock.owner[1] = p => lock.owner[2] <= run[p]
  /\ poolOpen[p] => /\ lock = Mine(p)
                    /\ phase[p] \in {"starting", "projecting", "canonical", "matching", "pool"}
  /\ stateOpen[p] => /\ lock = Mine(p)
                     /\ phase[p] \in {"projecting", "canonical", "matching", "pool", "state"}
  /\ connection[p] # "none" => /\ lock = Mine(p)
                               /\ phase[p] \in {"canonical", "matching", "pool"}

LockInv == ReaderType /\ HostType /\ \A p \in Proc : Locks(p)

-----------------------------------------------------------------------------
(* What a read returns. *)

LEMMA ReadsInit == Init => ReadInv
<1> SUFFICES ASSUME Init PROVE ReadInv
  OBVIOUS
<1>1. ReaderType
  BY EmptySeq DEF Init, ReaderInit, ReaderType, Stages
<1>2. \A p \in Proc : Reads(p)
  BY DEF Init, ReaderInit, Reads, Awaits, InTransaction
<1> QED BY <1>1, <1>2 DEF ReadInv

\* Where nothing of a read changes, or it is over without a result, nothing is to show.
LEMMA ReadsStay ==
  ASSUME NEW q, Reads(q),
         \/ /\ view' = view /\ stage'[q] = stage[q] /\ snapshot'[q] = snapshot[q]
            /\ rows'[q] = rows[q] /\ seen'[q] = seen[q]
         \/ stage'[q] \in {"idle", "failed", "unwinding"}
  PROVE  Reads(q)'
<1>1. CASE stage'[q] \in {"idle", "failed", "unwinding"}
  BY <1>1 DEF Reads, Awaits, InTransaction
<1>2. CASE /\ view' = view /\ stage'[q] = stage[q] /\ snapshot'[q] = snapshot[q]
           /\ rows'[q] = rows[q] /\ seen'[q] = seen[q]
  BY <1>2 DEF Reads, Awaits, InTransaction
<1> QED BY <1>1, <1>2

\* A page that passes every check continues the rows read so far.
LEMMA PageTaken ==
  ASSUME ReadInv, NEW p \in Proc, stage[p] = "paging", Taken(p, NextPage(p))
  PROVE  LET t == rows[p] \o NextPage(p) IN
         /\ t \in Seq(Row)
         /\ FirstOf(t, snapshot[p])
         /\ Len(t) <= MaxRecords /\ Fits(t)
         /\ Short(p, NextPage(p)) => ToSet(t) = snapshot[p]
<1> DEFINE S == snapshot[p]
           s == rows[p]
           page == NextPage(p)
           t == s \o page
<1>1. /\ S \in SUBSET Row /\ IsFiniteSet(S) /\ UniqueCursors(S)
      /\ FirstOf(s, S) /\ s \in Seq(S) /\ s \in Seq(Row)
      /\ Len(s) <= MaxRecords /\ Fits(s)
  BY SnapshotAssumption DEF ReadInv, ReaderType, Reads, InTransaction, FirstOf
<1>2. PageLimit(p) \in Nat
  <2>1. Len(s) \in Nat
    BY <1>1, LenProperties
  <2>2. PICK n \in Nat : n = Len(s)
    BY <2>1
  <2>3. n <= MaxRecords
    BY <1>1, <2>2
  <2>4. MaxRecords + 1 - n \in Nat
    BY <2>3, SnapshotAssumption
  <2>5. PageLimit(p) = (IF PageSize < MaxRecords + 1 - n THEN PageSize ELSE MaxRecords + 1 - n)
    BY <2>2 DEF PageLimit
  <2> QED BY <2>4, <2>5, SnapshotAssumption
<1>3. page = PageOf(S, s, PageLimit(p))
  BY DEF NextPage, Visible
<1>4. FirstOf(t, S) /\ (Short(p, page) => ToSet(t) = S)
  <2> HIDE DEF S, s
  <2> QED BY <1>1, <1>2, <1>3, PageGrows DEF Short
<1>5. t \in Seq(Row)
  <2>1. t \in Seq(S)
    BY <1>4 DEF FirstOf
  <2> QED BY <1>1, <2>1, SeqMonotonic
<1>6. page \in Seq(S)
  <2> HIDE DEF S, s
  <2> QED BY <1>1, <1>2, <1>3, PageIsNext
<1>7. Len(t) <= MaxRecords
  <2>1. Len(t) = Len(s) + Len(page)
    BY <1>1, <1>6, ConcatProperties
  <2> QED BY <2>1 DEF Taken
<1>8. Fits(t)
  <2>1. CASE page = << >>
    BY <1>1, <2>1, ConcatEmptySeq
  <2>2. CASE page # << >>
    <3>1. Len(page) \in DOMAIN page /\ SubSeq(page, 1, Len(page)) = page
      <4>1. Len(page) \in Nat \ {0} /\ DOMAIN page = 1..Len(page)
        BY <1>6, <2>2, LenProperties, EmptySeq
      <4>2. SubSeq(page, 1, Len(page)) = page
        BY <1>6, SubSeqFull
      <4> HIDE DEF page
      <4> QED BY <4>1, <4>2
    <3>2. Fits(s \o SubSeq(page, 1, Len(page)))
      BY <3>1 DEF Taken
    <3> QED BY <3>1, <3>2
  <2> QED BY <2>1, <2>2
<1> QED BY <1>4, <1>5, <1>7, <1>8

\* What a process does with its read.
LEMMA BeginReads ==
  ASSUME ReadInv, NEW p \in Proc, BeginRead(p)
  PROVE  ReadInv'
<1>1. ReaderType'
  BY EmptySeq DEF BeginRead, To, ReadInv, ReaderType, Stages
<1>2. ASSUME NEW q \in Proc PROVE Reads(q)'
  <2>1. CASE q = p
    BY <2>1 DEF BeginRead, To, ReadInv, ReaderType, Reads, Awaits, InTransaction
  <2>2. CASE q # p
    BY <2>2, ReadsStay DEF BeginRead, To, ReadInv, ReaderType
  <2> QED BY <2>1, <2>2
<1> QED BY <1>1, <1>2 DEF ReadInv

LEMMA ReadGoesOn ==
  ASSUME ReadInv, NEW p \in Proc, ReadSteps(p)
  PROVE  ReadInv'
<1> USE DEF To, Connection
<1>1. ASSUME Connect(p) \/ ConnectFails(p) \/ ReadFails(p) \/ Unwind(p) PROVE ReadInv'
  <2>1. ReaderType'
    BY <1>1 DEF Connect, ConnectFails, ReadFails, Unwind, Leased, ReadInv, ReaderType, Stages
  <2>2. ASSUME NEW q \in Proc PROVE Reads(q)'
    <3>1. CASE q = p /\ Connect(p)
      BY <3>1 DEF Connect, Leased, ReadInv, ReaderType, Reads, Awaits, InTransaction
    <3>2. CASE q = p /\ ~ Connect(p)
      BY <1>1, <3>2, ReadsStay DEF ConnectFails, ReadFails, Unwind, ReadInv, ReaderType
    <3>3. CASE q # p
      BY <1>1, <3>3, ReadsStay
      DEF Connect, ConnectFails, ReadFails, Unwind, Leased, ReadInv, ReaderType
    <3> QED BY <3>1, <3>2, <3>3
  <2> QED BY <2>1, <2>2 DEF ReadInv
<1>2. ASSUME Begin(p) PROVE ReadInv'
  <2>1. ReaderType'
    BY <1>2, SnapshotAssumption DEF Begin, ReadInv, ReaderType, Stages
  <2>2. ASSUME NEW q \in Proc PROVE Reads(q)'
    <3>1. CASE q = p
      BY <1>2, <3>1 DEF Begin, ReadInv, ReaderType, Reads, Awaits, InTransaction
    <3>2. CASE q # p
      BY <1>2, <3>2, ReadsStay DEF Begin, ReadInv, ReaderType
    <3> QED BY <3>1, <3>2
  <2> QED BY <2>1, <2>2 DEF ReadInv
<1>3. ASSUME Attest(p) PROVE ReadInv'
  <2>1. ReaderType'
    BY <1>3 DEF Attest, ReadInv, ReaderType, Stages
  <2>2. ASSUME NEW q \in Proc PROVE Reads(q)'
    <3>1. CASE q = p
      <4>1. FirstOf(<< >>, snapshot[p])
        <5>1. snapshot[p] \in SUBSET Row /\ UniqueCursors(snapshot[p])
          BY <1>3 DEF Attest, Visible, ReadInv, ReaderType
        <5>2. \A r \in snapshot[p] : ~ (Cursor[r] <= 0)
          BY <5>1, SnapshotAssumption DEF UniqueCursors
        <5> QED BY <5>2, EmptySeq DEF FirstOf, Increasing, After
      <4>2. Len(<< >>) <= MaxRecords
        BY SnapshotAssumption
      <4> QED
        BY <1>3, <3>1, <4>1, <4>2, EmptyFits
        DEF Attest, Visible, ReadInv, ReaderType, Reads, Awaits, InTransaction
    <3>2. CASE q # p
      BY <1>3, <3>2, ReadsStay DEF Attest, ReadInv, ReaderType
    <3> QED BY <3>1, <3>2
  <2> QED BY <2>1, <2>2 DEF ReadInv
<1>4. ASSUME Page(p) PROVE ReadInv'
  <2>1. /\ stage[p] = "paging" /\ Taken(p, NextPage(p))
        /\ rows' = [rows EXCEPT ![p] = rows[p] \o NextPage(p)]
        /\ UNCHANGED <<view, commits, stage, aborted, connection, snapshot, seen>>
    BY <1>4 DEF Page
  <2>2. PICK t : t = rows[p] \o NextPage(p)
    OBVIOUS
  <2>3. /\ t \in Seq(Row) /\ FirstOf(t, snapshot[p])
        /\ Len(t) <= MaxRecords /\ Fits(t)
    BY <2>1, <2>2, PageTaken
  <2>4. ReaderType'
    BY <2>1, <2>2, <2>3 DEF ReadInv, ReaderType
  <2>5. ASSUME NEW q \in Proc PROVE Reads(q)'
    <3>1. CASE q = p
      <4>1. rows'[p] = t
        BY <2>1, <2>2 DEF ReadInv, ReaderType
      <4> QED
        BY <2>1, <2>3, <3>1, <4>1
        DEF ReadInv, ReaderType, Reads, Awaits, InTransaction
    <3>2. CASE q # p
      BY <2>1, <3>2, ReadsStay DEF ReadInv, ReaderType
    <3> QED BY <3>1, <3>2
  <2> QED BY <2>4, <2>5 DEF ReadInv
<1>5. ASSUME Finish(p) PROVE ReadInv'
  <2>1. /\ stage[p] = "paging" /\ Taken(p, NextPage(p)) /\ Short(p, NextPage(p))
        /\ rows' = [rows EXCEPT ![p] = rows[p] \o NextPage(p)]
        /\ stage' = [stage EXCEPT ![p] = "returned"]
        /\ connection' = [connection EXCEPT ![p] = "idle"]
        /\ snapshot' = [snapshot EXCEPT ![p] = {}]
        /\ UNCHANGED <<view, commits, aborted, seen>>
    BY <1>5 DEF Finish
  <2>2. PICK t : t = rows[p] \o NextPage(p)
    OBVIOUS
  <2>3. /\ t \in Seq(Row) /\ FirstOf(t, snapshot[p])
        /\ Len(t) <= MaxRecords /\ Fits(t)
        /\ ToSet(t) = snapshot[p]
    BY <2>1, <2>2, PageTaken
  <2>4. ReaderType'
    BY <2>1, <2>2, <2>3 DEF ReadInv, ReaderType, Stages
  <2>5. ASSUME NEW q \in Proc PROVE Reads(q)'
    <3>1. CASE q = p
      <4>1. rows'[p] = t /\ stage'[p] = "returned" /\ seen'[p] = seen[p]
        BY <2>1, <2>2 DEF ReadInv, ReaderType
      <4>2. UniqueCursors(snapshot[p]) /\ snapshot[p] \in seen[p] /\ Increasing(t)
        BY <2>1, <2>3 DEF ReadInv, Reads, InTransaction, FirstOf
      <4> QED BY <2>3, <3>1, <4>1, <4>2 DEF Reads, Awaits, InTransaction
    <3>2. CASE q # p
      BY <2>1, <3>2, ReadsStay DEF ReadInv, ReaderType
    <3> QED BY <3>1, <3>2
  <2> QED BY <2>4, <2>5 DEF ReadInv
<1> QED BY <1>1, <1>2, <1>3, <1>4, <1>5 DEF ReadSteps

LEMMA ReadCut ==
  ASSUME ReadInv, NEW p \in Proc, Abort(p) \/ IdleClosed(p) \/ Drop(p)
  PROVE  ReadInv'
<1> USE DEF To, Connection, Abort, IdleClosed, Drop
<1>1. ReaderType'
  <2>1. CASE Abort(p)
    BY <2>1 DEF ReadInv, ReaderType, Stages
  <2>2. CASE IdleClosed(p)
    BY <2>2 DEF ReadInv, ReaderType
  <2>3. CASE Drop(p)
    BY <2>3, EmptySeq DEF ReadInv, ReaderType, Stages
  <2> QED BY <2>1, <2>2, <2>3
<1>2. ASSUME NEW q \in Proc PROVE Reads(q)'
  BY ReadsStay DEF ReadInv, ReaderType
<1> QED BY <1>1, <1>2 DEF ReadInv

\* A commit is seen by every read that awaits an answer.
LEMMA ReadsCommit ==
  ASSUME ReadInv, Commit
  PROVE  ReadInv'
<1>1. ReaderType'
  BY DEF Commit, ReadInv, ReaderType
<1>2. ASSUME NEW q \in Proc PROVE Reads(q)'
  BY DEF Commit, ReadInv, ReaderType, Reads, Awaits, InTransaction
<1> QED BY <1>1, <1>2 DEF ReadInv

LEMMA ReadsSame ==
  ASSUME ReadInv, UNCHANGED <<view, stage, snapshot, rows, seen>>,
         aborted' \in [Proc -> BOOLEAN],
         connection' \in [Proc -> {"none", "leased", "idle"}]
  PROVE  ReadInv'
BY ReadsStay DEF ReadInv, ReaderType

LEMMA ReadsStep == ReadInv /\ [Next]_vars => ReadInv'
<1> SUFFICES ASSUME ReadInv, [Next]_vars PROVE ReadInv'
  OBVIOUS
<1>t. ReaderType
  BY DEF ReadInv
<1>0. CASE UNCHANGED readerVars
  BY <1>0, <1>t, ReadsSame DEF readerVars, ReaderType
<1>1. CASE UNCHANGED vars
  BY <1>0, <1>1 DEF vars
<1>2. ASSUME NEW p \in Proc, Start(p) PROVE ReadInv'
  BY <1>0, <1>2 DEF Start
<1>3. ASSUME NEW p \in Proc, ProcStep(p) PROVE ReadInv'
  <2>1. CASE Lock(p) \/ WriteLock(p) \/ Compose(p) \/ Prepare(p) \/ BeginRun(p) \/ CloseState(p)
    BY <1>0, <2>1 DEF Lock, WriteLock, Compose, Prepare, BeginRun, CloseState
  <2>2. CASE Project(p)
    BY <1>0, <2>2, BeginReads DEF Project
  <2>3. CASE Canonical(p)
    BY <1>0, <2>3, ReadGoesOn, ReadCut DEF Canonical
  <2>4. CASE Match(p)
    BY <2>4, ReadCut DEF Match
  <2>5. CASE ClosePool(p)
    BY <1>t, <2>5, ReadsSame DEF ClosePool, ReaderType
  <2>6. CASE ReleaseLock(p)
    BY <1>t, <2>6, ReadsSame DEF ReleaseLock, ReaderType
  <2> QED BY <1>3, <2>1, <2>2, <2>3, <2>4, <2>5, <2>6 DEF ProcStep
<1>4. ASSUME NEW p \in Proc, StageDeadline(p) PROVE ReadInv'
  BY <1>4, ReadCut DEF StageDeadline
<1>5. ASSUME NEW p \in Proc, Terminate(p) PROVE ReadInv'
  BY <1>0, <1>5, ReadCut DEF Terminate
<1>6. ASSUME NEW p \in Proc, Kill(p) PROVE ReadInv'
  <2>1. ReaderType'
    BY <1>6, <1>t, EmptySeq DEF Kill, ReaderType, Stages
  <2>2. ASSUME NEW q \in Proc PROVE Reads(q)'
    BY <1>6, <1>t, ReadsStay DEF Kill, ReadInv, ReaderType
  <2> QED BY <2>1, <2>2 DEF ReadInv
<1>7. ASSUME NEW p \in Proc, IdleClosed(p) PROVE ReadInv'
  BY <1>7, ReadCut
<1>8. CASE Commit
  BY <1>8, ReadsCommit
<1>9. CASE OperatorUnlocks \/ WriteProjection
  BY <1>0, <1>9 DEF OperatorUnlocks, WriteProjection
<1> QED BY <1>1, <1>2, <1>3, <1>4, <1>5, <1>6, <1>7, <1>8, <1>9 DEF Next

\* A read of the canonical view returns exactly what the view held at one instant of the
\* read, whatever other transactions commit between its pages.
THEOREM ReadIsOneSnapshot == Spec => []ReturnsOneSnapshot
<1>1. ReadInv => ReturnsOneSnapshot
  BY DEF ReadInv, Reads, ReturnsOneSnapshot
<1> QED BY ReadsInit, ReadsStep, <1>1, PTL DEF Spec

-----------------------------------------------------------------------------
(* The lock. *)

LEMMA LockInit == Init => HostType /\ \A p \in Proc : Locks(p)
<1> SUFFICES ASSUME Init PROVE HostType /\ \A p \in Proc : Locks(p)
  OBVIOUS
<1>1. HostType
  BY DEF Init, HostType, Phases, Working
<1>2. \A p \in Proc : Locks(p)
  BY DEF Init, ReaderInit, Locks, Working
<1> QED BY <1>1, <1>2

LEMMA FollowingCleanup ==
  ASSUME NEW p \in Proc
  PROVE  /\ Cleanups[1] = "pool"
         /\ phase[p] = "pool" => Following(p) = "state"
         /\ phase[p] = "state" => Following(p) = "lock"
         /\ phase[p] = "lock" => Following(p) = "exited"
<1>1. /\ DOMAIN Cleanups = 1..3 /\ Len(Cleanups) = 3
      /\ Cleanups[1] = "pool" /\ Cleanups[2] = "state" /\ Cleanups[3] = "lock"
  BY DEF Cleanups
<1>2. \A i \in DOMAIN Cleanups : i = 1 \/ i = 2 \/ i = 3
  BY <1>1
<1> HIDE DEF Cleanups
<1>3. ASSUME phase[p] = "pool" PROVE Following(p) = "state"
  <2>1. PICK k : k = CHOOSE i \in DOMAIN Cleanups : Cleanups[i] = phase[p]
    OBVIOUS
  <2>2. k = 1
    BY <1>1, <1>2, <1>3, <2>1
  <2>3. Following(p) = IF k = Len(Cleanups) THEN "exited" ELSE Cleanups[k + 1]
    BY <2>1 DEF Following
  <2> QED BY <1>1, <2>2, <2>3
<1>4. ASSUME phase[p] = "state" PROVE Following(p) = "lock"
  <2>1. PICK k : k = CHOOSE i \in DOMAIN Cleanups : Cleanups[i] = phase[p]
    OBVIOUS
  <2>2. k = 2
    BY <1>1, <1>2, <1>4, <2>1
  <2>3. Following(p) = IF k = Len(Cleanups) THEN "exited" ELSE Cleanups[k + 1]
    BY <2>1 DEF Following
  <2> QED BY <1>1, <2>2, <2>3
<1>5. ASSUME phase[p] = "lock" PROVE Following(p) = "exited"
  <2>1. PICK k : k = CHOOSE i \in DOMAIN Cleanups : Cleanups[i] = phase[p]
    OBVIOUS
  <2>2. k = 3
    BY <1>1, <1>2, <1>5, <2>1
  <2>3. Following(p) = IF k = Len(Cleanups) THEN "exited" ELSE Cleanups[k + 1]
    BY <2>1 DEF Following
  <2> QED BY <1>1, <2>2, <2>3
<1> QED BY <1>1, <1>3, <1>4, <1>5

\* A lock names one process, whether or not its file is written.
LEMMA LockNames ==
  ASSUME HostType, NEW p \in Proc
  PROVE  \A w \in BOOLEAN :
           LET mine == [owner |-> <<p, run[p]>>, written |-> w] IN
           /\ mine \in [owner : Proc \X Nat, written : BOOLEAN]
           /\ mine # None
           /\ mine.owner[1] = p /\ mine.owner[2] = run[p] /\ mine.written = w
<1> SUFFICES ASSUME NEW w \in BOOLEAN
             PROVE  LET mine == [owner |-> <<p, run[p]>>, written |-> w] IN
                    /\ mine \in [owner : Proc \X Nat, written : BOOLEAN]
                    /\ mine # None
                    /\ mine.owner[1] = p /\ mine.owner[2] = run[p] /\ mine.written = w
  OBVIOUS
<1>1. <<p, run[p]>> \in Proc \X Nat
  BY DEF HostType
<1>2. [owner |-> <<p, run[p]>>, written |-> w] \in [owner : Proc \X Nat, written : BOOLEAN]
  BY <1>1
<1> QED BY <1>2, HostAssumption

\* A process keeps what it is shown to hold while neither it nor the lock moves; it may
\* lose its resources; and a lock that becomes another's was not its own.
LEMMA LocksStay ==
  ASSUME HostType, NEW q \in Proc, Locks(q),
         phase'[q] = phase[q], run'[q] = run[q], lockFailed'[q] = lockFailed[q],
         poolOpen'[q] => poolOpen[q], stateOpen'[q] => stateOpen[q],
         connection'[q] # "none" => connection[q] # "none",
         lock' # lock => /\ lock' = None \/ lock'.owner[1] # q
                         /\ lock # Mine(q)
                         /\ lock # Unwritten(q)
  PROVE  Locks(q)'
<1>1. Mine(q)' = Mine(q) /\ Unwritten(q)' = Unwritten(q)
  BY DEF Mine, Unwritten
<1>2. /\ Mine(q) # None /\ Mine(q).owner[1] = q
      /\ Unwritten(q) # None /\ Unwritten(q).owner[1] = q
  BY LockNames DEF Mine, Unwritten
<1> HIDE DEF Mine, Unwritten
<1>3. CASE lock' = lock
  BY <1>1, <1>3 DEF Locks
<1>4. CASE lock' # lock
  <2>1. lock' # Mine(q) /\ lock' # Unwritten(q)
    BY <1>2, <1>4
  <2>2. lock' # None => lock'.owner[1] # q
    BY <1>4
  <2> QED BY <1>1, <1>4, <2>1, <2>2 DEF Locks
<1> QED BY <1>3, <1>4

\* A step of the reader of p leaves the host as it is, and connects in its read only.
LEMMA LocksRead ==
  ASSUME LockInv, UNCHANGED hostVars, NEW p \in Proc,
         connection'[p] # "none" => connection[p] # "none" \/ phase[p] = "canonical",
         \A q \in Proc \ {p} : connection'[q] = connection[q]
  PROVE  HostType' /\ \A q \in Proc : Locks(q)'
<1>1. HostType'
  BY DEF LockInv, HostType, hostVars
<1>2. ASSUME NEW q \in Proc PROVE Locks(q)'
  <2>1. CASE connection'[q] # "none" => connection[q] # "none"
    BY <2>1, LocksStay DEF LockInv, hostVars
  <2>2. CASE q = p /\ phase[p] = "canonical"
    BY <2>2 DEF LockInv, Locks, Mine, hostVars, Working
  <2> QED BY <2>1, <2>2
<1> QED BY <1>1, <1>2

LEMMA LocksStep ==
  ASSUME LockInv, Next
  PROVE  HostType' /\ \A q \in Proc : Locks(q)'
<1> USE DEF Goto, Throw, Working
<1>t. HostType /\ ReaderType /\ \A q \in Proc : Locks(q)
  BY DEF LockInv
<1>0. \A p \in Proc : Cleanups[1] = "pool" /\ p \in DOMAIN phase
  BY <1>t, FollowingCleanup DEF HostType
<1>1. ASSUME NEW p \in Proc, Start(p) PROVE HostType' /\ \A q \in Proc : Locks(q)'
  <2>1. HostType'
    BY <1>1, <1>t DEF Start, HostType, Phases
  <2>2. ASSUME NEW q \in Proc PROVE Locks(q)'
    <3>1. CASE q = p
      <4>1. /\ phase'[q] = "locking" /\ run'[q] = run[q] + 1 /\ run[q] \in Nat
            /\ UNCHANGED <<lock, connection, poolOpen, stateOpen>>
        BY <1>1, <1>t, <3>1 DEF Start, HostType, readerVars
      <4>2. ~poolOpen[q] /\ ~stateOpen[q] /\ connection[q] = "none"
        BY <1>1, <1>t, <3>1 DEF Start, Exited, Locks
      <4>3. lock # Unwritten(q)'
        <5> SUFFICES ASSUME lock = Unwritten(q)' PROVE FALSE
          OBVIOUS
        <5>1. lock.owner[1] = q /\ lock.owner[2] = run[q] + 1
          BY <4>1 DEF Unwritten
        <5>2. lock # None
          <6>1. <<q, run'[q]>> \in Proc \X Nat
            BY <4>1
          <6>2. lock = [owner |-> <<q, run'[q]>>, written |-> FALSE]
            BY DEF Unwritten
          <6>3. lock \in [owner : Proc \X Nat, written : BOOLEAN]
            BY <6>1, <6>2
          <6> QED BY <6>3, HostAssumption
        <5> QED BY <1>t, <4>1, <5>1, <5>2 DEF Locks
      <4>4. lock # None /\ lock.owner[1] = q => lock.owner[2] \in Nat
        BY <1>t DEF HostType
      <4>5. lock # None /\ lock.owner[1] = q => lock.owner[2] <= run[q] + 1
        BY <1>t, <4>1, <4>4 DEF Locks
      <4> QED BY <4>1, <4>2, <4>3, <4>5 DEF Locks
    <3>2. CASE q # p
      BY <1>1, <1>t, <3>2, LocksStay DEF Start, HostType, readerVars
    <3> QED BY <3>1, <3>2
  <2> QED BY <2>1, <2>2
<1>2. ASSUME NEW p \in Proc, Lock(p) PROVE HostType' /\ \A q \in Proc : Locks(q)'
  <2>1. HostType'
    <3>1. [owner |-> <<p, run[p]>>, written |-> FALSE] \in [owner : Proc \X Nat, written : BOOLEAN]
      BY <1>t, LockNames
    <3> QED BY <1>0, <1>2, <1>t, <3>1 DEF Lock, LockAttempt, HostType, Phases
  <2>2. ASSUME NEW q \in Proc PROVE Locks(q)'
    <3>1. CASE q = p
      <4>1. /\ phase[q] = "locking"
            /\ UNCHANGED <<connection, run, poolOpen, stateOpen, lockFailed>>
        BY <1>2, <3>1 DEF Lock, readerVars
      <4>2. \/ phase'[q] = "writing" /\ lock' = Unwritten(q)
            \/ phase'[q] = "pool" /\ lock' = lock
        BY <1>0, <1>2, <3>1 DEF Lock, LockAttempt, Unwritten
      <4>3. lock' = Unwritten(q) => lock'.owner[2] = run[q] /\ run[q] \in Nat
        BY <1>t DEF Unwritten, HostType
      <4>4. Unwritten(q)' = Unwritten(q)
        BY <4>1 DEF Unwritten
      <4> QED BY <1>t, <4>1, <4>2, <4>3, <4>4 DEF Locks
    <3>2. CASE q # p
      <4>1. /\ UNCHANGED <<connection, run, poolOpen, stateOpen, lockFailed>> /\ phase'[q] = phase[q]
            /\ lock' # lock => lock = None /\ lock' = [owner |-> <<p, run[p]>>, written |-> FALSE]
        BY <1>2, <1>t, <3>2 DEF Lock, LockAttempt, HostType, readerVars
      <4>2. None # Mine(q) /\ None # Unwritten(q)
        BY <1>t, <3>2, LockNames DEF Mine, Unwritten
      <4>3. lock' # lock => lock'.owner[1] # q
        BY <3>2, <4>1
      <4> QED BY <1>t, <4>1, <4>2, <4>3, LocksStay
    <3> QED BY <3>1, <3>2
  <2> QED BY <2>1, <2>2
<1>3. ASSUME NEW p \in Proc, WriteLock(p) PROVE HostType' /\ \A q \in Proc : Locks(q)'
  <2>0. /\ phase[p] = "writing" /\ lock = Unwritten(p)
        /\ UNCHANGED <<connection, run, poolOpen, stateOpen>>
    BY <1>3, <1>t DEF WriteLock, Locks, readerVars
  <2>1. HostType'
    <3>1. Mine(p) \in [owner : Proc \X Nat, written : BOOLEAN]
      BY <1>t, LockNames DEF Mine
    <3>2. lock' \in [owner : Proc \X Nat, written : BOOLEAN] \cup {None}
      BY <1>3, <1>t, <3>1 DEF WriteLock, HostType
    <3>3. lockFailed' \in [Proc -> BOOLEAN]
      <4>1. UNCHANGED lockFailed \/ lockFailed' = [lockFailed EXCEPT ![p] = TRUE]
        BY <1>3 DEF WriteLock
      <4> QED BY <1>t, <4>1 DEF HostType
    <3>5. phase' \in [Proc -> Phases]
      <4>1. \/ phase' = [phase EXCEPT ![p] = "composing"]
            \/ phase' = [phase EXCEPT ![p] = "pool"]
        BY <1>0, <1>3 DEF WriteLock
      <4> QED BY <1>t, <4>1 DEF HostType, Phases
    <3>4. UNCHANGED <<run, terminated, poolOpen, stateOpen>>
      BY <1>3 DEF WriteLock
    <3> QED BY <1>t, <3>2, <3>3, <3>4, <3>5 DEF HostType
  <2>2. ASSUME NEW q \in Proc PROVE Locks(q)'
    <3>1. CASE q = p
      <4>1. \/ lock' = Mine(q) /\ phase'[q] = "composing"
            \/ lock' \in {lock, Mine(q)} /\ phase'[q] = "pool" /\ lockFailed'[q]
        BY <1>0, <1>3, <1>t, <3>1 DEF WriteLock, HostType
      <4>2. ~poolOpen[q] /\ ~stateOpen[q] /\ connection[q] = "none"
        BY <1>t, <2>0, <3>1 DEF Locks
      <4>3. Mine(q)' = Mine(q) /\ Unwritten(q)' = Unwritten(q)
        BY <2>0 DEF Mine, Unwritten
      <4>4. lock'.owner[2] = run[q] /\ run[q] \in Nat
        BY <1>t, <2>0, <3>1, <4>1 DEF Mine, Unwritten, HostType
      <4> QED BY <2>0, <4>1, <4>2, <4>3, <4>4 DEF Locks
    <3>2. CASE q # p
      <4>1. lock # Mine(q) /\ lock # Unwritten(q)
        BY <1>t, <2>0, <3>2, LockNames DEF Mine, Unwritten
      <4>2. phase'[q] = phase[q] /\ lockFailed'[q] = lockFailed[q]
        BY <1>0, <1>3, <1>t, <3>2 DEF WriteLock, HostType
      <4>3. lock'.owner[1] = p
        BY <1>3, <2>0 DEF WriteLock, Mine, Unwritten
      <4> QED BY <1>t, <2>0, <3>2, <4>1, <4>2, <4>3, LocksStay
    <3> QED BY <3>1, <3>2
  <2> QED BY <2>1, <2>2
<1>4. ASSUME NEW p \in Proc, Compose(p) \/ Prepare(p) \/ BeginRun(p) \/ Match(p) \/ CloseState(p)
      PROVE  HostType' /\ \A q \in Proc : Locks(q)'
  <2>0. UNCHANGED <<connection, lock, run, lockFailed>>
    BY <1>4 DEF Compose, Prepare, BeginRun, Match, CloseState, Drop, readerVars
  <2>1. HostType'
    BY <1>0, <1>4, <1>t, FollowingCleanup
    DEF Compose, Prepare, BeginRun, Match, CloseState, CleanupEnds, HostType, Phases
  <2>2. ASSUME NEW q \in Proc PROVE Locks(q)'
    <3>1. CASE q = p
      BY <1>0, <1>4, <1>t, <2>0, <3>1, FollowingCleanup
      DEF Compose, Prepare, BeginRun, Match, CloseState, CleanupEnds, Locks, Mine, Unwritten, HostType
    <3>2. CASE q # p
      BY <1>0, <1>4, <1>t, <2>0, <3>2, LocksStay
      DEF Compose, Prepare, BeginRun, Match, CloseState, CleanupEnds, HostType
    <3> QED BY <3>1, <3>2
  <2> QED BY <2>1, <2>2
<1>5. ASSUME NEW p \in Proc, Project(p) \/ (Canonical(p) /\ ~ ReadSteps(p))
      PROVE  HostType' /\ \A q \in Proc : Locks(q)'
  <2>0. UNCHANGED <<connection, lock, run, poolOpen, stateOpen, lockFailed>>
    BY <1>5 DEF Project, Canonical, BeginRead, Drop, readerVars
  <2>1. HostType'
    BY <1>0, <1>5, <1>t DEF Project, Canonical, HostType, Phases
  <2>2. ASSUME NEW q \in Proc PROVE Locks(q)'
    <3>1. CASE q = p
      BY <1>0, <1>5, <1>t, <2>0, <3>1 DEF Project, Canonical, Locks, Mine, Unwritten, HostType
    <3>2. CASE q # p
      BY <1>0, <1>5, <1>t, <2>0, <3>2, LocksStay DEF Project, Canonical, HostType
    <3> QED BY <3>1, <3>2
  <2> QED BY <2>1, <2>2
<1>6. ASSUME NEW p \in Proc, Canonical(p) /\ ReadSteps(p)
      PROVE  HostType' /\ \A q \in Proc : Locks(q)'
  <2>1. phase[p] = "canonical"
    BY <1>6 DEF Canonical
  <2>2. \A q \in Proc \ {p} : connection'[q] = connection[q]
    BY <1>6, <1>t
    DEF ReadSteps, Connect, Leased, ConnectFails, Begin, Attest, Page, Finish, ReadFails, Unwind,
        Connection, ReaderType
  <2>3. UNCHANGED <<lock, projection, writes, run, terminated, poolOpen, stateOpen, lockFailed,
                    kills>>
    BY <1>6 DEF Canonical
  <2>4. CASE UNCHANGED phase
    BY <2>1, <2>2, <2>3, <2>4, LocksRead DEF hostVars
  <2>5. CASE phase' # phase
    <3>1. stage[p] \in {"returned", "failed"}
      BY <1>6, <2>5 DEF Canonical
    <3> QED
      BY <1>6, <3>1
      DEF ReadSteps, Connect, ConnectFails, Begin, Attest, Page, Finish, ReadFails, Unwind
  <2> QED BY <2>4, <2>5
<1>7. ASSUME NEW p \in Proc, ClosePool(p) PROVE HostType' /\ \A q \in Proc : Locks(q)'
  <2>1. HostType'
    BY <1>7, <1>t, FollowingCleanup DEF ClosePool, CleanupEnds, HostType, Phases
  <2>2. ASSUME NEW q \in Proc PROVE Locks(q)'
    <3>1. CASE q = p
      BY <1>7, <1>t, <3>1, FollowingCleanup
      DEF ClosePool, CleanupEnds, Locks, Mine, Unwritten, HostType, ReaderType
    <3>2. CASE q # p
      BY <1>7, <1>t, <3>2, LocksStay DEF ClosePool, CleanupEnds, HostType, ReaderType
    <3> QED BY <3>1, <3>2
  <2> QED BY <2>1, <2>2
<1>8. ASSUME NEW p \in Proc, ReleaseLock(p) PROVE HostType' /\ \A q \in Proc : Locks(q)'
  <2>0. /\ phase[p] = "lock" /\ UNCHANGED <<connection, run, poolOpen, stateOpen>>
        /\ \/ /\ lock = Mine(p) /\ ~lockFailed[p] /\ lock' = None
              /\ UNCHANGED lockFailed
           \/ /\ lock # Mine(p) \/ lockFailed[p]
              /\ UNCHANGED <<lock, lockFailed>>
           \/ UNCHANGED lock /\ lockFailed' = [lockFailed EXCEPT ![p] = TRUE]
    BY <1>8 DEF ReleaseLock
  <2>1. HostType'
    BY <1>8, <1>t, <2>0, FollowingCleanup DEF ReleaseLock, CleanupEnds, HostType, Phases
  <2>2. ASSUME NEW q \in Proc PROVE Locks(q)'
    <3>0. Mine(q)' = Mine(q) /\ Unwritten(q)' = Unwritten(q)
      BY <2>0 DEF Mine, Unwritten
    <3>1. CASE q = p
      <4>1. phase'[q] = "exited"
        BY <1>8, <1>t, <3>1, FollowingCleanup DEF ReleaseLock, CleanupEnds, HostType
      <4>2. ~poolOpen[q] /\ ~stateOpen[q] /\ connection[q] = "none"
        BY <1>t, <2>0, <3>1 DEF Locks
      <4>3. None # Mine(q) /\ None # Unwritten(q)
        BY <1>t, LockNames DEF Mine, Unwritten
      <4>4. lockFailed[q] => lockFailed'[q]
        BY <1>t, <2>0 DEF HostType
      <4>5. ~lockFailed'[q] => lock' # Mine(q) /\ lock' # Unwritten(q)
        BY <1>t, <2>0, <3>1, <4>3, <4>4 DEF HostType, Locks
      <4>6. lock' # None => lock' = lock
        BY <2>0
      <4>7. lock' # None /\ lock'.owner[1] = q => lock'.owner[2] <= run'[q]
        BY <1>t, <2>0, <4>6 DEF Locks
      <4> QED BY <2>0, <3>0, <4>1, <4>2, <4>5, <4>7 DEF Locks
    <3>2. CASE q # p
      <4>1. phase'[q] = phase[q] /\ lockFailed'[q] = lockFailed[q]
        BY <1>8, <1>t, <2>0, <3>2 DEF ReleaseLock, CleanupEnds, HostType
      <4>2. Mine(p) # Mine(q) /\ Mine(p) # Unwritten(q)
        BY <1>t, <3>2, LockNames DEF Mine, Unwritten
      <4> QED BY <1>t, <2>0, <4>1, <4>2, LocksStay
    <3> QED BY <3>1, <3>2
  <2> QED BY <2>1, <2>2
<1>9. ASSUME NEW p \in Proc, StageDeadline(p) PROVE HostType' /\ \A q \in Proc : Locks(q)'
  <2>1. phase[p] = "canonical" /\ UNCHANGED hostVars
    BY <1>9 DEF StageDeadline
  <2>2. \A q \in Proc \ {p} : connection'[q] = connection[q]
    BY <1>9, <1>t DEF StageDeadline, Abort, Connection, ReaderType
  <2> QED BY <2>1, <2>2, LocksRead
<1>10. ASSUME NEW p \in Proc, Terminate(p) PROVE HostType' /\ \A q \in Proc : Locks(q)'
  <2>1. HostType'
    BY <1>10, <1>t DEF Terminate, HostType
  <2>2. \A q \in Proc : connection'[q] # "none" => connection[q] # "none"
    BY <1>10, <1>t DEF Terminate, Abort, Connection, ReaderType, readerVars
  <2>3. UNCHANGED <<lock, phase, run, poolOpen, stateOpen, lockFailed>>
    BY <1>10 DEF Terminate
  <2> QED BY <1>t, <2>1, <2>2, <2>3, LocksStay
<1>11. ASSUME NEW p \in Proc, Kill(p) PROVE HostType' /\ \A q \in Proc : Locks(q)'
  <2>1. HostType'
    BY <1>11, <1>t DEF Kill, HostType, Phases
  <2>2. ASSUME NEW q \in Proc PROVE Locks(q)'
    <3>1. CASE q = p
      BY <1>11, <1>t, <3>1 DEF Kill, Locks, HostType, ReaderType
    <3>2. CASE q # p
      BY <1>11, <1>t, <3>2, LocksStay DEF Kill, HostType, ReaderType
    <3> QED BY <3>1, <3>2
  <2> QED BY <2>1, <2>2
<1>12. ASSUME NEW p \in Proc, IdleClosed(p), UNCHANGED hostVars
       PROVE  HostType' /\ \A q \in Proc : Locks(q)'
  <2>1. \A q \in Proc : connection'[q] # "none" => connection[q] # "none"
    BY <1>12, <1>t DEF IdleClosed, Connection, ReaderType
  <2>2. \A q \in Proc \ {p} : connection'[q] = connection[q]
    BY <1>12, <1>t DEF IdleClosed, Connection, ReaderType
  <2> QED BY <1>12, <2>1, <2>2, LocksRead
<1>13. CASE (Commit /\ UNCHANGED hostVars) \/ WriteProjection
  <2>1. UNCHANGED <<connection, lock, phase, run, terminated, poolOpen, stateOpen, lockFailed>>
    BY <1>13 DEF Commit, WriteProjection, hostVars, readerVars
  <2>2. HostType'
    BY <1>t, <2>1 DEF HostType
  <2> QED BY <1>t, <2>1, <2>2, LocksStay
<1>14. CASE OperatorUnlocks
  <2>1. UNCHANGED <<connection, phase, run, terminated, poolOpen, stateOpen, lockFailed>> /\ lock' = None
    BY <1>14 DEF OperatorUnlocks, readerVars
  <2>2. HostType'
    BY <1>t, <2>1 DEF HostType
  <2>3. ASSUME NEW q \in Proc PROVE Locks(q)'
    <3>1. /\ None # Mine(q) /\ None # Unwritten(q)
          /\ Mine(q)' = Mine(q) /\ Unwritten(q)' = Unwritten(q)
      BY <1>t, <2>1, LockNames DEF Mine, Unwritten
    <3>2. CASE lock # Mine(q) /\ lock # Unwritten(q)
      BY <1>t, <2>1, <3>1, <3>2, LocksStay
    <3>3. CASE lock = Mine(q) \/ lock = Unwritten(q)
      <4>1. lock.owner[1] = q /\ lock.owner[2] = run[q]
        BY <3>3 DEF Mine, Unwritten
      <4>2. Exited(q)
        BY <1>14, <4>1 DEF OperatorUnlocks
      <4> QED BY <1>t, <2>1, <3>1, <4>2 DEF Exited, Locks
    <3> QED BY <3>2, <3>3
  <2> QED BY <2>2, <2>3
<1> QED
  BY <1>1, <1>2, <1>3, <1>4, <1>5, <1>6, <1>7, <1>8, <1>9, <1>10, <1>11, <1>12, <1>13, <1>14
  DEF Next, ProcStep

\* No process reads a manifest, nor has a pool, a store or a connection open, unless the
\* lock file names it; and one that exits by itself has released the lock, unless the
\* lock file itself could not be written or released.
THEOREM LockIsHeld == Spec => []LockCoversRun
<1>1. Init => LockInv
  BY LockInit, ReadsInit DEF LockInv, ReadInv
<1>2. LockInv /\ ReadInv /\ ReadInv' /\ [Next]_vars => LockInv'
  <2> SUFFICES ASSUME LockInv, ReadInv', [Next]_vars PROVE LockInv'
    OBVIOUS
  <2>1. CASE Next
    BY <2>1, LocksStep DEF LockInv, ReadInv
  <2>2. CASE UNCHANGED vars
    <3>1. UNCHANGED hostVars /\ UNCHANGED connection
      BY <2>2 DEF vars, readerVars
    <3>2. HostType'
      BY <3>1 DEF LockInv, HostType, hostVars
    <3>3. ASSUME NEW q \in Proc PROVE Locks(q)'
      BY <3>1, LocksStay DEF LockInv, hostVars
    <3> QED BY <3>2, <3>3 DEF LockInv, ReadInv
  <2> QED BY <2>1, <2>2
<1>3. LockInv => LockCoversRun
  <2> SUFFICES ASSUME LockInv, NEW p \in Proc
               PROVE  /\ UsesHost(p) => lock = Mine(p)
                      /\ phase[p] = "exited" /\ lock # None =>
                           lockFailed[p] \/ lock.owner # <<p, run[p]>>
    BY DEF LockCoversRun
  <2>1. UsesHost(p) => lock = Mine(p)
    BY DEF LockInv, Locks, UsesHost
  <2>2. ASSUME phase[p] = "exited", lock # None, ~lockFailed[p], lock.owner = <<p, run[p]>>
        PROVE  FALSE
    <3>1. lock = [owner |-> lock.owner, written |-> lock.written] /\ lock.written \in BOOLEAN
      BY <2>2 DEF LockInv, HostType
    <3>2. lock = Mine(p) \/ lock = Unwritten(p)
      BY <2>2, <3>1 DEF Mine, Unwritten
    <3> QED BY <2>2, <3>2 DEF LockInv, Locks
  <2> QED BY <2>1, <2>2
<1> QED BY ReadsInit, ReadsStep, <1>1, <1>2, <1>3, PTL DEF Spec
-----------------------------------------------------------------------------
(* The matcher's prefetch. *)

Ends(S) == (\E x \in S : \A y \in S : x <= y) /\ (\E x \in S : \A y \in S : x >= y)

\* A finite set of numbers has ends: those of the set without some member, or that member.
LEMMA EndsExist ==
  ASSUME NEW S \in SUBSET Int, IsFiniteSet(S), S # {}
  PROVE  Ends(S)
<1> DEFINE Endless == {T \in SUBSET S : T # {} /\ ~Ends(T)}
<1>1. Endless = {}
  <2> SUFFICES ASSUME Endless # {} PROVE FALSE
    OBVIOUS
  <2>1. FiniteSubsetsOf(S) = SUBSET S
    BY FS_FiniteSubsetsOfFinite
  <2>2. PICK T \in Endless : \A U \in Endless : <<U, T>> \notin StrictSubsetOrdering(S)
    <3>1. IsWellFoundedOn(StrictSubsetOrdering(S), SUBSET S)
      BY <2>1, FS_StrictSubsetOrderingWellFounded
    <3>2. Endless \subseteq SUBSET S
      OBVIOUS
    <3> HIDE DEF Endless
    <3> QED BY <3>1, <3>2, WFMin
  <2>3. PICK x \in T : TRUE
    OBVIOUS
  <2>4. PICK U : U = T \ {x}
    OBVIOUS
  <2>5. U \notin Endless
    <3>1. U \in SUBSET S /\ T \in SUBSET S /\ U \subseteq T /\ U # T
      BY <2>3, <2>4
    <3>2. <<U, T>> \in StrictSubsetOrdering(S)
      BY <3>1 DEF StrictSubsetOrdering
    <3> QED BY <2>2, <3>2
  <2>6. T \subseteq Int /\ x \in Int /\ T = U \cup {x} /\ ~Ends(T)
    BY <2>3, <2>4
  <2>7. CASE U = {}
    BY <2>6, <2>7 DEF Ends
  <2>8. CASE U # {}
    <3>1. Ends(U)
      BY <2>4, <2>5, <2>8
    <3>2. PICK low \in U : \A y \in U : low <= y
      BY <3>1 DEF Ends
    <3>3. PICK high \in U : \A y \in U : high >= y
      BY <3>1 DEF Ends
    <3>4. \E z \in T : \A y \in T : z <= y
      <4>1. CASE x <= low
        BY <2>6, <3>2, <4>1
      <4>2. CASE ~(x <= low)
        BY <2>6, <3>2, <4>2
      <4> QED BY <4>1, <4>2
    <3>5. \E z \in T : \A y \in T : z >= y
      <4>1. CASE x >= high
        BY <2>6, <3>3, <4>1
      <4>2. CASE ~(x >= high)
        BY <2>6, <3>3, <4>2
      <4> QED BY <4>1, <4>2
    <3> QED BY <2>6, <3>4, <3>5 DEF Ends
  <2> QED BY <2>7, <2>8
<1> QED BY <1>1

\* A number that is less than a tile's width away from a number of a tile is in that tile
\* or in one beside it.
LEMMA TilesBeside ==
  ASSUME NEW x \in Int, NEW y \in Int, NEW z \in Int, NEW pad \in Nat, pad < Tile,
         y \div Tile = z \div Tile, y - pad <= x, x <= z + pad
  PROVE  (y \div Tile) - (x \div Tile) \in -1..1
<1>1. Tile \in Nat \ {0}
  BY MatcherAssumption
<1>2. PICK w \in Nat \ {0} : w = Tile
  BY <1>1
<1>3. PICK p \in Int : p = y \div w /\ w * p <= y /\ y < w * p + w /\ z < w * p + w
  BY <1>2
<1>4. PICK q \in Int : q = x \div w /\ w * q <= x /\ x < w * q + w
  BY <1>2
<1>5. w * q < w * p + 2 * w /\ w * p < w * q + 2 * w
  BY <1>2, <1>3, <1>4
<1>6. q < p + 2
  BY <1>5
<1>7. p < q + 2
  BY <1>5
<1> QED BY <1>2, <1>3, <1>4, <1>6, <1>7

\* The values of a function on a finite set are finitely many.
LEMMA FiniteImage ==
  ASSUME NEW S, IsFiniteSet(S), NEW f, DOMAIN f = S
  PROVE  IsFiniteSet({f[x] : x \in S})
<1> DEFINE T == {f[x] : x \in S}
<1>1. PICK g \in [S -> T] : \A x \in S : g[x] = f[x]
  <2>1. [x \in S |-> f[x]] \in [S -> T]
    OBVIOUS
  <2> QED BY <2>1
<1>2. g \in Surjection(S, T)
  BY <1>1 DEF Surjection
<1> QED BY <1>2, FS_Surjection

\* The box of a tile is around candidates of that tile, padded by less than a tile.
LEMMA BoxIsOfTile ==
  ASSUME TypedInput(input), NEW b \in Boxes(input.candidates)
  PROVE  \E p, q, u, v \in Int \X Int : \E pad \in Nat :
           /\ TileOf(p) = b.tile /\ TileOf(q) = b.tile /\ TileOf(u) = b.tile /\ TileOf(v) = b.tile
           /\ pad < Tile
           /\ b.minLat = p[1] - LatPad /\ b.maxLat = q[1] + LatPad
           /\ b.minLng = u[2] - pad /\ b.maxLng = v[2] + pad
<1> DEFINE positions == {c.pos : c \in Matchable(input.candidates)}
<1>1. PICK t \in {TileOf(p) : p \in positions} : b = Box(t, {p \in positions : TileOf(p) = t})
  BY DEF Boxes
<1>2. PICK S : S = {p \in positions : TileOf(p) = t}
  OBVIOUS
<1>3. S # {} /\ S \subseteq Int \X Int /\ \A p \in S : TileOf(p) = t
  BY <1>1, <1>2 DEF TypedInput
<1>4. IsFiniteSet(S)
  <2>1. Matchable(input.candidates) \subseteq input.candidates
    BY DEF Matchable
  <2>2. IsFiniteSet(Matchable(input.candidates))
    BY <2>1, FS_Subset DEF TypedInput
  <2>3. PICK f : f = [c \in Matchable(input.candidates) |-> c.pos]
    OBVIOUS
  <2>4. positions = {f[c] : c \in Matchable(input.candidates)}
    BY <2>3
  <2>5. IsFiniteSet(positions)
    <3> HIDE DEF positions
    <3> QED BY <2>2, <2>3, <2>4, FiniteImage
  <2> QED BY <1>2, <2>5, FS_Subset
<1>5. \A p, q \in S : p[1] + q[1] \in DOMAIN LngPad
  BY <1>2 DEF TypedInput
<1> HIDE DEF positions
<1>6. PICK lats : lats = {p[1] : p \in S}
  OBVIOUS
<1>7. PICK lngs : lngs = {p[2] : p \in S}
  OBVIOUS
<1>8. Ends(lats)
  <2>1. IsFiniteSet(lats)
    <3>1. PICK f : f = [p \in S |-> p[1]]
      OBVIOUS
    <3>2. lats = {f[p] : p \in S}
      BY <1>6, <3>1
    <3> QED BY <1>4, <3>1, <3>2, FiniteImage
  <2>2. lats \in SUBSET Int /\ lats # {}
    BY <1>3, <1>6
  <2> QED BY <2>1, <2>2, EndsExist
<1>9. Ends(lngs)
  <2>1. IsFiniteSet(lngs)
    <3>1. PICK f : f = [p \in S |-> p[2]]
      OBVIOUS
    <3>2. lngs = {f[p] : p \in S}
      BY <1>7, <3>1
    <3> QED BY <1>4, <3>1, <3>2, FiniteImage
  <2>2. lngs \in SUBSET Int /\ lngs # {}
    BY <1>3, <1>7
  <2> QED BY <2>1, <2>2, EndsExist
<1>10. Lowest(lats) \in lats /\ Highest(lats) \in lats
  BY <1>8 DEF Ends, Lowest, Highest
<1>11. Lowest(lngs) \in lngs /\ Highest(lngs) \in lngs
  BY <1>9 DEF Ends, Lowest, Highest
<1>12. PICK p \in S : p[1] = Lowest(lats)
  BY <1>6, <1>10
<1>13. PICK q \in S : q[1] = Highest(lats)
  BY <1>6, <1>10
<1>14. PICK u \in S : u[2] = Lowest(lngs)
  BY <1>7, <1>11
<1>15. PICK v \in S : v[2] = Highest(lngs)
  BY <1>7, <1>11
<1>16. PICK pad \in Nat : pad = LngPad[Lowest(lats) + Highest(lats)] /\ pad < Tile
  BY <1>5, <1>12, <1>13, MatcherAssumption
<1>17. b = [tile |-> t,
            minLat |-> Lowest(lats) - LatPad, maxLat |-> Highest(lats) + LatPad,
            minLng |-> Lowest(lngs) - pad, maxLng |-> Highest(lngs) + pad]
  BY <1>1, <1>2, <1>6, <1>7, <1>16, Zenon DEF Box
<1>18. b.tile = t /\ b.minLat = p[1] - LatPad /\ b.maxLat = q[1] + LatPad
       /\ b.minLng = u[2] - pad /\ b.maxLng = v[2] + pad
  BY <1>12, <1>13, <1>14, <1>15, <1>17
<1> QED BY <1>3, <1>12, <1>13, <1>14, <1>15, <1>16, <1>18

\* Looking only at the boxes of a row's tile and its neighbours selects the rows that all
\* boxes select, wherever candidates, rows and the edges of tiles lie.
THEOREM PrefetchFindsAll ==
  ASSUME TypedInput(input)
  PROVE  PrefetchIsBoxScan
<1> SUFFICES ASSUME NEW r \in input.rows, NEW b \in Boxes(input.candidates), Inside(r.pos, b)
             PROVE  /\ b.tile[1] - TileOf(r.pos)[1] \in -1..1
                    /\ b.tile[2] - TileOf(r.pos)[2] \in -1..1
  BY DEF PrefetchIsBoxScan, Prefetched, BoxScan
<1>1. PICK p, q, u, v \in Int \X Int : \E pad \in Nat :
           /\ TileOf(p) = b.tile /\ TileOf(q) = b.tile /\ TileOf(u) = b.tile /\ TileOf(v) = b.tile
           /\ pad < Tile
           /\ b.minLat = p[1] - LatPad /\ b.maxLat = q[1] + LatPad
           /\ b.minLng = u[2] - pad /\ b.maxLng = v[2] + pad
  BY BoxIsOfTile
<1>2. PICK pad \in Nat :
           /\ TileOf(p) = b.tile /\ TileOf(q) = b.tile /\ TileOf(u) = b.tile /\ TileOf(v) = b.tile
           /\ pad < Tile
           /\ b.minLat = p[1] - LatPad /\ b.maxLat = q[1] + LatPad
           /\ b.minLng = u[2] - pad /\ b.maxLng = v[2] + pad
  BY <1>1
<1>3. r.pos \in Int \X Int /\ r.pos[1] \in Int /\ r.pos[2] \in Int
  BY DEF TypedInput
<1>4. p[1] \in Int /\ q[1] \in Int /\ u[2] \in Int /\ v[2] \in Int
  OBVIOUS
<1>5. LatPad \in Nat /\ LatPad < Tile
  BY MatcherAssumption
<1>6. p[1] - LatPad <= r.pos[1] /\ r.pos[1] <= q[1] + LatPad
      /\ u[2] - pad <= r.pos[2] /\ r.pos[2] <= v[2] + pad
  BY <1>2 DEF Inside
<1>7. b.tile[1] = p[1] \div Tile /\ b.tile[1] = q[1] \div Tile
      /\ b.tile[2] = u[2] \div Tile /\ b.tile[2] = v[2] \div Tile
  BY <1>2 DEF TileOf
<1>8. TileOf(r.pos)[1] = r.pos[1] \div Tile /\ TileOf(r.pos)[2] = r.pos[2] \div Tile
  BY DEF TileOf
<1>9. (p[1] \div Tile) - (r.pos[1] \div Tile) \in -1..1
  BY <1>3, <1>4, <1>5, <1>6, <1>7, TilesBeside
<1>10. (u[2] \div Tile) - (r.pos[2] \div Tile) \in -1..1
  BY <1>2, <1>3, <1>4, <1>6, <1>7, TilesBeside
<1> QED BY <1>7, <1>8, <1>9, <1>10

-----------------------------------------------------------------------------
(* The rows that compete to be the match of a candidate. *)

\* They are finitely many, each with an id of its own.
Competing(S) ==
  /\ S \subseteq Evaluation /\ IsFiniteSet(S)
  /\ \A m, n \in S : m.id = n.id => m = n

\* Some element of a finite set has the lowest value of a function, and some the highest.
LEMMA ExtremesExist ==
  ASSUME NEW S, IsFiniteSet(S), S # {}, NEW f \in [S -> Int]
  PROVE  /\ \E x \in S : \A y \in S : f[x] <= f[y]
         /\ \E x \in S : \A y \in S : f[x] >= f[y]
<1>1. PICK values : values = {f[x] : x \in S}
  OBVIOUS
<1>2. values \in SUBSET Int /\ values # {}
  BY <1>1
<1>3. IsFiniteSet(values)
  <2>1. DOMAIN f = S
    OBVIOUS
  <2> QED BY <1>1, <2>1, FiniteImage
<1>4. Ends(values)
  BY <1>2, <1>3, EndsExist
<1> QED BY <1>1, <1>4 DEF Ends

\* Rows at the same distance have an order by their ids.
LEMMA NearestExists ==
  ASSUME NEW S, Competing(S), S # {}
  PROVE  \E m \in S : \A n \in S \ {m} : Nearer(m, n)
<1>1. PICK f : f = [m \in S |-> m.distance]
  OBVIOUS
<1>2. f \in [S -> Int] /\ IsFiniteSet(S)
  BY <1>1 DEF Competing, Evaluation
<1>3. PICK d \in S : \A n \in S : d.distance <= n.distance
  BY <1>1, <1>2, ExtremesExist
<1>4. PICK T : T = {m \in S : m.distance = d.distance}
  OBVIOUS
<1>5. T # {} /\ T \in SUBSET S
  BY <1>3, <1>4
<1>6. IsFiniteSet(T)
  BY <1>2, <1>5, FS_Subset
<1>7. PICK g : g = [m \in T |-> m.id]
  OBVIOUS
<1>8. g \in [T -> Int]
  BY <1>5, <1>7 DEF Competing, Evaluation
<1>9. PICK m \in T : \A n \in T : m.id <= n.id
  BY <1>5, <1>6, <1>7, <1>8, ExtremesExist
<1>10. ASSUME NEW n \in S \ {m} PROVE Nearer(m, n)
  <2>1. m \in S /\ m.distance = d.distance /\ d.distance <= n.distance
    BY <1>3, <1>4, <1>9
  <2>2. m.id # n.id
    BY <1>10, <2>1 DEF Competing
  <2>3. m.distance \in Nat /\ n.distance \in Nat /\ m.id \in Int /\ n.id \in Int
    BY <1>10, <2>1 DEF Competing, Evaluation
  <2>4. CASE n \in T
    BY <1>4, <1>9, <2>1, <2>2, <2>3, <2>4 DEF Nearer
  <2>5. CASE n \notin T
    BY <1>4, <1>10, <2>1, <2>3, <2>5 DEF Nearer
  <2> QED BY <2>4, <2>5
<1> QED BY <1>5, <1>9, <1>10

LEMMA FarthestExists ==
  ASSUME NEW S, Competing(S), S # {}
  PROVE  \E m \in S : \A n \in S \ {m} : Nearer(n, m)
<1>1. PICK f : f = [m \in S |-> m.distance]
  OBVIOUS
<1>2. f \in [S -> Int] /\ IsFiniteSet(S)
  BY <1>1 DEF Competing, Evaluation
<1>3. PICK d \in S : \A n \in S : d.distance >= n.distance
  BY <1>1, <1>2, ExtremesExist
<1>4. PICK T : T = {m \in S : m.distance = d.distance}
  OBVIOUS
<1>5. T # {} /\ T \in SUBSET S
  BY <1>3, <1>4
<1>6. IsFiniteSet(T)
  BY <1>2, <1>5, FS_Subset
<1>7. PICK g : g = [m \in T |-> m.id]
  OBVIOUS
<1>8. g \in [T -> Int]
  BY <1>5, <1>7 DEF Competing, Evaluation
<1>9. PICK m \in T : \A n \in T : m.id >= n.id
  BY <1>5, <1>6, <1>7, <1>8, ExtremesExist
<1>10. ASSUME NEW n \in S \ {m} PROVE Nearer(n, m)
  <2>1. m \in S /\ m.distance = d.distance /\ d.distance >= n.distance
    BY <1>3, <1>4, <1>9
  <2>2. m.id # n.id
    BY <1>10, <2>1 DEF Competing
  <2>3. m.distance \in Nat /\ n.distance \in Nat /\ m.id \in Int /\ n.id \in Int
    BY <1>10, <2>1 DEF Competing, Evaluation
  <2>4. CASE n \in T
    BY <1>4, <1>9, <2>1, <2>2, <2>3, <2>4 DEF Nearer
  <2>5. CASE n \notin T
    BY <1>4, <1>10, <2>1, <2>3, <2>5 DEF Nearer
  <2> QED BY <2>4, <2>5
<1> QED BY <1>5, <1>9, <1>10

\* Of the rows with a method, or of all if none has one, those of the highest score, and of
\* them the nearest.
LEMMA BestExists ==
  ASSUME NEW S, Competing(S), S # {}
  PROVE  \E m \in S : \A n \in S \ {m} : Better(m, n)
<1>1. PICK G : G = IF \E m \in S : Good(m) THEN {m \in S : Good(m)} ELSE S
  OBVIOUS
<1>2. G # {} /\ G \in SUBSET S
  BY <1>1
<1>3. \A m \in G, n \in S : (Good(m) /\ ~Good(n)) \/ ((Good(m) <=> Good(n)) /\ n \in G)
  BY <1>1
<1>4. IsFiniteSet(G)
  BY <1>2, FS_Subset DEF Competing
<1>5. PICK f : f = [m \in G |-> m.score]
  OBVIOUS
<1>6. f \in [G -> Int]
  BY <1>2, <1>5 DEF Competing, Evaluation
<1>7. PICK s \in G : \A n \in G : s.score >= n.score
  BY <1>2, <1>4, <1>5, <1>6, ExtremesExist
<1>8. PICK T : T = {m \in G : m.score = s.score}
  OBVIOUS
<1>9. T # {} /\ T \in SUBSET S
  BY <1>2, <1>7, <1>8
<1>10. Competing(T)
  <2>1. IsFiniteSet(T)
    BY <1>9, FS_Subset DEF Competing
  <2> QED BY <1>9, <2>1 DEF Competing
<1>11. PICK m \in T : \A n \in T \ {m} : Nearer(m, n)
  BY <1>9, <1>10, NearestExists
<1>12. ASSUME NEW n \in S \ {m} PROVE Better(m, n)
  <2>1. m \in G /\ m.score = s.score
    BY <1>8, <1>11
  <2>2. CASE Good(m) /\ ~Good(n)
    BY <2>2 DEF Better
  <2>3. CASE (Good(m) <=> Good(n)) /\ n \in G
    <3>1. s.score >= n.score
      BY <1>7, <2>3
    <3>2. m.score > n.score \/ (m.score = n.score /\ Nearer(m, n))
      <4>1. m.score \in Nat /\ n.score \in Nat
        BY <1>9, <1>11, <1>12 DEF Competing, Evaluation
      <4>2. CASE n \in T
        BY <1>8, <1>11, <1>12, <2>1, <4>2
      <4>3. CASE n \notin T
        BY <1>8, <2>1, <2>3, <3>1, <4>1, <4>3
      <4> QED BY <4>2, <4>3
    <3> QED BY <2>3, <3>2 DEF Better
  <2> QED BY <1>3, <1>12, <2>1, <2>2, <2>3
<1> QED BY <1>9, <1>11, <1>12

\* Nearer orders the rows that compete.
LEMMA NearerOrders ==
  ASSUME NEW S, Competing(S)
  PROVE  /\ \A m \in S : ~Nearer(m, m)
         /\ \A m, n \in S : m # n => Nearer(m, n) \/ Nearer(n, m)
         /\ \A m, n, o \in S : Nearer(m, n) /\ Nearer(n, o) => Nearer(m, o)
<1>1. \A m \in S : m.distance \in Nat /\ m.id \in Int
  BY DEF Competing, Evaluation
<1>2. \A m, n \in S : m.id = n.id => m = n
  BY DEF Competing
<1> QED BY <1>1, <1>2 DEF Nearer

\* The rows with fewer than a limit of others before them are the first ones, as many as
\* the limit or all.
LEMMA FewAreFirst ==
  ASSUME NEW S, Competing(S),
         NEW F, F = {m \in S : Cardinality(Closer(m, S)) < NearbyLimit}
  PROVE  /\ Cardinality(S) < NearbyLimit => Cardinality(F) = Cardinality(S)
         /\ Cardinality(S) >= NearbyLimit => Cardinality(F) = NearbyLimit
         /\ \A m \in F, n \in S \ F : Nearer(m, n)
         /\ S # {} => F # {}
<1>1. /\ IsFiniteSet(S) /\ IsFiniteSet(F) /\ F \in SUBSET S
      /\ Cardinality(S) \in Nat /\ Cardinality(F) \in Nat /\ Cardinality(F) <= Cardinality(S)
  <2>1. IsFiniteSet(S) /\ F \in SUBSET S
    BY DEF Competing
  <2> QED BY <2>1, FS_Subset, FS_CardinalityType
<1>2. NearbyLimit \in Nat \ {0}
  BY MatcherAssumption
<1>3. \A m \in S : /\ Closer(m, S) \in SUBSET S /\ IsFiniteSet(Closer(m, S))
                   /\ Cardinality(Closer(m, S)) \in Nat
  <2>1. \A m \in S : Closer(m, S) \in SUBSET S
    BY DEF Closer
  <2> QED BY <1>1, <2>1, FS_Subset, FS_CardinalityType
<1>4. ASSUME NEW m \in F, NEW n \in S, Nearer(n, m) PROVE n \in F
  <2>1. Closer(n, S) \in SUBSET Closer(m, S)
    BY <1>1, <1>4, NearerOrders DEF Closer
  <2>2. Cardinality(Closer(n, S)) <= Cardinality(Closer(m, S))
    BY <1>1, <1>3, <2>1, FS_Subset
  <2>3. Cardinality(Closer(m, S)) < NearbyLimit /\ m \in S
    BY <1>4
  <2> QED BY <1>2, <1>3, <1>4, <2>2, <2>3
<1>5. ASSUME NEW m \in F, NEW n \in S \ F PROVE Nearer(m, n)
  BY <1>1, <1>4, <1>5, NearerOrders
<1>6. Cardinality(F) <= NearbyLimit
  <2>1. CASE F = {}
    BY <1>2, <2>1, FS_EmptySet
  <2>2. CASE F # {}
    <3>1. Competing(F)
      BY <1>1 DEF Competing
    <3>2. PICK x \in F : \A n \in F \ {x} : Nearer(n, x)
      BY <2>2, <3>1, FarthestExists
    <3>3. F \ {x} \in SUBSET Closer(x, S) /\ x \in S
      BY <1>1, <3>2 DEF Closer
    <3>4. Cardinality(F \ {x}) <= Cardinality(Closer(x, S))
      BY <1>3, <3>3, FS_Subset
    <3>5. Cardinality(F \ {x}) = Cardinality(F) - 1
      BY <1>1, <3>2, FS_RemoveElement
    <3>6. Cardinality(Closer(x, S)) < NearbyLimit
      BY <3>2
    <3> QED BY <1>1, <1>2, <1>3, <3>3, <3>4, <3>5, <3>6
  <2> QED BY <2>1, <2>2
<1>7. ASSUME F # S PROVE Cardinality(F) >= NearbyLimit
  <2>1. PICK rest : rest = S \ F
    OBVIOUS
  <2>2. rest # {} /\ rest \in SUBSET S
    BY <1>1, <1>7, <2>1
  <2>3. Competing(rest)
    BY <1>1, <2>2, FS_Subset DEF Competing
  <2>4. PICK y \in rest : \A n \in rest \ {y} : Nearer(y, n)
    BY <2>2, <2>3, NearestExists
  <2>5. Closer(y, S) \in SUBSET F
    BY <2>1, <2>2, <2>4, NearerOrders DEF Closer
  <2>6. Cardinality(Closer(y, S)) <= Cardinality(F)
    BY <1>1, <2>5, FS_Subset
  <2>7. ~(Cardinality(Closer(y, S)) < NearbyLimit) /\ y \in S
    BY <2>1, <2>4
  <2> QED BY <1>1, <1>2, <1>3, <2>6, <2>7
<1>8. S # {} => F # {}
  BY <1>2, <1>7, FS_EmptySet
<1> QED BY <1>1, <1>2, <1>5, <1>6, <1>7, <1>8

\* What is in reach of a candidate competes, with the method of its distance and score.
LEMMA ReachCompetes ==
  ASSUME TypedInput(input), NEW c \in Matchable(input.candidates),
         NEW prefetched \in SUBSET input.rows
  PROVE  /\ Competing(InReach(c, prefetched))
         /\ \A m \in InReach(c, prefetched) :
              m.distance <= 100 /\ m.method = Method(m.distance, m.score, m.same)
<1>1. PICK R : R = {r \in prefetched :
                      /\ CellOf(r.pos)[1] - CellOf(c.pos)[1] \in -CellRadius..CellRadius
                      /\ CellOf(r.pos)[2] - CellOf(c.pos)[2] \in -CellRadius..CellRadius
                      /\ Metres[c.pos, r.pos] <= 100}
  OBVIOUS
<1>2. PICK near : near = InReach(c, prefetched)
  OBVIOUS
<1>3. near = {Evaluated(c, r) : r \in R}
  BY <1>1, <1>2, Zenon DEF InReach
<1>4. R \in SUBSET input.rows /\ \A r \in R : Metres[c.pos, r.pos] <= 100
  BY <1>1
<1>5. ASSUME NEW r \in R
      PROVE  /\ Evaluated(c, r) \in Evaluation /\ Evaluated(c, r).id = r.id
             /\ Evaluated(c, r).distance <= 100
             /\ Evaluated(c, r).method = Method(Evaluated(c, r).distance, Evaluated(c, r).score,
                                                Evaluated(c, r).same)
  <2>1. PICK distance : distance = Metres[c.pos, r.pos]
    OBVIOUS
  <2>2. distance \in Nat /\ distance <= 100
    BY <1>4, <2>1, MatcherAssumption DEF TypedInput
  <2>3. PICK score : score = ScoreOf[c.name, r.name]
    OBVIOUS
  <2>4. score \in 0..100
    <3>1. <<c.name, r.name>> \in Name \X Name
      BY <1>4 DEF TypedInput
    <3>2. ScoreOf \in [Name \X Name -> 0..100]
      BY MatcherAssumption
    <3> QED BY <2>3, <3>1, <3>2
  <2>5. PICK same : same = SameIdentifier(c, r)
    OBVIOUS
  <2>6. same \in BOOLEAN
    BY <2>5 DEF SameIdentifier
  <2>7. PICK method : method = Method(distance, score, same)
    OBVIOUS
  <2>8. method \in Methods
    BY <2>7 DEF Method, Methods
  <2>9. Evaluated(c, r) = [id |-> r.id, distance |-> distance, score |-> score, same |-> same,
                           method |-> method]
    BY <2>1, <2>3, <2>5, <2>7, Zenon DEF Evaluated
  <2>10. r.id \in Int
    BY <1>4 DEF TypedInput
  <2> QED BY <2>2, <2>4, <2>6, <2>7, <2>8, <2>9, <2>10 DEF Evaluation
<1>6. IsFiniteSet(near)
  <2>1. IsFiniteSet(R)
    BY <1>4, FS_Subset DEF TypedInput
  <2>2. PICK f : f = [r \in R |-> Evaluated(c, r)]
    OBVIOUS
  <2>3. near = {f[r] : r \in R} /\ DOMAIN f = R
    BY <1>3, <2>2, Zenon
  <2> QED BY <2>1, <2>3, FiniteImage
<1>7. \A m, n \in near : m.id = n.id => m = n
  <2> SUFFICES ASSUME NEW q \in R, NEW r \in R, Evaluated(c, q).id = Evaluated(c, r).id
               PROVE  Evaluated(c, q) = Evaluated(c, r)
    BY <1>3
  <2>1. q.id = r.id
    BY <1>5
  <2> QED BY <1>4, <2>1 DEF TypedInput
<1>8. near \subseteq Evaluation
  BY <1>3, <1>5
<1>9. ASSUME NEW m \in near
      PROVE  m.distance <= 100 /\ m.method = Method(m.distance, m.score, m.same)
  <2>1. PICK r \in R : m = Evaluated(c, r)
    BY <1>3
  <2> QED BY <1>5, <2>1
<1>10. Competing(near)
  BY <1>6, <1>7, <1>8 DEF Competing
<1> QED BY <1>2, <1>9, <1>10

\* The best and the nearest of the first few, if any row is in reach.
LEMMA FirstFew ==
  ASSUME TypedInput(input), NEW c \in Matchable(input.candidates),
         NEW prefetched \in SUBSET input.rows, NEW few, few = Nearby(c, prefetched)
  PROVE  /\ few \subseteq InReach(c, prefetched) /\ Competing(few)
         /\ few = {} => InReach(c, prefetched) = {} /\ Best(few) = NoValue /\ Nearest(few) = NoValue
         /\ few # {} => /\ Best(few) \in few /\ Best(few) # NoValue
                        /\ \A n \in few \ {Best(few)} : Better(Best(few), n)
                        /\ Nearest(few) \in few /\ Nearest(few) # NoValue
                        /\ \A n \in few \ {Nearest(few)} : Nearer(Nearest(few), n)
<1>1. PICK near : near = InReach(c, prefetched)
  OBVIOUS
<1>2. Competing(near)
  BY <1>1, ReachCompetes
<1>3. few = {m \in near : Cardinality(Closer(m, near)) < NearbyLimit}
  BY <1>1 DEF Nearby
<1>4. few \in SUBSET near /\ (near # {} => few # {})
  BY <1>2, <1>3, FewAreFirst
<1>5. Competing(few)
  <2>1. IsFiniteSet(few)
    BY <1>2, <1>4, FS_Subset DEF Competing
  <2> QED BY <1>2, <1>4, <2>1 DEF Competing
<1>6. few = {} => Best(few) = NoValue /\ Nearest(few) = NoValue
  BY DEF Best, Nearest
<1>7. ASSUME few # {}
      PROVE  /\ Best(few) \in few /\ Best(few) # NoValue
             /\ \A n \in few \ {Best(few)} : Better(Best(few), n)
  <2>1. PICK m \in few : \A n \in few \ {m} : Better(m, n)
    BY <1>5, <1>7, BestExists
  <2>2. Best(few) = CHOOSE o \in few : \A n \in few \ {o} : Better(o, n)
    BY <1>7 DEF Best
  <2>3. Best(few) \in few /\ \A n \in few \ {Best(few)} : Better(Best(few), n)
    BY <2>1, <2>2
  <2>4. NoValue \notin few
    BY <1>5, MatcherAssumption DEF Competing
  <2> QED BY <2>3, <2>4
<1>8. ASSUME few # {}
      PROVE  /\ Nearest(few) \in few /\ Nearest(few) # NoValue
             /\ \A n \in few \ {Nearest(few)} : Nearer(Nearest(few), n)
  <2>1. PICK m \in few : \A n \in few \ {m} : Nearer(m, n)
    BY <1>5, <1>8, NearestExists
  <2>2. Nearest(few) = CHOOSE o \in few : \A n \in few \ {o} : Nearer(o, n)
    BY <1>8 DEF Nearest
  <2>3. Nearest(few) \in few /\ \A n \in few \ {Nearest(few)} : Nearer(Nearest(few), n)
    BY <2>1, <2>2
  <2>4. NoValue \notin few
    BY <1>5, MatcherAssumption DEF Competing
  <2> QED BY <2>3, <2>4
<1> QED BY <1>1, <1>4, <1>5, <1>6, <1>7, <1>8

-----------------------------------------------------------------------------
(* The decisions of the port. *)

\* What the port takes for the best, the legacy report finds the best on some order of rows.
LEMMA BestIsPossible ==
  ASSUME TypedInput(input), NEW c \in Matchable(input.candidates),
         NEW prefetched \in SUBSET input.rows, NEW few, few = Nearby(c, prefetched)
  PROVE  /\ few = {} => LegacyBest(c, prefetched) = {}
         /\ few # {} => Best(few) \in LegacyBest(c, prefetched)
<1>1. PICK near : near = InReach(c, prefetched)
  OBVIOUS
<1>2. Competing(near)
  BY <1>1, ReachCompetes
<1> DEFINE limit == IF Cardinality(near) < NearbyLimit THEN Cardinality(near) ELSE NearbyLimit
           First(S) == /\ Cardinality(S) = limit
                      /\ \A m \in S, n \in near \ S : m.distance <= n.distance
           heads == {S \in SUBSET near : First(S)}
           beats(m, n) == \/ Good(m) /\ ~Good(n)
                          \/ /\ Good(m) <=> Good(n)
                             /\ \/ m.score > n.score
                                \/ m.score = n.score /\ m.distance < n.distance
<1>3. LegacyBest(c, prefetched) = UNION {{m \in S : \A n \in S : ~beats(n, m)} : S \in heads}
  BY <1>1, Zenon DEF LegacyBest
<1>4. few \in SUBSET near /\ (few = {} => near = {})
  BY <1>1, FirstFew
<1>5. CASE few = {}
  BY <1>3, <1>4, <1>5
<1>6. CASE few # {}
  <2>1. few = {m \in near : Cardinality(Closer(m, near)) < NearbyLimit}
    BY <1>1 DEF Nearby
  <2>2. Cardinality(few) = limit
    <3>1. Cardinality(near) \in Nat /\ NearbyLimit \in Nat
      BY <1>2, FS_CardinalityType, MatcherAssumption DEF Competing
    <3>2. /\ Cardinality(near) < NearbyLimit => Cardinality(few) = Cardinality(near)
          /\ Cardinality(near) >= NearbyLimit => Cardinality(few) = NearbyLimit
      BY <1>2, <2>1, FewAreFirst
    <3> QED BY <3>1, <3>2
  <2>3. ASSUME NEW m \in few, NEW n \in near \ few PROVE m.distance <= n.distance
    <3>1. Nearer(m, n)
      BY <1>2, <2>1, <2>3, FewAreFirst
    <3>2. m.distance \in Nat /\ n.distance \in Nat
      BY <1>2, <1>4, <2>3 DEF Competing, Evaluation
    <3> QED BY <3>1, <3>2 DEF Nearer
  <2>4. few \in heads
    BY <1>4, <2>2, <2>3
  <2>5. PICK best : best = Best(few)
    OBVIOUS
  <2>6. best \in few /\ \A n \in few \ {best} : Better(best, n)
    BY <1>6, <2>5, FirstFew
  <2>7. ASSUME NEW n \in few PROVE ~beats(n, best)
    <3>1. n.score \in Nat /\ best.score \in Nat /\ n.distance \in Nat /\ best.distance \in Nat
      BY <1>2, <1>4, <2>6, <2>7 DEF Competing, Evaluation
    <3>2. CASE n = best
      BY <3>1, <3>2
    <3>3. CASE n # best
      BY <2>6, <2>7, <3>1, <3>3 DEF Better, Nearer
    <3> QED BY <3>2, <3>3
  <2> QED BY <1>3, <2>4, <2>5, <2>6, <2>7
<1> QED BY <1>5, <1>6

\* The decision over a candidate that is compared.
LEMMA DecisionIs ==
  ASSUME NEW c, NEW prefetched, Route(c) \in MatchableRoutes, NEW few, few = Nearby(c, prefetched)
  PROVE  Decision(c, prefetched) =
           [candidate |-> c, best |-> Best(few), nearest |-> Nearest(few),
            disposition |-> IF Route(c) = "closed_evidence_candidate"
                            THEN ClosedDisposition(c, Best(few)) ELSE ActiveDisposition(Best(few))]
BY DEF Decision

\* Of every candidate the validator admits the decision, and its kind is that of the
\* candidate's route.
LEMMA DecisionAdmitted ==
  ASSUME TypedInput(input), NEW c \in input.candidates, NEW prefetched \in SUBSET input.rows,
         NEW d, d = Decision(c, prefetched)
  PROVE  /\ d.candidate = c /\ Admitted(d)
         /\ d.disposition \in {"matched_existing", "ambiguous_review", "likely_new"}
              <=> c \in Matchable(input.candidates) /\ c.closed = FALSE
         /\ d.disposition \in {"closed_evidence", "closed_evidence_dropped"}
              <=> c \in Matchable(input.candidates) /\ c.closed = TRUE
<1>1. CASE Route(c) \notin MatchableRoutes
  <2>1. d = [candidate |-> c, disposition |-> "not_compared", best |-> NoValue,
             nearest |-> NoValue]
    BY <1>1 DEF Decision
  <2>2. c \notin Matchable(input.candidates)
    BY <1>1 DEF Matchable
  <2>3. Admitted(d)
    BY <1>1, <2>1 DEF Admitted
  <2> QED BY <2>1, <2>2, <2>3
<1>2. CASE Route(c) \in MatchableRoutes
  <2>1. c \in Matchable(input.candidates) /\ c.closed \in BOOLEAN
    BY <1>2 DEF Matchable, TypedInput
  <2>2. PICK few : few = Nearby(c, prefetched)
    OBVIOUS
  <2>3. PICK best : best = Best(few)
    OBVIOUS
  <2>4. PICK nearest : nearest = Nearest(few)
    OBVIOUS
  <2>5. PICK method : method = IF best = NoValue THEN "none" ELSE best.method
    OBVIOUS
  <2>6. /\ best = NoValue <=> nearest = NoValue
        /\ best # NoValue =>
             /\ nearest.distance <= best.distance /\ best.distance <= 100
             /\ best.method = Method(best.distance, best.score, best.same)
             /\ best.method \in Methods
    <3>1. CASE few = {}
      BY <2>3, <2>4, <3>1 DEF Best, Nearest
    <3>2. CASE few # {}
      <4>1. /\ best \in few /\ best # NoValue /\ nearest \in few /\ nearest # NoValue
            /\ \A n \in few \ {nearest} : Nearer(nearest, n)
            /\ few \subseteq InReach(c, prefetched) /\ Competing(few)
        BY <2>1, <2>2, <2>3, <2>4, <3>2, FirstFew
      <4>2. /\ best.distance <= 100
            /\ best.method = Method(best.distance, best.score, best.same)
        BY <2>1, <4>1, ReachCompetes
      <4>3. best.distance \in Nat /\ nearest.distance \in Nat /\ best.method \in Methods
        BY <4>1 DEF Competing, Evaluation
      <4>4. nearest.distance <= best.distance
        BY <4>1, <4>3 DEF Nearer
      <4> QED BY <4>1, <4>2, <4>3, <4>4
    <3> QED BY <3>1, <3>2
  <2>7. best # NoValue => best.method \in Accepted \cup Doubtful \cup {"no_match"}
    BY <2>6 DEF Methods, Accepted, Doubtful
  <2>8. PICK disposition : disposition = IF Route(c) = "closed_evidence_candidate"
                                         THEN ClosedDisposition(c, best)
                                         ELSE ActiveDisposition(best)
    OBVIOUS
  <2>9. d = [candidate |-> c, best |-> best, nearest |-> nearest, disposition |-> disposition]
    BY <1>2, <2>2, <2>3, <2>4, <2>8, DecisionIs
  <2>10. CASE Route(c) = "closed_evidence_candidate"
    <3>1. c.closed
      BY <2>10 DEF Route
    <3>2. disposition = IF c.sourceId /\ AcceptedMatch(best) THEN "closed_evidence"
                        ELSE "closed_evidence_dropped"
      BY <2>8, <2>10 DEF ClosedDisposition
    <3>3. AcceptedMatch(best) <=> method \in Accepted
      BY <2>5 DEF AcceptedMatch, Accepted
    <3>4. Admitted(d)
      BY <2>5, <2>6, <2>9, <2>10, <3>2, <3>3 DEF Admitted, MatchableRoutes
    <3>5. disposition \in {"closed_evidence", "closed_evidence_dropped"}
      BY <3>2
    <3> QED BY <2>1, <2>9, <3>1, <3>4, <3>5
  <2>11. CASE Route(c) = "ready_for_match"
    <3>1. ~c.closed
      BY <2>11 DEF Route
    <3>2. disposition = ActiveDisposition(best)
      BY <2>8, <2>11
    <3>3. \/ disposition = "likely_new" /\ method \in {"none", "no_match"}
          \/ disposition = "ambiguous_review" /\ method \in Doubtful
          \/ disposition = "matched_existing" /\ method \in Accepted
      BY <2>5, <2>7, <3>2 DEF ActiveDisposition, Good, Accepted, Doubtful
    <3>4. Admitted(d)
      BY <2>5, <2>6, <2>9, <2>11, <3>3 DEF Admitted, MatchableRoutes
    <3>5. disposition \in {"matched_existing", "ambiguous_review", "likely_new"}
      BY <3>3
    <3> QED BY <2>1, <2>9, <3>1, <3>4, <3>5
  <2> QED BY <1>2, <2>10, <2>11 DEF MatchableRoutes
<1> QED BY <1>1, <1>2

\* Whatever order its rows come in, the legacy report might have decided so.
LEMMA PortIsOfLegacy ==
  ASSUME TypedInput(input)
  PROVE  PortOfLegacy
<1>1. PICK prefetched : prefetched = BoxScan(input.rows, Boxes(input.candidates))
  OBVIOUS
<1>2. prefetched \in SUBSET input.rows
  BY <1>1 DEF BoxScan
<1>3. Prefetched(input.rows, Boxes(input.candidates)) = prefetched
  BY <1>1, PrefetchFindsAll DEF PrefetchIsBoxScan
<1>4. Decisions(input.candidates, input.rows) = {Decision(c, prefetched) : c \in input.candidates}
  BY <1>3, Zenon DEF Decisions
<1>5. SUFFICES ASSUME NEW d \in Decisions(input.candidates, input.rows),
                      d.disposition # "not_compared"
               PROVE  IF LegacyBest(d.candidate, prefetched) = {} THEN d.best = NoValue
                      ELSE d.best \in LegacyBest(d.candidate, prefetched)
  BY <1>1, Zenon DEF PortOfLegacy
<1>6. PICK c \in input.candidates : d = Decision(c, prefetched)
  BY <1>4, <1>5
<1>7. Route(c) \in MatchableRoutes
  BY <1>5, <1>6 DEF Decision
<1>8. c \in Matchable(input.candidates)
  BY <1>7 DEF Matchable
<1>9. PICK few : few = Nearby(c, prefetched)
  OBVIOUS
<1>10. d.candidate = c /\ d.best = Best(few)
  BY <1>6, <1>7, <1>9, DecisionIs
<1>11. CASE few = {}
  <2>1. LegacyBest(c, prefetched) = {}
    BY <1>2, <1>8, <1>9, <1>11, BestIsPossible
  <2>2. Best(few) = NoValue
    BY <1>11 DEF Best
  <2> QED BY <1>10, <2>1, <2>2
<1>12. CASE few # {}
  <2>1. Best(few) \in LegacyBest(c, prefetched)
    BY <1>2, <1>8, <1>9, <1>12, BestIsPossible
  <2> QED BY <1>10, <2>1
<1> QED BY <1>11, <1>12

-----------------------------------------------------------------------------
(* The counts of the report. *)

\* There are no more values of a function than arguments, and none only without any.
LEMMA Counted ==
  ASSUME NEW S, IsFiniteSet(S), NEW f, DOMAIN f = S, NEW T, T = {f[x] : x \in S}
  PROVE  /\ IsFiniteSet(T) /\ Cardinality(T) \in Nat /\ Cardinality(S) \in Nat
         /\ Cardinality(T) <= Cardinality(S)
         /\ Cardinality(T) = 0 <=> S = {}
<1>1. PICK g \in [S -> T] : \A x \in S : g[x] = f[x]
  <2>1. [x \in S |-> f[x]] \in [S -> T]
    OBVIOUS
  <2> QED BY <2>1
<1>2. g \in Surjection(S, T)
  BY <1>1 DEF Surjection
<1>3. IsFiniteSet(T) /\ Cardinality(T) <= Cardinality(S)
  BY <1>2, FS_Surjection
<1>4. Cardinality(T) = 0 <=> S = {}
  BY <1>3, FS_EmptySet
<1> QED BY <1>3, <1>4, FS_CardinalityType

\* Sets apart are counted together.
LEMMA CountedApart ==
  ASSUME NEW A, NEW B, IsFiniteSet(A), IsFiniteSet(B), A \cap B = {}
  PROVE  /\ IsFiniteSet(A \cup B)
         /\ Cardinality(A \cup B) = Cardinality(A) + Cardinality(B)
         /\ Cardinality(A) \in Nat /\ Cardinality(B) \in Nat
<1>1. Cardinality(A) \in Nat /\ Cardinality(B) \in Nat
  BY FS_CardinalityType
<1>2. /\ IsFiniteSet(A \cup B)
      /\ Cardinality(A \cup B) = Cardinality(A) + Cardinality(B) - Cardinality(A \cap B)
  BY FS_Union
<1>3. Cardinality(A \cap B) = 0
  BY FS_EmptySet
<1> QED BY <1>1, <1>2, <1>3

\* There are as many decisions as candidates they are over.
LEMMA CountedByCandidate ==
  ASSUME NEW C, IsFiniteSet(C), NEW decide, \A c \in C : decide[c].candidate = c,
         NEW T, T = {decide[c] : c \in C}
  PROVE  Cardinality(T) = Cardinality(C)
<1>1. PICK g \in [C -> T] : \A c \in C : g[c] = decide[c]
  <2>1. [c \in C |-> decide[c]] \in [C -> T]
    OBVIOUS
  <2> QED BY <2>1
<1>2. g \in Surjection(C, T)
  BY <1>1 DEF Surjection
<1>3. g \in Injection(C, T)
  <2>1. \A x, y \in C : g[x] = g[y] => x = y
    BY <1>1
  <2> QED BY <2>1 DEF Injection, IsInjective
<1> QED BY <1>2, <1>3, FS_Surjection

\* The numbers of a report's tiles are those of candidates at most.
LEMMA TilesCounted ==
  ASSUME TypedInput(input)
  PROVE  /\ Cardinality(Boxes(input.candidates)) \in Nat
         /\ Cardinality(Boxes(input.candidates)) <= Cardinality(Matchable(input.candidates))
         /\ Cardinality(Boxes(input.candidates)) = 0 <=> Matchable(input.candidates) = {}
         /\ Cardinality(Boxes(input.candidates)) = 0 <=> Boxes(input.candidates) = {}
<1>1. PICK M : M = Matchable(input.candidates)
  OBVIOUS
<1>2. IsFiniteSet(M)
  <2>1. M \in SUBSET input.candidates
    BY <1>1 DEF Matchable
  <2> QED BY <2>1, FS_Subset DEF TypedInput
<1>3. PICK positions : positions = {c.pos : c \in M}
  OBVIOUS
<1>4. PICK f : f = [c \in M |-> Box(TileOf(c.pos), {p \in positions : TileOf(p) = TileOf(c.pos)})]
  OBVIOUS
<1>5. Boxes(input.candidates) = {f[c] : c \in M}
  <2>1. PICK tiles : tiles = {TileOf(p) : p \in positions}
    OBVIOUS
  <2>2. Boxes(input.candidates) = {Box(t, {p \in positions : TileOf(p) = t}) : t \in tiles}
    BY <1>1, <1>3, <2>1, Zenon DEF Boxes
  <2>3. ASSUME NEW b \in Boxes(input.candidates) PROVE \E c \in M : b = f[c]
    <3>1. PICK t \in tiles : b = Box(t, {p \in positions : TileOf(p) = t})
      BY <2>2, <2>3, Zenon
    <3>2. PICK c \in M : t = TileOf(c.pos)
      BY <1>3, <2>1
    <3> QED BY <1>4, <3>1, <3>2
  <2>4. ASSUME NEW c \in M PROVE f[c] \in Boxes(input.candidates)
    <3>1. PICK t : t = TileOf(c.pos)
      OBVIOUS
    <3>2. t \in tiles
      BY <1>3, <2>1, <3>1
    <3>3. f[c] = Box(t, {p \in positions : TileOf(p) = t})
      BY <1>4, <3>1
    <3> QED BY <2>2, <3>2, <3>3, Zenon
  <2> QED BY <2>3, <2>4
<1>6. /\ IsFiniteSet(Boxes(input.candidates))
      /\ Cardinality(Boxes(input.candidates)) \in Nat
      /\ Cardinality(Boxes(input.candidates)) <= Cardinality(M)
      /\ Cardinality(Boxes(input.candidates)) = 0 <=> M = {}
  <2>1. DOMAIN f = M
    BY <1>4
  <2> QED BY <1>2, <1>5, <2>1, Counted
<1> QED BY <1>1, <1>6, FS_EmptySet

\* The counts of the report add up, for any candidates and rows.
LEMMA ReportReconciles ==
  ASSUME TypedInput(input)
  PROVE  Reconciled(Report(input.candidates, input.rows))
<1>1. PICK prefetched : prefetched = Prefetched(input.rows, Boxes(input.candidates))
  OBVIOUS
<1>2. prefetched \in SUBSET input.rows
  BY <1>1 DEF Prefetched
<1>3. PICK D : D = Decisions(input.candidates, input.rows)
  OBVIOUS
<1>4. PICK decide : decide = [c \in input.candidates |-> Decision(c, prefetched)]
  OBVIOUS
<1>5. /\ D = {decide[c] : c \in input.candidates} /\ DOMAIN decide = input.candidates
      /\ IsFiniteSet(input.candidates) /\ \A c \in input.candidates : decide[c].candidate = c
  <2>1. D = {Decision(c, prefetched) : c \in input.candidates}
    BY <1>1, <1>3, Zenon DEF Decisions
  <2>2. D = {decide[c] : c \in input.candidates} /\ DOMAIN decide = input.candidates
    BY <1>4, <2>1
  <2>3. \A c \in input.candidates : Decision(c, prefetched).candidate = c
    BY <1>2, DecisionAdmitted
  <2> QED BY <1>4, <2>2, <2>3 DEF TypedInput
<1>6. IsFiniteSet(D)
  BY <1>5, Counted
<1>7. PICK M : M = Matchable(input.candidates)
  OBVIOUS
<1>8. M \in SUBSET input.candidates /\ IsFiniteSet(M)
  <2>1. M \in SUBSET input.candidates
    BY <1>7 DEF Matchable
  <2> QED BY <2>1, FS_Subset DEF TypedInput
<1>9. PICK open : open = {c \in M : c.closed = FALSE}
  OBVIOUS
<1>10. PICK shut : shut = {c \in M : c.closed = TRUE}
  OBVIOUS
<1>11. /\ Cardinality(open) \in Nat /\ Cardinality(shut) \in Nat
       /\ Cardinality(open) + Cardinality(shut) = Cardinality(M)
       /\ Cardinality(M) = 0 <=> M = {}
  <2>1. open \in SUBSET M /\ shut \in SUBSET M /\ open \cap shut = {}
    BY <1>9, <1>10
  <2>2. M = open \cup shut
    BY <1>7, <1>9, <1>10 DEF TypedInput
  <2>3. IsFiniteSet(open) /\ IsFiniteSet(shut)
    BY <1>8, <2>1, FS_Subset
  <2>4. Cardinality(open \cup shut)
          = Cardinality(open) + Cardinality(shut) - Cardinality(open \cap shut)
    BY <2>3, FS_Union
  <2>5. Cardinality(open \cap shut) = 0
    BY <2>1, FS_EmptySet
  <2>6. Cardinality(open) \in Nat /\ Cardinality(shut) \in Nat
    BY <2>3, FS_CardinalityType
  <2>7. Cardinality(M) = Cardinality(open \cup shut)
    BY <2>2
  <2>8. Cardinality(M) = 0 <=> M = {}
    BY <1>8, FS_EmptySet
  <2> QED BY <2>4, <2>5, <2>6, <2>7, <2>8
<1> DEFINE Of(kind) == {d \in D : d.disposition = kind}
<1>12. Cardinality(Of("matched_existing") \cup Of("ambiguous_review") \cup Of("likely_new"))
         = Cardinality(open)
  <2>1. PICK kinds : kinds = {"matched_existing", "ambiguous_review", "likely_new"}
    OBVIOUS
  <2>2. \A c \in input.candidates : decide[c].disposition \in kinds <=> c \in open
    BY <1>2, <1>7, <1>9, <1>4, <2>1, DecisionAdmitted
  <2>3. PICK T : T = {decide[c] : c \in open}
    OBVIOUS
  <2>4. open \in SUBSET input.candidates
    BY <1>8, <1>9
  <2>5. Cardinality(T) = Cardinality(open)
    <3>1. IsFiniteSet(open)
      BY <1>5, <2>4, FS_Subset
    <3>2. \A c \in open : decide[c].candidate = c
      BY <1>5, <2>4
    <3> QED BY <2>3, <3>1, <3>2, CountedByCandidate
  <2>6. T = {d \in D : d.disposition \in kinds}
    BY <1>5, <2>2, <2>3, <2>4
  <2>7. T = Of("matched_existing") \cup Of("ambiguous_review") \cup Of("likely_new")
    BY <2>1, <2>6
  <2> QED BY <2>5, <2>7
<1>13. Cardinality(Of("closed_evidence") \cup Of("closed_evidence_dropped")) = Cardinality(shut)
  <2>1. PICK kinds : kinds = {"closed_evidence", "closed_evidence_dropped"}
    OBVIOUS
  <2>2. \A c \in input.candidates : decide[c].disposition \in kinds <=> c \in shut
    BY <1>2, <1>7, <1>10, <1>4, <2>1, DecisionAdmitted
  <2>3. PICK T : T = {decide[c] : c \in shut}
    OBVIOUS
  <2>4. shut \in SUBSET input.candidates
    BY <1>8, <1>10
  <2>5. Cardinality(T) = Cardinality(shut)
    <3>1. IsFiniteSet(shut)
      BY <1>5, <2>4, FS_Subset
    <3>2. \A c \in shut : decide[c].candidate = c
      BY <1>5, <2>4
    <3> QED BY <2>3, <3>1, <3>2, CountedByCandidate
  <2>6. T = {d \in D : d.disposition \in kinds}
    BY <1>5, <2>2, <2>3, <2>4
  <2>7. T = Of("closed_evidence") \cup Of("closed_evidence_dropped")
    BY <2>1, <2>6
  <2> QED BY <2>5, <2>7
<1>14. \A kind : IsFiniteSet(Of(kind))
  <2>1. \A kind : Of(kind) \in SUBSET D
    OBVIOUS
  <2> HIDE DEF Of
  <2> QED BY <1>6, <2>1, FS_Subset
<1>15. /\ Cardinality(Of("matched_existing")) + Cardinality(Of("ambiguous_review"))
             + Cardinality(Of("likely_new")) = Cardinality(open)
       /\ Cardinality(Of("closed_evidence")) + Cardinality(Of("closed_evidence_dropped"))
             = Cardinality(shut)
  <2>1. PICK pair : pair = Of("matched_existing") \cup Of("ambiguous_review")
    OBVIOUS
  <2>2. /\ Of("matched_existing") \cap Of("ambiguous_review") = {}
        /\ pair \cap Of("likely_new") = {}
        /\ Of("closed_evidence") \cap Of("closed_evidence_dropped") = {}
    BY <2>1
  <2> HIDE DEF Of
  <2>3. IsFiniteSet(pair)
        /\ Cardinality(pair)
             = Cardinality(Of("matched_existing")) + Cardinality(Of("ambiguous_review"))
    BY <1>14, <2>1, <2>2, CountedApart
  <2>4. Cardinality(pair \cup Of("likely_new")) = Cardinality(pair) + Cardinality(Of("likely_new"))
    BY <1>14, <2>2, <2>3, CountedApart
  <2>5. Cardinality(Of("closed_evidence") \cup Of("closed_evidence_dropped"))
          = Cardinality(Of("closed_evidence")) + Cardinality(Of("closed_evidence_dropped"))
    BY <1>14, <2>2, CountedApart
  <2> QED BY <1>12, <1>13, <2>1, <2>3, <2>4, <2>5
<1>16. PICK cells : cells = {CellOf(r.pos) : r \in prefetched}
  OBVIOUS
<1>17. /\ Cardinality(cells) \in Nat /\ Cardinality(prefetched) \in Nat
       /\ Cardinality(cells) <= Cardinality(prefetched)
       /\ Cardinality(cells) = 0 <=> prefetched = {}
       /\ Cardinality(prefetched) = 0 <=> prefetched = {}
       /\ Cardinality(prefetched) <= Cardinality(input.rows)
  <2>1. IsFiniteSet(prefetched) /\ Cardinality(prefetched) <= Cardinality(input.rows)
    BY <1>2, FS_Subset DEF TypedInput
  <2>2. PICK f : f = [r \in prefetched |-> CellOf(r.pos)]
    OBVIOUS
  <2>3. cells = {f[r] : r \in prefetched} /\ DOMAIN f = prefetched
    BY <1>16, <2>2
  <2> QED BY <2>1, <2>2, <2>3, Counted, FS_EmptySet
<1>18. PICK tiles : tiles = Boxes(input.candidates)
  OBVIOUS
<1>19. /\ Cardinality(tiles) \in Nat /\ Cardinality(tiles) <= Cardinality(M)
       /\ Cardinality(tiles) = 0 <=> M = {}
       /\ Cardinality(tiles) = 0 => prefetched = {}
  BY <1>1, <1>7, <1>18, TilesCounted DEF Prefetched
<1>20. PICK compared : compared = [closed \in BOOLEAN |->
                                     Cardinality({c \in M : c.closed = closed})]
  OBVIOUS
<1>21. compared[FALSE] = Cardinality(open) /\ compared[TRUE] = Cardinality(shut)
  BY <1>9, <1>10, <1>20
<1>22. Report(input.candidates, input.rows) =
         [compared |-> compared, rows |-> Cardinality(input.rows),
          prefetched |-> Cardinality(prefetched), tiles |-> Cardinality(tiles),
          cells |-> Cardinality(cells),
          matched |-> Cardinality(Of("matched_existing")),
          ambiguous |-> Cardinality(Of("ambiguous_review")),
          new |-> Cardinality(Of("likely_new")), evidence |-> Cardinality(Of("closed_evidence")),
          dropped |-> Cardinality(Of("closed_evidence_dropped"))]
  BY <1>1, <1>3, <1>7, <1>16, <1>18, <1>20, Zenon DEF Report
<1>23. PICK r : r = Report(input.candidates, input.rows)
  OBVIOUS
<1> HIDE DEF Of
<1>24. /\ r.compared = compared
       /\ r.rows = Cardinality(input.rows) /\ r.prefetched = Cardinality(prefetched)
       /\ r.tiles = Cardinality(tiles) /\ r.cells = Cardinality(cells)
       /\ r.matched = Cardinality(Of("matched_existing"))
       /\ r.ambiguous = Cardinality(Of("ambiguous_review"))
       /\ r.new = Cardinality(Of("likely_new"))
       /\ r.evidence = Cardinality(Of("closed_evidence"))
       /\ r.dropped = Cardinality(Of("closed_evidence_dropped"))
  BY <1>22, <1>23
<1>25. r.compared[FALSE] = Cardinality(open) /\ r.compared[TRUE] = Cardinality(shut)
  BY <1>21, <1>24
<1>26. /\ r.matched + r.ambiguous + r.new = r.compared[FALSE]
       /\ r.evidence + r.dropped = r.compared[TRUE]
  BY <1>15, <1>24, <1>25
<1>27. /\ r.cells <= r.prefetched /\ r.prefetched <= r.rows
       /\ r.cells = 0 <=> r.prefetched = 0
  BY <1>17, <1>24
<1>28. r.compared[FALSE] + r.compared[TRUE] = Cardinality(M)
  BY <1>11, <1>25
<1>29. r.tiles <= r.compared[FALSE] + r.compared[TRUE]
  BY <1>19, <1>24, <1>28
<1>30. r.tiles = 0 <=> r.compared[FALSE] + r.compared[TRUE] = 0
  <2>1. Cardinality(M) = 0 <=> M = {}
    BY <1>11
  <2> QED BY <2>1, <1>19, <1>24, <1>28
<1>31. r.tiles = 0 => r.prefetched = 0
  BY <1>17, <1>19, <1>24
<1> QED BY <1>23, <1>26, <1>27, <1>29, <1>30, <1>31 DEF Reconciled

\* For any candidates and rows the validators admit what the matcher writes, and it is what
\* the legacy report might have written.
THEOREM MatcherReplacesLegacy ==
  ASSUME TypedInput(input)
  PROVE  ReplacesLegacy
<1>1. PICK prefetched : prefetched = Prefetched(input.rows, Boxes(input.candidates))
  OBVIOUS
<1>2. prefetched \in SUBSET input.rows
  BY <1>1 DEF Prefetched
<1>3. Decisions(input.candidates, input.rows) = {Decision(c, prefetched) : c \in input.candidates}
  BY <1>1, Zenon DEF Decisions
<1>4. ASSUME NEW d \in Decisions(input.candidates, input.rows) PROVE Admitted(d)
  <2>1. PICK c \in input.candidates : d = Decision(c, prefetched)
    BY <1>3, <1>4
  <2> QED BY <1>2, <2>1, DecisionAdmitted
<1> QED BY <1>4, ReportReconciles, PortIsOfLegacy DEF ReplacesLegacy, OutputsAdmitted
=============================================================================
