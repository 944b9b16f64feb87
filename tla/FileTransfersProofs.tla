------------------------ MODULE FileTransfersProofs ------------------------
(***************************************************************************)
(* The safety of FileTransfers for every number of sources, names and      *)
(* chunks and every size of the index: the card is sound after each step,  *)
(* a transfer keeps its file, a reader is not disturbed, and the numbers   *)
(* of the patterns change only where the code means them to.               *)
(***************************************************************************)
EXTENDS FileTransfers, SequenceTheorems, FiniteSetTheorems, WellFoundedInduction, TLAPS

Paths == Names \cup {Temp}

LEMMA PathsAre == /\ Paths \subseteq Nat /\ Names \subseteq Paths /\ Temp \in Paths
                  /\ Temp \notin Names /\ Names \subseteq Nat /\ MaxCount \in Nat
  BY LibraryAssumption DEF Paths, Temp

-----------------------------------------------------------------------------
(***************************************************************************)
(* The index: what removeAt and insertSorted give, and that an increasing  *)
(* sequence is determined by its elements.                                 *)
(***************************************************************************)
Sorted(q) == \A i, j \in 1 .. Len(q) : i < j => q[i] <= q[j]

\* An index that the code can hold.
Lists == {q \in Seq(Names) : Len(q) <= MaxCount /\ Sorted(q)}

LEMMA ListFacts ==
  ASSUME NEW q \in Lists
  PROVE  /\ q \in Seq(Names) /\ Len(q) \in Nat /\ Len(q) <= MaxCount /\ Sorted(q)
         /\ DOMAIN q = 1 .. Len(q) /\ \A i \in 1 .. Len(q) : q[i] \in Names
  BY DEF Lists

LEMMA PrefixResult ==
  ASSUME NEW s \in Seq(Names), NEW k \in 0 .. Len(s), NEW q, q = SubSeq(s, 1, k)
  PROVE  q \in Seq(Names) /\ Len(q) = k /\ \A i \in 1 .. k : q[i] = s[i]
<1>1. Len(s) \in Nat /\ \A i \in 1 .. k : s[i] \in Names
  OBVIOUS
<1>2. /\ SubSeq(s, 1, k) \in Seq(Names)
      /\ Len(SubSeq(s, 1, k)) = IF 1 <= k THEN k - 1 + 1 ELSE 0
      /\ \A i \in 1 .. k - 1 + 1 : SubSeq(s, 1, k)[i] = s[1 + i - 1]
  BY <1>1, SubSeqProperties
<1>. QED
  BY <1>1, <1>2

LEMMA SuffixResult ==
  ASSUME NEW s \in Seq(Names), NEW k \in 0 .. Len(s), NEW q, q = SubSeq(s, k + 1, Len(s))
  PROVE  /\ q \in Seq(Names) /\ Len(q) = Len(s) - k
         /\ \A i \in 1 .. Len(s) - k : q[i] = s[k + i]
<1>1. Len(s) \in Nat /\ \A i \in k + 1 .. Len(s) : s[i] \in Names
  OBVIOUS
<1>2. /\ SubSeq(s, k + 1, Len(s)) \in Seq(Names)
      /\ Len(SubSeq(s, k + 1, Len(s))) = IF k + 1 <= Len(s) THEN Len(s) - (k + 1) + 1 ELSE 0
      /\ \A i \in 1 .. Len(s) - (k + 1) + 1 : SubSeq(s, k + 1, Len(s))[i] = s[(k + 1) + i - 1]
  BY <1>1, SubSeqProperties
<1>. QED
  BY <1>1, <1>2

LEMMA JoinResult ==
  ASSUME NEW a \in Seq(Names), NEW b \in Seq(Names), NEW q, q = a \o b
  PROVE  /\ q \in Seq(Names) /\ Len(q) = Len(a) + Len(b)
         /\ \A i \in 1 .. Len(a) + Len(b) : q[i] = IF i <= Len(a) THEN a[i] ELSE b[i - Len(a)]
<1>1. /\ a \o b \in Seq(Names) /\ Len(a \o b) = Len(a) + Len(b)
      /\ \A i \in 1 .. Len(a) + Len(b) : (a \o b)[i] = IF i <= Len(a) THEN a[i] ELSE b[i - Len(a)]
  BY ConcatProperties
<1>. QED
  BY <1>1, Zenon

LEMMA RemoveResult ==
  ASSUME NEW s \in Seq(Names), NEW p \in 1 .. Len(s), NEW q, q = removeAt(s, p)
  PROVE  /\ q \in Seq(Names) /\ Len(q) = Len(s) - 1
         /\ \A i \in 1 .. Len(s) - 1 : q[i] = IF i < p THEN s[i] ELSE s[i + 1]
<1>. DEFINE a == SubSeq(s, 1, p - 1)
            b == SubSeq(s, p + 1, Len(s))
<1>0. Len(s) \in Nat /\ p - 1 \in 0 .. Len(s) /\ p \in 0 .. Len(s)
  OBVIOUS
<1>1. a \in Seq(Names) /\ Len(a) = p - 1 /\ \A i \in 1 .. p - 1 : a[i] = s[i]
  BY <1>0, PrefixResult
<1>2. b \in Seq(Names) /\ Len(b) = Len(s) - p /\ \A i \in 1 .. Len(s) - p : b[i] = s[p + i]
  BY <1>0, SuffixResult
<1>3. q = a \o b
  BY DEF removeAt
<1>. HIDE DEF a, b
<1>4. /\ q \in Seq(Names) /\ Len(q) = Len(a) + Len(b)
      /\ \A i \in 1 .. Len(a) + Len(b) : q[i] = IF i <= Len(a) THEN a[i] ELSE b[i - Len(a)]
  BY <1>1, <1>2, <1>3, JoinResult, ZenonT(60)
<1>5. Len(q) = Len(s) - 1
  BY <1>0, <1>1, <1>2, <1>4
<1>6. ASSUME NEW i \in 1 .. Len(s) - 1 PROVE q[i] = IF i < p THEN s[i] ELSE s[i + 1]
  <2>1. i \in 1 .. Len(a) + Len(b)
    BY <1>0, <1>1, <1>2
  <2>2. CASE i < p
    <3>1. i <= Len(a) /\ i \in 1 .. p - 1
      BY <1>0, <1>1, <2>2
    <3>. QED
      BY <2>1, <2>2, <3>1, <1>1, <1>4
  <2>3. CASE ~(i < p)
    <3>1. ~(i <= Len(a)) /\ i - Len(a) \in 1 .. Len(s) - p /\ p + (i - Len(a)) = i + 1
      BY <1>0, <1>1, <2>3
    <3>2. q[i] = b[i - Len(a)]
      BY <2>1, <3>1, <1>4
    <3>. QED
      BY <2>3, <3>1, <3>2, <1>2
  <2>. QED
    BY <2>2, <2>3
<1>. QED
  BY <1>4, <1>5, <1>6

LEMMA RemoveKeepsList ==
  ASSUME NEW s \in Lists, NEW p \in 1 .. Len(s), NEW q, q = removeAt(s, p)
  PROVE  q \in Lists
<1>0. s \in Seq(Names) /\ Len(s) \in Nat /\ Len(s) <= MaxCount /\ Sorted(s)
      /\ \A i \in 1 .. Len(s) : s[i] \in Nat
  BY ListFacts, PathsAre
<1>1. /\ q \in Seq(Names) /\ Len(q) = Len(s) - 1
      /\ \A i \in 1 .. Len(s) - 1 : q[i] = IF i < p THEN s[i] ELSE s[i + 1]
  BY <1>0, RemoveResult
<1>2. ASSUME NEW i \in 1 .. Len(q), NEW j \in 1 .. Len(q), i < j PROVE q[i] <= q[j]
  <2>1. /\ i \in 1 .. Len(s) - 1 /\ j \in 1 .. Len(s) - 1
        /\ i \in 1 .. Len(s) /\ i + 1 \in 1 .. Len(s) /\ j \in 1 .. Len(s) /\ j + 1 \in 1 .. Len(s)
    BY <1>0, <1>1, <1>2
  <2>2. q[i] \in {s[i], s[i + 1]} /\ q[j] \in {s[j], s[j + 1]} /\ (i < p \/ q[j] = s[j + 1])
    BY <1>1, <1>2, <2>1
  <2>3. s[i] <= s[j] /\ s[i] <= s[j + 1] /\ s[i + 1] <= s[j + 1]
    BY <1>0, <1>2, <2>1 DEF Sorted
  <2>4. CASE i < p
    BY <2>1, <2>2, <2>3, <2>4, <1>1
  <2>5. CASE ~(i < p)
    BY <2>1, <2>2, <2>3, <2>5, <1>1
  <2>. QED
    BY <2>4, <2>5
<1>3. Len(q) <= MaxCount
  BY <1>0, <1>1, PathsAre
<1>. QED
  BY <1>1, <1>2, <1>3 DEF Lists, Sorted

\* A set of numbers has a least element.
LEMMA Least ==
  ASSUME NEW T \in SUBSET Nat, T # {} PROVE \E x \in T : \A y \in T : x <= y
<1>1. IsWellFoundedOn(OpToRel(<, Nat), Nat)
  BY NatLessThanWellFounded, Zenon
<1>2. PICK x \in T : \A y \in T : <<y, x>> \notin OpToRel(<, Nat)
  BY <1>1, WFMin, Zenon
<1>3. ASSUME NEW y \in T PROVE x <= y
  <2>1. <<y, x>> \notin {z \in Nat \X Nat : z[1] < z[2]}
    BY <1>2 DEF OpToRel
  <2>. QED
    BY <2>1
<1>. QED
  BY <1>3

\* Where insertSorted puts a name: behind those that are not greater.
LEMMA BeforeResult ==
  ASSUME NEW s \in Lists, NEW n \in Names,
         NEW k, k = Cardinality({i \in DOMAIN s : s[i] <= n})
  PROVE  /\ k \in 0 .. Len(s)
         /\ \A i \in 1 .. Len(s) : i <= k => s[i] <= n
         /\ \A i \in 1 .. Len(s) : i > k => n <= s[i]
<1>. DEFINE T == {m \in 0 .. Len(s) : \A i \in 1 .. Len(s) : i > m => n < s[i]}
<1>0. /\ Len(s) \in Nat /\ Sorted(s) /\ DOMAIN s = 1 .. Len(s) /\ n \in Nat
      /\ \A i \in 1 .. Len(s) : s[i] \in Nat
  BY ListFacts, PathsAre
<1>1. T \in SUBSET Nat /\ Len(s) \in T
  BY <1>0
<1>2. PICK m \in T : \A y \in T : m <= y
  BY <1>1, Least, Zenon
<1>3. m \in 0 .. Len(s) /\ \A i \in 1 .. Len(s) : i > m => n < s[i]
  BY <1>2
<1>4. m # 0 => s[m] <= n
  <2>. SUFFICES ASSUME m # 0 PROVE s[m] <= n
    OBVIOUS
  <2>1. m - 1 \notin T /\ m - 1 \in 0 .. Len(s)
    <3>. HIDE DEF T
    <3>1. m - 1 \in 0 .. Len(s) /\ ~(m <= m - 1)
      BY <1>0, <1>3
    <3>. QED
      BY <3>1, <1>2, Zenon
  <2>2. PICK i \in 1 .. Len(s) : i > m - 1 /\ ~(n < s[i])
    BY <2>1
  <2>3. i = m
    BY <1>0, <1>3, <2>2
  <2>. QED
    BY <2>2, <2>3, <1>0
<1>5. ASSUME NEW i \in 1 .. Len(s), i <= m PROVE s[i] <= n
  <2>1. s[m] <= n /\ m \in 1 .. Len(s)
    BY <1>0, <1>3, <1>4, <1>5
  <2>2. i = m \/ s[i] <= s[m]
    BY <1>0, <1>5, <2>1 DEF Sorted
  <2>. QED
    BY <1>0, <2>1, <2>2
<1>6. {i \in DOMAIN s : s[i] <= n} = 1 .. m
  <2>1. ASSUME NEW i \in 1 .. Len(s) PROVE s[i] <= n <=> i <= m
    BY <1>0, <1>3, <1>5
  <2>. QED
    BY <1>0, <1>3, <2>1
<1>7. k = m
  <2>1. 1 \in Int /\ m \in Int /\ m \in Nat
    BY <1>0, <1>3
  <2>2. Cardinality(1 .. m) = IF 1 > m THEN 0 ELSE m - 1 + 1
    BY <2>1, FS_Interval
  <2>3. Cardinality(1 .. m) = m
    BY <2>1, <2>2
  <2>. QED
    BY <1>6, <2>3, Zenon
<1>8. ASSUME NEW i \in 1 .. Len(s), i > m PROVE n <= s[i]
  BY <1>0, <1>3, <1>8
<1>. HIDE DEF T
<1>. QED
  BY <1>3, <1>5, <1>7, <1>8, Zenon

\* q is s with n put in behind its first k names.
Inserted(s, n, q, k) ==
  /\ \A i \in 1 .. Len(s) : i <= k => s[i] <= n
  /\ \A i \in 1 .. Len(s) : i > k => n <= s[i]
  /\ \A i \in 1 .. Len(s) + 1 :
       q[i] = IF i <= k THEN s[i] ELSE IF i = k + 1 THEN n ELSE s[i - 1]

LEMMA InsertResult ==
  ASSUME NEW s \in Lists, NEW n \in Names, Len(s) < MaxCount, NEW q, q = insertSorted(s, n)
  PROVE  /\ q \in Seq(Names) /\ Len(q) = Len(s) + 1
         /\ \E k \in 0 .. Len(s) : Inserted(s, n, q, k)
<1>. DEFINE k == Cardinality({i \in DOMAIN s : s[i] <= n})
            a == SubSeq(s, 1, k)
            b == SubSeq(s, k + 1, Len(s))
            c == a \o <<n>>
<1>0. s \in Seq(Names) /\ Len(s) \in Nat /\ MaxCount \in Nat
  BY ListFacts, PathsAre
<1>1. /\ k \in 0 .. Len(s)
      /\ \A i \in 1 .. Len(s) : i <= k => s[i] <= n
      /\ \A i \in 1 .. Len(s) : i > k => n <= s[i]
  BY BeforeResult
<1>2. q = c \o b
  BY <1>0, ~(Len(s) >= MaxCount) DEF insertSorted
<1>. HIDE DEF k
<1>3. a \in Seq(Names) /\ Len(a) = k /\ \A i \in 1 .. k : a[i] = s[i]
  BY <1>0, <1>1, PrefixResult
<1>4. b \in Seq(Names) /\ Len(b) = Len(s) - k /\ \A i \in 1 .. Len(s) - k : b[i] = s[k + i]
  BY <1>0, <1>1, SuffixResult
<1>. HIDE DEF a, b
<1>5. <<n>> \in Seq(Names) /\ Len(<<n>>) = 1 /\ <<n>>[1] = n
  OBVIOUS
<1>6. /\ c \in Seq(Names) /\ Len(c) = Len(a) + 1
      /\ \A i \in 1 .. Len(a) + 1 : c[i] = IF i <= Len(a) THEN a[i] ELSE <<n>>[i - Len(a)]
  BY <1>3, <1>5, JoinResult
<1>. HIDE DEF c
<1>7. /\ q \in Seq(Names) /\ Len(q) = Len(c) + Len(b)
      /\ \A i \in 1 .. Len(c) + Len(b) : q[i] = IF i <= Len(c) THEN c[i] ELSE b[i - Len(c)]
  BY <1>2, <1>4, <1>6, JoinResult, ZenonT(60)
<1>8. Len(q) = Len(s) + 1
  BY <1>0, <1>1, <1>3, <1>4, <1>6, <1>7
<1>9. ASSUME NEW i \in 1 .. Len(s) + 1
      PROVE  q[i] = IF i <= k THEN s[i] ELSE IF i = k + 1 THEN n ELSE s[i - 1]
  <2>0. i \in 1 .. Len(c) + Len(b)
    BY <1>0, <1>1, <1>3, <1>4, <1>6
  <2>1. CASE i <= k
    <3>1. i <= Len(c) /\ i \in 1 .. Len(a) + 1 /\ i <= Len(a) /\ i \in 1 .. k
      BY <1>0, <1>1, <1>3, <1>6, <2>1
    <3>. QED
      BY <2>0, <2>1, <3>1, <1>3, <1>6, <1>7
  <2>2. CASE i = k + 1
    <3>1. /\ i <= Len(c) /\ i \in 1 .. Len(a) + 1 /\ ~(i <= Len(a)) /\ i - Len(a) = 1
          /\ ~(i <= k)
      BY <1>0, <1>1, <1>3, <1>6, <2>2
    <3>2. q[i] = c[i] /\ c[i] = <<n>>[1]
      BY <2>0, <3>1, <1>6, <1>7
    <3>. QED
      BY <2>2, <3>1, <3>2, <1>5
  <2>3. CASE i > k + 1
    <3>1. /\ ~(i <= Len(c)) /\ i - Len(c) \in 1 .. Len(s) - k /\ k + (i - Len(c)) = i - 1
          /\ ~(i <= k) /\ i # k + 1
      BY <1>0, <1>1, <1>3, <1>6, <2>3
    <3>2. q[i] = b[i - Len(c)]
      BY <2>0, <3>1, <1>7
    <3>. QED
      BY <3>1, <3>2, <1>4
  <2>. QED
    BY <1>0, <1>1, <2>1, <2>2, <2>3
<1>10. Inserted(s, n, q, k)
  BY <1>1, <1>9 DEF Inserted
<1>. QED
  BY <1>1, <1>7, <1>8, <1>10

LEMMA InsertKeepsList ==
  ASSUME NEW s \in Lists, NEW n \in Names, NEW q, q = insertSorted(s, n)
  PROVE  q \in Lists
<1>0. /\ s \in Seq(Names) /\ Len(s) \in Nat /\ Sorted(s) /\ n \in Nat /\ MaxCount \in Nat
      /\ \A i \in 1 .. Len(s) : s[i] \in Nat
  BY ListFacts, PathsAre
<1>1. CASE Len(s) >= MaxCount
  BY <1>1 DEF insertSorted
<1>2. CASE Len(s) < MaxCount
  <2>1. /\ q \in Seq(Names) /\ Len(q) = Len(s) + 1
        /\ \E k \in 0 .. Len(s) : Inserted(s, n, q, k)
    BY <1>2, InsertResult
  <2>2. PICK k \in 0 .. Len(s) :
             /\ \A i \in 1 .. Len(s) : i <= k => s[i] <= n
             /\ \A i \in 1 .. Len(s) : i > k => n <= s[i]
             /\ \A i \in 1 .. Len(s) + 1 :
                  q[i] = IF i <= k THEN s[i] ELSE IF i = k + 1 THEN n ELSE s[i - 1]
    BY <2>1, Zenon DEF Inserted
  <2>3. ASSUME NEW i \in 1 .. Len(q), NEW j \in 1 .. Len(q), i < j PROVE q[i] <= q[j]
    <3>0. i \in 1 .. Len(s) + 1 /\ j \in 1 .. Len(s) + 1
      BY <2>1
    <3>1. CASE j <= k
      <4>1. i <= k /\ i \in 1 .. Len(s) /\ j \in 1 .. Len(s)
        BY <1>0, <2>3, <3>0, <3>1
      <4>2. q[i] = s[i] /\ q[j] = s[j]
        BY <2>2, <3>0, <3>1, <4>1
      <4>. QED
        BY <4>1, <4>2, <2>3, <1>0 DEF Sorted
    <3>2. CASE j = k + 1
      <4>1. i <= k /\ i \in 1 .. Len(s) /\ ~(j <= k)
        BY <1>0, <2>3, <3>0, <3>2
      <4>2. q[i] = s[i] /\ q[j] = n
        BY <2>2, <3>0, <3>2, <4>1
      <4>. QED
        BY <4>1, <4>2, <2>2
    <3>3. CASE j > k + 1
      <4>1. j - 1 > k /\ j - 1 \in 1 .. Len(s) /\ ~(j <= k) /\ j # k + 1
        BY <1>0, <2>3, <3>0, <3>3
      <4>2. q[j] = s[j - 1] /\ n <= s[j - 1]
        BY <2>2, <3>0, <4>1
      <4>3. CASE i <= k
        <5>1. i \in 1 .. Len(s) /\ i < j - 1
          BY <1>0, <4>3, <3>0, <4>1
        <5>2. q[i] = s[i] /\ s[i] <= s[j - 1]
          BY <5>1, <4>1, <4>3, <2>2, <3>0, <1>0 DEF Sorted
        <5>. QED
          BY <5>2, <4>2
      <4>4. CASE i = k + 1
        <5>1. q[i] = n
          BY <4>4, <2>2, <3>0, ~(k + 1 <= k)
        <5>. QED
          BY <5>1, <4>2
      <4>5. CASE i > k + 1
        <5>1. i - 1 \in 1 .. Len(s) /\ i - 1 < j - 1 /\ ~(i <= k) /\ i # k + 1
          BY <1>0, <4>5, <3>0, <4>1, <2>3
        <5>2. q[i] = s[i - 1] /\ s[i - 1] <= s[j - 1]
          BY <5>1, <4>1, <2>2, <3>0, <1>0 DEF Sorted
        <5>. QED
          BY <5>2, <4>2
      <4>. QED
        BY <3>0, <4>3, <4>4, <4>5
    <3>. QED
      BY <3>0, <3>1, <3>2, <3>3
  <2>4. Len(q) <= MaxCount
    BY <1>0, <1>2, <2>1
  <2>. QED
    BY <2>1, <2>3, <2>4 DEF Lists, Sorted
<1>. QED
  BY <1>0, <1>1, <1>2

\* What the two do to the set of names that are listed.
LEMMA RemoveSet ==
  ASSUME NEW s \in Lists, NEW p \in 1 .. Len(s), NEW q, q = removeAt(s, p)
  PROVE  /\ ToSet(q) \subseteq ToSet(s)
         /\ \A n \in ToSet(s) : n # s[p] => n \in ToSet(q)
         /\ IsInjective(s) => IsInjective(q) /\ s[p] \notin ToSet(q)
<1>0. s \in Seq(Names) /\ Len(s) \in Nat /\ DOMAIN s = 1 .. Len(s)
  BY ListFacts
<1>1. /\ q \in Seq(Names) /\ Len(q) = Len(s) - 1
      /\ \A i \in 1 .. Len(s) - 1 : q[i] = IF i < p THEN s[i] ELSE s[i + 1]
  BY <1>0, RemoveResult
<1>2. DOMAIN q = 1 .. Len(s) - 1
  BY <1>1
<1>3. \A i \in 1 .. Len(s) - 1 : \E j \in 1 .. Len(s) : j # p /\ q[i] = s[j]
  BY <1>0, <1>1
<1>4. ASSUME NEW n \in ToSet(s), n # s[p] PROVE n \in ToSet(q)
  <2>1. PICK j \in 1 .. Len(s) : n = s[j]
    BY <1>0 DEF ToSet
  <2>2. CASE j < p
    <3>1. j \in 1 .. Len(s) - 1 /\ q[j] = n
      BY <1>0, <1>1, <2>1, <2>2
    <3>. QED
      BY <3>1, <1>2 DEF ToSet
  <2>3. CASE j > p
    <3>1. j - 1 \in 1 .. Len(s) - 1 /\ ~(j - 1 < p) /\ (j - 1) + 1 = j
      BY <1>0, <2>3
    <3>2. q[j - 1] = n
      BY <3>1, <1>1, <2>1
    <3>. QED
      BY <3>1, <3>2, <1>2 DEF ToSet
  <2>4. j < p \/ j > p
    <3>1. j # p
      BY <1>4, <2>1, Zenon
    <3>. QED
      BY <1>0, <3>1
  <2>. QED
    BY <2>2, <2>3, <2>4
<1>5. ASSUME IsInjective(s) PROVE IsInjective(q) /\ s[p] \notin ToSet(q)
  <2>1. \A i, j \in 1 .. Len(s) : s[i] = s[j] => i = j
    BY <1>0, <1>5 DEF IsInjective
  <2>2. s[p] \notin ToSet(q)
    <3>. SUFFICES ASSUME s[p] \in ToSet(q) PROVE FALSE
      OBVIOUS
    <3>1. PICK i \in 1 .. Len(s) - 1 : q[i] = s[p]
      BY <1>2 DEF ToSet
    <3>2. PICK j \in 1 .. Len(s) : j # p /\ q[i] = s[j]
      BY <1>3, Zenon
    <3>. QED
      BY <3>1, <3>2, <2>1, Zenon
  <2>3. ASSUME NEW i \in 1 .. Len(s) - 1, NEW j \in 1 .. Len(s) - 1, q[i] = q[j] PROVE i = j
    <3>1. /\ i \in 1 .. Len(s) /\ i + 1 \in 1 .. Len(s)
          /\ j \in 1 .. Len(s) /\ j + 1 \in 1 .. Len(s)
      BY <1>0
    <3>2. q[i] = (IF i < p THEN s[i] ELSE s[i + 1]) /\ q[j] = IF j < p THEN s[j] ELSE s[j + 1]
      BY <1>1
    <3>3. CASE i < p /\ j < p
      BY <2>3, <3>1, <3>2, <3>3, <2>1
    <3>4. CASE i < p /\ ~(j < p)
      <4>1. i = j + 1
        BY <2>3, <3>1, <3>2, <3>4, <2>1
      <4>. QED
        BY <4>1, <3>4
    <3>5. CASE ~(i < p) /\ j < p
      <4>1. i + 1 = j
        BY <2>3, <3>1, <3>2, <3>5, <2>1
      <4>. QED
        BY <4>1, <3>5
    <3>6. CASE ~(i < p) /\ ~(j < p)
      <4>1. i + 1 = j + 1
        BY <2>3, <3>1, <3>2, <3>6, <2>1
      <4>. QED
        BY <4>1
    <3>. QED
      BY <3>3, <3>4, <3>5, <3>6
  <2>. QED
    BY <2>2, <2>3, <1>2 DEF IsInjective
<1>6. ToSet(q) \subseteq ToSet(s)
  BY <1>0, <1>2, <1>3, ZenonT(60) DEF ToSet
<1>. QED
  BY <1>4, <1>5, <1>6, Zenon

LEMMA InsertSet ==
  ASSUME NEW s \in Lists, NEW n \in Names, NEW q, q = insertSorted(s, n)
  PROVE  /\ ToSet(q) \subseteq ToSet(s) \cup {n}
         /\ ToSet(s) \subseteq ToSet(q)
         /\ n \in ToSet(q) \/ Len(q) = MaxCount
<1>0. /\ s \in Seq(Names) /\ Len(s) \in Nat /\ DOMAIN s = 1 .. Len(s) /\ MaxCount \in Nat
      /\ Len(s) <= MaxCount
  BY ListFacts, PathsAre
<1>1. CASE Len(s) >= MaxCount
  <2>0. q = s
    BY <1>1 DEF insertSorted
  <2>1. q = s /\ Len(q) = MaxCount
    <3>1. Len(s) \in Nat /\ MaxCount \in Nat /\ Len(s) <= MaxCount
      BY <1>0
    <3>2. Len(s) = MaxCount
      BY <3>1, <1>1
    <3>. QED
      BY <2>0, <3>2
  <2>2. ToSet(q) = ToSet(s)
    BY <2>1, Zenon
  <2>. QED
    BY <2>1, <2>2, Zenon
<1>2. CASE Len(s) < MaxCount
  <2>1. q \in Seq(Names) /\ Len(q) = Len(s) + 1 /\ \E k \in 0 .. Len(s) : Inserted(s, n, q, k)
    BY <1>2, InsertResult
  <2>2. PICK k \in 0 .. Len(s) :
             \A i \in 1 .. Len(s) + 1 :
               q[i] = IF i <= k THEN s[i] ELSE IF i = k + 1 THEN n ELSE s[i - 1]
    BY <2>1, Zenon DEF Inserted
  <2>3. DOMAIN q = 1 .. Len(s) + 1
    BY <2>1
  <2>4. ASSUME NEW i \in 1 .. Len(s) + 1 PROVE q[i] = n \/ \E j \in 1 .. Len(s) : q[i] = s[j]
    <3>1. CASE i <= k
      BY <1>0, <2>2, <3>1
    <3>2. CASE i = k + 1
      BY <1>0, <2>2, <3>2, ~(i <= k)
    <3>3. CASE i > k + 1
      <4>1. i - 1 \in 1 .. Len(s) /\ ~(i <= k) /\ i # k + 1
        BY <1>0, <3>3
      <4>. QED
        BY <2>2, <4>1
    <3>. QED
      BY <1>0, <3>1, <3>2, <3>3
  <2>5. ASSUME NEW j \in 1 .. Len(s) PROVE \E i \in 1 .. Len(s) + 1 : q[i] = s[j]
    <3>1. CASE j <= k
      BY <1>0, <2>2, <3>1
    <3>2. CASE ~(j <= k)
      <4>1. j + 1 \in 1 .. Len(s) + 1 /\ ~(j + 1 <= k) /\ j + 1 # k + 1 /\ (j + 1) - 1 = j
        BY <1>0, <3>2
      <4>2. q[j + 1] = s[j]
        BY <2>2, <4>1
      <4>. QED
        BY <4>1, <4>2
    <3>. QED
      BY <3>1, <3>2
  <2>6. q[k + 1] = n /\ k + 1 \in 1 .. Len(s) + 1
    BY <1>0, <2>2, ~(k + 1 <= k)
  <2>7. n \in ToSet(q)
    BY <2>3, <2>6, Zenon DEF ToSet
  <2>8. ToSet(q) \subseteq ToSet(s) \cup {n}
    BY <1>0, <2>3, <2>4, Zenon DEF ToSet
  <2>9. ToSet(s) \subseteq ToSet(q)
    BY <1>0, <2>3, <2>5, Zenon DEF ToSet
  <2>. QED
    BY <2>7, <2>8, <2>9
<1>. QED
  BY <1>0, <1>1, <1>2

\* An increasing map of 1 .. m into 1 .. n is no slower than the identity.
LEMMA NoSlower ==
  ASSUME NEW m \in Nat, NEW n \in Nat, NEW f \in [1 .. m -> 1 .. n], Increasing(f)
  PROVE  \A i \in 1 .. m : i <= f[i]
<1>. DEFINE T == {i \in 1 .. m : f[i] < i}
<1>. SUFFICES ASSUME T # {} PROVE FALSE
  <2>1. \A i \in 1 .. m : f[i] \in Nat
    OBVIOUS
  <2>. QED
    BY <2>1
<1>1. T \in SUBSET Nat
  OBVIOUS
<1>2. PICK i \in T : \A j \in T : i <= j
  BY <1>1, Least, Zenon
<1>3. i \in 1 .. m /\ f[i] < i /\ f[i] \in 1 .. n
  BY <1>2
<1>4. i - 1 \in 1 .. m /\ i - 1 < i /\ ~(i <= i - 1)
  BY <1>3
<1>5. f[i - 1] < f[i] /\ f[i - 1] \in 1 .. n
  BY <1>3, <1>4 DEF Increasing
<1>6. i - 1 \in T
  BY <1>3, <1>4, <1>5
<1>. HIDE DEF T
<1>. QED
  BY <1>2, <1>4, <1>6, Zenon

\* An increasing map of 1 .. n to itself is the identity.
LEMMA OnlyIdentity ==
  ASSUME NEW n \in Nat, NEW f \in [1 .. n -> 1 .. n], Increasing(f)
  PROVE  \A i \in 1 .. n : f[i] = i
<1>. DEFINE T == {d \in 0 .. n : n - d \in 1 .. n /\ f[n - d] > n - d}
<1>1. \A i \in 1 .. n : i <= f[i]
  BY NoSlower
<1>. SUFFICES ASSUME T # {} PROVE FALSE
  <2>0. T = {}
    OBVIOUS
  <2>1. ASSUME NEW i \in 1 .. n PROVE f[i] = i
    <3>1. n - i \in 0 .. n /\ n - (n - i) = i
      OBVIOUS
    <3>2. n - i \notin T
      BY <2>0, Zenon
    <3>3. ~(f[i] > i)
      BY <3>1, <3>2
    <3>. QED
      BY <3>3, <1>1
  <2>. QED
    BY <2>1
<1>2. T \in SUBSET Nat
  OBVIOUS
<1>3. PICK d \in T : \A e \in T : d <= e
  BY <1>2, Least, Zenon
<1>. DEFINE i == n - d
<1>4. d \in 0 .. n /\ i \in 1 .. n /\ f[i] > i /\ f[i] \in 1 .. n
  BY <1>3
<1>5. d - 1 \in 0 .. n /\ i + 1 \in 1 .. n /\ n - (d - 1) = i + 1 /\ ~(d <= d - 1)
  BY <1>4
<1>. HIDE DEF i
<1>6. f[i] < f[i + 1] /\ f[i + 1] \in 1 .. n
  <2>1. i < i + 1 /\ i \in DOMAIN f /\ i + 1 \in DOMAIN f
    BY <1>4, <1>5
  <2>2. f[i] < f[i + 1]
    BY <2>1, Zenon DEF Increasing
  <2>. QED
    BY <2>2, <1>5
<1>7. f[i + 1] > i + 1
  BY <1>4, <1>6, SMTT(60)
<1>8. d - 1 \in T
  <2>1. n - (d - 1) \in 1 .. n /\ f[n - (d - 1)] > n - (d - 1)
    BY <1>5, <1>7
  <2>. QED
    BY <1>5, <2>1, Zenon
<1>. HIDE DEF T
<1>. QED
  BY <1>3, <1>5, <1>8, Zenon

LEMMA NatAntisym == \A a, b \in Nat : a <= b /\ b <= a => a = b
  OBVIOUS

\* Two increasing sequences, the one of elements of the other and as long, are equal.
LEMMA SameIncreasing ==
  ASSUME NEW p \in Seq(Nat), NEW q \in Seq(Nat), Increasing(p), Increasing(q),
         ToSet(p) \subseteq ToSet(q), Len(q) <= Len(p) \/ ToSet(q) \subseteq ToSet(p)
  PROVE  p = q
<1>0. /\ Len(p) \in Nat /\ Len(q) \in Nat /\ DOMAIN p = 1 .. Len(p) /\ DOMAIN q = 1 .. Len(q)
      /\ \A i \in 1 .. Len(p) : p[i] \in Nat
      /\ \A i \in 1 .. Len(q) : q[i] \in Nat
  OBVIOUS
<1>1. ASSUME NEW s \in Seq(Nat), NEW t \in Seq(Nat), Increasing(s), Increasing(t),
             ToSet(s) \subseteq ToSet(t)
      PROVE  \E f \in [1 .. Len(s) -> 1 .. Len(t)] :
               Increasing(f) /\ \A i \in 1 .. Len(s) : s[i] = t[f[i]]
  <2>. DEFINE f == [i \in 1 .. Len(s) |-> CHOOSE j \in 1 .. Len(t) : s[i] = t[j]]
  <2>0. /\ Len(s) \in Nat /\ Len(t) \in Nat /\ DOMAIN s = 1 .. Len(s) /\ DOMAIN t = 1 .. Len(t)
        /\ \A i \in 1 .. Len(s) : s[i] \in Nat
        /\ \A i \in 1 .. Len(t) : t[i] \in Nat
    BY <1>1
  <2>1. \A i \in 1 .. Len(s) : \E j \in 1 .. Len(t) : s[i] = t[j]
    BY <1>1, <2>0, Zenon DEF ToSet
  <2>2. \A i \in 1 .. Len(s) : f[i] \in 1 .. Len(t) /\ s[i] = t[f[i]]
    BY <2>1, Zenon
  <2>3. f \in [1 .. Len(s) -> 1 .. Len(t)] /\ DOMAIN f = 1 .. Len(s)
    BY <2>2, Zenon
  <2>. HIDE DEF f
  <2>4. ASSUME NEW i \in 1 .. Len(s), NEW j \in 1 .. Len(s), i < j PROVE f[i] < f[j]
    <3>1. s[i] < s[j]
      BY <1>1, <2>0, <2>4 DEF Increasing
    <3>2. t[f[i]] < t[f[j]] /\ f[i] \in 1 .. Len(t) /\ f[j] \in 1 .. Len(t)
      BY <2>2, <3>1
    <3>3. ~(f[j] < f[i])
      <4>. SUFFICES ASSUME f[j] < f[i] PROVE FALSE
        OBVIOUS
      <4>1. t[f[j]] < t[f[i]]
        BY <1>1, <2>0, <3>2 DEF Increasing
      <4>. QED
        BY <4>1, <3>2, <2>0, SMTT(60)
    <3>4. f[i] # f[j]
      BY <3>2, <2>0
    <3>. QED
      BY <3>2, <3>3, <3>4
  <2>5. Increasing(f)
    BY <2>3, <2>4 DEF Increasing
  <2>. QED
    BY <2>2, <2>3, <2>5
<1>2. PICK f \in [1 .. Len(p) -> 1 .. Len(q)] :
        Increasing(f) /\ \A i \in 1 .. Len(p) : p[i] = q[f[i]]
  BY <1>1
<1>3. Len(p) <= Len(q)
  <2>1. CASE Len(p) = 0
    BY <1>0, <2>1
  <2>2. CASE Len(p) # 0
    <3>1. Len(p) \in 1 .. Len(p)
      BY <1>0, <2>2
    <3>2. Len(p) <= f[Len(p)] /\ f[Len(p)] \in 1 .. Len(q)
      BY <1>0, <1>2, <3>1, NoSlower
    <3>. QED
      BY <1>0, <3>2
  <2>. QED
    BY <2>1, <2>2
<1>4. Len(q) <= Len(p)
  <2>1. CASE ToSet(q) \subseteq ToSet(p)
    <3>1. PICK g \in [1 .. Len(q) -> 1 .. Len(p)] :
            Increasing(g) /\ \A i \in 1 .. Len(q) : q[i] = p[g[i]]
      BY <1>1, <2>1
    <3>2. CASE Len(q) = 0
      BY <1>0, <3>2
    <3>3. CASE Len(q) # 0
      <4>1. Len(q) \in 1 .. Len(q)
        BY <1>0, <3>3
      <4>2. Len(q) <= g[Len(q)] /\ g[Len(q)] \in 1 .. Len(p)
        BY <1>0, <3>1, <4>1, NoSlower
      <4>. QED
        BY <1>0, <4>2
    <3>. QED
      BY <3>2, <3>3
  <2>. QED
    BY <2>1
<1>5. Len(p) = Len(q)
  BY <1>0, <1>3, <1>4, NatAntisym, Zenon
<1>6. \A i \in 1 .. Len(p) : f[i] = i
  BY <1>0, <1>2, <1>5, OnlyIdentity
<1>7. \A i \in 1 .. Len(p) : p[i] = q[i]
  BY <1>2, <1>6
<1>. QED
  BY <1>5, <1>7, SeqEqual

-----------------------------------------------------------------------------
(***************************************************************************)
(* The card.                                                               *)
(***************************************************************************)
Holds == {"closed", "partial"}
Cards == UNION {[D -> Holds] : D \in SUBSET Paths}

LEMMA CardFacts ==
  ASSUME NEW f \in Cards
  PROVE  DOMAIN f \subseteq Paths /\ (\A n \in DOMAIN f : f[n] \in Holds)
<1>1. PICK D \in SUBSET Paths : f \in [D -> Holds]
  BY DEF Cards
<1>. QED
  BY <1>1

LEMMA CardIs ==
  ASSUME NEW D \in SUBSET Paths, NEW f \in [D -> Holds] PROVE f \in Cards
  BY DEF Cards

\* g is the card f with the file n holding h, and without the file n.
Wrote(f, n, h, g) == /\ g \in Cards /\ DOMAIN g = DOMAIN f \cup {n} /\ g[n] = h
                     /\ \A m \in DOMAIN f : m # n => g[m] = f[m]
Took(f, n, g)     == /\ g \in Cards /\ DOMAIN g = DOMAIN f \ {n}
                     /\ \A m \in DOMAIN g : g[m] = f[m]

LEMMA WithResult ==
  ASSUME NEW f \in Cards, NEW n \in Paths, NEW h \in Holds, NEW g, g = With(f, n, h)
  PROVE  Wrote(f, n, h, g)
<1>1. DOMAIN f \subseteq Paths /\ (\A m \in DOMAIN f : f[m] \in Holds)
  BY CardFacts, Zenon
<1>2. g = [m \in DOMAIN f \cup {n} |-> IF m = n THEN h ELSE f[m]]
  BY DEF With
<1>3. g \in [DOMAIN f \cup {n} -> Holds] /\ DOMAIN f \cup {n} \in SUBSET Paths
  BY <1>1, <1>2
<1>4. g \in Cards
  BY <1>3, CardIs, Zenon
<1>. QED
  BY <1>2, <1>4 DEF Wrote

LEMMA WithoutResult ==
  ASSUME NEW f \in Cards, NEW n, NEW g, g = Without(f, n)
  PROVE  Took(f, n, g)
<1>1. DOMAIN f \subseteq Paths /\ (\A m \in DOMAIN f : f[m] \in Holds)
  BY CardFacts, Zenon
<1>2. g = [m \in DOMAIN f \ {n} |-> f[m]]
  BY DEF Without
<1>3. g \in [DOMAIN f \ {n} -> Holds] /\ DOMAIN f \ {n} \in SUBSET Paths
  BY <1>1, <1>2
<1>4. g \in Cards
  BY <1>3, CardIs, Zenon
<1>. QED
  BY <1>2, <1>4 DEF Took

LEMMA PutResult ==
  ASSUME NEW f \in Cards, NEW n \in DOMAIN f, NEW h \in Holds, NEW g, g = [f EXCEPT ![n] = h]
  PROVE  Wrote(f, n, h, g)
<1>1. DOMAIN f \subseteq Paths /\ (\A m \in DOMAIN f : f[m] \in Holds)
  BY CardFacts, Zenon
<1>2. /\ DOMAIN g = DOMAIN f /\ g[n] = h
      /\ \A m \in DOMAIN f : m # n => g[m] = f[m]
  OBVIOUS
<1>3. g \in [DOMAIN f -> Holds] /\ DOMAIN f \in SUBSET Paths
  BY <1>1
<1>4. g \in Cards
  BY <1>3, CardIs, Zenon
<1>. QED
  BY <1>2, <1>4 DEF Wrote

LEMMA LeftBehindResult ==
  ASSUME NEW f \in Cards, NEW g, g = LeftBehind(f)
  PROVE  /\ g \in Cards /\ DOMAIN g = DOMAIN f
         /\ \A m \in DOMAIN f : g[m] = "closed"
<1>1. DOMAIN f \subseteq Paths /\ (\A m \in DOMAIN f : f[m] \in Holds)
  BY CardFacts, Zenon
<1>2. g = [m \in DOMAIN f |-> "closed"]
  BY DEF LeftBehind
<1>3. g \in [DOMAIN f -> Holds] /\ DOMAIN f \in SUBSET Paths
  BY <1>1, <1>2 DEF Holds
<1>4. g \in Cards
  BY <1>3, CardIs, Zenon
<1>. QED
  BY <1>2, <1>4

-----------------------------------------------------------------------------
(***************************************************************************)
(* The operations of the library.                                          *)
(***************************************************************************)
Marks == {"current", "stale", "bad"}
Libs  == [files : Cards, names : Lists, bin : Marks, txt : Marks, open : {Closed}]

\* ManifestsAgree, of a library.
Agree(l) == l.bin # "bad" /\ l.txt # "bad" => l.bin = "current" /\ l.txt = "current"

LEMMA LibFacts ==
  ASSUME NEW l \in Libs
  PROVE  /\ l.files \in Cards /\ l.names \in Lists /\ l.open = Closed
         /\ l.bin \in Marks /\ l.txt \in Marks
  BY DEF Libs

LEMMA CloseResult ==
  ASSUME NEW l \in Libs
  PROVE  CloseFile(l) = l /\ \A id : CloseIfOpen(l, id) = l
<1>1. CloseFile(l) = l
  BY DEF Libs, CloseFile
<1>. QED
  BY <1>1 DEF CloseIfOpen

LEMMA FilesResult ==
  ASSUME NEW l \in Libs, NEW f \in Cards, NEW y, y = [l EXCEPT !.files = f]
  PROVE  /\ y \in Libs /\ y.files = f /\ y.names = l.names
         /\ y.bin = l.bin /\ y.txt = l.txt
  BY DEF Libs

LEMMA ManifestResult ==
  ASSUME NEW l \in Libs, NEW fault \in ManifestFaults, NEW y, y = writeManifest(l, fault)
  PROVE  y \in Libs /\ y.files = l.files /\ y.names = l.names /\ Agree(y)
<1>1. fault.bin \in Fates /\ fault.txt \in Fates /\ Rewritten(fault.bin) \in {"current", "bad"}
      /\ Rewritten(fault.txt) \in {"current", "bad"}
  BY DEF ManifestFaults, Rewritten
<1>2. CASE Succeeds(fault.bin)
  <2>1. y = [l EXCEPT !.bin = Rewritten(fault.bin), !.txt = Rewritten(fault.txt)]
    BY <1>2 DEF writeManifest, Libs
  <2>. QED
    BY <1>1, <2>1 DEF Libs, Marks, Agree
<1>3. CASE ~Succeeds(fault.bin)
  <2>1. y = [l EXCEPT !.bin = "bad"]
    BY <1>3 DEF writeManifest, Libs, Succeeds, Rewritten
  <2>. QED
    BY <2>1 DEF Libs, Marks, Agree
<1>. QED
  BY <1>2, <1>3

LEMMA FaultsAre ==
  ASSUME NEW tried, NEW fault \in Faults(tried)
  PROVE  fault \in ManifestFaults /\ Reported(fault) \in BOOLEAN
<1>1. NoFault \in ManifestFaults
  BY DEF NoFault, ManifestFaults, Fates, Succeeds
<1>. QED
  BY <1>1 DEF Faults, Reported, Succeeds

LEMMA ReindexedResult ==
  ASSUME NEW l \in Libs, NEW q \in Lists, NEW y, y = Reindexed(l, q)
  PROVE  y \in Libs /\ y.files = l.files /\ y.names = q
<1>. DEFINE aged(m) == IF m = "current" /\ q # l.names THEN "stale" ELSE m
<1>1. aged(l.bin) \in Marks /\ aged(l.txt) \in Marks
  BY LibFacts DEF Marks
<1>2. y = [l EXCEPT !.names = q, !.bin = aged(l.bin), !.txt = aged(l.txt)]
  BY DEF Reindexed, Libs
<1>. HIDE DEF aged
<1>. QED
  BY <1>1, <1>2 DEF Libs

LEMMA ScanResult ==
  ASSUME NEW f \in Cards, NEW q \in scanPatterns(f)
  PROVE  /\ q \in Lists /\ Increasing(q) /\ ToSet(q) \subseteq Pat \cap DOMAIN f
         /\ ToSet(q) = Pat \cap DOMAIN f \/ Len(q) = MaxCount
<1>. DEFINE found == Pat \cap DOMAIN f
<1>1. /\ q \in UNION {[1 .. k -> found] : k \in 0 .. MaxCount}
      /\ Increasing(q) /\ (ToSet(q) = found \/ Len(q) = MaxCount)
  BY DEF scanPatterns
<1>2. found \subseteq Names /\ found \subseteq Nat
  BY LibraryAssumption, PathsAre
<1>. HIDE DEF found
<1>3. PICK k \in 0 .. MaxCount : q \in [1 .. k -> found]
  BY <1>1
<1>4. k \in Nat /\ k <= MaxCount
  BY PathsAre
<1>5. q \in [1 .. k -> Names]
  BY <1>2, <1>3
<1>6. q \in Seq(Names) /\ Len(q) = k
  BY <1>4, <1>5
<1>7. ASSUME NEW i \in 1 .. k, NEW j \in 1 .. k, i < j PROVE q[i] <= q[j]
  <2>1. q[i] < q[j] /\ q[i] \in Nat /\ q[j] \in Nat
    BY <1>1, <1>2, <1>3, <1>7 DEF Increasing
  <2>. QED
    BY <2>1
<1>8. q \in Lists
  BY <1>4, <1>6, <1>7 DEF Lists, Sorted
<1>9. ToSet(q) \subseteq found
  BY <1>3 DEF ToSet
<1>. QED
  BY <1>1, <1>8, <1>9 DEF found

LEMMA BeginResult ==
  ASSUME NEW l \in Libs, NEW fault \in ManifestFaults, NEW y \in begin(l, fault)
  PROVE  y \in Libs /\ y.files = l.files /\ Agree(y) /\ y.names \in scanPatterns(l.files)
<1>1. PICK q \in scanPatterns(l.files) : y = writeManifest(CloseFile(Reindexed(l, q)), fault)
  BY DEF begin
<1>2. q \in Lists
  BY LibFacts, ScanResult
<1>. DEFINE r == Reindexed(l, q)
<1>3. r \in Libs /\ r.files = l.files /\ r.names = q
  BY <1>2, ReindexedResult
<1>. HIDE DEF r
<1>4. y = writeManifest(r, fault)
  BY <1>1, <1>3, CloseResult DEF r
<1>. QED
  BY <1>3, <1>4, ManifestResult

\* A new card and a new index, and the manifests written again.
LEMMA RewrittenResult ==
  ASSUME NEW l \in Libs, NEW f \in Cards, NEW q \in Lists, NEW fault \in ManifestFaults,
         NEW y, y = writeManifest(Reindexed([l EXCEPT !.files = f], q), fault)
  PROVE  y \in Libs /\ y.files = f /\ y.names = q /\ Agree(y)
<1>. DEFINE a == [l EXCEPT !.files = f]
            b == Reindexed(a, q)
<1>1. a \in Libs /\ a.files = f
  BY FilesResult
<1>. HIDE DEF a
<1>2. b \in Libs /\ b.files = f /\ b.names = q
  BY <1>1, ReindexedResult
<1>3. y = writeManifest(b, fault)
  BY DEF a
<1>. HIDE DEF b
<1>. QED
  BY <1>2, <1>3, ManifestResult

LEMMA PathOfIs ==
  ASSUME NEW l \in Libs, NEW id \in 0 .. Len(l.names)
  PROVE  /\ PathOf(l, id) \in Paths
         /\ id # 0 => id \in 1 .. Len(l.names) /\ PathOf(l, id) = l.names[id] /\ l.names[id] \in Names
         /\ id = 0 => PathOf(l, id) = Temp
<1>1. Len(l.names) \in Nat /\ \A i \in 1 .. Len(l.names) : l.names[i] \in Names
  BY LibFacts, ListFacts
<1>2. CASE id = 0
  BY <1>2, PathsAre DEF PathOf
<1>3. CASE id # 0
  <2>1. id \in 1 .. Len(l.names)
    BY <1>1, <1>3
  <2>2. PathOf(l, id) = l.names[id]
    BY <1>3 DEF PathOf
  <2>3. l.names[id] \in Names
    BY <1>1, <2>1
  <2>. QED
    BY <1>3, <2>1, <2>2, <2>3, PathsAre
<1>. QED
  BY <1>2, <1>3

\* y is l with the pattern id deleted, and with it renamed to n.
Rest(l, id) == IF id = 0 THEN l.names ELSE removeAt(l.names, id)
Deleted(l, id, y) ==
  /\ y \in Libs /\ Agree(y) /\ y.names = Rest(l, id)
  /\ y.files = Without(l.files, PathOf(l, id))
Renamed(l, id, n, y) ==
  /\ y \in Libs /\ Agree(y) /\ y.names = insertSorted(Rest(l, id), n)
  /\ y.files = With(Without(l.files, PathOf(l, id)), n, l.files[PathOf(l, id)])

LEMMA DeleteResult ==
  ASSUME NEW l \in Libs, NEW id \in 0 .. Len(l.names), NEW removed \in BOOLEAN,
         NEW fault \in ManifestFaults, NEW y, y = deletePattern(l, id, removed, fault)
  PROVE  /\ ~(removed /\ PathOf(l, id) \in DOMAIN l.files) => y = l
         /\ removed /\ PathOf(l, id) \in DOMAIN l.files => Deleted(l, id, y)
<1>. DEFINE n == PathOf(l, id)
            closed == IF id = 0 THEN l ELSE CloseIfOpen(l, id)
            q == IF id = 0 THEN l.names ELSE removeAt(l.names, id)
            f == Without(l.files, n)
<1>1. closed = l
  BY CloseResult
<1>2. CASE ~(removed /\ n \in DOMAIN l.files)
  BY <1>1, <1>2 DEF deletePattern
<1>3. CASE removed /\ n \in DOMAIN l.files
  <2>1. y = writeManifest(Reindexed([closed EXCEPT !.files = Without(@, n)], q), fault)
    BY <1>3 DEF deletePattern
  <2>2. y = writeManifest(Reindexed([l EXCEPT !.files = Without(l.files, n)], q), fault)
    BY <1>1, <2>1
  <2>3. q \in Lists
    BY LibFacts, PathOfIs, RemoveKeepsList
  <2>4. f \in Cards
    BY LibFacts, WithoutResult DEF Took
  <2>5. y = writeManifest(Reindexed([l EXCEPT !.files = f], q), fault)
    BY <2>2
  <2>. HIDE DEF q, f
  <2>6. y \in Libs /\ y.files = f /\ y.names = q /\ Agree(y)
    BY <2>3, <2>4, <2>5, RewrittenResult
  <2>. QED
    BY <2>6, <1>3 DEF q, f, Deleted, Rest
<1>. QED
  BY <1>2, <1>3

LEMMA RenameResult ==
  ASSUME NEW l \in Libs, NEW id \in 0 .. Len(l.names), NEW n \in Names, NEW renamed \in BOOLEAN,
         NEW fault \in ManifestFaults, NEW y, y = renamePattern(l, id, n, renamed, fault)
  PROVE  /\ ~(renamed /\ PathOf(l, id) \in DOMAIN l.files) => y = l
         /\ renamed /\ PathOf(l, id) \in DOMAIN l.files => Renamed(l, id, n, y)
<1>. DEFINE old == PathOf(l, id)
            closed == IF id = 0 THEN l ELSE CloseIfOpen(l, id)
            p == IF id = 0 THEN l.names ELSE removeAt(l.names, id)
            q == insertSorted(p, n)
            e == Without(l.files, old)
            f == With(e, n, l.files[old])
<1>1. closed = l
  BY CloseResult
<1>2. CASE ~(renamed /\ old \in DOMAIN l.files)
  BY <1>1, <1>2 DEF renamePattern
<1>3. CASE renamed /\ old \in DOMAIN l.files
  <2>1. y = writeManifest(Reindexed([closed EXCEPT !.files = With(Without(@, old), n, @[old])], q),
                          fault)
    BY <1>3 DEF renamePattern
  <2>2. y = writeManifest(Reindexed([l EXCEPT !.files =
                                       With(Without(l.files, old), n, l.files[old])], q), fault)
    BY <1>1, <2>1
  <2>3. p \in Lists
    BY LibFacts, PathOfIs, RemoveKeepsList
  <2>4. q \in Lists
    <3>. HIDE DEF p
    <3>. QED
      BY <2>3, InsertKeepsList
  <2>5. e \in Cards /\ l.files[old] \in Holds /\ n \in Paths
    BY <1>3, LibFacts, CardFacts, WithoutResult, PathsAre DEF Took
  <2>6. f \in Cards
    <3>. HIDE DEF e
    <3>. QED
      BY <2>5, WithResult DEF Wrote
  <2>7. y = writeManifest(Reindexed([l EXCEPT !.files = f], q), fault)
    BY <2>2
  <2>. HIDE DEF q, f
  <2>8. y \in Libs /\ y.files = f /\ y.names = q /\ Agree(y)
    BY <2>4, <2>6, <2>7, RewrittenResult
  <2>. QED
    BY <2>8, <1>3 DEF q, f, Renamed, Rest
<1>. QED
  BY <1>2, <1>3

LEMMA PurgeResult ==
  ASSUME NEW l \in Libs, NEW formatted \in BOOLEAN, NEW fault \in ManifestFaults,
         NEW y, y = purgeMemory(l, formatted, fault)
  PROVE  /\ ~formatted => y = l
         /\ formatted => y \in Libs /\ Agree(y) /\ DOMAIN y.files = {} /\ y.names = <<>>
<1>. DEFINE none  == [m \in {} |-> 0]
            empty == [l EXCEPT !.files = none, !.bin = "bad", !.txt = "bad"]
            r     == Reindexed(empty, <<>>)
<1>1. CASE ~formatted
  BY <1>1, CloseResult DEF purgeMemory
<1>2. CASE formatted
  <2>1. y = writeManifest(r, fault)
    BY <1>2, CloseResult DEF purgeMemory
  <2>2. none \in Cards /\ DOMAIN none = {}
    <3>1. none \in [{} -> Holds] /\ {} \in SUBSET Paths /\ DOMAIN none = {}
      OBVIOUS
    <3>. QED
      BY <3>1, CardIs, Zenon
  <2>. HIDE DEF none
  <2>3. empty \in Libs /\ empty.files = none
    BY <2>2 DEF Libs, Marks
  <2>. HIDE DEF empty
  <2>4. <<>> \in Lists
    BY PathsAre DEF Lists, Sorted
  <2>5. r \in Libs /\ r.files = none /\ r.names = <<>>
    BY <2>3, <2>4, ReindexedResult
  <2>. HIDE DEF r
  <2>6. y \in Libs /\ Agree(y) /\ y.files = none /\ y.names = <<>>
    BY <2>1, <2>5, ManifestResult
  <2>. QED
    BY <1>2, <2>2, <2>6
<1>. QED
  BY <1>1, <1>2

-----------------------------------------------------------------------------
(***************************************************************************)
(* The inductive invariant.  A transfer that has not gone astray points at *)
(* its file by its index, no name is listed twice while it lasts, and an   *)
(* upload beside a download writes another file, which stays true when the *)
(* upload goes astray: that is what TransfersKeepTheirFile lacks to be     *)
(* inductive.                                                              *)
(***************************************************************************)
Downloads == [active : BOOLEAN, src : Sources \cup {NoSource}, idx : 0 .. MaxCount, name : Paths,
              remaining : 0 .. Chunks, skew : BOOLEAN]
Phases    == {"kWriting", "kDraining"}
Uploads   == [active : BOOLEAN, src : Sources \cup {NoSource}, idx : 0 .. MaxCount, name : Paths,
              remaining : 0 .. Chunks, skew : BOOLEAN, phase : Phases]
Archives  == [active : BOOLEAN, src : Sources \cup {NoSource}]

Types ==
  /\ lib \in Libs /\ off \in BOOLEAN
  /\ dl \in Downloads /\ ul \in Uploads /\ ar \in Archives

\* Who has the turn: what is not active has no owner, and a writer and an archive
\* exclude each other.
Turns ==
  /\ \A t \in {dl, ul} : ~t.active => t.src = NoSource /\ ~t.skew
  /\ ~ar.active => ar.src = NoSource
  /\ \A t \in {dl, ul, ar} : t.active => t.src \in Sources
  /\ ul.active => ul.remaining # 0
  /\ ~(ar.active /\ ul.active)

\* The index of a transfer stands for its file.
Points(names, t) == \/ t.idx = 0 /\ t.name = Temp
                    \/ t.idx \in 1 .. Len(names) /\ names[t.idx] = t.name

DownloadHeld ==
  dl.active /\ ~dl.skew =>
    /\ IsInjective(lib.names) /\ Points(lib.names, dl)
    /\ dl.name \in DOMAIN lib.files /\ lib.files[dl.name] # "partial"
    /\ ul.active => ul.name # dl.name

UploadHeld ==
  ul.active /\ ~ul.skew =>
    /\ IsInjective(lib.names) /\ Points(lib.names, ul)
    /\ ul.phase = "kWriting" => ul.name \in DOMAIN lib.files /\ lib.files[ul.name] = "partial"

IInv == Types /\ Turns /\ Agree(lib) /\ NoPartialLeft /\ DownloadHeld /\ UploadHeld

\* What the two action properties say of a step.
ReaderStep ==
  /\ dl.active /\ dl'.active /\ ~dl.skew /\ ~ul.skew =>
       dl.name \in DOMAIN lib'.files /\ lib'.files[dl.name] = lib.files[dl.name]
  /\ ar.active /\ ar'.active =>
       /\ \A n \in DOMAIN lib'.files : n \in DOMAIN lib.files /\ lib'.files[n] = lib.files[n]
       /\ \/ UNCHANGED <<lib.names, lib.bin, lib.txt>>
          \/ \E s \in Sources \ {ar.src}, idx \in Indices \cup {0} : DeletePatternFile(s, idx)

IndexStep ==
  /\ \A n \in Ghosts(lib') \ Ghosts(lib) :
       \/ ~IsInjective(lib.names)
       \/ ul.active /\ ul.name = n
       \/ \E s \in Sources, idx \in Indices : lib.names[idx] = n /\ SetPatternFile(s, idx)
  /\ \A n \in Unlisted(lib') \ Unlisted(lib) :
       Len(lib'.names) = MaxCount \/ (n \notin Pat /\ Boot)

LEMMA IdleIs ==
  /\ NoDownload \in Downloads /\ ~NoDownload.active /\ NoDownload.src = NoSource /\ ~NoDownload.skew
  /\ NoUpload \in Uploads /\ ~NoUpload.active /\ NoUpload.src = NoSource /\ ~NoUpload.skew
  /\ NoArchive \in Archives /\ ~NoArchive.active /\ NoArchive.src = NoSource
<1>1. 0 \in 0 .. MaxCount /\ 0 \in 0 .. Chunks /\ Temp \in Paths
  BY PathsAre, TransferAssumption
<1>2. NoDownload \in Downloads /\ ~NoDownload.active /\ NoDownload.src = NoSource /\ ~NoDownload.skew
  BY <1>1 DEF NoDownload, Downloads
<1>3. NoUpload \in Uploads /\ ~NoUpload.active /\ NoUpload.src = NoSource /\ ~NoUpload.skew
  BY <1>1 DEF NoUpload, Uploads, Phases
<1>4. NoArchive \in Archives /\ ~NoArchive.active /\ NoArchive.src = NoSource
  BY DEF NoArchive, Archives
<1>. QED
  BY <1>2, <1>3, <1>4

\* What IInv says of the transfers, as the proofs of the steps use it.
LEMMA Facts ==
  ASSUME IInv
  PROVE  /\ lib \in Libs /\ lib.files \in Cards /\ lib.names \in Lists /\ Agree(lib)
         /\ off \in BOOLEAN /\ dl \in Downloads /\ ul \in Uploads /\ ar \in Archives
         /\ dl.active \in BOOLEAN /\ ul.active \in BOOLEAN /\ ar.active \in BOOLEAN
         /\ dl.skew \in BOOLEAN /\ ul.skew \in BOOLEAN /\ ul.phase \in Phases
         /\ dl.name \in Paths /\ ul.name \in Paths
         /\ ul.remaining \in 0 .. Chunks /\ dl.remaining \in 0 .. Chunks
         /\ dl.idx \in 0 .. MaxCount /\ ul.idx \in 0 .. MaxCount
<1>1. lib \in Libs /\ off \in BOOLEAN /\ dl \in Downloads /\ ul \in Uploads /\ ar \in Archives
  BY DEF IInv, Types
<1>2. lib.files \in Cards /\ lib.names \in Lists /\ Agree(lib)
  BY <1>1, LibFacts DEF IInv
<1>3. /\ dl.active \in BOOLEAN /\ dl.skew \in BOOLEAN /\ dl.name \in Paths
      /\ dl.remaining \in 0 .. Chunks /\ dl.idx \in 0 .. MaxCount
  BY <1>1 DEF Downloads
<1>4. /\ ul.active \in BOOLEAN /\ ul.skew \in BOOLEAN /\ ul.name \in Paths /\ ul.phase \in Phases
      /\ ul.remaining \in 0 .. Chunks /\ ul.idx \in 0 .. MaxCount
  BY <1>1 DEF Uploads
<1>5. ar.active \in BOOLEAN
  BY <1>1 DEF Archives
<1>. QED
  BY <1>1, <1>2, <1>3, <1>4, <1>5

\* Another index is another file, while no name is listed twice.
LEMMA OtherFile ==
  ASSUME NEW l \in Libs, IsInjective(l.names), NEW t, Points(l.names, t),
         NEW idx \in 0 .. Len(l.names), idx # t.idx
  PROVE  PathOf(l, idx) # t.name
<1>0. /\ Len(l.names) \in Nat /\ DOMAIN l.names = 1 .. Len(l.names)
      /\ \A i \in 1 .. Len(l.names) : l.names[i] \in Names
  BY LibFacts, ListFacts
<1>1. Temp \notin Names
  BY PathsAre
<1>2. /\ idx # 0 => idx \in 1 .. Len(l.names) /\ PathOf(l, idx) = l.names[idx]
      /\ idx = 0 => PathOf(l, idx) = Temp
  BY PathOfIs
<1>3. CASE t.idx = 0 /\ t.name = Temp
  <2>1. idx # 0
    BY <1>3
  <2>2. PathOf(l, idx) \in Names
    BY <1>0, <1>2, <2>1
  <2>. QED
    BY <1>1, <1>3, <2>2
<1>4. CASE t.idx \in 1 .. Len(l.names) /\ l.names[t.idx] = t.name
  <2>1. CASE idx = 0
    BY <1>0, <1>1, <1>2, <1>4, <2>1
  <2>2. CASE idx # 0
    <3>1. l.names[idx] # l.names[t.idx]
      BY <1>0, <1>2, <1>4, <2>2, Zenon DEF IsInjective
    <3>. QED
      BY <1>2, <1>4, <2>2, <3>1
  <2>. QED
    BY <2>1, <2>2
<1>. QED
  BY <1>3, <1>4 DEF Points

\* Steps that leave the card and the index alone.
LEMMA SameLibrary == ASSUME IInv, lib' = lib PROVE ReaderStep /\ IndexStep
<1>1. dl.active /\ ~dl.skew => dl.name \in DOMAIN lib.files
  BY DEF IInv, DownloadHeld
<1>2. ReaderStep
  BY <1>1 DEF ReaderStep
<1>3. Ghosts(lib') = Ghosts(lib) /\ Unlisted(lib') = Unlisted(lib)
  BY Zenon
<1>. QED
  BY <1>2, <1>3, Zenon DEF IndexStep

LEMMA ShowKeeps ==
  ASSUME IInv, UNCHANGED <<lib, dl, ul, ar>>, off' \in BOOLEAN PROVE IInv' /\ ReaderStep /\ IndexStep
<1>1. Types' /\ Turns' /\ Agree(lib)'
  BY DEF IInv, Types, Turns
<1>2. NoPartialLeft' /\ DownloadHeld' /\ UploadHeld'
  BY DEF IInv, NoPartialLeft, DownloadHeld, UploadHeld
<1>. QED
  BY <1>1, <1>2, SameLibrary DEF IInv

LEMMA GetPatternFileKeeps ==
  ASSUME IInv, NEW s \in Sources, NEW idx \in Indices \cup {0}, GetPatternFile(s, idx)
  PROVE  IInv' /\ ReaderStep /\ IndexStep
<1>1. PICK size \in 0 .. Chunks :
        dl' = [active |-> TRUE, src |-> s, idx |-> idx, name |-> lib.names[idx],
               remaining |-> size, skew |-> Astray]
  BY DEF GetPatternFile
<1>2. /\ lib' = lib /\ off' = off /\ ul' = ul /\ ar' = ar
      /\ idx \in Indices /\ ~patternBusy(idx) /\ lib.names[idx] \in DOMAIN lib.files
  BY DEF GetPatternFile
<1>3. idx \in 1 .. Len(lib.names) /\ idx \in 0 .. Len(lib.names) /\ idx # 0 /\ idx \in 0 .. MaxCount
  BY <1>2, Facts, ListFacts, PathsAre DEF Indices
<1>4. lib.names[idx] \in Paths /\ PathOf(lib, idx) = lib.names[idx]
  BY <1>3, Facts, PathOfIs, PathsAre
<1>5. size \in 0 .. Chunks
  OBVIOUS
<1>6. Astray \in BOOLEAN
  BY Facts DEF Astray, IsInjective
<1>7. /\ dl' \in Downloads /\ dl'.active /\ dl'.src = s /\ dl'.idx = idx
      /\ dl'.name = lib.names[idx] /\ dl'.skew = Astray
  BY <1>1, <1>3, <1>4, <1>5, <1>6 DEF Downloads
<1>8. Types' /\ Turns' /\ Agree(lib)'
  <2>1. Types'
    BY <1>2, <1>7 DEF IInv, Types
  <2>2. Turns'
    BY <1>2, <1>7 DEF IInv, Turns
  <2>. QED
    BY <1>2, <2>1, <2>2 DEF IInv
<1>9. NoPartialLeft' /\ UploadHeld'
  BY <1>2 DEF IInv, NoPartialLeft, UploadHeld
<1>10. DownloadHeld'
  <2>. SUFFICES ASSUME ~Astray PROVE DownloadHeld'
    BY <1>7, Zenon DEF DownloadHeld
  <2>1. IsInjective(lib.names) /\ ~ul.skew
    BY DEF Astray
  <2>2. ul.active => ul.name # lib.names[idx]
    <3>. SUFFICES ASSUME ul.active PROVE ul.name # lib.names[idx]
      OBVIOUS
    <3>1. Points(lib.names, ul) /\ idx # ul.idx
      BY <1>2, <2>1 DEF IInv, UploadHeld, patternBusy
    <3>. QED
      BY <1>3, <1>4, <2>1, <3>1, OtherFile, Facts
  <2>3. lib.files[lib.names[idx]] # "partial"
    BY <1>2, <2>2 DEF IInv, NoPartialLeft
  <2>4. Points(lib.names, dl')
    BY <1>3, <1>7 DEF Points
  <2>. QED
    BY <1>2, <1>7, <2>1, <2>2, <2>3, <2>4 DEF DownloadHeld
<1>. QED
  BY <1>2, <1>8, <1>9, <1>10, SameLibrary DEF IInv

LEMMA ServiceDownloadKeeps ==
  ASSUME IInv, serviceDownload PROVE IInv' /\ ReaderStep /\ IndexStep
<1>1. /\ lib' = lib /\ off' = off /\ ul' = ul /\ ar' = ar /\ dl.active
      /\ dl' = NoDownload \/ (dl.remaining > 1 /\ dl' = [dl EXCEPT !.remaining = @ - 1])
  BY DEF serviceDownload
<1>2. NoPartialLeft' /\ UploadHeld' /\ Agree(lib)'
  BY <1>1 DEF IInv, NoPartialLeft, UploadHeld
<1>3. CASE dl' = NoDownload
  <2>1. dl' \in Downloads /\ ~dl'.active /\ dl'.src = NoSource /\ ~dl'.skew
    BY <1>3, IdleIs
  <2>2. Types'
    BY <1>1, <2>1 DEF IInv, Types
  <2>3. Turns'
    BY <1>1, <2>1 DEF IInv, Turns
  <2>4. DownloadHeld'
    BY <2>1 DEF DownloadHeld
  <2>. QED
    BY <1>1, <1>2, <2>2, <2>3, <2>4, SameLibrary DEF IInv
<1>4. CASE dl.remaining > 1 /\ dl' = [dl EXCEPT !.remaining = @ - 1]
  <2>1. dl.remaining - 1 \in 0 .. Chunks
    BY <1>4, Facts, TransferAssumption
  <2>2. /\ dl' \in Downloads /\ dl'.active = dl.active /\ dl'.src = dl.src /\ dl'.skew = dl.skew
        /\ dl'.idx = dl.idx /\ dl'.name = dl.name
    BY <1>4, <2>1, Facts DEF Downloads
  <2>3. Types'
    BY <1>1, <2>2 DEF IInv, Types
  <2>4. Turns'
    BY <1>1, <2>2 DEF IInv, Turns
  <2>5. DownloadHeld'
    BY <1>1, <2>2 DEF IInv, DownloadHeld, Points
  <2>. QED
    BY <1>1, <1>2, <2>3, <2>4, <2>5, SameLibrary DEF IInv
<1>. QED
  BY <1>1, <1>3, <1>4

LEMMA GetSdArchiveKeeps ==
  ASSUME IInv, NEW s \in Sources, GetSdArchive(s) PROVE IInv' /\ ReaderStep /\ IndexStep
<1>1. /\ lib' = lib /\ off' = off /\ ul' = ul /\ dl' = dl /\ ~ul.active
      /\ ar' = [active |-> TRUE, src |-> s]
  BY DEF GetSdArchive
<1>2. ar' \in Archives /\ ar'.active /\ ar'.src = s
  BY <1>1 DEF Archives
<1>3. Types'
  BY <1>1, <1>2 DEF IInv, Types
<1>4. Turns'
  BY <1>1, <1>2 DEF IInv, Turns
<1>5. NoPartialLeft' /\ UploadHeld' /\ Agree(lib)' /\ DownloadHeld'
  BY <1>1 DEF IInv, NoPartialLeft, UploadHeld, DownloadHeld
<1>. QED
  BY <1>1, <1>3, <1>4, <1>5, SameLibrary DEF IInv

LEMMA ServiceArchiveKeeps ==
  ASSUME IInv, serviceArchive PROVE IInv' /\ ReaderStep /\ IndexStep
<1>1. lib' = lib /\ off' = off /\ ul' = ul /\ dl' = dl /\ ar' = NoArchive
  BY DEF serviceArchive
<1>2. ar' \in Archives /\ ~ar'.active /\ ar'.src = NoSource
  BY <1>1, IdleIs
<1>3. Types'
  BY <1>1, <1>2 DEF IInv, Types
<1>4. Turns'
  BY <1>1, <1>2 DEF IInv, Turns
<1>5. NoPartialLeft' /\ UploadHeld' /\ Agree(lib)' /\ DownloadHeld'
  BY <1>1 DEF IInv, NoPartialLeft, UploadHeld, DownloadHeld
<1>. QED
  BY <1>1, <1>3, <1>4, <1>5, SameLibrary DEF IInv

\* A step that takes the file n from the card, or writes it anew, and leaves the
\* index alone.
LEMMA OneFileChanged ==
  ASSUME IInv, NEW n \in Paths, lib' \in Libs, lib'.names = lib.names,
         \A m : m # n => (m \in DOMAIN lib'.files <=> m \in DOMAIN lib.files),
         \A m \in DOMAIN lib.files : m # n => lib'.files[m] = lib.files[m],
         dl.active /\ ~dl.skew => dl.name # n
  PROVE  /\ dl' \in {dl, NoDownload} /\ ~ar.active => ReaderStep
         /\ dl.active /\ ~dl.skew =>
              /\ dl.name \in DOMAIN lib'.files /\ lib'.files[dl.name] = lib.files[dl.name]
              /\ lib'.files[dl.name] # "partial" /\ IsInjective(lib'.names) /\ Points(lib'.names, dl)
         /\ \A m \in Ghosts(lib') \ Ghosts(lib) : m = n
         /\ \A m \in Unlisted(lib') \ Unlisted(lib) : m = n
<1>1. dl.active /\ ~dl.skew =>
        /\ dl.name \in DOMAIN lib.files /\ lib.files[dl.name] # "partial"
        /\ IsInjective(lib.names) /\ Points(lib.names, dl)
  BY DEF IInv, DownloadHeld
<1>2. dl.active /\ ~dl.skew =>
        /\ dl.name \in DOMAIN lib'.files /\ lib'.files[dl.name] = lib.files[dl.name]
        /\ lib'.files[dl.name] # "partial" /\ IsInjective(lib'.names) /\ Points(lib'.names, dl)
  BY <1>1
<1>3. dl' \in {dl, NoDownload} /\ ~ar.active => ReaderStep
  BY <1>2, IdleIs DEF ReaderStep
<1>4. \A m \in Ghosts(lib') \ Ghosts(lib) : m = n
  BY Zenon DEF Ghosts
<1>5. \A m \in Unlisted(lib') \ Unlisted(lib) : m = n
  BY Zenon DEF Unlisted
<1>. QED
  BY <1>2, <1>3, <1>4, <1>5

LEMMA SetPatternFileKeeps ==
  ASSUME IInv, NEW s \in Sources, NEW idx \in Indices \cup {0}, SetPatternFile(s, idx)
  PROVE  IInv' /\ ReaderStep /\ IndexStep
<1>. DEFINE n == PathOf(lib, idx)
<1>0. /\ lib \in Libs /\ lib.files \in Cards /\ lib.names \in Lists
      /\ idx \in 0 .. Len(lib.names) /\ idx \in 0 .. MaxCount
  BY Facts, ListFacts, PathsAre DEF Indices
<1>1. /\ off' = off /\ dl' = dl /\ ar' = ar /\ ~ul.active /\ ~ar.active
      /\ ~(dl.active /\ dl.idx = idx)
      /\ \/ /\ lib' = [lib EXCEPT !.files = With(lib.files, n, "partial")]
            /\ ul' = [active |-> TRUE, src |-> s, idx |-> idx, name |-> n,
                      remaining |-> Chunks, skew |-> Astray, phase |-> "kWriting"]
         \/ lib' = [lib EXCEPT !.files = Without(lib.files, n)] /\ ul' = ul
         \/ lib' = lib /\ ul' = ul
  BY DEF SetPatternFile, BeginUpload
<1>2. n \in Paths /\ (n # Temp => \E i \in Indices : i = idx /\ lib.names[i] = n)
  BY <1>0, PathOfIs DEF Indices
<1>3. dl.active /\ ~dl.skew => dl.name # n
  <2>. SUFFICES ASSUME dl.active, ~dl.skew PROVE dl.name # n
    OBVIOUS
  <2>1. IsInjective(lib.names) /\ Points(lib.names, dl) /\ idx # dl.idx
    BY <1>1 DEF IInv, DownloadHeld
  <2>. QED
    BY <1>0, <2>1, OtherFile
<1>4. \A m \in DOMAIN lib.files : lib.files[m] # "partial"
  BY <1>1 DEF IInv, NoPartialLeft
<1>5. ~ul.skew /\ ul.src = NoSource
  BY <1>1 DEF IInv, Turns
<1>. HIDE DEF n
<1>6. ASSUME /\ lib' \in Libs /\ lib'.names = lib.names /\ lib'.bin = lib.bin /\ lib'.txt = lib.txt
             /\ \A m : m # n => (m \in DOMAIN lib'.files <=> m \in DOMAIN lib.files)
             /\ \A m \in DOMAIN lib.files : m # n => lib'.files[m] = lib.files[m]
      PROVE  /\ ReaderStep /\ IndexStep /\ Agree(lib)'
             /\ dl.active /\ ~dl.skew =>
                  /\ dl.name \in DOMAIN lib'.files /\ lib'.files[dl.name] # "partial"
                  /\ IsInjective(lib'.names) /\ Points(lib'.names, dl)
  <2>1. /\ dl' \in {dl, NoDownload} /\ ~ar.active => ReaderStep
        /\ dl.active /\ ~dl.skew =>
             /\ dl.name \in DOMAIN lib'.files /\ lib'.files[dl.name] = lib.files[dl.name]
             /\ lib'.files[dl.name] # "partial" /\ IsInjective(lib'.names) /\ Points(lib'.names, dl)
        /\ \A m \in Ghosts(lib') \ Ghosts(lib) : m = n
        /\ \A m \in Unlisted(lib') \ Unlisted(lib) : m = n
    BY <1>2, <1>3, <1>6, OneFileChanged
  <2>2. ASSUME NEW m \in Ghosts(lib') \ Ghosts(lib)
        PROVE  \E z \in Sources, i \in Indices : lib.names[i] = m /\ SetPatternFile(z, i)
    <3>1. m = n /\ m # Temp
      <4>1. m \in ToSet(lib.names) /\ m = n
        BY <1>6, <2>1 DEF Ghosts
      <4>2. m \in Names
        BY <1>0, <4>1, ListFacts DEF ToSet
      <4>. QED
        BY <4>1, <4>2, PathsAre
    <3>. QED
      BY <1>2, <3>1
  <2>3. ASSUME NEW m \in Unlisted(lib') \ Unlisted(lib) PROVE FALSE
    <3>1. m = n /\ m # Temp /\ m \notin ToSet(lib.names)
      BY <1>6, <2>1 DEF Unlisted
    <3>2. PICK i \in Indices : lib.names[i] = n
      BY <1>2, <3>1
    <3>3. DOMAIN lib.names = Indices
      BY <1>0, ListFacts DEF Indices
    <3>. QED
      BY <3>1, <3>2, <3>3 DEF ToSet
  <2>4. IndexStep
    BY <2>2, <2>3, Zenon DEF IndexStep
  <2>5. Agree(lib)'
    BY <1>6 DEF IInv, Agree
  <2>. QED
    BY <1>1, <2>1, <2>4, <2>5
<1>7. CASE /\ lib' = [lib EXCEPT !.files = With(lib.files, n, "partial")]
           /\ ul' = [active |-> TRUE, src |-> s, idx |-> idx, name |-> n,
                     remaining |-> Chunks, skew |-> Astray, phase |-> "kWriting"]
  <2>. DEFINE f == With(lib.files, n, "partial")
  <2>0. f = With(lib.files, n, "partial") /\ "partial" \in Holds
    BY DEF Holds
  <2>2. lib' = [lib EXCEPT !.files = f]
    BY <1>7
  <2>. HIDE DEF f
  <2>1. /\ f \in Cards /\ DOMAIN f = DOMAIN lib.files \cup {n} /\ f[n] = "partial"
        /\ \A m \in DOMAIN lib.files : m # n => f[m] = lib.files[m]
    <3>1. Wrote(lib.files, n, "partial", f)
      BY <1>0, <1>2, <2>0, WithResult
    <3>. QED
      BY <3>1 DEF Wrote
  <2>3. lib' \in Libs /\ lib'.files = f /\ lib'.names = lib.names /\ lib'.bin = lib.bin /\ lib'.txt = lib.txt
    BY <1>0, <2>1, <2>2, FilesResult
  <2>4. /\ ReaderStep /\ IndexStep /\ Agree(lib)'
        /\ dl.active /\ ~dl.skew =>
             /\ dl.name \in DOMAIN lib'.files /\ lib'.files[dl.name] # "partial"
             /\ IsInjective(lib'.names) /\ Points(lib'.names, dl)
    BY <1>6, <2>1, <2>3
  <2>5. Astray \in BOOLEAN /\ Chunks \in 0 .. Chunks /\ Chunks # 0
    BY Facts, TransferAssumption DEF Astray, IsInjective
  <2>6. /\ ul' \in Uploads /\ ul'.active /\ ul'.src = s /\ ul'.idx = idx /\ ul'.name = n
        /\ ul'.remaining = Chunks /\ ul'.skew = Astray /\ ul'.phase = "kWriting"
    BY <1>0, <1>2, <1>7, <2>5 DEF Uploads, Phases
  <2>7. Types'
    BY <1>1, <2>3, <2>6 DEF IInv, Types
  <2>8. Turns'
    BY <1>1, <2>5, <2>6 DEF IInv, Turns
  <2>9. NoPartialLeft'
    BY <1>4, <2>1, <2>3, <2>6 DEF NoPartialLeft
  <2>10. DownloadHeld'
    BY <1>1, <1>3, <2>4, <2>6 DEF DownloadHeld
  <2>11. UploadHeld'
    <3>. SUFFICES ASSUME ~Astray PROVE UploadHeld'
      BY <2>6, Zenon DEF UploadHeld
    <3>1. IsInjective(lib'.names)
      BY <2>3 DEF Astray
    <3>2. Points(lib'.names, ul')
      BY <1>0, <2>3, <2>6, PathOfIs DEF Points, n
    <3>. QED
      BY <2>1, <2>3, <2>6, <3>1, <3>2 DEF UploadHeld
  <2>. QED
    BY <2>4, <2>7, <2>8, <2>9, <2>10, <2>11 DEF IInv
<1>8. CASE lib' = [lib EXCEPT !.files = Without(lib.files, n)] /\ ul' = ul
  <2>. DEFINE f == Without(lib.files, n)
  <2>0. f = Without(lib.files, n)
    OBVIOUS
  <2>2. lib' = [lib EXCEPT !.files = f]
    BY <1>8
  <2>. HIDE DEF f
  <2>1. /\ f \in Cards /\ DOMAIN f = DOMAIN lib.files \ {n}
        /\ \A m \in DOMAIN f : f[m] = lib.files[m]
    <3>1. Took(lib.files, n, f)
      BY <1>0, <2>0, WithoutResult
    <3>. QED
      BY <3>1 DEF Took
  <2>3. lib' \in Libs /\ lib'.files = f /\ lib'.names = lib.names /\ lib'.bin = lib.bin /\ lib'.txt = lib.txt
    BY <1>0, <2>1, <2>2, FilesResult
  <2>4. /\ ReaderStep /\ IndexStep /\ Agree(lib)'
        /\ dl.active /\ ~dl.skew =>
             /\ dl.name \in DOMAIN lib'.files /\ lib'.files[dl.name] # "partial"
             /\ IsInjective(lib'.names) /\ Points(lib'.names, dl)
    BY <1>6, <2>1, <2>3
  <2>5. Types'
    BY <1>1, <1>8, <2>3 DEF IInv, Types
  <2>6. Turns'
    BY <1>1, <1>8 DEF IInv, Turns
  <2>7. NoPartialLeft'
    BY <1>4, <2>1, <2>3 DEF NoPartialLeft
  <2>8. DownloadHeld' /\ UploadHeld'
    BY <1>1, <1>8, <2>4 DEF DownloadHeld, UploadHeld
  <2>. QED
    BY <2>4, <2>5, <2>6, <2>7, <2>8 DEF IInv
<1>9. CASE lib' = lib /\ ul' = ul
  BY <1>1, <1>9, ShowKeeps, Facts
<1>. QED
  BY <1>1, <1>7, <1>8, <1>9

\* The last turn of an upload, its next one, and what they leave of it.
LEMMA DropPartialResult ==
  ASSUME IInv, ul.active, DropPartial
  PROVE  /\ lib' \in Libs /\ lib'.names = lib.names /\ Agree(lib)'
         /\ \A m : m # ul.name => (m \in DOMAIN lib'.files <=> m \in DOMAIN lib.files)
         /\ \A m \in DOMAIN lib.files : m # ul.name => lib'.files[m] = lib.files[m]
         /\ \A m \in DOMAIN lib'.files : lib'.files[m] # "partial"
         /\ ul.name \in DOMAIN lib'.files => ul.name \in DOMAIN lib.files
<1>0. lib \in Libs /\ lib.files \in Cards
  BY Facts
<1>1. ASSUME NEW f \in Cards, lib' = [lib EXCEPT !.files = f]
      PROVE  /\ lib' \in Libs /\ lib'.files = f /\ lib'.names = lib.names /\ Agree(lib)'
  BY <1>0, <1>1, FilesResult DEF IInv, Agree
<1>2. CASE lib' = [lib EXCEPT !.files = Without(lib.files, ul.name)]
  <2>. DEFINE f == Without(lib.files, ul.name)
  <2>1. f = Without(lib.files, ul.name) /\ lib' = [lib EXCEPT !.files = f]
    BY <1>2
  <2>. HIDE DEF f
  <2>2. /\ f \in Cards /\ DOMAIN f = DOMAIN lib.files \ {ul.name}
        /\ \A m \in DOMAIN f : f[m] = lib.files[m]
    <3>1. Took(lib.files, ul.name, f)
      BY <1>0, <2>1, WithoutResult
    <3>. QED
      BY <3>1 DEF Took
  <2>3. lib' \in Libs /\ lib'.files = f /\ lib'.names = lib.names /\ Agree(lib)'
    BY <1>1, <2>1, <2>2
  <2>4. \A m \in DOMAIN lib'.files : lib'.files[m] # "partial"
    BY <2>2, <2>3 DEF IInv, NoPartialLeft
  <2>. QED
    BY <2>2, <2>3, <2>4
<1>3. CASE lib' = [lib EXCEPT !.files = LeftBehind(lib.files)]
  <2>. DEFINE f == LeftBehind(lib.files)
  <2>1. f = LeftBehind(lib.files) /\ lib' = [lib EXCEPT !.files = f]
    BY <1>3
  <2>. HIDE DEF f
  <2>2. f \in Cards /\ DOMAIN f = DOMAIN lib.files /\ \A m \in DOMAIN lib.files : f[m] = "closed"
    BY <1>0, <2>1, LeftBehindResult
  <2>3. lib' \in Libs /\ lib'.files = f /\ lib'.names = lib.names /\ Agree(lib)'
    BY <1>1, <2>1, <2>2
  <2>4. \A m \in DOMAIN lib.files : m # ul.name => lib.files[m] = "closed"
    BY <1>0, CardFacts DEF Holds, IInv, NoPartialLeft
  <2>. QED
    BY <2>2, <2>3, <2>4
<1>. QED
  BY <1>2, <1>3 DEF DropPartial

\* Whatever an upload does to its own file: no reader and no other upload notices.
LEMMA UploadChange ==
  ASSUME IInv, ul.active, off' \in BOOLEAN, dl' \in {dl, NoDownload}, ar' \in {ar, NoArchive},
         lib' \in Libs, lib'.names = lib.names, Agree(lib)',
         \A m : m # ul.name => (m \in DOMAIN lib'.files <=> m \in DOMAIN lib.files),
         \A m \in DOMAIN lib.files : m # ul.name => lib'.files[m] = lib.files[m],
         \A m \in DOMAIN lib'.files : lib'.files[m] # "partial",
         ul.name \in DOMAIN lib'.files => ul.name \in DOMAIN lib.files,
         ul' \in Uploads,
         \/ ul'.active /\ ul'.src = ul.src /\ ul'.idx = ul.idx /\ ul'.name = ul.name
            /\ ul'.skew = ul.skew /\ ul'.phase = "kDraining" /\ ul'.remaining # 0
         \/ ~ul'.active /\ ul'.src = NoSource /\ ~ul'.skew
  PROVE  IInv' /\ ReaderStep /\ IndexStep
<1>0. ~ar.active /\ ul.name \in Paths /\ (dl.active /\ ~dl.skew => dl.name # ul.name)
  BY Facts DEF IInv, Turns, DownloadHeld
<1>1. /\ dl' \in {dl, NoDownload} /\ ~ar.active => ReaderStep
      /\ dl.active /\ ~dl.skew =>
           /\ dl.name \in DOMAIN lib'.files /\ lib'.files[dl.name] = lib.files[dl.name]
           /\ lib'.files[dl.name] # "partial" /\ IsInjective(lib'.names) /\ Points(lib'.names, dl)
      /\ \A m \in Ghosts(lib') \ Ghosts(lib) : m = ul.name
      /\ \A m \in Unlisted(lib') \ Unlisted(lib) : m = ul.name
  BY <1>0, OneFileChanged
<1>2. ASSUME NEW m \in Unlisted(lib') \ Unlisted(lib) PROVE FALSE
  BY <1>1 DEF Unlisted
<1>3. IndexStep
  BY <1>1, <1>2, Zenon DEF IndexStep
<1>4. Types'
  BY IdleIs DEF IInv, Types
<1>5. Turns'
  <2>1. ~ar'.active /\ ar'.src = NoSource
    BY <1>0, IdleIs DEF IInv, Turns
  <2>2. (~dl'.active => dl'.src = NoSource /\ ~dl'.skew) /\ (dl'.active => dl'.src \in Sources)
    BY IdleIs DEF IInv, Turns
  <2>3. ul.src \in Sources
    BY DEF IInv, Turns
  <2>. QED
    BY <2>1, <2>2, <2>3 DEF Turns
<1>6. NoPartialLeft'
  BY DEF NoPartialLeft
<1>7. DownloadHeld'
  BY <1>0, <1>1, IdleIs DEF DownloadHeld
<1>8. UploadHeld'
  BY DEF IInv, UploadHeld, Points
<1>. QED
  BY <1>0, <1>1, <1>3, <1>4, <1>5, <1>6, <1>7, <1>8 DEF IInv

\* An upload that reads on, and one that drains, leaves the card alone.
LEMMA UploadGoesOn ==
  ASSUME IInv, ul.active, UNCHANGED <<off, dl, ar, lib>>, ul' = [ul EXCEPT !.remaining = @ - 1],
         ul.remaining # 1
  PROVE  IInv' /\ ReaderStep /\ IndexStep
<1>1. ul.remaining - 1 \in 0 .. Chunks /\ ul.remaining - 1 # 0
  <2>1. ul.remaining \in 0 .. Chunks /\ ul.remaining # 0 /\ Chunks \in Nat
    BY Facts, TransferAssumption DEF IInv, Turns
  <2>. QED
    BY <2>1
<1>2. /\ ul' \in Uploads /\ ul'.active = ul.active /\ ul'.src = ul.src /\ ul'.idx = ul.idx
      /\ ul'.name = ul.name /\ ul'.skew = ul.skew /\ ul'.phase = ul.phase /\ ul'.remaining # 0
  BY <1>1, Facts DEF Uploads
<1>3. Types'
  BY <1>2 DEF IInv, Types
<1>4. Turns'
  BY <1>2 DEF IInv, Turns
<1>5. NoPartialLeft'
  BY <1>2 DEF IInv, NoPartialLeft
<1>6. DownloadHeld'
  BY <1>2 DEF IInv, DownloadHeld
<1>7. UploadHeld'
  BY <1>2 DEF IInv, UploadHeld, Points
<1>8. Agree(lib)'
  BY DEF IInv
<1>. QED
  BY <1>3, <1>4, <1>5, <1>6, <1>7, <1>8, SameLibrary DEF IInv

LEMMA UploadEnds ==
  ASSUME ul' = NoUpload PROVE ul' \in Uploads /\ ~ul'.active /\ ul'.src = NoSource /\ ~ul'.skew
  BY IdleIs

LEMMA WriteChunkKeeps ==
  ASSUME IInv, ul.active, off' = off, dl' = dl, ar' = ar, WriteChunk
  PROVE  IInv' /\ ReaderStep /\ IndexStep
<1>0. lib \in Libs /\ lib.files \in Cards /\ off' \in BOOLEAN
  BY Facts
<1>1. CASE ul.remaining # 1
  <2>1. lib' = lib /\ ul' = [ul EXCEPT !.remaining = @ - 1]
    BY <1>1 DEF WriteChunk
  <2>. QED
    BY <1>1, <2>1, UploadGoesOn
<1>2. CASE ul.remaining = 1 /\ ul.name \in DOMAIN lib.files
  <2>. DEFINE f == [lib.files EXCEPT ![ul.name] = "closed"]
  <2>1. lib' = [lib EXCEPT !.files = f] /\ ul' = NoUpload
    BY <1>0, <1>2 DEF WriteChunk, Libs
  <2>2. f = [lib.files EXCEPT ![ul.name] = "closed"] /\ "closed" \in Holds
    BY DEF Holds
  <2>. HIDE DEF f
  <2>3. /\ f \in Cards /\ DOMAIN f = DOMAIN lib.files /\ f[ul.name] = "closed"
        /\ \A m \in DOMAIN lib.files : m # ul.name => f[m] = lib.files[m]
    <3>1. Wrote(lib.files, ul.name, "closed", f)
      BY <1>0, <1>2, <2>2, PutResult
    <3>2. DOMAIN f = DOMAIN lib.files
      BY <2>2
    <3>. QED
      BY <3>1, <3>2 DEF Wrote
  <2>4. /\ lib' \in Libs /\ lib'.files = f /\ lib'.names = lib.names
        /\ lib'.bin = lib.bin /\ lib'.txt = lib.txt
    BY <1>0, <2>1, <2>3, FilesResult
  <2>5. \A m \in DOMAIN lib'.files : lib'.files[m] # "partial"
    BY <2>3, <2>4 DEF IInv, NoPartialLeft
  <2>6. Agree(lib)'
    BY <2>4 DEF IInv, Agree
  <2>7. ul' \in Uploads /\ ~ul'.active /\ ul'.src = NoSource /\ ~ul'.skew
    BY <2>1, UploadEnds
  <2>. QED
    BY <1>0, <2>3, <2>4, <2>5, <2>6, <2>7, UploadChange
<1>3. CASE ul.remaining = 1 /\ ul.name \notin DOMAIN lib.files
  <2>1. lib' = lib /\ ul' = NoUpload
    BY <1>3 DEF WriteChunk
  <2>2. \A m \in DOMAIN lib'.files : lib'.files[m] # "partial"
    BY <1>3, <2>1 DEF IInv, NoPartialLeft
  <2>3. Agree(lib)'
    BY <2>1 DEF IInv
  <2>4. ul' \in Uploads /\ ~ul'.active /\ ul'.src = NoSource /\ ~ul'.skew
    BY <2>1, UploadEnds
  <2>. QED
    BY <1>0, <2>1, <2>2, <2>3, <2>4, UploadChange
<1>. QED
  BY <1>1, <1>2, <1>3

LEMMA ServiceUploadKeeps ==
  ASSUME IInv, serviceUpload PROVE IInv' /\ ReaderStep /\ IndexStep
<1>0. /\ ul.active /\ off' = off /\ off' \in BOOLEAN /\ dl' = dl /\ ar' = ar
      /\ WriteChunk \/ WriteError \/ WriteTimeout \/ DrainChunk \/ DrainTimeout
  BY Facts DEF serviceUpload
<1>1. /\ ul \in Uploads /\ lib \in Libs /\ ul.remaining \in 0 .. Chunks /\ ul.remaining # 0
      /\ Chunks \in Nat
  BY <1>0, Facts, TransferAssumption DEF IInv, Turns
<1>2. CASE WriteChunk
  BY <1>0, <1>2, WriteChunkKeeps
<1>3. CASE WriteError \/ WriteTimeout
  <2>1. /\ lib' \in Libs /\ lib'.names = lib.names /\ Agree(lib)'
        /\ \A m : m # ul.name => (m \in DOMAIN lib'.files <=> m \in DOMAIN lib.files)
        /\ \A m \in DOMAIN lib.files : m # ul.name => lib'.files[m] = lib.files[m]
        /\ \A m \in DOMAIN lib'.files : lib'.files[m] # "partial"
        /\ ul.name \in DOMAIN lib'.files => ul.name \in DOMAIN lib.files
    <3>1. DropPartial
      BY <1>3 DEF WriteError, WriteTimeout
    <3>. QED
      BY <1>0, <3>1, DropPartialResult
  <2>3. CASE ul' = NoUpload
    BY <1>0, <2>1, <2>3, UploadEnds, UploadChange
  <2>4. CASE ul' = [ul EXCEPT !.phase = "kDraining", !.remaining = @ - 1] /\ ul.remaining # 1
    <3>1. ul.remaining - 1 \in 0 .. Chunks /\ ul.remaining - 1 # 0
      BY <1>1, <2>4
    <3>2. /\ ul' \in Uploads /\ ul'.active = ul.active /\ ul'.src = ul.src /\ ul'.idx = ul.idx
          /\ ul'.name = ul.name /\ ul'.skew = ul.skew /\ ul'.phase = "kDraining"
          /\ ul'.remaining # 0
      BY <1>1, <2>4, <3>1 DEF Uploads, Phases
    <3>. QED
      BY <1>0, <2>1, <3>2, UploadChange
  <2>5. CASE ul' = [ul EXCEPT !.phase = "kDraining"]
    <3>2. /\ ul' \in Uploads /\ ul'.active = ul.active /\ ul'.src = ul.src /\ ul'.idx = ul.idx
          /\ ul'.name = ul.name /\ ul'.skew = ul.skew /\ ul'.phase = "kDraining"
          /\ ul'.remaining # 0
      BY <1>1, <2>5 DEF Uploads, Phases
    <3>. QED
      BY <1>0, <2>1, <3>2, UploadChange
  <2>. QED
    BY <1>3, <2>3, <2>4, <2>5 DEF WriteError, WriteTimeout
<1>4. CASE DrainChunk \/ DrainTimeout
  <2>1. lib' = lib /\ ul.phase = "kDraining"
    BY <1>4 DEF DrainChunk, DrainTimeout
  <2>2. CASE ul' = NoUpload
    <3>1. \A m \in DOMAIN lib'.files : lib'.files[m] # "partial"
      BY <2>1 DEF IInv, NoPartialLeft
    <3>2. Agree(lib)'
      BY <2>1 DEF IInv
    <3>. QED
      BY <1>0, <1>1, <2>1, <2>2, <3>1, <3>2, UploadEnds, UploadChange
  <2>3. CASE ul' = [ul EXCEPT !.remaining = @ - 1] /\ ul.remaining # 1
    BY <1>0, <2>1, <2>3, UploadGoesOn
  <2>. QED
    BY <1>4, <2>2, <2>3 DEF DrainChunk, DrainTimeout
<1>. QED
  BY <1>0, <1>2, <1>3, <1>4

LEMMA DisconnectKeeps ==
  ASSUME IInv, NEW s \in Dropping, Disconnect(s) PROVE IInv' /\ ReaderStep /\ IndexStep
<1>0. /\ off' = off /\ off' \in BOOLEAN /\ s \in Sources /\ s # NoSource
      /\ dl' \in {dl, NoDownload} /\ ar' \in {ar, NoArchive}
  BY Facts, TransferAssumption DEF Disconnect, NoSource
<1>1. CASE ul.src = s
  <2>1. ul.active /\ ul' = NoUpload /\ DropPartial
    BY <1>0, <1>1, Facts DEF Disconnect, IInv, Turns
  <2>2. /\ lib' \in Libs /\ lib'.names = lib.names /\ Agree(lib)'
        /\ \A m : m # ul.name => (m \in DOMAIN lib'.files <=> m \in DOMAIN lib.files)
        /\ \A m \in DOMAIN lib.files : m # ul.name => lib'.files[m] = lib.files[m]
        /\ \A m \in DOMAIN lib'.files : lib'.files[m] # "partial"
        /\ ul.name \in DOMAIN lib'.files => ul.name \in DOMAIN lib.files
    BY <2>1, DropPartialResult
  <2>. QED
    BY <1>0, <2>1, <2>2, UploadEnds, UploadChange
<1>2. CASE ul.src # s
  <2>1. lib' = lib /\ ul' = ul
    BY <1>2 DEF Disconnect
  <2>2. Types'
    BY <1>0, <2>1, IdleIs DEF IInv, Types
  <2>3. Turns'
    BY <1>0, <2>1, IdleIs DEF IInv, Turns
  <2>4. NoPartialLeft' /\ UploadHeld' /\ Agree(lib)'
    BY <2>1 DEF IInv, NoPartialLeft, UploadHeld
  <2>5. DownloadHeld'
    BY <1>0, <2>1, IdleIs DEF IInv, DownloadHeld
  <2>. QED
    BY <2>1, <2>2, <2>3, <2>4, <2>5, SameLibrary DEF IInv
<1>. QED
  BY <1>1, <1>2

LEMMA PurgeMemoryKeeps ==
  ASSUME IInv, PurgeMemory PROVE IInv' /\ ReaderStep /\ IndexStep
<1>1. /\ off' = off /\ dl' = dl /\ ul' = ul /\ ar' = ar
      /\ ~dl.active /\ ~ul.active /\ ~ar.active
  BY DEF PurgeMemory, Transferring
<1>2. PICK formatted \in BOOLEAN, fault \in ManifestFaults :
        lib' = purgeMemory(lib, formatted, fault)
  BY FaultsAre DEF PurgeMemory
<1>3. CASE ~formatted
  <2>1. lib' = lib
    BY <1>2, <1>3, PurgeResult, Facts
  <2>. QED
    BY <1>1, <2>1, ShowKeeps, Facts
<1>4. CASE formatted
  <2>1. lib' \in Libs /\ Agree(lib') /\ DOMAIN lib'.files = {} /\ lib'.names = <<>>
    BY <1>2, <1>4, PurgeResult, Facts
  <2>2. Types' /\ Turns'
    BY <1>1, <2>1 DEF IInv, Types, Turns
  <2>3. NoPartialLeft' /\ DownloadHeld' /\ UploadHeld' /\ ReaderStep
    BY <1>1, <2>1 DEF NoPartialLeft, DownloadHeld, UploadHeld, ReaderStep
  <2>4. Ghosts(lib') = {} /\ Unlisted(lib') = {}
    BY <2>1 DEF Ghosts, Unlisted, ToSet
  <2>5. IndexStep
    BY <2>4, Zenon DEF IndexStep
  <2>. QED
    BY <2>1, <2>2, <2>3, <2>5 DEF IInv
<1>. QED
  BY <1>3, <1>4

\* What a delete leaves in the index.
LEMMA RestIs ==
  ASSUME NEW l \in Libs, NEW id \in 0 .. Len(l.names), NEW q, q = Rest(l, id)
  PROVE  /\ q \in Lists /\ ToSet(q) \subseteq ToSet(l.names)
         /\ \A m \in ToSet(l.names) : m # PathOf(l, id) => m \in ToSet(q)
         /\ IsInjective(l.names) => IsInjective(q) /\ PathOf(l, id) \notin ToSet(q)
<1>0. l.names \in Lists
  BY LibFacts
<1>1. /\ id # 0 => id \in 1 .. Len(l.names) /\ PathOf(l, id) = l.names[id]
      /\ id = 0 => PathOf(l, id) = Temp
  BY PathOfIs
<1>2. CASE id = 0
  <2>1. q = l.names /\ PathOf(l, id) = Temp
    BY <1>1, <1>2 DEF Rest
  <2>2. Temp \notin ToSet(l.names)
    BY <1>0, ListFacts, PathsAre DEF ToSet
  <2>. QED
    BY <1>0, <2>1, <2>2
<1>3. CASE id # 0
  <2>1. q = removeAt(l.names, id) /\ PathOf(l, id) = l.names[id] /\ id \in 1 .. Len(l.names)
    BY <1>1, <1>3 DEF Rest
  <2>2. q \in Lists
    BY <1>0, <2>1, RemoveKeepsList
  <2>3. /\ ToSet(q) \subseteq ToSet(l.names)
        /\ \A m \in ToSet(l.names) : m # l.names[id] => m \in ToSet(q)
        /\ IsInjective(l.names) => IsInjective(q) /\ l.names[id] \notin ToSet(q)
    BY <1>0, <2>1, RemoveSet
  <2>. QED
    BY <2>1, <2>2, <2>3, Zenon
<1>. QED
  BY <1>2, <1>3

LEMMA SetPatternFilenameKeeps ==
  ASSUME IInv, NEW idx \in Indices \cup {0}, SetPatternFilename(idx)
  PROVE  IInv' /\ ReaderStep /\ IndexStep
<1>. DEFINE old == PathOf(lib, idx)
            p   == IF idx = 0 THEN lib.names ELSE removeAt(lib.names, idx)
            e   == Without(lib.files, old)
<1>0. /\ lib \in Libs /\ lib.files \in Cards /\ lib.names \in Lists /\ idx \in 0 .. Len(lib.names)
  BY Facts, ListFacts DEF Indices
<1>1. /\ off' = off /\ dl' = dl /\ ul' = ul /\ ar' = ar
      /\ ~dl.active /\ ~ul.active /\ ~ar.active
  BY DEF SetPatternFilename, Transferring
<1>2. PICK n \in UNION {candidates(lib, new) : new \in Names}, renamed \in BOOLEAN,
           fault \in ManifestFaults : lib' = renamePattern(lib, idx, n, renamed, fault)
  BY FaultsAre DEF SetPatternFilename
<1>3. n \in Names
  BY DEF candidates
<1>4. CASE ~(renamed /\ old \in DOMAIN lib.files)
  <2>1. lib' = lib
    BY <1>0, <1>2, <1>3, <1>4, RenameResult
  <2>. QED
    BY <1>1, <2>1, ShowKeeps, Facts
<1>5. CASE renamed /\ old \in DOMAIN lib.files
  <2>1. /\ lib' \in Libs /\ Agree(lib')
        /\ lib'.files = With(e, n, lib.files[old])
        /\ lib'.names = insertSorted(p, n)
    <3>1. Renamed(lib, idx, n, lib')
      BY <1>0, <1>2, <1>3, <1>5, RenameResult
    <3>. QED
      BY <3>1 DEF Renamed, Rest
  <2>2. /\ old \in Paths
        /\ idx # 0 => idx \in 1 .. Len(lib.names) /\ old = lib.names[idx]
        /\ idx = 0 => old = Temp
    BY <1>0, PathOfIs
  <2>3. /\ p \in Lists /\ ToSet(p) \subseteq ToSet(lib.names)
        /\ \A m \in ToSet(lib.names) : m # old => m \in ToSet(p)
        /\ IsInjective(lib.names) => old \notin ToSet(p)
    <3>1. p = Rest(lib, idx)
      BY DEF Rest
    <3>. HIDE DEF p
    <3>. QED
      BY <1>0, <3>1, RestIs
  <2>4. e = Without(lib.files, old)
    OBVIOUS
  <2>. HIDE DEF p, e, old
  <2>5. Took(lib.files, old, e) /\ lib.files[old] \in Holds /\ n \in Paths
    BY <1>0, <1>3, <1>5, <2>4, WithoutResult, CardFacts, PathsAre
  <2>6. e \in Cards /\ DOMAIN e = DOMAIN lib.files \ {old} /\ \A m \in DOMAIN e : e[m] = lib.files[m]
    BY <2>5 DEF Took
  <2>7. Wrote(e, n, lib.files[old], lib'.files)
    BY <2>1, <2>5, <2>6, WithResult
  <2>8. /\ DOMAIN lib'.files = (DOMAIN lib.files \ {old}) \cup {n}
        /\ lib'.files[n] = lib.files[old]
        /\ \A m \in DOMAIN e : m # n => lib'.files[m] = lib.files[m]
    BY <2>6, <2>7 DEF Wrote
  <2>9. /\ ToSet(lib'.names) \subseteq ToSet(p) \cup {n} /\ ToSet(p) \subseteq ToSet(lib'.names)
        /\ n \in ToSet(lib'.names) \/ Len(lib'.names) = MaxCount
    BY <1>3, <2>1, <2>3, InsertSet
  <2>10. Types' /\ Turns'
    BY <1>1, <2>1 DEF IInv, Types, Turns
  <2>11. \A m \in DOMAIN lib.files : lib.files[m] # "partial"
    BY <1>1 DEF IInv, NoPartialLeft
  <2>12. NoPartialLeft'
    BY <1>5, <2>6, <2>8, <2>11 DEF NoPartialLeft
  <2>13. DownloadHeld' /\ UploadHeld' /\ ReaderStep
    BY <1>1 DEF DownloadHeld, UploadHeld, ReaderStep
  <2>14. ASSUME NEW m \in Ghosts(lib') \ Ghosts(lib) PROVE ~IsInjective(lib.names)
    BY <2>3, <2>8, <2>9, Zenon DEF Ghosts
  <2>15. ASSUME NEW m \in Unlisted(lib') \ Unlisted(lib) PROVE Len(lib'.names) = MaxCount
    BY <2>3, <2>8, <2>9, Zenon DEF Unlisted
  <2>16. IndexStep
    BY <2>14, <2>15, Zenon DEF IndexStep
  <2>. QED
    BY <2>1, <2>10, <2>12, <2>13, <2>16 DEF IInv
<1>. QED
  BY <1>4, <1>5

\* y is the transfer t after the pattern idx was deleted, or was not.
Followed(t, idx, deleted, y) ==
  /\ y.active = t.active /\ y.src = t.src /\ y.name = t.name /\ y.remaining = t.remaining
  /\ ~(t.active /\ deleted) => y = t
  /\ ~y.skew => ~t.skew
  /\ ~y.skew /\ t.active /\ deleted =>
       y.idx = IF idx >= 1 /\ t.idx > idx THEN t.idx - 1 ELSE t.idx

LEMMA DownloadFollows ==
  ASSUME NEW t \in Downloads, NEW idx \in 0 .. MaxCount, NEW deleted \in BOOLEAN,
         NEW reported \in BOOLEAN, NEW y, y = Shifted(t, idx, deleted, reported)
  PROVE  y \in Downloads /\ Followed(t, idx, deleted, y)
<1>0. t.idx \in 0 .. MaxCount /\ MaxCount \in Nat
  BY PathsAre DEF Downloads
<1>1. CASE ~(t.active /\ idx >= 1 /\ t.idx > idx /\ deleted)
  <2>1. y = t
    BY <1>1 DEF Shifted
  <2>. QED
    BY <1>1, <2>1 DEF Followed
<1>2. CASE (t.active /\ idx >= 1 /\ t.idx > idx /\ deleted) /\ reported
  <2>1. y = [t EXCEPT !.idx = t.idx - 1]
    BY <1>2 DEF Shifted, Downloads
  <2>2. t.idx - 1 \in 0 .. MaxCount
    BY <1>0, <1>2
  <2>3. y \in Downloads
    BY <2>1, <2>2 DEF Downloads
  <2>. QED
    BY <1>2, <2>1, <2>3 DEF Followed, Downloads
<1>3. CASE (t.active /\ idx >= 1 /\ t.idx > idx /\ deleted) /\ ~reported
  <2>1. y = [t EXCEPT !.skew = TRUE]
    BY <1>3 DEF Shifted
  <2>2. y \in Downloads
    BY <2>1 DEF Downloads
  <2>. QED
    BY <1>3, <2>1, <2>2 DEF Followed, Downloads
<1>. QED
  BY <1>1, <1>2, <1>3

LEMMA UploadFollows ==
  ASSUME NEW t \in Uploads, NEW idx \in 0 .. MaxCount, NEW deleted \in BOOLEAN,
         NEW reported \in BOOLEAN, NEW y, y = Shifted(t, idx, deleted, reported)
  PROVE  y \in Uploads /\ Followed(t, idx, deleted, y) /\ y.phase = t.phase
<1>0. t.idx \in 0 .. MaxCount /\ MaxCount \in Nat
  BY PathsAre DEF Uploads
<1>1. CASE ~(t.active /\ idx >= 1 /\ t.idx > idx /\ deleted)
  <2>1. y = t
    BY <1>1 DEF Shifted
  <2>. QED
    BY <1>1, <2>1 DEF Followed
<1>2. CASE (t.active /\ idx >= 1 /\ t.idx > idx /\ deleted) /\ reported
  <2>1. y = [t EXCEPT !.idx = t.idx - 1]
    BY <1>2 DEF Shifted, Uploads
  <2>2. t.idx - 1 \in 0 .. MaxCount
    BY <1>0, <1>2
  <2>3. y \in Uploads
    BY <2>1, <2>2 DEF Uploads
  <2>. QED
    BY <1>2, <2>1, <2>3 DEF Followed, Uploads
<1>3. CASE (t.active /\ idx >= 1 /\ t.idx > idx /\ deleted) /\ ~reported
  <2>1. y = [t EXCEPT !.skew = TRUE]
    BY <1>3 DEF Shifted
  <2>2. y \in Uploads
    BY <2>1 DEF Uploads
  <2>. QED
    BY <1>3, <2>1, <2>2 DEF Followed, Uploads
<1>. QED
  BY <1>1, <1>2, <1>3

\* The shift keeps the index of a transfer on its file.
LEMMA StillPoints ==
  ASSUME NEW l \in Libs, NEW idx \in 0 .. Len(l.names), NEW t, t.active, Points(l.names, t),
         t.idx # idx, NEW y, Followed(t, idx, TRUE, y), ~y.skew, NEW q, q = Rest(l, idx)
  PROVE  Points(q, y)
<1>0. l.names \in Seq(Names) /\ Len(l.names) \in Nat
  BY LibFacts, ListFacts
<1>1. y.name = t.name /\ y.idx = IF idx >= 1 /\ t.idx > idx THEN t.idx - 1 ELSE t.idx
  BY DEF Followed
<1>2. CASE idx = 0
  BY <1>1, <1>2 DEF Rest, Points
<1>3. CASE idx # 0
  <2>1. idx \in 1 .. Len(l.names) /\ idx >= 1
    BY <1>0, <1>3
  <2>2. q = removeAt(l.names, idx)
    BY <1>3 DEF Rest
  <2>3. /\ Len(q) = Len(l.names) - 1
        /\ \A i \in 1 .. Len(l.names) - 1 : q[i] = IF i < idx THEN l.names[i] ELSE l.names[i + 1]
    <3>. DEFINE a == l.names
    <3>1. a \in Seq(Names) /\ idx \in 1 .. Len(a) /\ q = removeAt(a, idx)
      BY <1>0, <2>1, <2>2
    <3>. HIDE DEF a
    <3>2. /\ Len(q) = Len(a) - 1
          /\ \A i \in 1 .. Len(a) - 1 : q[i] = IF i < idx THEN a[i] ELSE a[i + 1]
      BY <3>1, RemoveResult
    <3>. QED
      BY <3>2 DEF a
  <2>4. CASE t.idx = 0 /\ t.name = Temp
    <3>1. y.idx = 0
      <4>1. ~(0 > idx)
        BY <1>0
      <4>. QED
        BY <1>1, <2>4, <4>1
    <3>. QED
      BY <1>1, <2>4, <3>1 DEF Points
  <2>5. CASE (t.idx \in 1 .. Len(l.names) /\ l.names[t.idx] = t.name) /\ t.idx > idx
    <3>1. /\ y.idx = t.idx - 1 /\ y.idx \in 1 .. Len(l.names) - 1
          /\ ~(y.idx < idx) /\ y.idx + 1 = t.idx
      BY <1>0, <1>1, <2>1, <2>5
    <3>2. q[y.idx] = t.name
      BY <2>3, <2>5, <3>1
    <3>. QED
      BY <1>1, <2>3, <3>1, <3>2 DEF Points
  <2>6. CASE (t.idx \in 1 .. Len(l.names) /\ l.names[t.idx] = t.name) /\ ~(t.idx > idx)
    <3>1. y.idx = t.idx /\ y.idx \in 1 .. Len(l.names) - 1 /\ y.idx < idx
      BY <1>0, <1>1, <2>1, <2>6
    <3>2. q[y.idx] = t.name
      BY <2>3, <2>6, <3>1
    <3>. QED
      BY <1>1, <2>3, <3>1, <3>2 DEF Points
  <2>. QED
    BY <2>4, <2>5, <2>6 DEF Points
<1>. QED
  BY <1>2, <1>3

LEMMA DeletePatternFileKeeps ==
  ASSUME IInv, NEW s \in Sources, NEW idx \in Indices \cup {0}, DeletePatternFile(s, idx)
  PROVE  IInv' /\ ReaderStep /\ IndexStep
<1>. DEFINE old == PathOf(lib, idx)
<1>0. /\ lib \in Libs /\ lib.files \in Cards /\ lib.names \in Lists /\ idx \in 0 .. Len(lib.names)
      /\ idx \in 0 .. MaxCount
  <2>1. Len(lib.names) \in Nat /\ Len(lib.names) <= MaxCount /\ MaxCount \in Nat
    BY Facts, ListFacts, PathsAre
  <2>. QED
    BY <2>1, Facts DEF Indices
<1>1. /\ off' = off /\ ar' = ar /\ ~(dl.active /\ dl.idx = idx) /\ ~(ul.active /\ ul.idx = idx)
      /\ ar.active => s \in Sources \ {ar.src}
  BY DEF DeletePatternFile, patternBusy, Owns
<1>2. PICK removed \in BOOLEAN, fault \in ManifestFaults :
        /\ Reported(fault) \in BOOLEAN
        /\ lib' = deletePattern(lib, idx, removed, fault)
        /\ dl' = Shifted(dl, idx, removed /\ old \in DOMAIN lib.files, Reported(fault))
        /\ ul' = Shifted(ul, idx, removed /\ old \in DOMAIN lib.files, Reported(fault))
  BY FaultsAre DEF DeletePatternFile
<1>. DEFINE deleted  == removed /\ old \in DOMAIN lib.files
            reported == Reported(fault)
<1>3. /\ deleted \in BOOLEAN /\ reported \in BOOLEAN
      /\ dl' = Shifted(dl, idx, deleted, reported) /\ ul' = Shifted(ul, idx, deleted, reported)
  BY <1>2
<1>4. (~deleted => lib' = lib) /\ (deleted => Deleted(lib, idx, lib'))
  BY <1>0, <1>2, DeleteResult
<1>. HIDE DEF deleted, reported
<1>5. /\ dl' \in Downloads /\ Followed(dl, idx, deleted, dl')
      /\ ul' \in Uploads /\ Followed(ul, idx, deleted, ul') /\ ul'.phase = ul.phase
  <2>1. idx \in 0 .. MaxCount /\ dl \in Downloads /\ ul \in Uploads
    BY <1>0, Facts
  <2>2. dl' \in Downloads /\ Followed(dl, idx, deleted, dl')
    BY <1>3, <2>1, DownloadFollows
  <2>3. ul' \in Uploads /\ Followed(ul, idx, deleted, ul') /\ ul'.phase = ul.phase
    BY <1>3, <2>1, UploadFollows
  <2>. QED
    BY <2>2, <2>3
<1>6. CASE ~deleted
  <2>1. dl' = dl /\ ul' = ul
    BY <1>5, <1>6 DEF Followed
  <2>. QED
    BY <1>1, <1>4, <1>6, <2>1, ShowKeeps, Facts
<1>7. CASE deleted
  <2>1. /\ lib' \in Libs /\ Agree(lib') /\ lib'.names = Rest(lib, idx)
        /\ lib'.files = Without(lib.files, old)
    BY <1>4, <1>7 DEF Deleted
  <2>2. /\ ToSet(lib'.names) \subseteq ToSet(lib.names)
        /\ \A m \in ToSet(lib.names) : m # old => m \in ToSet(lib'.names)
        /\ IsInjective(lib.names) => IsInjective(lib'.names) /\ old \notin ToSet(lib'.names)
    BY <1>0, <2>1, RestIs
  <2>3. Took(lib.files, old, lib'.files)
    BY <1>0, <2>1, WithoutResult
  <2>4. /\ DOMAIN lib'.files = DOMAIN lib.files \ {old}
        /\ \A m \in DOMAIN lib'.files : lib'.files[m] = lib.files[m]
    BY <2>3 DEF Took
  <2>5. /\ dl'.active = dl.active /\ dl'.src = dl.src /\ dl'.name = dl.name
        /\ (~dl.active => dl' = dl) /\ (~dl'.skew => ~dl.skew)
        /\ ul'.active = ul.active /\ ul'.src = ul.src /\ ul'.name = ul.name
        /\ ul'.remaining = ul.remaining /\ (~ul.active => ul' = ul) /\ (~ul'.skew => ~ul.skew)
    BY <1>5 DEF Followed
  <2>6. ASSUME dl.active, ~dl.skew PROVE dl.name # old
    <3>1. IsInjective(lib.names) /\ Points(lib.names, dl) /\ idx # dl.idx
      BY <1>1, <2>6 DEF IInv, DownloadHeld
    <3>. QED
      BY <1>0, <3>1, OtherFile
  <2>7. ASSUME dl.active, ~dl'.skew PROVE Points(lib'.names, dl')
    <3>1. Points(lib.names, dl) /\ idx # dl.idx
      BY <1>1, <2>5, <2>7 DEF IInv, DownloadHeld
    <3>2. Followed(dl, idx, TRUE, dl')
      BY <1>5, <1>7
    <3>. QED
      BY <1>0, <2>1, <2>7, <3>1, <3>2, StillPoints
  <2>8. ASSUME ul.active, ~ul.skew PROVE ul.name # old
    <3>1. IsInjective(lib.names) /\ Points(lib.names, ul) /\ idx # ul.idx
      BY <1>1, <2>8 DEF IInv, UploadHeld
    <3>. QED
      BY <1>0, <3>1, OtherFile
  <2>9. ASSUME ul.active, ~ul'.skew PROVE Points(lib'.names, ul')
    <3>1. Points(lib.names, ul) /\ idx # ul.idx
      BY <1>1, <2>5, <2>9 DEF IInv, UploadHeld
    <3>2. Followed(ul, idx, TRUE, ul')
      BY <1>5, <1>7
    <3>. QED
      BY <1>0, <2>1, <2>9, <3>1, <3>2, StillPoints
  <2>. HIDE DEF old
  <2>10. Types'
    BY <1>1, <1>5, <2>1, Facts DEF Types
  <2>11. Turns'
    BY <1>1, <2>5 DEF IInv, Turns
  <2>12. NoPartialLeft'
    BY <1>5, <2>4, <2>5 DEF IInv, NoPartialLeft
  <2>13. DownloadHeld'
    BY <2>2, <2>4, <2>5, <2>6, <2>7 DEF IInv, DownloadHeld
  <2>14. UploadHeld'
    BY <1>5, <2>2, <2>4, <2>5, <2>8, <2>9 DEF IInv, UploadHeld
  <2>15. ReaderStep
    <3>1. dl.active /\ ~dl.skew =>
            dl.name \in DOMAIN lib'.files /\ lib'.files[dl.name] = lib.files[dl.name]
      BY <2>4, <2>6 DEF IInv, DownloadHeld
    <3>2. \A m \in DOMAIN lib'.files : m \in DOMAIN lib.files /\ lib'.files[m] = lib.files[m]
      BY <2>4
    <3>3. ar.active => \E z \in Sources \ {ar.src}, i \in Indices \cup {0} : DeletePatternFile(z, i)
      BY <1>1
    <3>. QED
      BY <3>1, <3>2, <3>3, Zenon DEF ReaderStep
  <2>16. ASSUME NEW m \in Ghosts(lib') \ Ghosts(lib) PROVE ~IsInjective(lib.names)
    BY <2>2, <2>4, Zenon DEF Ghosts
  <2>17. ASSUME NEW m \in Unlisted(lib') \ Unlisted(lib) PROVE FALSE
    BY <2>2, <2>4, Zenon DEF Unlisted
  <2>18. IndexStep
    BY <2>16, <2>17, Zenon DEF IndexStep
  <2>. QED
    BY <2>1, <2>10, <2>11, <2>12, <2>13, <2>14, <2>15, <2>18 DEF IInv
<1>. QED
  BY <1>6, <1>7

LEMMA BootKeeps ==
  ASSUME IInv, Boot PROVE IInv' /\ ReaderStep /\ IndexStep
<1>. DEFINE f == LeftBehind(lib.files)
            c == [lib EXCEPT !.files = f]
<1>0. lib \in Libs /\ lib.files \in Cards
  BY Facts
<1>1. PICK fault \in ManifestFaults : lib' \in begin(c, fault)
  BY DEF Boot
<1>2. off' = TRUE /\ dl' = NoDownload /\ ul' = NoUpload /\ ar' = NoArchive
  BY DEF Boot
<1>3. f \in Cards /\ DOMAIN f = DOMAIN lib.files /\ \A m \in DOMAIN lib.files : f[m] # "partial"
  BY <1>0, LeftBehindResult
<1>. HIDE DEF f
<1>4. c \in Libs /\ c.files = f
  BY <1>0, <1>3, FilesResult
<1>. HIDE DEF c
<1>5. lib' \in Libs /\ lib'.files = f /\ Agree(lib') /\ lib'.names \in scanPatterns(f)
  BY <1>1, <1>4, BeginResult
<1>6. /\ ToSet(lib'.names) \subseteq Pat \cap DOMAIN f
      /\ ToSet(lib'.names) = Pat \cap DOMAIN f \/ Len(lib'.names) = MaxCount
  BY <1>3, <1>5, ScanResult
<1>7. Types'
  BY <1>2, <1>5, IdleIs DEF Types
<1>8. Turns'
  BY <1>2, IdleIs DEF Turns
<1>9. NoPartialLeft'
  BY <1>3, <1>5 DEF NoPartialLeft
<1>10. DownloadHeld' /\ UploadHeld' /\ ReaderStep
  BY <1>2, IdleIs DEF DownloadHeld, UploadHeld, ReaderStep
<1>11. Ghosts(lib') = {}
  BY <1>5, <1>6 DEF Ghosts
<1>12. ASSUME NEW m \in Unlisted(lib') PROVE Len(lib'.names) = MaxCount \/ m \notin Pat
  BY <1>5, <1>6 DEF Unlisted
<1>13. IndexStep
  BY <1>11, <1>12, Zenon DEF IndexStep
<1>. QED
  BY <1>5, <1>7, <1>8, <1>9, <1>10, <1>13 DEF IInv

\* A reset renumbers nothing without reason: the index before it is the only
\* increasing list of the pattern files.
LEMMA RebootStep ==
  ASSUME IInv, Boot, Ghosts(lib) = {}, Unlisted(lib) = {}, IsInjective(lib.names),
         ToSet(lib.names) \subseteq Pat
  PROVE  lib'.names = lib.names
<1>. DEFINE f == LeftBehind(lib.files)
            c == [lib EXCEPT !.files = f]
            p == lib'.names
            q == lib.names
<1>0. lib \in Libs /\ lib.files \in Cards /\ q \in Lists
  BY Facts
<1>1. PICK fault \in ManifestFaults : lib' \in begin(c, fault)
  BY DEF Boot
<1>2. f \in Cards /\ DOMAIN f = DOMAIN lib.files
  BY <1>0, LeftBehindResult
<1>. HIDE DEF f
<1>3. c \in Libs /\ c.files = f
  BY <1>0, <1>2, FilesResult
<1>. HIDE DEF c
<1>4. p \in scanPatterns(f)
  BY <1>1, <1>3, BeginResult
<1>5. /\ p \in Lists /\ Increasing(p) /\ ToSet(p) \subseteq Pat \cap DOMAIN f
      /\ ToSet(p) = Pat \cap DOMAIN f \/ Len(p) = MaxCount
  BY <1>2, <1>4, ScanResult
<1>6. ToSet(q) = Pat \cap DOMAIN f
  <2>1. ToSet(q) \subseteq DOMAIN f
    BY <1>2 DEF Ghosts
  <2>2. Pat \cap DOMAIN f \subseteq ToSet(q)
    <3>1. Temp \notin Pat
      BY LibraryAssumption
    <3>. QED
      BY <1>2, <3>1 DEF Unlisted
  <2>. QED
    BY <2>1, <2>2
<1>. HIDE DEF p, q
<1>7. q \in Seq(Nat) /\ p \in Seq(Nat) /\ Len(q) <= MaxCount
  <2>1. q \in Seq(Names) /\ p \in Seq(Names) /\ Len(q) <= MaxCount
    BY <1>0, <1>5, ListFacts
  <2>2. \A r \in Seq(Names) : r \in Seq(Nat)
    BY PathsAre, SeqMonotonic
  <2>. QED
    BY <2>1, <2>2, Zenon
<1>8. Increasing(q)
  <2>1. /\ Sorted(q) /\ DOMAIN q = 1 .. Len(q) /\ \A i \in 1 .. Len(q) : q[i] \in Nat
    BY <1>0, ListFacts, PathsAre
  <2>2. \A i, j \in 1 .. Len(q) : q[i] = q[j] => i = j
    BY <2>1 DEF IsInjective, q
  <2>3. ASSUME NEW i \in 1 .. Len(q), NEW j \in 1 .. Len(q), i < j PROVE q[i] < q[j]
    <3>1. q[i] <= q[j]
      BY <2>1, <2>3 DEF Sorted
    <3>2. q[i] # q[j]
      BY <2>2, <2>3
    <3>. QED
      BY <2>1, <3>1, <3>2
  <2>. QED
    BY <2>1, <2>3 DEF Increasing
<1>9. Len(q) <= Len(p) \/ ToSet(q) \subseteq ToSet(p)
  BY <1>5, <1>6, <1>7
<1>10. p = q
  BY <1>5, <1>6, <1>7, <1>8, <1>9, SameIncreasing
<1>. QED
  BY <1>10 DEF p, q

-----------------------------------------------------------------------------
(***************************************************************************)
(* The theorems.                                                           *)
(***************************************************************************)
LEMMA InitHolds == Init => IInv
<1>. SUFFICES ASSUME Init PROVE IInv
  OBVIOUS
<1>. DEFINE f == [n \in InitFiles |-> "closed"]
            c == [files |-> f, names |-> <<>>, bin |-> "bad", txt |-> "bad", open |-> Closed]
<1>1. f \in Cards /\ \A m \in DOMAIN f : f[m] # "partial"
  <2>1. InitFiles \in SUBSET Paths /\ f \in [InitFiles -> Holds]
    BY TransferAssumption DEF Paths, Holds
  <2>. QED
    BY <2>1, CardIs
<1>2. PICK fault \in ManifestFaults : lib \in begin(c, fault)
  BY DEF Init
<1>. HIDE DEF f
<1>3. <<>> \in Lists
  BY PathsAre DEF Lists, Sorted
<1>4. c \in Libs /\ c.files = f
  BY <1>1, <1>3 DEF Libs, Marks
<1>. HIDE DEF c
<1>5. lib \in Libs /\ lib.files = f /\ Agree(lib)
  BY <1>2, <1>4, BeginResult
<1>6. off = TRUE /\ dl = NoDownload /\ ul = NoUpload /\ ar = NoArchive
  BY DEF Init
<1>7. Types /\ Turns
  BY <1>5, <1>6, IdleIs DEF Types, Turns
<1>8. NoPartialLeft /\ DownloadHeld /\ UploadHeld
  BY <1>1, <1>5, <1>6, IdleIs DEF NoPartialLeft, DownloadHeld, UploadHeld
<1>. QED
  BY <1>5, <1>7, <1>8 DEF IInv

LEMMA StepHolds ==
  ASSUME IInv, [Next]_vars PROVE IInv' /\ ReaderStep /\ IndexStep
<1>1. CASE UNCHANGED vars
  BY <1>1, ShowKeeps, Facts DEF vars
<1>2. ASSUME NEW idx \in Indices \cup {0}, SetPatternFilename(idx)
      PROVE  IInv' /\ ReaderStep /\ IndexStep
  BY <1>2, SetPatternFilenameKeeps
<1>3. ASSUME NEW s \in Sources, NEW idx \in Indices \cup {0}, DeletePatternFile(s, idx)
      PROVE  IInv' /\ ReaderStep /\ IndexStep
  BY <1>3, DeletePatternFileKeeps
<1>4. ASSUME NEW s \in Sources, NEW idx \in Indices \cup {0}, GetPatternFile(s, idx)
      PROVE  IInv' /\ ReaderStep /\ IndexStep
  BY <1>4, GetPatternFileKeeps
<1>5. ASSUME NEW s \in Sources, NEW idx \in Indices \cup {0}, SetPatternFile(s, idx)
      PROVE  IInv' /\ ReaderStep /\ IndexStep
  BY <1>5, SetPatternFileKeeps
<1>6. CASE PurgeMemory
  BY <1>6, PurgeMemoryKeeps
<1>7. ASSUME NEW s \in Sources, GetSdArchive(s) PROVE IInv' /\ ReaderStep /\ IndexStep
  BY <1>7, GetSdArchiveKeeps
<1>8. ASSUME NEW s \in Sources, ShowFrame(s) PROVE IInv' /\ ReaderStep /\ IndexStep
  BY <1>8, ShowKeeps DEF ShowFrame
<1>9. CASE AllOff
  BY <1>9, ShowKeeps DEF AllOff
<1>10. CASE serviceDownload
  BY <1>10, ServiceDownloadKeeps
<1>11. CASE serviceUpload
  BY <1>11, ServiceUploadKeeps
<1>12. CASE serviceArchive
  BY <1>12, ServiceArchiveKeeps
<1>13. ASSUME NEW s \in Dropping, Disconnect(s) PROVE IInv' /\ ReaderStep /\ IndexStep
  BY <1>13, DisconnectKeeps
<1>14. CASE Boot
  BY <1>14, BootKeeps
<1>. HIDE DEF IInv, ReaderStep, IndexStep
<1>. QED
  BY <1>1, <1>2, <1>3, <1>4, <1>5, <1>6, <1>7, <1>8, <1>9, <1>10, <1>11, <1>12, <1>13, <1>14,
     Zenon DEF Next

THEOREM Invariance == Spec => []IInv
<1>1. IInv /\ [Next]_vars => IInv'
  BY StepHolds
<1>. QED
  BY <1>1, InitHolds, PTL DEF Spec

LEMMA CardSoundFollows == IInv => CardSound
<1>. SUFFICES ASSUME IInv PROVE CardSound
  OBVIOUS
<1>0. lib \in Libs /\ lib.files \in Cards /\ lib.names \in Lists
  BY Facts
<1>1. /\ DOMAIN lib.files \subseteq Names \cup {Temp}
      /\ \A n \in DOMAIN lib.files : lib.files[n] \in {"closed", "partial"}
  BY <1>0, CardFacts DEF Paths, Holds
<1>2. lib.names \in Seq(Names) /\ Len(lib.names) <= MaxCount
  BY <1>0, ListFacts
<1>3. {lib.bin, lib.txt} \subseteq {"current", "stale", "bad"} /\ lib.open = Closed
  BY <1>0, LibFacts DEF Marks
<1>4. /\ \A t \in {dl, ul} : t.active => /\ t.src \in Sources /\ t.idx \in 0 .. MaxCount
                                         /\ t.remaining \in 0 .. Chunks
      /\ ar.active => ar.src \in Sources
  BY Facts DEF IInv, Turns
<1>5. TypeOK
  BY <1>1, <1>2, <1>3, <1>4, Facts DEF TypeOK
<1>6. ManifestsAgree
  BY DEF IInv, Agree, ManifestsAgree
<1>. QED
  BY <1>5, <1>6 DEF IInv, CardSound

\* The card is sound after each step, whichever open, write or rename failed: an
\* upload that is given up (write error, either deadline, disconnect) has tried to
\* remove its partial file, and two manifests that the card let be removed and
\* written anew describe the index.  Types of all variables included.
THEOREM CardIsSound == Spec => []CardSound
  BY Invariance, CardSoundFollows, PTL

LEMMA TransfersFollow == IInv => TransfersKeepTheirFile
<1>. SUFFICES ASSUME IInv, ~dl.skew, ~ul.skew PROVE
       /\ dl.active => /\ Latched(dl) = dl.name /\ dl.name \in DOMAIN lib.files
                       /\ lib.files[dl.name] # "partial"
       /\ ul.active => /\ Latched(ul) = ul.name
                       /\ ul.phase = "kWriting" => /\ ul.name \in DOMAIN lib.files
                                                   /\ lib.files[ul.name] = "partial"
  BY Zenon DEF TransfersKeepTheirFile
<1>1. ASSUME NEW t, Points(lib.names, t) PROVE Latched(t) = t.name
  <2>1. ~(0 \in 1 .. Len(lib.names))
    <3>1. Len(lib.names) \in Nat
      BY Facts, ListFacts
    <3>. QED
      BY <3>1
  <2>. QED
    BY <1>1, <2>1 DEF Points, Latched, Indices
<1>2. dl.active => /\ Points(lib.names, dl) /\ dl.name \in DOMAIN lib.files
                   /\ lib.files[dl.name] # "partial"
  BY DEF IInv, DownloadHeld
<1>3. ul.active => /\ Points(lib.names, ul)
                   /\ ul.phase = "kWriting" => /\ ul.name \in DOMAIN lib.files
                                               /\ lib.files[ul.name] = "partial"
  BY DEF IInv, UploadHeld
<1>. QED
  BY <1>1, <1>2, <1>3, Zenon

\* The index a download or an upload latched names the file it has open, and that
\* file is on the card, whatever the other source renames, deletes, uploads or
\* purges meanwhile; the excepted cases are those the history variable marks.
THEOREM TransfersKeep == Spec => []TransfersKeepTheirFile
  BY Invariance, TransfersFollow, PTL

\* No step of any source rewrites or removes the file of a download that goes on.
\* While an archive is sent no pattern file is changed or added, and the index and
\* the manifests are left alone by everything but a delete by the other source,
\* which the code does not refuse.
THEOREM ReadersAreUndisturbed == Spec => ReadersUndisturbed
<1>1. IInv /\ [Next]_vars =>
        [/\ dl.active /\ dl'.active /\ ~dl.skew /\ ~ul.skew =>
              dl.name \in DOMAIN lib'.files /\ lib'.files[dl.name] = lib.files[dl.name]
         /\ ar.active /\ ar'.active =>
              /\ \A n \in DOMAIN lib'.files :
                    n \in DOMAIN lib.files /\ lib'.files[n] = lib.files[n]
              /\ \/ UNCHANGED <<lib.names, lib.bin, lib.txt>>
                 \/ \E s \in Sources \ {ar.src}, idx \in Indices \cup {0} :
                      DeletePatternFile(s, idx)]_vars
  BY StepHolds DEF ReaderStep
<1>. QED
  BY <1>1, Invariance, PTL DEF Spec, ReadersUndisturbed

\* Index and card part only where the code accepts it (an upload that fails, a
\* full index, a name that is no pattern's), and a reset renumbers nothing when
\* they agree: "the 1-based pattern ID is stable across reboots".
THEOREM IndexIsStable == Spec => IndexStable
<1>1. IInv /\ [Next]_vars =>
        [lib' # lib =>
           /\ \A n \in Ghosts(lib') \ Ghosts(lib) :
                \/ ~IsInjective(lib.names)
                \/ ul.active /\ ul.name = n
                \/ \E s \in Sources, idx \in Indices : lib.names[idx] = n /\ SetPatternFile(s, idx)
           /\ \A n \in Unlisted(lib') \ Unlisted(lib) :
                Len(lib'.names) = MaxCount \/ (n \notin Pat /\ Boot)]_vars
  BY StepHolds DEF IndexStep
<1>2. IInv =>
        [lib'.names # lib.names /\ Boot =>
           \/ Ghosts(lib) # {} \/ Unlisted(lib) # {}
           \/ ~IsInjective(lib.names) \/ ~(ToSet(lib.names) \subseteq Pat)]_vars
  BY RebootStep
<1>. QED
  BY <1>1, <1>2, Invariance, PTL DEF Spec, IndexStable, IndexFollowsCard, RebootKeepsIndex
=============================================================================
