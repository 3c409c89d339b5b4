--------------------------- MODULE ListingProofs ----------------------------
(***************************************************************************)
(* Proofs about Listing for every set of names, every request and every    *)
(* size of page and of read: first the order of keys and what Sorted, Get, *)
(* groups and positions make of it, then types, then the invariant of      *)
(* paging, one lemma for each kind of listing.                             *)
(*                                                                         *)
(* Sorted takes the element with i - 1 others before it.  That there is    *)
(* exactly one needs no induction: an injection of a finite set into as    *)
(* many numbers leaves none of them out.                                   *)
(***************************************************************************)
EXTENDS Listing, FiniteSetTheorems, TLAPS

\* Zenon, where a step does not ask for another prover.
USE Zenon

\* The elements of R below k.
Under(R, S, k) == {j \in S : <<j, k>> \in R}

\* R is a strict order on S in which any two differ.
Orders(R, S) ==
  /\ \A x \in S : <<x, x>> \notin R
  /\ \A x, y, z \in S : <<x, y>> \in R /\ <<y, z>> \in R => <<x, z>> \in R
  /\ \A x, y \in S : x # y => <<x, y>> \in R \/ <<y, x>> \in R

\* In an order of finitely many, elements are told apart by how many are below them.
LEMMA Ranks ==
  ASSUME NEW S, IsFiniteSet(S), NEW R, Orders(R, S)
  PROVE  /\ Cardinality(S) \in Nat
         /\ \A k \in S : /\ IsFiniteSet(Under(R, S, k))
                         /\ Cardinality(Under(R, S, k)) \in 0..(Cardinality(S) - 1)
         /\ \A j, k \in S : <<j, k>> \in R => Cardinality(Under(R, S, j)) < Cardinality(Under(R, S, k))
<1> DEFINE U(k) == Under(R, S, k)
           n == Cardinality(S)
<1>1. n \in Nat
  BY FS_CardinalityType, SMT
<1>2. ASSUME NEW k \in S
      PROVE  IsFiniteSet(U(k)) /\ Cardinality(U(k)) \in Nat /\ Cardinality(U(k)) \in 0..(n - 1)
  <2>1. U(k) \in SUBSET S /\ k \notin U(k) /\ U(k) # S
    BY DEF Under, Orders
  <2>2. IsFiniteSet(U(k)) /\ Cardinality(U(k)) <= n /\ Cardinality(U(k)) # n
    BY <2>1, FS_Subset
  <2>3. Cardinality(U(k)) \in Nat
    BY <2>2, FS_CardinalityType
  <2> HIDE DEF U
  <2>4. QED
    BY <2>2, <2>3, <1>1, SMT
<1>3. ASSUME NEW j \in S, NEW k \in S, <<j, k>> \in R
      PROVE  Cardinality(U(j)) < Cardinality(U(k))
  <2>1. U(j) \in SUBSET U(k) /\ j \in U(k) /\ j \notin U(j)
    BY <1>3 DEF Under, Orders
  <2>2. Cardinality(U(j)) <= Cardinality(U(k)) /\ Cardinality(U(k)) # Cardinality(U(j))
    BY <2>1, <1>2, FS_Subset
  <2>3. Cardinality(U(j)) \in Nat /\ Cardinality(U(k)) \in Nat
    BY <1>2
  <2> HIDE DEF U
  <2>4. QED
    BY <2>2, <2>3, SMT
<1>4. QED
  BY <1>1, <1>2, <1>3

\* Every number from 0 on is that of an element.
Ranked(R, S) == \A i \in 0..(Cardinality(S) - 1) : \E k \in S : Cardinality(Under(R, S, k)) = i

\* These numbers leave none out.
LEMMA RanksTaken ==
  ASSUME NEW S, IsFiniteSet(S), NEW R, Orders(R, S)
  PROVE  Ranked(R, S)
<1> DEFINE n == Cardinality(S)
           rank == [k \in S |-> Cardinality(Under(R, S, k))]
<1>1. n \in Nat
  BY Ranks, SMT
<1>2. \A k \in S : Cardinality(Under(R, S, k)) \in Nat /\ Cardinality(Under(R, S, k)) \in 0..(n - 1)
  BY Ranks, FS_CardinalityType
<1>3. \A j, k \in S : <<j, k>> \in R => Cardinality(Under(R, S, j)) < Cardinality(Under(R, S, k))
  BY Ranks
<1>4. rank \in Injection(S, 0..(n - 1))
  <2>1. rank \in [S -> 0..(n - 1)]
    BY <1>2
  <2>2. ASSUME NEW j \in S, NEW k \in S, rank[j] = rank[k] PROVE j = k
    <3>1. Cardinality(Under(R, S, j)) = Cardinality(Under(R, S, k))
      BY <2>2
    <3>2. Cardinality(Under(R, S, j)) \in Nat /\ Cardinality(Under(R, S, k)) \in Nat
      BY <1>2
    <3>3. <<j, k>> \notin R /\ <<k, j>> \notin R
      BY <3>1, <3>2, <1>3, SMT
    <3>4. QED
      BY <3>3 DEF Orders
  <2>3. QED
    BY <2>1, <2>2 DEF Injection, IsInjective
<1>5. IsFiniteSet(0..(n - 1)) /\ Cardinality(0..(n - 1)) = n
  BY <1>1, FS_Interval, SMTT(20)
<1>6. rank \in Surjection(S, 0..(n - 1))
  BY <1>4, <1>5, FS_Injection
<1>7. \A i \in 0..(n - 1) : \E k \in S : rank[k] = i
  BY <1>6 DEF Surjection
<1>8. QED
  BY <1>7 DEF Ranked

\* Of finitely many numbers one is the least, and one the greatest.
LEMMA Extremes ==
  ASSUME NEW S \in SUBSET Int, IsFiniteSet(S), S # {}
  PROVE  /\ \E m \in S : \A x \in S : m <= x
         /\ \E m \in S : \A x \in S : x <= m
<1> DEFINE R == {p \in S \X S : p[1] < p[2]}
           n == Cardinality(S)
<1>1. \A x, y \in S : <<x, y>> \in R <=> x < y
  BY SMT
<1> HIDE DEF R
<1>2. Orders(R, S)
  BY <1>1, SMT DEF Orders
<1>3. n \in Nat /\ n # 0
  BY FS_CardinalityType, FS_EmptySet
<1>4. \A k \in S : IsFiniteSet(Under(R, S, k)) /\ Cardinality(Under(R, S, k)) \in 0..(n - 1)
  BY <1>2, Ranks
<1>5. \A j, k \in S : <<j, k>> \in R => Cardinality(Under(R, S, j)) < Cardinality(Under(R, S, k))
  BY <1>2, Ranks
<1>6. Ranked(R, S)
  BY <1>2, RanksTaken
<1>7. 0 \in 0..(n - 1) /\ n - 1 \in 0..(n - 1)
  BY <1>3, SMT
<1>8. PICK m \in S : Cardinality(Under(R, S, m)) = 0
  BY <1>6, <1>7 DEF Ranked
<1>9. ASSUME NEW x \in S PROVE m <= x
  <2>1. Under(R, S, m) = {}
    BY <1>4, <1>8, FS_EmptySet
  <2>2. <<x, m>> \notin R
    BY <2>1 DEF Under
  <2>3. QED
    BY <2>2, <1>1, SMT
<1>10. PICK l \in S : Cardinality(Under(R, S, l)) = n - 1
  BY <1>6, <1>7 DEF Ranked
<1>11. ASSUME NEW x \in S PROVE x <= l
  <2>1. ASSUME l < x PROVE FALSE
    <3>1. <<l, x>> \in R
      BY <2>1, <1>1
    <3>2. /\ Cardinality(Under(R, S, l)) < Cardinality(Under(R, S, x))
          /\ Cardinality(Under(R, S, x)) \in 0..(n - 1)
      BY <3>1, <1>4, <1>5
    <3>3. QED
      BY <3>2, <1>10, <1>3, SMT
  <2>2. QED
    BY <2>1, SMT
<1>12. QED
  BY <1>9, <1>11

-----------------------------------------------------------------------------
(***************************************************************************)
(* The order of keys.                                                      *)
(***************************************************************************)

\* A sequence is made of its elements.
LEMMA ElementType ==
  ASSUME NEW S, NEW q \in Seq(S)
  PROVE  Len(q) \in Nat /\ DOMAIN q = 1..Len(q) /\ \A i \in 1..Len(q) : q[i] \in S
BY SMT

\* The beginning of a sequence.
LEMMA Beginning ==
  ASSUME NEW S, NEW q \in Seq(S), NEW m \in Nat, m <= Len(q)
  PROVE  /\ SubSeq(q, 1, m) \in Seq(S) /\ Len(SubSeq(q, 1, m)) = m
         /\ \A i \in 1..m : SubSeq(q, 1, m)[i] = q[i]
BY SMT

\* Two sequences one after the other.
LEMMA Joined ==
  ASSUME NEW S, NEW q \in Seq(S), NEW r \in Seq(S)
  PROVE  /\ q \o r \in Seq(S) /\ Len(q \o r) = Len(q) + Len(r)
         /\ \A i \in 1..Len(q) : (q \o r)[i] = q[i]
         /\ \A i \in 1..Len(r) : (q \o r)[Len(q) + i] = r[i]
BY SMT

\* Sequences of the same length and elements are the same.
LEMMA SameSeq ==
  ASSUME NEW S, NEW q \in Seq(S), NEW r \in Seq(S), Len(q) = Len(r), \A i \in 1..Len(q) : q[i] = r[i]
  PROVE  q = r
BY SMT

\* A key is made of bytes.
LEMMA Bytes ==
  ASSUME NEW a \in Key
  PROVE  /\ Len(a) \in Nat
         /\ \A i \in 1..Len(a) : a[i] \in 0..255 /\ a[i] \in Int /\ 0 <= a[i] /\ a[i] <= 255
<1>1. a \in Seq(0..255)
  BY SMT DEF Key
<1>2. Len(a) \in Nat /\ \A i \in 1..Len(a) : a[i] \in 0..255
  BY <1>1, ElementType, ZenonT(40)
<1>3. \A b \in 0..255 : b \in Int /\ 0 <= b /\ b <= 255
  BY SMT
<1>4. QED
  BY <1>2, <1>3

\* No key is before itself.
LEMMA NotBefore == ASSUME NEW a \in Key PROVE ~Less(a, a)
BY Bytes, SMT DEF Less

\* What is before a key is before all that the key is before.
LEMMA Transitive ==
  ASSUME NEW a \in Key, NEW b \in Key, NEW c \in Key, Less(a, b), Less(b, c)
  PROVE  Less(a, c)
<1>1. PICK i \in 1..Len(b) : Len(a) >= i - 1 /\ (\A m \in 1..(i - 1) : a[m] = b[m])
                             /\ (Len(a) = i - 1 \/ a[i] < b[i])
  BY DEF Less
<1>2. PICK j \in 1..Len(c) : Len(b) >= j - 1 /\ (\A m \in 1..(j - 1) : b[m] = c[m])
                             /\ (Len(b) = j - 1 \/ b[j] < c[j])
  BY DEF Less
<1>3. CASE i < j
  <2>1. i \in 1..Len(c) /\ b[i] = c[i] /\ \A m \in 1..(i - 1) : a[m] = c[m]
    BY <1>1, <1>2, <1>3, SMT
  <2>2. QED
    BY <2>1, <1>1, SMT DEF Less
<1>4. CASE i = j
  <2>1. Len(a) = i - 1 \/ a[i] < c[i]
    <3>1. SUFFICES ASSUME Len(a) # i - 1 PROVE a[i] < c[i]
      BY SMT
    <3>2. i \in 1..Len(a) /\ i \in 1..Len(b) /\ i \in 1..Len(c)
      BY <1>1, <1>4, <3>1, SMT
    <3>3. a[i] \in Int /\ b[i] \in Int /\ c[i] \in Int
      BY <3>2, Bytes, SMT
    <3>4. QED
      BY <1>1, <1>2, <1>4, <3>1, <3>3, SMT
  <2>2. QED
    BY <2>1, <1>2, <1>4, SMTT(20) DEF Less
<1>5. CASE i > j
  <2>1. j \in 1..Len(a) /\ a[j] = b[j] /\ (\A m \in 1..(j - 1) : a[m] = c[m]) /\ Len(b) # j - 1
    BY <1>1, <1>2, <1>5, SMT
  <2>2. QED
    BY <2>1, <1>2, SMTT(20) DEF Less
<1>6. QED
  BY <1>3, <1>4, <1>5, SMT

\* Of two keys one is before the other.
LEMMA Total == ASSUME NEW a \in Key, NEW b \in Key, a # b PROVE Less(a, b) \/ Less(b, a)
<1> DEFINE n == IF Len(a) <= Len(b) THEN Len(a) ELSE Len(b)
           D == {i \in 1..n : a[i] # b[i]}
<1>1. CASE D = {}
  <2>1. \A i \in 1..n : a[i] = b[i]
    BY <1>1, SMT
  <2>2. CASE Len(a) = Len(b)
    <3>1. a = b
      BY <2>1, <2>2, SMT DEF Key
    <3>2. QED
      BY <3>1, SMT
  <2>3. CASE Len(a) < Len(b)
    <3>1. Len(a) + 1 \in 1..Len(b) /\ \A m \in 1..(Len(a) + 1 - 1) : a[m] = b[m]
      BY <2>1, <2>3, SMT
    <3>2. Less(a, b)
      BY <3>1, SMT DEF Less
    <3>3. QED
      BY <3>2, SMT
  <2>4. CASE Len(b) < Len(a)
    <3>1. Len(b) + 1 \in 1..Len(a) /\ \A m \in 1..(Len(b) + 1 - 1) : b[m] = a[m]
      BY <2>1, <2>4, SMT
    <3>2. Less(b, a)
      BY <3>1, SMT DEF Less
    <3>3. QED
      BY <3>2, SMT
  <2>5. QED
    BY <2>2, <2>3, <2>4, SMT
<1>2. CASE D # {}
  <2>1. D \in SUBSET Int /\ IsFiniteSet(D)
    <3>1. D \in SUBSET (1..n) /\ D \in SUBSET Int
      BY SMT
    <3>2. 1 \in Int /\ n \in Int
      BY SMT
    <3>3. IsFiniteSet(1..n)
      BY <3>2, FS_Interval
    <3>4. QED
      BY <3>1, <3>3, FS_Subset
  <2>2. PICK i \in D : \A x \in D : i <= x
    BY <2>1, <1>2, Extremes
  <2>3. \A m \in 1..(i - 1) : a[m] = b[m]
    <3>1. SUFFICES ASSUME NEW m \in 1..(i - 1), a[m] # b[m] PROVE FALSE
      BY SMT
    <3>2. m \in D /\ m < i
      BY <3>1, SMT
    <3>3. QED
      BY <3>2, <2>2, SMT
  <2>4. a[i] \in Int /\ b[i] \in Int
    BY Bytes, SMT
  <2>5. CASE a[i] < b[i]
    BY <2>3, <2>5, SMT DEF Less
  <2>6. CASE b[i] < a[i]
    BY <2>3, <2>6, SMT DEF Less
  <2>7. QED
    BY <2>4, <2>5, <2>6, SMT
<1>3. QED
  BY <1>1, <1>2, SMT

\* Of two keys one at most is before the other.
LEMMA Asymmetric == ASSUME NEW a \in Key, NEW b \in Key, Less(a, b) PROVE ~Less(b, a)
BY Transitive, NotBefore

\* Whatever is not before a key is it or behind it.
LEMMA NotLess ==
  ASSUME NEW a \in Key, NEW b \in Key
  PROVE  ~Less(a, b) <=> a = b \/ Less(b, a)
BY Total, Asymmetric

\* The order of three keys, some of which may be the same.
LEMMA Follows ==
  ASSUME NEW a \in Key, NEW b \in Key, NEW c \in Key
  PROVE  /\ ~Less(b, a) /\ Less(b, c) => Less(a, c)
         /\ Less(a, b) /\ ~Less(c, b) => Less(a, c)
         /\ ~Less(b, a) /\ ~Less(c, b) => ~Less(c, a)
<1>1. ~Less(b, a) => a = b \/ Less(a, b)
  BY NotLess
<1>2. ~Less(c, b) => b = c \/ Less(b, c)
  BY NotLess
<1>3. ~Less(b, a) /\ Less(b, c) => Less(a, c)
  BY <1>1, Transitive
<1>4. Less(a, b) /\ ~Less(c, b) => Less(a, c)
  BY <1>2, Transitive
<1>5. ~Less(b, a) /\ ~Less(c, b) => ~Less(c, a)
  BY <1>2, <1>3, Asymmetric
<1>6. QED
  BY <1>3, <1>4, <1>5

\* The key after another.
LEMMA AfterType ==
  ASSUME NEW e \in Key
  PROVE  /\ After(e) \in Key /\ Len(After(e)) = Len(e) + 1 /\ After(e)[Len(e) + 1] = 0
         /\ \A i \in 1..Len(e) : After(e)[i] = e[i]
<1>1. QED
  BY SMT DEF After, Key

\* Nothing lies between a key and the one after it.
LEMMA BeforeAfter ==
  ASSUME NEW k \in Key, NEW e \in Key
  PROVE  Less(k, After(e)) <=> ~Less(e, k)
<1>1. Len(k) \in Nat /\ Len(e) \in Nat /\ \A i \in 1..Len(k) : 0 <= k[i]
  BY Bytes
<1>2. ASSUME Less(k, After(e)) PROVE k = e \/ Less(k, e)
  <2>1. PICK i \in 1..(Len(e) + 1) : Len(k) >= i - 1 /\ (\A j \in 1..(i - 1) : k[j] = After(e)[j])
                                     /\ (Len(k) = i - 1 \/ k[i] < After(e)[i])
    BY <1>2, AfterType, SMT DEF Less
  <2>2. CASE i <= Len(e)
    <3>1. i \in 1..Len(e) /\ After(e)[i] = e[i] /\ \A j \in 1..(i - 1) : k[j] = e[j]
      BY <2>1, <2>2, AfterType, SMT
    <3>2. QED
      BY <3>1, <2>1, SMT DEF Less
  <2>3. CASE i = Len(e) + 1
    <3>1. Len(k) = Len(e)
      <4>1. SUFFICES ASSUME Len(k) # i - 1 PROVE FALSE
        BY <2>3, SMT
      <4>2. k[i] < 0 /\ i \in 1..Len(k)
        BY <4>1, <2>1, <2>3, <1>1, AfterType, SMTT(20)
      <4>3. k[i] >= 0 /\ k[i] \in Int
        BY <4>2, Bytes, SMT
      <4>4. QED
        BY <4>2, <4>3, SMT
    <3>2. \A j \in 1..Len(e) : k[j] = e[j]
      BY <2>1, <2>3, AfterType, SMT
    <3>3. QED
      BY <3>1, <3>2, SMT DEF Key
  <2>4. QED
    BY <2>2, <2>3, SMT
<1>3. ASSUME k = e PROVE Less(k, After(e))
  <2>1. Len(e) + 1 \in 1..Len(After(e)) /\ \A j \in 1..(Len(e) + 1 - 1) : k[j] = After(e)[j]
    BY <1>3, AfterType, SMT
  <2>2. QED
    BY <2>1, <1>3, SMT DEF Less
<1>4. ASSUME Less(k, e) PROVE Less(k, After(e))
  <2>1. PICK i \in 1..Len(e) : Len(k) >= i - 1 /\ (\A j \in 1..(i - 1) : k[j] = e[j])
                               /\ (Len(k) = i - 1 \/ k[i] < e[i])
    BY <1>4, SMT DEF Less
  <2>2. i \in 1..Len(After(e)) /\ After(e)[i] = e[i] /\ \A j \in 1..(i - 1) : k[j] = After(e)[j]
    BY <2>1, <1>1, AfterType, SMTT(20)
  <2>3. QED
    BY <2>1, <2>2, SMT DEF Less
<1>5. QED
  BY <1>2, <1>3, <1>4, NotLess

-----------------------------------------------------------------------------
(***************************************************************************)
(* Prefixes and groups.                                                    *)
(***************************************************************************)

\* A prefix is not behind its key.
LEMMA PrefixFirst ==
  ASSUME NEW k \in Key, NEW g \in Key, HasPrefix(k, g)
  PROVE  ~Less(k, g)
<1>1. Len(k) \in Nat /\ Len(g) \in Nat /\ Len(g) <= Len(k) /\ \A i \in 1..Len(g) : k[i] = g[i]
  BY SMT DEF HasPrefix
<1>2. ASSUME Less(k, g) PROVE FALSE
  <2>1. PICK i \in 1..Len(g) : Len(k) >= i - 1 /\ (Len(k) = i - 1 \/ k[i] < g[i])
    BY <1>2, SMT DEF Less
  <2>2. k[i] = g[i] /\ i \in 1..Len(g) /\ Len(k) # i - 1
    BY <1>1, SMT
  <2>3. g[i] \in Int
    BY Bytes, SMT
  <2>4. QED
    BY <2>1, <2>2, <2>3, SMT
<1>3. QED
  BY <1>2, SMT

\* What is before a key and has not its prefix is before the prefix.
LEMMA PrefixOrder ==
  ASSUME NEW j \in Key, NEW k \in Key, NEW g \in Key, HasPrefix(k, g), ~HasPrefix(j, g), Less(j, k)
  PROVE  Less(j, g)
<1>1. Len(j) \in Nat /\ Len(k) \in Nat /\ Len(g) \in Nat /\ Len(g) <= Len(k)
      /\ \A i \in 1..Len(g) : k[i] = g[i]
  BY SMT DEF HasPrefix
<1>2. PICK i \in 1..Len(k) : Len(j) >= i - 1 /\ (\A m \in 1..(i - 1) : j[m] = k[m])
                             /\ (Len(j) = i - 1 \/ j[i] < k[i])
  BY SMTT(20) DEF Less
<1>3. i <= Len(g)
  <2>1. SUFFICES ASSUME i > Len(g) PROVE FALSE
    BY SMT
  <2>2. Len(g) <= Len(j) /\ \A m \in 1..Len(g) : j[m] = g[m]
    BY <2>1, <1>1, <1>2, SMT
  <2>3. QED
    BY <2>2, SMT DEF HasPrefix
<1>4. i \in 1..Len(g) /\ k[i] = g[i] /\ \A m \in 1..(i - 1) : j[m] = g[m]
  BY <1>1, <1>2, <1>3, SMT
<1>5. QED
  BY <1>2, <1>4, SMT DEF Less

\* The bytes of a character are bytes.
LEMMA Utf8Type == ASSUME NEW b \in 1..255 PROVE Utf8(b) \in Key
<1>1. CASE b < 128
  <2>1. QED
    BY <1>1, SMT DEF Utf8, Key
<1>2. CASE b >= 128
  <2>1. <<192 + (b \div 64), 128 + (b % 64)>> \in Seq(0..255)
    BY SMT
  <2>2. ~(b < 128)
    BY <1>2, SMT
  <2>3. QED
    BY <2>1, <2>2 DEF Utf8, Key
<1>3. QED
  BY <1>1, <1>2, SMT

\* The greatest of finitely many numbers, and the least, are among them.
LEMMA MaxMinType ==
  ASSUME NEW S \in SUBSET Int, IsFiniteSet(S), S # {}
  PROVE  /\ Max(S) \in S /\ \A x \in S : x <= Max(S)
         /\ Min(S) \in S /\ \A x \in S : Min(S) <= x
<1>1. Max(S) \in S /\ \A x \in S : Max(S) >= x
  BY Extremes DEF Max
<1>2. Min(S) \in S /\ \A x \in S : Min(S) <= x
  BY Extremes DEF Min
<1>3. QED
  BY <1>1, <1>2, SMT

\* The places in a key are finitely many.
LEMMA PlacesFinite ==
  ASSUME NEW a \in Nat, NEW b \in Nat, NEW S \in SUBSET (a..b)
  PROVE  S \in SUBSET Int /\ IsFiniteSet(S)
<1>1. IsFiniteSet(a..b)
  BY FS_Interval, SMT
<1>2. a..b \subseteq Int
  BY SMT
<1>3. QED
  BY <1>1, <1>2, FS_Subset

\* What follows a group is a key.
LEMMA PastPrefixType == ASSUME NEW g \in Key PROVE PastPrefix(g) \in Key
<1> DEFINE below == {i \in DOMAIN g : g[i] < 255}
<1>1. DOMAIN g = 1..Len(g) /\ Len(g) \in Nat
  BY SMT DEF Key
<1>2. CASE below = {}
  BY <1>2, SMT DEF PastPrefix, Key
<1>3. CASE below # {}
  <2>1. below \in SUBSET Int /\ IsFiniteSet(below)
    <3>1. below \in SUBSET (1..Len(g))
      BY SMT
    <3>2. QED
      BY <3>1, <1>1, PlacesFinite
  <2>2. Max(below) \in below
    BY <2>1, <1>3, MaxMinType
  <2>3. PICK m : m = Max(below) /\ m \in 1..Len(g) /\ g[m] < 255
    BY <2>2, <1>1
  <2>4. Utf8(g[m] + 1) \in Key
    <3>1. g[m] \in Int /\ 0 <= g[m] /\ g[m] < 255
      BY <2>3, Bytes, ZenonT(40)
    <3>2. g[m] + 1 \in 1..255
      BY <3>1, SMT
    <3>3. QED
      BY <3>2, Utf8Type
  <2>5. SubSeq(g, 1, m - 1) \in Key
    <3>1. m \in 1..Len(g)
      BY <2>3
    <3>2. m - 1 \in Nat /\ m - 1 <= Len(g)
      BY <3>1, SMT
    <3>3. QED
      BY <3>2, Beginning DEF Key
  <2>6. SubSeq(g, 1, m - 1) \o Utf8(g[m] + 1) \in Key
    BY <2>4, <2>5, SMT DEF Key
  <2>7. QED
    BY <2>3, <2>6, <1>3 DEF PastPrefix
<1>4. QED
  BY <1>2, <1>3, SMT

\* Of a group that ends in a plain byte, what follows it differs from it in that byte.
LEMMA PastPlain ==
  ASSUME NEW g \in Key, Len(g) > 0, g[Len(g)] < 127
  PROVE  /\ Len(PastPrefix(g)) = Len(g) /\ PastPrefix(g)[Len(g)] = g[Len(g)] + 1
         /\ \A i \in 1..(Len(g) - 1) : PastPrefix(g)[i] = g[i]
<1> DEFINE below == {i \in DOMAIN g : g[i] < 255}
           n == Len(g)
<1>1. DOMAIN g = 1..n /\ n \in Nat /\ n \in 1..n /\ n - 1 \in Nat /\ n - 1 <= n
  BY SMT DEF Key
<1>2. g[n] \in Int /\ 0 <= g[n] /\ g[n] < 255
  BY Bytes, SMT
<1>3. n \in below /\ below # {} /\ below \in SUBSET (1..n)
  BY <1>2, SMT
<1>4. below \in SUBSET Int /\ IsFiniteSet(below)
  BY <1>1, <1>3, PlacesFinite
<1>5. Max(below) \in below /\ n <= Max(below)
  <2> HIDE DEF below
  <2>1. Max(below) \in below /\ \A x \in below : x <= Max(below)
    BY <1>3, <1>4, MaxMinType
  <2>2. QED
    BY <1>3, <2>1
<1>6. Max(below) = n
  <2>1. Max(below) \in 1..n
    BY <1>3, <1>5
  <2>2. n <= Max(below)
    BY <1>5
  <2> HIDE DEF below
  <2>3. QED
    BY <2>1, <2>2, SMT
<1>7. PastPrefix(g) = SubSeq(g, 1, n - 1) \o Utf8(g[n] + 1)
  BY <1>3, <1>6 DEF PastPrefix
<1>8. Utf8(g[n] + 1) = <<g[n] + 1>> /\ <<g[n] + 1>> \in Seq(Int)
  BY <1>2, SMTT(20) DEF Utf8
<1>9. SubSeq(g, 1, n - 1) \in Seq(Int) /\ Len(SubSeq(g, 1, n - 1)) = n - 1
      /\ \A i \in 1..(n - 1) : SubSeq(g, 1, n - 1)[i] = g[i]
  <2>1. g \in Seq(Int)
    BY Bytes, SMT DEF Key
  <2>2. QED
    BY <2>1, <1>1, Beginning
<1>10. Len(<<g[n] + 1>>) = 1 /\ <<g[n] + 1>>[1] = g[n] + 1 /\ 1 \in 1..1
  BY SMT
<1>11. /\ Len(PastPrefix(g)) = (n - 1) + 1
       /\ \A i \in 1..(n - 1) : PastPrefix(g)[i] = g[i]
       /\ PastPrefix(g)[(n - 1) + 1] = g[n] + 1
  <2> DEFINE q == SubSeq(g, 1, n - 1)
             r == <<g[n] + 1>>
  <2>1. PastPrefix(g) = q \o r /\ q \in Seq(Int) /\ r \in Seq(Int) /\ Len(q) = n - 1 /\ Len(r) = 1
    BY <1>7, <1>8, <1>9
  <2>2. /\ Len(q \o r) = Len(q) + Len(r)
        /\ \A i \in 1..Len(q) : (q \o r)[i] = q[i]
        /\ \A i \in 1..Len(r) : (q \o r)[Len(q) + i] = r[i]
    BY SMT
  <2> HIDE DEF q, r
  <2>3. Len(PastPrefix(g)) = (n - 1) + 1 /\ (\A i \in 1..(n - 1) : PastPrefix(g)[i] = q[i])
        /\ PastPrefix(g)[(n - 1) + 1] = r[1]
    BY <2>1, <2>2, <1>10
  <2>4. QED
    BY <2>3, <1>9 DEF q, r
<1>12. (n - 1) + 1 = n
  BY SMT
<1>13. QED
  BY <1>11, <1>12

\* Before what follows a group is what is before the group or in it.
LEMMA BeforePast ==
  ASSUME NEW k \in Key, NEW g \in Key, Len(g) > 0, g[Len(g)] < 127
  PROVE  Less(k, PastPrefix(g)) <=> Less(k, g) \/ HasPrefix(k, g)
<1> DEFINE pp == PastPrefix(g)
           n == Len(g)
<1>1. /\ Len(pp) = n /\ pp[n] = g[n] + 1 /\ \A i \in 1..(n - 1) : pp[i] = g[i]
      /\ n \in Nat /\ n > 0 /\ Len(k) \in Nat
  BY PastPlain, SMT
<1>2. g[n] \in Int /\ \A i \in 1..Len(k) : k[i] \in Int
  BY Bytes, SMT
<1> HIDE DEF pp
<1>3. ASSUME Less(k, pp) PROVE Less(k, g) \/ HasPrefix(k, g)
  <2>1. PICK i \in 1..n : Len(k) >= i - 1 /\ (\A j \in 1..(i - 1) : k[j] = pp[j])
                          /\ (Len(k) = i - 1 \/ k[i] < pp[i])
    BY <1>1, <1>3, SMT DEF Less
  <2>2. \A j \in 1..(i - 1) : k[j] = g[j]
    BY <1>1, <2>1, SMT
  <2>3. CASE i < n
    <3>1. pp[i] = g[i]
      BY <1>1, <2>3, SMT
    <3>2. QED
      BY <2>1, <2>2, <3>1, SMT DEF Less
  <2>4. CASE i = n
    <3>1. CASE Len(k) = n - 1 \/ k[n] < g[n]
      BY <2>2, <2>4, <3>1, SMT DEF Less
    <3>2. CASE ~(Len(k) = n - 1 \/ k[n] < g[n])
      <4>1. n \in 1..Len(k) /\ k[n] < g[n] + 1 /\ ~(k[n] < g[n])
        BY <1>1, <2>1, <2>4, <3>2, SMTT(20)
      <4>2. k[n] = g[n]
        BY <4>1, <1>2, SMT
      <4>3. n <= Len(k) /\ \A j \in 1..n : k[j] = g[j]
        BY <4>1, <4>2, <2>2, <2>4, SMT
      <4>4. QED
        BY <4>3, SMT DEF HasPrefix
    <3>3. QED
      BY <3>1, <3>2, SMT
  <2>5. QED
    BY <2>3, <2>4, SMT
<1>4. ASSUME Less(k, g) PROVE Less(k, pp)
  <2>1. PICK i \in 1..n : Len(k) >= i - 1 /\ (\A j \in 1..(i - 1) : k[j] = g[j])
                          /\ (Len(k) = i - 1 \/ k[i] < g[i])
    BY <1>4, SMT DEF Less
  <2>2. Len(k) = i - 1 \/ k[i] < pp[i]
    <3>1. CASE i < n
      BY <1>1, <2>1, <3>1, SMT
    <3>2. CASE i = n
      <4>1. SUFFICES ASSUME Len(k) # n - 1 PROVE k[n] < g[n] + 1
        BY <1>1, <3>2, SMT
      <4>2. n \in 1..Len(k) /\ k[n] < g[n]
        BY <2>1, <3>2, <4>1, SMT
      <4>3. QED
        BY <4>2, <1>2, SMT
    <3>3. QED
      BY <3>1, <3>2, SMT
  <2>3. QED
    BY <1>1, <2>1, <2>2, SMT DEF Less
<1>5. ASSUME HasPrefix(k, g) PROVE Less(k, pp)
  <2>1. n <= Len(k) /\ \A j \in 1..n : k[j] = g[j]
    BY <1>5, SMT DEF HasPrefix
  <2>2. n \in 1..n /\ Len(k) >= n - 1 /\ (\A j \in 1..(n - 1) : k[j] = pp[j]) /\ k[n] = g[n]
    BY <2>1, <1>1, SMT
  <2>3. k[n] < pp[n]
    BY <2>2, <1>1, <1>2, SMT
  <2>4. QED
    BY <1>1, <2>2, <2>3, SMT DEF Less
<1>6. QED
  BY <1>3, <1>4, <1>5, SMT DEF pp

\* What is asked for is made of bytes, and how much of it is a number.
LEMMA Asked ==
  ASSUME req \in Requests
  PROVE  /\ req.prefix \in Key /\ req.delimiter \in Key /\ req.start \in Key /\ req.limit \in Nat
         /\ Len(req.prefix) \in Nat /\ Len(req.delimiter) \in Nat
         /\ req.delimiter # <<>> => Len(req.delimiter) > 0
<1>1. req.prefix \in Key /\ req.delimiter \in Key /\ req.start \in Key /\ req.limit \in Nat
  BY ListingAssumption
<1>2. QED
  BY <1>1, SMT DEF Key

\* The group of a key is the key as far as the first delimiter after the prefix.
LEMMA GroupShape ==
  ASSUME req \in Requests, NEW k \in Key, GroupOf(k) # <<>>
  PROVE  /\ req.delimiter # <<>>
         /\ \E m \in (Len(req.prefix) + Len(req.delimiter))..Len(k) :
              /\ GroupOf(k) = SubSeq(k, 1, m)
              /\ HasSuffix(SubSeq(k, 1, m), req.delimiter)
              /\ \A i \in (Len(req.prefix) + Len(req.delimiter))..(m - 1) :
                    ~HasSuffix(SubSeq(k, 1, i), req.delimiter)
<1> DEFINE low == Len(req.prefix) + Len(req.delimiter)
           ends == {i \in low..Len(k) : HasSuffix(SubSeq(k, 1, i), req.delimiter)}
<1>1. req.delimiter # <<>> /\ ends # {} /\ GroupOf(k) = SubSeq(k, 1, Min(ends))
  BY DEF GroupOf
<1>2. low \in Nat /\ Len(k) \in Nat
  <2>1. Len(req.prefix) \in Nat /\ Len(req.delimiter) \in Nat /\ Len(k) \in Nat
    BY Asked, Bytes
  <2>2. \A a, b \in Nat : a + b \in Nat
    BY SMT
  <2>3. QED
    BY <2>1, <2>2
<1> HIDE DEF low
<1>3. ends \in SUBSET Int /\ IsFiniteSet(ends)
  BY <1>2, PlacesFinite
<1>4. Min(ends) \in ends /\ \A x \in ends : Min(ends) <= x
  BY <1>1, <1>3, MaxMinType
<1>5. PICK m : m = Min(ends)
  OBVIOUS
<1>6. m \in low..Len(k) /\ HasSuffix(SubSeq(k, 1, m), req.delimiter) /\ \A x \in ends : m <= x
  BY <1>4, <1>5
<1>7. ASSUME NEW i \in low..(m - 1) PROVE ~HasSuffix(SubSeq(k, 1, i), req.delimiter)
  <2>1. i \in low..Len(k) /\ ~(m <= i)
    BY <1>6, SMT
  <2>2. QED
    BY <2>1, <1>6
<1>8. QED
  BY <1>1, <1>5, <1>6, <1>7 DEF low

\* A delimiter after the prefix, the first one, makes a group.
LEMMA GroupFrom ==
  ASSUME req \in Requests, NEW k \in Key, req.delimiter # <<>>,
         NEW m \in (Len(req.prefix) + Len(req.delimiter))..Len(k),
         HasSuffix(SubSeq(k, 1, m), req.delimiter),
         \A i \in (Len(req.prefix) + Len(req.delimiter))..(m - 1) :
            ~HasSuffix(SubSeq(k, 1, i), req.delimiter)
  PROVE  GroupOf(k) = SubSeq(k, 1, m)
<1> DEFINE low == Len(req.prefix) + Len(req.delimiter)
           ends == {i \in low..Len(k) : HasSuffix(SubSeq(k, 1, i), req.delimiter)}
<1>1. low \in Nat /\ Len(k) \in Nat
  <2>1. Len(req.prefix) \in Nat /\ Len(req.delimiter) \in Nat /\ Len(k) \in Nat
    BY Asked, Bytes
  <2>2. \A a, b \in Nat : a + b \in Nat
    BY SMT
  <2>3. QED
    BY <2>1, <2>2
<1>2. m \in ends
  OBVIOUS
<1>3. \A i \in low..(m - 1) : ~HasSuffix(SubSeq(k, 1, i), req.delimiter)
  OBVIOUS
<1> HIDE DEF low
<1>4. ends \in SUBSET Int /\ IsFiniteSet(ends)
  BY <1>1, PlacesFinite
<1>5. Min(ends) \in ends /\ Min(ends) <= m
  BY <1>2, <1>4, MaxMinType
<1>6. PICK x : x = Min(ends)
  OBVIOUS
<1>7. x \in low..Len(k) /\ HasSuffix(SubSeq(k, 1, x), req.delimiter) /\ x <= m /\ m \in low..Len(k)
  BY <1>2, <1>5, <1>6
<1>8. x \notin low..(m - 1)
  BY <1>3, <1>7
<1>9. x = m
  BY <1>7, <1>8, SMT
<1>10. QED
  BY <1>6, <1>9 DEF GroupOf, low

\* A place after two others.
LEMMA Place ==
  ASSUME NEW a \in Nat, NEW b \in Nat, NEW n \in Nat, NEW m \in (a + b)..n
  PROVE  m \in Nat /\ m <= n /\ a + b \in Nat /\ a + b <= m /\ a <= m
BY SMT

\* What a group is to its key.
LEMMA GroupFacts ==
  ASSUME req \in Requests, NEW k \in Key, GroupOf(k) # <<>>
  PROVE  /\ GroupOf(k) \in Key /\ HasPrefix(k, GroupOf(k))
         /\ Len(req.delimiter) > 0 /\ Len(GroupOf(k)) >= Len(req.prefix) + Len(req.delimiter)
         /\ HasSuffix(GroupOf(k), req.delimiter)
         /\ HasPrefix(k, req.prefix) => HasPrefix(GroupOf(k), req.prefix)
<1> DEFINE p == req.prefix
           d == req.delimiter
<1>1. p \in Key /\ d \in Key /\ Len(p) \in Nat /\ Len(d) \in Nat /\ Len(k) \in Nat /\ k \in Seq(0..255)
  BY Asked, Bytes, ZenonT(40) DEF Key
<1>2. d # <<>> /\ Len(d) > 0
  BY GroupShape, Asked
<1>3. PICK m \in (Len(p) + Len(d))..Len(k) :
        GroupOf(k) = SubSeq(k, 1, m) /\ HasSuffix(SubSeq(k, 1, m), d)
  BY GroupShape
<1>4. m \in Nat /\ m <= Len(k) /\ Len(p) + Len(d) <= m /\ Len(p) <= m
  BY <1>1, Place
<1>5. GroupOf(k) \in Seq(0..255) /\ Len(GroupOf(k)) = m /\ \A i \in 1..m : GroupOf(k)[i] = k[i]
  <2>1. /\ SubSeq(k, 1, m) \in Seq(0..255) /\ Len(SubSeq(k, 1, m)) = m
        /\ \A i \in 1..m : SubSeq(k, 1, m)[i] = k[i]
    BY <1>1, <1>4, Beginning, SMTT(20)
  <2>2. GroupOf(k) = SubSeq(k, 1, m)
    BY <1>3
  <2>3. QED
    BY <2>1, <2>2
<1>6. HasPrefix(k, GroupOf(k))
  BY <1>5, SMT DEF HasPrefix
<1>7. ASSUME HasPrefix(k, p) PROVE HasPrefix(GroupOf(k), p)
  <2>1. \A i \in 1..Len(p) : k[i] = p[i] /\ i \in 1..m
    BY <1>4, <1>7, SMT DEF HasPrefix
  <2>2. QED
    BY <2>1, <1>5, SMT DEF HasPrefix
<1>8. QED
  BY <1>2, <1>3, <1>4, <1>5, <1>6, <1>7 DEF Key

\* A key that begins with a group is in it.
LEMMA GroupSame ==
  ASSUME req \in Requests, NEW j \in Key, NEW k \in Key, GroupOf(k) # <<>>, HasPrefix(j, GroupOf(k))
  PROVE  GroupOf(j) = GroupOf(k)
<1> DEFINE p == req.prefix
           d == req.delimiter
           low == Len(p) + Len(d)
<1>1. /\ Len(p) \in Nat /\ Len(d) \in Nat /\ Len(k) \in Nat /\ Len(j) \in Nat
      /\ k \in Seq(0..255) /\ j \in Seq(0..255)
  BY Asked, Bytes DEF Key
<1>2. d # <<>>
  BY GroupShape
<1>3. PICK m \in low..Len(k) :
        /\ GroupOf(k) = SubSeq(k, 1, m) /\ HasSuffix(SubSeq(k, 1, m), d)
        /\ \A i \in low..(m - 1) : ~HasSuffix(SubSeq(k, 1, i), d)
  BY GroupShape
<1>4. m \in Nat /\ m <= Len(k) /\ low <= m /\ low \in Nat
  BY <1>1, Place
<1>5. GroupOf(k) \in Seq(0..255) /\ Len(GroupOf(k)) = m /\ \A i \in 1..m : GroupOf(k)[i] = k[i]
  <2>1. /\ SubSeq(k, 1, m) \in Seq(0..255) /\ Len(SubSeq(k, 1, m)) = m
        /\ \A i \in 1..m : SubSeq(k, 1, m)[i] = k[i]
    BY <1>1, <1>4, Beginning, SMTT(20)
  <2>2. GroupOf(k) = SubSeq(k, 1, m)
    BY <1>3
  <2>3. QED
    BY <2>1, <2>2
<1> HIDE DEF low
<1>6. m <= Len(j) /\ \A i \in 1..m : j[i] = k[i]
  BY <1>5 DEF HasPrefix
<1>7. ASSUME NEW i \in Nat, i <= m PROVE SubSeq(j, 1, i) = SubSeq(k, 1, i)
  <2>1. i <= Len(j) /\ i <= Len(k) /\ \A x \in 1..i : x \in 1..m
    BY <1>6, <1>7, SMT
  <2>2. /\ SubSeq(j, 1, i) \in Seq(0..255) /\ Len(SubSeq(j, 1, i)) = i
        /\ \A x \in 1..i : SubSeq(j, 1, i)[x] = j[x]
    BY <2>1, <1>1, Beginning, ZenonT(40)
  <2>3. /\ SubSeq(k, 1, i) \in Seq(0..255) /\ Len(SubSeq(k, 1, i)) = i
        /\ \A x \in 1..i : SubSeq(k, 1, i)[x] = k[x]
    BY <2>1, <1>1, Beginning, ZenonT(40)
  <2>4. \A x \in 1..i : SubSeq(j, 1, i)[x] = SubSeq(k, 1, i)[x]
    BY <2>1, <2>2, <2>3, <1>6
  <2>5. QED
    BY <2>2, <2>3, <2>4, SameSeq
<1>8. m \in low..Len(j) /\ \A i \in low..(m - 1) : i \in Nat /\ i <= m
  BY <1>4, <1>6, SMT
<1>9. m <= m
  BY SMT
<1>10. HasSuffix(SubSeq(j, 1, m), d) /\ \A i \in low..(m - 1) : ~HasSuffix(SubSeq(j, 1, i), d)
  BY <1>3, <1>4, <1>7, <1>8, <1>9
<1>11. GroupOf(j) = SubSeq(j, 1, m)
  BY <1>2, <1>8, <1>10, GroupFrom DEF low
<1>12. QED
  BY <1>3, <1>4, <1>7, <1>9, <1>11

\* An entry, a key or a group, begins its key, and is its own entry.
LEMMA EntryFacts ==
  ASSUME req \in Requests, NEW k \in Key, HasPrefix(k, req.prefix)
  PROVE  /\ EntryOf(k) \in Key /\ HasPrefix(k, EntryOf(k)) /\ HasPrefix(EntryOf(k), req.prefix)
         /\ EntryOf(EntryOf(k)) = EntryOf(k)
         /\ ~Less(k, EntryOf(k))
<1>1. CASE GroupOf(k) = <<>>
  <2>1. EntryOf(k) = k
    BY <1>1 DEF EntryOf
  <2>2. HasPrefix(k, k)
    BY SMT DEF HasPrefix
  <2>3. QED
    BY <2>1, <2>2, NotBefore
<1>2. CASE GroupOf(k) # <<>>
  <2>1. EntryOf(k) = GroupOf(k)
    BY <1>2 DEF EntryOf
  <2>2. GroupOf(k) \in Key /\ HasPrefix(k, GroupOf(k)) /\ HasPrefix(GroupOf(k), req.prefix)
    BY <1>2, GroupFacts
  <2>3. HasPrefix(GroupOf(k), GroupOf(k))
    BY SMT DEF HasPrefix
  <2>4. GroupOf(GroupOf(k)) = GroupOf(k)
    BY <2>2, <2>3, <1>2, GroupSame
  <2>5. EntryOf(GroupOf(k)) = GroupOf(k)
    BY <2>4 DEF EntryOf
  <2>6. QED
    BY <2>1, <2>2, <2>5, PrefixFirst
<1>3. QED
  BY <1>1, <1>2

\* Entries come in the order of their keys.
LEMMA EntryOrder ==
  ASSUME req \in Requests, NEW j \in Key, NEW k \in Key, HasPrefix(j, req.prefix),
         HasPrefix(k, req.prefix), ~Less(k, j)
  PROVE  ~Less(EntryOf(k), EntryOf(j))
<1>1. EntryOf(j) \in Key /\ EntryOf(k) \in Key /\ ~Less(j, EntryOf(j))
  BY EntryFacts
<1>2. CASE j = k
  BY <1>1, <1>2, NotBefore
<1>3. CASE j # k /\ GroupOf(k) = <<>>
  <2>1. EntryOf(k) = k
    BY <1>3 DEF EntryOf
  <2>2. QED
    BY <1>1, <2>1, Follows, ZenonT(40)
<1>4. CASE j # k /\ GroupOf(k) # <<>>
  <2>1. EntryOf(k) = GroupOf(k) /\ HasPrefix(k, GroupOf(k)) /\ Less(j, k)
    BY <1>4, GroupFacts, NotLess DEF EntryOf
  <2>2. CASE HasPrefix(j, GroupOf(k))
    <3>1. GroupOf(j) = GroupOf(k)
      BY <1>4, <2>2, GroupSame
    <3>2. EntryOf(j) = EntryOf(k)
      BY <3>1, <1>4 DEF EntryOf
    <3>3. QED
      BY <3>2, <1>1, NotBefore
  <2>3. CASE ~HasPrefix(j, GroupOf(k))
    <3>1. Less(j, EntryOf(k))
      BY <1>1, <2>1, <2>3, PrefixOrder
    <3>2. Less(EntryOf(j), EntryOf(k))
      BY <3>1, <1>1, Follows
    <3>3. QED
      BY <3>2, <1>1, Asymmetric
  <2>4. QED
    BY <2>2, <2>3
<1>5. QED
  BY <1>2, <1>3, <1>4

\* Delimiters that PastPrefix and a marker are right about: they end in a byte whose
\* next is one byte, and those of a listing of versions are one byte long.
PlainDelimiters ==
  \A r \in Requests : r.delimiter # <<>> =>
    Last(r.delimiter) < 127 /\ (r.kind = "versions" => Len(r.delimiter) = 1)

\* An entry of the listing.
IsEntry(e) == e \in Key /\ HasPrefix(e, req.prefix) /\ EntryOf(e) = e

\* A group ends as the delimiter does.
LEMMA GroupEnd ==
  ASSUME PlainDelimiters, req \in Requests, NEW k \in Key, GroupOf(k) # <<>>
  PROVE  Len(GroupOf(k)) > 0 /\ GroupOf(k)[Len(GroupOf(k))] < 127
<1> DEFINE g == GroupOf(k)
           d == req.delimiter
<1>1. d # <<>> /\ Len(d) \in Nat /\ Len(d) > 0 /\ d[Len(d)] < 127
  BY GroupShape, Asked DEF PlainDelimiters, Last
<1>2. g \in Key /\ HasSuffix(g, d)
  BY GroupFacts
<1>3. Len(g) - Len(d) >= 0 /\ \A i \in 1..Len(d) : g[(Len(g) - Len(d)) + i] = d[i]
  BY <1>2 DEF HasSuffix
<1> HIDE DEF g, d
<1>4. Len(g) > 0 /\ (Len(g) - Len(d)) + Len(d) = Len(g) /\ Len(d) \in 1..Len(d)
  BY <1>1, <1>3, SMT
<1>5. g[Len(g)] = d[Len(d)]
  BY <1>3, <1>4
<1>6. QED
  BY <1>1, <1>4, <1>5 DEF g

\* Before what follows an entry are the keys that are not behind the entry and those
\* it stands for.
LEMMA PastSplits ==
  ASSUME PlainDelimiters, req \in Requests, NEW e, IsEntry(e), NEW k \in Key, HasPrefix(k, req.prefix)
  PROVE  /\ Past(e) \in Key
         /\ Less(k, Past(e)) <=> ~Less(e, k) \/ EntryOf(k) = e
         /\ ~Less(k, Past(e)) => Less(e, EntryOf(k))
         /\ Less(e, Past(e))
<1>1. e \in Key /\ HasPrefix(e, req.prefix) /\ EntryOf(e) = e
  BY DEF IsEntry
<1>2. Past(e) \in Key /\ (Less(k, Past(e)) <=> ~Less(e, k) \/ EntryOf(k) = e) /\ Less(e, Past(e))
  <2>1. CASE GroupOf(e) = <<>>
    <3>1. Past(e) = After(e)
      BY <2>1 DEF Past
    <3>2. ASSUME EntryOf(k) = e PROVE k = e
      <4>1. CASE GroupOf(k) = <<>>
        BY <3>2, <4>1 DEF EntryOf
      <4>2. CASE GroupOf(k) # <<>>
        <5>1. GroupOf(k) = e
          BY <3>2, <4>2 DEF EntryOf
        <5>2. HasPrefix(e, e)
          BY SMT DEF HasPrefix
        <5>3. GroupOf(e) = GroupOf(k)
          BY <1>1, <4>2, <5>1, <5>2, GroupSame
        <5>4. QED
          BY <5>3, <4>2, <2>1
      <4>3. QED
        BY <4>1, <4>2
    <3>3. EntryOf(k) = e => ~Less(e, k)
      BY <3>2, NotBefore
    <3>4. Less(e, After(e)) /\ After(e) \in Key
      BY <1>1, BeforeAfter, NotBefore, AfterType
    <3>5. Less(k, After(e)) <=> ~Less(e, k)
      BY <1>1, BeforeAfter
    <3>6. QED
      BY <3>1, <3>3, <3>4, <3>5
  <2>2. CASE GroupOf(e) # <<>>
    <3>1. Past(e) = PastPrefix(e) /\ GroupOf(e) = e
      BY <1>1, <2>2 DEF Past, EntryOf
    <3>2. Len(e) > 0 /\ e[Len(e)] < 127
      BY <1>1, <2>2, <3>1, GroupEnd
    <3>3. Less(k, Past(e)) <=> Less(k, e) \/ HasPrefix(k, e)
      BY <1>1, <3>1, <3>2, BeforePast
    <3>4. HasPrefix(k, e) <=> EntryOf(k) = e
      <4>1. ASSUME HasPrefix(k, e) PROVE EntryOf(k) = e
        BY <4>1, <1>1, <2>2, <3>1, GroupSame DEF EntryOf
      <4>2. HasPrefix(k, EntryOf(k))
        BY EntryFacts
      <4>3. QED
        BY <4>1, <4>2
    <3>5. HasPrefix(e, e) /\ Less(e, Past(e)) /\ Past(e) \in Key
      <4>1. HasPrefix(e, e)
        BY SMT DEF HasPrefix
      <4>2. QED
        BY <4>1, <1>1, <3>1, <3>2, BeforePast, PastPrefixType
    <3>6. QED
      BY <1>1, <3>3, <3>4, <3>5, NotLess
  <2>3. QED
    BY <2>1, <2>2
<1>3. ASSUME ~Less(k, Past(e)) PROVE Less(e, EntryOf(k))
  <2>1. Less(e, k) /\ EntryOf(k) # e
    BY <1>2, <1>3
  <2>2. EntryOf(k) \in Key /\ ~Less(k, e)
    BY <1>1, <2>1, Asymmetric, EntryFacts
  <2>3. ~Less(EntryOf(k), e)
    BY <1>1, <2>2, EntryOrder
  <2>4. QED
    BY <1>1, <2>1, <2>2, <2>3, NotLess
<1>4. QED
  BY <1>2, <1>3

-----------------------------------------------------------------------------
(***************************************************************************)
(* Sorted reads.                                                           *)
(***************************************************************************)

\* Each element of a sequence of keys is before all that follow it.
Increasing(q) == \A i, j \in 1..Len(q) : i < j => Less(q[i], q[j])

\* The elements of a sequence are finitely many.
LEMMA Elements ==
  ASSUME NEW S, NEW q \in Seq(S)
  PROVE  /\ \A x : x \in Range(q) <=> \E i \in 1..Len(q) : q[i] = x
         /\ Range(q) \in SUBSET S /\ IsFiniteSet(Range(q))
<1>1. Len(q) \in Nat /\ DOMAIN q = 1..Len(q) /\ \A i \in 1..Len(q) : q[i] \in S
  BY ElementType
<1>2. \A x : x \in Range(q) <=> \E i \in 1..Len(q) : q[i] = x
  BY <1>1 DEF Range
<1>3. Range(q) \in SUBSET S
  BY <1>1, <1>2
<1>4. q \in [1..Len(q) -> Range(q)]
  <2>1. q = [i \in 1..Len(q) |-> q[i]]
    BY SMT
  <2>2. \A i \in 1..Len(q) : q[i] \in Range(q)
    BY <1>2
  <2>3. QED
    BY <2>1, <2>2
<1>5. q \in Surjection(1..Len(q), Range(q))
  BY <1>2, <1>4 DEF Surjection
<1>6. IsFiniteSet(1..Len(q))
  BY FS_Interval, SMT
<1>7. IsFiniteSet(Range(q))
  BY <1>5, <1>6, FS_Surjection
<1>8. QED
  BY <1>2, <1>3, <1>7

\* The elements of two sequences joined.
LEMMA ElementsJoined ==
  ASSUME NEW S, NEW q \in Seq(S), NEW r \in Seq(S)
  PROVE  q \o r \in Seq(S) /\ Range(q \o r) = Range(q) \cup Range(r)
<1> DEFINE n == Len(q)
           l == Len(r)
<1>1. n \in Nat /\ l \in Nat
  BY SMT
<1>2. /\ q \o r \in Seq(S) /\ Len(q \o r) = n + l
      /\ \A i \in 1..n : (q \o r)[i] = q[i]
      /\ \A i \in 1..l : (q \o r)[n + i] = r[i]
  BY SMT
<1>3. \A x : x \in Range(q \o r) <=> \E i \in 1..(n + l) : (q \o r)[i] = x
  <2> DEFINE t == q \o r
  <2>1. t \in Seq(S) /\ Len(t) = n + l
    BY <1>2
  <2> HIDE DEF t, n, l
  <2>2. \A x : x \in Range(t) <=> \E i \in 1..Len(t) : t[i] = x
    BY <2>1, Elements
  <2>3. QED
    BY <2>1, <2>2 DEF t
<1>4. /\ \A x : x \in Range(q) <=> \E i \in 1..n : q[i] = x
      /\ \A x : x \in Range(r) <=> \E i \in 1..l : r[i] = x
  BY Elements, SMT
<1> HIDE DEF n, l
<1>5. /\ \A i \in 1..n : i \in 1..(n + l)
      /\ \A i \in 1..l : n + i \in 1..(n + l)
      /\ \A i \in 1..(n + l) : i \in 1..n \/ \E j \in 1..l : i = n + j
  <2>1. ASSUME NEW i \in 1..(n + l), i \notin 1..n PROVE \E j \in 1..l : i = n + j
    <3>1. i - n \in 1..l /\ i = n + (i - n)
      BY <1>1, <2>1, SMT
    <3>2. QED
      BY <3>1
  <2>2. QED
    BY <1>1, SMT
<1>6. ASSUME NEW x \in Range(q \o r) PROVE x \in Range(q) \cup Range(r)
  <2>1. PICK i \in 1..(n + l) : (q \o r)[i] = x
    BY <1>3, <1>6
  <2>2. CASE i \in 1..n
    BY <2>1, <2>2, <1>2, <1>4
  <2>3. CASE \E j \in 1..l : i = n + j
    BY <2>1, <2>3, <1>2, <1>4
  <2>4. QED
    BY <2>2, <2>3, <1>5
<1>7. ASSUME NEW x \in Range(q) PROVE x \in Range(q \o r)
  BY <1>2, <1>3, <1>4, <1>5, <1>7, ZenonT(40)
<1>8. ASSUME NEW x \in Range(r) PROVE x \in Range(q \o r)
  BY <1>2, <1>3, <1>4, <1>5, <1>8
<1>9. QED
  BY <1>2, <1>6, <1>7, <1>8

\* Sorting a set of keys leaves none out and puts each before those behind it.
LEMMA SortedFacts ==
  ASSUME NEW S \in SUBSET Key, IsFiniteSet(S)
  PROVE  /\ Sorted(S) \in Seq(S) /\ Len(Sorted(S)) = Cardinality(S) /\ Cardinality(S) \in Nat
         /\ Range(Sorted(S)) = S /\ Increasing(Sorted(S))
<1> DEFINE R == {p \in S \X S : Less(p[1], p[2])}
           n == Cardinality(S)
           Rank(k) == Cardinality({j \in S : Less(j, k)})
           q == Sorted(S)
<1>1. \A x, y \in S : <<x, y>> \in R <=> Less(x, y)
  BY SMT
<1> HIDE DEF R
<1>2. Orders(R, S)
  BY <1>1, NotBefore, Transitive, Total DEF Orders
<1>3. \A k \in S : Under(R, S, k) = {j \in S : Less(j, k)}
  BY <1>1 DEF Under
<1>4. n \in Nat
  BY FS_CardinalityType, SMT
<1>5. \A k \in S : Rank(k) \in 0..(n - 1)
  BY <1>2, <1>3, Ranks
<1>6. \A j, k \in S : Less(j, k) => Rank(j) < Rank(k)
  BY <1>1, <1>2, <1>3, Ranks
<1>7. ASSUME NEW i \in 0..(n - 1) PROVE \E k \in S : Rank(k) = i
  <2>1. Ranked(R, S)
    BY <1>2, RanksTaken
  <2>2. QED
    BY <2>1, <1>3 DEF Ranked
<1>8. ASSUME NEW j \in S, NEW k \in S, Rank(j) = Rank(k) PROVE j = k
  <2>1. Rank(j) \in 0..(n - 1) /\ Rank(k) \in 0..(n - 1)
    BY <1>5
  <2>2. ~(Rank(j) < Rank(k)) /\ ~(Rank(k) < Rank(j))
    <3> HIDE DEF Rank
    <3>1. QED
      BY <1>8, <2>1, SMT
  <2>3. ~Less(j, k) /\ ~Less(k, j)
    BY <1>6, <2>2
  <2>4. QED
    BY <2>3, Total
<1>9. q = [i \in 1..n |-> CHOOSE k \in S : Rank(k) = i - 1]
  BY DEF Sorted
<1> HIDE DEF Rank, q
<1>10. ASSUME NEW i \in 1..n PROVE q[i] \in S /\ Rank(q[i]) = i - 1
  <2>1. i - 1 \in 0..(n - 1)
    BY <1>4, SMTT(20)
  <2>2. \E k \in S : Rank(k) = i - 1
    BY <1>7, <2>1
  <2>3. q[i] = CHOOSE k \in S : Rank(k) = i - 1
    BY <1>9
  <2>4. QED
    BY <2>2, <2>3
<1>11. q \in Seq(S) /\ Len(q) = n
  BY <1>4, <1>9, <1>10, SMT
<1>12. Increasing(q)
  <2>1. SUFFICES ASSUME NEW i \in 1..n, NEW j \in 1..n, i < j PROVE Less(q[i], q[j])
    BY <1>11 DEF Increasing
  <2>2. q[i] \in S /\ q[j] \in S /\ Rank(q[i]) = i - 1 /\ Rank(q[j]) = j - 1
    BY <1>10
  <2>3. ~(Rank(q[j]) < Rank(q[i])) /\ Rank(q[j]) # Rank(q[i])
    BY <2>1, <2>2, SMT
  <2>4. ~Less(q[j], q[i]) /\ q[j] # q[i]
    BY <2>2, <2>3, <1>6
  <2>5. QED
    BY <2>2, <2>4, Total
<1>13. Range(q) = S
  <2>1. ASSUME NEW k \in S PROVE \E i \in 1..n : q[i] = k
    <3>1. Rank(k) \in 0..(n - 1)
      BY <1>5
    <3>2. Rank(k) + 1 \in 1..n /\ (Rank(k) + 1) - 1 = Rank(k)
      BY <3>1, <1>4, SMT
    <3>3. q[Rank(k) + 1] \in S /\ Rank(q[Rank(k) + 1]) = Rank(k)
      BY <3>2, <1>10, SMT
    <3>4. QED
      BY <3>2, <3>3, <1>8
  <2>2. \A x : x \in Range(q) <=> \E i \in 1..n : q[i] = x
    BY <1>11, Elements
  <2>3. QED
    BY <2>1, <2>2, <1>10
<1>14. QED
  BY <1>4, <1>11, <1>12, <1>13 DEF q

\* The lesser of two numbers.
LEMMA Lesser == ASSUME NEW a \in Nat, NEW b \in Nat PROVE Min({a, b}) = IF a <= b THEN a ELSE b
<1> DEFINE lo == IF a <= b THEN a ELSE b
<1>1. lo \in {a, b} /\ (\A y \in {a, b} : lo =< y)
      /\ (\A x \in {a, b} : (\A y \in {a, b} : x =< y) => x = lo)
  BY SMT
<1> HIDE DEF lo
<1>2. Min({a, b}) = lo
  BY <1>1 DEF Min
<1>3. QED
  BY <1>2 DEF lo

\* The beginning of an increasing sequence holds what is not behind its end.
LEMMA IncreasingBeginning ==
  ASSUME NEW q \in Seq(Key), Increasing(q), NEW m \in Nat, m <= Len(q)
  PROVE  /\ SubSeq(q, 1, m) \in Seq(Key) /\ Len(SubSeq(q, 1, m)) = m /\ Increasing(SubSeq(q, 1, m))
         /\ \A x : x \in Range(SubSeq(q, 1, m)) <=> \E i \in 1..m : q[i] = x
         /\ \A x \in Range(q) : \A i \in 1..m : ~Less(q[i], x) => x \in Range(SubSeq(q, 1, m))
<1> DEFINE t == SubSeq(q, 1, m)
<1>1. t \in Seq(Key) /\ Len(t) = m /\ \A i \in 1..m : t[i] = q[i]
  BY Beginning
<1> HIDE DEF t
<1>2. Len(q) \in Nat /\ (\A i \in 1..Len(q) : q[i] \in Key) /\ \A i \in 1..m : i \in 1..Len(q)
  <2>1. QED
    BY SMT
<1>3. Increasing(t)
  BY <1>1, <1>2 DEF Increasing
<1>4. \A x : x \in Range(t) <=> \E i \in 1..m : q[i] = x
  <2>1. \A x : x \in Range(t) <=> \E i \in 1..Len(t) : t[i] = x
    BY <1>1, Elements
  <2>2. QED
    BY <2>1, <1>1
<1>5. ASSUME NEW x \in Range(q), NEW i \in 1..m, ~Less(q[i], x) PROVE x \in Range(t)
  <2>1. PICK j \in 1..Len(q) : q[j] = x
    BY Elements
  <2>2. ~(i < j)
    BY <1>2, <1>5, <2>1 DEF Increasing
  <2>3. j \in 1..m
    BY <2>2, SMT
  <2>4. QED
    BY <2>1, <2>3, <1>4
<1>6. QED
  BY <1>1, <1>3, <1>4, <1>5 DEF t

\* The last of an increasing sequence.
LEMMA IncreasingLast ==
  ASSUME NEW q \in Seq(Key), Increasing(q), q # <<>>
  PROVE  /\ Len(q) > 0 /\ Last(q) = q[Len(q)] /\ Len(q) \in 1..Len(q)
         /\ Last(q) \in Range(q) /\ Last(q) \in Key /\ \A x \in Range(q) : ~Less(Last(q), x)
<1>1. Len(q) \in Nat /\ (\A i \in 1..Len(q) : q[i] \in Key) /\ Len(q) > 0
  <2>1. QED
    BY SMT
<1>2. Len(q) \in 1..Len(q)
  BY SMT
<1>3. Last(q) \in Range(q) /\ Last(q) \in Key
  BY <1>2, Elements DEF Last
<1>4. ASSUME NEW x \in Range(q) PROVE ~Less(Last(q), x)
  <2>1. PICK i \in 1..Len(q) : q[i] = x
    BY Elements
  <2>2. i < Len(q) \/ i = Len(q)
    BY SMT
  <2>3. x = Last(q) \/ Less(x, Last(q))
    BY <2>1, <2>2, <1>2 DEF Increasing, Last
  <2>4. x \in Key
    BY <2>1, <1>1
  <2>5. QED
    BY <2>3, <2>4, <1>3, NotLess
<1>5. QED
  BY <1>1, <1>2, <1>3, <1>4 DEF Last

\* Increasing sequences, one before the other, joined.
LEMMA IncreasingJoined ==
  ASSUME NEW q \in Seq(Key), NEW r \in Seq(Key), Increasing(q), Increasing(r),
         \A x \in Range(q), y \in Range(r) : Less(x, y)
  PROVE  q \o r \in Seq(Key) /\ Increasing(q \o r)
<1> DEFINE n == Len(q)
           l == Len(r)
           t == q \o r
<1>1. /\ t \in Seq(Key) /\ Len(t) = n + l
      /\ \A i \in 1..n : t[i] = q[i]
      /\ \A i \in 1..l : t[n + i] = r[i]
  BY SMT
<1>2. (\A i \in 1..n : q[i] \in Range(q)) /\ \A i \in 1..l : r[i] \in Range(r)
  BY Elements, SMT
<1> HIDE DEF t
<1>3. ASSUME NEW i \in 1..(n + l), NEW j \in 1..(n + l), i < j PROVE Less(t[i], t[j])
  <2>1. CASE j <= n
    <3>1. i \in 1..n /\ j \in 1..n
      BY <1>3, <2>1, SMT
    <3>2. QED
      BY <3>1, <1>1, <1>3 DEF Increasing
  <2>2. CASE i <= n /\ n < j
    <3>1. i \in 1..n /\ j - n \in 1..l /\ j = n + (j - n)
      BY <2>2, SMT
    <3>2. t[j] = r[j - n] /\ t[i] = q[i]
      BY <3>1, <1>1
    <3>3. QED
      BY <3>1, <3>2, <1>2
  <2>3. CASE n < i
    <3>1. i - n \in 1..l /\ j - n \in 1..l /\ j = n + (j - n) /\ i = n + (i - n) /\ i - n < j - n
      BY <1>3, <2>3, SMT
    <3>2. t[j] = r[j - n] /\ t[i] = r[i - n]
      BY <3>1, <1>1
    <3>3. QED
      BY <3>1, <3>2 DEF Increasing
  <2>4. QED
    BY <2>1, <2>2, <2>3, SMT
<1>4. QED
  BY <1>1, <1>3 DEF Increasing, t

\* The first keys of a set, as many as a limit allows.
First(T, limit) == SubSeq(Sorted(T), 1, Min({limit, Len(Sorted(T))}))

\* They come in order, nothing of the set is before the last of them that is not one
\* of them, and they are all of it if there is room.
LEMMA FirstFacts ==
  ASSUME NEW T \in SUBSET Key, IsFiniteSet(T), NEW limit \in Nat
  PROVE  /\ First(T, limit) \in Seq(Key) /\ Increasing(First(T, limit))
         /\ Len(First(T, limit)) \in Nat /\ Len(First(T, limit)) <= limit /\ Len(Sorted(T)) \in Nat
         /\ Range(First(T, limit)) \in SUBSET T
         /\ (Len(First(T, limit)) < limit \/ Len(Sorted(T)) <= limit) => Range(First(T, limit)) = T
         /\ Len(Sorted(T)) > limit
              => Len(First(T, limit)) = limit /\ \E k \in T : k \notin Range(First(T, limit))
         /\ \A k \in T : \A x \in Range(First(T, limit)) : ~Less(x, k) => k \in Range(First(T, limit))
<1> DEFINE q == Sorted(T)
           t == First(T, limit)
           m == Min({limit, Len(q)})
<1>1. q \in Seq(T) /\ Len(q) \in Nat /\ Range(q) = T /\ Increasing(q)
  BY SortedFacts
<1>2. q \in Seq(Key)
  BY <1>1, SMT
<1>3. m = IF limit <= Len(q) THEN limit ELSE Len(q)
  BY <1>1, Lesser
<1>4. t = SubSeq(q, 1, m)
  BY DEF First
<1> HIDE DEF m, q, t
<1>5. /\ m \in Nat /\ m <= Len(q) /\ m <= limit /\ (m < limit \/ Len(q) <= limit => m = Len(q))
      /\ Len(q) > limit => m = limit /\ m + 1 \in 1..Len(q) /\ \A i \in 1..m : i < m + 1
  BY <1>3, SMT
<1>6. /\ t \in Seq(Key) /\ Len(t) = m /\ Increasing(t)
      /\ \A x : x \in Range(t) <=> \E i \in 1..m : q[i] = x
      /\ \A x \in Range(q) : \A i \in 1..m : ~Less(q[i], x) => x \in Range(t)
  <2>1. m \in Nat /\ m <= Len(q)
    BY <1>5
  <2>2. /\ SubSeq(q, 1, m) \in Seq(Key) /\ Len(SubSeq(q, 1, m)) = m /\ Increasing(SubSeq(q, 1, m))
        /\ \A x : x \in Range(SubSeq(q, 1, m)) <=> \E i \in 1..m : q[i] = x
        /\ \A x \in Range(q) : \A i \in 1..m : ~Less(q[i], x) => x \in Range(SubSeq(q, 1, m))
    BY <2>1, <1>1, IncreasingBeginning, SMT
  <2>3. QED
    BY <2>2, <1>4
<1>7. \A x : x \in Range(q) <=> \E i \in 1..Len(q) : q[i] = x
  BY <1>2, Elements
<1>8. \A i \in 1..m : i \in 1..Len(q)
  BY <1>5, SMTT(20)
<1>9. Range(t) \in SUBSET T
  BY <1>1, <1>6, <1>7, <1>8
<1>10. Len(t) < limit \/ Len(q) <= limit => Range(t) = T
  <2>1. HAVE Len(t) < limit \/ Len(q) <= limit
  <2>2. m = Len(q)
    BY <2>1, <1>5, <1>6
  <2>3. \A k \in T : k \in Range(t)
    BY <2>2, <1>1, <1>6, <1>7
  <2>4. QED
    BY <2>3, <1>9
<1>11. ASSUME NEW k \in T, NEW x \in Range(t), ~Less(x, k) PROVE k \in Range(t)
  <2>1. PICK i \in 1..m : q[i] = x
    BY <1>6
  <2>2. k \in Range(q) /\ ~Less(q[i], k)
    BY <2>1, <1>1, <1>11
  <2>3. QED
    BY <2>2, <1>6
<1>12. ASSUME Len(q) > limit PROVE Len(t) = limit /\ \E k \in T : k \notin Range(t)
  <2>1. Len(t) = limit
    BY <1>12, <1>5, <1>6
  <2>2. m + 1 \in 1..Len(q) /\ \A i \in 1..m : i < m + 1
    BY <1>12, <1>5
  <2>3. q[m + 1] \in T /\ q[m + 1] \in Key
    BY <2>2, <1>1, <1>7
  <2>4. ASSUME NEW i \in 1..m, q[i] = q[m + 1] PROVE FALSE
    <3>1. Less(q[i], q[m + 1])
      BY <2>2, <1>1, <1>8 DEF Increasing
    <3>2. QED
      BY <3>1, <2>4, <2>3, NotBefore
  <2>5. QED
    BY <2>1, <2>3, <2>4, <1>6
<1>13. Len(t) \in Nat /\ Len(t) <= limit
  BY <1>5, <1>6
<1>14. QED
  BY <1>1, <1>6, <1>9, <1>10, <1>11, <1>12, <1>13 DEF q, t

\* A read of etcd returns keys of the range in order, the first of it and, if there are
\* fewer than asked for, all of it.
LEMMA GetFacts ==
  ASSUME NEW S \in SUBSET Key, IsFiniteSet(S), NEW start \in Key, NEW limit \in Nat,
         NEW t, t = Get(S, start, limit)
  PROVE  /\ t \in Seq(Key) /\ Increasing(t) /\ Len(t) \in Nat /\ Len(t) <= limit
         /\ \A k \in Range(t) : k \in S /\ ~Less(k, start)
         /\ \A k \in S : ~Less(k, start) /\ Len(t) < limit => k \in Range(t)
         /\ \A k \in S : \A x \in Range(t) : ~Less(k, start) /\ ~Less(x, k) => k \in Range(t)
<1> DEFINE T == {k \in S : ~Less(k, start)}
<1>1. T \in SUBSET Key /\ T \in SUBSET S
  OBVIOUS
<1>2. IsFiniteSet(T)
  BY FS_Subset
<1>3. t = First(T, limit)
  BY DEF Get, First
<1>4. \A k : k \in T <=> k \in S /\ ~Less(k, start)
  OBVIOUS
<1> HIDE DEF T
<1>5. /\ t \in Seq(Key) /\ Increasing(t) /\ Len(t) \in Nat /\ Len(t) <= limit
      /\ Range(t) \in SUBSET T
      /\ Len(t) < limit => Range(t) = T
      /\ \A k \in T : \A x \in Range(t) : ~Less(x, k) => k \in Range(t)
  <2>1. /\ First(T, limit) \in Seq(Key) /\ Increasing(First(T, limit))
        /\ Len(First(T, limit)) \in Nat /\ Len(First(T, limit)) <= limit
        /\ Range(First(T, limit)) \in SUBSET T
        /\ (Len(First(T, limit)) < limit \/ Len(Sorted(T)) <= limit) => Range(First(T, limit)) = T
        /\ \A k \in T : \A x \in Range(First(T, limit)) : ~Less(x, k) => k \in Range(First(T, limit))
    BY <1>1, <1>2, FirstFacts
  <2>2. QED
    BY <2>1, <1>3
<1>6. QED
  BY <1>4, <1>5

\* A name is past the beginning.
LEMMA EmptyFirst ==
  ASSUME NEW k \in Key
  PROVE  <<>> \in Key /\ ~Less(k, <<>>) /\ (k # <<>> => Less(<<>>, k))
<1>1. <<>> \in Key /\ Len(<<>>) = 0
  BY SMT DEF Key
<1>2. ~Less(k, <<>>)
  BY SMT DEF Less
<1>3. QED
  BY <1>1, <1>2, NotLess

\* What a request may be, and what is in store.
LEMMA Given ==
  ASSUME req \in Requests, store \in SUBSET Names[req.kind]
  PROVE  /\ req.kind \in {"objects", "versions", "buckets", "uploads", "parts", "walk"}
         /\ req.kind \in {"buckets", "uploads", "parts"} => req.prefix = <<>>
         /\ req.kind \in {"uploads", "parts", "walk"} => req.delimiter = <<>>
         /\ req.start # <<>> => req.kind \in {"objects", "parts", "walk"}
         /\ store \in SUBSET Key /\ IsFiniteSet(store) /\ <<>> \notin store
         /\ Names[req.kind] \in SUBSET Key /\ <<>> \notin Names[req.kind]
         /\ req.kind = "parts" => \A k \in Names[req.kind] : Len(k) = 1
         /\ Want \in Nat /\ Want > 0 /\ ScanBudget \in Nat
<1>1. /\ req.kind \in {"objects", "versions", "buckets", "uploads", "parts", "walk"}
      /\ req.kind \in {"buckets", "uploads", "parts"} => req.prefix = <<>>
      /\ req.kind \in {"uploads", "parts", "walk"} => req.delimiter = <<>>
      /\ req.start # <<>> => req.kind \in {"objects", "parts", "walk"}
      /\ IsFiniteSet(Names[req.kind]) /\ Names[req.kind] \subseteq Key \ {<<>>}
      /\ req.kind = "parts" => \A k \in Names[req.kind] : Len(k) = 1
  BY ListingAssumption
<1>2. store \in SUBSET Key /\ IsFiniteSet(store) /\ <<>> \notin store
  BY <1>1, FS_Subset
<1>3. ScanPageSize \in Nat /\ ScanPageSize > 0 /\ ScanBudget \in Nat
  BY ListingAssumption, SMT
<1>4. req.limit \in Nat
  BY Asked
<1>5. \A n \in Nat : n + 1 \in Nat /\ n + 1 > 0
  BY SMT
<1>6. Want \in Nat /\ Want > 0
  BY <1>3, <1>4, <1>5 DEF Want
<1>7. QED
  BY <1>1, <1>2, <1>3, <1>6

\* A scan returns what is in store of the range from its position on, the first of it
\* and, if there is less than asked for, all of it.
LEMMA ScanFacts ==
  ASSUME req \in Requests, store \in SUBSET Names[req.kind], from \in Key, NEW limit \in Nat,
         NEW t, t = ScanEntries(limit)
  PROVE  /\ t \in Seq(Key) /\ Increasing(t) /\ Len(t) \in Nat /\ Len(t) <= limit
         /\ \A k \in Range(t) : k \in store /\ k \in Key /\ HasPrefix(k, req.prefix) /\ ~Less(k, from)
         /\ \A k \in store : HasPrefix(k, req.prefix) /\ ~Less(k, from) /\ Len(t) < limit => k \in Range(t)
         /\ \A k \in store : \A x \in Range(t) :
              HasPrefix(k, req.prefix) /\ ~Less(k, from) /\ ~Less(x, k) => k \in Range(t)
<1> DEFINE S == {k \in store : HasPrefix(k, req.prefix)}
           start == IF Less(req.prefix, from) THEN from ELSE req.prefix
<1>1. S \in SUBSET Key /\ IsFiniteSet(S) /\ store \in SUBSET Key
  <2>1. store \in SUBSET Key /\ IsFiniteSet(store) /\ S \in SUBSET store
    BY Given
  <2>2. QED
    BY <2>1, FS_Subset
<1>2. req.prefix \in Key
  BY Asked
<1>3. start \in Key
  BY <1>2
<1>4. t = Get(S, start, limit)
  BY DEF ScanEntries
<1>5. ASSUME NEW k \in S PROVE Less(k, start) <=> Less(k, from)
  <2>1. k \in Key /\ HasPrefix(k, req.prefix)
    BY <1>1
  <2>2. ~Less(k, req.prefix)
    BY <2>1, <1>2, PrefixFirst
  <2>3. CASE Less(req.prefix, from)
    BY <2>3
  <2>4. CASE ~Less(req.prefix, from)
    <3>1. ~Less(k, from)
      BY <2>1, <2>2, <2>4, <1>2, Follows
    <3>2. QED
      BY <3>1, <2>2
  <2>5. QED
    BY <2>4
<1>6. \A k : k \in S <=> k \in store /\ HasPrefix(k, req.prefix)
  OBVIOUS
<1> HIDE DEF S, start
<1>7. /\ t \in Seq(Key) /\ Increasing(t) /\ Len(t) \in Nat /\ Len(t) <= limit
      /\ \A k \in Range(t) : k \in S /\ ~Less(k, start)
      /\ \A k \in S : ~Less(k, start) /\ Len(t) < limit => k \in Range(t)
      /\ \A k \in S : \A x \in Range(t) : ~Less(k, start) /\ ~Less(x, k) => k \in Range(t)
  BY <1>1, <1>3, <1>4, GetFacts
<1>8. QED
  BY <1>1, <1>5, <1>6, <1>7

-----------------------------------------------------------------------------
(***************************************************************************)
(* Types.                                                                  *)
(***************************************************************************)

\* The entries of finitely many keys are finitely many.
LEMMA EntriesFinite == ASSUME NEW S, IsFiniteSet(S) PROVE IsFiniteSet({EntryOf(k) : k \in S})
<1> DEFINE T == {EntryOf(k) : k \in S}
           f == [k \in S |-> EntryOf(k)]
<1>1. f \in Surjection(S, T)
  BY SMT DEF Surjection
<1>2. QED
  BY <1>1, FS_Surjection

\* A page goes on with the entries of the keys read.
LEMMA ExtendFacts ==
  ASSUME req \in Requests, page \in Seq(Key), NEW keys \in Seq(Key),
         \A k \in Range(keys) : k \in Key /\ HasPrefix(k, req.prefix)
  PROVE  \E new \in Seq(Key) :
           /\ Extend(keys) = page \o new /\ Increasing(new)
           /\ \A e : e \in Range(new) <=> \E k \in Range(keys) : e = EntryOf(k)
<1> DEFINE E == {EntryOf(k) : k \in Range(keys)}
<1>1. IsFiniteSet(E)
  BY Elements, EntriesFinite
<1>2. E \in SUBSET Key
  BY EntryFacts
<1>3. Extend(keys) = page \o Sorted(E) /\ \A e : e \in E <=> \E k \in Range(keys) : e = EntryOf(k)
  BY DEF Extend
<1> HIDE DEF E
<1>4. Sorted(E) \in Seq(E) /\ Range(Sorted(E)) = E /\ Increasing(Sorted(E))
  BY <1>1, <1>2, SortedFacts
<1>5. Sorted(E) \in Seq(Key)
  BY <1>2, <1>4, SMT
<1>6. QED
  BY <1>3, <1>4, <1>5

\* A page as far as the limit.
Upto(all) == IF Full(all) THEN SubSeq(all, 1, req.limit) ELSE all

\* It is no longer, and part of what there is.
LEMMA UptoFacts ==
  ASSUME req \in Requests, NEW all \in Seq(Key), NEW upto,
         upto = IF Full(all) THEN SubSeq(all, 1, req.limit) ELSE all
  PROVE  /\ upto \in Seq(Key) /\ Len(all) \in Nat /\ Len(upto) \in Nat /\ Len(upto) <= req.limit
         /\ Full(all) => Len(upto) = req.limit
         /\ Range(upto) \in SUBSET Range(all)
<1>1. Len(all) \in Nat /\ req.limit \in Nat
  BY Asked, ElementType
<1>2. CASE Full(all)
  <2> DEFINE n == req.limit
             t == SubSeq(all, 1, n)
  <2>1. upto = t /\ n \in Nat /\ Len(all) > n
    BY <1>1, <1>2 DEF Full
  <2> HIDE DEF n
  <2>2. n <= Len(all) /\ n <= n /\ \A i \in 1..n : i \in 1..Len(all)
    BY <2>1, SMT
  <2>3. t \in Seq(Key) /\ Len(t) = n /\ \A i \in 1..n : t[i] = all[i]
    BY <2>1, <2>2, Beginning
  <2> HIDE DEF t
  <2>4. \A x : x \in Range(t) <=> \E i \in 1..n : t[i] = x
    BY <2>3, Elements, SMT
  <2>5. \A x : x \in Range(all) <=> \E i \in 1..Len(all) : all[i] = x
    BY Elements
  <2>6. Range(t) \in SUBSET Range(all)
    BY <2>2, <2>3, <2>4, <2>5
  <2>7. QED
    BY <1>1, <2>1, <2>2, <2>3, <2>6 DEF n
<1>3. CASE ~Full(all)
  <2>1. upto = all /\ ~(Len(all) > req.limit)
    BY <1>3 DEF Full
  <2>2. \A a, b \in Nat : ~(a > b) => a <= b
    BY SMT
  <2>3. QED
    BY <1>1, <1>3, <2>1, <2>2
<1>4. QED
  BY <1>2, <1>3

\* What a page is answered with is added to what was listed.
LEMMA WithFacts ==
  ASSUME listed \in Seq(Key), NEW q \in Seq(Key)
  PROVE  /\ With(q) \in Seq(Key) /\ Range(With(q)) = Range(listed) \cup Range(q)
         /\ req.kind \notin {"uploads", "walk"} => With(q) = listed \o q
<1> DEFINE S == Range(q) \ Range(listed)
<1>1. Range(q) \in SUBSET Key /\ IsFiniteSet(Range(q))
  BY Elements, SMT
<1>2. S \in SUBSET Key /\ S \in SUBSET Range(q)
  BY <1>1
<1>3. IsFiniteSet(S) /\ Range(listed) \cup S = Range(listed) \cup Range(q)
  <2>1. QED
    BY <1>1, FS_Subset
<1>4. With(q) = listed \o (IF req.kind \notin {"uploads", "walk"} THEN q ELSE Sorted(S))
  BY DEF With
<1> HIDE DEF S
<1>5. Sorted(S) \in Seq(S) /\ Range(Sorted(S)) = S
  BY <1>2, <1>3, SortedFacts
<1>6. Sorted(S) \in Seq(Key)
  BY <1>2, <1>5, SMT
<1>7. /\ listed \o q \in Seq(Key) /\ Range(listed \o q) = Range(listed) \cup Range(q)
      /\ listed \o Sorted(S) \in Seq(Key) /\ Range(listed \o Sorted(S)) = Range(listed) \cup S
  BY <1>5, <1>6, ElementsJoined, SMT
<1>8. QED
  BY <1>3, <1>4, <1>7

\* An empty sequence.
LEMMA Nothing == <<>> \in Seq(Key) /\ Len(<<>>) = 0 /\ Range(<<>>) = {} /\ Increasing(<<>>)
<1>1. <<>> \in Seq(Key) /\ Len(<<>>) = 0
  BY SMT
<1>2. Range(<<>>) = {}
  BY SMT DEF Range
<1>3. Increasing(<<>>)
  BY SMT DEF Increasing
<1>4. QED
  BY <1>1, <1>2, <1>3

\* The last of a page, what follows it, and the last that was reported.
LEMMA LastType ==
  ASSUME req \in Requests, NEW q \in Seq(Key), q # <<>>
  PROVE  /\ Len(q) \in Nat /\ Len(q) > 0 /\ Last(q) \in Key /\ Last(q) \in Range(q)
         /\ Past(Last(q)) \in Key
         /\ LastReported(q) \in Range(q) /\ \A f \in Range(q) : ~Less(LastReported(q), f)
<1>1. Len(q) \in Nat /\ Len(q) > 0 /\ Len(q) \in 1..Len(q)
  BY SMT
<1>2. (\A i \in 1..Len(q) : q[i] \in Key) /\ \A x : x \in Range(q) <=> \E i \in 1..Len(q) : q[i] = x
  BY Elements
<1>3. Last(q) \in Key /\ Last(q) \in Range(q)
  BY <1>1, <1>2 DEF Last
<1>4. Past(Last(q)) \in Key
  BY <1>3, AfterType, PastPrefixType DEF Past
<1> DEFINE S == Range(q)
           r == Sorted(S)
<1>5. S \in SUBSET Key /\ IsFiniteSet(S)
  BY Elements, SMT
<1>6. r \in Seq(S) /\ Range(r) = S /\ Increasing(r)
  BY <1>5, SortedFacts
<1> HIDE DEF S, r
<1>7. r \in Seq(Key)
  BY <1>5, <1>6, SMT
<1>8. r # <<>>
  <2>1. S # {}
    BY <1>3 DEF S
  <2>2. QED
    BY <1>6, <2>1, Nothing
<1>9. Last(r) \in Range(r) /\ \A x \in Range(r) : ~Less(Last(r), x)
  BY <1>6, <1>7, <1>8, IncreasingLast
<1>10. \E e \in Range(q) : \A f \in Range(q) : ~Less(e, f)
  BY <1>6, <1>9 DEF S
<1>11. LastReported(q) \in Range(q) /\ \A f \in Range(q) : ~Less(LastReported(q), f)
  BY <1>10 DEF LastReported
<1>12. QED
  BY <1>1, <1>3, <1>4, <1>11

\* A listing that has not ended was asked for something.
Begun == phase # "done" => req.limit > 0

\* Keys and a position for an answer keep the types.
LEMMA AnswerTypes ==
  ASSUME TypeOK, Begun, phase # "done", NEW q \in Seq(Key), NEW to \in {"more", "done", "stuck"},
         NEW pos \in Key, Answer(q, to, pos)
  PROVE  TypeOK' /\ Begun'
<1>1. /\ phase' = to /\ listed' = With(q) /\ begin' = pos /\ from' = pos /\ page' = <<>>
      /\ unchanged' = (to = "more")
      /\ req' = req /\ store' = store /\ throughout' = throughout
  BY DEF Answer
<1>2. req \in Requests /\ listed \in Seq(Key) /\ store \subseteq Names[req.kind] /\ throughout \subseteq store
  BY DEF TypeOK
<1>3. With(q) \in Seq(Key)
  BY <1>2, WithFacts
<1>4. req.limit \in Nat /\ req.limit > 0
  BY <1>2, Asked DEF Begun
<1>5. <<>> \in Seq(Key) /\ Len(<<>>) <= req.limit
  <2>1. \A n \in Nat : 0 <= n
    BY SMT
  <2>2. QED
    BY <2>1, <1>4, Nothing
<1>6. QED
  BY <1>1, <1>2, <1>3, <1>4, <1>5 DEF TypeOK, Begun

\* A page of entries is reported as one.
LEMMA ReportedType ==
  ASSUME NEW q \in Seq(Key)
  PROVE  /\ Reported(q) \in Seq(Key) /\ Range(Reported(q)) \in SUBSET Range(q)
         /\ req.kind # "buckets" => Reported(q) = q
         /\ req.kind = "buckets" =>
              /\ Increasing(Reported(q))
              /\ \A e \in Range(q) : GroupOf(e) # <<>> => e \in Range(Reported(q))
<1> DEFINE S == {e \in Range(q) : GroupOf(e) # <<>>}
<1>1. Range(q) \in SUBSET Key /\ IsFiniteSet(Range(q))
  BY Elements, SMT
<1>2. S \in SUBSET Key /\ S \in SUBSET Range(q)
  BY <1>1
<1>3. IsFiniteSet(S) /\ \A e : e \in S <=> e \in Range(q) /\ GroupOf(e) # <<>>
  BY <1>1, FS_Subset
<1>4. Reported(q) = IF req.kind = "buckets" THEN Sorted(S) ELSE q
  BY DEF Reported
<1> HIDE DEF S
<1>5. Sorted(S) \in Seq(S) /\ Range(Sorted(S)) = S /\ Increasing(Sorted(S))
  BY <1>2, <1>3, SortedFacts
<1>6. Sorted(S) \in Seq(Key)
  BY <1>2, <1>5, SMTT(20)
<1>7. CASE req.kind = "buckets"
  <2>1. Reported(q) = Sorted(S)
    BY <1>4, <1>7
  <2>2. QED
    BY <2>1, <1>3, <1>5, <1>6, <1>7
<1>8. CASE req.kind # "buckets"
  <2>1. Reported(q) = q /\ Range(q) \in SUBSET Range(q)
    BY <1>4, <1>8
  <2>2. QED
    BY <2>1, <1>8
<1>9. QED
  BY <1>7, <1>8

\* What is listed next starts at a key.
LEMMA ResumeType ==
  ASSUME req \in Requests, NEW q \in Seq(Key), q # <<>>, NEW next \in Key
  PROVE  Resume(q, next) \in Key
<1>1. LastReported(q) \in Key
  BY LastType, Elements
<1>2. After(LastReported(q)) \in Key /\ PastPrefix(LastReported(q)) \in Key
  BY <1>1, AfterType, PastPrefixType
<1>3. QED
  BY <1>2 DEF Resume

\* A read for a page: the keys, the entries they add, the page and what follows it.
Reads(keys, new, all, upto, next) ==
  /\ keys = ScanEntries(Want) /\ new \in Seq(Key) /\ Increasing(new)
  /\ \A e : e \in Range(new) <=> \E k \in Range(keys) : e = EntryOf(k)
  /\ all = page \o new /\ all \in Seq(Key)
  /\ upto = IF Full(all) THEN SubSeq(all, 1, req.limit) ELSE all
  /\ upto \in Seq(Key) /\ Len(upto) <= req.limit
  /\ next = IF upto = <<>> THEN from ELSE Past(Last(upto))
  /\ next \in Key

\* What Fetch does with them.
Goes(keys, all, upto, next) ==
  \/ Full(all) /\ upto # <<>> /\ next # <<>> /\ Answer(Reported(upto), "more", Resume(upto, next))
  \/ ((~Full(all) /\ Exhausted(keys)) \/ next = <<>>) /\ Answer(Reported(upto), "done", <<>>)
  \/ /\ ~Full(all) /\ ~Exhausted(keys) /\ next # <<>> /\ page' = upto /\ from' = next
     /\ UNCHANGED <<req, store, phase, begin, listed, throughout, unchanged, changes, failures>>

\* One step of a listing reads a page so.
LEMMA FetchReads ==
  ASSUME TypeOK, Begun, Fetch
  PROVE  \E keys, new, all, upto, next : Reads(keys, new, all, upto, next) /\ Goes(keys, all, upto, next)
<1>1. PICK keys, all, upto, next :
        /\ keys = ScanEntries(Want) /\ all = Extend(keys)
        /\ upto = IF Full(all) THEN SubSeq(all, 1, req.limit) ELSE all
        /\ next = IF upto = <<>> THEN from ELSE Past(Last(upto))
        /\ \/ /\ Full(all) /\ next # <<>>
              /\ Answer(Reported(upto), "more", Resume(upto, next))
           \/ /\ (~Full(all) /\ Exhausted(keys)) \/ next = <<>>
              /\ Answer(Reported(upto), "done", <<>>)
           \/ /\ ~Full(all) /\ ~Exhausted(keys) /\ next # <<>>
              /\ page' = upto
              /\ from' = next
              /\ UNCHANGED <<req, store, phase, begin, listed, throughout, unchanged, changes, failures>>
  BY SMT DEF Fetch
<1>2. /\ req \in Requests /\ store \in SUBSET Names[req.kind] /\ from \in Key /\ page \in Seq(Key)
      /\ phase # "done"
  BY DEF TypeOK, Fetch
<1>3. Want \in Nat
  BY <1>2, Given
<1>4. keys \in Seq(Key) /\ \A k \in Range(keys) : k \in Key /\ HasPrefix(k, req.prefix)
  BY <1>1, <1>2, <1>3, ScanFacts
<1>5. PICK new \in Seq(Key) :
        /\ Extend(keys) = page \o new /\ Increasing(new)
        /\ \A e : e \in Range(new) <=> \E k \in Range(keys) : e = EntryOf(k)
  BY <1>2, <1>4, ExtendFacts
<1>6. all = page \o new /\ all \in Seq(Key)
  <2>1. page \o new \in Seq(Key)
    BY <1>2, Joined
  <2>2. QED
    BY <2>1, <1>1, <1>5
<1>7. upto \in Seq(Key) /\ Len(upto) <= req.limit /\ (Full(all) => Len(upto) = req.limit)
  BY <1>1, <1>2, <1>6, UptoFacts
<1>8. next \in Key
  BY <1>1, <1>2, <1>7, LastType
<1>9. Full(all) => upto # <<>>
  <2>1. req.limit > 0
    BY <1>2 DEF Begun
  <2>2. ~(0 > 0)
    BY SMT
  <2>3. QED
    BY <2>1, <2>2, <1>7, Nothing
<1>10. Reads(keys, new, all, upto, next)
  BY <1>1, <1>5, <1>6, <1>7, <1>8 DEF Reads
<1>11. Goes(keys, all, upto, next)
  BY <1>1, <1>9 DEF Goes
<1>12. QED
  BY <1>10, <1>11

\* A listing keeps the types.
LEMMA FetchTypes == ASSUME TypeOK, Begun, Fetch PROVE TypeOK' /\ Begun'
<1>1. PICK keys, new, all, upto, next : Reads(keys, new, all, upto, next) /\ Goes(keys, all, upto, next)
  BY FetchReads
<1>2. upto \in Seq(Key) /\ Len(upto) <= req.limit /\ next \in Key
  BY <1>1 DEF Reads
<1>3. Reported(upto) \in Seq(Key)
  BY <1>2, ReportedType
<1>4. phase # "done" /\ <<>> \in Key /\ req \in Requests
  BY EmptyFirst DEF Fetch, TypeOK
<1>5. CASE Full(all) /\ upto # <<>> /\ next # <<>> /\ Answer(Reported(upto), "more", Resume(upto, next))
  <2>1. Resume(upto, next) \in Key
    BY <1>2, <1>4, <1>5, ResumeType
  <2>2. QED
    BY <2>1, <1>3, <1>4, <1>5, AnswerTypes
<1>6. CASE ((~Full(all) /\ Exhausted(keys)) \/ next = <<>>) /\ Answer(Reported(upto), "done", <<>>)
  BY <1>3, <1>4, <1>6, AnswerTypes
<1>7. CASE /\ ~Full(all) /\ ~Exhausted(keys) /\ next # <<>> /\ page' = upto /\ from' = next
           /\ UNCHANGED <<req, store, phase, begin, listed, throughout, unchanged, changes, failures>>
  BY <1>2, <1>7 DEF TypeOK, Begun
<1>8. QED
  BY <1>1, <1>5, <1>6, <1>7 DEF Goes

\* The records among the keys read for a page of uploads.
Records(keys) == {k \in Range(keys) : Len(k) = 2 /\ k[1] \notin Elsewhere}

\* A page of uploads, read as one.
LEMMA UploadsFacts ==
  ASSUME req \in Requests, store \in SUBSET Names[req.kind], from \in Key, req.kind = "uploads"
  PROVE  \E keys \in Seq(Key) : \E found \in Seq(Key) :
           /\ keys = Get(store, from, ScanBudget)
           /\ Len(keys) \in Nat /\ Len(keys) <= ScanBudget
           /\ \A k \in Range(keys) : k \in store /\ ~Less(k, from)
           /\ \A k \in store : ~Less(k, from) /\ Len(keys) < ScanBudget => k \in Range(keys)
           /\ \A k \in store : \A x \in Range(keys) : ~Less(k, from) /\ ~Less(x, k) => k \in Range(keys)
           /\ Uploads.found = found /\ Range(found) \in SUBSET Records(keys) /\ Increasing(found)
           /\ \A k \in Records(keys) : \A x \in Range(found) : ~Less(x, k) => k \in Range(found)
           /\ ~Uploads.more => Range(found) = Records(keys) /\ Len(keys) < ScanBudget
<1> DEFINE keys == Get(store, from, ScanBudget)
           R == Records(keys)
           found == First(R, req.limit)
<1>1. store \in SUBSET Key /\ IsFiniteSet(store) /\ ScanBudget \in Nat /\ req.limit \in Nat
  BY Given, Asked
<1>2. /\ keys \in Seq(Key) /\ Len(keys) \in Nat /\ Len(keys) <= ScanBudget
      /\ \A k \in Range(keys) : k \in store /\ ~Less(k, from)
      /\ \A k \in store : ~Less(k, from) /\ Len(keys) < ScanBudget => k \in Range(keys)
      /\ \A k \in store : \A x \in Range(keys) : ~Less(k, from) /\ ~Less(x, k) => k \in Range(keys)
  BY <1>1, GetFacts, SMT
<1>3. /\ Uploads.found = SubSeq(Sorted(R), 1, Min({req.limit, Len(Sorted(R))}))
      /\ Uploads.more <=> Len(Sorted(R)) > req.limit \/ Len(keys) = ScanBudget
  BY DEF Uploads, Records
<1>4. Uploads.found = found
  BY <1>3 DEF First
<1> HIDE DEF keys
<1>5. R \in SUBSET Key /\ IsFiniteSet(R)
  <2>1. Range(keys) \in SUBSET Key /\ IsFiniteSet(Range(keys))
    BY <1>2, Elements
  <2>2. R \in SUBSET Range(keys)
    BY DEF Records
  <2>3. QED
    BY <2>1, <2>2, FS_Subset
<1> HIDE DEF R
<1>6. /\ found \in Seq(Key) /\ Increasing(found) /\ Len(Sorted(R)) \in Nat /\ Range(found) \in SUBSET R
      /\ Len(Sorted(R)) <= req.limit => Range(found) = R
      /\ \A k \in R : \A x \in Range(found) : ~Less(x, k) => k \in Range(found)
  BY <1>1, <1>5, FirstFacts
<1> HIDE DEF found
<1>7. ASSUME ~Uploads.more PROVE Range(found) = R /\ Len(keys) < ScanBudget
  <2>1. ~(Len(Sorted(R)) > req.limit) /\ Len(keys) # ScanBudget
    BY <1>3, <1>7
  <2>2. \A x, y \in Nat : (~(x > y) => x <= y) /\ (x # y /\ x <= y => x < y)
    BY SMT
  <2>3. QED
    BY <2>1, <2>2, <1>1, <1>2, <1>6
<1>8. QED
  BY <1>2, <1>4, <1>6, <1>7 DEF keys, R

\* Where a listing of uploads resumes after the record of an upload.
LEMMA UploadKey ==
  ASSUME NEW k \in Key, Len(k) = 2
  PROVE  <<k[1]>> \in Key /\ After(<<k[1]>>) \in Key /\ HasPrefix(k, <<k[1]>>)
<1>1. k[1] \in 0..255
  <2>1. 1 \in 1..2
    BY SMT
  <2>2. QED
    BY <2>1, Bytes, ZenonT(40)
<1>2. \A b \in 0..255 : <<b>> \in Seq(0..255) /\ Len(<<b>>) = 1 /\ <<b>>[1] = b
  BY SMT
<1>3. <<k[1]>> \in Key
  BY <1>1, <1>2 DEF Key
<1>4. HasPrefix(k, <<k[1]>>)
  BY SMT DEF HasPrefix
<1>5. QED
  BY <1>3, <1>4, AfterType

\* A listing of uploads reads a page so.
LEMMA FetchUploadsTypes == ASSUME TypeOK, Begun, FetchUploads PROVE TypeOK' /\ Begun'
<1>1. /\ req \in Requests /\ store \in SUBSET Names[req.kind] /\ from \in Key /\ req.kind = "uploads"
      /\ phase # "done" /\ <<>> \in Key
  BY EmptyFirst DEF TypeOK, FetchUploads
<1>2. PICK keys \in Seq(Key) :
        \E found \in Seq(Key) : Uploads.found = found /\ Range(found) \in SUBSET Records(keys)
  BY <1>1, UploadsFacts
<1>3. PICK found \in Seq(Key) : Uploads.found = found /\ Range(found) \in SUBSET Records(keys)
  BY <1>2
<1>4. \/ Answer(found, "done", <<>>)
      \/ Answer(<<>>, "stuck", <<>>)
      \/ found # <<>> /\ Answer(found, "more", After(<<Last(found)[1]>>))
  BY <1>3, SMT DEF FetchUploads
<1>5. CASE Answer(found, "done", <<>>)
  BY <1>1, <1>5, AnswerTypes
<1>6. CASE Answer(<<>>, "stuck", <<>>)
  BY <1>1, <1>6, AnswerTypes, Nothing
<1>7. CASE found # <<>> /\ Answer(found, "more", After(<<Last(found)[1]>>))
  <2>1. Last(found) \in Range(found) /\ Last(found) \in Key
    BY <1>1, <1>7, LastType
  <2>2. Len(Last(found)) = 2
    BY <2>1, <1>3 DEF Records
  <2>3. After(<<Last(found)[1]>>) \in Key
    BY <2>1, <2>2, UploadKey
  <2>4. QED
    BY <2>3, <1>1, <1>7, AnswerTypes
<1>8. QED
  BY <1>4, <1>5, <1>6, <1>7

\* The parts past the marker.
Beyond == {k \in store : Less(from, k)}

\* A listing of parts reads a page so.
LEMMA PartsFacts ==
  ASSUME req \in Requests, store \in SUBSET Names[req.kind], Begun, FetchParts
  PROVE  \E found \in Seq(Key) :
           /\ Range(found) \in SUBSET Beyond /\ Increasing(found)
           /\ \A k \in Beyond : \A x \in Range(found) : ~Less(x, k) => k \in Range(found)
           /\ \/ /\ found # <<>> /\ (\E k \in Beyond : k \notin Range(found))
                 /\ Answer(found, "more", Last(found))
              \/ Range(found) = Beyond /\ Answer(found, "done", <<>>)
<1> DEFINE q == Sorted(Beyond)
           found == First(Beyond, req.limit)
<1>1. store \in SUBSET Key /\ IsFiniteSet(store) /\ req.limit \in Nat /\ Beyond \in SUBSET store
  BY Given, Asked DEF Beyond
<1>2. Beyond \in SUBSET Key /\ IsFiniteSet(Beyond)
  BY <1>1, FS_Subset
<1>3. /\ found \in Seq(Key) /\ Increasing(found) /\ Len(found) \in Nat /\ Len(q) \in Nat
      /\ Range(found) \in SUBSET Beyond
      /\ (Len(found) < req.limit \/ Len(q) <= req.limit) => Range(found) = Beyond
      /\ Len(q) > req.limit => Len(found) = req.limit /\ \E k \in Beyond : k \notin Range(found)
      /\ \A k \in Beyond : \A x \in Range(found) : ~Less(x, k) => k \in Range(found)
  BY <1>1, <1>2, FirstFacts
<1>4. IF Len(q) > req.limit THEN Answer(found, "more", Last(found)) ELSE Answer(found, "done", <<>>)
  BY DEF FetchParts, Beyond, First
<1>5. phase # "done"
  BY DEF FetchParts
<1> HIDE DEF q, found
<1>6. CASE Len(q) > req.limit
  <2>1. /\ Len(found) = req.limit /\ (\E k \in Beyond : k \notin Range(found))
        /\ Answer(found, "more", Last(found))
    BY <1>3, <1>4, <1>6
  <2>2. req.limit > 0 /\ ~(0 > 0)
    BY <1>5, SMT DEF Begun
  <2>3. found # <<>>
    BY <2>1, <2>2, Nothing
  <2>4. QED
    BY <2>1, <2>3, <1>3
<1>7. CASE ~(Len(q) > req.limit)
  <2>1. \A x, y \in Nat : ~(x > y) => x <= y
    BY SMT
  <2>2. Range(found) = Beyond /\ Answer(found, "done", <<>>)
    BY <2>1, <1>1, <1>3, <1>4, <1>7
  <2>3. QED
    BY <2>2, <1>3
<1>8. QED
  BY <1>6, <1>7

\* A listing of parts keeps the types.
LEMMA FetchPartsTypes == ASSUME TypeOK, Begun, FetchParts PROVE TypeOK' /\ Begun'
<1>1. req \in Requests /\ store \in SUBSET Names[req.kind] /\ phase # "done" /\ <<>> \in Key
  BY EmptyFirst DEF TypeOK, FetchParts
<1>2. PICK found \in Seq(Key) : \/ found # <<>> /\ Answer(found, "more", Last(found))
                                \/ Answer(found, "done", <<>>)
  BY <1>1, PartsFacts
<1>3. CASE found # <<>> /\ Answer(found, "more", Last(found))
  <2>1. Last(found) \in Key
    BY <1>1, <1>3, LastType
  <2>2. QED
    BY <2>1, <1>1, <1>3, AnswerTypes
<1>4. CASE Answer(found, "done", <<>>)
  BY <1>1, <1>4, AnswerTypes
<1>5. QED
  BY <1>2, <1>3, <1>4

\* A sequence without its first element.
LEMMA WithoutFirst ==
  ASSUME NEW S, NEW q \in Seq(S), q # <<>>
  PROVE  /\ Len(q) \in Nat /\ Len(q) > 0 /\ Head(q) = q[1]
         /\ Tail(q) \in Seq(S) /\ Len(Tail(q)) = Len(q) - 1
         /\ \A i \in 1..Len(Tail(q)) : Tail(q)[i] = q[i + 1]
BY SMT

\* The first of the objects to be visited, and the others.
LEMMA HeadTail ==
  ASSUME NEW q \in Seq(Key), q # <<>>
  PROVE  /\ Head(q) \in Key /\ Tail(q) \in Seq(Key) /\ <<Head(q)>> \in Seq(Key)
         /\ Len(Tail(q)) <= Len(q) /\ Range(<<Head(q)>>) = {Head(q)}
         /\ Range(q) = {Head(q)} \cup Range(Tail(q))
         /\ Increasing(q) => Increasing(Tail(q)) /\ \A x \in Range(Tail(q)) : Less(Head(q), x)
<1> DEFINE h == Head(q)
           t == Tail(q)
<1>1. /\ Len(q) \in Nat /\ Len(q) > 0 /\ h = q[1] /\ t \in Seq(Key) /\ Len(t) = Len(q) - 1
      /\ \A i \in 1..Len(t) : t[i] = q[i + 1] /\ i + 1 \in 1..Len(q) /\ 1 < i + 1
      /\ 1 \in 1..Len(q)
      /\ \A i \in 1..Len(q) : i = 1 \/ (i - 1 \in 1..Len(t) /\ q[i] = t[i - 1])
  <2>1. /\ Len(q) \in Nat /\ Len(q) > 0 /\ h = q[1] /\ t \in Seq(Key) /\ Len(t) = Len(q) - 1
        /\ \A i \in 1..Len(t) : t[i] = q[i + 1]
    BY SMT
  <2> HIDE DEF h, t
  <2>2. (\A i \in 1..Len(t) : i + 1 \in 1..Len(q) /\ 1 < i + 1) /\ 1 \in 1..Len(q)
    BY <2>1, SMT
  <2>3. \A i \in 1..Len(q) : i = 1 \/ (i - 1 \in 1..Len(t) /\ (i - 1) + 1 = i)
    BY <2>1, SMT
  <2>4. \A i \in 1..Len(q) : i = 1 \/ (i - 1 \in 1..Len(t) /\ q[i] = t[i - 1])
    <3>1. TAKE i \in 1..Len(q)
    <3>2. ASSUME i # 1 PROVE i - 1 \in 1..Len(t) /\ q[i] = t[i - 1]
      <4>1. i - 1 \in 1..Len(t) /\ (i - 1) + 1 = i
        BY <2>3, <3>2
      <4>2. t[i - 1] = q[(i - 1) + 1]
        BY <4>1, <2>1
      <4>3. QED
        BY <4>1, <4>2
    <3>3. QED
      BY <3>2
  <2>5. QED
    BY <2>1, <2>2, <2>4
<1> HIDE DEF h, t
<1>2. h \in Key
  BY <1>1, ElementType
<1>3. Len(t) <= Len(q)
  BY <1>1, SMT
<1>4. <<h>> \in Seq(Key) /\ Range(<<h>>) = {h}
  <2>1. <<h>> \in Seq(Key)
    BY <1>2, SMT
  <2>2. Range(<<h>>) = {h}
    BY SMT DEF Range
  <2>3. QED
    BY <2>1, <2>2
<1>5. /\ \A x : x \in Range(q) <=> \E i \in 1..Len(q) : q[i] = x
      /\ \A x : x \in Range(t) <=> \E i \in 1..Len(t) : t[i] = x
  BY <1>1, Elements, SMT
<1>6. \A x : x \in Range(q) <=> x = h \/ x \in Range(t)
  BY <1>1, <1>5
<1>7. Range(q) = {h} \cup Range(t)
  BY <1>6, SMT
<1>8. ASSUME Increasing(q) PROVE Increasing(t) /\ \A x \in Range(t) : Less(h, x)
  <2>1. \A i, j \in 1..Len(t) : i < j => i + 1 < j + 1
    BY SMTT(20)
  <2>2. Increasing(t)
    BY <2>1, <1>1, <1>8 DEF Increasing
  <2>3. \A x \in Range(t) : Less(h, x)
    <3>1. TAKE x \in Range(t)
    <3>2. PICK i \in 1..Len(t) : t[i] = x
      BY <1>5
    <3>3. Less(q[1], q[i + 1])
      BY <1>1, <1>8 DEF Increasing
    <3>4. QED
      BY <3>2, <3>3, <1>1
  <2>4. QED
    BY <2>2, <2>3
<1>9. QED
  BY <1>1, <1>2, <1>3, <1>4, <1>7, <1>8 DEF h, t

\* A step of a walk keeps the types.
LEMMA WalkTypes ==
  ASSUME TypeOK, Begun, WalkPage \/ Visit \/ SaveCursor \/ RestartWalk
  PROVE  TypeOK' /\ Begun'
<1>1. /\ req \in Requests /\ store \in SUBSET Names[req.kind] /\ from \in Key /\ begin \in Key
      /\ page \in Seq(Key) /\ listed \in Seq(Key) /\ Len(page) <= req.limit /\ req.limit \in Nat
  BY Asked DEF TypeOK
<1>2. <<>> \in Seq(Key) /\ Len(<<>>) <= req.limit /\ <<>> \in Key
  <2>1. \A n \in Nat : 0 <= n
    BY SMT
  <2>2. QED
    BY <2>1, <1>1, Nothing, EmptyFirst
<1>3. CASE WalkPage
  <2>1. PICK objects \in {ScanEntries(req.limit)} :
           IF objects = <<>> THEN Answer(<<>>, "done", <<>>)
           ELSE /\ phase' = "visit"
                /\ page' = objects
                /\ UNCHANGED <<req, store, begin, from, listed, throughout, unchanged, changes, failures>>
    BY <1>3 DEF WalkPage
  <2>2. objects \in Seq(Key) /\ Len(objects) <= req.limit /\ phase # "done"
    BY <1>1, <1>3, ScanFacts DEF WalkPage
  <2>3. CASE objects = <<>>
    BY <2>1, <2>2, <2>3, <1>2, AnswerTypes, ZenonT(40)
  <2>4. CASE objects # <<>>
    BY <2>1, <2>2, <2>4 DEF TypeOK, Begun
  <2>5. QED
    BY <2>3, <2>4
<1>4. CASE Visit
  <2>1. /\ Head(page) \in Key /\ Tail(page) \in Seq(Key) /\ <<Head(page)>> \in Seq(Key)
        /\ Len(Tail(page)) <= Len(page)
    BY <1>1, <1>4, HeadTail DEF Visit
  <2>2. Len(Tail(page)) <= req.limit
    <3>1. Len(Tail(page)) \in Nat /\ Len(page) \in Nat
      BY <2>1, <1>1, ElementType
    <3>2. \A x, y, z \in Nat : x <= y /\ y <= z => x <= z
      BY SMT
    <3>3. QED
      BY <3>1, <3>2, <2>1, <1>1
  <2>3. After(Head(page)) \in Key /\ With(<<Head(page)>>) \in Seq(Key)
    BY <2>1, <1>1, AfterType, WithFacts
  <2>4. QED
    BY <2>1, <2>2, <2>3, <1>4 DEF Visit, TypeOK, Begun
<1>5. CASE SaveCursor
  BY <1>5 DEF SaveCursor, TypeOK, Begun
<1>6. CASE RestartWalk
  BY <1>1, <1>2, <1>6 DEF RestartWalk, TypeOK, Begun
<1>7. QED
  BY <1>3, <1>4, <1>5, <1>6

\* Every step keeps the types.
LEMMA NextTypes == ASSUME TypeOK, Begun, [Next]_vars PROVE TypeOK' /\ Begun'
<1>1. /\ req \in Requests /\ store \in SUBSET Names[req.kind] /\ begin \in Key /\ throughout \in SUBSET store
      /\ <<>> \in Seq(Key) /\ <<>> \in Key /\ Len(<<>>) <= req.limit
  <2>1. req \in Requests /\ store \in SUBSET Names[req.kind] /\ begin \in Key /\ throughout \in SUBSET store
    BY DEF TypeOK
  <2>2. \A n \in Nat : 0 <= n
    BY SMT
  <2>3. QED
    BY <2>1, <2>2, Asked, Nothing, EmptyFirst
<1>2. ASSUME NEW k \in Names[req.kind], Put(k) PROVE TypeOK' /\ Begun'
  <2>1. QED
    BY <1>2 DEF Put, TypeOK, Begun
<1>3. ASSUME NEW k \in Names[req.kind], Delete(k) PROVE TypeOK' /\ Begun'
  <2>1. QED
    BY <1>3 DEF Delete, TypeOK, Begun
<1>4. CASE FailFetch
  <2>1. QED
    BY <1>1, <1>4 DEF FailFetch, TypeOK, Begun
<1>5. CASE NextPage
  BY <1>5 DEF NextPage, TypeOK, Begun
<1>6. CASE UNCHANGED vars
  BY <1>6 DEF vars, TypeOK, Begun
<1>7. QED
  BY <1>2, <1>3, <1>4, <1>5, <1>6, FetchTypes, FetchUploadsTypes, FetchPartsTypes, WalkTypes DEF Next

\* A listing begins with the types.
LEMMA InitTypes == ASSUME Init PROVE TypeOK /\ Begun
<1>1. req \in Requests /\ req.start \in Key /\ req.limit \in Nat
  BY Asked DEF Init
<1>2. begin \in Key /\ from \in Key /\ <<>> \in Seq(Key)
  BY <1>1, AfterType, Nothing DEF Init
<1>3. Len(<<>>) <= req.limit /\ (req.limit # 0 => req.limit > 0)
  BY <1>1, SMT
<1>4. phase \in {"fetch", "more", "visit", "done", "stuck"} /\ (phase # "done" => req.limit # 0)
  BY DEF Init
<1>5. QED
  BY <1>2, <1>3, <1>4 DEF Init, TypeOK, Begun

\* Positions, pages and what was listed are made of bytes, whatever is asked for, put
\* and deleted: no marker or token that List, lastReported or pastPrefix computes is
\* anything else, and no page is longer than its limit.
THEOREM ListingTypes == Spec => []TypeOK
<1>1. Init => TypeOK /\ Begun
  BY InitTypes
<1>2. TypeOK /\ Begun /\ [Next]_vars => TypeOK' /\ Begun'
  BY NextTypes
<1>3. QED
  BY <1>1, <1>2, PTL DEF Spec

-----------------------------------------------------------------------------
(***************************************************************************)
(* The inductive invariant: what a position says of what was told so far.  *)
(* It is stated of a phase, positions, a page and a listing, which are the *)
(* variables now or after a step.                                          *)
(***************************************************************************)

\* What was there all the while before a position has been told.
Covered(pos, told) == \A k \in throughout : AskedFor(k) /\ Less(k, pos) => EntryOf(k) \in told

\* A position is past the start and behind all that was told, and covers what is before it.
Resumes(pos, told) ==
  /\ req.start = <<>> \/ Less(req.start, pos)
  /\ \A x \in told, k \in Key : HasPrefix(k, req.prefix) /\ ~Less(k, pos) => Less(x, EntryOf(k))
  /\ Covered(pos, told)

\* An entry, and what follows it is past the start.
Onward(e) == IsEntry(e) /\ (req.start = <<>> \/ Less(req.start, Past(e)))

\* Objects, versions and buckets.
PagingAt(ph, b, f, p, l) ==
  /\ ph \in {"fetch", "more", "done"}
  /\ ph # "fetch" => p = <<>>
  /\ Increasing(l) /\ Increasing(p)
  /\ \A x \in Range(l), y \in Range(p) : Less(x, y)
  /\ ph # "done" => /\ Resumes(b, Range(l))
                    /\ Resumes(f, Range(l) \cup Range(p))
                    /\ \A e \in Range(p) : Onward(e)
                    /\ ph = "more" => f = b

\* A walk: what it has read and not visited yet has no gap.
WalkingAt(ph, b, f, p, l) ==
  /\ ph \in {"fetch", "visit", "done"}
  /\ ph # "visit" => p = <<>>
  /\ Increasing(p)
  /\ ph # "done" => Covered(b, Range(l)) /\ Covered(f, Range(l))
  /\ \A x \in Range(p) : \A k \in throughout :
       AskedFor(k) /\ ~Less(x, k) => EntryOf(k) \in Range(l) \cup Range(p)

\* Parts: the marker is the last that was told.
PartsAt(ph, b, f, p, l) ==
  /\ ph \in {"fetch", "more", "done"} /\ p = <<>> /\ Increasing(l)
  /\ ph # "done" =>
       /\ b = f
       /\ \A x \in Range(l) : ~Less(f, x)
       /\ \A k \in Names[req.kind] : Less(f, k) => Less(req.start, k)
       /\ \A k \in throughout : AskedFor(k) /\ ~Less(f, k) => EntryOf(k) \in Range(l)

\* Uploads.
UploadsAt(ph, b, f, p, l) ==
  /\ ph \in {"fetch", "more", "done", "stuck"} /\ p = <<>>
  /\ ph \in {"fetch", "more"} => b = f /\ Covered(f, Range(l))

\* A listing that has come to its end has told everything.
EndsAt(ph, l) ==
  ph = "done" /\ req.limit > 0 => \A k \in throughout : AskedFor(k) => EntryOf(k) \in Range(l)

\* What is so of each kind of listing, of these values of the variables.
Going(ph, b, f, p, l) ==
  /\ req.kind \in {"objects", "versions", "buckets"} => PagingAt(ph, b, f, p, l)
  /\ req.kind = "walk" => WalkingAt(ph, b, f, p, l)
  /\ req.kind = "parts" => PartsAt(ph, b, f, p, l)
  /\ req.kind = "uploads" => UploadsAt(ph, b, f, p, l)
  /\ EndsAt(ph, l)

\* What is so all the time.
ListingInv == Going(phase, begin, from, page, listed)

\* The request stays the same, and so do the entries it asks for.
LEMMA SameRequest ==
  ASSUME req' = req
  PROVE  \A k : (AskedFor(k)' <=> AskedFor(k)) /\ EntryOf(k)' = EntryOf(k) /\ Past(k)' = Past(k)
                /\ (IsEntry(k)' <=> IsEntry(k)) /\ (Onward(k)' <=> Onward(k))
<1>1. TAKE k
<1>2. GroupOf(k)' = GroupOf(k)
  BY DEF GroupOf
<1>3. EntryOf(k)' = EntryOf(k) /\ Past(k)' = Past(k)
  BY <1>2 DEF EntryOf, Past
<1>4. AskedFor(k)' <=> AskedFor(k)
  BY <1>2 DEF AskedFor
<1>5. IsEntry(k)' <=> IsEntry(k)
  BY <1>3 DEF IsEntry
<1>6. Onward(k)' <=> Onward(k)
  BY <1>3, <1>5 DEF Onward
<1>7. QED
  BY <1>3, <1>4, <1>5, <1>6

\* What holds of the variables after a step holds then, for what is still there.
LEMMA GoingNext ==
  ASSUME req' = req, throughout' \in SUBSET throughout, Going(phase', begin', from', page', listed')
  PROVE  ListingInv'
<1>1. \A k : (AskedFor(k)' <=> AskedFor(k)) /\ EntryOf(k)' = EntryOf(k) /\ (Onward(k)' <=> Onward(k))
  BY SameRequest
<1>2. ASSUME PagingAt(phase', begin', from', page', listed') PROVE PagingAt(phase, begin, from, page, listed)'
  <2>1. Resumes(begin', Range(listed')) => Resumes(begin, Range(listed))'
    BY <1>1 DEF Resumes, Covered
  <2>2. Resumes(from', Range(listed') \cup Range(page')) => Resumes(from, Range(listed) \cup Range(page))'
    BY <1>1 DEF Resumes, Covered
  <2>3. QED
    BY <2>1, <2>2, <1>1, <1>2 DEF PagingAt
<1>3. ASSUME WalkingAt(phase', begin', from', page', listed')
      PROVE  WalkingAt(phase, begin, from, page, listed)'
  BY <1>1, <1>3 DEF WalkingAt, Covered
<1>4. ASSUME PartsAt(phase', begin', from', page', listed')
      PROVE  PartsAt(phase, begin, from, page, listed)'
  BY <1>1, <1>4 DEF PartsAt
<1>5. ASSUME UploadsAt(phase', begin', from', page', listed')
      PROVE  UploadsAt(phase, begin, from, page, listed)'
  BY <1>1, <1>5 DEF UploadsAt, Covered
<1>6. EndsAt(phase', listed') => EndsAt(phase, listed)'
  BY <1>1 DEF EndsAt
<1>7. QED
  BY <1>2, <1>3, <1>4, <1>5, <1>6 DEF Going, ListingInv

\* There is something to tell.
Untold(l) == \E k \in store : AskedFor(k) /\ EntryOf(k) \notin Range(l)

\* A page that says there is more, while there is.
LEMMA MoreNext ==
  ASSUME req' = req, store' = store,
         phase' = "more" /\ req.kind \in {"objects", "versions", "parts"} => Untold(listed')
  PROVE  MoreMeansMore'
<1>1. \A k : (AskedFor(k)' <=> AskedFor(k)) /\ EntryOf(k)' = EntryOf(k)
  BY SameRequest
<1>2. QED
  BY <1>1 DEF MoreMeansMore, Untold

-----------------------------------------------------------------------------
(***************************************************************************)
(* Objects, versions and buckets.                                          *)
(***************************************************************************)

\* The page upto is the first of all, and if it is full something of new is not on it.
UptoFirst(all, new, upto) ==
  /\ Increasing(upto) /\ Range(upto) \in SUBSET Range(all)
  /\ \A x \in Range(all) : \A y \in Range(upto) : ~Less(y, x) => x \in Range(upto)
  /\ ~Full(all) => upto = all
  /\ Full(all) => \E e \in Range(new) : e \notin Range(upto)

\* A page as far as the limit is the first of what was read for it, and if it is full
\* something of the last read is not on it.
LEMMA UptoOrder ==
  ASSUME req \in Requests, page \in Seq(Key), NEW new \in Seq(Key), Len(page) <= req.limit,
         Increasing(page \o new)
  PROVE  UptoFirst(page \o new, new, Upto(page \o new))
<1> DEFINE all == page \o new
           upto == Upto(all)
<1>1. upto = IF Full(all) THEN SubSeq(all, 1, req.limit) ELSE all
  BY DEF Upto
<1>2. all = page \o new /\ Increasing(all)
  OBVIOUS
<1> SUFFICES UptoFirst(all, new, upto)
  OBVIOUS
<1> HIDE DEF all, upto
<1> DEFINE n == req.limit
           t == SubSeq(all, 1, n)
           j == (n + 1) - Len(page)
<1>3. /\ all \in Seq(Key) /\ Len(all) \in Nat /\ n \in Nat /\ Len(page) \in Nat /\ Len(new) \in Nat
      /\ Len(all) = Len(page) + Len(new) /\ Len(page) <= n
      /\ \A i \in 1..Len(new) : all[Len(page) + i] = new[i]
  <2>1. n \in Nat
    BY Asked
  <2>2. /\ page \o new \in Seq(Key) /\ Len(page \o new) = Len(page) + Len(new)
        /\ \A i \in 1..Len(new) : (page \o new)[Len(page) + i] = new[i]
    BY SMT
  <2>3. Len(page) \in Nat /\ Len(new) \in Nat
    BY ElementType
  <2>4. all \in Seq(Key)
    BY <2>2, <1>2
  <2>5. Len(all) \in Nat
    BY <2>4, ElementType
  <2>6. QED
    BY <2>1, <2>2, <2>3, <2>4, <2>5, <1>2
<1>4. CASE ~Full(all)
  <2>1. upto = all /\ Range(all) \in SUBSET Range(all)
    BY <1>4, <1>1
  <2>2. QED
    BY <2>1, <1>4, <1>2 DEF UptoFirst
<1>5. CASE Full(all)
  <2>1. upto = t /\ Len(all) > n
    BY <1>5, <1>1, ZenonT(40) DEF Full
  <2> HIDE DEF n
  <2>2. n <= Len(all)
    BY <2>1, <1>3, SMT
  <2>3. /\ Increasing(t)
        /\ \A x : x \in Range(t) <=> \E i \in 1..n : all[i] = x
        /\ \A x \in Range(all) : \A i \in 1..n : ~Less(all[i], x) => x \in Range(t)
    BY <2>2, <1>3, <1>2, IncreasingBeginning
  <2>4. \A x : x \in Range(all) <=> \E i \in 1..Len(all) : all[i] = x
    BY <1>3, Elements
  <2>5. \A x : x \in Range(new) <=> \E i \in 1..Len(new) : new[i] = x
    BY Elements
  <2> HIDE DEF t
  <2>6. (\A i \in 1..n : i \in 1..Len(all) /\ i < n + 1) /\ n + 1 \in 1..Len(all)
    BY <1>3, <2>1, <2>2, SMT
  <2>7. Range(t) \in SUBSET Range(all)
    BY <2>3, <2>4, <2>6
  <2>8. ASSUME NEW x \in Range(all), NEW y \in Range(t), ~Less(y, x) PROVE x \in Range(t)
    BY <2>3, <2>8
  <2>9. j \in 1..Len(new) /\ Len(page) + j = n + 1
    BY <1>3, <2>1, SMT
  <2> HIDE DEF j
  <2>10. new[j] = all[n + 1] /\ all[n + 1] \in Key /\ new[j] \in Range(new)
    BY <2>5, <2>6, <2>9, <1>3, ElementType, ZenonT(40)
  <2>11. ASSUME NEW i \in 1..n, all[i] = new[j] PROVE FALSE
    <3>1. Less(all[i], all[n + 1])
      BY <2>6, <1>2 DEF Increasing
    <3>2. QED
      BY <3>1, <2>10, <2>11, NotBefore
  <2>12. new[j] \notin Range(t)
    BY <2>3, <2>11
  <2>13. QED
    BY <1>5, <2>1, <2>3, <2>7, <2>8, <2>10, <2>12 DEF UptoFirst
<1>6. QED
  BY <1>4, <1>5

\* The names asked for are in the range of the listing.
LEMMA AskedPrefix ==
  ASSUME req \in Requests, req.kind \in {"objects", "versions", "buckets", "walk"}, NEW k \in Key, AskedFor(k)
  PROVE  HasPrefix(k, req.prefix)
<1>1. CASE req.kind = "buckets"
  <2>1. req.prefix = <<>>
    BY <1>1, ListingAssumption
  <2>2. HasPrefix(k, <<>>)
    BY SMT DEF HasPrefix
  <2>3. QED
    BY <2>1, <2>2
<1>2. CASE req.kind # "buckets"
  <2>1. req.kind \notin {"uploads", "buckets"}
    BY <1>2, SMT
  <2>2. QED
    BY <2>1 DEF AskedFor
<1>3. QED
  BY <1>1, <1>2

\* What a read for a page adds to it, and where that leaves the listing.
LEMMA FetchPage ==
  ASSUME PlainDelimiters, TypeOK, Begun, ListingInv, phase = "fetch",
         req.kind \in {"objects", "versions", "buckets"},
         NEW keys, NEW new, NEW all, NEW upto, NEW next, Reads(keys, new, all, upto, next)
  PROVE  /\ Increasing(upto)
         /\ \A x \in Range(listed), y \in Range(upto) : Less(x, y)
         /\ \A e \in Range(upto) : Onward(e)
         /\ upto = <<>> => ~Full(all) /\ Exhausted(keys)
         /\ upto # <<>> => next # <<>> /\ Resumes(next, Range(listed) \cup Range(upto))
         /\ ~Full(all) /\ Exhausted(keys) =>
              \A k \in throughout : AskedFor(k) => EntryOf(k) \in Range(listed) \cup Range(upto)
         /\ Full(all) /\ req.kind # "buckets" =>
              \E k \in store : AskedFor(k) /\ EntryOf(k) \notin Range(listed) \cup Range(upto)
<1>1. /\ req \in Requests /\ store \in SUBSET Names[req.kind] /\ from \in Key
      /\ page \in Seq(Key) /\ listed \in Seq(Key) /\ Len(page) <= req.limit
      /\ throughout \in SUBSET store /\ req.limit > 0 /\ req.start \in Key
  BY Asked DEF TypeOK, Begun
<1>2. /\ store \in SUBSET Key /\ <<>> \notin store /\ Want \in Nat /\ Want > 0
      /\ \A k \in throughout : k \in store /\ k \in Key
  BY <1>1, Given
<1>3. /\ keys \in Seq(Key) /\ Len(keys) \in Nat
      /\ \A k \in Range(keys) : k \in store /\ k \in Key /\ HasPrefix(k, req.prefix) /\ ~Less(k, from)
      /\ \A k \in store : HasPrefix(k, req.prefix) /\ ~Less(k, from) /\ Len(keys) < Want => k \in Range(keys)
      /\ \A k \in store : \A x \in Range(keys) :
           HasPrefix(k, req.prefix) /\ ~Less(k, from) /\ ~Less(x, k) => k \in Range(keys)
  <2>1. keys = ScanEntries(Want)
    BY DEF Reads
  <2>2. QED
    BY <2>1, <1>1, <1>2, ScanFacts
<1>4. /\ new \in Seq(Key) /\ Increasing(new)
      /\ \A e : e \in Range(new) <=> \E k \in Range(keys) : e = EntryOf(k)
      /\ all = page \o new /\ all \in Seq(Key)
      /\ upto = IF Full(all) THEN SubSeq(all, 1, req.limit) ELSE all
      /\ upto \in Seq(Key) /\ next = IF upto = <<>> THEN from ELSE Past(Last(upto))
  BY DEF Reads
<1>5. /\ Increasing(listed) /\ Increasing(page) /\ \A x \in Range(listed), y \in Range(page) : Less(x, y)
      /\ req.start = <<>> \/ Less(req.start, from)
      /\ \A x \in Range(listed) \cup Range(page), k \in Key :
           HasPrefix(k, req.prefix) /\ ~Less(k, from) => Less(x, EntryOf(k))
      /\ \A k \in throughout : AskedFor(k) /\ Less(k, from) => EntryOf(k) \in Range(listed) \cup Range(page)
      /\ \A e \in Range(page) : Onward(e)
  BY DEF ListingInv, Going, PagingAt, Resumes, Covered
<1>6. Range(all) = Range(page) \cup Range(new)
  <2>1. page \in Seq(Key) /\ new \in Seq(Key)
    BY <1>1, <1>4
  <2>2. Range(page \o new) = Range(page) \cup Range(new)
    BY <2>1, ElementsJoined, ZenonT(40)
  <2>3. QED
    BY <2>2, <1>4
<1>7. /\ \A x \in Range(listed), y \in Range(new) : Less(x, y)
      /\ \A x \in Range(page), y \in Range(new) : Less(x, y)
  <2>1. ASSUME NEW x \in Range(listed) \cup Range(page), NEW y \in Range(new) PROVE Less(x, y)
    <3>1. PICK k \in Range(keys) : y = EntryOf(k)
      BY <1>4
    <3>2. k \in Key /\ HasPrefix(k, req.prefix) /\ ~Less(k, from)
      BY <1>3
    <3>3. Less(x, EntryOf(k))
      BY <3>2, <1>5
    <3>4. QED
      BY <3>1, <3>3
  <2>2. QED
    BY <2>1
<1>8. Increasing(all)
  BY <1>1, <1>4, <1>5, <1>7, IncreasingJoined
<1>9. \A x \in Range(listed), y \in Range(all) : Less(x, y)
  BY <1>5, <1>6, <1>7
<1>10. ASSUME NEW e \in Range(new) PROVE Onward(e)
  <2>1. PICK k \in Range(keys) : e = EntryOf(k)
    BY <1>4
  <2>2. k \in Key /\ HasPrefix(k, req.prefix) /\ ~Less(k, from)
    BY <1>3
  <2>3. IsEntry(e)
    BY <2>1, <2>2, <1>1, EntryFacts DEF IsEntry
  <2>4. Past(e) \in Key /\ Less(k, Past(e))
    BY <2>1, <2>2, <2>3, <1>1, PastSplits
  <2>5. req.start = <<>> \/ Less(req.start, Past(e))
    <3>1. ASSUME Less(req.start, from) PROVE Less(req.start, Past(e))
      <4>1. Less(req.start, k)
        BY <3>1, <2>2, <1>1, Follows
      <4>2. QED
        BY <4>1, <2>2, <2>4, <1>1, Transitive
    <3>2. QED
      BY <3>1, <1>5
  <2>6. QED
    BY <2>3, <2>5 DEF Onward
<1>11. /\ Increasing(upto) /\ Range(upto) \in SUBSET Range(all)
       /\ \A x \in Range(all) : \A y \in Range(upto) : ~Less(y, x) => x \in Range(upto)
       /\ ~Full(all) => upto = all
       /\ Full(all) => \E e \in Range(new) : e \notin Range(upto)
  <2>1. /\ req \in Requests /\ page \in Seq(Key) /\ new \in Seq(Key) /\ Len(page) <= req.limit
    BY <1>1, <1>4
  <2>2. Increasing(page \o new) /\ upto = Upto(page \o new)
    BY <1>4, <1>8 DEF Upto
  <2>3. UptoFirst(page \o new, new, Upto(page \o new))
    BY <2>1, <2>2, UptoOrder, ZenonT(40)
  <2>4. UptoFirst(all, new, upto)
    BY <2>2, <2>3, <1>4
  <2>5. QED
    BY <2>4 DEF UptoFirst
<1>12. \A x \in Range(listed), y \in Range(upto) : Less(x, y)
  BY <1>9, <1>11
<1>13. \A e \in Range(upto) : Onward(e)
  BY <1>5, <1>6, <1>10, <1>11
<1>14. ASSUME upto = <<>> PROVE ~Full(all) /\ Exhausted(keys)
  <2>1. ~Full(all)
    <3>1. Full(all) => Len(upto) = req.limit
      BY <1>1, <1>4, UptoFacts
    <3>2. ~(0 > 0)
      BY SMTT(20)
    <3>3. QED
      BY <3>1, <3>2, <1>1, <1>14, Nothing
  <2>2. Range(new) = {}
    BY <2>1, <1>6, <1>11, <1>14, Nothing
  <2>3. Range(keys) = {}
    BY <2>2, <1>4
  <2>4. Len(keys) = 0
    <3>1. ASSUME Len(keys) # 0 PROVE FALSE
      <4>1. 1 \in 1..Len(keys)
        BY <3>1, SMT
      <4>2. keys[1] \in Range(keys)
        BY <4>1, <1>3, Elements
      <4>3. QED
        BY <4>2, <2>3
    <3>2. QED
      BY <3>1
  <2>5. 0 < Want
    BY <1>2, SMT
  <2>6. QED
    BY <2>1, <2>4, <2>5 DEF Exhausted
<1>15. ASSUME upto # <<>> PROVE next # <<>> /\ Resumes(next, Range(listed) \cup Range(upto))
  <2> DEFINE e == Last(upto)
  <2>1. e \in Range(upto) /\ e \in Key /\ \A x \in Range(upto) : ~Less(e, x)
    BY <1>4, <1>11, <1>15, IncreasingLast
  <2>2. next = Past(e) /\ e \in Range(all)
    BY <2>1, <1>4, <1>11, <1>15
  <2> HIDE DEF e
  <2>3. Onward(e) /\ IsEntry(e) /\ HasPrefix(e, req.prefix)
    BY <2>1, <1>13 DEF Onward, IsEntry
  <2>4. Past(e) \in Key /\ Less(e, Past(e))
    BY <2>1, <2>3, <1>1, PastSplits
  <2>5. next # <<>>
    BY <2>1, <2>2, <2>4, EmptyFirst
  <2>6. ASSUME NEW x \in Range(listed) \cup Range(upto), NEW k \in Key,
               HasPrefix(k, req.prefix), ~Less(k, next)
        PROVE  Less(x, EntryOf(k))
    <3>1. Less(e, EntryOf(k)) /\ EntryOf(k) \in Key
      BY <2>2, <2>3, <2>6, <1>1, PastSplits, EntryFacts
    <3>2. x \in Key /\ ~Less(e, x)
      <4>1. CASE x \in Range(upto)
        BY <4>1, <2>1, <1>4, Elements
      <4>2. CASE x \in Range(listed)
        <5>1. x \in Key /\ Less(x, e)
          BY <4>2, <2>1, <1>1, <1>12, Elements
        <5>2. QED
          BY <5>1, <2>1, Asymmetric
      <4>3. QED
        BY <4>1, <4>2
    <3>3. QED
      BY <3>1, <3>2, <2>1, Follows, ZenonT(40)
  <2>7. ASSUME NEW k \in throughout, AskedFor(k), Less(k, next)
        PROVE  EntryOf(k) \in Range(listed) \cup Range(upto)
    <3>1. k \in store /\ k \in Key /\ HasPrefix(k, req.prefix)
      BY <2>7, <1>1, <1>2, AskedPrefix
    <3>2. EntryOf(k) \in Key /\ ~Less(k, EntryOf(k))
      BY <3>1, <1>1, EntryFacts
    <3>3. CASE EntryOf(k) = e
      BY <3>3, <2>1
    <3>4. CASE EntryOf(k) # e
      <4>1. ~Less(e, k)
        BY <3>1, <3>4, <2>2, <2>3, <2>7, <1>1, PastSplits
      <4>2. ~Less(e, EntryOf(k))
        BY <4>1, <3>1, <3>2, <2>1, Follows, ZenonT(40)
      <4>3. EntryOf(k) \in Range(all) => EntryOf(k) \in Range(upto)
        BY <4>2, <2>1, <1>11
      <4>4. CASE Less(k, from)
        BY <4>3, <4>4, <2>7, <1>5, <1>6
      <4>5. CASE ~Less(k, from)
        <5>1. e \notin Range(page)
          <6>1. ASSUME e \in Range(page) PROVE Less(e, EntryOf(k))
            BY <6>1, <4>5, <3>1, <1>5
          <6>2. QED
            BY <6>1, <4>2
        <5>2. PICK k2 \in Range(keys) : e = EntryOf(k2)
          BY <5>1, <2>2, <1>4, <1>6, ZenonT(40)
        <5>3. k2 \in Key /\ ~Less(k2, e)
          BY <5>2, <1>1, <1>3, EntryFacts
        <5>4. ~Less(k2, k)
          BY <5>3, <4>1, <3>1, <2>1, Follows
        <5>5. k \in Range(keys)
          BY <5>4, <4>5, <3>1, <1>3
        <5>6. QED
          BY <5>5, <4>3, <1>4, <1>6
      <4>6. QED
        BY <4>4, <4>5
    <3>5. QED
      BY <3>3, <3>4
  <2>8. QED
    BY <2>2, <2>3, <2>5, <2>6, <2>7, ZenonT(40) DEF Onward, Resumes, Covered
<1>16. ASSUME ~Full(all), Exhausted(keys), NEW k \in throughout, AskedFor(k)
       PROVE  EntryOf(k) \in Range(listed) \cup Range(upto)
  <2>1. k \in store /\ k \in Key /\ HasPrefix(k, req.prefix)
    BY <1>16, <1>1, <1>2, AskedPrefix
  <2>2. upto = all
    BY <1>16, <1>11
  <2>3. CASE Less(k, from)
    BY <2>2, <2>3, <1>5, <1>6, <1>16
  <2>4. CASE ~Less(k, from)
    BY <2>1, <2>2, <2>4, <1>3, <1>4, <1>6, <1>16 DEF Exhausted
  <2>5. QED
    BY <2>3, <2>4
<1>17. ASSUME Full(all), req.kind # "buckets"
       PROVE  \E k \in store : AskedFor(k) /\ EntryOf(k) \notin Range(listed) \cup Range(upto)
  <2>1. PICK e \in Range(new) : e \notin Range(upto)
    BY <1>11, <1>17
  <2>2. PICK k \in Range(keys) : e = EntryOf(k)
    BY <1>4
  <2>3. k \in store /\ k \in Key /\ HasPrefix(k, req.prefix) /\ ~Less(k, from) /\ k # <<>>
    BY <1>2, <1>3
  <2>4. e \in Key /\ e \notin Range(listed)
    BY <1>4, <1>7, Elements, NotBefore
  <2>5. Less(req.start, k)
    <3>1. CASE req.start = <<>>
      BY <3>1, <2>3, EmptyFirst
    <3>2. CASE Less(req.start, from)
      BY <3>2, <2>3, <1>1, Follows
    <3>3. QED
      BY <3>1, <3>2, <1>5
  <2>6. AskedFor(k)
    <3>1. req.kind \notin {"uploads", "buckets"}
      BY <1>17, SMT
    <3>2. QED
      BY <3>1, <2>3, <2>5 DEF AskedFor
  <2>7. QED
    BY <2>1, <2>2, <2>3, <2>4, <2>6
<1>18. QED
  BY <1>11, <1>12, <1>13, <1>14, <1>15, <1>16, <1>17, ZenonT(40)

\* What is asked for and on a page is reported with it.
LEMMA ReportedAsked ==
  ASSUME req \in Requests, NEW q \in Seq(Key), NEW k \in Key, AskedFor(k), EntryOf(k) \in Range(q)
  PROVE  EntryOf(k) \in Range(Reported(q))
<1>1. CASE req.kind # "buckets"
  BY <1>1, ReportedType
<1>2. CASE req.kind = "buckets"
  <2>1. GroupOf(k) # <<>> /\ EntryOf(k) = GroupOf(k)
    BY <1>2 DEF AskedFor, EntryOf
  <2>2. GroupOf(k) \in Key
    BY <2>1, GroupFacts
  <2>3. HasPrefix(GroupOf(k), GroupOf(k))
    BY SMT DEF HasPrefix
  <2>4. GroupOf(GroupOf(k)) = GroupOf(k)
    BY <2>1, <2>2, <2>3, GroupSame
  <2>5. QED
    BY <2>1, <2>4, <1>2, ReportedType
<1>3. QED
  BY <1>1, <1>2

\* A delimiter of one byte ends a key past the prefix exactly if the key is its own group.
LEMMA MarkerGroup ==
  ASSUME PlainDelimiters, req \in Requests, req.kind = "versions", NEW e, IsEntry(e)
  PROVE  GroupOf(e) # <<>> <=> req.delimiter # <<>> /\ e # req.prefix /\ HasSuffix(e, req.delimiter)
<1> DEFINE p == req.prefix
           d == req.delimiter
<1>1. e \in Key /\ HasPrefix(e, p) /\ EntryOf(e) = e /\ p \in Key /\ d \in Key
  BY Asked DEF IsEntry
<1>2. Len(e) \in Nat /\ Len(p) \in Nat /\ Len(d) \in Nat
  BY <1>1, Bytes, ZenonT(40)
<1>3. ASSUME GroupOf(e) # <<>> PROVE d # <<>> /\ e # p /\ HasSuffix(e, d)
  <2>1. GroupOf(e) = e
    BY <1>1, <1>3 DEF EntryOf
  <2>2. Len(d) > 0 /\ Len(e) >= Len(p) + Len(d) /\ HasSuffix(e, d) /\ d # <<>>
    BY <2>1, <1>1, <1>3, GroupFacts, GroupShape
  <2>3. \A x, y, z \in Nat : x >= y + z /\ z > 0 => x # y
    BY SMT
  <2>4. QED
    BY <2>2, <2>3, <1>2
<1>4. ASSUME d # <<>>, e # p, HasSuffix(e, d), GroupOf(e) = <<>> PROVE FALSE
  <2> DEFINE low == Len(p) + Len(d)
             ends == {i \in low..Len(e) : HasSuffix(SubSeq(e, 1, i), d)}
  <2>1. Len(d) = 1
    BY <1>4 DEF PlainDelimiters
  <2> HIDE DEF p, d
  <2>2. Len(p) <= Len(e) /\ \A i \in 1..Len(p) : e[i] = p[i]
    BY <1>1 DEF HasPrefix
  <2>3. Len(p) # Len(e)
    <3>1. ASSUME Len(p) = Len(e) PROVE p = e
      BY <3>1, <2>2, <1>1, SameSeq, ZenonT(40) DEF Key
    <3>2. QED
      BY <3>1, <1>4
  <2>4. Len(e) \in low..Len(e)
    BY <2>1, <2>2, <2>3, <1>2, SMT
  <2>5. SubSeq(e, 1, Len(e)) = e
    <3>1. e \in Seq(0..255) /\ Len(e) <= Len(e)
      BY <1>1, SMT DEF Key
    <3>2. /\ SubSeq(e, 1, Len(e)) \in Seq(0..255) /\ Len(SubSeq(e, 1, Len(e))) = Len(e)
          /\ \A i \in 1..Len(e) : SubSeq(e, 1, Len(e))[i] = e[i]
      BY <3>1, <1>2, Beginning, ZenonT(40)
    <3>3. QED
      BY <3>1, <3>2, SameSeq
  <2>6. Len(e) \in ends
    BY <2>4, <2>5, <1>4
  <2>7. GroupOf(e) = SubSeq(e, 1, Min(ends))
    BY <2>6, <1>4 DEF GroupOf, p, d
  <2>8. Min(ends) \in ends
    <3>1. low \in Nat
      BY SMT
    <3>2. ends \in SUBSET (low..Len(e))
      OBVIOUS
    <3> HIDE DEF ends, low
    <3>3. ends \in SUBSET Int /\ IsFiniteSet(ends)
      BY <3>1, <3>2, <1>2, PlacesFinite
    <3>4. QED
      BY <3>3, <2>6, MaxMinType
  <2>9. Min(ends) \in low..Len(e)
    BY <2>8
  <2> HIDE DEF ends
  <2>10. Min(ends) \in Nat /\ Min(ends) <= Len(e) /\ Min(ends) > 0
    BY <2>9, <2>1, SMT
  <2>11. Len(SubSeq(e, 1, Min(ends))) = Min(ends)
    BY <2>10, <1>1, Beginning, ZenonT(40) DEF Key
  <2>12. ~(0 > 0)
    BY SMT
  <2>13. QED
    BY <2>7, <2>10, <2>11, <2>12, <1>4, Nothing
<1>5. QED
  BY <1>3, <1>4

\* A listing resumes behind its page, whether it goes by a token or by its last key or group.
LEMMA ResumesBehind ==
  ASSUME PlainDelimiters, req \in Requests, NEW q \in Seq(Key), q # <<>>, Increasing(q),
         \A e \in Range(q) : IsEntry(e)
  PROVE  Resume(q, Past(Last(q))) = Past(Last(q))
<1> DEFINE e == Last(q)
           m == LastReported(q)
<1>1. e \in Range(q) /\ e \in Key /\ \A x \in Range(q) : ~Less(e, x)
  BY IncreasingLast
<1>2. m \in Range(q) /\ \A f \in Range(q) : ~Less(m, f)
  BY LastType
<1>3. m = e
  <2>1. m \in Key
    BY <1>2, Elements
  <2>2. QED
    BY <2>1, <1>1, <1>2, Total
<1>4. Resume(q, Past(e)) =
        IF req.kind # "versions" THEN Past(e)
        ELSE IF req.delimiter # <<>> /\ m # req.prefix /\ HasSuffix(m, req.delimiter)
             THEN PastPrefix(m) ELSE After(m)
  BY DEF Resume
<1> HIDE DEF e, m
<1>5. CASE req.kind # "versions"
  BY <1>4, <1>5 DEF e
<1>6. CASE req.kind = "versions"
  <2>1. GroupOf(e) # <<>> <=> req.delimiter # <<>> /\ e # req.prefix /\ HasSuffix(e, req.delimiter)
    BY <1>1, <1>6, MarkerGroup
  <2>2. Resume(q, Past(e)) = IF GroupOf(e) # <<>> THEN PastPrefix(e) ELSE After(e)
    BY <2>1, <1>3, <1>4, <1>6
  <2>3. Resume(q, Past(e)) = Past(e)
    BY <2>2 DEF Past
  <2>4. QED
    BY <2>3 DEF e
<1>7. QED
  BY <1>5, <1>6

\* A page that is answered.
LEMMA Answered ==
  ASSUME listed \in Seq(Key), NEW q \in Seq(Key), NEW to, NEW pos, Answer(q, to, pos)
  PROVE  /\ phase' = to /\ begin' = pos /\ from' = pos /\ page' = <<>>
         /\ req.kind \notin {"uploads", "walk"} => listed' = listed \o q
         /\ Range(listed') = Range(listed) \cup Range(q)
         /\ req' = req /\ store' = store /\ throughout' = throughout
<1>1. /\ phase' = to /\ begin' = pos /\ from' = pos /\ page' = <<>> /\ listed' = With(q)
      /\ req' = req /\ store' = store /\ throughout' = throughout
  BY DEF Answer
<1>2. /\ Range(With(q)) = Range(listed) \cup Range(q)
      /\ req.kind \notin {"uploads", "walk"} => With(q) = listed \o q
  BY WithFacts
<1>3. QED
  BY <1>1, <1>2

\* A read for a page of objects, versions or buckets keeps the invariant.
LEMMA FetchStep ==
  ASSUME PlainDelimiters, TypeOK, Begun, ListingInv, Fetch
  PROVE  /\ Going(phase', begin', from', page', listed')
         /\ phase' = "more" /\ req.kind \in {"objects", "versions", "parts"} => Untold(listed')
         /\ req' = req /\ store' = store /\ throughout' = throughout
<1>1. PICK keys, new, all, upto, next : Reads(keys, new, all, upto, next) /\ Goes(keys, all, upto, next)
  BY FetchReads
<1>2. /\ phase = "fetch" /\ req.kind \in {"objects", "versions", "buckets"} /\ req \in Requests
      /\ listed \in Seq(Key) /\ upto \in Seq(Key) /\ throughout \in SUBSET store
      /\ store \in SUBSET Names[req.kind]
      /\ next = IF upto = <<>> THEN from ELSE Past(Last(upto))
  BY <1>1 DEF Fetch, TypeOK, Reads
<1> DEFINE r == Reported(upto)
           told == Range(listed) \cup Range(upto)
<1>3. /\ Increasing(upto)
      /\ \A x \in Range(listed), y \in Range(upto) : Less(x, y)
      /\ \A e \in Range(upto) : Onward(e)
      /\ upto = <<>> => ~Full(all) /\ Exhausted(keys)
      /\ upto # <<>> => next # <<>> /\ Resumes(next, told)
      /\ ~Full(all) /\ Exhausted(keys) => \A k \in throughout : AskedFor(k) => EntryOf(k) \in told
      /\ Full(all) /\ req.kind # "buckets" => \E k \in store : AskedFor(k) /\ EntryOf(k) \notin told
  BY <1>1, <1>2, FetchPage
<1>4. r \in Seq(Key) /\ Range(r) \in SUBSET Range(upto) /\ Increasing(r)
  BY <1>2, <1>3, ReportedType
<1>5. \A k \in throughout : AskedFor(k) /\ EntryOf(k) \in told => EntryOf(k) \in Range(listed) \cup Range(r)
  <2>1. \A k \in throughout : k \in Key
    BY <1>2, Given
  <2>2. QED
    BY <2>1, <1>2, ReportedAsked
<1>6. Increasing(listed)
  BY <1>2 DEF ListingInv, Going, PagingAt
<1> HIDE DEF r, told
<1>7. listed \o r \in Seq(Key) /\ Increasing(listed \o r)
  BY <1>2, <1>3, <1>4, <1>6, IncreasingJoined
<1>8. req.kind \notin {"uploads", "walk"} /\ req.kind # "walk" /\ req.kind # "parts" /\ req.kind # "uploads"
  BY <1>2
<1>9. Range(<<>>) = {} /\ Increasing(<<>>) /\ \A S : S \cup {} = S
  BY Nothing
<1>10. CASE Full(all) /\ upto # <<>> /\ next # <<>> /\ Answer(r, "more", Resume(upto, next))
  <2>1. Resume(upto, next) = next
    <3>1. next = Past(Last(upto))
      BY <1>2, <1>10
    <3>2. \A e \in Range(upto) : IsEntry(e)
      BY <1>3 DEF Onward
    <3>3. Resume(upto, Past(Last(upto))) = Past(Last(upto))
      BY <3>2, <1>2, <1>3, <1>10, ResumesBehind
    <3>4. QED
      BY <3>1, <3>3
  <2>2. /\ phase' = "more" /\ begin' = next /\ from' = next /\ page' = <<>> /\ listed' = listed \o r
        /\ Range(listed') = Range(listed) \cup Range(r)
        /\ req' = req /\ store' = store /\ throughout' = throughout
    BY <2>1, <1>2, <1>4, <1>8, <1>10, Answered
  <2>3. Resumes(next, told)
    BY <1>3, <1>10
  <2>4. Resumes(next, Range(listed'))
    <3>1. \A x \in Range(listed') : x \in told
      BY <2>2, <1>4 DEF told
    <3>2. QED
      BY <2>2, <2>3, <3>1, <1>5 DEF Resumes, Covered
  <2>5. PagingAt(phase', begin', from', page', listed')
    <3>1. /\ Increasing(listed') /\ Range(page') = {} /\ Increasing(page')
          /\ Range(listed') \cup Range(page') = Range(listed')
      BY <2>2, <1>7, <1>9
    <3>2. QED
      BY <2>2, <2>4, <3>1 DEF PagingAt
  <2>6. EndsAt(phase', listed')
    BY <2>2 DEF EndsAt
  <2>7. Going(phase', begin', from', page', listed')
    BY <2>5, <2>6, <1>8 DEF Going
  <2>8. req.kind \in {"objects", "versions", "parts"} => Untold(listed')
    <3>1. HAVE req.kind \in {"objects", "versions", "parts"}
    <3>2. PICK k \in store : AskedFor(k) /\ EntryOf(k) \notin told
      BY <3>1, <1>3, <1>10, ZenonT(40)
    <3>3. EntryOf(k) \notin Range(listed')
      BY <3>2, <2>2, <1>4 DEF told
    <3>4. QED
      BY <3>2, <3>3 DEF Untold
  <2>9. QED
    BY <2>2, <2>7, <2>8
<1>11. CASE ((~Full(all) /\ Exhausted(keys)) \/ next = <<>>) /\ Answer(r, "done", <<>>)
  <2>1. ~Full(all) /\ Exhausted(keys)
    BY <1>3, <1>11
  <2>2. /\ phase' = "done" /\ begin' = <<>> /\ from' = <<>> /\ page' = <<>> /\ listed' = listed \o r
        /\ Range(listed') = Range(listed) \cup Range(r)
        /\ req' = req /\ store' = store /\ throughout' = throughout
    BY <1>2, <1>4, <1>8, <1>11, Answered
  <2>3. EndsAt(phase', listed')
    BY <2>1, <2>2, <1>3, <1>5 DEF EndsAt
  <2>4. PagingAt(phase', begin', from', page', listed')
    BY <2>2, <1>7, <1>9 DEF PagingAt
  <2>5. QED
    BY <2>2, <2>3, <2>4, <1>8 DEF Going
<1>12. CASE /\ ~Full(all) /\ ~Exhausted(keys) /\ next # <<>> /\ page' = upto /\ from' = next
            /\ UNCHANGED <<req, store, phase, begin, listed, throughout, unchanged, changes, failures>>
  <2>1. /\ phase' = phase /\ begin' = begin /\ listed' = listed /\ page' = upto /\ from' = next
        /\ req' = req /\ store' = store /\ throughout' = throughout
    BY <1>12
  <2>2. Resumes(next, told)
    BY <1>3, <1>12
  <2>3. Resumes(from', Range(listed') \cup Range(page'))
    BY <2>1, <2>2 DEF told
  <2>4. Resumes(begin', Range(listed'))
    BY <2>1, <1>2 DEF ListingInv, Going, PagingAt
  <2>5. PagingAt(phase', begin', from', page', listed')
    BY <2>1, <2>3, <2>4, <1>2, <1>3, <1>6 DEF PagingAt
  <2>6. EndsAt(phase', listed') /\ phase' # "more"
    BY <2>1, <1>2 DEF EndsAt
  <2>7. QED
    BY <2>1, <2>5, <2>6, <1>8 DEF Going
<1>13. QED
  BY <1>1, <1>10, <1>11, <1>12 DEF Goes, r

-----------------------------------------------------------------------------
(***************************************************************************)
(* Parts, uploads and the walk.                                            *)
(***************************************************************************)

\* Without a delimiter every key is an entry.
LEMMA EntryPlain == ASSUME req.delimiter = <<>>, NEW k PROVE EntryOf(k) = k
BY DEF EntryOf, GroupOf

\* A key has the prefix of nothing.
LEMMA NoPrefix == ASSUME NEW k \in Key PROVE HasPrefix(k, <<>>)
BY SMTT(20) DEF HasPrefix

\* A read for a page of parts keeps the invariant.
LEMMA PartsStep ==
  ASSUME TypeOK, Begun, ListingInv, FetchParts
  PROVE  /\ Going(phase', begin', from', page', listed')
         /\ phase' = "more" => Untold(listed')
         /\ req' = req /\ store' = store /\ throughout' = throughout
<1>1. /\ phase = "fetch" /\ req.kind = "parts" /\ req \in Requests /\ listed \in Seq(Key) /\ from \in Key
      /\ throughout \in SUBSET store /\ store \in SUBSET Names[req.kind] /\ req.start \in Key
  BY Asked DEF FetchParts, TypeOK
<1>2. /\ store \in SUBSET Key /\ Names[req.kind] \in SUBSET Key /\ req.prefix = <<>> /\ req.delimiter = <<>>
      /\ \A k \in throughout : k \in store /\ k \in Key
  BY <1>1, Given
<1>3. /\ Increasing(listed)
      /\ \A x \in Range(listed) : ~Less(from, x)
      /\ \A k \in Names[req.kind] : Less(from, k) => Less(req.start, k)
      /\ \A k \in throughout : AskedFor(k) /\ ~Less(from, k) => EntryOf(k) \in Range(listed)
  BY <1>1 DEF ListingInv, Going, PartsAt
<1>4. PICK found \in Seq(Key) :
           /\ Range(found) \in SUBSET Beyond /\ Increasing(found)
           /\ \A k \in Beyond : \A x \in Range(found) : ~Less(x, k) => k \in Range(found)
           /\ \/ /\ found # <<>> /\ (\E k \in Beyond : k \notin Range(found))
                 /\ Answer(found, "more", Last(found))
              \/ Range(found) = Beyond /\ Answer(found, "done", <<>>)
  BY <1>1, PartsFacts
<1>5. \A k : k \in Beyond <=> k \in store /\ Less(from, k)
  BY DEF Beyond
<1>6. (\A x \in Range(listed) : x \in Key) /\ \A x \in Range(found) : x \in Key
  BY <1>1, Elements, SMT
<1>7. \A x \in Range(listed), y \in Range(found) : Less(x, y)
  BY <1>1, <1>3, <1>4, <1>5, <1>6, Follows
<1>8. Increasing(listed \o found)
  BY <1>1, <1>3, <1>4, <1>7, IncreasingJoined, ZenonT(40)
<1>9. \A k : EntryOf(k) = k
  BY <1>2, EntryPlain
<1>10. /\ req.kind \notin {"uploads", "walk"} /\ req.kind # "walk" /\ req.kind # "uploads"
       /\ req.kind \notin {"objects", "versions", "buckets"} /\ req.kind \notin {"uploads", "buckets"}
       /\ req.kind # "buckets"
  BY <1>1, SMT
<1>11. listed \in Seq(Key) /\ found \in Seq(Key) /\ req.kind \notin {"uploads", "walk"}
  BY <1>1
<1>12. CASE found # <<>> /\ (\E k \in Beyond : k \notin Range(found)) /\ Answer(found, "more", Last(found))
  <2> DEFINE e == Last(found)
  <2>1. e \in Range(found) /\ e \in Key /\ \A x \in Range(found) : ~Less(e, x)
    BY <1>4, <1>12, IncreasingLast
  <2>2. /\ phase' = "more" /\ begin' = e /\ from' = e /\ page' = <<>> /\ listed' = listed \o found
        /\ Range(listed') = Range(listed) \cup Range(found)
        /\ req' = req /\ store' = store /\ throughout' = throughout
    <3>1. Answer(found, "more", e)
      BY <1>12
    <3> HIDE DEF e
    <3>2. req.kind \notin {"uploads", "walk"} => listed' = listed \o found
      BY <3>1, <1>11, Answered
    <3>3. phase' = "more" /\ begin' = e /\ from' = e /\ page' = <<>>
      BY <3>1 DEF Answer
    <3>4. /\ Range(listed') = Range(listed) \cup Range(found)
          /\ req' = req /\ store' = store /\ throughout' = throughout
      BY <3>1, <1>11, Answered
    <3>5. QED
      BY <3>2, <3>3, <3>4, <1>11, ZenonT(40)
  <2> HIDE DEF e
  <2>3. Less(from, e)
    BY <2>1, <1>4, <1>5
  <2>4. \A x \in Range(listed') : ~Less(e, x)
    <3>1. \A x \in Range(listed) : ~Less(e, x)
      BY <2>1, <1>6, <1>7, Asymmetric
    <3>2. QED
      BY <3>1, <2>1, <2>2
  <2>5. \A k \in Names[req.kind] : Less(e, k) => Less(req.start, k)
    BY <2>1, <2>3, <1>1, <1>2, <1>3, Transitive, ZenonT(40)
  <2>6. ASSUME NEW k \in throughout, AskedFor(k), ~Less(e, k) PROVE EntryOf(k) \in Range(listed')
    <3>1. CASE Less(from, k)
      <4>1. k \in Range(found)
        BY <3>1, <2>1, <2>6, <1>2, <1>4, <1>5
      <4>2. QED
        BY <4>1, <2>2, <1>9
    <3>2. CASE ~Less(from, k)
      BY <3>2, <2>2, <2>6, <1>3
    <3>3. QED
      BY <3>1, <3>2
  <2>7. PartsAt(phase', begin', from', page', listed')
    BY <2>2, <2>4, <2>5, <2>6, <1>8, ZenonT(40) DEF PartsAt
  <2>8. EndsAt(phase', listed')
    BY <2>2 DEF EndsAt
  <2>9. Untold(listed')
    <3>1. PICK k \in Beyond : k \notin Range(found)
      BY <1>12
    <3>2. k \in store /\ k \in Key /\ Less(from, k) /\ Less(req.start, k)
      BY <1>1, <1>2, <1>3, <1>5
    <3>3. k \notin Range(listed)
      BY <3>2, <1>3
    <3>4. HasPrefix(k, req.prefix)
      BY <3>2, <1>2, NoPrefix, ZenonT(40)
    <3>5. AskedFor(k)
      BY <3>2, <3>4, <1>10 DEF AskedFor
    <3>6. QED
      BY <3>1, <3>2, <3>3, <3>5, <2>2, <1>9 DEF Untold
  <2>10. QED
    BY <2>2, <2>7, <2>8, <2>9, <1>10 DEF Going
<1>13. CASE Range(found) = Beyond /\ Answer(found, "done", <<>>)
  <2>1. /\ phase' = "done" /\ begin' = <<>> /\ from' = <<>> /\ page' = <<>> /\ listed' = listed \o found
        /\ Range(listed') = Range(listed) \cup Range(found)
        /\ req' = req /\ store' = store /\ throughout' = throughout
    <3>1. Answer(found, "done", <<>>)
      BY <1>13
    <3>2. req.kind \notin {"uploads", "walk"} => listed' = listed \o found
      BY <3>1, <1>11, Answered
    <3>3. phase' = "done" /\ begin' = <<>> /\ from' = <<>> /\ page' = <<>>
      BY <3>1 DEF Answer
    <3>4. /\ Range(listed') = Range(listed) \cup Range(found)
          /\ req' = req /\ store' = store /\ throughout' = throughout
      BY <3>1, <1>11, Answered
    <3>5. QED
      BY <3>2, <3>3, <3>4, <1>11
  <2>2. PartsAt(phase', begin', from', page', listed')
    BY <2>1, <1>8 DEF PartsAt
  <2>3. ASSUME NEW k \in throughout, AskedFor(k) PROVE EntryOf(k) \in Range(listed')
    BY <2>1, <2>3, <1>2, <1>3, <1>5, <1>9, <1>13
  <2>4. EndsAt(phase', listed')
    BY <2>3 DEF EndsAt
  <2>5. QED
    BY <2>1, <2>2, <2>4, <1>10 DEF Going
<1>14. QED
  BY <1>4, <1>12, <1>13

\* A read for a page of uploads keeps the invariant.
LEMMA UploadsStep ==
  ASSUME TypeOK, Begun, ListingInv, FetchUploads
  PROVE  /\ Going(phase', begin', from', page', listed')
         /\ req' = req /\ store' = store /\ throughout' = throughout
<1>1. /\ phase = "fetch" /\ req.kind = "uploads" /\ req \in Requests /\ listed \in Seq(Key) /\ from \in Key
      /\ throughout \in SUBSET store /\ store \in SUBSET Names[req.kind]
  BY DEF FetchUploads, TypeOK
<1>2. store \in SUBSET Key /\ req.delimiter = <<>> /\ \A k \in throughout : k \in store /\ k \in Key
  BY <1>1, Given
<1>3. \A k \in throughout : AskedFor(k) /\ Less(k, from) => EntryOf(k) \in Range(listed)
  BY <1>1 DEF ListingInv, Going, UploadsAt, Covered
<1>4. PICK keys \in Seq(Key) : \E found \in Seq(Key) :
           /\ \A k \in store : ~Less(k, from) /\ Len(keys) < ScanBudget => k \in Range(keys)
           /\ \A k \in Range(keys) : k \in store /\ ~Less(k, from)
           /\ \A k \in store : \A x \in Range(keys) : ~Less(k, from) /\ ~Less(x, k) => k \in Range(keys)
           /\ Uploads.found = found /\ Range(found) \in SUBSET Records(keys) /\ Increasing(found)
           /\ \A k \in Records(keys) : \A x \in Range(found) : ~Less(x, k) => k \in Range(found)
           /\ ~Uploads.more => Range(found) = Records(keys) /\ Len(keys) < ScanBudget
  BY <1>1, UploadsFacts
<1>5. PICK found \in Seq(Key) :
           /\ \A k \in store : ~Less(k, from) /\ Len(keys) < ScanBudget => k \in Range(keys)
           /\ \A k \in Range(keys) : k \in store /\ ~Less(k, from)
           /\ \A k \in store : \A x \in Range(keys) : ~Less(k, from) /\ ~Less(x, k) => k \in Range(keys)
           /\ Uploads.found = found /\ Range(found) \in SUBSET Records(keys) /\ Increasing(found)
           /\ \A k \in Records(keys) : \A x \in Range(found) : ~Less(x, k) => k \in Range(found)
           /\ ~Uploads.more => Range(found) = Records(keys) /\ Len(keys) < ScanBudget
  BY <1>4
<1>6. \/ ~Uploads.more /\ Answer(found, "done", <<>>)
      \/ Answer(<<>>, "stuck", <<>>)
      \/ found # <<>> /\ Answer(found, "more", After(<<Last(found)[1]>>))
  BY <1>5, SMT DEF FetchUploads
<1>7. \A k : EntryOf(k) = k
  BY <1>2, EntryPlain
<1>8. \A k \in Range(keys) : AskedFor(k) => k \in Records(keys)
  BY <1>1 DEF AskedFor, Records
<1>9. /\ req.kind # "walk" /\ req.kind # "parts" /\ req.kind \notin {"objects", "versions", "buckets"}
  BY <1>1, SMT
<1>10. CASE ~Uploads.more /\ Answer(found, "done", <<>>)
  <2>1. /\ phase' = "done" /\ page' = <<>> /\ Range(listed') = Range(listed) \cup Range(found)
        /\ req' = req /\ store' = store /\ throughout' = throughout
    BY <1>1, <1>5, <1>10, Answered, ZenonT(40)
  <2>2. ASSUME NEW k \in throughout, AskedFor(k) PROVE EntryOf(k) \in Range(listed')
    <3>1. CASE Less(k, from)
      BY <3>1, <2>1, <2>2, <1>3
    <3>2. CASE ~Less(k, from)
      <4>1. k \in Range(keys)
        BY <3>2, <1>2, <1>5, <1>10
      <4>2. k \in Range(found)
        BY <4>1, <2>2, <1>5, <1>8, <1>10
      <4>3. QED
        BY <4>2, <2>1, <1>7
    <3>3. QED
      BY <3>1, <3>2
  <2>3. EndsAt(phase', listed') /\ UploadsAt(phase', begin', from', page', listed')
    BY <2>1, <2>2 DEF EndsAt, UploadsAt
  <2>4. QED
    BY <2>1, <2>3, <1>9 DEF Going
<1>11. CASE Answer(<<>>, "stuck", <<>>)
  <2>1. /\ phase' = "stuck" /\ page' = <<>>
        /\ req' = req /\ store' = store /\ throughout' = throughout
    BY <1>1, <1>11, Nothing, Answered
  <2>2. EndsAt(phase', listed') /\ UploadsAt(phase', begin', from', page', listed')
    BY <2>1 DEF EndsAt, UploadsAt
  <2>3. QED
    BY <2>1, <2>2, <1>9 DEF Going
<1>12. CASE found # <<>> /\ Answer(found, "more", After(<<Last(found)[1]>>))
  <2> DEFINE e == Last(found)
             u == <<e[1]>>
  <2>1. e \in Range(found) /\ e \in Key
    BY <1>5, <1>12, IncreasingLast
  <2>2. e \in Range(keys) /\ Len(e) = 2
    BY <2>1, <1>5 DEF Records
  <2>3. u \in Key /\ HasPrefix(e, u)
    BY <2>1, <2>2, UploadKey, ZenonT(40)
  <2>4. /\ phase' = "more" /\ begin' = After(u) /\ from' = After(u) /\ page' = <<>>
        /\ Range(listed') = Range(listed) \cup Range(found)
        /\ req' = req /\ store' = store /\ throughout' = throughout
    BY <1>1, <1>5, <1>12, Answered
  <2> HIDE DEF e, u
  <2>5. ~Less(e, u)
    BY <2>1, <2>3, PrefixFirst
  <2>6. ASSUME NEW k \in throughout, AskedFor(k), Less(k, After(u)) PROVE EntryOf(k) \in Range(listed')
    <3>1. k \in store /\ k \in Key /\ ~Less(u, k)
      BY <2>3, <2>6, <1>2, BeforeAfter
    <3>2. ~Less(e, k)
      BY <3>1, <2>1, <2>3, <2>5, Follows, ZenonT(40)
    <3>3. CASE Less(k, from)
      BY <3>3, <2>4, <2>6, <1>3
    <3>4. CASE ~Less(k, from)
      <4>1. k \in Range(keys)
        BY <3>1, <3>2, <3>4, <2>2, <1>5
      <4>2. k \in Range(found)
        BY <4>1, <3>2, <2>1, <2>6, <1>5, <1>8, ZenonT(40)
      <4>3. QED
        BY <4>2, <2>4, <1>7
    <3>5. QED
      BY <3>3, <3>4
  <2>7. EndsAt(phase', listed') /\ UploadsAt(phase', begin', from', page', listed')
    BY <2>4, <2>6 DEF EndsAt, UploadsAt, Covered
  <2>8. QED
    BY <2>4, <2>7, <1>9 DEF Going
<1>13. QED
  BY <1>6, <1>10, <1>11, <1>12

\* A step of a walk keeps the invariant.
LEMMA WalkStep ==
  ASSUME TypeOK, Begun, ListingInv, req.kind = "walk", WalkPage \/ Visit \/ SaveCursor \/ RestartWalk
  PROVE  /\ Going(phase', begin', from', page', listed')
         /\ req' = req /\ store' = store /\ throughout' = throughout
<1>1. /\ req \in Requests /\ listed \in Seq(Key) /\ page \in Seq(Key) /\ from \in Key
      /\ throughout \in SUBSET store /\ store \in SUBSET Names[req.kind] /\ req.limit \in Nat
  BY Asked DEF TypeOK
<1>2. req.delimiter = <<>> /\ \A k \in throughout : k \in store /\ k \in Key
  BY <1>1, Given
<1>3. WalkingAt(phase, begin, from, page, listed)
  BY DEF ListingInv, Going
<1>4. \A k : EntryOf(k) = k
  BY <1>2, EntryPlain
<1>5. req.kind # "parts" /\ req.kind # "uploads" /\ req.kind \notin {"objects", "versions", "buckets"}
  BY SMT
<1>6. Range(<<>>) = {} /\ Increasing(<<>>)
  BY Nothing
<1>7. CASE WalkPage
  <2>1. PICK objects \in {ScanEntries(req.limit)} :
           IF objects = <<>> THEN Answer(<<>>, "done", <<>>)
           ELSE /\ phase' = "visit"
                /\ page' = objects
                /\ UNCHANGED <<req, store, begin, from, listed, throughout, unchanged, changes, failures>>
    BY <1>7 DEF WalkPage
  <2>2. /\ objects \in Seq(Key) /\ Increasing(objects)
        /\ \A k \in store : HasPrefix(k, req.prefix) /\ ~Less(k, from) /\ Len(objects) < req.limit
                            => k \in Range(objects)
        /\ \A k \in store : \A x \in Range(objects) :
             HasPrefix(k, req.prefix) /\ ~Less(k, from) /\ ~Less(x, k) => k \in Range(objects)
    BY <1>1, ScanFacts, ZenonT(40)
  <2>3. Covered(begin, Range(listed)) /\ Covered(from, Range(listed)) /\ phase = "fetch"
    BY <1>3, <1>7 DEF WalkingAt, WalkPage
  <2>4. \A k \in throughout : AskedFor(k) => HasPrefix(k, req.prefix)
    BY <1>1, <1>2, AskedPrefix
  <2>5. CASE objects = <<>>
    <3>1. /\ phase' = "done" /\ page' = <<>> /\ Range(listed') = Range(listed) \cup {}
          /\ req' = req /\ store' = store /\ throughout' = throughout
      BY <2>1, <2>5, <1>1, Nothing, Answered
    <3>2. 0 < req.limit
      BY <2>3, SMT DEF Begun
    <3>3. ASSUME NEW k \in throughout, AskedFor(k) PROVE EntryOf(k) \in Range(listed')
      <4>1. Less(k, from)
        BY <3>2, <3>3, <2>2, <2>4, <2>5, <1>2, Nothing, ZenonT(40)
      <4>2. QED
        BY <4>1, <3>1, <3>3, <2>3 DEF Covered
    <3>4. WalkingAt(phase', begin', from', page', listed') /\ EndsAt(phase', listed')
      BY <3>1, <3>3, <1>6 DEF WalkingAt, EndsAt
    <3>5. QED
      BY <3>1, <3>4 DEF Going
  <2>6. CASE objects # <<>>
    <3>1. /\ phase' = "visit" /\ page' = objects /\ begin' = begin /\ from' = from /\ listed' = listed
          /\ req' = req /\ store' = store /\ throughout' = throughout
      BY <2>1, <2>6
    <3>2. ASSUME NEW x \in Range(objects), NEW k \in throughout, AskedFor(k), ~Less(x, k)
          PROVE  EntryOf(k) \in Range(listed) \cup Range(objects)
      <4>1. CASE Less(k, from)
        BY <4>1, <3>2, <2>3 DEF Covered
      <4>2. CASE ~Less(k, from)
        BY <4>2, <3>2, <2>2, <2>4, <1>2, <1>4, ZenonT(40)
      <4>3. QED
        BY <4>1, <4>2
    <3>3. WalkingAt(phase', begin', from', page', listed') /\ EndsAt(phase', listed')
      BY <3>1, <3>2, <2>2, <2>3 DEF WalkingAt, EndsAt
    <3>4. QED
      BY <3>1, <3>3 DEF Going
  <2>7. QED
    BY <2>5, <2>6
<1>8. CASE Visit
  <2> DEFINE h == Head(page)
             t == Tail(page)
  <2>1. /\ h \in Key /\ t \in Seq(Key) /\ <<h>> \in Seq(Key) /\ Range(<<h>>) = {h}
        /\ Range(page) = {h} \cup Range(t)
        /\ Increasing(page) => Increasing(t) /\ \A x \in Range(t) : Less(h, x)
    BY <1>1, <1>8, HeadTail DEF Visit
  <2>2. /\ phase = "visit" /\ phase' = phase /\ begin' = begin /\ from' = After(h) /\ page' = t
        /\ listed' = With(<<h>>) /\ req' = req /\ store' = store /\ throughout' = throughout
    BY <1>8 DEF Visit
  <2> HIDE DEF h, t
  <2>3. Range(listed') = Range(listed) \cup {h}
    BY <2>1, <2>2, <1>1, WithFacts
  <2>4. /\ Increasing(page) /\ Covered(begin, Range(listed))
        /\ \A x \in Range(page) : \A k \in throughout :
             AskedFor(k) /\ ~Less(x, k) => EntryOf(k) \in Range(listed) \cup Range(page)
    BY <2>2, <1>3 DEF WalkingAt
  <2>5. \A x \in Range(t) : Less(h, x) /\ x \in Key
    BY <2>1, <2>4, Elements
  <2>6. ASSUME NEW k \in throughout, AskedFor(k), Less(k, After(h)) PROVE EntryOf(k) \in Range(listed')
    <3>1. k \in Key /\ ~Less(h, k)
      BY <2>1, <2>6, <1>2, BeforeAfter
    <3>2. EntryOf(k) \in Range(listed) \cup Range(page)
      BY <3>1, <2>1, <2>4, <2>6
    <3>3. EntryOf(k) \notin Range(t)
      BY <3>1, <2>5, <1>4
    <3>4. QED
      BY <3>2, <3>3, <2>1, <2>3
  <2>7. Covered(from', Range(listed')) /\ Covered(begin', Range(listed'))
    BY <2>2, <2>3, <2>4, <2>6 DEF Covered
  <2>8. \A x \in Range(t) : \A k \in throughout :
           AskedFor(k) /\ ~Less(x, k) => EntryOf(k) \in Range(listed') \cup Range(t)
    BY <2>1, <2>3, <2>4
  <2>9. WalkingAt(phase', begin', from', page', listed') /\ EndsAt(phase', listed')
    BY <2>1, <2>2, <2>4, <2>7, <2>8 DEF WalkingAt, EndsAt
  <2>10. QED
    BY <2>2, <2>9 DEF Going
<1>9. CASE SaveCursor
  <2>1. /\ phase = "visit" /\ page = <<>> /\ phase' = "fetch" /\ begin' = from /\ from' = from
        /\ page' = page /\ listed' = listed /\ req' = req /\ store' = store /\ throughout' = throughout
    BY <1>9 DEF SaveCursor
  <2>2. WalkingAt(phase', begin', from', page', listed') /\ EndsAt(phase', listed')
    BY <2>1, <1>3 DEF WalkingAt, EndsAt
  <2>3. QED
    BY <2>1, <2>2 DEF Going
<1>10. CASE RestartWalk
  <2>1. /\ phase \in {"fetch", "visit"} /\ phase' = "fetch" /\ begin' = begin /\ from' = begin
        /\ page' = <<>> /\ listed' = listed /\ req' = req /\ store' = store /\ throughout' = throughout
    BY <1>10 DEF RestartWalk
  <2>2. WalkingAt(phase', begin', from', page', listed') /\ EndsAt(phase', listed')
    BY <2>1, <1>3, <1>6 DEF WalkingAt, EndsAt
  <2>3. QED
    BY <2>1, <2>2, <1>5 DEF Going
<1>11. QED
  BY <1>7, <1>8, <1>9, <1>10

-----------------------------------------------------------------------------
(***************************************************************************)
(* The listings and the walk together.                                     *)
(***************************************************************************)

\* What others put and delete changes no listing, and only the listings change what it
\* has told.
LEMMA OthersStep ==
  ASSUME TypeOK, ListingInv, NEW k, Put(k) \/ Delete(k)
  PROVE  ListingInv' /\ MoreMeansMore'
<1>1. /\ phase' = phase /\ begin' = begin /\ from' = from /\ page' = page /\ listed' = listed
      /\ req' = req /\ throughout' \in SUBSET throughout /\ unchanged' = FALSE
  BY DEF Put, Delete
<1>2. Going(phase', begin', from', page', listed')
  BY <1>1 DEF ListingInv
<1>3. ListingInv'
  BY <1>1, <1>2, GoingNext
<1>4. QED
  BY <1>1, <1>3 DEF MoreMeansMore

\* A request that fails is sent again from where it began, and a page that was answered
\* is followed by the request for the next one.
LEMMA RequestStep ==
  ASSUME TypeOK, ListingInv, FailFetch \/ NextPage
  PROVE  ListingInv' /\ MoreMeansMore'
<1>1. Range(<<>>) = {} /\ Increasing(<<>>) /\ \A S : S \cup {} = S
  BY Nothing
<1>2. /\ req \in Requests /\ throughout \in SUBSET Key
      /\ req.kind \in {"objects", "versions", "buckets", "uploads", "parts", "walk"}
      /\ req.start # <<>> => req.kind \in {"objects", "parts", "walk"}
  <2>1. req \in Requests /\ store \in SUBSET Names[req.kind] /\ throughout \in SUBSET store
    BY DEF TypeOK
  <2>2. QED
    BY <2>1, Given
<1>3. ASSUME FailFetch PROVE Going(phase', begin', from', page', listed')
  <2>1. /\ phase = "fetch" /\ phase' = "fetch" /\ req.kind # "walk" /\ from' = begin' /\ page' = <<>>
        /\ req.kind # "buckets" => begin' = begin /\ listed' = listed
        /\ req.kind = "buckets" => begin' = <<>> /\ listed' = <<>>
    BY <1>3 DEF FailFetch
  <2>2. EndsAt(phase', listed')
    BY <2>1 DEF EndsAt
  <2>3. CASE req.kind = "buckets"
    <3>1. begin' = <<>> /\ listed' = <<>> /\ from' = <<>> /\ page' = <<>>
      BY <2>1, <2>3
    <3>2. Resumes(<<>>, {})
      <4>1. req.start = <<>>
        BY <1>2, <2>3, SMT
      <4>2. \A k \in throughout : ~Less(k, <<>>)
        BY <1>2, EmptyFirst
      <4>3. QED
        BY <4>1, <4>2 DEF Resumes, Covered
    <3>3. PagingAt("fetch", <<>>, <<>>, <<>>, <<>>)
      BY <3>2, <1>1 DEF PagingAt
    <3>4. PagingAt(phase', begin', from', page', listed')
      BY <3>1, <3>3, <2>1
    <3>5. QED
      BY <3>4, <2>2, <2>3 DEF Going
  <2>4. CASE req.kind \in {"objects", "versions"}
    <3>1. begin' = begin /\ listed' = listed /\ from' = begin
      BY <2>1, <2>4
    <3>2. PagingAt(phase, begin, from, page, listed)
      BY <2>4 DEF ListingInv, Going
    <3>3. PagingAt("fetch", begin, begin, <<>>, listed)
      BY <3>2, <2>1, <1>1 DEF PagingAt
    <3>4. PagingAt(phase', begin', from', page', listed')
      BY <3>1, <3>3, <2>1
    <3>5. QED
      BY <3>4, <2>2, <2>4 DEF Going
  <2>5. CASE req.kind = "parts"
    <3>1. begin' = begin /\ listed' = listed /\ from' = begin
      BY <2>1, <2>5
    <3>2. PartsAt(phase, begin, from, page, listed)
      BY <2>5 DEF ListingInv, Going
    <3>3. PartsAt(phase', begin', from', page', listed')
      BY <3>1, <3>2, <2>1 DEF PartsAt
    <3>4. QED
      BY <3>3, <2>2, <2>5 DEF Going
  <2>6. CASE req.kind = "uploads"
    <3>1. begin' = begin /\ listed' = listed /\ from' = begin
      BY <2>1, <2>6
    <3>2. UploadsAt(phase, begin, from, page, listed)
      BY <2>6 DEF ListingInv, Going
    <3>3. UploadsAt(phase', begin', from', page', listed')
      BY <3>1, <3>2, <2>1 DEF UploadsAt
    <3>4. QED
      BY <3>3, <2>2, <2>6 DEF Going
  <2>7. QED
    BY <2>1, <2>3, <2>4, <2>5, <2>6, <1>2
<1>4. ASSUME NextPage PROVE Going(phase', begin', from', page', listed')
  <2>1. /\ phase = "more" /\ phase' = "fetch"
        /\ begin' = begin /\ from' = from /\ page' = page /\ listed' = listed
    BY <1>4 DEF NextPage
  <2>2. Going("more", begin, from, page, listed)
    BY <2>1 DEF ListingInv
  <2>3. PagingAt("more", begin, from, page, listed) => PagingAt("fetch", begin, from, page, listed)
    BY DEF PagingAt
  <2>4. ~WalkingAt("more", begin, from, page, listed)
    BY DEF WalkingAt
  <2>5. PartsAt("more", begin, from, page, listed) => PartsAt("fetch", begin, from, page, listed)
    BY DEF PartsAt
  <2>6. UploadsAt("more", begin, from, page, listed) => UploadsAt("fetch", begin, from, page, listed)
    BY DEF UploadsAt
  <2>7. EndsAt("fetch", listed)
    BY DEF EndsAt
  <2>8. Going("fetch", begin, from, page, listed)
    BY <2>2, <2>3, <2>4, <2>5, <2>6, <2>7 DEF Going
  <2>9. QED
    BY <2>1, <2>8
<1>5. req' = req /\ throughout' = throughout /\ phase' = "fetch"
  BY DEF FailFetch, NextPage
<1>6. ListingInv'
  <2>1. QED
    BY <1>3, <1>4, <1>5, GoingNext
<1>7. QED
  BY <1>5, <1>6 DEF MoreMeansMore

\* Every step keeps the invariant, and a page says there is more only while there is.
LEMMA NextStep ==
  ASSUME PlainDelimiters, TypeOK, Begun, ListingInv, MoreMeansMore, [Next]_vars
  PROVE  ListingInv' /\ MoreMeansMore'
<1>1. ASSUME req' = req, store' = store, throughout' = throughout,
             Going(phase', begin', from', page', listed'),
             phase' = "more" /\ req.kind \in {"objects", "versions", "parts"} => Untold(listed')
      PROVE  ListingInv' /\ MoreMeansMore'
  <2>1. ListingInv'
    BY <1>1, GoingNext
  <2>2. MoreMeansMore'
    BY <1>1, MoreNext
  <2>3. QED
    BY <2>1, <2>2
<1>2. CASE Fetch
  BY <1>1, <1>2, FetchStep
<1>3. CASE FetchUploads
  <2>1. req.kind \notin {"objects", "versions", "parts"}
    BY <1>3, SMT DEF FetchUploads
  <2>2. QED
    BY <2>1, <1>1, <1>3, UploadsStep
<1>4. CASE FetchParts
  BY <1>1, <1>4, PartsStep
<1>5. CASE WalkPage \/ Visit \/ SaveCursor \/ RestartWalk
  <2>1. req.kind \in {"objects", "versions", "buckets", "uploads", "parts", "walk"}
    BY ListingAssumption DEF TypeOK
  <2>2. ASSUME phase = "visit" PROVE req.kind = "walk"
    BY <2>1, <2>2 DEF ListingInv, Going, PagingAt, PartsAt, UploadsAt
  <2>3. req.kind = "walk"
    BY <2>2, <1>5 DEF WalkPage, Visit, SaveCursor, RestartWalk
  <2>4. req.kind \notin {"objects", "versions", "parts"}
    BY <2>3, SMTT(20)
  <2>5. QED
    BY <2>3, <2>4, <1>1, <1>5, WalkStep
<1>6. CASE UNCHANGED vars
  <2>1. /\ req' = req /\ store' = store /\ phase' = phase /\ begin' = begin /\ from' = from /\ page' = page
        /\ listed' = listed /\ throughout' = throughout /\ unchanged' = unchanged
    BY <1>6 DEF vars
  <2>2. Going(phase', begin', from', page', listed') /\ throughout' \in SUBSET throughout
    BY <2>1 DEF ListingInv
  <2>3. ListingInv'
    BY <2>1, <2>2, GoingNext
  <2>4. \A k : (AskedFor(k)' <=> AskedFor(k)) /\ EntryOf(k)' = EntryOf(k)
    BY <2>1, SameRequest
  <2>5. MoreMeansMore'
    BY <2>1, <2>4 DEF MoreMeansMore
  <2>6. QED
    BY <2>3, <2>5
<1>7. QED
  BY <1>2, <1>3, <1>4, <1>5, <1>6, OthersStep, RequestStep DEF Next

\* A number past another is past the position after it.
LEMMA PastNumber ==
  ASSUME NEW a \in Key, NEW k \in Key, Len(k) = 1, a # <<>>, Less(a, k)
  PROVE  Less(After(a), k)
<1>1. Len(a) \in Nat /\ Len(a) # 0
  <2>1. QED
    BY SMT
<1>2. a[1] < k[1]
  BY SMT DEF Less
<1>3. Len(After(a)) = Len(a) + 1 /\ After(a)[1] = a[1]
  <2>1. 1 \in 1..Len(a)
    BY SMT
  <2>2. QED
    BY <2>1, AfterType
<1>4. QED
  BY <1>1, <1>2, <1>3, SMT DEF Less

\* A listing begins with the invariant.
LEMMA InitInv == ASSUME Init PROVE ListingInv /\ MoreMeansMore
<1>1. /\ req \in Requests /\ store \in SUBSET Names[req.kind] /\ throughout = store
      /\ begin = (IF req.start = <<>> THEN <<>> ELSE After(req.start)) /\ from = begin
      /\ phase = (IF req.limit = 0 THEN "done" ELSE "fetch") /\ page = <<>> /\ listed = <<>>
      /\ req.start \in Key
  BY Asked DEF Init
<1>2. /\ req.kind \in {"objects", "versions", "buckets", "uploads", "parts", "walk"}
      /\ req.start # <<>> => req.kind \in {"objects", "parts", "walk"}
      /\ store \in SUBSET Key /\ Names[req.kind] \in SUBSET Key /\ <<>> \notin Names[req.kind]
      /\ req.kind = "parts" => \A k \in Names[req.kind] : Len(k) = 1
      /\ req.delimiter \in Key
  BY <1>1, Given, Asked
<1>3. Range(<<>>) = {} /\ Increasing(<<>>) /\ \A S : S \cup {} = S
  BY Nothing
<1>4. CASE req.start = <<>>
  <2>1. begin = <<>>
    BY <1>1, <1>4
  <2>2. \A k \in throughout : ~Less(k, begin)
    BY <2>1, <1>1, <1>2, EmptyFirst
  <2>3. Resumes(begin, {}) /\ Covered(begin, {})
    BY <2>2, <1>4 DEF Resumes, Covered
  <2>4. \A k \in Names[req.kind] : Less(begin, k) => Less(req.start, k)
    BY <2>1, <1>4
  <2>5. \A k \in throughout : Less(begin, k)
    BY <2>1, <1>1, <1>2, EmptyFirst
  <2>6. PagingAt(phase, begin, from, page, listed)
    BY <2>3, <1>1, <1>3 DEF PagingAt
  <2>7. WalkingAt(phase, begin, from, page, listed)
    BY <2>3, <1>1, <1>3 DEF WalkingAt
  <2>8. PartsAt(phase, begin, from, page, listed)
    BY <2>4, <2>5, <1>1, <1>3 DEF PartsAt
  <2>9. UploadsAt(phase, begin, from, page, listed)
    BY <2>3, <1>1, <1>3 DEF UploadsAt
  <2>10. QED
    <3>1. EndsAt(phase, listed)
      <4>1. ~(0 > 0)
        BY SMT
      <4>2. QED
        BY <4>1, <1>1 DEF EndsAt
    <3>2. MoreMeansMore
      BY <1>1 DEF MoreMeansMore
    <3>3. QED
      BY <3>1, <3>2, <2>6, <2>7, <2>8, <2>9 DEF ListingInv, Going
<1>5. CASE req.start # <<>>
  <2>1. begin = After(req.start) /\ begin \in Key /\ Less(req.start, begin)
    <3>1. begin = After(req.start)
      BY <1>1, <1>5
    <3>2. ~Less(req.start, req.start)
      BY <1>1, NotBefore
    <3>3. req.start \in Key
      BY <1>1
    <3>4. After(req.start) \in Key /\ Less(req.start, After(req.start))
      BY <3>2, <3>3, AfterType, BeforeAfter
    <3>5. QED
      BY <3>1, <3>4
  <2>2. req.kind \in {"objects", "parts", "walk"} /\ req.kind \notin {"uploads", "buckets"}
    <3>1. req.kind \in {"objects", "parts", "walk"}
      BY <1>2, <1>5
    <3>2. QED
      BY <3>1, SMT
  <2>3. \A k \in throughout : AskedFor(k) => Less(req.start, k) /\ ~Less(k, begin) /\ k \in Key
    <3>1. SUFFICES ASSUME NEW k \in throughout, AskedFor(k)
                   PROVE  Less(req.start, k) /\ ~Less(k, begin) /\ k \in Key
      OBVIOUS
    <3>2. k \in Key /\ req.start \in Key
      BY <1>1, <1>2
    <3>3. Less(req.start, k)
      BY <3>1, <2>2 DEF AskedFor
    <3>4. ~Less(k, After(req.start))
      BY <3>2, <3>3, BeforeAfter
    <3>5. QED
      BY <3>2, <3>3, <3>4, <2>1
  <2>4. Resumes(begin, {}) /\ Covered(begin, {})
    BY <2>1, <2>3 DEF Resumes, Covered
  <2>5. \A k \in Names[req.kind] : Less(begin, k) => Less(req.start, k)
    BY <2>1, <1>1, <1>2, Transitive
  <2>6. req.kind = "objects" => PagingAt(phase, begin, from, page, listed)
    BY <2>4, <1>1, <1>3 DEF PagingAt
  <2>7. WalkingAt(phase, begin, from, page, listed)
    BY <2>4, <1>1, <1>3 DEF WalkingAt
  <2>8. ASSUME req.kind = "parts" PROVE PartsAt(phase, begin, from, page, listed)
    <3>1. \A k \in throughout : AskedFor(k) => Less(begin, k)
      BY <2>1, <2>3, <2>8, <1>1, <1>2, <1>5, PastNumber
    <3>2. QED
      BY <3>1, <2>5, <1>1, <1>3 DEF PartsAt
  <2>9. EndsAt(phase, listed) /\ MoreMeansMore
    <3>1. ~(0 > 0)
      BY SMT
    <3>2. QED
      BY <3>1, <1>1 DEF EndsAt, MoreMeansMore
  <2>10. req.kind # "uploads" /\ (req.kind \in {"objects", "versions", "buckets"} => req.kind = "objects")
    BY <2>2, SMT
  <2>11. QED
    BY <2>6, <2>7, <2>8, <2>9, <2>10 DEF ListingInv, Going
<1>6. QED
  BY <1>4, <1>5

\* What holds of every listing, whatever is put and deleted around it.
LEMMA ListingInvariant ==
  ASSUME PlainDelimiters
  PROVE  Spec => [](TypeOK /\ Begun /\ ListingInv /\ MoreMeansMore)
<1>1. Init => TypeOK /\ Begun /\ ListingInv /\ MoreMeansMore
  BY InitTypes, InitInv
<1>2. TypeOK /\ Begun /\ ListingInv /\ MoreMeansMore /\ [Next]_vars
        => (TypeOK /\ Begun /\ ListingInv /\ MoreMeansMore)'
  BY NextTypes, NextStep
<1>3. QED
  BY <1>1, <1>2, PTL DEF Spec

\* A listing that has been paged to its end has reported every name that was there all
\* the while, alone or in its group, and a walk has visited every object that was there
\* past its cursor: for any names, limits, prefixes and read sizes, wherever the pages
\* and the reads of List and walk break and whatever fails and is tried again.
THEOREM ListingComplete == ASSUME PlainDelimiters PROVE Spec => []NothingMissed
<1>1. ListingInv => NothingMissed
  BY DEF ListingInv, Going, EndsAt, NothingMissed
<1>2. QED
  BY <1>1, ListingInvariant, PTL

\* No key, group, bucket or part is reported twice and they come in order over all the
\* pages: the position List resumes from, a token, a marker or the last part, is behind
\* all that was reported and not inside a group.
THEOREM ListingInOrder == ASSUME PlainDelimiters PROVE Spec => []ReportedOnce
<1>1. TypeOK /\ ListingInv => ReportedOnce
  <2>1. SUFFICES ASSUME TypeOK, ListingInv, req.kind \notin {"uploads", "walk"}
                 PROVE  \A i \in 1..(Len(listed \o page) - 1) :
                          Less((listed \o page)[i], (listed \o page)[i + 1])
    BY DEF ReportedOnce
  <2>2. /\ listed \in Seq(Key) /\ page \in Seq(Key)
        /\ req.kind \in {"objects", "versions", "buckets", "uploads", "parts", "walk"}
    BY <2>1, ListingAssumption DEF TypeOK
  <2>3. Range(<<>>) = {} /\ Increasing(<<>>)
    BY Nothing
  <2>4. Increasing(listed) /\ Increasing(page) /\ \A x \in Range(listed), y \in Range(page) : Less(x, y)
    <3>1. CASE req.kind = "parts"
      BY <3>1, <2>1, <2>3 DEF ListingInv, Going, PartsAt
    <3>2. CASE req.kind \in {"objects", "versions", "buckets"}
      BY <3>2, <2>1 DEF ListingInv, Going, PagingAt
    <3>3. QED
      BY <3>1, <3>2, <2>1, <2>2
  <2> DEFINE all == listed \o page
  <2>5. all \in Seq(Key) /\ Increasing(all)
    BY <2>2, <2>4, IncreasingJoined
  <2> HIDE DEF all
  <2>6. \A i \in 1..(Len(all) - 1) : i \in 1..Len(all) /\ i + 1 \in 1..Len(all) /\ i < i + 1
    BY SMT
  <2>7. \A i \in 1..(Len(all) - 1) : Less(all[i], all[i + 1])
    BY <2>5, <2>6 DEF Increasing
  <2>8. QED
    BY <2>7 DEF all
<1>2. QED
  BY <1>1, ListingInvariant, PTL

\* "A full page is not a truncated one": while nothing else changes, a page of objects,
\* versions or parts that says there is more leaves something to report.
THEOREM MoreIsThere == ASSUME PlainDelimiters PROVE Spec => []MoreMeansMore
BY ListingInvariant, PTL
=============================================================================
