---------------------------- MODULE ReadProofs -----------------------------
(***************************************************************************)
(* Proofs about Read for objects, parts and ranges of every size, every    *)
(* code and number of owners, and every number of faults.  Leaves without  *)
(* arithmetic name Zenon, which is the faster on them.                     *)
(***************************************************************************)
EXTENDS Read, FiniteSetTheorems, TLAPS

-----------------------------------------------------------------------------
(***************************************************************************)
(* The window.                                                             *)
(***************************************************************************)

\* The greater and the lesser of two.
LEMMA MaxMin ==
  ASSUME NEW a \in Int, NEW b \in Int
  PROVE  /\ Max({a, b}) = IF a >= b THEN a ELSE b
         /\ Min({a, b}) = IF a <= b THEN a ELSE b
<1> DEFINE hi == IF a >= b THEN a ELSE b
           lo == IF a <= b THEN a ELSE b
<1>1. hi \in {a, b} /\ (\A y \in {a, b} : hi >= y)
      /\ (\A x \in {a, b} : (\A y \in {a, b} : x >= y) => x = hi)
  OBVIOUS
<1>2. lo \in {a, b} /\ (\A y \in {a, b} : lo =< y)
      /\ (\A x \in {a, b} : (\A y \in {a, b} : x =< y) => x = lo)
  OBVIOUS
<1> HIDE DEF hi, lo
<1>3. Max({a, b}) = hi /\ Min({a, b}) = lo
  BY <1>1, <1>2, Zenon DEF Max, Min
<1>4. QED
  BY <1>3, Zenon DEF hi, lo

\* The least of one.
LEMMA MinOne == ASSUME NEW a \in Int PROVE Min({a}) = a
BY DEF Min

\* Below p, of the whole numbers from a on, there are p - a.
LEMMA Below ==
  ASSUME NEW a \in Nat, NEW n \in Nat, NEW p \in a..(a + n - 1)
  PROVE  Cardinality({q \in a..(a + n - 1) : q < p}) = p - a
<1>1. {q \in a..(a + n - 1) : q < p} = a..(p - 1)
  OBVIOUS
<1>2. Cardinality(a..(p - 1)) = IF a > p - 1 THEN 0 ELSE p - 1 - a + 1
  BY FS_Interval
<1>3. p \in Int /\ a <= p /\ p - 1 - a + 1 = p - a /\ (a > p - 1 => p - a = 0)
  OBVIOUS
<1>4. QED
  BY <1>1, <1>2, <1>3, Zenon

\* A window of n whole numbers, where they begin at a.
LEMMA Shift ==
  ASSUME NEW a \in Nat, NEW n \in Nat, NEW o \in Nat, NEW l \in Nat, o + l <= n
  PROVE  (a + o)..(a + o + l - 1) = {p \in a..(a + n - 1) : o <= p - a /\ p - a < o + l}
OBVIOUS

\* An element of a sequence is one of its set.
LEMMA ElementType == ASSUME NEW S, NEW q \in Seq(S), NEW k \in DOMAIN q PROVE q[k] \in S
OBVIOUS

\* The bytes of the part the request names.
Base == IF read.part = 0 THEN 0..(obj.size - 1) ELSE PartBytes(obj, read.part)

\* partWindow has them.
LEMMA PartWindowRight ==
  ASSUME read \in Reads, PartWindow.ok
  PROVE  /\ PartWindow.off \in Nat /\ PartWindow.length \in Nat
         /\ PartWindow.off + PartWindow.length <= obj.size
         /\ Base = PartWindow.off..(PartWindow.off + PartWindow.length - 1)
         /\ PartWindow.off = 0 \/ \E k \in DOMAIN obj.parts : PartWindow.off = PartStart(obj, k)
<1> DEFINE this == {k \in DOMAIN obj.parts : obj.parts[k].number = read.part}
<1>1. obj.size \in Nat /\ Manifest(obj)
  BY ReadAssumption DEF obj, Manifest
<1>2. CASE read.part = 0 \/ (obj.parts = <<>> /\ read.part = 1)
  <2>1. PartWindow = [ok |-> TRUE, off |-> 0, length |-> obj.size]
    BY <1>2, Zenon DEF PartWindow, Window
  <2>2. Base = 0..(obj.size - 1)
    <3>1. obj.parts = <<>> => \A p \in 1..obj.size : obj.partOf[p] = 1
      BY <1>1, Zenon DEF Manifest
    <3>2. \A p \in 0..(obj.size - 1) : p + 1 \in 1..obj.size
      BY <1>1, SMTT(20)
    <3>3. QED
      BY <1>2, <3>1, <3>2, Zenon DEF Base, PartBytes
  <2>3. QED
    BY <1>1, <2>1, <2>2
<1>3. CASE ~(read.part = 0 \/ (obj.parts = <<>> /\ read.part = 1))
  <2>1. this # {}
    BY <1>3, Zenon DEF PartWindow, Failed
  <2>2. PICK k \in DOMAIN obj.parts : obj.parts[k].number = read.part
    BY <2>1, Zenon
  <2>3. this = {k}
    BY <1>1, <2>2, Zenon DEF Manifest
  <2>4. k \in Int
    BY <1>1, <2>2 DEF Manifest
  <2>5. Min(this) = k
    BY <2>3, <2>4, MinOne, Zenon
  <2>6. PartWindow = [ok |-> TRUE, off |-> PartStart(obj, k), length |-> obj.parts[k].size]
    BY <1>3, <2>1, <2>5, Zenon DEF PartWindow, Window
  <2>7. /\ PartStart(obj, k) \in 0..obj.size
        /\ PartStart(obj, k) + obj.parts[k].size <= obj.size
        /\ PartBytes(obj, obj.parts[k].number)
             = PartStart(obj, k)..(PartStart(obj, k) + obj.parts[k].size - 1)
    BY <1>1, <2>2, Zenon DEF Manifest
  <2>8. obj.parts[k].size \in Nat
    <3>1. obj.parts \in Seq([number : Nat \ {0}, size : Nat])
      BY <1>1, Zenon DEF Manifest
    <3>2. obj.parts[k] \in [number : Nat \ {0}, size : Nat]
      BY <2>2, <3>1, ElementType, Zenon
    <3>3. QED
      BY <3>2, Zenon
  <2>9. Base = PartBytes(obj, read.part)
    BY <1>3, Zenon DEF Base
  <2>10. Base = PartStart(obj, k)..(PartStart(obj, k) + obj.parts[k].size - 1)
    BY <2>2, <2>7, <2>9, Zenon
  <2>11. QED
    BY <1>1, <2>2, <2>6, <2>7, <2>8, <2>10
<1>4. QED
  BY <1>2, <1>3, Zenon

-----------------------------------------------------------------------------
\* Place x of the n bytes of the part is in the range.
In(range, n, x) == /\ range.form = "suffix"  => x >= n - range.last
                   /\ range.form = "from"    => x >= range.first
                   /\ range.form = "between" => x \in range.first..range.last

\* What the request names is counted from the part's first byte.
LEMMA WantedIn ==
  ASSUME NEW a \in Nat, NEW n \in Nat, Base = a..(a + n - 1)
  PROVE  Wanted = {p \in a..(a + n - 1) : In(read.range, n, p - a)}
<1>1. Cardinality(Base) = n
  <2>1. Cardinality(a..(a + n - 1)) = IF a > a + n - 1 THEN 0 ELSE a + n - 1 - a + 1
    BY FS_Interval
  <2>2. QED
    BY <2>1
<1>2. \A p \in Base : Cardinality({q \in Base : q < p}) = p - a
  BY Below, Zenon
<1>3. Wanted = {p \in Base : In(read.range, n, p - a)}
  BY <1>1, <1>2, Zenon DEF Wanted, Base, In
<1>4. QED
  BY <1>3, Zenon

Ranges == [form : {"none", "suffix", "from", "between"}, first : 0..MaxInt, last : 0..MaxInt]

\* parseRange: a range of n bytes that is not refused is the places in it, unless it
\* ends at the largest integer.
LEMMA RangeRight ==
  ASSUME NEW range \in Ranges, NEW n \in 0..MaxInt, ParseRange(range, n).ok
  PROVE  LET w == ParseRange(range, n)
         IN  /\ w.off \in 0..n /\ w.length \in Int
             /\ w.length = 0 => w.off = 0
             /\ \/ w.length < 0 /\ range.last = MaxInt
                \/ /\ w.length >= 0 /\ w.off + w.length <= n
                   /\ \A x \in 0..(n - 1) : w.off <= x /\ x < w.off + w.length <=> In(range, n, x)
<1> DEFINE w == ParseRange(range, n)
<1>1. MaxInt \in Nat /\ n \in Nat /\ n <= MaxInt
  BY ReadAssumption
<1>2. range.first \in Nat /\ range.last \in Nat /\ range.last <= MaxInt
  BY <1>1 DEF Ranges
<1>3. CASE range.form = "suffix"
  <2>1. range.last > 0
    BY <1>2, <1>3 DEF ParseRange, Failed
  <2>2. w = [ok |-> TRUE, off |-> Max({n - range.last, 0}), length |-> Min({range.last, n})]
    BY <1>2, <1>3, <2>1 DEF ParseRange, Window
  <2>3. /\ Max({n - range.last, 0}) = IF n - range.last >= 0 THEN n - range.last ELSE 0
        /\ Min({range.last, n}) = IF range.last <= n THEN range.last ELSE n
    <3>1. n - range.last \in Int /\ 0 \in Int /\ range.last \in Int /\ n \in Int
      BY <1>1, <1>2
    <3>2. QED
      BY <3>1, MaxMin, Zenon
  <2>4. /\ w.off = IF n - range.last >= 0 THEN n - range.last ELSE 0
        /\ w.length = IF range.last <= n THEN range.last ELSE n
    BY <2>2, <2>3
  <2>5. \A x : In(range, n, x) <=> x >= n - range.last
    BY <1>3, Zenon DEF In
  <2> HIDE DEF w
  <2>6. /\ w.off \in 0..n /\ w.length \in Int /\ w.length >= 0 /\ w.off + w.length <= n
        /\ w.length = 0 => w.off = 0
    BY <1>1, <1>2, <2>1, <2>4
  <2>7. \A x \in 0..(n - 1) : w.off <= x /\ x < w.off + w.length <=> In(range, n, x)
    BY <1>1, <1>2, <2>4, <2>5
  <2>8. QED
    BY <2>6, <2>7, Zenon DEF w
<1>4. CASE range.form = "from"
  <2>1. range.first < n
    BY <1>1, <1>2, <1>4 DEF ParseRange, Failed
  <2>2. w.off = range.first /\ w.length = n - range.first
    BY <1>1, <1>2, <1>4, <2>1 DEF ParseRange, Window
  <2>3. \A x : In(range, n, x) <=> x >= range.first
    BY <1>4, Zenon DEF In
  <2> HIDE DEF w
  <2>4. QED
    BY <1>1, <1>2, <2>1, <2>2, <2>3 DEF w
<1>5. CASE range.form = "between"
  <2>1. range.first <= range.last /\ range.first < n
    BY <1>1, <1>2, <1>5 DEF ParseRange, Failed
  <2>2. w.off = range.first /\ w.length = Min({Wrap(range.last + 1), n}) - range.first
    BY <1>1, <1>2, <1>5, <2>1 DEF ParseRange, Window
  <2>3. Wrap(range.last + 1) \in Int /\ n \in Int
    BY <1>1, <1>2 DEF Wrap
  <2>4. Min({Wrap(range.last + 1), n}) = IF Wrap(range.last + 1) <= n THEN Wrap(range.last + 1) ELSE n
    BY <2>3, MaxMin, Zenon
  <2>5. \A x : In(range, n, x) <=> x \in range.first..range.last
    BY <1>5, Zenon DEF In
  <2> HIDE DEF w
  <2>6. CASE range.last = MaxInt
    <3>1. Wrap(range.last + 1) = -(MaxInt + 1)
      BY <1>1, <2>6 DEF Wrap
    <3>2. w.off \in 0..n /\ w.length \in Int /\ w.length < 0 /\ w.length # 0
      BY <1>1, <1>2, <2>1, <2>2, <2>4, <3>1
    <3>3. QED
      BY <2>6, <3>2, Zenon DEF w
  <2>7. CASE range.last # MaxInt
    <3>1. Wrap(range.last + 1) = range.last + 1
      BY <1>1, <1>2, <2>7 DEF Wrap
    <3>2. w.length = (IF range.last + 1 <= n THEN range.last + 1 ELSE n) - range.first
      BY <2>2, <2>4, <3>1, Zenon
    <3>3. /\ w.off \in 0..n /\ w.length \in Int /\ w.length >= 0 /\ w.off + w.length <= n
          /\ w.length # 0
      BY <1>1, <1>2, <2>1, <2>2, <3>2
    <3>4. \A x \in 0..(n - 1) : w.off <= x /\ x < w.off + w.length <=> In(range, n, x)
      BY <1>1, <1>2, <2>1, <2>2, <2>5, <3>2
    <3>5. QED
      BY <3>3, <3>4, Zenon DEF w
  <2>8. QED
    BY <2>6, <2>7, Zenon
<1>6. CASE range.form = "none"
  <2>1. w.off = 0 /\ w.length = n
    BY <1>6, Zenon DEF ParseRange, Window
  <2>2. \A x : In(range, n, x)
    BY <1>6, Zenon DEF In
  <2> HIDE DEF w
  <2>3. QED
    BY <1>1, <2>1, <2>2 DEF w
<1>7. QED
  BY <1>3, <1>4, <1>5, <1>6, Zenon DEF Ranges

\* parseRange refuses a range that no place is in, and a suffix of nothing.
LEMMA RangeRefused ==
  ASSUME NEW range \in Ranges, NEW n \in 0..MaxInt
  PROVE  /\ ParseRange(range, n).ok \in BOOLEAN
         /\ ~ParseRange(range, n).ok
              <=> \/ range.form = "suffix" /\ range.last = 0
                  \/ range.form \in {"from", "between"} /\ \A x \in 0..(n - 1) : ~In(range, n, x)
<1>1. n \in Nat /\ range.first \in Nat /\ range.last \in Nat
  BY ReadAssumption DEF Ranges
<1>2. CASE range.form = "suffix"
  BY <1>1, <1>2 DEF ParseRange, Failed, Window
<1>3. CASE range.form = "none"
  BY <1>3, Zenon DEF ParseRange, Window
<1>4. CASE range.form = "from"
  <2>1. \A x : In(range, n, x) <=> x >= range.first
    BY <1>4, Zenon DEF In
  <2>2. (\A x \in 0..(n - 1) : ~(x >= range.first)) <=> range.first >= n
    <3>1. range.first < n => range.first \in 0..(n - 1)
      BY <1>1
    <3>2. QED
      BY <1>1, <3>1
  <2>3. ParseRange(range, n).ok = ~(range.first >= n)
    BY <1>4, Zenon DEF ParseRange, Failed, Window
  <2>4. QED
    BY <1>4, <2>1, <2>2, <2>3, Zenon
<1>5. CASE range.form = "between"
  <2>1. \A x : In(range, n, x) <=> x \in range.first..range.last
    BY <1>5, Zenon DEF In
  <2>2. (\A x \in 0..(n - 1) : ~(x \in range.first..range.last))
          <=> range.last < range.first \/ range.first >= n
    <3>1. range.first < n /\ range.first <= range.last
            => range.first \in 0..(n - 1) /\ range.first \in range.first..range.last
      BY <1>1
    <3>2. QED
      BY <1>1, <3>1
  <2>3. ParseRange(range, n).ok = ~(range.last < range.first \/ range.first >= n)
    BY <1>5, Zenon DEF ParseRange, Failed, Window
  <2>4. QED
    BY <1>5, <2>1, <2>2, <2>3, Zenon
<1>6. QED
  BY <1>2, <1>3, <1>4, <1>5, Zenon DEF Ranges

\* A copy names no part.
LEMMA CopyBase ==
  ASSUME read \in Reads, read.use = "copy"
  PROVE  /\ obj.size \in Nat /\ obj.size \in 0..MaxInt
         /\ read.range \in Ranges
         /\ Wanted = {p \in 0..(obj.size - 1) : In(read.range, obj.size, p)}
<1>1. obj.size \in 0..MaxInt /\ obj.size \in Nat /\ read.range \in Ranges /\ read.part = 0
  BY ReadAssumption, RequestAssumption DEF obj, Manifest, Ranges
<1>2. 0 \in Nat /\ Base = 0..(0 + obj.size - 1)
  BY <1>1 DEF Base
<1>3. Wanted = {p \in 0..(0 + obj.size - 1) : In(read.range, obj.size, p - 0)}
  BY <1>1, <1>2, WantedIn, Zenon
<1>4. \A p \in 0..(obj.size - 1) : p - 0 = p
  BY <1>1
<1>5. QED
  BY <1>1, <1>3, <1>4

\* The window of a request that is not refused is what the request names, unless it
\* ends at the largest integer, and an empty one lies at the beginning of a part.
LEMMA AskedRight ==
  ASSUME read \in Reads, Asked.ok
  PROVE  /\ Asked.off \in 0..obj.size /\ Asked.length \in Int
         /\ Asked.length = 0
              => Asked.off = 0 \/ \E k \in DOMAIN obj.parts : Asked.off = PartStart(obj, k)
         /\ \/ Asked.length < 0 /\ read.range.last = MaxInt
            \/ /\ Asked.length >= 0 /\ Asked.off + Asked.length <= obj.size
               /\ Asked.off..(Asked.off + Asked.length - 1) = Wanted
<1>1. /\ obj.size \in 0..MaxInt /\ obj.size \in Nat /\ MaxInt \in Nat
      /\ read.range \in Ranges /\ read.use \in {"get", "copy"}
  BY ReadAssumption, RequestAssumption DEF obj, Manifest, Ranges
<1>2. CASE read.use = "copy"
  <2> DEFINE range == read.range
  <2>1. Asked = ParseCopyRange(range, obj.size)
    BY <1>2, Zenon DEF Asked, CopyWindow
  <2>2. range.first \in Nat /\ range.last \in Nat
    BY <1>1 DEF Ranges
  <2>3. CASE range.form = "none"
    <3>1. Asked.off = 0 /\ Asked.length = obj.size
      BY <2>1, <2>3, Zenon DEF ParseCopyRange, Window
    <3>2. Wanted = 0..(obj.size - 1)
      BY <1>2, <2>3, CopyBase, Zenon DEF In
    <3>3. QED
      BY <1>1, <3>1, <3>2
  <2>4. CASE range.form = "between"
    <3>1. range.first <= range.last /\ range.last < obj.size
      BY <1>1, <2>1, <2>2, <2>4 DEF ParseCopyRange, Failed
    <3>2. Asked.off = range.first /\ Asked.length = range.last - range.first + 1
      BY <1>1, <2>1, <2>2, <2>4, <3>1 DEF ParseCopyRange, Window
    <3>3. Wanted = {p \in 0..(obj.size - 1) : p \in range.first..range.last}
      BY <1>2, <2>4, CopyBase, Zenon DEF In
    <3>4. Wanted = range.first..range.last
      BY <1>1, <2>2, <3>1, <3>3
    <3> HIDE DEF range
    <3>5. range.first + (range.last - range.first + 1) - 1 = range.last
      BY <2>2
    <3>6. QED
      BY <1>1, <2>2, <3>1, <3>2, <3>4, <3>5
  <2>5. QED
    BY <1>1, <2>1, <2>3, <2>4, Zenon DEF Ranges, ParseCopyRange, Failed
<1>3. CASE read.use = "get"
  <2> DEFINE base == PartWindow
             w == ParseRange(read.range, base.length)
  <2>1. base.ok /\ w.ok /\ Asked = [ok |-> TRUE, off |-> base.off + w.off, length |-> w.length]
    BY <1>3, Zenon DEF Asked, GetWindow, Failed, Window
  <2>2. /\ base.off \in Nat /\ base.length \in Nat /\ base.off + base.length <= obj.size
        /\ Base = base.off..(base.off + base.length - 1)
        /\ base.off = 0 \/ \E k \in DOMAIN obj.parts : base.off = PartStart(obj, k)
    BY <2>1, PartWindowRight, Zenon
  <2> HIDE DEF base
  <2>3. base.length \in 0..MaxInt
    BY <1>1, <2>2
  <2>4. /\ w.off \in 0..base.length /\ w.length \in Int
        /\ w.length = 0 => w.off = 0
        /\ \/ w.length < 0 /\ read.range.last = MaxInt
           \/ /\ w.length >= 0 /\ w.off + w.length <= base.length
              /\ \A x \in 0..(base.length - 1) :
                   w.off <= x /\ x < w.off + w.length <=> In(read.range, base.length, x)
    BY <1>1, <2>1, <2>3, RangeRight, Zenon
  <2>5. Wanted = {p \in base.off..(base.off + base.length - 1) : In(read.range, base.length, p - base.off)}
    BY <2>2, WantedIn, Zenon
  <2> HIDE DEF w
  <2>6. /\ Asked.off = base.off + w.off /\ Asked.length = w.length
        /\ Asked.off \in 0..obj.size
    BY <1>1, <2>1, <2>2, <2>4, SMTT(20)
  <2>7. Asked.length = 0
          => Asked.off = 0 \/ \E k \in DOMAIN obj.parts : Asked.off = PartStart(obj, k)
    <3>1. w.length = 0 => w.off = 0
      BY <2>4, Zenon
    <3>2. base.off + 0 = base.off
      BY <2>2
    <3>3. QED
      BY <2>2, <2>6, <3>1, <3>2, Zenon
  <2>8. CASE w.length >= 0
    <3>1. w.length \in Nat /\ w.off \in Nat /\ w.off + w.length <= base.length
      BY <2>4, <2>8
    <3>2. \A p \in base.off..(base.off + base.length - 1) :
            p - base.off \in 0..(base.length - 1)
      BY <2>2
    <3>3. \A p \in base.off..(base.off + base.length - 1) :
            In(read.range, base.length, p - base.off)
              <=> w.off <= p - base.off /\ p - base.off < w.off + w.length
      BY <2>4, <2>8, <3>2
    <3>4. (base.off + w.off)..(base.off + w.off + w.length - 1)
            = {p \in base.off..(base.off + base.length - 1) :
                 w.off <= p - base.off /\ p - base.off < w.off + w.length}
      <4>1. base.off \in Nat /\ base.length \in Nat /\ w.off \in Nat /\ w.length \in Nat
        BY <2>2, <3>1, Zenon
      <4>2. w.off + w.length <= base.length
        BY <3>1, Zenon
      <4>3. QED
        BY <4>1, <4>2, Shift
    <3>5. Asked.off..(Asked.off + Asked.length - 1) = Wanted
      BY <2>5, <2>6, <3>3, <3>4, Zenon
    <3>6. Asked.length >= 0 /\ Asked.off + Asked.length <= obj.size
      <4>1. base.off + base.length <= obj.size /\ w.off + w.length <= base.length
        BY <2>2, <3>1, Zenon
      <4>2. /\ base.off \in Nat /\ base.length \in Nat /\ w.off \in Nat /\ w.length \in Nat
            /\ obj.size \in Nat
        BY <1>1, <2>2, <3>1, Zenon
      <4>3. w.length >= 0 /\ base.off + w.off + w.length <= obj.size
        BY <4>1, <4>2
      <4>4. QED
        BY <2>6, <4>3, Zenon
    <3>7. Asked.length \in Int
      BY <2>6, <3>1
    <3>8. QED
      BY <2>6, <2>7, <3>5, <3>6, <3>7, Zenon
  <2>9. CASE w.length < 0
    BY <2>4, <2>6, <2>7, <2>9
  <2>10. QED
    BY <2>4, <2>8, <2>9, Zenon
<1>4. QED
  BY <1>1, <1>2, <1>3, Zenon

\* A read is refused when nothing of its range or its part is there, a copy when not
\* all of its range is.
LEMMA AskedRefused ==
  ASSUME read \in Reads, result = "refused" <=> ~Asked.ok
  PROVE  RefusedRightly
<1> DEFINE range == read.range
           numbers == IF obj.parts = <<>> THEN {1}
                      ELSE {obj.parts[k].number : k \in DOMAIN obj.parts}
           absent == \/ read.part \notin {0} \cup numbers
                     \/ range.form \in {"from", "between"} /\ Wanted = {}
                     \/ range.form = "suffix" /\ range.last = 0
           partial == \/ range.form \in {"suffix", "from"}
                      \/ range.form = "between" /\ Cardinality(Wanted) # range.last - range.first + 1
<1> SUFFICES ~Asked.ok <=> absent \/ (read.use = "copy" /\ partial)
  BY Zenon DEF RefusedRightly
<1>1. /\ obj.size \in 0..MaxInt /\ obj.size \in Nat /\ MaxInt \in Nat
      /\ range \in Ranges /\ read.use \in {"get", "copy"} /\ (read.use = "copy" => read.part = 0)
  BY ReadAssumption, RequestAssumption DEF obj, Manifest, Ranges
<1>2. range.first \in Nat /\ range.last \in Nat
  BY <1>1 DEF Ranges
<1>3. CASE read.use = "copy"
  <2>1. Asked = ParseCopyRange(range, obj.size) /\ read.part = 0
    BY <1>1, <1>3, Zenon DEF Asked, CopyWindow
  <2>2. CASE range.form \in {"suffix", "from"}
    BY <1>3, <2>1, <2>2, Zenon DEF ParseCopyRange, Failed
  <2>3. CASE range.form = "none"
    BY <1>3, <2>1, <2>3, Zenon DEF ParseCopyRange, Window
  <2>4. CASE range.form = "between"
    <3>1. Asked.ok = ~(range.last < range.first \/ range.last >= obj.size)
      BY <2>1, <2>4, Zenon DEF ParseCopyRange, Failed, Window
    <3>2. Wanted = {p \in 0..(obj.size - 1) : p \in range.first..range.last}
      BY <1>3, <2>4, CopyBase, Zenon DEF In
    <3>3. CASE range.last < range.first
      <4>1. Wanted = {}
        BY <1>2, <3>2, <3>3
      <4>2. QED
        BY <2>4, <3>1, <3>3, <4>1, Zenon
    <3>4. CASE ~(range.last < range.first) /\ range.last < obj.size
      <4>1. Wanted = range.first..range.last
        BY <1>1, <1>2, <3>2, <3>4
      <4>2. range.first \in Wanted
        BY <1>2, <3>4, <4>1
      <4>3. Cardinality(Wanted) = range.last - range.first + 1
        <5>1. Cardinality(range.first..range.last)
                = IF range.first > range.last THEN 0 ELSE range.last - range.first + 1
          <6>1. range.first \in Int /\ range.last \in Int
            BY <1>2
          <6>2. QED
            BY <6>1, FS_Interval, Zenon
        <5>2. QED
          BY <1>2, <3>4, <4>1, <5>1, Zenon
      <4>4. Asked.ok
        <5>1. ~(range.last < range.first \/ range.last >= obj.size)
          BY <1>1, <1>2, <3>4
        <5>2. QED
          BY <3>1, <5>1, Zenon
      <4>5. ~absent /\ ~partial
        BY <2>1, <2>4, <4>2, <4>3, Zenon
      <4>6. QED
        BY <4>4, <4>5, Zenon
    <3>5. CASE ~(range.last < range.first) /\ range.last >= obj.size
      <4>1. Wanted = range.first..(obj.size - 1)
        BY <1>1, <1>2, <3>2, <3>5
      <4>2. Cardinality(Wanted) # range.last - range.first + 1
        <5>1. obj.size - 1 \in Int /\ range.first \in Int
          BY <1>1, <1>2
        <5>2. Cardinality(range.first..(obj.size - 1))
                = IF range.first > obj.size - 1 THEN 0 ELSE obj.size - 1 - range.first + 1
          BY <5>1, FS_Interval, Zenon
        <5>3. QED
          BY <1>1, <1>2, <3>5, <4>1, <5>2, SMTT(20)
      <4>3. QED
        BY <1>3, <2>4, <3>1, <3>5, <4>2, Zenon
    <3>6. QED
      BY <1>1, <1>2, <3>3, <3>4, <3>5
  <2>5. QED
    BY <1>1, <2>2, <2>3, <2>4, Zenon DEF Ranges
<1>4. CASE read.use = "get"
  <2> DEFINE base == PartWindow
             w == ParseRange(range, base.length)
  <2>1. Asked.ok <=> base.ok /\ w.ok
    BY <1>4, Zenon DEF Asked, GetWindow, Failed, Window
  <2>2. base.ok <=> read.part \in {0} \cup numbers
    BY DEF PartWindow, Failed, Window
  <2>3. CASE ~base.ok
    BY <2>1, <2>2, <2>3, Zenon
  <2>4. CASE base.ok
    <3>1. /\ base.off \in Nat /\ base.length \in Nat /\ base.off + base.length <= obj.size
          /\ Base = base.off..(base.off + base.length - 1)
      BY <2>4, PartWindowRight, Zenon
    <3> HIDE DEF base
    <3>2. base.length \in 0..MaxInt
      BY <1>1, <3>1
    <3>3. ~w.ok <=> \/ range.form = "suffix" /\ range.last = 0
                    \/ /\ range.form \in {"from", "between"}
                       /\ \A x \in 0..(base.length - 1) : ~In(range, base.length, x)
      BY <1>1, <3>2, RangeRefused, Zenon
    <3>4. Wanted = {p \in base.off..(base.off + base.length - 1) : In(range, base.length, p - base.off)}
      BY <3>1, WantedIn, Zenon
    <3>5. Wanted = {} <=> \A x \in 0..(base.length - 1) : ~In(range, base.length, x)
      <4>1. ASSUME NEW p \in Wanted PROVE \E x \in 0..(base.length - 1) : In(range, base.length, x)
        <5>1. p - base.off \in 0..(base.length - 1)
          BY <3>1, <3>4, <4>1
        <5>2. QED
          BY <3>4, <4>1, <5>1, Zenon
      <4>2. ASSUME NEW x \in 0..(base.length - 1), In(range, base.length, x) PROVE Wanted # {}
        <5>1. /\ base.off + x \in base.off..(base.off + base.length - 1)
              /\ (base.off + x) - base.off = x
          BY <3>1, <4>2
        <5>2. base.off + x \in Wanted
          BY <3>4, <4>2, <5>1, Zenon
        <5>3. QED
          BY <5>2, Zenon
      <4>3. QED
        BY <4>1, <4>2, Zenon
    <3>6. QED
      BY <1>4, <2>1, <2>2, <2>4, <3>3, <3>5, Zenon
  <2>5. QED
    BY <2>3, <2>4, Zenon
<1>5. QED
  BY <1>1, <1>3, <1>4, Zenon

-----------------------------------------------------------------------------
(***************************************************************************)
(* The loop over the chunks, and the bytes.                                *)
(***************************************************************************)

\* Where the chunks end.
Ends == CHOOSE ends \in [0..Len(obj.sizes) -> 0..obj.size] : Offsets(obj, ends)

\* Ends is where the chunks end, as the manifest has it.
LEMMA EndsRight ==
  ASSUME read \in Reads
  PROVE  /\ Ends \in [0..Len(obj.sizes) -> 0..obj.size] /\ Offsets(obj, Ends)
         /\ obj.size \in Nat /\ Len(obj.sizes) \in Nat /\ Chunks = 1..Len(obj.sizes)
         /\ \A k \in Chunks : obj.sizes[k] \in Nat \ {0}
<1>1. Manifest(obj) /\ obj.size \in Nat
  BY ReadAssumption, SMTT(20) DEF obj, Manifest
<1>2. \E ends \in [0..Len(obj.sizes) -> 0..obj.size] : Offsets(obj, ends)
  BY <1>1, Zenon DEF Manifest
<1>3. Ends \in [0..Len(obj.sizes) -> 0..obj.size] /\ Offsets(obj, Ends)
  BY <1>2, Zenon DEF Ends
<1>4. obj.sizes \in Seq(Nat \ {0})
  BY <1>1, Zenon DEF Manifest
<1>5. QED
  BY <1>1, <1>3, <1>4, SMTT(20) DEF Chunks

\* A chunk lies in the object, and the next one begins where it ends.
LEMMA ChunkPlace ==
  ASSUME read \in Reads, NEW k \in Chunks
  PROVE  /\ k \in Nat \ {0} /\ k <= Len(obj.sizes) /\ obj.sizes[k] \in Nat \ {0}
         /\ Ends[k - 1] \in Nat /\ Ends[k] \in Nat
         /\ Ends[k] = Ends[k - 1] + obj.sizes[k] /\ Ends[k] <= obj.size
<1>1. k \in 0..Len(obj.sizes) /\ k - 1 \in 0..Len(obj.sizes) /\ k \in DOMAIN obj.sizes
  BY EndsRight DEF Chunks
<1>2. Ends[k] \in 0..obj.size /\ Ends[k - 1] \in 0..obj.size
  BY <1>1, EndsRight, Zenon
<1>3. Ends[k] = Ends[k - 1] + obj.sizes[k]
  BY <1>1, EndsRight, Zenon DEF Offsets
<1>4. QED
  BY <1>1, <1>2, <1>3, EndsRight

\* How much of the window lies before x.
Passed(x) == IF x <= off THEN 0 ELSE IF x >= off + length THEN length ELSE x - off

\* The bytes of the window, from its first.
Exact(q) == \A k \in 1..Len(q) : q[k] = off + k - 1

Bytes == Seq(-1..obj.size)

LoopTypes ==
  /\ read \in Reads /\ off \in Int /\ length \in Int
  /\ c \in 0..(Len(obj.sizes) + 1)
  /\ at \in 0..obj.size /\ i \in 0..obj.size
  /\ phase \in {"open", "body", "done"}
  /\ result \in {"none", "refused", "ok", "error", "eof"}
  /\ phase # "done" => c \in Chunks
  /\ phase = "done" <=> result # "none"
  /\ out \in Bytes /\ back \in Bytes

\* The window is the one asked for, and a read begins when it is inside the object.
WindowInv ==
  /\ off = Asked.off /\ length = Asked.length
  /\ result = "refused" <=> ~Asked.ok
  /\ c = 0 => /\ phase = "done" /\ out = <<>> /\ back = <<>>
              /\ result = "refused" \/ (result = "error" /\ length < 0)
  /\ c # 0 => Asked.ok /\ off >= 0 /\ length >= 0 /\ off + length <= obj.size

\* What went out and is held back is what lies before the byte to read.
CountInv ==
  c # 0 => /\ at = Ends[c - 1]
           /\ Len(back) <= 1 /\ Len(out) + Len(back) <= length
           /\ phase # "done" => Len(out) + Len(back) = Passed(at + i)
           /\ phase = "open" => i = 0 /\ back = <<>>
           /\ phase = "body" => /\ Touched /\ i <= obj.sizes[c]
                                /\ i > 0 /\ at + i > off => Len(back) = 1

\* It is the window's bytes unless one of the chunk was Bad, a chunk that is done with
\* has none that is, and a read that fails is short.
ExactInv ==
  c # 0 => /\ phase = "open" => ~spoilt
           /\ ~spoilt => Exact(out) /\ (Len(back) = 1 => back[1] = off + Len(out))
           /\ result = "ok" => ~spoilt /\ Len(out) = length
           /\ result \in {"error", "eof"} => c \in Chunks /\ Len(out) < length

LoopInv == LoopTypes /\ WindowInv /\ CountInv /\ ExactInv

\* No chunk of an empty window is opened: it lies where a chunk begins.
LEMMA TouchedSome ==
  ASSUME LoopInv, c \in Chunks, Touched
  PROVE  length > 0
<1>1. /\ read \in Reads /\ c # 0 /\ Asked.ok /\ off = Asked.off /\ length = Asked.length
      /\ at = Ends[c - 1] /\ length \in Int /\ off \in Int
  BY ChunkPlace, Zenon DEF LoopInv, LoopTypes, WindowInv, CountInv
<1>2. length >= 0
  BY <1>1, Zenon DEF LoopInv, WindowInv
<1>3. ASSUME length = 0 PROVE FALSE
  <2>1. off = 0 \/ \E k \in DOMAIN obj.parts : off = PartStart(obj, k)
    BY <1>1, <1>3, AskedRight, Zenon
  <2>2. \E j \in 0..Len(obj.sizes) : off = Ends[j]
    <3>1. Offsets(obj, Ends) /\ 0 \in 0..Len(obj.sizes)
      BY <1>1, EndsRight
    <3>2. QED
      BY <2>1, <3>1, Zenon DEF Offsets
  <2>3. PICK j \in 0..Len(obj.sizes) : off = Ends[j]
    BY <2>2, Zenon
  <2>4. Ends[c - 1] < Ends[j] /\ Ends[j] < Ends[c]
    BY <1>1, <1>3, <2>3, ChunkPlace DEF Touched
  <2>5. c \in Nat /\ c - 1 \in 0..Len(obj.sizes) /\ c \in 0..Len(obj.sizes) /\ j \in Nat
    BY <1>1, EndsRight, <2>3, SMTT(20)
  <2>6. /\ \A k \in 0..Len(obj.sizes) : Ends[k] \in Int
        /\ \A k, l \in 0..Len(obj.sizes) : k < l => Ends[k] < Ends[l]
    <3>1. \A k \in 0..Len(obj.sizes) : Ends[k] \in Int
      BY <1>1, EndsRight
    <3>2. QED
      BY <1>1, <3>1, EndsRight, Zenon DEF Offsets
  <2>7. j <= c - 1 \/ c <= j
    BY <2>5
  <2>8. CASE j <= c - 1
    <3>1. j = c - 1 \/ j < c - 1
      BY <2>5, <2>8
    <3>2. Ends[j] = Ends[c - 1] \/ Ends[j] < Ends[c - 1]
      BY <2>3, <2>5, <2>6, <3>1, Zenon
    <3>3. QED
      BY <2>4, <2>5, <2>6, <3>2
  <2>9. CASE c <= j
    <3>1. j = c \/ c < j
      BY <2>5, <2>9
    <3>2. Ends[j] = Ends[c] \/ Ends[c] < Ends[j]
      BY <2>3, <2>5, <2>6, <3>1, Zenon
    <3>3. QED
      BY <2>4, <2>5, <2>6, <3>2
  <2>10. QED
    BY <2>7, <2>8, <2>9, Zenon
<1>4. QED
  BY <1>1, <1>2, <1>3

\* A read at a chunk of the window is short of its length.
LEMMA StillShort ==
  ASSUME LoopInv, phase # "done", Touched
  PROVE  /\ c \in Chunks /\ c # 0 /\ Len(out) \in Nat /\ Len(out) < length
<1>1. c \in Chunks /\ read \in Reads /\ c # 0
  BY ChunkPlace, Zenon DEF LoopInv, LoopTypes
<1>2. /\ Len(out) \in Nat /\ Len(back) \in Nat /\ off \in Int /\ length \in Int
      /\ at \in Nat /\ i \in Nat /\ obj.sizes[c] \in Nat \ {0}
  <2>1. /\ out \in Seq(-1..obj.size) /\ back \in Seq(-1..obj.size)
        /\ off \in Int /\ length \in Int /\ at \in 0..obj.size /\ i \in 0..obj.size
    BY Zenon DEF LoopInv, LoopTypes, Bytes
  <2>2. obj.size \in Nat /\ obj.sizes[c] \in Nat \ {0}
    BY <1>1, EndsRight, ChunkPlace, Zenon
  <2>3. Len(out) \in Nat /\ Len(back) \in Nat
    BY <2>1
  <2>4. at \in Nat /\ i \in Nat
    BY <2>1, <2>2
  <2>5. QED
    BY <2>1, <2>2, <2>3, <2>4, Zenon
<1>3. length > 0 /\ at < off + length
  BY <1>1, TouchedSome, Zenon DEF Touched
<1>4. Len(out) + Len(back) = Passed(at + i) /\ Len(out) + Len(back) <= length
  BY <1>1, Zenon DEF LoopInv, CountInv
<1>5. CASE phase = "open" \/ i = 0
  <2>1. i = 0
    BY <1>1, <1>5, Zenon DEF LoopInv, CountInv
  <2>2. Passed(at + i) < length
    BY <1>2, <1>3, <2>1 DEF Passed
  <2>3. QED
    BY <1>1, <1>2, <1>4, <2>2
<1>6. CASE phase = "body" /\ i > 0
  <2>1. CASE at + i > off
    <3>1. Len(back) = 1
      BY <1>1, <1>6, <2>1, Zenon DEF LoopInv, CountInv
    <3>2. QED
      BY <1>1, <1>2, <1>4, <3>1
  <2>2. CASE ~(at + i > off)
    <3>1. Passed(at + i) = 0
      BY <1>2, <2>2 DEF Passed
    <3>2. QED
      BY <1>1, <1>2, <1>3, <1>4, <3>1
  <2>3. QED
    BY <2>1, <2>2, Zenon
<1>7. QED
  BY <1>2, <1>5, <1>6 DEF LoopInv, LoopTypes

\* The request does not change.
LEMMA Fixed ==
  ASSUME UNCHANGED <<read, off, length>>
  PROVE  /\ read' = read /\ off' = off /\ length' = length
         /\ obj' = obj /\ Asked' = Asked /\ Chunks' = Chunks /\ Ends' = Ends /\ Bytes' = Bytes
<1>1. obj' = obj
  BY Zenon DEF obj
<1>2. Asked' = Asked
  BY <1>1, Zenon DEF Asked, CopyWindow, GetWindow, PartWindow
<1>3. QED
  BY <1>1, <1>2, Zenon DEF Chunks, Ends, Bytes

\* The loop goes on with what lies before the next chunk.
LEMMA AdvanceStep ==
  ASSUME LoopInv, phase # "done", UNCHANGED <<read, off, length>>,
         NEW sent \in Bytes, Exact(sent), Len(sent) = Passed(at + obj.sizes[c]),
         ToChunk(c + 1, at + obj.sizes[c], sent)
  PROVE  LoopInv'
<1>1. /\ c \in Chunks /\ read \in Reads /\ c # 0 /\ c \in Nat /\ c <= Len(obj.sizes)
      /\ Chunks = 1..Len(obj.sizes) /\ Len(obj.sizes) \in Nat /\ obj.size \in Nat
  BY ChunkPlace, EndsRight, Zenon DEF LoopInv, LoopTypes
<1>2. /\ off \in Int /\ length \in Int /\ length >= 0 /\ off >= 0 /\ off + length <= obj.size
      /\ Asked.ok /\ off = Asked.off /\ length = Asked.length
  BY <1>1, Zenon DEF LoopInv, LoopTypes, WindowInv
<1>3. at + obj.sizes[c] = Ends[c] /\ Ends[c] \in 0..obj.size /\ Ends[c] \in Int
  BY <1>1, ChunkPlace DEF LoopInv, CountInv
<1>4. /\ c' = c + 1 /\ at' = Ends[c] /\ out' = sent /\ back' = <<>> /\ i' = 0 /\ spoilt' = FALSE
      /\ phase' = IF c + 1 \in Chunks THEN "open" ELSE "done"
      /\ result' = IF c + 1 \in Chunks THEN "none" ELSE IF Len(sent) = length THEN "ok" ELSE "error"
  BY <1>3, Zenon DEF ToChunk, Outcome
<1>5. Len(sent) = Passed(Ends[c]) /\ Len(sent) \in Nat /\ Len(sent) <= length
  <2>1. Passed(Ends[c]) <= length
    BY <1>2, <1>3, SMTT(20) DEF Passed
  <2>2. QED
    BY <1>3, <2>1 DEF Bytes
<1>6. /\ Len(back') = 0 /\ at' + i' = Ends[c] /\ c' # 0 /\ c' - 1 = c
  BY <1>1, <1>3, <1>4
<1>7. LoopTypes'
  <2>1. c' \in 0..(Len(obj.sizes) + 1) /\ i' \in 0..obj.size /\ at' \in 0..obj.size
    BY <1>1, <1>3, <1>4
  <2>2. back' \in Bytes /\ out' \in Bytes
    BY <1>4 DEF Bytes
  <2>3. (phase' # "done" => c' \in Chunks) /\ (phase' = "done" <=> result' # "none")
    BY <1>4, Zenon
  <2>4. QED
    BY <1>1, <1>2, <1>4, <2>1, <2>2, <2>3, Fixed, Zenon DEF LoopTypes
<1>8. WindowInv'
  <2>1. result' # "refused"
    BY <1>4, Zenon
  <2>2. QED
    BY <1>2, <1>6, <2>1, Fixed, Zenon DEF WindowInv
<1>9. CountInv'
  <2>1. at' = Ends'[c' - 1]
    BY <1>4, <1>6, Fixed, Zenon
  <2>2. Len(out') + Len(back') = Passed(at + i)' /\ Len(out') + Len(back') <= length'
    BY <1>4, <1>5, <1>6, Fixed DEF Passed
  <2>3. phase' # "body"
    BY <1>4, Zenon
  <2>4. QED
    BY <1>4, <1>6, <2>1, <2>2, <2>3 DEF CountInv
<1>10. ExactInv'
  <2>1. Exact(out)'
    BY <1>4, Fixed, Zenon DEF Exact
  <2>2. result' = "ok" => Len(out') = length'
    BY <1>4, Fixed, Zenon
  <2>3. result' \in {"none", "ok"}
    <3>1. CASE c + 1 \in Chunks
      BY <1>4, <3>1, Zenon
    <3>2. CASE c + 1 \notin Chunks
      <4>1. c = Len(obj.sizes)
        BY <1>1, <3>2
      <4>2. Ends[c] = obj.size
        BY <1>1, <4>1, EndsRight, Zenon DEF Offsets
      <4>3. Passed(Ends[c]) = length
        BY <1>1, <1>2, <4>2, SMTT(20) DEF Passed
      <4>4. QED
        BY <1>4, <1>5, <3>2, <4>3, Zenon
    <3>3. QED
      BY <3>1, <3>2, Zenon
  <2>4. QED
    BY <1>4, <1>6, <2>1, <2>2, <2>3 DEF ExactInv
<1>11. QED
  BY <1>7, <1>8, <1>9, <1>10, Zenon DEF LoopInv

\* The read fails, short of its length.
LEMMA FailStep ==
  ASSUME LoopInv, phase # "done", Touched, UNCHANGED <<read, off, length>>,
         NEW isEOF, Fail(isEOF)
  PROVE  LoopInv'
<1>1. /\ c \in Chunks /\ c # 0 /\ Len(out) < length
  BY StillShort, Zenon
<1>2. /\ UNCHANGED <<c, at, i, spoilt, back, out>>
      /\ phase' = "done" /\ result' \in {"error", "eof"}
  BY Zenon DEF Fail
<1>3. LoopTypes'
  BY <1>2, Fixed, Zenon DEF LoopInv, LoopTypes
<1>4. WindowInv'
  <2>1. Asked.ok /\ result' # "refused" /\ result' # "ok"
    BY <1>1, <1>2, Zenon DEF LoopInv, WindowInv
  <2>2. QED
    BY <1>1, <1>2, <2>1, Fixed, Zenon DEF LoopInv, WindowInv
<1>5. CountInv'
  BY <1>2, Fixed, Zenon DEF LoopInv, CountInv
<1>6. ExactInv'
  <2>1. Exact(out)' = Exact(out)
    BY <1>2, Fixed, Zenon DEF Exact
  <2>2. QED
    BY <1>1, <1>2, <2>1, Fixed, Zenon DEF LoopInv, ExactInv
<1>7. QED
  BY <1>3, <1>4, <1>5, <1>6, Zenon DEF LoopInv

\* A chunk of the window is opened, or another of its sources is to be asked.
LEMMA OpenStep ==
  ASSUME LoopInv, phase = "open", Touched, UNCHANGED <<read, off, length>>,
         phase' \in {"open", "body"}, UNCHANGED <<c, at, i, spoilt, back, out, result>>
  PROVE  LoopInv'
<1>1. /\ c \in Chunks /\ read \in Reads /\ c # 0 /\ obj.sizes[c] \in Nat
  BY ChunkPlace, Zenon DEF LoopInv, LoopTypes
<1>2. LoopTypes'
  BY Fixed, Zenon DEF LoopInv, LoopTypes
<1>3. WindowInv'
  BY <1>1, Fixed, Zenon DEF LoopInv, WindowInv
<1>4. CountInv'
  <2>1. Touched' /\ Passed(at + i)' = Passed(at + i)
    BY Fixed, Zenon DEF Touched, Passed
  <2>2. i = 0 /\ i <= obj.sizes[c]
    BY <1>1 DEF LoopInv, CountInv
  <2>3. QED
    BY <1>1, <2>1, <2>2, Fixed DEF LoopInv, CountInv
<1>5. ExactInv'
  <2>1. Exact(out)' = Exact(out)
    BY Fixed, Zenon DEF Exact
  <2>2. QED
    BY <1>1, <2>1, Fixed, Zenon DEF LoopInv, LoopTypes, ExactInv
<1>6. QED
  BY <1>2, <1>3, <1>4, <1>5, Zenon DEF LoopInv

\* A step of the world around the read.
LEMMA SameLoop ==
  ASSUME LoopInv, UNCHANGED <<read, off, length>>,
         UNCHANGED <<c, at, i, spoilt, back, out, phase, result>>
  PROVE  LoopInv'
<1>1. LoopTypes' /\ WindowInv'
  BY Fixed, Zenon DEF LoopInv, LoopTypes, WindowInv
<1>2. Touched' = Touched /\ Passed(at + i)' = Passed(at + i) /\ Exact(out)' = Exact(out)
  BY Fixed, Zenon DEF Touched, Passed, Exact
<1>3. CountInv' /\ ExactInv'
  BY <1>2, Fixed, Zenon DEF LoopInv, CountInv, ExactInv
<1>4. QED
  BY <1>1, <1>3, Zenon DEF LoopInv

\* A byte of the window adds one to what lies before.
LEMMA PassedNext ==
  ASSUME NEW x \in Int, off \in Int, length \in Int, length >= 0
  PROVE  /\ off <= x /\ x < off + length => Passed(x) = x - off /\ Passed(x + 1) = x - off + 1
         /\ x < off \/ x >= off + length => Passed(x + 1) = Passed(x)
BY DEF Passed

\* Past the first m of m + b, with b at most one, there is one more.
LEMMA OneMore ==
  ASSUME NEW m \in Nat, NEW b \in Nat, NEW k \in Nat, b <= 1, k > m, k <= m + b
  PROVE  k = m + 1 /\ b = 1
OBVIOUS

\* The byte held back goes out after the others.
LEMMA Release ==
  ASSUME LoopInv, c # 0
  PROVE  /\ out \o back \in Bytes /\ Len(out \o back) = Len(out) + Len(back)
         /\ ~spoilt => Exact(out \o back)
<1>1. out \in Bytes /\ back \in Bytes /\ Len(back) <= 1 /\ off \in Int
  BY Zenon DEF LoopInv, LoopTypes, CountInv
<1>2. out \o back \in Bytes /\ Len(out \o back) = Len(out) + Len(back)
  BY <1>1 DEF Bytes
<1>3. Len(out) \in Nat /\ Len(back) \in Nat
  BY <1>1 DEF Bytes
<1>4. ASSUME ~spoilt PROVE Exact(out \o back)
  <2>1. Exact(out) /\ (Len(back) = 1 => back[1] = off + Len(out))
    BY <1>4, Zenon DEF LoopInv, ExactInv
  <2>2. ASSUME NEW k \in 1..Len(out \o back) PROVE (out \o back)[k] = off + k - 1
    <3>1. CASE k <= Len(out)
      <4>1. (out \o back)[k] = out[k] /\ k \in 1..Len(out)
        BY <1>1, <1>2, <1>3, <2>2, <3>1 DEF Bytes
      <4>2. QED
        BY <2>1, <4>1, Zenon DEF Exact
    <3>2. CASE k > Len(out)
      <4>1. k = Len(out) + 1 /\ Len(back) = 1
        <5>1. k \in Nat /\ k <= Len(out) + Len(back)
          BY <1>2, <1>3, <2>2
        <5>2. QED
          BY <1>1, <1>3, <3>2, <5>1, OneMore, Zenon
      <4>2. (out \o back)[k] = back[1]
        BY <1>1, <1>3, <4>1 DEF Bytes
      <4>3. QED
        BY <1>1, <1>3, <2>1, <4>1, <4>2
    <3>3. QED
      BY <1>3, <2>2, <3>1, <3>2
  <2>3. QED
    BY <2>2, Zenon DEF Exact
<1>5. QED
  BY <1>2, <1>4, Zenon

\* A byte of the chunk is read: held back if it is in the window, dropped if not.
LEMMA PassStep == ASSUME LoopInv, PassByte PROVE LoopInv'
<1>1. /\ phase = "body" /\ c \in Chunks /\ c # 0 /\ read \in Reads /\ Touched /\ result = "none"
      /\ UNCHANGED <<read, off, length, c, at, phase, result>> /\ i < obj.sizes[c] /\ i' = i + 1
  BY ChunkPlace, Zenon DEF PassByte, LoopInv, LoopTypes, CountInv
<1>2. /\ off \in Int /\ length \in Int /\ length > 0 /\ off >= 0 /\ off + length <= obj.size
      /\ at \in Nat /\ i \in Nat /\ obj.sizes[c] \in Nat \ {0} /\ obj.size \in Nat
      /\ at + obj.sizes[c] <= obj.size /\ at < off + length /\ at + obj.sizes[c] > off
      /\ Asked.ok
  <2>1. off \in Int /\ length \in Int /\ off >= 0 /\ off + length <= obj.size /\ Asked.ok
    BY <1>1, Zenon DEF LoopInv, LoopTypes, WindowInv
  <2>2. at = Ends[c - 1] /\ obj.size \in Nat /\ at \in 0..obj.size /\ i \in 0..obj.size
    BY <1>1, EndsRight, Zenon DEF LoopInv, LoopTypes, CountInv
  <2>3. QED
    BY <1>1, <2>1, <2>2, ChunkPlace, TouchedSome DEF Touched
<1>3. i' \in 0..obj.size /\ at + i' = at + i + 1 /\ at + i < obj.size /\ i' <= obj.sizes[c]
  BY <1>1, <1>2
<1>4. ByteRead \in -1..obj.size /\ (ByteRead # Bad => ByteRead = at + i)
  BY <1>2, <1>3 DEF ByteRead, Byte, Bad
<1>5. /\ Len(out) \in Nat /\ Len(back) \in Nat /\ Len(back) <= 1
      /\ Len(out) + Len(back) = Passed(at + i)
      /\ out \in Bytes /\ back \in Bytes
  BY <1>1 DEF LoopInv, LoopTypes, CountInv, Bytes
<1>6. spoilt' = (spoilt \/ ByteRead = Bad)
  BY Zenon DEF PassByte
<1>7. CASE InWindow
  <2>1. off <= at + i /\ at + i < off + length
    BY <1>7, Zenon DEF InWindow, Byte
  <2>2. out' = out \o back /\ back' = <<ByteRead>>
    BY <1>7, Zenon DEF PassByte
  <2>3. /\ out' \in Bytes /\ Len(out') = Len(out) + Len(back)
        /\ ~spoilt => Exact(out')
    BY <1>1, <2>2, Release, Zenon
  <2>4. back' \in Bytes /\ Len(back') = 1 /\ back'[1] = ByteRead
    BY <1>4, <2>2 DEF Bytes
  <2>5. Len(out') = at + i - off
    <3>1. off \in Int /\ length \in Int /\ length >= 0 /\ at + i \in Int /\ at \in Int /\ i \in Int
      BY <1>2
    <3>2. Passed(at + i) = (at + i) - off
      BY <2>1, <3>1, PassedNext, Zenon
    <3>3. QED
      BY <1>5, <2>3, <3>1, <3>2
  <2>6. Len(out') + Len(back') = Passed(at + i')
    <3>1. off \in Int /\ length \in Int /\ length >= 0 /\ at + i \in Int /\ at \in Int /\ i \in Int
      BY <1>2
    <3>2. Passed(at + i + 1) = ((at + i) - off) + 1
      BY <2>1, <3>1, PassedNext, Zenon
    <3>3. Passed(at + i') = ((at + i) - off) + 1
      BY <1>3, <3>2, Zenon
    <3>4. QED
      BY <2>4, <2>5, <3>1, <3>3
  <2>7. Len(out') + Len(back') <= length
    BY <1>2, <2>1, <2>4, <2>5
  <2>8. ~spoilt' => Exact(out') /\ back'[1] = off + Len(out')
    <3>1. ~spoilt' => ~spoilt /\ ByteRead = at + i
      BY <1>4, <1>6, Zenon
    <3>2. at + i = off + Len(out')
      BY <1>2, <2>5
    <3>3. QED
      BY <2>3, <2>4, <3>1, <3>2, Zenon
  <2>9. LoopTypes'
    BY <1>1, <1>3, <2>3, <2>4, Fixed, Zenon DEF LoopInv, LoopTypes
  <2>10. WindowInv'
    BY <1>1, <1>2, Fixed, Zenon DEF LoopInv, WindowInv
  <2>11. CountInv'
    <3>1. Touched' /\ Passed(at + i)' = Passed(at + i')
      BY <1>1, Fixed, Zenon DEF Touched, Passed
    <3>2. QED
      BY <1>1, <1>3, <2>4, <2>6, <2>7, <3>1, Fixed, SMTT(20) DEF LoopInv, CountInv
  <2>12. ExactInv'
    <3>1. Exact(out)' <=> Exact(out')
      BY <1>1, Fixed, Zenon DEF Exact
    <3>2. QED
      BY <1>1, <2>8, <3>1, Fixed, Zenon DEF ExactInv
  <2>13. QED
    BY <2>9, <2>10, <2>11, <2>12, Zenon DEF LoopInv
<1>8. CASE ~InWindow
  <2>1. at + i < off \/ at + i >= off + length
    BY <1>2, <1>8 DEF InWindow, Byte
  <2>2. out' = out /\ back' = back
    BY <1>8, Zenon DEF PassByte
  <2>3. Passed(at + i') = Passed(at + i)
    <3>1. at + i \in Int /\ length >= 0
      BY <1>2
    <3>2. QED
      BY <1>2, <1>3, <2>1, <3>1, PassedNext, Zenon
  <2>4. i' > 0 /\ at + i' > off => Len(back) = 1
    <3>1. CASE at + i < off
      <4>1. ~(at + i + 1 > off)
        BY <1>2, <3>1
      <4>2. QED
        BY <1>3, <4>1, Zenon
    <3>2. CASE at + i >= off + length
      <4>1. i > 0 /\ at + i > off
        BY <1>2, <3>2
      <4>2. QED
        BY <1>1, <4>1, Zenon DEF LoopInv, CountInv
    <3>3. QED
      BY <2>1, <3>1, <3>2, Zenon
  <2>5. LoopTypes'
    BY <1>1, <1>3, <2>2, Fixed, Zenon DEF LoopInv, LoopTypes
  <2>6. WindowInv'
    BY <1>1, <1>2, Fixed, Zenon DEF LoopInv, WindowInv
  <2>7. CountInv'
    <3>1. Touched' /\ Passed(at + i)' = Passed(at + i')
      BY <1>1, Fixed, Zenon DEF Touched, Passed
    <3>2. QED
      BY <1>1, <1>3, <2>2, <2>3, <2>4, <3>1, Fixed, Zenon DEF LoopInv, CountInv
  <2>8. ExactInv'
    <3>1. Exact(out)' = Exact(out) /\ (~spoilt' => ~spoilt)
      BY <1>1, <1>6, <2>2, Fixed, Zenon DEF Exact
    <3>2. QED
      BY <1>1, <2>2, <3>1, Fixed, Zenon DEF LoopInv, ExactInv
  <2>9. QED
    BY <2>5, <2>6, <2>7, <2>8, Zenon DEF LoopInv
<1>9. QED
  BY <1>7, <1>8, Zenon

\* The end of a chunk: the byte held back is released, or the read fails.
LEMMA EndStep == ASSUME LoopInv, EndChunk PROVE LoopInv'
<1>1. /\ phase = "body" /\ phase # "done" /\ c \in Chunks /\ c # 0 /\ Touched
      /\ UNCHANGED <<read, off, length>> /\ i = obj.sizes[c]
  BY ChunkPlace, Zenon DEF EndChunk, LoopInv, LoopTypes, CountInv
<1>2. CASE spoilt
  BY <1>1, <1>2, FailStep, Zenon DEF EndChunk
<1>3. CASE ~spoilt
  <2>1. ToChunk(c + 1, at + obj.sizes[c], out \o back)
    BY <1>3, Zenon DEF EndChunk
  <2>2. out \o back \in Bytes /\ Exact(out \o back) /\ Len(out \o back) = Len(out) + Len(back)
    BY <1>1, <1>3, Release, Zenon
  <2>3. Len(out) + Len(back) = Passed(at + obj.sizes[c])
    BY <1>1, Zenon DEF LoopInv, CountInv
  <2>4. QED
    BY <1>1, <2>1, <2>2, <2>3, AdvanceStep, Zenon
<1>4. QED
  BY <1>2, <1>3, Zenon

\* A chunk that the window does not touch holds none of it.
LEMMA SkipStep == ASSUME LoopInv, SkipChunk PROVE LoopInv'
<1>1. /\ phase = "open" /\ phase # "done" /\ c \in Chunks /\ c # 0 /\ ~Touched /\ read \in Reads
      /\ UNCHANGED <<read, off, length>> /\ ToChunk(c + 1, at + obj.sizes[c], out)
  BY ChunkPlace, Zenon DEF SkipChunk, LoopInv, LoopTypes
<1>2. /\ off \in Int /\ length \in Int /\ length >= 0 /\ at \in Nat /\ obj.sizes[c] \in Nat
  <2>1. off \in Int /\ length \in Int /\ length >= 0
    BY <1>1, Zenon DEF LoopInv, LoopTypes, WindowInv
  <2>2. at \in Nat
    BY <1>1, ChunkPlace, Zenon DEF LoopInv, CountInv
  <2>3. QED
    BY <1>1, <2>1, <2>2, ChunkPlace, Zenon
<1>3. i = 0 /\ back = <<>> /\ ~spoilt /\ Exact(out) /\ Len(out) + Len(back) = Passed(at + i)
  BY <1>1, Zenon DEF LoopInv, CountInv, ExactInv
<1>4. out \in Bytes /\ Len(out) \in Nat
  BY DEF LoopInv, LoopTypes, Bytes
<1>5. Passed(at + obj.sizes[c]) = Passed(at)
  BY <1>1, <1>2 DEF Passed, Touched
<1>6. Len(out) = Passed(at + obj.sizes[c])
  <2>1. at + i = at /\ Len(out) + Len(back) = Len(out)
    BY <1>2, <1>3, <1>4
  <2>2. QED
    BY <1>3, <1>5, <2>1, Zenon
<1>7. QED
  BY <1>1, <1>3, <1>4, <1>6, AdvanceStep, Zenon

\* An owner is asked, the shards are put together.
LEMMA FetchStep == ASSUME LoopInv, FetchChunk \/ Decode PROVE LoopInv'
<1>1. /\ phase = "open" /\ phase # "done" /\ Touched /\ UNCHANGED <<read, off, length>>
  BY Zenon DEF FetchChunk, Decode
<1>2. \/ Fail(eof)
      \/ phase' \in {"open", "body"} /\ UNCHANGED <<c, at, i, spoilt, back, out, result>>
  BY <1>1, Zenon DEF FetchChunk, Decode
<1>3. QED
  BY <1>1, <1>2, FailStep, OpenStep, Zenon

\* A shard is asked for.
LEMMA ShardStep == ASSUME LoopInv, NEW k, FetchShard(k) PROVE LoopInv'
<1>1. /\ phase = "open" /\ Touched /\ UNCHANGED <<read, off, length>>
      /\ phase' = "open" /\ UNCHANGED <<c, at, i, spoilt, back, out, result>>
  BY Zenon DEF FetchShard
<1>2. QED
  BY <1>1, OpenStep, Zenon

\* A request for a copy or a shard fails.
LEMMA CutOpenStep == ASSUME LoopInv, NEW k, NEW isEOF, CutOpen(k, isEOF) PROVE LoopInv'
<1>1. /\ phase = "open" /\ phase # "done" /\ Touched /\ UNCHANGED <<read, off, length>>
  BY Zenon DEF CutOpen
<1>2. \/ Fail(eof \/ isEOF)
      \/ phase' = "open" /\ UNCHANGED <<c, at, i, spoilt, back, out, result>>
  BY <1>1, Zenon DEF CutOpen
<1>3. QED
  BY <1>1, <1>2, FailStep, OpenStep, Zenon

\* The transfer of a copy is cut: its chunk is of the window, so the read is short.
LEMMA CutBodyStep == ASSUME LoopInv, NEW isEOF, CutBody(isEOF) PROVE LoopInv'
<1>1. phase = "body" /\ phase # "done" /\ UNCHANGED <<read, off, length>> /\ Fail(isEOF)
  BY Zenon DEF CutBody
<1>2. Touched
  BY <1>1, ChunkPlace, Zenon DEF LoopInv, LoopTypes, CountInv
<1>3. QED
  BY <1>1, <1>2, FailStep, Zenon

\* Every step keeps LoopInv.
LEMMA LoopStep == ASSUME LoopInv, [Next]_vars PROVE LoopInv'
<1>1. ASSUME NEW node, NEW k, NEW b, Rot(node, k, b) \/ Lose(node, k) \/ Down(node) \/ Return(node)
      PROVE  LoopInv'
  <2>1. UNCHANGED <<read, off, length>> /\ UNCHANGED <<c, at, i, spoilt, back, out, phase, result>>
    BY <1>1, Zenon DEF Rot, Lose, Down, Return, stream
  <2>2. QED
    BY <2>1, SameLoop, Zenon
<1>2. ASSUME UNCHANGED vars PROVE LoopInv'
  <2>1. UNCHANGED <<read, off, length>> /\ UNCHANGED <<c, at, i, spoilt, back, out, phase, result>>
    BY <1>2, Zenon DEF vars, stream
  <2>2. QED
    BY <2>1, SameLoop, Zenon
<1>3. QED
  BY <1>1, <1>2, PassStep, EndStep, SkipStep, FetchStep, ShardStep, CutOpenStep, CutBodyStep, Zenon
     DEF Next, Done

\* A request that is refused has no window.
LEMMA AskedFailed == ASSUME read \in Reads, ~Asked.ok PROVE Asked = Failed
<1>1. read.range.form \in {"none", "suffix", "from", "between"}
  BY RequestAssumption, Zenon
<1>2. ~CopyWindow.ok => CopyWindow = Failed
  BY <1>1, Zenon DEF CopyWindow, ParseCopyRange, Window
<1>3. ~GetWindow.ok => GetWindow = Failed
  BY Zenon DEF GetWindow, Window
<1>4. QED
  BY <1>2, <1>3, Zenon DEF Asked

\* A request that is not refused names bytes of the object, unless it ends at the
\* largest integer; that one is begun with an impossible window, and nothing of it goes out.
LEMMA LoopInit == ASSUME Init PROVE LoopInv
<1>1. read \in Reads /\ off = Asked.off /\ length = Asked.length
  BY Zenon DEF Init
<1>2. /\ Ends[0] = 0 /\ obj.size \in Nat /\ Len(obj.sizes) \in Nat /\ Chunks = 1..Len(obj.sizes)
  BY <1>1, EndsRight, Zenon DEF Offsets
<1>3. at = 0 /\ i = 0 /\ spoilt = FALSE /\ back = <<>> /\ out = <<>>
  BY Zenon DEF Init
<1>4. out \in Bytes /\ back \in Bytes /\ Len(out) = 0 /\ Len(back) = 0
  BY <1>3 DEF Bytes
<1> DEFINE inside == Asked.ok /\ off >= 0 /\ length >= 0 /\ off + length <= obj.size
<1>5. /\ c = IF inside THEN 1 ELSE 0
      /\ phase = IF inside /\ 1 \in Chunks THEN "open" ELSE "done"
      /\ result = IF inside THEN Outcome(1, <<>>) ELSE IF Asked.ok THEN "error" ELSE "refused"
  BY Zenon DEF Init
<1>6. off \in Int /\ length \in Int /\ (Asked.ok => inside \/ length < 0)
  <2>1. CASE Asked.ok
    BY <1>1, <2>1, AskedRight
  <2>2. CASE ~Asked.ok
    BY <1>1, <2>2, AskedFailed DEF Failed
  <2>3. QED
    BY <2>1, <2>2, Zenon
<1>7. CASE inside
  <2>1. /\ c = 1 /\ 1 - 1 = 0 /\ Passed(at + i) = 0
        /\ Asked.ok /\ off >= 0 /\ length >= 0 /\ off + length <= obj.size
    BY <1>3, <1>5, <1>6, <1>7 DEF Passed
  <2>2. /\ phase = IF 1 \in Chunks THEN "open" ELSE "done"
        /\ result = IF 1 \in Chunks THEN "none" ELSE "ok"
        /\ 1 \notin Chunks => length = 0
    <3>1. 1 \notin Chunks => length = 0
      <4>1. SUFFICES ASSUME 1 \notin Chunks PROVE length = 0
        BY Zenon
      <4>2. Len(obj.sizes) = 0
        BY <1>2, <4>1
      <4>3. Ends[Len(obj.sizes)] = obj.size
        BY <1>1, EndsRight, Zenon DEF Offsets
      <4>4. QED
        BY <1>2, <1>6, <2>1, <4>2, <4>3
    <3>2. QED
      BY <1>3, <1>4, <1>5, <1>7, <3>1, Zenon DEF Outcome
  <2>3. LoopTypes
    BY <1>1, <1>2, <1>3, <1>4, <1>6, <2>1, <2>2, SMTT(20) DEF LoopTypes
  <2>4. WindowInv
    BY <1>1, <2>1, <2>2 DEF WindowInv
  <2>5. CountInv
    BY <1>2, <1>3, <1>4, <1>6, <2>1, <2>2 DEF CountInv
  <2>6. ExactInv
    <3>1. Exact(out)
      BY <1>4 DEF Exact
    <3>2. QED
      BY <1>3, <1>4, <1>6, <2>1, <2>2, <3>1, Zenon DEF ExactInv
  <2>7. QED
    BY <2>3, <2>4, <2>5, <2>6, Zenon DEF LoopInv
<1>8. CASE ~inside
  <2>1. /\ c = 0 /\ phase = "done" /\ result = IF Asked.ok THEN "error" ELSE "refused"
        /\ Asked.ok => length < 0
    BY <1>5, <1>6, <1>8, Zenon
  <2>2. LoopTypes
    BY <1>1, <1>2, <1>3, <1>4, <1>6, <2>1 DEF LoopTypes
  <2>3. QED
    BY <1>1, <1>3, <2>1, <2>2, Zenon DEF LoopInv, WindowInv, CountInv, ExactInv
<1>9. QED
  BY <1>7, <1>8, Zenon

\* Every read keeps the loop's invariant.
LEMMA ReadLoop == Spec => []LoopInv
BY LoopInit, LoopStep, PTL DEF Spec

\* However copies rot, go and are cut meanwhile, the length that was promised has come
\* only when exactly the window's bytes have.
THEOREM CompleteReadsAreExact == Spec => []CompleteIsExact
<1>1. ASSUME LoopInv PROVE CompleteIsExact
  <2>1. SUFFICES ASSUME result # "refused", Len(out) = length
                 PROVE  result \in {"none", "ok"} /\ out = [k \in 1..length |-> off + k - 1]
    BY Zenon DEF CompleteIsExact
  <2>2. Len(out) \in Nat /\ out \in Bytes /\ result \in {"none", "refused", "ok", "error", "eof"}
    BY <1>1 DEF LoopInv, LoopTypes, Bytes
  <2>3. c # 0
    <3>1. SUFFICES ASSUME c = 0 PROVE FALSE
      BY Zenon
    <3>2. length < 0
      BY <1>1, <2>1, <3>1, Zenon DEF LoopInv, WindowInv
    <3>3. QED
      BY <2>1, <2>2, <3>2
  <2>4. result \in {"none", "ok"}
    BY <1>1, <2>1, <2>2, <2>3 DEF LoopInv, ExactInv
  <2>5. ~spoilt
    <3>1. CASE result = "ok"
      BY <1>1, <2>3, <3>1, Zenon DEF LoopInv, ExactInv
    <3>2. CASE result = "none"
      <4>1. phase # "done"
        BY <1>1, <3>2, Zenon DEF LoopInv, LoopTypes
      <4>2. CASE phase = "open"
        BY <1>1, <2>3, <4>2, Zenon DEF LoopInv, ExactInv
      <4>3. CASE phase = "body"
        <5>1. Touched
          BY <1>1, <2>3, <4>3, Zenon DEF LoopInv, CountInv
        <5>2. Len(out) < length
          BY <1>1, <4>1, <5>1, StillShort, Zenon
        <5>3. QED
          BY <2>1, <2>2, <5>2
      <4>4. QED
        BY <1>1, <4>1, <4>2, <4>3, Zenon DEF LoopInv, LoopTypes
    <3>3. QED
      BY <2>4, <3>1, <3>2, Zenon
  <2>6. Exact(out)
    BY <1>1, <2>3, <2>5, Zenon DEF LoopInv, ExactInv
  <2>7. QED
    BY <2>1, <2>2, <2>4, <2>6 DEF Exact, Bytes
<1>2. QED
  BY <1>1, ReadLoop, PTL

-----------------------------------------------------------------------------
(***************************************************************************)
(* Where the chunks come from.                                             *)
(***************************************************************************)
SourceTypes ==
  /\ src \in Nodes \cup {Memory} /\ spoilt \in BOOLEAN /\ eof \in BOOLEAN
  /\ got \subseteq tried /\ tried \subseteq DOMAIN obj.nodes
  /\ up \subseteq Nodes /\ cuts \in Nat
  /\ held \subseteq Range(obj.nodes) \X Chunks
  /\ \A x \in rot : x[1] \in Nodes

\* A steady copy is there, its node answers, and it is sound.
SteadyInv ==
  \A s \in steady : s \in held /\ s[1] \in up /\ ~Rotten(s[1], s[2])

\* Shards are verified before they are decoded, so no Bad byte comes from memory.
SoundInv ==
  /\ Coded => src = Memory
  /\ Coded \/ rot = {} => ~spoilt

\* Owners are asked in order, and one that was asked in vain was not steady; nor was
\* the node of a shard that did not come.
TriedInv ==
  phase = "open" =>
    /\ ~Coded => /\ \E m \in 0..(Len(obj.nodes) - 1) : tried = 1..m
                 /\ \A k \in tried : <<LocalFirst[k], c>> \notin steady
    /\ Coded => \A k \in tried \ got : <<obj.nodes[k], c>> \notin steady

SourceInv == SourceTypes /\ SteadyInv /\ SoundInv /\ TriedInv /\ Survives


\* The owners of an object are nodes, and there are at least as many as data shards.
LEMMA NodesRight ==
  ASSUME read \in Reads
  PROVE  /\ Len(obj.nodes) \in Nat \ {0} /\ DOMAIN obj.nodes = 1..Len(obj.nodes)
         /\ obj.data \in Nat /\ obj.data <= Len(obj.nodes)
         /\ \A k \in DOMAIN obj.nodes : obj.nodes[k] \in Nodes
         /\ Range(obj.nodes) \subseteq Nodes
<1>1. obj.nodes \in Seq(Nodes) /\ obj.nodes # <<>> /\ obj.data \in 0..Len(obj.nodes)
  BY ReadAssumption, Zenon DEF obj, Manifest
<1>2. Len(obj.nodes) \in Nat \ {0} /\ DOMAIN obj.nodes = 1..Len(obj.nodes)
  BY <1>1
<1>3. \A k \in DOMAIN obj.nodes : obj.nodes[k] \in Nodes
  BY <1>1, ElementType, Zenon
<1>4. QED
  BY <1>1, <1>2, <1>3 DEF Range

\* localFirst keeps every owner.
LEMMA LocalFirstAll ==
  ASSUME read \in Reads
  PROVE  /\ \A k \in DOMAIN obj.nodes : LocalFirst[k] \in Nodes
         /\ \A n \in Range(obj.nodes) : \E k \in DOMAIN obj.nodes : LocalFirst[k] = n
<1>1. /\ 1 \in DOMAIN obj.nodes /\ \A k \in DOMAIN obj.nodes : obj.nodes[k] \in Nodes
  BY NodesRight
<1>2. CASE Self \notin Range(obj.nodes)
  BY <1>1, <1>2, Zenon DEF LocalFirst, Range
<1>3. CASE Self \in Range(obj.nodes)
  <2> DEFINE m == CHOOSE j \in DOMAIN obj.nodes : obj.nodes[j] = Self
  <2>1. m \in DOMAIN obj.nodes /\ obj.nodes[m] = Self
    <3>1. \E j \in DOMAIN obj.nodes : obj.nodes[j] = Self
      BY <1>3, Zenon DEF Range
    <3>2. QED
      BY <3>1, Zenon
  <2>2. LocalFirst = [obj.nodes EXCEPT ![1] = Self, ![m] = obj.nodes[1]]
    BY <1>3, Zenon DEF LocalFirst
  <2> HIDE DEF m
  <2>3. /\ LocalFirst[m] = obj.nodes[1]
        /\ m # 1 => LocalFirst[1] = Self
        /\ \A k \in DOMAIN obj.nodes : k # 1 /\ k # m => LocalFirst[k] = obj.nodes[k]
    BY <1>1, <2>1, <2>2, Zenon
  <2>4. ASSUME NEW n \in Range(obj.nodes) PROVE \E k \in DOMAIN obj.nodes : LocalFirst[k] = n
    <3>1. PICK j \in DOMAIN obj.nodes : obj.nodes[j] = n
      BY <2>4, Zenon DEF Range
    <3>2. CASE j = 1
      BY <2>1, <2>3, <3>1, <3>2, Zenon
    <3>3. CASE j = m /\ m # 1
      BY <1>1, <2>1, <2>3, <3>1, <3>3, Zenon
    <3>4. CASE j # 1 /\ j # m
      BY <2>3, <3>1, <3>4, Zenon
    <3>5. QED
      BY <3>2, <3>3, <3>4, Zenon
  <2>5. \A k \in DOMAIN obj.nodes : LocalFirst[k] \in Nodes
    BY <1>1, <2>1, <2>3, ReadAssumption, Zenon
  <2>6. QED
    BY <2>4, <2>5, Zenon
<1>4. QED
  BY <1>2, <1>3, Zenon

\* The object does not change, nor the owners and their order.
LEMMA SameObject ==
  ASSUME UNCHANGED read
  PROVE  /\ obj' = obj /\ Coded' = Coded /\ Chunks' = Chunks /\ LocalFirst' = LocalFirst
         /\ Needed' = Needed
<1>1. obj' = obj
  BY Zenon DEF obj
<1>2. QED
  BY <1>1 DEF Coded, Chunks, LocalFirst, Needed

\* While the world stands still, so do the steady copies.
LEMMA SameWorld ==
  ASSUME SteadyInv, UNCHANGED <<read, world>>
  PROVE  /\ SteadyInv'
         /\ UNCHANGED <<held, rot, up, steady, cuts>>
<1>1. UNCHANGED <<held, rot, up, steady, cuts>> /\ obj' = obj
  BY SameObject, Zenon DEF world
<1>2. \A n, k : Rotten(n, k)' = Rotten(n, k)
  BY <1>1, Zenon DEF Rotten
<1>3. QED
  BY <1>1, <1>2, Zenon DEF SteadyInv

\* The next chunk has not been asked for yet.
LEMMA NewChunk ==
  ASSUME LoopInv, SourceInv, LoopInv', NEW k, NEW a, NEW sent, ToChunk(k, a, sent),
         UNCHANGED <<read, world>>, k # 0
  PROVE  SourceInv'
<1>1. /\ src' = Memory /\ tried' = {} /\ got' = {} /\ spoilt' = FALSE /\ eof' = FALSE /\ c' = k
  BY Zenon DEF ToChunk
<1>2. UNCHANGED <<held, rot, up, steady, cuts>> /\ SteadyInv'
  BY SameWorld, Zenon DEF SourceInv
<1>3. SourceTypes' /\ SoundInv'
  BY <1>1, <1>2, SameObject, Zenon DEF SourceInv, SourceTypes, SoundInv
<1>4. TriedInv'
  <2>1. 0 \in 0..(Len(obj.nodes) - 1) /\ 1..0 = {}
    BY NodesRight DEF LoopInv, LoopTypes
  <2>2. QED
    BY <1>1, <2>1, SameObject, Zenon DEF TriedInv
<1>5. Survives'
  <2>1. result' \in {"error", "eof"} => c' \in Chunks'
    BY <1>1, Zenon DEF LoopInv, ExactInv
  <2>2. c' \in Chunks' => result' = "none"
    BY <1>1, SameObject, Zenon DEF ToChunk, Outcome
  <2>3. result' \notin {"error", "eof"}
    BY <2>1, <2>2, Zenon
  <2>4. QED
    BY <2>3, Zenon DEF Survives
<1>6. QED
  BY <1>2, <1>3, <1>4, <1>5, Zenon DEF SourceInv

\* No steady copy is left when every owner was asked in vain.
LEMMA NoneSteady ==
  ASSUME read \in Reads, NEW S, S \subseteq Range(obj.nodes) \X Chunks,
         \A k \in DOMAIN obj.nodes : <<LocalFirst[k], c>> \notin S
  PROVE  Cardinality({s \in S : s[2] = c}) < 1
<1>1. ASSUME NEW s \in S, s[2] = c PROVE FALSE
  <2>1. s[1] \in Range(obj.nodes) /\ s = <<s[1], c>>
    BY <1>1
  <2>2. PICK k \in DOMAIN obj.nodes : LocalFirst[k] = s[1]
    BY <2>1, LocalFirstAll, Zenon
  <2>3. QED
    BY <1>1, <2>1, <2>2, Zenon
<1>2. {s \in S : s[2] = c} = {}
  BY <1>1, Zenon
<1>3. Cardinality({s \in S : s[2] = c}) = 0
  BY <1>2, FS_EmptySet, Zenon
<1>4. QED
  BY <1>3

\* The owner asked next is the first that was not asked.
LEMMA AskNext ==
  ASSUME LoopInv, SourceInv, phase = "open", ~Coded, NEW k, k = Cardinality(tried) + 1
  PROVE  /\ k \in DOMAIN obj.nodes
         /\ k # Len(obj.nodes) => k \in 0..(Len(obj.nodes) - 1)
         /\ tried \cup {k} = 1..k
<1>1. PICK m \in 0..(Len(obj.nodes) - 1) : tried = 1..m
  BY Zenon DEF SourceInv, TriedInv
<1>2. Len(obj.nodes) \in Nat \ {0} /\ DOMAIN obj.nodes = 1..Len(obj.nodes)
  BY NodesRight, Zenon DEF LoopInv, LoopTypes
<1>3. Cardinality(tried) = m
  <2>1. m \in Nat /\ 1 \in Int /\ m \in Int
    BY <1>1, <1>2
  <2>2. Cardinality(1..m) = IF 1 > m THEN 0 ELSE m - 1 + 1
    BY <2>1, FS_Interval, Zenon
  <2>3. QED
    BY <1>1, <2>1, <2>2
<1>4. k = m + 1
  BY <1>3, Zenon
<1>5. QED
  BY <1>1, <1>2, <1>4

\* An owner was asked in vain: the next is, or the read fails.
LEMMA PassOver ==
  ASSUME LoopInv, SourceInv, phase = "open", ~Coded, NEW k, k = Cardinality(tried) + 1,
         UNCHANGED <<read, c, src, got, spoilt, held, rot, up, cuts>>, eof' \in BOOLEAN,
         steady' \subseteq steady, <<LocalFirst[k], c>> \notin steady', SteadyInv',
         \/ k = Len(obj.nodes) /\ phase' = "done" /\ tried' = tried
         \/ k # Len(obj.nodes) /\ phase' = "open" /\ tried' = tried \cup {k} /\ result' = result
  PROVE  SourceInv'
<1>1. /\ k \in DOMAIN obj.nodes /\ tried \cup {k} = 1..k
      /\ k # Len(obj.nodes) => k \in 0..(Len(obj.nodes) - 1)
  BY AskNext, Zenon
<1>2. read \in Reads /\ c \in Chunks /\ result = "none" /\ DOMAIN obj.nodes = 1..Len(obj.nodes)
  BY NodesRight, Zenon DEF LoopInv, LoopTypes
<1>3. \A j \in tried \cup {k} : <<LocalFirst[j], c>> \notin steady'
  BY Zenon DEF SourceInv, TriedInv
<1>4. SourceTypes' /\ SoundInv'
  BY <1>1, SameObject DEF SourceInv, SourceTypes, SoundInv
<1>5. CASE k = Len(obj.nodes)
  <2>1. \A j \in DOMAIN obj.nodes : <<LocalFirst[j], c>> \notin steady'
    BY <1>1, <1>2, <1>3, <1>5, Zenon
  <2>2. steady' \subseteq Range(obj.nodes) \X Chunks
    BY Zenon DEF SourceInv, SourceTypes, SteadyInv
  <2>3. Cardinality({s \in steady' : s[2] = c}) < 1
    BY <1>2, <2>1, <2>2, NoneSteady, Zenon
  <2>4. Survives'
    BY <1>2, <2>3, SameObject, Zenon DEF Survives, Needed
  <2>5. TriedInv'
    BY <1>5, Zenon DEF TriedInv
  <2>6. QED
    BY <1>4, <2>4, <2>5, Zenon DEF SourceInv
<1>6. CASE k # Len(obj.nodes)
  <2>1. Survives'
    BY <1>2, <1>6, Zenon DEF Survives
  <2>2. TriedInv'
    <3>1. tried' = 1..k /\ k \in 0..(Len(obj.nodes) - 1)
      BY <1>1, <1>6, Zenon
    <3>2. \A j \in tried' : <<LocalFirst'[j], c'>> \notin steady'
      BY <1>3, <1>6, SameObject, Zenon
    <3>3. QED
      BY <3>1, <3>2, SameObject, Zenon DEF TriedInv
  <2>3. QED
    BY <1>4, <2>1, <2>2, Zenon DEF SourceInv
<1>7. QED
  BY <1>5, <1>6, Zenon

\* A node that does not answer, or has lost the chunk, was not steady.
LEMMA FetchSource == ASSUME LoopInv, SourceInv, FetchChunk PROVE SourceInv'
<1> DEFINE k == Cardinality(tried) + 1
<1>1. phase = "open" /\ ~Coded /\ UNCHANGED <<read, world>>
  BY Zenon DEF FetchChunk
<1>2. SteadyInv' /\ UNCHANGED <<held, rot, up, steady, cuts>>
  BY <1>1, SameWorld, Zenon DEF SourceInv
<1>3. result = "none" /\ k \in DOMAIN obj.nodes /\ LocalFirst[k] \in Nodes
  BY <1>1, AskNext, LocalFirstAll, Zenon DEF LoopInv, LoopTypes
<1>4. CASE Answers(LocalFirst[k], c)
  <2>1. /\ src' = LocalFirst[k] /\ phase' = "body" /\ UNCHANGED <<tried, got, spoilt, eof, result>>
    BY <1>4, Zenon DEF FetchChunk
  <2>2. SourceTypes' /\ SoundInv' /\ TriedInv' /\ Survives'
    BY SMTT(20), <1>1, <1>2, <1>3, <2>1, SameObject
       DEF SourceInv, SourceTypes, SoundInv, TriedInv, Survives
  <2>3. QED
    BY <1>2, <2>2, Zenon DEF SourceInv
<1>5. CASE ~Answers(LocalFirst[k], c)
  <2>1. <<LocalFirst[k], c>> \notin steady'
    BY <1>2, <1>5, Zenon DEF SourceInv, SteadyInv, Answers
  <2>2. /\ UNCHANGED <<c, src, got, spoilt, eof>>
        /\ \/ k = Len(obj.nodes) /\ phase' = "done" /\ tried' = tried
           \/ k # Len(obj.nodes) /\ phase' = "open" /\ tried' = tried \cup {k} /\ result' = result
    BY <1>1, <1>5, Zenon DEF FetchChunk, Fail
  <2>3. eof' \in BOOLEAN
    BY <2>2, Zenon DEF SourceInv, SourceTypes
  <2> HIDE DEF k
  <2>4. QED
    BY <1>1, <1>2, <2>1, <2>2, <2>3, PassOver, Zenon DEF k
<1>6. QED
  BY <1>4, <1>5, Zenon

\* A shard was asked for: it came, or its node was not steady.
LEMMA ShardAsked ==
  ASSUME LoopInv, SourceInv, phase = "open", Coded, NEW k \in DOMAIN obj.nodes,
         UNCHANGED <<read, c, src, spoilt, held, rot, up, cuts, phase, result>>, eof' \in BOOLEAN,
         tried' = tried \cup {k}, steady' \subseteq steady, SteadyInv',
         \/ got' = got \cup {k}
         \/ got' = got /\ <<obj.nodes[k], c>> \notin steady'
  PROVE  SourceInv'
<1>1. result = "none"
  BY Zenon DEF LoopInv, LoopTypes
<1>2. SourceTypes' /\ SoundInv'
  BY SameObject, Zenon DEF SourceInv, SourceTypes, SoundInv
<1>3. TriedInv'
  <2>1. \A j \in tried' \ got' : <<obj.nodes[j], c>> \notin steady'
    BY Zenon DEF SourceInv, TriedInv
  <2>2. QED
    BY <2>1, SameObject, Zenon DEF TriedInv
<1>4. Survives'
  BY <1>1, Zenon DEF Survives
<1>5. QED
  BY <1>2, <1>3, <1>4, Zenon DEF SourceInv

\* fetchShard: a shard that was steady comes.
LEMMA ShardSource ==
  ASSUME LoopInv, SourceInv, NEW k \in DOMAIN obj.nodes, FetchShard(k)
  PROVE  SourceInv'
<1>1. /\ phase = "open" /\ Coded /\ UNCHANGED <<read, world>> /\ tried' = tried \cup {k}
      /\ UNCHANGED <<c, src, spoilt, phase, result, eof>>
  BY Zenon DEF FetchShard
<1>2. SteadyInv' /\ UNCHANGED <<held, rot, up, steady, cuts>>
  BY <1>1, SameWorld, Zenon DEF SourceInv
<1>3. eof' \in BOOLEAN
  BY <1>1, Zenon DEF SourceInv, SourceTypes
<1>4. \/ got' = got \cup {k}
      \/ got' = got /\ <<obj.nodes[k], c>> \notin steady'
  <2>1. CASE Answers(obj.nodes[k], c) /\ ~Rotten(obj.nodes[k], c)
    BY <2>1, Zenon DEF FetchShard
  <2>2. CASE ~(Answers(obj.nodes[k], c) /\ ~Rotten(obj.nodes[k], c))
    <3>1. got' = got
      BY <2>2, Zenon DEF FetchShard
    <3>2. <<obj.nodes[k], c>> \notin steady
      BY <2>2, Zenon DEF SourceInv, SteadyInv, Answers
    <3>3. QED
      BY <1>2, <3>1, <3>2, Zenon
  <2>3. QED
    BY <2>1, <2>2, Zenon
<1>5. QED
  BY <1>1, <1>2, <1>3, <1>4, ShardAsked, Zenon

\* When all were asked for, the steady ones came.
LEMMA FewShards ==
  ASSUME LoopInv, SourceInv, phase = "open", Coded, Wave \subseteq tried,
         ~(Cardinality(got) >= obj.data)
  PROVE  Cardinality({s \in steady : s[2] = c}) < obj.data
<1>1. /\ DOMAIN obj.nodes = 1..Len(obj.nodes) /\ obj.data \in Nat /\ obj.data <= Len(obj.nodes)
      /\ Len(obj.nodes) \in Nat
  BY NodesRight, Zenon DEF LoopInv, LoopTypes
<1>2. IsFiniteSet(1..Len(obj.nodes)) /\ got \subseteq 1..Len(obj.nodes)
  BY <1>1, FS_Interval DEF SourceInv, SourceTypes
<1>3. IsFiniteSet(got) /\ Cardinality(got) \in Nat
  BY <1>2, FS_Subset, FS_CardinalityType, Zenon
<1>4. ~((1..obj.data) \subseteq got)
  <2>1. SUFFICES ASSUME (1..obj.data) \subseteq got PROVE FALSE
    BY Zenon
  <2>2. Cardinality(1..obj.data) = IF 1 > obj.data THEN 0 ELSE obj.data - 1 + 1
    <3>1. obj.data \in Int /\ 1 \in Int
      BY <1>1
    <3>2. QED
      BY <3>1, FS_Interval, Zenon
  <2>3. Cardinality(1..obj.data) <= Cardinality(got)
    BY <1>3, <2>1, FS_Subset, Zenon
  <2>4. QED
    BY <1>1, <1>3, <2>2, <2>3
<1>5. tried = DOMAIN obj.nodes
  <2>1. (1..obj.data) \subseteq tried
    BY <1>1, Zenon DEF Wave
  <2>2. (1..obj.data) \subseteq DOMAIN obj.nodes
    BY <1>1
  <2>3. Wave = DOMAIN obj.nodes
    BY <1>4, <2>1, <2>2, Zenon DEF Wave
  <2>4. QED
    BY <2>3, Zenon DEF SourceInv, SourceTypes
<1> DEFINE f == [k \in got |-> <<obj.nodes[k], c>>]
           T == {f[k] : k \in got}
<1>6. IsFiniteSet(T) /\ Cardinality(T) <= Cardinality(got)
  <2>1. f \in Surjection(got, T)
    BY Zenon DEF Surjection
  <2>2. QED
    BY <1>3, <2>1, FS_Surjection, Zenon
<1>7. {s \in steady : s[2] = c} \subseteq T
  <2>1. ASSUME NEW s \in steady, s[2] = c PROVE s \in T
    <3>1. s[1] \in Range(obj.nodes) /\ s = <<s[1], c>>
      BY <2>1 DEF SourceInv, SourceTypes, SteadyInv
    <3>2. PICK k \in DOMAIN obj.nodes : obj.nodes[k] = s[1]
      BY <3>1, Zenon DEF Range
    <3>3. k \in got
      BY <1>5, <2>1, <3>1, <3>2, Zenon DEF SourceInv, TriedInv
    <3>4. QED
      BY <3>1, <3>2, <3>3, Zenon
  <2>2. QED
    BY <2>1, Zenon
<1> HIDE DEF T
<1>8. /\ Cardinality({s \in steady : s[2] = c}) <= Cardinality(T)
      /\ IsFiniteSet({s \in steady : s[2] = c})
  BY <1>6, <1>7, FS_Subset, Zenon
<1>9. Cardinality({s \in steady : s[2] = c}) \in Nat /\ Cardinality(T) \in Nat
  BY <1>6, <1>8, FS_CardinalityType, Zenon
<1>10. QED
  BY <1>1, <1>3, <1>6, <1>8, <1>9, SMTT(20)

\* decode fails only if too few shards are steady.
LEMMA DecodeSource == ASSUME LoopInv, SourceInv, Decode PROVE SourceInv'
<1>1. /\ phase = "open" /\ Coded /\ Wave \subseteq tried /\ UNCHANGED <<read, world>>
      /\ UNCHANGED <<c, tried, got, spoilt, eof>> /\ phase' # "open"
  BY Zenon DEF Decode, Fail
<1>2. SteadyInv' /\ UNCHANGED <<held, rot, up, steady, cuts>>
  BY <1>1, SameWorld, Zenon DEF SourceInv
<1>3. result = "none" /\ c \in Chunks
  BY <1>1, Zenon DEF LoopInv, LoopTypes
<1>4. src' = Memory /\ src = Memory
  BY <1>1, Zenon DEF Decode, Fail, SourceInv, SoundInv
<1>5. SourceTypes' /\ SoundInv' /\ TriedInv'
  BY <1>1, <1>2, <1>4, SameObject, Zenon DEF SourceInv, SourceTypes, SoundInv, TriedInv
<1>6. Survives'
  <2>1. CASE Cardinality(got) >= obj.data
    BY <1>3, <2>1, Zenon DEF Decode, Survives
  <2>2. CASE ~(Cardinality(got) >= obj.data)
    <3>1. Cardinality({s \in steady : s[2] = c}) < Needed
      BY <1>1, <2>2, FewShards, Zenon DEF Needed
    <3>2. QED
      BY <1>1, <1>2, <1>3, <3>1, SameObject, Zenon DEF Survives
  <2>3. QED
    BY <2>1, <2>2, Zenon
<1>7. QED
  BY <1>2, <1>5, <1>6, Zenon DEF SourceInv

\* Copies that are no longer steady are only dropped from the steady ones.
LEMMA LessSteady ==
  ASSUME SteadyInv, UNCHANGED <<read, held, rot, up>>, steady' \subseteq steady
  PROVE  SteadyInv'
<1>1. \A n, k : Rotten(n, k)' = Rotten(n, k)
  BY SameObject, Zenon DEF Rotten
<1>2. QED
  BY <1>1, Zenon DEF SteadyInv

\* A copy or a shard whose request fails is not steady.
LEMMA CutOpenSource ==
  ASSUME LoopInv, SourceInv, NEW k \in DOMAIN obj.nodes, NEW isEOF \in BOOLEAN, CutOpen(k, isEOF)
  PROVE  SourceInv'
<1> DEFINE node == IF Coded THEN obj.nodes[k] ELSE LocalFirst[k]
<1>1. /\ phase = "open" /\ UNCHANGED <<read, held, rot, up, cuts>>
      /\ steady' = steady \ {<<node, c>>}
  BY Zenon DEF CutOpen
<1>2. UNCHANGED <<c, src, got, spoilt>>
  BY Zenon DEF CutOpen, Fail
<1>3. SteadyInv'
  BY <1>1, LessSteady, Zenon DEF SourceInv
<1>4. eof' \in BOOLEAN
  <2>1. eof' = eof \/ eof' = (eof \/ isEOF)
    BY Zenon DEF CutOpen, Fail
  <2>2. QED
    BY <2>1, Zenon DEF SourceInv, SourceTypes
<1>5. CASE Coded
  <2>1. tried' = tried \cup {k} /\ UNCHANGED <<phase, result>> /\ <<obj.nodes[k], c>> \notin steady'
    BY <1>1, <1>5, Zenon DEF CutOpen
  <2>2. QED
    BY <1>1, <1>2, <1>3, <1>4, <1>5, <2>1, ShardAsked, Zenon
<1>6. CASE ~Coded
  <2>1. /\ k = Cardinality(tried) + 1 /\ <<LocalFirst[k], c>> \notin steady'
        /\ \/ k = Len(obj.nodes) /\ phase' = "done" /\ tried' = tried
           \/ k # Len(obj.nodes) /\ phase' = "open" /\ tried' = tried \cup {k} /\ result' = result
    BY <1>1, <1>6, Zenon DEF CutOpen, Fail
  <2>2. QED
    BY <1>1, <1>2, <1>3, <1>4, <1>6, <2>1, PassOver, Zenon
<1>7. QED
  BY <1>5, <1>6, Zenon

\* A byte is read: it is Bad only if it comes from a copy that has rotted.
LEMMA PassSource == ASSUME LoopInv, SourceInv, PassByte PROVE SourceInv'
<1>1. /\ phase = "body" /\ UNCHANGED <<read, world>> /\ spoilt' = (spoilt \/ ByteRead = Bad)
      /\ UNCHANGED <<c, src, tried, got, eof, phase, result>>
  BY Zenon DEF PassByte
<1>2. SteadyInv' /\ UNCHANGED <<held, rot, up, steady, cuts>>
  BY <1>1, SameWorld, Zenon DEF SourceInv
<1>3. spoilt' \in BOOLEAN
  BY <1>1, Zenon DEF SourceInv, SourceTypes
<1>4. result = "none"
  BY <1>1, Zenon DEF LoopInv, LoopTypes
<1>5. SourceTypes' /\ TriedInv' /\ Survives'
  BY <1>1, <1>2, <1>3, <1>4, SameObject, Zenon DEF SourceInv, SourceTypes, TriedInv, Survives
<1>6. SoundInv'
  <2>1. ASSUME Coded \/ rot = {} PROVE ~spoilt'
    <3>1. <<src, c, i>> \notin rot
      <4>1. CASE Coded
        BY <4>1, ReadAssumption, Zenon DEF SourceInv, SourceTypes, SoundInv, Memory
      <4>2. CASE rot = {}
        BY <4>2, Zenon
      <4>3. QED
        BY <2>1, <4>1, <4>2, Zenon
    <3>2. at \in Nat /\ i \in Nat
      BY EndsRight DEF LoopInv, LoopTypes
    <3>3. ByteRead # Bad
      BY <3>1, <3>2 DEF ByteRead, Byte, Bad
    <3>4. QED
      BY <1>1, <2>1, <3>3, Zenon DEF SourceInv, SoundInv
  <2>2. QED
    BY <1>1, <1>2, <2>1, SameObject DEF SourceInv, SoundInv
<1>7. QED
  BY <1>2, <1>5, <1>6, Zenon DEF SourceInv

\* The end of a chunk: one with a Bad byte came from a copy that has rotted.
LEMMA EndSource == ASSUME LoopInv, SourceInv, LoopInv', EndChunk PROVE SourceInv'
<1>1. phase = "body" /\ UNCHANGED <<read, world>> /\ c \in Chunks /\ c + 1 # 0
  BY ChunkPlace DEF EndChunk, LoopInv, LoopTypes
<1>2. CASE ~spoilt
  BY <1>1, <1>2, NewChunk, Zenon DEF EndChunk
<1>3. CASE spoilt
  <2>1. UNCHANGED <<c, src, tried, got, spoilt, eof>> /\ phase' = "done"
    BY <1>3, Zenon DEF EndChunk, Fail
  <2>2. SteadyInv' /\ UNCHANGED <<held, rot, up, steady, cuts>>
    BY <1>1, SameWorld, Zenon DEF SourceInv
  <2>3. SourceTypes' /\ SoundInv' /\ TriedInv'
    BY <1>1, <2>1, <2>2, SameObject DEF SourceInv, SourceTypes, SoundInv, TriedInv
  <2>4. Survives'
    BY <1>1, <1>3, <2>2, SameObject, Zenon DEF SourceInv, SoundInv, Survives
  <2>5. QED
    BY <2>2, <2>3, <2>4, Zenon DEF SourceInv
<1>4. QED
  BY <1>2, <1>3, Zenon

\* A chunk outside the window is passed over.
LEMMA SkipSource == ASSUME LoopInv, SourceInv, LoopInv', SkipChunk PROVE SourceInv'
<1>1. UNCHANGED <<read, world>> /\ c \in Chunks /\ c + 1 # 0
  BY ChunkPlace DEF SkipChunk, LoopInv, LoopTypes
<1>2. QED
  BY <1>1, NewChunk, Zenon DEF SkipChunk

\* The transfer of a copy is cut; a chunk put together from shards is in memory.
LEMMA CutBodySource ==
  ASSUME LoopInv, SourceInv, NEW isEOF, CutBody(isEOF)
  PROVE  SourceInv'
<1>1. /\ src # Memory /\ UNCHANGED <<read, held, rot, up, steady>> /\ cuts' = cuts + 1
      /\ UNCHANGED <<c, src, tried, got, spoilt, eof>> /\ phase' = "done"
  BY Zenon DEF CutBody, Fail
<1>2. ~Coded /\ cuts' \in Nat /\ cuts' # 0
  BY <1>1 DEF SourceInv, SourceTypes, SoundInv
<1>3. SteadyInv'
  BY <1>1, LessSteady, Zenon DEF SourceInv
<1>4. SourceTypes' /\ SoundInv' /\ TriedInv' /\ Survives'
  BY <1>1, <1>2, SameObject DEF SourceInv, SourceTypes, SoundInv, TriedInv, Survives
<1>5. QED
  BY <1>3, <1>4, Zenon DEF SourceInv

\* Meanwhile copies only cease to be steady.
LEMMA WorldSource ==
  ASSUME LoopInv, SourceInv, phase # "done", UNCHANGED <<read, stream, cuts>>,
         steady' \subseteq steady, up' \subseteq Nodes, held' \subseteq held,
         \A x \in rot' : x[1] \in Nodes, rot \subseteq rot', SteadyInv'
  PROVE  SourceInv'
<1>1. UNCHANGED <<c, src, tried, got, spoilt, eof, phase, result>>
  BY Zenon DEF stream
<1>2. result = "none"
  BY Zenon DEF LoopInv, LoopTypes
<1>3. SourceTypes' /\ SoundInv' /\ Survives'
  BY <1>1, <1>2, SameObject DEF SourceInv, SourceTypes, SoundInv, Survives
<1>4. TriedInv'
  BY <1>1, SameObject, Zenon DEF SourceInv, TriedInv
<1>5. QED
  BY <1>3, <1>4, Zenon DEF SourceInv

\* What rots is no longer steady.
LEMMA RotSource ==
  ASSUME LoopInv, SourceInv, NEW node, NEW k, NEW b, Rot(node, k, b)
  PROVE  SourceInv'
<1>1. /\ phase # "done" /\ UNCHANGED <<read, stream, held, up, cuts>> /\ <<node, k>> \in held
      /\ rot' = rot \cup {<<node, k, b>>} /\ steady' = steady \ {<<node, k>>}
  BY Zenon DEF Rot, Fault
<1>2. node \in Nodes
  BY <1>1, NodesRight, Zenon DEF LoopInv, LoopTypes, SourceInv, SourceTypes
<1>3. \A x \in rot' : x[1] \in Nodes
  BY <1>1, <1>2 DEF SourceInv, SourceTypes
<1>4. SteadyInv'
  <2>1. ASSUME NEW s \in steady' PROVE s \in held' /\ s[1] \in up' /\ ~Rotten(s[1], s[2])'
    <3>1. s \in steady /\ s # <<node, k>> /\ s \in held /\ s[1] \in up /\ ~Rotten(s[1], s[2])
      BY <1>1, <2>1, Zenon DEF SourceInv, SteadyInv
    <3>2. s = <<s[1], s[2]>>
      BY <3>1 DEF SourceInv, SourceTypes
    <3>3. ~Rotten(s[1], s[2])'
      BY <1>1, <3>1, <3>2, SameObject, Zenon DEF Rotten
    <3>4. QED
      BY <1>1, <3>1, <3>3, Zenon
  <2>2. QED
    BY <2>1, Zenon DEF SteadyInv
<1>5. up' \subseteq Nodes
  BY <1>1, Zenon DEF SourceInv, SourceTypes
<1>6. QED
  BY <1>1, <1>3, <1>4, <1>5, WorldSource, Zenon

\* What is lost or out of reach is no longer steady, and what is back does not become so.
LEMMA OthersSource ==
  ASSUME LoopInv, SourceInv, NEW node \in Nodes, NEW k, Lose(node, k) \/ Down(node) \/ Return(node)
  PROVE  SourceInv'
<1>1. /\ phase # "done" /\ UNCHANGED <<read, stream, rot, cuts>>
      /\ steady' \subseteq steady /\ held' \subseteq held
  BY Zenon DEF Lose, Down, Return, Fault
<1>2. up' \subseteq Nodes /\ \A x \in rot' : x[1] \in Nodes
  BY Zenon DEF Lose, Down, Return, SourceInv, SourceTypes
<1>3. \A n, j : Rotten(n, j)' = Rotten(n, j)
  BY <1>1, SameObject, Zenon DEF Rotten
<1>4. \A s \in steady' : s \in held' /\ s[1] \in up'
  BY Zenon DEF Lose, Down, Return, SourceInv, SteadyInv
<1>5. SteadyInv'
  BY <1>1, <1>3, <1>4, Zenon DEF SourceInv, SteadyInv
<1>6. QED
  BY <1>1, <1>2, <1>5, WorldSource, Zenon

\* Every step keeps SourceInv.
LEMMA SourceStep == ASSUME LoopInv, SourceInv, LoopInv', [Next]_vars PROVE SourceInv'
<1>1. ASSUME UNCHANGED vars PROVE SourceInv'
  <2>1. UNCHANGED <<read, off, length, c, src, tried, got, spoilt, eof, phase, result, world>>
    BY <1>1, Zenon DEF vars, stream
  <2>2. SteadyInv' /\ UNCHANGED <<held, rot, up, steady, cuts>>
    BY <2>1, SameWorld, Zenon DEF SourceInv
  <2>3. SourceTypes' /\ SoundInv' /\ TriedInv' /\ Survives'
    BY <2>1, <2>2, SameObject, SMTT(20) DEF SourceInv, SourceTypes, SoundInv, TriedInv, Survives
  <2>4. QED
    BY <2>2, <2>3, Zenon DEF SourceInv
<1>2. ASSUME NEW s \in held, Lose(s[1], s[2]) PROVE SourceInv'
  <2>1. s[1] \in Nodes
    BY <1>2, NodesRight, Zenon DEF LoopInv, LoopTypes, SourceInv, SourceTypes
  <2>2. QED
    BY <1>2, <2>1, OthersSource, Zenon
<1>3. ASSUME NEW node \in Nodes, Down(node) \/ Return(node) PROVE SourceInv'
  BY <1>3, OthersSource, Zenon
<1>4. QED
  BY <1>1, <1>2, <1>3, PassSource, EndSource, SkipSource, FetchSource, ShardSource, DecodeSource,
     CutOpenSource, CutBodySource, RotSource, Zenon
     DEF Next, Done

\* At the start every copy is steady and none was asked for.
LEMMA SourceInit == ASSUME Init PROVE SourceInv
<1>1. LoopInv /\ read \in Reads
  BY LoopInit, Zenon DEF Init
<1>2. /\ src = Memory /\ tried = {} /\ got = {} /\ spoilt = FALSE /\ eof = FALSE
      /\ held = Range(obj.nodes) \X Chunks /\ rot = {} /\ up = Nodes /\ steady = held /\ cuts = 0
  BY Zenon DEF Init
<1>3. Range(obj.nodes) \subseteq Nodes /\ 0 \in 0..(Len(obj.nodes) - 1) /\ 1..0 = {}
  BY <1>1, NodesRight
<1>4. SourceTypes
  BY <1>2, Zenon DEF SourceTypes
<1>5. SteadyInv
  BY <1>2, <1>3, Zenon DEF SteadyInv, Rotten
<1>6. SoundInv
  BY <1>2, Zenon DEF SoundInv
<1>7. TriedInv
  BY <1>2, <1>3, Zenon DEF TriedInv
<1>8. Survives
  <2>1. SUFFICES ASSUME c # 0, result \in {"error", "eof"} PROVE FALSE
    BY Zenon DEF Survives
  <2>2. c \in Chunks
    BY <1>1, <2>1, Zenon DEF LoopInv, ExactInv
  <2>3. c = 1 /\ result = Outcome(1, <<>>)
    BY <2>1, Zenon DEF Init
  <2>4. QED
    BY <2>1, <2>2, <2>3, Zenon DEF Outcome
<1>9. QED
  BY <1>4, <1>5, <1>6, <1>7, <1>8, Zenon DEF SourceInv

\* Every read keeps the invariant on its sources.
LEMMA ReadSource == Spec => []SourceInv
BY SourceInit, SourceStep, ReadLoop, PTL DEF Spec

-----------------------------------------------------------------------------
\* A read that has begun fails only at a chunk of which fewer copies, or shards, than it
\* takes were sound and within reach all the while, or a copy rotted or was cut when
\* bytes of it were out: for any number of nodes, chunks and faults, and any code.
THEOREM ReadsSurvive == Spec => []Survives
<1>1. ASSUME SourceInv PROVE Survives
  BY <1>1, Zenon DEF SourceInv
<1>2. QED
  BY <1>1, ReadSource, PTL

\* A request is refused exactly when what it names is not there: parseRange and partWindow
\* for a read, parseCopyRange for a copy.
THEOREM RefusalsAreRight == Spec => []RefusedRightly
<1>1. ASSUME LoopInv PROVE RefusedRightly
  BY <1>1, AskedRefused, Zenon DEF LoopInv, LoopTypes, WindowInv, RefusedRightly
<1>2. QED
  BY <1>1, ReadLoop, PTL

\* Whatever part and range a request names, the window that is read is the bytes it names;
\* a range that ends at the largest integer is left out, for parseRange adds one to it.
THEOREM WindowsAreRight == Spec => [](read.range.last < MaxInt => WindowIsWanted)
<1>1. ASSUME LoopInv, read.range.last < MaxInt PROVE WindowIsWanted
  <2>1. read \in Reads /\ off = Asked.off /\ length = Asked.length
    BY <1>1, Zenon DEF LoopInv, LoopTypes, WindowInv
  <2>2. SUFFICES ASSUME result # "refused" PROVE c # 0 /\ off..(off + length - 1) = Wanted
    BY Zenon DEF WindowIsWanted
  <2>3. Asked.ok
    BY <1>1, <2>2, Zenon DEF LoopInv, WindowInv
  <2>4. MaxInt \in Nat /\ read.range.last # MaxInt
    BY <1>1, ReadAssumption
  <2>5. /\ Asked.length >= 0 /\ Asked.length \in Int
        /\ Asked.off..(Asked.off + Asked.length - 1) = Wanted
    BY <2>1, <2>3, <2>4, AskedRight, Zenon
  <2>6. c # 0
    BY <1>1, <2>1, <2>2, <2>5 DEF LoopInv, WindowInv
  <2>7. QED
    BY <2>1, <2>5, <2>6, Zenon
<1>2. QED
  BY <1>1, ReadLoop, PTL

\* The types, with the same proviso: a range that ends at the largest integer has a
\* negative length.
THEOREM ReadTypes == Spec => [](read.range.last < MaxInt => TypeOK)
<1>1. ASSUME LoopInv, SourceInv, read.range.last < MaxInt PROVE TypeOK
  <2>1. /\ read \in Reads /\ off = Asked.off /\ length = Asked.length /\ off \in Int /\ length \in Int
        /\ c # 0 => off >= 0 /\ length >= 0 /\ off + length <= obj.size
    BY <1>1, Zenon DEF LoopInv, LoopTypes, WindowInv
  <2>2. obj.size \in Nat /\ Len(out) \in Nat /\ Len(back) \in Nat
    BY <1>1, <2>1, EndsRight, SMTT(20) DEF LoopInv, LoopTypes, Bytes
  <2>3. off \in 0..obj.size /\ length \in 0..obj.size
    <3>1. CASE ~Asked.ok
      BY <2>1, <2>2, <3>1, AskedFailed, SMTT(20) DEF Failed
    <3>2. CASE Asked.ok
      <4>1. read.range.last # MaxInt
        BY <1>1, ReadAssumption
      <4>2. /\ Asked.off \in 0..obj.size /\ Asked.length >= 0 /\ Asked.length \in Int
            /\ Asked.off + Asked.length <= obj.size
        BY <2>1, <3>2, <4>1, AskedRight, Zenon
      <4>3. QED
        BY <2>1, <2>2, <4>2, SMTT(20)
    <3>3. QED
      BY <3>1, <3>2, Zenon
  <2>4. Len(back) <= 1 /\ Len(out) + Len(back) <= length
    BY <1>1, <2>2, <2>3 DEF LoopInv, WindowInv, CountInv
  <2>5. QED
    BY <1>1, <2>3, <2>4, Zenon DEF LoopInv, LoopTypes, Bytes, SourceInv, SourceTypes, SteadyInv, TypeOK
<1>2. QED
  BY <1>1, ReadLoop, ReadSource, PTL
=====================
