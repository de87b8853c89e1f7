---------------------------- MODULE ReadDirProofs ----------------------------
(***************************************************************************)
(* Reading a directory page by page: the pages of a directory nobody       *)
(* changes make it up, what a removal can hide and an addition repeat is   *)
(* bounded by how many there were, and Windows' pages make up one snapshot *)
(* - for every set of names, page size and number of changes.              *)
(*                                                                         *)
(* An offset is only an index into a list that has moved on since.  So     *)
(* the invariant compares, for each index, the names before (behind) it in *)
(* the list the handler took with those before (behind) it in the          *)
(* directory as it is now: each removal brings one name more before an     *)
(* index, each addition one more behind it.  What the reader has missed or *)
(* seen twice so far is counted against the changes that were made before  *)
(* the list was taken, the rest against those made since.                  *)
(***************************************************************************)
EXTENDS ReadDir, SequenceTheorems, FiniteSetTheorems, TLAPS

Whole(d) == <<Dot, DotDot>> \o d
All == Whole(dir)
Once(s) == \A j, k \in DOMAIN s : s[j] = s[k] => j = k
PageNames == [k \in DOMAIN page |-> page[k].name]
Seen == got \o PageNames

Before(s, i) == {s[k] : k \in {j \in DOMAIN s : j <= i}}
Behind(s, i) == {s[k] : k \in {j \in DOMAIN s : j > i}}
Begins(s, t) == Len(s) <= Len(t) /\ \A k \in DOMAIN s : s[k] = t[k]
Few(S, n) == IsFiniteSet(S) /\ Cardinality(S) <= n

\* The directory without its kth name.
Without(d, k) == SubSeq(d, 1, k - 1) \o SubSeq(d, k + 1, Len(d))

Types ==
    /\ os \in {"linux", "windows"}
    /\ dir \in Orders
    /\ dots \in {<<>>, <<Dot>>, <<DotDot>>, <<Dot, DotDot>>}
    /\ names \in Seq(Name \union Dots) /\ Once(names)
    /\ index \in Nat
    /\ page \in Seq([name : Name \union Dots, next : Nat])
    /\ step \in {"asking", "listing", "stating", "paging", "ended", "failed"}
    /\ offset \in Nat
    /\ got \in Seq(Name \union Dots)
    /\ there \subseteq Elements(dir)
    /\ additions \in Nat /\ removals \in Nat

\* Where a handler can be, and that a page goes on to where it is.
Places ==
    /\ os = "linux" =>
          /\ step \notin {"stating", "paging"}
          /\ step = "listing" /\ page # <<>> =>
                index <= Len(names) /\ page[Len(page)].next = index
    /\ os = "windows" =>
          /\ step # "listing"
          /\ names \in Seq(Name)

\* Without a change the reader is where its offset says.
Exact ==
    os = "linux" /\ additions + removals = 0 =>
        /\ Begins(got, All)
        /\ step = "asking" => offset = Len(got)
        /\ step = "listing" => names = All /\ index = Len(Seen) /\ Begins(Seen, All)
        /\ step = "ended" => got = All

Missed(list, i, seen) == (Before(list, i) \intersect there) \ Elements(seen)
MovedForward(i) == (Before(All, i) \intersect there) \ Before(names, i)

Hidden ==
    os = "linux" =>
        /\ step = "asking" => Few(Missed(All, offset, got), removals)
        /\ step = "listing" =>
              /\ there \subseteq Elements(names)
              /\ \E r \in 0..removals :
                    /\ Few(Missed(names, index, Seen), r)
                    /\ \A i \in 0..Len(names) : Few(MovedForward(i), removals - r)
        /\ step = "ended" => Few(there \ Elements(got), removals)

\* What the reader has had twice, and what it will have had twice.
Due(list, i, seen) ==
    Len(seen) + Cardinality(Behind(list, i) \intersect Elements(seen))
        - Cardinality(Elements(seen))
MovedBack(i) == Behind(All, i) \ Behind(names, i)

Repeated ==
    os = "linux" =>
        /\ EachAdditionRepeatsAtMostOne
        /\ step = "asking" => Due(All, offset, got) <= additions
        /\ step = "listing" =>
              \E a \in 0..additions :
                 /\ Due(names, index, Seen) <= a
                 /\ \A i \in 0..Len(names) : Few(MovedBack(i), additions - a)

Snapshot ==
    os = "windows" =>
        /\ step \in {"stating", "failed"} => got = <<>> /\ offset = 0
        /\ step \in {"asking", "paging", "ended"} =>
              /\ Ascending(names)
              /\ Begins(got, names)
              /\ offset = IF got = <<>> THEN 0 ELSE names[Len(got)]
        /\ step # "asking" \/ got # <<>> => there \subseteq Elements(names)
        /\ step = "ended" => Len(got) = Len(names)

Inv == Types /\ Places /\ Exact /\ Hidden /\ Repeated /\ Snapshot
-----------------------------------------------------------------------------
(* The orders of the names are the sequences of names without a repetition: *)
(* none is longer than there are names.                                     *)
LEMMA OrderIs ==
    ASSUME NEW d
    PROVE  d \in Orders <=> d \in Seq(Name) /\ Once(d)
<1>1. ASSUME d \in Orders
      PROVE  d \in Seq(Name) /\ Once(d)
  <2>1. PICK n \in 0..Cardinality(Name) : d \in [1..n -> Name]
    BY <1>1 DEF Orders
  <2>2. Once(d)
    BY <1>1 DEF Orders, Once
  <2>3. n \in Nat
    BY FS_CardinalityType, PageAssumption DEF PageAssumption
  <2> QED
    BY <2>1, <2>2, <2>3, SeqDef
<1>2. ASSUME d \in Seq(Name), Once(d)
      PROVE  d \in Orders
  <2>1. d \in [1..Len(d) -> Name] /\ Len(d) \in Nat
    BY <1>2
  <2>2. d \in Injection(1..Len(d), Name)
    BY <1>2, <2>1 DEF Once, Injection, IsInjective
  <2>3. Cardinality(1..Len(d)) <= Cardinality(Name)
    BY <2>2, FS_Injection, PageAssumption DEF PageAssumption
  <2>4. Cardinality(1..Len(d)) = Len(d)
    <3>1. Cardinality(1..Len(d)) = IF 1 > Len(d) THEN 0 ELSE Len(d) - 1 + 1
      BY <2>1, FS_Interval
    <3> QED
      BY <2>1, <3>1
  <2>5. Len(d) \in 0..Cardinality(Name)
    BY <2>1, <2>3, <2>4, FS_CardinalityType, PageAssumption DEF PageAssumption
  <2>6. d \in UNION {[1..n -> Name] : n \in 0..Cardinality(Name)}
    BY <2>1, <2>5
  <2> QED
    BY <1>2, <2>6 DEF Orders, Once
<1> QED
  BY <1>1, <1>2

(* A whole listing: the two dots, then the directory.                       *)
LEMMA WholeIs ==
    ASSUME NEW d \in Seq(Name)
    PROVE  /\ Whole(d) \in Seq(Name \union Dots)
           /\ Len(Whole(d)) = Len(d) + 2
           /\ \A k \in 1..(Len(d) + 2) :
                 Whole(d)[k] = IF k = 1 THEN Dot ELSE IF k = 2 THEN DotDot ELSE d[k - 2]
           /\ Once(d) => Once(Whole(d))
           /\ Elements(Whole(d)) = Elements(d) \union Dots
<1> DEFINE w == Whole(d)
<1>1. <<Dot, DotDot>> \in Seq(Name \union Dots) /\ d \in Seq(Name \union Dots)
  BY DEF Dots
<1>2. w \in Seq(Name \union Dots) /\ Len(w) = Len(d) + 2
  BY <1>1 DEF Whole
<1>3. ASSUME NEW k \in 1..(Len(d) + 2)
      PROVE  w[k] = IF k = 1 THEN Dot ELSE IF k = 2 THEN DotDot ELSE d[k - 2]
  BY <1>1 DEF Whole
<1>4. DOMAIN w = 1..(Len(d) + 2) /\ DOMAIN d = 1..Len(d)
  BY <1>2
<1>5. \A k \in 1..Len(d) : d[k] \in Name
  OBVIOUS
<1>6. Dot \notin Name /\ DotDot \notin Name /\ Dot # DotDot
  BY PageAssumption DEF PageAssumption
<1> HIDE DEF w
<1>7. ASSUME Once(d)
      PROVE  Once(w)
  <2>1. SUFFICES ASSUME NEW j \in 1..(Len(d) + 2), NEW k \in 1..(Len(d) + 2), w[j] = w[k]
                 PROVE  j = k
    BY <1>4 DEF Once
  <2>2. ASSUME NEW i \in 1..(Len(d) + 2)
        PROVE  \/ i = 1 /\ w[i] = Dot
               \/ i = 2 /\ w[i] = DotDot
               \/ i - 2 \in DOMAIN d /\ w[i] = d[i - 2] /\ w[i] \in Name
    <3>1. i = 1 \/ i = 2 \/ i - 2 \in DOMAIN d
      BY <1>4
    <3> QED
      BY <3>1, <1>3, <1>4, <1>5
  <2>3. CASE w[j] \in Name
    <3>1. j - 2 \in DOMAIN d /\ k - 2 \in DOMAIN d /\ d[j - 2] = d[k - 2]
      BY <2>1, <2>2, <2>3, <1>6
    <3>2. j - 2 = k - 2
      BY <3>1, <1>7 DEF Once
    <3> QED
      BY <3>2
  <2>4. CASE w[j] \notin Name
    BY <2>1, <2>2, <2>4, <1>6
  <2> QED
    BY <2>3, <2>4
<1>8. Elements(w) = Elements(d) \union Dots
  <2>1. \A k \in DOMAIN w : w[k] \in Elements(d) \union Dots
    BY <1>3, <1>4 DEF Elements, Dots
  <2>2. w[1] = Dot /\ w[2] = DotDot /\ \A k \in DOMAIN d : w[k + 2] = d[k] /\ k + 2 \in DOMAIN w
    BY <1>3, <1>4
  <2>3. 1 \in DOMAIN w /\ 2 \in DOMAIN w
    BY <1>4
  <2> QED
    BY <2>1, <2>2, <2>3 DEF Elements, Dots
<1> QED
  BY <1>2, <1>3, <1>7, <1>8 DEF w

(* names.insert of the listing, and the same of the directory.              *)
LEMMA InsertIs ==
    ASSUME NEW S, NEW s \in Seq(S), NEW k \in 0..Len(s), NEW n \in S
    PROVE  /\ Insert(s, k, n) \in Seq(S)
           /\ Len(Insert(s, k, n)) = Len(s) + 1
           /\ \A j \in 1..(Len(s) + 1) :
                 Insert(s, k, n)[j] = IF j <= k THEN s[j] ELSE IF j = k + 1 THEN n ELSE s[j - 1]
<1> DEFINE front == SubSeq(s, 1, k)
           back == SubSeq(s, k + 1, Len(s))
<1>1. front \in Seq(S) /\ Len(front) = k /\ \A j \in 1..k : front[j] = s[j]
  OBVIOUS
<1>2. /\ back \in Seq(S) /\ Len(back) = Len(s) - k
      /\ \A j \in 1..(Len(s) - k) : back[j] = s[k + j]
  OBVIOUS
<1>3. Insert(s, k, n) = (front \o <<n>>) \o back
  BY DEF Insert
<1> HIDE DEF front, back
<1>4. /\ front \o <<n>> \in Seq(S) /\ Len(front \o <<n>>) = k + 1
      /\ \A j \in 1..(k + 1) : (front \o <<n>>)[j] = IF j <= k THEN s[j] ELSE n
  BY <1>1
<1> DEFINE fn == front \o <<n>>
<1> HIDE DEF fn
<1>5. /\ fn \o back \in Seq(S) /\ Len(fn \o back) = Len(s) + 1
      /\ \A j \in 1..(Len(s) + 1) :
            (fn \o back)[j] = IF j <= k + 1 THEN fn[j] ELSE back[j - (k + 1)]
  BY <1>2, <1>4 DEF fn
<1>6. ASSUME NEW j \in 1..(Len(s) + 1), j > k + 1
      PROVE  back[j - (k + 1)] = s[j - 1]
  <2>1. j - (k + 1) \in 1..(Len(s) - k)
    BY <1>6
  <2> QED
    BY <2>1, <1>2
<1> QED
  BY <1>3, <1>4, <1>5, <1>6 DEF fn

(* Whichever of the dots the device lists, the list has both, in front:     *)
(* filesystem.rs:391-396.                                                   *)
LEMMA BothDots ==
    ASSUME NEW d \in Seq(Name), NEW ds \in {<<>>, <<Dot>>, <<DotDot>>, <<Dot, DotDot>>}
    PROVE  WithDots(ds \o d) = Whole(d)
<1> DEFINE S == Name \union Dots
           s == ds \o d
           one == IF Dot \in Elements(s) THEN s ELSE Insert(s, 0, Dot)
           two == IF DotDot \in Elements(one) THEN one ELSE Insert(one, 1, DotDot)
<1>1. WithDots(ds \o d) = two
  BY DEF WithDots
<1>2. Dot \notin Name /\ DotDot \notin Name /\ Dot # DotDot /\ Dot \in S /\ DotDot \in S
  BY PageAssumption DEF PageAssumption, Dots
<1>3. ds \in Seq(S) /\ d \in Seq(S) /\ Len(ds) \in 0..2
  <2>1. d \in Seq(S)
    BY SeqMonotonic
  <2>2. ds = <<>> \/ ds = <<Dot>> \/ ds = <<DotDot>> \/ ds = <<Dot, DotDot>>
    OBVIOUS
  <2>3. Dot \in S /\ DotDot \in S
    BY <1>2
  <2> HIDE DEF S
  <2>4. CASE ds = <<>>
    BY <2>1, <2>4
  <2>5. CASE ds = <<Dot>>
    BY <2>1, <2>3, <2>5
  <2>6. CASE ds = <<DotDot>>
    BY <2>1, <2>3, <2>6
  <2>7. CASE ds = <<Dot, DotDot>>
    BY <2>1, <2>3, <2>7
  <2> QED
    BY <2>2, <2>4, <2>5, <2>6, <2>7
<1>4. /\ s \in Seq(S) /\ Len(s) = Len(ds) + Len(d)
      /\ \A k \in 1..(Len(ds) + Len(d)) : s[k] = IF k <= Len(ds) THEN ds[k] ELSE d[k - Len(ds)]
  BY <1>3
<1>5. \A k \in 1..Len(d) : d[k] \in Name
  OBVIOUS
<1> HIDE DEF S, s
<1>6. \A x \in Dots : x \in Elements(s) <=> \E k \in 1..Len(ds) : ds[k] = x
  <2>1. ASSUME NEW k \in 1..(Len(ds) + Len(d)), k > Len(ds)
        PROVE  s[k] \in Name
    <3>1. k - Len(ds) \in 1..Len(d)
      BY <2>1, <1>3
    <3> QED
      BY <3>1, <2>1, <1>4, <1>5
  <2>2. DOMAIN s = 1..(Len(ds) + Len(d))
    BY <1>4
  <2>3. SUFFICES ASSUME NEW x \in Dots
                 PROVE  x \in Elements(s) <=> \E k \in 1..Len(ds) : ds[k] = x
    OBVIOUS
  <2>4. x \notin Name
    BY <1>2 DEF Dots
  <2>5. ASSUME NEW k \in 1..(Len(ds) + Len(d)), s[k] = x
        PROVE  k \in 1..Len(ds) /\ ds[k] = x
    BY <2>1, <2>4, <2>5, <1>3, <1>4
  <2>6. ASSUME NEW k \in 1..Len(ds)
        PROVE  k \in DOMAIN s /\ s[k] = ds[k]
    BY <2>2, <1>3, <1>4
  <2> QED
    BY <2>2, <2>5, <2>6 DEF Elements
<1>7. /\ Dot \in Elements(s) <=> ds \in {<<Dot>>, <<Dot, DotDot>>}
      /\ DotDot \in Elements(s) <=> ds \in {<<DotDot>>, <<Dot, DotDot>>}
  BY <1>6, <1>2 DEF Dots
<1>8. /\ one \in Seq(S)
      /\ Len(one) >= 1 /\ one[1] = Dot
      /\ DotDot \in Elements(one) <=> ds \in {<<DotDot>>, <<Dot, DotDot>>}
      /\ Len(one) = Len(d) + IF ds \in {<<DotDot>>, <<Dot, DotDot>>} THEN 2 ELSE 1
      /\ ds \in {<<DotDot>>, <<Dot, DotDot>>} =>
            one[2] = DotDot /\ \A k \in 3..(Len(d) + 2) : one[k] = d[k - 2]
      /\ ds \notin {<<DotDot>>, <<Dot, DotDot>>} =>
            \A k \in 2..(Len(d) + 1) : one[k] = d[k - 1]
  <2>1. CASE Dot \in Elements(s)
    <3>1. one = s
      BY <2>1
    <3> HIDE DEF one
    <3>2. ds = <<Dot>> \/ ds = <<Dot, DotDot>>
      BY <2>1, <1>7
    <3>3. CASE ds = <<Dot>>
      BY <3>1, <3>3, <1>2, <1>4, <1>7
    <3>4. CASE ds = <<Dot, DotDot>>
      BY <3>1, <3>4, <1>2, <1>4, <1>7
    <3> QED
      BY <3>2, <3>3, <3>4
  <2>2. CASE Dot \notin Elements(s)
    <3>1. one = Insert(s, 0, Dot)
      BY <2>2
    <3>2. /\ one \in Seq(S) /\ Len(one) = Len(s) + 1
          /\ \A j \in 1..(Len(s) + 1) :
                one[j] = IF j <= 0 THEN s[j] ELSE IF j = 0 + 1 THEN Dot ELSE s[j - 1]
      <4>1. 0 \in 0..Len(s) /\ s \in Seq(S) /\ Dot \in S
        BY <1>2, <1>3, <1>4
      <4>2. /\ Insert(s, 0, Dot) \in Seq(S) /\ Len(Insert(s, 0, Dot)) = Len(s) + 1
            /\ \A j \in 1..(Len(s) + 1) :
                  Insert(s, 0, Dot)[j] =
                      IF j <= 0 THEN s[j] ELSE IF j = 0 + 1 THEN Dot ELSE s[j - 1]
        BY <4>1, InsertIs
      <4> QED
        BY <3>1, <4>2
    <3> HIDE DEF one
    <3>3. one[1] = Dot /\ \A j \in 2..(Len(s) + 1) : one[j] = s[j - 1]
      BY <3>2, <1>4, <1>3
    <3>4. DOMAIN one = 1..(Len(s) + 1) /\ DOMAIN s = 1..Len(s) /\ Len(s) \in Nat
      BY <3>2, <1>4
    <3>5. DotDot \in Elements(one) <=> DotDot \in Elements(s)
      <4>1. ASSUME NEW j \in 1..Len(s)
            PROVE  j + 1 \in DOMAIN one /\ one[j + 1] = s[j]
        BY <3>3, <3>4
      <4>2. ASSUME NEW j \in DOMAIN one, one[j] = DotDot
            PROVE  j - 1 \in DOMAIN s /\ s[j - 1] = DotDot
        BY <4>2, <3>3, <3>4, <1>2
      <4> QED
        BY <4>1, <4>2, <3>4 DEF Elements
    <3>6. ds \in {<<>>, <<DotDot>>}
      BY <2>2, <1>7
    <3>7. CASE ds = <<>>
      BY <3>7, <3>2, <3>3, <3>4, <3>5, <1>4, <1>7
    <3>8. CASE ds = <<DotDot>>
      BY <3>8, <3>2, <3>3, <3>4, <3>5, <1>3, <1>4, <1>7
    <3> QED
      BY <3>6, <3>7, <3>8
  <2> QED
    BY <2>1, <2>2
<1> HIDE DEF one
<1>9. /\ two \in Seq(S) /\ Len(two) = Len(d) + 2
      /\ \A k \in 1..(Len(d) + 2) :
            two[k] = IF k = 1 THEN Dot ELSE IF k = 2 THEN DotDot ELSE d[k - 2]
  <2>1. CASE ds \in {<<DotDot>>, <<Dot, DotDot>>}
    BY <2>1, <1>8
  <2>2. CASE ds \notin {<<DotDot>>, <<Dot, DotDot>>}
    <3>1. two = Insert(one, 1, DotDot) /\ 1 \in 0..Len(one)
      BY <2>2, <1>8
    <3>2. /\ two \in Seq(S) /\ Len(two) = Len(one) + 1
          /\ \A j \in 1..(Len(one) + 1) :
                two[j] = IF j <= 1 THEN one[j] ELSE IF j = 1 + 1 THEN DotDot ELSE one[j - 1]
      <4>1. 1 \in 0..Len(one) /\ one \in Seq(S) /\ DotDot \in S
        BY <3>1, <1>2, <1>8
      <4>2. /\ Insert(one, 1, DotDot) \in Seq(S) /\ Len(Insert(one, 1, DotDot)) = Len(one) + 1
            /\ \A j \in 1..(Len(one) + 1) :
                  Insert(one, 1, DotDot)[j] =
                      IF j <= 1 THEN one[j] ELSE IF j = 1 + 1 THEN DotDot ELSE one[j - 1]
        BY <4>1, InsertIs
      <4> QED
        BY <3>1, <4>2
    <3> HIDE DEF two
    <3>3. Len(one) = Len(d) + 1 /\ Len(d) \in Nat /\ one[1] = Dot
      BY <2>2, <1>8
    <3>4. \A k \in 2..(Len(d) + 1) : one[k] = d[k - 1]
      BY <2>2, <1>8
    <3>5. ASSUME NEW k \in 3..(Len(d) + 2)
          PROVE  two[k] = d[k - 2]
      <4>1. k - 1 \in 2..(Len(d) + 1) /\ (k - 1) - 1 = k - 2 /\ two[k] = one[k - 1]
        BY <3>2, <3>3
      <4> QED
        BY <4>1, <3>4
    <3> QED
      BY <3>2, <3>3, <3>5
  <2> QED
    BY <2>1, <2>2
<1> HIDE DEF two
<1>10. two = Whole(d)
  <2>1. Whole(d) \in Seq(S) /\ Len(Whole(d)) = Len(two)
    BY <1>9, WholeIs DEF S
  <2>2. \A k \in 1..Len(two) : two[k] = Whole(d)[k]
    BY <1>9, WholeIs
  <2> QED
    BY <2>1, <2>2, <1>9, SeqEqual
<1> QED
  BY <1>1, <1>10

-----------------------------------------------------------------------------
(* Counting: a part of few is as few, and two of them are their sum.        *)
LEMMA FewWithin ==
    ASSUME NEW S, NEW T, T \subseteq S, NEW n \in Int, NEW m \in Int, n <= m, Few(S, n)
    PROVE  Few(T, m)
<1>1. IsFiniteSet(T) /\ Cardinality(T) <= Cardinality(S)
  BY FS_Subset DEF Few
<1>2. Cardinality(T) \in Nat /\ Cardinality(S) \in Nat
  BY <1>1, FS_CardinalityType DEF Few
<1> QED
  BY <1>1, <1>2 DEF Few

LEMMA FewTogether ==
    ASSUME NEW S, NEW T, NEW n \in Int, NEW m \in Int, Few(S, n), Few(T, m)
    PROVE  Few(S \union T, n + m)
<1>1. /\ IsFiniteSet(S \union T)
      /\ Cardinality(S \union T) = Cardinality(S) + Cardinality(T) - Cardinality(S \intersect T)
  BY FS_Union DEF Few
<1>2. IsFiniteSet(S \intersect T)
  <2>1. S \intersect T \in SUBSET S
    OBVIOUS
  <2> QED
    BY <2>1, FS_Subset DEF Few
<1>3. Cardinality(S) \in Nat /\ Cardinality(T) \in Nat /\ Cardinality(S \intersect T) \in Nat
  BY <1>2, FS_CardinalityType DEF Few
<1> QED
  BY <1>1, <1>3 DEF Few

LEMMA FewNone == Few({}, 0)
BY FS_EmptySet DEF Few

LEMMA FewOne == \A x : Few({x}, 1)
<1> TAKE x
<1>1. IsFiniteSet({x}) /\ Cardinality({x}) = 1
  BY FS_Singleton
<1> QED
  BY <1>1 DEF Few

LEMMA FewMore ==
    ASSUME NEW S, NEW x, NEW n \in Int, Few(S, n)
    PROVE  Few(S \union {x}, n + 1)
<1>1. Few({x}, 1)
  BY FewOne
<1> QED
  BY <1>1, FewTogether

(* The elements of a list: no more than its length, and as many when none   *)
(* comes twice.                                                             *)
LEMMA ElementsAre ==
    ASSUME NEW S, NEW s \in Seq(S)
    PROVE  /\ IsFiniteSet(Elements(s))
           /\ Cardinality(Elements(s)) \in Nat
           /\ Once(s) => Cardinality(Elements(s)) = Len(s)
<1>1. s \in [1..Len(s) -> S] /\ DOMAIN s = 1..Len(s) /\ Len(s) \in Nat
  OBVIOUS
<1>2. IsFiniteSet(1..Len(s)) /\ Cardinality(1..Len(s)) = Len(s)
  <2>1. /\ IsFiniteSet(1..Len(s))
        /\ Cardinality(1..Len(s)) = IF 1 > Len(s) THEN 0 ELSE Len(s) - 1 + 1
    BY <1>1, FS_Interval
  <2> QED
    BY <2>1, <1>1
<1>3. s \in Surjection(1..Len(s), Elements(s))
  BY <1>1 DEF Surjection, Elements
<1>4. /\ IsFiniteSet(Elements(s))
      /\ Cardinality(Elements(s)) = Cardinality(1..Len(s)) <=>
            s \in Injection(1..Len(s), Elements(s))
  BY <1>2, <1>3, FS_Surjection
<1>5. Once(s) => s \in Injection(1..Len(s), Elements(s))
  BY <1>1, <1>3 DEF Surjection, Injection, IsInjective, Once
<1> QED
  BY <1>2, <1>4, <1>5, FS_CardinalityType

(* An addition moves the names behind it back: before an index there is no  *)
(* more than the name that came, behind it no more than one.                *)
LEMMA AdditionMoves ==
    ASSUME NEW d \in Seq(Name), Once(d), NEW k \in 0..Len(d), NEW n \in Name,
           n \notin Elements(d), NEW e, e = Insert(d, k, n)
    PROVE  /\ e \in Seq(Name) /\ Once(e)
           /\ Elements(e) = Elements(d) \union {n}
           /\ \A i \in Nat :
                 /\ Before(Whole(e), i) \subseteq Before(Whole(d), i) \union {n}
                 /\ \E x : Behind(Whole(e), i) \subseteq Behind(Whole(d), i) \union {x}
<1>1. /\ e \in Seq(Name) /\ Len(e) = Len(d) + 1
      /\ \A j \in 1..(Len(d) + 1) :
            e[j] = IF j <= k THEN d[j] ELSE IF j = k + 1 THEN n ELSE d[j - 1]
  <2>1. /\ Insert(d, k, n) \in Seq(Name) /\ Len(Insert(d, k, n)) = Len(d) + 1
        /\ \A j \in 1..(Len(d) + 1) :
              Insert(d, k, n)[j] = IF j <= k THEN d[j] ELSE IF j = k + 1 THEN n ELSE d[j - 1]
    <3>1. d \in Seq(Name) /\ k \in 0..Len(d) /\ n \in Name
      OBVIOUS
    <3> QED
      BY ONLY <3>1, InsertIs
  <2> QED
    BY <2>1
<1>2. DOMAIN e = 1..(Len(d) + 1) /\ DOMAIN d = 1..Len(d) /\ Len(d) \in Nat
  BY <1>1
<1>3. ASSUME NEW j \in DOMAIN e
      PROVE  \/ j <= k /\ j \in DOMAIN d /\ e[j] = d[j]
             \/ j = k + 1 /\ e[j] = n
             \/ j > k + 1 /\ j - 1 \in DOMAIN d /\ e[j] = d[j - 1]
  BY <1>1, <1>2
<1>4. \A j \in DOMAIN d : d[j] # n
  BY DEF Elements
<1>5. Once(e)
  <2>1. SUFFICES ASSUME NEW j \in DOMAIN e, NEW m \in DOMAIN e, e[j] = e[m]
                 PROVE  j = m
    BY DEF Once
  <2>2. CASE e[j] = n
    BY <2>1, <2>2, <1>3, <1>4
  <2>3. CASE e[j] # n
    <3> DEFINE a == IF j <= k THEN j ELSE j - 1
               b == IF m <= k THEN m ELSE m - 1
    <3>1. a \in DOMAIN d /\ d[a] = e[j] /\ (j <= k \/ j > k + 1)
      BY <2>3, <1>3
    <3>2. b \in DOMAIN d /\ d[b] = e[j] /\ (m <= k \/ m > k + 1)
      <4>1. \/ m <= k /\ m \in DOMAIN d /\ e[m] = d[m]
            \/ m = k + 1 /\ e[m] = n
            \/ m > k + 1 /\ m - 1 \in DOMAIN d /\ e[m] = d[m - 1]
        BY <1>3
      <4>2. e[m] = e[j] /\ e[m] # n /\ m \in Nat /\ k \in Nat
        BY <2>1, <2>3, <1>2
      <4>3. CASE m <= k
        BY ONLY <4>1, <4>2, <4>3
      <4>4. CASE m > k
        BY ONLY <4>1, <4>2, <4>4
      <4> QED
        BY <4>2, <4>3, <4>4
    <3>3. a = b
      BY <3>1, <3>2 DEF Once
    <3> QED
      BY <3>1, <3>2, <3>3, <1>2
  <2> QED
    BY <2>2, <2>3
<1>6. Elements(e) = Elements(d) \union {n}
  <2>1. \A j \in DOMAIN e : e[j] \in Elements(d) \union {n}
    BY <1>3 DEF Elements
  <2>2. ASSUME NEW j \in DOMAIN d
        PROVE  d[j] \in Elements(e)
    <3>1. CASE j <= k
      <4>1. j \in DOMAIN e /\ e[j] = d[j]
        BY <3>1, <1>1, <1>2
      <4> QED
        BY <4>1 DEF Elements
    <3>2. CASE j > k
      <4>1. j + 1 \in DOMAIN e /\ e[j + 1] = d[j]
        BY <3>2, <1>1, <1>2
      <4> QED
        BY <4>1 DEF Elements
    <3> QED
      BY <3>1, <3>2, <1>2
  <2>3. k + 1 \in DOMAIN e /\ e[k + 1] = n
    BY <1>1, <1>2
  <2> QED
    BY <2>1, <2>2, <2>3 DEF Elements
<1>7. ASSUME NEW i \in Nat
      PROVE  /\ Before(Whole(e), i) \subseteq Before(Whole(d), i) \union {n}
             /\ \E x : Behind(Whole(e), i) \subseteq Behind(Whole(d), i) \union {x}
  <2> DEFINE v == Whole(e)
             w == Whole(d)
  <2>1. /\ DOMAIN w = 1..(Len(d) + 2)
        /\ \A j \in 1..(Len(d) + 2) :
              w[j] = IF j = 1 THEN Dot ELSE IF j = 2 THEN DotDot ELSE d[j - 2]
    BY WholeIs
  <2>2. /\ DOMAIN v = 1..(Len(d) + 3)
        /\ \A j \in 1..(Len(d) + 3) :
              v[j] = IF j = 1 THEN Dot ELSE IF j = 2 THEN DotDot ELSE e[j - 2]
    <3>1. /\ Whole(e) \in Seq(Name \union Dots) /\ Len(Whole(e)) = Len(e) + 2
          /\ \A j \in 1..(Len(e) + 2) :
                v[j] = IF j = 1 THEN Dot ELSE IF j = 2 THEN DotDot ELSE e[j - 2]
      BY <1>1, WholeIs
    <3> QED
      BY <3>1, <1>1, <1>2
  <2> HIDE DEF v, w
  <2>3. ASSUME NEW j \in DOMAIN v
        PROVE  \/ j <= k + 2 /\ j \in DOMAIN w /\ v[j] = w[j]
               \/ j = k + 3 /\ v[j] = n
               \/ j > k + 3 /\ j - 1 \in DOMAIN w /\ v[j] = w[j - 1]
    <3>1. CASE j <= 2
      BY <3>1, <2>1, <2>2, <1>2
    <3>2. CASE j > 2
      <4>1. j - 2 \in DOMAIN e /\ v[j] = e[j - 2]
        BY <3>2, <2>2, <1>2
      <4>2. PICK m \in DOMAIN e : j = m + 2 /\ v[j] = e[m]
        BY <4>1, <2>2, <1>2
      <4>3. m \in Nat /\ m <= Len(d) + 1 /\ m >= 1
        BY <4>2, <1>2
      <4>4. ASSUME NEW a \in DOMAIN d
            PROVE  a + 2 \in DOMAIN w /\ w[a + 2] = d[a]
        <5>1. a + 2 \in 1..(Len(d) + 2) /\ a + 2 # 1 /\ a + 2 # 2 /\ (a + 2) - 2 = a
          BY <1>2
        <5> QED
          BY <5>1, <2>1
      <4>5. CASE m <= k
        BY <4>2, <4>3, <4>4, <4>5, <1>3
      <4>6. CASE m = k + 1
        BY <4>2, <4>3, <4>6, <1>3
      <4>7. CASE m > k + 1
        <5>1. m - 1 \in DOMAIN d /\ v[j] = d[m - 1]
          BY <4>2, <4>3, <4>7, <1>3
        <5>2. (m - 1) + 2 = j - 1
          BY <4>2, <4>3
        <5>3. j - 1 \in DOMAIN w /\ v[j] = w[j - 1]
          BY <4>4, <5>1, <5>2
        <5> QED
          BY <4>2, <4>3, <4>7, <5>3
      <4> QED
        BY <4>3, <4>5, <4>6, <4>7
    <3> QED
      BY <3>1, <3>2, <2>2
  <2>4. ASSUME NEW j \in DOMAIN v, j <= i
        PROVE  v[j] \in Before(w, i) \union {n}
    <3>1. CASE v[j] = n
      BY <3>1
    <3>2. CASE v[j] # n
      <4>1. \E m \in DOMAIN w : m <= i /\ v[j] = w[m]
        BY <3>2, <2>3, <2>4, <2>2, <1>2
      <4> QED
        BY <4>1 DEF Before
    <3> QED
      BY <3>1, <3>2
  <2>5. Before(v, i) \subseteq Before(w, i) \union {n}
    <3> DEFINE z == Before(w, i) \union {n}
    <3> HIDE DEF z
    <3>1. \A j \in DOMAIN v : j <= i => v[j] \in z
      BY <2>4 DEF z
    <3>2. Before(v, i) \subseteq z
      BY <3>1 DEF Before
    <3> QED
      BY <3>2 DEF z
  <2>6. CASE i <= k + 2
    <3>1. ASSUME NEW j \in DOMAIN v, j > i
          PROVE  v[j] \in Behind(w, i) \union {n}
      <4>1. v[j] = n \/ \E m \in DOMAIN w : m > i /\ v[j] = w[m]
        BY <3>1, <2>3, <2>6, <2>2, <1>2
      <4> QED
        BY <4>1 DEF Behind
    <3>2. Behind(v, i) \subseteq Behind(w, i) \union {n}
      <4> DEFINE z == Behind(w, i) \union {n}
      <4> HIDE DEF z
      <4>1. \A j \in DOMAIN v : j > i => v[j] \in z
        BY <3>1 DEF z
      <4>2. Behind(v, i) \subseteq z
        BY <4>1 DEF Behind
      <4> QED
        BY <4>2 DEF z
    <3> QED
      BY <3>2, <2>5 DEF v, w
  <2>7. CASE i > k + 2
    <3>1. ASSUME NEW j \in DOMAIN v, j > i
          PROVE  v[j] \in Behind(w, i) \union {v[i + 1]}
      <4>1. CASE j = i + 1
        BY <4>1
      <4>2. CASE j > i + 1
        <5>1. j - 1 \in DOMAIN w /\ j - 1 > i /\ v[j] = w[j - 1]
          BY <4>2, <3>1, <2>3, <2>7, <2>2, <1>2
        <5> QED
          BY <5>1 DEF Behind
      <4> QED
        BY <3>1, <4>1, <4>2, <2>2
    <3>2. Behind(v, i) \subseteq Behind(w, i) \union {v[i + 1]}
      <4> DEFINE z == Behind(w, i) \union {v[i + 1]}
      <4> HIDE DEF z
      <4>1. \A j \in DOMAIN v : j > i => v[j] \in z
        BY <3>1 DEF z
      <4>2. Behind(v, i) \subseteq z
        BY <4>1 DEF Behind
      <4> QED
        BY <4>2 DEF z
    <3> QED
      BY <3>2, <2>5 DEF v, w
  <2> QED
    BY <2>6, <2>7, <1>2
<1> QED
  BY <1>1, <1>5, <1>6, <1>7

(* A removal moves the names behind it forward: before an index there is no *)
(* more than one that was not there, behind it none.                        *)
LEMMA RemovalMoves ==
    ASSUME NEW d \in Seq(Name), Once(d), NEW k \in DOMAIN d,
           NEW e, e = Without(d, k)
    PROVE  /\ e \in Seq(Name) /\ Once(e)
           /\ Elements(e) = Elements(d) \ {d[k]}
           /\ \A i \in Nat :
                 /\ \E x : Before(Whole(e), i) \subseteq Before(Whole(d), i) \union {x}
                 /\ Behind(Whole(e), i) \subseteq Behind(Whole(d), i)
<1> DEFINE front == SubSeq(d, 1, k - 1)
           back == SubSeq(d, k + 1, Len(d))
<1>1. DOMAIN d = 1..Len(d) /\ Len(d) \in Nat /\ k \in 1..Len(d)
  OBVIOUS
<1>2. front \in Seq(Name) /\ Len(front) = k - 1 /\ \A j \in 1..(k - 1) : front[j] = d[j]
  BY <1>1
<1>3. /\ back \in Seq(Name) /\ Len(back) = Len(d) - k
      /\ \A j \in 1..(Len(d) - k) : back[j] = d[k + j]
  BY <1>1
<1>4. e = front \o back
  BY DEF Without
<1> HIDE DEF front, back
<1>5. /\ e \in Seq(Name) /\ Len(e) = Len(d) - 1
      /\ \A j \in 1..(Len(d) - 1) : e[j] = IF j <= k - 1 THEN front[j] ELSE back[j - (k - 1)]
  <2>1. /\ front \o back \in Seq(Name) /\ Len(front \o back) = Len(front) + Len(back)
        /\ \A j \in 1..(Len(front) + Len(back)) :
              (front \o back)[j] = IF j <= Len(front) THEN front[j] ELSE back[j - Len(front)]
    <3>1. front \in Seq(Name) /\ back \in Seq(Name)
      BY <1>2, <1>3
    <3>2. front \o back \in Seq(Name) /\ Len(front \o back) = Len(front) + Len(back)
      BY ONLY <3>1
    <3>3. \A j \in 1..(Len(front) + Len(back)) :
              (front \o back)[j] = IF j <= Len(front) THEN front[j] ELSE back[j - Len(front)]
      BY ONLY <3>1
    <3> QED
      BY <3>2, <3>3
  <2>2. Len(front) + Len(back) = Len(d) - 1
    BY <1>1, <1>2, <1>3
  <2> QED
    BY <2>1, <2>2, <1>2, <1>4
<1>6. DOMAIN e = 1..(Len(d) - 1)
  BY <1>5, <1>1
<1>7. ASSUME NEW j \in DOMAIN e
      PROVE  \/ j < k /\ j \in DOMAIN d /\ e[j] = d[j]
             \/ j >= k /\ j + 1 \in DOMAIN d /\ e[j] = d[j + 1]
  <2>1. CASE j < k
    BY <2>1, <1>1, <1>2, <1>5, <1>6
  <2>2. CASE j >= k
    <3>1. PICK m \in 1..(Len(d) - k) : m = j - (k - 1) /\ e[j] = back[m]
      BY <2>2, <1>1, <1>5, <1>6
    <3>2. e[j] = d[k + m] /\ k + m = j + 1
      BY <3>1, <1>1, <1>3, <1>6
    <3> QED
      BY <2>2, <3>2, <1>1, <1>6
  <2> QED
    BY <2>1, <2>2, <1>1, <1>6
<1>8. Once(e)
  <2>1. SUFFICES ASSUME NEW j \in DOMAIN e, NEW m \in DOMAIN e, e[j] = e[m]
                 PROVE  j = m
    BY DEF Once
  <2> DEFINE a == IF j < k THEN j ELSE j + 1
             b == IF m < k THEN m ELSE m + 1
  <2>2. a \in DOMAIN d /\ d[a] = e[j]
    BY <1>7, <1>1, <1>6
  <2>3. b \in DOMAIN d /\ d[b] = e[j]
    BY <2>1, <1>7, <1>1, <1>6
  <2>4. a = b
    BY <2>2, <2>3 DEF Once
  <2> QED
    BY <2>4, <1>1, <1>6
<1>9. Elements(e) = Elements(d) \ {d[k]}
  <2>1. ASSUME NEW j \in DOMAIN e
        PROVE  e[j] \in Elements(d) \ {d[k]}
    <3>1. \E a \in DOMAIN d : a # k /\ e[j] = d[a]
      BY <1>1, <1>6, <1>7
    <3> QED
      BY <3>1 DEF Elements, Once
  <2>2. ASSUME NEW j \in DOMAIN d, d[j] # d[k]
        PROVE  d[j] \in Elements(e)
    <3>1. CASE j < k
      <4>1. j \in DOMAIN e
        BY <3>1, <1>1, <1>6
      <4>2. e[j] = d[j]
        BY <4>1, <3>1, <1>1, <1>7
      <4> QED
        BY <4>1, <4>2 DEF Elements
    <3>2. CASE j > k
      <4>1. PICK m \in Nat : j = m + 1
        BY <3>2, <1>1
      <4>2. m \in DOMAIN e /\ m >= k
        BY <3>2, <4>1, <1>1, <1>6
      <4>3. e[m] = d[j]
        BY <4>1, <4>2, <1>1, <1>7
      <4> QED
        BY <4>2, <4>3 DEF Elements
    <3> QED
      BY <2>2, <3>1, <3>2, <1>1
  <2> QED
    BY <2>1, <2>2 DEF Elements
<1>10. ASSUME NEW i \in Nat
       PROVE  /\ \E x : Before(Whole(e), i) \subseteq Before(Whole(d), i) \union {x}
              /\ Behind(Whole(e), i) \subseteq Behind(Whole(d), i)
  <2> DEFINE v == Whole(e)
             w == Whole(d)
  <2>1. /\ DOMAIN w = 1..(Len(d) + 2)
        /\ \A j \in 1..(Len(d) + 2) :
              w[j] = IF j = 1 THEN Dot ELSE IF j = 2 THEN DotDot ELSE d[j - 2]
    BY WholeIs
  <2>2. /\ DOMAIN v = 1..(Len(d) + 1)
        /\ \A j \in 1..(Len(d) + 1) :
              v[j] = IF j = 1 THEN Dot ELSE IF j = 2 THEN DotDot ELSE e[j - 2]
    <3>1. /\ Whole(e) \in Seq(Name \union Dots) /\ Len(Whole(e)) = Len(e) + 2
          /\ \A j \in 1..(Len(e) + 2) :
                v[j] = IF j = 1 THEN Dot ELSE IF j = 2 THEN DotDot ELSE e[j - 2]
      BY <1>5, WholeIs
    <3> QED
      BY <3>1, <1>1, <1>5
  <2> HIDE DEF v, w
  <2>3. ASSUME NEW j \in DOMAIN v
        PROVE  \/ j \in DOMAIN w /\ v[j] = w[j]
               \/ j + 1 \in DOMAIN w /\ v[j] = w[j + 1]
    <3>1. CASE j <= 2
      BY <3>1, <2>1, <2>2, <1>1
    <3>2. CASE j > 2
      <4>1. j - 2 \in DOMAIN e /\ v[j] = e[j - 2]
        BY <3>2, <2>2, <1>1, <1>6
      <4>2. PICK m \in DOMAIN e : j = m + 2 /\ v[j] = e[m]
        BY <4>1, <2>2, <1>1
      <4>3. m \in Nat /\ m >= 1 /\ m <= Len(d) - 1
        BY <4>2, <1>1, <1>6
      <4>4. ASSUME NEW a \in DOMAIN d
            PROVE  a + 2 \in DOMAIN w /\ w[a + 2] = d[a]
        <5>1. a + 2 \in 1..(Len(d) + 2) /\ a + 2 # 1 /\ a + 2 # 2 /\ (a + 2) - 2 = a
          BY <1>1
        <5> QED
          BY <5>1, <2>1
      <4>5. CASE m < k
        BY <4>2, <4>4, <4>5, <1>7, <4>3, <1>1
      <4>6. CASE m >= k
        <5>1. m + 1 \in DOMAIN d /\ v[j] = d[m + 1] /\ (m + 1) + 2 = j + 1
          BY <4>2, <4>3, <4>6, <1>1, <1>7
        <5> QED
          BY <4>4, <5>1
      <4> QED
        BY <4>3, <4>5, <4>6, <1>1
    <3> QED
      BY <3>1, <3>2, <2>2, <1>1
  <2>4. ASSUME NEW j \in DOMAIN v, j <= i
        PROVE  v[j] \in Before(w, i) \union {w[i + 1]}
    <3>1. CASE j \in DOMAIN w /\ v[j] = w[j]
      BY <2>4, <3>1 DEF Before
    <3>2. CASE j + 1 \in DOMAIN w /\ v[j] = w[j + 1] /\ j < i
      <4>1. j + 1 <= i
        BY <3>2, <2>2, <1>1
      <4> QED
        BY <3>2, <4>1 DEF Before
    <3>3. CASE j + 1 \in DOMAIN w /\ v[j] = w[j + 1] /\ j = i
      BY <3>3
    <3> QED
      BY <2>3, <2>4, <3>1, <3>2, <3>3, <2>2, <1>1
  <2>5. ASSUME NEW j \in DOMAIN v, j > i
        PROVE  v[j] \in Behind(w, i)
    <3>1. \E m \in DOMAIN w : m > i /\ v[j] = w[m]
      BY <2>3, <2>5, <2>2, <1>1
    <3> QED
      BY <3>1 DEF Behind
  <2>6. Before(v, i) \subseteq Before(w, i) \union {w[i + 1]}
    <3> DEFINE z == Before(w, i) \union {w[i + 1]}
    <3> HIDE DEF z
    <3>1. \A j \in DOMAIN v : j <= i => v[j] \in z
      BY <2>4 DEF z
    <3>2. Before(v, i) \subseteq z
      BY <3>1 DEF Before
    <3> QED
      BY <3>2 DEF z
  <2>7. Behind(v, i) \subseteq Behind(w, i)
    <3> DEFINE z == Behind(w, i)
    <3> HIDE DEF z
    <3>1. \A j \in DOMAIN v : j > i => v[j] \in z
      BY <2>5 DEF z
    <3>2. Behind(v, i) \subseteq z
      BY <3>1 DEF Behind
    <3> QED
      BY <3>2 DEF z
  <2> QED
    BY <2>6, <2>7 DEF v, w
<1> QED
  BY <1>5, <1>8, <1>9, <1>10

-----------------------------------------------------------------------------
(* What Types says of the lists.                                            *)
LEMMA Lists ==
    ASSUME Types
    PROVE  /\ dir \in Seq(Name) /\ Once(dir)
           /\ All \in Seq(Name \union Dots) /\ Once(All) /\ Len(All) = Len(dir) + 2
           /\ Elements(All) = Elements(dir) \union Dots
           /\ WithDots(dots \o dir) = All
           /\ PageNames \in Seq(Name \union Dots) /\ Len(PageNames) = Len(page)
           /\ Seen \in Seq(Name \union Dots)
           /\ Len(Seen) = Len(got) + Len(page)
           /\ page = <<>> => Seen = got
<1>1. dir \in Seq(Name) /\ Once(dir)
  BY OrderIs DEF Types
<1>2. All \in Seq(Name \union Dots) /\ Once(All) /\ Len(All) = Len(dir) + 2
  BY <1>1, WholeIs DEF All
<1>3. Elements(All) = Elements(dir) \union Dots
  BY <1>1, WholeIs DEF All
<1>4. WithDots(dots \o dir) = All
  BY <1>1, BothDots DEF All, Types
<1>5. PageNames \in Seq(Name \union Dots) /\ Len(PageNames) = Len(page)
  <2> DEFINE P == [name : Name \union Dots, next : Nat]
  <2>1. page \in Seq(P)
    BY DEF Types
  <2> HIDE DEF P
  <2>2. DOMAIN page = 1..Len(page) /\ Len(page) \in Nat
    BY <2>1
  <2>3. \A k \in DOMAIN page : page[k].name \in Name \union Dots
    <3>1. \A k \in DOMAIN page : page[k] \in P
      BY <2>1
    <3> QED
      BY <3>1 DEF P
  <2>4. PageNames \in [1..Len(page) -> Name \union Dots]
    BY <2>2, <2>3 DEF PageNames
  <2> QED
    BY <2>2, <2>4
<1>6. Seen \in Seq(Name \union Dots) /\ Len(Seen) = Len(got) + Len(page)
  <2>1. got \in Seq(Name \union Dots)
    BY DEF Types
  <2> QED
    BY <2>1, <1>5 DEF Seen
<1>7. ASSUME page = <<>>
      PROVE  Seen = got
  <2>1. got \in Seq(Name \union Dots)
    BY DEF Types
  <2>2. PageNames = <<>>
    BY <1>5, <1>7, EmptySeq
  <2> QED
    BY <2>1, <2>2, ConcatEmptySeq DEF Seen
<1> QED
  BY <1>1, <1>2, <1>3, <1>4, <1>5, <1>6, <1>7

(* An entry that is added to the page is one more seen.                     *)
LEMMA SeenGrows ==
    ASSUME Types, NEW e \in Name \union Dots, NEW m \in Nat,
           page' = Append(page, [name |-> e, next |-> m]), got' = got
    PROVE  /\ Seen' = Append(Seen, e)
           /\ Elements(Seen') = Elements(Seen) \union {e}
           /\ Len(Seen') = Len(Seen) + 1
           /\ page' \in Seq([name : Name \union Dots, next : Nat])
           /\ page' # <<>> /\ page'[Len(page')].next = m
<1> DEFINE N == Name \union Dots
           P == [name : N, next : Nat]
           c == [name |-> e, next |-> m]
<1>1. /\ got \in Seq(N) /\ page \in Seq(P) /\ c \in P
      /\ PageNames \in Seq(N) /\ Len(PageNames) = Len(page) /\ Seen \in Seq(N)
  BY Lists DEF Types
<1>2. c.name = e /\ c.next = m
  OBVIOUS
<1> HIDE DEF P, c
<1>3. /\ page' = Append(page, c) /\ page' \in Seq(P) /\ Len(page') = Len(page) + 1
      /\ page'[Len(page')] = c
      /\ DOMAIN page' = 1..(Len(page) + 1) /\ DOMAIN page = 1..Len(page) /\ Len(page) \in Nat
      /\ \A k \in 1..Len(page) : page'[k] = page[k]
  BY <1>1 DEF c
<1>4. page' # <<>>
  <2>1. Len(page') # 0
    BY ONLY <1>3
  <2> QED
    BY ONLY <2>1
<1> HIDE DEF N
<1>5. PageNames' = Append(PageNames, e)
  <2>1. PageNames' = [k \in 1..(Len(page) + 1) |-> page'[k].name]
    BY <1>3 DEF PageNames
  <2>2. Append(PageNames, e) \in Seq(N) /\ Len(Append(PageNames, e)) = Len(page) + 1
    BY <1>1 DEF N
  <2>3. DOMAIN Append(PageNames, e) = 1..(Len(page) + 1)
    BY <2>2, <1>3
  <2>4. ASSUME NEW k \in 1..(Len(page) + 1)
        PROVE  Append(PageNames, e)[k] = page'[k].name
    <3>1. CASE k = Len(page) + 1
      BY <3>1, <1>1, <1>2, <1>3
    <3>2. CASE k # Len(page) + 1
      <4>1. k \in 1..Len(page) /\ page'[k] = page[k] /\ PageNames[k] = page[k].name
        BY <3>2, <1>3 DEF PageNames
      <4>2. Append(PageNames, e)[k] = PageNames[k]
        BY <4>1, <1>1
      <4> QED
        BY <4>1, <4>2
    <3> QED
      BY <3>1, <3>2
  <2>5. Append(PageNames, e) = [k \in 1..(Len(page) + 1) |-> Append(PageNames, e)[k]]
    <3>1. Append(PageNames, e) \in [1..(Len(page) + 1) -> N]
      BY <2>2, LenProperties
    <3> QED
      BY <3>1
  <2> QED
    BY <2>1, <2>4, <2>5
<1>6. Seen' = Append(Seen, e)
  <2>1. Seen' = got \o Append(PageNames, e)
    BY <1>5 DEF Seen
  <2> QED
    BY <2>1, <1>1 DEF Seen, N
<1>7. Elements(Seen') = Elements(Seen) \union {e} /\ Len(Seen') = Len(Seen) + 1
  <2>1. /\ Len(Seen') = Len(Seen) + 1 /\ Len(Seen) \in Nat
        /\ DOMAIN Seen' = 1..(Len(Seen) + 1) /\ DOMAIN Seen = 1..Len(Seen)
        /\ Seen'[Len(Seen) + 1] = e
        /\ \A k \in 1..Len(Seen) : Seen'[k] = Seen[k]
    BY <1>1, <1>6 DEF N
  <2>2. 1..(Len(Seen) + 1) = (1..Len(Seen)) \union {Len(Seen) + 1}
    BY <2>1
  <2> QED
    BY <2>1, <2>2 DEF Elements
<1> QED
  BY <1>2, <1>3, <1>4, <1>6, <1>7 DEF P, N

(* Of a finite set no more is behind one index than behind another and      *)
(* among what moved.                                                        *)
LEMMA CountMore ==
    ASSUME NEW E, IsFiniteSet(E), NEW B, NEW C, NEW X, NEW m \in Int, Few(X, m),
           B \subseteq C \union X
    PROVE  /\ Cardinality(B \intersect E) \in Nat /\ Cardinality(C \intersect E) \in Nat
           /\ Cardinality(B \intersect E) <= Cardinality(C \intersect E) + m
<1>1. /\ IsFiniteSet(B \intersect E) /\ IsFiniteSet(C \intersect E)
      /\ Cardinality(B \intersect E) \in Nat /\ Cardinality(C \intersect E) \in Nat
  <2>1. B \intersect E \in SUBSET E /\ C \intersect E \in SUBSET E
    OBVIOUS
  <2> QED
    BY <2>1, FS_Subset, FS_CardinalityType
<1>2. Few(C \intersect E, Cardinality(C \intersect E))
  BY <1>1 DEF Few
<1>3. Few((C \intersect E) \union X, Cardinality(C \intersect E) + m)
  BY <1>1, <1>2, FewTogether
<1>4. B \intersect E \subseteq (C \intersect E) \union X
  OBVIOUS
<1>5. Few(B \intersect E, Cardinality(C \intersect E) + m)
  BY <1>1, <1>3, <1>4, FewWithin
<1> QED
  BY <1>1, <1>5 DEF Few

(* Nothing is before the start.                                             *)
LEMMA NothingBefore ==
    ASSUME NEW S, NEW s \in Seq(S)
    PROVE  Before(s, 0) = {}
<1>1. \A j \in DOMAIN s : ~(j <= 0)
  OBVIOUS
<1> QED
  BY <1>1 DEF Before

LEMMA InitInv == Init => Inv
<1> SUFFICES ASSUME Init
             PROVE  Inv
  OBVIOUS
<1>1. Types
  <2>1. Once(<<>>)
    BY DEF Once
  <2>2. /\ <<>> \in Seq(Name \union Dots)
        /\ <<>> \in Seq([name : Name \union Dots, next : Nat])
    BY EmptySeq
  <2> QED
    BY <2>1, <2>2 DEF Init, Types
<1>2. Places
  <2>1. <<>> \in Seq(Name)
    BY EmptySeq
  <2> QED
    BY <2>1 DEF Init, Places
<1>3. /\ got = <<>> /\ Len(got) = 0 /\ DOMAIN got = {} /\ Elements(got) = {}
      /\ Cardinality(Elements(got)) = 0
  <2>1. got = <<>> /\ Len(got) = 0 /\ DOMAIN got = {}
    BY DEF Init
  <2>2. Elements(got) = {}
    BY <2>1 DEF Elements
  <2> QED
    BY <2>1, <2>2, FS_EmptySet
<1>4. All \in Seq(Name \union Dots) /\ Len(All) \in Nat
  BY <1>1, Lists
<1>5. Exact
  <2>1. Begins(got, All)
    BY <1>3, <1>4 DEF Begins
  <2> QED
    BY <2>1, <1>3 DEF Init, Exact
<1>6. Hidden
  <2>1. Missed(All, offset, got) = {}
    BY <1>4, NothingBefore DEF Init, Missed
  <2> QED
    BY <2>1, FewNone DEF Init, Hidden
<1>7. Repeated
  <2>1. Behind(All, offset) \intersect Elements(got) = {}
    BY <1>3
  <2>2. Due(All, offset, got) = 0
    BY <2>1, <1>3, FS_EmptySet DEF Due
  <2> QED
    BY <2>2, <1>3 DEF Init, Repeated, EachAdditionRepeatsAtMostOne
<1>8. Snapshot
  BY <1>3 DEF Init, Snapshot, Ascending, Begins
<1> QED
  BY <1>1, <1>2, <1>5, <1>6, <1>7, <1>8 DEF Inv

LEMMA RemoveNameInv ==
    ASSUME Inv, NEW k, RemoveName(k)
    PROVE  Inv'
<1> USE DEF Inv, RemoveName, reader
<1>1. /\ dir \in Seq(Name) /\ Once(dir) /\ k \in DOMAIN dir
      /\ dir' = Without(dir, k)
      /\ removals \in Nat /\ additions \in Nat /\ removals' = removals + 1
      /\ index \in Nat /\ offset \in Nat /\ Len(names) \in Nat
  BY Lists DEF Types, Without
<1>2. /\ dir' \in Seq(Name) /\ Once(dir')
      /\ Elements(dir') = Elements(dir) \ {dir[k]}
      /\ \A i \in Nat :
            /\ \E x : Before(Whole(dir'), i) \subseteq Before(Whole(dir), i) \union {x}
            /\ Behind(Whole(dir'), i) \subseteq Behind(Whole(dir), i)
  BY <1>1, RemovalMoves
<1>3. there' \subseteq there /\ there' \subseteq Elements(dir')
  BY <1>2 DEF Types
<1>4. Types'
  <2>1. dir' \in Orders
    BY <1>2, OrderIs
  <2>2. Once(names)'
    BY DEF Types, Once
  <2> QED
    BY <1>1, <1>3, <2>1, <2>2 DEF Types
<1>5. Places'
  BY DEF Places
<1>6. Exact'
  BY <1>1 DEF Exact
<1>7. Seen' = Seen /\ Elements(Seen)' = Elements(Seen)
  BY DEF Seen, PageNames
<1>8. ASSUME NEW i \in Nat
      PROVE  /\ \E x : Before(All', i) \subseteq Before(All, i) \union {x}
             /\ Behind(All', i) \subseteq Behind(All, i)
  BY <1>2 DEF All
<1>9. Hidden'
  <2>1. SUFFICES ASSUME os = "linux"
                 PROVE  Hidden'
    BY DEF Hidden
  <2>2. ASSUME step = "asking"
        PROVE  Few(Missed(All, offset, got)', removals')
    <3>1. Few(Missed(All, offset, got), removals)
      BY <2>1, <2>2 DEF Hidden
    <3>2. PICK x : Before(All', offset) \subseteq Before(All, offset) \union {x}
      BY <1>1, <1>8
    <3>3. Few(Missed(All, offset, got) \union {x}, removals + 1)
      <4>1. removals \in Int
        BY <1>1
      <4> QED
        BY ONLY <3>1, <4>1, FewMore
    <3>4. Missed(All, offset, got)' \subseteq Missed(All, offset, got) \union {x}
      BY <1>3, <3>2 DEF Missed
    <3> QED
      BY <1>1, <3>3, <3>4, FewWithin
  <2>3. ASSUME step = "listing"
        PROVE  \E r \in 0..removals' :
                  /\ Few(Missed(names, index, Seen)', r)
                  /\ \A i \in 0..Len(names) : Few(MovedForward(i)', removals' - r)
    <3>1. PICK r \in 0..removals :
                  /\ Few(Missed(names, index, Seen), r)
                  /\ \A i \in 0..Len(names) : Few(MovedForward(i), removals - r)
      BY <2>1, <2>3 DEF Hidden
    <3>2. /\ r \in Nat /\ r \in 0..removals'
          /\ removals - r \in Int /\ (removals - r) + 1 = removals' - r
      BY <1>1
    <3>3. Missed(names, index, Seen)' \subseteq Missed(names, index, Seen)
      BY <1>3, <1>7 DEF Missed
    <3>4. Few(Missed(names, index, Seen)', r)
      BY <3>1, <3>2, <3>3, FewWithin
    <3>5. ASSUME NEW i \in 0..Len(names)
          PROVE  Few(MovedForward(i)', removals' - r)
      <4>1. i \in Nat
        BY <1>1
      <4>2. PICK x : Before(All', i) \subseteq Before(All, i) \union {x}
        BY <4>1, <1>8
      <4>3. Few(MovedForward(i) \union {x}, (removals - r) + 1)
        BY <3>1, <3>2, FewMore
      <4>4. MovedForward(i)' \subseteq MovedForward(i) \union {x}
        BY <1>3, <4>2 DEF MovedForward
      <4> QED
        BY <3>2, <4>3, <4>4, FewWithin
    <3> QED
      BY <3>2, <3>4, <3>5
  <2>4. there' \subseteq Elements(names) \/ step # "listing"
    BY <1>3, <2>1 DEF Hidden
  <2>5. step # "ended"
    BY DEF Running
  <2> QED
    BY <2>2, <2>3, <2>4, <2>5 DEF Hidden, Elements
<1>10. Repeated'
  <2>1. SUFFICES ASSUME os = "linux"
                 PROVE  Repeated'
    BY DEF Repeated
  <2>2. EachAdditionRepeatsAtMostOne'
    BY <2>1 DEF Repeated, EachAdditionRepeatsAtMostOne, Elements
  <2>3. ASSUME step = "asking"
        PROVE  Due(All, offset, got)' <= additions'
    <3>1. Due(All, offset, got) <= additions
      BY <2>1, <2>3 DEF Repeated
    <3>2. Behind(All', offset) \subseteq Behind(All, offset) \union {}
      BY <1>1, <1>8
    <3>3. IsFiniteSet(Elements(got)) /\ Cardinality(Elements(got)) \in Nat /\ Len(got) \in Nat
      BY ElementsAre DEF Types
    <3>4. /\ Cardinality(Behind(All', offset) \intersect Elements(got)) \in Nat
          /\ Cardinality(Behind(All, offset) \intersect Elements(got)) \in Nat
          /\ Cardinality(Behind(All', offset) \intersect Elements(got))
                <= Cardinality(Behind(All, offset) \intersect Elements(got)) + 0
      <4>1. 0 \in Int
        OBVIOUS
      <4> QED
        BY ONLY <4>1, <3>2, <3>3, FewNone, CountMore
    <3>5. Due(All, offset, got)' =
              Len(got) + Cardinality(Behind(All', offset) \intersect Elements(got))
                  - Cardinality(Elements(got))
      BY DEF Due, Elements
    <3> QED
      BY <3>1, <3>3, <3>4, <3>5, <1>1 DEF Due
  <2>4. ASSUME step = "listing"
        PROVE  \E a \in 0..additions' :
                  /\ Due(names, index, Seen)' <= a
                  /\ \A i \in 0..Len(names) : Few(MovedBack(i)', additions' - a)
    <3>1. PICK a \in 0..additions :
                  /\ Due(names, index, Seen) <= a
                  /\ \A i \in 0..Len(names) : Few(MovedBack(i), additions - a)
      BY <2>1, <2>4 DEF Repeated
    <3>2. Due(names, index, Seen)' = Due(names, index, Seen)
      BY <1>7 DEF Due
    <3>3. ASSUME NEW i \in 0..Len(names)
          PROVE  Few(MovedBack(i)', additions - a)
      <4>1. MovedBack(i)' \subseteq MovedBack(i)
        BY <1>1, <1>8 DEF MovedBack
      <4>2. additions - a \in Int
        BY <1>1
      <4> QED
        BY <3>1, <4>1, <4>2, FewWithin
    <3> QED
      BY <3>1, <3>2, <3>3
  <2> QED
    BY <2>2, <2>3, <2>4 DEF Repeated
<1>11. Snapshot'
  BY <1>3 DEF Snapshot, Ascending, Begins, Elements
<1> QED
  BY <1>4, <1>5, <1>6, <1>9, <1>10, <1>11


LEMMA AddNameInv ==
    ASSUME Inv, NEW n \in Name, NEW k, AddName(n, k)
    PROVE  Inv'
<1> USE DEF Inv, AddName, reader
<1>1. /\ dir \in Seq(Name) /\ Once(dir) /\ k \in 0..Len(dir) /\ n \notin Elements(dir)
      /\ dir' = Insert(dir, k, n)
      /\ removals \in Nat /\ additions \in Nat /\ additions' = additions + 1
      /\ index \in Nat /\ offset \in Nat /\ Len(names) \in Nat
  BY Lists DEF Types
<1>2. /\ dir' \in Seq(Name) /\ Once(dir')
      /\ Elements(dir') = Elements(dir) \union {n}
      /\ \A i \in Nat :
            /\ Before(Whole(dir'), i) \subseteq Before(Whole(dir), i) \union {n}
            /\ \E x : Behind(Whole(dir'), i) \subseteq Behind(Whole(dir), i) \union {x}
  <2>1. n \in Name
    OBVIOUS
  <2> QED
    BY ONLY <1>1, <2>1, AdditionMoves, SMTT(60)
<1>3. there' = there /\ there' \subseteq Elements(dir') /\ n \notin there
  BY <1>1, <1>2 DEF Types
<1>4. Types'
  <2>1. dir' \in Orders
    BY <1>2, OrderIs
  <2>2. Once(names)'
    BY DEF Types, Once
  <2> QED
    BY <1>1, <1>3, <2>1, <2>2 DEF Types
<1>5. Places'
  BY DEF Places
<1>6. Exact'
  BY <1>1 DEF Exact
<1>7. Seen' = Seen /\ Elements(Seen)' = Elements(Seen)
  BY DEF Seen, PageNames
<1>8. ASSUME NEW i \in Nat
      PROVE  /\ Before(All', i) \subseteq Before(All, i) \union {n}
             /\ \E x : Behind(All', i) \subseteq Behind(All, i) \union {x}
  BY <1>2 DEF All
<1>9. Hidden'
  <2>1. SUFFICES ASSUME os = "linux"
                 PROVE  Hidden'
    BY DEF Hidden
  <2>2. ASSUME step = "asking"
        PROVE  Few(Missed(All, offset, got)', removals')
    <3>1. Few(Missed(All, offset, got), removals)
      BY <2>1, <2>2 DEF Hidden
    <3>2. Missed(All, offset, got)' \subseteq Missed(All, offset, got)
      BY <1>1, <1>3, <1>8 DEF Missed
    <3> QED
      BY <1>1, <3>1, <3>2, FewWithin
  <2>3. ASSUME step = "listing"
        PROVE  \E r \in 0..removals' :
                  /\ Few(Missed(names, index, Seen)', r)
                  /\ \A i \in 0..Len(names) : Few(MovedForward(i)', removals' - r)
    <3>1. PICK r \in 0..removals :
                  /\ Few(Missed(names, index, Seen), r)
                  /\ \A i \in 0..Len(names) : Few(MovedForward(i), removals - r)
      BY <2>1, <2>3 DEF Hidden
    <3>2. Missed(names, index, Seen)' = Missed(names, index, Seen)
      BY <1>3, <1>7 DEF Missed
    <3>3. ASSUME NEW i \in 0..Len(names)
          PROVE  Few(MovedForward(i)', removals' - r)
      <4>1. i \in Nat /\ removals - r \in Int /\ removals' - r = removals - r
        BY <1>1
      <4>2. Before(All', i) \subseteq Before(All, i) \union {n}
        BY <4>1, <1>8
      <4>3. MovedForward(i)' \subseteq MovedForward(i)
        BY <1>3, <4>2 DEF MovedForward
      <4> QED
        BY <3>1, <4>1, <4>3, FewWithin
    <3> QED
      BY <3>1, <3>2, <3>3
  <2>4. there' \subseteq Elements(names) \/ step # "listing"
    BY <1>3, <2>1 DEF Hidden
  <2>5. step # "ended"
    BY DEF Running
  <2> QED
    BY <2>2, <2>3, <2>4, <2>5 DEF Hidden, Elements
<1>10. Repeated'
  <2>1. SUFFICES ASSUME os = "linux"
                 PROVE  Repeated'
    BY DEF Repeated
  <2>2. EachAdditionRepeatsAtMostOne'
    <3>1. Cardinality(Elements(got)) \in Nat /\ Len(got) \in Nat
      BY ElementsAre DEF Types
    <3> QED
      BY <2>1, <3>1, <1>1 DEF Repeated, EachAdditionRepeatsAtMostOne, Elements
  <2>3. ASSUME step = "asking"
        PROVE  Due(All, offset, got)' <= additions'
    <3>1. Due(All, offset, got) <= additions
      BY <2>1, <2>3 DEF Repeated
    <3>2. PICK x : Behind(All', offset) \subseteq Behind(All, offset) \union {x}
      BY <1>1, <1>8
    <3>3. IsFiniteSet(Elements(got)) /\ Cardinality(Elements(got)) \in Nat /\ Len(got) \in Nat
      BY ElementsAre DEF Types
    <3>4. /\ Cardinality(Behind(All', offset) \intersect Elements(got)) \in Nat
          /\ Cardinality(Behind(All, offset) \intersect Elements(got)) \in Nat
          /\ Cardinality(Behind(All', offset) \intersect Elements(got))
                <= Cardinality(Behind(All, offset) \intersect Elements(got)) + 1
      <4>1. Few({x}, 1)
        BY FewOne
      <4>2. 1 \in Int
        OBVIOUS
      <4> QED
        BY ONLY <4>1, <4>2, <3>2, <3>3, CountMore
    <3>5. Due(All, offset, got)' =
              Len(got) + Cardinality(Behind(All', offset) \intersect Elements(got))
                  - Cardinality(Elements(got))
      BY DEF Due, Elements
    <3> QED
      BY <3>1, <3>3, <3>4, <3>5, <1>1 DEF Due
  <2>4. ASSUME step = "listing"
        PROVE  \E a \in 0..additions' :
                  /\ Due(names, index, Seen)' <= a
                  /\ \A i \in 0..Len(names) : Few(MovedBack(i)', additions' - a)
    <3>1. PICK a \in 0..additions :
                  /\ Due(names, index, Seen) <= a
                  /\ \A i \in 0..Len(names) : Few(MovedBack(i), additions - a)
      BY <2>1, <2>4 DEF Repeated
    <3>2. Due(names, index, Seen)' = Due(names, index, Seen)
      BY <1>7 DEF Due
    <3>3. /\ a \in 0..additions' /\ additions - a \in Int
          /\ (additions - a) + 1 = additions' - a /\ additions' - a \in Int
      BY <1>1
    <3>4. ASSUME NEW i \in 0..Len(names)
          PROVE  Few(MovedBack(i)', additions' - a)
      <4>1. i \in Nat
        BY <1>1
      <4>2. PICK x : Behind(All', i) \subseteq Behind(All, i) \union {x}
        BY <4>1, <1>8
      <4>3. Few(MovedBack(i) \union {x}, (additions - a) + 1)
        BY <3>1, <3>3, FewMore
      <4>4. MovedBack(i)' \subseteq MovedBack(i) \union {x}
        BY <4>2 DEF MovedBack
      <4> QED
        BY <3>3, <4>3, <4>4, FewWithin
    <3> QED
      BY <3>1, <3>2, <3>3, <3>4
  <2> QED
    BY <2>2, <2>3, <2>4 DEF Repeated
<1>11. Snapshot'
  BY <1>3 DEF Snapshot, Ascending, Begins, Elements
<1> QED
  BY <1>4, <1>5, <1>6, <1>9, <1>10, <1>11

(* The handler lists the directory as it is: nothing has moved since.       *)
LEMMA ReaddirInv ==
    ASSUME Inv, readdir
    PROVE  Inv'
<1> USE DEF Inv, readdir, history
<1>1. /\ All \in Seq(Name \union Dots) /\ Once(All) /\ Elements(All) = Elements(dir) \union Dots
      /\ names' = All /\ Len(All) \in Nat
  BY Lists
<1>2. All' = All /\ page' = <<>>
  BY DEF All
<1>3. Types'
  <2>1. <<>> \in Seq([name : Name \union Dots, next : Nat])
    BY EmptySeq
  <2>2. Once(names)'
    BY <1>1 DEF Once
  <2>3. there' \subseteq Elements(dir)'
    BY DEF Types, Elements
  <2> QED
    BY <1>1, <2>1, <2>2, <2>3 DEF Types
<1>4. Seen' = got /\ got \in Seq(Name \union Dots)
  BY <1>2, <1>3, Lists DEF Types, Seen, PageNames
<1>5. Places'
  BY <1>2 DEF Places
<1>6. Exact'
  BY <1>1, <1>2, <1>4 DEF Exact, Begins
<1>7. Hidden'
  <2>1. there' \subseteq Elements(names)'
    BY <1>1 DEF Types, Elements
  <2>2. /\ removals \in Nat /\ removals' = removals /\ removals \in 0..removals
        /\ removals - removals = 0
    BY DEF Types
  <2>3. Few(Missed(names, index, Seen)', removals)
    <3>1. Few(Missed(All, offset, got), removals)
      BY DEF Hidden
    <3>2. Missed(names, index, Seen)' = Missed(All, offset, got)
      BY <1>1, <1>4 DEF Missed
    <3> QED
      BY <3>1, <3>2
  <2>4. ASSUME NEW i
        PROVE  Few(MovedForward(i)', 0)
    <3>1. MovedForward(i)' = {}
      BY <1>1, <1>2 DEF MovedForward
    <3> QED
      BY <3>1, FewNone
  <2> QED
    BY <2>1, <2>2, <2>3, <2>4 DEF Hidden
<1>8. Repeated'
  <2>1. /\ additions \in Nat /\ additions' = additions /\ additions \in 0..additions
        /\ additions - additions = 0
    BY DEF Types
  <2>2. EachAdditionRepeatsAtMostOne'
    BY DEF Repeated, EachAdditionRepeatsAtMostOne, Elements
  <2>3. Due(names, index, Seen)' <= additions
    <3>1. Due(All, offset, got) <= additions
      BY DEF Repeated
    <3>2. Due(names, index, Seen)' = Due(All, offset, got)
      BY <1>1, <1>4 DEF Due
    <3> QED
      BY <3>1, <3>2
  <2>4. ASSUME NEW i
        PROVE  Few(MovedBack(i)', 0)
    <3>1. MovedBack(i)' = {}
      BY <1>1, <1>2 DEF MovedBack
    <3> QED
      BY <3>1, FewNone
  <2> QED
    BY <2>1, <2>2, <2>3, <2>4 DEF Repeated
<1>9. Snapshot'
  BY DEF Snapshot
<1> QED
  BY <1>3, <1>5, <1>6, <1>7, <1>8, <1>9

(* The handler goes past one name of its list.                              *)
LEMMA Passing ==
    ASSUME NEW S, NEW s \in Seq(S), NEW i \in Nat, i < Len(s)
    PROVE  /\ s[i + 1] \in S
           /\ Before(s, i + 1) = Before(s, i) \union {s[i + 1]}
           /\ Behind(s, i) = Behind(s, i + 1) \union {s[i + 1]}
           /\ Once(s) => s[i + 1] \notin Behind(s, i + 1)
<1>1. DOMAIN s = 1..Len(s) /\ Len(s) \in Nat /\ i + 1 \in DOMAIN s
  OBVIOUS
<1>2. /\ {j \in DOMAIN s : j <= i + 1} = {j \in DOMAIN s : j <= i} \union {i + 1}
      /\ {j \in DOMAIN s : j > i} = {j \in DOMAIN s : j > i + 1} \union {i + 1}
  BY <1>1
<1>3. Before(s, i + 1) = Before(s, i) \union {s[i + 1]}
  BY <1>2 DEF Before
<1>4. Behind(s, i) = Behind(s, i + 1) \union {s[i + 1]}
  BY <1>2 DEF Behind
<1>5. ASSUME Once(s)
      PROVE  s[i + 1] \notin Behind(s, i + 1)
  <2>1. \A j \in DOMAIN s : j > i + 1 => s[j] # s[i + 1]
    BY <1>1, <1>5 DEF Once
  <2> QED
    BY <2>1 DEF Behind
<1>6. s[i + 1] \in S
  BY <1>1
<1> QED
  BY <1>3, <1>4, <1>5, <1>6

LEMMA AddEntryInv ==
    ASSUME Inv, AddEntry
    PROVE  Inv'
<1> USE DEF Inv, AddEntry, More, history
<1> DEFINE N == Name \union Dots
           e == Entry
<1>1. /\ os = "linux" /\ step = "listing" /\ os' = os /\ step' = step /\ names' = names
      /\ index \in Nat /\ index < Len(names) /\ index' = index + 1
      /\ names \in Seq(N) /\ Once(names) /\ Len(names) \in Nat
      /\ removals \in Nat /\ additions \in Nat /\ removals' = removals /\ additions' = additions
  BY DEF Types, Places
<1>2. /\ e \in N /\ e = names[index + 1]
      /\ Before(names, index + 1) = Before(names, index) \union {e}
      /\ Behind(names, index) = Behind(names, index + 1) \union {e}
      /\ e \notin Behind(names, index + 1)
  BY <1>1, Passing DEF Entry
<1>3. /\ Seen' = Append(Seen, e)
      /\ Elements(Seen') = Elements(Seen) \union {e}
      /\ Len(Seen') = Len(Seen) + 1
      /\ page' \in Seq([name : N, next : Nat])
      /\ page' # <<>> /\ page'[Len(page')].next = index + 1
  <2>1. index + 1 \in Nat /\ Types /\ e \in Name \union Dots
        /\ page' = Append(page, [name |-> e, next |-> index + 1]) /\ got' = got
    BY <1>1, <1>2
  <2> HIDE DEF e, AddEntry, Inv
  <2> QED
    BY <2>1, SeenGrows
<1>4. All' = All /\ Seen \in Seq(N) /\ Len(Seen) \in Nat
  BY Lists DEF All
<1> HIDE DEF N, e
<1>5. Types'
  <2>1. Once(names)' /\ there' \subseteq Elements(dir)'
    BY DEF Types, Once, Elements
  <2> QED
    BY <1>1, <1>3, <2>1 DEF Types, N
<1>6. Places'
  BY <1>1, <1>3 DEF Places
<1>7. Exact'
  <2>1. SUFFICES ASSUME additions + removals = 0
                 PROVE  Exact'
    BY <1>1 DEF Exact
  <2>2. Begins(got, All) /\ names = All /\ index = Len(Seen) /\ Begins(Seen, All)
    BY <1>1, <2>1 DEF Exact
  <2>3. index' = Len(Seen') /\ names' = All'
    BY <1>1, <1>3, <1>4, <2>2
  <2>4. ASSUME NEW k \in DOMAIN Seen'
        PROVE  Seen'[k] = All[k]
    <3>1. Seen' = Append(Seen, e) /\ k \in 1..(Len(Seen) + 1) /\ e \in N
      BY <1>2, <1>3, <1>4
    <3>2. CASE k = Len(Seen) + 1
      BY <3>1, <3>2, <1>2, <1>4, <2>2
    <3>3. CASE k # Len(Seen) + 1
      <4>1. k \in DOMAIN Seen /\ Seen'[k] = Seen[k]
        BY <3>1, <3>3, <1>4
      <4> QED
        BY <4>1, <2>2 DEF Begins
    <3> QED
      BY <3>2, <3>3
  <2>5. Begins(Seen, All)'
    BY <1>1, <1>3, <1>4, <2>2, <2>4 DEF Begins
  <2>6. Begins(got, All)'
    BY <1>4, <2>2 DEF Begins
  <2> QED
    BY <1>1, <2>3, <2>5, <2>6 DEF Exact
<1>8. Hidden'
  <2>1. PICK r \in 0..removals :
              /\ Few(Missed(names, index, Seen), r)
              /\ \A i \in 0..Len(names) : Few(MovedForward(i), removals - r)
    BY <1>1 DEF Hidden
  <2>2. Missed(names, index, Seen)' \subseteq Missed(names, index, Seen)
    BY <1>1, <1>2, <1>3 DEF Missed
  <2>3. Few(Missed(names, index, Seen)', r)
    BY <2>1, <2>2, <1>1, FewWithin
  <2>4. \A i \in 0..Len(names) : MovedForward(i)' = MovedForward(i)
    BY <1>1, <1>4 DEF MovedForward
  <2>5. there' \subseteq Elements(names)'
    BY <1>1 DEF Hidden, Elements
  <2> QED
    BY <1>1, <2>1, <2>3, <2>4, <2>5 DEF Hidden
<1>9. Repeated'
  <2> DEFINE E == Elements(Seen)
             B == Behind(names, index)
             F == Elements(Seen')
             C == Behind(names, index + 1)
  <2>1. PICK a \in 0..additions :
              /\ Due(names, index, Seen) <= a
              /\ \A i \in 0..Len(names) : Few(MovedBack(i), additions - a)
    BY <1>1 DEF Repeated
  <2>2. Len(Seen) + Cardinality(B \intersect E) - Cardinality(E) <= a
    BY <2>1 DEF Due
  <2>3. Due(names, index, Seen)' = Len(Seen') + Cardinality(C \intersect F) - Cardinality(F)
    BY <1>1 DEF Due
  <2>4. F = E \union {e} /\ B = C \union {e} /\ e \notin C
    BY <1>2, <1>3
  <2>5. IsFiniteSet(E) /\ Cardinality(E) \in Nat
    BY <1>4, ElementsAre
  <2> HIDE DEF E, B, F, C
  <2>6. IsFiniteSet(B \intersect E) /\ Cardinality(B \intersect E) \in Nat
    <3>1. B \intersect E \in SUBSET E
      OBVIOUS
    <3> QED
      BY <2>5, <3>1, FS_Subset, FS_CardinalityType
  <2>7. Cardinality(C \intersect F) - Cardinality(F) + 1
            <= Cardinality(B \intersect E) - Cardinality(E)
    <3>1. CASE e \in E
      <4>1. F = E /\ C \intersect F = (B \intersect E) \ {e} /\ e \in B \intersect E
        BY <3>1, <2>4
      <4>2. Cardinality((B \intersect E) \ {e}) = Cardinality(B \intersect E) - 1
        BY <4>1, <2>6, FS_RemoveElement
      <4>3. /\ Cardinality(C \intersect F) = Cardinality(B \intersect E) - 1
            /\ Cardinality(F) = Cardinality(E)
        BY <4>1, <4>2
      <4> QED
        BY ONLY <4>3, <2>5, <2>6
    <3>2. CASE e \notin E
      <4>1. C \intersect F = B \intersect E
        BY <3>2, <2>4
      <4>2. Cardinality(E \union {e}) = Cardinality(E) + 1
        BY <3>2, <2>5, FS_AddElement
      <4>3. /\ Cardinality(C \intersect F) = Cardinality(B \intersect E)
            /\ Cardinality(F) = Cardinality(E) + 1
        BY <4>1, <4>2, <2>4
      <4> QED
        BY ONLY <4>3, <2>5, <2>6
    <3> QED
      BY <3>1, <3>2
  <2>8. Due(names, index, Seen)' <= a
    <3>1. Cardinality(C \intersect F) \in Nat /\ Cardinality(F) \in Nat
      <4>1. IsFiniteSet(F)
        BY <2>4, <2>5, FS_AddElement
      <4>2. C \intersect F \in SUBSET F
        OBVIOUS
      <4> QED
        BY <4>1, <4>2, FS_Subset, FS_CardinalityType
    <3> QED
      BY <3>1, <2>2, <2>3, <2>5, <2>6, <2>7, <1>3, <1>4
  <2>9. \A i \in 0..Len(names) : MovedBack(i)' = MovedBack(i)
    BY <1>1, <1>4 DEF MovedBack
  <2>10. EachAdditionRepeatsAtMostOne'
    BY <1>1 DEF Repeated, EachAdditionRepeatsAtMostOne, Elements
  <2> QED
    BY <1>1, <2>1, <2>8, <2>9, <2>10 DEF Repeated
<1>10. Snapshot'
  BY <1>1 DEF Snapshot
<1> QED
  BY <1>5, <1>6, <1>7, <1>8, <1>9, <1>10

LEMMA EntryFailsInv ==
    ASSUME Inv, EntryFails
    PROVE  Inv'
<1> USE DEF Inv, EntryFails, history
<1>1. Types'
  BY DEF Types, Once, Elements
<1>2. Places'
  BY DEF Places
<1>3. Exact'
  BY DEF Exact, Begins, All
<1>4. Hidden'
  BY DEF Hidden
<1>5. Repeated'
  BY DEF Repeated, EachAdditionRepeatsAtMostOne, Elements
<1>6. Snapshot'
  <2>1. os = "windows" => step = "stating" /\ got = <<>> /\ offset = 0
    BY DEF Places, Snapshot
  <2> QED
    BY <2>1 DEF Snapshot, Elements
<1> QED
  BY <1>1, <1>2, <1>3, <1>4, <1>5, <1>6

(* A page reaches the reader: what it has missed and had twice is what the  *)
(* list had lost and repeated when it was taken, and what moved since.      *)
LEMMA ReplyInv ==
    ASSUME Inv, Reply
    PROVE  Inv'
<1> USE DEF Inv, Reply, history
<1> DEFINE N == Name \union Dots
<1>1. /\ os = "linux" /\ step = "listing" /\ os' = os /\ names' = names
      /\ index \in Nat /\ index' = index /\ offset \in Nat
      /\ names \in Seq(N) /\ Len(names) \in Nat
      /\ removals \in Nat /\ additions \in Nat /\ removals' = removals /\ additions' = additions
      /\ there' = there
  BY DEF Types, Places
<1>2. /\ All' = All /\ Seen \in Seq(N) /\ Len(Seen) \in Nat /\ All \in Seq(N) /\ Len(All) \in Nat
      /\ got' = Seen /\ Elements(got)' = Elements(Seen)
  <2>1. got' = Seen
    BY DEF Seen, PageNames
  <2>2. Elements(got)' = Elements(Seen)
    BY <2>1 DEF Elements
  <2>3. Seen \in Seq(N) /\ All \in Seq(N)
    BY Lists
  <2>4. All' = All
    BY DEF All
  <2>5. Len(Seen) \in Nat /\ Len(All) \in Nat
    BY <2>3
  <2> HIDE DEF N
  <2> QED
    BY <2>1, <2>2, <2>3, <2>4, <2>5
<1>3. page = <<>> \/ (index <= Len(names) /\ page[Len(page)].next = index)
  BY <1>1 DEF Places
<1>4. IF page = <<>> THEN step' = "ended" /\ offset' = offset
                     ELSE step' = "asking" /\ offset' = index
  BY <1>3
<1>5. ASSUME page = <<>>
      PROVE  index >= Len(names)
  <2>1. Len(page) # PageSize
    BY <1>5, PageAssumption DEF PageAssumption
  <2>2. ~More
    BY <2>1 DEF Full
  <2> QED
    BY <1>1, <2>2 DEF More
<1>6. PICK r \in 0..removals :
            /\ Few(Missed(names, index, Seen), r)
            /\ \A i \in 0..Len(names) : Few(MovedForward(i), removals - r)
  BY <1>1 DEF Hidden
<1>7. PICK a \in 0..additions :
            /\ Due(names, index, Seen) <= a
            /\ \A i \in 0..Len(names) : Few(MovedBack(i), additions - a)
  BY <1>1 DEF Repeated
<1>8. IsFiniteSet(Elements(Seen)) /\ Cardinality(Elements(Seen)) \in Nat
  BY <1>2, ElementsAre
<1> HIDE DEF N
<1>9. Types'
  <2>1. Once(names)' /\ there' \subseteq Elements(dir)'
    BY DEF Types, Once, Elements
  <2>2. step' \in {"ended", "asking"} /\ offset' \in Nat
    BY <1>1, <1>4
  <2> QED
    BY <1>1, <1>2, <2>1, <2>2 DEF Types, N
<1>10. Places'
  BY <1>1, <1>4 DEF Places
<1>11. Exact'
  <2>1. SUFFICES ASSUME additions + removals = 0
                 PROVE  Exact'
    BY <1>1 DEF Exact
  <2>2. names = All /\ index = Len(Seen) /\ Begins(Seen, All)
    BY <1>1, <2>1 DEF Exact
  <2>3. Begins(got, All)'
    BY <1>2, <2>2 DEF Begins
  <2>4. ASSUME page = <<>>
        PROVE  got' = All
    <3>1. Len(Seen) = Len(All)
      BY <1>1, <1>2, <1>5, <2>2, <2>4 DEF Begins
    <3>2. \A k \in 1..Len(Seen) : Seen[k] = All[k]
      BY <1>2, <2>2 DEF Begins
    <3> QED
      BY <1>2, <3>1, <3>2, SeqEqual
  <2> QED
    BY <1>1, <1>2, <1>4, <2>2, <2>3, <2>4 DEF Exact
<1>12. Hidden'
  <2>1. ASSUME page = <<>>
        PROVE  Few((there \ Elements(got))', removals)
    <3>1. there \subseteq Before(names, index)
      <4>1. there \subseteq Elements(names)
        BY <1>1 DEF Hidden
      <4>2. \A k \in DOMAIN names : k <= index
        BY <1>1, <1>5, <2>1
      <4> QED
        BY <4>1, <4>2 DEF Elements, Before
    <3>2. (there \ Elements(got))' \subseteq Missed(names, index, Seen)
      BY <1>1, <1>2, <3>1 DEF Missed
    <3>3. r \in Int /\ removals \in Int /\ r <= removals
      BY <1>1
    <3> QED
      BY <1>6, <3>2, <3>3, FewWithin
  <2>2. ASSUME page # <<>>
        PROVE  Few(Missed(All, offset, got)', removals)
    <3>1. Few(MovedForward(index), removals - r)
      BY <1>1, <1>3, <1>6, <2>2
    <3>2. r \in Int /\ removals - r \in Int /\ r + (removals - r) = removals /\ removals \in Int
      BY <1>1
    <3>3. Few(Missed(names, index, Seen) \union MovedForward(index), r + (removals - r))
      BY ONLY <1>6, <3>1, <3>2, FewTogether
    <3>4. Missed(All, offset, got)' \subseteq Missed(names, index, Seen) \union MovedForward(index)
      BY <1>1, <1>2, <1>4, <2>2 DEF Missed, MovedForward
    <3> QED
      BY <3>2, <3>3, <3>4, FewWithin
  <2> QED
    BY <1>1, <1>4, <2>1, <2>2 DEF Hidden
<1>13. Repeated'
  <2>1. /\ Cardinality(Behind(names, index) \intersect Elements(Seen)) \in Nat
        /\ Len(Seen) + Cardinality(Behind(names, index) \intersect Elements(Seen))
              - Cardinality(Elements(Seen)) <= a
    <3>1. Behind(names, index) \intersect Elements(Seen) \in SUBSET Elements(Seen)
      OBVIOUS
    <3>2. Cardinality(Behind(names, index) \intersect Elements(Seen)) \in Nat
      BY <3>1, <1>8, FS_Subset, FS_CardinalityType
    <3> QED
      BY <1>7, <3>2 DEF Due
  <2>2. EachAdditionRepeatsAtMostOne'
    BY <1>1, <1>2, <1>8, <2>1 DEF EachAdditionRepeatsAtMostOne
  <2>3. ASSUME page # <<>>
        PROVE  Due(All, offset, got)' <= additions
    <3>1. Few(MovedBack(index), additions - a)
      BY <1>1, <1>3, <1>7, <2>3
    <3>2. additions - a \in Int
      BY <1>1
    <3>3. Behind(All, index) \subseteq Behind(names, index) \union MovedBack(index)
      BY DEF MovedBack
    <3>4. /\ Cardinality(Behind(All, index) \intersect Elements(Seen)) \in Nat
          /\ Cardinality(Behind(All, index) \intersect Elements(Seen))
                <= Cardinality(Behind(names, index) \intersect Elements(Seen)) + (additions - a)
      BY ONLY <3>1, <3>2, <3>3, <1>8, CountMore
    <3>5. Due(All, offset, got)' =
              Len(Seen) + Cardinality(Behind(All, index) \intersect Elements(Seen))
                  - Cardinality(Elements(Seen))
      BY <1>2, <1>4, <2>3 DEF Due
    <3> QED
      BY <3>2, <3>4, <3>5, <2>1, <1>1, <1>2, <1>8
  <2> QED
    BY <1>1, <1>4, <2>2, <2>3 DEF Repeated
<1>14. Snapshot'
  BY <1>1 DEF Snapshot
<1> QED
  BY <1>9, <1>10, <1>11, <1>12, <1>13, <1>14

-----------------------------------------------------------------------------
(* Windows: the listing, and the FileInfo of each of its entries.           *)
LEMMA ReadDirectoryInv ==
    ASSUME Inv, read_directory
    PROVE  Inv'
<1> USE DEF Inv, read_directory, history
<1>1. os = "windows" /\ os' = os /\ dir \in Seq(Name) /\ Once(dir)
  BY Lists
<1>2. names' \in Seq(Name) /\ Once(names') /\ index' \in Nat
  BY <1>1 DEF Types, Places
<1>3. dir \in Seq(Name \union Dots)
  BY <1>1, SeqMonotonic
<1>4. Types'
  <2>1. names' \in Seq(Name \union Dots)
    BY <1>3 DEF Types
  <2>2. there' \subseteq Elements(dir)'
    BY DEF Types, Elements
  <2>3. Once(names)'
    BY <1>2 DEF Once
  <2> QED
    BY <1>2, <2>1, <2>2, <2>3 DEF Types
<1>5. Places'
  BY <1>1, <1>2 DEF Places
<1>6. Exact' /\ Hidden' /\ Repeated'
  BY <1>1 DEF Exact, Hidden, Repeated
<1>7. Snapshot'
  <2>1. CASE offset = 0
    <3>1. got = <<>>
      <4>1. ASSUME got # <<>>
            PROVE  FALSE
        <5>1. Len(got) \in 1..Len(names) /\ offset = names[Len(got)]
          BY <1>1, <4>1 DEF Snapshot, Begins, Types
        <5>2. names[Len(got)] \in Name
          BY <1>1, <5>1 DEF Places
        <5> QED
          BY <2>1, <5>1, <5>2, PageAssumption DEF PageAssumption
      <4> QED
        BY <4>1
    <3>2. there \subseteq Elements(dir)
      BY DEF Types
    <3> QED
      BY <1>1, <2>1, <3>1, <3>2 DEF Snapshot, Elements
  <2>2. CASE offset # 0
    BY <1>1, <2>2 DEF Snapshot, Ascending, Begins, Elements
  <2> QED
    BY <2>1, <2>2
<1> QED
  BY <1>4, <1>5, <1>6, <1>7

LEMMA StatEntryInv ==
    ASSUME Inv, StatEntry
    PROVE  Inv'
<1> USE DEF Inv, StatEntry, history
<1>1. os = "windows" /\ os' = os
  BY DEF Places, Types
<1>2. Types'
  BY DEF Types, Once, Elements
<1>3. Places'
  BY DEF Places
<1>4. Exact' /\ Hidden' /\ Repeated'
  BY <1>1 DEF Exact, Hidden, Repeated
<1>5. Snapshot'
  BY <1>1 DEF Snapshot, Elements
<1> QED
  BY <1>2, <1>3, <1>4, <1>5

(* entries.sort_by: there is one order in which the names ascend - each at  *)
(* the place that is the number of those that come no later.                *)
LEMMA SortedOrder ==
    ASSUME NEW s \in Seq(Name), Once(s)
    PROVE  \E t \in Orders : Elements(t) = Elements(s) /\ Ascending(t)
<1> DEFINE S == Elements(s)
           n == Cardinality(S)
           upto(x) == {y \in S : y <= x}
           rank == [x \in S |-> Cardinality(upto(x))]
<1>1. S \subseteq Name /\ Name \subseteq Nat /\ IsFiniteSet(S) /\ n \in Nat
  <2>1. \A k \in DOMAIN s : s[k] \in Name
    OBVIOUS
  <2> QED
    BY <2>1, ElementsAre, PageAssumption DEF Elements, PageAssumption
<1> HIDE DEF S
<1>2. ASSUME NEW x \in S
      PROVE  IsFiniteSet(upto(x)) /\ Cardinality(upto(x)) \in 1..n
  <2>1. upto(x) \in SUBSET S /\ x \in upto(x)
    BY <1>1
  <2>2. IsFiniteSet(upto(x)) /\ Cardinality(upto(x)) <= n
    BY <1>1, <2>1, FS_Subset
  <2>3. Cardinality(upto(x)) \in Nat /\ Cardinality(upto(x)) # 0
    BY <2>1, <2>2, FS_CardinalityType, FS_EmptySet
  <2> QED
    BY <1>1, <2>2, <2>3
<1>3. ASSUME NEW x \in S, NEW y \in S, x < y
      PROVE  rank[x] < rank[y]
  <2>1. upto(x) \in SUBSET upto(y) /\ y \in upto(y) /\ y \notin upto(x)
    <3>1. x \in Nat /\ y \in Nat
      BY <1>1
    <3>2. ASSUME NEW z \in S, z <= x
          PROVE  z <= y
      <4>1. z \in Nat
        BY <1>1
      <4> QED
        BY <1>3, <3>1, <3>2, <4>1
    <3>3. y <= y /\ ~(y <= x)
      BY <1>3, <3>1
    <3> QED
      BY <3>2, <3>3
  <2>2. /\ IsFiniteSet(upto(y)) /\ Cardinality(upto(x)) \in Nat /\ Cardinality(upto(y)) \in Nat
    <3>1. IsFiniteSet(upto(y)) /\ Cardinality(upto(x)) \in 1..n /\ Cardinality(upto(y)) \in 1..n
      BY <1>2
    <3> HIDE DEF upto
    <3> QED
      BY <3>1, <1>1
  <2>3. /\ Cardinality(upto(x)) <= Cardinality(upto(y))
        /\ Cardinality(upto(y)) # Cardinality(upto(x))
    <3> HIDE DEF upto
    <3> QED
      BY <2>1, <2>2, FS_Subset
  <2> QED
    BY <2>2, <2>3
<1>4. rank \in [S -> 1..n]
  BY <1>2
<1> HIDE DEF rank
<1>5. rank \in Injection(S, 1..n)
  <2>1. ASSUME NEW x \in S, NEW y \in S, rank[x] = rank[y]
        PROVE  x = y
    <3>1. x \in Nat /\ y \in Nat /\ rank[x] \in Nat /\ rank[y] \in Nat
      BY <1>1, <1>4
    <3> QED
      BY <1>3, <2>1, <3>1
  <2> QED
    BY <1>4, <2>1 DEF Injection, IsInjective
<1>6. IsFiniteSet(1..n) /\ Cardinality(1..n) = n
  <2> HIDE DEF n
  <2>1. IsFiniteSet(1..n) /\ Cardinality(1..n) = IF 1 > n THEN 0 ELSE n - 1 + 1
    BY <1>1, FS_Interval
  <2> QED
    BY <1>1, <2>1
<1>7. rank \in Surjection(S, 1..n)
  BY <1>5, <1>6, FS_Injection
<1> DEFINE t == [k \in 1..n |-> CHOOSE x \in S : rank[x] = k]
<1>8. ASSUME NEW k \in 1..n
      PROVE  t[k] \in S /\ rank[t[k]] = k
  BY <1>7 DEF Surjection
<1>9. t \in [1..n -> Name]
  BY <1>1, <1>8
<1> HIDE DEF t, n
<1>10. DOMAIN t = 1..n /\ t \in Seq(Name)
  BY <1>1, <1>9
<1>11. Elements(t) = S
  <2>1. ASSUME NEW x \in S
        PROVE  \E k \in 1..n : t[k] = x
    <3>1. rank[x] \in 1..n
      BY <1>4
    <3>2. t[rank[x]] \in S /\ rank[t[rank[x]]] = rank[x]
      BY <3>1, <1>8
    <3>3. t[rank[x]] = x
      BY <3>2, <1>5 DEF Injection, IsInjective
    <3> QED
      BY <3>1, <3>3
  <2> QED
    BY <2>1, <1>8, <1>10 DEF Elements
<1>12. Ascending(t)
  <2>1. SUFFICES ASSUME NEW j \in 1..n, NEW k \in 1..n, j < k
                 PROVE  t[j] < t[k]
    BY <1>10 DEF Ascending
  <2>2. t[j] \in Nat /\ t[k] \in Nat /\ t[j] \in S /\ t[k] \in S
    BY <1>1, <1>8
  <2>3. rank[t[j]] = j /\ rank[t[k]] = k
    BY <1>8
  <2>4. ASSUME t[k] <= t[j]
        PROVE  FALSE
    <3>1. CASE t[k] = t[j]
      BY <2>1, <2>3, <3>1
    <3>2. CASE t[k] # t[j]
      <4>1. t[k] < t[j]
        BY <2>2, <2>4, <3>2
      <4>2. rank[t[k]] < rank[t[j]]
        BY <2>2, <4>1, <1>3
      <4> QED
        BY <2>1, <2>3, <4>2
    <3> QED
      BY <3>1, <3>2
  <2> QED
    BY <2>2, <2>4
<1>13. Once(t)
  <2>1. ASSUME NEW j \in 1..n, NEW k \in 1..n, t[j] = t[k]
        PROVE  j = k
    <3>1. rank[t[j]] = j /\ rank[t[k]] = k
      BY <1>8
    <3> QED
      BY <2>1, <3>1
  <2> QED
    BY <2>1, <1>10 DEF Once
<1>14. t \in Orders
  BY <1>10, <1>13, OrderIs
<1> QED
  BY <1>11, <1>12, <1>14 DEF S

LEMMA SortInv ==
    ASSUME Inv, Sort
    PROVE  Inv'
<1> USE DEF Inv, Sort, history
<1>1. os = "windows" /\ os' = os /\ names \in Seq(Name) /\ Once(names)
  BY DEF Places, Types
<1>2. names' \in Orders /\ Elements(names') = Elements(names) /\ Ascending(names')
  <2>1. \E s \in Orders : Elements(s) = Elements(names) /\ Ascending(s)
    BY <1>1, SortedOrder
  <2> QED
    BY <2>1
<1>3. names' \in Seq(Name) /\ Once(names')
  BY <1>2, OrderIs
<1>4. names' \in Seq(Name \union Dots)
  BY <1>3, SeqMonotonic
<1>5. Types'
  <2>1. Once(names)'
    BY <1>3 DEF Once
  <2>2. there' = there /\ dir' = dir
    OBVIOUS
  <2>3. there' \subseteq Elements(dir)'
    BY <2>2 DEF Types, Elements
  <2> QED
    BY <1>4, <2>1, <2>3 DEF Types
<1>6. Places'
  BY <1>1, <1>3 DEF Places
<1>7. Exact' /\ Hidden' /\ Repeated'
  BY <1>1 DEF Exact, Hidden, Repeated
<1>8. Snapshot'
  <2>1. got = <<>> /\ offset = 0 /\ there \subseteq Elements(names)
    BY <1>1 DEF Snapshot
  <2>2. Ascending(names)' /\ Elements(names)' = Elements(names)
    BY <1>2 DEF Ascending, Elements
  <2>3. Begins(got, names)'
    BY <2>1, <1>3 DEF Begins
  <2> QED
    BY <1>1, <2>1, <2>2, <2>3 DEF Snapshot
<1> QED
  BY <1>5, <1>6, <1>7, <1>8

(* Behind the last name of a page the next one starts, wherever that was:   *)
(* partition_point of windows_filesystem.rs:254-262.                        *)
LEMMA StartIsNext ==
    ASSUME names \in Seq(Name), Ascending(names),
           NEW g \in Seq(Name \union Dots), Begins(g, names),
           offset = IF g = <<>> THEN 0 ELSE names[Len(g)]
    PROVE  directory_start(offset) = Len(g)
<1>1. /\ DOMAIN names = 1..Len(names) /\ Len(names) \in Nat /\ Len(g) \in 0..Len(names)
      /\ \A k \in 1..Len(names) : names[k] \in Nat \ {0}
  <2>1. \A k \in 1..Len(names) : names[k] \in Name
    OBVIOUS
  <2>2. \A k \in 1..Len(names) : names[k] \in Nat \ {0}
    BY <2>1, PageAssumption DEF PageAssumption
  <2>3. DOMAIN names = 1..Len(names) /\ Len(names) \in Nat /\ Len(g) \in Nat
    OBVIOUS
  <2> QED
    BY <2>2, <2>3 DEF Begins
<1>2. {k \in DOMAIN names : names[k] <= offset} = 1..Len(g)
  <2>1. CASE g = <<>>
    <3>1. \A k \in DOMAIN names : ~(names[k] <= offset)
      BY <2>1, <1>1
    <3>2. Len(g) = 0
      BY <2>1
    <3> QED
      BY <3>1, <3>2, <1>1
  <2>2. CASE g # <<>>
    <3>1. Len(g) \in 1..Len(names) /\ offset = names[Len(g)]
      BY <2>2, <1>1
    <3>2. ASSUME NEW k \in 1..Len(names)
          PROVE  names[k] <= offset <=> k <= Len(g)
      <4>1. names[k] \in Nat /\ offset \in Nat
        BY <1>1, <3>1
      <4>2. CASE k < Len(g)
        BY <1>1, <3>1, <4>1, <4>2 DEF Ascending
      <4>3. CASE k = Len(g)
        BY <1>1, <3>1, <4>1, <4>3
      <4>4. CASE k > Len(g)
        <5>1. offset < names[k]
          BY <1>1, <3>1, <4>4 DEF Ascending
        <5> QED
          BY <1>1, <4>1, <4>4, <5>1
      <4> QED
        BY <1>1, <4>2, <4>3, <4>4
    <3> QED
      BY <1>1, <3>2
  <2> QED
    BY <2>1, <2>2
<1>3. Cardinality(1..Len(g)) = Len(g)
  <2>1. Len(g) \in Nat
    BY <1>1
  <2>2. Cardinality(1..Len(g)) = IF 1 > Len(g) THEN 0 ELSE Len(g) - 1 + 1
    BY ONLY <2>1, FS_Interval
  <2> QED
    BY <2>1, <2>2
<1> QED
  BY <1>2, <1>3 DEF directory_start

LEMMA WinReplyInv ==
    ASSUME Inv, WinReply
    PROVE  Inv'
<1> USE DEF Inv, history
<1> DEFINE N == Name \union Dots
           start == directory_start(offset)
           end == IF start + PageSize <= Len(names) THEN start + PageSize ELSE Len(names)
           more == SubSeq(names, start + 1, end)
<1>1. /\ step = "paging" /\ got' = got \o more
      /\ offset' = IF start = end THEN offset ELSE names[end]
      /\ (end = Len(names) /\ step' = "ended") \/ step' = "asking"
      /\ UNCHANGED <<os, dir, dots, names, index, page, there, additions, removals>>
  BY DEF WinReply
<1>2. /\ os = "windows" /\ names \in Seq(Name) /\ got \in Seq(N) /\ offset \in Nat
      /\ Ascending(names) /\ Begins(got, names)
      /\ offset = IF got = <<>> THEN 0 ELSE names[Len(got)]
      /\ there \subseteq Elements(names)
  BY <1>1 DEF Types, Places, Snapshot
<1>3. start = Len(got)
  BY <1>2, StartIsNext
<1> HIDE DEF start
<1>4. /\ start \in Nat /\ end \in Nat /\ start <= end /\ end <= Len(names) /\ Len(names) \in Nat
      /\ DOMAIN names = 1..Len(names)
  <2>1. /\ Len(names) \in Nat /\ DOMAIN names = 1..Len(names)
        /\ Len(got) \in Nat /\ Len(got) <= Len(names)
    BY <1>2 DEF Begins
  <2> QED
    BY <2>1, <1>3, PageAssumption DEF PageAssumption
<1> HIDE DEF end
<1>5. /\ more \in Seq(Name) /\ Len(more) = end - start
      /\ \A k \in 1..(end - start) : more[k] = names[start + k]
  BY <1>2, <1>4
<1> HIDE DEF more
<1>6. /\ got' \in Seq(N) /\ Len(got') = end /\ DOMAIN got' = 1..end
      /\ \A k \in 1..end : got'[k] = names[k]
  <2>1. more \in Seq(N)
    BY <1>5, SeqMonotonic
  <2>2. /\ got \o more \in Seq(N) /\ Len(got \o more) = Len(got) + Len(more)
        /\ \A k \in 1..(Len(got) + Len(more)) :
              (got \o more)[k] = IF k <= Len(got) THEN got[k] ELSE more[k - Len(got)]
    BY <2>1, <1>2
  <2>3. Len(got) + Len(more) = end
    BY <1>3, <1>4, <1>5
  <2>4. ASSUME NEW k \in 1..end
        PROVE  got'[k] = names[k]
    <3>1. CASE k <= start
      <4>1. k \in 1..Len(got) /\ k \in 1..(Len(got) + Len(more)) /\ DOMAIN got = 1..Len(got)
        BY <1>2, <1>3, <1>4, <2>3, <3>1
      <4>2. got'[k] = got[k] /\ k \in DOMAIN got
        BY <4>1, <1>1, <2>2
      <4> QED
        BY <4>2, <1>2 DEF Begins
    <3>2. CASE k > start
      <4>1. got'[k] = more[k - start]
        <5>1. k \in 1..(Len(got) + Len(more)) /\ ~(k <= Len(got))
          BY <1>3, <1>4, <2>3, <3>2
        <5> QED
          BY <5>1, <1>1, <1>3, <2>2
      <4>2. k - start \in 1..(end - start) /\ start + (k - start) = k
        BY <1>4, <3>2
      <4> QED
        BY <4>1, <4>2, <1>5
    <3> QED
      BY <1>4, <3>1, <3>2
  <2>5. got' \in Seq(N) /\ Len(got') = end
    BY <1>1, <2>2, <2>3
  <2>6. DOMAIN got' = 1..end
    BY <2>5
  <2> QED
    BY <2>4, <2>5, <2>6
<1> HIDE DEF N
<1>7. offset' = IF got' = <<>> THEN 0 ELSE names[end]
  <2>1. CASE start = end
    <3>1. got' = <<>> <=> got = <<>>
      BY <2>1, <1>2, <1>3, <1>6, EmptySeq DEF N
    <3> QED
      BY <2>1, <3>1, <1>1, <1>2, <1>3
  <2>2. CASE start # end
    <3>1. got' # <<>>
      BY <2>2, <1>4, <1>6
    <3> QED
      BY <2>2, <3>1, <1>1
  <2> QED
    BY <2>1, <2>2
<1>8. offset' \in Nat
  <2>1. CASE start = end
    BY <2>1, <1>1, <1>2
  <2>2. CASE start # end
    <3>1. end \in 1..Len(names)
      BY <2>2, <1>4
    <3>2. offset' = names[end]
      BY <2>2, <1>1
    <3>3. names[end] \in Name
      BY <3>1, <1>2
    <3> QED
      BY <3>2, <3>3, PageAssumption DEF PageAssumption
  <2> QED
    BY <2>1, <2>2
<1>9. Types'
  <2>1. Once(names)' /\ there' \subseteq Elements(dir)'
    BY <1>1 DEF Types, Once, Elements
  <2> QED
    BY <1>1, <1>6, <1>8, <2>1 DEF Types, N
<1>10. Places'
  BY <1>1, <1>2 DEF Places
<1>11. Exact' /\ Hidden' /\ Repeated'
  BY <1>1, <1>2 DEF Exact, Hidden, Repeated
<1>12. Snapshot'
  <2>1. Begins(got, names)'
    BY <1>1, <1>4, <1>6 DEF Begins
  <2>2. Ascending(names)' /\ there' \subseteq Elements(names)'
    BY <1>1, <1>2 DEF Ascending, Elements
  <2>3. (Len(got) = end)' \/ Len(got') = end
    BY <1>6
  <2> QED
    BY <1>1, <1>2, <1>6, <1>7, <2>1, <2>2 DEF Snapshot
<1> QED
  BY <1>9, <1>10, <1>11, <1>12

-----------------------------------------------------------------------------
(***************************************************************************)
(* The invariant holds in every state (filesystem.rs:376-434,              *)
(* windows_filesystem.rs:244-277), for every set of names and page size,   *)
(* and however many names come and go.                                     *)
(***************************************************************************)
THEOREM Invariant == Spec => []Inv
<1>1. Init => Inv
  BY InitInv
<1>2. Inv /\ [Next]_vars => Inv'
  <2> SUFFICES ASSUME Inv, [Next]_vars
               PROVE  Inv'
    OBVIOUS
  <2>1. CASE Handler
    <3>1. CASE readdir
      BY <3>1, ReaddirInv
    <3>2. CASE AddEntry
      BY <3>2, AddEntryInv
    <3>3. CASE EntryFails
      BY <3>3, EntryFailsInv
    <3>4. CASE Reply
      BY <3>4, ReplyInv
    <3>5. CASE read_directory
      BY <3>5, ReadDirectoryInv
    <3>6. CASE StatEntry
      BY <3>6, StatEntryInv
    <3>7. CASE Sort
      BY <3>7, SortInv
    <3>8. CASE WinReply
      BY <3>8, WinReplyInv
    <3> QED
      BY <2>1, <3>1, <3>2, <3>3, <3>4, <3>5, <3>6, <3>7, <3>8 DEF Handler
  <2>2. CASE \E n \in Name, k \in 0..Cardinality(Name) : AddName(n, k)
    BY <2>2, AddNameInv
  <2>3. CASE \E k \in 1..Cardinality(Name) : RemoveName(k)
    BY <2>3, RemoveNameInv
  <2>4. CASE UNCHANGED vars
    <3> USE <2>4 DEF Inv, vars
    <3>1. Types'
      BY DEF Types, Once, Elements
    <3>2. Places'
      BY DEF Places
    <3>3. Exact'
      BY DEF Exact, Begins, All, Seen, PageNames
    <3>4. All' = All /\ Seen' = Seen
      BY DEF All, Seen, PageNames
    <3>5. Hidden'
      <4>1. /\ Missed(All, offset, got)' = Missed(All, offset, got)
            /\ Missed(names, index, Seen)' = Missed(names, index, Seen)
            /\ Elements(names)' = Elements(names) /\ Elements(got)' = Elements(got)
        BY <3>4 DEF Missed, Elements
      <4>2. \A i : MovedForward(i)' = MovedForward(i)
        BY <3>4 DEF MovedForward
      <4> QED
        BY <4>1, <4>2 DEF Hidden
    <3>6. Repeated'
      <4>1. /\ Due(All, offset, got)' = Due(All, offset, got)
            /\ Due(names, index, Seen)' = Due(names, index, Seen)
        BY <3>4 DEF Due
      <4>2. \A i : MovedBack(i)' = MovedBack(i)
        BY <3>4 DEF MovedBack
      <4>3. EachAdditionRepeatsAtMostOne' = EachAdditionRepeatsAtMostOne
        BY DEF EachAdditionRepeatsAtMostOne, Elements
      <4> QED
        BY <4>1, <4>2, <4>3 DEF Repeated
    <3>7. Snapshot'
      BY DEF Snapshot, Ascending, Begins, Elements
    <3> QED
      BY <3>1, <3>2, <3>3, <3>5, <3>6, <3>7
  <2> QED
    BY <2>1, <2>2, <2>3, <2>4 DEF Next
<1> QED
  BY <1>1, <1>2, PTL DEF Spec

(* The state of one enumeration has the shape it is declared with.          *)
THEOREM TypeCorrect == Spec => []TypeOK
<1>1. Inv => TypeOK
  <2> SUFFICES ASSUME Inv
               PROVE  TypeOK
    OBVIOUS
  <2>1. /\ names \in Seq(Name \union Dots) /\ got \in Seq(Name \union Dots)
        /\ page \in Seq([name : Name \union Dots, next : Nat])
    BY DEF Inv, Types
  <2>2. Elements(names) \subseteq Name \union Dots /\ Elements(got) \subseteq Name \union Dots
    BY <2>1 DEF Elements
  <2>3. Elements(page) \subseteq [name : Name \union Dots, next : Nat]
    <3> DEFINE P == [name : Name \union Dots, next : Nat]
    <3>1. page \in Seq(P)
      BY <2>1
    <3> HIDE DEF P
    <3>2. Elements(page) \subseteq P
      BY <3>1 DEF Elements
    <3> QED
      BY <3>2 DEF P
  <2>4. dots \in Seq(Dots)
    <3>1. Dot \in Dots /\ DotDot \in Dots
      BY DEF Dots
    <3>2. CASE dots = <<>>
      BY <3>2
    <3>3. CASE dots = <<Dot>>
      BY <3>1, <3>3
    <3>4. CASE dots = <<DotDot>>
      BY <3>1, <3>4
    <3>5. CASE dots = <<Dot, DotDot>>
      BY <3>1, <3>5
    <3> QED
      BY <3>2, <3>3, <3>4, <3>5 DEF Inv, Types
  <2> QED
    BY <2>2, <2>3, <2>4 DEF Inv, Types, TypeOK
<1> QED
  BY <1>1, Invariant, PTL

(* A name the reader has not got is one it has no time.                     *)
LEMMA NotGot ==
    ASSUME Types, NEW n
    PROVE  Times(n) = 0 <=> n \notin Elements(got)
<1>1. DOMAIN got = 1..Len(got) /\ Len(got) \in Nat
  BY DEF Types
<1>2. IsFiniteSet(1..Len(got))
  <2>1. 1 \in Int /\ Len(got) \in Int
    BY <1>1
  <2> QED
    BY ONLY <2>1, FS_Interval
<1>3. {k \in DOMAIN got : got[k] = n} \in SUBSET (1..Len(got))
  BY <1>1
<1>4. IsFiniteSet({k \in DOMAIN got : got[k] = n})
  BY <1>2, <1>3, FS_Subset
<1>5. Times(n) = 0 <=> {k \in DOMAIN got : got[k] = n} = {}
  BY <1>4, FS_EmptySet DEF Times
<1> QED
  BY <1>5 DEF Elements

(* A list that begins another is what that one begins with.                 *)
LEMMA BeginsIs ==
    ASSUME NEW S, NEW s \in Seq(S), NEW t \in Seq(S), Begins(s, t)
    PROVE  Len(s) <= Len(t) /\ s = SubSeq(t, 1, Len(s))
<1>1. Len(s) \in Nat /\ Len(t) \in Nat /\ Len(s) <= Len(t) /\ DOMAIN s = 1..Len(s)
  BY DEF Begins
<1>2. /\ SubSeq(t, 1, Len(s)) \in Seq(S) /\ Len(SubSeq(t, 1, Len(s))) = Len(s)
      /\ \A k \in 1..Len(s) : SubSeq(t, 1, Len(s))[k] = t[k]
  BY <1>1
<1>3. \A k \in 1..Len(s) : s[k] = t[k]
  BY <1>1 DEF Begins
<1> QED
  BY <1>1, <1>2, <1>3, SeqEqual

(***************************************************************************)
(* In a directory nobody changes, the pages make up the directory: every   *)
(* entry once, in the device's order, and the two dots once each           *)
(* (filesystem.rs:391-412).                                                *)
(***************************************************************************)
THEOREM UnchangedReadOnce == Spec => []UnchangedDirectoryReadOnce
<1>1. Inv => UnchangedDirectoryReadOnce
  <2> SUFFICES ASSUME Inv, os = "linux", additions + removals = 0
               PROVE  LET all == WithDots(dots \o dir)
                      IN  /\ Len(got) <= Len(all) /\ got = SubSeq(all, 1, Len(got))
                          /\ \A n \in Dots : Cardinality({k \in DOMAIN all : all[k] = n}) = 1
                          /\ step = "ended" => got = all
    BY DEF UnchangedDirectoryReadOnce
  <2>1. /\ WithDots(dots \o dir) = All /\ dir \in Seq(Name)
        /\ All \in Seq(Name \union Dots) /\ Once(All) /\ Elements(All) = Elements(dir) \union Dots
    BY Lists DEF Inv
  <2>2. got \in Seq(Name \union Dots) /\ Begins(got, All) /\ (step = "ended" => got = All)
    BY DEF Inv, Types, Exact
  <2>3. Len(got) <= Len(All) /\ got = SubSeq(All, 1, Len(got))
    BY <2>1, <2>2, BeginsIs
  <2>4. ASSUME NEW n \in Dots
        PROVE  Cardinality({k \in DOMAIN All : All[k] = n}) = 1
    <3>1. PICK j \in DOMAIN All : All[j] = n
      BY <2>1 DEF Elements
    <3>2. {k \in DOMAIN All : All[k] = n} = {j}
      BY <2>1, <3>1 DEF Once
    <3>3. Cardinality({j}) = 1
      BY FS_Singleton
    <3> QED
      BY <3>2, <3>3
  <2> QED
    BY <2>1, <2>2, <2>3, <2>4
<1> QED
  BY <1>1, Invariant, PTL

(***************************************************************************)
(* An enumeration that comes to its end has missed no more of the names    *)
(* that were there all along than were removed meanwhile; Windows' none    *)
(* (filesystem.rs:398-428, windows_filesystem.rs:244-277).                 *)
(***************************************************************************)
THEOREM RemovalsHide == Spec => []EachRemovalHidesAtMostOne
<1>1. Inv => EachRemovalHidesAtMostOne
  <2> SUFFICES ASSUME Inv, step = "ended"
               PROVE  Cardinality({n \in there : Times(n) = 0})
                          <= IF os = "linux" THEN removals ELSE 0
    BY DEF EachRemovalHidesAtMostOne
  <2>1. {n \in there : Times(n) = 0} = there \ Elements(got)
    BY NotGot DEF Inv
  <2>2. CASE os = "linux"
    BY <2>1, <2>2 DEF Inv, Hidden, Few
  <2>3. CASE os = "windows"
    <3>1. Begins(got, names) /\ Len(got) = Len(names) /\ there \subseteq Elements(names)
      BY <2>3 DEF Inv, Snapshot
    <3>2. names \in Seq(Name \union Dots) /\ got \in Seq(Name \union Dots)
      BY DEF Inv, Types
    <3>3. there \ Elements(got) = {}
      BY <3>1, <3>2 DEF Begins, Elements
    <3>4. Cardinality({}) = 0
      BY FS_EmptySet
    <3> QED
      BY <2>1, <2>3, <3>3, <3>4
  <2> QED
    BY <2>2, <2>3 DEF Inv, Types
<1> QED
  BY <1>1, Invariant, PTL

(***************************************************************************)
(* The reader has had no more entries twice than names were added          *)
(* meanwhile, and Windows' none (filesystem.rs:398-428).                   *)
(***************************************************************************)
THEOREM AdditionsRepeat == Spec => []EachAdditionRepeatsAtMostOne
<1>1. Inv => EachAdditionRepeatsAtMostOne
  <2> SUFFICES ASSUME Inv
               PROVE  EachAdditionRepeatsAtMostOne
    OBVIOUS
  <2>1. CASE os = "linux"
    BY <2>1 DEF Inv, Repeated
  <2>2. CASE os = "windows"
    <3>1. got \in Seq(Name \union Dots) /\ Len(got) \in Nat /\ additions \in Nat
      BY DEF Inv, Types
    <3>2. Once(got)
      <4>1. CASE got = <<>>
        BY <4>1 DEF Once
      <4>2. CASE got # <<>>
        <5>1. Begins(got, names) /\ Once(names) /\ names \in Seq(Name \union Dots)
          BY <2>2, <4>2 DEF Inv, Types, Places, Snapshot
        <5>2. \A k \in DOMAIN got : k \in DOMAIN names /\ got[k] = names[k]
          BY <3>1, <5>1 DEF Begins
        <5> QED
          BY <5>1, <5>2 DEF Once
      <4> QED
        BY <4>1, <4>2
    <3>3. Cardinality(Elements(got)) = Len(got)
      BY <3>1, <3>2, ElementsAre
    <3> QED
      BY <3>1, <3>3 DEF EachAdditionRepeatsAtMostOne
  <2> QED
    BY <2>1, <2>2 DEF Inv, Types
<1> QED
  BY <1>1, Invariant, PTL

(***************************************************************************)
(* On Windows the pages make up one snapshot, each name once and in order, *)
(* wherever the page boundaries fall and whatever is added or removed      *)
(* after it was taken (windows_filesystem.rs:254-274).                     *)
(***************************************************************************)
THEOREM SnapshotOnce == Spec => []SnapshotReadOnce
<1>1. Inv => SnapshotReadOnce
  <2> SUFFICES ASSUME Inv, os = "windows"
               PROVE  /\ Ascending(got)
                      /\ got # <<>> => Len(got) <= Len(names) /\ got = SubSeq(names, 1, Len(got))
                      /\ step = "ended" => Elements(got) = Elements(names)
    BY DEF SnapshotReadOnce
  <2>1. got \in Seq(Name \union Dots) /\ names \in Seq(Name \union Dots)
    BY DEF Inv, Types
  <2>2. CASE got = <<>> /\ step # "ended"
    BY <2>2 DEF Ascending
  <2>3. CASE ~(got = <<>> /\ step # "ended")
    <3>1. Ascending(names) /\ Begins(got, names) /\ (step = "ended" => Len(got) = Len(names))
      BY <2>3 DEF Inv, Types, Places, Snapshot
    <3>2. \A k \in DOMAIN got : k \in DOMAIN names /\ got[k] = names[k]
      BY <2>1, <3>1 DEF Begins
    <3>3. Ascending(got)
      BY <3>1, <3>2 DEF Ascending
    <3>4. Len(got) <= Len(names) /\ got = SubSeq(names, 1, Len(got))
      BY <2>1, <3>1, BeginsIs
    <3>5. step = "ended" => Elements(got) = Elements(names)
      BY <2>1, <3>1, <3>2 DEF Elements
    <3> QED
      BY <3>3, <3>4, <3>5
  <2> QED
    BY <2>2, <2>3
<1> QED
  BY <1>1, Invariant, PTL
=============================================================================
