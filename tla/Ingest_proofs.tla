---------------------------- MODULE Ingest_proofs ----------------------------
(***************************************************************************)
(* The columns of a file and what is told of them, for any headers and any  *)
(* cap on the columns listed.                                               *)
(***************************************************************************)
EXTENDS IngestInv, FiniteSetTheorems, FunctionTheorems, SequenceTheorems, WellFoundedInduction, TLAPS

-----------------------------------------------------------------------------
(* Numbers and sets.                                                       *)

\* A set of numbers that is not empty has a least element.
LEMMA Least ==
    ASSUME NEW I \in SUBSET Nat, I # {}
    PROVE  Min(I) \in I /\ \A j \in I : Min(I) <= j
<1>1. PICK i \in I : \A j \in I : <<j, i>> \notin OpToRel(<, Nat)
  BY NatLessThanWellFounded, WFMin
<1>2. \A j \in I : ~(j < i)
  BY <1>1 DEF OpToRel
<1>3. \A j \in I : i <= j
  BY <1>2
<1> QED
  BY <1>3 DEF Min

\* A set of numbers up to n that is not empty has a greatest element.
LEMMA Greatest ==
    ASSUME NEW n \in Nat, NEW I \in SUBSET (0..n), I # {}
    PROVE  Max(I) \in I /\ \A j \in I : j <= Max(I)
<1> DEFINE below == {n - i : i \in I}
<1>1. below \in SUBSET Nat /\ below # {}
  <2>1. \A i \in I : i \in 0..n
    OBVIOUS
  <2>2. \A i \in I : n - i \in Nat
    BY <2>1
  <2> QED
    BY <2>2
<1>2. Min(below) \in below /\ \A j \in below : Min(below) <= j
  BY <1>1, Least
<1>3. PICK m \in I : Min(below) = n - m
  BY <1>2
<1>4. \A j \in I : j <= m
  <2> TAKE j \in I
  <2>1. n - m <= n - j
    BY <1>2, <1>3
  <2> QED
    BY <2>1
<1> QED
  BY <1>4 DEF Max

\* The places of a sequence.
LEMMA Interval ==
    ASSUME NEW n \in Nat
    PROVE  IsFiniteSet(1..n) /\ Cardinality(1..n) = n
<1>1. IsFiniteSet(1..n) /\ Cardinality(1..n) = IF 1 > n THEN 0 ELSE n - 1 + 1
  BY FS_Interval
<1> QED
  BY <1>1

\* A function has finitely many values on finitely many arguments.
LEMMA FiniteImage ==
    ASSUME NEW S, IsFiniteSet(S), NEW f
    PROVE  IsFiniteSet({f[x] : x \in S})
<1> DEFINE T == {f[x] : x \in S}
           g == [x \in S |-> f[x]]
<1>1. g \in Surjection(S, T)
  BY DEF Surjection
<1> QED
  BY <1>1, FS_Surjection

-----------------------------------------------------------------------------
(* Names.                                                                  *)

LEMMA DotIsPiece ==
    ASSUME NEW k \in Nat
    PROVE  Dot(k) \in Pieces
BY DEF Dot, Pieces

LEMMA NumberedName ==
    ASSUME NEW name \in Seq(Pieces), NEW k \in Nat
    PROVE  Numbered(name, k) \in Seq(Pieces)
<1> QED
  BY DotIsPiece DEF Numbered

\* A numbered name tells the name and the number.
LEMMA NumberedApart ==
    ASSUME NEW m \in Seq(Pieces), NEW n \in Seq(Pieces), NEW k \in Nat, NEW l \in Nat,
           Numbered(m, k) = Numbered(n, l)
    PROVE  m = n /\ k = l
<1>1. Dot(k) \in Pieces /\ Dot(l) \in Pieces
  BY DotIsPiece
<1>2. Append(m, Dot(k)) = Append(n, Dot(l))
  BY DEF Numbered
<1>3. /\ Len(m) = Len(n)
      /\ \A i \in 1..Len(m) : m[i] = n[i]
      /\ Dot(k) = Dot(l)
  <2>1. Len(Append(m, Dot(k))) = Len(m) + 1 /\ Len(Append(n, Dot(l))) = Len(n) + 1
    BY <1>1, AppendProperties
  <2>2. Len(m) = Len(n)
    BY <1>2, <2>1, LenProperties
  <2>3. \A i \in 1..Len(m) : m[i] = n[i]
    BY <1>1, <1>2, <2>2, AppendProperties
  <2>4. Dot(k) = Dot(l)
    BY <1>1, <1>2, <2>2, AppendProperties
  <2> QED
    BY <2>2, <2>3, <2>4
<1>4. m = n
  BY <1>3, SeqEqual
<1> QED
  BY <1>3, <1>4 DEF Dot

\* Some number is free, since there is one more to try than names are taken.
LEMMA FreeName ==
    ASSUME NEW name \in Seq(Pieces), NEW taken, IsFiniteSet(taken)
    PROVE  Free(name, taken) \in Seq(Pieces) \ taken
<1> DEFINE n == Cardinality(taken)
           frees == { k \in 1..n + 1 : Numbered(name, k) \notin taken }
<1>1. n \in Nat
  BY FS_CardinalityType
<1>2. frees # {}
  <2> SUFFICES ASSUME frees = {} PROVE FALSE
    OBVIOUS
  <2> DEFINE f == [k \in 1..n + 1 |-> Numbered(name, k)]
  <2>1. \A k \in 1..n + 1 : f[k] \in taken
    OBVIOUS
  <2>2. \A k, l \in 1..n + 1 : f[k] = f[l] => k = l
    BY <1>1, NumberedApart
  <2>3. f \in Injection(1..n + 1, taken)
    BY <2>1, <2>2 DEF Injection, IsInjective
  <2>4. Cardinality(1..n + 1) <= n
    BY <2>3, FS_Injection
  <2> QED
    BY <1>1, <2>4, Interval
<1>3. frees \in SUBSET Nat
  BY <1>1
<1>4. Min(frees) \in frees
  BY <1>2, <1>3, Least
<1> QED
  BY <1>3, <1>4, NumberedName DEF Free

LEMMA StripName ==
    ASSUME NEW name \in Seq(Pieces)
    PROVE  Strip(name) \in Seq(Pieces)
<1> DEFINE solid == { i \in DOMAIN name : name[i] # Space }
<1>1. Len(name) \in Nat /\ DOMAIN name = 1..Len(name)
  BY LenProperties
<1>2. CASE solid = {}
  BY <1>2, EmptySeq DEF Strip
<1>3. CASE solid # {}
  <2> DEFINE n == Len(name)
  <2>1. solid \in SUBSET Nat /\ solid \in SUBSET (0..n) /\ n \in Nat
    BY <1>1
  <2> HIDE DEF solid, n
  <2>2. Min(solid) \in solid
    BY <1>3, <2>1, Least
  <2>3. Max(solid) \in solid
    BY <1>3, <2>1, Greatest
  <2> USE DEF solid
  <2>4. Min(solid) \in 1..Len(name) /\ Max(solid) \in 1..Len(name)
    BY <1>1, <2>2, <2>3
  <2>5. \A i \in Min(solid)..Max(solid) : name[i] \in Pieces
    BY <1>1, <2>4
  <2>6. SubSeq(name, Min(solid), Max(solid)) \in Seq(Pieces)
    BY <2>4, <2>5, SubSeqProperties
  <2> QED
    BY <1>3, <2>6 DEF Strip
<1> QED
  BY <1>2, <1>3

\* The names of a header are well defined, one after the other.
LEMMA MangledNames ==
    ASSUME NEW header \in Seq(Seq(Pieces))
    PROVE  Mangle(header) \in Seq(Seq(Pieces)) /\ Len(Mangle(header)) = Len(header)
<1> DEFINE n == Len(header)
           Before_(f, i) == { f[j] : j \in 1..i - 1 }
           Name(f, i) ==
               IF header[i] \notin Before_(f, i) THEN header[i]
               ELSE Free(header[i], Before_(f, i) \cup ToSet(header))
           Names(m, f) == f = [i \in 1..m |-> Name(f, i)]
           Bad == { m \in 0..n : ~ \E f : Names(m, f) }
<1>1. n \in Nat /\ DOMAIN header = 1..n
  BY LenProperties
<1>2. Bad = {}
  <2> SUFFICES ASSUME Bad # {} PROVE FALSE
    OBVIOUS
  <2> DEFINE m == Min(Bad)
  <2>1. m \in Bad /\ \A k \in Bad : m <= k
    <3>1. Bad \in SUBSET Nat
      BY <1>1
    <3> HIDE DEF Bad
    <3> QED
      BY <3>1, Least
  <2> HIDE DEF m
  <2>2. m # 0
    <3>1. Names(0, [i \in 1..0 |-> header[i]])
      OBVIOUS
    <3> QED
      BY <2>1, <3>1
  <2>3. m \in 1..n /\ m - 1 \in 0..n /\ m - 1 \notin Bad
    <3>1. m \in 0..n
      BY <2>1
    <3>2. m \in 1..n /\ m - 1 \in 0..n /\ m - 1 < m
      BY <1>1, <2>2, <3>1
    <3> HIDE DEF Bad
    <3> QED
      BY <1>1, <2>1, <3>2
  <2>4. PICK f : Names(m - 1, f)
    BY <2>3
  <2> DEFINE g == [i \in 1..m |-> IF i = m THEN Name(f, m) ELSE f[i]]
  <2>5. \A i \in 1..m : Before_(g, i) = Before_(f, i)
    <3> TAKE i \in 1..m
    <3>1. \A j \in 1..i - 1 : j \in 1..m /\ j # m
      BY <1>1, <2>3
    <3>2. \A j \in 1..i - 1 : g[j] = f[j]
      BY <3>1
    <3> QED
      BY <3>2
  <2>6. \A i \in 1..m : g[i] = Name(g, i)
    <3> TAKE i \in 1..m
    <3>1. Name(g, i) = Name(f, i)
      BY <2>5
    <3>2. CASE i = m
      BY <3>1, <3>2
    <3>3. CASE i # m
      <4>1. i \in 1..m - 1
        BY <2>3, <3>3
      <4>2. f[i] = Name(f, i)
        BY <2>4, <4>1
      <4> QED
        BY <3>1, <3>3, <4>2
    <3> QED
      BY <3>2, <3>3
  <2>7. Names(m, g)
    BY <2>6
  <2> QED
    BY <2>1, <2>7
<1>3. \E f : Names(n, f)
  <2>1. n \in 0..n
    BY <1>1
  <2> HIDE DEF Names, n
  <2> QED
    BY <1>2, <2>1
<1> DEFINE names == CHOOSE f : Names(n, f)
<1>4. Mangle(header) = names
  BY <1>1 DEF Mangle
<1>5. Names(n, names)
  BY <1>3
<1> HIDE DEF names
<1>6. \A i \in 1..n : names[i] \in Seq(Pieces)
  <2> TAKE i \in 1..n
  <2>1. names[i] = Name(names, i)
    BY <1>5
  <2>2. header[i] \in Seq(Pieces)
    BY <1>1
  <2>3. IsFiniteSet(Before_(names, i) \cup ToSet(header))
    <3>1. IsFiniteSet(1..i - 1) /\ IsFiniteSet(1..n)
      BY <1>1, Interval
    <3>2. IsFiniteSet({ names[j] : j \in 1..i - 1 })
      BY <3>1, FiniteImage
    <3>3. IsFiniteSet({ header[j] : j \in 1..n })
      BY <3>1, FiniteImage
    <3> QED
      BY <1>1, <3>2, <3>3, FS_Union DEF ToSet
  <2> QED
    BY <2>1, <2>2, <2>3, FreeName
<1>7. names \in Seq(Seq(Pieces)) /\ Len(names) = n
  <2>1. names = [i \in 1..n |-> names[i]]
    BY <1>5
  <2> QED
    BY <1>1, <1>6, <2>1
<1> QED
  BY <1>4, <1>7

LEMMA StrippedNames ==
    ASSUME NEW names \in Seq(Seq(Pieces))
    PROVE  Stripped(names) \in Seq(Seq(Pieces)) /\ Len(Stripped(names)) = Len(names)
<1>1. Len(names) \in Nat /\ DOMAIN names = 1..Len(names)
  BY LenProperties
<1>2. \A i \in 1..Len(names) : Strip(names[i]) \in Seq(Pieces)
  BY <1>1, StripName
<1> QED
  BY <1>1, <1>2 DEF Stripped

\* The names before one are places, and of two equal names the later has more.
LEMMA BeforePlaces ==
    ASSUME NEW names \in Seq(Seq(Pieces)), NEW i \in DOMAIN names
    PROVE  /\ IsFiniteSet(Before(names, i))
           /\ Cardinality(Before(names, i)) \in 0..Len(names) - 1
           /\ Before(names, i) # {} => Cardinality(Before(names, i)) # 0
           /\ \A j \in DOMAIN names : j < i /\ names[j] = names[i] =>
                 Cardinality(Before(names, j)) < Cardinality(Before(names, i))
<1>1. Len(names) \in Nat /\ DOMAIN names = 1..Len(names)
  BY LenProperties
<1>2. ASSUME NEW j \in 1..Len(names)
      PROVE  IsFiniteSet(Before(names, j)) /\ Cardinality(Before(names, j)) \in 0..j - 1
  <2>1. Before(names, j) \in SUBSET (1..j - 1) /\ j - 1 \in Nat
    BY DEF Before
  <2>2. IsFiniteSet(1..j - 1) /\ Cardinality(1..j - 1) = j - 1
    BY <2>1, Interval
  <2>3. IsFiniteSet(Before(names, j)) /\ Cardinality(Before(names, j)) <= j - 1
    BY <2>1, <2>2, FS_Subset
  <2> QED
    BY <2>1, <2>3, FS_CardinalityType
<1>3. ASSUME NEW j \in DOMAIN names, j < i, names[j] = names[i]
      PROVE  Cardinality(Before(names, j)) < Cardinality(Before(names, i))
  <2>1. Before(names, j) \cup {j} \in SUBSET Before(names, i) /\ j \notin Before(names, j)
    BY <1>1, <1>3 DEF Before
  <2>2. IsFiniteSet(Before(names, j)) /\ IsFiniteSet(Before(names, i))
    BY <1>1, <1>2
  <2>3. Cardinality(Before(names, j) \cup {j}) = Cardinality(Before(names, j)) + 1
    BY <2>1, <2>2, FS_AddElement
  <2>4. Cardinality(Before(names, j) \cup {j}) <= Cardinality(Before(names, i))
    BY <2>1, <2>2, FS_Subset
  <2>5. Cardinality(Before(names, j)) \in Nat /\ Cardinality(Before(names, i)) \in Nat
    BY <2>2, FS_CardinalityType
  <2> QED
    BY <2>3, <2>4, <2>5
<1>4. IsFiniteSet(Before(names, i)) /\ Cardinality(Before(names, i)) \in 0..Len(names) - 1
  BY <1>1, <1>2
<1>5. Before(names, i) # {} => Cardinality(Before(names, i)) # 0
  BY <1>4, FS_EmptySet
<1> QED
  BY <1>3, <1>4, <1>5

\* The renamed columns: as many, the first of a name as it was, the others numbered.
LEMMA DedupedNames ==
    ASSUME NEW names \in Seq(Seq(Pieces))
    PROVE  LET columns_ == DedupeColumns(names) IN
           /\ columns_ \in Seq(Seq(Pieces)) /\ Len(columns_) = Len(names)
           /\ \A i \in 1..Len(names) :
                 columns_[i] = IF Before(names, i) = {} THEN names[i]
                               ELSE Numbered(names[i], Cardinality(Before(names, i)))
<1>1. Len(names) \in Nat /\ DOMAIN names = 1..Len(names)
  BY LenProperties
<1>2. \A i \in 1..Len(names) :
          Numbered(names[i], Cardinality(Before(names, i))) \in Seq(Pieces)
  <2> TAKE i \in 1..Len(names)
  <2>1. Cardinality(Before(names, i)) \in Nat
    BY <1>1, BeforePlaces
  <2> QED
    BY <1>1, <2>1, NumberedName
<1> QED
  BY <1>1, <1>2 DEF DedupeColumns

\* Unless a numbered name is that of another column, no two columns are called alike.
LEMMA DedupedApart ==
    ASSUME NEW names \in Seq(Seq(Pieces)), ~Clash(names),
           NEW i \in 1..Len(names), NEW j \in 1..Len(names), i < j
    PROVE  DedupeColumns(names)[i] # DedupeColumns(names)[j]
<1> DEFINE number(x) == Cardinality(Before(names, x))
           column(x) == DedupeColumns(names)[x]
<1>1. Len(names) \in Nat /\ DOMAIN names = 1..Len(names)
  BY LenProperties
<1>2. \A x \in {i, j} : /\ names[x] \in Seq(Pieces) /\ number(x) \in 0..Len(names) - 1
                        /\ Before(names, x) # {} => number(x) \in 1..Len(names) - 1
  BY <1>1, BeforePlaces
<1>3. \A x \in {i, j} :
          column(x) = IF Before(names, x) = {} THEN names[x] ELSE Numbered(names[x], number(x))
  BY DedupedNames
<1>4. CASE Before(names, i) = {} /\ Before(names, j) = {}
  <2>1. i \notin Before(names, j) /\ i \in 1..j - 1
    BY <1>1, <1>4
  <2>2. names[i] # names[j]
    BY <2>1 DEF Before
  <2> QED
    BY <1>3, <1>4, <2>2
<1>5. CASE Before(names, i) = {} /\ Before(names, j) # {}
  BY <1>1, <1>2, <1>3, <1>5 DEF Clash
<1>6. CASE Before(names, i) # {} /\ Before(names, j) = {}
  BY <1>1, <1>2, <1>3, <1>6 DEF Clash
<1>7. CASE Before(names, i) # {} /\ Before(names, j) # {}
  <2> SUFFICES ASSUME column(i) = column(j) PROVE FALSE
    OBVIOUS
  <2>1. Numbered(names[i], number(i)) = Numbered(names[j], number(j))
    BY <1>3, <1>7
  <2>2. names[i] = names[j] /\ number(i) = number(j)
    BY <1>2, <2>1, NumberedApart
  <2>3. number(i) < number(j)
    BY <1>1, <2>2, BeforePlaces
  <2> QED
    BY <1>2, <2>2, <2>3
<1> QED
  BY <1>4, <1>5, <1>6, <1>7

-----------------------------------------------------------------------------
(* What is told of the columns.                                            *)

LEMMA LargerOfTwo ==
    ASSUME NEW x \in Int, NEW y \in Int
    PROVE  Max({x, y}) = IF x >= y THEN x ELSE y
<1>1. \E m \in {x, y} : \A z \in {x, y} : m >= z
  OBVIOUS
<1>2. Max({x, y}) \in {x, y} /\ Max({x, y}) >= x /\ Max({x, y}) >= y
  BY <1>1 DEF Max
<1> QED
  BY <1>2

LEMMA SmallerOfTwo ==
    ASSUME NEW x \in Nat, NEW y \in Nat
    PROVE  Min({x, y}) = IF x <= y THEN x ELSE y
<1>1. Min({x, y}) \in {x, y} /\ \A z \in {x, y} : Min({x, y}) <= z
  BY Least
<1> QED
  BY <1>1

\* The columns listed are the first ones, as many as the cap allows.
LEMMA ListedNames ==
    ASSUME NEW names \in Seq(Seq(Pieces))
    PROVE  /\ Listed(names) \in Seq(Seq(Pieces))
           /\ Len(Listed(names)) = IF Len(names) <= MaxListed THEN Len(names) ELSE MaxListed
           /\ \A i \in 1..Len(Listed(names)) : i \in 1..Len(names) /\ Listed(names)[i] = names[i]
<1>1. Len(names) \in Nat /\ DOMAIN names = 1..Len(names)
  BY LenProperties
<1>2. PICK n \in 0..Len(names) :
          /\ n = Min({Len(names), MaxListed})
          /\ n = IF Len(names) <= MaxListed THEN Len(names) ELSE MaxListed
  <2>1. Min({Len(names), MaxListed}) = IF Len(names) <= MaxListed THEN Len(names) ELSE MaxListed
    BY <1>1, MaxListedIsNat, SmallerOfTwo
  <2>2. Min({Len(names), MaxListed}) \in 0..Len(names)
    BY <1>1, <2>1, MaxListedIsNat
  <2> QED
    BY <2>1, <2>2
<1>3. \A i \in 1..n : i \in 1..Len(names) /\ names[i] \in Seq(Pieces)
  <2> TAKE i \in 1..n
  <2>1. n <= Len(names) /\ n \in Nat
    BY <1>1, <1>2
  <2>2. i \in 1..Len(names)
    BY <1>1, <2>1
  <2> QED
    BY <2>2, ElementOfSeq
<1>4. /\ SubSeq(names, 1, n) \in Seq(Seq(Pieces))
      /\ Len(SubSeq(names, 1, n)) = IF 1 <= n THEN n - 1 + 1 ELSE 0
      /\ \A i \in 1..n - 1 + 1 : SubSeq(names, 1, n)[i] = names[1 + i - 1]
  <2>1. 1 \in Int /\ n \in Int /\ \A i \in 1..n : names[i] \in Seq(Pieces)
    BY <1>1, <1>3
  <2> QED
    BY ONLY <2>1, SubSeqProperties
<1>5. Len(SubSeq(names, 1, n)) = n
  BY <1>2, <1>4
<1>6. \A i \in 1..n : SubSeq(names, 1, n)[i] = names[i]
  <2> TAKE i \in 1..n
  <2>1. n \in Nat
    BY <1>1, <1>2
  <2>2. i \in 1..n - 1 + 1 /\ 1 + i - 1 = i
    BY <2>1
  <2> QED
    BY <1>4, <2>2
<1> QED
  BY <1>2, <1>3, <1>4, <1>5, <1>6 DEF Listed

Apart(names) == \A i, j \in 1..Len(names) : i < j => names[i] # names[j]

\* Names that are apart are as many as the columns, and each selects its column:
\* one and no other, in the frame and in a dictionary made from it.
LEMMA ApartNames ==
    ASSUME NEW names \in Seq(Seq(Pieces)), Apart(names)
    PROVE  /\ Cardinality(ToSet(names)) = Len(names)
           /\ \A i \in 1..Len(names) :
                 /\ Selects(names, names[i])
                 /\ SelectLastInSeq(names, LAMBDA n : n = names[i]) = i
<1>1. Len(names) \in Nat /\ DOMAIN names = 1..Len(names)
  BY LenProperties
<1>2. \A i, j \in 1..Len(names) : names[i] = names[j] => i = j
  BY <1>1 DEF Apart
<1>3. Cardinality(ToSet(names)) = Len(names)
  <2> DEFINE f == [i \in 1..Len(names) |-> names[i]]
  <2>1. f \in Surjection(1..Len(names), ToSet(names))
    BY <1>1 DEF Surjection, ToSet
  <2>2. f \in Injection(1..Len(names), ToSet(names))
    BY <1>2, <2>1 DEF Surjection, Injection, IsInjective
  <2>3. IsFiniteSet(1..Len(names)) /\ Cardinality(1..Len(names)) = Len(names)
    BY <1>1, Interval
  <2> QED
    BY <2>1, <2>2, <2>3, FS_Surjection
<1>4. ASSUME NEW i \in 1..Len(names)
      PROVE  /\ Selects(names, names[i])
             /\ SelectLastInSeq(names, LAMBDA n : n = names[i]) = i
  <2>1. {j \in 1..Len(names) : names[j] = names[i]} = {i}
    BY <1>2
  <2>2. Selects(names, names[i])
    BY <1>1, <2>1, FS_Singleton DEF Selects
  <2>3. Max({i}) = i
    BY DEF Max
  <2> QED
    BY <2>1, <2>2, <2>3 DEF SelectLastInSeq
<1> QED
  BY <1>3, <1>4

-----------------------------------------------------------------------------
(* The invariant.                                                          *)

LEMMA TypedHeaders == file \in Files => file.header \in Seq(Seq(Pieces))
<1>1. Plain \in Headers
  BY HeadersAreNames DEF Plain
<1>2. file \in Files => file.header \in Headers
  BY <1>1 DEF Files
<1> QED
  BY <1>2, HeadersAreNames

\* The names a frame is loaded with.
LEMMA LoadedNames ==
    ASSUME HeaderIsNames
    PROVE  /\ Given \in Seq(Seq(Pieces))
           /\ DedupeColumns(Given) \in Seq(Seq(Pieces))
           /\ Len(DedupeColumns(Given)) = Len(Given)
           /\ \A i \in 1..Len(Given) : Before(Given, i) = {} => DedupeColumns(Given)[i] = Given[i]
           /\ ~Clash(Given) => Apart(DedupeColumns(Given))
<1>1. Given \in Seq(Seq(Pieces))
  BY MangledNames, StrippedNames DEF HeaderIsNames, Given
<1>2. /\ DedupeColumns(Given) \in Seq(Seq(Pieces))
      /\ Len(DedupeColumns(Given)) = Len(Given)
      /\ \A i \in 1..Len(Given) : Before(Given, i) = {} => DedupeColumns(Given)[i] = Given[i]
  BY <1>1, DedupedNames
<1>3. ~Clash(Given) => Apart(DedupeColumns(Given))
  BY <1>1, <1>2, DedupedApart DEF Apart
<1> QED
  BY <1>1, <1>2, <1>3

LEMMA StepInvariant == IInv /\ [Next]_vars => IInv'
<1> SUFFICES ASSUME IInv, [Next]_vars PROVE IInv'
  OBVIOUS
<1> USE DEF IInv, HeaderIsNames, Named, Summarised, Described, Loaded, Given
<1>1. CASE RefuseBytes
  BY <1>1 DEF RefuseBytes, Refuse
<1>2. CASE DecodeBytes
  BY <1>2 DEF DecodeBytes, Goto
<1>3. CASE RefuseText
  BY <1>3 DEF RefuseText, Refuse
<1>4. CASE ReadCsv
  BY <1>4 DEF ReadCsv, Goto
<1>5. CASE ReadCsvFails
  BY <1>5 DEF ReadCsvFails, Refuse
<1>6. CASE RefuseFrame
  BY <1>6 DEF RefuseFrame, Refuse
<1>7. CASE NameColumns
  BY <1>7 DEF NameColumns, Goto
<1>8. CASE Summarise
  BY <1>8 DEF Summarise, Goto
<1>9. CASE BuildContext
  BY <1>9 DEF BuildContext, Goto
<1>10. CASE ContextRaises
  BY <1>10 DEF ContextRaises, Goto
<1>11. CASE UNCHANGED vars
  BY <1>11 DEF vars
<1> QED
  BY <1>1, <1>2, <1>3, <1>4, <1>5, <1>6, <1>7, <1>8, <1>9, <1>10, <1>11 DEF Next

\* The inductive invariant holds in every reachable state.
THEOREM Invariance == Spec => []IInv
<1>1. Init => IInv
  BY TypedHeaders
     DEF Init, IInv, HeaderIsNames, Named, Summarised, Described, Loaded
<1> QED
  BY <1>1, StepInvariant, PTL DEF Spec

\* A loaded frame has every column of the file, in order, the first of a name under
\* that name; and unless a numbered name is that of another column, each has a name of
\* its own (_dedupe_columns).
THEOREM EveryColumnNamed == Spec => []ColumnsFaithful
<1>1. IInv => ColumnsFaithful
  <2> SUFFICES ASSUME IInv, pc \in Loaded PROVE ColumnsFaithful
    BY DEF ColumnsFaithful, Loaded
  <2>1. columns = DedupeColumns(Given)
    BY DEF IInv, Named
  <2>2. HeaderIsNames
    BY DEF IInv
  <2>3. ~Clash(Given) => Cardinality(ToSet(columns)) = Len(columns)
    BY <2>1, <2>2, LoadedNames, ApartNames
  <2>4. DOMAIN Given = 1..Len(Given)
    BY <2>2, LoadedNames, LenProperties
  <2> QED
    BY <2>1, <2>2, <2>3, <2>4, LoadedNames DEF ColumnsFaithful, Given
<1> QED
  BY <1>1, Invariance, PTL

\* Unless a numbered name is that of another column, the page shows each column its
\* own count of missing values, and any question finds the description of the data:
\* every column by name or in the number of further ones (compute_data_summary,
\* build_data_context).
THEOREM ColumnsTold == Spec => []ToldTruly
<1>1. IInv => ToldTruly
  <2> SUFFICES ASSUME IInv, ~Clash(Given) PROVE ToldTruly
    BY DEF ToldTruly, Given
  <2>1. HeaderIsNames
    BY DEF IInv
  <2>2. pc \in Loaded =>
           /\ columns \in Seq(Seq(Pieces)) /\ Apart(columns)
           /\ Len(columns) \in Nat /\ DOMAIN columns = 1..Len(columns)
    BY <2>1, LoadedNames, LenProperties DEF IInv, Named
  <2>3. ASSUME summary # None
        PROVE  LET panel == [i \in DOMAIN columns |-> summary.nulls[columns[i]]]
               IN  panel = Nulls(columns) /\ Sum(panel) = summary.total
    <3>1. pc \in Loaded /\ summary.nulls = ByName(columns, Nulls(columns))
                        /\ summary.total = Sum(Nulls(columns))
      BY <2>3 DEF IInv, Summarised
    <3>2. \A i \in 1..Len(columns) : SelectLastInSeq(columns, LAMBDA n : n = columns[i]) = i
      BY <2>2, <3>1, ApartNames
    <3>3. \A i \in 1..Len(columns) : columns[i] \in ToSet(columns)
      BY <2>2, <3>1 DEF ToSet
    <3>4. \A i \in 1..Len(columns) : summary.nulls[columns[i]] = Nulls(columns)[i]
      BY <3>1, <3>2, <3>3 DEF ByName
    <3>5. [i \in DOMAIN columns |-> summary.nulls[columns[i]]] = Nulls(columns)
      BY <2>2, <3>1, <3>4 DEF Nulls
    <3> QED
      BY <3>1, <3>5
  <2>4. ASSUME context # None
        PROVE  /\ Len(context.listed) + context.more = Len(columns)
               /\ context.more > 0 => Len(context.listed) = MaxListed
    <3>1. /\ pc \in Loaded /\ context.listed = Listed(columns)
          /\ context.more = Max({Len(columns) - MaxListed, 0})
      BY <2>4 DEF IInv, Described
    <3>2. context.more = IF Len(columns) >= MaxListed THEN Len(columns) - MaxListed ELSE 0
      BY <2>2, <3>1, MaxListedIsNat, LargerOfTwo
    <3> QED
      BY <2>2, <3>1, <3>2, MaxListedIsNat, ListedNames
  <2>5. pc # "crashed"
    <3> SUFFICES ASSUME pc = "crashed" PROVE FALSE
      OBVIOUS
    <3>1. PICK name \in ToSet(Listed(columns)) : ~Selects(columns, name)
      BY DEF IInv, Described
    <3>2. columns \in Seq(Seq(Pieces)) /\ Apart(columns)
      BY <2>2 DEF Loaded
    <3>3. PICK i \in 1..Len(Listed(columns)) : name = Listed(columns)[i]
      BY <3>1, <3>2, ListedNames, LenProperties DEF ToSet
    <3>4. i \in 1..Len(columns) /\ name = columns[i]
      BY <3>2, <3>3, ListedNames
    <3> QED
      BY <3>1, <3>2, <3>4, ApartNames
  <2> QED
    BY <2>3, <2>4, <2>5 DEF ToldTruly
<1> QED
  BY <1>1, Invariance, PTL
=============================================================================
