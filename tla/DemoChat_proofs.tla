--------------------------- MODULE DemoChat_proofs --------------------------
(***************************************************************************)
(* What ReplayProvider picks, for any recordings, and what that means for   *)
(* the demo and for a live page, for any files, texts and environments.     *)
(***************************************************************************)
EXTENDS DemoChatInv, FiniteSetTheorems, FunctionTheorems, SequenceTheorems, WellFoundedInduction, TLAPS

-----------------------------------------------------------------------------
(* What is picked.                                                         *)

\* A set of places has a first one.
LEMMA FirstPlace ==
    ASSUME NEW I \in SUBSET Nat, I # {}
    PROVE  Min(I) \in I /\ \A j \in I : Min(I) <= j
<1>1. \E i \in I : \A j \in I : i <= j
  <2>1. PICK i \in I : \A j \in I : <<j, i>> \notin OpToRel(<, Nat)
    BY NatLessThanWellFounded, WFMin
  <2>2. \A j \in I : ~(j < i)
    BY <2>1 DEF OpToRel
  <2> QED
    BY <2>2
<1> QED
  BY <1>1 DEF Min

\* A match is a recording in scope.
LEMMA MatchInScope ==
    ASSUME NEW S, NEW recordings \in Seq(S), NEW scope \in SUBSET DOMAIN recordings,
           NEW question, Match(recordings, scope, question) # NoMatch
    PROVE  \E i \in scope : Match(recordings, scope, question) = recordings[i]
<1> DEFINE target == Normalise(question)
           same == {i \in scope : Normalise(recordings[i].question) = target}
           asked == ToSet(target)
           best == {i \in scope : \A j \in scope :
                       ~Less(Overlap(asked, recordings[i]), Overlap(asked, recordings[j]))}
<1>1. scope \subseteq Nat
  BY LenProperties
<1>2. same # {} => Min(same) \in same
  BY <1>1, FirstPlace
<1>3. best # {} => Min(best) \in best
  BY <1>1, FirstPlace
<1>4. CASE same # {}
  BY <1>2, <1>4 DEF Match
<1>5. CASE same = {}
  <2>1. /\ best # {}
        /\ Match(recordings, scope, question) = recordings[Min(best)]
    BY <1>5 DEF Match, Closest
  <2> QED
    BY <1>3, <2>1
<1> QED
  BY <1>4, <1>5

\* What is replayed is a recording of the loaded dataset.
LEMMA CompleteRecorded ==
    ASSUME NEW ms, NEW dataset, Complete(ms, Recordings, dataset) # NoMatch
    PROVE  \E i \in InScope(Recordings, dataset) :
              /\ Complete(ms, Recordings, dataset) = Recordings[i]
              /\ Recordings[i].dataset = dataset
<1> DEFINE scope == InScope(Recordings, dataset)
           question == ExtractQuestion(NormalizeMessages(ms))
<1>1. scope \in SUBSET DOMAIN Recordings
  BY DEF InScope
<1>2. Complete(ms, Recordings, dataset) = Match(Recordings, scope, question)
  BY DEF Complete
<1> HIDE DEF scope, question
<1>3. PICK i \in scope : Match(Recordings, scope, question) = Recordings[i]
  BY <1>1, <1>2, RecordingsAreApart, MatchInScope
<1> QED
  BY <1>2, <1>3 DEF scope, InScope

\* An overlap of other words is the smaller one.
LEMMA SmallerOverlap ==
    ASSUME NEW asked, NEW known, IsFiniteSet(asked), IsFiniteSet(known),
           asked # {}, asked # known
    PROVE  LET n == Cardinality(asked)
               i == Cardinality(asked \cap known)
               u == Cardinality(asked \cup known)
           IN  /\ n \in Nat \ {0} /\ i \in Nat /\ u \in Nat
               /\ i * n < n * u /\ ~(n * u < i * n)
<1> DEFINE n == Cardinality(asked)
           i == Cardinality(asked \cap known)
           u == Cardinality(asked \cup known)
<1>1. n \in Nat \ {0}
  BY FS_CardinalityType, FS_EmptySet
<1>2. IsFiniteSet(asked \cup known) /\ u \in Nat
  BY FS_Union, FS_CardinalityType
<1>3. asked \cap known \subseteq asked \cup known /\ asked \cap known # asked \cup known
  OBVIOUS
<1>4. i \in Nat /\ i < u
  <2>1. IsFiniteSet(asked \cap known) /\ i <= u /\ (i = u => asked \cap known = asked \cup known)
    BY <1>2, <1>3, FS_Subset
  <2>2. i \in Nat
    BY <2>1, FS_CardinalityType
  <2> QED
    BY <1>2, <1>3, <2>1, <2>2
<1> HIDE DEF n, i, u
<1>5. i * n < n * u
  BY ONLY <1>1, <1>2, <1>4
<1>6. ~(n * u < i * n)
  <2>1. i * n \in Nat /\ n * u \in Nat
    BY <1>1, <1>2, <1>4
  <2> QED
    BY ONLY <1>5, <2>1
<1> QED
  BY <1>1, <1>2, <1>4, <1>5, <1>6 DEF n, i, u

\* A question with exactly the words of a recorded one, in whatever order, case
\* and punctuation, is answered by that recording and not by its neighbour, if no
\* other in scope has the same words: _match never takes it for another question
\* (replay_provider.py lines 42-60 and 161-184).
THEOREM MatchNotConfused ==
    ASSUME NEW S, NEW W, NEW recordings \in Seq(S), NEW scope \in SUBSET DOMAIN recordings,
           NEW question, Normalise(question) \in Seq(W),
           \A i \in scope : Normalise(recordings[i].question) \in Seq(W),
           \A i, j \in scope :
              ToSet(Normalise(recordings[i].question)) = ToSet(Normalise(recordings[j].question))
                => i = j,
           NEW r \in scope,
           ToSet(Normalise(question)) = ToSet(Normalise(recordings[r].question))
    PROVE  Match(recordings, scope, question) = recordings[r]
<1> DEFINE target == Normalise(question)
           Known(i) == ToSet(Normalise(recordings[i].question))
           same == {i \in scope : Normalise(recordings[i].question) = target}
           asked == ToSet(target)
           best == {i \in scope : \A j \in scope :
                       ~Less(Overlap(asked, recordings[i]), Overlap(asked, recordings[j]))}
<1>1. scope \subseteq Nat
  BY LenProperties
<1>2. CASE same # {}
  <2>1. Min(same) \in same
    BY <1>1, <1>2, FirstPlace
  <2>2. Min(same) = r
    BY <2>1
  <2> QED
    BY <1>2, <2>2 DEF Match
<1>3. CASE same = {}
  <2>1. \A s \in Seq(W) : IsFiniteSet(ToSet(s))
    <3> TAKE s \in Seq(W)
    <3>1. Len(s) \in Nat /\ DOMAIN s = 1..Len(s)
      BY LenProperties
    <3>2. IsFiniteSet(1..Len(s))
      BY <3>1, FS_Interval
    <3>3. s \in Surjection(1..Len(s), ToSet(s))
      BY <3>1, Fun_SurjectionProperties, LenProperties DEF ToSet, Surjection
    <3> QED
      BY <3>2, <3>3, FS_Surjection DEF ExistsSurjection
  <2>2. target # <<>>
    <3>1. SUFFICES ASSUME target = <<>> PROVE FALSE
      OBVIOUS
    <3>2. ToSet(target) = {}
      BY <3>1 DEF ToSet
    <3>3. Normalise(recordings[r].question) \in Seq(W)
      OBVIOUS
    <3> DEFINE s == Normalise(recordings[r].question)
    <3>4. ToSet(s) = {}
      BY <3>2
    <3>5. s = <<>>
      <4> HIDE DEF s
      <4>1. SUFFICES ASSUME s # <<>> PROVE FALSE
        OBVIOUS
      <4>2. 1 \in DOMAIN s
        BY <3>3, <4>1, EmptySeq, LenProperties DEF s
      <4> QED
        BY <3>4, <4>2 DEF ToSet
    <3> QED
      BY <1>3, <3>1, <3>5
  <2>3. asked # {}
    <3>1. Len(target) \in Nat \ {0} /\ DOMAIN target = 1..Len(target)
      BY <2>2, EmptySeq, LenProperties
    <3>2. target[1] \in asked
      BY <3>1 DEF ToSet
    <3> QED
      BY <3>2
  <2>4. IsFiniteSet(asked) /\ \A j \in scope : IsFiniteSet(Known(j))
    BY <2>1
  <2> DEFINE n == Cardinality(asked)
  <2>5. n \in Nat \ {0}
    BY <2>3, <2>4, FS_CardinalityType, FS_EmptySet
  <2>6. Overlap(asked, recordings[r]) = <<n, n>>
    <3>1. asked \cap Known(r) = asked /\ asked \cup Known(r) = asked
      OBVIOUS
    <3> QED
      BY <3>1 DEF Overlap
  <2>7. ASSUME NEW j \in scope, j # r
        PROVE  /\ Less(Overlap(asked, recordings[j]), Overlap(asked, recordings[r]))
               /\ ~Less(Overlap(asked, recordings[r]), Overlap(asked, recordings[j]))
    <3>1. asked # Known(j)
      BY <2>7
    <3>2. Overlap(asked, recordings[j])
            = <<Cardinality(asked \cap Known(j)), Cardinality(asked \cup Known(j))>>
      BY DEF Overlap
    <3>3. LET i == Cardinality(asked \cap Known(j))
              u == Cardinality(asked \cup Known(j))
          IN  /\ n \in Nat \ {0} /\ i \in Nat /\ u \in Nat
              /\ i * n < n * u /\ ~(n * u < i * n)
      BY <2>3, <2>4, <3>1, SmallerOverlap
    <3> HIDE DEF asked, n, Known
    <3> QED
      BY <2>6, <3>2, <3>3 DEF Less
  <2>8. ~Less(Overlap(asked, recordings[r]), Overlap(asked, recordings[r]))
    <3> HIDE DEF n
    <3>1. n * n \in Nat
      BY <2>5
    <3> QED
      BY <2>6, <3>1 DEF Less
  <2>9. best = {r}
    BY <2>7, <2>8
  <2>10. Min({r}) = r
    <3>1. {r} \in SUBSET Nat /\ {r} # {}
      BY <1>1
    <3> QED
      BY <3>1, FirstPlace
  <2>11. Enough(<<n, n>>)
    <3> HIDE DEF n
    <3> QED
      BY <2>5 DEF Enough
  <2>12. Closest(recordings, scope, asked) = recordings[r]
    BY <2>6, <2>9, <2>10, <2>11 DEF Closest
  <2> QED
    BY <1>3, <2>2, <2>12 DEF Match
<1> QED
  BY <1>2, <1>3

-----------------------------------------------------------------------------
(* Concatenation.                                                          *)

\* A set of places has a last one.
LEMMA LastPlace ==
    ASSUME NEW n \in Nat, NEW I \in SUBSET (0..n), I # {}
    PROVE  Max(I) \in I /\ \A j \in I : j <= Max(I)
<1> DEFINE below == {n - i : i \in I}
<1>1. below \in SUBSET Nat /\ below # {}
  <2>1. \A i \in I : i \in 0..n
    OBVIOUS
  <2>2. \A i \in I : n - i \in Nat
    BY <2>1
  <2> QED
    BY <2>2
<1>2. Min(below) \in below /\ \A j \in below : Min(below) <= j
  BY <1>1, FirstPlace
<1>3. PICK m \in I : Min(below) = n - m
  BY <1>2
<1>4. \A j \in I : j <= m
  <2> TAKE j \in I
  <2>1. n - m <= n - j
    BY <1>2, <1>3
  <2> QED
    BY <2>1
<1> QED
  BY <1>4 DEF Max

\* Joined(ss, f): f[i] is the first i sequences of ss, one after the other.
Joined(ss, f) ==
    f = [i \in 1..Len(ss) |-> IF i = 1 THEN ss[i] ELSE f[i - 1] \o ss[i]]

LEMMA JoinedStep ==
    ASSUME NEW ss, NEW f, Joined(ss, f), NEW i \in 1..Len(ss)
    PROVE  f[i] = IF i = 1 THEN ss[i] ELSE f[i - 1] \o ss[i]
BY DEF Joined

LEMMA JoinedExists ==
    ASSUME NEW W, NEW ss \in Seq(Seq(W))
    PROVE  \E f : Joined(ss, f)
<1> DEFINE n == Len(ss)
           Upto(m, f) == f = [i \in 1..m |-> IF i = 1 THEN ss[i] ELSE f[i - 1] \o ss[i]]
           Bad == { m \in 0..n : ~ \E f : Upto(m, f) }
<1>1. n \in Nat
  BY LenProperties
<1>2. Bad = {}
  <2> SUFFICES ASSUME Bad # {} PROVE FALSE
    OBVIOUS
  <2> DEFINE m == Min(Bad)
  <2>1. m \in Bad /\ \A k \in Bad : m <= k
    <3>1. Bad \in SUBSET Nat
      <4> HIDE DEF Upto
      <4> QED
        BY <1>1
    <3> HIDE DEF Bad
    <3> QED
      BY <3>1, FirstPlace
  <2> HIDE DEF m
  <2>2. m # 0
    <3>1. Upto(0, [i \in 1..0 |-> ss[i]])
      OBVIOUS
    <3> QED
      BY <2>1, <3>1
  <2>3. m \in 1..n /\ m - 1 \in 0..n /\ m - 1 \notin Bad
    <3>1. m \in 0..n
      BY <2>1
    <3>2. m \in 1..n /\ m - 1 \in 0..n /\ m - 1 < m
      BY <1>1, <2>2, <3>1
    <3> HIDE DEF Bad
    <3> QED
      BY <1>1, <2>1, <3>2
  <2>4. PICK f : Upto(m - 1, f)
    BY <2>3
  <2> DEFINE g == [i \in 1..m |-> IF i < m THEN f[i] ELSE IF m = 1 THEN ss[m] ELSE f[m - 1] \o ss[m]]
  <2>5. \A i \in 1..m : g[i] = IF i = 1 THEN ss[i] ELSE g[i - 1] \o ss[i]
    <3> TAKE i \in 1..m
    <3>1. CASE i < m
      <4>1. i \in 1..m - 1 /\ (i # 1 => i - 1 \in 1..m /\ i - 1 < m)
        BY <2>3, <3>1
      <4>2. f[i] = IF i = 1 THEN ss[i] ELSE f[i - 1] \o ss[i]
        BY <2>4, <4>1
      <4> QED
        BY <3>1, <4>1, <4>2
    <3>2. CASE i = m
      <4>1. m # 1 => m - 1 \in 1..m /\ m - 1 < m
        BY <2>3
      <4> QED
        BY <2>3, <3>2, <4>1
    <3> QED
      BY <2>3, <3>1, <3>2
  <2>6. Upto(m, g)
    BY <2>5
  <2> QED
    BY <2>1, <2>6
<1> QED
  <2>1. n \in 0..n
    BY <1>1
  <2>2. \E f : Upto(n, f)
    <3> HIDE DEF Upto, n
    <3> QED
      BY <1>2, <2>1
  <2> QED
    BY <2>2 DEF Joined

\* What f[i] is depends on the first i sequences only.
LEMMA JoinedAgree ==
    ASSUME NEW W, NEW ss \in Seq(Seq(W)), NEW tt \in Seq(Seq(W)), NEW f, NEW g,
           Joined(ss, f), Joined(tt, g),
           NEW n \in Nat, n <= Len(ss), n <= Len(tt), \A i \in 1..n : ss[i] = tt[i]
    PROVE  \A i \in 1..n : f[i] = g[i] /\ f[i] \in Seq(W)
<1> DEFINE Bad == { i \in 1..n : ~(f[i] = g[i] /\ f[i] \in Seq(W)) }
<1> SUFFICES ASSUME Bad # {} PROVE FALSE
  OBVIOUS
<1> DEFINE m == Min(Bad)
<1>1. m \in Bad /\ \A k \in Bad : m <= k
  <2>1. Bad \in SUBSET Nat
    OBVIOUS
  <2> HIDE DEF Bad
  <2> QED
    BY <2>1, FirstPlace
<1> HIDE DEF m
<1>2. m \in 1..n /\ m \in 1..Len(ss) /\ m \in 1..Len(tt) /\ ss[m] = tt[m] /\ ss[m] \in Seq(W)
  <2>1. m \in 1..n /\ Len(ss) \in Nat /\ Len(tt) \in Nat
    BY <1>1, LenProperties
  <2>2. m \in 1..Len(ss) /\ m \in 1..Len(tt)
    BY <2>1
  <2> QED
    BY <2>1, <2>2, ElementOfSeq
<1>3. f[m] = (IF m = 1 THEN ss[m] ELSE f[m - 1] \o ss[m])
  BY <1>2, JoinedStep
<1>4. g[m] = (IF m = 1 THEN tt[m] ELSE g[m - 1] \o tt[m])
  BY <1>2, JoinedStep
<1>5. m # 1 => f[m - 1] = g[m - 1] /\ f[m - 1] \in Seq(W)
  <2> SUFFICES ASSUME m # 1 PROVE f[m - 1] = g[m - 1] /\ f[m - 1] \in Seq(W)
    OBVIOUS
  <2>1. m - 1 \in 1..n /\ ~(m <= m - 1)
    BY <1>2
  <2>2. m - 1 \notin Bad
    BY <1>1, <2>1
  <2> QED
    BY <2>1, <2>2
<1>6. f[m] = g[m] /\ f[m] \in Seq(W)
  BY <1>2, <1>3, <1>4, <1>5, ConcatProperties
<1> QED
  BY <1>1, <1>6

LEMMA Flattened ==
    ASSUME NEW W, NEW ss \in Seq(Seq(W)), ss # <<>>, NEW f, Joined(ss, f)
    PROVE  FlattenSeq(ss) = f[Len(ss)] /\ f[Len(ss)] \in Seq(W)
<1>1. Len(ss) \in Nat \ {0}
  BY EmptySeq
<1> DEFINE h == CHOOSE g : Joined(ss, g)
<1>2. FlattenSeq(ss) = h[Len(ss)]
  BY <1>1 DEF FlattenSeq, Joined
<1>3. Joined(ss, h)
  OBVIOUS
<1> HIDE DEF h
<1>4. \A i \in 1..Len(ss) : h[i] = f[i] /\ h[i] \in Seq(W)
  BY <1>1, <1>3, JoinedAgree
<1> QED
  BY <1>1, <1>2, <1>4

\* The laws of FlattenSeq.
LEMMA FlattenAppend ==
    ASSUME NEW W, NEW ss \in Seq(Seq(W)), NEW s \in Seq(W)
    PROVE  /\ FlattenSeq(ss) \in Seq(W)
           /\ ss = <<>> => FlattenSeq(ss) = <<>>
           /\ FlattenSeq(Append(ss, s)) = FlattenSeq(ss) \o s
<1> DEFINE n == Len(ss)
           tt == Append(ss, s)
<1>1. /\ n \in Nat /\ tt \in Seq(Seq(W)) /\ Len(tt) = n + 1
      /\ \A i \in 1..n : tt[i] = ss[i]
      /\ tt[n + 1] = s /\ tt # <<>>
  BY LenProperties, AppendProperties
<1>2. PICK f : Joined(ss, f)
  BY JoinedExists
<1>3. PICK g : Joined(tt, g)
  BY <1>1, JoinedExists
<1>4. FlattenSeq(tt) = g[n + 1]
  BY <1>1, <1>3, Flattened
<1>5. \A i \in 1..n : f[i] = g[i]
  <2>1. /\ n \in Nat /\ n <= Len(ss) /\ n <= Len(tt) /\ \A i \in 1..n : ss[i] = tt[i]
        /\ tt \in Seq(Seq(W)) /\ Joined(tt, g)
    BY <1>1, <1>3
  <2> HIDE DEF n, tt
  <2>2. \A i \in 1..n : f[i] = g[i] /\ f[i] \in Seq(W)
    BY <1>2, <2>1, JoinedAgree
  <2> QED
    BY <2>2
<1>6. g[n + 1] = IF n + 1 = 1 THEN tt[n + 1] ELSE g[n + 1 - 1] \o tt[n + 1]
  <2>1. n \in Nat /\ n + 1 \in 1..Len(tt) /\ Joined(tt, g)
    BY <1>1, <1>3
  <2> HIDE DEF n, tt
  <2> QED
    BY <2>1, JoinedStep
<1>7. CASE ss = <<>>
  <2>1. n = 0 /\ FlattenSeq(ss) = <<>>
    BY <1>7, EmptySeq DEF FlattenSeq
  <2>2. FlattenSeq(tt) = s
    BY <1>1, <1>4, <1>6, <2>1
  <2> QED
    BY <2>1, <2>2, EmptySeq, ConcatEmptySeq
<1>8. CASE ss # <<>>
  <2>1. n \in Nat \ {0} /\ n \in 1..n /\ n + 1 # 1 /\ n + 1 - 1 = n
    BY <1>8, EmptySeq
  <2>2. FlattenSeq(ss) = f[n] /\ f[n] \in Seq(W)
    BY <1>2, <1>8, Flattened
  <2>3. FlattenSeq(tt) = g[n] \o s
    BY <1>1, <1>4, <1>6, <2>1
  <2> QED
    BY <1>5, <1>8, <2>1, <2>2, <2>3
<1> QED
  BY <1>7, <1>8

-----------------------------------------------------------------------------
(* Normalised messages.                                                    *)

LEMMA TurnTyped ==
    ASSUME NEW turn \in Turns
    PROVE  /\ turn.role \in {"user", "assistant"} /\ turn.content \in Seq(Word)
           /\ turn = Turn(turn.role, turn.content)
BY DEF Turns, Turn

\* The words of one more message come after the others.
LEMMA WordsAppend ==
    ASSUME NEW ms \in Seq(Turns), NEW m \in Turns
    PROVE  /\ Words(ms) \in Seq(Word)
           /\ ms = <<>> => Words(ms) = <<>>
           /\ Words(Append(ms, m)) = Words(ms) \o m.content
<1> DEFINE Contents(s) == [i \in DOMAIN s |-> s[i].content]
           ns == Append(ms, m)
<1>1. /\ Len(ms) \in Nat /\ DOMAIN ms = 1..Len(ms)
      /\ \A i \in 1..Len(ms) : ms[i].content \in Seq(Word)
      /\ m.content \in Seq(Word)
  BY LenProperties, ElementOfSeq, TurnTyped
<1>2. /\ ns \in Seq(Turns) /\ Len(ns) = Len(ms) + 1 /\ DOMAIN ns = 1..Len(ms) + 1
      /\ \A i \in 1..Len(ms) : ns[i] = ms[i]
      /\ ns[Len(ms) + 1] = m
  BY AppendProperties, LenProperties
<1>3. Contents(ms) \in Seq(Seq(Word)) /\ Len(Contents(ms)) = Len(ms)
  BY <1>1
<1>4. Contents(ns) = Append(Contents(ms), m.content)
  <2> DEFINE cs == Append(Contents(ms), m.content)
  <2>1. /\ cs \in Seq(Seq(Word)) /\ Len(cs) = Len(ms) + 1
        /\ \A i \in 1..Len(ms) : cs[i] = Contents(ms)[i]
        /\ cs[Len(ms) + 1] = m.content
    BY <1>1, <1>3, AppendProperties
  <2>2. Contents(ns) \in Seq(Seq(Word)) /\ Len(Contents(ns)) = Len(ms) + 1
    <3>1. \A i \in 1..Len(ms) + 1 : ns[i].content \in Seq(Word)
      BY <1>2, ElementOfSeq, TurnTyped
    <3> QED
      BY <1>1, <1>2, <3>1
  <2>3. \A i \in 1..Len(ms) + 1 : Contents(ns)[i] = cs[i]
    <3> TAKE i \in 1..Len(ms) + 1
    <3>1. CASE i = Len(ms) + 1
      BY <1>2, <2>1, <3>1
    <3>2. CASE i # Len(ms) + 1
      <4>1. i \in 1..Len(ms)
        BY <1>1, <3>2
      <4> QED
        BY <1>1, <1>2, <2>1, <4>1
    <3> QED
      BY <3>1, <3>2
  <2> HIDE DEF cs, Contents, ns
  <2>4. Len(Contents(ns)) = Len(cs) /\ \A i \in 1..Len(cs) : Contents(ns)[i] = cs[i]
    BY <2>1, <2>2, <2>3
  <2>5. Contents(ns) = cs
    BY <2>1, <2>2, <2>4, SeqEqual
  <2> QED
    BY <2>5 DEF cs
<1>5. ms = <<>> => Contents(ms) = <<>>
  <2> SUFFICES ASSUME ms = <<>> PROVE Contents(ms) = <<>>
    OBVIOUS
  <2>1. Len(ms) = 0
    BY EmptySeq
  <2> QED
    BY <1>3, <2>1, EmptySeq
<1>6. Words(ms) = FlattenSeq(Contents(ms)) /\ Words(ns) = FlattenSeq(Contents(ns))
  BY DEF Words
<1> HIDE DEF Contents, ns
<1>7. /\ FlattenSeq(Contents(ms)) \in Seq(Word)
      /\ Contents(ms) = <<>> => FlattenSeq(Contents(ms)) = <<>>
      /\ FlattenSeq(Append(Contents(ms), m.content)) = FlattenSeq(Contents(ms)) \o m.content
  BY <1>1, <1>3, FlattenAppend
<1> QED
  BY <1>4, <1>5, <1>6, <1>7 DEF ns

Alternating(ms) ==
    \A i \in 1..Len(ms) : ms[i].role = IF i % 2 = 1 THEN "user" ELSE "assistant"

\* A sequence of messages that is not empty is its front and its last message.
LEMMA FrontAndLast ==
    ASSUME NEW S, NEW ms \in Seq(S), ms # <<>>
    PROVE  /\ Len(ms) \in Nat \ {0} /\ Last(ms) \in S /\ Last(ms) = ms[Len(ms)]
           /\ Front(ms) \in Seq(S) /\ Len(Front(ms)) = Len(ms) - 1
           /\ \A i \in 1..Len(ms) - 1 : Front(ms)[i] = ms[i]
           /\ ms = Append(Front(ms), Last(ms))
<1>1. Len(ms) \in Nat \ {0}
  BY EmptySeq
<1>2. Last(ms) \in S /\ Last(ms) = ms[Len(ms)]
  BY <1>1, ElementOfSeq DEF Last
<1>3. \A i \in 1..Len(ms) - 1 : ms[i] \in S
  BY <1>1, ElementOfSeq
<1>4. 1 \in Int /\ Len(ms) - 1 \in Int
  BY <1>1
<1>5. /\ SubSeq(ms, 1, Len(ms) - 1) \in Seq(S)
      /\ Len(SubSeq(ms, 1, Len(ms) - 1)) =
            IF 1 <= Len(ms) - 1 THEN Len(ms) - 1 - 1 + 1 ELSE 0
      /\ \A i \in 1..Len(ms) - 1 - 1 + 1 : SubSeq(ms, 1, Len(ms) - 1)[i] = ms[1 + i - 1]
  BY ONLY <1>3, <1>4, SubSeqProperties
<1>6. /\ Front(ms) \in Seq(S) /\ Len(Front(ms)) = Len(ms) - 1
      /\ \A i \in 1..Len(ms) - 1 : Front(ms)[i] = ms[i]
  <2>1. Len(SubSeq(ms, 1, Len(ms) - 1)) = Len(ms) - 1
    <3>1. Len(SubSeq(ms, 1, Len(ms) - 1)) = IF 1 <= Len(ms) - 1 THEN Len(ms) - 1 - 1 + 1 ELSE 0
      BY ONLY <1>5
    <3> QED
      BY ONLY <1>1, <3>1
  <2>2. \A i \in 1..Len(ms) - 1 : SubSeq(ms, 1, Len(ms) - 1)[i] = ms[i]
    <3> TAKE i \in 1..Len(ms) - 1
    <3>1. i \in 1..Len(ms) - 1 - 1 + 1 /\ 1 + i - 1 = i
      BY <1>1
    <3> QED
      BY <1>5, <3>1
  <2> QED
    BY <1>5, <2>1, <2>2 DEF Front
<1>7. ms = Append(Front(ms), Last(ms))
  <2> DEFINE ns == Append(Front(ms), Last(ms))
  <2>1. /\ ns \in Seq(S) /\ Len(ns) = Len(ms)
        /\ \A i \in 1..Len(ms) - 1 : ns[i] = ms[i]
        /\ ns[Len(ms)] = ms[Len(ms)]
    BY <1>1, <1>2, <1>6, AppendProperties
  <2> HIDE DEF ns
  <2>2. \A i \in 1..Len(ms) : ns[i] = ms[i]
    <3> TAKE i \in 1..Len(ms)
    <3>1. i = Len(ms) \/ i \in 1..Len(ms) - 1
      BY <1>1
    <3> QED
      BY <2>1, <3>1
  <2>3. ns = ms
    BY <2>1, <2>2, SeqEqual
  <2> QED
    BY <2>3 DEF ns
<1> QED
  BY <1>1, <1>2, <1>6, <1>7

\* What one message does to those before it.
LEMMA MergedStep ==
    ASSUME NEW ms \in Seq(Turns), Alternating(ms), NEW m \in Turns
    PROVE  LET r == Merged(ms, m) IN
           /\ r \in Seq(Turns) /\ Alternating(r)
           /\ Dropped(ms, m) => r = ms
           /\ ~Dropped(ms, m) =>
                /\ r # <<>> /\ Last(r).role = m.role
                /\ Last(r).content = IF ms # <<>> /\ Last(ms).role = m.role
                                     THEN Last(ms).content \o m.content ELSE m.content
                /\ Words(r) = Words(ms) \o m.content
<1> DEFINE r == Merged(ms, m)
<1>1. /\ m.role \in {"user", "assistant"} /\ m.content \in Seq(Word)
      /\ m = Turn(m.role, m.content)
      /\ Len(ms) \in Nat
  BY LenProperties DEF Turns, Turn
<1>2. CASE Dropped(ms, m)
  BY <1>2 DEF Merged
<1>3. CASE ~Dropped(ms, m) /\ ms # <<>> /\ Last(ms).role = m.role
  <2> DEFINE n == Len(ms)
             both == Turn(m.role, Last(ms).content \o m.content)
  <2>1. r = Append(Front(ms), both)
    BY <1>3 DEF Merged
  <2>2. /\ n \in Nat \ {0} /\ Last(ms) \in Turns /\ Last(ms) = ms[n]
        /\ Front(ms) \in Seq(Turns) /\ Len(Front(ms)) = n - 1
        /\ \A i \in 1..n - 1 : Front(ms)[i] = ms[i]
        /\ ms = Append(Front(ms), Last(ms))
    BY <1>3, FrontAndLast
  <2>3. Last(ms).content \in Seq(Word) /\ Last(ms).content \o m.content \in Seq(Word)
    BY <1>1, <2>2, ConcatProperties DEF Turns
  <2>4. both \in Turns /\ both.role = m.role /\ both.content = Last(ms).content \o m.content
    BY <1>1, <2>3 DEF Turn, Turns
  <2> HIDE DEF both, n
  <2>5. /\ r \in Seq(Turns) /\ Len(r) = n
        /\ \A i \in 1..n - 1 : r[i] = ms[i]
        /\ r[n] = both
    BY <2>1, <2>2, <2>4, AppendProperties
  <2>6. r # <<>> /\ Last(r) = both
    BY <2>2, <2>5, EmptySeq DEF Last
  <2>7. Alternating(r)
    <3> SUFFICES ASSUME NEW i \in 1..n
                 PROVE  r[i].role = IF i % 2 = 1 THEN "user" ELSE "assistant"
      BY <2>5 DEF Alternating
    <3>1. ms[i].role = IF i % 2 = 1 THEN "user" ELSE "assistant"
      BY DEF Alternating, n
    <3>2. i = n \/ i \in 1..n - 1
      BY <2>2
    <3>3. r[i].role = ms[i].role
      BY <1>3, <2>2, <2>4, <2>5, <3>2
    <3> QED
      BY <3>1, <3>3
  <2>8. Words(r) = Words(ms) \o m.content
    <3>1. Words(ms) = Words(Front(ms)) \o Last(ms).content /\ Words(Front(ms)) \in Seq(Word)
      BY <2>2, WordsAppend
    <3>2. Words(r) = Words(Front(ms)) \o (Last(ms).content \o m.content)
      BY <2>1, <2>2, <2>4, WordsAppend
    <3>3. \A a, b, c \in Seq(Word) : (a \o b) \o c = a \o (b \o c)
      BY ONLY ConcatAssociative
    <3>4. /\ Words(Front(ms)) \in Seq(Word) /\ Last(ms).content \in Seq(Word)
          /\ m.content \in Seq(Word)
      BY <1>1, <2>3, <3>1
    <3>5. (Words(Front(ms)) \o Last(ms).content) \o m.content
             = Words(Front(ms)) \o (Last(ms).content \o m.content)
      BY ONLY <3>3, <3>4, Zenon
    <3> HIDE DEF r
    <3> QED
      BY ONLY <3>1, <3>2, <3>5, Zenon
  <2> QED
    BY <1>3, <2>4, <2>5, <2>6, <2>7, <2>8
<1>4. CASE ~Dropped(ms, m) /\ ~(ms # <<>> /\ Last(ms).role = m.role)
  <2> DEFINE n == Len(ms)
  <2>1. r = Append(ms, m)
    BY <1>4 DEF Merged
  <2>2. /\ r \in Seq(Turns) /\ Len(r) = n + 1
        /\ \A i \in 1..n : r[i] = ms[i]
        /\ r[n + 1] = m
    BY <2>1, AppendProperties
  <2>3. r # <<>> /\ Last(r) = m
    BY <1>1, <2>2, EmptySeq DEF Last
  <2>4. m.role = IF (n + 1) % 2 = 1 THEN "user" ELSE "assistant"
    <3>1. CASE ms = <<>>
      <4>1. n = 0 /\ m.role = "user"
        BY <1>4, <3>1, EmptySeq DEF Dropped
      <4> QED
        BY <4>1
    <3>2. CASE ms # <<>>
      <4>1. n \in Nat \ {0} /\ ms[n].role # m.role
        BY <1>4, <3>2, FrontAndLast
      <4>2. ms[n].role = IF n % 2 = 1 THEN "user" ELSE "assistant"
        BY <4>1 DEF Alternating
      <4>3. (n + 1) % 2 = 1 <=> ~(n % 2 = 1)
        BY <4>1
      <4> QED
        BY <1>1, <4>1, <4>2, <4>3
    <3> QED
      BY <3>1, <3>2
  <2>5. Alternating(r)
    <3> SUFFICES ASSUME NEW i \in 1..n + 1
                 PROVE  r[i].role = IF i % 2 = 1 THEN "user" ELSE "assistant"
      BY <2>2 DEF Alternating
    <3>1. i = n + 1 \/ i \in 1..n
      BY <1>1
    <3>2. i \in 1..n => ms[i].role = IF i % 2 = 1 THEN "user" ELSE "assistant"
      BY DEF Alternating
    <3> QED
      BY <2>2, <2>4, <3>1, <3>2
  <2>6. Words(r) = Words(ms) \o m.content
    BY <2>1, WordsAppend
  <2> QED
    BY <1>4, <2>2, <2>3, <2>5, <2>6
<1> QED
  BY <1>2, <1>3, <1>4

\* Chain(ms, f): f[i] is what the first i messages become.
Chain(ms, f) ==
    f = [i \in 0..Len(ms) |-> IF i = 0 THEN <<>> ELSE Merged(f[i - 1], ms[i])]

LEMMA ChainStep ==
    ASSUME NEW ms, NEW f, Chain(ms, f), NEW i \in 1..Len(ms), Len(ms) \in Nat
    PROVE  f[0] = <<>> /\ f[i] = Merged(f[i - 1], ms[i])
<1>1. 0 \in 0..Len(ms) /\ i \in 0..Len(ms) /\ i # 0
  OBVIOUS
<1> QED
  BY <1>1 DEF Chain

LEMMA NormalizeChain ==
    ASSUME NEW ms \in Seq(Turns)
    PROVE  \E f : Chain(ms, f) /\ NormalizeMessages(ms) = f[Len(ms)]
<1> DEFINE n == Len(ms)
           Upto(m, f) == f = [i \in 0..m |-> IF i = 0 THEN <<>> ELSE Merged(f[i - 1], ms[i])]
           Bad == { m \in 0..n : ~ \E f : Upto(m, f) }
<1>1. n \in Nat
  BY LenProperties
<1>2. Bad = {}
  <2> SUFFICES ASSUME Bad # {} PROVE FALSE
    OBVIOUS
  <2> DEFINE m == Min(Bad)
  <2>1. m \in Bad /\ \A k \in Bad : m <= k
    <3>1. Bad \in SUBSET Nat
      <4> HIDE DEF Upto
      <4> QED
        BY <1>1
    <3> HIDE DEF Bad
    <3> QED
      BY <3>1, FirstPlace
  <2> HIDE DEF m
  <2>2. m # 0
    <3>1. Upto(0, [i \in 0..0 |-> <<>>])
      OBVIOUS
    <3> QED
      BY <2>1, <3>1
  <2>3. m \in 1..n /\ m - 1 \in 0..n /\ m - 1 \notin Bad
    <3>1. m \in 0..n
      BY <2>1
    <3>2. m \in 1..n /\ m - 1 \in 0..n /\ m - 1 < m
      BY <1>1, <2>2, <3>1
    <3> HIDE DEF Bad
    <3> QED
      BY <1>1, <2>1, <3>2
  <2>4. PICK f : Upto(m - 1, f)
    BY <2>3
  <2> DEFINE g == [i \in 0..m |-> IF i < m THEN f[i] ELSE Merged(f[m - 1], ms[m])]
  <2>5. \A i \in 0..m : g[i] = IF i = 0 THEN <<>> ELSE Merged(g[i - 1], ms[i])
    <3> TAKE i \in 0..m
    <3>1. CASE i < m
      <4>1. i \in 0..m - 1 /\ (i # 0 => i - 1 \in 0..m /\ i - 1 < m)
        BY <2>3, <3>1
      <4>2. f[i] = IF i = 0 THEN <<>> ELSE Merged(f[i - 1], ms[i])
        BY <2>4, <4>1
      <4> QED
        BY <3>1, <4>1, <4>2
    <3>2. CASE i = m
      <4>1. m - 1 \in 0..m /\ m - 1 < m /\ ~(m < m) /\ m # 0
        BY <2>3
      <4> QED
        BY <2>3, <3>2, <4>1
    <3> QED
      BY <2>3, <3>1, <3>2
  <2>6. Upto(m, g)
    BY <2>5
  <2> QED
    BY <2>1, <2>6
<1>3. \E f : Chain(ms, f)
  <2>1. n \in 0..n
    BY <1>1
  <2>2. \E f : Upto(n, f)
    <3> HIDE DEF Upto, n
    <3> QED
      BY <1>2, <2>1
  <2> QED
    BY <2>2 DEF Chain
<1> DEFINE h == CHOOSE f : Chain(ms, f)
<1>4. NormalizeMessages(ms) = h[n]
  BY DEF NormalizeMessages, Chain
<1>5. Chain(ms, h)
  BY <1>3
<1> QED
  BY <1>4, <1>5

LEMMA ChainAlternates ==
    ASSUME NEW ms \in Seq(Turns), NEW f, Chain(ms, f)
    PROVE  \A i \in 0..Len(ms) : f[i] \in Seq(Turns) /\ Alternating(f[i])
<1> DEFINE n == Len(ms)
           Good(i) == f[i] \in Seq(Turns) /\ Alternating(f[i])
           Bad == { i \in 0..n : ~Good(i) }
<1>1. n \in Nat
  BY LenProperties
<1> SUFFICES ASSUME Bad # {} PROVE FALSE
  OBVIOUS
<1> DEFINE m == Min(Bad)
<1>2. m \in Bad /\ \A k \in Bad : m <= k
  <2>1. Bad \in SUBSET Nat
    BY <1>1
  <2> HIDE DEF Bad
  <2> QED
    BY <2>1, FirstPlace
<1> HIDE DEF m
<1>3. m # 0
  <2>1. f[0] = <<>>
    BY <1>1 DEF Chain
  <2>2. Alternating(<<>>) /\ <<>> \in Seq(Turns)
    BY EmptySeq DEF Alternating
  <2> QED
    BY <1>2, <2>1, <2>2
<1>4. m \in 1..n /\ m - 1 \in 0..n /\ ~(m <= m - 1)
  <2>1. m \in 0..n
    BY <1>2
  <2> QED
    BY <1>1, <1>3, <2>1
<1>5. f[m - 1] \in Seq(Turns) /\ Alternating(f[m - 1])
  BY <1>2, <1>4
<1>6. f[m] = Merged(f[m - 1], ms[m]) /\ ms[m] \in Turns
  BY <1>1, <1>4, ChainStep, ElementOfSeq
<1>7. f[m] \in Seq(Turns) /\ Alternating(f[m])
  BY <1>5, <1>6, MergedStep
<1> QED
  BY <1>2, <1>7

\* If the first message is a question, nothing is lost.
LEMMA ChainWords ==
    ASSUME NEW ms \in Seq(Turns), NEW f, Chain(ms, f), ms # <<>>,
           ms[1].role = "user", ms[1].content # <<>>
    PROVE  f[Len(ms)] # <<>> /\ Words(f[Len(ms)]) = Words(ms)
<1> DEFINE n == Len(ms)
           Upto(i) == SubSeq(ms, 1, i)
           Good(i) == f[i] # <<>> /\ Words(f[i]) = Words(Upto(i))
           Bad == { i \in 1..n : ~Good(i) }
<1>1. n \in Nat \ {0} /\ Upto(n) = ms
  BY EmptySeq, SubSeqFull
<1>2. Bad = {}
  <2> SUFFICES ASSUME Bad # {} PROVE FALSE
    OBVIOUS
  <2> DEFINE m == Min(Bad)
  <2>1. m \in Bad /\ \A k \in Bad : m <= k
    <3>1. Bad \in SUBSET Nat
      BY <1>1
    <3> HIDE DEF Bad
    <3> QED
      BY <3>1, FirstPlace
  <2> HIDE DEF m
  <2>2. /\ m \in 1..n /\ m - 1 \in 0..n /\ ~(m <= m - 1)
        /\ m # 1 => m - 1 \in 1..n
    <3>1. m \in 1..n
      BY <2>1
    <3> QED
      BY <1>1, <3>1
  <2>3. /\ f[m - 1] \in Seq(Turns) /\ Alternating(f[m - 1])
        /\ f[m] = Merged(f[m - 1], ms[m]) /\ ms[m] \in Turns
    BY <1>1, <2>2, ChainAlternates, ChainStep, ElementOfSeq
  <2>4. /\ Upto(m - 1) \in Seq(Turns)
        /\ Upto(m) = Append(Upto(m - 1), ms[m])
    <3>1. \A i \in 1..m : ms[i] \in Turns
      BY <1>1, <2>2, ElementOfSeq
    <3>2. m \in Int /\ m - 1 \in Int /\ 1 \in Int /\ \A i \in 1..m - 1 : ms[i] \in Turns
      BY <2>2, <3>1
    <3>3. /\ Upto(m - 1) \in Seq(Turns)
          /\ Len(Upto(m - 1)) = IF 1 <= m - 1 THEN m - 1 - 1 + 1 ELSE 0
          /\ \A i \in 1..m - 1 - 1 + 1 : Upto(m - 1)[i] = ms[1 + i - 1]
      BY ONLY <3>2, SubSeqProperties
    <3>4. /\ Upto(m) \in Seq(Turns)
          /\ Len(Upto(m)) = IF 1 <= m THEN m - 1 + 1 ELSE 0
          /\ \A i \in 1..m - 1 + 1 : Upto(m)[i] = ms[1 + i - 1]
      BY ONLY <3>1, <3>2, SubSeqProperties
    <3> HIDE DEF Upto
    <3>5. Len(Upto(m - 1)) = m - 1 /\ Len(Upto(m)) = m
      BY <2>2, <3>3, <3>4
    <3>6. /\ \A i \in 1..m - 1 : Upto(m - 1)[i] = ms[i]
          /\ \A i \in 1..m : Upto(m)[i] = ms[i]
      <4>1. m - 1 - 1 + 1 = m - 1 /\ m - 1 + 1 = m /\ \A i \in 1..m : 1 + i - 1 = i
        BY <2>2
      <4> QED
        BY <2>2, <3>3, <3>4, <4>1
    <3> DEFINE ns == Append(Upto(m - 1), ms[m])
    <3>7. /\ ns \in Seq(Turns) /\ Len(ns) = m
          /\ \A i \in 1..m - 1 : ns[i] = ms[i]
          /\ ns[m] = ms[m]
      BY <2>2, <2>3, <3>3, <3>5, <3>6, AppendProperties
    <3> HIDE DEF ns
    <3>8. \A i \in 1..m : ns[i] = Upto(m)[i]
      <4> TAKE i \in 1..m
      <4>1. i = m \/ i \in 1..m - 1
        BY <2>2
      <4> QED
        BY <3>6, <3>7, <4>1
    <3>9. ns = Upto(m)
      BY <3>4, <3>5, <3>7, <3>8, SeqEqual
    <3> QED
      BY <3>3, <3>9 DEF ns
  <2>5. Words(Upto(m)) = Words(Upto(m - 1)) \o ms[m].content /\ Words(Upto(m - 1)) \in Seq(Word)
    <3> HIDE DEF Upto
    <3> QED
      BY <2>3, <2>4, WordsAppend
  <2>6. /\ m = 1 => f[m - 1] = <<>> /\ Words(f[m - 1]) = <<>> /\ Words(Upto(m - 1)) = <<>>
                    /\ ~Dropped(f[m - 1], ms[m])
        /\ m # 1 => Good(m - 1)
    <3>1. CASE m = 1
      <4>1. m - 1 = 0 /\ f[m - 1] = <<>>
        BY <1>1, <2>2, <3>1, ChainStep
      <4>2. Upto(m - 1) = <<>>
        BY <4>1, SubSeqEmpty
      <4>3. Words(f[m - 1]) = <<>> /\ Words(Upto(m - 1)) = <<>>
        <5> HIDE DEF Upto
        <5> QED
          BY <2>3, <2>4, <4>1, <4>2, WordsAppend
      <4> QED
        BY <3>1, <4>1, <4>3 DEF Dropped
    <3>2. CASE m # 1
      BY <2>1, <2>2, <3>2
    <3> QED
      BY <3>1, <3>2
  <2>7. Words(f[m - 1]) = Words(Upto(m - 1))
    BY <2>6
  <2>8. CASE Dropped(f[m - 1], ms[m])
    <3>1. f[m] = f[m - 1] /\ Good(m - 1)
      BY <2>3, <2>6, <2>8, MergedStep
    <3>2. ms[m].content = <<>>
      BY <2>8, <3>1 DEF Dropped
    <3>3. Words(Upto(m)) = Words(Upto(m - 1))
      BY <2>5, <3>2, ConcatEmptySeq
    <3> QED
      BY <2>1, <3>1, <3>3
  <2>9. CASE ~Dropped(f[m - 1], ms[m])
    <3>1. f[m] # <<>> /\ Words(f[m]) = Words(f[m - 1]) \o ms[m].content
      <4>1. f[m - 1] \in Seq(Turns) /\ Alternating(f[m - 1]) /\ ms[m] \in Turns
        BY <2>3
      <4>2. /\ Merged(f[m - 1], ms[m]) # <<>>
            /\ Words(Merged(f[m - 1], ms[m])) = Words(f[m - 1]) \o ms[m].content
        BY ONLY <4>1, <2>9, MergedStep
      <4> QED
        BY ONLY <4>2, <2>3, Zenon
    <3> QED
      BY <2>1, <2>5, <2>7, <3>1
  <2> QED
    BY <2>8, <2>9
<1>3. n \in 1..n
  BY <1>1
<1>4. Good(n)
  <2> HIDE DEF Good, n
  <2> QED
    BY <1>2, <1>3
<1> QED
  BY <1>1, <1>4

Unmarked(content) == \A i \in 1..Len(content) : content[i] # "Question:"

\* The first mark ends what has none, and the question is what follows it.
LEMMA AfterMark ==
    ASSUME NEW pre \in Seq(Word), Unmarked(pre), NEW rest \in Seq(Word),
           NEW content \in Seq(Word), Len(content) = Len(pre) + 1 + Len(rest),
           \A i \in 1..Len(pre) : content[i] = pre[i],
           content[Len(pre) + 1] = "Question:",
           \A i \in 1..Len(rest) : content[Len(pre) + 1 + i] = rest[i]
    PROVE  LET mark == SelectInSeq(content, LAMBDA word : word = "Question:")
           IN  SubSeq(content, mark + 1, Len(content)) = rest
<1> DEFINE marks == { i \in 1..Len(content) : content[i] = "Question:" }
           k == Len(pre) + 1
           n == Len(content)
<1>1. Len(pre) \in Nat /\ Len(rest) \in Nat /\ k \in 1..n /\ n = k + Len(rest) /\ n \in Nat
  BY LenProperties
<1>2. k \in marks /\ \A i \in marks : k <= i
  <2>1. \A i \in marks : ~(i \in 1..Len(pre))
    BY DEF Unmarked
  <2>2. \A i \in marks : i \in Nat /\ 1 <= i
    OBVIOUS
  <2>3. \A i \in marks : k <= i
    <3> TAKE i \in marks
    <3>1. ~(i <= Len(pre)) /\ i \in Nat
      BY <1>1, <2>1, <2>2
    <3> QED
      BY <1>1, <3>1
  <2> QED
    BY <1>1, <2>3
<1>3. Min(marks) = k
  <2>1. Min(marks) \in marks /\ \A j \in marks : Min(marks) <= j
    <3>1. marks \in SUBSET Nat /\ marks # {}
      BY <1>2
    <3> HIDE DEF marks
    <3> QED
      BY <3>1, FirstPlace
  <2>2. Min(marks) \in Nat
    BY <2>1
  <2> HIDE DEF marks, k
  <2>3. Min(marks) <= k /\ k <= Min(marks)
    BY <1>2, <2>1
  <2> QED
    BY <1>1, <2>2, <2>3
<1>4. SelectInSeq(content, LAMBDA word : word = "Question:") = k
  BY <1>2, <1>3 DEF SelectInSeq
<1> HIDE DEF k, n, marks
<1>5. SubSeq(content, k + 1, n) = rest
  <2>1. /\ k + 1 \in Int /\ n \in Int /\ \A i \in k + 1..n : content[i] \in Word
    <3>1. \A i \in k + 1..n : i \in 1..Len(content)
      BY <1>1 DEF n
    <3> QED
      BY <1>1, <3>1, ElementOfSeq
  <2>2. /\ SubSeq(content, k + 1, n) \in Seq(Word)
        /\ Len(SubSeq(content, k + 1, n)) = IF k + 1 <= n THEN n - (k + 1) + 1 ELSE 0
        /\ \A i \in 1..n - (k + 1) + 1 : SubSeq(content, k + 1, n)[i] = content[k + 1 + i - 1]
    BY ONLY <2>1, SubSeqProperties
  <2>3. /\ n - (k + 1) + 1 = Len(rest) /\ (~(k + 1 <= n) => Len(rest) = 0)
        /\ \A i \in 1..Len(rest) : k + 1 + i - 1 = k + i
    BY <1>1
  <2>4. Len(SubSeq(content, k + 1, n)) = Len(rest)
    BY <2>2, <2>3
  <2>5. \A i \in 1..Len(rest) : SubSeq(content, k + 1, n)[i] = content[k + i]
    BY <2>2, <2>3
  <2>6. \A i \in 1..Len(rest) : content[k + i] = rest[i]
    BY DEF k
  <2> QED
    BY <2>2, <2>4, <2>5, <2>6, SeqEqual
<1> QED
  BY <1>4, <1>5 DEF n

\* The words of a prompt.
LEMMA PromptShape ==
    ASSUME NEW text \in Seq(Word)
    PROVE  LET p == Prompt(<<"columns">>, text)
           IN  /\ p \in Seq(Word) /\ Len(p) = 3 + Len(text)
               /\ p[1] = "Dataset:" /\ p[2] = "columns" /\ p[3] = "Question:"
               /\ \A i \in 1..Len(text) : p[3 + i] = text[i]
<1> DEFINE head == <<"Dataset:">> \o <<"columns">> \o <<"Question:">>
<1>1. /\ head \in Seq(Word) /\ Len(head) = 3
      /\ head[1] = "Dataset:" /\ head[2] = "columns" /\ head[3] = "Question:"
  BY WordsAreWords
<1>2. Prompt(<<"columns">>, text) = head \o text
  BY DEF Prompt
<1> HIDE DEF head
<1>3. /\ head \o text \in Seq(Word)
      /\ Len(head \o text) = Len(head) + Len(text)
      /\ \A i \in 1..Len(head) + Len(text) :
            (head \o text)[i] = IF i <= Len(head) THEN head[i] ELSE text[i - Len(head)]
  BY <1>1, ConcatProperties
<1>4. Len(text) \in Nat
  BY LenProperties
<1>5. /\ (head \o text)[1] = "Dataset:" /\ (head \o text)[2] = "columns"
      /\ (head \o text)[3] = "Question:"
  BY <1>1, <1>3, <1>4
<1>6. \A i \in 1..Len(text) : (head \o text)[3 + i] = text[i]
  <2> TAKE i \in 1..Len(text)
  <2>1. 3 + i \in 1..3 + Len(text) /\ ~(3 + i <= 3) /\ 3 + i - 3 = i
    BY <1>4
  <2> QED
    BY <1>1, <1>3, <2>1
<1>7. Len(head \o text) = 3 + Len(text)
  BY <1>1, <1>3
<1> DEFINE p == head \o text
<1>8. /\ p \in Seq(Word) /\ Len(p) = 3 + Len(text)
      /\ p[1] = "Dataset:" /\ p[2] = "columns" /\ p[3] = "Question:"
      /\ \A i \in 1..Len(text) : p[3 + i] = text[i]
  BY <1>3, <1>5, <1>6, <1>7
<1>9. Prompt(<<"columns">>, text) = p
  BY <1>2
<1> HIDE DEF p
<1> QED
  BY <1>8, <1>9

\* The question is found after whatever the prompt was merged with.
LEMMA PromptWords ==
    ASSUME NEW pre \in Seq(Word), Unmarked(pre), NEW text \in Seq(Word)
    PROVE  LET content == pre \o Prompt(<<"columns">>, text)
               mark == SelectInSeq(content, LAMBDA word : word = "Question:")
           IN  SubSeq(content, mark + 1, Len(content)) = text
<1> DEFINE p == Prompt(<<"columns">>, text)
           content == pre \o p
           n == Len(pre)
           open == SubSeq(content, 1, n + 2)
<1>1. /\ p \in Seq(Word) /\ Len(p) = 3 + Len(text)
      /\ p[1] = "Dataset:" /\ p[2] = "columns" /\ p[3] = "Question:"
      /\ \A i \in 1..Len(text) : p[3 + i] = text[i]
  BY PromptShape
<1>2. n \in Nat /\ Len(text) \in Nat
  BY LenProperties
<1> HIDE DEF p
<1>3. /\ content \in Seq(Word) /\ Len(content) = n + Len(p)
      /\ \A i \in 1..n + Len(p) : content[i] = IF i <= n THEN pre[i] ELSE p[i - n]
  <2>1. p \in Seq(Word) /\ pre \in Seq(Word)
    BY <1>1
  <2> QED
    BY ONLY <2>1, ConcatProperties
<1> HIDE DEF content
<1>4. Len(content) = n + 3 + Len(text)
  BY <1>1, <1>2, <1>3
<1>5. /\ \A i \in 1..n : content[i] = pre[i]
      /\ content[n + 1] = "Dataset:" /\ content[n + 2] = "columns"
      /\ content[n + 3] = "Question:"
  <2>1. \A i \in 1..n : i \in 1..n + Len(p) /\ i <= n
    BY <1>1, <1>2
  <2>2. \A k \in 1..3 : n + k \in 1..n + Len(p) /\ ~(n + k <= n) /\ n + k - n = k
    BY <1>1, <1>2
  <2>3. \A k \in 1..3 : content[n + k] = p[k]
    BY <1>3, <2>2
  <2>4. \A i \in 1..n : content[i] = pre[i]
    BY <1>3, <2>1
  <2> QED
    BY <1>1, <2>3, <2>4
<1>6. \A i \in 1..Len(text) : content[n + 3 + i] = text[i]
  <2> TAKE i \in 1..Len(text)
  <2>1. n + 3 + i \in 1..n + Len(p) /\ ~(n + 3 + i <= n) /\ n + 3 + i - n = 3 + i
    BY <1>1, <1>2
  <2> QED
    BY <1>1, <1>3, <2>1
<1>7. open \in Seq(Word) /\ Len(open) = n + 2 /\ \A i \in 1..n + 2 : open[i] = content[i]
  <2>1. \A i \in 1..n + 2 : content[i] \in Word
    BY <1>2, <1>3, <1>4, ElementOfSeq
  <2>2. 1 \in Int /\ n + 2 \in Int
    BY <1>2
  <2>3. /\ open \in Seq(Word)
        /\ Len(open) = IF 1 <= n + 2 THEN n + 2 - 1 + 1 ELSE 0
        /\ \A i \in 1..n + 2 - 1 + 1 : open[i] = content[1 + i - 1]
    BY ONLY <2>1, <2>2, SubSeqProperties
  <2> HIDE DEF open
  <2>4. n + 2 - 1 + 1 = n + 2 /\ 1 <= n + 2 /\ \A i \in 1..n + 2 : 1 + i - 1 = i
    BY <1>2
  <2>5. \A i \in 1..n + 2 : open[i] = content[i]
    BY <2>3, <2>4
  <2> QED
    BY <2>3, <2>4, <2>5
<1> HIDE DEF open
<1>8. Unmarked(open)
  <2> SUFFICES ASSUME NEW i \in 1..n + 2 PROVE content[i] # "Question:"
    BY <1>7 DEF Unmarked
  <2>1. i \in 1..n \/ i = n + 1 \/ i = n + 2
    BY <1>2
  <2>2. i \in 1..n => pre[i] # "Question:"
    BY DEF Unmarked
  <2> QED
    BY <1>5, <2>1, <2>2
<1>9. /\ Len(content) = Len(open) + 1 + Len(text)
      /\ \A i \in 1..Len(open) : content[i] = open[i]
      /\ content[Len(open) + 1] = "Question:"
      /\ \A i \in 1..Len(text) : content[Len(open) + 1 + i] = text[i]
  <2>1. Len(open) + 1 = n + 3 /\ Len(open) = n + 2
    BY <1>2, <1>7
  <2> QED
    BY <1>4, <1>5, <1>6, <1>7, <2>1
<1> HIDE DEF n
<1>10. LET mark == SelectInSeq(content, LAMBDA word : word = "Question:")
       IN  SubSeq(content, mark + 1, Len(content)) = text
  BY <1>3, <1>7, <1>8, <1>9, AfterMark
<1> QED
  BY <1>10 DEF content, p

\* The last message of the user is the last one, if it is the user's.
LEMMA LastIsUser ==
    ASSUME NEW ms \in Seq(Turns), ms # <<>>, Last(ms).role = "user"
    PROVE  LastUser(ms) = Len(ms)
<1> DEFINE n == Len(ms)
           I == { i \in 1..n : ms[i].role = "user" }
<1>1. n \in Nat \ {0} /\ Last(ms) = ms[n]
  BY FrontAndLast
<1>2. n \in I /\ I \in SUBSET (0..n)
  BY <1>1
<1>3. LastUser(ms) = Max(I)
  BY <1>2 DEF LastUser, SelectLastInSeq
<1>4. \A i \in I : i <= n
  OBVIOUS
<1>5. Max(I) \in I /\ n <= Max(I)
  <2>1. n \in Nat
    BY <1>1
  <2> HIDE DEF I, n
  <2> QED
    BY <1>2, <2>1, LastPlace
<1>6. Max(I) <= n /\ Max(I) \in Nat
  BY <1>4, <1>5
<1> HIDE DEF I, n
<1>7. Max(I) = n
  BY <1>1, <1>5, <1>6
<1> QED
  BY <1>3, <1>7 DEF n

\* What is sent for messages that open and end with the user.
LEMMA Sent ==
    ASSUME NEW ms \in Seq(Turns), ms # <<>>,
           ms[1].role = "user", ms[1].content # <<>>,
           Last(ms).role = "user", Last(ms).content # <<>>
    PROVE  LET sent == NormalizeMessages(ms)
           IN  /\ sent \in Seq(Turns) /\ sent # <<>> /\ Alternating(sent)
               /\ Last(sent).role = "user"
               /\ Words(sent) = Words(ms)
<1> DEFINE n == Len(ms)
<1>1. PICK f : Chain(ms, f) /\ NormalizeMessages(ms) = f[n]
  BY NormalizeChain
<1>2. n \in Nat \ {0} /\ ms[n] = Last(ms) /\ Last(ms) \in Turns
  BY FrontAndLast
<1>3. n \in 0..n /\ n - 1 \in 0..n /\ n \in 1..n
  BY <1>2
<1>4. /\ f[n] \in Seq(Turns) /\ Alternating(f[n])
      /\ f[n - 1] \in Seq(Turns) /\ Alternating(f[n - 1])
  BY <1>1, <1>3, ChainAlternates
<1>5. f[n] # <<>> /\ Words(f[n]) = Words(ms)
  BY <1>1, ChainWords
<1>6. f[n] = Merged(f[n - 1], ms[n])
  BY <1>1, <1>2, <1>3, ChainStep
<1>7. ~Dropped(f[n - 1], ms[n])
  BY <1>2 DEF Dropped
<1> HIDE DEF n
<1>8. Last(f[n]).role = "user"
  <2>1. f[n - 1] \in Seq(Turns) /\ Alternating(f[n - 1]) /\ ms[n] \in Turns
    BY <1>2, <1>4
  <2>2. Last(Merged(f[n - 1], ms[n])).role = ms[n].role
    BY ONLY <2>1, <1>7, MergedStep
  <2> QED
    BY <1>2, <1>6, <2>2
<1> QED
  BY <1>1, <1>4, <1>5, <1>8

LEMMA UnmarkedBoth ==
    ASSUME NEW s \in Seq(Word), NEW t \in Seq(Word), Unmarked(s), Unmarked(t)
    PROVE  Unmarked(s \o t)
<1>1. /\ Len(s) \in Nat /\ Len(t) \in Nat /\ Len(s \o t) = Len(s) + Len(t)
      /\ \A i \in 1..Len(s) + Len(t) : (s \o t)[i] = IF i <= Len(s) THEN s[i] ELSE t[i - Len(s)]
  BY LenProperties, ConcatProperties
<1> SUFFICES ASSUME NEW i \in 1..Len(s) + Len(t) PROVE (s \o t)[i] # "Question:"
  BY <1>1 DEF Unmarked
<1>2. i \in 1..Len(s) \/ (~(i <= Len(s)) /\ i - Len(s) \in 1..Len(t))
  BY <1>1
<1>3. i \in 1..Len(s) => i <= Len(s)
  BY <1>1
<1> QED
  BY <1>1, <1>2, <1>3 DEF Unmarked

\* A turn of the user has no mark if those since the last answer have none.
LEMMA ChainUnmarked ==
    ASSUME NEW ms \in Seq(Told), NEW f, Chain(ms, f),
           NEW answer \in Nat, NEW last \in Nat, answer <= last, last <= Len(ms),
           answer # 0 => ms[answer].role = "assistant",
           \A i \in answer + 1..last : Unmarked(ms[i].content)
    PROVE  f[last] # <<>> /\ Last(f[last]).role = "user" => Unmarked(Last(f[last]).content)
<1> DEFINE Good(i) == f[i] # <<>> /\ Last(f[i]).role = "user" => Unmarked(Last(f[i]).content)
           Bad == { i \in answer..last : ~Good(i) }
<1>1. Len(ms) \in Nat /\ ms \in Seq(Turns)
  <2>1. Told \subseteq Turns
    BY DEF Told
  <2> QED
    BY <2>1, LenProperties, SeqMonotonic
<1>2. Bad = {}
  <2> SUFFICES ASSUME Bad # {} PROVE FALSE
    OBVIOUS
  <2> DEFINE m == Min(Bad)
  <2>1. m \in Bad /\ \A k \in Bad : m <= k
    <3>1. Bad \in SUBSET Nat
      OBVIOUS
    <3> HIDE DEF Bad
    <3> QED
      BY <3>1, FirstPlace
  <2> HIDE DEF m
  <2>2. m \in answer..last /\ ~Good(m)
    BY <2>1
  <2>3. m # 0
    <3>1. f[0] = <<>>
      BY <1>1 DEF Chain
    <3> QED
      BY <2>2, <3>1
  <2>4. /\ m \in 1..Len(ms) /\ m - 1 \in 0..Len(ms)
        /\ m # answer => m \in answer + 1..last /\ m - 1 \in answer..last /\ ~(m <= m - 1)
    BY <1>1, <2>2, <2>3
  <2>5. /\ f[m - 1] \in Seq(Turns) /\ Alternating(f[m - 1])
        /\ f[m] = Merged(f[m - 1], ms[m]) /\ ms[m] \in Told /\ ms[m] \in Turns
    BY <1>1, <2>4, ChainAlternates, ChainStep, ElementOfSeq
  <2>6. /\ Dropped(f[m - 1], ms[m]) => f[m] = f[m - 1]
        /\ ~Dropped(f[m - 1], ms[m]) =>
              /\ Last(f[m]).role = ms[m].role
              /\ Last(f[m]).content = IF f[m - 1] # <<>> /\ Last(f[m - 1]).role = ms[m].role
                                      THEN Last(f[m - 1]).content \o ms[m].content
                                      ELSE ms[m].content
    <3> DEFINE g == f[m - 1]
               t == ms[m]
               r == Merged(g, t)
    <3>1. g \in Seq(Turns) /\ Alternating(g) /\ t \in Turns /\ f[m] = r
      BY <2>5
    <3> HIDE DEF g, t
    <3>2. /\ Dropped(g, t) => r = g
          /\ ~Dropped(g, t) =>
                /\ Last(r).role = t.role
                /\ Last(r).content = IF g # <<>> /\ Last(g).role = t.role
                                     THEN Last(g).content \o t.content ELSE t.content
      BY ONLY <3>1, MergedStep
    <3> HIDE DEF r
    <3> QED
      BY <3>1, <3>2 DEF g, t
  <2>7. CASE m = answer
    <3>1. ms[m].role = "assistant" /\ ms[m].content # <<>>
      BY <2>3, <2>5, <2>7 DEF Told
    <3>2. CASE Dropped(f[m - 1], ms[m])
      BY <2>2, <2>6, <3>1, <3>2 DEF Dropped
    <3>3. CASE ~Dropped(f[m - 1], ms[m])
      BY <2>2, <2>6, <3>1, <3>3
    <3> QED
      BY <3>2, <3>3
  <2>8. CASE m # answer
    <3>1. Unmarked(ms[m].content) /\ Good(m - 1)
      BY <2>1, <2>4, <2>8
    <3>2. CASE Dropped(f[m - 1], ms[m])
      BY <2>2, <2>6, <3>1, <3>2
    <3>3. CASE ~Dropped(f[m - 1], ms[m])
      <4>1. Last(f[m]).role = "user" /\ ~Unmarked(Last(f[m]).content)
        BY <2>2
      <4>2. /\ f[m - 1] # <<>> /\ Last(f[m - 1]).role = "user"
            /\ Last(f[m]).content = Last(f[m - 1]).content \o ms[m].content
        BY <2>6, <3>1, <3>3, <4>1
      <4>3. Last(f[m - 1]).content \in Seq(Word) /\ ms[m].content \in Seq(Word)
        BY <2>5, <4>2, FrontAndLast, TurnTyped
      <4>4. Unmarked(Last(f[m - 1]).content)
        BY <3>1, <4>2
      <4> QED
        BY <3>1, <4>1, <4>2, <4>3, <4>4, UnmarkedBoth
    <3> QED
      BY <3>2, <3>3
  <2> QED
    BY <2>7, <2>8
<1>3. last \in answer..last
  OBVIOUS
<1>4. Good(last)
  <2> HIDE DEF Good
  <2> QED
    BY <1>2, <1>3
<1> QED
  BY <1>4

\* The last answer of a conversation comes before the prompt that ends it.
LEMMA LastAnswer ==
    ASSUME NEW ms \in Seq(Turns), ms # <<>>, Last(ms).role = "user"
    PROVE  LET answer == SelectLastInSeq(ms, LAMBDA m : m.role = "assistant")
           IN  /\ answer \in Nat /\ answer <= Len(ms) - 1
               /\ answer # 0 => ms[answer].role = "assistant"
<1> DEFINE n == Len(ms)
           I == { i \in 1..n : ms[i].role = "assistant" }
           answer == SelectLastInSeq(ms, LAMBDA m : m.role = "assistant")
<1>1. n \in Nat \ {0} /\ Last(ms) = ms[n]
  BY FrontAndLast
<1>2. answer = IF I # {} THEN Max(I) ELSE 0
  BY DEF SelectLastInSeq
<1>3. I # {} => Max(I) \in I
  <2>1. n \in Nat /\ I \in SUBSET (0..n)
    BY <1>1
  <2> HIDE DEF I, n
  <2> QED
    BY <2>1, LastPlace
<1>4. n \notin I
  BY <1>1
<1> HIDE DEF answer
<1>5. /\ answer \in Nat /\ answer <= n - 1
      /\ answer # 0 => ms[answer].role = "assistant"
  <2>1. CASE I = {}
    BY <1>1, <1>2, <2>1
  <2>2. CASE I # {}
    <3>1. answer \in I
      BY <1>2, <1>3, <2>2
    <3>2. answer \in 1..n /\ ms[answer].role = "assistant" /\ answer # n
      BY <1>4, <3>1
    <3> QED
      BY <1>1, <3>2
  <2> QED
    BY <2>1, <2>2
<1> QED
  BY <1>5 DEF answer

\* The question of a prompt is found in what is sent, whatever turns without a
\* mark it is merged with.
LEMMA QuestionFound ==
    ASSUME NEW ms \in Seq(Told), ms # <<>>, ms[1].role = "user", ms[1].content # <<>>,
           NEW text \in Seq(Word),
           Last(ms) = Turn("user", Prompt(<<"columns">>, text)),
           LET answer == SelectLastInSeq(ms, LAMBDA m : m.role = "assistant")
           IN  \A i \in answer + 1..Len(ms) - 1 : Unmarked(ms[i].content)
    PROVE  LET sent == NormalizeMessages(ms)
           IN  LastUser(sent) # 0 /\ ExtractQuestion(sent) = text
<1> DEFINE n == Len(ms)
           p == Prompt(<<"columns">>, text)
           answer == SelectLastInSeq(ms, LAMBDA m : m.role = "assistant")
<1>1. ms \in Seq(Turns)
  <2>1. Told \subseteq Turns
    BY DEF Told
  <2> QED
    BY <2>1, SeqMonotonic
<1>2. p \in Seq(Word) /\ Len(p) = 3 + Len(text) /\ Len(text) \in Nat
  BY PromptShape, LenProperties
<1>3. p # <<>>
  <2> HIDE DEF p
  <2> QED
    BY <1>2, EmptySeq
<1>4. n \in Nat \ {0} /\ ms[n] = Last(ms) /\ ms[n] \in Turns
  BY <1>1, FrontAndLast
<1>5. ms[n].role = "user" /\ ms[n].content = p
  BY <1>4 DEF Turn
<1>6. PICK f : Chain(ms, f) /\ NormalizeMessages(ms) = f[n]
  BY <1>1, NormalizeChain
<1>7. n \in 0..n /\ n - 1 \in 0..n /\ n \in 1..n /\ n - 1 \in Nat /\ n - 1 <= n
  BY <1>4
<1>8. /\ f[n] \in Seq(Turns) /\ f[n - 1] \in Seq(Turns) /\ Alternating(f[n - 1])
      /\ f[n] = Merged(f[n - 1], ms[n])
  BY <1>1, <1>4, <1>6, <1>7, ChainAlternates, ChainStep
<1>9. /\ answer \in Nat /\ answer <= n - 1
      /\ answer # 0 => ms[answer].role = "assistant"
      /\ \A i \in answer + 1..n - 1 : Unmarked(ms[i].content)
  BY <1>1, <1>4, <1>5, LastAnswer
<1> HIDE DEF n, p, answer
<1>10. f[n - 1] # <<>> /\ Last(f[n - 1]).role = "user" => Unmarked(Last(f[n - 1]).content)
  <2>1. Chain(ms, f) /\ n - 1 <= Len(ms)
    BY <1>6, <1>7 DEF n
  <2> QED
    BY <1>7, <1>9, <2>1, ChainUnmarked
<1>11. ~Dropped(f[n - 1], ms[n])
  BY <1>3, <1>5 DEF Dropped
<1>12. /\ f[n] # <<>> /\ Last(f[n]).role = "user"
       /\ Last(f[n]).content = IF f[n - 1] # <<>> /\ Last(f[n - 1]).role = "user"
                               THEN Last(f[n - 1]).content \o p ELSE p
  <2> DEFINE g == f[n - 1]
             t == ms[n]
             r == Merged(g, t)
  <2>1. g \in Seq(Turns) /\ Alternating(g) /\ t \in Turns /\ ~Dropped(g, t) /\ f[n] = r
    BY <1>4, <1>8, <1>11
  <2> HIDE DEF g, t
  <2>2. /\ r # <<>> /\ Last(r).role = t.role
        /\ Last(r).content = IF g # <<>> /\ Last(g).role = t.role
                             THEN Last(g).content \o t.content ELSE t.content
    BY ONLY <2>1, MergedStep
  <2> HIDE DEF r
  <2> QED
    BY <1>5, <2>1, <2>2 DEF g, t
<1>13. \E pre \in Seq(Word) : Unmarked(pre) /\ Last(f[n]).content = pre \o p
  <2>1. CASE f[n - 1] # <<>> /\ Last(f[n - 1]).role = "user"
    <3>1. Last(f[n - 1]).content \in Seq(Word)
      BY <1>8, <2>1, FrontAndLast, TurnTyped
    <3> QED
      BY <1>10, <1>12, <2>1, <3>1
  <2>2. CASE ~(f[n - 1] # <<>> /\ Last(f[n - 1]).role = "user")
    <3>1. <<>> \in Seq(Word) /\ Unmarked(<<>>) /\ <<>> \o p = p
      BY <1>2, EmptySeq, ConcatEmptySeq DEF Unmarked
    <3> QED
      BY <1>12, <2>2, <3>1
  <2> QED
    BY <2>1, <2>2
<1>14. PICK pre \in Seq(Word) : Unmarked(pre) /\ Last(f[n]).content = pre \o p
  BY <1>13
<1> DEFINE content == pre \o p
           mark == SelectInSeq(content, LAMBDA word : word = "Question:")
<1>15. SubSeq(content, mark + 1, Len(content)) = text
  BY <1>14, PromptWords DEF p
<1>16. /\ LastUser(f[n]) = Len(f[n]) /\ Len(f[n]) \in Nat \ {0}
       /\ f[n][Len(f[n])].content = content
  BY <1>8, <1>12, <1>14, LastIsUser, FrontAndLast
<1> HIDE DEF content
<1>17. ExtractQuestion(f[n]) = text
  BY <1>15, <1>16 DEF ExtractQuestion
<1> QED
  BY <1>6, <1>16, <1>17

\* What normalise leaves of a text are words.
LEMMA NormaliseTyped ==
    ASSUME NEW text \in Seq(Word)
    PROVE  Normalise(text) \in Seq(Word)
<1> DEFINE ss == [i \in DOMAIN text |-> Spoken[text[i]]]
<1>1. Len(text) \in Nat /\ DOMAIN text = 1..Len(text)
  BY LenProperties
<1>2. \A i \in 1..Len(text) : Spoken[text[i]] \in Seq(Word)
  BY ElementOfSeq, SpokenInWords
<1>3. ss \in Seq(Seq(Word))
  BY <1>1, <1>2
<1> HIDE DEF ss
<1>4. FlattenSeq(ss) \in Seq(Word)
  <2>1. PICK s : s \in Seq(Word)
    OBVIOUS
  <2> QED
    BY <1>3, <2>1, FlattenAppend
<1> QED
  BY <1>4 DEF Normalise, ss

-----------------------------------------------------------------------------
(* The demo and the live page.                                             *)

LEMMA ToldAreTurns ==
    ASSUME NEW ms \in Seq(Told)
    PROVE  ms \in Seq(Turns)
<1>1. Told \subseteq Turns
  BY DEF Told
<1> QED
  BY <1>1, SeqMonotonic

\* A question is asked with a prompt that opens with an example and ends with it.
LEMMA AskedPrompt ==
    ASSUME NEW h \in Seq(Told), NEW text \in Seq(Word)
    PROVE  LET ms == BaseMessages(FewShot, h, <<"columns">>, text)
           IN  /\ ms \in Seq(Told) /\ ms # <<>>
               /\ ms[1].role = "user" /\ ms[1].content # <<>>
               /\ Last(ms) = Turn("user", Prompt(<<"columns">>, text))
               /\ Prompt(<<"columns">>, text) # <<>>
<1> DEFINE turn == Turn("user", Prompt(<<"columns">>, text))
           before == FewShot \o h
           ms == before \o <<turn>>
<1>1. Prompt(<<"columns">>, text) \in Seq(Word) /\ Prompt(<<"columns">>, text) # <<>>
  <2>1. /\ Prompt(<<"columns">>, text) \in Seq(Word)
        /\ Len(Prompt(<<"columns">>, text)) = 3 + Len(text) /\ Len(text) \in Nat
    BY PromptShape, LenProperties
  <2> QED
    BY <2>1, EmptySeq
<1>2. turn \in Told
  BY <1>1 DEF Turn, Turns, Told
<1>3. FewShot \in Seq(Told) /\ Len(FewShot) \in Nat \ {0}
  <2>1. [role : {"user", "assistant"}, content : Seq(Word) \ {<<>>}] \subseteq Told
    BY DEF Turns, Told
  <2> QED
    BY <2>1, FewShotOpens, SeqMonotonic, EmptySeq
<1>4. 1 \in 1..Len(FewShot) /\ FewShot[1].role = "user" /\ FewShot[1].content # <<>>
  <2>1. 1 \in 1..Len(FewShot)
    BY <1>3
  <2>2. FewShot[1] \in [role : {"user", "assistant"}, content : Seq(Word) \ {<<>>}]
    BY <2>1, FewShotOpens, ElementOfSeq
  <2> QED
    BY <2>1, <2>2, FewShotOpens
<1>5. /\ before \in Seq(Told) /\ Len(before) \in Nat /\ Len(before) = Len(FewShot) + Len(h)
      /\ before[1] = FewShot[1] /\ Len(h) \in Nat
  BY <1>3, <1>4, ConcatProperties, LenProperties
<1> HIDE DEF before, turn
<1>6. ms = Append(before, turn)
  BY <1>2, <1>5, AppendIsConcat
<1> HIDE DEF ms
<1>7. /\ ms \in Seq(Told) /\ ms # <<>> /\ Len(ms) = Len(before) + 1
      /\ \A i \in 1..Len(before) : ms[i] = before[i]
      /\ ms[Len(before) + 1] = turn
  BY <1>2, <1>5, <1>6, AppendProperties
<1>8. ms[1] = FewShot[1] /\ Last(ms) = turn
  <2>1. 1 \in 1..Len(before)
    BY <1>3, <1>5
  <2> QED
    BY <1>5, <1>7, <2>1 DEF Last
<1>9. BaseMessages(FewShot, h, <<"columns">>, text) = ms
  BY DEF BaseMessages, ms, before, turn
<1> QED
  BY <1>1, <1>4, <1>7, <1>8, <1>9 DEF turn

\* A repair prompt opens as before and ends with the error.
LEMMA RepairPrompt ==
    ASSUME NEW ms \in Seq(Turns), ms # <<>>, NEW reply \in Seq(Word)
    PROVE  LET longer == WithRepair(ms, reply)
           IN  /\ longer \in Seq(Turns) /\ longer # <<>> /\ longer[1] = ms[1]
               /\ Last(longer).role = "user" /\ Last(longer).content # <<>>
<1> DEFINE more == <<Turn("assistant", reply), Turn("user", <<"failed">>)>>
<1>1. Turn("assistant", reply) \in Turns /\ Turn("user", <<"failed">>) \in Turns
  BY WordsAreWords DEF Turn, Turns
<1>2. more \in Seq(Turns) /\ Len(more) = 2 /\ more[2] = Turn("user", <<"failed">>)
  BY <1>1
<1> HIDE DEF more
<1> DEFINE longer == ms \o more
<1>3. Len(ms) \in Nat \ {0}
  BY EmptySeq
<1>4. /\ longer \in Seq(Turns) /\ Len(longer) = Len(ms) + 2
      /\ \A i \in 1..Len(ms) + 2 : longer[i] = IF i <= Len(ms) THEN ms[i] ELSE more[i - Len(ms)]
  <2>1. ms \in Seq(Turns) /\ more \in Seq(Turns)
    BY <1>2
  <2>2. /\ ms \o more \in Seq(Turns) /\ Len(ms \o more) = Len(ms) + Len(more)
        /\ \A i \in 1..Len(ms) + Len(more) :
              (ms \o more)[i] = IF i <= Len(ms) THEN ms[i] ELSE more[i - Len(ms)]
    BY ONLY <2>1, ConcatProperties
  <2> QED
    BY ONLY <1>2, <2>2
<1> HIDE DEF longer
<1>5. longer[1] = ms[1] /\ longer[Len(ms) + 2] = Turn("user", <<"failed">>)
  <2>1. /\ 1 \in 1..Len(ms) + 2 /\ 1 <= Len(ms)
        /\ Len(ms) + 2 \in 1..Len(ms) + 2 /\ ~(Len(ms) + 2 <= Len(ms))
        /\ Len(ms) + 2 - Len(ms) = 2
    BY <1>3
  <2> QED
    BY <1>2, <1>4, <2>1
<1>6. longer # <<>>
  BY <1>3, <1>4, EmptySeq
<1>7. Last(longer).role = "user" /\ Last(longer).content # <<>>
  <2>1. Last(longer) = Turn("user", <<"failed">>)
    BY <1>4, <1>5 DEF Last
  <2>2. <<"failed">> # <<>>
    OBVIOUS
  <2> QED
    BY <2>1, <2>2 DEF Turn
<1>8. WithRepair(ms, reply) = longer
  BY DEF WithRepair, longer, more
<1> QED
  BY <1>4, <1>5, <1>6, <1>7, <1>8

\* The history keeps its type, cut to the limit or not.
LEMMA NotedTyped ==
    ASSUME history \in Seq(Told), NEW turn \in Told
    PROVE  Noted(turn) \in Seq(Told)
<1> DEFINE turns == Append(history, turn)
           n == Len(turns)
           limit == 2 * HistoryTurns
<1>1. turns \in Seq(Told) /\ n \in Nat
  BY AppendProperties, LenProperties
<1>2. CASE limit \in 1..n
  <2>1. limit \in Nat
    BY LimitIsNat
  <2> HIDE DEF limit
  <2>2. n - limit + 1 \in Int /\ \A i \in n - limit + 1..n : i \in 1..n
    BY <1>1, <1>2, <2>1
  <2>3. \A i \in n - limit + 1..n : turns[i] \in Told
    BY <1>1, <2>2, ElementOfSeq
  <2> HIDE DEF turns
  <2>4. SubSeq(turns, n - limit + 1, n) \in Seq(Told)
    BY <1>1, <2>2, <2>3, SubSeqProperties
  <2> QED
    BY <1>2, <2>4 DEF Noted, limit, turns
<1>3. CASE ~(limit \in 1..n)
  BY <1>1, <1>3 DEF Noted
<1> QED
  BY <1>2, <1>3

LEMMA RecordingTyped ==
    ASSUME NEW i \in DOMAIN Recordings
    PROVE  /\ Recordings[i].question \in Seq(Word) /\ Recordings[i].reply \in Seq(Word)
           /\ Normalise(Recordings[i].question) \in Seq(Word)
<1>1. Recordings[i] \in [dataset : STRING, question : Seq(Word), reply : Seq(Word)]
  <2> DEFINE R == [dataset : STRING, question : Seq(Word), reply : Seq(Word)]
  <2>1. Recordings \in Seq(R)
    BY RecordingsAreApart
  <2> HIDE DEF R
  <2>2. i \in 1..Len(Recordings)
    BY <2>1, LenProperties
  <2>3. Recordings[i] \in R
    BY <2>1, <2>2, ElementOfSeq
  <2> QED
    BY <2>3 DEF R
<1> QED
  BY <1>1, NormaliseTyped

\* A step keeps what is remembered, prompted and chosen.
LEMMA IInvStep == IInv /\ [Next]_vars => IInv'
<1> SUFFICES ASSUME IInv, [Next]_vars PROVE IInv'
  OBVIOUS
<1> USE DEF IInv
<1>1. CASE UNCHANGED vars
  BY <1>1 DEF vars, chatVars, dataVars, Remembered, Prompted, Chosen, Named, Opened
<1>2. CASE Start
  BY <1>2 DEF Start, chatVars, dataVars, Remembered, Prompted, Chosen, Named, Opened
<1>3. ASSUME NEW f \in Files, LoadFrame(f) PROVE IInv'
  <2>1. f # None
    BY FilesAreFiles
  <2>2. /\ phase' = "naming" /\ file' = f /\ query' = <<>>
        /\ UNCHANGED <<env, page, history>>
    BY <1>3 DEF LoadFrame
  <2>3. Remembered'
    BY <2>2, EmptySeq DEF Remembered
  <2> QED
    BY <2>1, <2>2, <2>3 DEF Prompted, Chosen, Named, Opened
<1>4. CASE LoadName
  BY <1>4 DEF LoadName, Remembered, Prompted, Chosen, Named, Opened
<1>5. CASE LoadHistory
  <2>1. /\ phase' = "idle" /\ history' = <<>> /\ phase = "forgetting"
        /\ UNCHANGED <<env, page, file, name, torn, query>>
    BY <1>5 DEF LoadHistory, dataVars
  <2>2. Remembered'
    BY <2>1, EmptySeq DEF Remembered
  <2> QED
    BY <2>1, <2>2 DEF Prompted, Chosen, Named, Opened
<1>6. ASSUME NEW text \in Texts, Ask(text) PROVE IInv'
  <2>1. /\ file # None /\ phase = "idle"
        /\ phase' = "model" /\ query' = text /\ attempt' = 1
        /\ messages' = BaseMessages(FewShot, history, <<"columns">>, text)
        /\ UNCHANGED <<env, page, file, name, torn, history>>
    BY <1>6 DEF Ask, dataVars
  <2>2. text \in Seq(Word) /\ history \in Seq(Told)
    BY WordsAreWords DEF Remembered
  <2>3. /\ messages' \in Seq(Told) /\ messages' # <<>>
        /\ messages'[1].role = "user" /\ messages'[1].content # <<>>
        /\ Last(messages') = Turn("user", Prompt(<<"columns">>, text))
        /\ Prompt(<<"columns">>, text) # <<>>
    BY <2>1, <2>2, AskedPrompt
  <2>4. messages' \in Seq(Turns)
    BY <2>3, ToldAreTurns
  <2>5. Last(messages').role = "user" /\ Last(messages').content # <<>>
    BY <2>3 DEF Turn
  <2>6. Prompted'
    BY <2>1, <2>3, <2>4, <2>5 DEF Prompted
  <2> QED
    BY <2>1, <2>2, <2>6 DEF Remembered, Chosen, Named, Opened
<1>7. CASE Replayed
  BY <1>7 DEF Replayed, dataVars, Remembered, Prompted, Chosen, Named, Opened
<1>8. CASE Refused \/ CodeWorks \/ CodeGivesUp
  BY <1>8 DEF Refused, CodeWorks, CodeGivesUp, End, dataVars, Remembered, Prompted, Chosen, Named, Opened
<1>9. CASE CodeFails
  <2>1. /\ phase = "execute" /\ phase' = "model" /\ attempt' = attempt + 1
        /\ messages' = WithRepair(messages, used.reply)
        /\ UNCHANGED <<env, page, file, name, torn, history, query>>
    BY <1>9 DEF CodeFails, dataVars
  <2>2. /\ messages \in Seq(Turns) /\ messages # <<>> /\ attempt \in Nat \ {0}
        /\ messages[1].role = "user" /\ messages[1].content # <<>>
    BY <2>1 DEF Prompted
  <2>3. used.reply \in Seq(Word)
    <3>1. \E i \in InScope(Recordings, name) : used = Recordings[i]
      BY <2>1, CompleteRecorded DEF Chosen
    <3> QED
      BY <3>1, RecordingTyped DEF InScope
  <2>4. /\ messages' \in Seq(Turns) /\ messages' # <<>> /\ messages'[1] = messages[1]
        /\ Last(messages').role = "user" /\ Last(messages').content # <<>>
    BY <2>1, <2>2, <2>3, RepairPrompt
  <2>5. attempt' \in Nat \ {0} /\ attempt' # 1
    BY <2>1, <2>2
  <2>6. Prompted'
    BY <2>2, <2>4, <2>5 DEF Prompted
  <2> QED
    BY <2>1, <2>6 DEF Remembered, Chosen, Named, Opened
<1>10. CASE NoteQuestion
  <2>1. /\ phase = "answered" /\ phase' = "noted" /\ history' = Noted(Turn("user", query))
        /\ UNCHANGED <<env, page, file, name, torn, query>>
    BY <1>10 DEF NoteQuestion, dataVars
  <2>2. Turn("user", query) \in Told
    BY DEF Remembered, Turn, Turns, Told
  <2>3. Remembered'
    BY <2>1, <2>2, NotedTyped DEF Remembered
  <2> QED
    BY <2>1, <2>3 DEF Prompted, Chosen, Named, Opened
<1>11. CASE NoteAnswer
  <2>1. /\ phase = "noted" /\ phase' = "idle" /\ history' = Noted(Turn("assistant", <<"answer">>))
        /\ UNCHANGED <<env, page, file, name, torn, query>>
    BY <1>11 DEF NoteAnswer, dataVars
  <2>2. Turn("assistant", <<"answer">>) \in Told
    <3>1. <<"answer">> \in Seq(Word) /\ <<"answer">> # <<>>
      BY WordsAreWords
    <3> QED
      BY <3>1 DEF Turn, Turns, Told
  <2>3. Remembered'
    BY <2>1, <2>2, NotedTyped DEF Remembered
  <2> QED
    BY <2>1, <2>3 DEF Prompted, Chosen, Named, Opened
<1>12. CASE Cut
  BY <1>12 DEF Cut, Remembered, Prompted, Chosen, Named, Opened
<1> QED
  BY <1>1, <1>2, <1>3, <1>6, <1>7, <1>8, <1>9, <1>10, <1>11, <1>12, <1>4, <1>5 DEF Next

\* The invariant holds throughout a session.
THEOREM Invariance == Spec => []IInv
<1>1. Init => IInv
  BY EmptySeq, StartedInEnvironments DEF Init, IInv, Remembered, Prompted, Chosen, Named, Opened
<1>2. IInv /\ [Next]_vars => IInv'
  BY IInvStep
<1> QED
  BY <1>1, <1>2, PTL DEF Spec

\* Recorded code runs only on the dataset it was recorded with, whatever is
\* loaded, asked, repaired and cut in between, unless the last load was cut between
\* the frame and the name.
THEOREM CodeOnItsDataset == Spec => []RunsOnItsDataset
<1>1. IInv => RunsOnItsDataset
  <2> SUFFICES ASSUME IInv, phase = "execute", ~torn PROVE used.dataset = Stem[file]
    BY DEF RunsOnItsDataset
  <2>1. used # NoMatch /\ used = Complete(messages, Recordings, name)
    BY DEF IInv, Chosen
  <2>2. name = Stem[file]
    BY DEF IInv, Named
  <2> QED
    BY <2>1, <2>2, CompleteRecorded
<1> QED
  BY <1>1, Invariance, PTL

\* Every model call gets messages that alternate, begin and end with the user and
\* say all that was said, for any examples, history, cut runs and repairs: what
\* normalize_messages promises Bedrock, whatever the limit of the history.
THEOREM Alternates == Spec => []SentAlternates
<1>1. IInv => SentAlternates
  <2> SUFFICES ASSUME IInv, phase = "model" PROVE SentAlternates
    BY DEF SentAlternates
  <2> DEFINE sent == NormalizeMessages(messages)
  <2>1. /\ messages \in Seq(Turns) /\ messages # <<>>
        /\ messages[1].role = "user" /\ messages[1].content # <<>>
        /\ Last(messages).role = "user" /\ Last(messages).content # <<>>
    BY DEF IInv, Prompted
  <2>2. /\ sent \in Seq(Turns) /\ Alternating(sent) /\ Last(sent).role = "user"
        /\ Words(sent) = Words(messages)
    BY <2>1, Sent
  <2>3. DOMAIN sent = 1..Len(sent)
    BY <2>2, LenProperties
  <2>4. \A i \in DOMAIN sent : sent[i].role = IF i % 2 = 1 THEN "user" ELSE "assistant"
    BY <2>2, <2>3 DEF Alternating
  <2> QED
    BY <2>2, <2>4 DEF SentAlternates
<1> QED
  BY <1>1, Invariance, PTL

\* A plainly asked question with the words of a recorded one gets that recording.
LEMMA RightRecording ==
    ASSUME IInv, phase \in {"model", "execute"}, PlainlyAsked,
           NEW r \in InScope(Recordings, name),
           ToSet(Normalise(query)) = ToSet(Normalise(Recordings[r].question))
    PROVE  Complete(messages, Recordings, name) = Recordings[r]
<1> DEFINE scope == InScope(Recordings, name)
           sent == NormalizeMessages(messages)
           answer == SelectLastInSeq(messages, LAMBDA m : m.role = "assistant")
<1>1. /\ messages \in Seq(Told) /\ messages # <<>> /\ query \in Seq(Word)
      /\ messages[1].role = "user" /\ messages[1].content # <<>>
      /\ Last(messages) = Turn("user", Prompt(<<"columns">>, query))
  BY DEF IInv, Remembered, Prompted, PlainlyAsked
<1>2. \A i \in answer + 1..Len(messages) - 1 : Unmarked(messages[i].content)
  BY DEF PlainlyAsked, Unanswered, Contains, Unmarked
<1>3. LastUser(sent) # 0 /\ ExtractQuestion(sent) = query
  BY <1>1, <1>2, QuestionFound
<1>4. Complete(messages, Recordings, name) = Match(Recordings, scope, query)
  BY <1>3 DEF Complete
<1>5. scope \in SUBSET DOMAIN Recordings /\ r \in scope
  BY DEF InScope
<1>6. /\ Normalise(query) \in Seq(Word)
      /\ \A i \in scope : Normalise(Recordings[i].question) \in Seq(Word)
  BY <1>1, <1>5, NormaliseTyped, RecordingTyped
<1>7. \A i, j \in scope :
         ToSet(Normalise(Recordings[i].question)) = ToSet(Normalise(Recordings[j].question))
           => i = j
  BY RecordingsAreApart DEF InScope
<1> DEFINE R == [dataset : STRING, question : Seq(Word), reply : Seq(Word)]
<1>8. Recordings \in Seq(R)
  BY RecordingsAreApart
<1> HIDE DEF scope, R
<1>9. Match(Recordings, scope, query) = Recordings[r]
  BY <1>5, <1>6, <1>7, <1>8, MatchNotConfused
<1> QED
  BY <1>4, <1>9

\* A recorded question asked word for word gets its own recording, for any
\* recordings that are told apart by their words, any history and any cut runs.
THEOREM RecordedAnswered == Spec => []OwnRecording
<1>1. IInv => OwnRecording
  BY RightRecording DEF OwnRecording
<1> QED
  BY <1>1, Invariance, PTL

\* The code that runs for a question with the words of a recorded one is that
\* recording's and no neighbour's.
THEOREM NeverConfused == Spec => []NoConfusion
<1>1. IInv => NoConfusion
  <2> SUFFICES ASSUME IInv, phase = "execute", PlainlyAsked,
                      NEW i \in InScope(Recordings, used.dataset),
                      ToSet(Normalise(query)) = ToSet(Normalise(Recordings[i].question))
               PROVE  used = Recordings[i]
    BY DEF NoConfusion
  <2>1. used # NoMatch /\ used = Complete(messages, Recordings, name)
    BY DEF IInv, Chosen
  <2>2. used.dataset = name
    BY <2>1, CompleteRecorded
  <2> QED
    BY <2>1, <2>2, RightRecording
<1> QED
  BY <1>1, Invariance, PTL

\* A page is live only if its provider can be called and, but for a missing groq
\* package, constructed, in every environment.
THEOREM LivePage == Spec => []LivePageCanCall
<1>1. IInv => LivePageCanCall
  BY DEF IInv, Opened, LivePageCanCall, Page, Validates, GetProvider, GroqProvider,
         BedrockProvider, Callable, AwsCredentials, Environments
<1> QED
  BY <1>1, Invariance, PTL
=============================================================================
