-------------------------- MODULE Benchmark_proofs --------------------------
(***************************************************************************)
(* The exit code, the files, the fixture and the tables of the benchmark,   *)
(* for any tasks, models and environment, and wherever it is interrupted.   *)
(***************************************************************************)
EXTENDS BenchmarkInv, FiniteSetTheorems, FunctionTheorems, SequenceTheorems, WellFoundedInduction, TLAPS

-----------------------------------------------------------------------------
(* Runs and reports.                                                       *)

\* If no run failed, all passed.
LEMMA NoneFailed ==
    ASSUME NEW S, NEW runs \in Seq(S), Count(runs, LAMBDA run : ~Passed(run)) = 0
    PROVE  Count(runs, Passed) = Len(runs)
<1>1. Len(runs) \in Nat /\ DOMAIN runs = 1..Len(runs)
  BY LenProperties
<1>2. IsFiniteSet(1..Len(runs)) /\ Cardinality(1..Len(runs)) = Len(runs)
  <2>1. 1 \in Int /\ Len(runs) \in Int
    BY <1>1
  <2>2. /\ IsFiniteSet(1..Len(runs))
        /\ Cardinality(1..Len(runs)) = IF 1 > Len(runs) THEN 0 ELSE Len(runs) - 1 + 1
    BY <2>1, FS_Interval
  <2> QED
    BY <1>1, <2>2
<1> DEFINE failed == {i \in DOMAIN runs : ~Passed(runs[i])}
<1>3. Cardinality(failed) = 0
  BY DEF Count
<1>4. IsFiniteSet(failed)
  BY <1>1, <1>2, FS_Subset
<1>5. failed = {}
  BY <1>3, <1>4, FS_EmptySet
<1>6. {i \in DOMAIN runs : Passed(runs[i])} = 1..Len(runs)
  BY <1>1, <1>5
<1> QED
  BY <1>2, <1>6 DEF Count

\* The tasks that were selected are tasks.
LEMMA SelectedTyped ==
    /\ Len(Selected) \in Nat
    /\ \A i \in 1..Len(Selected) : Selected[i] \in ToSet(Tasks) /\ Selected[i].chart \in BOOLEAN
<1>1. Selected \in Seq([id : Nat, dataset : STRING, question : STRING, category : STRING,
                        chart : BOOLEAN])
  BY TasksAreRecords, EmptySeq DEF Selected
<1>2. Len(Selected) \in Nat
  BY <1>1, LenProperties
<1>3. ASSUME NEW i \in 1..Len(Selected)
      PROVE  Selected[i] \in ToSet(Tasks) /\ Selected[i].chart \in BOOLEAN
  <2>1. Selected = Tasks
    <3>1. CASE Selected = <<>>
      <4>1. Len(Selected) = 0
        BY <3>1
      <4> QED
        BY <1>3, <4>1
    <3> QED
      BY <3>1 DEF Selected
  <2>2. i \in DOMAIN Tasks
    BY <1>1, <2>1, LenProperties
  <2>3. Selected[i] \in [id : Nat, dataset : STRING, question : STRING, category : STRING,
                         chart : BOOLEAN]
    BY <1>1, ElementOfSeq
  <2> QED
    BY <2>1, <2>2, <2>3 DEF ToSet
<1> QED
  BY <1>2, <1>3

\* A task adds one run to a report.
LEMMA OneMoreRun ==
    ASSUME NEW report \in Reports, NEW t \in ToSet(Tasks), t.chart \in BOOLEAN,
           NEW r \in AgentResults
    PROVE  /\ WithTask(report, t, r) \in Reports
           /\ Len(WithTask(report, t, r).runs) = Len(report.runs) + 1
<1> DEFINE run == TaskRun(t, r)
           rec == [task : ToSet(Tasks), text : {"none", "right", "wrong", "odd"}, figure : BOOLEAN]
<1>1. run \in TaskRuns
  <2>1. /\ r.failure \in {None, "llm", "rejected", "timeout", "runtime"}
        /\ r.attempts \in 1..MaxAttempts
    BY DEF AgentResults
  <2>2. Score(t, r) \in OutcomeNames
    BY <2>1 DEF Score, OutcomeNames
  <2> QED
    BY <2>2 DEF TaskRun, TaskRuns
<1>2. Recordings(t, r) \in Seq(rec)
  <2>1. [task |-> t, text |-> r.text, figure |-> r.figure] \in rec
    BY DEF AgentResults
  <2> HIDE DEF rec
  <2>2. <<[task |-> t, text |-> r.text, figure |-> r.figure]>> \in Seq(rec)
    BY <2>1
  <2> QED
    BY <2>2, EmptySeq DEF Recordings
<1> HIDE DEF rec, run
<1>3. /\ report.runs \in Seq(TaskRuns) /\ report.recordings \in Seq(rec)
      /\ report = [model |-> report.model, runs |-> report.runs,
                   recordings |-> report.recordings]
      /\ report.model \in Names \cup {"other", "reference"}
  BY DEF Reports, rec
<1>4. /\ Append(report.runs, run) \in Seq(TaskRuns)
      /\ Len(Append(report.runs, run)) = Len(report.runs) + 1
  BY <1>1, <1>3, AppendProperties
<1>5. report.recordings \o Recordings(t, r) \in Seq(rec)
  BY <1>2, <1>3, ConcatProperties
<1>6. WithTask(report, t, r)
        = [model |-> report.model, runs |-> Append(report.runs, run),
           recordings |-> report.recordings \o Recordings(t, r)]
  <2> DEFINE m == report.model
             s == report.runs
             c == report.recordings
  <2>1. report = [model |-> m, runs |-> s, recordings |-> c]
    BY <1>3
  <2> HIDE DEF m, s, c
  <2>2. WithTask(report, t, r)
          = [[model |-> m, runs |-> s, recordings |-> c] EXCEPT
                !.runs = Append(s, run), !.recordings = c \o Recordings(t, r)]
    BY <2>1 DEF WithTask, run
  <2> QED
    BY <2>2 DEF m, s, c
<1> QED
  BY <1>3, <1>4, <1>5, <1>6 DEF Reports, rec

\* A report starts empty.
LEMMA EmptyReport ==
    ASSUME NEW m \in Names \cup {"other", "reference"}
    PROVE  Report(m) \in Reports /\ Len(Report(m).runs) = 0
  BY EmptySeq DEF Report, Reports

\* The models that run have names.
LEMMA SpecsTyped ==
    ASSUME TypeOK
    PROVE  /\ Len(SpecsRun) \in Nat
           /\ \A i \in 1..Len(SpecsRun) : SpecsRun[i] \in Names \cup {"other"}
<1>1. env.provider \in Names \cup {"other"}
  BY DEF TypeOK, Environments
<1>2. SpecsRun \in Seq(Names \cup {"other"})
  <2>1. <<env.provider>> \in Seq(Names \cup {"other"})
    BY <1>1
  <2> QED
    BY <2>1, SpecsAreNames DEF SpecsRun
<1> QED
  BY <1>2, LenProperties, ElementOfSeq
-----------------------------------------------------------------------------
(* The fixture.                                                            *)

\* A set of naturals has a least element.
LEMMA Least ==
    ASSUME NEW I \in SUBSET Nat, I # {}
    PROVE  Min(I) \in I /\ \A j \in I : Min(I) <= j
<1>1. \E i \in I : \A j \in I : i <= j
  <2>1. PICK i \in I : \A j \in I : <<j, i>> \notin OpToRel(<, Nat)
    BY NatLessThanWellFounded, WFMin
  <2>2. \A j \in I : ~(j < i)
    BY <2>1 DEF OpToRel
  <2> QED
    BY <2>2
<1> QED
  BY <1>1 DEF Min

\* In a strict total order of a finite set, how many elements are below one is its
\* place, and every place is taken.
LEMMA Ranked ==
    ASSUME NEW K, IsFiniteSet(K), NEW below \in [K -> SUBSET K],
           \A p \in K : p \notin below[p],
           \A p \in K : \A q \in below[p] : below[q] \subseteq below[p],
           \A p, q \in K : p # q => p \in below[q] \/ q \in below[p]
    PROVE  /\ Cardinality(K) \in Nat
           /\ \A p \in K : Cardinality(below[p]) \in 0..Cardinality(K) - 1
           /\ \A k \in 0..Cardinality(K) - 1 : \E p \in K : Cardinality(below[p]) = k
           /\ \A p, q \in K : Cardinality(below[p]) = Cardinality(below[q]) => p = q
           /\ \A p, q \in K : Cardinality(below[p]) < Cardinality(below[q]) => p \in below[q]
<1> DEFINE n == Cardinality(K)
           rank == [p \in K |-> Cardinality(below[p])]
<1>1. n \in Nat
  BY FS_CardinalityType
<1>2. \A p \in K : IsFiniteSet(below[p]) /\ rank[p] \in Nat
  <2> TAKE p \in K
  <2>1. IsFiniteSet(below[p])
    BY FS_Subset
  <2> QED
    BY <2>1, FS_CardinalityType
<1>3. ASSUME NEW q \in K, NEW p \in below[q]
      PROVE  rank[p] < rank[q]
  <2>1. below[p] \in SUBSET below[q] /\ p \in K
    OBVIOUS
  <2>2. below[q] # below[p]
    BY <2>1
  <2>3. Cardinality(below[p]) <= Cardinality(below[q])
        /\ Cardinality(below[q]) # Cardinality(below[p])
    BY <1>2, <2>1, <2>2, FS_Subset
  <2>4. rank[p] \in Nat /\ rank[q] \in Nat
    BY <1>2, <2>1
  <2> QED
    BY <2>1, <2>3, <2>4
<1>4. \A p \in K : rank[p] \in 0..n - 1
  <2> TAKE p \in K
  <2>1. below[p] \in SUBSET K /\ below[p] # K
    OBVIOUS
  <2>2. Cardinality(below[p]) <= n /\ Cardinality(below[p]) # n
    BY <2>1, FS_Subset
  <2> QED
    BY <1>1, <1>2, <2>2
<1>5. ASSUME NEW p \in K, NEW q \in K, rank[p] < rank[q]
      PROVE  p \in below[q]
  <2>1. rank[p] \in Nat /\ rank[q] \in Nat
    BY <1>2
  <2> HIDE DEF rank
  <2>2. p # q /\ ~(rank[q] < rank[p])
    BY ONLY <1>5, <2>1
  <2> QED
    BY <1>3, <2>2
<1>6. \A p, q \in K : rank[p] = rank[q] => p = q
  <2> SUFFICES ASSUME NEW p \in K, NEW q \in K, p # q PROVE rank[p] # rank[q]
    OBVIOUS
  <2>1. p \in below[q] \/ q \in below[p]
    OBVIOUS
  <2> HIDE DEF rank
  <2>2. rank[p] < rank[q] \/ rank[q] < rank[p]
    BY <1>3, <2>1
  <2>3. rank[p] \in Nat /\ rank[q] \in Nat
    BY <1>2
  <2> QED
    BY ONLY <2>2, <2>3
<1>7. IsFiniteSet(0..n - 1) /\ Cardinality(0..n - 1) = n
  <2>1. 0 \in Int /\ n - 1 \in Int
    BY <1>1
  <2> HIDE DEF n
  <2>2. /\ IsFiniteSet(0..n - 1)
        /\ Cardinality(0..n - 1) = IF 0 > n - 1 THEN 0 ELSE (n - 1) - 0 + 1
    BY <2>1, FS_Interval
  <2> QED
    BY <1>1, <2>2
<1>8. \A k \in 0..n - 1 : \E p \in K : rank[p] = k
  <2>1. rank \in Injection(K, 0..n - 1)
    BY <1>4, <1>6 DEF Injection, IsInjective
  <2> HIDE DEF rank
  <2>2. rank \in Surjection(K, 0..n - 1)
    BY <1>7, <2>1, FS_Injection
  <2> QED
    BY <2>2 DEF Surjection
<1> QED
  BY <1>1, <1>4, <1>5, <1>6, <1>8

\* A place is a report and one of its entries, and the entry is of a task.
LEMMA PlacesTyped ==
    ASSUME reports \in Seq(Reports)
    PROVE  /\ IsFiniteSet(Places)
           /\ \A p : p \in Places <=>
                 /\ p = <<p[1], p[2]>>
                 /\ p[1] \in DOMAIN reports /\ p[2] \in DOMAIN reports[p[1]].recordings
           /\ \A p \in Places : p[1] \in Nat /\ p[2] \in Nat /\ At(p).task.id \in Nat
<1>1. Len(reports) \in Nat /\ DOMAIN reports = 1..Len(reports)
  BY LenProperties
<1> DEFINE recs == [task : ToSet(Tasks), text : {"none", "right", "wrong", "odd"},
                    figure : BOOLEAN]
           Of(m) == reports[m].recordings
           rows == {{m} \X DOMAIN Of(m) : m \in DOMAIN reports}
<1>2. \A m \in DOMAIN reports :
        /\ Of(m) \in Seq(recs) /\ Len(Of(m)) \in Nat /\ DOMAIN Of(m) = 1..Len(Of(m))
        /\ \A i \in DOMAIN Of(m) : Of(m)[i] \in recs
  <2> TAKE m \in DOMAIN reports
  <2>1. reports[m] \in Reports
    BY <1>1, ElementOfSeq
  <2>2. Of(m) \in Seq(recs)
    BY <2>1 DEF Reports
  <2> HIDE DEF Of, recs
  <2>3. Len(Of(m)) \in Nat /\ DOMAIN Of(m) = 1..Len(Of(m))
    BY <2>2, LenProperties
  <2> QED
    BY <2>2, <2>3, ElementOfSeq
<1>3. IsFiniteSet(Places)
  <2>1. \A m \in DOMAIN reports : IsFiniteSet({m} \X DOMAIN Of(m))
    <3> TAKE m \in DOMAIN reports
    <3>1. Len(Of(m)) \in Nat /\ DOMAIN Of(m) = 1..Len(Of(m))
      BY <1>2
    <3> HIDE DEF Of
    <3>2. 1 \in Int /\ Len(Of(m)) \in Int
      BY <3>1
    <3>3. IsFiniteSet(DOMAIN Of(m))
      BY <3>1, <3>2, FS_Interval
    <3>4. IsFiniteSet({m})
      BY FS_Singleton
    <3> QED
      BY <3>3, <3>4, FS_Product
  <2>2. IsFiniteSet(1..Len(reports))
    BY <1>1, FS_Interval
  <2> DEFINE f == [m \in 1..Len(reports) |-> {m} \X DOMAIN Of(m)]
  <2>3. f \in Surjection(1..Len(reports), rows)
    BY <1>1 DEF Surjection
  <2>4. IsFiniteSet(rows)
    <3> HIDE DEF f, rows
    <3> QED
      BY <2>2, <2>3, FS_Surjection
  <2>5. \A T \in rows : IsFiniteSet(T)
    BY <2>1
  <2>6. Places = UNION rows
    BY DEF Places
  <2> HIDE DEF rows
  <2> QED
    BY <2>4, <2>5, <2>6, FS_UNION
<1>4. \A p : p \in Places <=>
        p = <<p[1], p[2]>> /\ p[1] \in DOMAIN reports /\ p[2] \in DOMAIN Of(p[1])
  <2> HIDE DEF Of
  <2>1. Places = UNION {{m} \X DOMAIN Of(m) : m \in DOMAIN reports}
    BY DEF Places, Of
  <2> QED
    BY <2>1
<1>5. \A t \in ToSet(Tasks) : t.id \in Nat
  <2> TAKE t \in ToSet(Tasks)
  <2>1. PICK i \in DOMAIN Tasks : t = Tasks[i]
    BY DEF ToSet
  <2>2. t \in [id : Nat, dataset : STRING, question : STRING, category : STRING,
               chart : BOOLEAN]
    BY <2>1, TasksAreRecords, LenProperties, ElementOfSeq
  <2> QED
    BY <2>2
<1>6. \A p \in Places : p[1] \in Nat /\ p[2] \in Nat /\ At(p).task.id \in Nat
  <2> TAKE p \in Places
  <2>1. p[1] \in DOMAIN reports /\ p[2] \in DOMAIN Of(p[1])
    BY <1>4
  <2>2. p[1] \in Nat /\ p[2] \in Nat
    BY <1>1, <1>2, <2>1
  <2>3. Of(p[1])[p[2]] \in recs
    BY <1>2, <2>1
  <2>4. Of(p[1])[p[2]].task \in ToSet(Tasks)
    BY <2>3
  <2> QED
    BY <1>5, <2>2, <2>4 DEF At
<1> QED
  BY <1>3, <1>4, <1>6 DEF Of

\* The order of the file is a strict total order of the entries that are kept.
LEMMA FileOrder ==
    ASSUME reports \in Seq(Reports)
    PROVE  /\ \A p \in Places : ~Before(p, p) /\ ~Sooner(p, p)
           /\ \A p, q, r \in Places : Before(p, q) /\ Before(q, r) => Before(p, r)
           /\ \A p, q \in Places : p # q => Sooner(p, q) \/ Sooner(q, p)
           /\ \A p, q \in Places : p # q => Before(p, q) \/ Before(q, p)
<1>1. \A p \in Places :
        /\ p = <<p[1], p[2]>> /\ p[1] \in Nat /\ p[2] \in Nat /\ At(p).task.id \in Nat
  BY PlacesTyped
<1>2. \A p, q \in Places : p # q => Sooner(p, q) \/ Sooner(q, p)
  BY <1>1 DEF Sooner
<1>3. \A p \in Places : ~Before(p, p) /\ ~Sooner(p, p)
  BY <1>1 DEF Before, Sooner
<1>4. \A p, q, r \in Places : Before(p, q) /\ Before(q, r) => Before(p, r)
  BY <1>1 DEF Before, Sooner
<1>5. \A p, q \in Places : p # q => Before(p, q) \/ Before(q, p)
  BY <1>1, <1>2 DEF Before
<1> QED
  BY <1>2, <1>3, <1>4, <1>5

\* The file has the kept entries, each once, in its order.
LEMMA EntriesRanked ==
    ASSUME reports \in Seq(Reports)
    PROVE  \E n \in Nat : \E place \in [1..n -> Kept] :
               /\ Entries = [k \in 1..n |-> At(place[k])]
               /\ \A i, j \in 1..n : i < j => Before(place[i], place[j])
               /\ \A p \in Kept : \E k \in 1..n : place[k] = p
<1> DEFINE K == Kept
           below == [p \in K |-> {q \in K : Before(q, p)}]
           n == Cardinality(K)
           place == [k \in 1..n |-> CHOOSE p \in K : Preceding(p) = k - 1]
<1>1. K \subseteq Places /\ IsFiniteSet(K)
  BY PlacesTyped, FS_Subset DEF Kept
<1>2. /\ below \in [K -> SUBSET K]
      /\ \A p, q \in K : q \in below[p] <=> Before(q, p)
      /\ \A p \in K : Preceding(p) = Cardinality(below[p])
  BY DEF Preceding
<1> HIDE DEF below, K
<1>3. /\ \A p \in K : p \notin below[p]
      /\ \A p \in K : \A q \in below[p] : below[q] \subseteq below[p]
      /\ \A p, q \in K : p # q => p \in below[q] \/ q \in below[p]
  BY <1>1, <1>2, FileOrder
<1>4. /\ n \in Nat
      /\ \A p \in K : Cardinality(below[p]) \in 0..n - 1
      /\ \A k \in 0..n - 1 : \E p \in K : Cardinality(below[p]) = k
      /\ \A p, q \in K : Cardinality(below[p]) = Cardinality(below[q]) => p = q
      /\ \A p, q \in K : Cardinality(below[p]) < Cardinality(below[q]) => p \in below[q]
  BY ONLY <1>1, <1>2, <1>3, Ranked
<1>5. Entries = [k \in 1..n |-> At(place[k])]
  BY DEF Entries, K
<1> HIDE DEF n
<1>6. /\ \A p \in K : Preceding(p) \in 0..n - 1
      /\ \A k \in 0..n - 1 : \E p \in K : Preceding(p) = k
      /\ \A p, q \in K : Preceding(p) = Preceding(q) => p = q
      /\ \A p, q \in K : Preceding(p) < Preceding(q) => Before(p, q)
  BY <1>2, <1>4
<1>7. \A k \in 1..n : place[k] \in K /\ Preceding(place[k]) = k - 1
  <2> TAKE k \in 1..n
  <2>1. k - 1 \in 0..n - 1
    BY <1>4
  <2>2. \E p \in K : Preceding(p) = k - 1
    BY <1>6, <2>1
  <2> QED
    BY <2>2
<1>8. place \in [1..n -> K]
  BY <1>7
<1> HIDE DEF place
<1>9. ASSUME NEW i \in 1..n, NEW j \in 1..n, i < j
      PROVE  Before(place[i], place[j])
  <2>1. place[i] \in K /\ place[j] \in K /\ Preceding(place[i]) < Preceding(place[j])
    BY <1>4, <1>7, <1>9
  <2> QED
    BY <1>6, <2>1
<1>10. ASSUME NEW p \in K PROVE \E k \in 1..n : place[k] = p
  <2> DEFINE k == Preceding(p) + 1
  <2>1. k \in 1..n /\ k - 1 = Preceding(p)
    BY <1>4, <1>6
  <2> HIDE DEF k
  <2>2. place[k] \in K /\ Preceding(place[k]) = Preceding(p)
    BY <1>7, <2>1
  <2> QED
    BY <1>6, <2>1, <2>2
<1> QED
  BY <1>4, <1>5, <1>8, <1>9, <1>10 DEF K

\* Of the entries of one question the first is kept.
LEMMA Earliest ==
    ASSUME reports \in Seq(Reports), NEW p \in Places
    PROVE  \E q \in Kept : Key(At(q)) = Key(At(p))
<1> DEFINE Same(m, i) == <<m, i>> \in Places /\ Key(At(<<m, i>>)) = Key(At(p))
           M == {m \in Nat : \E i \in Nat : Same(m, i)}
           m0 == Min(M)
           I == {i \in Nat : Same(m0, i)}
           i0 == Min(I)
<1>1. p[1] \in Nat /\ p[2] \in Nat /\ p = <<p[1], p[2]>>
  BY PlacesTyped
<1>2. p[1] \in M
  BY <1>1
<1>3. m0 \in M /\ \A m \in M : m0 <= m
  <2> HIDE DEF M
  <2>1. M \in SUBSET Nat
    BY DEF M
  <2> QED
    BY <1>2, <2>1, Least
<1>4. I # {} /\ I \in SUBSET Nat
  BY <1>3
<1>5. i0 \in I /\ \A i \in I : i0 <= i
  <2> HIDE DEF I
  <2> QED
    BY <1>4, Least
<1> DEFINE q == <<m0, i0>>
<1>6. q \in Places /\ Key(At(q)) = Key(At(p)) /\ q[1] = m0 /\ q[2] = i0
  BY <1>5
<1>7. m0 \in Nat /\ i0 \in Nat
  BY <1>3, <1>5
<1> HIDE DEF q, m0, i0
<1>8. ASSUME NEW r \in Places, Sooner(r, q), Key(At(r)) = Key(At(p)) PROVE FALSE
  <2>1. r[1] \in Nat /\ r[2] \in Nat /\ r = <<r[1], r[2]>>
    BY PlacesTyped
  <2>2. Same(r[1], r[2])
    BY <1>8, <2>1
  <2>3. r[1] \in M
    BY <2>1, <2>2
  <2>4. m0 <= r[1]
    BY <1>3, <2>3 DEF m0
  <2>5. r[1] = m0 /\ r[2] < i0
    BY <1>6, <1>7, <1>8, <2>1, <2>4 DEF Sooner
  <2>6. r[2] \in I
    BY <2>1, <2>2, <2>5
  <2>7. i0 <= r[2]
    BY <1>5, <2>6 DEF i0
  <2> QED
    BY <1>7, <2>1, <2>5, <2>7
<1>9. q \in Kept
  BY <1>6, <1>8 DEF Kept
<1> QED
  BY <1>6, <1>9

\* What is written is recorded somewhere, in the order of the file, each question
\* once, and of every question.
LEMMA EntriesOwned ==
    ASSUME reports \in Seq(Reports)
    PROVE  /\ \A e \in ToSet(Entries) : \E p \in Kept : e = At(p)
           /\ \A p \in Kept : At(p) \in ToSet(Entries)
           /\ \A i, j \in DOMAIN Entries : i < j =>
                 /\ Entries[i].task.id <= Entries[j].task.id
                 /\ Key(Entries[i]) # Key(Entries[j])
<1>1. PICK n \in Nat : \E place \in [1..n -> Kept] :
        /\ Entries = [k \in 1..n |-> At(place[k])]
        /\ \A i, j \in 1..n : i < j => Before(place[i], place[j])
        /\ \A p \in Kept : \E k \in 1..n : place[k] = p
  BY EntriesRanked
<1>2. PICK place \in [1..n -> Kept] :
        /\ Entries = [k \in 1..n |-> At(place[k])]
        /\ \A i, j \in 1..n : i < j => Before(place[i], place[j])
        /\ \A p \in Kept : \E k \in 1..n : place[k] = p
  BY <1>1
<1>3. DOMAIN Entries = 1..n /\ \A k \in 1..n : Entries[k] = At(place[k]) /\ place[k] \in Kept
  BY <1>2
<1>4. \A e \in ToSet(Entries) : \E p \in Kept : e = At(p)
  BY <1>3 DEF ToSet
<1>5. \A p \in Kept : At(p) \in ToSet(Entries)
  <2> TAKE p \in Kept
  <2>1. PICK k \in 1..n : place[k] = p
    BY <1>2
  <2>2. k \in DOMAIN Entries /\ Entries[k] = At(p)
    BY <1>3, <2>1
  <2> QED
    BY <2>2 DEF ToSet
<1>6. ASSUME NEW i \in 1..n, NEW j \in 1..n, i < j
      PROVE  /\ Entries[i].task.id <= Entries[j].task.id
             /\ Key(Entries[i]) # Key(Entries[j])
  <2> DEFINE p == place[i]
             q == place[j]
  <2>1. /\ p \in Kept /\ q \in Kept /\ Before(p, q)
        /\ Entries[i] = At(p) /\ Entries[j] = At(q)
    BY <1>2, <1>3, <1>6
  <2> HIDE DEF p, q
  <2>2. p \in Places /\ q \in Places
    BY <2>1 DEF Kept
  <2>3. At(p).task.id \in Nat /\ At(q).task.id \in Nat
    BY <2>2, PlacesTyped
  <2>4. At(p).task.id <= At(q).task.id
    BY <2>1, <2>3 DEF Before
  <2>5. p # q
    BY <2>1, <2>2, FileOrder
  <2>6. Sooner(p, q) \/ Sooner(q, p)
    BY <2>2, <2>5, FileOrder
  <2>7. Key(At(p)) # Key(At(q))
    BY <2>1, <2>2, <2>6 DEF Kept
  <2> QED
    BY <2>1, <2>4, <2>7
<1> QED
  BY <1>3, <1>4, <1>5, <1>6

\* The entry of a question is that of the first report to have one.
LEMMA FirstReport ==
    ASSUME reports \in Seq(Reports), NEW p \in Kept, NEW m \in DOMAIN reports,
           Key(At(p)) \in Answered(m), \A n \in 1..m - 1 : Key(At(p)) \notin Answered(n)
    PROVE  At(p) = AnswerOf(m, Key(At(p)))
<1> DEFINE all == reports[m].recordings
           key == Key(At(p))
           I == {i \in 1..Len(all) : Key(all[i]) = key}
<1>1. /\ p \in Places /\ p = <<p[1], p[2]>> /\ p[1] \in DOMAIN reports
      /\ p[2] \in DOMAIN reports[p[1]].recordings /\ p[1] \in Nat /\ p[2] \in Nat
      /\ At(p) = reports[p[1]].recordings[p[2]]
  BY PlacesTyped DEF Kept, At
<1>2. Len(reports) \in Nat /\ DOMAIN reports = 1..Len(reports)
  BY LenProperties
<1>3. Len(all) \in Nat /\ DOMAIN all = 1..Len(all)
  <2>1. reports[m] \in Reports
    BY <1>2, ElementOfSeq
  <2> QED
    BY <2>1, LenProperties DEF Reports
<1> DEFINE c == p[1]
           d == p[2]
<1>4. c = m
  <2>1. ~(c < m)
    <3>1. SUFFICES ASSUME c < m PROVE FALSE
      OBVIOUS
    <3>2. c \in 1..m - 1
      BY <1>1, <1>2, <3>1
    <3>3. key \in Answered(c)
      BY <1>1 DEF ToSet, Answered
    <3> QED
      BY <3>2, <3>3
  <2>2. ~(m < c)
    <3>1. SUFFICES ASSUME m < c PROVE FALSE
      OBVIOUS
    <3>2. PICK i \in DOMAIN all : Key(all[i]) = key
      BY DEF ToSet, Answered
    <3> DEFINE q == <<m, i>>
    <3>3. q[1] = m /\ q[2] = i /\ At(q) = all[i]
      BY DEF At
    <3> HIDE DEF q
    <3>4. q = <<q[1], q[2]>>
      BY <3>3 DEF q
    <3>5. q \in Places
      BY <3>3, <3>4, PlacesTyped
    <3>6. Sooner(q, p)
      BY <3>1, <3>3 DEF Sooner
    <3> QED
      BY <3>2, <3>3, <3>5, <3>6 DEF Kept
  <2> QED
    BY <1>1, <1>2, <2>1, <2>2
<1>5. d \in I /\ At(p) = all[d]
  BY <1>1, <1>3, <1>4
<1>6. ASSUME NEW i \in I, i < d PROVE FALSE
  <2> DEFINE q == <<m, i>>
  <2>1. q[1] = m /\ q[2] = i /\ At(q) = all[i] /\ i \in DOMAIN all /\ Key(all[i]) = key
    BY <1>3 DEF At
  <2> HIDE DEF q
  <2>2. q = <<q[1], q[2]>>
    BY <2>1 DEF q
  <2>3. q \in Places
    BY <2>1, <2>2, PlacesTyped
  <2>4. Sooner(q, p)
    BY <1>4, <1>6, <2>1 DEF Sooner
  <2> QED
    BY <2>1, <2>3, <2>4 DEF Kept
<1>7. Min(I) = d
  <2>1. I \in SUBSET Nat /\ I # {}
    BY <1>5
  <2> HIDE DEF I, d
  <2>2. Min(I) \in I /\ Min(I) <= d
    BY <1>5, <2>1, Least
  <2>3. ~(Min(I) < d)
    BY <1>6, <2>2
  <2>4. Min(I) \in Nat /\ d \in Nat
    BY <1>5, <2>1, <2>2
  <2> QED
    BY ONLY <2>2, <2>3, <2>4
<1>8. SelectInSeq(all, LAMBDA r : Key(r) = key) = Min(I)
  <2>1. I # {}
    BY <1>5
  <2> QED
    BY <2>1 DEF SelectInSeq
<1> QED
  BY <1>5, <1>7, <1>8 DEF AnswerOf

\* The fixture that main writes has every question some model got right, once, with
\* the first answer, in its order.
LEMMA FirstOwnsWritten ==
    ASSUME reports \in Seq(Reports), UNCHANGED reports, fixture' = [state |-> "new", entries |-> Entries]
    PROVE  FirstOwns'
<1>1. /\ fixture'.entries = Entries /\ reports' = reports
      /\ \A m : Answered(m)' = Answered(m)
      /\ \A m, key : AnswerOf(m, key)' = AnswerOf(m, key)
  BY DEF Answered, AnswerOf, SelectInSeq
<1>2. \A i, j \in DOMAIN Entries : i < j =>
        Entries[i].task.id <= Entries[j].task.id /\ Key(Entries[i]) # Key(Entries[j])
  BY EntriesOwned
<1>3. UNION {Answered(m) : m \in DOMAIN reports} = {Key(e) : e \in ToSet(Entries)}
  <2>1. ASSUME NEW m \in DOMAIN reports, NEW x \in ToSet(reports[m].recordings)
        PROVE  \E e \in ToSet(Entries) : Key(x) = Key(e)
    <3>1. PICK i \in DOMAIN reports[m].recordings : x = reports[m].recordings[i]
      BY DEF ToSet
    <3> DEFINE p == <<m, i>>
    <3>2. p[1] = m /\ p[2] = i /\ At(p) = x
      BY <3>1 DEF At
    <3> HIDE DEF p
    <3>3. p = <<p[1], p[2]>>
      BY <3>2 DEF p
    <3>4. p \in Places
      BY <3>2, <3>3, PlacesTyped
    <3>5. PICK q \in Kept : Key(At(q)) = Key(At(p))
      BY <3>4, Earliest
    <3> QED
      BY <3>2, <3>5, EntriesOwned
  <2>2. ASSUME NEW e \in ToSet(Entries)
        PROVE  \E m \in DOMAIN reports : e \in ToSet(reports[m].recordings)
    <3>1. PICK p \in Kept : e = At(p)
      BY EntriesOwned
    <3>2. p[1] \in DOMAIN reports /\ p[2] \in DOMAIN reports[p[1]].recordings
      BY PlacesTyped DEF Kept
    <3> QED
      BY <3>1, <3>2 DEF At, ToSet
  <2> HIDE DEF Entries
  <2> QED
    BY <2>1, <2>2 DEF Answered
<1>4. ASSUME NEW e \in ToSet(Entries), NEW m \in DOMAIN reports,
             Key(e) \in Answered(m), \A n \in 1..m - 1 : Key(e) \notin Answered(n)
      PROVE  e = AnswerOf(m, Key(e))
  <2>1. PICK p \in Kept : e = At(p)
    BY EntriesOwned
  <2> QED
    BY <1>4, <2>1, FirstReport
<1> QED
  BY <1>1, <1>2, <1>3, <1>4 DEF FirstOwns

\* If everything recorded is right, so is the fixture that main writes.
LEMMA FixtureWritten ==
    ASSUME reports \in Seq(Reports), Recorded
    PROVE  \A e \in ToSet(Entries) : Right(e)
<1> TAKE e \in ToSet(Entries)
<1>1. PICK p \in Kept : e = At(p)
  BY EntriesOwned
<1>2. p[1] \in DOMAIN reports /\ p[2] \in DOMAIN reports[p[1]].recordings
  BY PlacesTyped DEF Kept
<1> QED
  BY <1>1, <1>2 DEF At, ToSet, Recorded

\* Of an answer only what the check of its task held for is recorded.
LEMMA RecordsRight ==
    ASSUME NEW report \in Reports, NEW t \in ToSet(Tasks), t.chart \in BOOLEAN,
           NEW r \in AgentResults, \A e \in ToSet(report.recordings) : Right(e)
    PROVE  \A e \in ToSet(WithTask(report, t, r).recordings) : Right(e)
<1> DEFINE x == [task |-> t, text |-> r.text, figure |-> r.figure]
           c == report.recordings
           rec == [task : ToSet(Tasks), text : {"none", "right", "wrong", "odd"}, figure : BOOLEAN]
<1>1. Score(t, r) = "pass" => Right(x)
  <2> SUFFICES ASSUME Score(t, r) = "pass" PROVE Right(x)
    OBVIOUS
  <2>1. /\ r.failure \in {None, "llm", "rejected", "timeout", "runtime"}
        /\ r.text \in {"none", "right", "wrong", "odd"} /\ r.figure \in BOOLEAN
    BY DEF AgentResults
  <2>2. r.failure = None
    BY <2>1 DEF Score
  <2>3. (t.chart => r.figure) /\ Check(t, r.text) = "holds"
    BY <2>1, <2>2 DEF Score
  <2>4. ~t.chart => r.text = "right"
    BY <2>1, <2>3 DEF Check
  <2> QED
    BY <2>3, <2>4 DEF Right
<1>2. WithTask(report, t, r).recordings = c \o Recordings(t, r)
  BY DEF WithTask, Reports
<1>3. c \in Seq(rec) /\ x \in rec
  BY DEF Reports, AgentResults
<1> HIDE DEF c, x, rec
<1>4. CASE Score(t, r) = "pass" /\ r.raw
  <2>1. Recordings(t, r) = <<x>>
    BY <1>4 DEF Recordings, x
  <2>2. \A e \in ToSet(c \o <<x>>) : e \in ToSet(c) \/ e = x
    BY <1>3 DEF ToSet
  <2> QED
    BY <1>1, <1>2, <1>4, <2>1, <2>2 DEF c
<1>5. CASE ~(Score(t, r) = "pass" /\ r.raw)
  <2>1. Recordings(t, r) = <<>>
    BY <1>5 DEF Recordings
  <2>2. c \o <<>> = c
    BY <1>3
  <2> QED
    BY <1>2, <2>1, <2>2 DEF c
<1> QED
  BY <1>4, <1>5

\* A report starts with nothing recorded.
LEMMA NoneRecorded ==
    ASSUME NEW m
    PROVE  \A e \in ToSet(Report(m).recordings) : Right(e)
  BY DEF Report, ToSet

-----------------------------------------------------------------------------
(* What the steps do to the reports.                                       *)

\* One more reference has been checked.
LEMMA VerifyDoes ==
    ASSUME TypeOK, Complete, VerifyTask
    PROVE  /\ reports' \in Seq(Reports) /\ Len(reports') = 1
           /\ Len(reports'[1].runs) = task
           /\ pc = "verify" /\ pc' = "verify" /\ task' = task + 1 /\ task <= Len(Selected)
           /\ worker' \in BOOLEAN /\ UNCHANGED <<env, args, spec, csv, md, fixture, exit>>
           /\ Recorded => Recorded'
<1> DEFINE x == IF reports = <<>> THEN Report("reference") ELSE reports[1]
<1>1. PICK r \in AgentResults : reports' = <<WithTask(x, Selected[task], r)>>
  BY DEF VerifyTask
<1>2. /\ pc = "verify" /\ pc' = "verify" /\ task' = task + 1 /\ task <= Len(Selected)
      /\ worker' \in BOOLEAN /\ UNCHANGED <<env, args, spec, csv, md, fixture, exit>>
  BY DEF VerifyTask, files
<1>3. x \in Reports /\ Len(x.runs) = task - 1
  <2>1. CASE reports = <<>>
    BY <1>2, <2>1, EmptyReport DEF Complete
  <2>2. CASE reports # <<>>
    <3>1. reports \in Seq(Reports)
      BY DEF TypeOK
    <3>2. 1 \in 1..Len(reports) /\ DOMAIN reports = 1..Len(reports)
      BY <2>2, <3>1, EmptySeq, LenProperties
    <3> QED
      BY <1>2, <2>2, <3>1, <3>2, ElementOfSeq DEF Complete, Ran
  <2> QED
    BY <2>1, <2>2
<1>4. task \in 1..Len(Selected) /\ Selected[task] \in ToSet(Tasks)
        /\ Selected[task].chart \in BOOLEAN
  BY <1>2, SelectedTyped DEF TypeOK
<1> DEFINE y == WithTask(x, Selected[task], r)
<1>8. Recorded => \A e \in ToSet(x.recordings) : Right(e)
  <2>1. CASE reports = <<>>
    BY <2>1, NoneRecorded
  <2>2. CASE reports # <<>>
    <3>1. 1 \in DOMAIN reports
      BY <2>2, EmptySeq, LenProperties DEF TypeOK
    <3> QED
      BY <2>2, <3>1 DEF Recorded
  <2> QED
    BY <2>1, <2>2
<1> HIDE DEF x
<1>5. y \in Reports /\ Len(y.runs) = Len(x.runs) + 1
  BY <1>3, <1>4, OneMoreRun
<1>9. Recorded => \A e \in ToSet(y.recordings) : Right(e)
  BY <1>3, <1>4, <1>8, RecordsRight
<1> HIDE DEF y
<1>6. <<y>> \in Seq(Reports) /\ Len(<<y>>) = 1 /\ <<y>>[1] = y
  BY <1>5
<1>7. Len(y.runs) = task
  BY <1>3, <1>4, <1>5
<1>10. reports' = <<y>>
  BY <1>1 DEF y
<1>11. Recorded => Recorded'
  BY <1>6, <1>9, <1>10 DEF Recorded
<1> QED
  BY <1>2, <1>6, <1>7, <1>10, <1>11

\* A model that could be constructed starts a report.
LEMMA ConstructDoes ==
    ASSUME TypeOK, Construct
    PROVE  /\ reports' \in Seq(Reports) /\ Len(reports) \in Nat
           /\ Len(reports') = Len(reports) + 1
           /\ \A i \in 1..Len(reports) : reports'[i] = reports[i]
           /\ Len(reports'[Len(reports) + 1].runs) = 0
           /\ pc = "construct" /\ pc' = "tasks" /\ task' = 1
           /\ UNCHANGED <<env, args, spec, csv, md, fixture, worker, exit>>
           /\ Recorded => Recorded'
<1>1. /\ reports' = Append(reports, Report(SpecsRun[spec])) /\ spec <= Len(SpecsRun)
      /\ pc = "construct" /\ pc' = "tasks" /\ task' = 1
      /\ UNCHANGED <<env, args, spec, csv, md, fixture, worker, exit>>
  BY DEF Construct, Goto, files
<1>2. spec \in 1..Len(SpecsRun)
  BY <1>1, SpecsTyped DEF TypeOK
<1>3. Report(SpecsRun[spec]) \in Reports /\ Len(Report(SpecsRun[spec]).runs) = 0
  BY <1>2, SpecsTyped, EmptyReport
<1>4. reports \in Seq(Reports) /\ Len(reports) \in Nat
  BY LenProperties DEF TypeOK
<1> DEFINE x == Report(SpecsRun[spec])
<1>6. \A e \in ToSet(x.recordings) : Right(e)
  BY NoneRecorded
<1> HIDE DEF x
<1>5. /\ Append(reports, x) \in Seq(Reports) /\ Len(Append(reports, x)) = Len(reports) + 1
      /\ \A i \in 1..Len(reports) : Append(reports, x)[i] = reports[i]
      /\ Append(reports, x)[Len(reports) + 1] = x
  BY <1>3, <1>4, AppendProperties DEF x
<1>7. /\ DOMAIN reports = 1..Len(reports)
      /\ DOMAIN Append(reports, x) = 1..Len(reports) + 1
  BY <1>4, <1>5, LenProperties
<1>8. Recorded => Recorded'
  <2> SUFFICES ASSUME Recorded, NEW m \in DOMAIN reports'
               PROVE  \A e \in ToSet(reports'[m].recordings) : Right(e)
    BY DEF Recorded
  <2>1. CASE m = Len(reports) + 1
    BY <1>1, <1>5, <1>6, <2>1 DEF x
  <2>2. CASE m \in 1..Len(reports)
    BY <1>1, <1>5, <1>7, <2>2 DEF Recorded, x
  <2> QED
    BY <1>1, <1>4, <1>7, <2>1, <2>2 DEF x
<1> QED
  BY <1>1, <1>3, <1>4, <1>5, <1>8 DEF x

\* A task adds a run to the last report.
LEMMA RunDoes ==
    ASSUME TypeOK, Complete, RunTask
    PROVE  /\ reports' \in Seq(Reports) /\ Len(reports) \in Nat \ {0}
           /\ Len(reports') = Len(reports)
           /\ \A i \in 1..Len(reports) - 1 : reports'[i] = reports[i]
           /\ Len(reports'[Len(reports)].runs) = task
           /\ pc = "tasks" /\ pc' = "tasks" /\ task' = task + 1 /\ task <= Len(Selected)
           /\ worker' \in BOOLEAN /\ UNCHANGED <<env, args, spec, csv, md, fixture, exit>>
           /\ Recorded => Recorded'
<1> DEFINE n == Len(reports)
<1>1. PICK r \in AgentResults :
        /\ reports' = [reports EXCEPT ![n] = WithTask(@, Selected[task], r)]
        /\ worker' = (worker \/ r.code)
  BY DEF RunTask, ResultsOf
<1>2. /\ pc = "tasks" /\ pc' = "tasks" /\ task' = task + 1 /\ task <= Len(Selected)
      /\ UNCHANGED <<env, args, spec, csv, md, fixture, exit>>
  BY DEF RunTask, files
<1>3. reports \in Seq(Reports) /\ n \in Nat \ {0}
  BY <1>2, EmptySeq DEF TypeOK, Complete
<1>4. n \in 1..n
  BY <1>3
<1>5. reports[n] \in Reports /\ Len(reports[n].runs) = task - 1
  BY <1>2, <1>3, <1>4, ElementOfSeq DEF Complete, Ran
<1>6. task \in 1..Len(Selected) /\ Selected[task] \in ToSet(Tasks)
        /\ Selected[task].chart \in BOOLEAN
  BY <1>2, SelectedTyped DEF TypeOK
<1> DEFINE y == WithTask(reports[n], Selected[task], r)
<1>7. y \in Reports /\ Len(y.runs) = Len(reports[n].runs) + 1
  BY <1>5, <1>6, OneMoreRun
<1>8. reports' = [reports EXCEPT ![n] = y]
  BY <1>1
<1>14. DOMAIN reports = 1..n
  BY <1>3, LenProperties
<1>15. Recorded => \A e \in ToSet(y.recordings) : Right(e)
  <2> SUFFICES ASSUME Recorded PROVE \A e \in ToSet(y.recordings) : Right(e)
    OBVIOUS
  <2>1. \A e \in ToSet(reports[n].recordings) : Right(e)
    BY <1>4, <1>14 DEF Recorded
  <2> HIDE DEF n
  <2> QED
    BY <1>5, <1>6, <2>1, RecordsRight
<1> HIDE DEF n, y
<1>9. /\ [reports EXCEPT ![n] = y] \in Seq(Reports) /\ Len([reports EXCEPT ![n] = y]) = n
      /\ \A j \in 1..n : [reports EXCEPT ![n] = y][j] = IF j = n THEN y ELSE reports[j]
  BY <1>3, <1>4, <1>7, ExceptSeq DEF n
<1>10. Len(y.runs) = task
  BY <1>5, <1>6, <1>7
<1>11. /\ reports' \in Seq(Reports) /\ Len(reports') = n
       /\ \A j \in 1..n : reports'[j] = IF j = n THEN y ELSE reports[j]
  BY <1>8, <1>9
<1>12. reports'[n] = y /\ \A i \in 1..n - 1 : reports'[i] = reports[i]
  BY <1>3, <1>4, <1>11
<1>13. worker' \in BOOLEAN
  BY <1>1
<1>16. Recorded => Recorded'
  <2> SUFFICES ASSUME Recorded, NEW m \in DOMAIN reports'
               PROVE  \A e \in ToSet(reports'[m].recordings) : Right(e)
    BY DEF Recorded
  <2>1. m \in 1..n
    BY <1>11, LenProperties
  <2>2. CASE m = n
    BY <1>12, <1>15, <2>2
  <2>3. CASE m # n
    BY <1>11, <1>14, <2>1, <2>3 DEF Recorded
  <2> QED
    BY <2>2, <2>3
<1> QED
  BY <1>2, <1>3, <1>10, <1>11, <1>12, <1>13, <1>16 DEF n
-----------------------------------------------------------------------------
(* Every step preserves the invariant.                                     *)

\* The steps that leave the reports alone.
Controls == Begin \/ UnknownTask \/ SkipModel \/ ModelDone \/ AllModels

Writes == OpenCsv \/ WriteCsv \/ WriteMarkdown \/ OpenFixture

Finishes == Verified \/ NoModels \/ NoRows \/ WriteFixture \/ NoFixture \/ Interrupt

\* Every step is one of these, or one that changes the reports.
LEMMA Steps ==
    ASSUME [Next]_vars
    PROVE  UNCHANGED vars \/ Controls \/ Writes \/ Finishes \/ VerifyTask \/ Construct \/ RunTask
  BY DEF Next, Controls, Writes, Finishes

\* What ends main leaves the reports as they are and the worker shut down.
LEMMA FinishDoes ==
    ASSUME Finishes
    PROVE  /\ pc \notin {"start", "ended"} /\ pc' = "ended" /\ exit' \in {0, 1} /\ ~worker'
           /\ worker' \in BOOLEAN /\ UNCHANGED <<env, args, spec, task, reports>>
           /\ exit' = 0 =>
                 \/ pc = "verify" /\ task > Len(Selected) /\ ~(Failures > 0)
                    /\ UNCHANGED <<csv, md, fixture>>
                 \/ pc = "fixture" /\ fixture'.state = "new" /\ UNCHANGED <<csv, md>>
                 \/ pc = "record" /\ ~args.record /\ UNCHANGED <<csv, md, fixture>>
<1> USE DEF Finish, files
<1> 0 # 1
  OBVIOUS
<1>1. CASE Verified
  <2>1. /\ pc = "verify" /\ pc' = "ended" /\ task > Len(Selected) /\ worker' = FALSE
        /\ exit' = IF Failures > 0 THEN 1 ELSE 0
        /\ UNCHANGED <<env, args, spec, task, reports, csv, md, fixture>>
    BY <1>1 DEF Verified
  <2> HIDE DEF Finish, files
  <2> QED
    BY <2>1
<1>2. CASE NoModels \/ NoRows
  BY <1>2 DEF NoModels, NoRows
<1>3. CASE WriteFixture
  BY <1>3 DEF WriteFixture
<1>4. CASE NoFixture
  BY <1>4 DEF NoFixture
<1>5. CASE Interrupt
  BY <1>5 DEF Interrupt
<1> QED
  BY <1>1, <1>2, <1>3, <1>4, <1>5 DEF Finishes

\* Types.
LEMMA TypeStep == TypeOK /\ Complete /\ [Next]_vars => TypeOK'
<1> SUFFICES ASSUME TypeOK, Complete, [Next]_vars PROVE TypeOK'
  OBVIOUS
<1>1. CASE UNCHANGED vars
  BY <1>1 DEF vars, TypeOK
<1>2. CASE Controls
  BY <1>2 DEF Controls, Begin, UnknownTask, SkipModel, ModelDone, AllModels, Goto, TypeOK
<1>3. CASE Writes
  BY <1>3 DEF Writes, OpenCsv, WriteCsv, WriteMarkdown, OpenFixture, Goto, TypeOK
<1>4. CASE Finishes
  BY <1>4, FinishDoes DEF TypeOK
<1>5. CASE VerifyTask
  BY <1>5, VerifyDoes DEF TypeOK
<1>6. CASE Construct
  BY <1>6, ConstructDoes DEF TypeOK
<1>7. CASE RunTask
  BY <1>7, RunDoes DEF TypeOK
<1> QED
  BY <1>1, <1>2, <1>3, <1>4, <1>5, <1>6, <1>7, Steps

\* The worker is shut down with main.
LEMMA OwnedStep == TypeOK /\ Complete /\ Owned /\ [Next]_vars => Owned'
<1> SUFFICES ASSUME TypeOK, Complete, Owned, [Next]_vars PROVE Owned'
  OBVIOUS
<1>1. CASE UNCHANGED vars
  BY <1>1 DEF vars, Owned
<1>2. CASE Controls
  BY <1>2, NoneIsNoCode DEF Controls, Begin, UnknownTask, SkipModel, ModelDone, AllModels,
       Goto, Owned
<1>3. CASE Writes
  BY <1>3 DEF Writes, OpenCsv, WriteCsv, WriteMarkdown, OpenFixture, Goto, Owned
<1>4. CASE Finishes
  BY <1>4, FinishDoes, NoneIsNoCode DEF Owned
<1>5. CASE VerifyTask
  BY <1>5, VerifyDoes DEF Owned
<1>6. CASE Construct
  BY <1>6, ConstructDoes DEF Owned
<1>7. CASE RunTask
  BY <1>7, RunDoes DEF Owned
<1> QED
  BY <1>1, <1>2, <1>3, <1>4, <1>5, <1>6, <1>7, Steps

\* The files are written in their order, each only if it was asked for.
LEMMA WrittenStep == TypeOK /\ Complete /\ Written /\ [Next]_vars => Written'
<1> SUFFICES ASSUME TypeOK, Complete, Written, [Next]_vars PROVE Written'
  OBVIOUS
<1>1. CASE UNCHANGED vars
  BY <1>1 DEF vars, files, Written
<1>2. CASE Controls
  BY <1>2 DEF Controls, Begin, UnknownTask, SkipModel, ModelDone, AllModels, Goto, files, Written
<1>3. CASE Writes
  BY <1>3 DEF Writes, OpenCsv, WriteCsv, WriteMarkdown, OpenFixture, Goto, Written
<1>4. CASE Finishes
  BY <1>4, FinishDoes DEF Written
<1>5. CASE VerifyTask
  BY <1>5, VerifyDoes DEF Written
<1>6. CASE Construct
  BY <1>6, ConstructDoes DEF Written
<1>7. CASE RunTask
  BY <1>7, RunDoes DEF Written
<1> QED
  BY <1>1, <1>2, <1>3, <1>4, <1>5, <1>6, <1>7, Steps

\* A report is done before the next one is started.
LEMMA CompleteStep == TypeOK /\ Complete /\ [Next]_vars => Complete'
<1> SUFFICES ASSUME TypeOK, Complete, [Next]_vars PROVE Complete'
  OBVIOUS
<1>1. reports \in Seq(Reports) /\ Len(reports) \in Nat /\ DOMAIN reports = 1..Len(reports)
  BY LenProperties DEF TypeOK
<1>2. Len(Selected) \in Nat /\ task \in Nat \ {0}
  BY SelectedTyped DEF TypeOK
<1>3. args' = args => Selected' = Selected
  BY DEF Selected
<1>4. CASE UNCHANGED vars
  BY <1>3, <1>4 DEF vars, Complete, Ran
<1>5. CASE Begin \/ UnknownTask
  BY <1>1, <1>2, <1>3, <1>5 DEF Begin, UnknownTask, Goto, Complete, Ran
<1>6. CASE SkipModel \/ AllModels
  BY <1>1, <1>2, <1>3, <1>6 DEF SkipModel, AllModels, Goto, Complete, Ran
<1>7. CASE ModelDone
  <2>1. /\ pc = "tasks" /\ pc' = "construct" /\ task > Len(Selected)
        /\ UNCHANGED <<args, task, reports>>
    BY <1>7 DEF ModelDone, Goto
  <2>2. task - 1 = Len(Selected)
    BY <1>2, <2>1 DEF Complete
  <2>3. ASSUME NEW i \in DOMAIN reports PROVE Ran(i, Len(Selected))
    <3>1. CASE i = Len(reports)
      BY <2>1, <2>2, <3>1 DEF Complete
    <3>2. CASE i # Len(reports)
      <4>1. i \in 1..Len(reports) - 1
        BY <1>1, <3>2
      <4> QED
        BY <2>1, <4>1 DEF Complete
    <3> QED
      BY <3>1, <3>2
  <2> QED
    BY <1>3, <2>1, <2>3 DEF Complete, Ran
<1>8. CASE Writes
  BY <1>3, <1>8 DEF Writes, OpenCsv, WriteCsv, WriteMarkdown, OpenFixture, Goto, Complete, Ran
<1>9. CASE Finishes
  BY <1>9, FinishDoes DEF Complete
<1>10. CASE VerifyTask
  <2>1. /\ reports' \in Seq(Reports) /\ Len(reports') = 1 /\ Len(reports'[1].runs) = task
        /\ pc = "verify" /\ pc' = "verify" /\ task' = task + 1 /\ task <= Len(Selected)
        /\ args' = args
    BY <1>10, VerifyDoes
  <2>2. reports' # <<>>
    BY <2>1, EmptySeq
  <2>3. DOMAIN reports' = 1..Len(reports')
    BY ONLY <2>1, LenProperties
  <2>4. DOMAIN reports' = {1}
    BY <2>1, <2>3
  <2> QED
    BY <1>2, <1>3, <2>1, <2>2, <2>4 DEF Complete, Ran
<1>11. CASE Construct
  <2>1. /\ reports' \in Seq(Reports) /\ Len(reports') = Len(reports) + 1
        /\ \A i \in 1..Len(reports) : reports'[i] = reports[i]
        /\ Len(reports'[Len(reports) + 1].runs) = 0
        /\ pc = "construct" /\ pc' = "tasks" /\ task' = 1 /\ args' = args
    BY <1>11, ConstructDoes
  <2>2. reports' # <<>> /\ Len(reports') - 1 = Len(reports)
    BY <1>1, <2>1, EmptySeq
  <2> QED
    BY <1>1, <1>2, <1>3, <2>1, <2>2 DEF Complete, Ran
<1>12. CASE RunTask
  <2>1. /\ reports' \in Seq(Reports) /\ Len(reports) # 0 /\ Len(reports') = Len(reports)
        /\ \A i \in 1..Len(reports) - 1 : reports'[i] = reports[i]
        /\ Len(reports'[Len(reports)].runs) = task
        /\ pc = "tasks" /\ pc' = "tasks" /\ task' = task + 1 /\ task <= Len(Selected)
        /\ args' = args
    BY <1>12, RunDoes
  <2>2. reports' # <<>>
    BY <2>1, EmptySeq
  <2> QED
    BY <1>2, <1>3, <2>1, <2>2 DEF Complete, Ran
<1> QED
  BY <1>4, <1>5, <1>6, <1>7, <1>8, <1>9, <1>10, <1>11, <1>12, Steps DEF Controls

\* Exit code 0 is returned only when everything that was asked for is there.
LEMMA ExitStep ==
    TypeOK /\ Complete /\ Written /\ Owned /\ ExitTruthful /\ [Next]_vars => ExitTruthful'
<1> SUFFICES ASSUME TypeOK, Complete, Written, Owned, ExitTruthful, [Next]_vars
             PROVE  ExitTruthful'
  OBVIOUS
<1>1. ASSUME exit' = None PROVE ExitTruthful'
  BY <1>1, NoneIsNoCode DEF ExitTruthful
<1>2. CASE UNCHANGED vars
  BY <1>2 DEF vars, files, ExitTruthful, Selected
<1>3. CASE UnknownTask
  BY <1>3 DEF UnknownTask, Goto, Owned, ExitTruthful
<1>4. CASE Begin \/ SkipModel \/ ModelDone \/ AllModels
  BY <1>1, <1>4 DEF Begin, SkipModel, ModelDone, AllModels, Goto, Owned
<1>5. CASE Writes
  BY <1>1, <1>5 DEF Writes, OpenCsv, WriteCsv, WriteMarkdown, OpenFixture, Goto, Owned
<1>6. CASE VerifyTask \/ Construct \/ RunTask
  BY <1>1, <1>6, VerifyDoes, ConstructDoes, RunDoes DEF Owned
<1>7. CASE Finishes
  <2>1. ~worker' /\ UNCHANGED <<args, reports>>
    BY <1>7, FinishDoes
  <2>2. CASE exit' # 0
    BY <2>1, <2>2 DEF ExitTruthful
  <2>3. CASE exit' = 0
    <3>1. CASE pc = "verify"
      <4>1. /\ task > Len(Selected) /\ ~(Failures > 0) /\ UNCHANGED <<csv, md, fixture>>
        BY <1>7, <2>3, <3>1, FinishDoes
      <4>2. /\ args.verify /\ Len(reports) <= 1 /\ task = Len(Selected) + 1
            /\ \A i \in DOMAIN reports : Len(reports[i].runs) = task - 1
        BY <3>1, <4>1, SelectedTyped DEF Complete, Ran, TypeOK
      <4>3. ASSUME NEW i \in DOMAIN reports
            PROVE  /\ Len(reports[i].runs) = Len(Selected)
                   /\ Count(reports[i].runs, Passed) = Len(Selected)
        <5>1. reports \in Seq(Reports) /\ DOMAIN reports = 1..Len(reports) /\ Len(reports) \in Nat
          BY LenProperties DEF TypeOK
        <5>2. i = 1 /\ reports # <<>>
          BY <4>2, <5>1
        <5>3. reports[1] \in Reports
          BY <5>1, <5>2, ElementOfSeq
        <5>4. reports[1].runs \in Seq(TaskRuns) /\ Len(reports[1].runs) = Len(Selected)
          BY <4>2, <5>2, <5>3, SelectedTyped DEF Reports
        <5>5. Count(reports[1].runs, LAMBDA run : ~Passed(run)) = 0
          <6> DEFINE failed == {j \in DOMAIN reports[1].runs : ~Passed(reports[1].runs[j])}
          <6>1. Len(reports[1].runs) \in Nat /\ DOMAIN reports[1].runs = 1..Len(reports[1].runs)
            BY <5>4, LenProperties
          <6>2. IsFiniteSet(1..Len(reports[1].runs))
            <7>1. 1 \in Int /\ Len(reports[1].runs) \in Int
              BY <6>1
            <7> QED
              BY <7>1, FS_Interval
          <6>3. Cardinality(failed) \in Nat
            BY <6>1, <6>2, FS_Subset, FS_CardinalityType
          <6>4. Failures = Cardinality(failed)
            BY <5>2 DEF Failures, Count
          <6> QED
            BY <4>1, <6>3, <6>4 DEF Count
        <5> QED
          BY <5>2, <5>4, <5>5, NoneFailed
      <4>4. csv' = "old" /\ md' = "old" /\ fixture'.state = "old"
        BY <3>1, <4>1 DEF Written
      <4>5. Selected' = Selected
        BY <2>1 DEF Selected
      <4>6. \A i \in DOMAIN reports : Count(reports[i].runs, Passed)' = Len(Selected)
        BY <2>1, <4>3 DEF Count, Passed
      <4> QED
        BY <2>1, <4>2, <4>3, <4>4, <4>5, <4>6 DEF ExitTruthful, Count, Passed
    <3>2. CASE pc = "fixture" \/ pc = "record"
      <4>1. /\ ~args.verify /\ reports # <<>>
            /\ \A i \in DOMAIN reports : Len(reports[i].runs) = Len(Selected)
            /\ csv = (IF args.write THEN "new" ELSE "old") /\ md = csv
        BY <3>2 DEF Complete, Ran, Written
      <4>2. /\ UNCHANGED <<csv, md>>
            /\ fixture'.state = IF args.record THEN "new" ELSE "old"
        BY <1>7, <2>3, <3>2, FinishDoes DEF Written
      <4>3. Selected' = Selected
        BY <2>1 DEF Selected
      <4>4. {csv, md} = {IF args.write THEN "new" ELSE "old"}
        BY <4>1
      <4> QED
        BY <2>1, <4>1, <4>2, <4>3, <4>4 DEF ExitTruthful
    <3> QED
      BY <1>7, <2>3, <3>1, <3>2, FinishDoes
  <2> QED
    BY <2>2, <2>3
<1> QED
  BY <1>2, <1>3, <1>4, <1>5, <1>6, <1>7, Steps DEF Controls

\* Nothing is recorded that is not right.
LEMMA RecordedStep == TypeOK /\ Complete /\ Recorded /\ [Next]_vars => Recorded'
<1> SUFFICES ASSUME TypeOK, Complete, Recorded, [Next]_vars PROVE Recorded'
  OBVIOUS
<1>1. CASE UNCHANGED vars \/ Controls
  <2>1. UNCHANGED reports
    BY <1>1 DEF vars, Controls, Begin, UnknownTask, SkipModel, ModelDone, AllModels
  <2> QED
    BY <2>1 DEF Recorded
<1>2. CASE Writes \/ Finishes
  <2>1. UNCHANGED reports
    BY <1>2, FinishDoes DEF Writes, OpenCsv, WriteCsv, WriteMarkdown, OpenFixture
  <2> QED
    BY <2>1 DEF Recorded
<1> QED
  BY <1>1, <1>2, VerifyDoes, ConstructDoes, RunDoes, Steps

\* The reports change only while the fixture is the old one.
LEMMA FixtureSteps ==
    ASSUME TypeOK, Complete, Written, [Next]_vars
    PROVE  \/ UNCHANGED <<fixture, reports>>
           \/ UNCHANGED fixture /\ fixture.state = "old"
           \/ fixture' = [state |-> "broken", entries |-> <<>>]
           \/ UNCHANGED reports /\ fixture' = [state |-> "new", entries |-> Entries]
<1>1. CASE UNCHANGED vars \/ Controls
  BY <1>1 DEF vars, files, Controls, Begin, UnknownTask, SkipModel, ModelDone, AllModels
<1>2. CASE Writes
  BY <1>2 DEF Writes, OpenCsv, WriteCsv, WriteMarkdown, OpenFixture
<1>3. CASE Finishes
  BY <1>3 DEF Finishes, Verified, NoModels, NoRows, WriteFixture, NoFixture, Interrupt, files
<1>4. CASE VerifyTask
  BY <1>4, VerifyDoes DEF Written
<1>5. CASE Construct
  BY <1>5, ConstructDoes DEF Written
<1>6. CASE RunTask
  BY <1>6, RunDoes DEF Written
<1> QED
  BY <1>1, <1>2, <1>3, <1>4, <1>5, <1>6, Steps

\* What the demo can read is right.
LEMMA VerifiedStep ==
    TypeOK /\ Complete /\ Written /\ Recorded /\ FixtureVerified /\ [Next]_vars => FixtureVerified'
<1> SUFFICES ASSUME TypeOK, Complete, Written, Recorded, FixtureVerified, [Next]_vars
             PROVE  FixtureVerified'
  OBVIOUS
<1>1. CASE UNCHANGED fixture
  BY <1>1 DEF FixtureVerified, LoadRecordings
<1>2. CASE fixture' = [state |-> "broken", entries |-> <<>>]
  BY <1>2 DEF FixtureVerified, LoadRecordings, ToSet
<1>3. CASE fixture' = [state |-> "new", entries |-> Entries]
  <2>1. LoadRecordings' = Entries
    BY <1>3 DEF LoadRecordings
  <2>2. \A e \in ToSet(Entries) : Right(e)
    BY FixtureWritten DEF TypeOK
  <2> HIDE DEF Entries
  <2> QED
    BY <2>1, <2>2 DEF FixtureVerified, Right
<1> QED
  BY <1>1, <1>2, <1>3, FixtureSteps

\* The first right answer is the one on file.
LEMMA OwnsStep ==
    TypeOK /\ Complete /\ Written /\ FirstOwns /\ [Next]_vars => FirstOwns'
<1> SUFFICES ASSUME TypeOK, Complete, Written, FirstOwns, [Next]_vars PROVE FirstOwns'
  OBVIOUS
<1>1. CASE UNCHANGED <<fixture, reports>>
  <2>1. \A m, key : Answered(m)' = Answered(m) /\ AnswerOf(m, key)' = AnswerOf(m, key)
    BY <1>1 DEF Answered, AnswerOf, SelectInSeq
  <2> QED
    BY <1>1, <2>1 DEF FirstOwns
<1>2. CASE UNCHANGED fixture /\ fixture.state = "old"
  BY <1>2 DEF FirstOwns
<1>3. CASE fixture' = [state |-> "broken", entries |-> <<>>]
  BY <1>3 DEF FirstOwns
<1>4. CASE UNCHANGED reports /\ fixture' = [state |-> "new", entries |-> Entries]
  BY <1>4, FirstOwnsWritten DEF TypeOK
<1> QED
  BY <1>1, <1>2, <1>3, <1>4, FixtureSteps

-----------------------------------------------------------------------------
(* The theorems.                                                           *)

-----------------------------------------------------------------------------
(* The tables.                                                             *)

\* Summed(S, n, f): f[s] adds up what n says of the members of s.
Summed(S, n, f) ==
    f = [s \in SUBSET S |-> IF s = {} THEN 0
                            ELSE LET x == CHOOSE x \in s : TRUE IN n[x] + f[s \ {x}]]

\* There is one way to add up.
LEMMA SummedOnce ==
    ASSUME NEW S, IsFiniteSet(S), NEW n, NEW f, NEW g, Summed(S, n, f), Summed(S, n, g)
    PROVE  f[S] = g[S]
<1> DEFINE Bad == { s \in SUBSET S : f[s] # g[s] }
           sizes == { Cardinality(s) : s \in Bad }
<1>1. Bad = {}
  <2> SUFFICES ASSUME Bad # {} PROVE FALSE
    OBVIOUS
  <2>1. \A s \in SUBSET S : IsFiniteSet(s) /\ Cardinality(s) \in Nat
    BY FS_Subset, FS_CardinalityType
  <2>2. sizes \in SUBSET Nat /\ sizes # {}
    BY <2>1
  <2>3. PICK m \in sizes : \A k \in sizes : m <= k
    <3> HIDE DEF sizes
    <3> QED
      BY <2>2, Least
  <2>4. PICK s \in Bad : Cardinality(s) = m
    BY <2>3
  <2>5. s # {}
    <3>1. f[{}] = 0 /\ g[{}] = 0
      BY DEF Summed
    <3> QED
      BY <2>4, <3>1
  <2> DEFINE x == CHOOSE x \in s : TRUE
             t == s \ {x}
  <2>6. x \in s
    BY <2>5
  <2>7. f[s] = n[x] + f[t] /\ g[s] = n[x] + g[t]
    BY <2>5 DEF Summed
  <2>8. t \in SUBSET S /\ Cardinality(t) = m - 1 /\ m \in Nat
    BY <2>1, <2>4, <2>6, FS_RemoveElement
  <2>9. t \notin Bad
    <3> SUFFICES ASSUME t \in Bad PROVE FALSE
      OBVIOUS
    <3>1. Cardinality(t) \in sizes
      OBVIOUS
    <3> HIDE DEF sizes, t
    <3> QED
      BY <2>3, <2>8, <3>1
  <2> QED
    BY <2>4, <2>7, <2>8, <2>9
<1> QED
  BY <1>1

\* The places in I with a key.
Having(I, key, x) == {i \in I : key[i] = x}

\* Of the places in I with a key in S, every place is counted at one key.
LEMMA CountedOnce ==
    ASSUME NEW S, IsFiniteSet(S), NEW I, IsFiniteSet(I), NEW key, NEW n,
           \A i \in I : key[i] \in S,
           \A x \in S : n[x] = Cardinality(Having(I, key, x))
    PROVE  /\ \E f : Summed(S, n, f)
           /\ \A f : Summed(S, n, f) => f[S] = Cardinality(I)
<1> DEFINE Of(s) == {i \in I : key[i] \in s}
           c == [s \in SUBSET S |-> Cardinality(Of(s))]
<1>1. ASSUME NEW s \in SUBSET S, NEW x \in s
      PROVE  c[s] = n[x] + c[s \ {x}]
  <2> DEFINE one == Having(I, key, x)
  <2>1. IsFiniteSet(one) /\ IsFiniteSet(Of(s \ {x}))
    BY FS_Subset DEF Having
  <2>2. Of(s) = one \cup Of(s \ {x}) /\ one \cap Of(s \ {x}) = {}
    BY DEF Having
  <2>3. Cardinality(one) \in Nat /\ Cardinality(Of(s \ {x})) \in Nat
    BY <2>1, FS_CardinalityType
  <2>4. n[x] = Cardinality(one)
    OBVIOUS
  <2>5. c[s] = Cardinality(Of(s)) /\ c[s \ {x}] = Cardinality(Of(s \ {x}))
    OBVIOUS
  <2> HIDE DEF Of, one, c
  <2>6. Cardinality(one \cup Of(s \ {x}))
           = Cardinality(one) + Cardinality(Of(s \ {x})) - Cardinality({})
    BY <2>1, <2>2, FS_Union
  <2> QED
    BY <2>2, <2>3, <2>4, <2>5, <2>6, FS_EmptySet
<1>2. c[{}] = 0
  <2>1. Of({}) = {}
    OBVIOUS
  <2> QED
    BY <2>1, FS_EmptySet
<1>3. Summed(S, n, c)
  <2>1. \A s \in SUBSET S : c[s] = IF s = {} THEN 0
                            ELSE LET x == CHOOSE x \in s : TRUE IN n[x] + c[s \ {x}]
    <3> TAKE s \in SUBSET S
    <3>1. s # {} => (CHOOSE x \in s : TRUE) \in s
      OBVIOUS
    <3> HIDE DEF c
    <3> QED
      BY <1>1, <1>2, <3>1
  <2>2. c = [s \in SUBSET S |-> c[s]]
    OBVIOUS
  <2> HIDE DEF c
  <2> QED
    BY <2>1, <2>2 DEF Summed
<1>4. Of(S) = I
  OBVIOUS
<1>5. c[S] = Cardinality(I)
  BY <1>4
<1> HIDE DEF c
<1> QED
  BY <1>3, <1>5, SummedOnce

\* Where the runs of a report are.
LEMMA RunPlaces ==
    ASSUME NEW runs \in Seq(TaskRuns)
    PROVE  /\ IsFiniteSet(DOMAIN runs) /\ Cardinality(DOMAIN runs) = Len(runs)
           /\ \A i \in DOMAIN runs : /\ runs[i].outcome \in OutcomeNames
                                    /\ runs[i].task \in ToSet(Tasks)
<1>1. Len(runs) \in Nat /\ DOMAIN runs = 1..Len(runs)
  BY LenProperties
<1>2. IsFiniteSet(1..Len(runs)) /\ Cardinality(1..Len(runs)) = Len(runs)
  <2>1. /\ IsFiniteSet(1..Len(runs))
        /\ Cardinality(1..Len(runs)) = IF 1 > Len(runs) THEN 0 ELSE Len(runs) - 1 + 1
    BY <1>1, FS_Interval
  <2> QED
    BY <1>1, <2>1
<1>3. \A i \in 1..Len(runs) : runs[i] \in TaskRuns
  BY ElementOfSeq
<1> QED
  BY <1>1, <1>2, <1>3 DEF TaskRuns

\* Every run has one outcome.
LEMMA OutcomesSum ==
    ASSUME NEW runs \in Seq(TaskRuns)
    PROVE  MapThenSumSet(LAMBDA o : Breakdown(runs)[o], OutcomeNames) = Len(runs)
<1> DEFINE n == Breakdown(runs)
           I == DOMAIN runs
           key == [i \in I |-> runs[i].outcome]
           f == CHOOSE g : Summed(OutcomeNames, n, g)
<1>1. IsFiniteSet(I) /\ Cardinality(I) = Len(runs) /\ \A i \in I : key[i] \in OutcomeNames
  BY RunPlaces
<1>2. \A o \in OutcomeNames : n[o] = Cardinality(Having(I, key, o))
  <2> TAKE o \in OutcomeNames
  <2>1. n[o] = Cardinality({i \in I : runs[i].outcome = o})
    BY DEF Breakdown, Count
  <2>2. Having(I, key, o) = {i \in I : runs[i].outcome = o}
    BY DEF Having
  <2> QED
    BY <2>1, <2>2
<1>3. IsFiniteSet(OutcomeNames)
  <2>1. \A S, x : IsFiniteSet(S) => IsFiniteSet(S \cup {x})
    BY FS_AddElement
  <2>2. OutcomeNames = {"timeout"} \cup {"rejected"} \cup {"runtime"} \cup {"llm"}
           \cup {"no_code"} \cup {"no_figure"} \cup {"wrong"} \cup {"pass"}
    BY DEF OutcomeNames
  <2>3. IsFiniteSet({"timeout"})
    BY FS_Singleton
  <2> QED
    BY <2>1, <2>2, <2>3
<1>4. MapThenSumSet(LAMBDA o : Breakdown(runs)[o], OutcomeNames) = f[OutcomeNames]
  BY DEF MapThenSumSet, MapThenFoldSet, Summed
<1> HIDE DEF n, I, key
<1>5. /\ \E g : Summed(OutcomeNames, n, g)
      /\ \A g : Summed(OutcomeNames, n, g) => g[OutcomeNames] = Cardinality(I)
  BY <1>1, <1>2, <1>3, CountedOnce
<1>6. f[OutcomeNames] = Cardinality(I)
  BY <1>5
<1> QED
  BY <1>1, <1>4, <1>6

\* Every answer that is right counts for the category of its task.
LEMMA HitsSum ==
    ASSUME NEW runs \in Seq(TaskRuns)
    PROVE  MapThenSumSet(LAMBDA c : Hits(runs, c), {Tasks[j].category : j \in DOMAIN Tasks})
              = Count(runs, Passed)
<1> DEFINE C == {Tasks[j].category : j \in DOMAIN Tasks}
           n == [c \in C |-> Hits(runs, c)]
           I == {i \in DOMAIN runs : Passed(runs[i])}
           key == [i \in DOMAIN runs |-> runs[i].task.category]
           Sums(f) == f = [s \in SUBSET C |-> IF s = {} THEN 0
                             ELSE LET x == CHOOSE x \in s : TRUE IN Hits(runs, x) + f[s \ {x}]]
           f == CHOOSE g : Sums(g)
<1>1. IsFiniteSet(I) /\ Cardinality(I) = Count(runs, Passed)
  BY RunPlaces, FS_Subset DEF Count
<1>2. \A i \in I : key[i] \in C
  BY RunPlaces DEF ToSet
<1>3. \A c \in C : n[c] = Cardinality(Having(I, key, c))
  <2> TAKE c \in C
  <2>1. n[c] = Cardinality({i \in DOMAIN runs : runs[i].task.category = c /\ Passed(runs[i])})
    BY DEF Hits, Count
  <2>2. Having(I, key, c) = {i \in DOMAIN runs : runs[i].task.category = c /\ Passed(runs[i])}
    BY DEF Having
  <2> QED
    BY <2>1, <2>2
<1>4. IsFiniteSet(C)
  <2>1. DOMAIN Tasks = 1..Len(Tasks) /\ Len(Tasks) \in Nat
    BY TasksAreRecords, LenProperties
  <2>2. IsFiniteSet(DOMAIN Tasks)
    BY <2>1, FS_Interval
  <2> DEFINE category == [j \in DOMAIN Tasks |-> Tasks[j].category]
  <2>3. category \in Surjection(DOMAIN Tasks, C)
    BY DEF Surjection
  <2> QED
    BY <2>2, <2>3, FS_Surjection
<1>5. MapThenSumSet(LAMBDA c : Hits(runs, c), C) = f[C]
  BY DEF MapThenSumSet, MapThenFoldSet
<1>6. \A g : Sums(g) <=> Summed(C, n, g)
  <2> TAKE g
  <2> DEFINE one(s) == LET x == CHOOSE x \in s : TRUE IN Hits(runs, x) + g[s \ {x}]
             other(s) == LET x == CHOOSE x \in s : TRUE IN n[x] + g[s \ {x}]
  <2>1. \A s \in SUBSET C : s # {} => one(s) = other(s)
    <3> TAKE s \in SUBSET C
    <3> HAVE s # {}
    <3>1. (CHOOSE x \in s : TRUE) \in C
      OBVIOUS
    <3> HIDE DEF C
    <3> QED
      BY <3>1
  <2> HIDE DEF C, n
  <2>2. [s \in SUBSET C |-> IF s = {} THEN 0 ELSE one(s)]
          = [s \in SUBSET C |-> IF s = {} THEN 0 ELSE other(s)]
    <3> HIDE DEF one, other
    <3> QED
      BY <2>1
  <2> QED
    BY <2>2 DEF Summed
<1> HIDE DEF n, I, key, C
<1>7. /\ \E g : Summed(C, n, g)
      /\ \A g : Summed(C, n, g) => g[C] = Cardinality(I)
  BY <1>1, <1>2, <1>3, <1>4, CountedOnce
<1>8. f[C] = Cardinality(I)
  <2> HIDE DEF Sums
  <2>1. Sums(f)
    <3>1. \E g : Sums(g)
      BY <1>6, <1>7
    <3> QED
      BY <3>1
  <2> HIDE DEF f
  <2> QED
    BY <1>6, <1>7, <2>1
<1> QED
  BY <1>1, <1>5, <1>8 DEF C

\* Nothing has run at the start, and the files are those of an earlier run.
LEMMA IInvInit == Init => IInv
<1> SUFFICES ASSUME Init PROVE IInv
  OBVIOUS
<1>1. TypeOK
  <2>1. reports \in Seq(Reports) /\ worker \in BOOLEAN
    BY EmptySeq DEF Init
  <2> QED
    BY <2>1 DEF Init, TypeOK
<1>2. Complete
  BY SelectedTyped DEF Init, Complete
<1>3. Written /\ Owned /\ ExitTruthful
  BY NoneIsNoCode DEF Init, Written, Owned, ExitTruthful
<1>4. Recorded /\ FixtureVerified /\ FirstOwns
  BY DEF Init, Recorded, FixtureVerified, LoadRecordings, ToSet, FirstOwns
<1> QED
  BY <1>1, <1>2, <1>3, <1>4 DEF IInv

\* No step of main and no interrupt breaks any part.
LEMMA IInvStep == IInv /\ [Next]_vars => IInv'
  BY TypeStep, CompleteStep, WrittenStep, OwnedStep, RecordedStep, ExitStep, VerifiedStep,
     OwnsStep DEF IInv

\* The invariant of the benchmark.
THEOREM Invariance == Spec => []IInv
<1>1. Init => IInv
  BY IInvInit
<1>2. IInv /\ [Next]_vars => IInv'
  BY IInvStep
<1> QED
  BY <1>1, <1>2, PTL DEF Spec

\* However main ends the worker is shut down, and exit code 0 means that all that
\* was asked for was done, and nothing else.
THEOREM ExitIsTruthful == Spec => []ExitTruthful
<1>1. IInv => ExitTruthful
  BY DEF IInv
<1> QED
  BY <1>1, Invariance, PTL

\* What the demo can replay was computed by code and agreed with the ground truth
\* of its question, whatever the models answered and wherever main was cut.
THEOREM OnlyVerified == Spec => []FixtureVerified
<1>1. IInv => FixtureVerified
  BY DEF IInv
<1> QED
  BY <1>1, Invariance, PTL

\* The fixture has every question some model got right, once, with the first such
\* answer, and in the order of the file.
THEOREM FirstAnswerOwns == Spec => []FirstOwns
<1>1. IInv => FirstOwns
  BY DEF IInv
<1> QED
  BY <1>1, Invariance, PTL

\* The tables of every report agree with each other, whatever the answers were: the
\* taxonomy and the categories account for every task once.
THEOREM TablesAlwaysAgree == Spec => []TablesAgree
<1>1. IInv => TablesAgree
  <2> SUFFICES ASSUME TypeOK PROVE TablesAgree
    BY DEF IInv
  <2> SUFFICES ASSUME NEW i \in DOMAIN reports
               PROVE  LET runs == reports[i].runs
                          passed == Count(runs, Passed)
                      IN  /\ MapThenSumSet(LAMBDA o : Breakdown(runs)[o], OutcomeNames) = Len(runs)
                          /\ Breakdown(runs)["pass"] = passed
                          /\ MapThenSumSet(LAMBDA c : Hits(runs, c),
                                           {Tasks[j].category : j \in DOMAIN Tasks}) = passed
                          /\ Repaired(runs) <= passed
    BY DEF TablesAgree
  <2> DEFINE runs == reports[i].runs
  <2>1. runs \in Seq(TaskRuns)
    <3>1. reports[i] \in Reports
      BY ElementOfSeq, LenProperties DEF TypeOK
    <3> QED
      BY <3>1 DEF Reports
  <2> HIDE DEF runs
  <2>2. Breakdown(runs)["pass"] = Count(runs, Passed)
    BY DEF Breakdown, Count, Passed, OutcomeNames
  <2>3. Repaired(runs) <= Count(runs, Passed)
    <3> DEFINE passed == {j \in DOMAIN runs : Passed(runs[j])}
               both == {j \in DOMAIN runs : Passed(runs[j]) /\ runs[j].repaired}
    <3>1. IsFiniteSet(passed)
      BY <2>1, RunPlaces, FS_Subset
    <3>2. both \in SUBSET passed
      OBVIOUS
    <3>3. Cardinality(both) <= Cardinality(passed)
      BY <3>1, <3>2, FS_Subset
    <3> QED
      BY <3>3 DEF Repaired, Count
  <2> QED
    BY <2>1, <2>2, <2>3, OutcomesSum, HitsSum DEF runs
<1> QED
  BY <1>1, Invariance, PTL
=============================================================================
