---------------------------- MODULE EngineProofs ----------------------------
(***************************************************************************)
(* Proofs about IndustrialEngine, for any jobs, requests, verdicts, faults *)
(* and limit of images, and one worker (OneWorker): the deployment starts  *)
(* one, and with two a job that both picked runs twice.                    *)
(*                                                                         *)
(* The invariant follows a job and the worker that has it: JobOK relates   *)
(* the rows of a job to its objects, its data set and the photos sent;     *)
(* WorkerOK says what the worker's place in the twenty stages tells of     *)
(* them.  Before it comes what _select_evenly_spaced_paths selects.        *)
(***************************************************************************)
EXTENDS IndustrialEngine, FunctionTheorems, FiniteSetTheorems, TLAPS

-----------------------------------------------------------------------------
(***************************************************************************)
(* The selection of photos                                                 *)
(***************************************************************************)
\* Rounding a fraction of a number that is at most m gives at most m.
LEMMA RoundedBetween ==
    ASSUME NEW a \in Nat, NEW b \in Nat \ {0}, NEW m \in Nat, a <= b * m
    PROVE  Rounded(a, b) \in 0 .. m
<1> DEFINE q == a \div b
           r == a % b
<1>1. q \in Nat /\ r \in 0 .. b - 1 /\ a = b * q + r
  OBVIOUS
<1>2. b * q <= b * m
  BY <1>1
<1>3. q <= m
  <2>1. CASE q > m
    <3>1. b * q >= b * (m + 1)
      BY <1>1, <2>1
    <3>2. b * (m + 1) = b * m + b
      OBVIOUS
    <3> QED
      BY <1>2, <3>1, <3>2, <1>1
  <2> QED
    BY <2>1, <1>1
<1>4. q = m => r = 0
  BY <1>1
<1>5. CASE q = m
  BY <1>1, <1>4, <1>5 DEF Rounded
<1>6. CASE q < m
  BY <1>1, <1>6 DEF Rounded
<1> QED
  BY <1>1, <1>3, <1>5, <1>6

\* The first and the last position are exact.
LEMMA RoundedMultiple ==
    ASSUME NEW b \in Nat \ {0}, NEW m \in Nat
    PROVE  Rounded(b * m, b) = m /\ Rounded(0, b) = 0
<1>1. (b * m) \div b = m /\ (b * m) % b = 0
  OBVIOUS
<1>2. 0 \div b = 0 /\ 0 % b = 0
  OBVIOUS
<1> QED
  BY <1>1, <1>2 DEF Rounded

Below(nm, S, p) == {q \in S : nm[q] < nm[p]}
Rank(nm, S) == [p \in S |-> Cardinality(Below(nm, S, p))]

\* With names that differ, the rank by name numbers a set from 0 on.
LEMMA RanksAre ==
    ASSUME NEW S, IsFiniteSet(S), NEW nm \in [S -> Nat],
           \A p, q \in S : nm[p] = nm[q] => p = q
    PROVE  Rank(nm, S) \in Bijection(S, 0 .. Cardinality(S) - 1)
<1> DEFINE n == Cardinality(S)
<1>1. n \in Nat
  BY FS_CardinalityType
<1>2. ASSUME NEW p \in S
      PROVE  IsFiniteSet(Below(nm, S, p)) /\ Cardinality(Below(nm, S, p)) \in 0 .. n - 1
  <2>1. Below(nm, S, p) \in SUBSET (S \ {p})
    BY DEF Below
  <2>2. IsFiniteSet(S \ {p}) /\ Cardinality(S \ {p}) = n - 1
    BY FS_RemoveElement
  <2>3. IsFiniteSet(Below(nm, S, p)) /\ Cardinality(Below(nm, S, p)) <= n - 1
    BY <2>1, <2>2, FS_Subset
  <2> QED
    BY <2>3, FS_CardinalityType
<1>3. ASSUME NEW p \in S, NEW q \in S, nm[p] < nm[q]
      PROVE  Cardinality(Below(nm, S, p)) < Cardinality(Below(nm, S, q))
  <2>1. Below(nm, S, p) \cup {p} \in SUBSET Below(nm, S, q) /\ p \notin Below(nm, S, p)
    BY <1>3 DEF Below
  <2>2. IsFiniteSet(Below(nm, S, p) \cup {p}) /\ Cardinality(Below(nm, S, p) \cup {p}) = Cardinality(Below(nm, S, p)) + 1
    BY <1>2, <2>1, FS_AddElement
  <2>3. Cardinality(Below(nm, S, p) \cup {p}) <= Cardinality(Below(nm, S, q))
    BY <1>2, <2>1, FS_Subset
  <2>4. Cardinality(Below(nm, S, p)) \in Nat /\ Cardinality(Below(nm, S, q)) \in Nat
    BY <1>1, <1>2
  <2> QED
    BY <2>2, <2>3, <2>4
<1>4. Rank(nm, S) \in [S -> 0 .. n - 1]
  <2>1. \A p \in S : Cardinality(Below(nm, S, p)) \in 0 .. n - 1
    BY <1>2
  <2> QED
    BY <2>1 DEF Rank
<1>5. \A p, q \in S : Rank(nm, S)[p] = Rank(nm, S)[q] => p = q
  <2> SUFFICES ASSUME NEW p \in S, NEW q \in S, p # q
               PROVE  Rank(nm, S)[p] # Rank(nm, S)[q]
    OBVIOUS
  <2>1. nm[p] < nm[q] \/ nm[q] < nm[p]
    OBVIOUS
  <2>2. Rank(nm, S)[p] = Cardinality(Below(nm, S, p)) /\ Rank(nm, S)[q] = Cardinality(Below(nm, S, q))
    BY DEF Rank
  <2>3. Cardinality(Below(nm, S, p)) \in Nat /\ Cardinality(Below(nm, S, q)) \in Nat
    BY <1>1, <1>2
  <2>4. Cardinality(Below(nm, S, p)) < Cardinality(Below(nm, S, q)) \/ Cardinality(Below(nm, S, q)) < Cardinality(Below(nm, S, p))
    BY <1>3, <2>1
  <2> QED
    BY <2>2, <2>3, <2>4
<1>6. Rank(nm, S) \in Injection(S, 0 .. n - 1)
  BY <1>4, <1>5, Fun_IsInj
<1>7. IsFiniteSet(0 .. n - 1) /\ Cardinality(0 .. n - 1) = n
  <2>1. \A k \in Nat : IsFiniteSet(0 .. k - 1) /\ Cardinality(0 .. k - 1) = k
    BY FS_Interval
  <2> QED
    BY <1>1, <2>1
<1>8. Rank(nm, S) \in Surjection(S, 0 .. n - 1)
  BY <1>6, <1>7, FS_Injection
<1> QED
  BY <1>6, <1>8, Fun_IsBij

\* So a set of ranks selects as many elements as it has members.
LEMMA RankedSelection ==
    ASSUME NEW S, IsFiniteSet(S), NEW nm \in [S -> Nat],
           \A p, q \in S : nm[p] = nm[q] => p = q,
           NEW T \in SUBSET (0 .. Cardinality(S) - 1)
    PROVE  /\ IsFiniteSet({p \in S : Rank(nm, S)[p] \in T})
           /\ Cardinality({p \in S : Rank(nm, S)[p] \in T}) = Cardinality(T)
<1> DEFINE R == Rank(nm, S)
           U == 0 .. Cardinality(S) - 1
           C == {p \in S : R[p] \in T}
           f == [p \in C |-> R[p]]
<1>1. R \in Bijection(S, U)
  BY RanksAre
<1>t. T \subseteq U
  OBVIOUS
<1> HIDE DEF R, U
<1>2. /\ R \in [S -> U]
      /\ \A a, b \in S : R[a] = R[b] => a = b
      /\ \A t \in U : \E s \in S : R[s] = t
  BY <1>1, Fun_BijectionProperties
<1>3. f \in [C -> T] /\ \A a, b \in C : f[a] = f[b] => a = b
  BY <1>2
<1>4. \A t \in T : \E s \in C : f[s] = t
  BY <1>2, <1>t
<1>5. IsFiniteSet(C)
  BY FS_Subset
<1>6. f \in Bijection(C, T)
  BY <1>3, <1>4, Fun_IsBij
<1>7. ExistsBijection(C, T)
  BY <1>6, Fun_ExistsBij
<1>8. IsFiniteSet(C) /\ Cardinality(T) = Cardinality(C)
  BY <1>5, <1>7, FS_Bijection
<1> QED
  BY <1>8 DEF R

\* _select_evenly_spaced_paths: as many positions as allowed, the first and the
\* last among them, also where two of the spaced positions fall together.
LEMMA SelectedAre ==
    ASSUME NEW n \in Nat, NEW max \in Nat \ {0, 1}
    PROVE  /\ Selected(n, max) \subseteq 0 .. n - 1
           /\ Cardinality(Selected(n, max)) = IF n <= max THEN n ELSE max
           /\ n > 0 => {0, n - 1} \subseteq Selected(n, max)
<1>1. CASE n <= max
  <2>1. Selected(n, max) = 0 .. n - 1
    BY <1>1 DEF Selected
  <2>2. Cardinality(0 .. n - 1) = n
    BY FS_Interval
  <2> QED
    BY <1>1, <2>1, <2>2
<1>2. CASE n > max
  <2> DEFINE picked == Spaced(n, max)
             free == (0 .. n - 1) \ picked
             missing == max - Cardinality(picked)
             name == [c \in free |-> c]
             first == {c \in free : Cardinality({d \in free : d < c}) < missing}
  <2>1. \A i \in 0 .. max - 1 : Rounded(i * (n - 1), max - 1) \in 0 .. n - 1
    <3> TAKE i \in 0 .. max - 1
    <3>1. i * (n - 1) \in Nat /\ i * (n - 1) <= (max - 1) * (n - 1)
      BY <1>2
    <3>2. n - 1 \in Nat /\ max - 1 \in Nat \ {0}
      BY <1>2
    <3> QED
      BY <3>1, <3>2, RoundedBetween
  <2>2. picked \subseteq 0 .. n - 1
    BY <2>1 DEF Spaced
  <2>3. IsFiniteSet(picked) /\ Cardinality(picked) \in 0 .. max
    <3>1. IsFiniteSet(0 .. max - 1) /\ Cardinality(0 .. max - 1) = max
      BY FS_Interval
    <3> DEFINE f == [i \in 0 .. max - 1 |-> Rounded(i * (n - 1), max - 1)]
    <3>2. f \in [0 .. max - 1 -> picked] /\ \A t \in picked : \E i \in 0 .. max - 1 : f[i] = t
      BY DEF Spaced
    <3> HIDE DEF f, picked
    <3>3. f \in Surjection(0 .. max - 1, picked)
      BY <3>2, Fun_IsSurj
    <3> DEFINE I == 0 .. max - 1
    <3>4. f \in Surjection(I, picked) /\ IsFiniteSet(I) /\ Cardinality(I) = max
      BY <3>1, <3>3
    <3> HIDE DEF I
    <3>5. IsFiniteSet(picked) /\ Cardinality(picked) <= max
      BY <3>4, FS_Surjection
    <3> QED
      BY <3>5, FS_CardinalityType
  <2>4. {0, n - 1} \subseteq picked
    <3>1. 0 \in 0 .. max - 1 /\ max - 1 \in 0 .. max - 1 /\ max - 1 \in Nat \ {0} /\ n - 1 \in Nat
      BY <1>2
    <3>2. Rounded((max - 1) * (n - 1), max - 1) = n - 1 /\ Rounded(0, max - 1) = 0
      BY <3>1, RoundedMultiple
    <3>3. 0 * (n - 1) = 0
      OBVIOUS
    <3>4. Rounded(0 * (n - 1), max - 1) \in picked /\ Rounded((max - 1) * (n - 1), max - 1) \in picked
      BY <3>1 DEF Spaced
    <3> QED
      BY <3>2, <3>3, <3>4
  <2>5. IsFiniteSet(0 .. n - 1) /\ Cardinality(0 .. n - 1) = n
    BY FS_Interval
  <2> HIDE DEF picked
  <2>6. IsFiniteSet(free) /\ Cardinality(free) = n - Cardinality(picked)
    <3>1. picked \cup free = 0 .. n - 1 /\ picked \cap free = {}
      BY <2>2
    <3> HIDE DEF free
    <3>n. Cardinality(picked \cup free) = Cardinality(0 .. n - 1)
      BY <3>1, Zenon
    <3>c. Cardinality(picked) \in Int /\ Cardinality(picked \cup free) = n
      BY <2>3, <2>5, <3>n
    <3>2. IsFiniteSet(free)
      BY <2>5, FS_Subset DEF free
    <3>3. Cardinality(picked \cup free) = Cardinality(picked) + Cardinality(free) - Cardinality(picked \cap free)
      BY <2>3, <3>2, FS_Union
    <3>4. Cardinality(picked \cap free) = 0
      BY <3>1, FS_EmptySet
    <3>5. Cardinality(free) \in Nat
      BY <3>2, FS_CardinalityType
    <3> HIDE DEF free
    <3> QED
      BY <3>c, <3>2, <3>3, <3>4, <3>5
  <2>7. missing \in 0 .. Cardinality(free)
    BY <1>2, <2>3, <2>6
  <2>8. name \in [free -> Nat] /\ \A p, q \in free : name[p] = name[q] => p = q
    OBVIOUS
  <2>9. first = {c \in free : Rank(name, free)[c] \in 0 .. missing - 1}
    <3> HIDE DEF missing
    <3>1. \A c \in free : {d \in free : d < c} = Below(name, free, c)
      BY DEF Below
    <3>2. \A c \in free : Rank(name, free)[c] = Cardinality(Below(name, free, c))
      BY DEF Rank
    <3>3. \A c \in free : Cardinality(Below(name, free, c)) \in Nat
      BY <2>6, FS_Subset, FS_CardinalityType DEF Below
    <3>4. missing \in Int
      BY <2>7
    <3>5. \A c \in free : Cardinality({d \in free : d < c}) = Rank(name, free)[c] /\ Rank(name, free)[c] \in Nat
      BY <3>1, <3>2, <3>3
    <3> DEFINE rank == Rank(name, free)
    <3>6. \A c \in free : Cardinality({d \in free : d < c}) = rank[c] /\ rank[c] \in Nat
      BY <3>5
    <3>r. \A c \in free : rank[c] \in Nat
      BY <3>6
    <3>7. first = {c \in free : rank[c] < missing}
      BY <3>6
    <3> DEFINE bound == missing - 1
    <3>m. missing = bound + 1 /\ bound \in Int
      BY <3>4
    <3> HIDE DEF free, rank, first, missing
    <3>9. \A c \in free : rank[c] < missing <=> rank[c] \in 0 .. missing - 1
      BY <3>4, <3>r
    <3>8. {c \in free : rank[c] < missing} = {c \in free : rank[c] \in 0 .. missing - 1}
      BY <3>9
    <3> QED
      BY <3>7, <3>8 DEF rank
  <2>10. 0 .. missing - 1 \in SUBSET (0 .. Cardinality(free) - 1)
    BY <2>6, <2>7, <2>3
  <2>11. IsFiniteSet(first) /\ Cardinality(first) = Cardinality(0 .. missing - 1)
    <3> DEFINE U == 0 .. missing - 1
    <3>1. first = {c \in free : Rank(name, free)[c] \in U} /\ U \in SUBSET (0 .. Cardinality(free) - 1)
      BY <2>9, <2>10
    <3> HIDE DEF name, free, missing, first, U
    <3>2. IsFiniteSet(first) /\ Cardinality(first) = Cardinality(U)
      BY <2>6, <2>8, <3>1, RankedSelection
    <3> QED
      BY <3>2 DEF U
  <2>12. Cardinality(0 .. missing - 1) = missing
    BY <2>7, <2>3, FS_Interval
  <2>13. Selected(n, max) = picked \cup first
    BY <1>2 DEF Selected, picked
  <2>14. Cardinality(picked \cup first) = max
    <3>1. picked \cap first = {}
      OBVIOUS
    <3> HIDE DEF first
    <3>2. Cardinality(picked \cup first) = Cardinality(picked) + Cardinality(first) - Cardinality(picked \cap first)
      BY <2>3, <2>11, FS_Union
    <3>3. Cardinality(picked \cap first) = 0
      BY <3>1, FS_EmptySet
    <3> QED
      BY <2>3, <2>11, <2>12, <3>2, <3>3
  <2>15. first \subseteq 0 .. n - 1
    OBVIOUS
  <2> HIDE DEF first
  <2> QED
    BY <1>2, <2>2, <2>4, <2>13, <2>14, <2>15
<1> QED
  BY <1>1, <1>2

-----------------------------------------------------------------------------
(***************************************************************************)
(* The stages                                                              *)
(***************************************************************************)
LEMMA TableIs ==
    /\ Numbers = 1 .. 20 /\ Len(Stages) = 20
    /\ Table[1] = Probe /\ Table[2] = Scene /\ Table[3] = ReferencePrompt
    /\ Table[4] = ReferenceImage /\ Table[5] = World /\ Table[6] = MetricWorld
    /\ Table[7] = InitialPoses /\ Table[8] = Render /\ Table[9] = FirstBoxer
    /\ Table[10] = Refinement /\ Table[11] = ExtraViews /\ Table[12] = Render
    /\ Table[13] = FinalBoxer /\ Table[14] = Incidents /\ Table[15] = Tasks
    /\ Table[16] = SampleSet /\ Table[17] = Quality /\ Table[18] = EvidenceCards
    /\ Table[19] = SiteState /\ Table[20] = Export
  BY DEF Numbers, Stages, Table

LEMMA NumbersAre == Numbers = 1 .. 20 /\ Len(Stages) = 20
  BY TableIs

LEMMA NamesAre ==
    ASSUME NEW n \in Numbers
    PROVE  /\ Stages[n] = "image" <=> n = 4
           /\ Stages[n] = "world" <=> n = 5
           /\ Stages[n] = "quality" <=> n = 17
           /\ Stages[n] = "export" <=> n = 20
           /\ Stages[n] # "between" /\ Stages[n] # "none"
  BY DEF Numbers, Stages

\* An answer with a defect is accepted only where nothing is written.
LEMMA DefectsWriteNothing ==
    ASSUME NEW n \in Numbers, NEW a \in Answers[Table[n].asks] \ Table[n].rejects, a \in Defects
    PROVE  Table[n].writes = {}
<1> USE TableIs DEF Stage, Defects
<1>1. CASE n \in {1, 2, 3, 6, 7, 8, 9, 10, 11, 12, 16}
  BY <1>1 DEF Probe, Scene, ReferencePrompt, MetricWorld, InitialPoses, Render, FirstBoxer,
         Refinement, ExtraViews, SampleSet
<1>2. CASE n = 4
  BY <1>2 DEF ReferenceImage, Answers, ImageAnswers
<1>3. CASE n = 5
  BY <1>3 DEF World, Answers, WorldAnswers
<1>4. CASE n = 13
  BY <1>4 DEF FinalBoxer, Answers, BoxerAnswers, Command
<1>5. CASE n = 14
  BY <1>5 DEF Incidents, IncidentDefects
<1>6. CASE n = 15
  BY <1>6 DEF Tasks, TaskDefects
<1>7. CASE n = 17
  BY <1>7 DEF Quality, Answers, JudgeAnswers
<1>8. CASE n = 18
  BY <1>8 DEF EvidenceCards, CardDefects, Answers, TextAnswers
<1>9. CASE n = 19
  BY <1>9 DEF SiteState, SiteStateDefects, Answers, TextAnswers
<1>10. CASE n = 20
  BY <1>10 DEF Export, Answers
<1> QED
  BY <1>1, <1>2, <1>3, <1>4, <1>5, <1>6, <1>7, <1>8, <1>9, <1>10

LEMMA ArtifactsAre ==
    /\ Copied \cup Made \cup {"image"} \subseteq Artifacts
    /\ \A n \in Numbers : Table[n].writes \subseteq Artifacts
<1>1. \A n \in Numbers : Table[n].writes \subseteq Artifacts
  BY DEF Artifacts
<1>2. {4, 5, 13, 14, 15, 17, 18, 19, 20} \subseteq Numbers
  BY TableIs
<1>3. /\ "image" \in Table[4].writes /\ "world" \in Table[5].writes
      /\ {"boxes3d", "graph"} \subseteq Table[13].writes
  BY TableIs DEF ReferenceImage, World, FinalBoxer, Stage
<1>4. /\ "incidents" \in Table[14].writes /\ "tasks" \in Table[15].writes
      /\ {"judgement", "accepted"} \subseteq Table[17].writes
  BY TableIs DEF Incidents, Tasks, Quality, Stage
<1>5. /\ "cards" \in Table[18].writes /\ "siteState" \in Table[19].writes
      /\ Made \subseteq Table[20].writes
  BY TableIs DEF EvidenceCards, SiteState, Export, Stage
<1>6. Copied \subseteq Artifacts
  BY <1>1, <1>2, <1>3, <1>4, <1>5 DEF Copied
<1>7. Made \cup {"image"} \subseteq Artifacts
  BY <1>1, <1>2, <1>3, <1>5
<1> QED
  BY <1>1, <1>6, <1>7

-----------------------------------------------------------------------------
(***************************************************************************)
(* The inductive invariant, in terms of one job (its row b, its stage rows *)
(* r, its objects o, its data set d, the photos s sent and the verdicts v) *)
(* and of the worker m that has it.                                        *)
(***************************************************************************)
\* render.yaml starts one worker; process_next_queued_job takes no lock.
OneWorker == \A v, w \in Workers : v = w

Closed(status) == status \in {"succeeded", "skipped"}
Offered(b) == Copied \cup Made \cup (IF b.mode = "text" THEN {"image"} ELSE {})
OfferedIsGood(b, o) == \A x \in Offered(b) : o.exported[x] = "good"
SamplesAreAccepted(b, d, v) ==
    d.exported # {} /\ \A s \in d.exported : \E u \in v : u[s].accept /\ u[s].score >= b.asked

Unstarted(b, r, d) ==
    b.status \in {"none", "open", "refused", "queued"} =>
        b.stage = 0 /\ d.accepted = {} /\ \A k \in Numbers : r[k] = "pending"
NothingFlawed(o) == \A x \in Artifacts : o.stored[x] # "flawed"
Told(b, r) ==
    b.status = "failed" =>
        /\ \A k \in Numbers : k < b.stage => Closed(r[k])
        /\ \A k \in Numbers : k > b.stage => r[k] = "pending"
        /\ \/ b.stage \in Numbers /\ r[b.stage] = "failed" /\ b.reason = Stages[b.stage]
           \/ (b.stage \in Numbers => Closed(r[b.stage])) /\ b.reason = "between"
Whole(b, r, o, d, v) ==
    b.status = "succeeded" =>
        /\ b.exports = Offered(b)
        /\ OfferedIsGood(b, o)
        /\ SamplesAreAccepted(b, d, v)
        /\ \A k \in Numbers : Closed(r[k])
WorldFromPhotos(b, r, s) ==
    b.mode = "photos" /\ r[5] = "succeeded" =>
        \E S \in SurvivorsOf(b.photos) : S # {} /\ s = Chosen(S, b.photos)
AcceptedOnly(b, d, v) ==
    \A s \in d.accepted : \E u \in v : u[s].accept /\ u[s].score >= b.asked
Requested(b) ==
    b.photos = <<>> \/ \E q \in Requests : b.photos = q.photos

JobOK(b, r, o, d, s, v) ==
    /\ Unstarted(b, r, d)
    /\ r[1] # "skipped"
    /\ NothingFlawed(o)
    /\ Told(b, r)
    /\ Whole(b, r, o, d, v)
    /\ WorldFromPhotos(b, r, s)
    /\ AcceptedOnly(b, d, v)
    /\ Requested(b)

Busy == {"between", "inputs", "running", "hung", "raising", "ending"}
InStage(m, b, r) ==
    /\ m.stage \in Numbers
    /\ \A k \in Numbers : k < m.stage => Closed(r[k])
    /\ \A k \in Numbers : k > m.stage => r[k] = "pending"
    /\ m.at \in {"between", "inputs"} => r[m.stage] = "pending" /\ b.stage = m.stage - 1
    /\ m.at = "inputs" => m.stage = 2
    /\ m.at \in {"running", "hung"} => r[m.stage] = "running" /\ b.stage = m.stage
    /\ m.at = "ending" => m.stage = 20 /\ Closed(r[20])
    /\ m.at = "raising" =>
          \/ m.why = Stages[m.stage] /\ r[m.stage] = "failed" /\ b.stage = m.stage
          \/ m.why = "between" /\ r[m.stage] = "pending" /\ b.stage = m.stage - 1

WorkerOK(m, b, r, o, d, v) ==
    /\ m.at = "picked" => b.status = "queued"
    /\ m.at \in Busy => b.status = "running" /\ InStage(m, b, r)
    /\ m.at = "ending" => OfferedIsGood(b, o) /\ SamplesAreAccepted(b, d, v)
    /\ m.at \in {"between", "running"} /\ m.stage >= 2 => m.inputs \in SurvivorsOf(b.photos)
    /\ m.at \in {"between", "running"} /\ m.stage >= 18 => d.accepted # {}

JobsOK == \A j \in Jobs : JobOK(job[j], row[j], object[j], dataset[j], sent[j], verdict[j])
WorkersOK ==
    \A w \in Workers : worker[w].at # "idle" =>
        /\ worker[w].job \in Jobs
        /\ WorkerOK(worker[w], job[worker[w].job], row[worker[w].job], object[worker[w].job],
                    dataset[worker[w].job], verdict[worker[w].job])
\* The photos are stored in the order of the upload.
KeptInOrder == \A j \in Jobs : \E n \in Nat : kept[j] = 1 .. n
EngineInv == EngineTypeOK /\ KeptInOrder /\ JobsOK /\ WorkersOK

-----------------------------------------------------------------------------
(***************************************************************************)
(* Types                                                                   *)
(***************************************************************************)
USE EngineAssumption

LEMMA CardinalityOfJobs == ASSUME NEW S \in SUBSET Jobs PROVE Cardinality(S) \in Nat
  BY FS_Subset, FS_CardinalityType

LEMMA JobWith ==
    ASSUME NEW b \in Job
    PROVE  /\ \A s \in {"queued", "refused", "running"} : [b EXCEPT !.status = s] \in Job
           /\ \A n \in Numbers : [b EXCEPT !.stage = n] \in Job
           /\ \A y \in {"none", "between"} \cup {Stages[n] : n \in Numbers} :
                 [b EXCEPT !.status = "failed", !.reason = y] \in Job
           /\ \A n \in Numbers, e \in SUBSET Artifacts :
                 [b EXCEPT !.status = "succeeded", !.stage = n, !.reason = "none", !.exports = e] \in Job
<1>1. \A s \in {"queued", "refused", "running"} : [b EXCEPT !.status = s] \in Job
  BY DEF Job
<1>2. \A n \in Numbers : [b EXCEPT !.stage = n] \in Job
  BY DEF Job
<1>3. \A y \in {"none", "between"} \cup {Stages[n] : n \in Numbers} :
         [b EXCEPT !.status = "failed", !.reason = y] \in Job
  BY DEF Job, Ended
<1>4. \A n \in Numbers, e \in SUBSET Artifacts :
         [b EXCEPT !.status = "succeeded", !.stage = n, !.reason = "none", !.exports = e] \in Job
  BY DEF Job, Ended
<1> QED
  BY <1>1, <1>2, <1>3, <1>4

LEMMA InitTyped == Init => EngineTypeOK
<1> SUFFICES ASSUME Init PROVE EngineTypeOK
  OBVIOUS
<1>1. NoRequest \in Job
  BY DEF NoRequest, Job
<1>2. IdleWorker \in Worker
  BY DEF IdleWorker, Worker
<1>3. Nothing \in [Artifacts -> Content]
  BY DEF Nothing, Content
<1> QED
  BY <1>1, <1>2, <1>3 DEF Init, EngineTypeOK, Row

LEMMA RequestTyped ==
    ASSUME EngineTypeOK, KeptInOrder, NEW j \in Jobs, Request(j)
    PROVE  EngineTypeOK'
<1> USE DEF EngineTypeOK
<1>1. ASSUME NEW q \in Requests, Open(j, q) PROVE EngineTypeOK'
  <2> DEFINE b == [NoRequest EXCEPT !.status = "open", !.mode = q.mode, !.asked = q.asked,
                      !.photos = q.photos,
                      !.born = Cardinality({k \in Jobs : job[k].status # "none"})]
  <2>1. Cardinality({k \in Jobs : job[k].status # "none"}) \in Nat
    BY CardinalityOfJobs
  <2>2. q.mode \in {"text", "photos"} /\ q.asked \in Nat /\ q.photos \in Seq(Nat)
    OBVIOUS
  <2>3. b \in Job
    BY <2>1, <2>2 DEF NoRequest, Job
  <2>4. job' = [job EXCEPT ![j] = b]
    BY <1>1 DEF Open
  <2> HIDE DEF b
  <2>5. job' \in [Jobs -> Job]
    BY <2>3, <2>4
  <2> QED
    BY <1>1, <2>5 DEF Open, historyVars
<1>2. CASE StorePhoto(j)
  <2>1. PICK n \in Nat : kept[j] = 1 .. n
    BY DEF KeptInOrder
  <2>2. Cardinality(kept[j]) + 1 \in Nat
    BY <2>1, FS_Interval
  <2> QED
    BY <1>2, <2>2 DEF StorePhoto, historyVars
<1>3. ASSUME NEW s \in {"queued", "refused"}, job' = [job EXCEPT ![j].status = s]
      PROVE  job' \in [Jobs -> Job]
  <2>1. [job[j] EXCEPT !.status = s] \in Job
    BY JobWith
  <2> QED
    BY <1>3, <2>1
<1>4. CASE Commit(j)
  BY <1>3, <1>4 DEF Commit, historyVars
<1>5. CASE EmptyPhoto(j)
  BY <1>3, <1>5 DEF EmptyPhoto, historyVars
<1>6. CASE RequestFails(j)
  BY <1>3, <1>6 DEF RequestFails, Fault, historyVars
<1> QED
  BY <1>1, <1>2, <1>4, <1>5, <1>6 DEF Request

LEMMA RequestKeeps ==
    ASSUME EngineTypeOK, KeptInOrder, NEW j \in Jobs, Request(j)
    PROVE  KeptInOrder'
<1>1. CASE StorePhoto(j)
  <2>1. PICK n \in Nat : kept[j] = 1 .. n
    BY DEF KeptInOrder
  <2>2. Cardinality(kept[j]) + 1 = n + 1
    BY <2>1, FS_Interval
  <2>3. kept'[j] = 1 .. n + 1 /\ \A k \in Jobs \ {j} : kept'[k] = kept[k]
    <3>1. (1 .. n) \cup {n + 1} = 1 .. n + 1
      OBVIOUS
    <3> QED
      BY <1>1, <2>1, <2>2, <3>1 DEF StorePhoto, EngineTypeOK
  <2> QED
    BY <2>3 DEF KeptInOrder
<1>2. CASE kept' = kept
  BY <1>2 DEF KeptInOrder
<1> QED
  BY <1>1, <1>2 DEF Request, Open, Commit, EmptyPhoto, RequestFails

\* What a worker's step needs to know of its place.
LEMMA WorkerIs ==
    ASSUME EngineTypeOK, WorkersOK, NEW w \in Workers
    PROVE  /\ worker[w] \in Worker
           /\ worker[w].at # "idle" => worker[w].job \in Jobs
           /\ worker[w].at \in Busy => worker[w].stage \in Numbers
  BY DEF EngineTypeOK, WorkersOK, WorkerOK, InStage, Busy, Worker

LEMMA StageEndsTyped ==
    ASSUME EngineTypeOK, WorkersOK, NEW w \in Workers, worker[w].at = "running",
           NEW status \in Row, StageEnds(w, status)
    PROVE  row' \in [Jobs -> [Numbers -> Row]] /\ worker' \in [Workers -> Worker]
<1>1. worker[w] \in Worker /\ worker[w].job \in Jobs /\ worker[w].stage \in Numbers
  BY WorkerIs DEF Busy
<1>2. row' \in [Jobs -> [Numbers -> Row]]
  BY <1>1 DEF StageEnds, EngineTypeOK
<1>3. \A at \in {"ending", "inputs", "between"}, n \in Numbers :
         [worker[w] EXCEPT !.at = at, !.stage = n] \in Worker
  BY <1>1 DEF Worker
<1>4. \E at \in {"ending", "inputs", "between"}, n \in Numbers :
         worker' = [worker EXCEPT ![w] = [worker[w] EXCEPT !.at = at, !.stage = n]]
  <2>1. worker[w].stage = 20 \/ worker[w].stage + 1 \in Numbers
    <3>1. \A s \in Numbers : s = 20 \/ s + 1 \in Numbers
      BY NumbersAre
    <3> QED
      BY <1>1, <3>1
  <2>2. Len(Stages) = 20
    BY NumbersAre
  <2> QED
    BY <1>1, <2>1, <2>2 DEF StageEnds, EngineTypeOK
<1>5. worker' \in [Workers -> Worker]
  <2>1. PICK at \in {"ending", "inputs", "between"}, n \in Numbers :
           worker' = [worker EXCEPT ![w] = [worker[w] EXCEPT !.at = at, !.stage = n]]
    BY <1>4
  <2>2. [worker[w] EXCEPT !.at = at, !.stage = n] \in Worker
    BY <1>3
  <2> QED
    BY <2>1, <2>2 DEF EngineTypeOK
<1> QED
  BY <1>2, <1>5

LEMMA StageRaisesTyped ==
    ASSUME EngineTypeOK, WorkersOK, NEW w \in Workers, worker[w].at = "running", StageRaises(w)
    PROVE  row' \in [Jobs -> [Numbers -> Row]] /\ worker' \in [Workers -> Worker]
<1>1. worker[w] \in Worker /\ worker[w].job \in Jobs /\ worker[w].stage \in Numbers
  BY WorkerIs DEF Busy
<1>2. row' \in [Jobs -> [Numbers -> Row]]
  BY <1>1 DEF StageRaises, EngineTypeOK, Row
<1>3. [worker[w] EXCEPT !.at = "raising", !.why = Stages[worker[w].stage]] \in Worker
  BY <1>1 DEF Worker
<1>4. worker' = [worker EXCEPT ![w] = [worker[w] EXCEPT !.at = "raising", !.why = Stages[worker[w].stage]]]
  BY DEF StageRaises, EngineTypeOK
<1> QED
  BY <1>2, <1>3, <1>4 DEF EngineTypeOK

LEMMA StoreTyped ==
    ASSUME EngineTypeOK, NEW w \in Workers, worker[w].job \in Jobs, NEW a, Store(w, a)
    PROVE  object' \in [Jobs -> [stored : [Artifacts -> Content], exported : [Artifacts -> Content]]]
<1> DEFINE j == worker[w].job
           new == [x \in Artifacts |-> IF x \notin WrittenBy(w, a) THEN object[j].stored[x]
                                       ELSE IF a \in Defects THEN "flawed" ELSE "good"]
<1>1. object[j] \in [stored : [Artifacts -> Content], exported : [Artifacts -> Content]]
  BY DEF EngineTypeOK
<1>2. new \in [Artifacts -> Content]
  BY <1>1 DEF Content
<1>3. object' = [object EXCEPT ![j] = [object[j] EXCEPT !.stored = new]]
  BY DEF Store, EngineTypeOK
<1> HIDE DEF new
<1>4. [object[j] EXCEPT !.stored = new] \in [stored : [Artifacts -> Content], exported : [Artifacts -> Content]]
  BY <1>1, <1>2
<1> QED
  BY <1>3, <1>4 DEF EngineTypeOK

LEMMA OperatesTyped ==
    ASSUME EngineTypeOK, WorkersOK, NEW w \in Workers, Operates(w)
    PROVE  EngineTypeOK' /\ kept' = kept
<1> DEFINE j == worker[w].job
<1>0. worker[w].at = "running"
  BY DEF Operates, StageSucceeds, Plain, SkipReferenceImage, Skippable, CreateWorld, Judge,
         ExportDataset, StageFails, StageHangs, In
<1>1. worker[w] \in Worker /\ j \in Jobs /\ worker[w].stage \in Numbers
  BY <1>0, WorkerIs DEF Busy
<1>2. {"succeeded", "skipped"} \subseteq Row
  BY DEF Row
<1>3. ASSUME NEW a, StageSucceeds(w, a) PROVE EngineTypeOK' /\ kept' = kept
  <2>1. /\ row' \in [Jobs -> [Numbers -> Row]] /\ worker' \in [Workers -> Worker]
        /\ object' \in [Jobs -> [stored : [Artifacts -> Content], exported : [Artifacts -> Content]]]
    BY <1>0, <1>1, <1>2, <1>3, StageEndsTyped, StoreTyped DEF StageSucceeds
  <2> QED
    BY <1>3, <2>1 DEF StageSucceeds, EngineTypeOK, historyVars
<1>4. CASE SkipReferenceImage(w)
  <2>1. row' \in [Jobs -> [Numbers -> Row]] /\ worker' \in [Workers -> Worker]
    BY <1>0, <1>2, <1>4, StageEndsTyped DEF SkipReferenceImage
  <2> QED
    BY <1>4, <2>1 DEF SkipReferenceImage, EngineTypeOK, historyVars
<1>5. CASE CreateWorld(w)
  <2>1. /\ row' \in [Jobs -> [Numbers -> Row]] /\ worker' \in [Workers -> Worker]
        /\ object' \in [Jobs -> [stored : [Artifacts -> Content], exported : [Artifacts -> Content]]]
    BY <1>0, <1>1, <1>2, <1>5, StageEndsTyped, StoreTyped DEF CreateWorld
  <2>2. Chosen(worker[w].inputs, job[j].photos) \in SUBSET Nat
    BY <1>1 DEF Chosen, Worker
  <2>3. sent' \in [Jobs -> SUBSET Nat]
    BY <1>1, <1>5, <2>2 DEF CreateWorld, EngineTypeOK
  <2> QED
    BY <1>5, <2>1, <2>3 DEF CreateWorld, EngineTypeOK
<1>6. ASSUME NEW v \in Verdicts, Judge(w, v) PROVE EngineTypeOK' /\ kept' = kept
  <2>1. /\ row' \in [Jobs -> [Numbers -> Row]] /\ worker' \in [Workers -> Worker]
        /\ object' \in [Jobs -> [stored : [Artifacts -> Content], exported : [Artifacts -> Content]]]
    BY <1>0, <1>1, <1>2, <1>6, StageEndsTyped, StageRaisesTyped, StoreTyped DEF Judge
  <2> DEFINE accepted == AcceptedBy(v, Threshold(j))
  <2>2. accepted \in SUBSET Samples
    BY DEF AcceptedBy
  <2>3. dataset' = [dataset EXCEPT ![j] = [dataset[j] EXCEPT !.accepted = accepted]]
    BY <1>1, <1>6 DEF Judge, EngineTypeOK
  <2> HIDE DEF accepted
  <2>4. dataset' \in [Jobs -> [accepted : SUBSET Samples, exported : SUBSET Samples]]
    <3>1. dataset[j] \in [accepted : SUBSET Samples, exported : SUBSET Samples]
      BY <1>1 DEF EngineTypeOK
    <3>2. [dataset[j] EXCEPT !.accepted = accepted] \in [accepted : SUBSET Samples, exported : SUBSET Samples]
      BY <2>2, <3>1
    <3> QED
      BY <2>3, <3>2 DEF EngineTypeOK
  <2>5. verdict' \in [Jobs -> SUBSET Verdicts]
    BY <1>1, <1>6 DEF Judge, EngineTypeOK
  <2> QED
    BY <1>6, <2>1, <2>4, <2>5 DEF Judge, EngineTypeOK
<1>7. CASE ExportDataset(w)
  <2>1. row' \in [Jobs -> [Numbers -> Row]] /\ worker' \in [Workers -> Worker]
    BY <1>0, <1>2, <1>7, StageEndsTyped DEF ExportDataset
  <2> DEFINE stored == object[j].stored
             e == [x \in Artifacts |-> IF x \in ReadsOf(w) THEN stored[x]
                                       ELSE IF x \in Made THEN "good" ELSE object[j].exported[x]]
             s == [x \in Artifacts |-> IF x \in Made THEN "good" ELSE object[j].stored[x]]
  <2>2. object[j] \in [stored : [Artifacts -> Content], exported : [Artifacts -> Content]]
    BY <1>1 DEF EngineTypeOK
  <2>3. e \in [Artifacts -> Content] /\ s \in [Artifacts -> Content]
    BY <2>2 DEF Content
  <2>4. object' = [object EXCEPT ![j] = [object[j] EXCEPT !.exported = e, !.stored = s]]
    BY <1>1, <1>7 DEF ExportDataset, EngineTypeOK
  <2> HIDE DEF e, s
  <2>5. object' \in [Jobs -> [stored : [Artifacts -> Content], exported : [Artifacts -> Content]]]
    BY <1>1, <2>2, <2>3, <2>4 DEF EngineTypeOK
  <2>6. dataset' \in [Jobs -> [accepted : SUBSET Samples, exported : SUBSET Samples]]
    <3>1. dataset' = [dataset EXCEPT ![j] = [dataset[j] EXCEPT !.exported = dataset[j].accepted]]
      BY <1>1, <1>7 DEF ExportDataset, EngineTypeOK
    <3>2. dataset[j] \in [accepted : SUBSET Samples, exported : SUBSET Samples]
      BY <1>1 DEF EngineTypeOK
    <3>3. [dataset[j] EXCEPT !.exported = dataset[j].accepted]
             \in [accepted : SUBSET Samples, exported : SUBSET Samples]
      BY <3>2
    <3> QED
      BY <3>1, <3>3 DEF EngineTypeOK
  <2> QED
    BY <1>7, <2>1, <2>5, <2>6 DEF ExportDataset, EngineTypeOK, historyVars
<1>8. CASE StageFails(w)
  <2>1. row' \in [Jobs -> [Numbers -> Row]] /\ worker' \in [Workers -> Worker]
    BY <1>0, <1>8, StageRaisesTyped DEF StageFails
  <2> QED
    BY <1>8, <2>1 DEF StageFails, EngineTypeOK, historyVars
<1>9. CASE StageHangs(w)
  <2>1. [worker[w] EXCEPT !.at = "hung"] \in Worker
    BY <1>1 DEF Worker
  <2>2. worker' = [worker EXCEPT ![w] = [worker[w] EXCEPT !.at = "hung"]]
    BY <1>9 DEF StageHangs, EngineTypeOK
  <2> QED
    BY <1>1, <1>9, <2>1, <2>2 DEF StageHangs, EngineTypeOK
<1> QED
  BY <1>3, <1>4, <1>5, <1>6, <1>7, <1>8, <1>9 DEF Operates

LEMMA WorksTyped ==
    ASSUME EngineTypeOK, WorkersOK, NEW w \in Workers, Works(w) \/ StorageFails(w) \/ ReadFails(w) \/ LosesTheJob(w)
    PROVE  EngineTypeOK' /\ kept' = kept
<1> DEFINE j == worker[w].job
           m == worker[w]
<1>1. m \in Worker /\ (m.at # "idle" => j \in Jobs) /\ (m.at \in Busy => m.stage \in Numbers)
  BY WorkerIs
<1>i. IdleWorker \in Worker
  BY DEF IdleWorker, Worker
<1>2. CASE Pick(w)
  <2>1. \A k \in Jobs : [IdleWorker EXCEPT !.at = "picked", !.job = k] \in Worker
    BY DEF IdleWorker, Worker
  <2>2. Oldest \subseteq Jobs
    BY DEF Oldest, Queued
  <2>3. PICK k \in Jobs :
           worker' = [worker EXCEPT ![w] = [IdleWorker EXCEPT !.at = "picked", !.job = k]]
    BY <1>2, <2>2 DEF Pick
  <2>4. worker' \in [Workers -> Worker]
    BY <2>1, <2>3 DEF EngineTypeOK
  <2> QED
    BY <1>2, <2>4 DEF Pick, EngineTypeOK, historyVars
<1>3. CASE Start(w)
  <2>1. [job[j] EXCEPT !.status = "running"] \in Job
    BY <1>1, <1>3, JobWith DEF Start, EngineTypeOK
  <2>n. 1 \in Numbers
    BY NumbersAre
  <2>2. [m EXCEPT !.at = "between", !.stage = 1] \in Worker
    BY <1>1, <2>n DEF Worker
  <2>3. /\ worker' = [worker EXCEPT ![w] = [m EXCEPT !.at = "between", !.stage = 1]]
        /\ job' = [job EXCEPT ![j] = [job[j] EXCEPT !.status = "running"]]
    BY <1>1, <1>3 DEF Start, EngineTypeOK
  <2> QED
    BY <1>1, <1>3, <2>1, <2>2, <2>3 DEF Start, EngineTypeOK, historyVars
<1>4. CASE BeginStage(w)
  <2>0. j \in Jobs /\ m.stage \in Numbers
    BY <1>1, <1>4 DEF BeginStage, Busy
  <2>1. [job[j] EXCEPT !.stage = m.stage] \in Job
    BY <2>0, JobWith DEF EngineTypeOK
  <2>2. [m EXCEPT !.at = "running"] \in Worker
    BY <1>1 DEF Worker
  <2>3. /\ worker' = [worker EXCEPT ![w] = [m EXCEPT !.at = "running"]]
        /\ job' = [job EXCEPT ![j] = [job[j] EXCEPT !.stage = m.stage]]
    BY <2>0, <1>4 DEF BeginStage, EngineTypeOK
  <2>4. row' \in [Jobs -> [Numbers -> Row]]
    BY <2>0, <1>4 DEF BeginStage, EngineTypeOK, Row
  <2> QED
    BY <2>0, <1>4, <2>1, <2>2, <2>3, <2>4 DEF BeginStage, EngineTypeOK, historyVars
<1>5. CASE CopyInputs(w)
  <2>0. j \in Jobs
    BY <1>1, <1>5 DEF CopyInputs
  <2>1. SurvivorsOf(job[j].photos) \subseteq SUBSET Nat
    <3>1. job[j].photos \in Seq(Nat)
      BY <2>0 DEF EngineTypeOK, Job
    <3>2. DOMAIN job[j].photos \subseteq Nat
      BY <3>1
    <3> QED
      BY <3>2 DEF SurvivorsOf
  <2>2. PICK S \in SurvivorsOf(job[j].photos) :
           worker' = [worker EXCEPT ![w] = [m EXCEPT !.at = "between", !.inputs = S]]
    BY <1>5 DEF CopyInputs, EngineTypeOK
  <2>3. [m EXCEPT !.at = "between", !.inputs = S] \in Worker
    BY <1>1, <2>1 DEF Worker
  <2> QED
    BY <1>5, <2>2, <2>3 DEF CopyInputs, EngineTypeOK, historyVars
<1>6. CASE Operates(w)
  BY <1>6, OperatesTyped
<1>7. CASE JobSucceeds(w)
  <2>0. j \in Jobs
    BY <1>1, <1>7 DEF JobSucceeds
  <2> DEFINE e == Copied \cup Made \cup (IF job[j].mode = "text" THEN {"image"} ELSE {})
             b == [job[j] EXCEPT !.status = "succeeded", !.stage = Len(Stages), !.reason = "none",
                                 !.exports = e]
  <2>1. e \subseteq Artifacts
    BY ArtifactsAre
  <2>2. job' = [job EXCEPT ![j] = b]
    BY <2>0, <1>7 DEF JobSucceeds, EngineTypeOK
  <2>3. Len(Stages) \in Numbers
    BY NumbersAre
  <2> HIDE DEF e
  <2>4. b \in Job
    BY <2>0, <2>1, <2>3, JobWith DEF EngineTypeOK
  <2> QED
    BY <1>7, <1>i, <2>0, <2>2, <2>4 DEF JobSucceeds, EngineTypeOK, historyVars
<1>8. CASE JobFails(w)
  <2>0. j \in Jobs /\ m.why \in {"none", "between"} \cup {Stages[n] : n \in Numbers}
    BY <1>1, <1>8 DEF JobFails, Worker
  <2>1. [job[j] EXCEPT !.status = "failed", !.reason = m.why] \in Job
    BY <2>0, JobWith DEF EngineTypeOK
  <2>2. job' = [job EXCEPT ![j] = [job[j] EXCEPT !.status = "failed", !.reason = m.why]]
    BY <2>0, <1>8 DEF JobFails, EngineTypeOK
  <2> QED
    BY <1>8, <1>i, <2>0, <2>1, <2>2 DEF JobFails, EngineTypeOK, historyVars
<1>9. CASE StorageFails(w) \/ ReadFails(w)
  <2> USE DEF StorageFails, ReadFails, RaisesHere
  <2>f. faults' \in 0 .. MaxFaults
    BY <1>9 DEF Fault, EngineTypeOK
  <2>1. CASE m.at = "running"
    <3>1. row' \in [Jobs -> [Numbers -> Row]] /\ worker' \in [Workers -> Worker]
      BY <1>9, <2>1, StageRaisesTyped
    <3> QED
      BY <1>9, <2>f, <3>1 DEF EngineTypeOK, historyVars
  <2>2. CASE m.at # "running"
    <3>1. [m EXCEPT !.at = "raising", !.why = "between"] \in Worker
      BY <1>1 DEF Worker
    <3>2. worker' = [worker EXCEPT ![w] = [m EXCEPT !.at = "raising", !.why = "between"]] /\ UNCHANGED row
      BY <1>9, <2>2 DEF EngineTypeOK
    <3> QED
      BY <1>9, <2>f, <3>1, <3>2 DEF EngineTypeOK, historyVars
  <2> QED
    BY <2>1, <2>2
<1>10. CASE LosesTheJob(w)
  <2>1. faults' \in 0 .. MaxFaults /\ j \in Jobs
    BY <1>1, <1>10 DEF LosesTheJob, Fault, EngineTypeOK
  <2> QED
    BY <1>10, <1>i, <2>1 DEF LosesTheJob, EngineTypeOK
<1> QED
  BY <1>2, <1>3, <1>4, <1>5, <1>6, <1>7, <1>8, <1>9, <1>10 DEF Works

-----------------------------------------------------------------------------
(***************************************************************************)
(* Steps keep JobsOK and WorkersOK                                         *)
(***************************************************************************)
LEMMA OneJobChanges ==
    ASSUME JobsOK, NEW j \in Jobs,
           \A k \in Jobs \ {j} :
              /\ job'[k] = job[k] /\ row'[k] = row[k] /\ object'[k] = object[k]
              /\ dataset'[k] = dataset[k] /\ sent'[k] = sent[k] /\ verdict'[k] = verdict[k],
           JobOK(job'[j], row'[j], object'[j], dataset'[j], sent'[j], verdict'[j])
    PROVE  JobsOK'
  BY DEF JobsOK

LEMMA OneWorkerChanges ==
    ASSUME OneWorker, NEW w \in Workers,
           worker'[w].at # "idle" =>
              /\ worker'[w].job \in Jobs
              /\ WorkerOK(worker'[w], job'[worker'[w].job], row'[worker'[w].job],
                          object'[worker'[w].job], dataset'[worker'[w].job], verdict'[worker'[w].job])
    PROVE  WorkersOK'
  BY DEF WorkersOK, OneWorker

LEMMA Kept ==
    ASSUME JobsOK, UNCHANGED <<job, row, object, dataset, sent, verdict>>
    PROVE  JobsOK'
  BY DEF JobsOK

\* A request's job is no worker's.
LEMMA RequestSteps ==
    ASSUME EngineInv, NEW j \in Jobs, Request(j)
    PROVE  JobsOK' /\ WorkersOK'
<1> DEFINE b == job[j]
           c == job'[j]
<1>t. job \in [Jobs -> Job] /\ row \in [Jobs -> [Numbers -> Row]] /\ worker \in [Workers -> Worker]
  BY DEF EngineInv, EngineTypeOK
<1>1. JobOK(b, row[j], object[j], dataset[j], sent[j], verdict[j])
  BY DEF EngineInv, JobsOK
<1>2. /\ UNCHANGED <<row, object, dataset, worker, sent, verdict>>
      /\ \A k \in Jobs \ {j} : job'[k] = job[k]
      /\ b.status \in {"none", "open"}
  BY <1>t DEF Request, Open, StorePhoto, Commit, EmptyPhoto, RequestFails, historyVars
<1>3. /\ c.status \in {"open", "queued", "refused"}
      /\ c.stage = 0
      /\ c.photos = b.photos \/ \E q \in Requests : c.photos = q.photos
  <2>0. b.stage = 0
    BY <1>1, <1>2 DEF JobOK, Unstarted
  <2>1. ASSUME NEW q \in Requests, Open(j, q) PROVE <1>3
    BY <1>t, <2>1 DEF Open, NoRequest
  <2>2. CASE StorePhoto(j)
    BY <1>t, <2>0, <2>2 DEF StorePhoto
  <2>3. CASE Commit(j) \/ EmptyPhoto(j) \/ RequestFails(j)
    BY <1>t, <2>0, <2>3 DEF Commit, EmptyPhoto, RequestFails, Job
  <2> QED
    BY <2>1, <2>2, <2>3 DEF Request
<1>4. /\ dataset[j].accepted = {} /\ \A k \in Numbers : row[j][k] = "pending"
      /\ NothingFlawed(object[j])
      /\ Requested(c)
  BY <1>1, <1>2, <1>3 DEF JobOK, Unstarted, Requested
<1>5. row[j][1] = "pending" /\ row[j][5] = "pending"
  BY <1>4, NumbersAre
<1>6. JobOK(c, row[j], object[j], dataset[j], sent[j], verdict[j])
  BY <1>3, <1>4, <1>5 DEF JobOK, Unstarted, Told, Whole, WorldFromPhotos, AcceptedOnly
<1>7. JobsOK'
  BY <1>2, <1>6, OneJobChanges DEF EngineInv
<1>8. ASSUME NEW w \in Workers, worker[w].at # "idle"
      PROVE  worker[w].job # j
  <2>1. worker[w].at \in Busy \cup {"picked"}
    BY <1>t, <1>8 DEF Worker, Busy
  <2>2. worker[w].job \in Jobs => job[worker[w].job].status \in {"queued", "running"}
    BY <1>8, <2>1 DEF EngineInv, WorkersOK, WorkerOK
  <2> QED
    BY <1>2, <2>2
<1>9. WorkersOK'
  BY <1>2, <1>8 DEF EngineInv, WorkersOK
<1> QED
  BY <1>7, <1>9

\* What a busy worker knows.
LEMMA BusyIs ==
    ASSUME EngineInv, NEW w \in Workers, worker[w].at \in Busy
    PROVE  /\ worker[w] \in Worker /\ worker[w].job \in Jobs /\ worker[w].stage \in Numbers
           /\ job[worker[w].job] \in Job
           /\ row[worker[w].job] \in [Numbers -> Row]
           /\ object[worker[w].job] \in [stored : [Artifacts -> Content], exported : [Artifacts -> Content]]
           /\ dataset[worker[w].job] \in [accepted : SUBSET Samples, exported : SUBSET Samples]
           /\ job[worker[w].job].status = "running"
           /\ InStage(worker[w], job[worker[w].job], row[worker[w].job])
           /\ WorkerOK(worker[w], job[worker[w].job], row[worker[w].job], object[worker[w].job],
                       dataset[worker[w].job], verdict[worker[w].job])
           /\ JobOK(job[worker[w].job], row[worker[w].job], object[worker[w].job],
                    dataset[worker[w].job], sent[worker[w].job], verdict[worker[w].job])
<1>1. worker[w].at # "idle"
  BY DEF Busy
<1>2. /\ worker[w].job \in Jobs
      /\ WorkerOK(worker[w], job[worker[w].job], row[worker[w].job], object[worker[w].job],
                  dataset[worker[w].job], verdict[worker[w].job])
  BY <1>1 DEF EngineInv, WorkersOK
<1>3. /\ job[worker[w].job].status = "running"
      /\ InStage(worker[w], job[worker[w].job], row[worker[w].job])
  BY <1>2 DEF WorkerOK
<1>4. worker[w].stage \in Numbers
  BY <1>3 DEF InStage
<1> QED
  BY <1>2, <1>3, <1>4 DEF EngineInv, EngineTypeOK, JobsOK

\* One row of a job changes.
LEMMA OneRow ==
    ASSUME NEW r \in [Numbers -> Row], NEW n \in Numbers, NEW x,
           \A k \in Numbers : k < n => Closed(r[k]),
           \A k \in Numbers : k > n => r[k] = "pending"
    PROVE  LET t == [r EXCEPT ![n] = x]
           IN  /\ t[n] = x /\ \A k \in Numbers : k # n => t[k] = r[k]
               /\ \A k \in Numbers : k < n => Closed(t[k])
               /\ \A k \in Numbers : k > n => t[k] = "pending"
               /\ Closed(x) => \A k \in Numbers : k < n + 1 => Closed(t[k])
               /\ n < 20 => t[n + 1] = "pending" /\ n + 1 \in Numbers
               /\ \A k \in Numbers : k > n + 1 => t[k] = "pending"
<1> DEFINE t == [r EXCEPT ![n] = x]
<1>1. t[n] = x /\ \A k \in Numbers : k # n => t[k] = r[k]
  OBVIOUS
<1>l. Numbers = 1 .. 20
  BY NumbersAre
<1> HIDE DEF t
<1>2. \A k \in Numbers : k < n => Closed(t[k])
  <2> SUFFICES ASSUME NEW k \in Numbers, k < n PROVE Closed(t[k])
    OBVIOUS
  <2>1. k # n
    BY <1>l
  <2> QED
    BY <1>1, <2>1
<1>3. \A k \in Numbers : k > n => t[k] = "pending"
  <2> SUFFICES ASSUME NEW k \in Numbers, k > n PROVE t[k] = "pending"
    OBVIOUS
  <2>1. k # n
    BY <1>l
  <2> QED
    BY <1>1, <2>1
<1>4. Closed(x) => \A k \in Numbers : k < n + 1 => Closed(t[k])
  <2> SUFFICES ASSUME Closed(x), NEW k \in Numbers, k < n + 1 PROVE Closed(t[k])
    OBVIOUS
  <2>1. k < n \/ k = n
    BY <1>l
  <2> QED
    BY <1>1, <1>2, <2>1
<1>5. n < 20 => t[n + 1] = "pending" /\ n + 1 \in Numbers
  <2>1. n < 20 => n + 1 \in Numbers /\ n + 1 > n
    BY <1>l
  <2> QED
    BY <1>3, <2>1
<1>6. \A k \in Numbers : k > n + 1 => t[k] = "pending"
  <2> SUFFICES ASSUME NEW k \in Numbers, k > n + 1 PROVE t[k] = "pending"
    OBVIOUS
  <2>1. k > n
    BY <1>l
  <2> QED
    BY <1>3, <2>1
<1> QED
  BY <1>1, <1>2, <1>3, <1>4, <1>5, <1>6 DEF t

\* The same, of the row that is written out.
LEMMA RowKeeps ==
    ASSUME NEW r \in [Numbers -> Row], NEW n \in Numbers, NEW x,
           \A k \in Numbers : k < n => Closed(r[k]),
           \A k \in Numbers : k > n => r[k] = "pending"
    PROVE  /\ [r EXCEPT ![n] = x][n] = x
           /\ \A k \in Numbers : k < n => Closed([r EXCEPT ![n] = x][k])
           /\ \A k \in Numbers : k > n => [r EXCEPT ![n] = x][k] = "pending"
<1> DEFINE t == [r EXCEPT ![n] = x]
<1>1. t[n] = x /\ (\A k \in Numbers : k < n => Closed(t[k])) /\ \A k \in Numbers : k > n => t[k] = "pending"
  <2> HIDE DEF t
  <2>1. /\ t[n] = x /\ \A k \in Numbers : k # n => t[k] = r[k]
    BY DEF t
  <2>2. \A k \in Numbers : (k < n \/ k > n) => k # n
    BY NumbersAre
  <2> QED
    BY <2>1, <2>2
<1> QED
  BY <1>1

\* The rows and the worker after a stage's operation.
LEMMA EndsInStage ==
    ASSUME EngineInv, NEW w \in Workers, worker[w].at = "running",
           NEW status \in {"succeeded", "skipped"}, StageEnds(w, status)
    PROVE  LET j == worker[w].job
               n == worker[w].stage
           IN  /\ row'[j] = [row[j] EXCEPT ![n] = status]
               /\ \A k \in Jobs \ {j} : row'[k] = row[k]
               /\ worker'[w].job = j /\ worker'[w].inputs = worker[w].inputs
               /\ worker'[w].at \in {"between", "inputs", "ending"}
               /\ worker'[w].at = "ending" <=> n = 20
               /\ worker'[w].at = "inputs" <=> n = 1
               /\ worker'[w].stage = IF n = 20 THEN 20 ELSE n + 1
               /\ InStage(worker'[w], job[j], row'[j])
<1> DEFINE j == worker[w].job
           n == worker[w].stage
           m == worker'[w]
<1>1. /\ worker[w] \in Worker /\ j \in Jobs /\ n \in 1 .. 20 /\ row[j] \in [Numbers -> Row]
      /\ InStage(worker[w], job[j], row[j])
  BY BusyIs, NumbersAre DEF Busy
<1>2. /\ row'[j] = [row[j] EXCEPT ![n] = status]
      /\ \A k \in Jobs \ {j} : row'[k] = row[k]
  BY <1>1 DEF StageEnds, EngineInv, EngineTypeOK
<1>l. Len(Stages) = 20 /\ Numbers = 1 .. 20
  BY NumbersAre
<1>3. /\ m.job = j /\ m.inputs = worker[w].inputs
      /\ m.at = IF n = 20 THEN "ending" ELSE IF n = 1 THEN "inputs" ELSE "between"
      /\ m.stage = IF n = 20 THEN 20 ELSE n + 1
  BY <1>1, <1>l DEF StageEnds, EngineInv, EngineTypeOK, Worker
<1>4. job[j].stage = n
  BY <1>1 DEF InStage
<1>5. /\ \A k \in Numbers : k < n => Closed(row[j][k])
      /\ \A k \in Numbers : k > n => row[j][k] = "pending"
  BY <1>1 DEF InStage
<1>c. Closed(status)
  BY DEF Closed
<1> DEFINE r == row[j]
           t == [r EXCEPT ![n] = status]
           b == job[j]
<1>x. row'[j] = t /\ b.stage = n /\ n \in 1 .. 20
  BY <1>1, <1>2, <1>4
<1>r. /\ r \in [Numbers -> Row] /\ n \in Numbers
      /\ \A k \in Numbers : k < n => Closed(r[k])
      /\ \A k \in Numbers : k > n => r[k] = "pending"
  BY <1>1, <1>5, <1>l
<1> HIDE DEF b, r, n, m, j
<1>6. /\ t[n] = status
      /\ \A k \in Numbers : k < n => Closed(t[k])
      /\ \A k \in Numbers : k > n => t[k] = "pending"
      /\ \A k \in Numbers : k < n + 1 => Closed(t[k])
      /\ n < 20 => t[n + 1] = "pending" /\ n + 1 \in Numbers
      /\ \A k \in Numbers : k > n + 1 => t[k] = "pending"
  BY <1>r, <1>c, OneRow
<1> HIDE DEF t
<1>7. ASSUME n = 20 PROVE InStage(m, b, t)
  BY <1>3, <1>6, <1>7, <1>c, <1>l, <1>x DEF InStage
<1>8. ASSUME n < 20 PROVE InStage(m, b, t)
  <2>1. m.stage = n + 1 /\ m.stage \in Numbers
    BY <1>3, <1>6, <1>8, <1>x
  <2>4. m.at \in {"between", "inputs"} /\ (m.at = "inputs" => m.stage = 2)
    BY <1>3, <1>8, <1>x
  <2>5. b.stage = m.stage - 1
    BY <1>x, <2>1
  <2>6. t[m.stage] = "pending"
    BY <1>6, <1>8, <2>1
  <2>7. InStage(m, b, t)
    BY <1>6, <2>1, <2>4, <2>5, <2>6 DEF InStage
  <2> QED
    BY <2>7
<1>y. InStage(m, b, t)
  BY <1>x, <1>7, <1>8
<1>9. InStage(m, job[j], row'[j])
  BY <1>x, <1>y DEF b
<1> QED
  BY <1>1, <1>2, <1>3, <1>9, <1>l DEF n, j, m

LEMMA RaisesInStage ==
    ASSUME EngineInv, NEW w \in Workers, worker[w].at = "running", StageRaises(w)
    PROVE  LET j == worker[w].job
               n == worker[w].stage
           IN  /\ row'[j] = [row[j] EXCEPT ![n] = "failed"]
               /\ \A k \in Jobs \ {j} : row'[k] = row[k]
               /\ worker'[w].job = j /\ worker'[w].at = "raising"
               /\ InStage(worker'[w], job[j], row'[j])
<1> DEFINE j == worker[w].job
           n == worker[w].stage
           m == worker'[w]
<1>1. /\ worker[w] \in Worker /\ j \in Jobs /\ n \in Numbers /\ row[j] \in [Numbers -> Row]
      /\ InStage(worker[w], job[j], row[j])
  BY BusyIs DEF Busy
<1>2. /\ row'[j] = [row[j] EXCEPT ![n] = "failed"]
      /\ \A k \in Jobs \ {j} : row'[k] = row[k]
  BY <1>1 DEF StageRaises, EngineInv, EngineTypeOK
<1>3. m.job = j /\ m.at = "raising" /\ m.why = Stages[n] /\ m.stage = n
  BY <1>1 DEF StageRaises, EngineInv, EngineTypeOK, Worker
<1>4. /\ job[j].stage = n
      /\ \A k \in Numbers : k < n => Closed(row[j][k])
      /\ \A k \in Numbers : k > n => row[j][k] = "pending"
  BY <1>1 DEF InStage
<1>l. Numbers = 1 .. 20
  BY NumbersAre
<1> DEFINE r == row[j]
           new == "failed"
           t == [r EXCEPT ![n] = new]
           b == job[j]
<1>x. row'[j] = t /\ b.stage = n
  BY <1>1, <1>2, <1>4
<1>r. /\ r \in [Numbers -> Row] /\ n \in Numbers
      /\ \A k \in Numbers : k < n => Closed(r[k])
      /\ \A k \in Numbers : k > n => r[k] = "pending"
  BY <1>1, <1>4
<1> HIDE DEF b, r, n, m, j, new
<1>5. /\ t[n] = new
      /\ \A k \in Numbers : k < n => Closed(t[k])
      /\ \A k \in Numbers : k > n => t[k] = "pending"
  <2>1. ASSUME NEW x
        PROVE  /\ [r EXCEPT ![n] = x][n] = x
               /\ \A k \in Numbers : k < n => Closed([r EXCEPT ![n] = x][k])
               /\ \A k \in Numbers : k > n => [r EXCEPT ![n] = x][k] = "pending"
    BY <1>r, RowKeeps, ZenonT(20)
  <2> QED
    BY <2>1
<1> HIDE DEF t
<1>6. InStage(m, b, t)
  BY <1>3, <1>5, <1>x, <1>r DEF InStage, new
<1>7. InStage(m, job[j], row'[j])
  BY <1>x, <1>6 DEF b
<1> QED
  BY <1>2, <1>3, <1>7 DEF n, j, m

\* A running job's record after a step that moves only rows and objects.
LEMMA StillRunning ==
    ASSUME NEW b, NEW c, NEW r, NEW t, NEW o, NEW p, NEW d, NEW e, NEW s, NEW v,
           JobOK(b, r, o, d, s, v), c.status = "running",
           c.mode = b.mode, c.photos = b.photos, c.asked = b.asked,
           t[1] # "skipped", t[5] = "succeeded" => r[5] = "succeeded",
           NothingFlawed(p), e.accepted = d.accepted
    PROVE  JobOK(c, t, p, e, s, v)
  BY DEF JobOK, Unstarted, Told, Whole, WorldFromPhotos, AcceptedOnly, Requested

LEMMA PickSteps ==
    ASSUME EngineInv, OneWorker, NEW w \in Workers, Pick(w)
    PROVE  JobsOK' /\ WorkersOK'
<1>1. JobsOK'
  BY Kept DEF Pick, EngineInv, historyVars
<1>2. PICK k \in Oldest : worker' = [worker EXCEPT ![w] = [IdleWorker EXCEPT !.at = "picked", !.job = k]]
  BY DEF Pick
<1>3. k \in Jobs /\ job'[k].status = "queued"
  BY <1>2 DEF Oldest, Queued, Pick
<1>4. worker'[w].at = "picked" /\ worker'[w].job = k
  BY <1>2 DEF IdleWorker, EngineInv, EngineTypeOK
<1>5. WorkersOK'
  BY <1>3, <1>4, OneWorkerChanges DEF WorkerOK, Busy
<1> QED
  BY <1>1, <1>5

LEMMA StartSteps ==
    ASSUME EngineInv, OneWorker, NEW w \in Workers, Start(w)
    PROVE  JobsOK' /\ WorkersOK'
<1> DEFINE j == worker[w].job
           b == job[j]
           c == job'[j]
           r == row[j]
           m == worker'[w]
<1>1. j \in Jobs /\ b.status = "queued" /\ b \in Job /\ worker[w] \in Worker
  BY DEF Start, EngineInv, EngineTypeOK, WorkersOK, WorkerOK
<1>2. JobOK(b, r, object[j], dataset[j], sent[j], verdict[j])
  BY <1>1 DEF EngineInv, JobsOK
<1>3. /\ c = [b EXCEPT !.status = "running"] /\ \A k \in Jobs \ {j} : job'[k] = job[k]
      /\ m = [worker[w] EXCEPT !.at = "between", !.stage = 1]
      /\ UNCHANGED <<row, object, dataset, sent, verdict>>
  BY <1>1 DEF Start, EngineInv, EngineTypeOK, historyVars
<1>4. c.status = "running" /\ c.mode = b.mode /\ c.photos = b.photos /\ c.asked = b.asked /\ c.stage = b.stage
  BY <1>1, <1>3 DEF Job
<1>5. m.at = "between" /\ m.stage = 1 /\ m.job = j
  BY <1>1, <1>3 DEF Worker
<1>6. b.stage = 0 /\ \A k \in Numbers : r[k] = "pending"
  BY <1>1, <1>2 DEF JobOK, Unstarted
<1>7. r[1] # "skipped" /\ NothingFlawed(object[j])
  BY <1>2 DEF JobOK
<1> HIDE DEF b, c, r, m
<1>8. JobOK(c, r, object[j], dataset[j], sent[j], verdict[j])
  BY <1>2, <1>4, <1>7, StillRunning
<1>9. JobsOK'
  BY <1>1, <1>3, <1>8, OneJobChanges DEF EngineInv, c, r
<1>10. InStage(m, c, r)
  BY <1>4, <1>5, <1>6, NumbersAre DEF InStage
<1>11. WorkerOK(m, c, r, object[j], dataset[j], verdict[j])
  BY <1>4, <1>5, <1>10 DEF WorkerOK
<1>12. WorkersOK'
  BY <1>1, <1>3, <1>5, <1>11, OneWorkerChanges DEF c, r, m
<1> QED
  BY <1>9, <1>12

LEMMA BeginSteps ==
    ASSUME EngineInv, OneWorker, NEW w \in Workers, BeginStage(w)
    PROVE  JobsOK' /\ WorkersOK'
<1> DEFINE j == worker[w].job
           n == worker[w].stage
           b == job[j]
           c == job'[j]
           r == row[j]
           t == [r EXCEPT ![n] = "running"]
           m == worker[w]
           mm == worker'[w]
<1>0. m.at = "between"
  BY DEF BeginStage
<1>1. /\ m \in Worker /\ j \in Jobs /\ n \in Numbers /\ b \in Job /\ r \in [Numbers -> Row]
      /\ b.status = "running"
      /\ InStage(m, b, r)
      /\ WorkerOK(m, b, r, object[j], dataset[j], verdict[j])
      /\ JobOK(b, r, object[j], dataset[j], sent[j], verdict[j])
  BY <1>0, BusyIs DEF Busy
<1>2. /\ c = [b EXCEPT !.stage = n] /\ \A k \in Jobs \ {j} : job'[k] = job[k]
      /\ row'[j] = t /\ \A k \in Jobs \ {j} : row'[k] = row[k]
      /\ mm = [m EXCEPT !.at = "running"]
      /\ UNCHANGED <<object, dataset, sent, verdict>>
  BY <1>1 DEF BeginStage, EngineInv, EngineTypeOK, historyVars
<1>3. /\ c.status = "running" /\ c.mode = b.mode /\ c.photos = b.photos /\ c.asked = b.asked
      /\ c.stage = n
  BY <1>1, <1>2 DEF Job
<1>4. mm.at = "running" /\ mm.stage = n /\ mm.job = j /\ mm.inputs = m.inputs
  BY <1>1, <1>2 DEF Worker
<1>5. /\ \A k \in Numbers : k < n => Closed(r[k])
      /\ \A k \in Numbers : k > n => r[k] = "pending"
  BY <1>1 DEF InStage
<1>6. r[1] # "skipped" /\ NothingFlawed(object[j])
  BY <1>1 DEF JobOK
<1>m. m.stage = n
  OBVIOUS
<1>7. /\ t[n] = "running"
      /\ \A k \in Numbers : k < n => Closed(t[k])
      /\ \A k \in Numbers : k > n => t[k] = "pending"
      /\ t[1] # "skipped" /\ (t[5] = "succeeded" => r[5] = "succeeded")
  <2> HIDE DEF n, r
  <2>1. ASSUME NEW x
        PROVE  /\ [r EXCEPT ![n] = x][n] = x
               /\ \A k \in Numbers : k < n => Closed([r EXCEPT ![n] = x][k])
               /\ \A k \in Numbers : k > n => [r EXCEPT ![n] = x][k] = "pending"
    BY <1>1, <1>5, RowKeeps, ZenonT(20)
  <2>2. t[1] # "skipped" /\ (t[5] = "succeeded" => r[5] = "succeeded")
    BY <1>1, <1>6, NumbersAre
  <2> QED
    BY <2>1, <2>2
<1> HIDE DEF b, c, r, t, m, mm, n
<1>8. JobOK(c, t, object[j], dataset[j], sent[j], verdict[j])
  BY <1>1, <1>3, <1>6, <1>7, StillRunning
<1>9. JobsOK'
  BY <1>1, <1>2, <1>8, OneJobChanges DEF EngineInv, c
<1>10. InStage(mm, c, t)
  BY <1>1, <1>3, <1>4, <1>7 DEF InStage
<1>11. WorkerOK(mm, c, t, object[j], dataset[j], verdict[j])
  BY <1>0, <1>1, <1>3, <1>4, <1>10, <1>m DEF WorkerOK
<1>12. WorkersOK'
  BY <1>1, <1>2, <1>4, <1>11, OneWorkerChanges DEF c, mm
<1> QED
  BY <1>9, <1>12

LEMMA CopySteps ==
    ASSUME EngineInv, OneWorker, NEW w \in Workers, CopyInputs(w)
    PROVE  JobsOK' /\ WorkersOK'
<1> DEFINE j == worker[w].job
           b == job[j]
           r == row[j]
           m == worker[w]
           mm == worker'[w]
<1>0. m.at = "inputs"
  BY DEF CopyInputs
<1>1. /\ m \in Worker /\ j \in Jobs /\ b.status = "running"
      /\ InStage(m, b, r)
      /\ WorkerOK(m, b, r, object[j], dataset[j], verdict[j])
  BY <1>0, BusyIs DEF Busy
<1>2. PICK S \in SurvivorsOf(b.photos) : mm = [m EXCEPT !.at = "between", !.inputs = S]
  BY DEF CopyInputs, EngineInv, EngineTypeOK
<1>3. mm.at = "between" /\ mm.stage = m.stage /\ mm.job = j /\ mm.inputs = S
  BY <1>1, <1>2 DEF Worker
<1>4. JobsOK'
  BY Kept DEF CopyInputs, EngineInv, historyVars
<1> HIDE DEF b, r, m, mm
<1>5. InStage(mm, b, r) /\ m.stage = 2
  BY <1>0, <1>1, <1>3 DEF InStage
<1>6. WorkerOK(mm, b, r, object[j], dataset[j], verdict[j])
  BY <1>1, <1>2, <1>3, <1>5 DEF WorkerOK
<1>7. WorkersOK'
  BY <1>1, <1>3, <1>6, OneWorkerChanges DEF CopyInputs, historyVars, mm, b, r
<1> QED
  BY <1>4, <1>7

\* The rows of a job whose stage ended other than the world's.
LEMMA EndedRow ==
    ASSUME NEW r \in [Numbers -> Row], NEW n \in Numbers, NEW x, r[1] # "skipped",
           x = "skipped" => n # 1
    PROVE  /\ [r EXCEPT ![n] = x][1] # "skipped"
           /\ (n # 5 \/ x # "succeeded") /\ [r EXCEPT ![n] = x][5] = "succeeded" => r[5] = "succeeded"
  BY NumbersAre

\* A stage that is not the world's is a later one.
LEMMA LaterStage ==
    ASSUME NEW s \in Numbers, NEW at, at = "between", at = "inputs" <=> s = 1
    PROVE  s >= 2
<1>1. s # 1
  OBVIOUS
<1> QED
  BY <1>1, NumbersAre

\* After its operation a worker is between two stages, unless it was the last.
LEMMA GoesOn ==
    ASSUME NEW m, NEW mm, NEW b, NEW t, NEW p, NEW e, NEW d, NEW r, NEW o, NEW v, NEW u,
           WorkerOK(m, b, r, o, d, v), m.at = "running", m.stage \in Numbers,
           InStage(mm, b, t), mm.at \in {"between", "inputs"},
           mm.at = "inputs" <=> m.stage = 1,
           mm.inputs = m.inputs, mm.stage = m.stage + 1,
           m.stage >= 17 => e.accepted # {}
    PROVE  WorkerOK(mm, b, t, p, e, u)
<1>1. b.status = "running"
  BY DEF WorkerOK, Busy
<1>2. mm.at = "between" => m.inputs \in SurvivorsOf(b.photos)
  <2> SUFFICES ASSUME mm.at = "between" PROVE m.inputs \in SurvivorsOf(b.photos)
    OBVIOUS
  <2>1. \A at : \A s \in Numbers : (at = "between" /\ (at = "inputs" <=> s = 1)) => s >= 2
    BY LaterStage
  <2>2. m.stage >= 2
    BY <2>1
  <2> QED
    BY <2>2 DEF WorkerOK
<1>3. mm.stage >= 18 => e.accepted # {}
  <2>1. m.stage \in Nat
    BY NumbersAre
  <2>2. mm.stage >= 18 => m.stage >= 17
    BY <2>1
  <2> QED
    BY <2>2
<1> QED
  BY <1>1, <1>2, <1>3 DEF WorkerOK, Busy

LEMMA SucceedsSteps ==
    ASSUME EngineInv, OneWorker, NEW w \in Workers, NEW a, StageSucceeds(w, a)
    PROVE  JobsOK' /\ WorkersOK'
<1> DEFINE j == worker[w].job
           n == worker[w].stage
           b == job[j]
           r == row[j]
           o == object[j]
           p == object'[j]
           t == row'[j]
           d == dataset[j]
           m == worker[w]
           mm == worker'[w]
<1>0. m.at = "running"
  BY DEF StageSucceeds, Plain
<1>1. /\ m \in Worker /\ j \in Jobs /\ n \in Numbers /\ b \in Job /\ r \in [Numbers -> Row]
      /\ b.status = "running"
      /\ WorkerOK(m, b, r, o, d, verdict[j])
      /\ JobOK(b, r, o, d, sent[j], verdict[j])
  BY <1>0, BusyIs DEF Busy
<1>2. /\ t = [r EXCEPT ![n] = "succeeded"]
      /\ \A k \in Jobs \ {j} : row'[k] = row[k]
      /\ mm.job = j /\ mm.inputs = m.inputs
      /\ mm.at \in {"between", "inputs", "ending"}
      /\ mm.at = "ending" <=> n = 20
      /\ mm.at = "inputs" <=> n = 1
      /\ mm.stage = IF n = 20 THEN 20 ELSE n + 1
      /\ InStage(mm, b, t)
  BY <1>0, EndsInStage DEF StageSucceeds
<1>3. n \notin {5, 17, 20}
  BY <1>1, NamesAre DEF StageSucceeds, Plain
<1>4. NothingFlawed(p) /\ \A k \in Jobs \ {j} : object'[k] = object[k]
  <2>1. NothingFlawed(o)
    BY <1>1 DEF JobOK
  <2>2. a \in Defects => Table[n].writes = {}
    BY <1>1, DefectsWriteNothing DEF StageSucceeds, Accepts, Now
  <2>3. a \in Defects => WrittenBy(w, a) = {}
    BY <2>2 DEF WrittenBy, Now
  <2>4. \A x \in Artifacts : p.stored[x] = IF x \notin WrittenBy(w, a) THEN o.stored[x]
                                           ELSE IF a \in Defects THEN "flawed" ELSE "good"
    BY <1>1 DEF StageSucceeds, Store, EngineInv, EngineTypeOK
  <2>5. NothingFlawed(p)
    BY <2>1, <2>3, <2>4 DEF NothingFlawed
  <2> QED
    BY <1>1, <2>5 DEF StageSucceeds, Store, EngineInv, EngineTypeOK
<1>5. UNCHANGED <<job, dataset, sent, verdict>>
  BY DEF StageSucceeds, historyVars
<1>6. t[1] # "skipped" /\ (t[5] = "succeeded" => r[5] = "succeeded")
  <2> HIDE DEF n, r
  <2>1. r[1] # "skipped"
    BY <1>1 DEF JobOK
  <2>2. n # 5
    BY <1>3
  <2>3. ASSUME NEW x, x # "skipped"
        PROVE  /\ [r EXCEPT ![n] = x][1] # "skipped"
               /\ [r EXCEPT ![n] = x][5] = "succeeded" => r[5] = "succeeded"
    BY <1>1, <2>1, <2>2, <2>3, EndedRow
  <2>4. /\ [r EXCEPT ![n] = "succeeded"][1] # "skipped"
        /\ [r EXCEPT ![n] = "succeeded"][5] = "succeeded" => r[5] = "succeeded"
    BY <2>3
  <2> HIDE DEF t
  <2> QED
    BY <1>2, <2>4
<1>m. m.stage = n
  OBVIOUS
<1> HIDE DEF b, r, o, p, t, d, m, mm, n
<1>7. JobOK(b, t, p, d, sent[j], verdict[j])
  BY <1>1, <1>4, <1>6, StillRunning
<1>8. JobsOK'
  BY <1>1, <1>2, <1>4, <1>5, <1>7, OneJobChanges DEF EngineInv, b, t, p, d
<1>9. mm.at \in {"between", "inputs"} /\ mm.stage = m.stage + 1
  BY <1>2, <1>3, <1>m
<1>10. m.stage >= 17 => d.accepted # {}
  <2> SUFFICES ASSUME m.stage >= 17 PROVE d.accepted # {}
    OBVIOUS
  <2>1. m.stage >= 18
    BY <1>1, <1>3, <1>m, NumbersAre
  <2> QED
    BY <1>0, <1>1, <2>1 DEF WorkerOK
<1>11. WorkerOK(mm, b, t, p, d, verdict[j])
  BY <1>0, <1>1, <1>2, <1>9, <1>10, <1>m, GoesOn
<1>12. WorkersOK'
  BY <1>1, <1>2, <1>5, <1>11, OneWorkerChanges DEF b, t, p, d, mm
<1> QED
  BY <1>8, <1>12

LEMMA SkipSteps ==
    ASSUME EngineInv, OneWorker, NEW w \in Workers, SkipReferenceImage(w)
    PROVE  JobsOK' /\ WorkersOK'
<1> DEFINE j == worker[w].job
           n == worker[w].stage
           b == job[j]
           r == row[j]
           o == object[j]
           t == row'[j]
           d == dataset[j]
           m == worker[w]
           mm == worker'[w]
<1>0. m.at = "running"
  BY DEF SkipReferenceImage, Skippable, In
<1>1. /\ m \in Worker /\ j \in Jobs /\ n \in Numbers /\ b \in Job /\ r \in [Numbers -> Row]
      /\ b.status = "running"
      /\ WorkerOK(m, b, r, o, d, verdict[j])
      /\ JobOK(b, r, o, d, sent[j], verdict[j])
  BY <1>0, BusyIs DEF Busy
<1>2. /\ t = [r EXCEPT ![n] = "skipped"]
      /\ \A k \in Jobs \ {j} : row'[k] = row[k]
      /\ mm.job = j /\ mm.inputs = m.inputs
      /\ mm.at \in {"between", "inputs", "ending"}
      /\ mm.at = "ending" <=> n = 20
      /\ mm.at = "inputs" <=> n = 1
      /\ mm.stage = IF n = 20 THEN 20 ELSE n + 1
      /\ InStage(mm, b, t)
  BY <1>0, EndsInStage DEF SkipReferenceImage
<1>3. n = 4
  BY <1>1, NamesAre DEF SkipReferenceImage, Skippable, In
<1>4. UNCHANGED <<job, object, dataset, sent, verdict>> /\ NothingFlawed(o)
  BY <1>1 DEF SkipReferenceImage, historyVars, JobOK
<1>5. t[1] # "skipped" /\ (t[5] = "succeeded" => r[5] = "succeeded")
  <2>1. r[1] # "skipped"
    BY <1>1 DEF JobOK
  <2> HIDE DEF n, r, t
  <2> QED
    BY <1>1, <1>2, <1>3, <2>1, NumbersAre
<1>m. m.stage = n
  OBVIOUS
<1> HIDE DEF b, r, o, t, d, m, mm, n
<1>6. JobOK(b, t, o, d, sent[j], verdict[j])
  BY <1>1, <1>4, <1>5, StillRunning
<1>7. JobsOK'
  BY <1>1, <1>2, <1>4, <1>6, OneJobChanges DEF EngineInv, b, t, o, d
<1>8. mm.at \in {"between", "inputs"} /\ mm.stage = m.stage + 1
  BY <1>2, <1>3, <1>m
<1>9. WorkerOK(mm, b, t, o, d, verdict[j])
  BY <1>0, <1>1, <1>2, <1>3, <1>8, <1>m, GoesOn
<1>10. WorkersOK'
  BY <1>1, <1>2, <1>4, <1>9, OneWorkerChanges DEF b, t, o, d, mm
<1> QED
  BY <1>7, <1>10

LEMMA WorldSteps ==
    ASSUME EngineInv, OneWorker, NEW w \in Workers, CreateWorld(w)
    PROVE  JobsOK' /\ WorkersOK'
<1> DEFINE j == worker[w].job
           n == worker[w].stage
           b == job[j]
           r == row[j]
           o == object[j]
           p == object'[j]
           t == row'[j]
           d == dataset[j]
           s == sent'[j]
           m == worker[w]
           mm == worker'[w]
<1>0. m.at = "running"
  BY DEF CreateWorld, In
<1>1. /\ m \in Worker /\ j \in Jobs /\ n \in Numbers /\ b \in Job /\ r \in [Numbers -> Row]
      /\ b.status = "running"
      /\ WorkerOK(m, b, r, o, d, verdict[j])
      /\ JobOK(b, r, o, d, sent[j], verdict[j])
  BY <1>0, BusyIs DEF Busy
<1>2. /\ t = [r EXCEPT ![n] = "succeeded"]
      /\ \A k \in Jobs \ {j} : row'[k] = row[k]
      /\ mm.job = j /\ mm.inputs = m.inputs
      /\ mm.at \in {"between", "inputs", "ending"}
      /\ mm.at = "ending" <=> n = 20
      /\ mm.at = "inputs" <=> n = 1
      /\ mm.stage = IF n = 20 THEN 20 ELSE n + 1
      /\ InStage(mm, b, t)
  BY <1>0, EndsInStage DEF CreateWorld
<1>3. n = 5
  BY <1>1, NamesAre DEF CreateWorld, In
<1>4. NothingFlawed(p) /\ \A k \in Jobs \ {j} : object'[k] = object[k]
  <2>1. NothingFlawed(o)
    BY <1>1 DEF JobOK
  <2>2. \A x \in Artifacts : p.stored[x] = IF x \notin WrittenBy(w, "good") THEN o.stored[x] ELSE "good"
    BY <1>1 DEF CreateWorld, Store, EngineInv, EngineTypeOK, Defects
  <2>3. NothingFlawed(p)
    BY <2>1, <2>2 DEF NothingFlawed
  <2> QED
    BY <1>1, <2>3 DEF CreateWorld, Store, EngineInv, EngineTypeOK
<1>5. /\ UNCHANGED <<job, dataset, verdict>>
      /\ \A k \in Jobs \ {j} : sent'[k] = sent[k]
      /\ b.mode = "photos" => m.inputs # {} /\ s = Chosen(m.inputs, b.photos)
  BY <1>1 DEF CreateWorld, EngineInv, EngineTypeOK
<1>m. m.stage = n
  OBVIOUS
<1>6. t[1] # "skipped"
  <2>1. r[1] # "skipped"
    BY <1>1 DEF JobOK
  <2> HIDE DEF n, r, t
  <2> QED
    BY <1>1, <1>2, <1>3, <2>1, NumbersAre
<1> HIDE DEF b, r, o, p, t, d, s, m, mm, n
<1>7. m.inputs \in SurvivorsOf(b.photos)
  BY <1>0, <1>1, <1>3, <1>m DEF WorkerOK
<1>8. JobOK(b, t, p, d, s, verdict[j])
  BY <1>1, <1>4, <1>5, <1>6, <1>7 DEF JobOK, Unstarted, Told, Whole, WorldFromPhotos
<1>9. JobsOK'
  BY <1>1, <1>2, <1>4, <1>5, <1>8, OneJobChanges DEF EngineInv, b, t, p, d, s
<1>10. mm.at \in {"between", "inputs"} /\ mm.stage = m.stage + 1
  BY <1>2, <1>3, <1>m
<1>11. WorkerOK(mm, b, t, p, d, verdict[j])
  BY <1>0, <1>1, <1>2, <1>3, <1>10, <1>m, GoesOn
<1>12. WorkersOK'
  BY <1>1, <1>2, <1>5, <1>11, OneWorkerChanges DEF b, t, p, d, mm
<1> QED
  BY <1>9, <1>12

LEMMA JudgeSteps ==
    ASSUME EngineInv, OneWorker, NEW w \in Workers, NEW u \in Verdicts, Judge(w, u)
    PROVE  JobsOK' /\ WorkersOK'
<1> DEFINE j == worker[w].job
           n == worker[w].stage
           b == job[j]
           r == row[j]
           o == object[j]
           p == object'[j]
           t == row'[j]
           d == dataset[j]
           e == dataset'[j]
           v == verdict'[j]
           m == worker[w]
           mm == worker'[w]
           accepted == AcceptedBy(u, Threshold(j))
<1>0. m.at = "running"
  BY DEF Judge, In
<1>1. /\ m \in Worker /\ j \in Jobs /\ n \in Numbers /\ b \in Job /\ r \in [Numbers -> Row]
      /\ b.status = "running"
      /\ d \in [accepted : SUBSET Samples, exported : SUBSET Samples]
      /\ WorkerOK(m, b, r, o, d, verdict[j])
      /\ JobOK(b, r, o, d, sent[j], verdict[j])
  BY <1>0, BusyIs DEF Busy
<1>3. n = 17
  BY <1>1, NamesAre DEF Judge, In
<1>4. NothingFlawed(p) /\ \A k \in Jobs \ {j} : object'[k] = object[k]
  <2>1. NothingFlawed(o)
    BY <1>1 DEF JobOK
  <2>2. \A x \in Artifacts : p.stored[x] = IF x \notin WrittenBy(w, "good") THEN o.stored[x] ELSE "good"
    BY <1>1 DEF Judge, Store, EngineInv, EngineTypeOK, Defects
  <2>3. NothingFlawed(p)
    BY <2>1, <2>2 DEF NothingFlawed
  <2> QED
    BY <1>1, <2>3 DEF Judge, Store, EngineInv, EngineTypeOK
<1>5. /\ UNCHANGED <<job, sent>>
      /\ \A k \in Jobs \ {j} : dataset'[k] = dataset[k] /\ verdict'[k] = verdict[k]
      /\ e.accepted = accepted
      /\ u \in v
  BY <1>1 DEF Judge, EngineInv, EngineTypeOK
<1>6. AcceptedOnly(b, e, v)
  <2> SUFFICES ASSUME NEW s \in accepted PROVE u[s].accept /\ u[s].score >= b.asked
    BY <1>5 DEF AcceptedOnly
  <2>1. s \in Samples /\ u[s].accept /\ u[s].score >= Threshold(j)
    BY DEF AcceptedBy
  <2>2. u[s].score \in Nat /\ b.asked \in Nat
    BY <1>1, <2>1 DEF Job
  <2>3. Threshold(j) = IF b.asked = 0 THEN DefaultThreshold ELSE b.asked
    BY DEF Threshold
  <2> HIDE DEF b
  <2> QED
    BY <2>1, <2>2, <2>3
<1>m. m.stage = n
  OBVIOUS
<1>r. r[1] # "skipped"
  BY <1>1 DEF JobOK
<1>7. /\ t[1] # "skipped" /\ (t[5] = "succeeded" => r[5] = "succeeded")
      /\ \A k \in Jobs \ {j} : row'[k] = row[k]
      /\ mm.job = j
      /\ WorkerOK(mm, b, t, p, e, v)
  <2>1. CASE accepted # {}
    <3>1. /\ t = [r EXCEPT ![n] = "succeeded"]
          /\ \A k \in Jobs \ {j} : row'[k] = row[k]
          /\ mm.job = j /\ mm.inputs = m.inputs
          /\ mm.at \in {"between", "inputs", "ending"}
          /\ mm.at = "ending" <=> n = 20
          /\ mm.at = "inputs" <=> n = 1
          /\ mm.stage = IF n = 20 THEN 20 ELSE n + 1
          /\ InStage(mm, b, t)
      BY <1>0, <2>1, EndsInStage DEF Judge
    <3> HIDE DEF n, r, t, b, o, p, d, e, v, m, mm, accepted
    <3>2. mm.at \in {"between", "inputs"} /\ mm.stage = m.stage + 1
      BY <3>1, <1>3, <1>m
    <3>3. WorkerOK(mm, b, t, p, e, v)
      BY <1>0, <1>1, <1>3, <1>5, <1>m, <2>1, <3>1, <3>2, GoesOn
    <3> QED
      BY <1>1, <1>3, <1>r, <3>1, <3>3, NumbersAre
  <2>2. CASE accepted = {}
    <3>1. /\ t = [r EXCEPT ![n] = "failed"]
          /\ \A k \in Jobs \ {j} : row'[k] = row[k]
          /\ mm.job = j /\ mm.at = "raising"
          /\ InStage(mm, b, t)
      BY <1>0, <2>2, RaisesInStage DEF Judge
    <3> HIDE DEF n, r, t, b, o, p, d, e, v, m, mm, accepted
    <3>2. WorkerOK(mm, b, t, p, e, v)
      BY <1>1, <3>1 DEF WorkerOK
    <3> QED
      BY <1>1, <1>3, <1>r, <3>1, <3>2, NumbersAre
  <2> QED
    BY <2>1, <2>2
<1> HIDE DEF b, r, o, p, t, d, e, v, m, mm, n, accepted
<1>8. JobOK(b, t, p, e, sent[j], v)
  BY <1>1, <1>4, <1>6, <1>7 DEF JobOK, Unstarted, Told, Whole, WorldFromPhotos
<1>9. JobsOK'
  BY <1>1, <1>4, <1>5, <1>7, <1>8, OneJobChanges DEF EngineInv, b, t, p, e, v
<1>10. WorkersOK'
  BY <1>1, <1>5, <1>7, OneWorkerChanges DEF b, t, p, e, v, mm
<1> QED
  BY <1>9, <1>10

LEMMA ExportSteps ==
    ASSUME EngineInv, OneWorker, NEW w \in Workers, ExportDataset(w)
    PROVE  JobsOK' /\ WorkersOK'
<1> DEFINE j == worker[w].job
           n == worker[w].stage
           b == job[j]
           r == row[j]
           o == object[j]
           p == object'[j]
           t == row'[j]
           d == dataset[j]
           e == dataset'[j]
           m == worker[w]
           mm == worker'[w]
<1>0. m.at = "running"
  BY DEF ExportDataset, In
<1>1. /\ m \in Worker /\ j \in Jobs /\ n \in Numbers /\ b \in Job /\ r \in [Numbers -> Row]
      /\ b.status = "running"
      /\ o \in [stored : [Artifacts -> Content], exported : [Artifacts -> Content]]
      /\ d \in [accepted : SUBSET Samples, exported : SUBSET Samples]
      /\ WorkerOK(m, b, r, o, d, verdict[j])
      /\ JobOK(b, r, o, d, sent[j], verdict[j])
  BY <1>0, BusyIs DEF Busy
<1>2. /\ t = [r EXCEPT ![n] = "succeeded"]
      /\ \A k \in Jobs \ {j} : row'[k] = row[k]
      /\ mm.job = j /\ mm.inputs = m.inputs
      /\ mm.at \in {"between", "inputs", "ending"}
      /\ mm.at = "ending" <=> n = 20
      /\ mm.at = "inputs" <=> n = 1
      /\ mm.stage = IF n = 20 THEN 20 ELSE n + 1
      /\ InStage(mm, b, t)
  BY <1>0, EndsInStage DEF ExportDataset
<1>3. n = 20
  BY <1>1, NamesAre DEF ExportDataset, In
<1>n. NothingFlawed(o)
  BY <1>1 DEF JobOK
<1>4. /\ \A x \in Artifacts : p.stored[x] = IF x \in Made THEN "good" ELSE o.stored[x]
      /\ \A x \in Artifacts : p.exported[x] = IF x \in ReadsOf(w) THEN o.stored[x]
                                              ELSE IF x \in Made THEN "good" ELSE o.exported[x]
      /\ \A k \in Jobs \ {j} : object'[k] = object[k]
      /\ \A x \in ReadsOf(w) : o.stored[x] # "absent"
  BY <1>1 DEF ExportDataset, HasReads, EngineInv, EngineTypeOK
<1>5. /\ UNCHANGED <<job, sent, verdict>>
      /\ \A k \in Jobs \ {j} : dataset'[k] = dataset[k]
      /\ e.accepted = d.accepted /\ e.exported = d.accepted
  BY <1>1 DEF ExportDataset, EngineInv, EngineTypeOK, historyVars
<1>6. Offered(b) \subseteq ReadsOf(w) \cup Made /\ Offered(b) \subseteq Artifacts
  <2>1. Now(w).reads = Copied
    BY <1>3, TableIs DEF Now, Export, Stage
  <2>2. Stages[n] = "export"
    BY <1>1, <1>3, NamesAre
  <2>3. ReadsOf(w) = Copied \cup (IF b.mode = "text" THEN {"image"} ELSE {})
    BY <2>1, <2>2 DEF ReadsOf
  <2> HIDE DEF b
  <2> QED
    BY <2>3, ArtifactsAre DEF Offered
<1>m. m.stage = n
  OBVIOUS
<1>7. t[1] # "skipped" /\ (t[5] = "succeeded" => r[5] = "succeeded")
  <2>1. r[1] # "skipped"
    BY <1>1 DEF JobOK
  <2> HIDE DEF n, r, t
  <2> QED
    BY <1>1, <1>2, <1>3, <2>1, NumbersAre
<1> HIDE DEF b, r, o, p, t, d, e, m, mm, n
<1>8. OfferedIsGood(b, p)
  <2> SUFFICES ASSUME NEW x \in Offered(b) PROVE p.exported[x] = "good"
    BY DEF OfferedIsGood
  <2>1. x \in Artifacts /\ o.stored[x] \in Content /\ o.stored[x] # "flawed"
    BY <1>1, <1>6, <1>n DEF NothingFlawed
  <2>2. CASE x \in ReadsOf(w)
    BY <1>4, <2>1, <2>2 DEF Content
  <2>3. CASE x \notin ReadsOf(w)
    BY <1>4, <1>6, <2>1, <2>3
  <2> QED
    BY <2>2, <2>3
<1>9. NothingFlawed(p)
  BY <1>4, <1>n DEF NothingFlawed
<1>10. JobOK(b, t, p, e, sent[j], verdict[j])
  BY <1>1, <1>5, <1>7, <1>9, StillRunning
<1>11. JobsOK'
  <2>1. JobsOK
    BY DEF EngineInv
  <2>2. JobOK(job'[j], row'[j], object'[j], dataset'[j], sent'[j], verdict'[j])
    BY <1>5, <1>10 DEF b, t, p, e
  <2>3. \A k \in Jobs \ {j} :
           /\ job'[k] = job[k] /\ row'[k] = row[k] /\ object'[k] = object[k]
           /\ dataset'[k] = dataset[k] /\ sent'[k] = sent[k] /\ verdict'[k] = verdict[k]
    BY <1>2, <1>4, <1>5
  <2> QED
    BY <1>1, <2>1, <2>2, <2>3, OneJobChanges
<1>12. d.accepted # {} /\ AcceptedOnly(b, d, verdict[j])
  BY <1>0, <1>1, <1>3, <1>m DEF WorkerOK, JobOK
<1>13. SamplesAreAccepted(b, e, verdict[j])
  BY <1>5, <1>12 DEF SamplesAreAccepted, AcceptedOnly
<1>14. mm.at = "ending"
  BY <1>2, <1>3
<1>15. WorkerOK(mm, b, t, p, e, verdict[j])
  BY <1>1, <1>2, <1>8, <1>13, <1>14 DEF WorkerOK
<1>16. WorkersOK'
  BY <1>1, <1>2, <1>5, <1>15, OneWorkerChanges DEF b, t, p, e, mm
<1> QED
  BY <1>11, <1>16

\* A stage that raises touches its own row alone.
LEMMA RaiseSteps ==
    ASSUME EngineInv, OneWorker, NEW w \in Workers, worker[w].at = "running", StageRaises(w),
           UNCHANGED <<job, object, dataset, sent, verdict>>
    PROVE  JobsOK' /\ WorkersOK'
<1> DEFINE j == worker[w].job
           n == worker[w].stage
           b == job[j]
           r == row[j]
           o == object[j]
           t == row'[j]
           d == dataset[j]
           m == worker[w]
           mm == worker'[w]
<1>1. /\ m \in Worker /\ j \in Jobs /\ n \in Numbers /\ b \in Job /\ r \in [Numbers -> Row]
      /\ b.status = "running"
      /\ WorkerOK(m, b, r, o, d, verdict[j])
      /\ JobOK(b, r, o, d, sent[j], verdict[j])
  BY BusyIs DEF Busy
<1>2. /\ t = [r EXCEPT ![n] = "failed"]
      /\ \A k \in Jobs \ {j} : row'[k] = row[k]
      /\ mm.job = j /\ mm.at = "raising"
      /\ InStage(mm, b, t)
  BY RaisesInStage
<1>3. r[1] # "skipped" /\ NothingFlawed(o)
  BY <1>1 DEF JobOK
<1> HIDE DEF b, r, o, t, d, m, mm, n
<1>4. t[1] # "skipped" /\ (t[5] = "succeeded" => r[5] = "succeeded")
  BY <1>1, <1>2, <1>3, NumbersAre
<1>5. JobOK(b, t, o, d, sent[j], verdict[j])
  BY <1>1, <1>3, <1>4, StillRunning
<1>6. JobsOK'
  BY <1>1, <1>2, <1>5, OneJobChanges DEF EngineInv, b, t, o, d
<1>7. WorkerOK(mm, b, t, o, d, verdict[j])
  BY <1>1, <1>2 DEF WorkerOK
<1>8. WorkersOK'
  BY <1>1, <1>2, <1>7, OneWorkerChanges DEF b, t, o, d, mm
<1> QED
  BY <1>6, <1>8

LEMMA HangSteps ==
    ASSUME EngineInv, OneWorker, NEW w \in Workers, StageHangs(w)
    PROVE  JobsOK' /\ WorkersOK'
<1> DEFINE j == worker[w].job
           b == job[j]
           r == row[j]
           m == worker[w]
           mm == worker'[w]
<1>0. m.at = "running"
  BY DEF StageHangs
<1>1. /\ m \in Worker /\ j \in Jobs /\ b.status = "running" /\ InStage(m, b, r)
  BY <1>0, BusyIs DEF Busy
<1>2. mm = [m EXCEPT !.at = "hung"] /\ UNCHANGED <<job, row, object, dataset, sent, verdict>>
  BY DEF StageHangs, EngineInv, EngineTypeOK
<1>3. mm.at = "hung" /\ mm.stage = m.stage /\ mm.job = j
  BY <1>1, <1>2 DEF Worker
<1>4. JobsOK'
  BY <1>2, Kept DEF EngineInv
<1> HIDE DEF b, r, m, mm
<1>5. InStage(mm, b, r)
  BY <1>0, <1>1, <1>3 DEF InStage
<1>6. WorkerOK(mm, b, r, object[j], dataset[j], verdict[j])
  BY <1>1, <1>3, <1>5 DEF WorkerOK
<1>7. WorkersOK'
  BY <1>1, <1>2, <1>3, <1>6, OneWorkerChanges DEF mm, b, r
<1> QED
  BY <1>4, <1>7

LEMMA FaultSteps ==
    ASSUME EngineInv, OneWorker, NEW w \in Workers, StorageFails(w) \/ ReadFails(w)
    PROVE  JobsOK' /\ WorkersOK'
<1> USE DEF StorageFails, ReadFails, RaisesHere
<1> DEFINE j == worker[w].job
           b == job[j]
           r == row[j]
           m == worker[w]
           mm == worker'[w]
<1>1. UNCHANGED <<job, object, dataset, sent, verdict>>
  BY DEF historyVars
<1>2. CASE m.at = "running"
  BY <1>1, <1>2, RaiseSteps
<1>3. CASE m.at \in {"inputs", "between"}
  <2>1. /\ m \in Worker /\ j \in Jobs /\ b.status = "running" /\ InStage(m, b, r)
    BY <1>3, BusyIs DEF Busy
  <2>2. mm = [m EXCEPT !.at = "raising", !.why = "between"] /\ UNCHANGED row
    BY <1>3 DEF EngineInv, EngineTypeOK
  <2>3. mm.at = "raising" /\ mm.why = "between" /\ mm.stage = m.stage /\ mm.job = j
    BY <2>1, <2>2 DEF Worker
  <2>4. JobsOK'
    BY <1>1, <2>2, Kept DEF EngineInv
  <2> HIDE DEF b, r, m, mm
  <2>5. InStage(mm, b, r)
    BY <1>3, <2>1, <2>3 DEF InStage
  <2>6. WorkerOK(mm, b, r, object[j], dataset[j], verdict[j])
    BY <2>1, <2>3, <2>5 DEF WorkerOK
  <2>7. WorkersOK'
    BY <1>1, <2>1, <2>2, <2>3, <2>6, OneWorkerChanges DEF mm, b, r
  <2> QED
    BY <2>4, <2>7
<1> QED
  BY <1>2, <1>3

LEMMA JobSucceedsSteps ==
    ASSUME EngineInv, OneWorker, NEW w \in Workers, JobSucceeds(w)
    PROVE  JobsOK' /\ WorkersOK'
<1> DEFINE j == worker[w].job
           b == job[j]
           c == job'[j]
           r == row[j]
           m == worker[w]
<1>0. m.at = "ending"
  BY DEF JobSucceeds
<1>1. /\ m \in Worker /\ j \in Jobs /\ b \in Job /\ b.status = "running" /\ InStage(m, b, r)
      /\ WorkerOK(m, b, r, object[j], dataset[j], verdict[j])
      /\ JobOK(b, r, object[j], dataset[j], sent[j], verdict[j])
  BY <1>0, BusyIs DEF Busy
<1>2. /\ c = [b EXCEPT !.status = "succeeded", !.stage = Len(Stages), !.reason = "none",
                       !.exports = Offered(b)]
      /\ \A k \in Jobs \ {j} : job'[k] = job[k]
      /\ UNCHANGED <<row, object, dataset, sent, verdict>>
  BY <1>1 DEF JobSucceeds, EngineInv, EngineTypeOK, historyVars, Offered
<1>3. /\ c.status = "succeeded" /\ c.exports = Offered(b) /\ c.mode = b.mode
      /\ c.photos = b.photos /\ c.asked = b.asked
  BY <1>1, <1>2 DEF Job
<1>4. worker'[w].at = "idle"
  BY DEF JobSucceeds, IdleWorker, EngineInv, EngineTypeOK
<1> HIDE DEF b, c, r, m
<1>5. \A k \in Numbers : Closed(r[k])
  <2> SUFFICES ASSUME NEW k \in Numbers PROVE Closed(r[k])
    OBVIOUS
  <2>1. m.stage = 20 /\ Closed(r[20]) /\ (k < 20 => Closed(r[k]))
    BY <1>0, <1>1 DEF InStage
  <2>2. k < 20 \/ k = 20
    BY NumbersAre
  <2> QED
    BY <2>1, <2>2
<1>6. Offered(c) = Offered(b)
  BY <1>3 DEF Offered
<1>7. OfferedIsGood(c, object[j]) /\ SamplesAreAccepted(c, dataset[j], verdict[j])
  BY <1>0, <1>1, <1>3, <1>6 DEF WorkerOK, OfferedIsGood, SamplesAreAccepted
<1>8. JobOK(c, r, object[j], dataset[j], sent[j], verdict[j])
  <2>1. Unstarted(c, r, dataset[j]) /\ Told(c, r) /\ Whole(c, r, object[j], dataset[j], verdict[j])
    BY <1>3, <1>5, <1>6, <1>7 DEF Unstarted, Told, Whole
  <2>2. /\ WorldFromPhotos(c, r, sent[j]) /\ AcceptedOnly(c, dataset[j], verdict[j]) /\ Requested(c)
        /\ r[1] # "skipped" /\ NothingFlawed(object[j])
    BY <1>1, <1>3 DEF JobOK, WorldFromPhotos, AcceptedOnly, Requested
  <2> QED
    BY <2>1, <2>2 DEF JobOK
<1>9. JobsOK'
  BY <1>1, <1>2, <1>8, OneJobChanges DEF EngineInv, c, r
<1>10. WorkersOK'
  BY <1>4, OneWorkerChanges
<1> QED
  BY <1>9, <1>10

LEMMA JobFailsSteps ==
    ASSUME EngineInv, OneWorker, NEW w \in Workers, JobFails(w)
    PROVE  JobsOK' /\ WorkersOK'
<1> DEFINE j == worker[w].job
           b == job[j]
           c == job'[j]
           r == row[j]
           m == worker[w]
<1>0. m.at = "raising"
  BY DEF JobFails
<1>1. /\ m \in Worker /\ j \in Jobs /\ b \in Job /\ b.status = "running" /\ InStage(m, b, r)
      /\ r \in [Numbers -> Row]
      /\ JobOK(b, r, object[j], dataset[j], sent[j], verdict[j])
  BY <1>0, BusyIs DEF Busy
<1>2. /\ c = [b EXCEPT !.status = "failed", !.reason = m.why]
      /\ \A k \in Jobs \ {j} : job'[k] = job[k]
      /\ UNCHANGED <<row, object, dataset, sent, verdict>>
  BY <1>1 DEF JobFails, EngineInv, EngineTypeOK, historyVars
<1>3. /\ c.status = "failed" /\ c.reason = m.why /\ c.mode = b.mode /\ c.stage = b.stage
      /\ c.photos = b.photos /\ c.asked = b.asked
  BY <1>1, <1>2 DEF Job
<1>4. worker'[w].at = "idle"
  BY DEF JobFails, IdleWorker, EngineInv, EngineTypeOK
<1>r. r[1] # "skipped"
  BY <1>1 DEF JobOK
<1> HIDE DEF b, c, r, m
<1>5. Told(c, r)
  <2>1. /\ m.stage \in Numbers
        /\ \A k \in Numbers : k < m.stage => Closed(r[k])
        /\ \A k \in Numbers : k > m.stage => r[k] = "pending"
    BY <1>1 DEF InStage
  <2>2. CASE m.why = Stages[m.stage] /\ r[m.stage] = "failed" /\ b.stage = m.stage
    BY <1>3, <2>1, <2>2 DEF Told
  <2>3. CASE m.why = "between" /\ r[m.stage] = "pending" /\ b.stage = m.stage - 1
    <3>1. \A n, k \in Numbers :
             /\ k < n - 1 => k < n
             /\ k > n - 1 => k = n \/ k > n
             /\ n - 1 < n
      BY NumbersAre
    <3>2. m.stage \in Numbers
      BY <2>1
    <3>3. \A k \in Numbers :
             /\ k < m.stage - 1 => k < m.stage
             /\ k > m.stage - 1 => k = m.stage \/ k > m.stage
             /\ m.stage - 1 < m.stage
      BY <3>1, <3>2
    <3>4. /\ \A k \in Numbers : k < b.stage => Closed(r[k])
          /\ \A k \in Numbers : k > b.stage => r[k] = "pending"
          /\ b.stage \in Numbers => Closed(r[b.stage])
      BY <2>1, <2>3, <3>3
    <3> QED
      BY <1>3, <2>3, <3>4 DEF Told
  <2> QED
    BY <1>0, <1>1, <2>2, <2>3 DEF InStage
<1>6. JobOK(c, r, object[j], dataset[j], sent[j], verdict[j])
  <2>1. Unstarted(c, r, dataset[j]) /\ Whole(c, r, object[j], dataset[j], verdict[j])
    BY <1>3 DEF Unstarted, Whole
  <2>2. /\ WorldFromPhotos(c, r, sent[j]) /\ AcceptedOnly(c, dataset[j], verdict[j]) /\ Requested(c)
        /\ r[1] # "skipped" /\ NothingFlawed(object[j])
    BY <1>1, <1>3 DEF JobOK, WorldFromPhotos, AcceptedOnly, Requested
  <2> QED
    BY <1>5, <2>1, <2>2 DEF JobOK
<1>7. JobsOK'
  BY <1>1, <1>2, <1>6, OneJobChanges DEF EngineInv, c, r
<1>8. WorkersOK'
  BY <1>4, OneWorkerChanges
<1> QED
  BY <1>7, <1>8

LEMMA LosesSteps ==
    ASSUME EngineInv, OneWorker, NEW w \in Workers, LosesTheJob(w)
    PROVE  JobsOK' /\ WorkersOK'
<1>1. worker'[w].at = "idle"
  BY DEF LosesTheJob, IdleWorker, EngineInv, EngineTypeOK
<1>2. JobsOK'
  BY Kept DEF LosesTheJob, EngineInv
<1> QED
  BY <1>1, <1>2, OneWorkerChanges

-----------------------------------------------------------------------------
LEMMA InitIsGood == Init => EngineInv
<1> SUFFICES ASSUME Init PROVE EngineInv
  OBVIOUS
<1>1. EngineTypeOK
  BY InitTyped
<1>2. KeptInOrder
  <2>1. \A j \in Jobs : kept[j] = 1 .. 0
    BY DEF Init
  <2> QED
    BY <2>1 DEF KeptInOrder
<1>3. JobsOK
  <2> SUFFICES ASSUME NEW j \in Jobs
               PROVE  JobOK(job[j], row[j], object[j], dataset[j], sent[j], verdict[j])
    BY DEF JobsOK
  <2>1. /\ job[j] = NoRequest /\ \A n \in Numbers : row[j][n] = "pending"
        /\ object[j].stored = Nothing /\ dataset[j].accepted = {}
    BY DEF Init
  <2>2. 1 \in Numbers /\ 5 \in Numbers
    BY NumbersAre
  <2> QED
    BY <2>1, <2>2 DEF JobOK, Unstarted, NothingFlawed, Nothing, Told, Whole, WorldFromPhotos,
           AcceptedOnly, Requested, NoRequest
<1>4. WorkersOK
  BY DEF WorkersOK, Init, IdleWorker
<1> QED
  BY <1>1, <1>2, <1>3, <1>4 DEF EngineInv

\* Every step keeps the invariant, if there is one worker.
LEMMA StepsKeepIt == ASSUME OneWorker, EngineInv, [Next]_vars PROVE EngineInv'
<1>1. ASSUME NEW j \in Jobs, Request(j) PROVE EngineInv'
  BY <1>1, RequestTyped, RequestKeeps, RequestSteps DEF EngineInv
<1>2. ASSUME NEW w \in Workers, Works(w) \/ StorageFails(w) \/ ReadFails(w) \/ LosesTheJob(w) PROVE EngineInv'
  <2>1. EngineTypeOK' /\ KeptInOrder'
    BY <1>2, WorksTyped DEF EngineInv, KeptInOrder
  <2>2. ASSUME Operates(w) PROVE JobsOK' /\ WorkersOK'
    <3>1. CASE StageFails(w)
      BY <3>1, RaiseSteps DEF StageFails, historyVars
    <3> QED
      BY <2>2, <3>1, SucceedsSteps, SkipSteps, WorldSteps, JudgeSteps, ExportSteps, HangSteps DEF Operates
  <2>3. ASSUME Works(w) PROVE JobsOK' /\ WorkersOK'
    BY <2>2, <2>3, PickSteps, StartSteps, BeginSteps, CopySteps, JobSucceedsSteps, JobFailsSteps DEF Works
  <2>4. JobsOK' /\ WorkersOK'
    BY <1>2, <2>3, FaultSteps, LosesSteps
  <2> QED
    BY <2>1, <2>4 DEF EngineInv
<1>3. CASE UNCHANGED vars
  BY <1>3 DEF vars, EngineInv, EngineTypeOK, KeptInOrder, JobsOK, WorkersOK
<1> QED
  BY <1>1, <1>2, <1>3 DEF Next

\* Of one worker's engine the invariant holds at all times.
THEOREM EngineInvariant ==
    ASSUME OneWorker PROVE Spec => []EngineInv
<1>1. Init => EngineInv
  BY InitIsGood
<1>2. EngineInv /\ [Next]_vars => EngineInv'
  BY StepsKeepIt
<1> QED
  BY <1>1, <1>2, PTL DEF Spec

\* Jobs, rows, objects and the worker are well typed.
THEOREM EngineTypes ==
    ASSUME OneWorker PROVE Spec => []EngineTypeOK
<1>1. EngineInv => EngineTypeOK
  BY DEF EngineInv
<1> QED
  BY <1>1, EngineInvariant, PTL

\* What a succeeded job offers can be downloaded, is all of it and has no defect.
THEOREM EngineExports ==
    ASSUME OneWorker PROVE Spec => []ExportsAreWhole
<1>1. EngineInv => ExportsAreWhole
  <2> SUFFICES ASSUME EngineInv, NEW j \in Jobs, job[j].status = "succeeded"
               PROVE  /\ Copied \cup Made \subseteq job[j].exports
                      /\ \A x \in job[j].exports : Downloadable(j, x) /\ object[j].exported[x] = "good"
                      /\ \A n \in Numbers : row[j][n] \in {"succeeded", "skipped"}
    BY DEF ExportsAreWhole
  <2>1. /\ job[j].exports = Offered(job[j]) /\ OfferedIsGood(job[j], object[j])
        /\ \A k \in Numbers : Closed(row[j][k])
    BY DEF EngineInv, JobsOK, JobOK, Whole
  <2> QED
    BY <2>1 DEF Offered, OfferedIsGood, Downloadable, Closed
<1> QED
  BY <1>1, EngineInvariant, PTL

\* A succeeded job exports a sample, and only samples the judge accepted with the
\* score the request asked for.
THEOREM EngineSamples ==
    ASSUME OneWorker PROVE Spec => []OnlyAcceptedSamples
<1>1. EngineInv => OnlyAcceptedSamples
  BY DEF EngineInv, JobsOK, JobOK, Whole, SamplesAreAccepted, OnlyAcceptedSamples
<1> QED
  BY <1>1, EngineInvariant, PTL

\* A failed job names the stage that failed, and its rows agree.
THEOREM EngineFailures ==
    ASSUME OneWorker PROVE Spec => []FailureIsTold
<1>1. EngineInv => FailureIsTold
  <2> SUFFICES ASSUME EngineInv, NEW j \in Jobs, job[j].status = "failed"
               PROVE  LET n == job[j].stage
                      IN  /\ \A k \in Numbers : k < n => row[j][k] \in {"succeeded", "skipped"}
                          /\ \A k \in Numbers : k > n => row[j][k] = "pending"
                          /\ \/ n \in Numbers /\ row[j][n] = "failed" /\ job[j].reason = Stages[n]
                             \/ /\ n \in Numbers => row[j][n] \in {"succeeded", "skipped"}
                                /\ job[j].reason = "between"
    BY DEF FailureIsTold
  <2>1. Told(job[j], row[j])
    BY DEF EngineInv, JobsOK, JobOK
  <2> QED
    BY <2>1 DEF Told, Closed
<1> QED
  BY <1>1, EngineInvariant, PTL

\* The web page of a job that ended is settled: the only rows a step changes
\* are those of its own job, and no worker or request has one that ended.
THEOREM EngineEnds ==
    ASSUME OneWorker PROVE Spec => EndsStand
<1>1. EngineInv /\ [Next]_vars =>
         [\A j \in Jobs : job[j].status \in Ended =>
             /\ job'[j] = job[j] /\ row'[j] = row[j] /\ object'[j] = object[j]
             /\ dataset'[j] = dataset[j]]_vars
  <2> SUFFICES ASSUME EngineInv, [Next]_vars, NEW j \in Jobs, job[j].status \in {"succeeded", "failed"}
               PROVE  /\ job'[j] = job[j] /\ row'[j] = row[j] /\ object'[j] = object[j]
                      /\ dataset'[j] = dataset[j]
    BY DEF Ended
  <2> DEFINE Stands == /\ job'[j] = job[j] /\ row'[j] = row[j] /\ object'[j] = object[j]
                       /\ dataset'[j] = dataset[j]
  <2>t. EngineTypeOK
    BY DEF EngineInv
  <2>1. ASSUME NEW i \in Jobs, Request(i) PROVE Stands
    BY <2>t, <2>1 DEF EngineTypeOK, Request, Open, StorePhoto, Commit, EmptyPhoto, RequestFails
  <2>2. ASSUME NEW w \in Workers, worker[w].at # "idle"
        PROVE  worker[w].job \in Jobs \ {j}
    <3>1. worker[w].at \in Busy \cup {"picked"}
      BY <2>2, <2>t DEF EngineTypeOK, Worker, Busy
    <3> QED
      BY <2>2, <3>1 DEF EngineInv, WorkersOK, WorkerOK
  <2>3. ASSUME NEW w \in Workers, Works(w) \/ StorageFails(w) \/ ReadFails(w) \/ LosesTheJob(w) PROVE Stands
    <3>1. CASE Pick(w) \/ LosesTheJob(w) \/ CopyInputs(w)
      BY <3>1 DEF Pick, LosesTheJob, CopyInputs
    <3>2. CASE Start(w) \/ BeginStage(w)
      BY <2>t, <2>2, <3>2 DEF Start, BeginStage, EngineTypeOK
    <3>3. CASE JobSucceeds(w) \/ JobFails(w)
      BY <2>t, <2>2, <3>3 DEF JobSucceeds, JobFails, EngineTypeOK
    <3>4. ASSUME NEW status, worker[w].at # "idle", StageEnds(w, status) PROVE row'[j] = row[j]
      BY <2>t, <2>2, <3>4 DEF StageEnds, EngineTypeOK
    <3>5. ASSUME worker[w].at # "idle", StageRaises(w) PROVE row'[j] = row[j]
      BY <2>t, <2>2, <3>5 DEF StageRaises, EngineTypeOK
    <3>6. ASSUME NEW a, worker[w].at # "idle", Store(w, a) PROVE object'[j] = object[j]
      BY <2>t, <2>2, <3>6 DEF Store, EngineTypeOK
    <3>7. ASSUME NEW a, StageSucceeds(w, a) PROVE Stands
      BY <3>4, <3>6, <3>7 DEF StageSucceeds, Plain
    <3>8. CASE SkipReferenceImage(w)
      BY <3>4, <3>8 DEF SkipReferenceImage, Skippable, In
    <3>9. CASE CreateWorld(w)
      BY <3>4, <3>6, <3>9 DEF CreateWorld, In
    <3>10. ASSUME NEW v \in Verdicts, Judge(w, v) PROVE Stands
      <4>1. dataset'[j] = dataset[j]
        BY <2>t, <2>2, <3>10 DEF Judge, In, EngineTypeOK
      <4> QED
        BY <3>4, <3>5, <3>6, <3>10, <4>1 DEF Judge, In
    <3>11. CASE ExportDataset(w)
      <4>1. dataset'[j] = dataset[j] /\ object'[j] = object[j]
        BY <2>t, <2>2, <3>11 DEF ExportDataset, In, EngineTypeOK
      <4> QED
        BY <3>4, <3>11, <4>1 DEF ExportDataset, In
    <3>12. CASE StageFails(w) \/ StageHangs(w)
      BY <3>5, <3>12 DEF StageFails, StageHangs
    <3>13. CASE StorageFails(w) \/ ReadFails(w)
      BY <3>5, <3>13 DEF StorageFails, ReadFails, RaisesHere
    <3> QED
      BY <2>3, <3>1, <3>2, <3>3, <3>7, <3>8, <3>9, <3>10, <3>11, <3>12, <3>13 DEF Works, Operates
  <2>4. CASE UNCHANGED vars
    BY <2>4 DEF vars
  <2> QED
    BY <2>1, <2>3, <2>4 DEF Next
<1> QED
  BY <1>1, EngineInvariant, PTL DEF Spec, EndsStand

-----------------------------------------------------------------------------
(***************************************************************************)
(* Photos                                                                  *)
(***************************************************************************)
\* Of two photos with one name a single file stays; with names that differ every
\* photo is a file.
DistinctNames == \A q \in Requests : \A x, y \in DOMAIN q.photos : q.photos[x] = q.photos[y] => x = y

\* Nothing is overwritten among photos whose names differ.
LEMMA AllSurvive ==
    ASSUME NEW f \in Seq(Nat), \A x, y \in DOMAIN f : f[x] = f[y] => x = y,
           NEW S \in SurvivorsOf(f)
    PROVE  S = DOMAIN f
<1>1. S \in SUBSET DOMAIN f /\ \A p \in DOMAIN f : Cardinality({q \in S : f[q] = f[p]}) = 1
  BY DEF SurvivorsOf
<1>2. ASSUME NEW p \in DOMAIN f, p \notin S PROVE FALSE
  <2>1. {q \in S : f[q] = f[p]} = {}
    BY <1>1, <1>2
  <2>2. Cardinality({q \in S : f[q] = f[p]}) = 0
    BY <2>1, FS_EmptySet, Zenon
  <2> QED
    BY <1>1, <2>2
<1> QED
  BY <1>1, <1>2

\* The photos chosen by name: as many as the world may use, and the outermost.
LEMMA ChosenAre ==
    ASSUME NEW f \in Seq(Nat), \A x, y \in DOMAIN f : f[x] = f[y] => x = y, f # <<>>
    PROVE  LET at == DOMAIN f
               n == Cardinality(at)
               s == Chosen(at, f)
           IN  /\ Cardinality(s) = (IF n < MaxImages THEN n ELSE MaxImages)
               /\ \A p \in at : Place(p, at, f) \in {0, n - 1} => p \in s
<1> DEFINE at == DOMAIN f
           n == Cardinality(at)
           T == Selected(n, MaxImages)
<1>1. at = 1 .. Len(f) /\ Len(f) \in Nat \ {0} /\ f \in [at -> Nat]
  OBVIOUS
<1>2. IsFiniteSet(at) /\ n = Len(f)
  <2>1. \A l \in Nat : IsFiniteSet(1 .. l) /\ Cardinality(1 .. l) = l
    BY FS_Interval
  <2>2. IsFiniteSet(1 .. Len(f)) /\ Cardinality(1 .. Len(f)) = Len(f)
    BY <1>1, <2>1
  <2>3. at = 1 .. Len(f)
    BY <1>1
  <2> HIDE DEF at
  <2> QED
    BY <2>2, <2>3
<1>3. /\ T \subseteq 0 .. n - 1 /\ Cardinality(T) = (IF n <= MaxImages THEN n ELSE MaxImages)
      /\ {0, n - 1} \subseteq T
  BY <1>1, <1>2, SelectedAre
<1>4. \A p, q \in at : f[p] = f[q] => p = q
  OBVIOUS
<1>5. \A p \in at : Place(p, at, f) = Rank(f, at)[p]
  BY DEF Place, Rank, Below
<1>6. Chosen(at, f) = {p \in at : Rank(f, at)[p] \in T}
  BY <1>5 DEF Chosen
<1> HIDE DEF T, at
<1>7. T \in SUBSET (0 .. Cardinality(at) - 1)
  BY <1>3
<1>8. Cardinality({p \in at : Rank(f, at)[p] \in T}) = Cardinality(T)
  BY <1>1, <1>2, <1>4, <1>7, RankedSelection, SMTT(40)
<1>9. Cardinality(Chosen(at, f)) = Cardinality(T)
  BY <1>6, <1>8
<1>10. Cardinality(Chosen(at, f)) = (IF n < MaxImages THEN n ELSE MaxImages)
  BY <1>1, <1>2, <1>3, <1>9
<1>11. \A p \in at : Place(p, at, f) \in {0, n - 1} => p \in Chosen(at, f)
  BY <1>3, <1>5, <1>6
<1> QED
  BY <1>10, <1>11 DEF at

\* A world made from photos used as many of them as it may, the first and the last
\* by name among them, if no two photos of a request have one name.
THEOREM EnginePhotos ==
    ASSUME OneWorker, DistinctNames PROVE Spec => []PhotosReachTheWorld
<1>1. EngineInv => PhotosReachTheWorld
  <2> SUFFICES ASSUME EngineInv, NEW j \in Jobs, job[j].mode = "photos", row[j][5] = "succeeded"
               PROVE  LET at == DOMAIN job[j].photos
                          n == Cardinality(at)
                      IN  /\ Cardinality(sent[j]) = (IF n < MaxImages THEN n ELSE MaxImages)
                          /\ \A p \in at : Place(p, at, job[j].photos) \in {0, n - 1} => p \in sent[j]
    BY DEF PhotosReachTheWorld
  <2> DEFINE f == job[j].photos
  <2>1. PICK S \in SurvivorsOf(f) : S # {} /\ sent[j] = Chosen(S, f)
    BY DEF EngineInv, JobsOK, JobOK, WorldFromPhotos
  <2>2. f \in Seq(Nat) /\ (f = <<>> \/ \E q \in Requests : f = q.photos)
    BY DEF EngineInv, EngineTypeOK, Job, JobsOK, JobOK, Requested
  <2>3. \A x, y \in DOMAIN f : f[x] = f[y] => x = y
    BY <2>2 DEF DistinctNames
  <2> HIDE DEF f
  <2>4. S = DOMAIN f
    BY <2>1, <2>2, <2>3, AllSurvive
  <2>5. f # <<>>
    BY <2>1, <2>4
  <2>6. LET at == DOMAIN f
            n == Cardinality(at)
        IN  /\ Cardinality(sent[j]) = (IF n < MaxImages THEN n ELSE MaxImages)
            /\ \A p \in at : Place(p, at, f) \in {0, n - 1} => p \in sent[j]
    BY <2>1, <2>2, <2>3, <2>4, <2>5, ChosenAre
  <2> QED
    BY <2>6 DEF f
<1> QED
  BY <1>1, EngineInvariant, PTL
=============================================================================
