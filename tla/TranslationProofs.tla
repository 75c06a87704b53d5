------------------------- MODULE TranslationProofs -------------------------
(* No text is queued or called for twice at once and the counts of the      *)
(* queue are right, and a clear lasts whatever was in flight when it came,  *)
(* for any number of fields, providers, batches, failures and restarts.     *)
(*                                                                          *)
(* Typed is about types, QInv about the queue, FInv about the cache and the *)
(* file.  QInv stands on its own; FInv uses of it that an answer that lands *)
(* was asked for by a batch in force, so since the last clear, and that its *)
(* fields were jobs.                                                        *)
EXTENDS Translation, FiniteSetTheorems, TLAPS

\* What one batch of the chain is asked, and what one file operation holds.
RunType == [jobs : SUBSET Plain, gen : Nat, era : Nat, hop : Nat]
Answers == [Fields -> Nat]
OpType == [op : {"save", "delete"}, entries : Answers, era : Nat]

Typed ==
    /\ enabled \in BOOLEAN /\ disposed \in BOOLEAN
    /\ entries \in Answers /\ byText \in [Texts -> Nat] /\ clears \in Nat
    /\ owners \in [Texts -> Plain \cup {None}] /\ generation \in Nat /\ pumpTimer \in BOOLEAN
    /\ tripped \subseteq Nat
    /\ dirty \in BOOLEAN /\ flushTimer \in BOOLEAN /\ persistence \in Seq(OpType)
    /\ disk \in Answers /\ undeleted \in BOOLEAN

-----------------------------------------------------------------------------
(* Arithmetic of the batches                                                *)

\* The batches a queue of n texts fills, the last one perhaps not to the brim.
LEMMA Ceiling ==
    ASSUME NEW n \in Nat, NEW m \in Nat \ {0}
    PROVE  LET w == (n + m - 1) \div m
           IN  w \in Nat /\ n <= w * m /\ (w > 0 => (w - 1) * m < n) /\ (w = 0 => n = 0)
  OBVIOUS

\* Multiples keep their order.
LEMMA Grows == ASSUME NEW i \in Nat, NEW k \in Nat, NEW m \in Nat, i <= k PROVE i * m <= k * m
  OBVIOUS

\* Elements of a queue.
Elems(q) == {q[i] : i \in DOMAIN q}
Injective(q) == \A i, j \in DOMAIN q : q[i] = q[j] => i = j

\* The batches in force: they count, and hold the jobs that run.
Cur(batches) == {r \in batches : r.gen = generation}
Apart(batches) == \A r, s \in Cur(batches) : r = s \/ r.jobs \cap s.jobs = {}
Asked(batches) ==
    \A r \in batches : r.jobs # {} /\ r.gen <= generation /\ (r.gen = generation => r.era = Era)

Sorted(queued, running, count, batches) ==
    /\ queued \in Seq(Plain) /\ Injective(queued)
    /\ Elems(queued) \cap running = {}
    /\ running \subseteq Plain /\ IsFiniteSet(running)
    /\ batches \subseteq RunType /\ IsFiniteSet(batches)
    /\ Asked(batches) /\ Apart(batches)
    /\ running = UNION {r.jobs : r \in Cur(batches)}
    /\ count = Cardinality(Cur(batches)) /\ count <= MaxConcurrent

-----------------------------------------------------------------------------
\* A set of naturals that is not empty has a least element.
LEMMA LeastExists ==
    ASSUME NEW S \in SUBSET Nat, S # {}
    PROVE  \E n \in S : \A m \in S : n <= m
<1>1. \E n \in S : \A m \in S : ~(<<m, n>> \in OpToRel(<, Nat))
  BY NatLessThanWellFounded, WFMin
<1>2. \A m, n \in S : ~(<<m, n>> \in OpToRel(<, Nat)) => n <= m
  BY DEF OpToRel
<1> QED
  BY <1>1, <1>2

\* The first hop that is left of a chain, 0 if none is.
LEMMA NextHopType == ASSUME NEW p \in Nat, NEW out PROVE NextHop(p, out) \in Nat
<1> DEFINE rest == {q \in p..Hops : q \notin out}
<1>1. CASE rest = {}
  BY <1>1 DEF NextHop
<1>2. CASE rest # {}
  <2>1. rest \in SUBSET Nat
    BY TranslationAssumption
  <2>2. \E q \in rest : \A s \in rest : q <= s
    BY <1>2, <2>1, LeastExists
  <2>3. (CHOOSE q \in rest : \A s \in rest : q <= s) \in rest
    BY <2>2
  <2> QED
    BY <1>2, <2>1, <2>3 DEF NextHop
<1> QED
  BY <1>1, <1>2

\* A batch is a run of the queue: batches do not overlap, and the first n of
\* them are the first n * MaxBatch jobs.
LEMMA BatchSpan ==
    ASSUME NEW queued \in Seq(Plain), NEW i \in Nat \ {0}
    PROVE  /\ Batch(queued, i) = {queued[j] : j \in {k \in DOMAIN queued : (i - 1) * MaxBatch < k /\ k <= i * MaxBatch}}
           /\ Batch(queued, i) \subseteq Plain
<1> DEFINE last == IF i * MaxBatch < Len(queued) THEN i * MaxBatch ELSE Len(queued)
<1>1. MaxBatch \in Nat \ {0} /\ i * MaxBatch \in Nat /\ (i - 1) * MaxBatch \in Nat
  BY TranslationAssumption
<1>2. (i - 1) * MaxBatch + 1..last = {k \in DOMAIN queued : (i - 1) * MaxBatch < k /\ k <= i * MaxBatch}
  BY <1>1
<1>3. Batch(queued, i) = {queued[j] : j \in (i - 1) * MaxBatch + 1..last}
  BY DEF Batch
<1> QED
  BY <1>2, <1>3

\* What is behind a place of the queue keeps its order.
LEMMA RestOf ==
    ASSUME NEW queued \in Seq(Plain), Injective(queued), NEW cut \in Nat
    PROVE  LET rest == SubSeq(queued, cut + 1, Len(queued))
           IN /\ rest \in Seq(Plain) /\ Injective(rest)
              /\ \A x : x \in Elems(rest) <=> \E j \in 1..Len(queued) : j > cut /\ x = queued[j]
<1> DEFINE rest == SubSeq(queued, cut + 1, Len(queued))
           size == IF cut < Len(queued) THEN Len(queued) - cut ELSE 0
<1>1. rest \in Seq(Plain) /\ Len(rest) = size /\ size \in Nat
  OBVIOUS
<1>2. \A k \in 1..size : rest[k] = queued[cut + k] /\ cut + k \in 1..Len(queued) /\ cut + k > cut
  OBVIOUS
<1>3. \A j \in 1..Len(queued) : j > cut => j - cut \in 1..size /\ cut + (j - cut) = j
  OBVIOUS
<1>4. DOMAIN rest = 1..size /\ DOMAIN queued = 1..Len(queued)
  BY <1>1
<1> HIDE DEF rest
<1>5. Injective(rest)
  <2>1. SUFFICES ASSUME NEW i \in 1..size, NEW k \in 1..size, rest[i] = rest[k] PROVE i = k
    BY <1>4 DEF Injective
  <2>2. cut + i = cut + k
    BY <1>2, <1>4, <2>1 DEF Injective
  <2> QED
    BY <1>1, <2>2
<1> HIDE DEF size
<1>6. ASSUME NEW x PROVE x \in Elems(rest) <=> \E j \in 1..Len(queued) : j > cut /\ x = queued[j]
  <2>1. ASSUME x \in Elems(rest) PROVE \E j \in 1..Len(queued) : j > cut /\ x = queued[j]
    BY <1>2, <1>4, <2>1 DEF Elems
  <2>2. ASSUME NEW j \in 1..Len(queued), j > cut, x = queued[j] PROVE x \in Elems(rest)
    <3>1. j - cut \in 1..size /\ rest[j - cut] = queued[j]
      BY <1>2, <1>3, <2>2
    <3> QED
      BY <1>4, <2>2, <3>1 DEF Elems
  <2> QED
    BY <2>1, <2>2
<1> QED
  BY <1>1, <1>5, <1>6 DEF rest

\* Pump: n batches that do not overlap leave the queue.
LEMMA BatchesSplit ==
    ASSUME NEW queued \in Seq(Plain), Injective(queued), NEW n \in Nat,
           n <= (Len(queued) + MaxBatch - 1) \div MaxBatch
    PROVE  LET rest == SubSeq(queued, n * MaxBatch + 1, Len(queued))
               started == {Batch(queued, i) : i \in 1..n}
           IN /\ rest \in Seq(Plain) /\ Injective(rest)
              /\ Elems(queued) = Elems(rest) \cup UNION started
              /\ Elems(rest) \cap UNION started = {}
              /\ \A i \in 1..n : Batch(queued, i) # {}
              /\ \A i, k \in 1..n : i # k => Batch(queued, i) \cap Batch(queued, k) = {}
<1> DEFINE rest == SubSeq(queued, n * MaxBatch + 1, Len(queued))
           started == {Batch(queued, i) : i \in 1..n}
           L == Len(queued)
           M == MaxBatch
           P(i) == {k \in 1..L : (i - 1) * M < k /\ k <= i * M}
<1>0. M \in Nat \ {0} /\ L \in Nat /\ DOMAIN queued = 1..L /\ n * M \in Nat
  BY TranslationAssumption
<1>1. \A i \in 1..n : Batch(queued, i) = {queued[j] : j \in P(i)}
  <2>1. TAKE i \in 1..n
  <2>2. i \in Nat \ {0}
    OBVIOUS
  <2>3. Batch(queued, i) = {queued[j] : j \in {k \in DOMAIN queued : (i - 1) * M < k /\ k <= i * M}}
    BY <2>2, BatchSpan
  <2> QED
    BY <1>0, <2>3
<1>2. n > 0 => (n - 1) * M < L
  <2>1. SUFFICES ASSUME n > 0 PROVE (n - 1) * M < L
    OBVIOUS
  <2> DEFINE w == (L + M - 1) \div M
  <2>2. w \in Nat /\ (w > 0 => (w - 1) * M < L)
    BY <1>0, Ceiling
  <2>3. n <= w
    OBVIOUS
  <2> HIDE DEF w, L, M
  <2>4. (n - 1) * M <= (w - 1) * M
    BY <1>0, <2>1, <2>2, <2>3, Grows
  <2> QED
    BY <1>0, <2>1, <2>2, <2>3, <2>4
<1>3. \A i \in 1..n : P(i) # {}
  <2>1. TAKE i \in 1..n
  <2>2. (i - 1) * M <= (n - 1) * M /\ (i - 1) * M \in Nat
    BY <1>0, Grows
  <2>3. (i - 1) * M + 1 \in P(i)
    <3>1. i * M = (i - 1) * M + M
      BY <1>0
    <3> HIDE DEF L, M
    <3> QED
      BY <1>0, <1>2, <2>2, <3>1
  <2> QED
    BY <2>3
<1>4. \A i, k \in 1..n : i # k => P(i) \cap P(k) = {}
  <2>1. \A i, k \in 1..n : i < k => i * M <= (k - 1) * M
    BY <1>0, Grows
  <2> HIDE DEF L, M
  <2> QED
    BY <1>0, <2>1
<1>5. \A j \in 1..L : j <= n * M <=> \E i \in 1..n : j \in P(i)
  <2>1. TAKE j \in 1..L
  <2>2. ASSUME NEW i \in 1..n, j \in P(i) PROVE j <= n * M
    <3>1. i * M <= n * M
      BY <1>0, Grows
    <3> HIDE DEF L, M
    <3> QED
      BY <1>0, <2>2, <3>1
  <2>3. ASSUME j <= n * M PROVE \E i \in 1..n : j \in P(i)
    <3> DEFINE w == (j + M - 1) \div M
    <3>1. w \in Nat /\ j <= w * M /\ (w > 0 => (w - 1) * M < j) /\ (w = 0 => j = 0)
      BY <1>0, Ceiling
    <3>2. w <= n
      <4> HIDE DEF w, L, M
      <4>1. ASSUME n + 1 <= w PROVE FALSE
        <5>1. n * M <= (w - 1) * M
          BY <1>0, <3>1, <4>1, Grows
        <5> QED
          BY <1>0, <2>3, <3>1, <4>1, <5>1
      <4> QED
        BY <3>1, <4>1
    <3> HIDE DEF w, L, M
    <3>3. w \in 1..n /\ j \in P(w)
      BY <1>0, <3>1, <3>2
    <3> QED
      BY <3>3
  <2> QED
    BY <2>2, <2>3
<1>6. rest \in Seq(Plain) /\ Injective(rest) /\ \A x : x \in Elems(rest) <=> \E j \in 1..L : j > n * M /\ x = queued[j]
  BY <1>0, RestOf
<1> HIDE DEF P, rest, L, M
<1>7. ASSUME NEW x PROVE x \in UNION started <=> \E j \in 1..L : j <= n * M /\ x = queued[j]
  <2>1. x \in UNION started <=> \E i \in 1..n : x \in Batch(queued, i)
    OBVIOUS
  <2>2. x \in UNION started <=> \E i \in 1..n : \E j \in P(i) : x = queued[j]
    BY <1>1, <2>1
  <2> QED
    BY <1>5, <2>2 DEF P
<1>8. ASSUME NEW x PROVE x \in Elems(rest) <=> \E j \in 1..L : j > n * M /\ x = queued[j]
  BY <1>6
<1>9. ASSUME NEW x PROVE x \in Elems(queued) <=> \E j \in 1..L : x = queued[j]
  BY <1>0 DEF Elems
<1>10. \A j \in 1..L : ~(j <= n * M /\ j > n * M) /\ (j <= n * M \/ j > n * M)
  BY <1>0
<1>11. Elems(queued) = Elems(rest) \cup UNION started
  BY <1>7, <1>8, <1>9, <1>10
<1>12. Elems(rest) \cap UNION started = {}
  BY <1>0, <1>7, <1>8, <1>10 DEF Injective
<1>13. \A i \in 1..n : Batch(queued, i) # {}
  <2>1. TAKE i \in 1..n
  <2>2. PICK j \in P(i) : TRUE
    BY <1>3
  <2>3. queued[j] \in Batch(queued, i)
    BY <1>1
  <2> QED
    BY <2>3
<1>14. \A i, k \in 1..n : i # k => Batch(queued, i) \cap Batch(queued, k) = {}
  <2>1. SUFFICES ASSUME NEW i \in 1..n, NEW k \in 1..n, i # k, NEW x \in Batch(queued, i), x \in Batch(queued, k) PROVE FALSE
    OBVIOUS
  <2>2. PICK a \in P(i) : x = queued[a]
    BY <1>1
  <2>3. PICK b \in P(k) : x = queued[b]
    BY <1>1, <2>1
  <2>4. a = b
    BY <1>0, <2>2, <2>3 DEF Injective, P
  <2> QED
    BY <1>4, <2>1, <2>2, <2>3, <2>4
<1> QED
  BY <1>6, <1>11, <1>12, <1>13, <1>14 DEF rest, started, L, M

\* A queue without repetitions has as many elements as places.
LEMMA ElemsCount ==
    ASSUME NEW q \in Seq(Plain), Injective(q)
    PROVE  IsFiniteSet(Elems(q)) /\ Cardinality(Elems(q)) = Len(q)
<1>1. DOMAIN q = 1..Len(q) /\ Len(q) \in Nat /\ q \in [1..Len(q) -> Elems(q)]
  BY DEF Elems
<1>2. q \in Bijection(1..Len(q), Elems(q))
  BY <1>1 DEF Elems, Injective, Bijection, Injection, Surjection, IsInjective
<1>3. IsFiniteSet(1..Len(q)) /\ Cardinality(1..Len(q)) = Len(q)
  BY <1>1, FS_Interval
<1> QED
  BY <1>2, <1>3, FS_Bijection DEF ExistsBijection

\* As many batches as the cap allows leave the queue, and are counted.
LEMMA PumpSorts ==
    ASSUME Typed, NEW queued, NEW running, NEW count, NEW batches,
           Sorted(queued, running, count, batches), Pump(queued, running, count, batches),
           UNCHANGED <<generation, clears>>
    PROVE  /\ Sorted(pending, inflight, active, runs)'
           /\ Elems(pending') \cup inflight' = Elems(queued) \cup running
           /\ ~pumpTimer'
<1> DEFINE wanted == (Len(queued) + MaxBatch - 1) \div MaxBatch
           free == MaxConcurrent - count
           n == IF wanted < free THEN wanted ELSE free
           started == {Batch(queued, i) : i \in 1..n}
           run(b) == [jobs |-> b, gen |-> generation, era |-> Era, hop |-> NextHop(1, tripped)]
           new == {run(b) : b \in started}
           rest == SubSeq(queued, n * MaxBatch + 1, Len(queued))
<1>1. /\ pending' = rest /\ inflight' = running \cup UNION started /\ active' = count + n
      /\ runs' = batches \cup new /\ pumpTimer' = FALSE
  BY DEF Pump
<1>2. queued \in Seq(Plain) /\ Injective(queued) /\ MaxBatch \in Nat \ {0} /\ MaxConcurrent \in Nat
  BY TranslationAssumption DEF Sorted
<1>3. count \in Nat /\ IsFiniteSet(Cur(batches)) /\ count = Cardinality(Cur(batches)) /\ count <= MaxConcurrent
  <2>1. IsFiniteSet(Cur(batches))
    BY FS_Subset DEF Sorted, Cur
  <2> QED
    BY <2>1, FS_CardinalityType DEF Sorted
<1>4. n \in Nat /\ n <= wanted /\ count + n <= MaxConcurrent
  BY <1>2, <1>3, Ceiling
<1>5. /\ rest \in Seq(Plain) /\ Injective(rest)
      /\ Elems(queued) = Elems(rest) \cup UNION started
      /\ Elems(rest) \cap UNION started = {}
      /\ \A i \in 1..n : Batch(queued, i) # {}
      /\ \A i, k \in 1..n : i # k => Batch(queued, i) \cap Batch(queued, k) = {}
  BY <1>2, <1>4, BatchesSplit
<1>6. Elems(queued) \subseteq Plain /\ IsFiniteSet(Elems(queued)) /\ Elems(queued) \cap running = {}
  <2>1. Elems(queued) \subseteq Plain
    BY <1>2 DEF Elems
  <2> QED
    BY <1>2, <2>1, ElemsCount DEF Sorted
<1>7. UNION started \subseteq Plain /\ IsFiniteSet(UNION started) /\ (UNION started) \cap running = {}
  <2>1. UNION started \in SUBSET Elems(queued)
    BY <1>5
  <2>2. IsFiniteSet(UNION started)
    BY <1>6, <2>1, FS_Subset
  <2> QED
    BY <1>6, <2>1, <2>2
<1>8. NextHop(1, tripped) \in Nat /\ Era \in Nat /\ generation \in Nat
  BY NextHopType DEF Typed, Era
<1> HIDE DEF wanted, free, n, started, rest
<1>9. \A b \in started : run(b) \in RunType /\ run(b).jobs = b /\ run(b).gen = generation /\ run(b).era = Era /\ b # {}
  BY <1>5, <1>7, <1>8 DEF RunType, started
<1>10. \A b, c \in started : b = c \/ b \cap c = {}
  BY <1>5 DEF started
<1> HIDE DEF run
<1>11. IsFiniteSet(new) /\ Cardinality(new) = n
  <2> DEFINE f == [i \in 1..n |-> run(Batch(queued, i))]
  <2>1. f \in Bijection(1..n, new)
    <3>1. f \in [1..n -> new] /\ \A r \in new : \E i \in 1..n : f[i] = r
      BY DEF started
    <3>2. ASSUME NEW i \in 1..n, NEW k \in 1..n, f[i] = f[k] PROVE i = k
      <4>1. Batch(queued, i) \in started /\ Batch(queued, k) \in started
        BY DEF started
      <4>2. Batch(queued, i) = Batch(queued, k)
        BY <1>9, <3>2, <4>1
      <4> QED
        BY <1>5, <4>2
    <3> QED
      BY <3>1, <3>2 DEF Bijection, Injection, Surjection, IsInjective
  <2>2. IsFiniteSet(1..n) /\ Cardinality(1..n) = n
    BY <1>4, FS_Interval
  <2> QED
    BY <2>1, <2>2, FS_Bijection DEF ExistsBijection
<1>12. Cur(runs)' = Cur(batches) \cup new
  BY <1>1, <1>9 DEF Cur
<1>13. \A x : x \in running <=> \E r \in Cur(batches) : x \in r.jobs
  BY DEF Sorted
<1>14. Cur(batches) \cap new = {}
  <2>1. SUFFICES ASSUME NEW b \in started, run(b) \in Cur(batches) PROVE FALSE
    OBVIOUS
  <2>2. PICK x \in b : TRUE
    BY <1>9
  <2>3. x \in running
    BY <1>9, <1>13, <2>1
  <2>4. x \in UNION started
    BY <2>2
  <2> QED
    BY <1>7, <2>3, <2>4
<1>15. IsFiniteSet(runs') /\ active' = Cardinality(Cur(runs)')
  <2>1. IsFiniteSet(batches)
    BY DEF Sorted
  <2>2. IsFiniteSet(batches \cup new)
    BY <1>11, <2>1, FS_Union
  <2>3. Cardinality(Cur(batches) \cap new) = 0
    BY <1>14, FS_EmptySet
  <2>4. Cardinality(Cur(batches) \cup new) = Cardinality(Cur(batches)) + Cardinality(new) - Cardinality(Cur(batches) \cap new)
    BY <1>3, <1>11, FS_Union
  <2> HIDE DEF new
  <2>5. Cardinality(Cur(batches) \cup new) = count + n
    BY <1>3, <1>4, <1>11, <2>3, <2>4
  <2>6. active' = Cardinality(Cur(runs)')
    BY <1>1, <1>12, <2>5
  <2> QED
    BY <1>1, <2>2, <2>6
<1>16. runs' \subseteq RunType /\ Asked(runs)'
  <2>1. batches \subseteq RunType /\ Asked(batches)
    BY DEF Sorted
  <2> QED
    BY <1>1, <1>8, <1>9, <2>1 DEF Asked, Era
<1>17. Apart(runs)'
  <2>1. Apart(batches)
    BY DEF Sorted
  <2>2. ASSUME NEW r \in Cur(batches), NEW b \in started PROVE r.jobs \cap run(b).jobs = {}
    <3>1. r.jobs \subseteq running /\ b \subseteq UNION started
      BY <1>13
    <3> QED
      BY <1>7, <1>9, <3>1
  <2>3. \A b, c \in started : run(b) = run(c) \/ run(b).jobs \cap run(c).jobs = {}
    BY <1>9, <1>10
  <2> QED
    BY <1>12, <2>1, <2>2, <2>3 DEF Apart
<1>18. inflight' = UNION {r.jobs : r \in Cur(runs)'}
  <2>1. SUFFICES ASSUME NEW x PROVE x \in inflight' <=> \E r \in Cur(batches) \cup new : x \in r.jobs
    BY <1>12
  <2>2. x \in UNION started <=> \E r \in new : x \in r.jobs
    BY <1>9
  <2> QED
    BY <1>1, <1>13, <2>2
<1>19. inflight' \subseteq Plain /\ IsFiniteSet(inflight')
  BY <1>1, <1>7, FS_Union DEF Sorted
<1>20. Elems(pending') \cap inflight' = {} /\ Elems(pending') \cup inflight' = Elems(queued) \cup running
  BY <1>1, <1>5, <1>6
<1> QED
  BY <1>1, <1>4, <1>5, <1>15, <1>16, <1>17, <1>18, <1>19, <1>20 DEF Sorted

-----------------------------------------------------------------------------
(* The queue                                                                *)

OneEach(jobs) == \A f, g \in jobs : TextOf[f] = TextOf[g] => f = g
\* Until the disposal a text is owned by its job, and nothing else is owned.
Owned ==
    ~disposed => /\ \A t \in Texts : owners[t] # None => owners[t] \in Jobs /\ TextOf[owners[t]] = t
                 /\ \A f \in Jobs : owners[TextOf[f]] = f
Gone == disposed => pending = <<>> /\ ~pumpTimer
QInv == Sorted(pending, inflight, active, runs) /\ OneEach(Jobs) /\ Owned /\ Gone

\* Jobs, by the elements of the queue.
LEMMA JobsAre == Jobs = Elems(pending) \cup inflight /\ CurrentRuns = Cur(runs)
  BY DEF Jobs, Elems, CurrentRuns, Cur

\* A plain field has a text.
LEMMA PlainTexts == None \notin Plain /\ \A f \in Plain : TextOf[f] \in Texts
  BY TranslationAssumption DEF Fields

\* The empty queue.
LEMMA EmptyQueue == <<>> \in Seq(Plain) /\ Injective(<<>>) /\ Elems(<<>>) = {}
  BY DEF Injective, Elems

\* Whether a batch starts, the window opens or nothing happens, the queue stays
\* sorted and keeps its jobs.
LEMMA SchedulePumpSorts ==
    ASSUME Typed, NEW queued, NEW running, NEW count, NEW batches,
           Sorted(queued, running, count, batches), SchedulePump(queued, running, count, batches),
           disposed => queued = <<>> /\ ~pumpTimer,
           UNCHANGED <<generation, clears, disposed>>
    PROVE  /\ Sorted(pending, inflight, active, runs)'
           /\ Jobs' = Elems(queued) \cup running
           /\ Gone' /\ pumpTimer' \in BOOLEAN
<1>0. Jobs' = Elems(pending') \cup inflight'
  BY DEF Jobs, Elems
<1>1. CASE Pump(queued, running, count, batches) /\ ~disposed
  <2>1. pumpTimer' = FALSE
    BY <1>1 DEF Pump
  <2> QED
    BY <1>0, <1>1, <2>1, PumpSorts DEF Gone
<1>2. CASE Holds(queued, running, count, batches) /\ (disposed => UNCHANGED pumpTimer) /\ pumpTimer' \in BOOLEAN
  <2>1. pending' = queued /\ inflight' = running /\ active' = count /\ runs' = batches
    BY <1>2 DEF Holds
  <2>2. Sorted(pending, inflight, active, runs)'
    BY <2>1 DEF Sorted, Asked, Apart, Cur, Era
  <2> QED
    BY <1>0, <1>2, <2>1, <2>2 DEF Gone
<1> QED
  BY <1>1, <1>2 DEF SchedulePump, Typed

\* A batch that ends gives up its place, and its jobs are free.
LEMMA EndSorts ==
    ASSUME Typed, NEW queued, NEW running, NEW count, NEW batches,
           Sorted(queued, running, count, batches), NEW r \in batches, Current(r)
    PROVE  Sorted(queued, running \ r.jobs, count - 1, batches \ {r})
<1>1. r \in Cur(batches) /\ Cur(batches \ {r}) = Cur(batches) \ {r}
  BY DEF Cur, Current
<1>2. IsFiniteSet(Cur(batches)) /\ IsFiniteSet(batches \ {r}) /\ IsFiniteSet(running \ r.jobs)
  BY FS_Subset, FS_Difference DEF Sorted, Cur
<1>3. Cardinality(Cur(batches) \ {r}) = Cardinality(Cur(batches)) - 1 /\ Cardinality(Cur(batches)) \in Nat
  BY <1>1, <1>2, FS_RemoveElement, FS_CardinalityType
<1>4. count - 1 <= MaxConcurrent
  BY <1>3, TranslationAssumption DEF Sorted
<1>5. running \ r.jobs = UNION {q.jobs : q \in Cur(batches) \ {r}}
  <2>1. \A x : x \in running <=> \E q \in Cur(batches) : x \in q.jobs
    BY DEF Sorted
  <2>2. \A q \in Cur(batches) \ {r} : q.jobs \cap r.jobs = {}
    BY <1>1 DEF Sorted, Apart
  <2>3. SUFFICES ASSUME NEW x PROVE x \in running \ r.jobs <=> \E q \in Cur(batches) \ {r} : x \in q.jobs
    OBVIOUS
  <2> QED
    BY <1>1, <2>1, <2>2
<1>6. Asked(batches \ {r}) /\ Apart(batches \ {r})
  BY <1>1 DEF Sorted, Asked, Apart
<1> QED
  BY <1>1, <1>2, <1>3, <1>4, <1>5, <1>6 DEF Sorted

\* A batch that was cancelled counts no more.
LEMMA DropSorts ==
    ASSUME QInv, NEW r \in runs, ~Current(r)
    PROVE  Sorted(pending, inflight, active, runs \ {r})
<1>1. Cur(runs \ {r}) = Cur(runs)
  BY DEF Cur, Current
<1>2. IsFiniteSet(runs \ {r})
  BY FS_Subset DEF QInv, Sorted
<1> QED
  BY <1>1, <1>2 DEF QInv, Sorted, Asked, Apart

\* A batch that goes on to the next hop is the same batch.
LEMMA HopSorts ==
    ASSUME Typed, QInv, NEW r \in runs, Current(r), NEW h \in Nat
    PROVE  Sorted(pending, inflight, active, (runs \ {r}) \cup {[r EXCEPT !.hop = h]})
<1> DEFINE q == [r EXCEPT !.hop = h]
           bs == (runs \ {r}) \cup {q}
<1>1. r \in RunType /\ r.gen = generation /\ r.jobs # {}
  BY DEF QInv, Sorted, Current, Asked
<1>2. q \in RunType /\ q.jobs = r.jobs /\ q.gen = r.gen /\ q.era = r.era
  BY <1>1 DEF RunType
<1> HIDE DEF q
<1>3. r \in Cur(runs) /\ Cur(bs) = (Cur(runs) \ {r}) \cup {q}
  BY <1>1, <1>2 DEF Cur
<1>4. \A s \in Cur(runs) \ {r} : s.jobs \cap q.jobs = {} /\ s # q
  <2>1. \A s \in Cur(runs) \ {r} : s.jobs \cap r.jobs = {}
    BY <1>3 DEF QInv, Sorted, Apart
  <2> QED
    BY <1>1, <1>2, <2>1
<1>5. IsFiniteSet(Cur(runs)) /\ IsFiniteSet(bs) /\ IsFiniteSet(Cur(runs) \ {r})
  BY FS_Subset, FS_AddElement DEF QInv, Sorted, Cur
<1>6. Cardinality(Cur(bs)) = Cardinality(Cur(runs))
  <2>1. Cardinality(Cur(runs) \ {r}) = Cardinality(Cur(runs)) - 1 /\ Cardinality(Cur(runs)) \in Nat
    BY <1>3, <1>5, FS_RemoveElement, FS_CardinalityType
  <2>2. q \notin Cur(runs) \ {r}
    BY <1>4
  <2>3. Cardinality((Cur(runs) \ {r}) \cup {q}) = Cardinality(Cur(runs) \ {r}) + 1
    BY <1>5, <2>2, FS_AddElement
  <2> HIDE DEF bs
  <2>4. Cardinality(Cur(bs)) = Cardinality(Cur(runs) \ {r}) + 1
    BY <1>3, <2>3
  <2> QED
    BY <2>1, <2>4
<1>7. UNION {s.jobs : s \in Cur(bs)} = UNION {s.jobs : s \in Cur(runs)}
  <2>1. SUFFICES ASSUME NEW x PROVE (\E s \in Cur(bs) : x \in s.jobs) <=> (\E s \in Cur(runs) : x \in s.jobs)
    OBVIOUS
  <2> QED
    BY <1>2, <1>3
<1>8. bs \subseteq RunType /\ Asked(bs) /\ Apart(bs)
  BY <1>1, <1>2, <1>3, <1>4 DEF QInv, Sorted, Asked, Apart
<1> HIDE DEF bs
<1>9. Sorted(pending, inflight, active, bs)
  BY <1>5, <1>6, <1>7, <1>8 DEF QInv, Sorted
<1> QED
  BY <1>9 DEF bs, q

\* What no step of the queue touches stays as it is.
LEMMA QueueStands == ASSUME QInv, UNCHANGED <<queue, disposed, clears>> PROVE QInv' /\ Jobs' = Jobs
<1>1. Jobs' = Jobs
  BY DEF queue, Jobs
<1>2. Sorted(pending, inflight, active, runs)'
  BY DEF QInv, queue, Sorted, Asked, Apart, Cur, Era
<1> QED
  BY <1>1, <1>2 DEF QInv, queue, OneEach, Owned, Gone

\* The window of the queue is over.
LEMMA PumpFiresKeeps == ASSUME Typed, QInv, PumpFires PROVE QInv' /\ Jobs' = Jobs
<1>1. Pump(pending, inflight, active, runs) /\ UNCHANGED <<disposed, generation, clears, owners>> /\ ~disposed
  BY DEF PumpFires, QInv, Gone, cache
<1>2. Sorted(pending, inflight, active, runs)' /\ Jobs' = Jobs
  <2>1. Sorted(pending, inflight, active, runs)
    BY DEF QInv
  <2>2. Sorted(pending, inflight, active, runs)' /\ Elems(pending') \cup inflight' = Elems(pending) \cup inflight
    BY <1>1, <2>1, PumpSorts
  <2> QED
    BY <2>2 DEF Jobs, Elems
<1> QED
  BY <1>1, <1>2 DEF QInv, OneEach, Owned, Gone

\* A text that is queued was neither queued nor running.
LEMMA EnqueueKeeps ==
    ASSUME Typed, QInv, NEW f \in Plain, Enqueue(f)
    PROVE  QInv' /\ Jobs' = Jobs \cup {f} /\ pumpTimer' \in BOOLEAN
<1> DEFINE queued == Append(pending, f)
<1>1. /\ ~disposed /\ owners[TextOf[f]] = None /\ f \notin inflight /\ \A i \in DOMAIN pending : pending[i] # f
      /\ owners' = [owners EXCEPT ![TextOf[f]] = f] /\ SchedulePump(queued, inflight, active, runs)
      /\ UNCHANGED <<generation, clears, disposed>>
  BY DEF Enqueue, Queueable, cache
<1>2. pending \in Seq(Plain) /\ Injective(pending)
  BY DEF QInv, Sorted
<1>3. queued \in Seq(Plain) /\ Injective(queued) /\ Elems(queued) = Elems(pending) \cup {f}
  <2>1. /\ queued \in Seq(Plain) /\ Len(queued) = Len(pending) + 1 /\ queued[Len(pending) + 1] = f
        /\ \A i \in 1..Len(pending) : queued[i] = pending[i]
    BY <1>2
  <2>2. DOMAIN queued = DOMAIN pending \cup {Len(pending) + 1} /\ DOMAIN pending = 1..Len(pending)
    BY <1>2, <2>1
  <2> HIDE DEF queued
  <2>3. Injective(queued)
    BY <1>1, <1>2, <2>1, <2>2 DEF Injective
  <2> QED
    BY <2>1, <2>2, <2>3 DEF Elems
<1> HIDE DEF queued
<1>4. Sorted(queued, inflight, active, runs)
  BY <1>1, <1>3 DEF QInv, Sorted
<1>5. Sorted(pending, inflight, active, runs)' /\ Jobs' = Elems(queued) \cup inflight /\ Gone' /\ pumpTimer' \in BOOLEAN
  BY <1>1, <1>4, SchedulePumpSorts
<1>6. Jobs' = Jobs \cup {f} /\ Jobs \subseteq Plain
  <2>1. Elems(pending) \subseteq Plain /\ inflight \subseteq Plain
    BY <1>2 DEF QInv, Sorted, Elems
  <2> QED
    BY <1>3, <1>5, <2>1, JobsAre
<1>7. \A g \in Jobs : TextOf[g] # TextOf[f]
  BY <1>1, <1>6, PlainTexts DEF QInv, Owned
<1>8. OneEach(Jobs)'
  BY <1>6, <1>7 DEF QInv, OneEach
<1>9. Owned'
  <2>1. /\ \A t \in Texts : owners'[t] = IF t = TextOf[f] THEN f ELSE owners[t]
        /\ \A t \in Texts : owners[t] # None => owners[t] \in Jobs /\ TextOf[owners[t]] = t
        /\ \A g \in Jobs : owners[TextOf[g]] = g
    BY <1>1 DEF QInv, Owned, Typed
  <2> QED
    BY <1>6, <1>7, <2>1, PlainTexts DEF Owned
<1> QED
  BY <1>5, <1>6, <1>8, <1>9 DEF QInv

\* A batch that ends gives up its texts.
LEMMA EndsKeeps ==
    ASSUME Typed, QInv, NEW r \in runs, Current(r), Ends(r), UNCHANGED <<generation, clears, disposed>>
    PROVE  /\ QInv' /\ Jobs' = Jobs \ r.jobs /\ r.jobs \subseteq Jobs \cap Plain
           /\ owners' \in [Texts -> Plain \cup {None}] /\ pumpTimer' \in BOOLEAN
<1>1. Sorted(pending, inflight \ r.jobs, active - 1, runs \ {r})
  BY EndSorts DEF QInv
<1>2. /\ Sorted(pending, inflight, active, runs)' /\ Jobs' = Elems(pending) \cup (inflight \ r.jobs) /\ Gone'
      /\ pumpTimer' \in BOOLEAN
  BY <1>1, SchedulePumpSorts DEF QInv, Gone, Ends
<1>3. r.jobs \subseteq inflight
  BY DEF QInv, Sorted, Cur, Current
<1>4. Jobs' = Jobs \ r.jobs /\ r.jobs \subseteq Jobs \cap Plain
  BY <1>2, <1>3, JobsAre DEF QInv, Sorted
<1>5. owners' = [t \in Texts |-> IF owners[t] \in r.jobs /\ TextOf[owners[t]] = t THEN None ELSE owners[t]]
  BY DEF Ends
<1>6. owners' \in [Texts -> Plain \cup {None}]
  BY <1>5 DEF Typed
<1>7. OneEach(Jobs)'
  BY <1>4 DEF QInv, OneEach
<1>8. Owned'
  <2>1. SUFFICES ASSUME ~disposed
                 PROVE /\ \A t \in Texts : owners'[t] # None => owners'[t] \in Jobs' /\ TextOf[owners'[t]] = t
                       /\ \A f \in Jobs' : owners'[TextOf[f]] = f
    BY DEF Owned
  <2>2. Jobs \subseteq Plain
    BY JobsAre DEF QInv, Sorted, Elems
  <2> QED
    BY <1>4, <1>5, <2>1, <2>2, PlainTexts DEF QInv, Owned
<1> QED
  BY <1>2, <1>4, <1>6, <1>7, <1>8 DEF QInv

\* A batch goes on to the next hop, or is dropped.
LEMMA HopFailsKeeps == ASSUME Typed, QInv, NEW r \in runs, HopFails(r) PROVE QInv' /\ Jobs' = Jobs
<1>1. /\ Current(r) /\ r.hop # 0 /\ r \in RunType
      /\ runs' = (runs \ {r}) \cup {[r EXCEPT !.hop = NextHop(r.hop + 1, tripped')]}
      /\ UNCHANGED <<pending, inflight, owners, active, generation, pumpTimer, disposed, clears>>
  BY DEF HopFails, QInv, Sorted, cache
<1>2. NextHop(r.hop + 1, tripped') \in Nat
  BY <1>1, NextHopType DEF RunType
<1>3. Sorted(pending, inflight, active, runs')
  BY <1>1, <1>2, HopSorts
<1>4. Sorted(pending, inflight, active, runs)'
  BY <1>1, <1>3 DEF Sorted, Asked, Apart, Cur, Era
<1> QED
  BY <1>1, <1>4 DEF QInv, Jobs, OneEach, Owned, Gone
\* A cancelled batch takes nothing with it.
LEMMA DroppedKeeps == ASSUME Typed, QInv, NEW r \in runs, Dropped(r) PROVE QInv' /\ Jobs' = Jobs
<1>1. /\ ~Current(r) /\ runs' = runs \ {r}
      /\ UNCHANGED <<pending, inflight, owners, active, generation, pumpTimer, disposed, clears>>
  BY DEF Dropped, cache
<1>2. Sorted(pending, inflight, active, runs \ {r})
  BY <1>1, DropSorts
<1>3. Sorted(pending, inflight, active, runs)'
  BY <1>1, <1>2 DEF Sorted, Asked, Apart, Cur, Era
<1> QED
  BY <1>1, <1>3 DEF QInv, Jobs, OneEach, Owned, Gone

\* Work that is cancelled leaves nothing queued or running.
LEMMA CancelWorkKeeps ==
    ASSUME Typed, QInv, CancelWork, UNCHANGED runs
    PROVE  QInv' /\ Jobs' = {} /\ owners' \in [Texts -> Plain \cup {None}]
<1>1. Cur(runs)' = {}
  BY DEF Typed, QInv, Sorted, Asked, Cur, CancelWork
<1>2. Sorted(pending, inflight, active, runs)'
  <2>1. runs' \subseteq RunType /\ IsFiniteSet(runs') /\ Apart(runs)'
    BY <1>1 DEF QInv, Sorted, Apart
  <2>2. Asked(runs)'
    <3>1. \A r \in runs : r.gen \in Nat /\ r.gen <= generation /\ r.jobs # {}
      BY DEF QInv, Sorted, Asked, RunType
    <3>2. generation' = generation + 1 /\ generation \in Nat
      BY DEF Typed, CancelWork
    <3> QED
      BY <3>1, <3>2 DEF Asked
  <2>3. inflight' = UNION {r.jobs : r \in Cur(runs)'} /\ active' = Cardinality(Cur(runs)') /\ IsFiniteSet(inflight')
    BY <1>1, FS_EmptySet DEF CancelWork
  <2>4. pending' = <<>> /\ inflight' = {} /\ active' = 0
    BY DEF CancelWork
  <2> QED
    BY <2>1, <2>2, <2>3, <2>4, EmptyQueue, TranslationAssumption DEF Sorted
<1>3. Jobs' = {}
  BY DEF CancelWork, Jobs
<1> QED
  BY <1>2, <1>3 DEF QInv, OneEach, Owned, Gone, CancelWork

\* A disposal drops what is queued.
LEMMA DisposeQueue ==
    ASSUME Typed, QInv, Dispose PROVE QInv' /\ Jobs' \subseteq Jobs /\ owners' \in [Texts -> Plain \cup {None}]
<1>1. /\ pending' = <<>> /\ disposed' = TRUE /\ pumpTimer' = FALSE /\ owners' = [t \in Texts |-> None]
      /\ UNCHANGED <<inflight, active, runs, generation, clears>>
  BY DEF Dispose, cache
<1>2. Sorted(pending, inflight, active, runs)'
  BY <1>1, EmptyQueue DEF QInv, Sorted, Asked, Apart, Cur, Era
<1>3. Jobs' = inflight
  BY <1>1 DEF Jobs
<1> QED
  BY <1>1, <1>2, <1>3, JobsAre DEF QInv, OneEach, Owned, Gone
\* A restart leaves nothing of the queue.
LEMMA RestartQueue ==
    ASSUME Typed, QInv, Restart PROVE QInv' /\ Jobs' = {} /\ owners' \in [Texts -> Plain \cup {None}]
<1>1. /\ pending' = <<>> /\ inflight' = {} /\ active' = 0 /\ runs' = {} /\ disposed' = FALSE
      /\ owners' = [t \in Texts |-> None]
  BY DEF Restart
<1>2. Cur(runs)' = {} /\ Apart(runs)' /\ Asked(runs)'
  BY <1>1 DEF Cur, Apart, Asked
<1>3. Sorted(pending, inflight, active, runs)'
  <2>1. IsFiniteSet({}) /\ Cardinality({}) = 0 /\ 0 <= MaxConcurrent
    BY FS_EmptySet, TranslationAssumption
  <2> QED
    BY <1>1, <1>2, <2>1, EmptyQueue DEF Sorted
<1>4. Jobs' = {}
  BY <1>1 DEF Jobs
<1> QED
  BY <1>1, <1>3, <1>4 DEF QInv, OneEach, Owned, Gone

-----------------------------------------------------------------------------
(* The cache and its file                                                   *)

\* Nothing in memory was asked for before the last clear.
MemoryFresh == Fresh(entries) /\ Fresh(byText)
Deletes(i) == persistence[i].op = "delete"
\* An answer from before the last clear that no batch will replace.
Anchored == \E f \in Fields : entries[f] \notin {0, Era} /\ f \notin Jobs
\* A memory that is not fresh was loaded from a file that should be deleted,
\* and nothing saved since is fresh.
Tainted ==
    ~MemoryFresh => /\ undeleted /\ Anchored
                    /\ \A i \in DOMAIN persistence : ~Deletes(i) /\ ~Fresh(persistence[i].entries)
\* What is not fresh, in the file or on its way to it, will be deleted.
Lasting ==
    MemoryFresh =>
        /\ \A i \in DOMAIN persistence :
              Fresh(persistence[i].entries) \/ \E j \in DOMAIN persistence : j > i /\ Deletes(j)
        /\ ~undeleted => Fresh(disk) \/ \E j \in DOMAIN persistence : Deletes(j)
\* What no write is owed for is in the last write, or in the file.
Saved ==
    /\ ~dirty => /\ persistence # <<>> => persistence[Len(persistence)].entries = entries
                 /\ persistence = <<>> /\ ~undeleted => disk = entries
    /\ persistence # <<>> => Deletes(Len(persistence)) \/ persistence[Len(persistence)].era = Era
\* A paragraph is there, or its text answered, only with all the parts of a
\* paragraph of that text.
Served(p, cached) == \E q \in Paragraphs : TextOf[q] = TextOf[p] /\ \A part \in PartsOf[q] : cached[part] # 0
WholeIn(cached) == \A p \in Paragraphs : cached[p] # 0 => Served(p, cached)
Complete ==
    /\ WholeIn(entries) /\ WholeIn(disk) /\ \A i \in DOMAIN persistence : WholeIn(persistence[i].entries)
    /\ \A p \in Paragraphs : byText[TextOf[p]] # 0 => Served(p, entries)

FInv == Tainted /\ Lasting /\ Saved /\ Complete
IInv == Typed /\ QInv /\ FInv

\* A file operation is put behind the others.
LEMMA Appended ==
    ASSUME persistence \in Seq(OpType), NEW w \in OpType, persistence' = Append(persistence, w)
    PROVE  /\ persistence' \in Seq(OpType) /\ persistence' # <<>> /\ Len(persistence) \in Nat
           /\ DOMAIN persistence = 1..Len(persistence)
           /\ DOMAIN persistence' = 1..Len(persistence) + 1 /\ Len(persistence') = Len(persistence) + 1
           /\ persistence'[Len(persistence) + 1] = w
           /\ \A i \in DOMAIN persistence : persistence'[i] = persistence[i]
  OBVIOUS
\* The first file operation is taken.
LEMMA Advanced ==
    ASSUME persistence \in Seq(OpType), persistence # <<>>, persistence' = Tail(persistence)
    PROVE  /\ persistence' \in Seq(OpType) /\ Len(persistence) \in Nat \ {0}
           /\ DOMAIN persistence = 1..Len(persistence) /\ Len(persistence') = Len(persistence) - 1
           /\ DOMAIN persistence' = 1..Len(persistence) - 1
           /\ Head(persistence) = persistence[1] /\ Head(persistence) \in OpType
           /\ \A i \in DOMAIN persistence' : i + 1 \in DOMAIN persistence /\ persistence'[i] = persistence[i + 1]
           /\ (persistence' = <<>>) <=> (Len(persistence) = 1)
<1>1. Len(persistence) \in Nat \ {0} /\ DOMAIN persistence = 1..Len(persistence)
  OBVIOUS
<1>2. /\ persistence' \in Seq(OpType) /\ Len(persistence') = Len(persistence) - 1
      /\ \A i \in 1..Len(persistence) - 1 : persistence'[i] = persistence[i + 1]
  OBVIOUS
<1>3. DOMAIN persistence' = 1..Len(persistence) - 1
  BY <1>1, <1>2
<1>4. Head(persistence) = persistence[1] /\ Head(persistence) \in OpType
  OBVIOUS
<1>5. (persistence' = <<>>) <=> (Len(persistence') = 0)
  <2>1. ASSUME NEW q \in Seq(OpType) PROVE (q = <<>>) <=> (Len(q) = 0)
    OBVIOUS
  <2> QED
    BY <1>2, <2>1
<1>6. \A i \in DOMAIN persistence' : i + 1 \in DOMAIN persistence /\ persistence'[i] = persistence[i + 1]
  BY <1>1, <1>2, <1>3
<1>7. (persistence' = <<>>) <=> (Len(persistence) = 1)
  BY <1>1, <1>2, <1>5
<1> QED
  BY <1>1, <1>2, <1>3, <1>4, <1>6, <1>7

\* A paragraph of the same text is there, or has all its parts.
Told(p) == \E q \in Paragraphs : TextOf[q] = TextOf[p] /\ (entries[q] # 0 \/ Whole(q))
\* A step of the cache: what is fresh stays so, and no answer is lost or
\* replaced unless a batch asked for it.
Remembers ==
    /\ UNCHANGED <<clears, disk, undeleted>>
    /\ entries' \in Answers /\ byText' \in [Texts -> Nat]
    /\ MemoryFresh => MemoryFresh'
    /\ \A f \in Fields : entries[f] # 0 => entries'[f] # 0 /\ (f \notin Jobs => entries'[f] = entries[f] /\ f \notin Jobs')
    /\ \A p \in Paragraphs :
          entries'[p] # 0 \/ byText'[TextOf[p]] # 0 => byText[TextOf[p]] # 0 \/ Told(p)
\* And the file is told: at once, by the timer, or the entries stay.
Tells ==
    \/ entries' = entries /\ UNCHANGED <<dirty, persistence>>
    \/ dirty' = TRUE /\ UNCHANGED persistence
    \/ dirty' = FALSE /\ persistence' = Append(persistence, [op |-> "save", entries |-> entries', era |-> Era])

\* Memory that is not fresh stays so.
LEMMA AnchorHolds == ASSUME Typed, FInv, Remembers PROVE ~MemoryFresh => Anchored' /\ ~MemoryFresh' /\ ~Fresh(entries)'
<1>1. SUFFICES ASSUME ~MemoryFresh PROVE Anchored' /\ ~Fresh(entries)'
  BY DEF MemoryFresh
<1>2. PICK f \in Fields : entries[f] \notin {0, Era} /\ f \notin Jobs
  BY <1>1 DEF FInv, Tainted, Anchored
<1>3. entries'[f] = entries[f] /\ f \notin Jobs' /\ Era' = Era
  BY <1>2 DEF Remembers, Era
<1>4. f \in DOMAIN entries'
  BY DEF Remembers, Answers
<1> QED
  BY <1>2, <1>3, <1>4 DEF Anchored, Fresh

\* Such a step keeps the promises of the cache.
LEMMA RemembersKeeps == ASSUME Typed, FInv, Remembers, Tells PROVE FInv' /\ persistence' \in Seq(OpType)
<1> DEFINE w == [op |-> "save", entries |-> entries', era |-> Era]
           adds == persistence' = Append(persistence, w)
<1>1. Era' = Era /\ Era \in Nat /\ \A c : Fresh(c)' <=> Fresh(c)
  BY DEF Remembers, Era, Typed, Fresh
<1>2. w \in OpType /\ w.op = "save" /\ w.entries = entries' /\ w.era = Era
  BY <1>1 DEF OpType, Remembers
<1>3. persistence \in Seq(OpType)
  BY DEF Typed
<1> HIDE DEF w
<1>4. ~MemoryFresh => Anchored' /\ ~MemoryFresh' /\ ~Fresh(entries)'
  BY AnchorHolds
<1>5. MemoryFresh => Fresh(entries)'
  BY DEF Remembers, MemoryFresh
<1>6. UNCHANGED persistence \/ adds
  BY DEF Tells, w
<1>7. ASSUME adds
      PROVE  /\ DOMAIN persistence = 1..Len(persistence) /\ Len(persistence) \in Nat
             /\ DOMAIN persistence' = 1..Len(persistence) + 1 /\ Len(persistence') = Len(persistence) + 1
             /\ persistence'[Len(persistence) + 1] = w
             /\ \A i \in DOMAIN persistence : persistence'[i] = persistence[i]
             /\ persistence' \in Seq(OpType) /\ persistence' # <<>>
  BY <1>2, <1>3, <1>7, Appended
<1> HIDE DEF adds
<1>8. Tainted'
  <2>1. SUFFICES ASSUME ~MemoryFresh
                 PROVE  undeleted' /\ \A i \in DOMAIN persistence' : ~Deletes(i)' /\ ~Fresh(persistence[i].entries)'
    BY <1>4 DEF Tainted, Remembers
  <2>2. undeleted /\ \A i \in DOMAIN persistence : ~Deletes(i) /\ ~Fresh(persistence[i].entries)
    BY <2>1 DEF FInv, Tainted
  <2>3. CASE UNCHANGED persistence
    BY <1>1, <2>2, <2>3 DEF Remembers, Deletes
  <2>4. CASE adds
    BY <1>1, <1>2, <1>4, <1>7, <2>1, <2>2, <2>4 DEF Remembers, Deletes
  <2> QED
    BY <1>6, <2>3, <2>4
<1>9. Lasting'
  <2>1. SUFFICES ASSUME MemoryFresh' PROVE Lasting'
    BY DEF Lasting
  <2>2. /\ MemoryFresh
        /\ \A i \in DOMAIN persistence :
              Fresh(persistence[i].entries) \/ \E j \in DOMAIN persistence : j > i /\ Deletes(j)
        /\ ~undeleted => Fresh(disk) \/ \E j \in DOMAIN persistence : Deletes(j)
    BY <1>4, <2>1 DEF FInv, Lasting
  <2>3. disk' = disk /\ undeleted' = undeleted
    BY DEF Remembers
  <2>4. CASE UNCHANGED persistence
    BY <1>1, <2>2, <2>3, <2>4 DEF Lasting, Deletes
  <2>5. CASE adds
    <3>1. \A i \in DOMAIN persistence : i \in DOMAIN persistence' /\ (Deletes(i)' <=> Deletes(i))
      BY <1>7, <2>5 DEF Deletes
    <3>2. \A i \in DOMAIN persistence' : i \in DOMAIN persistence \/ persistence'[i].entries = entries'
      BY <1>2, <1>7, <2>5
    <3>3. \A i \in DOMAIN persistence' :
             Fresh(persistence[i].entries)' \/ \E j \in DOMAIN persistence' : j > i /\ Deletes(j)'
      BY <1>1, <1>5, <1>7, <2>2, <2>5, <3>1, <3>2
    <3>4. ~undeleted' => Fresh(disk)' \/ \E j \in DOMAIN persistence' : Deletes(j)'
      BY <1>1, <2>2, <2>3, <3>1
    <3> QED
      BY <3>3, <3>4 DEF Lasting
  <2> QED
    BY <1>6, <2>4, <2>5
<1>10. Saved'
  <2>1. CASE entries' = entries /\ UNCHANGED <<dirty, persistence>>
    BY <1>1, <2>1 DEF FInv, Saved, Remembers, Deletes
  <2>2. CASE dirty' = TRUE /\ UNCHANGED persistence
    BY <1>1, <2>2 DEF FInv, Saved, Remembers, Deletes
  <2>3. CASE adds
    BY <1>1, <1>2, <1>7, <2>3 DEF Saved, Deletes
  <2> QED
    BY <2>1, <2>2, <2>3 DEF Tells, adds, w
<1>11. Complete'
  <2>1. \A p \in Paragraphs : entries'[p] # 0 \/ byText'[TextOf[p]] # 0 => Served(p, entries)
    BY DEF FInv, Complete, WholeIn, Remembers, Told, Whole, Served
  <2>2. \A p \in Paragraphs : Served(p, entries) => Served(p, entries')
    BY TranslationAssumption DEF Remembers, Served, Fields
  <2>3. disk' = disk
    BY DEF Remembers
  <2>4. \A i \in DOMAIN persistence' :
           (i \in DOMAIN persistence /\ persistence'[i] = persistence[i]) \/ persistence'[i].entries = entries'
    BY <1>2, <1>6, <1>7
  <2>5. WholeIn(entries')
    BY <2>1, <2>2 DEF WholeIn
  <2>6. WholeIn(disk') /\ \A i \in DOMAIN persistence' : WholeIn(persistence'[i].entries)
    BY <2>3, <2>4, <2>5 DEF FInv, Complete
  <2> QED
    BY <2>1, <2>2, <2>5, <2>6 DEF Complete, WholeIn, Served
<1> QED
  BY <1>3, <1>6, <1>7, <1>8, <1>9, <1>10, <1>11 DEF FInv

\* A file operation settles.
LEMMA WriteSettlesKeeps ==
    ASSUME Typed, FInv, WriteSettles
    PROVE  /\ FInv' /\ persistence' \in Seq(OpType) /\ disk' \in Answers /\ dirty' \in BOOLEAN /\ undeleted' \in BOOLEAN
<1> DEFINE first == persistence[1]
           done == disk' = first.entries
                   /\ undeleted' = (undeleted /\ first.op = "save" /\ ~Fresh(first.entries)) /\ dirty' = dirty
           failed == disk' = disk
                     /\ dirty' = (dirty \/ (first.op = "save" /\ first.era = Era))
                     /\ undeleted' = (undeleted \/ first.op = "delete")
<1>1. /\ persistence # <<>> /\ persistence' = Tail(persistence) /\ Head(persistence) = first
      /\ UNCHANGED <<entries, byText, clears, pending, inflight>>
  <2>1. persistence # <<>> /\ persistence' = Tail(persistence) /\ UNCHANGED <<entries, byText, clears, pending, inflight>>
    BY DEF WriteSettles, cache, queue
  <2> QED
    BY <2>1 DEF Typed
<1>2. done \/ failed
  BY <1>1 DEF WriteSettles
<1>3. persistence \in Seq(OpType) /\ Len(persistence) \in Nat \ {0}
  BY <1>1, Advanced DEF Typed
<1>4. /\ persistence' \in Seq(OpType) /\ DOMAIN persistence = 1..Len(persistence)
      /\ Len(persistence') = Len(persistence) - 1 /\ DOMAIN persistence' = 1..Len(persistence) - 1
      /\ \A i \in DOMAIN persistence' : i + 1 \in DOMAIN persistence /\ persistence'[i] = persistence[i + 1]
      /\ (persistence' = <<>>) <=> (Len(persistence) = 1)
  BY <1>1, <1>3, Advanced
<1>5. first \in OpType /\ 1 \in DOMAIN persistence /\ first.entries \in Answers /\ first.op \in {"save", "delete"}
  <2>1. 1 \in DOMAIN persistence
    BY <1>3, <1>4
  <2>2. first \in OpType
    BY <1>3, <2>1
  <2> QED
    BY <2>1, <2>2 DEF OpType
<1>6. Era' = Era /\ (\A c : Fresh(c)' <=> Fresh(c)) /\ (MemoryFresh' <=> MemoryFresh) /\ (Anchored' <=> Anchored)
  BY <1>1 DEF Era, Fresh, MemoryFresh, Anchored, Jobs
<1>7. undeleted \in BOOLEAN /\ dirty \in BOOLEAN
  BY DEF Typed
<1>8. (Deletes(1) <=> first.op = "delete") /\ (\A i \in DOMAIN persistence' : Deletes(i)' <=> Deletes(i + 1))
  BY <1>4 DEF Deletes
<1>9. \A j \in DOMAIN persistence : j # 1 => j - 1 \in DOMAIN persistence' /\ (Deletes(j - 1)' <=> Deletes(j))
  BY <1>3, <1>4, <1>8
<1> HIDE DEF first
<1>10. Tainted'
  <2>1. SUFFICES ASSUME ~MemoryFresh
                 PROVE  undeleted' /\ Anchored
                        /\ \A i \in DOMAIN persistence' : ~Deletes(i)' /\ ~Fresh(persistence[i].entries)'
    BY <1>6 DEF Tainted
  <2>2. undeleted /\ Anchored /\ \A i \in DOMAIN persistence : ~Deletes(i) /\ ~Fresh(persistence[i].entries)
    BY <2>1 DEF FInv, Tainted
  <2>3. ~(first.op = "delete") /\ ~Fresh(first.entries)
    BY <1>5, <1>8, <2>2 DEF first
  <2>4. undeleted'
    BY <1>2, <1>5, <2>2, <2>3
  <2> QED
    BY <1>4, <1>6, <1>8, <2>2, <2>4
<1>11. Lasting'
  <2>1. SUFFICES ASSUME MemoryFresh PROVE Lasting'
    BY <1>6 DEF Lasting
  <2>2. /\ \A i \in DOMAIN persistence :
              Fresh(persistence[i].entries) \/ \E j \in DOMAIN persistence : j > i /\ Deletes(j)
        /\ ~undeleted => Fresh(disk) \/ \E j \in DOMAIN persistence : Deletes(j)
    BY <2>1 DEF FInv, Lasting
  <2>3. ASSUME NEW i \in DOMAIN persistence'
        PROVE  Fresh(persistence[i].entries)' \/ \E j \in DOMAIN persistence' : j > i /\ Deletes(j)'
    <3>1. i \in Nat /\ i + 1 \in DOMAIN persistence /\ persistence'[i] = persistence[i + 1]
      BY <1>3, <1>4
    <3>2. CASE Fresh(persistence[i + 1].entries)
      BY <1>6, <3>1, <3>2
    <3>3. CASE \E j \in DOMAIN persistence : j > i + 1 /\ Deletes(j)
      <4>1. PICK j \in DOMAIN persistence : j > i + 1 /\ Deletes(j)
        BY <3>3
      <4>2. j \in Nat /\ j # 1 /\ j - 1 > i
        BY <1>3, <1>4, <3>1, <4>1
      <4> QED
        BY <1>9, <4>1, <4>2
    <3> QED
      BY <2>2, <3>1, <3>2, <3>3
  <2>4. ASSUME ~undeleted' PROVE Fresh(disk)' \/ \E j \in DOMAIN persistence' : Deletes(j)'
    <3>1. CASE done
      <4>1. Fresh(first.entries) \/ \E j \in DOMAIN persistence : j > 1 /\ Deletes(j)
        BY <1>5, <2>2 DEF first
      <4> QED
        BY <1>6, <1>9, <3>1, <4>1
    <3>2. CASE failed
      <4>1. ~undeleted /\ ~Deletes(1) /\ disk' = disk
        BY <1>8, <2>4, <3>2
      <4>2. Fresh(disk) \/ \E j \in DOMAIN persistence : Deletes(j)
        BY <2>2, <4>1
      <4> QED
        BY <1>6, <1>9, <4>1, <4>2
    <3> QED
      BY <1>2, <3>1, <3>2
  <2> QED
    BY <2>3, <2>4 DEF Lasting
<1>12. Saved'
  <2>1. persistence' # <<>> => persistence'[Len(persistence')] = persistence[Len(persistence)]
    BY <1>3, <1>4
  <2>2. /\ ~dirty => persistence[Len(persistence)].entries = entries
        /\ Deletes(Len(persistence)) \/ persistence[Len(persistence)].era = Era
    BY <1>1 DEF FInv, Saved
  <2>3. persistence' # <<>> => Deletes(Len(persistence))' \/ persistence'[Len(persistence')].era = Era'
    BY <1>6, <2>1, <2>2 DEF Deletes
  <2>4. dirty' = FALSE => dirty = FALSE
    BY <1>2, <1>7
  <2>5. ASSUME persistence' = <<>>, ~dirty', ~undeleted' PROVE disk' = entries'
    <3>1. first = persistence[Len(persistence)] /\ Len(persistence) = 1
      BY <1>4, <2>5 DEF first
    <3>2. CASE done
      BY <1>1, <2>2, <2>5, <3>1, <3>2
    <3>3. CASE failed
      BY <1>5, <1>8, <2>2, <2>5, <3>1, <3>3
    <3> QED
      BY <1>2, <3>2, <3>3
  <2>6. dirty' \in BOOLEAN
    BY <1>2, <1>7
  <2> QED
    BY <1>1, <2>1, <2>2, <2>3, <2>4, <2>5, <2>6 DEF Saved
<1>13. Complete'
  <2>1. WholeIn(disk')
    BY <1>2, <1>5 DEF FInv, Complete, first
  <2> QED
    BY <1>1, <1>4, <2>1 DEF FInv, Complete, WholeIn, Served
<1> QED
  BY <1>2, <1>4, <1>5, <1>7, <1>10, <1>11, <1>12, <1>13 DEF FInv, Typed

\* A clear: what was saved before it, or is being saved, is deleted after it.
LEMMA ClearKeeps ==
    ASSUME Typed, FInv, Clear
    PROVE  /\ FInv' /\ persistence' \in Seq(OpType) /\ entries' \in Answers /\ byText' \in [Texts -> Nat] /\ clears' \in Nat
<1>1. /\ entries' = NoEntries /\ byText' = [t \in Texts |-> 0] /\ clears' = clears + 1
      /\ persistence' = Append(persistence, Delete) /\ UNCHANGED <<disk, undeleted>>
  BY DEF Clear
<1>2. clears \in Nat /\ persistence \in Seq(OpType) /\ Delete \in OpType /\ NoEntries \in Answers
      /\ Delete.op = "delete" /\ Delete.entries = NoEntries
  BY DEF Typed, Delete, OpType, NoEntries, Answers, Era
<1>3. /\ persistence' \in Seq(OpType) /\ persistence' # <<>> /\ Len(persistence) \in Nat
      /\ DOMAIN persistence = 1..Len(persistence)
      /\ DOMAIN persistence' = 1..Len(persistence) + 1 /\ Len(persistence') = Len(persistence) + 1
      /\ persistence'[Len(persistence) + 1] = Delete
      /\ \A i \in DOMAIN persistence : persistence'[i] = persistence[i]
  BY <1>1, <1>2, Appended
<1>4. Fresh(NoEntries)' /\ MemoryFresh'
  BY <1>1 DEF Fresh, MemoryFresh, NoEntries
<1>5. Deletes(Len(persistence))' /\ \A i \in DOMAIN persistence' : i = Len(persistence) + 1 => Deletes(i)'
  BY <1>2, <1>3 DEF Deletes
<1>6. Tainted'
  BY <1>4 DEF Tainted
<1>7. Lasting'
  <2>1. \A i \in DOMAIN persistence' : i = Len(persistence) + 1 \/ i < Len(persistence) + 1
    BY <1>3
  <2>2. PICK last \in DOMAIN persistence' : last = Len(persistence) + 1
    BY <1>3
  <2>3. Deletes(last)' /\ persistence'[last].entries = NoEntries
    BY <1>2, <1>3, <1>5, <2>2
  <2>4. ASSUME NEW i \in DOMAIN persistence'
        PROVE  Fresh(persistence[i].entries)' \/ \E j \in DOMAIN persistence' : j > i /\ Deletes(j)'
    <3>1. CASE i = last
      <4>1. NoEntries' = NoEntries
        BY DEF NoEntries
      <4> QED
        BY <1>4, <2>3, <3>1, <4>1
    <3>2. CASE last > i
      BY <2>3, <3>2
    <3> QED
      BY <1>3, <2>1, <2>2, <3>1, <3>2
  <2> QED
    BY <2>3, <2>4 DEF Lasting
<1>8. Saved'
  <2>1. persistence'[Len(persistence')].entries = entries'
    BY <1>1, <1>2, <1>3
  <2> QED
    BY <1>3, <1>5, <2>1 DEF Saved
<1>9. Complete'
  <2>1. WholeIn(NoEntries) /\ \A p \in Paragraphs : byText'[TextOf[p]] = 0
    BY <1>1, TranslationAssumption DEF WholeIn, NoEntries, Fields
  <2>2. \A i \in DOMAIN persistence' :
           persistence'[i].entries = NoEntries \/ (i \in DOMAIN persistence /\ persistence'[i] = persistence[i])
    BY <1>2, <1>3
  <2> QED
    BY <1>1, <2>1, <2>2 DEF FInv, Complete, WholeIn, Served
<1> QED
  BY <1>1, <1>2, <1>3, <1>6, <1>7, <1>8, <1>9 DEF FInv

\* A restart loads the file.
LEMMA RestartKeeps ==
    ASSUME Typed, FInv, Restart, Jobs' = {}
    PROVE  /\ FInv' /\ persistence' \in Seq(OpType)
           /\ entries' \in Answers /\ byText' \in [Texts -> Nat] /\ undeleted' \in BOOLEAN
<1>1. /\ entries' = disk /\ byText' = [t \in Texts |-> 0] /\ dirty' = FALSE /\ persistence' = <<>>
      /\ undeleted' = (undeleted \/ \E i \in DOMAIN persistence : Deletes(i))
      /\ UNCHANGED <<clears, disk>>
  BY DEF Restart, Deletes
<1>2. Era' = Era /\ (\A c : Fresh(c)' <=> Fresh(c))
  BY <1>1 DEF Era, Fresh
<1>3. (MemoryFresh' <=> Fresh(disk)) /\ DOMAIN disk = Fields
  BY <1>1, <1>2 DEF MemoryFresh, Fresh, Typed, Answers
<1>4. DOMAIN persistence' = {}
  BY <1>1
<1>5. Tainted'
  <2>1. SUFFICES ASSUME ~Fresh(disk) PROVE undeleted' /\ Anchored'
    BY <1>3, <1>4 DEF Tainted
  <2>2. Anchored'
    BY <1>1, <1>2, <1>3, <2>1 DEF Anchored, Fresh
  <2>3. undeleted'
    BY <1>1, <2>1 DEF FInv, Tainted, Lasting
  <2> QED
    BY <2>2, <2>3
<1>6. Lasting'
  BY <1>1, <1>2, <1>3, <1>4 DEF Lasting
<1>7. Saved'
  BY <1>1 DEF Saved
<1>8. Complete'
  <2>1. \A p \in Paragraphs : byText'[TextOf[p]] = 0
    BY <1>1, TranslationAssumption DEF Fields
  <2> QED
    BY <1>1, <1>4, <2>1 DEF FInv, Complete, WholeIn, Served
<1> QED
  BY <1>1, <1>5, <1>6, <1>7, <1>8 DEF FInv, Typed

-----------------------------------------------------------------------------
(* The steps                                                                *)

\* Every change of the entries is told to the file.
LEMMA FlushTells == ASSUME ScheduleFlush PROVE Tells
  BY DEF ScheduleFlush, Flushes, Write, Tells

\* A step that leaves the entries alone, and queues only what has no answer.
LEMMA StandingRemembers ==
    ASSUME Typed, UNCHANGED <<cache, disk, undeleted>>, \A f \in Jobs' : f \in Jobs \/ entries[f] = 0
    PROVE  Remembers
<1>1. UNCHANGED <<entries, byText, clears>>
  BY DEF cache
<1>2. MemoryFresh => MemoryFresh'
  BY <1>1 DEF MemoryFresh, Fresh, Era
<1> QED
  BY <1>1, <1>2 DEF Remembers, Typed, Told

\* What such a step keeps of the types.
LEMMA RemembersTypes ==
    ASSUME Typed, FInv, Remembers, Tells
    PROVE  /\ FInv' /\ persistence' \in Seq(OpType) /\ entries' \in Answers /\ byText' \in [Texts -> Nat]
           /\ clears' \in Nat /\ dirty' \in BOOLEAN /\ disk' \in Answers /\ undeleted' \in BOOLEAN
<1>1. FInv' /\ persistence' \in Seq(OpType)
  BY RemembersKeeps
<1>2. dirty' \in BOOLEAN
  BY DEF Typed, Tells
<1> QED
  BY <1>1, <1>2 DEF Typed, Remembers

\* A read is answered.
LEMMA ReadsAnswerIsSafe == ASSUME IInv, NEW f \in Fields, ReadsAnswer(f) PROVE IInv'
<1>1. UNCHANGED <<enabled, disposed, clears, queue, failures, disk, undeleted, budget>> /\ TextOf[f] \in Texts
  BY TranslationAssumption DEF ReadsAnswer
<1>2. QInv' /\ Jobs' = Jobs
  BY <1>1, QueueStands DEF IInv
<1>3. Typed /\ FInv
  BY DEF IInv
<1>4. CASE /\ entries[f] # 0
           /\ byText' = [byText EXCEPT ![TextOf[f]] = entries[f]]
           /\ UNCHANGED <<entries, dirty, flushTimer, persistence>>
  <2>1. byText' \in [Texts -> Nat] /\ (MemoryFresh => MemoryFresh')
    BY <1>1, <1>3, <1>4 DEF Typed, Answers, MemoryFresh, Fresh, Era
  <2>2. \A p \in Paragraphs : entries'[p] # 0 \/ byText'[TextOf[p]] # 0 => byText[TextOf[p]] # 0 \/ Told(p)
    BY <1>1, <1>3, <1>4, TranslationAssumption DEF Typed, Fields, Told
  <2>3. Remembers /\ Tells
    BY <1>1, <1>2, <1>3, <1>4, <2>1, <2>2 DEF Remembers, Tells, Typed
  <2>4. flushTimer' \in BOOLEAN
    BY <1>3, <1>4 DEF Typed
  <2> QED
    BY <1>1, <1>2, <1>3, <2>3, <2>4, RemembersTypes DEF IInv, Typed, queue, failures
<1>5. CASE entries[f] = 0 /\ byText[TextOf[f]] # 0 /\ Record(f, byText[TextOf[f]]) /\ UNCHANGED byText
  <2>1. entries' = [entries EXCEPT ![f] = byText[TextOf[f]]] /\ ScheduleFlush /\ byText[TextOf[f]] \in Nat
    BY <1>1, <1>3, <1>5 DEF Record, Typed
  <2>2. entries' \in Answers /\ (MemoryFresh => MemoryFresh')
    BY <1>1, <1>3, <1>5, <2>1 DEF Typed, Answers, MemoryFresh, Fresh, Era
  <2>3. /\ \A g \in Fields : entries[g] # 0 => entries'[g] = entries[g]
        /\ \A p \in Paragraphs : entries'[p] # 0 \/ byText'[TextOf[p]] # 0 => byText[TextOf[p]] # 0 \/ Told(p)
    BY <1>3, <1>5, <2>1, TranslationAssumption DEF Typed, Answers, Fields, Told
  <2>4. Remembers
    BY <1>1, <1>2, <1>3, <1>5, <2>2, <2>3 DEF Remembers, Typed
  <2>5. Tells /\ flushTimer' \in BOOLEAN
    BY <1>3, <2>1, FlushTells DEF ScheduleFlush, Typed
  <2> QED
    BY <1>1, <1>2, <1>3, <2>4, <2>5, RemembersTypes DEF IInv, Typed, queue, failures
<1> QED
  BY <1>4, <1>5 DEF ReadsAnswer

\* A read queues its text.
LEMMA EnqueueIsSafe == ASSUME IInv, NEW f \in Plain, Enqueue(f) PROVE IInv'
<1>1. Typed /\ QInv /\ FInv
  BY DEF IInv
<1>2. QInv' /\ Jobs' = Jobs \cup {f} /\ pumpTimer' \in BOOLEAN
  BY <1>1, EnqueueKeeps
<1>3. entries[f] = 0 /\ owners' = [owners EXCEPT ![TextOf[f]] = f]
      /\ UNCHANGED <<enabled, disposed, cache, generation, failures, file>>
  BY DEF Enqueue, Unanswered
<1>4. Remembers /\ Tells
  BY <1>1, <1>2, <1>3, StandingRemembers DEF file, cache, Tells
<1>5. owners' \in [Texts -> Plain \cup {None}]
  BY <1>1, <1>3 DEF Typed
<1> QED
  BY <1>1, <1>2, <1>3, <1>4, <1>5, RemembersTypes DEF IInv, Typed, failures, file

\* A paragraph is published.
LEMMA PublishIsSafe == ASSUME IInv, NEW p \in Paragraphs, PublishParagraph(p) PROVE IInv'
<1>1. PICK oldest \in PartsOf[p] :
         /\ entries' = [entries EXCEPT ![p] = entries[oldest]] /\ ScheduleFlush
         /\ byText' = [byText EXCEPT ![TextOf[p]] = entries[oldest]]
  BY DEF PublishParagraph, Record
<1>2. /\ entries[p] = 0 /\ Whole(p) /\ p \in Fields /\ oldest \in Fields /\ TextOf[p] \in Texts
      /\ UNCHANGED <<enabled, disposed, clears, queue, failures, disk, undeleted, budget>>
  BY TranslationAssumption DEF PublishParagraph, Unanswered, Fields
<1>3. QInv' /\ Jobs' = Jobs
  BY <1>2, QueueStands DEF IInv
<1>4. Typed /\ FInv /\ entries[oldest] \in Nat
  BY <1>2 DEF IInv, Typed, Answers
<1>5. entries' \in Answers /\ byText' \in [Texts -> Nat] /\ (MemoryFresh => MemoryFresh')
  BY <1>1, <1>2, <1>4 DEF Typed, Answers, MemoryFresh, Fresh, Era
<1>6. /\ \A g \in Fields : entries[g] # 0 => entries'[g] = entries[g]
      /\ \A q \in Paragraphs : entries'[q] # 0 \/ byText'[TextOf[q]] # 0 => byText[TextOf[q]] # 0 \/ Told(q)
  BY <1>1, <1>2, <1>4 DEF Typed, Answers, Fields, Told
<1>7. Remembers
  BY <1>2, <1>3, <1>4, <1>5, <1>6 DEF Remembers, Typed
<1>8. Tells /\ flushTimer' \in BOOLEAN
  BY <1>1, <1>4, FlushTells DEF ScheduleFlush, Typed
<1> QED
  BY <1>2, <1>3, <1>4, <1>7, <1>8, RemembersTypes DEF IInv, Typed, queue, failures

\* A batch is answered: its answers were asked for since the last clear.
LEMMA LandsIsSafe == ASSUME IInv, NEW r \in runs, Lands(r) PROVE IInv'
<1>1. Typed /\ QInv /\ FInv /\ Era \in Nat \ {0}
  BY DEF IInv, Typed, Era
<1>2. Current(r) /\ Ends(r) /\ UNCHANGED <<enabled, disposed, clears, generation, tripped, disk, undeleted>>
  BY DEF Lands, Finally
<1>3. /\ QInv' /\ Jobs' = Jobs \ r.jobs /\ r.jobs \subseteq Jobs \cap Plain
      /\ owners' \in [Texts -> Plain \cup {None}] /\ pumpTimer' \in BOOLEAN
  BY <1>1, <1>2, EndsKeeps
<1>4. r.era = Era
  BY <1>1, <1>2 DEF QInv, Sorted, Asked, Current
<1>5. PICK ok \in SUBSET r.jobs :
         /\ entries' = [f \in Fields |-> IF f \in ok THEN Era ELSE entries[f]]
         /\ byText' = [t \in Texts |-> IF t \in TextsOf(ok) THEN Era ELSE byText[t]]
         /\ IF ok # {} \/ dirty THEN ScheduleFlush ELSE UNCHANGED <<dirty, flushTimer, persistence>>
  BY <1>4 DEF Lands
<1>6. entries' \in Answers /\ byText' \in [Texts -> Nat] /\ (MemoryFresh => MemoryFresh')
  BY <1>1, <1>2, <1>5 DEF Typed, Answers, MemoryFresh, Fresh, Era
<1>7. /\ \A f \in Fields : entries[f] # 0 => entries'[f] # 0 /\ (f \notin Jobs => entries'[f] = entries[f] /\ f \notin Jobs')
      /\ \A p \in Paragraphs : entries'[p] = entries[p] /\ byText'[TextOf[p]] = byText[TextOf[p]]
  BY <1>1, <1>3, <1>5, TranslationAssumption DEF Fields, TextsOf
<1>8. Remembers
  BY <1>1, <1>2, <1>6, <1>7 DEF Remembers, Told
<1>9. Tells /\ flushTimer' \in BOOLEAN
  <2>1. CASE ScheduleFlush
    BY <1>1, <2>1, FlushTells DEF ScheduleFlush, Typed
  <2>2. CASE ok = {} /\ UNCHANGED <<dirty, flushTimer, persistence>>
    <3>1. entries' = entries
      BY <1>1, <1>5, <2>2 DEF Typed, Answers
    <3> QED
      BY <1>1, <2>2, <3>1 DEF Tells, Typed
  <2> QED
    BY <1>5, <2>1, <2>2
<1> QED
  BY <1>1, <1>2, <1>3, <1>8, <1>9, RemembersTypes DEF IInv, Typed

\* A batch has no provider left.
LEMMA ExhaustedIsSafe == ASSUME IInv, NEW r \in runs, Exhausted(r) PROVE IInv'
<1>1. Typed /\ QInv /\ FInv
  BY DEF IInv
<1>2. Current(r) /\ Ends(r) /\ UNCHANGED <<enabled, disposed, cache, generation, tripped, file>>
  BY DEF Exhausted, Finally
<1>3. /\ QInv' /\ Jobs' = Jobs \ r.jobs
      /\ owners' \in [Texts -> Plain \cup {None}] /\ pumpTimer' \in BOOLEAN
  BY <1>1, <1>2, EndsKeeps DEF cache
<1>4. Remembers /\ Tells
  BY <1>1, <1>2, <1>3, StandingRemembers DEF file, cache, Tells
<1> QED
  BY <1>1, <1>2, <1>3, <1>4, RemembersTypes DEF IInv, Typed, file

\* A step that leaves the cache, the file and the owners alone.
LEMMA RunsStay ==
    ASSUME IInv, QInv', Jobs' = Jobs, tripped' \subseteq Nat, pumpTimer' \in BOOLEAN,
           UNCHANGED <<enabled, disposed, cache, owners, generation, file>>
    PROVE  IInv'
<1>1. Typed /\ FInv
  BY DEF IInv
<1>2. Remembers /\ Tells
  BY <1>1, StandingRemembers DEF file, cache, Tells
<1> QED
  BY <1>1, <1>2, RemembersTypes DEF IInv, Typed, file

\* Whatever becomes of a batch.
LEMMA SettlingIsSafe == ASSUME IInv, NEW r \in runs, RunStep(r) PROVE IInv'
<1>1. Typed /\ QInv
  BY DEF IInv
<1>2. CASE HopFails(r)
  <2>1. QInv' /\ Jobs' = Jobs
    BY <1>1, <1>2, HopFailsKeeps
  <2>2. UNCHANGED <<enabled, disposed, cache, owners, generation, pumpTimer, file>> /\ tripped' = tripped \cup {r.hop}
    BY <1>2 DEF HopFails
  <2>3. r.hop \in Nat
    BY <1>1 DEF QInv, Sorted, RunType
  <2>4. tripped' \subseteq Nat /\ pumpTimer' \in BOOLEAN
    BY <1>1, <2>2, <2>3 DEF Typed
  <2> QED
    BY <2>1, <2>2, <2>4, RunsStay
<1>3. CASE Dropped(r)
  <2>1. QInv' /\ Jobs' = Jobs
    BY <1>1, <1>3, DroppedKeeps
  <2>2. UNCHANGED <<enabled, disposed, cache, owners, generation, pumpTimer, tripped, file>>
    BY <1>3 DEF Dropped, failures
  <2>3. tripped' \subseteq Nat /\ pumpTimer' \in BOOLEAN
    BY <1>1, <2>2 DEF Typed
  <2> QED
    BY <2>1, <2>2, <2>3, RunsStay
<1> QED
  BY <1>2, <1>3, LandsIsSafe, ExhaustedIsSafe DEF RunStep

\* The timer of the file fires.
LEMMA FlushFiresIsSafe == ASSUME IInv, FlushFires PROVE IInv'
<1>1. Typed /\ QInv /\ FInv
  BY DEF IInv
<1>2. /\ flushTimer' = FALSE /\ IF dirty THEN Flushes(entries) ELSE UNCHANGED <<dirty, persistence>>
      /\ UNCHANGED <<enabled, disposed, cache, queue, failures, disk, undeleted>>
  BY DEF FlushFires
<1>3. QInv' /\ Jobs' = Jobs
  BY <1>1, <1>2, QueueStands DEF cache
<1>4. Remembers
  BY <1>1, <1>2, <1>3, StandingRemembers
<1>5. Tells
  BY <1>2 DEF Tells, Flushes, Write, cache
<1> QED
  BY <1>1, <1>2, <1>3, <1>4, <1>5, RemembersTypes DEF IInv, Typed, queue, failures

\* The localizer is disposed.
LEMMA DisposeIsSafe == ASSUME IInv, Dispose PROVE IInv'
<1>1. Typed /\ QInv /\ FInv
  BY DEF IInv
<1>2. /\ disposed' = TRUE /\ flushTimer' = FALSE /\ pumpTimer' = FALSE
      /\ IF dirty THEN Flushes(entries) ELSE UNCHANGED <<dirty, persistence>>
      /\ UNCHANGED <<enabled, cache, generation, failures, disk, undeleted>>
  BY DEF Dispose
<1>3. QInv' /\ Jobs' \subseteq Jobs /\ owners' \in [Texts -> Plain \cup {None}]
  BY <1>1, DisposeQueue
<1>4. Remembers
  BY <1>1, <1>2, <1>3, StandingRemembers
<1>5. Tells
  BY <1>2 DEF Tells, Flushes, Write, cache
<1> QED
  BY <1>1, <1>2, <1>3, <1>4, <1>5, RemembersTypes DEF IInv, Typed, failures

\* Translation is switched off or on.
LEMMA SwitchIsSafe == ASSUME IInv, Switch PROVE IInv'
<1>1. Typed /\ QInv /\ FInv
  BY DEF IInv
<1>2. enabled' = ~enabled /\ UNCHANGED <<disposed, cache, file>>
  BY DEF Switch
<1>3. CASE CancelWork /\ UNCHANGED <<runs, failures>>
  <2>1. QInv' /\ Jobs' = {} /\ owners' \in [Texts -> Plain \cup {None}]
    BY <1>1, <1>3, CancelWorkKeeps
  <2>2. Remembers /\ Tells
    BY <1>1, <1>2, <2>1, StandingRemembers DEF file, cache, Tells
  <2>3. generation' \in Nat /\ pumpTimer' \in BOOLEAN
    <3>1. generation' = generation + 1 /\ generation \in Nat
      BY <1>1, <1>3 DEF CancelWork, Typed
    <3>2. generation' \in Nat
      BY <3>1
    <3>3. pumpTimer' \in BOOLEAN
      BY <1>3 DEF CancelWork
    <3> QED
      BY <3>2, <3>3
  <2> QED
    BY <1>1, <1>2, <1>3, <2>1, <2>2, <2>3, RemembersTypes DEF IInv, Typed, file, failures
<1>4. CASE ResetFailures /\ UNCHANGED queue
  <2>1. QInv' /\ Jobs' = Jobs
    BY <1>1, <1>2, <1>4, QueueStands DEF cache
  <2>2. Remembers /\ Tells
    BY <1>1, <1>2, <2>1, StandingRemembers DEF file, cache, Tells
  <2>3. tripped' = {}
    BY <1>4 DEF ResetFailures
  <2> QED
    BY <1>1, <1>2, <1>4, <2>1, <2>2, <2>3, RemembersTypes DEF IInv, Typed, file, queue
<1> QED
  BY <1>3, <1>4 DEF Switch

\* A file operation settles.
LEMMA WriteIsSafe == ASSUME IInv, WriteSettles PROVE IInv'
<1>1. Typed /\ QInv /\ FInv
  BY DEF IInv
<1>2. UNCHANGED <<enabled, disposed, cache, queue, failures, flushTimer>>
  BY DEF WriteSettles
<1>3. QInv'
  BY <1>1, <1>2, QueueStands DEF cache
<1>4. FInv' /\ persistence' \in Seq(OpType) /\ disk' \in Answers /\ dirty' \in BOOLEAN /\ undeleted' \in BOOLEAN
  BY <1>1, WriteSettlesKeeps
<1> QED
  BY <1>1, <1>2, <1>3, <1>4 DEF IInv, Typed, cache, queue, failures

\* The cache is cleared.
LEMMA ClearIsSafe == ASSUME IInv, Clear PROVE IInv'
<1>1. Typed /\ QInv /\ FInv
  BY DEF IInv
<1>2. CancelWork /\ UNCHANGED <<enabled, disposed, runs, disk, undeleted>>
      /\ dirty' = FALSE /\ flushTimer' = FALSE /\ tripped' = {}
  BY DEF Clear, ResetFailures
<1>3. QInv' /\ owners' \in [Texts -> Plain \cup {None}]
  BY <1>1, <1>2, CancelWorkKeeps
<1>4. FInv' /\ persistence' \in Seq(OpType) /\ entries' \in Answers /\ byText' \in [Texts -> Nat] /\ clears' \in Nat
  BY <1>1, ClearKeeps
<1>5. generation' \in Nat /\ pumpTimer' \in BOOLEAN
  <2>1. generation' = generation + 1 /\ generation \in Nat
    BY <1>1, <1>2 DEF CancelWork, Typed
  <2>2. generation' \in Nat
    BY <2>1
  <2>3. pumpTimer' \in BOOLEAN
    BY <1>2 DEF CancelWork
  <2> QED
    BY <2>2, <2>3
<1> QED
  BY <1>1, <1>2, <1>3, <1>4, <1>5 DEF IInv, Typed

\* The process starts again from the file.
LEMMA RestartIsSafe == ASSUME IInv, Restart PROVE IInv'
<1>1. Typed /\ QInv /\ FInv
  BY DEF IInv
<1>2. QInv' /\ Jobs' = {} /\ owners' \in [Texts -> Plain \cup {None}]
  BY <1>1, RestartQueue
<1>3. FInv' /\ persistence' \in Seq(OpType) /\ entries' \in Answers /\ byText' \in [Texts -> Nat] /\ undeleted' \in BOOLEAN
  BY <1>1, <1>2, RestartKeeps
<1>4. /\ disposed' = FALSE /\ generation' = 0 /\ pumpTimer' = FALSE /\ dirty' = FALSE /\ flushTimer' = FALSE /\ tripped' = {}
      /\ UNCHANGED <<enabled, clears, disk>>
  BY DEF Restart, ResetFailures
<1> QED
  BY <1>1, <1>2, <1>3, <1>4 DEF IInv, Typed

\* The first process has an empty file and an empty queue.
LEMMA InitHolds == Init => IInv
<1> SUFFICES ASSUME Init PROVE IInv
  OBVIOUS
<1>2. Typed
  <2>1. enabled \in BOOLEAN /\ disposed \in BOOLEAN /\ pumpTimer \in BOOLEAN /\ dirty \in BOOLEAN
        /\ flushTimer \in BOOLEAN /\ undeleted \in BOOLEAN
    BY DEF Init
  <2>2. entries \in Answers /\ byText \in [Texts -> Nat] /\ disk \in Answers /\ clears \in Nat /\ generation \in Nat
    BY DEF Init, Answers, NoEntries
  <2>3. owners \in [Texts -> Plain \cup {None}] /\ tripped \subseteq Nat
    BY DEF Init
  <2>4. persistence \in Seq(OpType)
    BY DEF Init
  <2> QED
    BY <2>1, <2>2, <2>3, <2>4 DEF Typed
<1>3. Jobs = {} /\ Cur(runs) = {}
  BY DEF Init, Jobs, Cur
<1>4. Sorted(pending, inflight, active, runs)
  <2>1. IsFiniteSet({}) /\ Cardinality({}) = 0 /\ 0 <= MaxConcurrent
    BY FS_EmptySet, TranslationAssumption
  <2>2. pending = <<>> /\ inflight = {} /\ active = 0 /\ runs = {}
    BY DEF Init
  <2> QED
    BY <1>3, <2>1, <2>2, EmptyQueue DEF Sorted, Apart, Asked
<1>5. QInv
  BY <1>3, <1>4 DEF Init, QInv, OneEach, Owned, Gone
<1>6. MemoryFresh /\ Fresh(disk)
  BY DEF Init, MemoryFresh, Fresh, NoEntries
<1>7. persistence = <<>> /\ disk = entries /\ entries = NoEntries
  BY DEF Init
<1>8. WholeIn(NoEntries) /\ \A p \in Paragraphs : byText[TextOf[p]] = 0
  BY TranslationAssumption DEF Init, WholeIn, NoEntries, Fields
<1> QED
  BY <1>2, <1>5, <1>6, <1>7, <1>8 DEF IInv, FInv, Tainted, Lasting, Saved, Complete

\* Every step preserves the invariant.
LEMMA StepHolds == IInv /\ [Next]_vars => IInv'
<1> SUFFICES ASSUME IInv, [Next]_vars PROVE IInv'
  OBVIOUS
<1>2. CASE UNCHANGED vars
  <2>1. QInv' /\ Jobs' = Jobs
    BY <1>2, QueueStands DEF IInv, vars, cache
  <2>2. tripped' \subseteq Nat /\ pumpTimer' \in BOOLEAN
    BY <1>2 DEF IInv, Typed, vars, failures, queue
  <2> QED
    BY <1>2, <2>1, <2>2, RunsStay DEF vars, queue
<1>3. CASE PumpFires
  <2>1. QInv' /\ Jobs' = Jobs
    BY <1>3, PumpFiresKeeps DEF IInv
  <2>2. UNCHANGED <<enabled, disposed, cache, owners, generation, tripped, file>> /\ pumpTimer' = FALSE
    BY <1>3 DEF PumpFires, Pump, failures
  <2>3. tripped' \subseteq Nat /\ pumpTimer' \in BOOLEAN
    BY <2>2 DEF IInv, Typed
  <2> QED
    BY <2>1, <2>2, <2>3, RunsStay
<1>4. ASSUME NEW t \in Texts, Elapses(t) PROVE IInv'
  <2>1. UNCHANGED <<enabled, disposed, cache, queue, tripped, file>>
    BY <1>4 DEF Elapses
  <2>2. QInv' /\ Jobs' = Jobs
    BY <2>1, QueueStands DEF IInv, cache
  <2>3. tripped' \subseteq Nat /\ pumpTimer' \in BOOLEAN
    BY <2>1 DEF IInv, Typed, queue
  <2> QED
    BY <2>1, <2>2, <2>3, RunsStay DEF queue
<1>5. ASSUME NEW p \in Paragraphs, RetryDocument(p) PROVE IInv'
  <2>1. UNCHANGED <<enabled, disposed, cache, queue, file>> /\ tripped' = {}
    BY <1>5 DEF RetryDocument
  <2>2. QInv' /\ Jobs' = Jobs
    BY <2>1, QueueStands DEF IInv, cache
  <2>3. tripped' \subseteq Nat /\ pumpTimer' \in BOOLEAN
    BY <2>1 DEF IInv, Typed, queue
  <2> QED
    BY <2>1, <2>2, <2>3, RunsStay DEF queue
<1>6. CASE Settling
  BY <1>6, SettlingIsSafe DEF Settling
<1>7. ASSUME NEW f \in Fields, Enqueue(f) PROVE IInv'
  BY <1>7, EnqueueIsSafe DEF Enqueue
<1> QED
  BY <1>2, <1>3, <1>4, <1>5, <1>6, <1>7, ReadsAnswerIsSafe, PublishIsSafe, FlushFiresIsSafe,
     WriteIsSafe, SwitchIsSafe, ClearIsSafe, DisposeIsSafe, RestartIsSafe DEF Next

-----------------------------------------------------------------------------
\* Every reachable state satisfies the invariant.
THEOREM InvariantHolds == Spec => []IInv
  BY InitHolds, StepHolds, PTL DEF Spec

\* The four records of the queue agree.
LEMMA SoundQueue == IInv => QueueSound
<1> SUFFICES ASSUME IInv PROVE QueueSound
  OBVIOUS
<1>2. Typed /\ Sorted(pending, inflight, active, runs) /\ OneEach(Jobs) /\ Owned
  BY DEF IInv, QInv
<1>3. Jobs = Elems(pending) \cup inflight /\ CurrentRuns = Cur(runs) /\ Elems(pending) \cap inflight = {}
  BY <1>2, JobsAre DEF Sorted
<1>4. Cardinality(Jobs) = Len(pending) + Cardinality(inflight)
  <2>1. pending \in Seq(Plain) /\ Injective(pending) /\ IsFiniteSet(inflight)
    BY <1>2 DEF Sorted
  <2>2. IsFiniteSet(Elems(pending)) /\ Cardinality(Elems(pending)) = Len(pending)
    BY <2>1, ElemsCount
  <2>3. Cardinality(Jobs) = Cardinality(Elems(pending)) + Cardinality(inflight) - Cardinality(Elems(pending) \cap inflight)
    BY <1>3, <2>1, <2>2, FS_Union
  <2>4. Cardinality(Elems(pending) \cap inflight) = 0 /\ Cardinality(inflight) \in Nat /\ Len(pending) \in Nat
    <3>1. Cardinality({}) = 0
      BY FS_EmptySet
    <3>2. Cardinality(inflight) \in Nat
      BY <2>1, FS_CardinalityType
    <3>3. Cardinality(Elems(pending) \cap inflight) = 0
      BY <1>3, <3>1
    <3>4. Len(pending) \in Nat
      BY <2>1
    <3> QED
      BY <3>2, <3>3, <3>4
  <2> QED
    BY <2>2, <2>3, <2>4
<1>5. inflight = UNION {r.jobs : r \in CurrentRuns} /\ active = Cardinality(CurrentRuns) /\ active <= MaxConcurrent
  BY <1>2, <1>3 DEF Sorted
<1>6. ASSUME ~disposed
      PROVE  /\ \A t \in Texts : owners[t] # None <=> t \in TextsOf(Jobs)
             /\ \A f \in Jobs : owners[TextOf[f]] = f
  <2>1. Jobs \subseteq Plain
    BY <1>2, <1>3 DEF Sorted, Elems
  <2> QED
    BY <1>2, <1>6, <2>1, PlainTexts DEF Owned, TextsOf
<1> QED
  BY <1>2, <1>4, <1>5, <1>6 DEF QueueSound, OneEach

\* A clear lasts, what the file lacks is owed to it, and paragraphs are whole.
LEMMA SoundCache == IInv => CacheSound
<1> SUFFICES ASSUME IInv PROVE CacheSound
  OBVIOUS
<1>2. Typed /\ Tainted /\ Lasting /\ Saved /\ Complete
  BY DEF IInv, FInv
<1>3. ASSUME ~undeleted PROVE Fresh(entries) /\ Fresh(byText) /\ Fresh(Settled)
  <2>1. MemoryFresh
    BY <1>2, <1>3 DEF Tainted
  <2>2. CASE persistence = <<>>
    BY <1>2, <1>3, <2>1, <2>2 DEF Lasting, Settled, MemoryFresh
  <2>3. CASE persistence # <<>>
    <3>1. Len(persistence) \in DOMAIN persistence /\ \A j \in DOMAIN persistence : ~(j > Len(persistence))
      BY <1>2, <2>3 DEF Typed
    <3> QED
      BY <1>2, <2>1, <2>3, <3>1 DEF Lasting, Settled, MemoryFresh
  <2> QED
    BY <2>1, <2>2, <2>3 DEF MemoryFresh
<1>4. \A p \in Paragraphs : entries[p] # 0 => \E q \in Paragraphs : TextOf[q] = TextOf[p] /\ Whole(q)
  BY <1>2 DEF Complete, WholeIn, Served, Whole
<1> QED
  BY <1>2, <1>3, <1>4 DEF CacheSound, Saved

\* No text is queued or paid for twice at once, the running batches are the ones
\* that are counted, and a text is owned exactly as long as its job waits or runs
\* (TranslationLocalizer: owners, pending, inflight, active).
THEOREM QueueIsSound == Spec => []QueueSound
  BY InvariantHolds, SoundQueue, PTL

\* Unless a deletion failed or was cut off by the end of the process, nothing
\* asked for or saved before a clear comes back into the cache or the file, and
\* what the file lacks is owed to it; a paragraph is there only with all its
\* parts, or those of another paragraph of the same text (clear, run, flush,
\* localizeParagraph).
THEOREM CacheIsSound == Spec => []CacheSound
  BY InvariantHolds, SoundCache, PTL
=============================================================================
