---------------------------- MODULE Translation -----------------------------
(***************************************************************************)
(* TranslationLocalizer and the provider chain it calls                    *)
(* (market-translation/src/application/translation/localizer.ts,           *)
(* chain.ts, ../state/translation-cache.ts).  A read never waits: it       *)
(* answers from the cache or queues its text; batches of the queue run     *)
(* through the chain, which retires a provider that failed; answers are    *)
(* kept for each field and each text, and saved behind a timer.  Switching *)
(* translation off, or clearing the cache, cancels the work under way.     *)
(*                                                                         *)
(* An answer is the number of the cache it was asked for: one more than    *)
(* the clears before.  One target language and one chain identity, which   *)
(* is how the market composes it.                                          *)
(***************************************************************************)
EXTENDS Naturals, Sequences, FiniteSets

CONSTANTS
    Plain,         \* fields that are one text: a description, a document part
    Paragraphs,    \* paragraphs of documents, published as a whole
    PartsOf,       \* the plain fields a paragraph is made of
    Texts,         \* source texts
    TextOf,        \* the text of a field; fields may share one, paragraphs too
    None,
    Hops,          \* providers of the chain, best first: 1..Hops
    MaxBatch,      \* texts of one provider call
    MaxConcurrent, \* batches in flight
    MaxAttempts,   \* failures of one text before it is left alone
    MaxWrites,     \* bound: file operations queued before the timer queues another
    MaxFaults,     \* bound: providers, answers and file operations that fail
    MaxInputs      \* bound: switches off and on, clears, retries of a document,
                   \* disposals and restarts of the process: one of each, so many
                   \* together

Fields == Plain \cup Paragraphs

ASSUME TranslationAssumption ==
    /\ Plain \cap Paragraphs = {} /\ None \notin Fields
    /\ PartsOf \in [Paragraphs -> SUBSET Plain] /\ TextOf \in [Fields -> Texts]
    \* textIdentity: a paragraph's strategy is part of what is translated
    /\ \A p \in Paragraphs, f \in Plain : TextOf[p] # TextOf[f]
    /\ Hops \in Nat \ {0} /\ MaxBatch \in Nat \ {0} /\ MaxConcurrent \in Nat \ {0} /\ MaxAttempts \in Nat \ {0}
ASSUME BoundsAssumption ==
    /\ MaxWrites \in Nat /\ MaxFaults \in Nat /\ MaxInputs \in Nat

VARIABLES
    enabled,      \* the setting
    disposed,
    entries,      \* the answer of each field; 0: none
    byText,       \* the answer of each text, learnt from reads and batches
    pending,      \* queued jobs, in order: the fields that queued them
    inflight,     \* fields whose job runs
    owners,       \* the field that queued each text
    active,       \* batches counted as running
    runs,         \* batches that have not settled, cancelled ones included
    generation,   \* cancellations so far
    pumpTimer,    \* the coalescing window is armed
    retry,        \* failures of each text
    backing,      \* texts that wait out a backoff
    tripped,      \* providers retired by a failure
    dirty,        \* entries that no queued write holds
    flushTimer,   \* a write is due
    persistence,  \* queued file operations
    disk,         \* the cache file
    undeleted,    \* a deletion of the file failed, or was cut off
    clears,       \* clears of the cache so far
    budget        \* bounded counters

queue == <<pending, inflight, owners, active, runs, generation, pumpTimer>>
failures == <<retry, backing, tripped>>
cache == <<entries, byText, clears>>
file == <<dirty, flushTimer, persistence, disk, undeleted>>
vars == <<enabled, disposed, cache, queue, failures, file, budget>>

NoEntries == [f \in Fields |-> 0]
Era == clears + 1
\* None of these answers was asked for before the last clear.
Fresh(cached) == \A f \in DOMAIN cached : cached[f] \in {0, Era}
Fault == budget.faults < MaxFaults /\ budget' = [budget EXCEPT !.faults = @ + 1]
Input(kind) ==
    /\ kind \notin budget.inputs /\ Cardinality(budget.inputs) < MaxInputs
    /\ budget' = [budget EXCEPT !.inputs = @ \cup {kind}]

-----------------------------------------------------------------------------
Init ==
    /\ enabled = TRUE /\ disposed = FALSE
    /\ entries = NoEntries /\ byText = [t \in Texts |-> 0]
    /\ pending = <<>> /\ inflight = {} /\ owners = [t \in Texts |-> None] /\ active = 0
    /\ runs = {} /\ generation = 0 /\ pumpTimer = FALSE
    /\ retry = [t \in Texts |-> 0] /\ backing = {} /\ tripped = {}
    /\ dirty = FALSE /\ flushTimer = FALSE /\ persistence = <<>> /\ disk = NoEntries /\ undeleted = FALSE
    /\ budget = [faults |-> 0, inputs |-> {}] /\ clears = 0

-----------------------------------------------------------------------------
(* The queue                                                               *)

\* The next provider a batch calls, from hop p; 0: the chain is exhausted.
NextHop(p, out) ==
    LET rest == {q \in p..Hops : q \notin out} IN
    IF rest = {} THEN 0 ELSE CHOOSE q \in rest : \A s \in rest : q <= s

Batch(queued, i) ==
    LET last == IF i * MaxBatch < Len(queued) THEN i * MaxBatch ELSE Len(queued)
    IN {queued[j] : j \in (i - 1) * MaxBatch + 1..last}

\* pump: as many batches as the cap allows.
Pump(queued, running, count, batches) ==
    LET wanted == (Len(queued) + MaxBatch - 1) \div MaxBatch
        free == MaxConcurrent - count
        n == IF wanted < free THEN wanted ELSE free
        started == {Batch(queued, i) : i \in 1..n}
    IN /\ pending' = SubSeq(queued, n * MaxBatch + 1, Len(queued))
       /\ inflight' = running \cup UNION started
       /\ active' = count + n
       /\ runs' = batches \cup {[jobs |-> b, gen |-> generation, era |-> Era, hop |-> NextHop(1, tripped)] :
                                b \in started}
       /\ pumpTimer' = FALSE

Holds(queued, running, count, batches) ==
    pending' = queued /\ inflight' = running /\ active' = count /\ runs' = batches

\* schedulePump: a full batch starts now, others after the window.
SchedulePump(queued, running, count, batches) ==
    IF disposed \/ ~enabled THEN Holds(queued, running, count, batches) /\ UNCHANGED pumpTimer
    ELSE IF Len(queued) >= MaxBatch THEN Pump(queued, running, count, batches)
    ELSE /\ Holds(queued, running, count, batches)
         /\ pumpTimer' = (pumpTimer \/ queued # <<>>)

PumpFires ==
    /\ pumpTimer
    /\ Pump(pending, inflight, active, runs)
    /\ UNCHANGED <<enabled, disposed, cache, owners, generation, failures, file, budget>>

\* cancelWork: the calls are aborted, and count no more.
CancelWork ==
    /\ generation' = generation + 1
    /\ pending' = <<>> /\ inflight' = {} /\ active' = 0 /\ pumpTimer' = FALSE
    /\ owners' = [t \in Texts |-> None]

ResetFailures == retry' = [t \in Texts |-> 0] /\ backing' = {} /\ tripped' = {}

-----------------------------------------------------------------------------
(* The cache file                                                          *)

Write(snapshot) == [op |-> "save", entries |-> snapshot, era |-> Era]
\* flush
Flushes(snapshot) == dirty' = FALSE /\ persistence' = Append(persistence, Write(snapshot))
\* The entries changed: a write is due, at once after a disposal.
ScheduleFlush ==
    IF disposed THEN Flushes(entries') /\ UNCHANGED flushTimer
    ELSE dirty' = TRUE /\ flushTimer' = TRUE /\ UNCHANGED persistence

FlushFires ==
    /\ flushTimer /\ Len(persistence) < MaxWrites /\ flushTimer' = FALSE
    /\ IF dirty THEN Flushes(entries) ELSE UNCHANGED <<dirty, persistence>>
    /\ UNCHANGED <<enabled, disposed, cache, queue, failures, disk, undeleted, budget>>

\* The next file operation settles; a write that fails is owed again, unless
\* the cache it holds was cleared meanwhile.
WriteSettles ==
    /\ persistence # <<>> /\ persistence' = Tail(persistence)
    /\ LET next == Head(persistence) IN
       \/ /\ disk' = next.entries
          /\ undeleted' = (undeleted /\ next.op = "save" /\ ~Fresh(next.entries))
          /\ UNCHANGED <<dirty, budget>>
       \/ /\ Fault /\ UNCHANGED disk
          /\ dirty' = (dirty \/ (next.op = "save" /\ next.era = Era))
          /\ undeleted' = (undeleted \/ next.op = "delete")
    /\ UNCHANGED <<enabled, disposed, cache, queue, failures, flushTimer>>

-----------------------------------------------------------------------------
(* Reads                                                                   *)

\* record: another entity's answer is kept under this field too.
Record(f, answer) == entries' = [entries EXCEPT ![f] = answer] /\ ScheduleFlush

\* localize, or localizeParagraph, of a field whose answer, or whose text's
\* answer, is there: a paragraph of the same text is served from another document.
ReadsAnswer(f) ==
    /\ enabled
    /\ \/ /\ entries[f] # 0
          /\ byText' = [byText EXCEPT ![TextOf[f]] = entries[f]]
          /\ UNCHANGED <<entries, dirty, flushTimer, persistence>>
       \/ /\ entries[f] = 0 /\ byText[TextOf[f]] # 0
          /\ Record(f, byText[TextOf[f]])
          /\ UNCHANGED byText
    /\ UNCHANGED <<enabled, disposed, clears, queue, failures, disk, undeleted, budget>>

\* localize of any other field: its text is queued, unless it is queued, runs,
\* or backs off.
Unanswered(f) == entries[f] = 0 /\ byText[TextOf[f]] = 0
\* Mutant: a text another field has queued is queued again.
QueueableAgain(t) == retry[t] < MaxAttempts /\ t \notin backing
Queueable(t) == owners[t] = None /\ retry[t] < MaxAttempts /\ t \notin backing
Enqueue(f) ==
    /\ enabled /\ ~disposed /\ f \in Plain
    /\ Unanswered(f) /\ Queueable(TextOf[f])
    /\ f \notin inflight /\ \A i \in DOMAIN pending : pending[i] # f
    /\ owners' = [owners EXCEPT ![TextOf[f]] = f]
    /\ SchedulePump(Append(pending, f), inflight, active, runs)
    /\ UNCHANGED <<enabled, disposed, cache, generation, failures, file, budget>>

\* localizeParagraph of any other paragraph reads its parts one by one, as above;
\* once the last of them has an answer the paragraph is published for its text,
\* as old as its oldest part.
Whole(p) == \A q \in PartsOf[p] : entries[q] # 0
PublishParagraph(p) ==
    /\ enabled /\ p \in Paragraphs /\ Unanswered(p) /\ Whole(p)
    /\ \E oldest \in PartsOf[p] :
        /\ \A q \in PartsOf[p] : entries[oldest] <= entries[q]
        /\ Record(p, entries[oldest])
        /\ byText' = [byText EXCEPT ![TextOf[p]] = entries[oldest]]
    /\ UNCHANGED <<enabled, disposed, clears, queue, failures, disk, undeleted, budget>>

-----------------------------------------------------------------------------
(* Batches                                                                 *)

\* Mutant: an answer is taken whatever happened since it was asked for.
AnyWork(r) == TRUE
Current(r) == r.gen = generation

\* finally: the batch gives up its place and its texts.
Ends(r) ==
    /\ owners' = [t \in Texts |-> IF owners[t] \in r.jobs /\ TextOf[owners[t]] = t THEN None ELSE owners[t]]
    /\ SchedulePump(pending, inflight \ r.jobs, active - 1, runs \ {r})

\* Mutant: a batch that ends leaves the queue to the next read.
EndsQuietly(r) ==
    /\ owners' = [t \in Texts |-> IF owners[t] \in r.jobs /\ TextOf[owners[t]] = t THEN None ELSE owners[t]]
    /\ Holds(pending, inflight \ r.jobs, active - 1, runs \ {r}) /\ UNCHANGED pumpTimer
\* The end of run: it makes room for the batches that wait.
Finally(r) == Ends(r)

TextsOf(jobs) == {TextOf[f] : f \in jobs}
\* fail: one more failure, and a pause before the next.
Fails(texts) ==
    /\ retry' = [t \in Texts |-> IF t \in texts /\ retry[t] < MaxAttempts THEN retry[t] + 1 ELSE retry[t]]
    /\ backing' = backing \cup texts

\* The provider answers the texts of ok; a slot without an answer fails alone.
Lands(r) ==
    /\ Current(r) /\ r.hop # 0
    /\ \E ok \in SUBSET r.jobs :
        /\ IF ok = r.jobs THEN UNCHANGED budget ELSE Fault
        /\ entries' = [f \in Fields |-> IF f \in ok THEN r.era ELSE entries[f]]
        /\ byText' = [t \in Texts |-> IF t \in TextsOf(ok) THEN r.era ELSE byText[t]]
        /\ retry' = [t \in Texts |-> IF t \in TextsOf(ok) THEN 0
                                     ELSE IF t \in TextsOf(r.jobs) /\ retry[t] < MaxAttempts THEN retry[t] + 1
                                     ELSE retry[t]]
        /\ backing' = (backing \ TextsOf(ok)) \cup TextsOf(r.jobs \ ok)
        /\ IF ok # {} \/ dirty THEN ScheduleFlush ELSE UNCHANGED <<dirty, flushTimer, persistence>>
    /\ Finally(r)
    /\ UNCHANGED <<enabled, disposed, clears, generation, tripped, disk, undeleted>>

\* A provider fails or exceeds its deadline: it is retired, and the next one is
\* called.
HopFails(r) ==
    /\ Current(r) /\ r.hop # 0 /\ Fault
    /\ tripped' = tripped \cup {r.hop}
    /\ runs' = (runs \ {r}) \cup {[r EXCEPT !.hop = NextHop(r.hop + 1, tripped')]}
    /\ UNCHANGED <<enabled, disposed, cache, pending, inflight, owners, active, generation, pumpTimer,
                   retry, backing, file>>

\* No provider is left: every text of the batch fails.
Exhausted(r) ==
    /\ Current(r) /\ r.hop = 0
    /\ Fails(TextsOf(r.jobs)) /\ Finally(r)
    /\ UNCHANGED <<enabled, disposed, cache, generation, tripped, file, budget>>

\* A cancelled batch settles, whatever its provider answered.
Dropped(r) ==
    /\ ~Current(r)
    /\ runs' = runs \ {r}
    /\ UNCHANGED <<enabled, disposed, cache, pending, inflight, owners, active, generation, pumpTimer,
                   failures, file, budget>>

\* A backoff is over.
Elapses(t) ==
    /\ t \in backing /\ backing' = backing \ {t}
    /\ UNCHANGED <<enabled, disposed, cache, queue, retry, tripped, file, budget>>

-----------------------------------------------------------------------------
(* The user, the owner, and the process                                    *)

\* The setting is flipped, and the localizer told: off cancels, on forgets the
\* failures.
Switch ==
    /\ ~disposed /\ Input(IF enabled THEN "off" ELSE "on")
    /\ enabled' = ~enabled
    /\ IF enabled THEN CancelWork /\ UNCHANGED <<runs, failures>> ELSE ResetFailures /\ UNCHANGED queue
    /\ UNCHANGED <<disposed, cache, file>>

\* clear: the deletion of the file waits for the writes before it.
Delete == [op |-> "delete", entries |-> NoEntries, era |-> Era]
Clear ==
    /\ ~disposed /\ Input("clear")
    /\ CancelWork /\ ResetFailures
    /\ entries' = NoEntries /\ byText' = [t \in Texts |-> 0] /\ clears' = clears + 1
    /\ dirty' = FALSE /\ flushTimer' = FALSE
    /\ persistence' = Append(persistence, Delete)
    /\ UNCHANGED <<enabled, disposed, runs, disk, undeleted>>

\* retryDocument: the failures of a document's texts are forgotten, if its parts
\* were read.
RetryDocument(p) ==
    /\ ~disposed /\ p \in Paragraphs /\ Input("retry")
    /\ \E texts \in {{}, TextsOf(PartsOf[p])} :
        /\ retry' = [t \in Texts |-> IF t \in texts THEN 0 ELSE retry[t]]
        /\ backing' = backing \ texts
    /\ tripped' = {}
    /\ UNCHANGED <<enabled, disposed, cache, queue, file>>

\* dispose: what is queued is dropped, what runs may still land.
Dispose ==
    /\ ~disposed /\ Input("dispose")
    /\ disposed' = TRUE
    /\ pumpTimer' = FALSE /\ flushTimer' = FALSE
    /\ pending' = <<>> /\ owners' = [t \in Texts |-> None]
    /\ IF dirty THEN Flushes(entries) ELSE UNCHANGED <<dirty, persistence>>
    /\ UNCHANGED <<enabled, cache, inflight, active, runs, generation, failures, disk, undeleted>>

\* The process ends, disposed or not, and another one loads the file.
Restart ==
    /\ Input("restart")
    /\ disposed' = FALSE
    /\ entries' = disk /\ byText' = [t \in Texts |-> 0]
    /\ pending' = <<>> /\ inflight' = {} /\ owners' = [t \in Texts |-> None] /\ active' = 0
    /\ runs' = {} /\ generation' = 0 /\ pumpTimer' = FALSE
    /\ ResetFailures
    /\ dirty' = FALSE /\ flushTimer' = FALSE /\ persistence' = <<>>
    /\ undeleted' = (undeleted \/ \E i \in DOMAIN persistence : persistence[i].op = "delete")
    /\ UNCHANGED <<enabled, clears, disk>>

-----------------------------------------------------------------------------
RunStep(r) == Lands(r) \/ HopFails(r) \/ Exhausted(r) \/ Dropped(r)
Settling == \E r \in runs : RunStep(r)

Next ==
    \/ \E f \in Fields : ReadsAnswer(f) \/ Enqueue(f)
    \/ \E p \in Paragraphs : PublishParagraph(p) \/ RetryDocument(p)
    \/ PumpFires \/ Settling
    \/ \E t \in Texts : Elapses(t)
    \/ FlushFires \/ WriteSettles
    \/ Switch \/ Clear \/ Dispose \/ Restart

Spec == Init /\ [][Next]_vars
\* Timers fire, and every provider call ends by its deadline.
FairSpec == Spec /\ WF_vars(PumpFires) /\ WF_vars(Settling)

-----------------------------------------------------------------------------
Jobs == {pending[i] : i \in DOMAIN pending} \cup inflight
CurrentRuns == {r \in runs : r.gen = generation}

\* The four records of the queue agree: no text is queued or called for twice
\* at once, the running batches are the ones that are counted, and a text is
\* owned as long as its job waits or runs.
QueueSound ==
    /\ \A f, g \in Jobs : TextOf[f] = TextOf[g] => f = g
    /\ Cardinality(Jobs) = Len(pending) + Cardinality(inflight)
    /\ inflight = UNION {r.jobs : r \in CurrentRuns}
    /\ active = Cardinality(CurrentRuns) /\ active <= MaxConcurrent
    /\ ~disposed => \A t \in Texts : owners[t] # None <=> t \in TextsOf(Jobs)
    /\ ~disposed => \A f \in Jobs : owners[TextOf[f]] = f

\* What the file holds once the queued operations are done.
Settled == IF persistence = <<>> THEN disk ELSE persistence[Len(persistence)].entries
\* A clear lasts: nothing asked for or saved before it comes back into the
\* cache or, once the queued writes are done, into the file; and what the file
\* lacks is owed to it.  Excepted is a clear whose deletion failed, or was cut off
\* by the end of the process, until a later write repairs the file (undeleted):
\* clearTranslationCache swallows the failure.  A paragraph is there only if all
\* its parts are, or those of another paragraph of the same text.
CacheSound ==
    /\ ~undeleted => Fresh(entries) /\ Fresh(byText) /\ Fresh(Settled)
    /\ ~dirty /\ persistence = <<>> /\ ~undeleted => disk = entries
    /\ \A p \in Paragraphs : entries[p] # 0 =>
          \E q \in Paragraphs : TextOf[q] = TextOf[p] /\ Whole(q)

\* docs/user/translation.md:37 "Reset cache clears completed entries and
\* invalidates old requests so they cannot refill it".  Violated: a deletion that
\* fails, or is cut off by the end of the process, is not told and not tried again
\* (translation-cache.ts:123), and the next start reads the old answers back.
ResetLasts == Fresh(entries) /\ Fresh(byText)

\* A read that is told that its text is pending is not left waiting.
NoneWaitsForever == \A t \in TextsOf(Plain) : owners[t] # None ~> owners[t] = None
=============================================================================
