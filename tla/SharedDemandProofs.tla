------------------------- MODULE SharedDemandProofs -------------------------
(* The promises of the reconciler, for any number of sessions, calls,       *)
(* servers, changes, faults and agents that leave.                          *)
(*                                                                          *)
(* Tokens ties each call to the slots of its session, Work each waiting     *)
(* call to the one job it waits for, and Refusable says that a refused      *)
(* activation leaves a pass behind it.  On these rest Balance (what is      *)
(* mounted is what is wanted, or a pass is on its way), Backed (a receipt's *)
(* servers are in the plan of every pass of its catalog), and Departed (who *)
(* left is released, or will be).                                           *)
EXTENDS SharedDemand, FiniteSetTheorems, TLAPS

Private(c) == {Job("activate", c), Job("cleanup", c)}
Plain == {Job(kind, NoCall) : kind \in {"pass", "refresh", "drain"}} \cup {Job("release", o) : o \in Owners}
JobSet == Plain \cup {Job(kind, c) : kind \in {"activate", "cleanup"}, c \in Calls}
Running == [job: JobSet, epoch: Nat, plan: SUBSET Ids, live: BOOLEAN] \cup {Idle}

Typed ==
    /\ authority \in Catalogs \cup {NoCatalog} /\ catalog \in Catalogs
    /\ epoch \in Nat /\ passEpoch \in Nat
    /\ calls \in [Calls -> CallTypes]
    /\ staged \in [Owners -> Calls \cup {NoCall}] /\ committed \in [Owners -> Calls \cup {NoCall}]
    /\ queue \in Seq(JobSet) /\ running \in Running
    /\ mounted \subseteq Ids /\ off \subseteq Ids /\ gone \subseteq Owners
    /\ budget \in [changes: Nat, toggles: Nat, faults: Nat]

\* A call that holds its session's slot has a token in force; a session has
\* one call under way, and a committed call is over.
Staged(c) == staged[OwnerOf[c]] = c
Committed(c) == committed[OwnerOf[c]] = c
TokenOf(c) ==
    /\ calls[c].active <=> Staged(c)
    /\ Staged(c) => calls[c].pc \in {"reading", "classifying", "activating", "held"}
    /\ calls[c].ready <=> calls[c].pc \in {"activating", "held"}
    /\ Committed(c) => calls[c].pc = "done"
    /\ calls[c].pc \in {"reading", "classifying"} =>
          calls[c].epoch <= epoch /\ (calls[c].epoch = epoch => calls[c].ids \subseteq Offered)
Tokens ==
    /\ \A c \in Calls : TokenOf(c)
    /\ \A o \in Owners : \A c \in {staged[o], committed[o]} : c # NoCall => OwnerOf[c] = o
    /\ \A c, k \in Calls : OwnerOf[c] = OwnerOf[k] /\ Unsettled(c) /\ Unsettled(k) => c = k
    /\ Disposed => \A o \in Owners : staged[o] = NoCall /\ committed[o] = NoCall

\* A call waits exactly for the job that is its own.
Waits(j) == running.job = j \/ \E k \in 1..Len(queue) : queue[k] = j
Due(c) == IF calls[c].pc = "activating" THEN {Job("activate", c)}
          ELSE IF calls[c].pc = "cleaning" THEN {Job("cleanup", c)} ELSE {}
Work ==
    /\ \A c \in Calls : \A j \in Private(c) : Waits(j) <=> j \in Due(c)
    /\ \A k, l \in 1..Len(queue) : queue[k] = queue[l] /\ k # l => queue[k] \in Plain
    /\ \A k \in 1..Len(queue) : queue[k] = running.job => queue[k] \in Plain

\* An activation that will be refused has the refresh behind it that
\* withdrew its servers.
Refused(k) == queue[k].kind = "activate" /\ ~(calls[queue[k].who].ids \subseteq Offered)
Refusable ==
    \A k \in 1..Len(queue) : Refused(k) => \E l \in k + 1..Len(queue) : queue[l].kind = "refresh"

\* Mounted, or about to be, is what is wanted; or a pass is still to come.
Owed == requested \/ queue # <<>>
Fits(up, tried) ==
    /\ budget.faults = 0 => up \subseteq Wanted
    /\ budget.toggles = 0 => Wanted \subseteq tried
Balance ==
    ~Disposed =>
        Owed \/ IF running = Idle THEN Fits(mounted, mounted \cup failed) ELSE Fits(running.plan, running.plan)

\* The servers of a receipt are in every plan of its catalog.
BackedBy(c, tried) == Needed(c) \cap Offered \subseteq tried
Backed ==
    ~Disposed =>
        /\ passEpoch <= epoch /\ running.epoch <= epoch
        /\ \A c \in Calls : Backing(c) =>
              /\ running.live /\ running.epoch = epoch => BackedBy(c, running.plan)
              /\ passEpoch = epoch => BackedBy(c, mounted \cup failed)

\* What the end leaves, and what a departed agent waits for.
Ends ==
    /\ disposal \in {"no", "draining", "drained"}
    /\ ~Disposed /\ running # Idle => running.live
    /\ disposal = "drained" => ~running.live /\ (budget.faults = 0 => mounted = {})
    /\ \A k \in 1..Len(queue) : queue[k].kind = "drain" => Disposed
    /\ authority = NoCatalog /\ ~Disposed => requested
    /\ failed \cap mounted = {}
    /\ budget.toggles = 0 => off = {}
Departed == \A o \in gone : committed[o] = NoCall \/ Leaving(o)

IInv == Typed /\ Tokens /\ Work /\ Refusable /\ Balance /\ Backed /\ Ends /\ Departed

-----------------------------------------------------------------------------
(* Jobs and the queue                                                      *)

LEMMA JobFacts ==
    ASSUME NEW j \in JobSet
    PROVE  /\ j # Idle.job
           /\ j \in Plain <=> j.kind \in {"pass", "refresh", "drain", "release"}
           /\ j.kind \in {"activate", "cleanup"} => j.who \in Calls /\ j = Job(j.kind, j.who)
           /\ j.kind = "release" => j.who \in Owners /\ j = Job("release", j.who)
  BY DEF JobSet, Plain, Job, Idle

LEMMA JobsAre ==
    /\ {Job("pass", NoCall), Job("refresh", NoCall), Job("drain", NoCall)} \subseteq Plain
    /\ \A o \in Owners : Job("release", o) \in Plain
    /\ \A c \in Calls : Private(c) \subseteq JobSet \ Plain
    /\ Plain \subseteq JobSet
    /\ \A kind, who : Job(kind, who).kind = kind /\ Job(kind, who).who = who
<1>1. \A kind, who : Job(kind, who).kind = kind /\ Job(kind, who).who = who
  BY DEF Job
<1>2. \A c \in Calls : Private(c) \subseteq JobSet
  BY DEF JobSet, Private
<1>3. \A j \in Plain : j.kind \notin {"activate", "cleanup"}
  BY DEF Plain, Job
<1>4. \A c \in Calls : \A j \in Private(c) : j.kind \in {"activate", "cleanup"}
  BY DEF Private, Job
<1>5. /\ {Job("pass", NoCall), Job("refresh", NoCall), Job("drain", NoCall)} \subseteq Plain
      /\ \A o \in Owners : Job("release", o) \in Plain
  BY DEF Plain
<1>6. Plain \subseteq JobSet
  BY DEF JobSet
<1>7. QED
  BY <1>1, <1>2, <1>3, <1>4, <1>5, <1>6

LEMMA PrivateApart ==
    /\ \A c, k \in Calls : c # k => Private(c) \cap Private(k) = {}
    /\ \A c \in Calls : Job("activate", c) # Job("cleanup", c) /\ Due(c) \subseteq Private(c)
  BY DEF Private, Job, Due

\* What a step adds to the queue: nothing but plain jobs, or these and then one
\* private job.
Kept ==
    /\ queue' \in Seq(JobSet) /\ Len(queue) <= Len(queue')
    /\ \A k \in 1..Len(queue) : queue'[k] = queue[k]
AddsPlain == Kept /\ \A k \in Len(queue) + 1..Len(queue') : queue'[k] \in Plain
AddsLast(j) ==
    /\ Kept /\ Len(queue) < Len(queue') /\ queue'[Len(queue')] = j
    /\ \A k \in Len(queue) + 1..Len(queue') - 1 : queue'[k] \in Plain
Pops ==
    /\ Len(queue) >= 1 /\ queue' \in Seq(JobSet) /\ Len(queue') = Len(queue) - 1
    /\ \A k \in 1..Len(queue') : queue'[k] = queue[k + 1]

LEMMA SameQueue == ASSUME Typed, queue' = queue PROVE AddsPlain
  BY DEF Typed, AddsPlain, Kept

LEMMA EmptyAdded == ASSUME Typed, queue' = queue \o <<>> PROVE AddsPlain /\ queue' = queue
<1>1. queue \o <<>> = queue
  BY DEF Typed
<1>2. QED
  BY <1>1, SameQueue

LEMMA OneAdded ==
    ASSUME Typed, NEW j \in JobSet, queue' = queue \o <<j>> \/ queue' = Append(queue, j)
    PROVE  /\ Len(queue') = Len(queue) + 1 /\ queue'[Len(queue) + 1] = j
           /\ AddsLast(j) /\ (j \in Plain => AddsPlain)
<1>1. queue \in Seq(JobSet)
  BY DEF Typed
<1>2. queue' \in Seq(JobSet) /\ Len(queue') = Len(queue) + 1
  BY <1>1
<1>3. queue'[Len(queue) + 1] = j /\ \A k \in 1..Len(queue) : queue'[k] = queue[k]
  BY <1>1
<1>4. QED
  BY <1>1, <1>2, <1>3 DEF AddsLast, AddsPlain, Kept

LEMMA TwoAdded ==
    ASSUME Typed, NEW p \in Plain, NEW j \in JobSet, queue' = Append(queue, p) \o <<j>>
    PROVE  AddsLast(j)
<1>1. queue \in Seq(JobSet) /\ p \in JobSet
  BY JobsAre DEF Typed
<1>2. queue' \in Seq(JobSet) /\ Len(queue') = Len(queue) + 2
  BY <1>1
<1>3. queue'[Len(queue) + 2] = j /\ queue'[Len(queue) + 1] = p /\ \A k \in 1..Len(queue) : queue'[k] = queue[k]
  BY <1>1
<1>4. QED
  BY <1>1, <1>2, <1>3 DEF AddsLast, Kept

LEMMA TailPops ==
    ASSUME Typed, queue # <<>>, queue' = Tail(queue)
    PROVE  Pops /\ Head(queue) = queue[1] /\ queue[1] \in JobSet
<1>1. queue \in Seq(JobSet)
  BY DEF Typed
<1>2. Len(queue) >= 1
  BY <1>1
<1>3. queue' \in Seq(JobSet) /\ Len(queue') = Len(queue) - 1 /\ \A k \in 1..Len(queue') : queue'[k] = queue[k + 1]
  BY <1>1, <1>2
<1>4. QED
  BY <1>1, <1>2, <1>3 DEF Pops

-----------------------------------------------------------------------------
(* Work: every waiting call has its job                                    *)

DueStands == \A c \in Calls : Due(c)' = Due(c)
DueOthers(c) == \A k \in Calls \ {c} : Due(k)' = Due(k)

LEMMA WorkStands ==
    ASSUME Typed, Work, AddsPlain, running'.job = running.job, DueStands
    PROVE  Work'
<1>1. queue \in Seq(JobSet) /\ Len(queue) \in Nat /\ queue' \in Seq(JobSet) /\ Len(queue') \in Nat
  BY DEF Typed, AddsPlain, Kept
<1>2. \A j : j \notin Plain => (Waits(j)' <=> Waits(j))
  BY <1>1 DEF AddsPlain, Kept, Waits
<1>3. \A c \in Calls : \A j \in Private(c) : (Waits(j) <=> j \in Due(c))'
  BY <1>2, JobsAre DEF Work, DueStands
<1>4. \A k, l \in 1..Len(queue') : queue'[k] = queue'[l] /\ k # l => queue'[k] \in Plain
  BY <1>1 DEF AddsPlain, Kept, Work
<1>5. \A k \in 1..Len(queue') : queue'[k] = running'.job => queue'[k] \in Plain
  BY <1>1 DEF AddsPlain, Kept, Work
<1>6. QED
  BY <1>3, <1>4, <1>5 DEF Work, Private, Plain

\* A call begins to wait for the job that was queued for it; the job that ran,
\* if it ended, was its own.
LEMMA WorkAdds ==
    ASSUME Typed, Work, NEW c \in Calls, NEW j \in Private(c), AddsLast(j),
           DueOthers(c), Due(c)' = {j}, j \notin Due(c),
           \/ running'.job = running.job /\ Due(c) = {}
           \/ running'.job = Idle.job /\ running.job \in JobSet /\ Due(c) = {running.job}
    PROVE  Work'
<1>1. queue \in Seq(JobSet) /\ Len(queue) \in Nat /\ queue' \in Seq(JobSet) /\ Len(queue') \in Nat
  BY DEF Typed, AddsLast, Kept
<1>2. j \in JobSet \ Plain /\ ~Waits(j)
  BY JobsAre DEF Work
<1>3. \A i \in JobSet \ Plain : i # j => (Waits(i)' <=> ((i # running.job /\ Waits(i)) \/ i = running'.job))
  <2> SUFFICES ASSUME NEW i \in JobSet \ Plain, i # j
               PROVE  Waits(i)' <=> ((i # running.job /\ Waits(i)) \/ i = running'.job)
    OBVIOUS
  <2>1. \A k \in 1..Len(queue) : k \in 1..Len(queue') /\ queue'[k] = queue[k]
    BY <1>1 DEF AddsLast, Kept
  <2>2. \A k \in 1..Len(queue') : k \in 1..Len(queue) \/ k = Len(queue') \/ k \in Len(queue) + 1..Len(queue') - 1
    BY <1>1
  <2>3. \A k \in 1..Len(queue') : queue'[k] = i => k \in 1..Len(queue)
    BY <2>2 DEF AddsLast
  <2>4. (\E k \in 1..Len(queue') : queue'[k] = i) <=> \E k \in 1..Len(queue) : queue[k] = i
    BY <2>1, <2>3
  <2>5. \A k \in 1..Len(queue) : queue[k] = i => i # running.job
    BY DEF Work
  <2>6. QED
    BY <2>4, <2>5 DEF Waits
<1>4. \A k \in 1..Len(queue) : queue[k] # j
  BY <1>2 DEF Waits
<1>5. \A i \in JobSet : i # Idle.job
  BY JobFacts
<1>6. \A i \in Private(c) : (Waits(i) <=> i \in Due(c))'
  <2> SUFFICES ASSUME NEW i \in Private(c) PROVE Waits(i)' <=> i = j
    OBVIOUS
  <2>1. Waits(j)'
    BY <1>1 DEF AddsLast, Waits
  <2>2. i \in JobSet \ Plain
    BY JobsAre
  <2>3. i # j => ~Waits(i)'
    <3>1. CASE running'.job = running.job /\ Due(c) = {}
      BY <1>3, <2>2, <3>1 DEF Work, Waits
    <3>2. CASE running'.job = Idle.job /\ running.job \in JobSet /\ Due(c) = {running.job}
      BY <1>3, <1>5, <2>2, <3>2 DEF Work
    <3>3. QED
      BY <3>1, <3>2
  <2>4. QED
    BY <2>1, <2>3
<1>7. \A k \in Calls \ {c} : \A i \in Private(k) : (Waits(i) <=> i \in Due(k))'
  <2> SUFFICES ASSUME NEW k \in Calls \ {c}, NEW i \in Private(k) PROVE Waits(i)' <=> i \in Due(k)
    BY DEF DueOthers
  <2>1. i \in JobSet \ Plain /\ i # j /\ i \notin Private(c)
    BY JobsAre, PrivateApart
  <2>2. i # running.job \/ running'.job = running.job
    BY <2>1, PrivateApart
  <2>3. Waits(i)' <=> Waits(i)
    BY <1>3, <1>5, <2>1, <2>2 DEF Waits
  <2>4. QED
    BY <2>3 DEF Work
<1>8. \A k, l \in 1..Len(queue') : queue'[k] = queue'[l] /\ k # l => queue'[k] \in Plain
  <2> SUFFICES ASSUME NEW k \in 1..Len(queue'), NEW l \in 1..Len(queue'), k < l, queue'[k] = queue'[l]
               PROVE  queue'[k] \in Plain
    BY <1>1
  <2>1. CASE k <= Len(queue) /\ l <= Len(queue)
    BY <1>1, <2>1 DEF AddsLast, Kept, Work
  <2>2. CASE k > Len(queue)
    BY <1>1, <2>2 DEF AddsLast
  <2>3. CASE k <= Len(queue) /\ l > Len(queue) /\ l < Len(queue')
    BY <1>1, <2>3 DEF AddsLast
  <2>4. CASE k <= Len(queue) /\ l = Len(queue')
    BY <1>1, <1>4, <2>4 DEF AddsLast, Kept
  <2>5. QED
    BY <1>1, <2>1, <2>2, <2>3, <2>4
<1>9. \A k \in 1..Len(queue') : queue'[k] = running'.job => queue'[k] \in Plain
  <2> SUFFICES ASSUME NEW k \in 1..Len(queue'), queue'[k] = running'.job PROVE queue'[k] \in Plain
    OBVIOUS
  <2>1. queue'[k] \in JobSet
    BY <1>1
  <2>2. running'.job = running.job
    BY <1>5, <2>1
  <2>3. CASE k <= Len(queue)
    BY <1>1, <2>2, <2>3 DEF AddsLast, Kept, Work
  <2>4. CASE k > Len(queue) /\ k < Len(queue')
    BY <1>1, <2>4 DEF AddsLast
  <2>5. CASE k = Len(queue')
    BY <1>2, <2>2, <2>5 DEF AddsLast, Waits
  <2>6. QED
    BY <1>1, <2>3, <2>4, <2>5
<1>10. QED
  BY <1>6, <1>7, <1>8, <1>9 DEF Work, Private, Plain

\* The job at the head starts.
LEMMA WorkPops ==
    ASSUME Typed, Work, Pops, running = Idle, running'.job = queue[1], DueStands
    PROVE  Work'
<1>1. queue \in Seq(JobSet) /\ Len(queue) \in Nat /\ queue' \in Seq(JobSet) /\ Len(queue') \in Nat
  BY DEF Typed, Pops
<1>2. \A j \in JobSet : Waits(j)' <=> Waits(j)
  <2> SUFFICES ASSUME NEW j \in JobSet PROVE Waits(j)' <=> Waits(j)
    OBVIOUS
  <2>1. Waits(j)' => Waits(j)
    BY <1>1 DEF Pops, Waits
  <2>2. ASSUME NEW k \in 1..Len(queue), queue[k] = j, k # 1 PROVE \E l \in 1..Len(queue') : queue'[l] = j
    <3>1. k - 1 \in 1..Len(queue') /\ queue'[k - 1] = queue[(k - 1) + 1]
      BY <1>1, <2>2 DEF Pops
    <3>2. QED
      BY <1>1, <2>2, <3>1
  <2>3. Waits(j) => Waits(j)'
    BY <2>2, JobFacts DEF Waits
  <2>4. QED
    BY <2>1, <2>3
<1>3. \A c \in Calls : \A j \in Private(c) : (Waits(j) <=> j \in Due(c))'
  BY <1>2, JobsAre DEF Work, DueStands
<1>4. \A k, l \in 1..Len(queue') : queue'[k] = queue'[l] /\ k # l => queue'[k] \in Plain
  BY <1>1 DEF Pops, Work
<1>5. \A k \in 1..Len(queue') : queue'[k] = running'.job => queue'[k] \in Plain
  BY <1>1 DEF Pops, Work
<1>6. QED
  BY <1>3, <1>4, <1>5 DEF Work, Private, Plain

\* The job at the head is dropped: a plain one, or one its call gives up.
LEMMA WorkDrops ==
    ASSUME Typed, Work, Pops, running' = running,
           \/ queue[1] \in Plain /\ DueStands
           \/ \E c \in Calls : queue[1] \in Private(c) /\ DueOthers(c) /\ Due(c)' = {}
    PROVE  Work'
<1>1. queue \in Seq(JobSet) /\ Len(queue) \in Nat /\ queue' \in Seq(JobSet) /\ Len(queue') \in Nat
  BY DEF Typed, Pops
<1>2. \A j \in JobSet : j # queue[1] => (Waits(j)' <=> Waits(j))
  <2> SUFFICES ASSUME NEW j \in JobSet, j # queue[1] PROVE Waits(j)' <=> Waits(j)
    OBVIOUS
  <2>1. Waits(j)' => Waits(j)
    BY <1>1 DEF Pops, Waits
  <2>2. ASSUME NEW k \in 1..Len(queue), queue[k] = j, k # 1 PROVE \E l \in 1..Len(queue') : queue'[l] = j
    <3>1. k - 1 \in 1..Len(queue') /\ queue'[k - 1] = queue[(k - 1) + 1]
      BY <1>1, <2>2 DEF Pops
    <3>2. QED
      BY <1>1, <2>2, <3>1
  <2>3. Waits(j) => Waits(j)'
    <3>1. \A k \in 1..Len(queue) : queue[k] = j => k # 1
      OBVIOUS
    <3>2. QED
      BY <2>2, <3>1 DEF Waits
  <2>4. QED
    BY <2>1, <2>3
<1>3. \A j \in JobSet \ Plain : j = queue[1] => ~Waits(j)'
  <2> SUFFICES ASSUME NEW j \in JobSet \ Plain, j = queue[1] PROVE ~Waits(j)'
    OBVIOUS
  <2>1. running.job # queue[1]
    BY <1>1 DEF Work, Pops
  <2>2. \A k \in 1..Len(queue') : queue'[k] # queue[1]
    BY <1>1 DEF Pops, Work
  <2>3. QED
    BY <2>1, <2>2 DEF Waits
<1>4. \A k, l \in 1..Len(queue') : queue'[k] = queue'[l] /\ k # l => queue'[k] \in Plain
  BY <1>1 DEF Pops, Work
<1>5. \A k \in 1..Len(queue') : queue'[k] = running'.job => queue'[k] \in Plain
  BY <1>1 DEF Pops, Work
<1>6. \A c \in Calls : \A j \in Private(c) : (Waits(j) <=> j \in Due(c))'
  <2>1. CASE queue[1] \in Plain /\ DueStands
    BY <1>2, <2>1, JobsAre DEF Work, DueStands
  <2>2. ASSUME NEW c \in Calls, queue[1] \in Private(c), DueOthers(c), Due(c)' = {}
        PROVE  \A k \in Calls : \A j \in Private(k) : (Waits(j) <=> j \in Due(k))'
    <3>1. ASSUME NEW k \in Calls, k # c PROVE \A j \in Private(k) : (Waits(j) <=> j \in Due(k))'
      BY <1>2, <2>2, <3>1, JobsAre, PrivateApart DEF Work, DueOthers
    <3>2. queue[1] \notin Plain /\ queue[1] \in Due(c)
      BY <1>1, <2>2, JobsAre DEF Work, Waits, Pops
    <3>3. \A j \in Private(c) : j # queue[1] => ~Waits(j)
      BY <2>2, <3>2 DEF Work, Due, Private
    <3>4. \A j \in Private(c) : ~Waits(j)'
      BY <1>2, <1>3, <3>2, <3>3, JobsAre
    <3>5. QED
      BY <2>2, <3>1, <3>4
  <2>3. QED
    BY <2>1, <2>2
<1>7. QED
  BY <1>4, <1>5, <1>6 DEF Work, Private, Plain

\* A job ends that its call waited for, or that nobody waited for.
LEMMA WorkEnds ==
    ASSUME Typed, Work, AddsPlain, running.job \in JobSet, running'.job = Idle.job,
           \/ running.job \in Plain /\ DueStands
           \/ \E c \in Calls : running.job \in Private(c) /\ DueOthers(c) /\ Due(c)' = {}
    PROVE  Work'
<1>1. queue \in Seq(JobSet) /\ Len(queue) \in Nat /\ queue' \in Seq(JobSet) /\ Len(queue') \in Nat
  BY DEF Typed, AddsPlain, Kept
<1>2. \A i \in JobSet : i # Idle.job
  BY JobFacts
<1>3. \A j \in JobSet \ Plain : j # running.job => (Waits(j)' <=> Waits(j))
  BY <1>1, <1>2 DEF AddsPlain, Kept, Waits
<1>4. \A j \in JobSet \ Plain : j = running.job => ~Waits(j)'
  BY <1>1, <1>2 DEF AddsPlain, Kept, Waits, Work
<1>5. \A k, l \in 1..Len(queue') : queue'[k] = queue'[l] /\ k # l => queue'[k] \in Plain
  BY <1>1 DEF AddsPlain, Kept, Work
<1>6. \A k \in 1..Len(queue') : queue'[k] = running'.job => queue'[k] \in Plain
  BY <1>1, <1>2
<1>7. \A c \in Calls : \A j \in Private(c) : (Waits(j) <=> j \in Due(c))'
  <2>1. CASE running.job \in Plain /\ DueStands
    BY <1>3, <2>1, JobsAre DEF Work, DueStands
  <2>2. ASSUME NEW c \in Calls, running.job \in Private(c), DueOthers(c), Due(c)' = {}
        PROVE  \A k \in Calls : \A j \in Private(k) : (Waits(j) <=> j \in Due(k))'
    <3>1. ASSUME NEW k \in Calls, k # c PROVE \A j \in Private(k) : (Waits(j) <=> j \in Due(k))'
      BY <1>3, <2>2, <3>1, JobsAre, PrivateApart DEF Work, DueOthers
    <3>2. running.job \notin Plain /\ running.job \in Due(c)
      BY <2>2, JobsAre DEF Work, Waits
    <3>3. \A j \in Private(c) : j # running.job => ~Waits(j)
      BY <2>2, <3>2 DEF Work, Due, Private
    <3>4. \A j \in Private(c) : ~Waits(j)'
      BY <1>3, <1>4, <3>2, <3>3, JobsAre
    <3>5. QED
      BY <2>2, <3>1, <3>4
  <2>3. QED
    BY <2>1, <2>2
<1>8. QED
  BY <1>5, <1>6, <1>7 DEF Work, Private, Plain

-----------------------------------------------------------------------------
(* Calls and their tokens                                                  *)

OthersStay(c) == calls' \in [Calls -> CallTypes] /\ \A k \in Calls \ {c} : calls'[k] = calls[k]

LEMMA BlankCalls ==
    /\ NewCall \in CallTypes /\ NewCall.pc = "none" /\ NewCall.ids = {} /\ ~NewCall.active /\ ~NewCall.ready
    /\ Done \in CallTypes /\ Done.pc = "done" /\ Done.ids = {} /\ ~Done.active /\ ~Done.ready
  BY DEF NewCall, Done, CallTypes

LEMMA CallTyped ==
    ASSUME Typed, NEW c \in Calls
    PROVE  /\ calls[c] \in CallTypes /\ OwnerOf[c] \in Owners /\ c # NoCall
           /\ calls[c].active \in BOOLEAN /\ calls[c].ready \in BOOLEAN /\ calls[c].ids \subseteq Ids
           /\ calls[c].epoch \in Nat /\ calls[c].read \in Catalogs \cup {NoCatalog}
  BY CallsAssumption DEF Typed, CallTypes

LEMMA CallTurns ==
    ASSUME Typed, NEW c \in Calls, NEW r \in CallTypes, calls' = [calls EXCEPT ![c] = r]
    PROVE  OthersStay(c) /\ calls'[c] = r
  BY DEF Typed, OthersStay

Filed == \A o \in Owners : \A c \in {staged[o], committed[o]} : c # NoCall => OwnerOf[c] = o

\* The catalog stands, or the first one is published while its refresh is still
\* requested.
Seeded ==
    \/ UNCHANGED <<authority, epoch>>
    \/ /\ epoch' = epoch + 1 /\ authority' \in Catalogs \cup {NoCatalog}
       /\ Offered \subseteq Offered' /\ requested /\ requested'

\* One call moves, and with it at most its session's slots.
LEMMA TokensMove ==
    ASSUME Typed, Tokens, NEW c \in Calls, OthersStay(c), Seeded, disposal' = disposal,
           TokenOf(c)', Filed',
           \A k \in Calls \ {c} : (Staged(k)' <=> Staged(k)) /\ (Committed(k)' => Committed(k)),
           Unsettled(c)' => Unsettled(c) \/ \A k \in Calls : OwnerOf[k] = OwnerOf[c] => ~Unsettled(k),
           Disposed => \A o \in Owners : staged'[o] = NoCall /\ committed'[o] = NoCall
    PROVE  Tokens'
<1>1. ASSUME NEW k \in Calls \ {c} PROVE TokenOf(k)'
  <2>1. calls'[k] = calls[k] /\ TokenOf(k) /\ calls[k].epoch \in Nat /\ epoch \in Nat
    BY CallTyped DEF OthersStay, Tokens, Typed
  <2>2. calls[k].epoch <= epoch =>
           calls[k].epoch <= epoch' /\ (calls[k].epoch = epoch' => UNCHANGED <<authority, epoch>>)
    BY <2>1 DEF Seeded
  <2>3. UNCHANGED <<authority, epoch>> => Offered' = Offered
    BY DEF Offered
  <2>4. calls[k].pc \in {"reading", "classifying"} =>
          calls[k].epoch <= epoch' /\ (calls[k].epoch = epoch' => calls[k].ids \subseteq Offered')
    BY <2>1, <2>2, <2>3 DEF TokenOf
  <2>5. QED
    BY <2>1, <2>4 DEF TokenOf
<1>2. \A j, k \in Calls : OwnerOf[j] = OwnerOf[k] /\ Unsettled(j)' /\ Unsettled(k)' => j = k
  <2>1. \A k \in Calls \ {c} : Unsettled(k)' <=> Unsettled(k)
    BY DEF OthersStay, Unsettled
  <2>2. QED
    BY <2>1 DEF Tokens
<1>3. QED
  BY <1>1, <1>2 DEF Tokens, Filed, Disposed

\* A call that is under way gives up its token, if it has one.
Leaves(c) ==
    /\ calls'[c].pc \in {"cleaning", "done"} /\ ~calls'[c].active /\ ~calls'[c].ready
    /\ staged' = [staged EXCEPT ![OwnerOf[c]] = NoCall] /\ committed' = committed

LEMMA OneUnderWay ==
    ASSUME Typed, Tokens, NEW c \in Calls, Unsettled(c)
    PROVE  /\ staged[OwnerOf[c]] \in {c, NoCall} /\ ~Committed(c)
           /\ \A k \in Calls \ {c} : Staged(k) => OwnerOf[k] # OwnerOf[c]
<1>1. \A k \in Calls : Staged(k) => Unsettled(k)
  BY DEF Tokens, TokenOf, Unsettled
<1>2. \A k \in Calls : Staged(k) /\ OwnerOf[k] = OwnerOf[c] => k = c
  BY <1>1 DEF Tokens
<1>3. staged[OwnerOf[c]] # NoCall => staged[OwnerOf[c]] \in Calls /\ OwnerOf[staged[OwnerOf[c]]] = OwnerOf[c]
  BY CallTyped DEF Tokens, Typed
<1>4. ~Committed(c)
  BY DEF Tokens, TokenOf, Unsettled
<1>5. QED
  BY <1>2, <1>3, <1>4 DEF Staged

LEMMA TokensLeave ==
    ASSUME Typed, Tokens, NEW c \in Calls, Unsettled(c), OthersStay(c), Seeded, disposal' = disposal, Leaves(c)
    PROVE  Tokens' /\ staged' \in [Owners -> Calls \cup {NoCall}]
<1>1. /\ OwnerOf[c] \in Owners /\ c # NoCall /\ staged \in [Owners -> Calls \cup {NoCall}]
      /\ committed' = committed
  BY CallTyped DEF Typed, Leaves
<1>2. staged' \in [Owners -> Calls \cup {NoCall}] /\ staged'[OwnerOf[c]] = NoCall
  BY <1>1 DEF Leaves
<1>3. \A o \in Owners : staged'[o] = staged[o] \/ staged'[o] = NoCall
  BY <1>1 DEF Leaves
<1>4. \A k \in Calls \ {c} : (Staged(k)' <=> Staged(k)) /\ (Committed(k)' => Committed(k))
  <2> SUFFICES ASSUME NEW k \in Calls \ {c} PROVE Staged(k)' <=> Staged(k)
    BY <1>1 DEF Committed
  <2>1. OwnerOf[k] \in Owners /\ k # NoCall
    BY CallTyped
  <2>2. CASE OwnerOf[k] = OwnerOf[c]
    BY <1>2, <2>1, <2>2, OneUnderWay DEF Staged
  <2>3. CASE OwnerOf[k] # OwnerOf[c]
    BY <1>1, <2>1, <2>3 DEF Staged, Leaves
  <2>4. QED
    BY <2>2, <2>3
<1>5. TokenOf(c)'
  BY <1>1, <1>2, OneUnderWay DEF TokenOf, Leaves, Staged, Committed
<1>6. Filed'
  BY <1>1, <1>3 DEF Filed, Tokens
<1>7. Disposed => \A o \in Owners : staged'[o] = NoCall /\ committed'[o] = NoCall
  BY <1>1, <1>3 DEF Tokens
<1>8. QED
  BY <1>2, <1>4, <1>5, <1>6, <1>7, TokensMove

\* A call goes on and keeps what its session has filed.
LEMMA TokensStay ==
    ASSUME Typed, Tokens, NEW c \in Calls, OthersStay(c), UNCHANGED <<authority, epoch, disposal, staged, committed>>,
           TokenOf(c)',
           Unsettled(c) \/ \A k \in Calls : OwnerOf[k] = OwnerOf[c] => ~Unsettled(k)
    PROVE  Tokens'
<1>1. \A k \in Calls \ {c} : (Staged(k)' <=> Staged(k)) /\ (Committed(k)' => Committed(k))
  BY DEF Staged, Committed
<1>2. Filed' /\ (Disposed => \A o \in Owners : staged'[o] = NoCall /\ committed'[o] = NoCall)
  BY DEF Tokens, Filed
<1>3. QED
  BY <1>1, <1>2, TokensMove DEF Seeded

LEMMA LeavesOthers ==
    ASSUME Typed, Tokens, NEW c \in Calls, Unsettled(c), Leaves(c)
    PROVE  \A k \in Calls \ {c} : (Staged(k)' <=> Staged(k)) /\ (Committed(k)' <=> Committed(k))
<1> SUFFICES ASSUME NEW k \in Calls \ {c} PROVE (Staged(k)' <=> Staged(k)) /\ (Committed(k)' <=> Committed(k))
  OBVIOUS
<1>1. /\ OwnerOf[c] \in Owners /\ OwnerOf[k] \in Owners /\ k # NoCall
      /\ staged \in [Owners -> Calls \cup {NoCall}]
  BY CallTyped DEF Typed
<1>2. CASE OwnerOf[k] = OwnerOf[c]
  BY <1>1, <1>2, OneUnderWay DEF Staged, Committed, Leaves
<1>3. CASE OwnerOf[k] # OwnerOf[c]
  BY <1>1, <1>3 DEF Staged, Committed, Leaves
<1>4. QED
  BY <1>2, <1>3

-----------------------------------------------------------------------------
(* What is wanted                                                          *)

Counts(c) == Committed(c) \/ (Staged(c) /\ calls[c].ready)

LEMMA DemandIs ==
    ASSUME Typed, Tokens, NEW i
    PROVE  i \in Demand <=> \E c \in Calls : Counts(c) /\ i \in calls[c].ids
<1>1. i \in Demand <=> \/ \E o \in Owners : i \in IdsOf(committed[o])
                      \/ \E c \in Readied : i \in IdsOf(c)
  <2>1. i \in UNION {IdsOf(committed[o]) : o \in Owners} <=> \E o \in Owners : i \in IdsOf(committed[o])
    OBVIOUS
  <2>2. i \in UNION {IdsOf(c) : c \in Readied} <=> \E c \in Readied : i \in IdsOf(c)
    OBVIOUS
  <2>3. QED
    BY <2>1, <2>2 DEF Demand
<1>2. \A c \in Calls : c # NoCall /\ OwnerOf[c] \in Owners /\ IdsOf(c) = calls[c].ids
  BY CallsAssumption DEF IdsOf
<1>3. ASSUME NEW c \in Calls, Counts(c), i \in calls[c].ids PROVE i \in Demand
  <2>1. CASE Committed(c)
    <3>1. i \in IdsOf(committed[OwnerOf[c]])
      BY <1>2, <1>3, <2>1 DEF Committed
    <3>2. QED
      BY <1>1, <1>2, <3>1
  <2>2. CASE Staged(c) /\ calls[c].ready
    <3>1. c \in Readied
      BY <1>2, <2>2 DEF Readied, Staged
    <3>2. QED
      BY <1>1, <1>2, <1>3, <3>1
  <2>3. QED
    BY <1>3, <2>1, <2>2 DEF Counts
<1>4. ASSUME NEW o \in Owners, i \in IdsOf(committed[o]) PROVE \E c \in Calls : Counts(c) /\ i \in calls[c].ids
  <2>1. committed[o] \in Calls /\ OwnerOf[committed[o]] = o
    BY <1>4 DEF IdsOf, Typed, Tokens
  <2>2. Counts(committed[o]) /\ i \in calls[committed[o]].ids
    BY <1>2, <1>4, <2>1 DEF Counts, Committed, IdsOf
  <2>3. QED
    BY <2>1, <2>2 DEF Counts, Committed, Staged
<1>5. ASSUME NEW c \in Readied, i \in IdsOf(c) PROVE \E k \in Calls : Counts(k) /\ i \in calls[k].ids
  <2>1. c \in Calls /\ calls[c].ready /\ \E o \in Owners : staged[o] = c
    BY DEF Readied
  <2>2. Staged(c)
    BY <1>2, <2>1 DEF Tokens, Staged
  <2>3. QED
    BY <1>2, <1>5, <2>1, <2>2 DEF Counts
<1>6. QED
  BY <1>1, <1>3, <1>4, <1>5

LEMMA DemandWillBe ==
    ASSUME Typed', Tokens', NEW i
    PROVE  i \in Demand' <=> \E c \in Calls : Counts(c)' /\ i \in calls'[c].ids
<1>1. i \in Demand' <=> \/ \E o \in Owners : i \in IdsOf(committed[o])'
                      \/ \E c \in Readied' : i \in IdsOf(c)'
  <2>1. i \in UNION {IdsOf(committed[o])' : o \in Owners} <=> \E o \in Owners : i \in IdsOf(committed[o])'
    OBVIOUS
  <2>2. i \in UNION {IdsOf(c)' : c \in Readied'} <=> \E c \in Readied' : i \in IdsOf(c)'
    OBVIOUS
  <2>3. QED
    BY <2>1, <2>2 DEF Demand
<1>2. \A c \in Calls : c # NoCall /\ OwnerOf[c] \in Owners /\ IdsOf(c)' = calls'[c].ids
  BY CallsAssumption DEF IdsOf
<1>3. ASSUME NEW c \in Calls, Counts(c)', i \in calls'[c].ids PROVE i \in Demand'
  <2>1. CASE Committed(c)'
    <3>1. i \in IdsOf(committed[OwnerOf[c]])'
      BY <1>2, <1>3, <2>1 DEF Committed
    <3>2. QED
      BY <1>1, <1>2, <3>1
  <2>2. CASE Staged(c)' /\ calls'[c].ready
    <3>1. c \in Readied'
      BY <1>2, <2>2 DEF Readied, Staged
    <3>2. QED
      BY <1>1, <1>2, <1>3, <3>1
  <2>3. QED
    BY <1>3, <2>1, <2>2 DEF Counts
<1>4. ASSUME NEW o \in Owners, i \in IdsOf(committed[o])' PROVE \E c \in Calls : Counts(c)' /\ i \in calls'[c].ids
  <2>1. committed'[o] \in Calls /\ OwnerOf[committed'[o]] = o
    BY <1>4 DEF IdsOf, Typed, Tokens
  <2>2. Counts(committed[o])' /\ i \in calls'[committed'[o]].ids
    BY <1>2, <1>4, <2>1 DEF Counts, Committed, IdsOf
  <2>3. QED
    BY <2>1, <2>2 DEF Counts, Committed, Staged
<1>5. ASSUME NEW c \in Readied', i \in IdsOf(c)' PROVE \E k \in Calls : Counts(k)' /\ i \in calls'[k].ids
  <2>1. c \in Calls /\ calls'[c].ready /\ \E o \in Owners : staged'[o] = c
    BY DEF Readied
  <2>2. Staged(c)'
    BY <1>2, <2>1 DEF Tokens, Staged
  <2>3. QED
    BY <1>2, <1>5, <2>1, <2>2 DEF Counts
<1>6. QED
  BY <1>1, <1>3, <1>4, <1>5

LEMMA IdsAre ==
    ASSUME authority \in Catalogs \cup {NoCatalog}
    PROVE  Offered \subseteq Ids /\ BaseOf(authority) \subseteq Ids /\ Wanted \subseteq Ids
<1>1. authority.offered \subseteq Ids /\ authority.base \subseteq Ids
  BY CatalogsAssumption DEF NoCatalog
<1>2. Offered \subseteq Ids /\ BaseOf(authority) \subseteq Ids
  BY <1>1, DirectAssumption DEF Offered, BaseOf
<1>3. QED
  BY <1>2 DEF Wanted

LEMMA WantedStands ==
    ASSUME Typed, Tokens, Typed', Tokens', UNCHANGED <<authority, off>>,
           \A c \in Calls : (Counts(c)' <=> Counts(c)) /\ (Counts(c) => calls'[c].ids = calls[c].ids)
    PROVE  Wanted' = Wanted
<1>1. \A i : i \in Demand' <=> i \in Demand
  BY DemandIs, DemandWillBe
<1>2. Offered' = Offered /\ BaseOf(authority') = BaseOf(authority)
  BY DEF Offered
<1>3. QED
  BY <1>1, <1>2 DEF Wanted

-----------------------------------------------------------------------------
(* What keeps the parts of the invariant                                   *)

LEMMA RefusableKept ==
    ASSUME Typed, Refusable, Kept, Offered \subseteq Offered',
           \A k \in 1..Len(queue) : queue[k].kind = "activate" => calls'[queue[k].who].ids = calls[queue[k].who].ids,
           \A k \in Len(queue) + 1..Len(queue') :
              queue'[k].kind = "activate" => calls'[queue'[k].who].ids \subseteq Offered'
    PROVE  Refusable'
<1>1. Len(queue) \in Nat /\ Len(queue') \in Nat /\ Len(queue) <= Len(queue')
  BY DEF Typed, Kept
<1>2. SUFFICES ASSUME NEW k \in 1..Len(queue'), Refused(k)'
               PROVE  \E l \in k + 1..Len(queue') : queue'[l].kind = "refresh"
  BY DEF Refusable
<1>3. k \in 1..Len(queue)
  BY <1>1, <1>2 DEF Refused
<1>4. queue'[k] = queue[k] /\ Refused(k)
  BY <1>2, <1>3 DEF Refused, Kept
<1>5. PICK l \in k + 1..Len(queue) : queue[l].kind = "refresh"
  BY <1>3, <1>4 DEF Refusable
<1>6. l \in 1..Len(queue) /\ l \in k + 1..Len(queue')
  BY <1>1, <1>3, <1>5
<1>7. QED
  BY <1>5, <1>6 DEF Kept

LEMMA RefusablePops ==
    ASSUME Typed, Refusable, Pops, authority' = authority,
           \A k \in 2..Len(queue) : queue[k].kind = "activate" => calls'[queue[k].who].ids = calls[queue[k].who].ids
    PROVE  Refusable'
<1>1. Len(queue) \in Nat /\ Len(queue') \in Nat /\ Offered' = Offered
  BY DEF Typed, Pops, Offered
<1>2. SUFFICES ASSUME NEW k \in 1..Len(queue'), Refused(k)'
               PROVE  \E l \in k + 1..Len(queue') : queue'[l].kind = "refresh"
  BY DEF Refusable
<1>3. k + 1 \in 2..Len(queue) /\ k + 1 \in 1..Len(queue) /\ queue'[k] = queue[k + 1]
  BY <1>1 DEF Pops
<1>4. Refused(k + 1)
  BY <1>1, <1>2, <1>3 DEF Refused
<1>5. PICK l \in (k + 1) + 1..Len(queue) : queue[l].kind = "refresh"
  BY <1>3, <1>4 DEF Refusable
<1>6. l - 1 \in k + 1..Len(queue') /\ l - 1 \in 1..Len(queue') /\ (l - 1) + 1 = l
  BY <1>1, <1>5 DEF Pops
<1>7. QED
  BY <1>5, <1>6 DEF Pops

\* Nothing wanted is given up; and without a switch, nothing more is wanted.
WantedHolds == Wanted \subseteq Wanted' /\ (budget.toggles = 0 => Wanted' \subseteq Wanted)

LEMMA BalanceStands ==
    ASSUME Balance, WantedHolds, UNCHANGED <<mounted, failed, running, disposal>>,
           Owed => Owed', budget'.toggles = budget.toggles, budget'.faults = 0 => budget.faults = 0
    PROVE  Balance'
  BY DEF Balance, Fits, Disposed, WantedHolds

LEMMA BackedStands ==
    ASSUME Typed, Backed, Seeded, UNCHANGED <<passes, disposal>>,
           \A c \in Calls : Backing(c)' => Needed(c)' = {} \/ (Backing(c) /\ Needed(c)' = Needed(c))
    PROVE  Backed'
<1>1. CASE UNCHANGED <<authority, epoch>>
  <2>1. Offered' = Offered
    BY <1>1 DEF Offered
  <2>2. QED
    BY <1>1, <2>1 DEF Backed, BackedBy, passes, Disposed
<1>2. CASE epoch' = epoch + 1
  <2>1. epoch \in Nat /\ (~Disposed => passEpoch <= epoch /\ running.epoch <= epoch)
    BY DEF Typed, Backed
  <2>2. running.epoch \in Nat /\ passEpoch \in Nat
    BY DEF Typed, Running, Idle
  <2>3. ~Disposed => passEpoch # epoch' /\ running.epoch # epoch' /\ passEpoch <= epoch' /\ running.epoch <= epoch'
    BY <1>2, <2>1, <2>2
  <2>4. QED
    BY <2>3 DEF Backed, passes, Disposed
<1>3. QED
  BY <1>1, <1>2 DEF Seeded

LEMMA EndsStands ==
    ASSUME Typed, Ends, Kept, UNCHANGED <<disposal, running, mounted, failed, off>>,
           authority' = authority \/ authority' # NoCatalog \/ requested', requested => requested',
           budget'.toggles = budget.toggles, budget'.faults = 0 => budget.faults = 0,
           \A k \in Len(queue) + 1..Len(queue') : queue'[k].kind # "drain"
    PROVE  Ends'
<1>1. Len(queue) \in Nat /\ Len(queue') \in Nat
  BY DEF Typed, Kept
<1>2. ASSUME NEW k \in 1..Len(queue'), queue'[k].kind = "drain" PROVE Disposed
  <2>1. k \in 1..Len(queue)
    BY <1>1, <1>2
  <2>2. QED
    BY <1>2, <2>1 DEF Kept, Ends
<1>3. QED
  BY <1>2 DEF Ends, Disposed

LEMMA DepartedStands ==
    ASSUME Typed, Departed, Kept, gone' = gone,
           \A o \in gone : committed[o] = NoCall => committed'[o] = NoCall \/ Leaving(o)
    PROVE  Departed'
<1>1. Len(queue) \in Nat /\ Len(queue') \in Nat /\ Len(queue) <= Len(queue')
  BY DEF Typed, Kept
<1>2. \A k \in 1..Len(queue) : k \in 1..Len(queue')
  BY <1>1
<1>3. QED
  BY <1>2 DEF Departed, Leaving, Kept

\* A call that waits in the queue for its activation is activating.
LEMMA ActivationsWait ==
    ASSUME Typed, Work, NEW k \in 1..Len(queue), queue[k].kind \in {"activate", "cleanup"}
    PROVE  /\ queue[k].who \in Calls /\ queue[k] \in Due(queue[k].who)
           /\ queue[k] = Job(queue[k].kind, queue[k].who)
           /\ queue[k].kind = "activate" => calls[queue[k].who].pc = "activating"
<1>1. queue[k] \in JobSet
  BY DEF Typed
<1>2. queue[k].who \in Calls /\ queue[k] = Job(queue[k].kind, queue[k].who)
  BY <1>1, JobFacts
<1>3. queue[k] \in Private(queue[k].who)
  BY <1>2 DEF Private
<1>4. Waits(queue[k])
  BY DEF Waits
<1>5. queue[k] \in Due(queue[k].who)
  BY <1>2, <1>3, <1>4 DEF Work
<1>6. queue[k].kind = "activate" => calls[queue[k].who].pc = "activating"
  BY <1>2, <1>5, PrivateApart, JobsAre DEF Due
<1>7. QED
  BY <1>2, <1>5, <1>6

-----------------------------------------------------------------------------
(* One call moves, outside the passes                                      *)

\* What a move leaves alone, and what it may add.
Around ==
    /\ UNCHANGED <<catalog, off, passes, gone, disposal>>
    /\ Seeded /\ (requested => requested')
    /\ budget' \in [changes: Nat, toggles: Nat, faults: Nat]
    /\ budget'.toggles = budget.toggles /\ (budget'.faults = 0 => budget.faults = 0)

LEMMA CallMoves ==
    ASSUME IInv, NEW c \in Calls, OthersStay(c), Around, Kept, Tokens', Work',
           calls[c].pc # "activating",
           staged' \in [Owners -> Calls \cup {NoCall}], committed' \in [Owners -> Calls \cup {NoCall}],
           \A k \in Len(queue) + 1..Len(queue') :
              /\ queue'[k].kind # "drain"
              /\ queue'[k].kind = "activate" => calls'[queue'[k].who].ids \subseteq Offered',
           \A o \in gone : committed[o] = NoCall => committed'[o] = NoCall \/ Leaving(o),
           \A k \in Calls : Backing(k)' => Needed(k)' = {} \/ (Backing(k) /\ Needed(k)' = Needed(k)),
           Typed' => Owed' \/ WantedHolds
    PROVE  IInv'
<1> USE DEF IInv
<1>1. Typed'
  BY DEF Typed, Around, OthersStay, Kept, Seeded, passes
<1>2. Offered \subseteq Offered'
  BY DEF Around, Seeded, Offered
<1>3. Refusable'
  <2>1. \A k \in 1..Len(queue) : queue[k].kind = "activate" => queue[k].who \in Calls \ {c}
    BY ActivationsWait
  <2>2. \A k \in 1..Len(queue) : queue[k].kind = "activate" => calls'[queue[k].who].ids = calls[queue[k].who].ids
    BY <2>1 DEF OthersStay
  <2>3. QED
    BY <1>2, <2>2, RefusableKept
<1>4. Balance'
  <2>1. Owed => Owed'
    <3>1. queue # <<>> => Len(queue) >= 1
      BY DEF Typed
    <3>2. queue' = <<>> => Len(queue') = 0
      OBVIOUS
    <3>3. QED
      BY <3>1, <3>2 DEF Around, Owed, Kept
  <2>2. CASE Owed'
    BY <2>2 DEF Balance
  <2>3. CASE WantedHolds
    BY <2>1, <2>3, BalanceStands DEF Around, passes
  <2>4. QED
    BY <1>1, <2>2, <2>3
<1>5. Backed'
  BY BackedStands DEF Around
<1>6. Ends'
  BY EndsStands DEF Around, passes, Seeded
<1>7. Departed'
  BY DepartedStands DEF Around
<1>8. QED
  BY <1>1, <1>3, <1>4, <1>5, <1>6, <1>7

-----------------------------------------------------------------------------
(* The stage call                                                          *)

\* Neither slot of a session has this call, and it waits for no job.
LEMMA Unfiled ==
    ASSUME IInv, NEW c \in Calls, calls[c].pc \in {"none", "applying"}
    PROVE  ~Staged(c) /\ ~Committed(c) /\ ~calls[c].active /\ ~calls[c].ready
  BY DEF IInv, Tokens, TokenOf

\* A call that goes on without its session's slots being touched, and whose
\* demand counts as it did.
LEMMA GoesOn ==
    ASSUME IInv, NEW c \in Calls, OthersStay(c), Around, authority' = authority, epoch' = epoch,
           UNCHANGED <<staged, committed, queue>>,
           Unsettled(c) \/ \A k \in Calls : OwnerOf[k] = OwnerOf[c] => ~Unsettled(k),
           calls[c].pc \in {"none", "applying", "reading", "classifying"},
           calls'[c].pc \in {"applying", "classifying"}, TokenOf(c)'
    PROVE  IInv'
<1> USE DEF IInv
<1>1. AddsPlain /\ Kept /\ Len(queue') = Len(queue)
  BY SameQueue DEF AddsPlain
<1>2. DueStands
  BY DEF DueStands, Due, OthersStay
<1>3. Work'
  BY <1>1, <1>2, WorkStands DEF Around, passes
<1>4. Tokens'
  BY TokensStay DEF Around
<1>5. ~calls[c].ready /\ ~calls'[c].ready /\ ~Committed(c) /\ ~Committed(c)'
  <2>1. ~calls[c].ready /\ ~Committed(c)
    BY DEF Tokens, TokenOf
  <2>2. QED
    BY <2>1 DEF TokenOf, Committed
<1>6. \A k \in Calls : Backing(k)' => Backing(k) /\ Needed(k)' = Needed(k)
  <2>1. ~Backing(c)'
    BY <1>5 DEF Backing, Committed
  <2>2. QED
    BY <2>1 DEF Backing, Needed, InForce, OthersStay
<1>7. Typed' => WantedHolds
  <2>1. \A k \in Calls : (Counts(k)' <=> Counts(k)) /\ (Counts(k) => calls'[k].ids = calls[k].ids)
    BY <1>5 DEF Counts, Staged, Committed, OthersStay
  <2>2. QED
    BY <1>4, <2>1, WantedStands DEF Around, WantedHolds
<1>8. staged' \in [Owners -> Calls \cup {NoCall}] /\ committed' \in [Owners -> Calls \cup {NoCall}]
  BY DEF Typed
<1>9. Len(queue) \in Nat
  BY DEF Typed
<1>10. QED
  BY <1>1, <1>3, <1>4, <1>6, <1>7, <1>8, <1>9, CallMoves

LEMMA ApplyKeeps == ASSUME IInv, NEW c \in Calls, Apply(c) PROVE IInv'
<1> USE DEF IInv
<1>1. PICK ids \in Selections : calls' = [calls EXCEPT ![c] = [NewCall EXCEPT !.pc = "applying", !.ids = ids, !.read = catalog]]
  BY DEF Apply
<1> DEFINE r == [NewCall EXCEPT !.pc = "applying", !.ids = ids, !.read = catalog]
<1>2. ids \subseteq Ids /\ catalog \in Catalogs
  BY SelectionsAssumption DEF Typed
<1>3. r \in CallTypes /\ r.pc = "applying" /\ ~r.active /\ ~r.ready
  BY <1>2, BlankCalls DEF CallTypes
<1> HIDE DEF r
<1>4. OthersStay(c) /\ calls'[c] = r
  BY <1>1, <1>3, CallTurns DEF r
<1>5. calls[c].pc = "none" /\ \A k \in Calls : OwnerOf[k] = OwnerOf[c] => ~Unsettled(k)
  BY DEF Apply
<1>6. UNCHANGED <<authority, epoch, world, requested, staged, committed, queue, passes, disposal, budget>>
  BY DEF Apply
<1>7. Around
  BY <1>6 DEF Around, Seeded, Typed, world
<1>8. TokenOf(c)'
  BY <1>3, <1>4, <1>5, <1>6, Unfiled DEF TokenOf, Staged, Committed
<1>9. QED
  BY <1>3, <1>4, <1>5, <1>6, <1>7, <1>8, GoesOn

LEMMA StageReadKeeps == ASSUME IInv, NEW c \in Calls, StageRead(c) PROVE IInv'
<1> USE DEF IInv
<1> DEFINE r == [calls[c] EXCEPT !.pc = "classifying", !.seen = off]
<1>1. calls' = [calls EXCEPT ![c].pc = "classifying", ![c].seen = off] /\ calls[c].pc = "reading"
  BY DEF StageRead
<1>2. calls[c] \in CallTypes /\ off \subseteq Ids
  BY CallTyped DEF Typed
<1>3. /\ r \in CallTypes /\ r.pc = "classifying" /\ r.active = calls[c].active /\ r.ready = calls[c].ready
      /\ r.epoch = calls[c].epoch /\ r.ids = calls[c].ids
  BY <1>2 DEF CallTypes
<1>4. calls' = [calls EXCEPT ![c] = r]
  BY <1>1 DEF Typed
<1> HIDE DEF r
<1>5. OthersStay(c) /\ calls'[c] = r
  BY <1>3, <1>4, CallTurns
<1>6. UNCHANGED <<authority, epoch, world, requested, staged, committed, queue, passes, disposal, budget>>
  BY DEF StageRead
<1>7. Around
  BY <1>6 DEF Around, Seeded, Typed, world
<1>8. Offered' = Offered
  BY <1>6 DEF Offered
<1>9. TokenOf(c)'
  BY <1>1, <1>3, <1>5, <1>6, <1>8 DEF Tokens, TokenOf, Staged, Committed
<1>10. QED
  BY <1>1, <1>3, <1>5, <1>6, <1>7, <1>9, GoesOn DEF Unsettled

\* A call gives up before it has activated anything: no demand of it counted,
\* and nothing else does.
LEMMA GivesUp ==
    ASSUME IInv, NEW c \in Calls, OthersStay(c), Around, Leaves(c), AddsPlain,
           calls'[c].pc = "done",
           calls[c].pc \in {"applying", "reading", "classifying", "held"},
           \A k \in Len(queue) + 1..Len(queue') : queue'[k].kind # "drain",
           Counts(c) => Owed' \/ calls[c].ids = {}
    PROVE  IInv'
<1> USE DEF IInv
<1>1. Unsettled(c)
  BY DEF Unsettled
<1>2. Tokens' /\ staged' \in [Owners -> Calls \cup {NoCall}] /\ committed' \in [Owners -> Calls \cup {NoCall}]
  BY <1>1, TokensLeave DEF Around, Leaves, Typed
<1>3. DueStands
  BY DEF DueStands, Due, OthersStay
<1>4. Work' /\ Kept
  BY <1>3, WorkStands DEF Around, passes, AddsPlain
<1>5. \A k \in Calls \ {c} : (Staged(k)' <=> Staged(k)) /\ (Committed(k)' <=> Committed(k))
  BY <1>1, LeavesOthers
<1>6. ~Committed(c)' /\ ~Counts(c)' /\ ~Backing(c)'
  <2>1. ~Committed(c)
    BY <1>1, OneUnderWay
  <2>2. ~Committed(c)'
    BY <2>1 DEF Committed, Leaves
  <2>3. QED
    BY <2>2 DEF Counts, Backing, Committed, Leaves
<1>7. \A k \in Calls : Backing(k)' => Backing(k) /\ Needed(k)' = Needed(k)
  BY <1>5, <1>6 DEF Backing, Needed, InForce, OthersStay, Staged, Committed
<1>8. \A k \in Calls \ {c} : (Counts(k)' <=> Counts(k)) /\ calls'[k] = calls[k]
  BY <1>5 DEF Counts, OthersStay
<1>9. Typed' => Owed' \/ WantedHolds
  <2> SUFFICES ASSUME Typed', ~Owed' PROVE Wanted' = Wanted
    BY DEF WantedHolds
  <2>1. UNCHANGED <<authority, off>>
    BY DEF Around, Seeded, Owed
  <2>2. Counts(c) => calls[c].ids = {}
    OBVIOUS
  <2>3. \A i : i \in Demand' <=> \E k \in Calls : Counts(k)' /\ i \in calls'[k].ids
    BY <1>2, DemandWillBe
  <2>4. \A i : i \in Demand <=> \E k \in Calls : Counts(k) /\ i \in calls[k].ids
    BY DemandIs
  <2>5. \A i : i \in Demand' <=> i \in Demand
    BY <1>6, <1>8, <2>2, <2>3, <2>4
  <2>6. QED
    BY <2>1, <2>5 DEF Wanted, Offered
<1>10. \A k \in Len(queue) + 1..Len(queue') : queue'[k].kind # "activate"
  BY JobFacts, JobsAre DEF AddsPlain
<1>11. QED
  BY <1>2, <1>4, <1>7, <1>9, <1>10, CallMoves DEF Leaves

LEMMA WithdrawsQuietly ==
    ASSUME Typed, NEW c \in Calls, NEW rest, Withdraw(c, FALSE, rest), rest \in Seq(JobSet)
    PROVE  /\ OthersStay(c) /\ calls'[c] = Done /\ queue' = rest
           /\ staged' = [staged EXCEPT ![OwnerOf[c]] = NoCall]
<1>1. rest \o <<>> = rest
  OBVIOUS
<1>2. QED
  BY <1>1, BlankCalls, CallTurns DEF Withdraw

LEMMA StageReadFailsKeeps == ASSUME IInv, NEW c \in Calls, StageReadFails(c) PROVE IInv'
<1> USE DEF IInv
<1>1. /\ calls[c].pc = "reading" /\ Withdraw(c, FALSE, queue) /\ budget' = [budget EXCEPT !.faults = @ + 1]
      /\ UNCHANGED <<authority, epoch, world, requested, committed, passes, disposal>>
  BY DEF StageReadFails
<1>2. OthersStay(c) /\ calls'[c] = Done /\ queue' = queue /\ staged' = [staged EXCEPT ![OwnerOf[c]] = NoCall]
  BY <1>1, WithdrawsQuietly DEF Typed
<1>3. AddsPlain /\ Len(queue') = Len(queue) /\ Len(queue) \in Nat
  BY <1>2, SameQueue DEF Typed
<1>4. Leaves(c) /\ Around
  BY <1>1, <1>2, BlankCalls DEF Leaves, Around, Seeded, world, Typed
<1>5. ~Counts(c)
  BY <1>1 DEF Counts, Tokens, TokenOf
<1>6. QED
  BY <1>1, <1>2, <1>3, <1>4, <1>5, BlankCalls, GivesUp

\* The call claims its session's slot, and the first catalog it read may be
\* published.
LEMMA StageBeginKeeps == ASSUME IInv, NEW c \in Calls, StageBegin(c) PROVE IInv'
<1> USE DEF IInv
<1> DEFINE o == OwnerOf[c]
<1>1. /\ calls[c].pc = "applying"
      /\ UNCHANGED <<world, requested, committed, queue, passes, disposal, budget>>
      /\ IF authority = NoCatalog /\ ~Disposed THEN Publish(calls[c].read) ELSE UNCHANGED <<authority, epoch>>
  BY DEF StageBegin
<1>2. Seeded
  <2>1. CASE ~(authority = NoCatalog /\ ~Disposed)
    BY <1>1, <2>1 DEF Seeded
  <2>2. CASE authority = NoCatalog /\ ~Disposed
    <3>1. requested /\ requested' /\ Publish(calls[c].read)
      BY <1>1, <2>2 DEF Ends
    <3>2. Offered \subseteq Offered'
      BY <2>2 DEF Offered, NoCatalog
    <3>3. authority' \in Catalogs \cup {NoCatalog}
      BY <3>1, CallTyped DEF Publish
    <3>4. QED
      BY <3>1, <3>2, <3>3 DEF Publish, Seeded
  <2>3. QED
    BY <2>1, <2>2
<1>3. Around
  BY <1>1, <1>2 DEF Around, world, Typed
<1>4. AddsPlain /\ Kept /\ Len(queue') = Len(queue) /\ Len(queue) \in Nat
  BY <1>1, SameQueue DEF Typed, AddsPlain
<1>5. Unsettled(c) /\ ~Staged(c) /\ ~Committed(c) /\ ~Counts(c) /\ ~Backing(c)
  BY <1>1, Unfiled DEF Unsettled, Counts, Backing, Committed
<1>6. staged[o] = NoCall /\ o \in Owners /\ staged \in [Owners -> Calls \cup {NoCall}] /\ c # NoCall
  BY <1>5, OneUnderWay, CallTyped DEF Staged, Typed
<1>7. CASE calls' = [calls EXCEPT ![c] = Done] /\ UNCHANGED staged
  <2>1. OthersStay(c) /\ calls'[c] = Done
    BY <1>7, BlankCalls, CallTurns
  <2>2. staged' = [staged EXCEPT ![OwnerOf[c]] = NoCall]
    BY <1>6, <1>7
  <2>3. Leaves(c)
    BY <1>1, <2>1, <2>2, BlankCalls DEF Leaves
  <2>4. QED
    BY <1>1, <1>3, <1>4, <1>5, <2>1, <2>3, BlankCalls, GivesUp
<1>8. CASE /\ calls' = [calls EXCEPT ![c].pc = "reading", ![c].active = TRUE, ![c].epoch = epoch', ![c].read = NoCatalog]
           /\ staged' = [staged EXCEPT ![o] = c] /\ ~Disposed
           /\ calls[c].ids \subseteq authority'.offered \cup Direct
  <2> DEFINE r == [calls[c] EXCEPT !.pc = "reading", !.active = TRUE, !.epoch = epoch', !.read = NoCatalog]
  <2>1. epoch' \in Nat /\ calls[c] \in CallTypes
    BY <1>2, CallTyped DEF Seeded, Typed
  <2>2. r \in CallTypes /\ r.pc = "reading" /\ r.active /\ r.ready = calls[c].ready /\ r.epoch = epoch' /\ r.ids = calls[c].ids
    BY <2>1 DEF CallTypes
  <2>3. calls' = [calls EXCEPT ![c] = r]
    BY <1>8 DEF Typed
  <2> HIDE DEF r
  <2>4. OthersStay(c) /\ calls'[c] = r
    BY <2>2, <2>3, CallTurns
  <2>5. staged' \in [Owners -> Calls \cup {NoCall}] /\ staged'[o] = c /\ \A p \in Owners \ {o} : staged'[p] = staged[p]
    BY <1>6, <1>8
  <2>6. \A k \in Calls \ {c} : (Staged(k)' <=> Staged(k)) /\ (Committed(k)' <=> Committed(k))
    <3> SUFFICES ASSUME NEW k \in Calls \ {c} PROVE Staged(k)' <=> Staged(k)
      BY <1>1 DEF Committed
    <3>1. OwnerOf[k] \in Owners /\ k # NoCall
      BY CallTyped
    <3>2. QED
      BY <1>6, <2>5, <3>1 DEF Staged
  <2>7. TokenOf(c)'
    <3>1. ~Committed(c)' /\ ~calls[c].ready /\ Staged(c)'
      BY <1>1, <1>5, <2>5, Unfiled DEF Committed, Staged
    <3>2. calls[c].ids \subseteq Offered'
      BY <1>8 DEF Offered
    <3>3. QED
      BY <2>1, <2>2, <2>4, <3>1, <3>2 DEF TokenOf
  <2>8. Filed'
    BY <1>1, <2>5 DEF Filed, Tokens
  <2>9. Tokens'
    BY <1>1, <1>2, <1>5, <1>8, <2>4, <2>6, <2>7, <2>8, TokensMove
  <2>10. DueStands
    BY <1>1, <2>2, <2>4 DEF DueStands, Due, OthersStay
  <2>11. Work'
    BY <1>1, <1>4, <2>10, WorkStands DEF passes
  <2>12. ~Counts(c)' /\ ~Backing(c)'
    BY <1>1, <1>5, <2>2, <2>4, Unfiled DEF Counts, Backing, Committed
  <2>13. \A k \in Calls : Backing(k)' => Backing(k) /\ Needed(k)' = Needed(k)
    BY <2>4, <2>6, <2>12 DEF Backing, Needed, InForce, OthersStay, Staged, Committed
  <2>14. Typed' => Owed' \/ WantedHolds
    <3>1. CASE requested'
      BY <3>1 DEF Owed
    <3>2. CASE UNCHANGED <<authority, epoch>>
      <4>1. \A k \in Calls : (Counts(k)' <=> Counts(k)) /\ (Counts(k) => calls'[k].ids = calls[k].ids)
        BY <1>5, <2>4, <2>6, <2>12 DEF Counts, OthersStay
      <4>2. QED
        BY <1>1, <2>9, <3>2, <4>1, WantedStands DEF WantedHolds, world
    <3>3. QED
      BY <1>2, <3>1, <3>2 DEF Seeded
  <2>15. committed' \in [Owners -> Calls \cup {NoCall}]
    BY <1>1 DEF Typed
  <2>16. QED
    BY <1>1, <1>3, <1>4, <2>4, <2>5, <2>9, <2>11, <2>13, <2>14, <2>15, CallMoves
<1>9. QED
  BY <1>7, <1>8 DEF StageBegin

\* The call begins to count: its servers are queued to be mounted, or the base
\* has them all.
LEMMA StageReadyKeeps == ASSUME IInv, NEW c \in Calls, StageReady(c) PROVE IInv'
<1> USE DEF IInv
<1>1. calls[c].pc = "classifying" /\ UNCHANGED <<authority, epoch, world, requested, committed, passes, disposal, budget>>
  BY DEF StageReady
<1>2. Around /\ Seeded
  BY <1>1 DEF Around, Seeded, Typed, world
<1>3. Unsettled(c) /\ ~Counts(c) /\ ~Committed(c) /\ ~Backing(c)
  BY <1>1 DEF Unsettled, Counts, Tokens, TokenOf, Backing, Committed
<1>4. Len(queue) \in Nat /\ queue \in Seq(JobSet)
  BY DEF Typed
<1>5. CASE Withdraw(c, FALSE, queue)
  <2>1. OthersStay(c) /\ calls'[c] = Done /\ queue' = queue /\ staged' = [staged EXCEPT ![OwnerOf[c]] = NoCall]
    BY <1>4, <1>5, WithdrawsQuietly
  <2>2. AddsPlain
    BY <2>1, SameQueue
  <2>3. Leaves(c)
    BY <1>1, <2>1, BlankCalls DEF Leaves
  <2>4. QED
    BY <1>1, <1>2, <1>3, <1>4, <2>1, <2>2, <2>3, BlankCalls, GivesUp
<1>6. CASE ~(calls[c].epoch # epoch \/ ~InForce(c) \/ Disposed)
  <2> DEFINE activate == ~(calls[c].ids \subseteq CoveredIds(c))
             pc == IF activate THEN "activating" ELSE "held"
             covered == CoveredIds(c)
             r == [calls[c] EXCEPT !.ready = TRUE, !.covered = covered, !.seen = {}, !.pc = pc]
  <2>1. /\ calls' = [calls EXCEPT ![c].ready = TRUE, ![c].covered = covered, ![c].seen = {}, ![c].pc = pc]
        /\ queue' = queue \o (IF activate THEN <<Job("activate", c)>> ELSE <<>>)
        /\ UNCHANGED staged
    BY <1>6 DEF StageReady, Enqueue
  <2>2. calls[c] \in CallTypes /\ covered \subseteq calls[c].ids /\ covered \subseteq BaseOf(authority) /\ covered \subseteq Ids
    BY CallTyped DEF CoveredIds
  <2>3. pc \in {"activating", "held"}
    OBVIOUS
  <2> HIDE DEF covered, pc
  <2>4. /\ r \in CallTypes /\ r.pc = pc /\ r.active = calls[c].active /\ r.ready
        /\ r.ids = calls[c].ids /\ r.covered = covered
    BY <2>2, <2>3 DEF CallTypes
  <2>5. calls' = [calls EXCEPT ![c] = r]
    BY <2>1 DEF Typed
  <2> HIDE DEF r
  <2>6. OthersStay(c) /\ calls'[c] = r
    BY <2>4, <2>5, CallTurns
  <2>7. TokenOf(c)'
    BY <1>1, <1>3, <2>1, <2>3, <2>4, <2>6 DEF Tokens, TokenOf, Staged, Committed
  <2>8. Tokens'
    BY <1>1, <1>3, <2>1, <2>6, <2>7, TokensStay
  <2>9. staged' \in [Owners -> Calls \cup {NoCall}] /\ committed' \in [Owners -> Calls \cup {NoCall}]
    BY <1>1, <2>1 DEF Typed
  <2>10. calls[c].ids \subseteq Offered /\ Offered' = Offered
    BY <1>1, <1>6 DEF Tokens, TokenOf, Offered
  <2>11. \A k \in Calls \ {c} : Backing(k)' => Backing(k) /\ Needed(k)' = Needed(k)
    BY <1>1, <2>1, <2>6 DEF Backing, Needed, InForce, OthersStay, Committed
  <2>12. CASE activate
    <3>1. pc = "activating" /\ queue' = queue \o <<Job("activate", c)>> /\ Job("activate", c) \in JobSet
      BY <2>1, <2>12, JobsAre DEF pc, Private
    <3>2. AddsLast(Job("activate", c)) /\ Len(queue') = Len(queue) + 1 /\ queue'[Len(queue) + 1] = Job("activate", c)
      BY <3>1, OneAdded
    <3>3. Kept
      BY <3>2 DEF AddsLast
    <3>4. DueOthers(c) /\ Due(c) = {} /\ Due(c)' = {Job("activate", c)}
      BY <1>1, <2>4, <2>6, <3>1 DEF DueOthers, Due, OthersStay
    <3>5. Work'
      BY <1>1, <3>2, <3>4, WorkAdds DEF Private, passes
    <3>6. \A k \in Len(queue) + 1..Len(queue') :
             queue'[k].kind = "activate" /\ queue'[k].kind # "drain" /\ queue'[k].who = c
      BY <1>4, <3>2, JobsAre
    <3>7. calls'[c].ids \subseteq Offered'
      BY <2>4, <2>6, <2>10
    <3>8. Owed'
      <4>1. Len(queue') # 0
        BY <1>4, <3>2
      <4>2. QED
        BY <4>1 DEF Owed
    <3>9. ~Backing(c)'
      BY <1>1, <1>3, <2>4, <2>6, <3>1 DEF Backing, Committed
    <3>10. QED
      BY <1>1, <1>2, <2>6, <2>8, <2>9, <2>11, <3>3, <3>5, <3>6, <3>7, <3>8, <3>9, CallMoves
  <2>13. CASE ~activate
    <3>1. pc = "held" /\ queue' = queue \o <<>> /\ calls[c].ids \subseteq covered
      BY <2>1, <2>13 DEF pc, covered
    <3>2. AddsPlain /\ Kept /\ Len(queue') = Len(queue)
      BY <3>1, EmptyAdded DEF AddsPlain
    <3>3. DueStands
      BY <1>1, <2>4, <2>6, <3>1 DEF DueStands, Due, OthersStay
    <3>4. Work'
      BY <1>1, <3>2, <3>3, WorkStands DEF passes
    <3>5. Needed(c)' = {}
      BY <2>4, <2>6, <3>1 DEF Needed
    <3>6. Typed' => WantedHolds
      <4> SUFFICES ASSUME Typed' PROVE WantedHolds
        OBVIOUS
      <4>1. \A k \in Calls : calls'[k].ids = calls[k].ids
        BY <2>4, <2>6 DEF OthersStay
      <4>2. \A k \in Calls \ {c} : Counts(k)' <=> Counts(k)
        BY <1>1, <2>1, <2>6 DEF Counts, Staged, Committed, OthersStay
      <4>3. \A i : i \in Demand => i \in Demand'
        BY <1>3, <2>8, <4>1, <4>2, DemandIs, DemandWillBe
      <4>4. \A i : i \in Demand' => i \in Demand \/ i \in calls[c].ids
        BY <2>8, <4>1, <4>2, DemandIs, DemandWillBe
      <4>5. calls[c].ids \subseteq BaseOf(authority)
        BY <2>2, <3>1
      <4>6. budget.toggles = 0 => off = {}
        BY DEF Ends
      <4>7. off' = off /\ authority' = authority
        BY <1>1 DEF world
      <4>8. QED
        BY <2>10, <4>3, <4>4, <4>5, <4>6, <4>7 DEF WantedHolds, Wanted
    <3>7. QED
      BY <1>1, <1>2, <1>4, <2>6, <2>8, <2>9, <2>11, <3>2, <3>4, <3>5, <3>6, CallMoves
  <2>14. QED
    BY <2>12, <2>13
<1>7. QED
  BY <1>5, <1>6 DEF StageReady

-----------------------------------------------------------------------------
(* The receipt                                                             *)

LEMMA CommitKeeps == ASSUME IInv, NEW c \in Calls, Commit(c) PROVE IInv'
<1> USE DEF IInv
<1> DEFINE o == OwnerOf[c]
<1>1. calls[c].pc = "held" /\ Durable(o) /\ UNCHANGED <<authority, epoch, world, requested, passes, disposal, budget>>
  BY DEF Commit
<1>2. Around /\ Seeded
  BY <1>1 DEF Around, Seeded, Typed, world
<1>3. Unsettled(c) /\ ~Committed(c) /\ calls[c].ready
  BY <1>1 DEF Unsettled, Tokens, TokenOf
<1>4. Len(queue) \in Nat /\ queue \in Seq(JobSet)
  BY DEF Typed
<1>5. CASE InForce(c) /\ ~Disposed
  <2> DEFINE r == [Done EXCEPT !.ids = calls[c].ids, !.covered = calls[c].covered]
             owed == ~(IdsOf(committed[o]) \subseteq calls[c].ids)
  <2>1. /\ committed' = [committed EXCEPT ![o] = c] /\ staged' = [staged EXCEPT ![o] = NoCall]
        /\ calls' = [calls EXCEPT ![c] = r]
        /\ queue' = queue \o (IF owed THEN <<Job("pass", NoCall)>> ELSE <<>>)
    BY <1>5 DEF Commit, Enqueue
  <2>2. calls[c] \in CallTypes /\ Done \in CallTypes /\ o \in Owners /\ c # NoCall
    BY CallTyped, BlankCalls
  <2>3. /\ r \in CallTypes /\ r.pc = "done" /\ ~r.active /\ ~r.ready
        /\ r.ids = calls[c].ids /\ r.covered = calls[c].covered
    BY <2>2, BlankCalls DEF CallTypes
  <2> HIDE DEF r
  <2>4. OthersStay(c) /\ calls'[c] = r
    BY <2>1, <2>3, CallTurns
  <2>5. /\ staged \in [Owners -> Calls \cup {NoCall}] /\ committed \in [Owners -> Calls \cup {NoCall}]
        /\ staged[o] = c
    BY <1>5 DEF Typed, InForce
  <2>6. /\ staged' \in [Owners -> Calls \cup {NoCall}] /\ committed' \in [Owners -> Calls \cup {NoCall}]
        /\ staged'[o] = NoCall /\ committed'[o] = c
        /\ \A p \in Owners \ {o} : staged'[p] = staged[p] /\ committed'[p] = committed[p]
    BY <2>1, <2>2, <2>5
  <2>7. \A k \in Calls \ {c} : (Staged(k)' <=> Staged(k)) /\ (Committed(k)' <=> Committed(k) /\ OwnerOf[k] # o)
    <3> SUFFICES ASSUME NEW k \in Calls \ {c}
                 PROVE  (Staged(k)' <=> Staged(k)) /\ (Committed(k)' <=> Committed(k) /\ OwnerOf[k] # o)
      OBVIOUS
    <3>1. OwnerOf[k] \in Owners /\ k # NoCall
      BY CallTyped
    <3>2. QED
      BY <2>5, <2>6, <3>1 DEF Staged, Committed
  <2>8. TokenOf(c)'
    BY <2>2, <2>3, <2>4, <2>6 DEF TokenOf, Staged, Committed
  <2>9. Filed'
    BY <2>6 DEF Filed, Tokens
  <2>10. Tokens'
    BY <1>1, <1>2, <1>3, <1>5, <2>4, <2>7, <2>8, <2>9, TokensMove
  <2>11. AddsPlain /\ Kept /\ (owed => Len(queue') = Len(queue) + 1) /\ \A k \in Len(queue) + 1..Len(queue') : queue'[k].kind = "pass"
    <3>1. CASE owed
      BY <1>4, <2>1, <3>1, OneAdded, JobsAre DEF AddsPlain
    <3>2. CASE ~owed
      BY <1>4, <2>1, <3>2, EmptyAdded DEF AddsPlain
    <3>3. QED
      BY <3>1, <3>2
  <2>12. DueStands
    BY <1>1, <2>3, <2>4 DEF DueStands, Due, OthersStay
  <2>13. Work'
    BY <1>1, <2>11, <2>12, WorkStands DEF passes
  <2>14. \A k \in Calls : Backing(k)' => Backing(k) /\ Needed(k)' = Needed(k)
    <3>1. Backing(c) /\ Needed(c)' = Needed(c)
      BY <1>1, <1>5, <2>3, <2>4 DEF Backing, Needed
    <3>2. \A k \in Calls \ {c} : Backing(k)' => Backing(k) /\ Needed(k)' = Needed(k)
      BY <2>4, <2>7 DEF Backing, Needed, InForce, OthersStay, Staged, Committed
    <3>3. QED
      BY <3>1, <3>2
  <2>15. Typed' => Owed' \/ WantedHolds
    <3> SUFFICES ASSUME Typed' PROVE Owed' \/ WantedHolds
      OBVIOUS
    <3>1. CASE owed
      <4>1. Len(queue') # 0
        BY <1>4, <2>11, <3>1
      <4>2. QED
        BY <4>1 DEF Owed
    <3>2. CASE ~owed
      <4>1. Counts(c) /\ Counts(c)' /\ calls'[c].ids = calls[c].ids
        BY <1>3, <2>2, <2>3, <2>4, <2>5, <2>6 DEF Counts, Staged, Committed
      <4>2. \A k \in Calls \ {c} : Counts(k)' => Counts(k)
        BY <2>4, <2>7 DEF Counts, OthersStay
      <4>3. ASSUME NEW k \in Calls \ {c}, Counts(k), ~Counts(k)' PROVE calls[k].ids \subseteq calls[c].ids
        <5>1. Committed(k) /\ OwnerOf[k] = o
          BY <2>4, <2>7, <4>3 DEF Counts, OthersStay
        <5>2. IdsOf(committed[o]) = calls[k].ids
          BY <5>1, CallTyped DEF IdsOf, Committed
        <5>3. QED
          BY <3>2, <5>2
      <4>4. \A k \in Calls \ {c} : calls'[k].ids = calls[k].ids
        BY <2>4 DEF OthersStay
      <4>5. \A i : i \in Demand' <=> i \in Demand
        <5>1. \A i : i \in Demand => i \in Demand'
          BY <2>10, <4>1, <4>3, <4>4, DemandIs, DemandWillBe
        <5>2. \A i : i \in Demand' => i \in Demand
          BY <2>10, <4>1, <4>2, <4>4, DemandIs, DemandWillBe
        <5>3. QED
          BY <5>1, <5>2
      <4>6. UNCHANGED <<authority, off>>
        BY <1>1 DEF world
      <4>7. QED
        BY <4>5, <4>6 DEF WantedHolds, Wanted, Offered
    <3>3. QED
      BY <3>1, <3>2
  <2>16. \A p \in gone : committed[p] = NoCall => committed'[p] = NoCall \/ Leaving(p)
    BY <1>1, <2>6 DEF Typed, Durable
  <2>17. QED
    BY <1>1, <1>2, <2>4, <2>6, <2>10, <2>11, <2>13, <2>14, <2>15, <2>16, CallMoves
<1>6. CASE ~(InForce(c) /\ ~Disposed)
  <2>1. calls' = [calls EXCEPT ![c] = Done] /\ UNCHANGED <<committed, staged, queue>>
    BY <1>6 DEF Commit
  <2>2. ~Staged(c)
    BY <1>6, CallTyped DEF Tokens, TokenOf, InForce, Staged
  <2>3. OthersStay(c) /\ calls'[c] = Done
    BY <2>1, BlankCalls, CallTurns
  <2>4. staged[o] = NoCall
    BY <1>3, <2>2, OneUnderWay DEF Staged
  <2>5. staged' = [staged EXCEPT ![o] = NoCall]
    BY <2>1, <2>4 DEF Typed
  <2>6. Leaves(c)
    BY <2>1, <2>3, <2>5, BlankCalls DEF Leaves
  <2>7. AddsPlain
    BY <2>1, SameQueue
  <2>8. ~Counts(c)
    BY <1>3, <2>2 DEF Counts
  <2>9. QED
    BY <1>1, <1>2, <1>4, <2>1, <2>3, <2>6, <2>7, <2>8, BlankCalls, GivesUp
<1>7. QED
  BY <1>5, <1>6

LEMMA RollbackKeeps == ASSUME IInv, NEW c \in Calls, Rollback(c) PROVE IInv'
<1> USE DEF IInv
<1> DEFINE o == OwnerOf[c]
<1>1. calls[c].pc = "held" /\ UNCHANGED <<authority, epoch, world, requested, committed, passes, disposal, budget>>
  BY DEF Rollback
<1>2. Around /\ Seeded
  BY <1>1 DEF Around, Seeded, Typed, world
<1>3. Unsettled(c) /\ ~Committed(c)
  BY <1>1 DEF Unsettled, Tokens, TokenOf
<1>4. Len(queue) \in Nat /\ queue \in Seq(JobSet)
  BY DEF Typed
<1>5. CASE InForce(c) /\ ~calls[c].mounts
  <2> DEFINE rest == IF calls[c].ids # {} THEN Append(queue, Job("pass", NoCall)) ELSE queue
  <2>1. Withdraw(c, FALSE, rest)
    BY <1>5, CallTyped DEF Rollback, CallTypes
  <2>2. rest \in Seq(JobSet)
    BY <1>4, JobsAre
  <2>3. OthersStay(c) /\ calls'[c] = Done /\ queue' = rest /\ staged' = [staged EXCEPT ![o] = NoCall]
    BY <2>1, <2>2, WithdrawsQuietly
  <2>4. Leaves(c)
    BY <1>1, <2>3, BlankCalls DEF Leaves
  <2>5. CASE calls[c].ids # {}
    <3>1. /\ AddsPlain /\ Len(queue') = Len(queue) + 1
          /\ \A k \in Len(queue) + 1..Len(queue') : queue'[k].kind = "pass"
      <4>1. queue' = Append(queue, Job("pass", NoCall)) /\ Job("pass", NoCall) \in Plain /\ Job("pass", NoCall) \in JobSet
        BY <2>3, <2>5, JobsAre
      <4>2. Job("pass", NoCall).kind = "pass"
        BY JobsAre
      <4>3. AddsPlain /\ Len(queue') = Len(queue) + 1 /\ queue'[Len(queue) + 1] = Job("pass", NoCall)
        BY <4>1, OneAdded
      <4>4. QED
        BY <1>4, <4>2, <4>3
    <3>2. Len(queue') # 0
      BY <1>4, <3>1
    <3>3. Owed'
      BY <3>2 DEF Owed
    <3>4. QED
      BY <1>1, <1>2, <2>3, <2>4, <3>1, <3>3, BlankCalls, GivesUp
  <2>6. CASE calls[c].ids = {}
    <3>1. AddsPlain /\ Len(queue') = Len(queue)
      BY <2>3, <2>6, SameQueue
    <3>2. QED
      BY <1>1, <1>2, <1>4, <2>3, <2>4, <2>6, <3>1, BlankCalls, GivesUp
  <2>7. QED
    BY <2>5, <2>6
<1>6. CASE InForce(c) /\ calls[c].mounts
  <2> DEFINE r == [NewCall EXCEPT !.pc = "cleaning"]
  <2>1. calls' = [calls EXCEPT ![c] = r] /\ staged' = [staged EXCEPT ![o] = NoCall] /\ queue' = queue \o <<Job("cleanup", c)>>
    BY <1>6, CallTyped DEF Rollback, Withdraw, CallTypes
  <2>2. r \in CallTypes /\ r.pc = "cleaning" /\ ~r.active /\ ~r.ready
    BY BlankCalls DEF CallTypes
  <2> HIDE DEF r
  <2>3. OthersStay(c) /\ calls'[c] = r
    BY <2>1, <2>2, CallTurns
  <2>4. Leaves(c)
    BY <1>1, <2>1, <2>2, <2>3 DEF Leaves
  <2>5. Tokens' /\ staged' \in [Owners -> Calls \cup {NoCall}] /\ committed' \in [Owners -> Calls \cup {NoCall}]
    BY <1>1, <1>2, <1>3, <2>3, <2>4, TokensLeave DEF Typed
  <2>6. Job("cleanup", c) \in JobSet /\ Job("cleanup", c) \in Private(c)
    BY JobsAre DEF Private
  <2>7. AddsLast(Job("cleanup", c)) /\ Len(queue') = Len(queue) + 1 /\ queue'[Len(queue) + 1] = Job("cleanup", c)
    BY <2>1, <2>6, OneAdded
  <2>8. DueOthers(c) /\ Due(c) = {} /\ Due(c)' = {Job("cleanup", c)}
    BY <1>1, <2>2, <2>3 DEF DueOthers, Due, OthersStay
  <2>9. Work'
    BY <1>1, <2>6, <2>7, <2>8, WorkAdds DEF passes
  <2>10. Kept /\ \A k \in Len(queue) + 1..Len(queue') : queue'[k].kind = "cleanup"
    BY <1>4, <2>7, JobsAre DEF AddsLast
  <2>11. Owed'
    <3>1. Len(queue') # 0
      BY <1>4, <2>7
    <3>2. QED
      BY <3>1 DEF Owed
  <2>12. \A k \in Calls : Backing(k)' => Backing(k) /\ Needed(k)' = Needed(k)
    <3>1. ~Backing(c)'
      BY <1>1, <1>3, <2>2, <2>3 DEF Backing, Committed
    <3>2. \A k \in Calls \ {c} : (Staged(k)' <=> Staged(k)) /\ (Committed(k)' <=> Committed(k))
      BY <1>3, <2>4, LeavesOthers
    <3>3. QED
      BY <2>3, <3>1, <3>2 DEF Backing, Needed, InForce, OthersStay, Staged, Committed
  <2>13. QED
    BY <1>1, <1>2, <2>3, <2>5, <2>9, <2>10, <2>11, <2>12, CallMoves
<1>7. CASE ~InForce(c)
  <2>1. calls' = [calls EXCEPT ![c] = Done] /\ UNCHANGED <<staged, queue>>
    BY <1>7 DEF Rollback
  <2>2. ~Staged(c)
    BY <1>7 DEF Tokens, TokenOf, InForce, Staged
  <2>3. OthersStay(c) /\ calls'[c] = Done
    BY <2>1, BlankCalls, CallTurns
  <2>4. staged' = [staged EXCEPT ![o] = NoCall]
    BY <1>3, <2>1, <2>2, OneUnderWay DEF Staged, Typed
  <2>5. Leaves(c)
    BY <1>1, <2>3, <2>4, BlankCalls DEF Leaves
  <2>6. AddsPlain
    BY <2>1, SameQueue
  <2>7. ~Counts(c)
    BY <1>3, <2>2 DEF Counts
  <2>8. QED
    BY <1>1, <1>2, <1>4, <2>1, <2>3, <2>5, <2>6, <2>7, BlankCalls, GivesUp
<1>8. QED
  BY <1>5, <1>6, <1>7, CallTyped DEF CallTypes

-----------------------------------------------------------------------------
(* The catalog, the user and the agents                                    *)

LEMMA NoCatalogIsNone == NoCatalog \notin Catalogs
<1> SUFFICES ASSUME NoCatalog \in Catalogs PROVE FALSE
  OBVIOUS
<1>1. NoCatalog \in [offered: SUBSET (Ids \ Direct), base: SUBSET (Ids \ Direct)]
  BY CatalogsAssumption
<1>2. DOMAIN NoCatalog = {"offered", "base"} /\ "missing" \in DOMAIN NoCatalog
  BY <1>1 DEF NoCatalog
<1>3. QED
  BY <1>2

\* Something outside the reconciler changes, and a pass is owed for it.
LEMMA WorldMoves ==
    ASSUME IInv, UNCHANGED <<authority, epoch, sessions, passes, disposal>>, AddsPlain, Owed',
           catalog' \in Catalogs, off' \subseteq Ids, gone' \subseteq Owners, requested => requested',
           budget' \in [changes: Nat, toggles: Nat, faults: Nat],
           budget'.faults = budget.faults, budget'.toggles = 0 => budget.toggles = 0 /\ off' = off,
           \A k \in Len(queue) + 1..Len(queue') : queue'[k].kind = "release",
           \A o \in gone' \ gone : \E k \in 1..Len(queue') : queue'[k] = Job("release", o)
    PROVE  IInv'
<1> USE DEF IInv
<1>1. Kept /\ Len(queue) \in Nat /\ Len(queue') \in Nat /\ Len(queue) <= Len(queue')
  BY DEF AddsPlain, Kept, Typed
<1>2. Offered' = Offered /\ Disposed' = Disposed
  BY DEF Offered, Disposed
<1>3. Typed'
  BY <1>1 DEF Typed, sessions, passes, Kept
<1>4. Tokens'
  <2>1. \A k \in Calls : TokenOf(k)'
    BY <1>2 DEF Tokens, TokenOf, Staged, Committed, sessions
  <2>2. QED
    BY <1>2, <2>1 DEF Tokens, Unsettled, sessions
<1>5. DueStands
  BY DEF DueStands, Due, sessions
<1>6. Work'
  BY <1>5, WorkStands DEF passes
<1>7. Refusable'
  BY <1>1, <1>2, RefusableKept DEF sessions
<1>8. Balance'
  BY DEF Balance
<1>9. Backed'
  BY <1>2 DEF Backed, BackedBy, Backing, InForce, Needed, sessions, passes
<1>10. Ends'
  <2>1. \A k \in 1..Len(queue') : queue'[k].kind = "drain" => Disposed
    <3> SUFFICES ASSUME NEW k \in 1..Len(queue'), queue'[k].kind = "drain" PROVE Disposed
      OBVIOUS
    <3>1. k \in 1..Len(queue)
      BY <1>1
    <3>2. QED
      BY <1>1, <3>1 DEF Ends, Kept
  <2>2. QED
    BY <1>2, <2>1 DEF Ends, passes
<1>11. Departed'
  <2> SUFFICES ASSUME NEW o \in gone' PROVE committed'[o] = NoCall \/ \E k \in 1..Len(queue') : queue'[k] = Job("release", o)
    BY DEF Departed, Leaving
  <2>1. CASE o \in gone
    <3>1. \A k \in 1..Len(queue) : k \in 1..Len(queue') /\ queue'[k] = queue[k]
      BY <1>1 DEF Kept
    <3>2. QED
      BY <2>1, <3>1 DEF Departed, Leaving, sessions
  <2>2. QED
    BY <2>1
<1>12. QED
  BY <1>3, <1>4, <1>6, <1>7, <1>8, <1>9, <1>10, <1>11

LEMMA AgentGoneKeeps == ASSUME IInv, NEW o \in Owners, AgentGone(o) PROVE IInv'
<1> USE DEF IInv
<1>1. /\ gone' = gone \cup {o} /\ queue' = queue \o <<Job("release", o)>>
      /\ UNCHANGED <<authority, epoch, catalog, off, requested, sessions, passes, disposal, budget>>
  BY DEF AgentGone, Enqueue
<1>2. Job("release", o) \in Plain /\ Job("release", o) \in JobSet /\ Job("release", o).kind = "release"
  BY JobsAre
<1>3. AddsPlain /\ Len(queue') = Len(queue) + 1 /\ queue'[Len(queue) + 1] = Job("release", o) /\ Len(queue) \in Nat
  BY <1>1, <1>2, OneAdded DEF Typed
<1>4. Len(queue') # 0 /\ Len(queue) + 1 \in 1..Len(queue')
  BY <1>3
<1>5. Owed'
  BY <1>4 DEF Owed
<1>6. \A k \in Len(queue) + 1..Len(queue') : queue'[k].kind = "release"
  BY <1>2, <1>3
<1>7. \A p \in gone' \ gone : \E k \in 1..Len(queue') : queue'[k] = Job("release", p)
  BY <1>1, <1>3, <1>4
<1>8. QED
  BY <1>1, <1>3, <1>5, <1>6, <1>7, WorldMoves DEF Typed

LEMMA CatalogChangesKeeps == ASSUME IInv, CatalogChanges PROVE IInv'
<1> USE DEF IInv
<1>1. AddsPlain /\ Len(queue') = Len(queue) /\ Len(queue) \in Nat
  BY SameQueue DEF CatalogChanges, Typed
<1>2. requested' /\ Owed' /\ catalog' \in Catalogs
  BY DEF CatalogChanges, Owed
<1>3. budget' \in [changes: Nat, toggles: Nat, faults: Nat] /\ budget'.faults = budget.faults /\ budget'.toggles = budget.toggles
  BY DEF CatalogChanges, Typed
<1>4. UNCHANGED <<authority, epoch, sessions, passes, disposal, off, gone>>
  BY DEF CatalogChanges
<1>5. QED
  BY <1>1, <1>2, <1>3, <1>4, WorldMoves DEF Typed

LEMMA ToggleKeeps == ASSUME IInv, NEW i \in Ids, Toggle(i) PROVE IInv'
<1> USE DEF IInv
<1>1. AddsPlain /\ Len(queue') = Len(queue) /\ Len(queue) \in Nat
  BY SameQueue DEF Toggle, Typed
<1>2. requested' /\ Owed' /\ off' \subseteq Ids
  BY DEF Toggle, Owed, Typed
<1>3. budget' \in [changes: Nat, toggles: Nat, faults: Nat] /\ budget'.faults = budget.faults /\ budget'.toggles # 0
  BY DEF Toggle, Typed
<1>4. UNCHANGED <<authority, epoch, sessions, passes, disposal, catalog, gone>>
  BY DEF Toggle
<1>5. QED
  BY <1>1, <1>2, <1>3, <1>4, WorldMoves DEF Typed

LEMMA RefreshCatalogKeeps == ASSUME IInv, RefreshCatalog PROVE IInv'
<1> USE DEF IInv
<1>1. /\ authority' = catalog /\ epoch' = (IF authority = catalog THEN epoch ELSE epoch + 1)
      /\ queue' = queue \o <<Job("refresh", NoCall)>> /\ UNCHANGED <<world, sessions, passes, disposal, budget>>
      /\ requested' = FALSE
  BY DEF RefreshCatalog, Publish, Enqueue
<1>2. /\ Job("refresh", NoCall) \in Plain /\ Job("refresh", NoCall) \in JobSet
      /\ Job("refresh", NoCall).kind = "refresh"
  BY JobsAre
<1>3. AddsPlain /\ Kept /\ Len(queue') = Len(queue) + 1 /\ queue'[Len(queue) + 1] = Job("refresh", NoCall) /\ Len(queue) \in Nat
  BY <1>1, <1>2, OneAdded DEF Typed, AddsPlain
<1>4. catalog \in Catalogs /\ epoch \in Nat /\ epoch' \in Nat
      /\ (epoch' = epoch => UNCHANGED <<authority, epoch>>) /\ epoch <= epoch' /\ epoch' <= epoch + 1
  BY <1>1 DEF Typed
<1>5. Typed'
  BY <1>1, <1>3, <1>4 DEF Typed, sessions, passes, world, Kept
<1>6. Tokens'
  <2>1. ASSUME NEW k \in Calls PROVE TokenOf(k)'
    <3>1. TokenOf(k) /\ calls'[k] = calls[k] /\ calls[k].epoch \in Nat /\ Staged(k)' = Staged(k) /\ Committed(k)' = Committed(k)
      BY <1>1, CallTyped DEF Tokens, sessions, Staged, Committed
    <3>2. calls[k].epoch <= epoch => calls[k].epoch <= epoch' /\ (calls[k].epoch = epoch' => calls[k].epoch = epoch /\ Offered' = Offered)
      BY <1>4, <3>1 DEF Offered
    <3>3. QED
      BY <3>1, <3>2 DEF TokenOf
  <2>2. QED
    BY <1>1, <2>1 DEF Tokens, Unsettled, sessions, Disposed
<1>7. DueStands
  BY <1>1 DEF DueStands, Due, sessions
<1>8. Work'
  BY <1>1, <1>3, <1>7, WorkStands DEF passes
<1>9. Refusable'
  <2> SUFFICES ASSUME NEW k \in 1..Len(queue'), Refused(k)' PROVE \E l \in k + 1..Len(queue') : queue'[l].kind = "refresh"
    BY DEF Refusable
  <2>1. k # Len(queue) + 1
    BY <1>2, <1>3 DEF Refused
  <2>2. Len(queue) + 1 \in k + 1..Len(queue')
    BY <1>3, <2>1
  <2>3. QED
    BY <1>2, <1>3, <2>2
<1>10. Balance'
  <2>1. Len(queue') # 0
    BY <1>3
  <2>2. QED
    BY <2>1 DEF Balance, Owed
<1>11. Backed'
  <2>1. CASE epoch' = epoch
    <3>1. Offered' = Offered
      BY <1>4, <2>1 DEF Offered
    <3>2. QED
      BY <1>1, <2>1, <3>1 DEF Backed, BackedBy, Backing, InForce, Needed, sessions, passes, Disposed
  <2>2. CASE epoch' = epoch + 1
    <3>1. running.epoch \in Nat /\ passEpoch \in Nat /\ (~Disposed => passEpoch <= epoch /\ running.epoch <= epoch)
      BY DEF Typed, Running, Idle, Backed
    <3>2. ~Disposed => passEpoch # epoch' /\ running.epoch # epoch' /\ passEpoch <= epoch' /\ running.epoch <= epoch'
      BY <1>4, <2>2, <3>1
    <3>3. QED
      BY <1>1, <3>2 DEF Backed, passes, Disposed
  <2>3. QED
    BY <1>1, <2>1, <2>2
<1>12. Ends'
  <2>1. authority' # NoCatalog
    BY <1>1, <1>4, NoCatalogIsNone
  <2>2. \A k \in 1..Len(queue') : queue'[k].kind = "drain" => Disposed
    <3> SUFFICES ASSUME NEW k \in 1..Len(queue'), queue'[k].kind = "drain" PROVE Disposed
      OBVIOUS
    <3>1. k # Len(queue) + 1
      BY <1>2, <1>3
    <3>2. k \in 1..Len(queue)
      BY <1>3, <3>1
    <3>3. QED
      BY <1>3, <3>2 DEF Ends, Kept
  <2>3. QED
    BY <1>1, <2>1, <2>2 DEF Ends, passes, world, Disposed
<1>13. Departed'
  BY <1>1, <1>3, DepartedStands DEF sessions, world
<1>14. QED
  BY <1>5, <1>6, <1>8, <1>9, <1>10, <1>11, <1>12, <1>13

-----------------------------------------------------------------------------
(* Passes                                                                  *)

\* The calls keep what they are and ask for; tokens are revoked at most.
SameCalls ==
    /\ calls' \in [Calls -> CallTypes]
    /\ \A k \in Calls : /\ calls'[k].pc = calls[k].pc /\ calls'[k].ids = calls[k].ids
                        /\ calls'[k].ready = calls[k].ready /\ calls'[k].epoch = calls[k].epoch
                        /\ calls'[k].covered = calls[k].covered
Revoked ==
    /\ SameCalls
    /\ staged' \in [Owners -> Calls \cup {NoCall}] /\ committed' \in [Owners -> Calls \cup {NoCall}]
    /\ \A o \in Owners : staged'[o] \in {staged[o], NoCall} /\ committed'[o] \in {committed[o], NoCall}
    /\ \A k \in Calls : calls'[k].active <=> Staged(k)'

LEMMA TokensRevoked ==
    ASSUME Typed, Tokens, Revoked, UNCHANGED <<authority, epoch>>,
           Disposed' => \A o \in Owners : staged'[o] = NoCall /\ committed'[o] = NoCall
    PROVE  /\ Tokens'
           /\ \A k \in Calls : (Staged(k)' => Staged(k)) /\ (Committed(k)' => Committed(k))
           /\ \A k \in Calls : Backing(k)' => Backing(k) /\ Needed(k)' = Needed(k)
<1>1. \A k \in Calls : (Staged(k)' => Staged(k)) /\ (Committed(k)' => Committed(k))
  BY CallTyped DEF Revoked, Staged, Committed
<1>2. ASSUME NEW k \in Calls PROVE TokenOf(k)'
  BY <1>1 DEF Tokens, TokenOf, Revoked, SameCalls, Offered
<1>3. \A k, l \in Calls : OwnerOf[k] = OwnerOf[l] /\ Unsettled(k)' /\ Unsettled(l)' => k = l
  BY DEF Tokens, Unsettled, Revoked, SameCalls
<1>4. \A o \in Owners : \A c \in {staged'[o], committed'[o]} : c # NoCall => OwnerOf[c] = o
  BY DEF Tokens, Revoked
<1>5. \A k \in Calls : Backing(k)' => Backing(k) /\ Needed(k)' = Needed(k)
  <2> SUFFICES ASSUME NEW k \in Calls, Backing(k)' PROVE Backing(k) /\ Needed(k)' = Needed(k)
    OBVIOUS
  <2>1. Needed(k)' = Needed(k) /\ calls'[k].pc = calls[k].pc
    BY DEF Needed, Revoked, SameCalls
  <2>2. CASE Committed(k)'
    BY <1>1, <2>1, <2>2 DEF Backing, Committed
  <2>3. CASE calls'[k].pc = "held" /\ InForce(k)'
    <3>1. Staged(k)
      BY <1>1, <2>3 DEF InForce, Staged
    <3>2. QED
      BY <2>1, <2>3, <3>1 DEF Backing, InForce, Staged, Tokens, TokenOf
  <2>4. QED
    BY <2>2, <2>3 DEF Backing, Committed
<1>6. QED
  BY <1>1, <1>2, <1>3, <1>4, <1>5 DEF Tokens

\* The head of the queue leaves; it was not a release that was still owed.
LEMMA DepartedPops ==
    ASSUME Typed, Departed, Pops, gone' = gone,
           \A o \in gone : committed[o] = NoCall \/ queue[1] = Job("release", o) => committed'[o] = NoCall
    PROVE  Departed'
<1> SUFFICES ASSUME NEW o \in gone, committed'[o] # NoCall PROVE \E l \in 1..Len(queue') : queue'[l] = Job("release", o)
  BY DEF Departed, Leaving
<1>1. Len(queue) \in Nat /\ Len(queue') \in Nat
  BY DEF Typed, Pops
<1>2. PICK k \in 1..Len(queue) : queue[k] = Job("release", o)
  BY DEF Departed, Leaving
<1>3. k # 1
  BY <1>2
<1>4. k - 1 \in 1..Len(queue') /\ queue'[k - 1] = queue[(k - 1) + 1] /\ (k - 1) + 1 = k
  BY <1>1, <1>2, <1>3 DEF Pops
<1>5. QED
  BY <1>2, <1>4

LEMMA EndsPops ==
    ASSUME Typed, Ends, Pops
    PROVE  \A k \in 1..Len(queue') : queue'[k].kind = "drain" => Disposed
<1> SUFFICES ASSUME NEW k \in 1..Len(queue'), queue'[k].kind = "drain" PROVE Disposed
  OBVIOUS
<1>1. Len(queue) \in Nat /\ Len(queue') \in Nat
  BY DEF Typed, Pops
<1>2. k + 1 \in 1..Len(queue) /\ queue'[k] = queue[k + 1]
  BY <1>1 DEF Pops
<1>3. QED
  BY <1>2 DEF Ends

LEMMA PassStartKeeps == ASSUME IInv, PassStart PROVE IInv'
<1> USE DEF IInv
<1> DEFINE job == Head(queue)
           c == job.who
<1>1. queue # <<>> /\ running = Idle /\ job.kind # "drain" /\ queue' = Tail(queue)
      /\ UNCHANGED <<authority, epoch, world, requested, mounted, failed, passEpoch, disposal, budget>>
      /\ running' = [job |-> job, epoch |-> epoch, plan |-> Wanted', live |-> ~Disposed]
  BY DEF PassStart, Pass
<1>2. Pops /\ job = queue[1] /\ job \in JobSet /\ 1 \in 1..Len(queue)
  BY <1>1, TailPops DEF Pops, Typed
<1>3. Wanted' \subseteq Ids /\ epoch \in Nat
  <2>1. authority \in Catalogs \cup {NoCatalog} /\ authority' = authority
    BY <1>1 DEF Typed
  <2>2. Offered' \subseteq Ids /\ BaseOf(authority') \subseteq Ids
    BY <2>1, IdsAre DEF Offered
  <2>3. QED
    BY <2>2 DEF Wanted, Typed
<1>4. running' \in Running /\ running' # Idle /\ running'.job = job
  BY <1>1, <1>2, <1>3, JobFacts DEF Running, Idle, Disposed
<1>5. Revoked /\ (job.kind # "release" => UNCHANGED <<staged, committed>>)
      /\ (job.kind = "release" => committed'[c] = NoCall)
  <2>1. CASE job.kind = "release"
    <3>1. /\ calls' = [k \in Calls |-> [calls[k] EXCEPT !.active = @ /\ staged[c] # k]]
          /\ staged' = [staged EXCEPT ![c] = NoCall] /\ committed' = [committed EXCEPT ![c] = NoCall]
      BY <2>1 DEF PassStart
    <3>2. c \in Owners
      BY <1>2, <2>1, JobFacts
    <3>3. /\ staged' \in [Owners -> Calls \cup {NoCall}] /\ committed' \in [Owners -> Calls \cup {NoCall}]
          /\ staged'[c] = NoCall /\ committed'[c] = NoCall
          /\ \A o \in Owners \ {c} : staged'[o] = staged[o] /\ committed'[o] = committed[o]
      BY <3>1, <3>2 DEF Typed
    <3>4. ASSUME NEW k \in Calls
          PROVE  /\ calls'[k] \in CallTypes /\ calls'[k].active = (calls[k].active /\ staged[c] # k)
                 /\ calls'[k].pc = calls[k].pc /\ calls'[k].ids = calls[k].ids /\ calls'[k].ready = calls[k].ready
                 /\ calls'[k].epoch = calls[k].epoch /\ calls'[k].covered = calls[k].covered
      <4>1. calls[k] \in CallTypes /\ calls'[k] = [calls[k] EXCEPT !.active = calls[k].active /\ staged[c] # k]
        BY <3>1, CallTyped
      <4>2. QED
        BY <4>1 DEF CallTypes
    <3>5. SameCalls
      BY <3>1, <3>4 DEF SameCalls
    <3>6. ASSUME NEW k \in Calls PROVE calls'[k].active <=> Staged(k)'
      <4>1. k # NoCall /\ OwnerOf[k] \in Owners /\ (calls[k].active <=> Staged(k)) /\ (staged[c] = k => OwnerOf[k] = c)
        BY <3>2, CallTyped DEF Tokens, TokenOf
      <4>2. QED
        BY <3>3, <3>4, <4>1 DEF Staged
    <3>7. QED
      BY <2>1, <3>3, <3>5, <3>6 DEF Revoked
  <2>2. CASE job.kind # "release"
    <3>1. UNCHANGED <<staged, committed>> /\ calls' = (IF job.kind = "activate" THEN [calls EXCEPT ![c].mounts = TRUE] ELSE calls)
      BY <2>2 DEF PassStart
    <3>2. ASSUME NEW k \in Calls
          PROVE  /\ calls'[k] \in CallTypes /\ calls'[k].active = calls[k].active
                 /\ calls'[k].pc = calls[k].pc /\ calls'[k].ids = calls[k].ids /\ calls'[k].ready = calls[k].ready
                 /\ calls'[k].epoch = calls[k].epoch /\ calls'[k].covered = calls[k].covered
      <4>1. calls[k] \in CallTypes /\ (calls'[k] = calls[k] \/ calls'[k] = [calls[k] EXCEPT !.mounts = TRUE])
        BY <3>1, CallTyped DEF Typed
      <4>2. QED
        BY <4>1 DEF CallTypes
    <3>3. calls' \in [Calls -> CallTypes]
      <4>1. DOMAIN calls' = Calls /\ calls' = [k \in Calls |-> calls'[k]]
        BY <3>1 DEF Typed
      <4>2. QED
        BY <3>2, <4>1
    <3>4. \A k \in Calls : calls'[k].active <=> Staged(k)'
      BY <3>1, <3>2 DEF Tokens, TokenOf, Staged
    <3>5. QED
      BY <2>2, <3>1, <3>2, <3>3, <3>4 DEF Revoked, SameCalls, Typed
  <2>3. QED
    BY <2>1, <2>2
<1>6. Typed'
  BY <1>1, <1>2, <1>4, <1>5 DEF Typed, world, Revoked, SameCalls, Pops
<1>7. Disposed' = Disposed /\ Offered' = Offered
  BY <1>1 DEF Disposed, Offered
<1>8. Disposed' => \A o \in Owners : staged'[o] = NoCall /\ committed'[o] = NoCall
  BY <1>5, <1>7 DEF Tokens, Revoked
<1>9. /\ Tokens' /\ \A k \in Calls : Backing(k)' => Backing(k) /\ Needed(k)' = Needed(k)
  BY <1>1, <1>5, <1>8, TokensRevoked
<1>10. Work'
  <2>1. DueStands
    BY <1>5 DEF DueStands, Due, Revoked, SameCalls
  <2>2. QED
    BY <1>1, <1>2, <1>4, <2>1, WorkPops
<1>11. Refusable'
  <2>1. \A k \in 2..Len(queue) : queue[k].kind = "activate" => calls'[queue[k].who].ids = calls[queue[k].who].ids
    <3> SUFFICES ASSUME NEW k \in 2..Len(queue), queue[k].kind = "activate" PROVE calls'[queue[k].who].ids = calls[queue[k].who].ids
      OBVIOUS
    <3>1. k \in 1..Len(queue)
      BY <1>2
    <3>2. QED
      BY <1>5, <3>1, ActivationsWait DEF Revoked, SameCalls
  <2>2. QED
    BY <1>1, <1>2, <2>1, RefusablePops
<1>12. Balance'
  <2>1. running'.plan = Wanted'
    BY <1>1
  <2>2. QED
    BY <1>4, <2>1 DEF Balance, Fits
<1>13. Backed'
  <2> SUFFICES ASSUME ~Disposed PROVE Backed'
    BY <1>7 DEF Backed
  <2>1. running'.epoch = epoch /\ running'.plan = Wanted' /\ passEpoch' = passEpoch /\ epoch' = epoch
    BY <1>1
  <2>2. ASSUME NEW k \in Calls, Backing(k)'
        PROVE  BackedBy(k, running.plan)' /\ (passEpoch' = epoch' => BackedBy(k, mounted \cup failed)')
    <3>1. Counts(k)'
      BY <1>9, <2>2 DEF Counts, Backing, InForce, Staged, Committed, Tokens, TokenOf
    <3>2. \A i \in calls'[k].ids : i \in Demand'
      BY <1>6, <1>9, <3>1, DemandWillBe
    <3>3. BackedBy(k, running.plan)'
      BY <2>1, <3>2 DEF BackedBy, Needed, Wanted
    <3>4. passEpoch' = epoch' => BackedBy(k, mounted \cup failed)'
      BY <1>1, <1>7, <1>9, <2>1, <2>2 DEF Backed, BackedBy
    <3>5. QED
      BY <3>3, <3>4
  <2>3. running'.epoch <= epoch' /\ passEpoch' <= epoch'
    BY <1>3, <2>1 DEF Backed
  <2>4. QED
    BY <2>2, <2>3 DEF Backed
<1>14. Ends'
  <2>1. running'.live = ~Disposed
    BY <1>1
  <2>2. QED
    BY <1>1, <1>2, <1>7, <2>1, EndsPops DEF Ends, world, Disposed
<1>15. Departed'
  <2>1. ASSUME NEW o \in gone, committed[o] = NoCall \/ queue[1] = Job("release", o) PROVE committed'[o] = NoCall
    <3>1. o \in Owners
      BY DEF Typed
    <3>2. CASE committed[o] = NoCall
      BY <1>5, <3>1, <3>2 DEF Revoked
    <3>3. CASE queue[1] = Job("release", o)
      BY <1>2, <1>5, <3>3, JobsAre
    <3>4. QED
      BY <2>1, <3>2, <3>3
  <2>2. QED
    BY <1>1, <1>2, <2>1, DepartedPops DEF world
<1>16. QED
  BY <1>6, <1>9, <1>10, <1>11, <1>12, <1>13, <1>14, <1>15

LEMMA ActivationRefusedKeeps == ASSUME IInv, ActivationRefused, NEW c, c = Head(queue).who PROVE IInv'
<1> USE DEF IInv
<1>1. /\ queue # <<>> /\ running = Idle /\ Head(queue).kind = "activate" /\ ~(calls[c].ids \subseteq Offered)
      /\ Withdraw(c, FALSE, Tail(queue))
      /\ UNCHANGED <<authority, epoch, world, requested, committed, passes, disposal, budget>>
  BY DEF ActivationRefused
<1>2. Tail(queue) \in Seq(JobSet) /\ Head(queue) = queue[1] /\ Len(queue) >= 1 /\ Len(queue) \in Nat
  BY <1>1 DEF Typed
<1>3. 1 \in 1..Len(queue) /\ queue[1].kind = "activate"
  BY <1>1, <1>2
<1>4. c \in Calls /\ calls[c].pc = "activating" /\ queue[1] = Job("activate", c) /\ queue[1] \in Due(c)
  BY <1>1, <1>2, <1>3, ActivationsWait
<1>5. OthersStay(c) /\ calls'[c] = Done /\ queue' = Tail(queue) /\ staged' = [staged EXCEPT ![OwnerOf[c]] = NoCall]
  BY <1>1, <1>2, <1>4, WithdrawsQuietly
<1>6. Pops
  BY <1>1, <1>5, TailPops
<1>7. Leaves(c) /\ Unsettled(c)
  BY <1>1, <1>4, <1>5, BlankCalls DEF Leaves, Unsettled
<1>8. Tokens' /\ staged' \in [Owners -> Calls \cup {NoCall}]
  BY <1>1, <1>4, <1>5, <1>7, TokensLeave DEF Seeded
<1>9. Typed'
  BY <1>1, <1>5, <1>6, <1>8 DEF Typed, world, passes, OthersStay, Pops
<1>10. Work'
  <2>1. queue[1] \in Private(c) /\ Due(c)' = {} /\ DueOthers(c)
    BY <1>4, <1>5, BlankCalls DEF Private, Due, DueOthers, OthersStay
  <2>2. QED
    BY <1>1, <1>4, <1>6, <2>1, WorkDrops DEF passes
<1>11. Refusable'
  <2>1. ASSUME NEW k \in 2..Len(queue), queue[k].kind = "activate" PROVE calls'[queue[k].who].ids = calls[queue[k].who].ids
    <3>1. k \in 1..Len(queue) /\ k # 1
      BY <1>2
    <3>2. queue[k].who \in Calls /\ queue[k] = Job("activate", queue[k].who)
      BY <2>1, <3>1, ActivationsWait
    <3>3. queue[k].who # c
      <4>1. queue[k].who = c => queue[k] = queue[1]
        BY <1>4, <3>2
      <4>2. queue[1] \notin Plain
        BY <1>4, JobsAre DEF Private
      <4>3. QED
        BY <1>3, <3>1, <4>1, <4>2 DEF Work
    <3>4. QED
      BY <1>5, <3>2, <3>3 DEF OthersStay
  <2>2. QED
    BY <1>1, <1>6, <2>1, RefusablePops
<1>12. Balance'
  <2>1. Refused(1)
    BY <1>1, <1>2, <1>3 DEF Refused
  <2>2. \E l \in 1 + 1..Len(queue) : queue[l].kind = "refresh"
    BY <1>3, <2>1 DEF Refusable
  <2>3. Len(queue) >= 2
    BY <1>2, <2>2
  <2>4. Len(queue') # 0
    BY <1>2, <1>6, <2>3 DEF Pops
  <2>5. QED
    BY <2>4 DEF Balance, Owed
<1>13. Backed'
  <2>1. ~Backing(c)'
    <3>1. ~Committed(c)
      BY <1>4, <1>7, OneUnderWay
    <3>2. QED
      BY <1>1, <1>5, <3>1, BlankCalls DEF Backing, Committed
  <2>2. \A k \in Calls \ {c} : (Staged(k)' <=> Staged(k)) /\ (Committed(k)' <=> Committed(k))
    BY <1>4, <1>7, LeavesOthers
  <2>3. \A k \in Calls : Backing(k)' => Backing(k) /\ Needed(k)' = Needed(k)
    BY <1>5, <2>1, <2>2 DEF Backing, Needed, InForce, OthersStay, Staged, Committed
  <2>4. QED
    BY <1>1, <2>3, BackedStands DEF Seeded
<1>14. Ends'
  BY <1>1, <1>6, EndsPops DEF Ends, world, passes, Disposed
<1>15. Departed'
  <2>1. \A o \in gone : queue[1] # Job("release", o)
    BY <1>3, JobsAre
  <2>2. QED
    BY <1>1, <1>6, <2>1, DepartedPops DEF world
<1>16. QED
  BY <1>8, <1>9, <1>10, <1>11, <1>12, <1>13, <1>14, <1>15

\* What the adapters leave: all they were asked for is mounted or failed, and
\* nothing else is left unless one of them failed.
LEMMA PassLands ==
    ASSUME IInv, PassEnd
    PROVE  /\ mounted' \subseteq Ids /\ failed' \cap mounted' = {}
           /\ budget' \in [changes: Nat, toggles: Nat, faults: Nat]
           /\ budget'.toggles = budget.toggles /\ (budget'.faults = 0 => budget.faults = 0)
           /\ passEpoch' \in Nat
           /\ ~running.live => mounted' = mounted
           /\ running.live => /\ running.plan \subseteq mounted' \cup failed'
                              /\ running.plan \cap mounted \subseteq mounted'
                              /\ budget'.faults = 0 => mounted' = running.plan
                              /\ passEpoch' = running.epoch
<1> USE DEF IInv
<1>1. PICK broken \in SUBSET Ids :
       /\ budget' = [budget EXCEPT !.faults = @ + Cardinality(broken)]
       /\ mounted' = IF running.live THEN Landed(running.plan, broken) ELSE mounted
       /\ failed' = IF running.live THEN running.plan \ mounted' ELSE failed
       /\ passEpoch' = IF running.live THEN running.epoch ELSE passEpoch
  BY DEF PassEnd
<1>2. Cardinality(broken) \in Nat /\ (Cardinality(broken) = 0 => broken = {})
  <2>1. IsFiniteSet(broken)
    BY DirectAssumption, FS_Subset
  <2>2. QED
    BY <2>1, FS_CardinalityType, FS_EmptySet
<1>3. running.epoch \in Nat /\ passEpoch \in Nat /\ mounted \subseteq Ids /\ running.plan \subseteq Ids
  BY DEF Typed, Running, Idle
<1>4. /\ budget' \in [changes: Nat, toggles: Nat, faults: Nat] /\ budget'.toggles = budget.toggles
      /\ (budget'.faults = 0 => budget.faults = 0 /\ broken = {})
  BY <1>1, <1>2 DEF Typed
<1>5. CASE running.live
  BY <1>1, <1>3, <1>4, <1>5 DEF Landed
<1>6. CASE ~running.live
  BY <1>1, <1>3, <1>4, <1>6 DEF Ends
<1>7. QED
  BY <1>5, <1>6

\* What every end of a pass does, whatever its job; "k" is the call that the
\* end concerns, if there is one.
LEMMA PassEnds ==
    ASSUME IInv, PassEnd, Kept, Tokens', Work', calls' \in [Calls -> CallTypes],
           staged' \in [Owners -> Calls \cup {NoCall}],
           \A k \in Calls : calls[k].pc = "activating" /\ running.job # Job("activate", k) => calls'[k].ids = calls[k].ids,
           \A k \in Len(queue) + 1..Len(queue') : queue'[k].kind \in {"pass", "cleanup"},
           \A k \in Calls : Backing(k)' => \/ Backing(k) /\ Needed(k)' = Needed(k)
                                           \/ ~Disposed => Needed(k)' \subseteq mounted',
           Typed' => Owed' \/ Wanted' = Wanted
    PROVE  IInv'
<1> USE DEF IInv
<1>1. running # Idle /\ running' = Idle /\ UNCHANGED <<authority, epoch, world, requested, committed, disposal>>
  BY DEF PassEnd
<1>2. Offered' = Offered /\ Disposed' = Disposed
  BY <1>1 DEF Offered, Disposed
<1>3. Typed'
  BY <1>1, PassLands DEF Typed, world, Running, Kept
<1>4. Refusable'
  <2>1. ASSUME NEW k \in 1..Len(queue), queue[k].kind = "activate" PROVE calls'[queue[k].who].ids = calls[queue[k].who].ids
    <3>1. queue[k].who \in Calls /\ queue[k] = Job("activate", queue[k].who) /\ calls[queue[k].who].pc = "activating"
      BY <2>1, ActivationsWait
    <3>2. running.job # queue[k]
      <4>1. queue[k] \notin Plain
        BY <3>1, JobsAre DEF Private
      <4>2. QED
        BY <4>1 DEF Work
    <3>3. QED
      BY <3>1, <3>2
  <2>2. QED
    BY <1>2, <2>1, RefusableKept
<1>5. Len(queue) \in Nat /\ Len(queue') \in Nat /\ Len(queue) <= Len(queue')
  BY DEF Typed, Kept
<1>6. ~Disposed => running.live
  BY <1>1 DEF Ends
<1>7. Balance'
  <2> SUFFICES ASSUME ~Disposed, ~Owed' PROVE Fits(mounted, mounted \cup failed)'
    BY <1>1, <1>2 DEF Balance
  <2>1. Wanted' = Wanted
    BY <1>3
  <2>2. ~Owed
    <3>1. Len(queue') = 0 /\ ~requested'
      BY DEF Owed
    <3>2. Len(queue) = 0
      BY <1>5, <3>1
    <3>3. queue = <<>>
      BY <3>2 DEF Typed
    <3>4. QED
      BY <1>1, <3>1, <3>3 DEF Owed
  <2>3. Fits(running.plan, running.plan)
    BY <1>1, <2>2 DEF Balance
  <2>4. QED
    BY <1>6, <2>1, <2>3, PassLands DEF Fits
<1>8. Backed'
  <2> SUFFICES ASSUME ~Disposed PROVE Backed'
    BY <1>2 DEF Backed
  <2>1. passEpoch' = running.epoch /\ running.epoch <= epoch /\ epoch' = epoch /\ epoch \in Nat
    BY <1>1, <1>6, PassLands DEF Backed, Typed
  <2>2. running'.epoch = 0 /\ ~running'.live
    BY <1>1 DEF Idle
  <2>3. ASSUME NEW k \in Calls, Backing(k)', passEpoch' = epoch' PROVE BackedBy(k, mounted \cup failed)'
    <3>1. CASE Backing(k) /\ Needed(k)' = Needed(k)
      <4>1. BackedBy(k, running.plan)
        BY <1>6, <2>1, <2>3, <3>1 DEF Backed
      <4>2. QED
        BY <1>2, <1>6, <3>1, <4>1, PassLands DEF BackedBy
    <3>2. CASE Needed(k)' \subseteq mounted'
      BY <3>2 DEF BackedBy
    <3>3. QED
      BY <2>3, <3>1, <3>2
  <2>4. QED
    BY <2>1, <2>2, <2>3 DEF Backed
<1>9. Ends'
  <2>1. \A k \in 1..Len(queue') : queue'[k].kind = "drain" => Disposed
    <3> SUFFICES ASSUME NEW k \in 1..Len(queue'), queue'[k].kind = "drain" PROVE Disposed
      OBVIOUS
    <3>1. k \in 1..Len(queue)
      BY <1>5
    <3>2. QED
      BY <3>1 DEF Ends, Kept
  <2>2. ~running'.live /\ running' = Idle
    BY <1>1 DEF Idle
  <2>3. disposal' = "drained" /\ budget'.faults = 0 => mounted' = {}
    BY <1>1, PassLands DEF Ends
  <2>4. QED
    BY <1>1, <1>2, <2>1, <2>2, <2>3, PassLands DEF Ends, world
<1>10. Departed'
  BY <1>1, DepartedStands DEF world
<1>11. QED
  BY <1>3, <1>4, <1>7, <1>8, <1>9, <1>10

\* The queue after a pass, before a failed activation adds its cleanup.
Rest(rest) == rest = queue \/ rest = Append(queue, Job("pass", NoCall))

LEMMA RestAdds ==
    ASSUME Typed, NEW rest, Rest(rest), queue' = rest
    PROVE  AddsPlain /\ Kept /\ \A k \in Len(queue) + 1..Len(queue') : queue'[k].kind = "pass"
<1>1. Job("pass", NoCall) \in Plain /\ Job("pass", NoCall) \in JobSet /\ Job("pass", NoCall).kind = "pass"
  BY JobsAre
<1>2. Len(queue) \in Nat
  BY DEF Typed
<1>3. CASE rest = queue
  BY <1>2, <1>3, SameQueue DEF AddsPlain
<1>4. CASE rest = Append(queue, Job("pass", NoCall))
  <2>1. AddsPlain /\ Len(queue') = Len(queue) + 1 /\ queue'[Len(queue) + 1] = Job("pass", NoCall)
    BY <1>1, <1>4, OneAdded
  <2>2. QED
    BY <1>1, <1>2, <2>1 DEF AddsPlain
<1>5. QED
  BY <1>3, <1>4 DEF Rest

LEMMA FailedActivation ==
    ASSUME IInv, PassEnd, NEW c \in Calls, running.job = Job("activate", c), NEW rest, Rest(rest), Withdraw(c, TRUE, rest)
    PROVE  IInv'
<1> USE DEF IInv
<1> DEFINE r == [NewCall EXCEPT !.pc = "cleaning"]
           j == Job("cleanup", c)
<1>1. calls' = [calls EXCEPT ![c] = r] /\ staged' = [staged EXCEPT ![OwnerOf[c]] = NoCall] /\ queue' = rest \o <<j>>
  BY DEF Withdraw
<1>2. r \in CallTypes /\ r.pc = "cleaning" /\ ~r.active /\ ~r.ready
  BY BlankCalls DEF CallTypes
<1> HIDE DEF r
<1>3. OthersStay(c) /\ calls'[c] = r
  BY <1>1, <1>2, CallTurns
<1>4. j \in JobSet /\ j \in Private(c) /\ Job("activate", c) \in JobSet /\ Job("activate", c) \in Private(c) /\ j.kind = "cleanup"
      /\ j # Job("activate", c)
  BY JobsAre, PrivateApart DEF Private
<1>5. calls[c].pc = "activating" /\ Due(c) = {Job("activate", c)}
  <2>1. Waits(Job("activate", c))
    BY DEF Waits
  <2>2. QED
    BY <1>4, <2>1, PrivateApart DEF Work, Due
<1>6. Unsettled(c)
  BY <1>5 DEF Unsettled
<1>7. running' = Idle /\ UNCHANGED <<authority, epoch, world, requested, committed, disposal>>
  BY DEF PassEnd
<1>8. Leaves(c)
  BY <1>1, <1>2, <1>3, <1>7 DEF Leaves
<1>9. Tokens' /\ staged' \in [Owners -> Calls \cup {NoCall}]
  BY <1>3, <1>6, <1>7, <1>8, TokensLeave DEF Seeded
<1>10. AddsLast(j) /\ \A k \in Len(queue) + 1..Len(queue') : queue'[k].kind \in {"pass", "cleanup"}
  <2>1. Len(queue) \in Nat /\ queue \in Seq(JobSet) /\ Job("pass", NoCall) \in Plain /\ Job("pass", NoCall) \in JobSet
        /\ Job("pass", NoCall).kind = "pass"
    BY JobsAre DEF Typed
  <2> HIDE DEF j
  <2>2. CASE rest = queue
    BY <1>1, <1>4, <2>1, <2>2, OneAdded
  <2>3. CASE rest = Append(queue, Job("pass", NoCall))
    <3>1. AddsLast(j)
      BY <1>1, <1>4, <2>1, <2>3, TwoAdded
    <3>2. /\ Len(queue') = Len(queue) + 2
          /\ queue'[Len(queue) + 1] = Job("pass", NoCall) /\ queue'[Len(queue) + 2] = j
      BY <1>1, <1>4, <2>1, <2>3
    <3>3. QED
      BY <1>4, <2>1, <3>1, <3>2
  <2>4. QED
    BY <2>2, <2>3 DEF Rest
<1>11. Kept /\ Owed'
  <2>1. Kept /\ Len(queue') # 0
    BY <1>10 DEF AddsLast, Typed
  <2>2. QED
    BY <2>1 DEF Owed
<1>12. Work'
  <2>1. DueOthers(c) /\ Due(c)' = {j}
    BY <1>2, <1>3 DEF DueOthers, Due, OthersStay
  <2>2. QED
    BY <1>4, <1>5, <1>7, <1>10, <2>1, WorkAdds
<1>13. \A k \in Calls : Backing(k)' => Backing(k) /\ Needed(k)' = Needed(k)
  <2>1. ~Backing(c)'
    BY <1>2, <1>3, <1>6, <1>7, OneUnderWay DEF Backing, Committed
  <2>2. \A k \in Calls \ {c} : (Staged(k)' <=> Staged(k)) /\ (Committed(k)' <=> Committed(k))
    BY <1>6, <1>8, LeavesOthers
  <2>3. QED
    BY <1>3, <2>1, <2>2 DEF Backing, Needed, InForce, OthersStay, Staged, Committed
<1>14. \A k \in Calls : calls[k].pc = "activating" /\ running.job # Job("activate", k) => calls'[k].ids = calls[k].ids
  BY <1>3 DEF OthersStay
<1>15. QED
  BY <1>3, <1>9, <1>10, <1>11, <1>12, <1>13, <1>14, PassEnds DEF OthersStay

LEMMA DoneActivation ==
    ASSUME IInv, PassEnd, NEW c \in Calls, running.job = Job("activate", c), NEW rest, Rest(rest), queue' = rest,
           ~Disposed, Needed(c) \subseteq mounted', calls' = [calls EXCEPT ![c].pc = "held"], UNCHANGED staged
    PROVE  IInv'
<1> USE DEF IInv
<1> DEFINE r == [calls[c] EXCEPT !.pc = "held"]
<1>1. calls[c] \in CallTypes
  BY CallTyped
<1>2. /\ r \in CallTypes /\ r.pc = "held" /\ r.active = calls[c].active /\ r.ready = calls[c].ready
      /\ r.ids = calls[c].ids /\ r.covered = calls[c].covered
  BY <1>1 DEF CallTypes
<1>3. calls' = [calls EXCEPT ![c] = r]
  BY DEF Typed
<1> HIDE DEF r
<1>4. OthersStay(c) /\ calls'[c] = r
  BY <1>2, <1>3, CallTurns
<1>5. Job("activate", c) \in Private(c) /\ Job("activate", c) \in JobSet
  BY JobsAre DEF Private
<1>6. calls[c].pc = "activating"
  <2>1. Waits(Job("activate", c))
    BY DEF Waits
  <2>2. QED
    BY <1>5, <2>1, PrivateApart DEF Work, Due
<1>7. Unsettled(c) /\ ~Committed(c) /\ calls[c].ready
  BY <1>6 DEF Unsettled, Tokens, TokenOf
<1>8. running' = Idle /\ UNCHANGED <<authority, epoch, world, requested, committed, disposal>>
  BY DEF PassEnd
<1>9. TokenOf(c)'
  BY <1>2, <1>4, <1>7, <1>8 DEF Tokens, TokenOf, Staged, Committed
<1>10. Tokens'
  BY <1>4, <1>7, <1>8, <1>9, TokensStay
<1>11. AddsPlain /\ Kept /\ \A k \in Len(queue) + 1..Len(queue') : queue'[k].kind = "pass"
  BY RestAdds
<1>12. Work'
  <2>1. DueOthers(c) /\ Due(c)' = {}
    BY <1>2, <1>4 DEF DueOthers, Due, OthersStay
  <2>2. QED
    BY <1>5, <1>8, <1>11, <2>1, WorkEnds
<1>13. \A k \in Calls : Backing(k)' => (Backing(k) /\ Needed(k)' = Needed(k)) \/ Needed(k)' \subseteq mounted'
  <2>1. Needed(c)' = Needed(c)
    BY <1>2, <1>4 DEF Needed
  <2>2. \A k \in Calls \ {c} : Backing(k)' => Backing(k) /\ Needed(k)' = Needed(k)
    BY <1>4, <1>8 DEF Backing, Needed, InForce, OthersStay, Committed
  <2>3. QED
    BY <2>1, <2>2
<1>14. Typed' => Wanted' = Wanted
  <2>1. \A k \in Calls : (Counts(k)' <=> Counts(k)) /\ calls'[k].ids = calls[k].ids
    BY <1>2, <1>4, <1>8 DEF Counts, Staged, Committed, OthersStay
  <2>2. QED
    BY <1>8, <1>10, <2>1, WantedStands DEF world
<1>15. staged' \in [Owners -> Calls \cup {NoCall}] /\ calls' \in [Calls -> CallTypes]
  BY <1>4 DEF Typed, OthersStay
<1>16. \A k \in Calls : calls'[k].ids = calls[k].ids
  BY <1>2, <1>4 DEF OthersStay
<1>17. QED
  BY <1>10, <1>11, <1>12, <1>13, <1>14, <1>15, <1>16, PassEnds

LEMMA DoneCleanup ==
    ASSUME IInv, PassEnd, NEW c \in Calls, running.job = Job("cleanup", c), NEW rest, Rest(rest), queue' = rest,
           calls' = [calls EXCEPT ![c] = Done], UNCHANGED staged
    PROVE  IInv'
<1> USE DEF IInv
<1>1. OthersStay(c) /\ calls'[c] = Done
  BY BlankCalls, CallTurns
<1>2. Job("cleanup", c) \in Private(c) /\ Job("cleanup", c) \in JobSet
  BY JobsAre DEF Private
<1>3. calls[c].pc = "cleaning"
  <2>1. Waits(Job("cleanup", c))
    BY DEF Waits
  <2>2. QED
    BY <1>2, <2>1, PrivateApart DEF Work, Due
<1>4. Unsettled(c) /\ ~Committed(c) /\ ~Staged(c)
  BY <1>3 DEF Unsettled, Tokens, TokenOf
<1>5. running' = Idle /\ UNCHANGED <<authority, epoch, world, requested, committed, disposal>>
  BY DEF PassEnd
<1>6. staged' = [staged EXCEPT ![OwnerOf[c]] = NoCall]
  BY <1>4, OneUnderWay DEF Staged, Typed
<1>7. Leaves(c)
  BY <1>1, <1>5, <1>6, BlankCalls DEF Leaves
<1>8. Tokens' /\ staged' \in [Owners -> Calls \cup {NoCall}]
  BY <1>1, <1>4, <1>5, <1>7, TokensLeave DEF Seeded
<1>9. AddsPlain /\ Kept /\ \A k \in Len(queue) + 1..Len(queue') : queue'[k].kind = "pass"
  BY RestAdds
<1>10. Work'
  <2>1. DueOthers(c) /\ Due(c)' = {}
    BY <1>1, BlankCalls DEF DueOthers, Due, OthersStay
  <2>2. QED
    BY <1>2, <1>5, <1>9, <2>1, WorkEnds
<1>11. ~Backing(c)' /\ ~Counts(c) /\ ~Counts(c)'
  BY <1>1, <1>4, <1>5, BlankCalls DEF Backing, Counts, Committed, Staged
<1>12. \A k \in Calls : Backing(k)' => Backing(k) /\ Needed(k)' = Needed(k)
  BY <1>1, <1>5, <1>11 DEF Backing, Needed, InForce, OthersStay, Committed
<1>13. Typed' => Wanted' = Wanted
  <2>1. \A k \in Calls : (Counts(k)' <=> Counts(k)) /\ (Counts(k) => calls'[k].ids = calls[k].ids)
    BY <1>1, <1>5, <1>11 DEF Counts, Staged, Committed, OthersStay
  <2>2. QED
    BY <1>5, <1>8, <2>1, WantedStands DEF world
<1>14. \A k \in Calls : calls[k].pc = "activating" => calls'[k].ids = calls[k].ids
  BY <1>1, <1>3 DEF OthersStay
<1>15. QED
  BY <1>1, <1>8, <1>9, <1>10, <1>12, <1>13, <1>14, PassEnds DEF OthersStay

LEMMA DonePlain ==
    ASSUME IInv, PassEnd, running.job \in Plain, NEW rest, Rest(rest), queue' = rest, UNCHANGED <<calls, staged>>
    PROVE  IInv'
<1> USE DEF IInv
<1>1. running' = Idle /\ UNCHANGED <<authority, epoch, world, requested, committed, disposal>>
  BY DEF PassEnd
<1>2. Tokens'
  <2>1. \A k \in Calls : TokenOf(k)'
    BY <1>1 DEF Tokens, TokenOf, Staged, Committed, Offered
  <2>2. QED
    BY <1>1, <2>1 DEF Tokens, Unsettled, Disposed
<1>3. AddsPlain /\ Kept /\ \A k \in Len(queue) + 1..Len(queue') : queue'[k].kind = "pass"
  BY RestAdds
<1>4. Work'
  <2>1. DueStands
    BY DEF DueStands, Due
  <2>2. QED
    BY <1>1, <1>3, <2>1, JobsAre, WorkEnds
<1>5. \A k \in Calls : Backing(k)' => Backing(k) /\ Needed(k)' = Needed(k)
  BY <1>1 DEF Backing, Needed, InForce
<1>6. Typed' => Wanted' = Wanted
  <2>1. \A k \in Calls : (Counts(k)' <=> Counts(k)) /\ calls'[k].ids = calls[k].ids
    BY <1>1 DEF Counts, Staged, Committed
  <2>2. QED
    BY <1>1, <1>2, <2>1, WantedStands DEF world
<1>7. staged' \in [Owners -> Calls \cup {NoCall}] /\ calls' \in [Calls -> CallTypes]
  BY DEF Typed
<1>8. QED
  BY <1>2, <1>3, <1>4, <1>5, <1>6, <1>7, PassEnds

LEMMA PassEndKeeps == ASSUME IInv, PassEnd PROVE IInv'
<1>1. running # Idle /\ running.job \in JobSet
  BY DEF PassEnd, IInv, Typed, Running
<1>2. PICK rest : /\ Rest(rest)
      /\ CASE running.job.kind = "activate" /\ (Disposed \/ ~(Needed(running.job.who) \subseteq mounted')) ->
                 Withdraw(running.job.who, TRUE, rest)
           [] running.job.kind = "activate" /\ ~Disposed /\ Needed(running.job.who) \subseteq mounted' ->
                 calls' = [calls EXCEPT ![running.job.who].pc = "held"] /\ queue' = rest /\ UNCHANGED staged
           [] running.job.kind = "cleanup" ->
                 calls' = [calls EXCEPT ![running.job.who] = Done] /\ queue' = rest /\ UNCHANGED staged
           [] OTHER -> queue' = rest /\ UNCHANGED <<calls, staged>>
  BY DEF PassEnd, Rest
<1>3. CASE running.job.kind = "activate"
  <2>1. running.job.who \in Calls /\ running.job = Job("activate", running.job.who)
    BY <1>1, <1>3, JobFacts
  <2>2. CASE Disposed \/ ~(Needed(running.job.who) \subseteq mounted')
    <3>1. Withdraw(running.job.who, TRUE, rest)
      BY <1>2, <1>3, <2>2
    <3>2. QED
      BY <1>2, <2>1, <3>1, FailedActivation
  <2>3. CASE ~Disposed /\ Needed(running.job.who) \subseteq mounted'
    <3>1. calls' = [calls EXCEPT ![running.job.who].pc = "held"] /\ queue' = rest /\ UNCHANGED staged
      BY <1>2, <1>3, <2>3
    <3>2. QED
      BY <1>2, <2>1, <2>3, <3>1, DoneActivation
  <2>4. QED
    BY <2>2, <2>3
<1>4. CASE running.job.kind = "cleanup"
  <2>1. running.job.who \in Calls /\ running.job = Job("cleanup", running.job.who)
    BY <1>1, <1>4, JobFacts
  <2>2. calls' = [calls EXCEPT ![running.job.who] = Done] /\ queue' = rest /\ UNCHANGED staged
    BY <1>2, <1>4
  <2>3. QED
    BY <1>2, <2>1, <2>2, DoneCleanup
<1>5. CASE running.job.kind \notin {"activate", "cleanup"}
  <2>1. queue' = rest /\ UNCHANGED <<calls, staged>>
    BY <1>2, <1>5
  <2>2. running.job \in Plain
    BY <1>1, <1>5 DEF JobSet, Job
  <2>3. QED
    BY <1>2, <2>1, <2>2, DonePlain
<1>6. QED
  BY <1>3, <1>4, <1>5

-----------------------------------------------------------------------------
(* Disposal                                                                *)

LEMMA DisposeKeeps == ASSUME IInv, Dispose PROVE IInv'
<1> USE DEF IInv
<1>1. /\ ~Disposed /\ disposal' = "draining" /\ queue' = queue \o <<Job("drain", NoCall)>>
      /\ calls' = [k \in Calls |-> [calls[k] EXCEPT !.active = @ /\ staged[OwnerOf[k]] # k]]
      /\ staged' = [o \in Owners |-> NoCall] /\ committed' = [o \in Owners |-> NoCall]
      /\ UNCHANGED <<authority, epoch, world, requested, passes, budget>>
  BY DEF Dispose, Enqueue
<1>2. ASSUME NEW k \in Calls
      PROVE  /\ calls'[k] \in CallTypes /\ calls'[k].active = (calls[k].active /\ staged[OwnerOf[k]] # k)
             /\ calls'[k].pc = calls[k].pc /\ calls'[k].ids = calls[k].ids /\ calls'[k].ready = calls[k].ready
             /\ calls'[k].epoch = calls[k].epoch /\ calls'[k].covered = calls[k].covered
  <2>1. calls[k] \in CallTypes /\ calls'[k] = [calls[k] EXCEPT !.active = calls[k].active /\ staged[OwnerOf[k]] # k]
    BY <1>1, CallTyped
  <2>2. QED
    BY <2>1 DEF CallTypes
<1>3. SameCalls
  BY <1>1, <1>2 DEF SameCalls
<1>4. \A k \in Calls : calls'[k].active <=> Staged(k)'
  <2> SUFFICES ASSUME NEW k \in Calls PROVE calls'[k].active <=> Staged(k)'
    OBVIOUS
  <2>1. OwnerOf[k] \in Owners /\ k # NoCall /\ (calls[k].active <=> Staged(k))
    BY CallTyped DEF Tokens, TokenOf
  <2>2. QED
    BY <1>1, <1>2, <2>1 DEF Staged
<1>5. Revoked /\ Disposed'
  BY <1>1, <1>3, <1>4 DEF Revoked, Disposed
<1>6. Tokens'
  BY <1>1, <1>5, TokensRevoked
<1>7. Job("drain", NoCall) \in Plain /\ Job("drain", NoCall) \in JobSet /\ Job("drain", NoCall).kind = "drain"
  BY JobsAre
<1>8. AddsPlain /\ Kept /\ Len(queue') = Len(queue) + 1 /\ queue'[Len(queue) + 1] = Job("drain", NoCall) /\ Len(queue) \in Nat
  BY <1>1, <1>7, OneAdded DEF AddsPlain, Typed
<1>9. Typed'
  BY <1>1, <1>5, <1>8 DEF Typed, world, passes, Revoked, SameCalls, Kept
<1>10. Work'
  <2>1. DueStands
    BY <1>3 DEF DueStands, Due, SameCalls
  <2>2. QED
    BY <1>1, <1>8, <2>1, WorkStands DEF passes
<1>11. Refusable'
  <2>1. \A k \in 1..Len(queue) : queue[k].kind = "activate" => calls'[queue[k].who].ids = calls[queue[k].who].ids
    BY <1>3, ActivationsWait DEF SameCalls
  <2>2. \A k \in Len(queue) + 1..Len(queue') : queue'[k].kind # "activate"
    BY <1>7, <1>8
  <2>3. Offered' = Offered
    BY <1>1 DEF Offered
  <2>4. QED
    BY <1>8, <2>1, <2>2, <2>3, RefusableKept
<1>12. Balance' /\ Backed'
  BY <1>5 DEF Balance, Backed
<1>13. Ends'
  BY <1>1, <1>5 DEF Ends, world, passes
<1>14. Departed'
  BY <1>1 DEF Departed, Typed, world
<1>15. QED
  BY <1>6, <1>9, <1>10, <1>11, <1>12, <1>13, <1>14

LEMMA DrainKeeps == ASSUME IInv, Drain PROVE IInv'
<1> USE DEF IInv
<1>1. /\ queue # <<>> /\ running = Idle /\ Head(queue).kind = "drain" /\ queue' = Tail(queue) /\ disposal' = "drained"
      /\ UNCHANGED <<authority, epoch, world, requested, sessions, running, failed, passEpoch>>
  BY DEF Drain
<1>2. Pops /\ Head(queue) = queue[1] /\ queue[1] \in JobSet
  BY <1>1, TailPops
<1>3. 1 \in 1..Len(queue) /\ queue[1].kind = "drain"
  BY <1>1, <1>2 DEF Pops, Typed
<1>4. queue[1] \in Plain /\ \A o \in gone : queue[1] # Job("release", o)
  BY <1>2, <1>3, JobFacts, JobsAre
<1>5. Disposed /\ Disposed'
  BY <1>1, <1>3 DEF Ends, Disposed
<1>6. /\ mounted' \subseteq mounted /\ budget' \in [changes: Nat, toggles: Nat, faults: Nat]
      /\ budget'.toggles = budget.toggles /\ (budget'.faults = 0 => mounted' = {})
  <2>1. PICK broken \in SUBSET mounted : mounted' = broken /\ budget' = [budget EXCEPT !.faults = @ + Cardinality(broken)]
    BY DEF Drain
  <2>2. IsFiniteSet(broken)
    BY DirectAssumption, FS_Subset DEF Typed
  <2>3. Cardinality(broken) \in Nat /\ (Cardinality(broken) = 0 => broken = {})
    BY <2>2, FS_CardinalityType, FS_EmptySet
  <2>4. QED
    BY <2>1, <2>3 DEF Typed
<1>7. Typed'
  BY <1>1, <1>2, <1>6 DEF Typed, world, sessions, Pops
<1>8. Tokens'
  <2>1. \A k \in Calls : TokenOf(k)'
    BY <1>1 DEF Tokens, TokenOf, Staged, Committed, Offered, sessions
  <2>2. QED
    BY <1>1, <1>5, <2>1 DEF Tokens, Unsettled, sessions
<1>9. Work'
  <2>1. DueStands
    BY <1>1 DEF DueStands, Due, sessions
  <2>2. QED
    BY <1>1, <1>2, <1>4, <2>1, WorkDrops
<1>10. Refusable'
  BY <1>1, <1>2, RefusablePops DEF sessions
<1>11. Balance' /\ Backed'
  BY <1>5 DEF Balance, Backed
<1>12. Ends'
  <2>1. ~running'.live
    BY <1>1 DEF Idle
  <2>2. QED
    BY <1>1, <1>2, <1>5, <1>6, <2>1, EndsPops DEF Ends, world
<1>13. Departed'
  BY <1>1, <1>2, <1>4, DepartedPops DEF sessions, world
<1>14. QED
  BY <1>7, <1>8, <1>9, <1>10, <1>11, <1>12, <1>13

-----------------------------------------------------------------------------
(* The theorems                                                            *)

LEMMA InitHolds == Init => IInv
<1> SUFFICES ASSUME Init PROVE IInv
  OBVIOUS
<1>1. queue = <<>> /\ Len(queue) = 0 /\ running = Idle /\ ~Disposed /\ requested
  BY DEF Init, Disposed
<1>2. \A c \in Calls : calls[c] = NewCall /\ ~Staged(c) /\ ~Committed(c)
  BY CallsAssumption DEF Init, Staged, Committed
<1>3. Typed
  BY BlankCalls DEF Init, Typed, Running
<1>4. Tokens
  <2>1. \A c \in Calls : TokenOf(c) /\ ~Unsettled(c)
    BY <1>2, BlankCalls DEF TokenOf, Unsettled
  <2>2. QED
    BY <1>1, <2>1 DEF Tokens, Init
<1>5. Work
  <2>1. \A c \in Calls : Due(c) = {}
    BY <1>2, BlankCalls DEF Due
  <2>2. \A j \in JobSet : ~Waits(j)
    BY <1>1, JobFacts DEF Waits
  <2>3. QED
    BY <1>1, <2>1, <2>2, JobsAre DEF Work
<1>6. Refusable /\ Departed /\ Balance
  BY <1>1 DEF Refusable, Departed, Balance, Owed, Init
<1>7. Backed
  <2>1. \A c \in Calls : ~Backing(c)
    BY <1>2, BlankCalls DEF Backing, Committed
  <2>2. passEpoch = 0 /\ running.epoch = 0 /\ epoch = 0
    BY <1>1 DEF Init, Idle
  <2>3. QED
    BY <2>1, <2>2 DEF Backed
<1>8. Ends
  BY <1>1 DEF Ends, Init, Idle
<1>9. QED
  BY <1>3, <1>4, <1>5, <1>6, <1>7, <1>8 DEF IInv

LEMMA StutterKeeps == ASSUME IInv, UNCHANGED vars PROVE IInv'
<1>1. UNCHANGED <<authority, epoch, catalog, off, requested, calls, staged, committed, queue, running, mounted, failed,
                  passEpoch, gone, disposal, budget>>
  BY DEF vars
<1>2. Disposed' = Disposed /\ Offered' = Offered /\ Wanted' = Wanted
  BY <1>1 DEF Disposed, Offered, Wanted, BaseOf, Demand, Readied, IdsOf
<1>3. Typed' /\ Tokens' /\ Work'
  <2>1. \A c \in Calls : TokenOf(c)' <=> TokenOf(c)
    BY <1>1, <1>2 DEF TokenOf, Staged, Committed
  <2>2. Tokens'
    BY <1>1, <1>2, <2>1 DEF IInv, Tokens, Unsettled
  <2>3. Typed' /\ Work'
    BY <1>1 DEF IInv, Typed, Work, Waits, Due
  <2>4. QED
    BY <2>2, <2>3
<1>4. Refusable' /\ Balance' /\ Departed' /\ Ends'
  BY <1>1, <1>2 DEF IInv, Refusable, Refused, Balance, Owed, Fits, Departed, Leaving, Ends
<1>5. Backed'
  BY <1>1, <1>2 DEF IInv, Backed, BackedBy, Backing, InForce, Needed
<1>6. QED
  BY <1>3, <1>4, <1>5 DEF IInv

LEMMA StepKeeps == ASSUME IInv, [Next]_vars PROVE IInv'
<1>1. ASSUME NEW c \in Calls, Apply(c) \/ StageBegin(c) \/ StageRead(c) \/ StageReadFails(c) \/ StageReady(c) PROVE IInv'
  BY <1>1, ApplyKeeps, StageBeginKeeps, StageReadKeeps, StageReadFailsKeeps, StageReadyKeeps
<1>2. ASSUME NEW c \in Calls, Commit(c) \/ Rollback(c) PROVE IInv'
  BY <1>2, CommitKeeps, RollbackKeeps
<1>3. ASSUME NEW o \in Owners, AgentGone(o) PROVE IInv'
  BY <1>3, AgentGoneKeeps
<1>4. CASE PassStart \/ ActivationRefused \/ PassEnd
  BY <1>4, PassStartKeeps, ActivationRefusedKeeps, PassEndKeeps
<1>5. CASE CatalogChanges \/ RefreshCatalog \/ Dispose \/ Drain
  BY <1>5, CatalogChangesKeeps, RefreshCatalogKeeps, DisposeKeeps, DrainKeeps
<1>6. ASSUME NEW i \in Ids, Toggle(i) PROVE IInv'
  BY <1>6, ToggleKeeps
<1>7. CASE UNCHANGED vars
  BY <1>7, StutterKeeps
<1>8. QED
  BY <1>1, <1>2, <1>3, <1>4, <1>5, <1>6, <1>7 DEF Next

\* In every reachable state what is mounted is what is wanted, or a pass is on
\* its way; every receipt is backed, and every waiting call has its job
\* (stageSessionDemand, reconcileShared, enqueue).
THEOREM InvariantHolds == Spec => []IInv
  BY InitHolds, StepKeeps, PTL DEF Spec

\* A receipt's servers are mounted, or known to have failed, once a pass has
\* caught up with the catalog, whatever other sessions do (SessionDemandReceipt).
THEOREM ReceiptsAreBacked == Spec => []ReceiptBacked
<1>1. IInv => ReceiptBacked
  BY DEF IInv, Backed, BackedBy, ReceiptBacked, CaughtUp
<1>2. QED
  BY <1>1, InvariantHolds, PTL

\* When everything has come to rest, what is wanted is mounted (reconcileShared).
THEOREM RestIsServed == Spec => []RestServes
<1>1. IInv => RestServes
  <2> SUFFICES ASSUME IInv, Quiet, budget.toggles = 0 PROVE Wanted \ failed \subseteq mounted /\ failed \cap mounted = {}
    BY DEF RestServes
  <2>1. Wanted \subseteq mounted \cup failed
    BY DEF IInv, Balance, Owed, Quiet, Fits
  <2>2. QED
    BY <2>1 DEF IInv, Ends
<1>2. QED
  BY <1>1, InvariantHolds, PTL

\* At rest nothing is mounted that nobody wants, and a disposed reconciler
\* holds no demand and, once drained, no server (reconcileShared, dispose).
THEOREM RestIsFree == Spec => []RestFrees
<1>1. IInv => RestFrees
  <2> SUFFICES ASSUME IInv PROVE RestFrees
    OBVIOUS
  <2>1. Quiet /\ budget.faults = 0 => mounted \subseteq Wanted
    BY DEF IInv, Balance, Owed, Quiet, Fits
  <2>2. Disposed => \A o \in Owners : committed[o] = NoCall /\ staged[o] = NoCall
    BY DEF IInv, Tokens
  <2>3. disposal = "drained" /\ budget.faults = 0 => mounted = {}
    BY DEF IInv, Ends
  <2>4. QED
    BY <2>1, <2>2, <2>3 DEF RestFrees
<1>2. QED
  BY <1>1, InvariantHolds, PTL

\* No call and no departed agent is left behind by an empty queue (enqueue,
\* stageSessionDemand, releaseSessionDemand).
THEOREM NobodyIsStranded == Spec => []NobodyStranded
<1>1. IInv => NobodyStranded
  <2> SUFFICES ASSUME IInv, queue = <<>>, running = Idle
               PROVE  /\ \A c \in Calls : calls[c].pc \notin {"activating", "cleaning"}
                      /\ \A o \in gone : (\A c \in Calls : OwnerOf[c] = o => calls[c].pc \in {"none", "done"})
                                          => committed[o] = NoCall /\ staged[o] = NoCall
    BY DEF NobodyStranded
  <2>1. \A j \in JobSet : ~Waits(j)
    BY JobFacts DEF Waits
  <2>2. ASSUME NEW c \in Calls PROVE calls[c].pc \notin {"activating", "cleaning"}
    <3>1. Job("activate", c) \in Private(c) /\ Job("cleanup", c) \in Private(c) /\ Private(c) \subseteq JobSet
      BY JobsAre DEF Private
    <3>2. Due(c) = {}
      BY <2>1, <3>1, PrivateApart DEF IInv, Work
    <3>3. QED
      BY <3>2 DEF Due
  <2>3. ASSUME NEW o \in gone, \A c \in Calls : OwnerOf[c] = o => calls[c].pc \in {"none", "done"}
        PROVE  committed[o] = NoCall /\ staged[o] = NoCall
    <3>1. o \in Owners /\ Len(queue) = 0
      BY DEF IInv, Typed
    <3>2. committed[o] = NoCall
      BY <3>1 DEF IInv, Departed, Leaving
    <3>3. staged[o] # NoCall => staged[o] \in Calls /\ OwnerOf[staged[o]] = o /\ Staged(staged[o])
      BY <3>1 DEF IInv, Typed, Tokens, Staged
    <3>4. QED
      BY <2>3, <3>2, <3>3 DEF IInv, Tokens, TokenOf
  <2>4. QED
    BY <2>2, <2>3
<1>2. QED
  BY <1>1, InvariantHolds, PTL

\* No pass of the catalog in force unmounts a server that a session has
\* activated and committed (reconcileShared).
THEOREM OthersAreLeftAlone == Spec => OthersKeepTheirs
<1>1. IInv /\ [Next]_vars =>
        [\A c \in Calls : committed[OwnerOf[c]] = c /\ ~Disposed /\ running.epoch = epoch
            => (mounted \ mounted') \cap Needed(c) \cap Offered = {}]_vars
  <2> SUFFICES ASSUME IInv, Next, NEW c \in Calls, committed[OwnerOf[c]] = c, ~Disposed, running.epoch = epoch
               PROVE  (mounted \ mounted') \cap Needed(c) \cap Offered = {}
    OBVIOUS
  <2>1. CASE PassEnd
    <3>1. running.live
      BY <2>1 DEF IInv, Ends, PassEnd
    <3>2. BackedBy(c, running.plan)
      BY <3>1 DEF IInv, Backed, Backing
    <3>3. QED
      BY <2>1, <3>1, <3>2, PassLands DEF BackedBy
  <2>2. CASE Drain
    <3>1. 1 \in 1..Len(queue) /\ queue[1].kind = "drain"
      BY <2>2, TailPops DEF Drain, IInv, Typed, Pops
    <3>2. QED
      BY <3>1 DEF IInv, Ends
  <2>3. CASE ~PassEnd /\ ~Drain
    <3>1. mounted' = mounted
      BY <2>3 DEF Next, Apply, StageBegin, StageRead, StageReadFails, StageReady, Commit, Rollback, AgentGone, PassStart,
                  ActivationRefused, CatalogChanges, RefreshCatalog, Dispose, Toggle, passes
    <3>2. QED
      BY <3>1
  <2>4. QED
    BY <2>1, <2>2, <2>3
<1>2. QED
  BY <1>1, InvariantHolds, PTL DEF Spec, OthersKeepTheirs
=============================================================================
