----------------------------- MODULE McpProofs -----------------------------
(* The safety of the MCP servers: of the registry that mounts them, and of  *)
(* the supervisor of each.                                                  *)
(*                                                                          *)
(* The registry (McpMounts), for any number of suites, changes and faults,  *)
(* while no server is shipped by more than two suites (TwoCopies).  Orderly *)
(* says who owns a name, and what each step of an addition knows of its     *)
(* key: what is live owns its name, a name that is owned is served or taken *)
(* for a handshake (Named), and a batch mounts one copy of a server         *)
(* (Single).  With three copies Single fails: two claimants of a name take  *)
(* over side by side.  CarriedOut is what the pass in flight has done so    *)
(* far, of what NoneForgotten asks of it at rest.                           *)
(*                                                                          *)
(* The supervisor (McpConnection), for every budget of restarts, any number *)
(* of generations, list changes, authorizations and conflicts, and every    *)
(* setting.  Sup is the supervisor without its queue: only the newest       *)
(* generation is alive (Lineage), the status tells of it (Reported), and    *)
(* every generation was paid for (Budget).  QInv is the queue of syncs: the *)
(* first sync of the newest generation is queued exactly while it is        *)
(* awaited (SyncQueue), the disposal of a given-up server's tools is on its *)
(* way (GivenUp), and a list that is not registered is being read, or a     *)
(* sync for it waits (InStep).                                              *)
EXTENDS McpConnection, McpMounts, FiniteSetTheorems, TLAPS

-----------------------------------------------------------------------------
(* The registry: its inductive invariant                                    *)

\* A server is shipped by no more than two suites.
TwoCopies == \A i, j, k \in Keys : NameOf[i] = NameOf[j] /\ NameOf[j] = NameOf[k] => i = j \/ j = k \/ i = k

\* The counters of the environment, and the last disposal.
Counters == budget \in [changes : Nat, faults : Nat, forces : Nat, disposals : 0..1]

\* A pass of disposeAll is asked for by the disposal alone.
Disposing ==
    /\ pass.kind = "dispose" => AllDisposed
    /\ \A i \in DOMAIN queue : queue[i].kind = "dispose" => AllDisposed

\* The batches that mount, and an addition that has not ended.
Batch == pass.stage \in {"adding", "taking"}
Mounting(k) == work[k] \in {"unmounting", "preparing", "choosing", "handshake"}

\* What the stage of a pass tells about its work.
Staged ==
    /\ pass.stage = "idle" => pass = NoPass
    /\ pass.kind = "dispose" => pass.stage = "removing"
    /\ pass.stage \in {"idle", "reading"} => \A k \in Keys : work[k] = "none"
    /\ pass.stage = "removing" => \A k \in Keys : work[k] \in {"none", "unmounting", "done"}
    /\ Batch => \A k \in Keys : work[k] # "none" => Wanted(k)

\* What is known of a key at each step of its addition.
Placed ==
    \A k \in Keys :
        /\ work[k] = "unmounting" => live[k] # 0 /\ pass.stage # "taking"
        /\ work[k] \in {"preparing", "choosing", "handshake"} => live[k] = 0
        /\ work[k] = "choosing" => Owner(k) = NoKey
        /\ work[k] = "handshake" => Owner(k) = k

\* What is live owns its name, and a name that is owned is served, or was taken
\* for a handshake.
Named ==
    /\ \A k \in Keys : live[k] # 0 => Owner(k) = k
    /\ \A n \in Names : names[n] # NoKey => Served(n) \/ work[names[n]] = "handshake"

\* A batch has one addition of a name.  A copy that is left out of the first
\* batch is the only one, and one left out of both is served.
Single ==
    /\ Batch => \A j, k \in Keys : work[j] # "none" /\ work[k] # "none" /\ NameOf[j] = NameOf[k] => j = k
    /\ Batch => \A k \in pass.claimants : Wanted(k) /\ live[k] = 0 /\ work[k] = "none"
    /\ pass.stage = "adding" => \A j, k \in pass.claimants : NameOf[j] = NameOf[k] => j = k
    /\ pass.stage = "taking" => \A k \in pass.claimants : Served(NameOf[k])

\* A copy is reported redundant by an addition of its own, or at the end.
Redundant ==
    /\ pass.stage = "removing" /\ pass.kind # "dispose" => \A k \in Keys : outcome[k] # "duplicate"
    /\ pass.stage = "adding" => \A k \in Keys : outcome[k] = "duplicate" => work[k] # "none"

\* A pass will read the configurations again.
Pending == owed \/ queue # <<>> \/ pass.stage = "reading"

\* What a pass leaves of a server it has dealt with.
Covered(k) == live[k] = pass.wanted[k] \/ k \in timers \/ GaveUp(k) \/ Excused(k)

\* What the last pass, if nothing is pending behind it, has done so far.
CarriedOut ==
    pass.stage \notin {"idle", "reading"} /\ ~AllDisposed /\ ~Pending =>
        /\ \A k \in Keys : pass.wanted[k] = IF k \in lastEnabled THEN config[k] ELSE 0
        /\ Batch => \A k \in Keys : Wanted(k) => Mounting(k) \/ work[k] = "threw" \/ k \in pass.claimants \/ Covered(k)

Orderly == Disposing /\ Staged /\ Placed /\ Named /\ Single /\ Redundant
MountsInv == TwoCopies /\ MountsType /\ Counters /\ Orderly /\ CarriedOut /\ NoneForgotten

-----------------------------------------------------------------------------
\* The elements of the queue, and the pass in flight.
Passes == [kind : {"reconcile", "retry", "dispose"}, enabled : SUBSET Keys]
PassType == [stage : {"idle", "reading", "removing", "adding", "taking"}, wanted : [Keys -> Versions],
             kind : {"none", "reconcile", "retry", "dispose"}, claimants : SUBSET Keys]

\* The types, part by part.
QueueType == queue \in Seq(Passes)
RetryType ==
    /\ timers \in SUBSET Keys /\ attempts \in [Keys -> 0..MaxAttempts + 1]
    /\ \A k \in timers : attempts[k] \in 1..MaxAttempts
WorldType ==
    /\ enabled \in SUBSET Keys /\ config \in [Keys -> Versions] /\ foreign \in SUBSET Names
    /\ owed \in BOOLEAN /\ calling \in BOOLEAN /\ lastEnabled \in SUBSET Keys
WorkType == work \in [Keys -> Steps]
RowType ==
    /\ live \in [Keys -> Versions] /\ names \in [Names -> Keys \cup {NoKey}] /\ left \in SUBSET Names
    /\ \A n \in Names : names[n] # NoKey => NameOf[names[n]] = n
ReportType ==
    /\ forced \in SUBSET Keys /\ outcome \in [Keys -> {"none", "stuck", "foreign", "duplicate"}]
    /\ rejected \in BOOLEAN

Shaped == QueueType /\ RetryType /\ WorldType /\ pass \in PassType /\ WorkType /\ RowType /\ ReportType

\* Together they are the type invariant.
LEMMA ShapeIsType == MountsType <=> Shaped
  BY DEF MountsType, LifecycleType, Shaped, QueueType, RetryType, WorldType, WorkType, RowType, ReportType, Passes, PassType

\* No pass is a pass, and wants nothing.
LEMMA NoPassShaped == NoPass \in PassType /\ NoConfig \in [Keys -> Versions] /\ NoPass.stage = "idle" /\ NoPass.kind = "none"
  BY RegistryAssumption DEF NoPass, NoConfig, PassType, Versions

\* The queue has at its end what is put there.
LEMMA QueueGrows ==
    ASSUME queue \in Seq(Passes), NEW p \in Passes
    PROVE  /\ Append(queue, p) \in Seq(Passes) /\ Append(queue, p) # <<>>
           /\ \A i \in DOMAIN Append(queue, p) : Append(queue, p)[i] = p
                                                 \/ (i \in DOMAIN queue /\ Append(queue, p)[i] = queue[i])
  OBVIOUS

\* The queue loses its head, and keeps the rest in order.
LEMMA QueueAdvances ==
    ASSUME queue \in Seq(Passes), queue # <<>>
    PROVE  /\ Head(queue) \in Passes /\ Tail(queue) \in Seq(Passes)
           /\ Head(queue) = queue[1] /\ 1 \in DOMAIN queue
           /\ \A i \in DOMAIN Tail(queue) : i + 1 \in DOMAIN queue /\ Tail(queue)[i] = queue[i + 1]
  OBVIOUS

\* What the retry schedule does to the timers and the attempts of every key.
LEMMA RetryOutcome ==
    ASSUME RetryType, NEW failed \in SUBSET Keys, NEW settled \in SUBSET Keys, failed \cap settled = {},
           Retry(failed, settled)
    PROVE  /\ RetryType'
           /\ \A k \in failed : k \in timers' \/ GaveUp(k)'
           /\ \A k \in Keys \ (failed \cup settled) : (k \in timers' <=> k \in timers) /\ attempts'[k] = attempts[k]
  BY AttemptsAssumption DEF RetryType, Retry, GaveUp

\* What a batch starts with.
LEMMA StartsWork ==
    ASSUME RowType, NEW batch \in SUBSET Keys
    PROVE  /\ Starts(batch) \in [Keys -> {"none", "unmounting", "preparing"}]
           /\ \A k \in Keys : /\ k \notin batch => Starts(batch)[k] = "none"
                              /\ k \in batch => Starts(batch)[k] = IF live[k] # 0 THEN "unmounting" ELSE "preparing"
  BY DEF Starts

-----------------------------------------------------------------------------
(* Steps                                                                    *)

\* A step is of the world, of the pass as a whole or of one addition.
World == SuitesChange \/ ForeignChanges \/ ForceRemount \/ Asks \/ DisposeAll \/ \E k \in Keys : RetryFires(k)

\* There are no other steps.
LEMMA MountsGroups == MountsNext <=> World \/ PassStep \/ \E k \in Keys : MountStep(k)
  BY Zenon DEF MountsNext, World

\* Disposals are counted by DisposeAll alone, and never taken back.
LEMMA Counted ==
    ASSUME Counters, MountsNext
    PROVE  Counters' /\ (AllDisposed => AllDisposed') /\ (AllDisposed' => AllDisposed \/ World)
<1>1. CASE World
  <2>1. Changes \/ ForceRemount \/ DisposeAll \/ UNCHANGED budget
    BY <1>1 DEF World, SuitesChange, ForeignChanges, Asks, RetryFires
  <2>2. Counters' /\ (AllDisposed => AllDisposed')
    BY <2>1 DEF Changes, ForceRemount, DisposeAll, Counters, AllDisposed
  <2> QED
    BY <1>1, <2>2
<1>2. CASE PassStep \/ \E k \in Keys : MountStep(k)
  <2>1. UNCHANGED budget \/ Fault
    <3>1. CASE PassStep
      BY <3>1 DEF PassStep, PassStarts, PassReads, PassRejects, PlanAdditions, AdditionsEnd, PassEnds, DisposeEnds
    <3>2. ASSUME NEW k \in Keys, MountStep(k) PROVE UNCHANGED budget \/ Fault
      BY <3>2 DEF MountStep, Unmounts, UnmountFails, Prepared, Throws, TakesName, Refused, Mounts, MountFails
    <3> QED
      BY <1>2, <3>1, <3>2
  <2> QED
    BY <2>1 DEF Fault, Counters, AllDisposed
<1> QED
  BY <1>1, <1>2, MountsGroups

\* The world touches neither the pass nor what it has mounted,
LEMMA WorldLeaves ==
    ASSUME World
    PROVE  UNCHANGED <<pass, work, live, names, left, outcome, rejected, lastEnabled, attempts>>
  BY DEF World, SuitesChange, ForeignChanges, ForceRemount, Asks, DisposeAll, RetryFires, Fires, lifecycle, rows

\* but it can queue a pass, or ask for one.
LEMMA WorldQueues ==
    ASSUME Shaped, World, AllDisposed => AllDisposed'
    PROVE  \/ queue' = queue
           \/ \E p \in Passes : queue' = Append(queue, p) /\ (p.kind = "dispose" => AllDisposed')
<1>1. CASE SuitesChange \/ ForeignChanges \/ ForceRemount
  BY <1>1 DEF SuitesChange, ForeignChanges, ForceRemount, lifecycle
<1>2. CASE Asks
  <2>1. Pass("reconcile", enabled) \in Passes /\ Pass("reconcile", enabled).kind # "dispose"
    BY DEF Shaped, WorldType, Pass, Passes
  <2> QED
    BY <1>2, <2>1 DEF Asks, Queue
<1>3. CASE DisposeAll
  <2>1. Pass("dispose", {}) \in Passes
    BY DEF Pass, Passes
  <2>2. budget'.disposals = 1 => AllDisposed'
    BY DEF AllDisposed
  <2> QED
    BY <1>3, <2>1, <2>2 DEF DisposeAll, Queue
<1>4. CASE \E k \in Keys : RetryFires(k)
  <2>1. Pass("retry", lastEnabled) \in Passes /\ Pass("retry", lastEnabled).kind # "dispose"
    BY DEF Shaped, WorldType, Pass, Passes
  <2> QED
    BY <1>4, <2>1 DEF RetryFires, Fires, Queue
<1> QED
  BY <1>1, <1>2, <1>3, <1>4 DEF World

-----------------------------------------------------------------------------
(* Types                                                                    *)

\* Types are kept by what the world does,
LEMMA WorldShaped ==
    ASSUME Shaped, World, AllDisposed => AllDisposed'
    PROVE  Shaped'
<1>1. QueueType'
  BY WorldQueues, QueueGrows DEF Shaped, QueueType
<1>2. RetryType'
  BY DEF World, SuitesChange, ForeignChanges, ForceRemount, Asks, DisposeAll, RetryFires, Fires, lifecycle, Shaped, RetryType
<1>3. WorldType'
  BY DEF World, SuitesChange, ForeignChanges, ForceRemount, Asks, DisposeAll, RetryFires, Shaped, WorldType, world
<1>4. forced' \in SUBSET Keys
  BY DEF World, SuitesChange, ForeignChanges, ForceRemount, Asks, DisposeAll, RetryFires, Shaped, ReportType
<1> QED
  BY <1>1, <1>2, <1>3, <1>4, WorldLeaves DEF Shaped, WorkType, RowType, ReportType

\* by the steps of a pass,
LEMMA PassShaped ==
    ASSUME Shaped, Single, PassStep
    PROVE  Shaped'
<1> USE DEF Returns
<1>1. CASE PassStarts
  <2>1. QueueType' /\ Head(queue) \in Passes
    BY <1>1, QueueAdvances DEF PassStarts, Shaped, QueueType
  <2>2. Head(queue).kind \in {"reconcile", "retry", "dispose"} /\ Head(queue).enabled \in SUBSET Keys
    BY <2>1 DEF Passes
  <2>3. \/ pass' = [NoPass EXCEPT !.stage = "removing", !.kind = "dispose"]
        \/ pass' = [NoPass EXCEPT !.stage = "reading", !.kind = Head(queue).kind]
    BY <1>1 DEF PassStarts
  <2>4. pass' \in PassType
    BY <2>2, <2>3, NoPassShaped DEF PassType
  <2>5. WorldType' /\ WorkType'
    BY <1>1, <2>2 DEF PassStarts, Shaped, WorldType, WorkType, Steps, world
  <2> QED
    BY <1>1, <2>1, <2>4, <2>5 DEF PassStarts, Shaped, RetryType, RowType, ReportType, rows
<1>2. CASE PassReads
  <2> DEFINE wanted == [k \in Keys |-> IF k \in lastEnabled THEN config[k] ELSE 0]
  <2>1. wanted \in [Keys -> Versions]
    BY RegistryAssumption DEF Shaped, WorldType, Versions
  <2>2. pass' = [pass EXCEPT !.stage = "removing", !.wanted = wanted]
    BY <1>2 DEF PassReads
  <2> HIDE DEF wanted
  <2>3. pass' \in PassType
    BY <2>1, <2>2 DEF PassType, Shaped
  <2>4. WorkType' /\ ReportType'
    BY <1>2 DEF PassReads, WorkType, Steps, Shaped, ReportType
  <2> QED
    BY <1>2, <2>3, <2>4 DEF PassReads, Shaped, QueueType, RetryType, WorldType, RowType, lifecycle, world, rows
<1>3. CASE PassRejects
  BY <1>3, NoPassShaped
     DEF PassRejects, Shaped, QueueType, RetryType, WorldType, WorkType, RowType, ReportType, lifecycle, world, rows
<1>4. CASE PlanAdditions
  <2> DEFINE settled == {k \in Keys : Wanted(k) /\ Matches(k)}
             due == {k \in Keys : Wanted(k) /\ ~Matches(k)}
             additions == {k \in due : Claims(k, due)}
  <2>1. /\ Retry({}, settled) /\ forced' = forced \ due
        /\ pass' = [pass EXCEPT !.stage = "adding", !.claimants = due \ additions]
        /\ work' = Starts(additions)
    BY <1>4 DEF PlanAdditions
  <2>2. settled \in SUBSET Keys /\ due \in SUBSET Keys /\ additions \in SUBSET Keys
    OBVIOUS
  <2> HIDE DEF settled, due, additions
  <2>3. RetryType'
    BY <2>1, <2>2, RetryOutcome DEF Shaped
  <2>4. pass' \in PassType
    BY <2>1, <2>2 DEF Shaped, PassType
  <2>5. WorkType'
    BY <2>1, <2>2, StartsWork DEF Shaped, WorkType, Steps
  <2>6. ReportType'
    BY <1>4, <2>1 DEF PlanAdditions, Shaped, ReportType
  <2> QED
    BY <1>4, <2>3, <2>4, <2>5, <2>6 DEF PlanAdditions, Shaped, QueueType, WorldType, RowType, world, rows
<1>5. CASE DisposeEnds
  <2>1. RetryType' /\ WorkType'
    BY <1>5, AttemptsAssumption DEF DisposeEnds, Clear, NoAttempts, RetryType, WorkType, Steps
  <2> QED
    BY <1>5, <2>1, NoPassShaped DEF DisposeEnds, Shaped, QueueType, WorldType, RowType, ReportType, world, rows
<1>6. CASE AdditionsEnd \/ PassEnds
  <2>1. Threw \in SUBSET Keys /\ names' = Freed /\ Batch
    BY <1>6 DEF AdditionsEnd, PassEnds, Threw, Batch
  <2>2. RowType'
    BY <1>6, <2>1 DEF AdditionsEnd, PassEnds, Freed, Shaped, RowType
  <2>3. CASE AdditionsEnd
    <3> DEFINE takeover == {k \in pass.claimants : Freed[NameOf[k]] = NoKey}
    <3>1. /\ Retry(Threw, {}) /\ work' = Starts(takeover)
          /\ pass' = [pass EXCEPT !.stage = "taking", !.claimants = @ \ takeover]
      BY <2>3 DEF AdditionsEnd
    <3>2. takeover \in SUBSET Keys /\ pass' \in PassType
      BY <3>1 DEF Shaped, PassType
    <3> HIDE DEF takeover
    <3>3. RetryType' /\ WorkType'
      BY <2>1, <3>1, <3>2, RetryOutcome, StartsWork DEF Shaped, WorkType, Steps
    <3> QED
      BY <2>2, <2>3, <3>2, <3>3 DEF AdditionsEnd, Shaped, QueueType, WorldType, ReportType, world
  <2>4. CASE PassEnds
    <3>1. Threw \cap pass.claimants = {} /\ pass.claimants \in SUBSET Keys
      BY <2>1 DEF Single, Threw, Shaped, PassType
    <3>2. RetryType'
      BY <2>1, <2>4, <3>1, RetryOutcome DEF PassEnds, Shaped
    <3>3. WorkType' /\ ReportType'
      BY <2>4 DEF PassEnds, Shaped, WorkType, Steps, ReportType
    <3> QED
      BY <2>2, <2>4, <3>2, <3>3, NoPassShaped DEF PassEnds, Shaped, QueueType, WorldType, world
  <2> QED
    BY <1>6, <2>3, <2>4
<1> QED
  BY <1>1, <1>2, <1>3, <1>4, <1>5, <1>6 DEF PassStep

\* and by the steps of an addition, which are about one key.
LEMMA MountLeaves ==
    ASSUME NEW k \in Keys, MountStep(k)
    PROVE  /\ UNCHANGED <<queue, world, calling, lastEnabled, pass, forced, rejected>>
           /\ UNCHANGED <<timers, attempts>> \/ Settle(k) \/ Schedule(k)
           /\ left \subseteq left'
  BY DEF MountStep, Unmounts, UnmountFails, Prepared, Throws, TakesName, Refused, Mounts, MountFails, lifecycle, rows

\* A step of an addition keeps the types.
LEMMA MountShaped ==
    ASSUME Shaped, NEW k \in Keys, MountStep(k)
    PROVE  Shaped'
<1>1. RetryType'
  BY MountLeaves, RetryOutcome DEF Shaped, Settle, Schedule, RetryType
<1>2. WorkType'
  BY DEF MountStep, Unmounts, UnmountFails, Prepared, Throws, TakesName, Refused, Mounts, MountFails, Shaped, WorkType, Steps
<1>3. RowType'
  <2>1. pass.wanted[k] \in Versions /\ 0 \in Versions /\ NameOf[k] \in Names
    BY RegistryAssumption, KeysAssumption DEF Shaped, PassType, Versions
  <2> QED
    BY <2>1 DEF MountStep, Unmounts, UnmountFails, Prepared, Throws, TakesName, Refused, Mounts, MountFails, Shaped, RowType, rows
<1>4. outcome' \in [Keys -> {"none", "stuck", "foreign", "duplicate"}]
  BY DEF MountStep, Unmounts, UnmountFails, Prepared, Throws, TakesName, Refused, Mounts, MountFails, Shaped, ReportType
<1> QED
  BY <1>1, <1>2, <1>3, <1>4, MountLeaves DEF Shaped, QueueType, WorldType, ReportType, world

-----------------------------------------------------------------------------
(* Names, batches and stages                                                *)

\* Only the disposal queues a pass of its kind.
LEMMA WorldOrderly ==
    ASSUME Shaped, Orderly, World, AllDisposed => AllDisposed'
    PROVE  Orderly'
<1>1. \A i \in DOMAIN queue' : queue'[i].kind = "dispose" => AllDisposed'
  <2>1. CASE queue' = queue
    BY <2>1 DEF Orderly, Disposing
  <2>2. ASSUME NEW p \in Passes, queue' = Append(queue, p), p.kind = "dispose" => AllDisposed'
        PROVE  \A i \in DOMAIN queue' : queue'[i].kind = "dispose" => AllDisposed'
    BY <2>2, QueueGrows DEF Shaped, QueueType, Orderly, Disposing
  <2> QED
    BY <2>1, <2>2, WorldQueues
<1>2. Disposing'
  BY <1>1, WorldLeaves DEF Orderly, Disposing
<1>3. Staged' /\ Placed' /\ Named' /\ Single' /\ Redundant'
  BY WorldLeaves DEF Orderly, Staged, Placed, Named, Single, Redundant, Batch, Wanted, Owner, Served
<1> QED
  BY <1>2, <1>3 DEF Orderly

\* A key that is at work is alone with its name.
LEMMA AloneWithItsName ==
    ASSUME Shaped, Orderly, NEW k \in Keys, Mounting(k), NEW j \in Keys \ {k}, NameOf[j] = NameOf[k]
    PROVE  /\ work[j] \notin {"preparing", "choosing", "handshake"}
           /\ Batch => work[j] = "none"
           /\ work[k] # "preparing" => live[j] = 0
<1>1. pass.stage \notin {"idle", "reading"}
  BY DEF Orderly, Staged, Mounting
<1>2. Batch => work[j] = "none"
  BY DEF Orderly, Single, Mounting
<1>3. work[j] \notin {"preparing", "choosing", "handshake"}
  BY <1>1, <1>2 DEF Orderly, Staged, Shaped, PassType, Batch
<1>4. work[k] # "preparing" => live[j] = 0
  <2>1. live[j] # 0 => Owner(j) = j
    BY DEF Orderly, Named
  <2>2. work[k] # "preparing" => Owner(k) = k \/ Owner(k) = NoKey
    BY DEF Orderly, Named, Placed, Mounting
  <2> QED
    BY <2>1, <2>2, KeysAssumption DEF Owner
<1> QED
  BY <1>2, <1>3, <1>4

\* An addition is of a batch, and wanted.
LEMMA AdditionsAreWanted ==
    ASSUME Shaped, Orderly, NEW k \in Keys, work[k] \in {"preparing", "choosing", "handshake"}
    PROVE  Batch /\ Wanted(k) /\ pass.wanted[k] \in Nat \ {0}
<1>1. Batch
  BY DEF Orderly, Staged, Shaped, PassType, Batch
<1>2. Wanted(k)
  BY <1>1 DEF Orderly, Staged
<1> QED
  BY <1>1, <1>2, RegistryAssumption DEF Wanted, Shaped, PassType, Versions

\* What a step of an addition may do to the rows.
Frees(k) == live' = [live EXCEPT ![k] = 0] /\ names' = [names EXCEPT ![NameOf[k]] = NoKey] /\ left' = left
Takes(k) == live' = live /\ names' = [names EXCEPT ![NameOf[k]] = k] /\ left' = left
Lives(k) == live' = [live EXCEPT ![k] = pass.wanted[k]] /\ names' = [names EXCEPT ![NameOf[k]] = k] /\ left' = left
Leaves(k) == live' = live /\ names' = names /\ left' = left \cup {NameOf[k]}
GivesBack(k) == live' = live /\ names' = [names EXCEPT ![NameOf[k]] = NoKey] /\ left' = left

\* The steps of an addition, one by one: what each does to the rows, to its work
\* and to its report.
LEMMA RowSteps ==
    ASSUME Shaped, NEW k \in Keys, MountStep(k)
    PROVE  /\ Mounting(k)
           /\ \/ /\ work[k] = "unmounting" /\ Frees(k) /\ outcome' = outcome
                 /\ work'[k] = IF pass.stage = "removing" THEN "done" ELSE "preparing"
              \/ work[k] = "unmounting" /\ UNCHANGED rows /\ work'[k] = "done" /\ outcome'[k] = "stuck"
              \/ work[k] = "preparing" /\ UNCHANGED rows /\ work'[k] = "choosing" /\ Owner(k) = NoKey /\ outcome' = outcome
              \/ /\ work[k] = "preparing" /\ UNCHANGED rows /\ work'[k] = "done"
                 /\ outcome'[k] = "foreign" \/ (outcome'[k] = "duplicate" /\ Owner(k) # NoKey)
              \/ work[k] \in {"preparing", "choosing"} /\ UNCHANGED rows /\ work'[k] = "threw" /\ outcome' = outcome
              \/ work[k] = "choosing" /\ Takes(k) /\ work'[k] = "handshake" /\ outcome' = outcome
              \/ work[k] = "choosing" /\ UNCHANGED rows /\ work'[k] = "done" /\ Schedule(k) /\ outcome' = outcome
              \/ work[k] = "handshake" /\ Lives(k) /\ work'[k] = "done" /\ outcome' = outcome
              \/ work[k] = "handshake" /\ (Leaves(k) \/ GivesBack(k)) /\ work'[k] = "done" /\ Schedule(k) /\ outcome' = outcome
<1>1. CASE Unmounts(k)
  BY <1>1 DEF Unmounts, Mounting, Frees, Shaped, WorkType
<1>2. CASE UnmountFails(k)
  BY <1>2 DEF UnmountFails, Mounting, Shaped, WorkType, ReportType
<1>3. CASE Prepared(k)
  BY <1>3 DEF Prepared, Mounting, Shaped, WorkType, ReportType
<1>4. CASE Throws(k)
  BY <1>4 DEF Throws, Mounting, Shaped, WorkType
<1>5. CASE TakesName(k)
  BY <1>5 DEF TakesName, Mounting, Takes, Shaped, WorkType
<1>6. CASE Refused(k)
  BY <1>6 DEF Refused, Mounting, Shaped, WorkType
<1>7. CASE Mounts(k)
  BY <1>7 DEF Mounts, Mounting, Lives, Shaped, WorkType
<1>8. CASE MountFails(k)
  BY <1>8 DEF MountFails, Mounting, Leaves, GivesBack, Shaped, WorkType
<1> QED
  BY <1>1, <1>2, <1>3, <1>4, <1>5, <1>6, <1>7, <1>8 DEF MountStep

\* It leaves the other keys and names alone.
LEMMA OthersStand ==
    ASSUME Shaped, NEW k \in Keys, MountStep(k)
    PROVE  /\ \A j \in Keys \ {k} : work'[j] = work[j] /\ live'[j] = live[j] /\ outcome'[j] = outcome[j]
           /\ \A n \in Names \ {NameOf[k]} : names'[n] = names[n]
<1>1. \A j \in Keys \ {k} : work'[j] = work[j] /\ outcome'[j] = outcome[j]
  BY DEF MountStep, Unmounts, UnmountFails, Prepared, Throws, TakesName, Refused, Mounts, MountFails, Shaped, WorkType, ReportType
<1>2. /\ \A j \in Keys \ {k} : live'[j] = live[j]
      /\ \A n \in Names \ {NameOf[k]} : names'[n] = names[n]
  BY RowSteps DEF Frees, Takes, Lives, Leaves, GivesBack, rows, Shaped, RowType
<1> QED
  BY <1>1, <1>2

\* A name that is served stays served, but for the teardown of its server.
LEMMA ServedStays ==
    ASSUME Shaped, Orderly, NEW k \in Keys, MountStep(k), NEW n \in Names, Served(n), work[k] # "unmounting" \/ NameOf[k] # n
    PROVE  Served(n)'
<1>1. CASE n \in left
  BY <1>1, MountLeaves DEF Served
<1>2. CASE n \notin left
  <2>1. names[n] # NoKey /\ live[names[n]] # 0 /\ names[n] \in Keys /\ NameOf[names[n]] = n
    BY <1>2 DEF Served, Shaped, RowType
  <2>2. CASE NameOf[k] # n
    <3>1. names[n] \in Keys \ {k}
      BY <2>1, <2>2
    <3> QED
      BY <2>1, <2>2, <3>1, OthersStand DEF Served
  <2>3. CASE NameOf[k] = n
    <3>1. UNCHANGED rows \/ work[k] \in {"choosing", "handshake"}
      BY <2>3, RowSteps
    <3>2. work[k] \notin {"choosing", "handshake"}
      BY <2>1, <2>3 DEF Orderly, Placed, Owner
    <3> QED
      BY <2>1, <3>1, <3>2 DEF Served, rows
  <2> QED
    BY <2>2, <2>3
<1> QED
  BY <1>1, <1>2

\* Key by key, the batch stays in order.
LEMMA MountOrderly ==
    ASSUME Shaped, Orderly, NEW k \in Keys, MountStep(k), AllDisposed <=> AllDisposed'
    PROVE  Orderly'
<1>0. Mounting(k) /\ pass' = pass /\ queue' = queue /\ NameOf[k] \in Names
  BY RowSteps, MountLeaves, KeysAssumption
<1>1. Disposing'
  BY <1>0 DEF Orderly, Disposing
<1>2. Staged'
  <2>1. pass.stage \notin {"idle", "reading"}
    BY <1>0 DEF Orderly, Staged, Mounting
  <2>2. pass.stage = "removing" => work[k] = "unmounting" /\ work'[k] = "done"
    BY RowSteps, <1>0 DEF Orderly, Staged, Mounting
  <2>3. Batch => Wanted(k)
    BY <1>0 DEF Orderly, Staged, Mounting
  <2> QED
    BY <1>0, <2>1, <2>2, <2>3, OthersStand DEF Orderly, Staged, Batch, Wanted
<1>3. Placed'
  <2>1. ASSUME NEW j \in Keys \ {k}
        PROVE  /\ work'[j] = "unmounting" => live'[j] # 0 /\ pass'.stage # "taking"
               /\ work'[j] \in {"preparing", "choosing", "handshake"} => live'[j] = 0
               /\ work'[j] = "choosing" => Owner(j)' = NoKey
               /\ work'[j] = "handshake" => Owner(j)' = j
    <3>1. NameOf[j] = NameOf[k] => work[j] \notin {"choosing", "handshake"}
      BY <1>0, AloneWithItsName
    <3>2. NameOf[j] # NameOf[k] => Owner(j)' = Owner(j)
      BY OthersStand, KeysAssumption DEF Owner
    <3> QED
      BY <1>0, <3>1, <3>2, OthersStand DEF Orderly, Placed
  <2>2. /\ work'[k] # "unmounting"
        /\ work'[k] \in {"preparing", "choosing", "handshake"} => live'[k] = 0
        /\ work'[k] = "choosing" => Owner(k)' = NoKey
        /\ work'[k] = "handshake" => Owner(k)' = k
    BY <1>0, RowSteps DEF Orderly, Placed, Owner, rows, Frees, Takes, Shaped, RowType
  <2> QED
    BY <2>1, <2>2 DEF Placed
<1>4. Named'
  <2>1. ASSUME NEW j \in Keys, live'[j] # 0 PROVE Owner(j)' = j
    <3>1. CASE j = k
      <4>1. ~Frees(k)
        BY <2>1, <3>1 DEF Frees, Shaped, RowType
      <4>2. CASE UNCHANGED rows \/ Leaves(k)
        BY <2>1, <3>1, <4>2 DEF rows, Leaves, Owner, Orderly, Named
      <4>3. CASE Takes(k) \/ Lives(k)
        BY <1>0, <3>1, <4>3 DEF Takes, Lives, Owner, Shaped, RowType
      <4>4. ~(work[k] = "handshake" /\ GivesBack(k))
        BY <2>1, <3>1 DEF GivesBack, Orderly, Placed
      <4> QED
        BY <4>1, <4>2, <4>3, <4>4, RowSteps
    <3>2. CASE j # k
      <4>1. live[j] # 0 /\ Owner(j) = j
        BY <2>1, <3>2, OthersStand DEF Orderly, Named
      <4>2. CASE NameOf[j] = NameOf[k]
        <5>1. work[k] = "preparing"
          BY <1>0, <3>2, <4>1, <4>2, AloneWithItsName
        <5>2. UNCHANGED rows
          BY <5>1, RowSteps
        <5> QED
          BY <4>1, <5>2 DEF rows, Owner
      <4>3. CASE NameOf[j] # NameOf[k]
        BY <4>1, <4>3, OthersStand, KeysAssumption DEF Owner
      <4> QED
        BY <4>2, <4>3
    <3> QED
      BY <3>1, <3>2
  <2>2. ASSUME NEW n \in Names, names'[n] # NoKey PROVE Served(n)' \/ work'[names'[n]] = "handshake"
    <3>1. CASE n # NameOf[k]
      <4>1. names'[n] = names[n] /\ names[n] \in Keys /\ NameOf[names[n]] = n
        BY <2>2, <3>1, OthersStand DEF Shaped, RowType
      <4>2. names[n] \in Keys \ {k}
        BY <3>1, <4>1
      <4>3. Served(n) \/ work[names[n]] = "handshake"
        BY <2>2, <4>1 DEF Orderly, Named
      <4> QED
        BY <3>1, <4>1, <4>2, <4>3, ServedStays, OthersStand
    <3>2. CASE n = NameOf[k]
      <4>1. CASE UNCHANGED rows
        <5>1. names[n] # NoKey /\ names[n] \in Keys /\ names'[n] = names[n]
          BY <2>2, <4>1 DEF rows, Shaped, RowType
        <5>2. Served(n) \/ work[names[n]] = "handshake"
          BY <5>1 DEF Orderly, Named
        <5>3. Served(n) => Served(n)'
          BY <4>1 DEF rows, Served
        <5>4. CASE n \in left
          BY <4>1, <5>4 DEF rows, Served
        <5>5. CASE n \notin left
          <6>1. ~(work[k] = "handshake" /\ Lives(k))
            BY <1>0, <4>1, AdditionsAreWanted DEF rows, Lives, Orderly, Placed, Shaped, RowType
          <6>2. ~(work[k] = "handshake" /\ (Leaves(k) \/ GivesBack(k)))
            BY <1>0, <3>2, <4>1, <5>5, KeysAssumption DEF rows, Leaves, GivesBack, Orderly, Placed, Owner, Shaped, RowType
          <6>3. work[names[n]] # "handshake"
            BY <1>0, <3>2, <5>1, <6>1, <6>2, RowSteps, AloneWithItsName DEF Shaped, RowType
          <6> QED
            BY <5>2, <5>3, <6>3
        <5> QED
          BY <5>4, <5>5
      <4>2. CASE Frees(k) \/ GivesBack(k)
        BY <1>0, <2>2, <3>2, <4>2 DEF Frees, GivesBack, Shaped, RowType
      <4>3. CASE Takes(k) /\ work'[k] = "handshake"
        BY <1>0, <3>2, <4>3 DEF Takes, Shaped, RowType
      <4>4. CASE Lives(k) /\ work[k] = "handshake"
        <5>1. pass.wanted[k] # 0
          BY <4>4, AdditionsAreWanted
        <5> QED
          BY <1>0, <3>2, <4>4, <5>1, KeysAssumption DEF Lives, Served, Shaped, RowType
      <4>5. CASE Leaves(k)
        BY <3>2, <4>5 DEF Leaves, Served
      <4> QED
        BY <4>1, <4>2, <4>3, <4>4, <4>5, RowSteps
    <3> QED
      BY <3>1, <3>2
  <2> QED
    BY <2>1, <2>2 DEF Named
<1>5. Single'
  <2>1. Batch' => \A i, j \in Keys : work'[i] # "none" /\ work'[j] # "none" /\ NameOf[i] = NameOf[j] => i = j
    <3>1. \A j \in Keys : work'[j] # "none" => work[j] # "none"
      BY <1>0, OthersStand DEF Mounting
    <3> QED
      BY <1>0, <3>1 DEF Orderly, Single, Batch
  <2>2. Batch => \A j \in pass.claimants : j \in Keys \ {k}
    BY <1>0 DEF Orderly, Single, Mounting, Shaped, PassType
  <2>3. pass.stage = "taking" => \A j \in pass.claimants : Served(NameOf[j])'
    <3>1. pass.stage = "taking" => work[k] # "unmounting"
      BY DEF Orderly, Placed
    <3> QED
      BY <2>2, <3>1, ServedStays, KeysAssumption DEF Orderly, Single, Batch
  <2> QED
    BY <1>0, <2>1, <2>2, <2>3, OthersStand DEF Orderly, Single, Batch, Wanted
<1>6. Redundant'
  <2>1. pass.stage = "removing" => outcome'[k] = outcome[k] \/ outcome'[k] = "stuck"
    BY <1>0, RowSteps, AdditionsAreWanted DEF Batch
  <2>2. work'[k] # "none"
    BY RowSteps
  <2> QED
    BY <1>0, <2>1, <2>2, OthersStand DEF Orderly, Redundant
<1> QED
  BY <1>1, <1>2, <1>3, <1>4, <1>5, <1>6 DEF Orderly

\* When a batch is over, every name that is owned is served, so nothing is freed.
LEMMA NothingToFree ==
    ASSUME Shaped, Orderly, AllDone
    PROVE  /\ \A n \in Names : names[n] # NoKey => Served(n)
           /\ Freed = names
<1>1. \A n \in Names : names[n] # NoKey => Served(n)
  BY DEF Orderly, Named, AllDone, Shaped, RowType
<1>2. \A n \in Names : names[n] # NoKey => Reserved(n)
  BY <1>1 DEF Served, Reserved, Shaped, RowType
<1>3. \A n \in Names : Freed[n] = names[n]
  BY <1>2 DEF Freed
<1> QED
  BY <1>1, <1>3 DEF Freed, Shaped, RowType

\* An addition of a batch is alone with its name, since one claims it; a copy
\* that is left out finds its owner among the others, so it is the last.
LEMMA OneClaims ==
    ASSUME TwoCopies, Shaped, NEW due \in SUBSET Keys, NEW i \in due, NEW j \in due, i # j, NameOf[i] = NameOf[j]
    PROVE  /\ ~(Claims(i, due) /\ Claims(j, due))
           /\ Claims(i, due) \/ Claims(j, due)
<1>1. Owner(i) = Owner(j) /\ Owner(i) \in Keys \cup {NoKey} /\ i \in Keys /\ j \in Keys /\ NameOf[i] \in Names
  BY KeysAssumption DEF Owner, Shaped, RowType
<1>2. Rank[i] \in Nat /\ Rank[j] \in Nat /\ Rank[i] # Rank[j]
  BY <1>1, KeysAssumption
<1>3. CASE Owner(i) = NoKey
  <2>1. \A l \in due : NameOf[l] = NameOf[i] => l = i \/ l = j
    BY <1>1 DEF TwoCopies
  <2>2. Rank[i] <= Rank[j] => Claims(i, due)
    BY <1>2, <1>3, <2>1 DEF Claims
  <2>3. Rank[j] <= Rank[i] => Claims(j, due)
    BY <1>1, <1>2, <1>3, <2>1 DEF Claims
  <2>4. ~(Claims(i, due) /\ Claims(j, due))
    <3>1. Owner(i) # i /\ Owner(j) # j
      BY <1>1, <1>3, KeysAssumption
    <3>2. Claims(i, due) => Rank[i] <= Rank[j]
      BY <3>1 DEF Claims
    <3>3. Claims(j, due) => Rank[j] <= Rank[i]
      BY <3>1 DEF Claims
    <3> QED
      BY <1>2, <3>2, <3>3
  <2> QED
    BY <1>2, <2>2, <2>3, <2>4
<1>4. CASE Owner(i) # NoKey
  <2>1. Owner(i) \in Keys /\ NameOf[Owner(i)] = NameOf[i]
    BY <1>1, <1>4 DEF Owner, Shaped, RowType
  <2>2. Owner(i) = i \/ Owner(i) = j
    BY <1>1, <2>1 DEF TwoCopies
  <2> QED
    BY <1>1, <1>4, <2>2 DEF Claims
<1> QED
  BY <1>3, <1>4

\* The steps of a pass keep names, batches and stages in order.
LEMMA PassOrderly ==
    ASSUME TwoCopies, Shaped, Orderly, PassStep, AllDisposed <=> AllDisposed'
    PROVE  Orderly'
<1>1. CASE PassStarts
  <2>1. queue \in Seq(Passes) /\ queue # <<>> /\ queue' = Tail(queue) /\ UNCHANGED rows
    BY <1>1 DEF PassStarts, Shaped, QueueType
  <2>2. \A k \in Keys : work[k] = "none"
    BY <1>1, NoPassShaped DEF PassStarts, Idle, Orderly, Staged
  <2>3. \/ /\ pass'.stage = "removing" /\ pass'.kind = "dispose" /\ AllDisposed
           /\ work' = [k \in Keys |-> IF live[k] # 0 THEN "unmounting" ELSE "none"]
        \/ pass'.stage = "reading" /\ pass'.kind # "dispose" /\ work' = work
    <3>1. Head(queue).kind = "dispose" => AllDisposed
      BY <2>1, QueueAdvances DEF Orderly, Disposing
    <3>2. CASE Head(queue).kind = "dispose"
      <4>1. /\ pass' = [NoPass EXCEPT !.stage = "removing", !.kind = "dispose"]
            /\ work' = [k \in Keys |-> IF live[k] # 0 THEN "unmounting" ELSE "none"]
        BY <1>1, <3>2 DEF PassStarts
      <4>2. pass'.stage = "removing" /\ pass'.kind = "dispose"
        BY <4>1, NoPassShaped DEF PassType
      <4> QED
        BY <3>1, <3>2, <4>1, <4>2
    <3>3. CASE Head(queue).kind # "dispose"
      <4>1. pass' = [NoPass EXCEPT !.stage = "reading", !.kind = Head(queue).kind] /\ work' = work
        BY <1>1, <3>3 DEF PassStarts
      <4>2. pass'.stage = "reading" /\ pass'.kind = Head(queue).kind
        BY <4>1, NoPassShaped DEF PassType
      <4> QED
        BY <3>3, <4>1, <4>2
    <3> QED
      BY <3>2, <3>3
  <2>4. Disposing'
    BY <2>1, <2>3, QueueAdvances DEF Orderly, Disposing
  <2>5. Staged' /\ Single' /\ Redundant'
    BY <2>2, <2>3 DEF Staged, Single, Redundant, Batch
  <2>6. Placed'
    BY <2>1, <2>2, <2>3 DEF Placed, rows
  <2>7. Named'
    <3>1. \A n \in Names : names[n] # NoKey => Served(n)
      BY <2>2 DEF Orderly, Named, Shaped, RowType
    <3> QED
      BY <2>1, <3>1 DEF Orderly, Named, rows, Owner, Served
  <2> QED
    BY <2>4, <2>5, <2>6, <2>7 DEF Orderly
<1>2. CASE PassReads
  <2>0. \A k \in Keys : work[k] = "none"
    BY <1>2 DEF PassReads, Orderly, Staged
  <2>1. pass'.stage = "removing" /\ pass'.kind = pass.kind /\ pass.stage = "reading" /\ UNCHANGED <<queue, rows>>
    BY <1>2 DEF PassReads, Shaped, PassType, lifecycle
  <2>2. /\ work' = [k \in Keys |-> IF live[k] # 0 /\ pass'.wanted[k] = 0 THEN "unmounting" ELSE "none"]
        /\ outcome' = [k \in Keys |-> "none"]
    BY <1>2 DEF PassReads
  <2>3. Disposing' /\ Staged' /\ Single' /\ Redundant'
    BY <2>1, <2>2 DEF Orderly, Disposing, Staged, Single, Redundant, Batch
  <2>4. Placed'
    BY <2>1, <2>2 DEF Placed, rows
  <2>5. Named'
    <3>1. \A n \in Names : names[n] # NoKey => Served(n)
      BY <2>0 DEF Orderly, Named, Shaped, RowType
    <3> QED
      BY <2>1, <3>1 DEF Orderly, Named, rows, Owner, Served
  <2> QED
    BY <2>3, <2>4, <2>5 DEF Orderly
<1>3. CASE PassRejects \/ DisposeEnds
  <2>1. pass' = NoPass /\ UNCHANGED <<queue, rows>> /\ \A k \in Keys : work'[k] = "none"
    BY <1>3 DEF PassRejects, DisposeEnds, Orderly, Staged, lifecycle
  <2>2. \A n \in Names : names[n] # NoKey => Served(n)
    BY <1>3 DEF PassRejects, DisposeEnds, AllDone, Orderly, Staged, Named, Shaped, RowType
  <2>3. Disposing' /\ Staged' /\ Single' /\ Redundant'
    BY <2>1, NoPassShaped DEF Orderly, Disposing, Staged, Single, Redundant, Batch
  <2>4. Placed' /\ Named'
    BY <2>1, <2>2 DEF Orderly, Placed, Named, rows, Owner, Served
  <2> QED
    BY <2>3, <2>4 DEF Orderly
<1>4. CASE PlanAdditions
  <2> DEFINE due == {k \in Keys : Wanted(k) /\ ~Matches(k)}
             additions == {k \in due : Claims(k, due)}
  <2>1. /\ pass' = [pass EXCEPT !.stage = "adding", !.claimants = due \ additions]
        /\ work' = Starts(additions) /\ UNCHANGED <<queue, rows, outcome>>
        /\ pass.stage = "removing" /\ pass.kind # "dispose" /\ AllDone
    BY <1>4 DEF PlanAdditions
  <2>2. due \in SUBSET Keys /\ additions \in SUBSET Keys /\ \A k \in due : Wanted(k)
    OBVIOUS
  <2>3. \A i, j \in due : i # j /\ NameOf[i] = NameOf[j] =>
            ~(i \in additions /\ j \in additions) /\ (i \in additions \/ j \in additions)
    BY <2>2, OneClaims
  <2>4. \A k \in due : k \notin additions => live[k] = 0
    <3>1. \A k \in due : Owner(k) = k => k \in additions
      BY DEF Claims
    <3> QED
      BY <2>2, <3>1 DEF Orderly, Named
  <2>5. additions \subseteq due
    OBVIOUS
  <2> HIDE DEF due, additions
  <2>6. /\ pass'.stage = "adding" /\ pass'.kind = pass.kind /\ pass'.wanted = pass.wanted
        /\ pass'.claimants = due \ additions
    BY <2>1 DEF Shaped, PassType
  <2>7. /\ \A k \in Keys : work'[k] # "none" <=> k \in additions
        /\ \A k \in Keys : work'[k] \in {"none", "unmounting", "preparing"}
        /\ \A k \in Keys : work'[k] = "unmounting" => live[k] # 0
        /\ \A k \in Keys : work'[k] = "preparing" => live[k] = 0
    BY <2>1, <2>2, StartsWork DEF Shaped
  <2>8. Disposing' /\ Staged'
    BY <2>1, <2>2, <2>5, <2>6, <2>7 DEF Orderly, Disposing, Staged, Batch, Wanted
  <2>9. Placed'
    BY <2>1, <2>6, <2>7 DEF Placed, rows
  <2>10. Named'
    BY <2>1, NothingToFree DEF Orderly, Named, rows, Owner, Served
  <2>11. Single'
    <3>1. \A k \in due \ additions : Wanted(k)' /\ live'[k] = 0 /\ work'[k] = "none"
      BY <2>1, <2>2, <2>4, <2>6, <2>7 DEF Wanted, rows
    <3>2. \A i, j \in Keys : work'[i] # "none" /\ work'[j] # "none" /\ NameOf[i] = NameOf[j] => i = j
      BY <2>3, <2>5, <2>7
    <3>3. \A i, j \in due \ additions : NameOf[i] = NameOf[j] => i = j
      BY <2>3
    <3> QED
      BY <2>6, <3>1, <3>2, <3>3 DEF Single
  <2>12. Redundant'
    BY <2>1, <2>6 DEF Orderly, Redundant
  <2> QED
    BY <2>8, <2>9, <2>10, <2>11, <2>12 DEF Orderly
<1>5. CASE AdditionsEnd
  <2> DEFINE takeover == {k \in pass.claimants : names[NameOf[k]] = NoKey}
  <2>1. names' = names /\ \A n \in Names : names[n] # NoKey => Served(n)
    BY <1>5, NothingToFree DEF AdditionsEnd
  <2>2. /\ pass' = [pass EXCEPT !.stage = "taking", !.claimants = @ \ takeover]
        /\ work' = Starts(takeover) /\ UNCHANGED <<queue, live, left, outcome>> /\ pass.stage = "adding"
    BY <1>5, NothingToFree DEF AdditionsEnd
  <2>3. /\ takeover \in SUBSET Keys /\ takeover \subseteq pass.claimants /\ pass.claimants \in SUBSET Keys
        /\ \A k \in pass.claimants \ takeover : names[NameOf[k]] # NoKey
    BY DEF Shaped, PassType
  <2> HIDE DEF takeover
  <2>4. /\ pass'.stage = "taking" /\ pass'.kind = pass.kind /\ pass'.wanted = pass.wanted
        /\ pass'.claimants = pass.claimants \ takeover
    BY <2>2 DEF Shaped, PassType
  <2>5. \A k \in pass.claimants : Wanted(k) /\ live[k] = 0
    BY <2>2 DEF Orderly, Single, Batch
  <2>6. \A k \in Keys : work'[k] = IF k \in takeover THEN "preparing" ELSE "none"
    BY <2>2, <2>3, <2>5, StartsWork DEF Shaped
  <2>7. Disposing' /\ Staged' /\ Redundant'
    BY <2>2, <2>3, <2>4, <2>5, <2>6 DEF Orderly, Disposing, Staged, Redundant, Batch, Wanted
  <2>8. Placed' /\ Named'
    BY <2>1, <2>2, <2>3, <2>5, <2>6 DEF Orderly, Placed, Named, Owner, Served
  <2>9. Single'
    <3>1. \A i, j \in pass.claimants : NameOf[i] = NameOf[j] => i = j
      BY <2>2 DEF Orderly, Single
    <3>2. \A k \in pass.claimants \ takeover : Served(NameOf[k])'
      BY <2>1, <2>2, <2>3, KeysAssumption DEF Served
    <3>3. \A i, j \in Keys : work'[i] # "none" /\ work'[j] # "none" /\ NameOf[i] = NameOf[j] => i = j
      BY <2>3, <2>6, <3>1
    <3>4. \A k \in pass.claimants \ takeover : Wanted(k)' /\ live'[k] = 0 /\ work'[k] = "none"
      BY <2>2, <2>3, <2>4, <2>5, <2>6 DEF Wanted
    <3> QED
      BY <2>4, <3>2, <3>3, <3>4 DEF Single
  <2> QED
    BY <2>7, <2>8, <2>9 DEF Orderly
<1>6. CASE PassEnds
  <2>1. names' = names /\ \A n \in Names : names[n] # NoKey => Served(n)
    BY <1>6, NothingToFree DEF PassEnds
  <2>2. pass' = NoPass /\ UNCHANGED <<queue, live, left>> /\ \A k \in Keys : work'[k] = "none"
    BY <1>6 DEF PassEnds
  <2>3. Disposing' /\ Staged' /\ Single' /\ Redundant'
    BY <2>2, NoPassShaped DEF Orderly, Disposing, Staged, Single, Redundant, Batch
  <2>4. Placed' /\ Named'
    BY <2>1, <2>2 DEF Orderly, Placed, Named, Owner, Served
  <2> QED
    BY <2>3, <2>4 DEF Orderly
<1> QED
  BY <1>1, <1>2, <1>3, <1>4, <1>5, <1>6 DEF PassStep

-----------------------------------------------------------------------------
(* What a pass has carried out                                              *)

\* The world asks for a pass, or changes nothing that one has dealt with.
LEMMA WorldPends ==
    ASSUME Shaped, World, ~AllDisposed'
    PROVE  Pending' \/ UNCHANGED <<queue, timers, config, owed>>
<1>1. CASE SuitesChange \/ ForceRemount
  BY <1>1 DEF SuitesChange, ForceRemount, Pending
<1>2. CASE ForeignChanges
  BY <1>2 DEF ForeignChanges, lifecycle
<1>3. CASE Asks \/ \E k \in Keys : RetryFires(k)
  <2>1. PICK p : queue' = Append(queue, p)
    BY <1>3 DEF Asks, RetryFires, Fires, Queue
  <2>2. queue' # <<>>
    BY <2>1 DEF Shaped, QueueType
  <2> QED
    BY <2>2 DEF Pending
<1>4. CASE DisposeAll
  BY <1>4 DEF DisposeAll, AllDisposed
<1> QED
  BY <1>1, <1>2, <1>3, <1>4 DEF World

\* So the world leaves nothing behind,
LEMMA WorldCarriesOn ==
    ASSUME Shaped, CarriedOut, NoneForgotten, World, AllDisposed => AllDisposed'
    PROVE  CarriedOut' /\ NoneForgotten'
<1>1. CASE AllDisposed'
  BY <1>1 DEF CarriedOut, NoneForgotten
<1>2. CASE Pending'
  BY <1>2, WorldLeaves, NoPassShaped DEF CarriedOut, NoneForgotten, AtRest, Pending, Idle
<1>3. CASE ~AllDisposed' /\ UNCHANGED <<queue, timers, config, owed>>
  <2>1. CarriedOut'
    BY <1>3, WorldLeaves DEF CarriedOut, Pending, Batch, Wanted, Mounting, Covered, GaveUp, Excused, Served
  <2>2. NoneForgotten'
    BY <1>3, WorldLeaves DEF NoneForgotten, AtRest, Idle, Serves, Owner, GaveUp, Excused, Served
  <2> QED
    BY <2>1, <2>2
<1> QED
  BY <1>1, <1>2, <1>3, WorldPends

\* a pass that ends has dealt with every server it was given,
LEMMA PassCarriesOn ==
    ASSUME Shaped, Orderly, CarriedOut, PassStep, AllDisposed <=> AllDisposed'
    PROVE  CarriedOut' /\ NoneForgotten'
<1>1. CASE PassStarts
  <2>1. queue \in Seq(Passes) /\ queue # <<>>
    BY <1>1 DEF PassStarts, Shaped, QueueType
  <2>2. Head(queue).kind = "dispose" => AllDisposed
    BY <2>1, QueueAdvances DEF Orderly, Disposing
  <2>3. \/ pass' = [NoPass EXCEPT !.stage = "removing", !.kind = "dispose"] /\ AllDisposed
        \/ pass' = [NoPass EXCEPT !.stage = "reading", !.kind = Head(queue).kind]
    BY <1>1, <2>2 DEF PassStarts
  <2>4. (pass'.stage = "removing" /\ AllDisposed) \/ pass'.stage = "reading"
    BY <2>3, NoPassShaped DEF PassType
  <2>5. ~Idle'
    BY <2>4, NoPassShaped DEF Idle
  <2> QED
    BY <2>4, <2>5 DEF CarriedOut, NoneForgotten, AtRest
<1>2. CASE PassReads
  <2> DEFINE wanted == [k \in Keys |-> IF k \in lastEnabled THEN config[k] ELSE 0]
  <2>1. pass' = [pass EXCEPT !.stage = "removing", !.wanted = wanted]
    BY <1>2 DEF PassReads
  <2> HIDE DEF wanted
  <2>2. pass'.stage = "removing" /\ pass'.wanted = wanted
    BY <2>1 DEF Shaped, PassType
  <2>3. UNCHANGED <<lastEnabled, config>>
    BY <1>2 DEF PassReads, world
  <2>4. \A k \in Keys : pass'.wanted[k] = IF k \in lastEnabled' THEN config'[k] ELSE 0
    BY <2>2, <2>3 DEF wanted
  <2>5. ~Idle' /\ ~Batch'
    BY <2>2, NoPassShaped DEF Idle, Batch
  <2> QED
    BY <2>4, <2>5 DEF CarriedOut, NoneForgotten, AtRest
<1>3. CASE PassRejects \/ DisposeEnds
  <2>1. pass' = NoPass /\ (rejected' \/ AllDisposed')
    BY <1>3 DEF PassRejects, DisposeEnds, Orderly, Disposing
  <2> QED
    BY <2>1, NoPassShaped DEF CarriedOut, NoneForgotten
<1>4. CASE PlanAdditions
  <2> DEFINE due == {k \in Keys : Wanted(k) /\ ~Matches(k)}
             additions == {k \in due : Claims(k, due)}
  <2>1. /\ pass' = [pass EXCEPT !.stage = "adding", !.claimants = due \ additions]
        /\ work' = Starts(additions) /\ UNCHANGED <<queue, owed, config, lastEnabled, rows>> /\ pass.stage = "removing"
    BY <1>4 DEF PlanAdditions, world
  <2>2. additions \in SUBSET Keys /\ additions \subseteq due
    OBVIOUS
  <2>3. \A k \in Keys : Wanted(k) /\ k \notin due => live[k] = pass.wanted[k]
    BY DEF Matches
  <2> HIDE DEF due, additions
  <2>4. pass'.stage = "adding" /\ pass'.wanted = pass.wanted /\ pass'.claimants = due \ additions
    BY <2>1 DEF Shaped, PassType
  <2>5. \A k \in additions : work'[k] \in {"unmounting", "preparing"}
    BY <2>1, <2>2, StartsWork DEF Shaped
  <2>6. ASSUME NEW k \in Keys, Wanted(k)' PROVE Mounting(k)' \/ k \in pass'.claimants \/ Covered(k)'
    <3>1. CASE k \in additions
      BY <2>5, <3>1 DEF Mounting
    <3>2. CASE k \in due \ additions
      BY <2>4, <3>2
    <3>3. CASE k \notin due
      BY <2>1, <2>3, <2>4, <2>6, <3>3 DEF Wanted, Covered, rows
    <3> QED
      BY <2>2, <3>1, <3>2, <3>3
  <2>7. CarriedOut'
    BY <2>1, <2>4, <2>6 DEF CarriedOut, Pending
  <2>8. ~Idle'
    BY <2>4, NoPassShaped DEF Idle
  <2> QED
    BY <2>7, <2>8 DEF NoneForgotten, AtRest
<1>5. CASE AdditionsEnd
  <2> DEFINE takeover == {k \in pass.claimants : names[NameOf[k]] = NoKey}
  <2>1. /\ pass' = [pass EXCEPT !.stage = "taking", !.claimants = @ \ takeover] /\ names' = names
        /\ work' = Starts(takeover) /\ UNCHANGED <<queue, owed, config, lastEnabled, live, left, outcome>>
        /\ pass.stage = "adding" /\ AllDone /\ Retry(Threw, {})
    BY <1>5, NothingToFree DEF AdditionsEnd, world
  <2>2. takeover \in SUBSET Keys /\ Threw \in SUBSET Keys
    BY DEF Shaped, PassType, Threw
  <2> HIDE DEF takeover
  <2>3. pass'.stage = "taking" /\ pass'.wanted = pass.wanted /\ pass'.claimants = pass.claimants \ takeover
    BY <2>1 DEF Shaped, PassType
  <2>4. \A k \in takeover : Mounting(k)'
    BY <2>1, <2>2, StartsWork DEF Shaped, Mounting
  <2>5. /\ \A k \in Threw : k \in timers' \/ GaveUp(k)'
        /\ \A k \in Keys \ Threw : (k \in timers' <=> k \in timers) /\ attempts'[k] = attempts[k]
    BY <2>1, <2>2, RetryOutcome DEF Shaped
  <2>6. ASSUME ~AllDisposed, ~Pending, NEW k \in Keys, Wanted(k)
        PROVE  Mounting(k)' \/ k \in pass'.claimants \/ Covered(k)'
    <3>1. k \in Threw \/ k \in pass.claimants \/ Covered(k)
      BY <2>1, <2>6 DEF CarriedOut, Batch, AllDone, Threw, Mounting
    <3>2. CASE k \in Threw
      BY <2>5, <3>2 DEF Covered
    <3>3. CASE k \in pass.claimants
      BY <2>3, <2>4, <3>3
    <3>4. CASE Covered(k) /\ k \notin Threw
      BY <2>1, <2>3, <2>5, <3>4 DEF Covered, GaveUp, Excused, Served
    <3> QED
      BY <3>1, <3>2, <3>3, <3>4
  <2>7. CarriedOut'
    BY <2>1, <2>3, <2>6 DEF CarriedOut, Pending, Wanted
  <2>8. ~Idle'
    BY <2>3, NoPassShaped DEF Idle
  <2> QED
    BY <2>7, <2>8 DEF NoneForgotten, AtRest
<1>6. CASE PassEnds
  <2>1. /\ pass' = NoPass /\ names' = names /\ UNCHANGED <<queue, owed, config, lastEnabled, live, left, rejected>>
        /\ pass.stage = "taking" /\ AllDone /\ Retry(Threw, pass.claimants)
        /\ outcome' = [k \in Keys |-> IF k \in pass.claimants THEN "duplicate" ELSE outcome[k]]
    BY <1>6, NothingToFree DEF PassEnds, world
  <2>2. /\ Threw \in SUBSET Keys /\ pass.claimants \in SUBSET Keys /\ Threw \cap pass.claimants = {}
        /\ \A k \in pass.claimants : Served(NameOf[k])
    BY <2>1 DEF Shaped, PassType, Threw, Orderly, Single, Batch
  <2>3. /\ \A k \in Threw : k \in timers' \/ GaveUp(k)'
        /\ \A k \in Keys \ (Threw \cup pass.claimants) : (k \in timers' <=> k \in timers) /\ attempts'[k] = attempts[k]
    BY <2>1, <2>2, RetryOutcome DEF Shaped
  <2>4. ASSUME ~AllDisposed, ~Pending, NEW k \in lastEnabled, config[k] # 0
        PROVE  Serves(k)' \/ k \in timers' \/ GaveUp(k)' \/ Excused(k)'
    <3>1. k \in Keys /\ pass.wanted[k] = config[k] /\ Wanted(k)
      BY <2>1, <2>4 DEF CarriedOut, Shaped, WorldType, Wanted
    <3>2. k \in Threw \/ k \in pass.claimants \/ Covered(k)
      BY <2>1, <2>4, <3>1 DEF CarriedOut, Batch, AllDone, Threw, Mounting
    <3>3. CASE k \in Threw
      BY <2>3, <3>3
    <3>4. CASE k \in pass.claimants
      BY <2>1, <2>2, <3>1, <3>4 DEF Excused, Served
    <3>5. CASE Covered(k) /\ k \notin Threw \cup pass.claimants
      <4>1. live[k] = pass.wanted[k] => Serves(k)'
        BY <2>1, <2>4, <3>1 DEF Orderly, Named, Serves, Owner
      <4>2. Excused(k) => Excused(k)'
        BY <2>1, <3>1, <3>5 DEF Excused, Served
      <4> QED
        BY <2>3, <3>1, <3>5, <4>1, <4>2 DEF Covered, GaveUp
    <3> QED
      BY <3>2, <3>3, <3>4, <3>5
  <2>5. NoneForgotten'
    BY <2>1, <2>4 DEF NoneForgotten, AtRest, Pending
  <2> QED
    BY <2>1, <2>5, NoPassShaped DEF CarriedOut
<1> QED
  BY <1>1, <1>2, <1>3, <1>4, <1>5, <1>6 DEF PassStep

\* a step of one addition leaves what the others were left with,
LEMMA OthersCovered ==
    ASSUME Shaped, Orderly, Batch, NEW k \in Keys, MountStep(k), NEW j \in Keys \ {k}, Covered(j)
    PROVE  Covered(j)'
<1>1. (j \in timers' <=> j \in timers) /\ attempts'[j] = attempts[j]
  <2>1. CASE Settle(k)
    BY <2>1, RetryOutcome DEF Shaped, Settle
  <2>2. CASE Schedule(k)
    BY <2>2, RetryOutcome DEF Shaped, Schedule
  <2> QED
    BY <2>1, <2>2, MountLeaves
<1>2. outcome[j] = "duplicate" /\ Served(NameOf[j]) => Served(NameOf[j])'
  <2>1. outcome[j] = "duplicate" /\ work[k] = "unmounting" => NameOf[k] # NameOf[j]
    BY DEF Orderly, Placed, Redundant, Single, Batch
  <2> QED
    BY <2>1, ServedStays, KeysAssumption
<1> QED
  BY <1>1, <1>2, OthersStand, MountLeaves DEF Covered, GaveUp, Excused

\* and its own key covered once it is over.
LEMMA AdditionCovers ==
    ASSUME Shaped, Orderly, Batch, NEW k \in Keys, MountStep(k)
    PROVE  Mounting(k)' \/ work'[k] = "threw" \/ Covered(k)'
<1>1. Schedule(k) => k \in timers' \/ GaveUp(k)'
  BY RetryOutcome DEF Shaped, Schedule
<1>2. CASE work[k] = "unmounting" /\ UNCHANGED rows /\ outcome'[k] = "stuck"
  BY <1>2 DEF Orderly, Placed, rows, Covered, Excused
<1>3. CASE work[k] = "preparing" /\ UNCHANGED rows /\ outcome'[k] = "duplicate" /\ Owner(k) # NoKey
  <2>1. Owner(k) \in Keys /\ NameOf[Owner(k)] = NameOf[k] /\ NameOf[k] \in Names
    BY <1>3, KeysAssumption DEF Owner, Shaped, RowType
  <2>2. work[Owner(k)] # "handshake"
    BY <1>3, <2>1, AloneWithItsName DEF Mounting
  <2>3. Served(NameOf[k])
    BY <1>3, <2>1, <2>2 DEF Orderly, Named, Owner
  <2> QED
    BY <1>3, <2>3 DEF Covered, Excused, Served, rows
<1>4. CASE Lives(k)
  BY <1>4, MountLeaves DEF Lives, Covered, Shaped, RowType
<1>5. CASE outcome'[k] = "foreign"
  BY <1>5 DEF Covered, Excused
<1>6. CASE Schedule(k)
  BY <1>1, <1>6 DEF Covered
<1>7. CASE work'[k] \in {"preparing", "choosing", "handshake", "threw"}
  BY <1>7 DEF Mounting
<1>8. pass.stage # "removing"
  BY DEF Batch
<1> QED
  BY <1>2, <1>3, <1>4, <1>5, <1>6, <1>7, <1>8, RowSteps

\* So addition by addition, the pass carries on.
LEMMA MountCarriesOn ==
    ASSUME Shaped, Orderly, CarriedOut, NEW k \in Keys, MountStep(k), AllDisposed <=> AllDisposed'
    PROVE  CarriedOut' /\ NoneForgotten'
<1>1. Mounting(k) /\ UNCHANGED <<queue, owed, config, lastEnabled, pass>>
  BY RowSteps, MountLeaves DEF world
<1>2. ~Idle
  BY <1>1, NoPassShaped DEF Idle, Orderly, Staged, Mounting
<1>3. NoneForgotten'
  BY <1>1, <1>2 DEF NoneForgotten, AtRest, Idle
<1>4. ASSUME Batch, ~AllDisposed, ~Pending, NEW j \in Keys, Wanted(j)
      PROVE  Mounting(j)' \/ work'[j] = "threw" \/ j \in pass.claimants \/ Covered(j)'
  <2>1. CASE j = k
    BY <1>4, <2>1, AdditionCovers
  <2>2. CASE j # k
    <3>1. Mounting(j) \/ work[j] = "threw" \/ j \in pass.claimants \/ Covered(j)
      BY <1>4 DEF CarriedOut, Batch
    <3> QED
      BY <1>4, <2>2, <3>1, OthersStand, OthersCovered DEF Mounting
  <2> QED
    BY <2>1, <2>2
<1>5. CarriedOut'
  BY <1>1, <1>4 DEF CarriedOut, Pending, Batch, Wanted
<1> QED
  BY <1>3, <1>5

-----------------------------------------------------------------------------
\* The first state.
LEMMA MountsInitHolds == MountsInit /\ TwoCopies => MountsInv
<1> SUFFICES ASSUME MountsInit, TwoCopies PROVE MountsInv
  OBVIOUS
<1>1. Shaped
  <2>1. QueueType /\ RetryType
    BY AttemptsAssumption DEF MountsInit, LifecycleInit, QueueType, RetryType, NoAttempts
  <2>2. WorldType
    <3>1. 1 \in Versions
      BY RegistryAssumption DEF Versions
    <3>2. config \in [Keys -> Versions]
      BY <3>1, Zenon DEF MountsInit
    <3> QED
      BY <3>2, Zenon DEF MountsInit, WorldType
  <2>3. RowType /\ pass \in PassType
    BY NoPassShaped DEF MountsInit, RowType
  <2>4. WorkType /\ ReportType
    BY DEF MountsInit, WorkType, ReportType, Steps
  <2> QED
    BY <2>1, <2>2, <2>3, <2>4 DEF Shaped
<1>2. Counters
  BY DEF MountsInit, Counters
<1>3. Orderly
  BY NoPassShaped, KeysAssumption DEF MountsInit, LifecycleInit, NoConfig, Orderly, Disposing, Staged, Placed, Named, Single,
     Redundant, Batch
<1>4. CarriedOut /\ NoneForgotten
  BY NoPassShaped DEF MountsInit, CarriedOut, NoneForgotten
<1> QED
  BY <1>1, <1>2, <1>3, <1>4, ShapeIsType DEF MountsInv

\* Every step keeps the invariant.
LEMMA MountsInvKept == MountsInv /\ [MountsNext]_mountVars => MountsInv'
<1> SUFFICES ASSUME MountsInv, [MountsNext]_mountVars PROVE MountsInv'
  OBVIOUS
<1>1. TwoCopies /\ TwoCopies' /\ Shaped /\ Counters /\ Orderly /\ CarriedOut /\ NoneForgotten /\ Single
  BY ShapeIsType DEF MountsInv, Orderly, TwoCopies
<1>2. CASE UNCHANGED mountVars
  <2>1. Shaped'
    BY <1>1, <1>2 DEF mountVars, lifecycle, world, rows, Shaped, QueueType, RetryType, WorldType, WorkType, RowType, ReportType
  <2>2. Counters' /\ Orderly'
    BY <1>1, <1>2 DEF mountVars, lifecycle, world, rows, Counters, Orderly, Disposing, Staged, Placed, Named, Single, Redundant,
       Batch, Wanted, Owner, Served, AllDisposed
  <2>3. CarriedOut' /\ NoneForgotten'
    BY <1>1, <1>2 DEF mountVars, lifecycle, world, rows, CarriedOut, NoneForgotten, Pending, Batch, Wanted, Mounting, Covered,
       GaveUp, Excused, Served, Serves, Owner, AtRest, Idle, AllDisposed
  <2> QED
    BY <1>1, <2>1, <2>2, <2>3, ShapeIsType, PTL DEF MountsInv
<1>3. CASE World
  <2>1. Counters' /\ (AllDisposed => AllDisposed')
    BY <1>1, <1>3, Counted, MountsGroups
  <2>2. Shaped' /\ Orderly' /\ CarriedOut' /\ NoneForgotten'
    BY <1>1, <1>3, <2>1, WorldShaped, WorldOrderly, WorldCarriesOn
  <2> QED
    BY <1>1, <2>1, <2>2, ShapeIsType, PTL DEF MountsInv
<1>4. CASE PassStep \/ \E k \in Keys : MountStep(k)
  <2>1. CASE World
    BY <1>3, <2>1
  <2>2. CASE ~World
    <3>1. Counters' /\ (AllDisposed <=> AllDisposed')
      BY <1>1, <1>4, <2>2, Counted, MountsGroups
    <3>2. Shaped' /\ Orderly' /\ CarriedOut' /\ NoneForgotten'
      BY <1>1, <1>4, <3>1, PassShaped, PassOrderly, PassCarriesOn, MountShaped, MountOrderly, MountCarriesOn
    <3> QED
      BY <1>1, <3>1, <3>2, ShapeIsType, PTL DEF MountsInv
  <2> QED
    BY <2>1, <2>2
<1> QED
  BY <1>2, <1>3, <1>4, MountsGroups

\* The registry's inductive invariant: who owns a name, what each step of an
\* addition knows of its key, and what a pass has carried out so far.
THEOREM MountsInvariantHolds == TwoCopies /\ MountsSpec => []MountsInv
  BY MountsInitHolds, MountsInvKept, PTL DEF MountsSpec

\* While no server is shipped by more than two suites, none is forgotten: at
\* rest each is mounted as it resolves, about to be retried, given up, or
\* excused by something that is still true (McpMountRegistry.reconcileNow).
THEOREM NoServerIsForgotten == TwoCopies /\ MountsSpec => []NoneForgotten
  BY MountsInvariantHolds, PTL DEF MountsInv

\* And of two copies of a server one at most is live, under its own name
\* (McpMountRegistry.mountWith).
THEOREM OneCopyIsLive == TwoCopies /\ MountsSpec => []OneCopyServes
<1>1. MountsInv => OneCopyServes
  BY ShapeIsType, KeysAssumption DEF MountsInv, Orderly, Named, OneCopyServes, Owner
<1> QED
  BY <1>1, MountsInvariantHolds, PTL

-----------------------------------------------------------------------------
(* The supervisor                                                           *)

USE PolicyAssumption, BoundsAssumption

Newest == gens[Len(gens)]
Over == failedAttempts > PolicyAttempts

Places == {"connecting", "syncing", "closing", "waiting", "leg", "reclosing", "up", "ended"}

Typed ==
    /\ gens \in Seq(Generations) /\ Len(gens) >= 1
    /\ timer \in BOOLEAN /\ failedAttempts \in Nat /\ settings \in Settings
    /\ connectedAt \in {"down", "fresh", "stable"}
    /\ phase \in {"connecting", "connected", "reconnecting", "failed"}
    /\ disposal \in [at: {"no", "closing", "draining", "done"}, of: Nat]
    /\ seen \in [stable: Nat, legs: Nat, conflicts: Nat]

\* Only the newest generation is alive: its predecessors have ended, and
\* their processes with them.
Lineage ==
    /\ \A g \in 1..Len(gens) - 1 : gens[g].pc = "ended" /\ (gens[g].open => settings.oauth)
    /\ client \in {0, Len(gens)}
    /\ Newest.pc = "up" => Newest.open
    /\ Newest.pc \in {"leg", "reclosing"} => settings.oauth
    /\ timer => Newest.pc = "ended" /\ (Newest.open => settings.oauth)
    /\ Disposed => client = 0 /\ ~timer
    /\ ~Disposed => (client = 0 <=> Newest.pc \in {"reclosing", "ended"})
    /\ disposal.at = "closing" => disposal.of = Len(gens)

\* The status, told of the newest generation.
Reported ==
    ~Disposed =>
        /\ phase = "connecting" <=> Newest.pc \notin {"up", "ended"}
        /\ phase = "reconnecting" <=> timer
        /\ phase = "connected" <=> Newest.pc = "up"

\* What the attempts have cost, and what they may still cost.
Spent == IF Over THEN PolicyAttempts ELSE failedAttempts
Renewals == IF connectedAt = "stable" THEN seen.stable - 1 ELSE seen.stable
Renewed == PolicyAttempts * Renewals
Owed == IF ~Disposed /\ (timer \/ Newest.pc = "reclosing") THEN 1 ELSE 0
Balance == Len(gens) + Owed <= 1 + seen.legs + Renewed + Spent
Budget ==
    /\ ~Disposed /\ (timer \/ Newest.pc # "ended") => ~Over
    /\ ~Disposed /\ (timer \/ Newest.pc \notin {"up", "ended"}) => connectedAt = "down"
    /\ connectedAt = "stable" => seen.stable > 0
    /\ Balance

Sup == Typed /\ Lineage /\ Reported /\ Budget

-----------------------------------------------------------------------------
\* The newest generation moves to a place, and its process may end; of its
\* predecessors at most the processes end.
Advances(pc, open) ==
    /\ gens' \in Seq(Generations) /\ Len(gens') = Len(gens)
    /\ \A h \in 1..Len(gens) - 1 : gens'[h].pc = gens[h].pc /\ (gens'[h].open => gens[h].open)
    /\ Newest'.pc = pc /\ Newest'.open = open

\* The newest generation is a generation.
LEMMA NewestTyped ==
    ASSUME Typed
    PROVE  Newest \in Generations /\ Newest.pc \in Places /\ Newest.open \in BOOLEAN
<1>1. Newest \in Generations
  BY DEF Typed, Newest
<1>2. QED
  BY <1>1 DEF Generations, Places

\* What the renewals are worth is unknown to a linear prover.
LEMMA RenewedNat == ASSUME Typed, Budget PROVE Renewals \in Nat /\ Renewed \in Nat
<1>1. Renewals \in Nat
  BY DEF Typed, Budget, Renewals
<1>2. QED
  BY <1>1 DEF Renewed

\* The terms of the account are numbers, and they balance.
LEMMA CostsNat ==
    ASSUME Sup
    PROVE  /\ Len(gens) \in Nat /\ seen.legs \in Nat /\ Renewed \in Nat /\ Owed \in {0, 1}
           /\ Spent \in Nat /\ Spent <= PolicyAttempts /\ PolicyAttempts \in Nat /\ PolicyAttempts >= 1
           /\ ~Over => Spent = failedAttempts
           /\ Balance
  BY RenewedNat DEF Sup, Typed, Owed, Spent, Over, Budget

\* What was renewed depends on the renewals alone.
LEMMA RenewedStands == ASSUME Renewals' = Renewals PROVE Renewed' = Renewed
  BY DEF Renewed

\* A generation that has not ended is the newest.
LEMMA OnlyNewest ==
    ASSUME Typed, Lineage, NEW g \in 1..Len(gens), gens[g].pc # "ended"
    PROVE  g = Len(gens) /\ gens[g] = Newest
  BY DEF Typed, Lineage, Newest

\* Overwriting the newest generation moves it, and no other.
LEMMA PutMoves ==
    ASSUME Typed, NEW g, g = Len(gens), NEW pc \in Places, NEW open \in BOOLEAN,
           gens' = [gens EXCEPT ![g] = [pc |-> pc, open |-> open]]
    PROVE  Advances(pc, open)
<1> DEFINE r == [pc |-> pc, open |-> open]
<1>1. r \in Generations /\ r.pc = pc /\ r.open = open
  BY DEF Generations, Places
<1>2. Len(gens) \in 1..Len(gens) /\ DOMAIN gens = 1..Len(gens) /\ gens' = [gens EXCEPT ![Len(gens)] = r]
  BY DEF Typed
<1> HIDE DEF r
<1>3. gens' \in Seq(Generations) /\ Len(gens') = Len(gens)
  BY <1>1, <1>2 DEF Typed
<1>4. gens'[Len(gens)] = r /\ \A h \in 1..Len(gens) - 1 : gens'[h] = gens[h]
  BY <1>2, <1>3 DEF Typed
<1>5. QED
  BY <1>1, <1>3, <1>4 DEF Advances, Newest

\* So does MovesTo, which leaves its process as it is.
LEMMA SettleMoves ==
    ASSUME Typed, NEW g, g = Len(gens), NEW pc \in Places, gens' = MovesTo(g, pc)
    PROVE  Advances(pc, Newest.open)
<1>1. gens[g] \in Generations /\ gens[g] = Newest
  BY DEF Typed, Newest
<1>2. [gens[g] EXCEPT !.pc = pc] = [pc |-> pc, open |-> gens[g].open]
  BY <1>1 DEF Generations
<1>3. gens' = [gens EXCEPT ![g] = [pc |-> pc, open |-> gens[g].open]]
  BY <1>2 DEF MovesTo
<1>4. gens[g].open \in BOOLEAN /\ gens[g].open = Newest.open
  BY <1>1 DEF Generations
<1>5. QED
  BY <1>3, <1>4, PutMoves

\* The settings and the disposal stay, and nothing more is granted.
SeenSet == [stable: Nat, legs: Nat, conflicts: Nat]
Quiet == UNCHANGED <<settings, disposal, seen.legs, seen.stable>> /\ seen' \in SeenSet

\* A step that leaves the settings and the counters alone is quiet.
LEMMA SeenQuiet == ASSUME Sup, UNCHANGED <<settings, disposal, seen>> PROVE Quiet
  BY DEF Sup, Typed, Quiet, SeenSet

\* The newest generation goes down, from whatever it was doing (generationDown).
LEMMA DownKeeps ==
    ASSUME Sup, NEW open \in BOOLEAN, Advances("ended", open), open => settings.oauth \/ Disposed,
           Newest.pc \notin {"ended", "reclosing"},
           NEW rest, GenerationDown(Len(gens), rest), Quiet
    PROVE  Sup'
<1> USE DEF Quiet, SeenSet
<1>0. Renewed \in Nat /\ Newest.open \in BOOLEAN
  BY RenewedNat, NewestTyped DEF Sup
<1>1. Typed'
  <2>1. gens' \in Seq(Generations) /\ Len(gens') >= 1 /\ settings' \in Settings
    BY DEF Sup, Typed, Advances
  <2>2. CASE UNCHANGED outage
    BY <2>1, <2>2 DEF Sup, Typed, outage
  <2>3. CASE ScheduleReconnect(rest) /\ ~settings.reconnects
    BY <2>1, <2>3 DEF Sup, Typed, ScheduleReconnect
  <2>4. CASE ScheduleReconnect(rest) /\ settings.reconnects
    BY <2>1, <2>4 DEF Sup, Typed, ScheduleReconnect
  <2>5. QED
    BY <2>2, <2>3, <2>4 DEF GenerationDown
<1>2. Lineage'
  BY DEF Sup, Typed, Lineage, Advances, GenerationDown, ScheduleReconnect, outage, IsCurrent, Disposed
<1>3. Reported'
  BY <1>2, NewestTyped DEF Sup, Typed, Lineage, Reported, Advances, GenerationDown, ScheduleReconnect, outage, IsCurrent, Disposed
<1>4. CASE Disposed
  <2>1. UNCHANGED outage
    BY <1>4 DEF GenerationDown, IsCurrent
  <2>2. Renewed' = Renewed /\ Spent' = Spent /\ Owed = 0 /\ Owed' = 0 /\ Disposed'
    BY <1>4, <2>1, RenewedStands DEF outage, Renewals, Spent, Over, Owed, Disposed
  <2>3. Balance'
    BY <2>2, CostsNat DEF Balance, Advances
  <2>4. QED
    BY <1>1, <1>2, <1>3, <2>1, <2>2, <2>3 DEF Sup, Budget, outage
<1>5. CASE ~Disposed
  <2>1. IsCurrent(Len(gens)) /\ ScheduleReconnect(rest) /\ ~Over
    BY <1>5 DEF Sup, Lineage, Budget, GenerationDown, IsCurrent
  <2>0. Owed = 0 /\ ~timer
    BY <1>5, <2>1 DEF Owed, Sup, Lineage
  <2>2. CASE ~settings.reconnects
    <3>1. UNCHANGED <<timer, failedAttempts, connectedAt>>
      BY <2>1, <2>2 DEF ScheduleReconnect
    <3>2. Renewed' = Renewed /\ Spent' = Spent /\ Owed' = 0
      BY <2>0, <3>1, RenewedStands DEF Renewals, Spent, Over, Owed, Advances
    <3>3. Balance'
      BY <2>0, <3>2, CostsNat DEF Balance, Advances
    <3>4. QED
      BY <1>1, <1>2, <1>3, <1>5, <2>0, <3>1, <3>3 DEF Sup, Budget, Advances, Disposed
  <2>3. CASE settings.reconnects /\ connectedAt # "stable"
    <3>1. failedAttempts' = failedAttempts + 1 /\ connectedAt' = "down" /\ timer' = (failedAttempts' <= PolicyAttempts)
      BY <2>1, <2>3 DEF ScheduleReconnect
    <3>2. Renewed' = Renewed
      BY <2>3, <3>1, RenewedStands DEF Renewals
    <3>3. failedAttempts \in Nat /\ failedAttempts <= PolicyAttempts /\ Spent = failedAttempts
      BY <2>1, CostsNat DEF Sup, Typed, Over
    <3>4. Owed' = IF timer' THEN 1 ELSE 0
      BY <1>5 DEF Owed, Advances, Disposed
    <3>5. CASE failedAttempts < PolicyAttempts
      <4>1. ~Over' /\ Spent' = failedAttempts + 1
        BY <3>1, <3>3, <3>5 DEF Over, Spent
      <4>2. Balance'
        BY <2>0, <3>2, <3>3, <3>4, <4>1, CostsNat DEF Balance, Advances
      <4>3. QED
        BY <1>1, <1>2, <1>3, <3>1, <4>1, <4>2, <1>5 DEF Sup, Budget, Advances, Disposed
    <3>6. CASE failedAttempts = PolicyAttempts
      <4>0. failedAttempts' = PolicyAttempts + 1 /\ PolicyAttempts \in Nat
        BY <3>1, <3>6
      <4>a. ~(failedAttempts' <= PolicyAttempts) /\ failedAttempts' > PolicyAttempts
        BY <4>0
      <4>1. ~timer' /\ Spent' = PolicyAttempts
        BY <3>1, <4>a DEF Over, Spent
      <4>2. Balance'
        BY <2>0, <3>2, <3>3, <3>4, <3>6, <4>1, CostsNat DEF Balance, Advances
      <4>3. QED
        BY <1>1, <1>2, <1>3, <3>1, <4>1, <4>2, <1>5 DEF Sup, Budget, Advances, Disposed
    <3>7. QED
      BY <3>3, <3>5, <3>6, CostsNat
  <2>4. CASE settings.reconnects /\ connectedAt = "stable"
    <3>1. failedAttempts' = 1 /\ connectedAt' = "down" /\ timer' = (failedAttempts' <= PolicyAttempts)
      BY <2>1, <2>4 DEF ScheduleReconnect
    <3>2. Renewals \in Nat /\ Renewals' = Renewals + 1
      BY <3>1, <2>4 DEF Sup, Typed, Budget, Renewals
    <3>3. Renewed' = Renewed + PolicyAttempts
      BY <3>2 DEF Renewed
    <3>4. ~Over' /\ Spent' = 1
      BY <3>1, CostsNat DEF Over, Spent
    <3>5. Owed' \in {0, 1}
      BY DEF Owed
    <3>6. Balance'
      <4>1. Len(gens) <= 1 + seen.legs + Renewed + Spent
        BY <2>0, CostsNat DEF Balance
      <4>2. Len(gens) + 1 <= 1 + seen.legs + (Renewed + PolicyAttempts) + 1
        BY <4>1, CostsNat
      <4>3. Len(gens') = Len(gens) /\ seen'.legs = seen.legs /\ Renewed' = Renewed + PolicyAttempts /\ Spent' = 1
        BY <3>3, <3>4 DEF Advances
      <4>4. CASE Owed' = 0
        BY <4>1, <4>2, <4>3, <4>4, CostsNat DEF Balance
      <4>5. CASE Owed' = 1
        BY <4>2, <4>3, <4>5, CostsNat DEF Balance
      <4>6. QED
        BY <3>5, <4>4, <4>5
    <3>7. QED
      BY <1>1, <1>2, <1>3, <3>1, <3>4, <3>6, <1>5 DEF Sup, Budget, Disposed, Advances
  <2>5. QED
    BY <2>2, <2>3, <2>4
<1>6. QED
  BY <1>1, <1>2, <1>3, <1>4, <1>5 DEF Sup

\* The places of an attempt.
Busy == {"connecting", "syncing", "closing", "waiting", "leg"}

\* An attempt goes on.
LEMMA WorkKeeps ==
    ASSUME Sup, NEW pc \in Places, NEW open \in BOOLEAN, Advances(pc, open),
           \/ pc = Newest.pc /\ (pc = "up" => open)
           \/ Newest.pc \in Busy /\ pc \in Busy,
           open => Newest.open,
           pc = "leg" => settings.oauth,
           UNCHANGED <<client, timer, failedAttempts, connectedAt, settings, disposal>>,
           UNCHANGED <<seen.legs, seen.stable>>, seen' \in [stable: Nat, legs: Nat, conflicts: Nat],
           phase' = phase \/ (Newest.pc \in Busy /\ phase' = "connecting")
    PROVE  Sup'
<1>1. Typed'
  BY DEF Sup, Typed, Advances
<1>2. Lineage'
  BY DEF Sup, Typed, Lineage, Advances, Disposed, Busy
<1>3. Reported'
  BY DEF Sup, Reported, Advances, Disposed, Busy
<1>4. Budget'
  <2>1. Renewed' = Renewed /\ Spent' = Spent /\ (Over' <=> Over)
    BY RenewedStands DEF Renewals, Spent, Over
  <2>2. Owed' = Owed
    BY DEF Owed, Disposed, Advances, Busy
  <2>3. Balance'
    BY <2>1, <2>2, CostsNat DEF Balance, Advances
  <2>4. QED
    BY <2>1, <2>3 DEF Sup, Budget, Advances, Disposed, Busy
<1>5. QED
  BY <1>1, <1>2, <1>3, <1>4 DEF Sup

\* An authorization was approved: a fresh generation will follow.
LEMMA ApprovedKeeps ==
    ASSUME Sup, settings.oauth, Newest.pc \in Busy,
           Advances(IF IsCurrent(Len(gens)) THEN "reclosing" ELSE "ended", Newest.open),
           client' = (IF IsCurrent(Len(gens)) THEN 0 ELSE client),
           seen' = [seen EXCEPT !.legs = @ + 1],
           UNCHANGED <<timer, failedAttempts, connectedAt, phase, settings, disposal>>
    PROVE  Sup'
<1>0. seen'.legs = seen.legs + 1 /\ seen'.stable = seen.stable /\ seen' \in [stable: Nat, legs: Nat, conflicts: Nat]
  BY DEF Sup, Typed
<1>1. Typed'
  BY <1>0 DEF Sup, Typed, Advances
<1>2. Lineage'
  BY DEF Sup, Typed, Lineage, Advances, Disposed, Busy, IsCurrent
<1>3. Reported'
  BY DEF Sup, Lineage, Reported, Advances, Disposed, Busy, IsCurrent
<1>4. Budget'
  <2>1. Renewed' = Renewed /\ Renewed \in Nat
    BY <1>0, RenewedStands, RenewedNat DEF Sup, Renewals
  <2>2. Spent' = Spent /\ (Over' <=> Over)
    BY DEF Spent, Over
  <2>3. Owed = 0
    BY DEF Owed, Sup, Typed, Lineage, Busy
  <2>4. Owed' \in {0, 1}
    BY DEF Owed
  <2>5. Balance'
    BY <1>0, <2>1, <2>2, <2>3, <2>4, CostsNat DEF Balance, Advances
  <2>6. QED
    BY <1>0, <2>2, <2>5 DEF Sup, Budget, Disposed, Busy
<1>5. QED
  BY <1>1, <1>2, <1>3, <1>4 DEF Sup

\* A new generation starts, paid for by the retry or the authorization.
LEMMA ConnectKeeps ==
    ASSUME Sup, ~Disposed, timer \/ Newest.pc = "reclosing",
           NEW before \in Seq(Generations), Len(before) = Len(gens),
           \A h \in 1..Len(gens) : before[h].pc = "ended" /\ (before[h].open => settings.oauth),
           Connect(before), timer' = FALSE,
           UNCHANGED <<failedAttempts, connectedAt, settings, disposal, seen>>
    PROVE  Sup'
<1> DEFINE new == [pc |-> "connecting", open |-> TRUE]
<1>0. Len(gens) \in Nat
  BY CostsNat
<1>1. new \in Generations /\ new.pc = "connecting" /\ new.open
  BY DEF Generations
<1>2. gens' = Append(before, new) /\ client' = Len(gens) + 1 /\ phase' = "connecting"
  BY DEF Connect
<1> HIDE DEF new
<1>3. /\ gens' \in Seq(Generations) /\ Len(gens') = Len(gens) + 1 /\ Newest' = new
      /\ \A h \in 1..Len(gens) : gens'[h] = before[h]
  BY <1>1, <1>2 DEF Newest
<1>4. Typed'
  <2>0. Len(gens') >= 1
    BY <1>0, <1>3
  <2>1. gens' \in Seq(Generations) /\ Len(gens') >= 1 /\ timer' \in BOOLEAN
    BY <1>3, <2>0, Zenon
  <2>2. QED
    BY <1>2, <2>1 DEF Sup, Typed
<1>5. Lineage'
  BY <1>1, <1>2, <1>3 DEF Sup, Typed, Lineage, Disposed
<1>6. Reported'
  BY <1>1, <1>2, <1>3 DEF Reported, Disposed
<1>7. Budget'
  <2>1. Renewed' = Renewed /\ Spent' = Spent /\ (Over' <=> Over)
    BY RenewedStands DEF Renewals, Spent, Over
  <2>2. Owed = 1 /\ Owed' = 0
    BY <1>1, <1>3 DEF Owed, Disposed
  <2>3. Balance'
    BY <1>3, <2>1, <2>2, CostsNat DEF Balance
  <2>4. Newest.pc \in {"ended", "reclosing"}
    BY DEF Sup, Lineage
  <2>5. connectedAt = "down" /\ ~Over
    BY <2>4 DEF Sup, Budget
  <2>6. QED
    BY <2>1, <2>3, <2>5 DEF Budget
<1>8. QED
  BY <1>4, <1>5, <1>6, <1>7 DEF Sup

\* The attempt ends, well or not.
LEMMA SucceedsKeeps ==
    ASSUME Sup, NEW g, g = Len(gens), Newest.pc = "syncing", NEW rest, AttemptSucceeds(g, rest), Quiet
    PROVE  Sup'
<1>0. Newest = gens[g] /\ Newest.open \in BOOLEAN
  BY NewestTyped DEF Newest, Sup
<1>1. CASE ~Newest.open
  <2>1. Advances("ended", FALSE) /\ GenerationDown(Len(gens), rest)
    BY <1>0, <1>1, SettleMoves DEF AttemptSucceeds, Sup, Places
  <2>2. QED
    BY <2>1, DownKeeps
<1>2. CASE Newest.open /\ IsCurrent(g)
  <2>1. Advances("up", TRUE) /\ connectedAt' = "fresh" /\ phase' = "connected" /\ UNCHANGED <<client, timer, failedAttempts>>
    BY <1>0, <1>2, SettleMoves DEF AttemptSucceeds, Sup, Places
  <2> USE DEF Quiet, SeenSet
  <2>2. Typed' /\ Lineage'
    BY <2>1, <1>2 DEF Sup, Typed, Lineage, Advances, IsCurrent, Disposed
  <2>3. Reported'
    BY <2>1, <1>2 DEF Sup, Lineage, Reported, Advances, IsCurrent, Disposed
  <2>4. Budget'
    <3>1. connectedAt = "down" /\ ~Over /\ ~Disposed
      BY <1>2 DEF Sup, Budget, IsCurrent
    <3>2. Renewed' = Renewed /\ Renewed \in Nat
      BY <2>1, <3>1, RenewedStands, RenewedNat DEF Sup, Renewals
    <3>3. Spent' = Spent /\ (Over' <=> Over)
      BY <2>1 DEF Spent, Over
    <3>4. Owed' = Owed
      BY <2>1 DEF Owed, Disposed, Advances
    <3>5. Balance'
      BY <2>1, <3>2, <3>3, <3>4, CostsNat DEF Balance, Advances
    <3>6. QED
      BY <2>1, <3>1, <3>3, <3>5 DEF Sup, Lineage, Budget, Advances, Disposed
  <2>5. QED
    BY <2>2, <2>3, <2>4 DEF Sup
<1>3. CASE Newest.open /\ ~IsCurrent(g)
  <2>1. Advances("ended", TRUE) /\ UNCHANGED outage
    BY <1>0, <1>3, SettleMoves DEF AttemptSucceeds, Sup, Places, outage
  <2>2. Disposed
    BY <1>3 DEF Sup, Lineage, IsCurrent
  <2>3. GenerationDown(Len(gens), syncChain')
    BY <2>1, <2>2 DEF GenerationDown, IsCurrent
  <2>4. QED
    BY <2>1, <2>2, <2>3, DownKeeps
<1>4. QED
  BY <1>0, <1>1, <1>2, <1>3

\* The newest attempt fails and is torn down, or goes to the browser.
LEMMA FailsKeeps ==
    ASSUME Sup, NEW g, g = Len(gens), Newest.pc \in {"connecting", "syncing"}, NEW rest, AttemptFails(g, rest),
           UNCHANGED <<settings, disposal>>
    PROVE  Sup'
<1>0. Newest = gens[g] /\ Newest.open \in BOOLEAN /\ seen \in [stable: Nat, legs: Nat, conflicts: Nat]
  BY NewestTyped DEF Newest, Sup, Typed
<1>1. CASE gens' = MovesTo(g, "closing") /\ UNCHANGED <<client, phase, seen>>
  <2>1. Advances("closing", Newest.open)
    BY <1>0, <1>1, SettleMoves DEF Sup, Places
  <2>2. "closing" \in Busy /\ "closing" \in Places /\ Newest.pc \in Busy
    BY DEF Busy, Places
  <2>3. UNCHANGED <<timer, failedAttempts, connectedAt>>
    BY DEF AttemptFails
  <2>4. phase' = phase /\ client' = client /\ UNCHANGED <<seen.legs, seen.stable>> /\ seen' = seen
    BY <1>1
  <2>5. QED
    BY <1>0, <2>1, <2>2, <2>3, <2>4, WorkKeeps
<1>2. CASE settings.oauth /\ gens' = MovesTo(g, "leg") /\ phase' = "connecting" /\ UNCHANGED <<client, seen>>
  <2>1. Advances("leg", Newest.open)
    BY <1>0, <1>2, SettleMoves DEF Sup, Places
  <2>2. "leg" \in Busy /\ "leg" \in Places /\ Newest.pc \in Busy
    BY DEF Busy, Places
  <2>3. UNCHANGED <<timer, failedAttempts, connectedAt>>
    BY DEF AttemptFails
  <2>4. QED
    BY <1>0, <1>2, <2>1, <2>2, <2>3, WorkKeeps
<1>3. CASE /\ settings.oauth /\ seen' = [seen EXCEPT !.legs = @ + 1]
           /\ gens' = MovesTo(g, IF IsCurrent(g) THEN "reclosing" ELSE "ended")
           /\ client' = IF IsCurrent(g) THEN 0 ELSE client
           /\ UNCHANGED phase
  <2>1. Advances(IF IsCurrent(g) THEN "reclosing" ELSE "ended", Newest.open)
    BY <1>0, <1>3, SettleMoves DEF Sup, Places
  <2>2. QED
    BY <1>0, <1>3, <2>1, ApprovedKeeps DEF AttemptFails, Busy
<1>4. QED
  BY <1>1, <1>2, <1>3 DEF AttemptFails

-----------------------------------------------------------------------------
(* What each action of the supervisor does to it                           *)

\* The handshake succeeds, and the first sync is queued.
LEMMA ConnectSucceedsSup ==
    ASSUME Sup, NEW g \in 1..Len(gens), ConnectSucceeds(g) PROVE Sup'
<1>0. g = Len(gens) /\ gens[g] = Newest /\ Newest.open \in BOOLEAN
  BY OnlyNewest, NewestTyped DEF Sup, ConnectSucceeds
<1>1. CASE Newest.open
  <2>1. Advances("syncing", Newest.open)
    BY <1>0, <1>1, SettleMoves DEF ConnectSucceeds, Sup, Places
  <2>2. Newest.pc \in Busy /\ "syncing" \in Busy /\ "syncing" \in Places /\ seen' \in [stable: Nat, legs: Nat, conflicts: Nat]
    BY <1>0 DEF Busy, Places, ConnectSucceeds, Sup, Typed
  <2>3. UNCHANGED outage /\ UNCHANGED <<settings, disposal, seen>>
    BY <1>0, <1>1 DEF ConnectSucceeds
  <2>4. QED
    BY <1>0, <2>1, <2>2, <2>3, WorkKeeps DEF outage
<1>2. CASE ~Newest.open
  <2>1. Advances("ended", Newest.open) /\ GenerationDown(Len(gens), syncChain) /\ UNCHANGED <<settings, disposal, seen>>
    BY <1>0, <1>2, SettleMoves DEF ConnectSucceeds, Sup, Places
  <2>2. Newest.pc = "connecting"
    BY <1>0 DEF ConnectSucceeds
  <2>3. QED
    BY <1>0, <1>2, <2>1, <2>2, SeenQuiet, DownKeeps
<1>3. QED
  BY <1>0, <1>1, <1>2

\* The handshake fails.
LEMMA ConnectFailsSup ==
    ASSUME Sup, NEW g \in 1..Len(gens), ConnectFails(g) PROVE Sup'
  BY OnlyNewest, FailsKeeps DEF Sup, ConnectFails

\* The browser leg ends, approved or not.
LEMMA LegSettlesSup ==
    ASSUME Sup, NEW g \in 1..Len(gens), LegSettles(g) PROVE Sup'
<1>0. g = Len(gens) /\ gens[g] = Newest /\ Newest.open \in BOOLEAN /\ Newest.pc = "leg" /\ settings.oauth
  BY OnlyNewest, NewestTyped DEF Sup, Lineage, LegSettles
<1>1. CASE gens' = MovesTo(g, "ended") /\ GenerationDown(g, syncChain) /\ UNCHANGED seen
  <2>1. Advances("ended", Newest.open)
    BY <1>0, <1>1, SettleMoves DEF Sup, Places
  <2>2. QED
    BY <1>0, <1>1, <2>1, SeenQuiet, DownKeeps DEF LegSettles
<1>2. CASE /\ seen' = [seen EXCEPT !.legs = @ + 1]
           /\ gens' = MovesTo(g, IF IsCurrent(g) THEN "reclosing" ELSE "ended")
           /\ client' = IF IsCurrent(g) THEN 0 ELSE client
           /\ UNCHANGED <<timer, failedAttempts, connectedAt, phase, syncChain>>
  <2>1. Advances(IF IsCurrent(g) THEN "reclosing" ELSE "ended", Newest.open)
    BY <1>0, <1>2, SettleMoves DEF Sup, Places
  <2>2. QED
    BY <1>0, <1>2, <2>1, ApprovedKeeps DEF LegSettles, Busy
<1>3. QED
  BY <1>1, <1>2 DEF LegSettles

\* The generation that was authorized is closed, and its successor starts.
LEMMA ReclosedSup ==
    ASSUME Sup, NEW g \in 1..Len(gens), Reclosed(g) PROVE Sup'
<1>0. g = Len(gens) /\ gens[g] = Newest /\ Newest.pc = "reclosing" /\ settings.oauth
  BY OnlyNewest DEF Sup, Lineage, Reclosed
<1> DEFINE closed == [gens EXCEPT ![g] = [pc |-> "ended", open |-> FALSE]]
<1>1. CASE Disposed
  <2>1. Advances("ended", FALSE)
    BY <1>0, <1>1, PutMoves DEF Reclosed, Sup, Places
  <2>2. UNCHANGED <<outage, settings, disposal, seen>>
    BY <1>1 DEF Reclosed, outage
  <2>3. Typed'
    BY <2>1, <2>2 DEF Sup, Typed, Advances, outage
  <2>4. Lineage' /\ Reported'
    BY <1>1, <2>1, <2>2 DEF Sup, Lineage, Reported, Advances, outage, Disposed
  <2>5. Renewed' = Renewed /\ Spent' = Spent /\ Owed' = 0 /\ Owed = 0 /\ Disposed'
    BY <1>1, <2>2, RenewedStands DEF outage, Renewals, Spent, Over, Owed, Disposed
  <2>6. Balance'
    BY <2>1, <2>2, <2>5, CostsNat DEF Balance, Advances
  <2>7. QED
    BY <2>2, <2>3, <2>4, <2>5, <2>6 DEF Sup, Budget, outage
<1>2. CASE ~Disposed
  <2>1. closed \in Seq(Generations) /\ Len(closed) = Len(gens)
    BY <1>0 DEF Sup, Typed, Generations
  <2>2. \A h \in 1..Len(gens) : closed[h].pc = "ended" /\ (closed[h].open => settings.oauth)
    BY <1>0 DEF Sup, Typed, Lineage
  <2>3. Connect(closed) /\ timer' = FALSE /\ UNCHANGED <<failedAttempts, connectedAt, settings, disposal, seen>>
    BY <1>0, <1>2 DEF Reclosed, Sup, Typed, Lineage
  <2> HIDE DEF closed
  <2>4. QED
    BY <1>0, <1>2, <2>1, <2>2, <2>3, ConnectKeeps
<1>3. QED
  BY <1>1, <1>2

\* The teardown of a failed attempt: close() returns.
LEMMA ClosedSup ==
    ASSUME Sup, NEW g \in 1..Len(gens), Closed(g) PROVE Sup'
<1>0. g = Len(gens) /\ gens[g] = Newest /\ Newest.pc = "closing" /\ Newest.open \in BOOLEAN
  BY OnlyNewest, NewestTyped DEF Sup, Closed
<1>1. PICK stays \in {FALSE, gens[g].open} : gens' = [gens EXCEPT ![g] = [pc |-> "waiting", open |-> stays]]
  BY DEF Closed
<1>2. stays \in BOOLEAN /\ (stays => Newest.open)
  BY <1>0, <1>1
<1>3. Advances("waiting", stays)
  BY <1>0, <1>1, <1>2, PutMoves DEF Sup, Places
<1>4. "waiting" \in Places /\ "waiting" \in Busy /\ Newest.pc \in Busy /\ seen' \in [stable: Nat, legs: Nat, conflicts: Nat]
  BY <1>0 DEF Places, Busy, Closed, Sup, Typed
<1>5. UNCHANGED <<outage, settings, disposal, seen>>
  BY DEF Closed
<1>6. QED
  BY <1>2, <1>3, <1>4, <1>5, WorkKeeps DEF outage

\* The transport closes.
LEMMA QuiescedSup ==
    ASSUME Sup, NEW g \in 1..Len(gens), Quiesced(g) PROVE Sup'
<1>0. g = Len(gens) /\ gens[g] = Newest /\ Newest.pc = "waiting" /\ Newest.open = FALSE
  BY OnlyNewest, NewestTyped DEF Sup, Quiesced
<1>1. Advances("ended", FALSE)
  BY <1>0, SettleMoves DEF Quiesced, Sup, Places
<1>2. QED
  BY <1>0, <1>1, SeenQuiet, DownKeeps DEF Quiesced

\* The transport does not close in time.
LEMMA CloseTimesOutSup ==
    ASSUME Sup, NEW g \in 1..Len(gens), CloseTimesOut(g) PROVE Sup'
<1>0. g = Len(gens) /\ gens[g] = Newest /\ Newest.pc = "waiting" /\ Newest.open = TRUE
  BY OnlyNewest, NewestTyped DEF Sup, CloseTimesOut
<1>1. Advances("ended", TRUE)
  BY <1>0, SettleMoves DEF CloseTimesOut, Sup, Places
<1>2. UNCHANGED <<timer, failedAttempts, connectedAt, settings, disposal, seen>>
  BY DEF CloseTimesOut
<1>3. Typed'
  BY <1>1, <1>2 DEF Sup, Typed, Advances, CloseTimesOut
<1>4. Lineage'
  BY <1>0, <1>1, <1>2 DEF Sup, Typed, Lineage, Advances, CloseTimesOut, IsCurrent, Disposed
<1>5. Reported'
  BY <1>0, <1>1, <1>2 DEF Sup, Lineage, Reported, Advances, CloseTimesOut, IsCurrent, Disposed
<1>6. Renewed' = Renewed /\ Spent' = Spent /\ Owed' = Owed
  BY <1>0, <1>1, <1>2, RenewedStands DEF Renewals, Spent, Over, Owed, Disposed, Advances
<1>7. Balance'
  BY <1>1, <1>2, <1>6, CostsNat DEF Balance, Advances
<1>8. Budget'
  BY <1>0, <1>1, <1>2, <1>7 DEF Sup, Lineage, Budget, Advances, Disposed, Over
<1>9. QED
  BY <1>3, <1>4, <1>5, <1>8 DEF Sup

\* The server's process ends.
LEMMA ServerDiesSup ==
    ASSUME Sup, NEW g \in 1..Len(gens), ServerDies(g) PROVE Sup'
<1> DEFINE died == [pc |-> IF gens[g].pc = "up" THEN "ended" ELSE gens[g].pc, open |-> FALSE]
<1>0. gens' = [gens EXCEPT ![g] = died] /\ UNCHANGED <<settings, disposal, seen>> /\ gens[g].pc \in Places
  <2>1. gens[g] \in Generations
    BY DEF Sup, Typed
  <2>2. QED
    BY <2>1 DEF ServerDies, Generations, Places
<1>1. CASE gens[g].pc = "up"
  <2>1. g = Len(gens) /\ gens[g] = Newest
    BY <1>1, OnlyNewest DEF Sup
  <2>2. Advances("ended", FALSE)
    BY <1>0, <1>1, <2>1, PutMoves DEF Sup, Places
  <2>3. GenerationDown(Len(gens), syncChain)
    BY <1>1, <2>1 DEF ServerDies
  <2>4. QED
    BY <1>0, <1>1, <2>1, <2>2, <2>3, SeenQuiet, DownKeeps
<1>2. CASE gens[g].pc # "up"
  <2>1. died = [pc |-> gens[g].pc, open |-> FALSE] /\ died \in Generations /\ died.pc = gens[g].pc /\ died.open = FALSE
    BY <1>0, <1>2 DEF Generations, Places
  <2> HIDE DEF died
  <2>2. gens' \in Seq(Generations) /\ Len(gens') = Len(gens)
    BY <1>0, <2>1 DEF Sup, Typed
  <2>3. \A h \in 1..Len(gens) : gens'[h].pc = gens[h].pc /\ (gens'[h].open => gens[h].open)
    BY <1>0, <2>1 DEF Sup, Typed
  <2>4. Len(gens) \in 1..Len(gens) /\ \A h \in 1..Len(gens) - 1 : h \in 1..Len(gens)
    BY DEF Sup, Typed
  <2>5. Newest'.pc = Newest.pc /\ (Newest'.open => Newest.open) /\ Newest'.open \in BOOLEAN
    <3>1. Newest' = gens'[Len(gens)] /\ gens'[Len(gens)] \in Generations
      BY <2>2, <2>4 DEF Newest
    <3>2. QED
      BY <2>3, <2>4, <3>1 DEF Newest, Generations
  <2>6. Advances(Newest.pc, Newest'.open)
    BY <2>2, <2>3, <2>4, <2>5 DEF Advances
  <2>7. Newest.pc = "up" => Newest'.open
    <3>1. Newest.pc = "up" => g # Len(gens) /\ Newest.open
      BY <1>2 DEF Newest, Sup, Lineage
    <3>2. g # Len(gens) => gens'[Len(gens)] = gens[Len(gens)]
      BY <1>0, <2>4 DEF Sup, Typed
    <3>3. QED
      BY <2>2, <3>1, <3>2 DEF Newest
  <2>8. /\ UNCHANGED <<outage, settings, disposal, seen>> /\ seen' \in [stable: Nat, legs: Nat, conflicts: Nat]
        /\ Newest.pc \in Places /\ (Newest.pc = "leg" => settings.oauth)
    BY <1>2, NewestTyped DEF ServerDies, Sup, Typed, Lineage
  <2>9. QED
    BY <2>5, <2>6, <2>7, <2>8, WorkKeeps DEF outage
<1>3. QED
  BY <1>1, <1>2

\* The reconnect timer fires.
LEMMA TimerFiresSup == ASSUME Sup, TimerFires PROVE Sup'
<1>1. timer /\ ~Disposed /\ Newest.pc = "ended" /\ (Newest.open => settings.oauth)
  BY DEF Sup, Lineage, TimerFires
<1>2. gens \in Seq(Generations) /\ Len(gens) \in Nat /\ Len(gens) >= 1
  BY DEF Sup, Typed
<1>3. \A h \in 1..Len(gens) : gens[h].pc = "ended" /\ (gens[h].open => settings.oauth)
  BY <1>1, <1>2 DEF Sup, Lineage, Newest
<1>4. QED
  BY <1>1, <1>2, <1>3, ConnectKeeps DEF TimerFires

\* A connection outlives the stability window.
LEMMA BecomesStableSup == ASSUME Sup, BecomesStable PROVE Sup'
<1>1. /\ connectedAt = "fresh" /\ connectedAt' = "stable" /\ client # 0
      /\ UNCHANGED <<gens, client, timer, failedAttempts, phase, settings, disposal>>
  BY DEF BecomesStable
<1>2. /\ seen'.stable = seen.stable + 1 /\ seen'.legs = seen.legs /\ seen' \in [stable: Nat, legs: Nat, conflicts: Nat]
      /\ seen.stable \in Nat
  BY DEF BecomesStable, Sup, Typed
<1>3. Typed' /\ Lineage' /\ Reported'
  BY <1>1, <1>2 DEF Sup, Typed, Lineage, Reported, Newest, Disposed
<1>4. Renewed' = Renewed
  <2>1. Renewals' = Renewals
    BY <1>1, <1>2 DEF Renewals
  <2>2. QED
    BY <2>1, RenewedStands
<1>5. Spent' = Spent /\ (Over' <=> Over) /\ Owed' = Owed
  BY <1>1 DEF Spent, Over, Owed, Newest, Disposed
<1>6. Balance'
  BY <1>1, <1>2, <1>4, <1>5, CostsNat DEF Balance
<1>7. ~Disposed => Newest.pc = "up"
  BY <1>1, NewestTyped DEF Sup, Lineage, Budget, Places
<1>8. Budget'
  <2>1. seen'.stable > 0 /\ Newest' = Newest
    BY <1>1, <1>2 DEF Newest
  <2>2. QED
    BY <1>1, <1>5, <1>6, <1>7, <2>1 DEF Sup, Lineage, Budget, Disposed
<1>9. QED
  BY <1>3, <1>8 DEF Sup

\* The supervisor does not move.
LEMMA SupStands ==
    ASSUME Sup, UNCHANGED <<gens, client, timer, failedAttempts, connectedAt, phase, settings, disposal>>,
           UNCHANGED <<seen.legs, seen.stable>>, seen' \in [stable: Nat, legs: Nat, conflicts: Nat]
    PROVE  Sup'
<1>1. Typed' /\ Lineage' /\ Reported'
  BY DEF Sup, Typed, Lineage, Reported, Newest, Disposed
<1>2. Renewed' = Renewed /\ Spent' = Spent /\ (Over' <=> Over) /\ Owed' = Owed /\ Newest' = Newest
  BY RenewedStands DEF Renewals, Spent, Over, Owed, Newest, Disposed
<1>3. Balance'
  BY <1>2, CostsNat DEF Balance
<1>4. QED
  BY <1>1, <1>2, <1>3 DEF Sup, Budget, Disposed

\* The bridge is disposed,
LEMMA DisposeSup == ASSUME Sup, Dispose PROVE Sup'
<1>1. /\ ~Disposed /\ client' = 0 /\ timer' = FALSE
      /\ UNCHANGED <<gens, failedAttempts, connectedAt, phase, settings, seen>>
      /\ disposal' = [at |-> IF client = 0 THEN "draining" ELSE "closing", of |-> client]
  BY DEF Dispose
<1>2. /\ disposal' \in [at: {"no", "closing", "draining", "done"}, of: Nat] /\ Disposed'
      /\ disposal'.at = "closing" => disposal'.of = Len(gens)
  BY <1>1 DEF Sup, Typed, Lineage, Disposed
<1>3. Typed'
  BY <1>1, <1>2 DEF Sup, Typed
<1>4. Lineage' /\ Reported'
  BY <1>1, <1>2 DEF Sup, Lineage, Reported, Newest
<1>5. Renewed' = Renewed /\ Spent' = Spent /\ Owed' = 0
  BY <1>1, <1>2, RenewedStands DEF Renewals, Spent, Over, Owed
<1>6. Balance'
  BY <1>1, <1>5, CostsNat DEF Balance
<1>7. QED
  BY <1>1, <1>2, <1>3, <1>4, <1>6 DEF Sup, Budget

\* closes its generation,
LEMMA DisposeClosesSup == ASSUME Sup, DisposeCloses PROVE Sup'
<1> DEFINE g == disposal.of
<1>0. g = Len(gens) /\ Disposed /\ gens[g] = Newest /\ Newest.pc \in Places /\ Newest.open \in BOOLEAN
  BY NewestTyped DEF DisposeCloses, Sup, Lineage, Disposed, Newest
<1>1. PICK stays \in {FALSE, gens[g].open} :
         gens' = [gens EXCEPT ![g] = [pc |-> IF @.pc = "up" THEN "ended" ELSE @.pc, open |-> stays]]
  BY DEF DisposeCloses
<1>2. PICK pc \in Places : /\ pc = (IF Newest.pc = "up" THEN "ended" ELSE Newest.pc)
                           /\ gens' = [gens EXCEPT ![g] = [pc |-> pc, open |-> stays]]
  BY <1>0, <1>1 DEF Places
<1>3. stays \in BOOLEAN /\ (stays => Newest.open)
  BY <1>0, <1>1
<1>4. Advances(pc, stays)
  BY <1>0, <1>2, <1>3, PutMoves DEF Sup
<1>5. /\ UNCHANGED <<outage, settings, seen>> /\ Disposed' /\ disposal'.at = "draining"
      /\ disposal' \in [at: {"no", "closing", "draining", "done"}, of: Nat]
  BY DEF DisposeCloses, Disposed, Sup, Typed
<1>6. Typed'
  BY <1>4, <1>5 DEF Sup, Typed, Advances, outage
<1>7. Lineage' /\ Reported'
  BY <1>0, <1>2, <1>3, <1>4, <1>5 DEF Sup, Lineage, Reported, Advances, outage
<1>8. Renewed' = Renewed /\ Spent' = Spent /\ Owed' = 0 /\ Owed = 0
  BY <1>0, <1>5, RenewedStands DEF outage, Renewals, Spent, Over, Owed
<1>9. Balance'
  BY <1>4, <1>5, <1>8, CostsNat DEF Balance, Advances
<1>10. QED
  BY <1>5, <1>6, <1>7, <1>9 DEF Sup, Budget, outage

\* and waits for the queue.
LEMMA DisposeDrainsSup == ASSUME Sup, DisposeDrains PROVE Sup'
<1>1. /\ UNCHANGED <<gens, outage, settings, seen>> /\ Disposed /\ Disposed' /\ disposal'.at = "done"
      /\ disposal' \in [at: {"no", "closing", "draining", "done"}, of: Nat]
  BY DEF DisposeDrains, attempt, Disposed, Sup, Typed
<1>2. Typed' /\ Lineage' /\ Reported'
  BY <1>1 DEF Sup, Typed, Lineage, Reported, Newest, outage
<1>3. Renewed' = Renewed /\ Spent' = Spent /\ Owed' = Owed
  BY <1>1, RenewedStands DEF outage, Renewals, Spent, Over, Owed
<1>4. Balance'
  BY <1>1, <1>3, CostsNat DEF Balance
<1>5. QED
  BY <1>1, <1>2, <1>4 DEF Sup, Budget, outage
-----------------------------------------------------------------------------
(* The queue of syncs                                                      *)

JobSet == [gen: Nat, initial: BOOLEAN]
JobsOf(n) == [gen: {n}, initial: BOOLEAN]

\* The first sync of the newest generation n is queued once while it is
\* awaited, and whatever is behind it is of that generation.
Sound(q, n, pc) ==
    /\ \A i \in 1..Len(q) : q[i].initial =>
          /\ q[i].gen = n /\ pc = "syncing"
          /\ \A j \in i+1..Len(q) : q[j].gen = n /\ ~q[j].initial
    /\ pc = "syncing" => \E i \in 1..Len(q) : q[i].initial
    /\ pc = "up" => \A i \in 1..Len(q) : q[i].gen = n

\* A job of a kind is queued that has not begun.
Awaited(q, jobs, runs) == \E i \in 1..Len(q) : q[i] \in jobs /\ (runs => i > 1)

Runs == reading # {}
SyncQueue ==
    /\ syncChain \in Seq(JobSet)
    /\ Runs => syncChain # <<>>
    /\ Sound(syncChain, Len(gens), Newest.pc)

\* The tools of a server that was given up are gone, or about to be.
GivenUp ==
    /\ phase = "failed" /\ Over => Awaited(syncChain, {Drop}, Runs) \/ (tools = NoTools /\ ~Runs)
    /\ disposal.at = "done" => tools = NoTools /\ syncChain = <<>> /\ Newest.pc \in {"up", "ended"}

\* A list that is not registered yet is being read, or will be.
Registered == tools = [gen |-> Len(gens), version |-> list]
InStep ==
    ~Disposed /\ Newest.open /\ Newest.pc \in {"syncing", "up"} =>
        \/ Awaited(syncChain, JobsOf(Len(gens)), Runs)
        \/ reading = {list} /\ Head(syncChain).gen = Len(gens)
        \/ Newest.pc = "up" /\ ~Runs /\ (syncFailed \/ Registered)

QInv == SyncQueue /\ GivenUp /\ InStep
IInv == Sup /\ QInv

\* The queue of syncs loses its head.
LEMMA TailOf ==
    ASSUME NEW q \in Seq(JobSet), q # <<>>
    PROVE  /\ Tail(q) \in Seq(JobSet) /\ Len(q) \in Nat /\ Len(Tail(q)) = Len(q) - 1 /\ Len(q) >= 1
           /\ Head(q) = q[1] /\ \A i \in 1..Len(Tail(q)) : Tail(q)[i] = q[i + 1]
  OBVIOUS

\* The queue of syncs has at its end what is put there.
LEMMA AppendOf ==
    ASSUME NEW q \in Seq(JobSet), NEW job \in JobSet
    PROVE  /\ Append(q, job) \in Seq(JobSet) /\ Len(q) \in Nat /\ Len(Append(q, job)) = Len(q) + 1
           /\ Append(q, job) # <<>> /\ Append(q, job)[Len(q) + 1] = job /\ \A i \in 1..Len(q) : Append(q, job)[i] = q[i]
  OBVIOUS

\* The disposal of the tools is a job, and no first sync.
LEMMA DropJob == Drop \in JobSet /\ Drop.initial = FALSE
  BY DEF Drop, JobSet

\* A sound queue stays sound when a job that is no first sync leaves it,
LEMMA SoundTail ==
    ASSUME NEW q \in Seq(JobSet), q # <<>>, NEW n, NEW pc, Sound(q, n, pc), ~Head(q).initial
    PROVE  Sound(Tail(q), n, pc)
<1>1. \A i \in 1..Len(Tail(q)) : i + 1 \in 1..Len(q) /\ Tail(q)[i] = q[i + 1]
  BY TailOf
<1>2. \A i \in 2..Len(q) : i - 1 \in 1..Len(Tail(q)) /\ q[i] = Tail(q)[i - 1]
  BY TailOf
<1>3. ASSUME NEW i \in 1..Len(Tail(q)), Tail(q)[i].initial
      PROVE  /\ Tail(q)[i].gen = n /\ pc = "syncing"
             /\ \A j \in i+1..Len(Tail(q)) : Tail(q)[j].gen = n /\ ~Tail(q)[j].initial
  <2>1. \A j \in i+1..Len(Tail(q)) : j + 1 \in (i + 1)+1..Len(q) /\ Tail(q)[j] = q[j + 1]
    BY TailOf
  <2>2. QED
    BY <1>1, <1>3, <2>1 DEF Sound
<1>4. pc = "syncing" => \E i \in 1..Len(Tail(q)) : Tail(q)[i].initial
  <2>1. ASSUME pc = "syncing" PROVE \E i \in 2..Len(q) : q[i].initial
    BY <2>1, TailOf DEF Sound
  <2>2. QED
    BY <1>2, <2>1
<1>5. pc = "up" => \A i \in 1..Len(Tail(q)) : Tail(q)[i].gen = n
  BY <1>1 DEF Sound
<1>6. QED
  BY <1>3, <1>4, <1>5 DEF Sound

\* Behind its first sync there is only what the generation still wants.
LEMMA SoundFirst ==
    ASSUME NEW q \in Seq(JobSet), q # <<>>, NEW n, NEW pc, Sound(q, n, pc), Head(q).initial,
           NEW next, next # "syncing"
    PROVE  /\ Sound(Tail(q), n, next) /\ pc = "syncing" /\ Head(q).gen = n
<1>1. /\ \A i \in 1..Len(Tail(q)) : i + 1 \in 1+1..Len(q) /\ Tail(q)[i] = q[i + 1]
      /\ 1 \in 1..Len(q) /\ Head(q) = q[1]
  BY TailOf
<1>2. \A i \in 1..Len(Tail(q)) : Tail(q)[i].gen = n /\ ~Tail(q)[i].initial
  BY <1>1 DEF Sound
<1>3. pc = "syncing" /\ Head(q).gen = n
  BY <1>1 DEF Sound
<1>4. QED
  BY <1>2, <1>3 DEF Sound

\* when a job of the newest generation, or one that nobody awaits, is put there,
LEMMA SoundAppend ==
    ASSUME NEW q \in Seq(JobSet), NEW n, NEW pc, Sound(q, n, pc), NEW job \in JobSet, ~job.initial,
           job.gen = n \/ pc \notin {"syncing", "up"}
    PROVE  Sound(Append(q, job), n, pc)
<1> DEFINE a == Append(q, job)
<1>1. /\ Len(q) \in Nat /\ Len(a) = Len(q) + 1 /\ a[Len(q) + 1] = job
      /\ \A i \in 1..Len(q) : a[i] = q[i] /\ i \in 1..Len(a)
  BY AppendOf
<1> HIDE DEF a
<1>2. \A i \in 1..Len(a) : i \in 1..Len(q) \/ a[i] = job
  BY <1>1
<1>3. ASSUME NEW i \in 1..Len(a), a[i].initial
      PROVE  /\ a[i].gen = n /\ pc = "syncing"
             /\ \A j \in i+1..Len(a) : a[j].gen = n /\ ~a[j].initial
  <2>1. i \in 1..Len(q) /\ q[i].initial
    BY <1>1, <1>2, <1>3
  <2>2. q[i].gen = n /\ pc = "syncing" /\ job.gen = n
    BY <2>1 DEF Sound
  <2>3. \A j \in i+1..Len(a) : j \in i+1..Len(q) \/ a[j] = job
    BY <1>1
  <2>4. \A j \in i+1..Len(q) : a[j] = q[j] /\ q[j].gen = n /\ ~q[j].initial
    BY <1>1, <2>1 DEF Sound
  <2>5. QED
    BY <1>1, <2>1, <2>2, <2>3, <2>4
<1>4. pc = "syncing" => \E i \in 1..Len(a) : a[i].initial
  BY <1>1 DEF Sound
<1>5. pc = "up" => \A i \in 1..Len(a) : a[i].gen = n
  BY <1>1, <1>2 DEF Sound
<1>6. QED
  BY <1>3, <1>4, <1>5 DEF Sound, a

\* and when the first sync is queued as the attempt begins to await it.
LEMMA SoundInitial ==
    ASSUME NEW q \in Seq(JobSet), NEW n \in Nat, NEW pc, Sound(q, n, pc), pc # "syncing"
    PROVE  Sound(Append(q, Sync(n, TRUE)), n, "syncing")
<1> DEFINE a == Append(q, Sync(n, TRUE))
<1>0. Sync(n, TRUE) \in JobSet /\ Sync(n, TRUE).gen = n /\ Sync(n, TRUE).initial
  BY DEF Sync, JobSet
<1>1. /\ Len(q) \in Nat /\ Len(a) = Len(q) + 1 /\ a[Len(q) + 1] = Sync(n, TRUE)
      /\ \A i \in 1..Len(q) : a[i] = q[i]
  BY <1>0, AppendOf
<1>2. \A i \in 1..Len(q) : ~q[i].initial
  BY DEF Sound
<1> HIDE DEF a
<1>3. \A i \in 1..Len(a) : a[i].initial => i = Len(q) + 1
  BY <1>1, <1>2
<1>4. Len(q) + 1 \in 1..Len(a) /\ a[Len(q) + 1].initial /\ a[Len(q) + 1].gen = n
  <2>1. Len(q) + 1 \in 1..Len(a)
    BY <1>1
  <2>2. QED
    BY <1>0, <1>1, <2>1, Zenon
<1>5. \A j \in (Len(q) + 1)+1..Len(a) : FALSE
  BY <1>1
<1>6. QED
  BY <1>3, <1>4, <1>5 DEF Sound, a

\* A generation that does not await its first sync has none queued.
LEMMA SoundMoves ==
    ASSUME NEW q, NEW n, NEW m, NEW pc, NEW next, Sound(q, n, pc), pc # "syncing", next \notin {"syncing", "up"}
    PROVE  Sound(q, m, next)
  BY DEF Sound

\* A job that is awaited is awaited still when another is taken,
LEMMA AwaitedTail ==
    ASSUME NEW q \in Seq(JobSet), q # <<>>, NEW jobs, NEW runs \in BOOLEAN, Awaited(q, jobs, runs),
           runs \/ Head(q) \notin jobs
    PROVE  Awaited(Tail(q), jobs, FALSE)
<1>1. PICK i \in 1..Len(q) : q[i] \in jobs /\ (runs => i > 1)
  BY DEF Awaited
<1>2. i > 1
  BY <1>1, TailOf
<1>3. i - 1 \in 1..Len(Tail(q)) /\ Tail(q)[i - 1] = q[i]
  BY <1>2, TailOf
<1>4. QED
  BY <1>1, <1>3 DEF Awaited

\* and when another is queued behind it; the one queued is awaited too.
LEMMA AwaitedAppend ==
    ASSUME NEW q \in Seq(JobSet), NEW job \in JobSet, NEW jobs, NEW runs \in BOOLEAN,
           Awaited(q, jobs, runs) \/ (job \in jobs /\ (runs => q # <<>>))
    PROVE  Awaited(Append(q, job), jobs, runs)
<1>1. CASE Awaited(q, jobs, runs)
  BY <1>1, AppendOf DEF Awaited
<1>2. CASE job \in jobs /\ (runs => q # <<>>)
  <2>1. Len(q) + 1 \in 1..Len(Append(q, job)) /\ Append(q, job)[Len(q) + 1] = job
    BY AppendOf
  <2>2. runs => Len(q) + 1 > 1
    BY <1>2, TailOf
  <2>3. QED
    BY <1>2, <2>1, <2>2 DEF Awaited
<1>3. QED
  BY <1>1, <1>2
-----------------------------------------------------------------------------
(* What each kind of step does to the queue                                *)

\* The queue, the tools and the list are left alone.
LEMMA RegistryStands ==
    ASSUME IInv, UNCHANGED <<registry, list>>, Len(gens') = Len(gens) \/ Newest'.pc = "connecting",
           \/ Newest'.pc = Newest.pc /\ Len(gens') = Len(gens)
           \/ Newest.pc # "syncing" /\ Newest'.pc \notin {"syncing", "up"},
           Newest'.open /\ Len(gens') = Len(gens) => Newest.open,
           Disposed => Disposed',
           phase' = "failed" /\ Over' => phase = "failed" /\ Over,
           disposal'.at = "done" => disposal.at = "done" /\ Newest'.pc \in {"up", "ended"}
    PROVE  QInv'
<1>1. SyncQueue'
  BY SoundMoves DEF IInv, QInv, SyncQueue, registry, Runs
<1>2. GivenUp'
  BY DEF IInv, QInv, GivenUp, registry, Runs
<1>3. InStep'
  BY DEF IInv, QInv, InStep, registry, Runs, Registered
<1>4. QED
  BY <1>1, <1>2, <1>3 DEF QInv

\* A generation goes down, and what it leaves in the queue is "rest".
LEMMA DownQueues ==
    ASSUME IInv, NEW rest \in Seq(JobSet), GenerationDown(Len(gens), rest), Newest'.pc = "ended",
           Len(gens') = Len(gens), Sound(rest, Len(gens), "ended"), UNCHANGED disposal,
           Runs' => rest # <<>>,
           ~Disposed => ~Over,
           Disposed /\ phase = "failed" /\ Over => Awaited(rest, {Drop}, Runs') \/ (tools' = NoTools /\ ~Runs'),
           disposal.at = "done" => rest = <<>> /\ tools' = NoTools
    PROVE  QInv'
<1>1. InStep'
  BY DEF InStep
<1>2. CASE ~IsCurrent(Len(gens)) \/ (ScheduleReconnect(rest) /\ syncChain' = rest /\ ~(phase' = "failed" /\ Over'))
  <2>1. syncChain' = rest
    BY <1>2 DEF GenerationDown
  <2>2. SyncQueue'
    BY <2>1 DEF SyncQueue
  <2>3. ~IsCurrent(Len(gens)) => UNCHANGED outage
    BY DEF GenerationDown
  <2>4. ASSUME phase' = "failed", Over'
        PROVE  Awaited(rest, {Drop}, Runs') \/ (tools' = NoTools /\ ~Runs')
    <3>1. phase = "failed" /\ Over
      BY <1>2, <2>3, <2>4 DEF outage, Over
    <3>2. Disposed
      BY <3>1
    <3>3. QED
      BY <3>1, <3>2
  <2>5. GivenUp'
    BY <2>1, <2>4 DEF GivenUp
  <2>6. QED
    BY <1>1, <2>2, <2>5 DEF QInv
<1>3. CASE IsCurrent(Len(gens)) /\ syncChain' = Append(rest, Drop)
  <2>1. Awaited(syncChain', {Drop}, Runs')
    BY <1>3, DropJob, AwaitedAppend DEF Runs
  <2>2. Sound(syncChain', Len(gens), "ended") /\ syncChain' \in Seq(JobSet) /\ syncChain' # <<>>
    BY <1>3, DropJob, SoundAppend, AppendOf
  <2>3. disposal'.at # "done"
    BY <1>3 DEF IsCurrent, Disposed
  <2>4. QED
    BY <1>1, <2>1, <2>2, <2>3 DEF QInv, SyncQueue, GivenUp
<1>4. QED
  <2>1. SUFFICES ASSUME IsCurrent(Len(gens)), ScheduleReconnect(rest) PROVE QInv'
    BY <1>2 DEF GenerationDown
  <2>2. CASE ~settings.reconnects
    <3>1. syncChain' = rest /\ failedAttempts' = failedAttempts /\ ~Over
      BY <2>1, <2>2 DEF ScheduleReconnect, IsCurrent
    <3>2. QED
      BY <2>1, <3>1, <1>2 DEF Over
  <2>3. CASE settings.reconnects /\ timer'
    <3>1. syncChain' = rest /\ phase' = "reconnecting"
      BY <2>1, <2>3 DEF ScheduleReconnect
    <3>2. QED
      BY <2>1, <3>1, <1>2
  <2>4. CASE settings.reconnects /\ ~timer'
    BY <2>1, <2>4, <1>3 DEF ScheduleReconnect
  <2>5. QED
    BY <2>2, <2>3, <2>4

\* The first sync is queued behind one that is not it.
LEMMA FirstAwaited ==
    ASSUME NEW q \in Seq(JobSet), q # <<>>, NEW n, Sound(q, n, "syncing"), ~Head(q).initial
    PROVE  Awaited(Tail(q), JobsOf(n), FALSE)
<1>1. Sound(Tail(q), n, "syncing")
  BY SoundTail
<1>2. PICK i \in 1..Len(Tail(q)) : Tail(q)[i].initial
  BY <1>1 DEF Sound
<1>3. Tail(q)[i] \in JobSet /\ Tail(q)[i].gen = n
  BY <1>1, <1>2, TailOf DEF Sound
<1>4. Tail(q)[i] \in JobsOf(n)
  BY <1>3 DEF JobSet, JobsOf
<1>5. QED
  BY <1>2, <1>4 DEF Awaited

\* A running sync ends that was not the first of its generation.
LEMMA RunEnds ==
    ASSUME IInv, Runs, ~Runs', ~Head(syncChain).initial,
           syncChain' = Tail(syncChain), UNCHANGED <<attempt, list, settings, disposal>>,
           \/ syncFailed'
           \/ \E version \in reading : tools' = [gen |-> Head(syncChain).gen, version |-> version]
    PROVE  QInv'
<1>1. syncChain \in Seq(JobSet) /\ syncChain # <<>> /\ Sound(syncChain, Len(gens), Newest.pc) /\ Newest' = Newest
  BY DEF IInv, QInv, SyncQueue, attempt, Newest
<1>2. SyncQueue'
  BY <1>1, SoundTail, TailOf DEF SyncQueue, attempt
<1>3. GivenUp'
  <2>1. disposal.at # "done"
    BY <1>1 DEF IInv, QInv, GivenUp
  <2>2. phase = "failed" /\ Over => Awaited(syncChain, {Drop}, TRUE)
    BY DEF IInv, QInv, GivenUp
  <2>3. phase = "failed" /\ Over => Awaited(Tail(syncChain), {Drop}, FALSE)
    BY <1>1, <2>2, AwaitedTail
  <2>4. phase = "failed" /\ Over => Awaited(syncChain', {Drop}, Runs')
    BY <2>3 DEF Runs
  <2>5. QED
    BY <2>1, <2>4 DEF GivenUp, attempt, outage, Over
<1>4. InStep'
  <2>1. SUFFICES ASSUME ~Disposed, Newest.open, Newest.pc \in {"syncing", "up"},
                        ~Awaited(Tail(syncChain), JobsOf(Len(gens)), FALSE)
                 PROVE  Newest.pc = "up" /\ (syncFailed' \/ Registered')
    <3>1. Awaited(Tail(syncChain), JobsOf(Len(gens)), FALSE) => Awaited(syncChain', JobsOf(Len(gens)), Runs')
      BY DEF Runs
    <3>2. Len(gens') = Len(gens) /\ (Disposed' <=> Disposed)
      BY DEF attempt, Disposed
    <3>3. QED
      BY <1>1, <3>1, <3>2 DEF InStep
  <2>2. ~Awaited(syncChain, JobsOf(Len(gens)), TRUE)
    BY <1>1, <2>1, AwaitedTail
  <2>3. reading = {list} /\ Head(syncChain).gen = Len(gens)
    BY <2>1, <2>2 DEF IInv, QInv, InStep
  <2>4. Newest.pc # "syncing"
    BY <1>1, <2>1, FirstAwaited
  <2>5. syncFailed' \/ Registered'
    BY <2>3 DEF Registered, attempt
  <2>6. QED
    BY <2>1, <2>4, <2>5
<1>5. QED
  BY <1>2, <1>3, <1>4 DEF QInv

\* The first sync of a generation: it is of the newest one, which awaits it.
LEMMA FirstSync ==
    ASSUME IInv, syncChain # <<>>, Head(syncChain).initial
    PROVE  /\ Head(syncChain).gen = Len(gens) /\ Newest.pc = "syncing"
           /\ Tail(syncChain) \in Seq(JobSet)
           /\ \A next : next # "syncing" => Sound(Tail(syncChain), Len(gens), next)
<1>1. syncChain \in Seq(JobSet) /\ Sound(syncChain, Len(gens), Newest.pc)
  BY DEF IInv, QInv, SyncQueue
<1>2. ASSUME NEW next, next # "syncing" PROVE Sound(Tail(syncChain), Len(gens), next)
  BY <1>1, <1>2, SoundFirst
<1>3. Head(syncChain).gen = Len(gens) /\ Newest.pc = "syncing"
  <2>1. 1 \in 1..Len(syncChain) /\ Head(syncChain) = syncChain[1]
    BY <1>1, TailOf
  <2>2. QED
    BY <1>1, <2>1 DEF Sound
<1>4. QED
  BY <1>1, <1>2, <1>3, TailOf

\* It ends and its attempt resumes.
LEMMA FirstSucceeds ==
    ASSUME IInv, syncChain # <<>>, ~Runs', Head(syncChain).initial,
           AttemptSucceeds(Len(gens), Tail(syncChain)), UNCHANGED <<list, settings, disposal>>,
           \/ Runs /\ syncFailed'
           \/ Runs /\ \E version \in reading : tools' = [gen |-> Head(syncChain).gen, version |-> version]
           \/ ~Runs /\ ~IsCurrent(Len(gens)) /\ UNCHANGED tools
    PROVE  QInv'
<1>0. /\ Head(syncChain).gen = Len(gens) /\ Newest.pc = "syncing" /\ Tail(syncChain) \in Seq(JobSet)
      /\ \A next : next # "syncing" => Sound(Tail(syncChain), Len(gens), next)
      /\ syncChain \in Seq(JobSet) /\ Newest = gens[Len(gens)] /\ disposal.at # "done"
  BY FirstSync DEF IInv, QInv, SyncQueue, Newest, GivenUp
<1>a. Typed /\ Sup /\ Runs \in BOOLEAN /\ Newest.open \in BOOLEAN /\ (~Disposed => ~Over)
  BY <1>0, NewestTyped DEF IInv, Sup, Budget, Runs
<1>b. Head(syncChain) # Drop
  BY DropJob
<1>1. phase = "failed" /\ Over => Awaited(Tail(syncChain), {Drop}, FALSE) \/ (tools' = NoTools /\ ~Runs)
  BY <1>0, <1>a, <1>b, AwaitedTail DEF IInv, QInv, GivenUp
<1>2. CASE ~Newest.open
  <2>1. Advances("ended", Newest.open) /\ GenerationDown(Len(gens), Tail(syncChain))
    BY <1>0, <1>a, <1>2, SettleMoves DEF AttemptSucceeds, Places
  <2>2. Disposed /\ phase = "failed" /\ Over =>
           Awaited(Tail(syncChain), {Drop}, Runs') \/ (tools' = NoTools /\ ~Runs')
    BY <1>1 DEF Runs
  <2>3. QED
    BY <1>0, <1>a, <2>1, <2>2, DownQueues DEF Advances
<1>3. CASE Newest.open /\ ~IsCurrent(Len(gens))
  <2>1. Advances("ended", Newest.open) /\ GenerationDown(Len(gens), Tail(syncChain))
    BY <1>0, <1>a, <1>3, SettleMoves DEF AttemptSucceeds, Places, GenerationDown, outage
  <2>2. Disposed /\ phase = "failed" /\ Over =>
           Awaited(Tail(syncChain), {Drop}, Runs') \/ (tools' = NoTools /\ ~Runs')
    BY <1>1 DEF Runs
  <2>3. QED
    BY <1>0, <1>a, <2>1, <2>2, DownQueues DEF Advances
<1>4. CASE Newest.open /\ IsCurrent(Len(gens))
  <2>1. /\ Advances("up", Newest.open) /\ syncChain' = Tail(syncChain) /\ phase' = "connected"
    BY <1>0, <1>a, <1>4, SettleMoves DEF AttemptSucceeds, Places
  <2>2. SyncQueue' /\ GivenUp'
    BY <1>0, <2>1 DEF SyncQueue, GivenUp, Advances
  <2>3. ~Disposed /\ Runs
    BY <1>4 DEF IsCurrent
  <2>4. \/ Awaited(Tail(syncChain), JobsOf(Len(gens)), FALSE)
        \/ reading = {list}
    BY <1>0, <1>4, <2>3, AwaitedTail DEF IInv, QInv, InStep
  <2>5. CASE Awaited(Tail(syncChain), JobsOf(Len(gens)), FALSE)
    <3>1. Awaited(syncChain', JobsOf(Len(gens)), Runs')
      BY <2>1, <2>5 DEF Runs
    <3>2. QED
      BY <2>1, <2>2, <3>1 DEF QInv, InStep, Advances
  <2>6. CASE reading = {list}
    <3>1. syncFailed' \/ Registered'
      BY <1>0, <2>1, <2>3, <2>6 DEF Registered, Advances
    <3>2. QED
      BY <2>1, <2>2, <3>1 DEF QInv, InStep, Advances
  <2>7. QED
    BY <2>4, <2>5, <2>6
<1>5. QED
  BY <1>a, <1>2, <1>3, <1>4

\* A failed attempt, before or after its first sync.
LEMMA FailQueues ==
    ASSUME IInv, NEW rest \in Seq(JobSet), AttemptFails(Len(gens), rest),
           Newest.pc \in {"connecting", "syncing"}, UNCHANGED <<settings, disposal>>,
           \A next : next \notin {"syncing", "up"} => Sound(rest, Len(gens), next),
           Runs' => rest # <<>>,
           phase = "failed" /\ Over => Awaited(rest, {Drop}, Runs') \/ (tools' = NoTools /\ ~Runs')
    PROVE  QInv'
<1>1. PICK next \in {"closing", "leg", "reclosing", "ended"} : gens' = MovesTo(Len(gens), next)
  BY DEF AttemptFails
<1>2. Advances(next, Newest.open)
  BY <1>1, SettleMoves DEF IInv, Sup, Places
<1>3. syncChain' = rest /\ failedAttempts' = failedAttempts /\ (phase' = "failed" => phase = "failed")
  BY DEF AttemptFails
<1>4. disposal.at # "done"
  BY DEF IInv, QInv, GivenUp
<1>5. SyncQueue'
  BY <1>2, <1>3 DEF SyncQueue, Advances
<1>6. GivenUp' /\ InStep'
  BY <1>2, <1>3, <1>4 DEF GivenUp, InStep, Advances, Over
<1>7. QED
  BY <1>5, <1>6 DEF QInv

-----------------------------------------------------------------------------
(* The actions                                                             *)

\* What the invariant says, in the form the actions need it.
LEMMA Standing ==
    ASSUME IInv
    PROVE  /\ Sup /\ Typed /\ syncChain \in Seq(JobSet) /\ Sound(syncChain, Len(gens), Newest.pc)
           /\ Newest.pc \in Places /\ Newest.open \in BOOLEAN /\ Runs \in BOOLEAN
           /\ Runs => syncChain # <<>>
           /\ ~Disposed /\ Newest.pc # "ended" => ~Over
           /\ phase = "failed" /\ Over => Awaited(syncChain, {Drop}, Runs) \/ (tools = NoTools /\ ~Runs)
           /\ disposal.at = "done" => tools = NoTools /\ syncChain = <<>> /\ Newest.pc \in {"up", "ended"}
           /\ ~Runs /\ UNCHANGED reading => ~Runs'
  BY NewestTyped DEF IInv, Sup, Budget, QInv, SyncQueue, GivenUp, Runs

\* A generation that awaits nothing goes down and the queue stays.
LEMMA DownStands ==
    ASSUME IInv, Advances("ended", FALSE) \/ Advances("ended", TRUE), Newest.pc \notin {"syncing", "ended"},
           GenerationDown(Len(gens), syncChain), UNCHANGED <<disposal, reading, tools>>
    PROVE  QInv'
<1>1. Newest'.pc = "ended" /\ Len(gens') = Len(gens) /\ (Runs' <=> Runs)
  BY DEF Advances, Runs
<1>2. Sound(syncChain, Len(gens), "ended")
  BY Standing, SoundMoves
<1>3. Disposed /\ phase = "failed" /\ Over => Awaited(syncChain, {Drop}, Runs') \/ (tools' = NoTools /\ ~Runs')
  BY Standing DEF Runs
<1>4. QED
  BY <1>1, <1>2, <1>3, Standing, DownQueues

\* The handshake succeeds, and the first sync is queued.
LEMMA ConnectSucceedsKeeps == ASSUME IInv, NEW g \in 1..Len(gens), ConnectSucceeds(g) PROVE IInv'
<1>0. g = Len(gens) /\ gens[g] = Newest /\ Newest.pc = "connecting"
  BY OnlyNewest DEF IInv, Sup, ConnectSucceeds
<1>1. Sup'
  BY ConnectSucceedsSup DEF IInv
<1>2. UNCHANGED <<reading, tools, syncFailed, list, settings, disposal, seen>>
  BY DEF ConnectSucceeds
<1>3. CASE ~Newest.open
  <2>1. Advances("ended", Newest.open) /\ GenerationDown(Len(gens), syncChain)
    BY <1>0, <1>3, Standing, SettleMoves DEF ConnectSucceeds, Places
  <2>2. QED
    BY <1>0, <1>1, <1>2, <2>1, Standing, DownStands DEF IInv
<1>4. CASE Newest.open
  <2>1. Advances("syncing", Newest.open) /\ syncChain' = Append(syncChain, Sync(Len(gens), TRUE)) /\ UNCHANGED outage
    BY <1>0, <1>4, Standing, SettleMoves DEF ConnectSucceeds, Places
  <2>2. Len(gens) \in Nat /\ Sync(Len(gens), TRUE) \in JobSet /\ Sync(Len(gens), TRUE) \in JobsOf(Len(gens))
    BY Standing DEF Typed, Sync, JobSet, JobsOf
  <2>3. Sound(syncChain', Len(gens), "syncing") /\ syncChain' \in Seq(JobSet) /\ syncChain' # <<>>
    <3>1. Sound(Append(syncChain, Sync(Len(gens), TRUE)), Len(gens), "syncing")
      BY <1>0, <2>2, Standing, SoundInitial
    <3>2. Append(syncChain, Sync(Len(gens), TRUE)) \in Seq(JobSet) /\ Append(syncChain, Sync(Len(gens), TRUE)) # <<>>
      BY <2>2, Standing, AppendOf
    <3>3. QED
      BY <2>1, <3>1, <3>2
  <2>4. Awaited(syncChain', JobsOf(Len(gens)), Runs)
    BY <2>1, <2>2, Standing, AwaitedAppend
  <2>5. Awaited(syncChain, {Drop}, Runs) => Awaited(syncChain', {Drop}, Runs)
    BY <2>1, <2>2, Standing, AwaitedAppend
  <2>6. Runs' = Runs /\ Over' = Over /\ disposal.at # "done"
    BY <1>0, <1>2, <2>1, Standing DEF Runs, Over, outage
  <2>7. SyncQueue'
    BY <2>1, <2>3 DEF SyncQueue, Advances
  <2>8. GivenUp'
    BY <1>2, <2>1, <2>5, <2>6, Standing DEF GivenUp, outage
  <2>9. InStep'
    BY <2>1, <2>4, <2>6 DEF InStep, Advances
  <2>10. QED
    BY <1>1, <2>7, <2>8, <2>9 DEF IInv, QInv
<1>5. QED
  BY <1>3, <1>4

\* The handshake fails.
LEMMA ConnectFailsKeeps == ASSUME IInv, NEW g \in 1..Len(gens), ConnectFails(g) PROVE IInv'
<1>0. g = Len(gens) /\ gens[g] = Newest /\ Newest.pc = "connecting"
  BY OnlyNewest DEF IInv, Sup, ConnectFails
<1>1. Sup'
  BY ConnectFailsSup DEF IInv
<1>2. UNCHANGED <<reading, tools, syncFailed, list, settings, disposal>> /\ (Runs' <=> Runs)
  BY DEF ConnectFails, Runs
<1>3. \A next : next \notin {"syncing", "up"} => Sound(syncChain, Len(gens), next)
  BY <1>0, Standing DEF Sound
<1>4. phase = "failed" /\ Over => Awaited(syncChain, {Drop}, Runs') \/ (tools' = NoTools /\ ~Runs')
  BY <1>2, Standing DEF Runs
<1>5. AttemptFails(Len(gens), syncChain)
  BY <1>0 DEF ConnectFails
<1>6. QED
  BY <1>0, <1>1, <1>2, <1>3, <1>4, <1>5, Standing, FailQueues DEF IInv

\* The browser leg ends, approved or not.
LEMMA LegSettlesKeeps == ASSUME IInv, NEW g \in 1..Len(gens), LegSettles(g) PROVE IInv'
<1>0. g = Len(gens) /\ gens[g] = Newest /\ Newest.pc = "leg"
  BY OnlyNewest DEF IInv, Sup, LegSettles
<1>1. Sup'
  BY LegSettlesSup DEF IInv
<1>2. UNCHANGED <<reading, tools, syncFailed, list, settings, disposal>>
  BY DEF LegSettles
<1>3. CASE gens' = MovesTo(g, "ended") /\ GenerationDown(g, syncChain)
  <2>1. Advances("ended", Newest.open)
    BY <1>0, <1>3, Standing, SettleMoves DEF Places
  <2>2. QED
    BY <1>0, <1>1, <1>2, <1>3, <2>1, Standing, DownStands DEF IInv
<1>4. CASE /\ gens' = MovesTo(g, IF IsCurrent(g) THEN "reclosing" ELSE "ended")
           /\ UNCHANGED <<timer, failedAttempts, connectedAt, phase, syncChain>>
  <2>1. PICK next \in {"reclosing", "ended"} : gens' = MovesTo(g, next)
    BY <1>4
  <2>2. Advances(next, Newest.open)
    BY <1>0, <2>1, Standing, SettleMoves DEF Places
  <2>3. /\ Newest'.pc = next /\ Newest'.open = Newest.open /\ Len(gens') = Len(gens)
        /\ UNCHANGED <<registry, list>> /\ (Over' <=> Over) /\ (Disposed' <=> Disposed) /\ disposal.at # "done"
    BY <1>0, <1>2, <1>4, <2>2, Standing DEF Advances, registry, Over, Disposed
  <2>4. QED
    BY <1>0, <1>1, <1>2, <1>4, <2>1, <2>3, RegistryStands DEF IInv
<1>5. QED
  BY <1>3, <1>4 DEF LegSettles

\* The generation that was authorized is closed, and its successor starts.
LEMMA ReclosedKeeps == ASSUME IInv, NEW g \in 1..Len(gens), Reclosed(g) PROVE IInv'
<1>0. g = Len(gens) /\ gens[g] = Newest /\ Newest.pc = "reclosing"
  BY OnlyNewest DEF IInv, Sup, Reclosed
<1>1. Sup'
  BY ReclosedSup DEF IInv
<1>2. UNCHANGED <<registry, list, disposal, failedAttempts>> /\ (Over' <=> Over) /\ (Disposed' <=> Disposed)
  BY DEF Reclosed, Over, Disposed
<1>3. disposal.at # "done"
  BY <1>0, Standing
<1>4. CASE Disposed
  <2>1. Advances("ended", FALSE) /\ phase' = phase
    BY <1>0, <1>4, Standing, PutMoves DEF Reclosed, Places
  <2>2. Newest'.pc = "ended" /\ Newest'.open = FALSE /\ Len(gens') = Len(gens)
    BY <2>1 DEF Advances
  <2>3. QED
    BY <1>0, <1>1, <1>2, <1>3, <2>1, <2>2, RegistryStands DEF IInv
<1>5. CASE ~Disposed
  <2>1. /\ gens' = Append([gens EXCEPT ![g] = [pc |-> "ended", open |-> FALSE]], [pc |-> "connecting", open |-> TRUE])
        /\ phase' = "connecting"
    BY <1>5 DEF Reclosed, Connect
  <2>2. Newest'.pc = "connecting" /\ Len(gens') # Len(gens)
    BY <1>0, <2>1, Standing DEF Newest, Typed, Generations
  <2>3. QED
    BY <1>0, <1>1, <1>2, <1>3, <2>1, <2>2, RegistryStands DEF IInv
<1>6. QED
  BY <1>4, <1>5

\* The reconnect timer fires.
LEMMA TimerFiresKeeps == ASSUME IInv, TimerFires PROVE IInv'
<1>1. Sup'
  BY TimerFiresSup DEF IInv
<1>2. /\ UNCHANGED <<registry, list, disposal>> /\ (Disposed' <=> Disposed) /\ phase' = "connecting"
      /\ gens' = Append(gens, [pc |-> "connecting", open |-> TRUE])
  BY DEF TimerFires, Disposed, Connect
<1>3. Newest'.pc = "connecting" /\ Len(gens') # Len(gens)
  BY <1>2, Standing DEF Newest, Typed
<1>4. Newest.pc = "ended" /\ disposal.at # "done"
  BY DEF IInv, Sup, Lineage, TimerFires, Disposed
<1>5. QED
  BY <1>1, <1>2, <1>3, <1>4, RegistryStands DEF IInv

\* The teardown of a failed attempt: close() returns.
LEMMA ClosedKeeps == ASSUME IInv, NEW g \in 1..Len(gens), Closed(g) PROVE IInv'
<1>0. g = Len(gens) /\ gens[g] = Newest /\ Newest.pc = "closing"
  BY OnlyNewest DEF IInv, Sup, Closed
<1>1. Sup'
  BY ClosedSup DEF IInv
<1>2. /\ UNCHANGED <<registry, list, disposal, outage>> /\ (Over' <=> Over) /\ (Disposed' <=> Disposed)
      /\ disposal.at # "done"
  BY <1>0, Standing DEF Closed, Over, Disposed, outage
<1>3. PICK stays \in BOOLEAN : gens' = [gens EXCEPT ![g] = [pc |-> "waiting", open |-> stays]] /\ (stays => Newest.open)
  BY <1>0, Standing DEF Closed
<1>4. Advances("waiting", stays)
  BY <1>0, <1>3, Standing, PutMoves DEF Places
<1>5. QED
  BY <1>0, <1>1, <1>2, <1>3, <1>4, RegistryStands DEF IInv, Advances, outage

\* The transport closes.
LEMMA QuiescedKeeps == ASSUME IInv, NEW g \in 1..Len(gens), Quiesced(g) PROVE IInv'
<1>0. g = Len(gens) /\ gens[g] = Newest /\ Newest.pc = "waiting"
  BY OnlyNewest DEF IInv, Sup, Quiesced
<1>1. Sup'
  BY QuiescedSup DEF IInv
<1>2. Advances("ended", Newest.open)
  BY <1>0, Standing, SettleMoves DEF Quiesced, Places
<1>3. QED
  BY <1>0, <1>1, <1>2, Standing, DownStands DEF IInv, Quiesced

\* The transport does not close in time.
LEMMA CloseTimesOutKeeps == ASSUME IInv, NEW g \in 1..Len(gens), CloseTimesOut(g) PROVE IInv'
<1>0. g = Len(gens) /\ gens[g] = Newest /\ Newest.pc = "waiting"
  BY OnlyNewest DEF IInv, Sup, CloseTimesOut
<1>1. Sup'
  BY CloseTimesOutSup DEF IInv
<1>2. Advances("ended", Newest.open)
  BY <1>0, Standing, SettleMoves DEF CloseTimesOut, Places
<1>3. /\ UNCHANGED <<registry, list, disposal>> /\ (Over' <=> Over) /\ (Disposed' <=> Disposed)
      /\ disposal.at # "done" /\ (phase' # phase => ~Disposed)
  BY <1>0, Standing DEF CloseTimesOut, Over, Disposed, IsCurrent
<1>4. phase' = "failed" /\ Over' => phase = "failed" /\ Over
  BY <1>0, <1>3, Standing
<1>5. QED
  BY <1>0, <1>1, <1>2, <1>3, <1>4, RegistryStands DEF IInv, Advances

\* The server's process ends.
LEMMA ServerDiesKeeps == ASSUME IInv, NEW g \in 1..Len(gens), ServerDies(g) PROVE IInv'
<1>1. Sup'
  BY ServerDiesSup DEF IInv
<1>2. UNCHANGED <<reading, tools, syncFailed, list, settings, disposal, seen>> /\ (Disposed' <=> Disposed)
  BY DEF ServerDies, Disposed
<1>3. CASE gens[g].pc = "up"
  <2>1. g = Len(gens) /\ gens[g] = Newest
    BY <1>3, OnlyNewest DEF IInv, Sup
  <2>2. gens' = [gens EXCEPT ![g] = [pc |-> "ended", open |-> FALSE]] /\ GenerationDown(Len(gens), syncChain)
    BY <1>3, <2>1 DEF ServerDies
  <2>3. Advances("ended", FALSE)
    BY <2>1, <2>2, Standing, PutMoves DEF Places
  <2>4. QED
    BY <1>1, <1>2, <1>3, <2>1, <2>2, <2>3, DownStands DEF IInv
<1>4. CASE gens[g].pc # "up"
  <2>1. UNCHANGED <<outage, registry, list>>
    BY <1>2, <1>4 DEF ServerDies, registry
  <2>2. gens' = [gens EXCEPT ![g] = [pc |-> gens[g].pc, open |-> FALSE]]
    BY <1>4 DEF ServerDies
  <2>3. Len(gens') = Len(gens) /\ Newest'.pc = Newest.pc /\ (Newest'.open => Newest.open)
    <3>1. Len(gens') = Len(gens) /\ Len(gens) \in 1..Len(gens)
      BY <2>2, Standing DEF Typed
    <3>2. gens'[Len(gens)].pc = gens[Len(gens)].pc /\ (gens'[Len(gens)].open => gens[Len(gens)].open)
      BY <2>2, <3>1, Standing DEF Typed
    <3>3. QED
      BY <3>1, <3>2 DEF Newest
  <2>4. (Over' <=> Over) /\ phase' = phase
    BY <2>1 DEF outage, Over
  <2>5. QED
    BY <1>1, <1>2, <2>1, <2>3, <2>4, Standing, RegistryStands DEF IInv
<1>5. QED
  BY <1>3, <1>4

\* The attempt that awaited the first sync resumes.
LEMMA ResumesSup ==
    ASSUME IInv, syncChain # <<>>, Resumes(Head(syncChain), Tail(syncChain)), Quiet
    PROVE  Sup'
<1>1. CASE Head(syncChain).initial
  BY <1>1, FirstSync, SucceedsKeeps, Standing DEF Resumes
<1>2. CASE ~Head(syncChain).initial
  BY <1>2, Standing, SupStands DEF Resumes, attempt, outage, Quiet, SeenSet
<1>3. QED
  BY <1>1, <1>2

\* A queued sync is dropped or void: what else was awaited still is.
LEMMA SkipQueues ==
    ASSUME IInv, syncChain # <<>>, ~Runs, ~Runs', ~Head(syncChain).initial, syncChain' = Tail(syncChain),
           UNCHANGED <<attempt, syncFailed, list, disposal>>, ~IsCurrent(Head(syncChain).gen) \/ Head(syncChain) = Drop,
           tools' = NoTools \/ (Head(syncChain) # Drop /\ UNCHANGED tools)
    PROVE  QInv'
<1>1. Newest' = Newest /\ Len(gens') = Len(gens) /\ phase' = phase /\ (Over' <=> Over) /\ Runs' = FALSE
  BY DEF attempt, outage, Newest, Over, Runs
<1>2. SyncQueue'
  BY <1>1, Standing, SoundTail, TailOf DEF SyncQueue
<1>3. GivenUp'
  <2>1. disposal.at # "done"
    BY Standing
  <2>2. phase = "failed" /\ Over => Awaited(Tail(syncChain), {Drop}, FALSE) \/ tools' = NoTools
    <3>1. CASE tools' = NoTools
      BY <3>1
    <3>2. CASE Head(syncChain) # Drop /\ UNCHANGED tools
      <4>1. phase = "failed" /\ Over => Awaited(syncChain, {Drop}, FALSE) \/ tools = NoTools
        BY Standing DEF Runs
      <4>2. Head(syncChain) \notin {Drop}
        BY <3>2
      <4>3. QED
        BY <3>2, <4>1, <4>2, Standing, AwaitedTail
    <3>3. QED
      BY <3>1, <3>2
  <2>3. QED
    BY <1>1, <2>1, <2>2 DEF GivenUp
<1>4. InStep'
  <2>1. SUFFICES ASSUME ~Disposed, Newest.open, Newest.pc \in {"syncing", "up"}
                 PROVE  \/ Awaited(Tail(syncChain), JobsOf(Len(gens)), FALSE)
                        \/ Newest.pc = "up" /\ (syncFailed \/ Registered')
    BY <1>1 DEF InStep, Disposed
  <2>2. CASE Newest.pc = "syncing"
    BY <2>2, Standing, FirstAwaited
  <2>3. CASE Newest.pc = "up"
    <3>1. Head(syncChain).gen = Len(gens) /\ Len(gens) # 0 /\ client = Len(gens)
      <4>1. 1 \in 1..Len(syncChain) /\ Head(syncChain) = syncChain[1]
        BY Standing, TailOf
      <4>2. QED
        BY <2>1, <2>3, <4>1, Standing DEF Sound, Typed, Sup, Lineage
    <3>2. QED
      BY <2>1, <3>1 DEF IsCurrent, Drop
  <2>4. QED
    BY <2>1, <2>2, <2>3
<1>5. QED
  BY <1>2, <1>3, <1>4 DEF QInv

\* A sync starts to read.
LEMMA SyncStartsKeeps == ASSUME IInv, SyncStarts PROVE IInv'
<1> DEFINE job == Head(syncChain)
<1>0. syncChain # <<>> /\ ~Runs /\ UNCHANGED <<syncFailed, list, settings, disposal, seen>> /\ disposal.at # "done"
  BY Standing DEF SyncStarts, Runs
<1>1. Quiet
  BY <1>0, Standing, SeenQuiet
<1>2. CASE job = Drop /\ tools' = NoTools /\ syncChain' = Tail(syncChain) /\ UNCHANGED <<attempt, reading>>
  <2>1. Sup'
    BY <1>1, <1>2, Standing, SupStands DEF attempt, outage, Quiet, SeenSet
  <2>2. QED
    BY <1>0, <1>2, <2>1, DropJob, Standing, SkipQueues DEF IInv
<1>3. CASE job # Drop /\ IsCurrent(job.gen) /\ reading' = {list} /\ UNCHANGED <<attempt, syncChain, tools>>
  <2>1. Sup'
    BY <1>1, <1>3, Standing, SupStands DEF attempt, outage, Quiet, SeenSet
  <2>2. job.gen = Len(gens) /\ ~Over
    <3>1. job \in JobSet /\ (job.initial => job.gen = Len(gens)) /\ Len(gens) >= 1
      BY <1>0, Standing, FirstSync, TailOf DEF Typed
    <3>2. job.gen # 0
      <4>1. job = [gen |-> job.gen, initial |-> job.initial] /\ job.initial \in BOOLEAN
        BY <3>1 DEF JobSet
      <4>2. job.gen = 0 => job.initial = FALSE
        BY <3>1, <4>1
      <4>3. QED
        BY <1>3, <4>1, <4>2 DEF Drop
    <3>3. ~Disposed /\ client = job.gen /\ client \in {0, Len(gens)} /\ (client # 0 => Newest.pc # "ended")
      BY <1>3, Standing DEF IsCurrent, Sup, Lineage
    <3>4. QED
      BY <3>2, <3>3, Standing
  <2>3. Newest' = Newest /\ Len(gens') = Len(gens) /\ phase' = phase /\ (Over' <=> Over) /\ syncChain' = syncChain
    BY <1>3 DEF attempt, outage, Newest, Over
  <2>4. SyncQueue' /\ GivenUp' /\ InStep'
    BY <1>0, <1>3, <2>2, <2>3, Standing DEF SyncQueue, GivenUp, InStep
  <2>5. QED
    BY <2>1, <2>4 DEF IInv, QInv
<1>4. CASE job # Drop /\ ~IsCurrent(job.gen) /\ Resumes(job, Tail(syncChain)) /\ UNCHANGED <<reading, tools>>
  <2>1. Sup' /\ ~Runs'
    BY <1>0, <1>1, <1>4, ResumesSup DEF Runs
  <2>2. CASE job.initial
    BY <1>0, <1>4, <2>1, <2>2, FirstSync, FirstSucceeds DEF Resumes, IInv
  <2>3. CASE ~job.initial
    BY <1>0, <1>4, <2>1, <2>3, SkipQueues DEF Resumes, IInv
  <2>4. QED
    BY <2>2, <2>3
<1>5. QED
  BY <1>2, <1>3, <1>4 DEF SyncStarts

\* The running sync is over and what it was part of resumes.
LEMMA RunResumes ==
    ASSUME IInv, Runs, ~Runs', Resumes(Head(syncChain), Tail(syncChain)), Quiet, UNCHANGED list,
           \/ syncFailed'
           \/ \E version \in reading : tools' = [gen |-> Head(syncChain).gen, version |-> version]
    PROVE  IInv'
<1>0. syncChain # <<>> /\ UNCHANGED <<settings, disposal>>
  BY Standing DEF Quiet
<1>1. Sup'
  BY <1>0, ResumesSup
<1>2. CASE Head(syncChain).initial
  <2>1. AttemptSucceeds(Len(gens), Tail(syncChain))
    BY <1>0, <1>2, FirstSync DEF Resumes
  <2>2. QED
    BY <1>0, <1>1, <1>2, <2>1, FirstSucceeds DEF IInv
<1>3. CASE ~Head(syncChain).initial
  BY <1>0, <1>1, <1>3, RunEnds DEF Resumes, IInv
<1>4. QED
  BY <1>2, <1>3

\* The running sync fails its attempt.
LEMMA RunFails ==
    ASSUME IInv, Runs, ~Runs', Head(syncChain).initial, AttemptFails(Head(syncChain).gen, Tail(syncChain)),
           UNCHANGED <<settings, disposal>>
    PROVE  IInv'
<1>1. /\ syncChain # <<>> /\ Head(syncChain).gen = Len(gens) /\ Newest.pc = "syncing" /\ Tail(syncChain) \in Seq(JobSet)
      /\ \A next : next # "syncing" => Sound(Tail(syncChain), Len(gens), next)
  BY Standing, FirstSync
<1>2. phase = "failed" /\ Over => Awaited(Tail(syncChain), {Drop}, Runs')
  <2>1. phase = "failed" /\ Over => Awaited(syncChain, {Drop}, TRUE)
    BY Standing DEF Runs
  <2>2. phase = "failed" /\ Over => Awaited(Tail(syncChain), {Drop}, FALSE)
    BY <1>1, <2>1, Standing, AwaitedTail
  <2>3. QED
    BY <2>2 DEF Runs
<1>3. Sup'
  BY <1>1, FailsKeeps, Standing
<1>4. QED
  BY <1>1, <1>2, <1>3, FailQueues DEF IInv

\* A sync registers what it read.
LEMMA SyncSwapsKeeps == ASSUME IInv, SyncSwaps PROVE IInv'
<1>1. Runs /\ ~Runs' /\ UNCHANGED list /\ Quiet
  BY Standing, SeenQuiet DEF SyncSwaps, Runs
<1>2. QED
  BY <1>1, RunResumes DEF SyncSwaps

\* A sync meets a foreign registration.
LEMMA SyncConflictsKeeps == ASSUME IInv, SyncConflicts PROVE IInv'
<1>1. Runs /\ ~Runs' /\ UNCHANGED <<list, settings, disposal>> /\ syncFailed'
  BY DEF SyncConflicts, Runs
<1>2. CASE Head(syncChain).initial /\ AttemptFails(Head(syncChain).gen, Tail(syncChain))
  BY <1>1, <1>2, RunFails
<1>3. CASE Resumes(Head(syncChain), Tail(syncChain)) /\ seen' = [seen EXCEPT !.conflicts = @ + 1]
  <2>1. Quiet
    BY <1>1, <1>3, Standing DEF Quiet, SeenSet, Typed
  <2>2. QED
    BY <1>1, <1>3, <2>1, RunResumes
<1>4. QED
  BY <1>2, <1>3 DEF SyncConflicts

\* A sync fails.
LEMMA SyncFailsKeeps == ASSUME IInv, SyncFails PROVE IInv'
<1>1. Runs /\ ~Runs' /\ UNCHANGED <<list, settings, disposal>> /\ syncFailed'
  BY DEF SyncFails, Runs
<1>2. CASE Head(syncChain).initial
  BY <1>1, <1>2, RunFails DEF SyncFails
<1>3. CASE ~Head(syncChain).initial
  <2>1. Resumes(Head(syncChain), Tail(syncChain)) /\ UNCHANGED seen
    BY <1>3 DEF SyncFails, Resumes
  <2>2. QED
    BY <1>1, <2>1, Standing, SeenQuiet, RunResumes
<1>4. QED
  BY <1>2, <1>3

\* The server's list changes.
LEMMA ListChangesKeeps == ASSUME IInv, ListChanges PROVE IInv'
<1>0. UNCHANGED <<attempt, settings, tools, syncFailed, disposal, seen>> /\ list' = list + 1
  BY DEF ListChanges
<1>1. Sup'
  BY <1>0, Standing, SupStands DEF attempt, outage, Typed
<1>2. Newest' = Newest /\ Len(gens') = Len(gens) /\ phase' = phase /\ (Over' <=> Over) /\ (Runs' <=> Runs)
  BY <1>0 DEF attempt, outage, Newest, Over, ListChanges, Runs
<1>3. CASE Notified(client)
  <2>1. client = Len(gens) /\ Newest.pc \in {"connecting", "syncing", "up"} /\ ~Disposed /\ ~Over
    BY <1>3, Standing DEF Notified, IsCurrent, Sup, Lineage, Newest
  <2>2. /\ Sync(client, FALSE) \in JobSet /\ Sync(client, FALSE).gen = Len(gens) /\ ~Sync(client, FALSE).initial
        /\ Sync(client, FALSE) \in JobsOf(Len(gens))
    BY <2>1, Standing DEF Sync, JobSet, JobsOf, Typed
  <2>3. /\ syncChain' = Append(syncChain, Sync(client, FALSE)) /\ syncChain' # <<>> /\ syncChain' \in Seq(JobSet)
        /\ Sound(syncChain', Len(gens), Newest.pc)
    BY <1>3, <2>2, Standing, AppendOf, SoundAppend DEF ListChanges
  <2>4. Awaited(syncChain', JobsOf(Len(gens)), Runs')
    <3>1. Awaited(syncChain', JobsOf(Len(gens)), Runs)
      BY <2>2, <2>3, Standing, AwaitedAppend
    <3>2. QED
      BY <1>2, <3>1 DEF Awaited
  <2>5. SyncQueue' /\ GivenUp' /\ InStep'
    BY <1>0, <1>2, <2>1, <2>3, <2>4 DEF SyncQueue, GivenUp, InStep, Disposed
  <2>6. QED
    BY <1>1, <2>5 DEF IInv, QInv
<1>4. CASE ~Notified(client)
  <2>1. syncChain' = syncChain
    BY <1>4 DEF ListChanges
  <2>2. ~(~Disposed /\ Newest.open /\ Newest.pc \in {"syncing", "up"})
    BY <1>4, Standing DEF Notified, IsCurrent, Sup, Lineage, Newest, Typed
  <2>3. Awaited(syncChain, {Drop}, Runs) => Awaited(syncChain', {Drop}, Runs')
    BY <1>2, <2>1 DEF Awaited
  <2>4. SyncQueue' /\ GivenUp' /\ InStep'
    BY <1>0, <1>2, <2>1, <2>2, <2>3, Standing DEF SyncQueue, GivenUp, InStep, Disposed
  <2>5. QED
    BY <1>1, <2>4 DEF IInv, QInv
<1>5. QED
  BY <1>3, <1>4

\* A connection outlives the stability window.
LEMMA BecomesStableKeeps == ASSUME IInv, BecomesStable PROVE IInv'
<1>1. /\ UNCHANGED <<gens, registry, list, disposal, failedAttempts, phase>>
      /\ Newest' = Newest /\ Len(gens') = Len(gens) /\ (Over' <=> Over) /\ (Disposed' <=> Disposed)
  BY DEF BecomesStable, Newest, Over, Disposed
<1>2. QED
  BY <1>1, BecomesStableSup, Standing, RegistryStands DEF IInv

\* The bridge is disposed,
LEMMA DisposeKeeps == ASSUME IInv, Dispose PROVE IInv'
<1>1. /\ UNCHANGED <<gens, registry, list, failedAttempts, phase>> /\ disposal'.at # "done" /\ ~Disposed
      /\ Newest' = Newest /\ Len(gens') = Len(gens) /\ (Over' <=> Over)
  BY DEF Dispose, Newest, Over
<1>2. QED
  BY <1>1, DisposeSup, Standing, RegistryStands DEF IInv

\* closes its generation,
LEMMA DisposeClosesKeeps == ASSUME IInv, DisposeCloses PROVE IInv'
<1> DEFINE g == disposal.of
<1>1. g = Len(gens) /\ gens[g] = Newest /\ Disposed /\ Disposed' /\ disposal'.at = "draining"
  BY Standing DEF DisposeCloses, Sup, Lineage, Newest, Disposed, Typed
<1>2. UNCHANGED <<outage, registry, list>> /\ (Over' <=> Over) /\ phase' = phase /\ syncChain' = syncChain /\ (Runs' <=> Runs)
  BY DEF DisposeCloses, outage, registry, Over, Runs
<1>3. PICK stays \in BOOLEAN : gens' = [gens EXCEPT ![g] = [pc |-> IF @.pc = "up" THEN "ended" ELSE @.pc, open |-> stays]]
  BY <1>1, Standing DEF DisposeCloses
<1>4. PICK pc \in Places : /\ pc = (IF Newest.pc = "up" THEN "ended" ELSE Newest.pc)
                           /\ gens' = [gens EXCEPT ![g] = [pc |-> pc, open |-> stays]]
  BY <1>1, <1>3, Standing DEF Places
<1>5. Advances(pc, stays)
  BY <1>1, <1>4, Standing, PutMoves
<1>6. Sound(syncChain, Len(gens), pc)
  BY <1>4, Standing, SoundMoves
<1>7. SyncQueue' /\ GivenUp' /\ InStep'
  BY <1>1, <1>2, <1>5, <1>6, Standing DEF SyncQueue, GivenUp, InStep, Advances, registry, Runs
<1>8. QED
  BY <1>7, DisposeClosesSup, Standing DEF IInv, QInv

\* and waits for the queue.
LEMMA DisposeDrainsKeeps == ASSUME IInv, DisposeDrains PROVE IInv'
<1>1. /\ UNCHANGED <<gens, outage, syncChain, reading>> /\ syncChain = <<>> /\ tools' = NoTools /\ Disposed'
      /\ Newest' = Newest /\ Len(gens') = Len(gens) /\ ~Runs /\ ~Runs'
  BY Standing DEF DisposeDrains, attempt, Newest, Disposed, Runs
<1>2. Newest.pc \in {"up", "ended"}
  BY Standing DEF DisposeDrains, InFlight, Newest, Typed
<1>3. SyncQueue' /\ GivenUp' /\ InStep'
  BY <1>1, <1>2, Standing DEF SyncQueue, GivenUp, InStep
<1>4. QED
  BY <1>3, DisposeDrainsSup, Standing DEF IInv, QInv

\* Nothing happens.
LEMMA StutterKeeps == ASSUME IInv, UNCHANGED vars PROVE IInv'
<1>1. /\ UNCHANGED <<gens, client, timer, failedAttempts, connectedAt, phase, settings, disposal, seen, registry, list>>
      /\ Newest' = Newest /\ (Over' <=> Over) /\ (Disposed' <=> Disposed)
  BY DEF vars, attempt, outage, Newest, Over, Disposed
<1>2. Sup'
  BY <1>1, Standing, SupStands DEF Typed
<1>3. QED
  BY <1>1, <1>2, Standing, RegistryStands DEF IInv

-----------------------------------------------------------------------------

\* The first state.
LEMMA InitHolds == Init => IInv
<1> SUFFICES ASSUME Init PROVE IInv
  OBVIOUS
<1>0. /\ gens = <<[pc |-> "connecting", open |-> TRUE]>> /\ client = 1 /\ timer = FALSE /\ failedAttempts = 0
      /\ connectedAt = "down" /\ phase = "connecting" /\ syncChain = <<>> /\ reading = {} /\ tools = NoTools
      /\ disposal = [at |-> "no", of |-> 0] /\ settings \in Settings /\ seen = [stable |-> 0, legs |-> 0, conflicts |-> 0]
  BY DEF Init
<1>1. Len(gens) = 1 /\ gens \in Seq(Generations) /\ Newest.pc = "connecting" /\ Newest.open
  BY <1>0 DEF Generations, Newest
<1>2. Typed
  <2>1. /\ disposal \in [at: {"no", "closing", "draining", "done"}, of: Nat]
        /\ seen \in [stable: Nat, legs: Nat, conflicts: Nat]
    BY <1>0
  <2>2. timer \in BOOLEAN /\ failedAttempts \in Nat /\ settings \in Settings
    BY <1>0
  <2>3. QED
    BY <1>0, <1>1, <2>1, <2>2 DEF Typed
<1>3. ~Disposed /\ ~Over
  BY <1>0 DEF Disposed, Over
<1>4. Lineage /\ Reported
  BY <1>0, <1>1, <1>3 DEF Lineage, Reported
<1>5. Budget
  <2>1. Renewed = 0
    BY <1>0 DEF Renewed, Renewals
  <2>2. Spent = 0 /\ Owed = 0
    BY <1>0, <1>1, <1>3 DEF Spent, Owed
  <2>3. Balance
    BY <1>0, <1>1, <2>1, <2>2 DEF Balance
  <2>4. QED
    BY <1>0, <1>1, <1>3, <2>3 DEF Budget
<1>6. SyncQueue /\ GivenUp /\ InStep
  BY <1>0, <1>1, <1>3 DEF SyncQueue, GivenUp, InStep, Sound, Runs, JobSet
<1>7. QED
  BY <1>2, <1>4, <1>5, <1>6 DEF IInv, Sup, QInv

\* Every step keeps the invariant.
LEMMA StepHolds == IInv /\ [Next]_vars => IInv'
<1> SUFFICES ASSUME IInv, [Next]_vars PROVE IInv'
  OBVIOUS
<1>1. ASSUME NEW g \in 1..Len(gens), AttemptStep(g) \/ ServerDies(g) PROVE IInv'
  BY <1>1, ConnectSucceedsKeeps, ConnectFailsKeeps, LegSettlesKeeps, ReclosedKeeps, ClosedKeeps, QuiescedKeeps,
     CloseTimesOutKeeps, ServerDiesKeeps DEF AttemptStep
<1>2. CASE SyncStep
  BY <1>2, SyncStartsKeeps, SyncSwapsKeeps, SyncConflictsKeeps, SyncFailsKeeps DEF SyncStep
<1>3. CASE TimerFires \/ BecomesStable \/ ListChanges \/ Dispose \/ DisposeCloses \/ DisposeDrains
  BY <1>3, TimerFiresKeeps, BecomesStableKeeps, ListChangesKeeps, DisposeKeeps, DisposeClosesKeeps, DisposeDrainsKeeps
<1>4. CASE UNCHANGED vars
  BY <1>4, StutterKeeps
<1>5. QED
  BY <1>1, <1>2, <1>3, <1>4 DEF Next

\* The supervisor of every reachable state: one generation alive, a status
\* that tells of it, restarts that are paid for, and a queue that knows what
\* is still to be registered (connectGeneration, scheduleReconnect,
\* enqueueSync).
THEOREM InvariantHolds == Spec => []IInv
  BY InitHolds, StepHolds, PTL DEF Spec

\* At most one process of a server runs, for any budget of restarts and any
\* number of generations (teardownFailedAttempt).
THEOREM OneServerRuns == Spec => []OneServer
<1>1. ASSUME IInv PROVE OneServer
  <2> DEFINE Running == {g \in 1..Len(gens) : gens[g].open}
  <2>1. SUFFICES ASSUME ~settings.oauth PROVE Cardinality(Running) <= 1
    BY DEF OneServer
  <2>2. Len(gens) \in Nat /\ \A g \in 1..Len(gens) - 1 : ~gens[g].open
    BY <1>1, <2>1, Standing DEF Typed, Sup, Lineage
  <2>3. Running \subseteq {Len(gens)}
    BY <2>2
  <2>4. Running = {} \/ Running = {Len(gens)}
    BY <2>3
  <2> HIDE DEF Running
  <2>5. Cardinality({}) = 0 /\ Cardinality({Len(gens)}) = 1
    BY FS_EmptySet, FS_Singleton
  <2>6. QED
    BY <2>4, <2>5
<1>2. QED
  BY <1>1, InvariantHolds, PTL

\* The generations ever started are paid for: by the first start, the
\* approved authorizations, and a full budget for the start and for every
\* connection that outlived the stability window (scheduleReconnect).
THEOREM RestartsArePaid == Spec => []BudgetRespected
<1>1. ASSUME IInv PROVE BudgetRespected
  <2>1. Sup /\ Typed /\ Budget /\ seen.stable \in Nat
    BY <1>1 DEF IInv, Sup, Typed
  <2>2. Renewals \in Nat /\ Renewals <= seen.stable
    BY <2>1, RenewedNat DEF Renewals
  <2>3. PolicyAttempts * Renewals <= PolicyAttempts * seen.stable
    BY <2>1, <2>2
  <2>4. PolicyAttempts * (1 + seen.stable) = PolicyAttempts + PolicyAttempts * seen.stable
    BY <2>1
  <2>5. Len(gens) <= 1 + seen.legs + Renewed + Spent /\ Spent <= PolicyAttempts
    BY <2>1, CostsNat DEF Balance
  <2>6. QED
    BY <2>1, <2>3, <2>4, <2>5, CostsNat DEF BudgetRespected, Renewed
<1>2. QED
  BY <1>1, InvariantHolds, PTL

\* The reported phase is what the supervisor is doing (onStatus).
THEOREM PhaseIsTrue == Spec => []PhaseTruthful
<1>1. ASSUME IInv PROVE PhaseTruthful
  <2>1. SUFFICES ASSUME ~Disposed
                 PROVE  /\ phase = "connecting" <=> \E g \in 1..Len(gens) : InFlight(g)
                        /\ phase = "reconnecting" <=> timer
                        /\ phase = "connected" <=> client # 0 /\ gens[client].pc = "up"
                        /\ phase = "failed" => client = 0
    BY DEF PhaseTruthful
  <2>2. (\E g \in 1..Len(gens) : InFlight(g)) <=> Newest.pc \notin {"up", "ended"}
    BY <1>1, Standing DEF InFlight, Newest, Sup, Lineage, Typed
  <2>3. client \in {0, Len(gens)} /\ Len(gens) # 0 /\ (client = 0 <=> Newest.pc \in {"reclosing", "ended"})
    BY <1>1, <2>1, Standing DEF Sup, Lineage, Typed
  <2>4. client # 0 => gens[client] = Newest
    BY <2>3 DEF Newest
  <2>5. /\ phase = "connecting" <=> Newest.pc \notin {"up", "ended"}
        /\ phase = "reconnecting" <=> timer
        /\ phase = "connected" <=> Newest.pc = "up"
    BY <1>1, <2>1, Standing DEF Sup, Reported
  <2>6. QED
    BY <2>2, <2>3, <2>4, <2>5
<1>2. QED
  BY <1>1, InvariantHolds, PTL

\* No announced change of the server's list is lost, however its syncs,
\* conflicts and failures fall (the notification handler, enqueueSync).
THEOREM ListStaysInStep == Spec => []NoListChangeLost
<1>1. ASSUME IInv PROVE NoListChangeLost
  <2>1. SUFFICES ASSUME phase = "connected", ~Disposed, syncChain = <<>>, ~syncFailed
                 PROVE  tools = [gen |-> client, version |-> list]
    BY DEF NoListChangeLost
  <2>2. Newest.pc = "up" /\ Newest.open /\ client = Len(gens) /\ ~Runs
    BY <1>1, <2>1, Standing DEF Sup, Reported, Lineage
  <2>3. ~Awaited(syncChain, JobsOf(Len(gens)), Runs)
    BY <2>1 DEF Awaited
  <2>4. Registered
    BY <1>1, <2>1, <2>2, <2>3 DEF IInv, QInv, InStep, Runs
  <2>5. QED
    BY <2>2, <2>4 DEF Registered
<1>2. QED
  BY <1>1, InvariantHolds, PTL

\* A bridge that was given up or disposed leaves nothing behind
\* (scheduleReconnect's disposal of the tools, dispose).
THEOREM NothingIsLeft == Spec => []EndedHoldsNothing
<1>1. ASSUME IInv PROVE EndedHoldsNothing
  <2>1. phase = "failed" /\ failedAttempts > PolicyAttempts /\ syncChain = <<>> => tools = NoTools
    <3>1. syncChain = <<>> => ~Awaited(syncChain, {Drop}, Runs)
      BY DEF Awaited
    <3>2. QED
      BY <1>1, <3>1, Standing DEF Over
  <2>2. ASSUME disposal.at = "done"
        PROVE  /\ tools = NoTools /\ syncChain = <<>> /\ ~timer /\ client = 0
               /\ \A g \in 1..Len(gens) : ~InFlight(g)
    <3>1. tools = NoTools /\ syncChain = <<>> /\ Newest.pc \in {"up", "ended"} /\ Disposed
      BY <1>1, <2>2, Standing DEF Disposed
    <3>2. ~timer /\ client = 0 /\ \A g \in 1..Len(gens) : ~InFlight(g)
      BY <1>1, <3>1, Standing DEF InFlight, Newest, Sup, Lineage, Typed
    <3>3. QED
      BY <3>1, <3>2
  <2>3. QED
    BY <2>1, <2>2 DEF EndedHoldsNothing
<1>2. QED
  BY <1>1, InvariantHolds, PTL
=============================================================================
