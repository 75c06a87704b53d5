-------------------------- MODULE LspMountsProofs --------------------------
(***************************************************************************)
(* The two promises of LspMounts, for any number of servers, changes,      *)
(* faults and restarts.                                                    *)
(*                                                                         *)
(* Both speak of what is left when passes are over.  The invariant says    *)
(* what a pass knows on the way there: Seamed, what is mounted of the seam *)
(* at each of its stages; InStep, that a pass behind which nothing is      *)
(* owed or queued was given the configurations in force, and has left      *)
(* every server it has dealt with in the state it promises.                *)
(***************************************************************************)
EXTENDS LspMounts, TLAPS

\* The counters of the environment, and the last disposal.
Counters == budget \in [changes : Nat, faults : Nat, restarts : Nat, disposals : 0..1]

\* A pass of disposeAll is asked for by the disposal alone.
Disposing ==
    /\ pass.kind = "dispose" => Disposed
    /\ \A i \in DOMAIN queue : queue[i].kind = "dispose" => Disposed

\* What the stage of a pass tells about it.
Staged ==
    /\ pass.stage = "idle" => pass = NoPass
    /\ pass.kind = "dispose" => pass.stage = "removing"
    /\ pass.stage = "mounting" => pass.todo \subseteq Wanted

\* The seam was resolved.
SeamReady == seam.ready /\ seam.failure = "none"

\* Until the disposal a seam that was resolved is mounted whole, except while a
\* pass mounts it, when no server is up.
Seamed ==
    /\ pass.stage \in Parts => SeamReady
    /\ ~Disposed =>
        /\ Live # {} => capability = Parts /\ SeamReady
        /\ pass.stage \in Parts => Live = {}
        /\ pass.stage = "tool" => "service" \in capability
        /\ SeamReady /\ pass.stage \notin Parts => capability = Parts
        /\ pass.stage = "mounting" /\ Wanted # {} => seam.ready

\* Who waits for a restart is up and flagged.
Flagged == ~Disposed => restarting \subseteq forced \cap Live

\* A pass will read the configurations again.
Pending == owed \/ queue # <<>> \/ pass.stage = "reading"

\* The pass has still to decide whether to tear this server down.
Ahead(k) == pass.stage = "removing" /\ k \in pass.todo
\* What a pass leaves of a server it has tried to mount.
Covered(k) ==
    \/ live[k] = pass.wanted[k]
    \/ k \notin Live /\ (k \in timers \/ GaveUp(k))
    \/ outcome[k] = "host-missing"
    \/ outcome[k] = "stuck" /\ k \in Live

\* What the last pass, if nothing is pending behind it, has done so far.
InStep ==
    pass.stage \notin {"idle", "reading"} /\ ~Disposed /\ ~Pending =>
        /\ \A k \in Keys : pass.wanted[k] = IF k \in lastEnabled \cup Direct THEN config[k] ELSE 0
        /\ \A k \in Live : Ahead(k) \/ live[k] = pass.wanted[k] \/ outcome[k] = "stuck"
        /\ \A k \in restarting : Ahead(k) \/ outcome[k] = "stuck"
        /\ pass.stage = "mounting" => \A k \in Wanted \ pass.todo : Covered(k)

Sound == Disposing /\ Staged /\ Seamed /\ Flagged
IInv == TypeOK /\ Counters /\ Sound /\ InStep /\ NoneForgotten

-----------------------------------------------------------------------------
\* The elements of the queue, and the pass in flight.
Passes == [kind : {"reconcile", "retry", "dispose"}, enabled : SUBSET (Keys \ Direct)]
PassType == [stage : {"idle", "reading", "removing", "mounting"} \cup Parts, todo : SUBSET Keys,
             kind : {"none", "reconcile", "retry", "dispose"}, wanted : [Keys -> Versions]]

\* No pass is a pass, and wants nothing.
LEMMA NoPassTyped == NoPass \in PassType /\ NoConfig \in [Keys -> Versions] /\ NoPass.stage = "idle" /\ NoPass.kind = "none"
  BY BoundsAssumption DEF NoPass, NoConfig, PassType, Versions, Parts

\* The queue holds passes.
LEMMA QueueTyped == ASSUME TypeOK PROVE queue \in Seq(Passes)
  BY DEF TypeOK, LifecycleType, Passes

\* The queue has at its end what is put there.
LEMMA QueueGrows ==
    ASSUME queue \in Seq(Passes), NEW p \in Passes
    PROVE  /\ Append(queue, p) \in Seq(Passes) /\ Append(queue, p) # <<>>
           /\ \A i \in DOMAIN Append(queue, p) : Append(queue, p)[i] = p
                                                 \/ (i \in DOMAIN queue /\ Append(queue, p)[i] = queue[i])
  OBVIOUS

\* The queue loses its head, and keeps the rest in order.
LEMMA QueueAdvances ==
    ASSUME queue \in Seq(Passes), queue # <<>>
    PROVE  /\ Head(queue) \in Passes /\ Tail(queue) \in Seq(Passes)
           /\ Head(queue) = queue[1] /\ 1 \in DOMAIN queue
           /\ \A i \in DOMAIN Tail(queue) : i + 1 \in DOMAIN queue /\ Tail(queue)[i] = queue[i + 1]
  OBVIOUS

\* What the retry schedule does to the timers and the attempts of every key.
LEMMA RetryOutcome ==
    ASSUME TypeOK, NEW failed \in SUBSET Keys, NEW settled \in SUBSET Keys, failed \cap settled = {},
           Retry(failed, settled)
    PROVE  /\ timers' \in SUBSET Keys /\ attempts' \in [Keys -> 0..MaxAttempts + 1]
           /\ \A k \in timers' : attempts'[k] \in 1..MaxAttempts
           /\ \A k \in failed : k \in timers' \/ GaveUp(k)'
           /\ \A k \in Keys \ (failed \cup settled) : (k \in timers' <=> k \in timers) /\ attempts'[k] = attempts[k]
  BY AttemptsAssumption DEF TypeOK, LifecycleType, Retry, GaveUp

-----------------------------------------------------------------------------
\* The first state.
LEMMA InitHolds == Init => IInv
<1> SUFFICES ASSUME Init PROVE IInv
  OBVIOUS
<1>1. TypeOK
  <2>1. LifecycleType(Passes)
    BY AttemptsAssumption DEF Init, LifecycleInit, LifecycleType, NoAttempts
  <2>2. pass \in PassType /\ live \in [Keys -> Versions] /\ config \in [Keys -> Versions]
    BY NoPassTyped, BoundsAssumption DEF Init, Versions
  <2> QED
    BY <2>1, <2>2 DEF Init, TypeOK, Passes, PassType, NoSeam, Codes
<1>0. Counters
  BY DEF Init, Counters
<1>2. Sound /\ InStep /\ NoneForgotten
  BY NoPassTyped DEF Init, Sound, InStep, NoneForgotten, Disposing, Staged, Seamed, Flagged, Live, NoConfig,
     LifecycleInit, SeamReady, NoSeam, AtRest, Parts
<1> QED
  BY <1>0, <1>1, <1>2 DEF IInv

-----------------------------------------------------------------------------
(* Steps                                                                    *)

\* A step is of the environment, of the pass as a whole, of a part of the seam
\* or of one server.
Environment == ServersChange \/ ProfileChanges \/ Restart \/ Asks \/ Dispose \/ \E k \in Keys : TimerFires(k)
PassWide == PassStarts \/ PassReads \/ PassRejects \/ PassReleases \/ PassMounts \/ PassEnds \/ DisposeEnds
SeamWide == \E part \in Parts : MountsPart(part) \/ PartFails(part)
ServerWide(k) == Keeps(k) \/ Unmounts(k) \/ UnmountFails(k) \/ Stands(k) \/ Mounts(k) \/ MountFails(k)

\* There are no other steps.
LEMMA Groups == Next <=> Environment \/ PassWide \/ SeamWide \/ \E k \in Keys : ServerWide(k)
  BY Zenon DEF Next, PassStep, Environment, PassWide, SeamWide, ServerWide

-----------------------------------------------------------------------------
(* Types                                                                    *)

\* Disposals are counted by Dispose alone, and never taken back.
LEMMA Counted ==
    ASSUME TypeOK, Counters, Next
    PROVE  Counters' /\ (Disposed => Disposed') /\ (Disposed' => Disposed \/ Environment)
<1>1. CASE Environment
  <2>1. Changes \/ Restart \/ Dispose \/ UNCHANGED budget
    BY <1>1 DEF Environment, ServersChange, ProfileChanges, Asks, TimerFires
  <2>2. Counters' /\ (Disposed => Disposed')
    BY <2>1 DEF Changes, Restart, Dispose, Counters, Disposed
  <2> QED
    BY <1>1, <2>2
<1>2. CASE PassWide \/ SeamWide \/ \E k \in Keys : ServerWide(k)
  <2>1. UNCHANGED budget \/ Fault
    <3>1. CASE PassWide
      BY <3>1 DEF PassWide, PassStarts, PassReads, PassRejects, PassReleases, PassMounts, PassEnds, DisposeEnds, Release
    <3>2. CASE SeamWide
      BY <3>2 DEF SeamWide, MountsPart, PartFails
    <3>3. ASSUME NEW k \in Keys, ServerWide(k) PROVE UNCHANGED budget \/ Fault
      BY <3>3 DEF ServerWide, Keeps, Unmounts, UnmountFails, Stands, Mounts, MountFails
    <3> QED
      BY <1>2, <3>1, <3>2, <3>3
  <2> QED
    BY <2>1 DEF Fault, Counters, Disposed
<1> QED
  BY <1>1, <1>2, Groups

\* The types, part by part.
QueueType == queue \in Seq(Passes)
RetryType ==
    /\ timers \in SUBSET Keys /\ attempts \in [Keys -> 0..MaxAttempts + 1]
    /\ \A k \in timers : attempts[k] \in 1..MaxAttempts
WorldType ==
    /\ enabled \in SUBSET (Keys \ Direct) /\ config \in [Keys -> Versions] /\ profile \in SUBSET (Parts \cup Extensions)
    /\ owed \in BOOLEAN /\ calling \in BOOLEAN /\ lastEnabled \in SUBSET (Keys \ Direct)
RowType == live \in [Keys -> Versions] /\ forced \in SUBSET Keys /\ restarting \in SUBSET Keys
SeamType ==
    /\ capability \in SUBSET Parts /\ leftovers \in SUBSET (Parts \cup Extensions)
    /\ seam \in [ready : BOOLEAN, failure : Codes \cup {"none"}]
    /\ capability # {} => seam.ready
ReportType == outcome \in [Keys -> Codes \cup {"none", "stuck"}] /\ rejected \in BOOLEAN

Typed == QueueType /\ RetryType /\ WorldType /\ pass \in PassType /\ RowType /\ SeamType /\ ReportType

\* Together they are the type invariant.
LEMMA TypeParts == TypeOK <=> Typed
  BY DEF TypeOK, LifecycleType, Typed, QueueType, RetryType, WorldType, RowType, SeamType, ReportType, Passes, PassType

\* Types are kept by what the environment does,
LEMMA EnvironmentTyped ==
    ASSUME Typed, Environment
    PROVE  Typed'
<1>1. CASE ServersChange \/ ProfileChanges
  <2>1. UNCHANGED <<lifecycle, calling, lastEnabled, pass, rows, seams, outcome, rejected>> /\ owed' \in BOOLEAN
    BY <1>1 DEF ServersChange, ProfileChanges, Typed, WorldType
  <2>2. WorldType'
    BY <1>1 DEF Typed, WorldType, ServersChange, ProfileChanges, inputs
  <2> QED
    BY <2>1, <2>2 DEF Typed, QueueType, RetryType, RowType, SeamType, ReportType, lifecycle, rows, seams
<1>2. CASE Restart
  <2>1. RowType' /\ owed' = TRUE
    BY <1>2 DEF Restart, Typed, RowType, Live
  <2> QED
    BY <1>2, <2>1 DEF Restart, Typed, QueueType, RetryType, WorldType, SeamType, ReportType, lifecycle, inputs, seams
<1>3. CASE Asks \/ Dispose
  <2>1. Pass("reconcile", enabled) \in Passes /\ Pass("dispose", {}) \in Passes
    BY DEF Typed, WorldType, Pass, Passes
  <2>2. QueueType'
    BY <1>3, <2>1, QueueGrows DEF Asks, Dispose, Queue, Typed, QueueType
  <2> QED
    BY <1>3, <2>2 DEF Asks, Dispose, Typed, RetryType, WorldType, RowType, SeamType, ReportType, inputs, rows, seams
<1>4. ASSUME NEW k \in Keys, TimerFires(k) PROVE Typed'
  <2>1. Pass("retry", lastEnabled) \in Passes
    BY DEF Typed, WorldType, Pass, Passes
  <2>2. QueueType'
    BY <1>4, <2>1, QueueGrows DEF TimerFires, Fires, Queue, Typed, QueueType
  <2>3. RetryType'
    BY <1>4 DEF TimerFires, Fires, Typed, RetryType
  <2> QED
    BY <1>4, <2>2, <2>3 DEF TimerFires, Typed, WorldType, RowType, SeamType, ReportType, world, inputs, rows, seams
<1> QED
  BY <1>1, <1>2, <1>3, <1>4 DEF Environment

\* by the steps of a pass,
LEMMA PassTyped ==
    ASSUME Typed, Seamed, PassWide
    PROVE  Typed'
<1> USE DEF Returns
<1>1. CASE PassStarts
  <2>1. QueueType' /\ Head(queue) \in Passes
    BY <1>1, QueueAdvances DEF PassStarts, Typed, QueueType
  <2>2. Head(queue).kind \in {"reconcile", "retry", "dispose"} /\ Head(queue).enabled \in SUBSET (Keys \ Direct)
    BY <2>1 DEF Passes
  <2>3. pass' \in PassType
    <3>1. Live \in SUBSET Keys
      BY DEF Live
    <3>2. \/ pass' = [NoPass EXCEPT !.stage = "removing", !.kind = "dispose", !.todo = Live]
          \/ pass' = [NoPass EXCEPT !.stage = "reading", !.kind = Head(queue).kind]
      BY <1>1 DEF PassStarts
    <3> QED
      BY <2>2, <3>1, <3>2, NoPassTyped DEF PassType
  <2>4. WorldType'
    BY <1>1, <2>2 DEF PassStarts, Typed, WorldType, world, inputs
  <2> QED
    BY <1>1, <2>1, <2>3, <2>4 DEF PassStarts, Typed, RetryType, RowType, SeamType, ReportType, rows, seams
<1>2. CASE PassReads
  <2>1. [k \in Keys |-> IF k \in lastEnabled \cup Direct THEN config[k] ELSE 0] \in [Keys -> Versions]
    BY BoundsAssumption DEF Typed, WorldType, Versions
  <2>2. pass' \in PassType
    BY <1>2, <2>1 DEF PassReads, PassType, Typed, Live
  <2>3. ReportType'
    BY <1>2 DEF PassReads, ReportType
  <2> QED
    BY <1>2, <2>2, <2>3 DEF PassReads, Typed, QueueType, RetryType, WorldType, RowType, SeamType, lifecycle, world, inputs, rows, seams
<1>3. CASE PassRejects \/ PassEnds
  <2>1. pass' \in PassType /\ ReportType' /\ calling' \in BOOLEAN
    BY <1>3, NoPassTyped DEF PassRejects, PassEnds, Typed, ReportType, WorldType
  <2> QED
    BY <1>3, <2>1 DEF PassRejects, PassEnds, Typed, QueueType, RetryType, WorldType, RowType, SeamType, lifecycle, world, inputs, rows, seams
<1>4. CASE PassReleases \/ DisposeEnds
  <2>1. SeamType'
    <3>1. Release
      BY <1>4 DEF PassReleases, DisposeEnds
    <3>2. NoSeam \in [ready : BOOLEAN, failure : Codes \cup {"none"}]
      BY DEF NoSeam
    <3> QED
      BY <3>1, <3>2 DEF Release, Typed, SeamType
  <2>2. pass' \in PassType /\ calling' \in BOOLEAN
    BY <1>4, NoPassTyped DEF PassReleases, DisposeEnds, Typed, WorldType
  <2>3. RowType'
    BY <1>4 DEF PassReleases, DisposeEnds, DropsFlags, Typed, RowType
  <2>4. RetryType'
    BY <1>4, AttemptsAssumption DEF PassReleases, DisposeEnds, Clear, NoAttempts, Typed, RetryType, lifecycle
  <2> QED
    BY <1>4, <2>1, <2>2, <2>3, <2>4
       DEF PassReleases, DisposeEnds, Typed, QueueType, WorldType, ReportType, lifecycle, world, inputs
<1>5. CASE PassMounts
  <2>1. pass' \in PassType
    BY <1>5 DEF PassMounts, Typed, PassType, Parts, Wanted
  <2>3. SeamType'
    <3>1. UNCHANGED <<capability, leftovers>> /\ (seam' = seam \/ seam' = [ready |-> TRUE, failure |-> "none"])
      BY <1>5 DEF PassMounts
    <3>2. [ready |-> TRUE, failure |-> "none"] \in [ready : BOOLEAN, failure : Codes \cup {"none"}]
      OBVIOUS
    <3> QED
      BY <3>1, <3>2 DEF Typed, SeamType
  <2>2. RowType'
    BY <1>5 DEF PassMounts, DropsFlags, Typed, RowType
  <2> QED
    BY <1>5, <2>1, <2>2, <2>3 DEF PassMounts, Typed, QueueType, RetryType, WorldType, ReportType, lifecycle, world, inputs
<1> QED
  BY <1>1, <1>2, <1>3, <1>4, <1>5 DEF PassWide

\* by the parts of the seam,
LEMMA SeamTyped ==
    ASSUME Typed, Seamed, SeamWide
    PROVE  Typed'
<1> SUFFICES ASSUME NEW part \in Parts, MountsPart(part) \/ PartFails(part) PROVE Typed'
  BY DEF SeamWide
<1>1. pass' \in PassType
  BY DEF MountsPart, PartFails, Typed, PassType, Parts, Wanted
<1>2. SeamType'
  BY DEF MountsPart, PartFails, Typed, SeamType, Seamed, SeamReady, Codes
<1> QED
  BY <1>1, <1>2 DEF MountsPart, PartFails, Typed, QueueType, RetryType, WorldType, RowType, ReportType, lifecycle, world, inputs, rows

\* and by the teardown and the mount of a server.
LEMMA ServerTyped ==
    ASSUME Typed, NEW k \in Keys, ServerWide(k)
    PROVE  Typed'
<1> USE DEF ServerWide
<1>1. pass' \in PassType
  <2>1. Done(k)
    BY DEF Keeps, Unmounts, UnmountFails, Stands, Mounts, MountFails
  <2> QED
    BY <2>1 DEF Done, Typed, PassType
<1>2. RetryType' /\ queue' = queue
  <2>1. UNCHANGED <<timers, attempts>> \/ Settle(k) \/ Schedule(k)
    BY DEF Keeps, Unmounts, UnmountFails, Stands, Mounts, MountFails, Reports, lifecycle
  <2>2. TypeOK
    BY TypeParts
  <2>3. queue' = queue
    BY DEF Keeps, Unmounts, UnmountFails, Stands, Mounts, MountFails, lifecycle
  <2> QED
    BY <2>1, <2>2, <2>3, RetryOutcome DEF Settle, Schedule, Typed, RetryType
<1>3. RowType'
  <2>1. pass.wanted[k] \in Versions /\ 0 \in Versions
    BY BoundsAssumption DEF Typed, PassType, Versions
  <2> QED
    BY <2>1 DEF Keeps, Unmounts, UnmountFails, Stands, Mounts, MountFails, Typed, RowType, rows
<1>4. ReportType'
  BY DEF Keeps, Unmounts, UnmountFails, Stands, Mounts, MountFails, Reports, Typed, ReportType, SeamType, Codes
<1>5. SeamType'
  BY ServersAssumption DEF Keeps, Unmounts, UnmountFails, Stands, Mounts, MountFails, Typed, SeamType, seams
<1> QED
  BY <1>1, <1>2, <1>3, <1>4, <1>5 
     DEF Keeps, Unmounts, UnmountFails, Stands, Mounts, MountFails, Typed, QueueType, WorldType, world, inputs

\* Every step keeps the types; a handle needs a resolved seam, which Seamed has.
LEMMA TypesKept ==
    ASSUME TypeOK, Seamed, [Next]_vars
    PROVE  TypeOK'
<1>1. Typed
  BY TypeParts
<1>2. Typed'
  <2>1. CASE UNCHANGED vars
    BY <1>1, <2>1 DEF vars, lifecycle, world, inputs, rows, seams, Typed, QueueType, RetryType, WorldType, RowType, SeamType, ReportType
  <2>2. CASE Next
    BY <1>1, <2>2, Groups, EnvironmentTyped, PassTyped, SeamTyped, ServerTyped, Zenon
  <2> QED
    BY <2>1, <2>2
<1> QED
  BY <1>2, TypeParts, PTL
-----------------------------------------------------------------------------
(* What passes and the seam keep                                            *)

\* The environment touches neither the pass nor what it has mounted.
LEMMA EnvironmentLeaves ==
    ASSUME Environment
    PROVE  UNCHANGED <<pass, live, capability, seam, leftovers, outcome, rejected, lastEnabled, attempts>>
  BY DEF Environment, ServersChange, ProfileChanges, Restart, Asks, Dispose, TimerFires, Fires, lifecycle, rows, seams

\* Only the disposal queues a pass of its kind; a restart flags what is up.
LEMMA EnvironmentSound ==
    ASSUME Typed, Sound, Environment, Disposed => Disposed'
    PROVE  Sound'
<1>1. Disposing'
  <2>1. queue' = queue \/ \E p \in Passes : queue' = Append(queue, p) /\ (p.kind = "dispose" => Disposed')
    <3>1. CASE ServersChange \/ ProfileChanges \/ Restart
      BY <3>1 DEF ServersChange, ProfileChanges, Restart, lifecycle
    <3>2. CASE Asks
      <4>1. Pass("reconcile", enabled) \in Passes /\ Pass("reconcile", enabled).kind # "dispose"
        BY DEF Typed, WorldType, Pass, Passes
      <4> QED
        BY <3>2, <4>1 DEF Asks, Queue
    <3>3. CASE Dispose
      <4>1. Pass("dispose", {}) \in Passes
        BY DEF Pass, Passes
      <4>2. Disposed'
        BY <3>3 DEF Dispose, Disposed
      <4> QED
        BY <3>3, <4>1, <4>2 DEF Dispose, Queue
    <3>4. CASE \E k \in Keys : TimerFires(k)
      <4>1. Pass("retry", lastEnabled) \in Passes /\ Pass("retry", lastEnabled).kind # "dispose"
        BY DEF Typed, WorldType, Pass, Passes
      <4> QED
        BY <3>4, <4>1 DEF TimerFires, Fires, Queue
    <3> QED
      BY <3>1, <3>2, <3>3, <3>4 DEF Environment
  <2>2. CASE queue' = queue
    BY <2>2, EnvironmentLeaves DEF Sound, Disposing
  <2>3. ASSUME NEW p \in Passes, queue' = Append(queue, p), p.kind = "dispose" => Disposed'
        PROVE  Disposing'
    <3>1. \A i \in DOMAIN queue' : queue'[i].kind = "dispose" => Disposed'
      BY <2>3, QueueGrows DEF Typed, QueueType, Sound, Disposing
    <3> QED
      BY <3>1, EnvironmentLeaves DEF Sound, Disposing
  <2> QED
    BY <2>1, <2>2, <2>3
<1>2. Staged' /\ Seamed'
  BY EnvironmentLeaves DEF Sound, Staged, Seamed, SeamReady, Live, Wanted
<1>3. Flagged'
  <2>1. CASE Restart
    BY <2>1 DEF Restart, Sound, Flagged, Live
  <2>2. CASE ~Restart
    <3>1. UNCHANGED <<forced, restarting>>
      BY <2>2 DEF Environment, ServersChange, ProfileChanges, Asks, Dispose, TimerFires, rows
    <3> QED
      BY <3>1, EnvironmentLeaves DEF Sound, Flagged, Live
  <2> QED
    BY <2>1, <2>2
<1> QED
  BY <1>1, <1>2, <1>3 DEF Sound

\* A pass goes for the seam only when nothing is up, and lets it go only then.
LEMMA PassSound ==
    ASSUME Typed, Sound, PassWide, Disposed <=> Disposed'
    PROVE  Sound'
<1>1. CASE PassStarts
  <2>1. /\ Head(queue) \in Passes /\ Head(queue) = queue[1] /\ 1 \in DOMAIN queue
        /\ \A i \in DOMAIN queue' : i + 1 \in DOMAIN queue /\ queue'[i] = queue[i + 1]
    BY <1>1, QueueAdvances DEF PassStarts, Typed, QueueType
  <2>2. \/ Disposed /\ pass'.stage = "removing" /\ pass'.kind = "dispose"
        \/ pass'.stage = "reading" /\ pass'.kind = Head(queue).kind /\ Head(queue).kind # "dispose"
    <3>1. Live \in SUBSET Keys
      BY DEF Live
    <3>2. \/ /\ Head(queue).kind = "dispose"
             /\ pass' = [NoPass EXCEPT !.stage = "removing", !.kind = "dispose", !.todo = Live]
          \/ /\ Head(queue).kind # "dispose"
             /\ pass' = [NoPass EXCEPT !.stage = "reading", !.kind = Head(queue).kind]
      BY <1>1 DEF PassStarts
    <3>3. Head(queue).kind = "dispose" => Disposed
      BY <2>1 DEF Sound, Disposing
    <3> QED
      BY <3>1, <3>2, <3>3, NoPassTyped DEF PassType
  <2>3. UNCHANGED <<live, capability, seam, forced, restarting>>
    BY <1>1 DEF PassStarts, rows, seams
  <2>4. Disposing'
    BY <2>1, <2>2 DEF Sound, Disposing
  <2>5. pass.stage = "idle"
    BY <1>1, NoPassTyped DEF PassStarts, Idle
  <2> QED
    BY <2>2, <2>3, <2>4, <2>5 DEF Sound, Staged, Seamed, Flagged, SeamReady, Live, Parts
<1>2. CASE PassReads
  <2>1. pass'.stage = "removing" /\ pass'.kind = pass.kind /\ pass.stage = "reading" /\ queue' = queue
    BY <1>2 DEF PassReads, Typed, PassType, lifecycle
  <2>2. UNCHANGED <<live, capability, seam, forced, restarting>>
    BY <1>2 DEF PassReads, rows, seams
  <2> QED
    BY <2>1, <2>2 DEF Sound, Disposing, Staged, Seamed, Flagged, SeamReady, Live, Parts
<1>3. CASE PassRejects \/ PassEnds
  <2>1. UNCHANGED <<queue, live, capability, seam, forced, restarting>> /\ pass' = NoPass /\ pass.stage \notin Parts
    BY <1>3 DEF PassRejects, PassEnds, lifecycle, rows, seams, Parts
  <2> QED
    BY <2>1, NoPassTyped DEF Sound, Disposing, Staged, Seamed, Flagged, SeamReady, Live, Parts
<1>4. CASE PassReleases
  <2>1. /\ UNCHANGED <<queue, live, restarting>> /\ pass' = NoPass /\ Live = {} /\ forced' = forced \cap Live
        /\ seam'.ready = FALSE
    BY <1>4 DEF PassReleases, Unneeded, DropsFlags, Release, NoSeam, lifecycle
  <2> QED
    BY <2>1, NoPassTyped DEF Sound, Disposing, Staged, Seamed, Flagged, SeamReady, Live, Parts
<1>5. CASE DisposeEnds
  <2>1. UNCHANGED <<queue, live>> /\ pass' = NoPass /\ Disposed
    BY <1>5 DEF DisposeEnds, Sound, Disposing
  <2> QED
    BY <2>1, NoPassTyped DEF Sound, Disposing, Staged, Seamed, Flagged, Parts
<1>6. CASE PassMounts
  <2>1. UNCHANGED <<queue, live, restarting, capability>> /\ forced' = forced \cap Live
    BY <1>6 DEF PassMounts, DropsFlags, lifecycle
  <2>2. Wanted' = Wanted /\ pass'.kind = pass.kind /\ pass.kind # "dispose" /\ pass.stage = "removing"
    BY <1>6 DEF PassMounts, RemovalsOver, Wanted, Typed, PassType
  <2>3. \/ /\ Wanted = {} \/ SeamReady
           /\ pass'.stage = "mounting" /\ pass'.todo = Wanted /\ seam' = seam
        \/ /\ ~SeamReady
           /\ pass'.stage = "service" /\ seam'.ready /\ seam'.failure = "none"
    <3>1. \/ /\ Wanted = {} \/ SeamReady
             /\ pass' = [pass EXCEPT !.stage = "mounting", !.todo = Wanted] /\ seam' = seam
          \/ /\ ~SeamReady
             /\ pass' = [pass EXCEPT !.stage = "service"] /\ seam' = [ready |-> TRUE, failure |-> "none"]
      BY <1>6 DEF PassMounts, SeamReady
    <3>2. pass \in PassType
      BY DEF Typed
    <3>3. CASE pass' = [pass EXCEPT !.stage = "mounting", !.todo = Wanted]
      <4>1. pass'.stage = "mounting" /\ pass'.todo = Wanted
        BY <3>2, <3>3 DEF PassType
      <4>2. pass' # [pass EXCEPT !.stage = "service"]
        BY <3>2, <4>1 DEF PassType
      <4> QED
        BY <3>1, <4>1, <4>2
    <3>4. CASE pass' = [pass EXCEPT !.stage = "service"]
      <4>1. pass'.stage = "service"
        BY <3>2, <3>4 DEF PassType
      <4>2. pass' # [pass EXCEPT !.stage = "mounting", !.todo = Wanted]
        BY <3>2, <4>1 DEF PassType
      <4> QED
        BY <3>1, <4>1, <4>2
    <3> QED
      BY <3>1, <3>3, <3>4
  <2>4. Disposing' /\ Staged' /\ Flagged'
    BY <2>1, <2>2, <2>3 DEF Sound, Disposing, Staged, Flagged, Live, Parts
  <2>5. Seamed'
    BY <2>1, <2>2, <2>3 DEF Sound, Seamed, SeamReady, Live, Parts
  <2> QED
    BY <2>4, <2>5 DEF Sound
<1> QED
  BY <1>1, <1>2, <1>3, <1>4, <1>5, <1>6 DEF PassWide

\* The parts are mounted one by one, or the seam has failed.
LEMMA SeamSound ==
    ASSUME Typed, Sound, SeamWide, Disposed <=> Disposed'
    PROVE  Sound'
<1>1. PICK part \in Parts : MountsPart(part) \/ PartFails(part)
  BY DEF SeamWide
<1>2. UNCHANGED <<queue, live, restarting, forced>> /\ pass.stage = part
  BY <1>1 DEF MountsPart, PartFails, lifecycle, rows
<1>3. Wanted' = Wanted /\ pass'.kind = pass.kind
  <2>1. \/ pass' = [pass EXCEPT !.stage = "tool"]
        \/ pass' = [pass EXCEPT !.stage = "mounting", !.todo = Wanted]
    BY <1>1 DEF MountsPart, PartFails
  <2>2. pass'.wanted = pass.wanted /\ pass'.kind = pass.kind
    BY <2>1 DEF Typed, PassType
  <2> QED
    BY <2>2 DEF Wanted
<1>4. \/ part = "service" /\ pass'.stage = "tool" /\ capability' = capability \cup {part} /\ seam' = seam
      \/ part = "tool" /\ pass'.stage = "mounting" /\ pass'.todo = Wanted /\ capability' = capability \cup {part} /\ seam' = seam
      \/ /\ pass'.stage = "mounting" /\ pass'.todo = Wanted /\ capability' = capability
         /\ seam'.ready = seam.ready /\ seam'.failure # "none"
  BY <1>1 DEF MountsPart, PartFails, Wanted, Typed, PassType, SeamType, Parts, seams
<1>5. Disposing' /\ Staged' /\ Flagged'
  BY <1>2, <1>3, <1>4 DEF Sound, Disposing, Staged, Flagged, Live, Parts
<1>6. Seamed'
  BY <1>2, <1>3, <1>4 DEF Sound, Seamed, SeamReady, Live, Parts, Typed, SeamType
<1> QED
  BY <1>5, <1>6 DEF Sound

\* A server is mounted under a whole seam, and a flag goes with its mount.
LEMMA ServerSound ==
    ASSUME Typed, Sound, NEW k \in Keys, ServerWide(k), Disposed <=> Disposed'
    PROVE  Sound'
<1>1. /\ UNCHANGED <<queue, capability, seam>>
      /\ pass'.stage = pass.stage /\ pass'.kind = pass.kind /\ pass'.todo = pass.todo \ {k} /\ pass'.wanted = pass.wanted
  <2>1. UNCHANGED <<queue, capability, seam>> /\ Done(k)
    BY DEF ServerWide, Keeps, Unmounts, UnmountFails, Stands, Mounts, MountFails, lifecycle, seams
  <2> QED
    BY <2>1 DEF Done, Typed, PassType
<1>2. pass.stage \in {"removing", "mounting"}
  BY DEF ServerWide, Keeps, Unmounts, UnmountFails, Stands, Mounts, MountFails, Turn
<1>3. Disposing' /\ Staged'
  BY <1>1, <1>2 DEF Sound, Disposing, Staged, Wanted
<1>4. CASE Unmounts(k)
  <2>1. Live' = Live \ {k} /\ forced' = forced \ {k} /\ restarting' = restarting \ {k}
    BY <1>4 DEF Unmounts, Live, Typed, RowType
  <2>2. Seamed' /\ Flagged'
    BY <1>1, <1>2, <2>1 DEF Sound, Seamed, Flagged, SeamReady, Parts, Wanted
  <2> QED
    BY <1>3, <2>2 DEF Sound
<1>5. CASE Mounts(k)
  <2>1. Live' \subseteq Live \cup {k} /\ Live \subseteq Live' /\ UNCHANGED <<forced, restarting>>
    BY <1>5 DEF Mounts, Live, Typed, RowType
  <2>2. pass.stage = "mounting" /\ k \in Wanted /\ seam.failure = "none"
    BY <1>5 DEF Mounts, Turn, Sound, Staged
  <2>3. Seamed' /\ Flagged'
    BY <1>1, <2>1, <2>2 DEF Sound, Seamed, Flagged, SeamReady, Parts, Wanted
  <2> QED
    BY <1>3, <2>3 DEF Sound
<1>6. CASE Keeps(k) \/ UnmountFails(k) \/ Stands(k) \/ MountFails(k)
  <2>1. UNCHANGED <<live, forced, restarting>>
    BY <1>6 DEF Keeps, UnmountFails, Stands, MountFails, rows
  <2>2. Seamed' /\ Flagged'
    BY <1>1, <1>2, <2>1 DEF Sound, Seamed, Flagged, SeamReady, Parts, Wanted, Live
  <2> QED
    BY <1>3, <2>2 DEF Sound
<1> QED
  BY <1>4, <1>5, <1>6 DEF ServerWide
-----------------------------------------------------------------------------
(* No server is forgotten                                                   *)

\* Whatever a pass should know of is pending; the rest it need not know.
LEMMA EnvironmentPends ==
    ASSUME Typed, Environment
    PROVE  \/ Pending'
           \/ /\ UNCHANGED <<queue, timers, config, restarting>> /\ (Pending' <=> Pending)
              /\ owed' = owed
<1>1. CASE ServersChange \/ Restart
  BY <1>1 DEF ServersChange, Restart, Pending
<1>2. CASE ProfileChanges
  BY <1>2 DEF ProfileChanges, lifecycle, inputs, rows, Pending, Typed, WorldType
<1>3. CASE Asks \/ Dispose \/ \E k \in Keys : TimerFires(k)
  <2>1. PICK p : queue' = Append(queue, p)
    BY <1>3 DEF Asks, Dispose, TimerFires, Fires, Queue
  <2>2. queue' # <<>>
    BY <2>1 DEF Typed, QueueType
  <2> QED
    BY <2>2 DEF Pending
<1> QED
  BY <1>1, <1>2, <1>3 DEF Environment

\* So the environment leaves nothing behind,
LEMMA EnvironmentInStep ==
    ASSUME Typed, InStep, NoneForgotten, Environment, Disposed => Disposed'
    PROVE  InStep' /\ NoneForgotten'
<1>1. CASE Pending'
  BY <1>1 DEF InStep, NoneForgotten, AtRest, Pending, Idle, NoPass
<1>2. CASE /\ UNCHANGED <<queue, timers, config, restarting>> /\ (Pending' <=> Pending)
           /\ owed' = owed
  <2>1. InStep'
    BY <1>2, EnvironmentLeaves DEF InStep, Live, Ahead, Covered, GaveUp, Wanted
  <2>2. NoneForgotten'
    BY <1>2, EnvironmentLeaves DEF NoneForgotten, AtRest, Idle, Live, GaveUp
  <2> QED
    BY <2>1, <2>2
<1> QED
  BY <1>1, <1>2, EnvironmentPends

\* a pass that ends has dealt with every server it was given,
LEMMA PassInStep ==
    ASSUME Typed, Sound, InStep, PassWide, Disposed <=> Disposed'
    PROVE  InStep' /\ NoneForgotten'
<1>1. CASE PassStarts
  <2>1. pass'.stage = "reading" \/ (pass'.stage = "removing" /\ Disposed)
    <3>1. Live \in SUBSET Keys
      BY DEF Live
    <3>2. \/ /\ Head(queue).kind = "dispose"
             /\ pass' = [NoPass EXCEPT !.stage = "removing", !.kind = "dispose", !.todo = Live]
          \/ pass' = [NoPass EXCEPT !.stage = "reading", !.kind = Head(queue).kind]
      BY <1>1 DEF PassStarts
    <3>3. Head(queue).kind = "dispose" => Disposed
      BY <1>1, QueueAdvances DEF PassStarts, Typed, QueueType, Sound, Disposing
    <3> QED
      BY <3>1, <3>2, <3>3, NoPassTyped DEF PassType
  <2>2. ~Idle'
    BY <2>1, NoPassTyped DEF Idle
  <2> QED
    BY <2>1, <2>2 DEF InStep, Pending, NoneForgotten, AtRest
<1>2. CASE PassReads
  <2>1. /\ pass'.stage = "removing" /\ pass'.todo = Live
        /\ pass'.wanted = [k \in Keys |-> IF k \in lastEnabled \cup Direct THEN config[k] ELSE 0]
    <3> DEFINE wanted == [k \in Keys |-> IF k \in lastEnabled \cup Direct THEN config[k] ELSE 0]
    <3>1. pass' = [pass EXCEPT !.stage = "removing", !.todo = Live, !.wanted = wanted]
      BY <1>2 DEF PassReads
    <3> HIDE DEF wanted
    <3>2. pass'.stage = "removing" /\ pass'.todo = Live /\ pass'.wanted = wanted
      BY <3>1 DEF Typed, PassType
    <3> QED
      BY <3>2 DEF wanted
  <2>2. UNCHANGED <<live, restarting, lastEnabled, config>>
    BY <1>2 DEF PassReads, rows, world, inputs
  <2>3. ~Idle'
    BY <2>1, NoPassTyped DEF Idle
  <2> QED
    BY <2>1, <2>2, <2>3 DEF InStep, Ahead, Live, NoneForgotten, AtRest, Sound, Flagged
<1>3. CASE PassRejects \/ DisposeEnds
  <2>1. pass' = NoPass /\ (rejected' \/ Disposed')
    BY <1>3 DEF PassRejects, DisposeEnds, Sound, Disposing
  <2> QED
    BY <2>1, NoPassTyped DEF InStep, NoneForgotten, AtRest
<1>4. CASE PassReleases \/ PassEnds
  <2>1. pass' = NoPass /\ UNCHANGED <<queue, timers, attempts, owed, config, lastEnabled, live, restarting, outcome, rejected>>
    BY <1>4 DEF PassReleases, PassEnds, lifecycle, world, inputs, rows
  <2>2. InStep'
    BY <2>1, NoPassTyped DEF InStep
  <2>3. pass.stage \in {"removing", "mounting"} /\ pass.todo = {}
    BY <1>4 DEF PassReleases, PassEnds, RemovalsOver
  <2>4. ASSUME AtRest'
        PROVE  /\ \A k \in Keys : pass.wanted[k] = IF k \in lastEnabled \cup Direct THEN config[k] ELSE 0
               /\ \A k \in restarting : outcome[k] = "stuck"
               /\ pass.stage = "mounting" => \A k \in Wanted : Covered(k)
    BY <2>1, <2>3, <2>4 DEF InStep, AtRest, Pending, Ahead
  <2>5. ASSUME AtRest', NEW k \in lastEnabled \cup Direct, config[k] # 0
        PROVE  \/ live[k] = config[k]
               \/ k \notin Live /\ (k \in timers \/ GaveUp(k))
               \/ outcome[k] = "host-missing"
               \/ outcome[k] = "stuck" /\ k \in Live
    <3>1. k \in Keys /\ pass.wanted[k] = config[k]
      BY <2>4, <2>5, ServersAssumption DEF Typed, WorldType
    <3>2. k \in Wanted
      BY <2>5, <3>1 DEF Wanted
    <3>3. pass.stage = "mounting"
      BY <1>4, <3>2 DEF PassReleases, PassEnds, Unneeded
    <3> QED
      BY <2>4, <2>5, <3>1, <3>2, <3>3 DEF Covered
  <2>6. NoneForgotten'
    BY <2>1, <2>4, <2>5 DEF NoneForgotten, Live, GaveUp
  <2> QED
    BY <2>2, <2>6
<1>5. CASE PassMounts
  <2>1. UNCHANGED <<queue, owed, live, restarting, lastEnabled, config, outcome>>
    BY <1>5 DEF PassMounts, lifecycle, world, inputs
  <2>2. pass.stage = "removing" /\ pass.todo = {}
    BY <1>5 DEF PassMounts, RemovalsOver
  <2>3. /\ pass'.wanted = pass.wanted /\ pass'.stage \in {"service", "mounting"}
        /\ pass'.stage = "mounting" => pass'.todo = Wanted
    <3>1. pass' = [pass EXCEPT !.stage = "mounting", !.todo = Wanted] \/ pass' = [pass EXCEPT !.stage = "service"]
      BY <1>5 DEF PassMounts
    <3> QED
      BY <3>1 DEF Typed, PassType
  <2>4. InStep'
    BY <2>1, <2>2, <2>3 DEF InStep, Pending, Ahead, Live, Wanted
  <2>5. ~Idle'
    BY <2>3, NoPassTyped DEF Idle
  <2> QED
    BY <2>4, <2>5 DEF NoneForgotten, AtRest
<1> QED
  BY <1>1, <1>2, <1>3, <1>4, <1>5 DEF PassWide

\* and the seam comes before the first of them.
LEMMA SeamInStep ==
    ASSUME Typed, InStep, SeamWide, Disposed <=> Disposed'
    PROVE  InStep' /\ NoneForgotten'
<1>1. PICK part \in Parts : MountsPart(part) \/ PartFails(part)
  BY DEF SeamWide
<1>2. UNCHANGED <<queue, owed, live, restarting, lastEnabled, config, outcome>> /\ pass.stage \in Parts
  BY <1>1 DEF MountsPart, PartFails, lifecycle, world, inputs, rows
<1>3. /\ pass'.wanted = pass.wanted /\ pass'.stage \in {"tool", "mounting"}
      /\ pass'.stage = "mounting" => pass'.todo = Wanted
  <2>1. pass' = [pass EXCEPT !.stage = "mounting", !.todo = Wanted] \/ pass' = [pass EXCEPT !.stage = "tool"]
    BY <1>1 DEF MountsPart, PartFails
  <2> QED
    BY <2>1 DEF Typed, PassType
<1>4. InStep'
  BY <1>2, <1>3 DEF InStep, Pending, Ahead, Live, Wanted, Parts
<1>5. ~Idle'
  BY <1>3, NoPassTyped DEF Idle
<1> QED
  BY <1>4, <1>5 DEF NoneForgotten, AtRest

\* A step about one server leaves what the others are owed alone.
LEMMA OthersStay ==
    ASSUME Typed, NEW k \in Keys, ServerWide(k)
    PROVE  /\ UNCHANGED <<queue, owed, lastEnabled, config>>
           /\ pass'.stage = pass.stage /\ pass'.todo = pass.todo \ {k} /\ pass'.wanted = pass.wanted
           /\ \A j \in Keys \ {k} : /\ live'[j] = live[j] /\ outcome'[j] = outcome[j] /\ attempts'[j] = attempts[j]
                                    /\ j \in timers' <=> j \in timers
<1>1. UNCHANGED <<queue, owed, lastEnabled, config>> /\ Done(k)
  BY DEF ServerWide, Keeps, Unmounts, UnmountFails, Stands, Mounts, MountFails, lifecycle, world, inputs
<1>2. pass'.stage = pass.stage /\ pass'.todo = pass.todo \ {k} /\ pass'.wanted = pass.wanted
  BY <1>1 DEF Done, Typed, PassType
<1>3. UNCHANGED <<timers, attempts>> \/ Settle(k) \/ Schedule(k)
  BY DEF ServerWide, Keeps, Unmounts, UnmountFails, Stands, Mounts, MountFails, Reports, lifecycle
<1>4. ASSUME NEW j \in Keys \ {k}
      PROVE  attempts'[j] = attempts[j] /\ (j \in timers' <=> j \in timers)
  <2>1. TypeOK
    BY TypeParts
  <2> QED
    BY <1>3, <2>1, RetryOutcome DEF Settle, Schedule
<1>5. ASSUME NEW j \in Keys \ {k}
      PROVE  live'[j] = live[j] /\ outcome'[j] = outcome[j]
  BY DEF ServerWide, Keeps, Unmounts, UnmountFails, Stands, Mounts, MountFails, Reports, Typed, RowType, ReportType, rows
<1> QED
  BY <1>1, <1>2, <1>4, <1>5

\* And is followed by what the server it is about is owed.
LEMMA OneServed ==
    ASSUME Typed, Sound, InStep, NEW k \in Keys, ServerWide(k), ~Disposed, ~Pending
    PROVE  /\ k \in Live' => live'[k] = pass.wanted[k] \/ outcome'[k] = "stuck"
           /\ k \in restarting' => outcome'[k] = "stuck"
           /\ pass.stage = "mounting" => Covered(k)'
           /\ restarting' \subseteq restarting /\ pass.stage \notin {"idle", "reading"}
<1>0. /\ pass.stage \in {"removing", "mounting"} /\ k \in pass.todo
      /\ restarting' \subseteq restarting /\ pass'.wanted = pass.wanted
  BY OthersStay DEF ServerWide, Keeps, Unmounts, UnmountFails, Stands, Mounts, MountFails, Turn, rows
<1>1. CASE Keeps(k)
  <2>1. /\ pass.stage = "removing" /\ live[k] = pass.wanted[k] /\ k \notin forced
        /\ UNCHANGED <<live, restarting>>
    BY <1>1 DEF Keeps, Matches, rows
  <2> QED
    BY <1>0, <2>1 DEF Sound, Flagged
<1>2. CASE Unmounts(k)
  <2>1. pass.stage = "removing" /\ live'[k] = 0 /\ k \notin restarting'
    BY <1>2 DEF Unmounts, Typed, RowType
  <2> QED
    BY <1>0, <2>1 DEF Live
<1>3. CASE UnmountFails(k)
  <2>1. pass.stage = "removing" /\ outcome'[k] = "stuck"
    BY <1>3 DEF UnmountFails, Typed, ReportType
  <2> QED
    BY <1>0, <2>1
<1>4. CASE Stands(k)
  <2>1. pass.stage = "mounting" /\ k \in Live /\ UNCHANGED <<live, outcome, restarting>>
    BY <1>4 DEF Stands, Turn, rows
  <2>2. /\ live[k] = pass.wanted[k] \/ outcome[k] = "stuck"
        /\ k \in restarting => outcome[k] = "stuck"
    BY <2>1 DEF InStep, Ahead
  <2> QED
    BY <1>0, <2>1, <2>2 DEF Covered, Live
<1>5. CASE Mounts(k)
  <2>1. k \notin Live /\ live'[k] = pass.wanted[k] /\ restarting' = restarting
    BY <1>5 DEF Mounts, Typed, RowType
  <2> QED
    BY <1>0, <2>1 DEF Covered, Sound, Flagged
<1>6. CASE MountFails(k)
  <2>1. k \notin Live /\ UNCHANGED <<live, restarting>>
    BY <1>6 DEF MountFails, rows
  <2>2. k \in timers' \/ GaveUp(k)' \/ outcome'[k] = "host-missing"
    <3>1. PICK code : Reports(k, code)
      BY <1>6 DEF MountFails
    <3>2. code = "host-missing" => outcome'[k] = "host-missing"
      BY <3>1 DEF Reports, Typed, ReportType
    <3>3. code # "host-missing" => Schedule(k)
      BY <3>1 DEF Reports, Final
    <3>4. Schedule(k) => k \in timers' \/ GaveUp(k)'
      BY TypeParts, RetryOutcome DEF Schedule
    <3> QED
      BY <3>2, <3>3, <3>4
  <2> QED
    BY <1>0, <2>1, <2>2 DEF Covered, Live, Sound, Flagged
<1> QED
  BY <1>1, <1>2, <1>3, <1>4, <1>5, <1>6 DEF ServerWide

\* Server by server, the pass stays in step.
LEMMA ServerInStep ==
    ASSUME Typed, Sound, InStep, NEW k \in Keys, ServerWide(k), Disposed <=> Disposed'
    PROVE  InStep' /\ NoneForgotten'
<1>1. pass'.stage = pass.stage /\ pass.stage \notin {"idle", "reading"}
  BY OthersStay DEF ServerWide, Keeps, Unmounts, UnmountFails, Stands, Mounts, MountFails, Turn
<1>2. NoneForgotten'
  BY <1>1, NoPassTyped DEF NoneForgotten, AtRest, Idle
<1>3. ASSUME ~Disposed, ~Pending'
      PROVE  /\ \A j \in Keys : pass'.wanted[j] = IF j \in lastEnabled' \cup Direct THEN config'[j] ELSE 0
             /\ \A j \in Live' : Ahead(j)' \/ live'[j] = pass'.wanted[j] \/ outcome'[j] = "stuck"
             /\ \A j \in restarting' : Ahead(j)' \/ outcome'[j] = "stuck"
             /\ pass'.stage = "mounting" => \A j \in Wanted' \ pass'.todo : Covered(j)'
  <2>1. ~Pending
    BY <1>1, <1>3, OthersStay DEF Pending
  <2>2. /\ \A j \in Keys : pass.wanted[j] = IF j \in lastEnabled \cup Direct THEN config[j] ELSE 0
        /\ \A j \in Live : Ahead(j) \/ live[j] = pass.wanted[j] \/ outcome[j] = "stuck"
        /\ \A j \in restarting : Ahead(j) \/ outcome[j] = "stuck"
        /\ pass.stage = "mounting" => \A j \in Wanted \ pass.todo : Covered(j)
    BY <1>1, <1>3, <2>1 DEF InStep
  <2>3. ASSUME NEW j \in Live' PROVE Ahead(j)' \/ live'[j] = pass'.wanted[j] \/ outcome'[j] = "stuck"
    <3>1. CASE j = k
      BY <1>3, <2>1, <3>1, OneServed, OthersStay
    <3>2. CASE j # k
      BY <1>1, <2>2, <3>2, OthersStay DEF Live, Ahead
    <3> QED
      BY <3>1, <3>2
  <2>4. ASSUME NEW j \in restarting' PROVE Ahead(j)' \/ outcome'[j] = "stuck"
    <3>1. j \in Keys /\ j \in restarting
      BY <1>3, <2>1, OneServed DEF Typed, RowType
    <3>2. CASE j = k
      BY <1>3, <2>1, <3>2, OneServed
    <3>3. CASE j # k
      BY <1>1, <2>2, <3>1, <3>3, OthersStay DEF Ahead
    <3> QED
      BY <3>2, <3>3
  <2>5. ASSUME pass'.stage = "mounting", NEW j \in Wanted' \ pass'.todo PROVE Covered(j)'
    <3>1. CASE j = k
      BY <1>1, <1>3, <2>1, <2>5, <3>1, OneServed
    <3>2. CASE j # k
      <4>1. j \in Keys /\ Covered(j)
        BY <1>1, <2>2, <2>5, <3>2, OthersStay DEF Wanted
      <4>2. /\ live'[j] = live[j] /\ outcome'[j] = outcome[j] /\ attempts'[j] = attempts[j]
            /\ (j \in timers' <=> j \in timers) /\ pass'.wanted = pass.wanted
        BY <3>2, <4>1, OthersStay
      <4> QED
        BY <4>1, <4>2 DEF Covered, GaveUp, Live
    <3> QED
      BY <3>1, <3>2
  <2> QED
    BY <2>2, <2>3, <2>4, <2>5, OthersStay
<1> QED
  BY <1>2, <1>3 DEF InStep

-----------------------------------------------------------------------------
\* Every step keeps the invariant.
LEMMA InvariantKept == IInv /\ [Next]_vars => IInv'
<1> SUFFICES ASSUME IInv, [Next]_vars PROVE IInv'
  OBVIOUS
<1>1. Typed /\ Counters /\ Sound /\ InStep /\ NoneForgotten /\ TypeOK'
  BY TypeParts, TypesKept DEF IInv, Sound
<1>2. CASE UNCHANGED vars
  <2>1. Counters' /\ Sound'
    BY <1>1, <1>2 DEF vars, lifecycle, world, inputs, rows, seams, Counters, Sound, Disposing, Staged, Seamed, Flagged,
       SeamReady, Live, Wanted, Disposed
  <2>2. InStep' /\ NoneForgotten'
    BY <1>1, <1>2 DEF vars, lifecycle, world, inputs, rows, seams, InStep, NoneForgotten, Pending, Ahead, Covered, GaveUp,
       Live, Wanted, AtRest, Idle, Disposed
  <2> QED
    BY <1>1, <2>1, <2>2 DEF IInv
<1>3. CASE Environment
  <2>1. Counters' /\ (Disposed => Disposed')
    BY <1>1, <1>3, Counted, Groups DEF IInv
  <2> QED
    BY <1>1, <1>3, <2>1, EnvironmentSound, EnvironmentInStep DEF IInv
<1>4. CASE PassWide \/ SeamWide \/ \E k \in Keys : ServerWide(k)
  <2>1. CASE Environment
    BY <1>3, <2>1
  <2>2. CASE ~Environment
    <3>1. Counters' /\ (Disposed <=> Disposed')
      BY <1>1, <1>4, <2>2, Counted, Groups DEF IInv
    <3> QED
      BY <1>1, <1>4, <3>1, PassSound, PassInStep, SeamSound, SeamInStep, ServerSound, ServerInStep DEF IInv
  <2> QED
    BY <2>1, <2>2
<1> QED
  BY <1>2, <1>3, <1>4, Groups

\* The registry's inductive invariant: the stages of a pass, the seam, the
\* flags, and what the pass has left of each server so far.
THEOREM InvariantHolds == Spec => []IInv
  BY InitHolds, InvariantKept, PTL DEF Spec

\* The registry keeps its types.
THEOREM TypesHold == Spec => []TypeOK
  BY InvariantHolds, PTL DEF IInv

\* A live provider never outlives the seam it is registered with
\* (LspMountRegistry.ensureCapability and releaseCapability).
THEOREM NobodyOutlivesTheSeam == Spec => []SeamOutlivesProviders
<1>1. IInv => SeamOutlivesProviders
  BY DEF IInv, Sound, Seamed, SeamReady, SeamOutlivesProviders
<1> QED
  BY <1>1, InvariantHolds, PTL

\* At rest every wanted server is mounted as configured, about to be retried or
\* given up, stuck, or without its package, and a restart the user asked for was
\* carried out if it could be (LspMountRegistry.reconcileNow).
THEOREM NobodyIsForgotten == Spec => []NoneForgotten
  BY InvariantHolds, PTL DEF IInv
=============================================================================
