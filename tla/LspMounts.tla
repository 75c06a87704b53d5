----------------------------- MODULE LspMounts ------------------------------
(***************************************************************************)
(* LspMountRegistry (market-lsp/src/runtime/lsp/lsp-mounts.ts): one pass   *)
(* after another makes the mounted language servers those of the enabled   *)
(* suites and of the user's own table.  The registry also mounts, under    *)
(* the first server, the seam every provider registers with (the service   *)
(* and the lsp tool) and releases it after the last one.                   *)
(*                                                                         *)
(* The awaits of one teardown or one mount touch nothing that others read, *)
(* so each is one step; a pass still interleaves between its servers.      *)
(***************************************************************************)
EXTENDS MountLifecycle, FiniteSets

CONSTANTS
    Direct,        \* keys of the user's own table; the others are of suites
    Rank,          \* the order in which the servers are listed
    Extensions,    \* file extensions, each handled by one provider
    ExtensionOf,   \* the extension a server claims
    MaxVersions,   \* bound: configurations of one server
    MaxChanges,    \* bound: changes of suites, tables and profile layers
    MaxFaults,     \* bound: operations that fail
    MaxRestarts,   \* bound: manual restarts
    MaxDisposals   \* bound: 0 or 1

Parts == {"service", "tool"}

ASSUME ServersAssumption ==
    /\ Direct \subseteq Keys /\ Parts \cap Extensions = {}
    /\ ExtensionOf \in [Keys -> Extensions]
    /\ Rank \in [Keys -> Nat] /\ \A j, k \in Keys : Rank[j] = Rank[k] => j = k
ASSUME BoundsAssumption ==
    /\ MaxVersions \in Nat \ {0} /\ MaxChanges \in Nat /\ MaxFaults \in Nat
    /\ MaxRestarts \in Nat /\ MaxDisposals \in {0, 1}

VARIABLES
    enabled,      \* suites the user has enabled, by the key of their server
    config,       \* the configuration each server has; 0: disabled, or gone
    profile,      \* parts and extensions another layer has registered
    owed,         \* the reconciler has a pass to ask for, and whether it
    calling,      \* waits for one: it asks for one after another
    lastEnabled,  \* the input of the last pass
    pass,         \* the pass in flight
    live,         \* the configuration each key is mounted with; 0: not live
    capability,   \* the parts of the seam this registry holds a handle of
    seam,         \* whether the seam was resolved, and why it failed
    leftovers,    \* what a failed teardown left registered, with no handle
    forced,       \* keys flagged for a rebuild
    outcome,      \* what the last pass reported of each key
    rejected,     \* the last pass rejected
    restarting,   \* live servers the user asked to restart, not yet torn down
    budget        \* bounded counters of the environment

lifecycle == <<queue, timers, attempts>>
inputs == <<enabled, config>>
world == <<inputs, profile, owed>>
seams == <<capability, seam, leftovers>>
rows == <<live, forced, restarting>>
vars == <<lifecycle, world, calling, lastEnabled, pass, rows, seams, outcome, rejected, budget>>

Versions == 0..MaxVersions
NoConfig == [k \in Keys |-> 0]
NoPass == [stage |-> "idle", kind |-> "none", wanted |-> NoConfig, todo |-> {}]
NoSeam == [ready |-> FALSE, failure |-> "none"]
Pass(kind, suites) == [kind |-> kind, enabled |-> suites]

Live == {k \in Keys : live[k] # 0}
Wanted == {k \in Keys : pass.wanted[k] # 0}
Idle == pass = NoPass
Disposed == budget.disposals > 0

\* What a plugin that registers this part or extension collides with.
Registered == capability \cup profile \cup leftovers \cup {ExtensionOf[k] : k \in Live}

Returns == calling' = (calling /\ pass.kind = "retry")
Fault == budget.faults < MaxFaults /\ budget' = [budget EXCEPT !.faults = @ + 1]

-----------------------------------------------------------------------------
Init ==
    /\ enabled = {} /\ config = [k \in Keys |-> 1] /\ profile = {}
    /\ owed = TRUE /\ calling = FALSE
    /\ LifecycleInit /\ lastEnabled = {} /\ pass = NoPass
    /\ live = NoConfig /\ capability = {} /\ seam = NoSeam /\ leftovers = {}
    /\ forced = {} /\ outcome = [k \in Keys |-> "none"] /\ rejected = FALSE /\ restarting = {}
    /\ budget = [changes |-> 0, faults |-> 0, restarts |-> 0, disposals |-> 0]

-----------------------------------------------------------------------------
(* What the service asks for                                               *)

Changes ==
    /\ ~Disposed /\ budget.changes < MaxChanges
    /\ budget' = [budget EXCEPT !.changes = @ + 1]

\* A suite is enabled or disabled, or a server is edited, disabled or removed.
ServersChange ==
    /\ Changes
    /\ \/ enabled' \in (SUBSET (Keys \ Direct)) \ {enabled} /\ UNCHANGED config
       \/ /\ \E k \in Keys : \E v \in Versions \ {config[k]} : config' = [config EXCEPT ![k] = v]
          /\ UNCHANGED enabled
    /\ owed' = TRUE
    /\ UNCHANGED <<lifecycle, profile, calling, lastEnabled, pass, rows, seams, outcome, rejected>>

\* Another layer of the profile registers a part or an extension that is free,
\* or drops it; a one-click removal asks for a pass, an edited file does not.
ProfileChanges ==
    /\ Changes
    /\ \/ \E r \in (Parts \cup Extensions) \ Registered : profile' = profile \cup {r}
       \/ \E r \in profile : profile' = profile \ {r}
    /\ owed' \in {owed, TRUE}
    /\ UNCHANGED <<lifecycle, inputs, calling, lastEnabled, pass, rows, seams, outcome, rejected>>

\* restart of one server or of all: a key that is not live is not flagged.
Restart ==
    /\ ~Disposed /\ budget.restarts < MaxRestarts
    /\ budget' = [budget EXCEPT !.restarts = @ + 1]
    /\ \E flagged \in {{k} : k \in Live} \cup {Live} :
        /\ forced' = forced \cup flagged
        /\ restarting' = restarting \cup flagged
    /\ owed' = TRUE
    /\ UNCHANGED <<lifecycle, inputs, profile, calling, lastEnabled, pass, live, seams, outcome, rejected>>

\* The reconciler asks for one pass after another.
Asks ==
    /\ owed /\ ~calling /\ ~Disposed
    /\ owed' = FALSE /\ calling' = TRUE
    /\ Queue(Pass("reconcile", enabled))
    /\ UNCHANGED <<timers, attempts, inputs, profile, lastEnabled, pass, rows, seams, outcome, rejected, budget>>

Dispose ==
    /\ ~Disposed /\ MaxDisposals = 1 /\ ~calling
    /\ budget' = [budget EXCEPT !.disposals = 1]
    /\ enabled' = {} /\ owed' = FALSE /\ calling' = TRUE
    /\ Queue(Pass("dispose", {}))
    /\ UNCHANGED <<config, profile, timers, attempts, lastEnabled, pass, rows, seams, outcome, rejected>>

\* The retry of one key replays the input the last pass has started with.
TimerFires(k) ==
    /\ ~Idle \/ queue = <<>>
    /\ Fires(k, Pass("retry", lastEnabled))
    /\ UNCHANGED <<world, calling, lastEnabled, pass, rows, seams, outcome, rejected, budget>>

-----------------------------------------------------------------------------
(* A pass, up to the seam                                                  *)

PassStarts ==
    /\ Idle /\ queue # <<>>
    /\ queue' = Tail(queue)
    /\ IF Head(queue).kind = "dispose"
       THEN /\ pass' = [NoPass EXCEPT !.stage = "removing", !.kind = "dispose", !.todo = Live]
            /\ UNCHANGED lastEnabled
       ELSE /\ pass' = [NoPass EXCEPT !.stage = "reading", !.kind = Head(queue).kind]
            /\ lastEnabled' = Head(queue).enabled
    /\ UNCHANGED <<timers, attempts, world, calling, rows, seams, outcome, rejected, budget>>

\* The disabled ids, the suites' servers and the user's table make the wanted
\* providers, one child each.
PassReads ==
    /\ pass.stage = "reading"
    /\ pass' = [pass EXCEPT !.stage = "removing", !.todo = Live,
                            !.wanted = [k \in Keys |-> IF k \in lastEnabled \cup Direct THEN config[k] ELSE 0]]
    /\ outcome' = [k \in Keys |-> "none"] /\ rejected' = FALSE
    /\ UNCHANGED <<lifecycle, world, calling, lastEnabled, rows, seams, budget>>

\* The table or the disabled ids cannot be read.
PassRejects ==
    /\ pass.stage = "reading" /\ Fault
    /\ pass' = NoPass /\ Returns /\ rejected' = TRUE
    /\ UNCHANGED <<lifecycle, world, lastEnabled, rows, seams, outcome>>

\* Wanted with this very configuration, and not flagged.
Matches(k) == live[k] = pass.wanted[k] /\ k \notin forced

Done(k) == pass' = [pass EXCEPT !.todo = @ \ {k}]
Keeps(k) ==
    /\ pass.stage = "removing" /\ k \in pass.todo /\ Matches(k) /\ Done(k)
    /\ UNCHANGED <<lifecycle, world, calling, lastEnabled, rows, seams, outcome, rejected, budget>>

Unmounts(k) ==
    /\ pass.stage = "removing" /\ k \in pass.todo /\ ~Matches(k) /\ Done(k)
    /\ live' = [live EXCEPT ![k] = 0]
    /\ forced' = forced \ {k} /\ restarting' = restarting \ {k}
    /\ UNCHANGED <<lifecycle, world, calling, lastEnabled, seams, outcome, rejected, budget>>

\* A teardown that fails keeps the row and its flag.
UnmountFails(k) ==
    /\ pass.stage = "removing" /\ k \in pass.todo /\ ~Matches(k) /\ Done(k)
    /\ Fault
    /\ outcome' = [outcome EXCEPT ![k] = "stuck"]
    /\ UNCHANGED <<lifecycle, world, calling, lastEnabled, rows, seams, rejected>>

\* releaseCapability: the handles are forgotten, whatever becomes of them.
Release ==
    /\ capability' = {} /\ seam' = NoSeam
    /\ \/ UNCHANGED <<leftovers, budget>>
       \/ /\ Fault
          /\ \E r \in capability : leftovers' = leftovers \cup {r}

RemovalsOver == pass.stage = "removing" /\ pass.todo = {} /\ pass.kind # "dispose"
\* Mutant: every flag is spent by the pass that sees it.
SpendsFlags == forced' = {}
\* A flag without a live mount is dropped.
DropsFlags == forced' = forced \cap Live

\* Mutant: the seam is released while a server is still up.
NothingWanted == Wanted = {}
\* No server needs the seam.
Unneeded == Wanted = {} /\ Live = {}

PassReleases ==
    /\ RemovalsOver /\ DropsFlags
    /\ Unneeded /\ Release
    /\ pass' = NoPass /\ Returns
    /\ UNCHANGED <<lifecycle, world, lastEnabled, live, restarting, outcome, rejected>>

\* ensureCapability is entered again after a failure.
PassMounts ==
    /\ RemovalsOver /\ DropsFlags
    /\ ~Unneeded
    /\ IF Wanted = {} \/ (seam.ready /\ seam.failure = "none")
       THEN pass' = [pass EXCEPT !.stage = "mounting", !.todo = Wanted] /\ UNCHANGED seam
       ELSE pass' = [pass EXCEPT !.stage = "service"] /\ seam' = [ready |-> TRUE, failure |-> "none"]
    /\ UNCHANGED <<lifecycle, world, calling, lastEnabled, live, restarting, capability, leftovers, outcome,
                   rejected, budget>>

\* disposeAll: the seam goes with the servers, the retries and the flags.
DisposeEnds ==
    /\ pass.stage = "removing" /\ pass.todo = {} /\ pass.kind = "dispose"
    /\ Release /\ Clear
    /\ forced' = {}
    /\ pass' = NoPass /\ Returns
    /\ UNCHANGED <<queue, world, lastEnabled, live, restarting, outcome, rejected>>

-----------------------------------------------------------------------------
(* The seam and the servers                                                *)

\* mountCapability: the next part is mounted.
MountsPart(part) ==
    /\ pass.stage = part /\ part \notin Registered
    /\ capability' = capability \cup {part}
    /\ pass' = IF part = "service" THEN [pass EXCEPT !.stage = "tool"]
               ELSE [pass EXCEPT !.stage = "mounting", !.todo = Wanted]
    /\ UNCHANGED <<lifecycle, world, calling, lastEnabled, rows, seam, leftovers, outcome, rejected, budget>>

\* Or it is registered already, or its package or its startup fails; the
\* rollback of a startup may leave it behind.
PartFails(part) ==
    /\ pass.stage = part
    /\ \/ part \in Registered /\ seam' = [seam EXCEPT !.failure = "seam-conflict"] /\ UNCHANGED <<leftovers, budget>>
       \/ Fault /\ seam' = [seam EXCEPT !.failure = "host-missing"] /\ UNCHANGED leftovers
       \/ /\ Fault /\ part \notin Registered
          /\ seam' = [seam EXCEPT !.failure = "mount-failed"]
          /\ leftovers' \in {leftovers, leftovers \cup {part}}
    /\ pass' = [pass EXCEPT !.stage = "mounting", !.todo = Wanted]
    /\ UNCHANGED <<lifecycle, world, calling, lastEnabled, rows, capability, outcome, rejected>>

\* The servers are mounted one after another, in the order they are listed.
Turn(k) == pass.stage = "mounting" /\ k \in pass.todo /\ \A j \in pass.todo : Rank[k] <= Rank[j]

\* Live already, whether it was kept or could not be torn down.
Stands(k) ==
    /\ Turn(k) /\ k \in Live /\ Done(k) /\ Settle(k)
    /\ UNCHANGED <<queue, world, calling, lastEnabled, rows, seams, outcome, rejected, budget>>

Mounts(k) ==
    /\ Turn(k) /\ k \notin Live /\ seam.failure = "none" /\ ExtensionOf[k] \notin Registered
    /\ live' = [live EXCEPT ![k] = pass.wanted[k]]
    /\ Done(k) /\ Settle(k)
    /\ UNCHANGED <<queue, world, calling, lastEnabled, forced, restarting, seams, outcome, rejected, budget>>

\* Failures that no timer retries.
Final == {"host-missing"}
Reports(k, code) ==
    /\ outcome' = [outcome EXCEPT ![k] = code]
    /\ IF code \in Final THEN Settle(k) ELSE Schedule(k)

\* The seam is not there, the extension is another provider's, or the package
\* or the startup fails.
MountFails(k) ==
    /\ Turn(k) /\ k \notin Live /\ Done(k)
    /\ \/ seam.failure # "none" /\ Reports(k, seam.failure) /\ UNCHANGED <<leftovers, budget>>
       \/ /\ seam.failure = "none" /\ ExtensionOf[k] \in Registered
          /\ Reports(k, "seam-conflict") /\ UNCHANGED <<leftovers, budget>>
       \/ seam.failure = "none" /\ Fault /\ Reports(k, "host-missing") /\ UNCHANGED leftovers
       \/ /\ seam.failure = "none" /\ ExtensionOf[k] \notin Registered
          /\ Fault /\ Reports(k, "mount-failed")
          /\ leftovers' \in {leftovers, leftovers \cup {ExtensionOf[k]}}
    /\ UNCHANGED <<queue, world, calling, lastEnabled, rows, capability, seam, rejected>>

PassEnds ==
    /\ pass.stage = "mounting" /\ pass.todo = {}
    /\ pass' = NoPass /\ Returns
    /\ UNCHANGED <<lifecycle, world, lastEnabled, rows, seams, outcome, rejected, budget>>

-----------------------------------------------------------------------------
PassStep ==
    \/ PassStarts \/ PassReads \/ PassRejects \/ PassReleases \/ PassMounts \/ PassEnds \/ DisposeEnds
    \/ \E part \in Parts : MountsPart(part) \/ PartFails(part)
    \/ \E k \in Keys : Keeps(k) \/ Unmounts(k) \/ UnmountFails(k) \/ Stands(k) \/ Mounts(k) \/ MountFails(k)

Next ==
    \/ ServersChange \/ ProfileChanges \/ Restart \/ Asks \/ Dispose
    \/ PassStep \/ \E k \in Keys : TimerFires(k)

Spec == Init /\ [][Next]_vars

-----------------------------------------------------------------------------
Codes == {"host-missing", "mount-failed", "seam-conflict"}

\* The registry keeps its types, and holds no handle without having resolved
\* the seam.
TypeOK ==
    /\ LifecycleType([kind : {"reconcile", "retry", "dispose"}, enabled : SUBSET (Keys \ Direct)])
    /\ enabled \subseteq Keys \ Direct /\ config \in [Keys -> Versions] /\ profile \subseteq Parts \cup Extensions
    /\ owed \in BOOLEAN /\ calling \in BOOLEAN /\ lastEnabled \subseteq Keys \ Direct
    /\ pass \in [stage : {"idle", "reading", "removing", "mounting"} \cup Parts, todo : SUBSET Keys,
                 kind : {"none", "reconcile", "retry", "dispose"}, wanted : [Keys -> Versions]]
    /\ live \in [Keys -> Versions] /\ forced \subseteq Keys /\ restarting \subseteq Keys
    /\ capability \subseteq Parts /\ leftovers \subseteq Parts \cup Extensions
    /\ seam \in [ready : BOOLEAN, failure : Codes \cup {"none"}]
    /\ outcome \in [Keys -> Codes \cup {"none", "stuck"}] /\ rejected \in BOOLEAN
    /\ capability # {} => seam.ready

\* A live provider never outlives the seam it is registered with.
SeamOutlivesProviders == Live # {} /\ ~Disposed => capability = Parts /\ seam.failure = "none"

AtRest == Idle /\ queue = <<>> /\ ~owed /\ ~rejected /\ ~Disposed

\* No server is forgotten: at rest each wanted one is mounted as configured,
\* is about to be retried or was given up, cannot be torn down, or lacks its
\* package; and one the user asked to restart was torn down, if it could be.
NoneForgotten ==
    AtRest =>
        /\ \A k \in lastEnabled \cup Direct : config[k] # 0 =>
            \/ live[k] = config[k]
            \/ k \notin Live /\ (k \in timers \/ GaveUp(k))
            \/ outcome[k] = "host-missing"
            \/ outcome[k] = "stuck" /\ k \in Live
        /\ \A k \in restarting : outcome[k] = "stuck"

\* A pass that tries a failed seam again can succeed once the profile is
\* fixed: it mounts no part that is registered by a handle of its own.
\* Violated: after the tool failed, it mounts the service once more, and blames
\* the profile for the conflict with itself until the last server is gone.
RetriesWhatFailed == pass.stage \in Parts => pass.stage \notin capability
=============================================================================
