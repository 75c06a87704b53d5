----------------------------- MODULE McpMounts ------------------------------
(***************************************************************************)
(* McpMountRegistry (market-mcp/src/runtime/mcp/mcp-mounts.ts): one pass   *)
(* after another makes the mounted MCP servers those of the enabled        *)
(* suites.  A pass reads the overrides and credentials, tears down what is *)
(* no longer wanted, mounts the additions side by side, and lets a copy of *)
(* a server take the name its first claimant failed to get.  A failed      *)
(* mount is retried by a timer, which replays the last input.              *)
(*                                                                         *)
(* A server runs up to four mounts of a batch at once; an instance has no  *)
(* more keys than that, so the cap never binds.                            *)
(***************************************************************************)
EXTENDS MountLifecycle, FiniteSets

CONSTANTS
    Names,         \* derived server names
    NoKey,         \* no owner
    NameOf,        \* the name a key's server derives
    Rank,          \* the order in which the suites are listed
    MaxVersions,   \* bound: resolved configurations of one server
    MaxChanges,    \* bound: changes of suites, credentials, overrides and other clients
    MaxFaults,     \* bound: operations that fail
    MaxForces,     \* bound: re-authorizations and manual retries
    MaxDisposals   \* bound: 0 or 1

ASSUME KeysAssumption ==
    /\ NoKey \notin Keys
    /\ NameOf \in [Keys -> Names]
    /\ Rank \in [Keys -> Nat] /\ \A j, k \in Keys : Rank[j] = Rank[k] => j = k
ASSUME RegistryAssumption ==
    /\ MaxVersions \in Nat \ {0} /\ MaxChanges \in Nat /\ MaxFaults \in Nat
    /\ MaxForces \in Nat /\ MaxDisposals \in {0, 1}

VARIABLES
    enabled,      \* suites the user has enabled
    owed,         \* the reconciler has a pass to ask for, and whether it
    calling,      \* waits for one: it asks for one after another
    config,       \* the configuration each server resolves to; 0: it does not
    foreign,      \* names another MCP client of the host has registered
    lastEnabled,  \* the input of the last pass
    pass,         \* the pass in flight
    work,         \* what the pass does for each key
    live,         \* the configuration each key is mounted with; 0: not live
    names,        \* the owner of each name
    left,         \* names with tool definitions a failed rollback left behind
    forced,       \* keys flagged for a rebuild
    outcome,      \* why the last pass that wanted a key left it as it is
    rejected,     \* the last pass rejected
    budget        \* bounded counters of the environment

lifecycle == <<queue, timers, attempts>>
world == <<enabled, config, foreign, owed>>
rows == <<live, names, left>>
mountVars == <<lifecycle, world, calling, lastEnabled, pass, work, rows, forced, outcome, rejected, budget>>

Versions == 0..MaxVersions
NoConfig == [k \in Keys |-> 0]
NoPass == [stage |-> "idle", kind |-> "none", wanted |-> NoConfig, claimants |-> {}]
Pass(kind, suites) == [kind |-> kind, enabled |-> suites]

Wanted(k) == pass.wanted[k] # 0
Owner(k) == names[NameOf[k]]
Idle == pass = NoPass
AllDone == \A k \in Keys : work[k] \in {"none", "done", "threw"}
AllDisposed == budget.disposals > 0

\* The pass settles for whoever asked for it.
Returns == calling' = (calling /\ pass.kind = "retry")

\* Something fails, within the bound.
Fault == budget.faults < MaxFaults /\ budget' = [budget EXCEPT !.faults = @ + 1]

-----------------------------------------------------------------------------
MountsInit ==
    /\ enabled = {} /\ config = [k \in Keys |-> 1] /\ foreign = {}
    /\ owed = FALSE /\ calling = FALSE
    /\ LifecycleInit /\ lastEnabled = {}
    /\ pass = NoPass /\ work = [k \in Keys |-> "none"]
    /\ live = NoConfig /\ names = [n \in Names |-> NoKey] /\ left = {}
    /\ forced = {} /\ outcome = [k \in Keys |-> "none"] /\ rejected = FALSE
    /\ budget = [changes |-> 0, faults |-> 0, forces |-> 0, disposals |-> 0]

-----------------------------------------------------------------------------
(* What the service asks for                                               *)

Changes ==
    /\ ~AllDisposed /\ budget.changes < MaxChanges
    /\ budget' = [budget EXCEPT !.changes = @ + 1]

\* A suite is enabled or disabled, or a credential or an override moves what a
\* server resolves to.
SuitesChange ==
    /\ Changes
    /\ \/ enabled' \in (SUBSET Keys) \ {enabled} /\ UNCHANGED config
       \/ /\ \E k \in Keys : \E v \in Versions \ {config[k]} : config' = [config EXCEPT ![k] = v]
          /\ UNCHANGED enabled
    /\ owed' = TRUE
    /\ UNCHANGED <<lifecycle, foreign, calling, lastEnabled, pass, work, rows, forced, outcome, rejected>>

\* Another client of the host registers tools under a name, or drops them.
ForeignChanges ==
    /\ Changes
    /\ \E n \in Names : foreign' = IF n \in foreign THEN foreign \ {n} ELSE foreign \cup {n}
    /\ UNCHANGED <<lifecycle, enabled, config, owed, calling, lastEnabled, pass, work, rows, forced, outcome,
                   rejected>>

\* forceRemount of one key (re-authorize), or of every live one (retry).
ForceRemount ==
    /\ ~AllDisposed /\ budget.forces < MaxForces
    /\ budget' = [budget EXCEPT !.forces = @ + 1]
    /\ forced' \in {forced \cup {k} : k \in Keys} \cup {forced \cup {k \in Keys : live[k] # 0}}
    /\ owed' = TRUE
    /\ UNCHANGED <<lifecycle, enabled, config, foreign, calling, lastEnabled, pass, work, rows, outcome, rejected>>

\* The reconciler's shared queue asks for one pass after another, each with
\* the suites of its moment.
Asks ==
    /\ owed /\ ~calling /\ ~AllDisposed
    /\ owed' = FALSE /\ calling' = TRUE
    /\ Queue(Pass("reconcile", enabled))
    /\ UNCHANGED <<timers, attempts, enabled, config, foreign, lastEnabled, pass, work, rows, forced, outcome,
                   rejected, budget>>

\* The reconciler is disposed: it asks for one disposeAll, and nothing more.
DisposeAll ==
    /\ ~AllDisposed /\ MaxDisposals = 1 /\ ~calling
    /\ budget' = [budget EXCEPT !.disposals = 1]
    /\ enabled' = {} /\ owed' = FALSE /\ calling' = TRUE
    /\ Queue(Pass("dispose", {}))
    /\ UNCHANGED <<config, foreign, timers, attempts, lastEnabled, pass, work, rows, forced, outcome, rejected>>

\* The retry of one key: it replays the input the last pass has started with.
\* A pass the queue has let go starts in a microtask, before the next timer.
RetryFires(k) ==
    /\ ~Idle \/ queue = <<>>
    /\ Fires(k, Pass("retry", lastEnabled))
    /\ UNCHANGED <<world, calling, lastEnabled, pass, work, rows, forced, outcome, rejected, budget>>

-----------------------------------------------------------------------------
(* A pass, up to its additions                                             *)

\* reconcileNow up to the read of the overrides; or the pass of disposeAll.
PassStarts ==
    /\ Idle /\ queue # <<>>
    /\ queue' = Tail(queue)
    /\ IF Head(queue).kind = "dispose"
       THEN /\ pass' = [NoPass EXCEPT !.stage = "removing", !.kind = "dispose"]
            /\ work' = [k \in Keys |-> IF live[k] # 0 THEN "unmounting" ELSE "none"]
            /\ UNCHANGED lastEnabled
       ELSE /\ pass' = [NoPass EXCEPT !.stage = "reading", !.kind = Head(queue).kind]
            /\ lastEnabled' = Head(queue).enabled
            /\ UNCHANGED work
    /\ UNCHANGED <<timers, attempts, world, calling, rows, forced, outcome, rejected, budget>>

\* The overrides and the credentials resolve every enabled server, or not;
\* what is live and no longer wanted is torn down first.
PassReads ==
    /\ pass.stage = "reading"
    /\ pass' = [pass EXCEPT !.stage = "removing",
                            !.wanted = [k \in Keys |-> IF k \in lastEnabled THEN config[k] ELSE 0]]
    /\ work' = [k \in Keys |-> IF live[k] # 0 /\ pass'.wanted[k] = 0 THEN "unmounting" ELSE "none"]
    /\ outcome' = [k \in Keys |-> "none"]
    /\ rejected' = FALSE
    /\ UNCHANGED <<lifecycle, world, calling, lastEnabled, rows, forced, budget>>

\* Mutant: the tail of the queue rejects too, and nothing runs behind it.
PassRejectsForGood ==
    /\ pass.stage = "reading" /\ Fault
    /\ pass' = [pass EXCEPT !.stage = "rejected"] /\ rejected' = TRUE
    /\ UNCHANGED <<lifecycle, world, calling, lastEnabled, work, rows, forced, outcome>>
\* The overrides cannot be read: the pass rejects, and the next one runs.
PassRejects ==
    /\ pass.stage = "reading" /\ Fault
    /\ pass' = NoPass /\ Returns /\ rejected' = TRUE
    /\ UNCHANGED <<lifecycle, world, lastEnabled, work, rows, forced, outcome>>

\* unmount: a teardown that fails keeps the row, and nothing retries it.
Unmounts(k) ==
    /\ work[k] = "unmounting"
    /\ live' = [live EXCEPT ![k] = 0]
    /\ names' = [names EXCEPT ![NameOf[k]] = NoKey]
    /\ work' = [work EXCEPT ![k] = IF pass.stage = "removing" THEN "done" ELSE "preparing"]
    /\ UNCHANGED <<lifecycle, world, calling, lastEnabled, pass, left, forced, outcome, rejected, budget>>

UnmountFails(k) ==
    /\ work[k] = "unmounting" /\ Fault
    /\ work' = [work EXCEPT ![k] = "done"]
    /\ outcome' = [outcome EXCEPT ![k] = "stuck"]
    /\ UNCHANGED <<lifecycle, world, calling, lastEnabled, pass, rows, forced, rejected>>

\* A remount unmounts first; a new mount starts with its data directory.
Starts(batch) ==
    [k \in Keys |-> IF k \notin batch THEN "none" ELSE IF live[k] # 0 THEN "unmounting" ELSE "preparing"]

\* Live with the wanted configuration, and not flagged for a rebuild.
Matches(k) == live[k] = pass.wanted[k] /\ k \notin forced

\* The first of the due keys gets a name that is free; its owner keeps it.
Claims(k, due) ==
    \/ Owner(k) = k
    \/ Owner(k) = NoKey /\ \A j \in due : NameOf[j] = NameOf[k] => Rank[k] <= Rank[j]

\* The removals are over.  What is live is settled, and what is due loses its
\* flag and is mounted, or is a claimant if its name is held or claimed.
PlanAdditions ==
    /\ pass.stage = "removing" /\ pass.kind # "dispose" /\ AllDone
    /\ LET settled == {k \in Keys : Wanted(k) /\ Matches(k)}
           due == {k \in Keys : Wanted(k) /\ ~Matches(k)}
           additions == {k \in due : Claims(k, due)}
       IN /\ Retry({}, settled)
          /\ forced' = forced \ due
          /\ pass' = [pass EXCEPT !.stage = "adding", !.claimants = due \ additions]
          /\ work' = Starts(additions)
    /\ UNCHANGED <<queue, world, calling, lastEnabled, rows, outcome, rejected, budget>>

\* disposeAll is over: the retries are cancelled.
DisposeEnds ==
    /\ pass.stage = "removing" /\ pass.kind = "dispose" /\ AllDone
    /\ pass' = NoPass /\ Returns /\ work' = [k \in Keys |-> "none"]
    /\ Clear
    /\ UNCHANGED <<queue, world, lastEnabled, rows, forced, outcome, rejected, budget>>

-----------------------------------------------------------------------------
(* One addition: mountThenReport, mountWith                                *)

\* The data directory is there: a name that is owned, or that another client
\* has registered, is a deterministic skip, which no timer retries.
Prepared(k) ==
    /\ work[k] = "preparing"
    /\ \/ /\ Owner(k) = NoKey /\ NameOf[k] \notin foreign
          /\ work' = [work EXCEPT ![k] = "choosing"]
          /\ UNCHANGED <<timers, attempts, outcome>>
       \/ /\ Owner(k) # NoKey \/ NameOf[k] \in foreign
          /\ work' = [work EXCEPT ![k] = "done"]
          /\ outcome' = [outcome EXCEPT ![k] = IF Owner(k) # NoKey THEN "duplicate" ELSE "foreign"]
          /\ Settle(k)
    /\ UNCHANGED <<queue, world, calling, lastEnabled, pass, rows, forced, rejected, budget>>

\* The directory cannot be made, or the backend is unknown: the slot throws.
Throws(k) ==
    /\ work[k] \in {"preparing", "choosing"} /\ Fault
    /\ work' = [work EXCEPT ![k] = "threw"]
    /\ UNCHANGED <<lifecycle, world, calling, lastEnabled, pass, rows, forced, outcome, rejected>>

\* The backend is chosen: the name is taken before the handshake.
TakesName(k) ==
    /\ work[k] = "choosing"
    /\ names' = [names EXCEPT ![NameOf[k]] = k]
    /\ work' = [work EXCEPT ![k] = "handshake"]
    /\ UNCHANGED <<lifecycle, world, calling, lastEnabled, pass, live, left, forced, outcome, rejected, budget>>

\* The backend cannot mount this server.
Refused(k) ==
    /\ work[k] = "choosing" /\ Fault
    /\ work' = [work EXCEPT ![k] = "done"]
    /\ Schedule(k)
    /\ UNCHANGED <<queue, world, calling, lastEnabled, pass, rows, forced, outcome, rejected>>

Mounts(k) ==
    /\ work[k] = "handshake"
    /\ live' = [live EXCEPT ![k] = pass.wanted[k]]
    /\ names' = [names EXCEPT ![NameOf[k]] = k]
    /\ work' = [work EXCEPT ![k] = "done"]
    /\ Settle(k)
    /\ UNCHANGED <<queue, world, calling, lastEnabled, pass, left, forced, outcome, rejected, budget>>

\* Mutant: a failed mount keeps its name.
KeepsName(k) ==
    /\ work[k] = "handshake" /\ Fault
    /\ work' = [work EXCEPT ![k] = "done"]
    /\ Schedule(k)
    /\ UNCHANGED <<queue, world, calling, lastEnabled, pass, rows, forced, outcome, rejected>>
\* The handshake fails and is rolled back; the name stays reserved while a
\* tool definition of it is still registered.
MountFails(k) ==
    /\ work[k] = "handshake" /\ Fault
    /\ \/ left' = left \cup {NameOf[k]} /\ UNCHANGED names
       \/ names' = [names EXCEPT ![NameOf[k]] = NoKey] /\ UNCHANGED left
    /\ work' = [work EXCEPT ![k] = "done"]
    /\ Schedule(k)
    /\ UNCHANGED <<queue, world, calling, lastEnabled, pass, live, forced, outcome, rejected>>

-----------------------------------------------------------------------------
(* The end of a batch                                                      *)

Threw == {k \in Keys : work[k] = "threw"}
\* unexpectedFailure: a slot that threw is retried, and its name is freed
\* unless a row or a left definition holds it.
Reserved(n) == n \in left \/ \E k \in Keys : live[k] # 0 /\ NameOf[k] = n
Freed == [n \in Names |-> IF \E k \in Threw : NameOf[k] = n /\ ~Reserved(n) THEN NoKey ELSE names[n]]

\* The additions are over.  A claimant whose name is free now takes it over.
AdditionsEnd ==
    /\ pass.stage = "adding" /\ AllDone
    /\ names' = Freed
    /\ Retry(Threw, {})
    /\ LET takeover == {k \in pass.claimants : Freed[NameOf[k]] = NoKey} IN
       /\ pass' = [pass EXCEPT !.stage = "taking", !.claimants = @ \ takeover]
       /\ work' = Starts(takeover)
    /\ UNCHANGED <<queue, world, calling, lastEnabled, live, left, forced, outcome, rejected, budget>>

\* The pass is over: the copies that are still redundant are reported.
PassEnds ==
    /\ pass.stage = "taking" /\ AllDone
    /\ names' = Freed
    /\ Retry(Threw, pass.claimants)
    /\ outcome' = [k \in Keys |-> IF k \in pass.claimants THEN "duplicate" ELSE outcome[k]]
    /\ pass' = NoPass /\ Returns /\ work' = [k \in Keys |-> "none"]
    /\ UNCHANGED <<queue, world, lastEnabled, live, left, forced, rejected, budget>>

-----------------------------------------------------------------------------
MountStep(k) ==
    \/ Unmounts(k) \/ UnmountFails(k)
    \/ Prepared(k) \/ Throws(k) \/ TakesName(k) \/ Refused(k) \/ Mounts(k) \/ MountFails(k)
PassStep ==
    PassStarts \/ PassReads \/ PassRejects \/ PlanAdditions \/ AdditionsEnd \/ PassEnds \/ DisposeEnds

MountsNext ==
    \/ SuitesChange \/ ForeignChanges \/ ForceRemount \/ Asks \/ DisposeAll
    \/ PassStep
    \/ \E k \in Keys : MountStep(k) \/ RetryFires(k)

MountsSpec == MountsInit /\ [][MountsNext]_mountVars

\* The event loop resumes every continuation, every handshake and teardown
\* settles (both have a timeout), and an armed timer fires.
FairMounts == MountsSpec /\ WF_mountVars(Asks) /\ WF_mountVars(PassStep)
            /\ \A k \in Keys : WF_mountVars(MountStep(k)) /\ WF_mountVars(RetryFires(k))

-----------------------------------------------------------------------------
Steps == {"none", "unmounting", "preparing", "choosing", "handshake", "done", "threw"}

\* The registry keeps its types, and a name belongs to a key that derives it.
MountsType ==
    /\ LifecycleType([kind : {"reconcile", "retry", "dispose"}, enabled : SUBSET Keys])
    /\ enabled \subseteq Keys /\ config \in [Keys -> Versions] /\ foreign \subseteq Names
    /\ owed \in BOOLEAN /\ calling \in BOOLEAN /\ lastEnabled \subseteq Keys
    /\ pass \in [stage : {"idle", "reading", "removing", "adding", "taking"}, wanted : [Keys -> Versions],
                 kind : {"none", "reconcile", "retry", "dispose"}, claimants : SUBSET Keys]
    /\ work \in [Keys -> Steps]
    /\ live \in [Keys -> Versions] /\ names \in [Names -> Keys \cup {NoKey}] /\ left \subseteq Names
    /\ forced \subseteq Keys /\ outcome \in [Keys -> {"none", "stuck", "foreign", "duplicate"}]
    /\ rejected \in BOOLEAN
    /\ \A n \in Names : names[n] # NoKey => NameOf[names[n]] = n

AtRest == Idle /\ queue = <<>> /\ ~owed

\* Somebody serves the name of a redundant copy: a live row, or definitions
\* of the name that a failed rollback left in the host.
Served(n) == n \in left \/ (names[n] # NoKey /\ live[names[n]] # 0)

\* Why a wanted server may stay as it is without a retry: its old mount cannot
\* be torn down, its name belongs to another client, or to a copy that serves.
Excused(k) ==
    \/ outcome[k] = "stuck" /\ live[k] # 0
    \/ outcome[k] = "foreign"
    \/ outcome[k] = "duplicate" /\ Served(NameOf[k])

\* No server is forgotten: at rest, each one the last pass wanted is mounted
\* with the configuration it resolves to, is about to be retried or was given
\* up after its retries, or has an excuse that is still true.
Serves(k) == live[k] = config[k] /\ Owner(k) = k
NoneForgotten ==
    AtRest /\ ~rejected /\ ~AllDisposed =>
        \A k \in lastEnabled : config[k] # 0 => Serves(k) \/ k \in timers \/ GaveUp(k) \/ Excused(k)

\* One copy of a server is live under its name, and owns it.  Violated once
\* three suites ship a copy: when the first cannot be mounted, the other two
\* take over side by side, and each finds the name free.
OneCopyServes == \A j, k \in Keys : live[j] # 0 /\ live[k] # 0 /\ NameOf[j] = NameOf[k] => j = k

\* A retry never resurrects a server that has since been disabled.  Violated:
\* it replays the input of the pass that is running when it fires, behind the
\* one that disables the server.
RetryResurrectsNothing ==
    AtRest /\ ~rejected => \A k \in Keys : live[k] # 0 => k \in enabled \/ outcome[k] = "stuck"

\* The retries of a failing server come to an end.
Recovers == <>[](AtRest /\ timers = {})
=============================================================================
