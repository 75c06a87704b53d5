--------------------------- MODULE McpConnection ---------------------------
(* The supervisor of one MCP server: it owns the generations of the client  *)
(* and its transport, restarts a lost server within a budget of attempts,   *)
(* keeps the registered tools in step with the server's list, holds a       *)
(* generation open while the user authorizes it in a browser, and tears     *)
(* everything down on disposal.                                             *)
(*                                                                          *)
(* A generation is a number.  gens[g].pc is where its attempt stands:       *)
(*   connecting, syncing : await connect, await the initial sync            *)
(*   closing, waiting    : await close(), await the transport's close       *)
(*   leg, reclosing      : await the browser leg, await close() after it    *)
(*   up, ended           : the attempt is settled                           *)
EXTENDS Naturals, Sequences, FiniteSets

CONSTANTS
    PolicyAttempts,   \* policy.maxAttempts
    MaxStable,     \* bound on connections that outlive the stability window
    MaxLegs,       \* bound on approved authorizations
    MaxLists,      \* bound on changes of the server's tool list
    MaxConflicts   \* bound on syncs that meet a foreign registration

ASSUME PolicyAssumption == PolicyAttempts \in Nat \ {0}
ASSUME BoundsAssumption == {MaxStable, MaxLegs, MaxLists, MaxConflicts} \subseteq Nat

VARIABLES
    gens,            \* the generations started so far
    client,          \* the current generation, 0 for none
    syncChain,       \* queued syncs; the head runs while "reading" is not empty
    reading,         \* the lists the running sync may be handed, {} when none runs
    tools,           \* registered tools: the generation and list version, or NoTools
    timer,           \* the reconnect timer is armed
    failedAttempts,
    connectedAt,     \* "down", "fresh", or "stable": up past the stability window
    phase,           \* the last status reported
    settings,        \* the server's configuration, fixed for the bridge
    list,            \* version of the server's own tool list
    syncFailed,      \* the last sync failed or lost a name conflict
    disposal,        \* at "no", "closing" a generation, "draining", "done"
    seen             \* bounded counters of the environment

outage == <<client, timer, failedAttempts, connectedAt, phase>>
attempt == <<gens, outage>>
registry == <<syncChain, reading, tools, syncFailed>>
vars == <<attempt, settings, registry, list, disposal, seen>>

NoTools == [gen |-> 0, version |-> 0]
\* policy.enabled; failOnStartupError, which lets no name conflict pass in the
\* first sync; and whether the server may ask for an OAuth browser leg.
Settings == [reconnects: BOOLEAN, strict: BOOLEAN, oauth: BOOLEAN]

Disposed == disposal.at # "no"
IsCurrent(g) == ~Disposed /\ client = g
InFlight(g) == gens[g].pc \notin {"up", "ended"}
MovesTo(g, pc) == [gens EXCEPT ![g].pc = pc]

Sync(g, initial) == [gen |-> g, initial |-> initial]
\* The give-up disposal travels through the queue of syncs.
Drop == [gen |-> 0, initial |-> FALSE]

Init ==
    /\ gens = <<[pc |-> "connecting", open |-> TRUE]>>
    /\ client = 1 /\ timer = FALSE /\ failedAttempts = 0
    /\ connectedAt = "down" /\ phase = "connecting"
    /\ syncChain = <<>> /\ reading = {} /\ tools = NoTools /\ syncFailed = FALSE
    /\ list = 0 /\ disposal = [at |-> "no", of |-> 0] /\ settings \in Settings
    /\ seen = [stable |-> 0, legs |-> 0, conflicts |-> 0]

-----------------------------------------------------------------------------
(* connectGeneration                                                        *)

\* A fresh transport and client; "before" is what became of the others.
Connect(before) ==
    /\ gens' = Append(before, [pc |-> "connecting", open |-> TRUE])
    /\ client' = Len(before) + 1
    /\ phase' = "connecting"

\* scheduleReconnect, once a generation is given up: "queue" is what the
\* chain of syncs holds by then.
ScheduleReconnect(queue) ==
    /\ client' = 0
    /\ IF ~settings.reconnects
       THEN /\ phase' = "failed"
            /\ syncChain' = queue
            /\ UNCHANGED <<timer, failedAttempts, connectedAt>>
       ELSE /\ failedAttempts' = (IF connectedAt = "stable" THEN 0 ELSE failedAttempts) + 1
            /\ connectedAt' = "down"
            /\ timer' = (failedAttempts' <= PolicyAttempts)
            /\ phase' = IF timer' THEN "reconnecting" ELSE "failed"
            /\ syncChain' = IF timer' THEN queue ELSE Append(queue, Drop)

\* generationDown: one disconnect decision per generation.
GenerationDown(g, queue) ==
    IF IsCurrent(g)
    THEN ScheduleReconnect(queue)
    ELSE /\ syncChain' = queue
         /\ UNCHANGED outage

ConnectSucceeds(g) ==
    /\ gens[g].pc = "connecting"
    /\ IF gens[g].open
       THEN /\ gens' = MovesTo(g, "syncing")
            /\ syncChain' = Append(syncChain, Sync(g, TRUE))
            /\ UNCHANGED outage
       ELSE /\ gens' = MovesTo(g, "ended")
            /\ GenerationDown(g, syncChain)
    /\ UNCHANGED <<reading, tools, syncFailed, list, settings, disposal, seen>>

\* The catch block: an attempt failed, in connect or in its initial sync.
\* A pending browser leg holds the generation; a leg that was approved
\* within the attempt needs a fresh one; otherwise the attempt is closed.
AttemptFails(g, queue) ==
    /\ syncChain' = queue
    /\ \/ /\ gens' = MovesTo(g, "closing")
          /\ UNCHANGED <<client, phase, seen>>
       \/ /\ settings.oauth
          /\ gens' = MovesTo(g, "leg")
          /\ phase' = "connecting"
          /\ UNCHANGED <<client, seen>>
       \/ /\ settings.oauth /\ seen.legs < MaxLegs
          /\ seen' = [seen EXCEPT !.legs = @ + 1]
          /\ gens' = MovesTo(g, IF IsCurrent(g) THEN "reclosing" ELSE "ended")
          /\ client' = IF IsCurrent(g) THEN 0 ELSE client
          /\ UNCHANGED phase
    /\ UNCHANGED <<timer, failedAttempts, connectedAt>>

ConnectFails(g) ==
    /\ gens[g].pc = "connecting"
    /\ AttemptFails(g, syncChain)
    /\ UNCHANGED <<reading, tools, syncFailed, list, settings, disposal>>

\* Mutant: a refused leg settles the attempt and tells nobody.
LegSettlesQuietly(g) ==
    /\ gens[g].pc = "leg"
    /\ gens' = MovesTo(g, "ended")
    /\ UNCHANGED <<outage, registry, list, settings, disposal, seen>>

\* The browser leg ends: refused or timed out, or approved, in which case a
\* fresh generation is established in place.
LegSettles(g) ==
    /\ gens[g].pc = "leg"
    /\ \/ /\ gens' = MovesTo(g, "ended")
          /\ GenerationDown(g, syncChain)
          /\ UNCHANGED seen
       \/ /\ seen.legs < MaxLegs
          /\ seen' = [seen EXCEPT !.legs = @ + 1]
          /\ gens' = MovesTo(g, IF IsCurrent(g) THEN "reclosing" ELSE "ended")
          /\ client' = IF IsCurrent(g) THEN 0 ELSE client
          /\ UNCHANGED <<timer, failedAttempts, connectedAt, phase, syncChain>>
    /\ UNCHANGED <<reading, tools, syncFailed, list, settings, disposal>>

Reclosed(g) ==
    /\ gens[g].pc = "reclosing"
    /\ LET closed == [gens EXCEPT ![g] = [pc |-> "ended", open |-> FALSE]] IN
       IF Disposed
       THEN gens' = closed /\ UNCHANGED <<client, phase>>
       ELSE Connect(closed)
    /\ UNCHANGED <<timer, failedAttempts, connectedAt, registry, list, settings, disposal, seen>>

\* teardownFailedAttempt: close() returns, and the transport's own close
\* signal has come or is still awaited.
Closed(g) ==
    /\ gens[g].pc = "closing"
    /\ \E stays \in {FALSE, gens[g].open} :
          gens' = [gens EXCEPT ![g] = [pc |-> "waiting", open |-> stays]]
    /\ UNCHANGED <<outage, registry, list, settings, disposal, seen>>

\* Mutant: the transport's own close signal is not awaited.
QuiescedEarly(g) ==
    /\ gens[g].pc = "waiting"
    /\ gens' = MovesTo(g, "ended")
    /\ GenerationDown(g, syncChain)
    /\ UNCHANGED <<reading, tools, syncFailed, list, settings, disposal, seen>>

Quiesced(g) ==
    /\ gens[g].pc = "waiting" /\ ~gens[g].open
    /\ gens' = MovesTo(g, "ended")
    /\ GenerationDown(g, syncChain)
    /\ UNCHANGED <<reading, tools, syncFailed, list, settings, disposal, seen>>

\* Mutant: the failure is not reported.
CloseTimesOutUnreported(g) ==
    /\ gens[g].pc = "waiting" /\ gens[g].open
    /\ gens' = MovesTo(g, "ended")
    /\ client' = IF IsCurrent(g) THEN 0 ELSE client
    /\ UNCHANGED <<timer, failedAttempts, connectedAt, phase, registry, list, settings, disposal, seen>>

\* The transport is stuck: a respawn would overlap the server still running.
CloseTimesOut(g) ==
    /\ gens[g].pc = "waiting" /\ gens[g].open
    /\ gens' = MovesTo(g, "ended")
    /\ client' = IF IsCurrent(g) THEN 0 ELSE client
    /\ phase' = IF IsCurrent(g) THEN "failed" ELSE phase
    /\ UNCHANGED <<timer, failedAttempts, connectedAt, registry, list, settings, disposal, seen>>

TimerFires ==
    /\ timer
    /\ timer' = FALSE
    /\ Connect(gens)
    /\ UNCHANGED <<failedAttempts, connectedAt, registry, list, settings, disposal, seen>>

\* The transport reports its end; an established generation goes down at
\* once, an attempt in flight finds out when it resumes.
ServerDies(g) ==
    /\ gens[g].open
    /\ gens' = [gens EXCEPT ![g] = [pc |-> IF @.pc = "up" THEN "ended" ELSE @.pc, open |-> FALSE]]
    /\ IF gens[g].pc = "up"
       THEN GenerationDown(g, syncChain)
       ELSE UNCHANGED <<outage, syncChain>>
    /\ UNCHANGED <<reading, tools, syncFailed, list, settings, disposal, seen>>

BecomesStable ==
    /\ connectedAt = "fresh" /\ client # 0 /\ seen.stable < MaxStable
    /\ connectedAt' = "stable"
    /\ seen' = [seen EXCEPT !.stable = @ + 1]
    /\ UNCHANGED <<gens, client, timer, failedAttempts, phase, registry, list, settings, disposal>>

-----------------------------------------------------------------------------
(* Tool syncs                                                               *)

\* The list changes on the server; a live client is notified and queues a
\* re-sync behind whatever is running.
\* Mutant: the handler is registered only once the server is up.
NotifiedUp(g) == g # 0 /\ IsCurrent(g) /\ gens[g].open /\ gens[g].pc = "up"
Notified(g) == g # 0 /\ IsCurrent(g) /\ gens[g].open /\ gens[g].pc \in {"connecting", "syncing", "up"}
ListChanges ==
    /\ list < MaxLists
    /\ list' = list + 1
    /\ reading' = IF reading = {} THEN {} ELSE reading \union {list'}
    /\ syncChain' = IF Notified(client) THEN Append(syncChain, Sync(client, FALSE)) ELSE syncChain
    /\ UNCHANGED <<attempt, settings, tools, syncFailed, disposal, seen>>

\* Mutant: every success buys a fresh budget, however brief it is.
AttemptAfresh(g, queue) ==
    IF ~gens[g].open
    THEN gens' = MovesTo(g, "ended") /\ GenerationDown(g, queue)
    ELSE /\ syncChain' = queue
         /\ IF IsCurrent(g)
            THEN gens' = MovesTo(g, "up") /\ connectedAt' = "fresh" /\ phase' = "connected" /\ failedAttempts' = 0
            ELSE gens' = MovesTo(g, "ended") /\ UNCHANGED <<connectedAt, phase, failedAttempts>>
         /\ UNCHANGED <<client, timer>>

\* The attempt resumes after its initial sync.
AttemptSucceeds(g, queue) ==
    IF ~gens[g].open
    THEN gens' = MovesTo(g, "ended") /\ GenerationDown(g, queue)
    ELSE /\ syncChain' = queue
         /\ IF IsCurrent(g)
            THEN gens' = MovesTo(g, "up") /\ connectedAt' = "fresh" /\ phase' = "connected"
            ELSE gens' = MovesTo(g, "ended") /\ UNCHANGED <<connectedAt, phase>>
         /\ UNCHANGED <<client, timer, failedAttempts>>

Resumes(job, queue) ==
    IF job.initial THEN AttemptSucceeds(job.gen, queue)
    ELSE syncChain' = queue /\ UNCHANGED attempt

\* A queued job starts; one of a generation that is no longer current is void.
SyncStarts ==
    /\ syncChain # <<>> /\ reading = {}
    /\ LET job == Head(syncChain) IN
       \/ /\ job = Drop
          /\ tools' = NoTools /\ syncChain' = Tail(syncChain)
          /\ UNCHANGED <<attempt, reading>>
       \/ /\ job # Drop /\ IsCurrent(job.gen)
          /\ reading' = {list}
          /\ UNCHANGED <<attempt, syncChain, tools>>
       \/ /\ job # Drop /\ ~IsCurrent(job.gen)
          /\ Resumes(job, Tail(syncChain))
          /\ UNCHANGED <<reading, tools>>
    /\ UNCHANGED <<syncFailed, list, settings, disposal, seen>>

\* The list was fetched: the previous tools are swapped for it.
SyncSwaps ==
    /\ reading' = {}
    /\ \E version \in reading : tools' = [gen |-> Head(syncChain).gen, version |-> version]
    /\ syncFailed' = FALSE
    /\ Resumes(Head(syncChain), Tail(syncChain))
    /\ UNCHANGED <<list, settings, disposal, seen>>

\* A foreign registration owns a name: nothing stays registered, and a
\* strict first sync fails its attempt.
SyncConflicts ==
    LET job == Head(syncChain) IN
    /\ reading # {} /\ reading' = {}
    /\ seen.conflicts < MaxConflicts
    /\ tools' = NoTools /\ syncFailed' = TRUE
    /\ IF settings.strict /\ job.initial /\ job.gen = 1
       THEN AttemptFails(job.gen, Tail(syncChain))
       ELSE /\ Resumes(job, Tail(syncChain))
            /\ seen' = [seen EXCEPT !.conflicts = @ + 1]
    /\ UNCHANGED <<list, settings, disposal>>

\* The list could not be fetched: what was registered stays.
SyncFails ==
    LET job == Head(syncChain) IN
    /\ reading # {} /\ reading' = {}
    /\ syncFailed' = TRUE
    /\ IF job.initial
       THEN AttemptFails(job.gen, Tail(syncChain))
       ELSE syncChain' = Tail(syncChain) /\ UNCHANGED <<attempt, seen>>
    /\ UNCHANGED <<tools, list, settings, disposal>>

-----------------------------------------------------------------------------
(* Disposal                                                                 *)

Dispose ==
    /\ ~Disposed
    /\ disposal' = [at |-> IF client = 0 THEN "draining" ELSE "closing", of |-> client]
    /\ client' = 0 /\ timer' = FALSE
    /\ UNCHANGED <<gens, failedAttempts, connectedAt, phase, settings, registry, list, seen>>

\* close() returned, and the transport closed or its time ran out.
DisposeCloses ==
    LET g == disposal.of IN
    /\ disposal.at = "closing"
    /\ disposal' = [disposal EXCEPT !.at = "draining"]
    /\ \E stays \in {FALSE, gens[g].open} :
          gens' = [gens EXCEPT ![g] = [pc |-> IF @.pc = "up" THEN "ended" ELSE @.pc, open |-> stays]]
    /\ UNCHANGED <<outage, settings, registry, list, seen>>

\* Mutant: only the attempt is awaited, not the queue of syncs.
DrainsAttempt ==
    /\ disposal.at = "draining"
    /\ \A g \in 1..Len(gens) : ~InFlight(g)
    /\ disposal' = [disposal EXCEPT !.at = "done"]
    /\ tools' = NoTools
    /\ UNCHANGED <<attempt, settings, syncChain, reading, syncFailed, list, seen>>

\* The attempt in flight and the queued syncs have come to an end.
DisposeDrains ==
    /\ disposal.at = "draining"
    /\ \A g \in 1..Len(gens) : ~InFlight(g)
    /\ syncChain = <<>>
    /\ disposal' = [disposal EXCEPT !.at = "done"]
    /\ tools' = NoTools
    /\ UNCHANGED <<attempt, settings, syncChain, reading, syncFailed, list, seen>>

-----------------------------------------------------------------------------
AttemptStep(g) ==
    \/ ConnectSucceeds(g) \/ ConnectFails(g) \/ LegSettles(g) \/ Reclosed(g)
    \/ Closed(g) \/ Quiesced(g) \/ CloseTimesOut(g)
SyncStep == SyncStarts \/ SyncSwaps \/ SyncConflicts \/ SyncFails

Next ==
    \/ \E g \in 1..Len(gens) : AttemptStep(g) \/ ServerDies(g)
    \/ SyncStep \/ TimerFires \/ BecomesStable \/ ListChanges
    \/ Dispose \/ DisposeCloses \/ DisposeDrains

Spec == Init /\ [][Next]_vars

\* The event loop resumes every continuation; connect, list requests, the
\* close wait and the browser leg all have timeouts; armed timers fire.
MaxGens == 1 + MaxLegs + PolicyAttempts * (1 + MaxStable)
FairSpec ==
    /\ Spec /\ WF_vars(SyncStep) /\ WF_vars(TimerFires)
    /\ WF_vars(DisposeCloses) /\ WF_vars(DisposeDrains)
    /\ \A g \in 1..MaxGens : WF_vars(g <= Len(gens) /\ AttemptStep(g))

-----------------------------------------------------------------------------
Generations == [pc: {"connecting", "syncing", "closing", "waiting", "leg", "reclosing", "up", "ended"},
                open: BOOLEAN]

\* The supervisor's state keeps its types; no attempt is counted beyond the
\* one that gives up.
TypeOK ==
    /\ gens \in Seq(Generations) /\ client \in 0..Len(gens)
    /\ syncChain \in Seq([gen: 0..Len(gens), initial: BOOLEAN])
    /\ reading \subseteq 0..MaxLists /\ (reading # {} => syncChain # <<>>) /\ syncFailed \in BOOLEAN
    /\ tools \in [gen: 0..Len(gens), version: 0..MaxLists] /\ list \in 0..MaxLists
    /\ timer \in BOOLEAN /\ failedAttempts \in 0..PolicyAttempts + 1 /\ settings \in Settings
    /\ connectedAt \in {"down", "fresh", "stable"}
    /\ phase \in {"connecting", "connected", "reconnecting", "failed"}
    /\ disposal \in [at: {"no", "closing", "draining", "done"}, of: 0..Len(gens)]
    /\ seen \in [stable: 0..MaxStable, legs: 0..MaxLegs, conflicts: 0..MaxConflicts]

\* Two server processes of one bridge never run at the same time, even when
\* the old one will not stop (teardownFailedAttempt).  An OAuth server is
\* remote and has no process.
OneServer ==
    ~settings.oauth => Cardinality({g \in 1..Len(gens) : gens[g].open}) <= 1

\* Restarts stay within the budget: a crash-looping server, even one whose
\* connects briefly succeed, exhausts it; only a connection that outlived the
\* stability window or an approved authorization buys more.
BudgetRespected == Len(gens) <= 1 + seen.legs + PolicyAttempts * (1 + seen.stable)

\* The reported phase is what the supervisor is doing, so none of its states
\* is one in which nothing will ever happen again unreported: an attempt is
\* in flight, a retry is armed, a server is up, or it has failed for good.
PhaseTruthful ==
    ~Disposed =>
        /\ phase = "connecting" <=> \E g \in 1..Len(gens) : InFlight(g)
        /\ phase = "reconnecting" <=> timer
        /\ phase = "connected" <=> client # 0 /\ gens[client].pc = "up"
        /\ phase = "failed" => client = 0

\* A change of the server's list is never lost, not even one announced while
\* the first sync runs: once the syncs are done, the tools of a server that
\* is up are its newest list.
NoListChangeLost ==
    phase = "connected" /\ ~Disposed /\ syncChain = <<>> /\ ~syncFailed
        => tools = [gen |-> client, version |-> list]

\* A bridge that has ended holds nothing.  A server that was given up has no
\* tools left, whichever syncs were under way when its budget ran out; and
\* after disposal no sync, timer, client or attempt is left to bring one back.
EndedHoldsNothing ==
    /\ phase = "failed" /\ failedAttempts > PolicyAttempts /\ syncChain = <<>> => tools = NoTools
    /\ disposal.at = "done" =>
          /\ tools = NoTools /\ syncChain = <<>> /\ ~timer /\ client = 0
          /\ \A g \in 1..Len(gens) : ~InFlight(g)

\* Every outage ends: the server is back, given up, or the bridge disposed; and
\* disposal completes, even with a transport that never closes and a browser
\* leg that is still pending.
EverythingEnds ==
    /\ phase \in {"connecting", "reconnecting"} ~> phase \in {"connected", "failed"} \/ Disposed
    /\ Disposed ~> disposal.at = "done"
=============================================================================
