------------------------- MODULE ExtensionInventory -------------------------
(***************************************************************************)
(* ExtensionRuntime for one agent                                          *)
(* (market-runtime/src/runtime/host/extension-runtime.ts): what the agent  *)
(* may call is decided from a cached read of the catalog, and a change of  *)
(* the catalog denies everything until the cache has been read again.      *)
(* Agents share only the epoch, so one agent is the whole system.          *)
(*                                                                         *)
(* Reads of the inventory are begun by refreshAgent (several calls of it   *)
(* may overlap), by a commit of the session's selection, and by the panel  *)
(* ("window"); they end in any order.  The selection transaction itself is *)
(* SessionSelection's; here it is the reads it makes and the callbacks it  *)
(* runs.                                                                   *)
(***************************************************************************)
EXTENDS Integers

CONSTANTS
    Tasks,         \* calls of refreshAgent that may overlap
    Ids,           \* resources of the catalog
    MaxChanges,    \* bound on changes of the catalog
    Offer,         \* what each version of the catalog offers for use
    Preset,        \* what the preset a user may select enables
    MaxEvents      \* bound on changes, on failed reads, applications and
                   \* callbacks, and on windows, selections and recoveries together

ASSUME CatalogAssumption ==
    /\ MaxChanges \in Nat /\ MaxEvents \in Nat
    /\ Offer \in [0..MaxChanges -> SUBSET Ids] /\ Preset \subseteq Ids

\* A commit is named by its kind, or by the call that waits for it.
ASSUME CallsAssumption == Tasks \cap {"none", "init", "select", "recover"} = {}

VARIABLES
    version, owed, refreshes,    \* the catalog, and its change pipeline
    epoch, seen,                 \* invalidations, and the version of the last one (history)
    resources, newest,           \* the cached read, and who began the newest read
    stale, dirty, registered, appliedEpoch,
    timer, refreshing, task,     \* retries, and the calls of refreshAgent
    commit, window,              \* the other readers
    ready, chosen, follows,      \* the session's selection
    turn, disposed, events

catalog == <<version, owed, refreshes, epoch, seen>>
cache == <<resources, newest, stale>>
marks == <<dirty, registered, appliedEpoch>>
retry == <<timer, refreshing, task>>
session == <<ready, chosen, follows>>
bounds == <<disposed, events>>
vars == <<catalog, cache, marks, retry, commit, window, session, turn, bounds>>

Readers == Tasks \cup {"commit", "window"}
None == -1
NoRead == [epoch |-> None, version |-> None]
NoWindow == [pc |-> "off", read |-> NoRead]
NoTask == [pc |-> "off", epoch |-> None, read |-> NoRead, outer |-> FALSE]
NoCommit == [pc |-> "off", kind |-> "none", sel |-> {}, default |-> FALSE, epoch |-> None, read |-> NoRead]
Calls(outer) == [NoTask EXCEPT !.pc = "call", !.outer = outer]

\* A call begins in a slot that is free (bound: as many calls as slots).
Spawn(outer) ==
    /\ \E t \in Tasks : task[t] = NoTask
    /\ task' = [task EXCEPT ![CHOOSE t \in Tasks : task[t] = NoTask] = Calls(outer)]

\* A maintenance block or a turn owns the agent; a promotion runs in the turn.
Committing == commit.pc \in {"applyRead", "apply", "publish"}
Idle == ~turn /\ ~Committing /\ \A t \in Tasks : task[t].pc \notin {"read", "apply"}

\* A call runs to its first await before anything else does.
Awaiting == \A t \in Tasks : task[t].pc # "call"

\* The answer is what the catalog offered when the read began; a change
\* while it runs can only make the answer younger.
Reading == [epoch |-> epoch, version |-> version]

\* The session starts on a capture of what its first read shows.
Init ==
    /\ version = 0 /\ owed = FALSE /\ refreshes = 0 /\ epoch = 0 /\ seen = 0
    /\ resources = None /\ newest = "commit" /\ stale = FALSE
    /\ dirty = FALSE /\ registered = None /\ appliedEpoch = None
    /\ timer = FALSE /\ refreshing = FALSE /\ task = [t \in Tasks |-> NoTask]
    /\ commit = [NoCommit EXCEPT !.pc = "capture", !.kind = "init", !.read = Reading]
    /\ \E d \in BOOLEAN : follows = d
    /\ window = NoWindow
    /\ ready = FALSE /\ chosen = {}
    /\ turn = FALSE /\ disposed = FALSE /\ events = 0

Event == version + events < MaxEvents /\ events' = events + 1 /\ UNCHANGED disposed

-----------------------------------------------------------------------------
(* What a call of a tool asks                                              *)

Rows(v) == IF v = None THEN {} ELSE Offer[v]
Allows(id) ==
    /\ ~stale
    /\ dirty => id \in Rows(registered)
    /\ ready /\ id \in chosen \cap Rows(resources)

-----------------------------------------------------------------------------
(* The change pipeline                                                     *)

Changes ==
    /\ Awaiting /\ ~disposed /\ version < MaxChanges /\ version + events < MaxEvents /\ version' = version + 1
    /\ owed' = TRUE
    /\ UNCHANGED <<refreshes, epoch, seen, cache, marks, retry, commit, window, session, turn, bounds>>

Invalidate ==
    /\ epoch' = epoch + 1 /\ stale' = TRUE /\ dirty' = TRUE

\* onChanged: the revocation comes before the runtime mounts, the refresh of
\* the agents after them, or after they have overrun.
OnChanged ==
    /\ Awaiting /\ owed /\ owed' = FALSE /\ ~disposed
    /\ Invalidate
    /\ seen' = version /\ refreshes' = refreshes + 1
    /\ UNCHANGED <<version, resources, newest, registered, appliedEpoch, retry, commit, window, session, turn, bounds>>

\* refreshAll
RefreshAll ==
    /\ Awaiting /\ refreshes > 0 /\ refreshes' = refreshes - 1
    /\ Spawn(FALSE)
    /\ UNCHANGED <<version, owed, epoch, seen, cache, marks, timer, refreshing, commit, window, session, turn, bounds>>

-----------------------------------------------------------------------------
(* refreshInventory and scheduleRetry                                      *)

BeginRead(reader) == newest' = reader /\ UNCHANGED <<resources, stale>>

\* Faulty: the newest read is published whatever epoch it belongs to.
PublishesNewest(reader, read) == newest = reader
Publishes(reader, read) == newest = reader /\ read.epoch = epoch
EndRead(reader, read) ==
    /\ IF Publishes(reader, read)
       THEN resources' = read.version /\ stale' = FALSE
       ELSE UNCHANGED <<resources, stale>>
    /\ UNCHANGED newest

\* The read fails, or what the publication tells its listeners throws.
FailRead(reader, read) ==
    \/ UNCHANGED cache
    \/ dirty /\ Publishes(reader, read) /\ EndRead(reader, read)

\* scheduleRetry, given the marks the caller leaves behind.  Faulty: only an
\* inventory that is stale is retried.
ArmedIfStale(d) == timer \/ (~disposed /\ d /\ stale)
Armed(d) == timer \/ (~disposed /\ d)

-----------------------------------------------------------------------------
(* refreshAgent                                                            *)

\* A call has ended: it repeats when the catalog moved, and the deferred
\* refresh of a busy agent looks once more whether it is still dirty.
\* Faulty: one pass per call.
EndCallOnce(t, arms) ==
    /\ task' = [task EXCEPT ![t] = NoTask]
    /\ timer' = IF arms \/ task[t].outer THEN Armed(dirty') ELSE timer
EndCall(t, arms) ==
    LET repeats == ~disposed /\ dirty' /\ task[t].epoch # None /\ task[t].epoch # epoch IN
    /\ task' = [task EXCEPT ![t] = IF repeats THEN Calls(@.outer) ELSE NoTask]
    /\ timer' = IF arms \/ (~repeats /\ task[t].outer) THEN Armed(dirty') ELSE timer

\* Nothing to do, or a refresh in flight will come back by itself.
CallSkips(t) ==
    /\ task[t].pc = "call" /\ (disposed \/ ~dirty \/ refreshing)
    /\ UNCHANGED <<cache, marks>> /\ EndCall(t, FALSE)
    /\ UNCHANGED <<catalog, refreshing, commit, window, session, turn, bounds>>

Working(t) == task[t].pc = "call" /\ ~disposed /\ dirty /\ ~refreshing

\* A busy agent is only read: the rest waits until it is idle.
CallBusy(t) ==
    /\ Working(t) /\ ~Idle
    /\ BeginRead(t)
    /\ task' = [task EXCEPT ![t].pc = "busyRead", ![t].read = Reading]
    /\ UNCHANGED <<catalog, marks, timer, refreshing, commit, window, session, turn, bounds>>

BusyReadEnds(t) ==
    /\ Awaiting /\ task[t].pc = "busyRead"
    /\ \/ EndRead(t, task[t].read) /\ UNCHANGED bounds
       \/ FailRead(t, task[t].read) /\ Event
    /\ refreshing' = TRUE
    /\ task' = [task EXCEPT ![t].pc = "whenIdle", ![t].read = NoRead]
    \* the deferred refresh this call was made from returns
    /\ timer' = IF task[t].outer THEN Armed(dirty) ELSE timer
    /\ UNCHANGED <<catalog, marks, commit, window, session, turn>>

\* The deferred refresh looks after the call it makes.
BecomesIdle(t) ==
    /\ Awaiting /\ task[t].pc = "whenIdle" /\ (Idle \/ disposed)
    /\ refreshing' = FALSE
    /\ task' = [task EXCEPT ![t] = Calls(TRUE)]
    /\ UNCHANGED <<catalog, cache, marks, timer, commit, window, session, turn, bounds>>

\* A session that is still attaching can only be tried again.
CallUnready(t) ==
    /\ Working(t) /\ Idle /\ ~ready
    /\ UNCHANGED <<cache, marks>> /\ EndCall(t, TRUE)
    /\ UNCHANGED <<catalog, refreshing, commit, window, session, turn, bounds>>

CallReads(t) ==
    /\ Working(t) /\ Idle /\ ready
    /\ BeginRead(t) /\ refreshing' = TRUE
    /\ task' = [task EXCEPT ![t].pc = "read", ![t].epoch = epoch, ![t].read = Reading]
    /\ UNCHANGED <<catalog, marks, timer, commit, window, session, turn, bounds>>

\* The rows a default capture does not name yet (followingSelection).
Added == IF follows THEN Rows(resources') \ chosen ELSE {}

TaskReads(t) ==
    /\ Awaiting /\ task[t].pc = "read"
    /\ EndRead(t, task[t].read) /\ UNCHANGED marks
    /\ \/ stale' /\ refreshing' = FALSE /\ EndCall(t, TRUE)
       \/ /\ ~stale' /\ Added # {}
          /\ refreshing' = FALSE /\ task' = [task EXCEPT ![t].pc = "follow", ![t].read = NoRead] /\ UNCHANGED timer
       \/ /\ ~stale' /\ Added = {}
          /\ task' = [task EXCEPT ![t].pc = "apply", ![t].read = NoRead] /\ UNCHANGED <<timer, refreshing>>
    /\ UNCHANGED <<catalog, commit, window, session, turn, bounds>>

\* The mounts follow; an application the catalog overtook is taken back.
TaskApplies(t) ==
    /\ Awaiting /\ task[t].pc = "apply" /\ UNCHANGED cache
    /\ IF task[t].epoch # epoch
       THEN UNCHANGED marks /\ EndCall(t, FALSE)
       ELSE /\ dirty' = FALSE /\ registered' = resources /\ UNCHANGED appliedEpoch
            /\ task' = [task EXCEPT ![t] = NoTask] /\ timer' = FALSE
    /\ refreshing' = FALSE
    /\ UNCHANGED <<catalog, commit, window, session, turn, bounds>>

\* The read, the application or the last callback throws, or the agent is
\* cancelled; the callback throws after the agent was declared clean.
TaskFails(t) ==
    /\ Awaiting /\ task[t].pc \in {"read", "apply"} /\ Event
    /\ IF task[t].pc = "read" THEN FailRead(t, task[t].read) ELSE UNCHANGED cache
    /\ \/ UNCHANGED registered
       \/ task[t].pc = "apply" /\ task[t].epoch = epoch /\ registered' = resources
    /\ UNCHANGED <<dirty, appliedEpoch>>
    /\ refreshing' = FALSE /\ EndCall(t, TRUE)
    /\ UNCHANGED <<catalog, commit, window, session, turn>>

\* The followed selection is committed once the slot is free (bound: after
\* the request in flight, if any).  A turn or a commit that was faster is a
\* reason to retry; a session that is not ready
\* any more leaves the call by an error.
FollowCommits(t) ==
    /\ Awaiting /\ task[t].pc = "follow" /\ ready /\ Idle /\ commit = NoCommit
    /\ commit' = [NoCommit EXCEPT !.pc = "applyRead", !.kind = t, !.sel = chosen \cup Rows(resources),
                                  !.default = TRUE, !.epoch = epoch, !.read = Reading]
    /\ ready' = FALSE /\ BeginRead("commit")
    /\ task' = [task EXCEPT ![t].pc = "following"]
    /\ UNCHANGED <<catalog, marks, timer, refreshing, window, chosen, follows, turn, bounds>>
FollowFails(t) ==
    /\ Awaiting /\ task[t].pc = "follow" /\ ~(ready /\ Idle)
    /\ UNCHANGED <<catalog, cache, marks, refreshing, commit, window, session, turn, bounds>>
    /\ IF ready THEN EndCall(t, TRUE) ELSE task' = [task EXCEPT ![t] = NoTask] /\ UNCHANGED timer

TimerFires ==
    /\ Awaiting /\ timer /\ timer' = FALSE
    /\ Spawn(FALSE)
    /\ UNCHANGED <<catalog, cache, marks, refreshing, commit, window, session, turn, bounds>>

-----------------------------------------------------------------------------
(* The commits of the session's selection                                  *)

\* select: the request names a preset, or captures what its read shows.
Select(default) ==
    /\ Awaiting /\ ready /\ commit = NoCommit /\ ~disposed
    /\ Event
    /\ BeginRead("commit")
    /\ commit' = [NoCommit EXCEPT !.pc = "capture", !.kind = "select", !.default = default, !.read = Reading]
    /\ UNCHANGED <<catalog, marks, retry, window, session, turn>>

\* The capture is durable intent from here on; it waits for the agent.
Captures ==
    /\ Awaiting /\ commit.pc = "capture"
    /\ EndRead("commit", commit.read)
    /\ LET init == commit.kind = "init"
           sel == IF init \/ commit.default THEN Offer[commit.read.version] ELSE Preset
       IN  /\ commit' = [commit EXCEPT !.pc = "wait", !.sel = sel, !.read = NoRead,
                                       !.default = IF init THEN follows ELSE @]
           /\ chosen' = IF init THEN sel ELSE chosen
    /\ UNCHANGED <<catalog, marks, retry, window, ready, follows, turn, bounds>>

\* applySelection reads the inventory first.  A request commits when the
\* agent is idle, or at the end of its turn; a starting session at once.
CommitStarts ==
    /\ Awaiting /\ commit.pc = "wait" /\ ~disposed
    /\ turn \/ Idle \/ commit.kind = "init"
    /\ BeginRead("commit") /\ ready' = FALSE
    /\ commit' = [commit EXCEPT !.pc = "applyRead", !.epoch = epoch, !.read = Reading]
    /\ UNCHANGED <<catalog, marks, retry, window, chosen, follows, turn, bounds>>

CommitReads ==
    /\ Awaiting /\ commit.pc = "applyRead"
    /\ EndRead("commit", commit.read)
    /\ commit' = [commit EXCEPT !.pc = "apply", !.read = NoRead]
    /\ UNCHANGED <<catalog, marks, retry, window, session, turn, bounds>>

\* The marks move only if the catalog did not.
CommitApplies ==
    /\ Awaiting /\ commit.pc = "apply"
    /\ commit' = [commit EXCEPT !.pc = "publish"]
    /\ IF ~stale /\ commit.epoch = epoch
       THEN appliedEpoch' = epoch /\ registered' = resources
       ELSE UNCHANGED <<appliedEpoch, registered>>
    /\ UNCHANGED <<catalog, cache, dirty, retry, window, session, turn, bounds>>

\* The commit is over; who waited for it goes on.
\* A follow that could not commit is retried.
Resume(ok) ==
    IF commit.kind \in Tasks
    THEN EndCall(commit.kind, ~ok)
    ELSE /\ UNCHANGED task
         /\ timer' = IF ~ok /\ commit.kind = "recover" THEN Armed(dirty') ELSE timer

\* committed: an application of the newest epoch has nothing left to do.
AppliedNewest == appliedEpoch = epoch
CommitPublishes ==
    /\ Awaiting /\ commit.pc = "publish" /\ (commit.kind = "recover" => window = NoWindow)
    /\ chosen' = commit.sel /\ follows' = commit.default /\ ready' = ~disposed
    /\ dirty' = (dirty /\ ~AppliedNewest) /\ UNCHANGED <<registered, appliedEpoch>>
    /\ Resume(TRUE)
    /\ commit' = NoCommit
    /\ IF commit.kind = "recover"
       THEN BeginRead("window") /\ window' = [pc |-> "recovery", read |-> Reading]
       ELSE UNCHANGED <<cache, window>>
    /\ UNCHANGED <<catalog, refreshing, turn, bounds>>

\* Any step of the commit throws, a callback after the durable write
\* included: the session is unavailable, and its turn is cancelled.
CommitFails ==
    /\ Awaiting /\ commit.pc \in {"capture", "applyRead", "apply", "publish"} /\ Event
    /\ IF commit.pc \in {"capture", "applyRead"} THEN FailRead("commit", commit.read) ELSE UNCHANGED cache
    /\ IF commit.pc = "publish"
       THEN dirty' = TRUE /\ chosen' = commit.sel /\ follows' = commit.default
       ELSE UNCHANGED <<dirty, chosen, follows>>
    /\ UNCHANGED <<registered, appliedEpoch>>
    /\ IF commit.pc = "capture" THEN UNCHANGED <<ready, turn>> ELSE ready' = FALSE /\ turn' = FALSE
    /\ Resume(FALSE) /\ commit' = NoCommit
    /\ UNCHANGED <<catalog, refreshing, window>>

\* recover: a ready session is refreshed, another one replays its selection
\* or its capture.
RecoverReady ==
    /\ Awaiting /\ ready /\ dirty /\ ~disposed
    /\ Event
    /\ Spawn(FALSE)
    /\ UNCHANGED <<catalog, cache, marks, timer, refreshing, commit, window, session, turn>>
RecoverUnready ==
    /\ Awaiting /\ ~ready /\ ~turn /\ commit = NoCommit /\ ~disposed
    /\ Event
    /\ BeginRead("commit")
    /\ commit' = IF chosen = {}
                 THEN [NoCommit EXCEPT !.pc = "capture", !.kind = "init", !.read = Reading]
                 ELSE [NoCommit EXCEPT !.pc = "applyRead", !.kind = "recover", !.sel = chosen, !.default = follows,
                                       !.epoch = epoch, !.read = Reading]
    /\ UNCHANGED <<catalog, marks, retry, window, session, turn>>

\* After the recovery the inventory is read again; whatever is still owed
\* then is refreshed, or retried.
RecoveryRereads ==
    /\ Awaiting /\ window.pc = "recovery" /\ window' = NoWindow /\ UNCHANGED marks
    /\ \/ /\ EndRead("window", window.read) /\ UNCHANGED bounds
          /\ IF dirty /\ ~stale'
             THEN Spawn(TRUE) /\ UNCHANGED timer
             ELSE UNCHANGED task /\ timer' = Armed(dirty)
       \/ /\ FailRead("window", window.read) /\ Event
          /\ UNCHANGED task /\ timer' = Armed(dirty)
    /\ UNCHANGED <<catalog, refreshing, commit, session, turn>>

-----------------------------------------------------------------------------
(* The panel, the host, and disposal                                       *)

WindowReads ==
    /\ Awaiting /\ window = NoWindow /\ ~disposed
    /\ Event
    /\ BeginRead("window") /\ window' = [pc |-> "window", read |-> Reading]
    /\ UNCHANGED <<catalog, marks, retry, commit, session, turn>>
WindowAnswers ==
    /\ Awaiting /\ window.pc = "window" /\ window' = NoWindow /\ UNCHANGED marks
    /\ \/ EndRead("window", window.read) /\ UNCHANGED <<timer, bounds>>
       \/ FailRead("window", window.read) /\ Event /\ timer' = Armed(dirty)
    /\ UNCHANGED <<catalog, refreshing, task, commit, session, turn>>

TurnBegins ==
    /\ Awaiting /\ ready /\ Idle /\ turn' = TRUE
    /\ UNCHANGED <<catalog, cache, marks, retry, commit, window, session, bounds>>
TurnEnds ==
    /\ Awaiting /\ turn /\ ~Committing /\ turn' = FALSE
    /\ UNCHANGED <<catalog, cache, marks, retry, commit, window, session, bounds>>

\* The pipeline and the host's turns go with the plugin; what is in flight
\* still ends.  The session's service is disposed behind the refreshes; here it
\* denies from the start, since nothing is announced in between.
Dispose ==
    /\ Awaiting /\ ~disposed /\ disposed' = TRUE /\ UNCHANGED events
    /\ timer' = FALSE /\ ready' = FALSE
    /\ owed' = FALSE /\ refreshes' = 0 /\ turn' = FALSE
    /\ UNCHANGED <<version, epoch, seen, cache, marks, refreshing, task, commit, window, chosen, follows>>

\* The refreshes in flight have settled: everything is forgotten.
Disposed ==
    /\ Awaiting /\ disposed /\ ~refreshing /\ dirty
    /\ resources' = None /\ stale' = FALSE /\ newest' = "none"
    /\ dirty' = FALSE /\ registered' = None /\ appliedEpoch' = None
    /\ UNCHANGED <<catalog, retry, commit, window, session, turn, bounds>>

TaskStep(t) ==
    \/ CallSkips(t) \/ CallBusy(t) \/ CallUnready(t) \/ CallReads(t)
    \/ BusyReadEnds(t) \/ TaskReads(t) \/ TaskApplies(t) \/ FollowFails(t)
CommitStep ==
    Captures \/ CommitStarts \/ CommitReads \/ CommitApplies \/ CommitPublishes \/ RecoveryRereads
Next ==
    \/ Changes \/ OnChanged \/ RefreshAll \/ TimerFires
    \/ \E t \in Tasks : TaskStep(t) \/ BecomesIdle(t) \/ FollowCommits(t) \/ TaskFails(t)
    \/ CommitStep \/ CommitFails \/ RecoverReady \/ RecoverUnready
    \/ \E d \in BOOLEAN : Select(d)
    \/ WindowReads \/ WindowAnswers \/ TurnBegins \/ TurnEnds \/ Dispose \/ Disposed

Spec == Init /\ [][Next]_vars

\* Reads and continuations end, turns end, timers fire and the pipeline goes
\* on.  A deferred refresh gets to run at an idle moment, and a follow to
\* commit, however soon the next turn begins: no user sends a message in
\* every one of those moments.  Fairness is strong because every step waits
\* while a call runs to its first await.
FairSpec ==
    /\ Spec
    /\ WF_vars(\E t \in Tasks : TaskStep(t)) /\ WF_vars(TurnEnds)
    /\ SF_vars(\E t \in Tasks : BecomesIdle(t)) /\ SF_vars(\E t \in Tasks : FollowCommits(t))
    /\ SF_vars(RefreshAll \/ TimerFires)
    /\ SF_vars(OnChanged \/ CommitStep \/ WindowAnswers)

-----------------------------------------------------------------------------
ReadsMade == [epoch: None..MaxChanges, version: None..MaxChanges]
TypeOK ==
    /\ version \in 0..MaxChanges /\ epoch \in 0..version /\ seen \in 0..MaxChanges
    /\ refreshes \in Nat /\ owed \in BOOLEAN
    /\ resources \in None..MaxChanges /\ newest \in Readers \cup {"none"}
    /\ task \in [Tasks -> [pc: {"off", "call", "busyRead", "whenIdle", "read", "apply", "follow", "following"},
                          epoch: None..MaxChanges, read: ReadsMade, outer: BOOLEAN]]
    /\ window \in [pc: {"off", "window", "recovery"}, read: ReadsMade] /\ chosen \subseteq Ids
    /\ \A b \in {stale, dirty, timer, refreshing, ready, follows, turn, disposed} : b \in BOOLEAN

\* A revocation is seen by the next call: from the moment the change is
\* announced until the inventory has been read from the new catalog, no
\* reader that began before it, in whatever order the answers arrive, can
\* get a call through (invalidate, refreshInventory).
RevocationHolds == \A id \in Ids : Allows(id) => \E v \in seen..version : id \in Offer[v]

\* The denial is never permanent: an agent that is ready and not refreshed
\* has a retry armed, or a call that will end in one, whatever failed,
\* overtook or overlapped what (scheduleRetry, refreshAgent, recover); a
\* disposed service arms nothing.
ComingBack ==
    \/ timer \/ refreshes > 0 \/ \E t \in Tasks : task[t] # NoTask
    \/ commit.kind = "recover" \/ window.pc = "recovery"
NobodyAbandoned ==
    /\ dirty /\ ready => ComingBack
    /\ stale => dirty
    /\ disposed => ~timer

\* Every agent that stays ready ends up with a current inventory.
Heals == <>[](disposed \/ ~ready \/ (~stale /\ ~dirty))

\* A default capture follows the catalog: once the agent is clean, every row
\* the catalog offers has joined it.  Violated: a capture read before the
\* change and committed after it leaves the agent clean.
DefaultFollowsCatalog ==
    ready /\ follows /\ ~dirty /\ ~stale /\ commit = NoCommit /\ ~owed => Offer[version] \subseteq chosen
=============================================================================
