---------------------------- MODULE SharedDemand ----------------------------
(* The process-wide reconciler of shared services: which MCP and LSP        *)
(* servers are mounted for the catalog's global base and for the selections *)
(* of the live sessions.  Sessions stage their demand, take a receipt, and  *)
(* commit it or roll it back; catalog passes and the passes of all sessions *)
(* run one at a time through a single queue.                                *)
(*                                                                          *)
(* An Id is one mountable server.  A pass is split at its await: PassStart   *)
(* fixes what should be mounted, PassEnd is the adapters' answer.           *)
EXTENDS Naturals, Sequences, FiniteSets

CONSTANTS
    Owners,      \* sessions (the agent objects that key their demand)
    Ids,         \* server identities
    Direct,      \* the directly configured LSP servers among them
    Catalogs,    \* what a catalog read may offer: [offered, base]
    Selections,  \* what a session may ask for
    Calls,       \* calls of stageSessionDemand
    OwnerOf,     \* the session that makes each call
    NoCall,
    Leavers,     \* sessions whose agent may be disposed
    MaxChanges,  \* bound on changes of the catalog and of the user's switches, and
                 \* on agents that leave, together
    MaxToggles,  \* bound on the user switching servers on or off among them
    MaxFaults    \* bound on mounts, unmounts and reads that fail

ASSUME DirectAssumption == IsFiniteSet(Ids) /\ Direct \subseteq Ids
ASSUME CatalogsAssumption ==
    Catalogs # {} /\ Catalogs \subseteq [offered: SUBSET (Ids \ Direct), base: SUBSET (Ids \ Direct)]
ASSUME SelectionsAssumption == Selections \subseteq SUBSET Ids
ASSUME CallsAssumption == OwnerOf \in [Calls -> Owners] /\ NoCall \notin Calls
ASSUME LeaversAssumption == Leavers \subseteq Owners
ASSUME BoundsAssumption == MaxChanges \in Nat /\ MaxToggles \in Nat /\ MaxFaults \in Nat

VARIABLES
    authority,   \* the validated catalog, or NoCatalog before the first read
    epoch,       \* its version
    catalog,     \* the catalog on disk
    off,         \* servers the user's switches keep out of the base
    requested,   \* the scheduler owes a catalog pass
    calls,       \* the stage calls, their tokens and receipts
    staged,      \* the token each session has staged
    committed,   \* the token each session has committed
    queue,       \* sharedQueue: jobs not yet started
    running,     \* the job at its head, with the plan of its pass
    mounted,     \* servers the adapters have mounted
    failed,      \* servers the last pass could not mount
    passEpoch,   \* catalog version of the last finished pass
    gone,        \* disposed agents
    disposal,    \* "no", "draining", "drained"
    budget       \* bounded counters of the environment

sessions == <<calls, staged, committed>>
passes == <<running, mounted, failed, passEpoch>>
world == <<catalog, off, gone>>
vars == <<authority, epoch, catalog, off, requested, calls, staged, committed,
          queue, running, mounted, failed, passEpoch, gone, disposal, budget>>

NoCatalog == [offered |-> {}, base |-> {}, missing |-> TRUE]
Job(kind, who) == [kind |-> kind, who |-> who]
Disturbances == budget.changes + budget.toggles + Cardinality(gone)
Idle == [job |-> Job("none", NoCall), epoch |-> 0, plan |-> {}, live |-> FALSE]
Disposed == disposal # "no"

\* Identities the catalog offers to sessions; direct servers bypass it.
Offered == authority.offered \cup Direct
\* The global base: enabled servers that are still validly declared.
BaseOf(a) == (a.base \cap a.offered) \cup Direct

IdsOf(c) == IF c = NoCall THEN {} ELSE calls[c].ids
Readied == {staged[o] : o \in Owners} \cap {k \in Calls : calls[k].ready}
\* Mutant: a committed selection no longer counts.
DemandStagedOnly == UNION {IdsOf(c) : c \in Readied}
\* Identities that sessions have committed, or staged and are activating.
Demand == (UNION {IdsOf(committed[o]) : o \in Owners}) \cup (UNION {IdsOf(c) : c \in Readied})
Wanted == (BaseOf(authority) \ off) \cup (Demand \cap Offered)

\* The token in force for a call; a revoked receipt has none.
InForce(c) == calls[c].active /\ staged[OwnerOf[c]] = c
Unsettled(c) == calls[c].pc \notin {"none", "done"}

-----------------------------------------------------------------------------
NewCall == [pc |-> "none", ids |-> {}, active |-> FALSE, ready |-> FALSE,
            mounts |-> FALSE, epoch |-> 0, read |-> NoCatalog, seen |-> {}, covered |-> {}]
Done == [NewCall EXCEPT !.pc = "done"]

Init ==
    /\ authority = NoCatalog /\ epoch = 0
    /\ catalog \in Catalogs /\ off = {} /\ requested = TRUE
    /\ calls = [c \in Calls |-> NewCall]
    /\ staged = [o \in Owners |-> NoCall]
    /\ committed = [o \in Owners |-> NoCall]
    /\ queue = <<>> /\ running = Idle
    /\ mounted = {} /\ failed = {} /\ passEpoch = 0
    /\ gone = {} /\ disposal = "no"
    /\ budget = [changes |-> 0, toggles |-> 0, faults |-> 0]

Enqueue(jobs) == queue' = queue \o jobs

\* setCatalogAuthority: the version moves only when the content does.
Publish(c) ==
    /\ authority' = c
    /\ epoch' = IF authority = c THEN epoch ELSE epoch + 1

\* Mutant: nobody queues the awaited cleanup.
WithdrawWaiting(c, mounts, rest) ==
    /\ calls' = [calls EXCEPT ![c] = IF mounts THEN [NewCall EXCEPT !.pc = "cleaning"] ELSE Done]
    /\ staged' = [staged EXCEPT ![OwnerOf[c]] = NoCall]
    /\ queue' = rest
\* A withdrawn token is unstaged; what its pass mounted is unmounted by a
\* pass of its own, which the caller awaits.
Withdraw(c, mounts, rest) ==
    /\ calls' = [calls EXCEPT ![c] = IF mounts THEN [NewCall EXCEPT !.pc = "cleaning"] ELSE Done]
    /\ staged' = [staged EXCEPT ![OwnerOf[c]] = NoCall]
    /\ queue' = rest \o (IF mounts THEN <<Job("cleanup", c)>> ELSE <<>>)

-----------------------------------------------------------------------------
(* The stage call of a session's transaction                                *)

\* applySelection reads the catalog for the new selection.  A session runs
\* one transaction at a time.
Apply(c) ==
    /\ calls[c].pc = "none" /\ OwnerOf[c] \notin gone
    /\ \A k \in Calls : OwnerOf[k] = OwnerOf[c] => ~Unsettled(k)
    /\ \E ids \in Selections :
          /\ ids \subseteq catalog.offered \cup Direct
          /\ calls' = [calls EXCEPT ![c] = [NewCall EXCEPT !.pc = "applying", !.ids = ids, !.read = catalog]]
    /\ UNCHANGED <<authority, epoch, world, requested, staged, committed, queue, passes, disposal, budget>>

\* Its own read seeds the authority only if nothing was published; then the
\* call claims the session's staging slot.
StageBegin(c) ==
    LET o == OwnerOf[c] IN
    /\ calls[c].pc = "applying"
    /\ IF authority = NoCatalog /\ ~Disposed
       THEN Publish(calls[c].read)
       ELSE UNCHANGED <<authority, epoch>>
    /\ IF Disposed \/ staged[o] # NoCall \/ ~(calls[c].ids \subseteq authority'.offered \cup Direct)
       THEN /\ calls' = [calls EXCEPT ![c] = Done]
            /\ UNCHANGED staged
       ELSE /\ calls' = [calls EXCEPT ![c].pc = "reading", ![c].active = TRUE,
                                      ![c].epoch = epoch', ![c].read = NoCatalog]
            /\ staged' = [staged EXCEPT ![o] = c]
    /\ UNCHANGED <<world, requested, committed, queue, passes, disposal, budget>>

\* The awaited reads of overrides and disabled providers.
StageRead(c) ==
    /\ calls[c].pc = "reading"
    /\ calls' = [calls EXCEPT ![c].pc = "classifying", ![c].seen = off]
    /\ UNCHANGED <<authority, epoch, world, requested, staged, committed, queue, passes, disposal, budget>>

StageReadFails(c) ==
    /\ calls[c].pc = "reading" /\ budget.faults < MaxFaults
    /\ Withdraw(c, FALSE, queue)
    /\ budget' = [budget EXCEPT !.faults = @ + 1]
    /\ UNCHANGED <<authority, epoch, world, requested, committed, passes, disposal>>

\* Mutant: what happens to be mounted counts as kept by the base.
CoveredByMounts(c) == calls[c].ids \cap mounted
\* Identities the base keeps mounted need no activation.
CoveredIds(c) == calls[c].ids \cap (BaseOf(authority) \ calls[c].seen)
Needed(c) == calls[c].ids \ calls[c].covered

StageReady(c) ==
    /\ calls[c].pc = "classifying"
    /\ IF calls[c].epoch # epoch \/ ~InForce(c) \/ Disposed
       THEN Withdraw(c, FALSE, queue)
       ELSE LET activate == ~(calls[c].ids \subseteq CoveredIds(c)) IN
            /\ calls' = [calls EXCEPT ![c].ready = TRUE, ![c].covered = CoveredIds(c), ![c].seen = {},
                                      ![c].pc = IF activate THEN "activating" ELSE "held"]
            /\ Enqueue(IF activate THEN <<Job("activate", c)>> ELSE <<>>)
            /\ UNCHANGED staged
    /\ UNCHANGED <<authority, epoch, world, requested, committed, passes, disposal, budget>>

\* The release of an agent that was disposed has not run yet.
Leaving(o) == \E k \in 1..Len(queue) : queue[k] = Job("release", o)
\* The transaction reaches its receipt.  A transaction whose agent is disposed
\* before its last flush finds its checkpoint gone and fails; one whose agent is
\* disposed during that flush commits, before its release or without effect.
Durable(o) == o \notin gone \/ Leaving(o)

\* Mutant: servers the session gave up are left to the next pass.
CommitOnly(c) ==
    LET o == OwnerOf[c] IN
    /\ calls[c].pc = "held" /\ Durable(o)
    /\ InForce(c) /\ ~Disposed
    /\ committed' = [committed EXCEPT ![o] = c]
    /\ staged' = [staged EXCEPT ![o] = NoCall]
    /\ calls' = [calls EXCEPT ![c] = [Done EXCEPT !.ids = calls[c].ids, !.covered = calls[c].covered]]
    /\ UNCHANGED <<authority, epoch, world, requested, queue, passes, disposal, budget>>
\* The receipt's commit, called once the session's log is durable.
Commit(c) ==
    LET o == OwnerOf[c] IN
    /\ calls[c].pc = "held" /\ Durable(o)
    /\ IF InForce(c) /\ ~Disposed
       THEN /\ committed' = [committed EXCEPT ![o] = c]
            /\ staged' = [staged EXCEPT ![o] = NoCall]
            /\ calls' = [calls EXCEPT ![c] = [Done EXCEPT !.ids = calls[c].ids, !.covered = calls[c].covered]]
            /\ Enqueue(IF IdsOf(committed[o]) \subseteq calls[c].ids THEN <<>> ELSE <<Job("pass", NoCall)>>)
       ELSE /\ calls' = [calls EXCEPT ![c] = Done]
            /\ UNCHANGED <<committed, staged, queue>>
    /\ UNCHANGED <<authority, epoch, world, requested, passes, disposal, budget>>

\* The receipt's rollback, called when the session's transaction fails.
Rollback(c) ==
    /\ calls[c].pc = "held"
    /\ IF InForce(c)
       THEN Withdraw(c, calls[c].mounts,
                     IF ~calls[c].mounts /\ calls[c].ids # {} THEN Append(queue, Job("pass", NoCall)) ELSE queue)
       ELSE /\ calls' = [calls EXCEPT ![c] = Done]
            /\ UNCHANGED <<staged, queue>>
    /\ UNCHANGED <<authority, epoch, world, requested, committed, passes, disposal, budget>>

\* The host disposes an agent: its demand is released behind the queue.
AgentGone(o) ==
    /\ o \in Leavers \ gone /\ Disturbances < MaxChanges
    /\ gone' = gone \cup {o}
    /\ Enqueue(<<Job("release", o)>>)
    /\ UNCHANGED <<authority, epoch, catalog, off, requested, sessions, passes, disposal, budget>>

-----------------------------------------------------------------------------
(* Passes of the shared queue                                               *)

\* reconcileShared up to its await.  A disposed reconciler mounts nothing.
Pass(job) == running' = [job |-> job, epoch |-> epoch, plan |-> Wanted', live |-> ~Disposed]

PassStart ==
    /\ queue # <<>> /\ running = Idle /\ Head(queue).kind # "drain"
    /\ LET job == Head(queue)
           c == job.who IN
       \* an activation projects its identities again before it mounts them
       /\ job.kind = "activate" => calls[c].ids \subseteq Offered
       /\ IF job.kind = "release"
          THEN /\ calls' = [k \in Calls |-> [calls[k] EXCEPT !.active = @ /\ staged[c] # k]]
               /\ staged' = [staged EXCEPT ![c] = NoCall]
               /\ committed' = [committed EXCEPT ![c] = NoCall]
          ELSE /\ calls' = IF job.kind = "activate" THEN [calls EXCEPT ![c].mounts = TRUE] ELSE calls
               /\ UNCHANGED <<staged, committed>>
       /\ UNCHANGED <<authority, epoch, world, requested, mounted, failed, passEpoch, disposal, budget>>
       /\ queue' = Tail(queue)
       /\ Pass(job)

ActivationRefused ==
    /\ queue # <<>> /\ running = Idle
    /\ Head(queue).kind = "activate"
    /\ LET c == Head(queue).who IN
       /\ ~(calls[c].ids \subseteq Offered)
       /\ Withdraw(c, FALSE, Tail(queue))
    /\ UNCHANGED <<authority, epoch, world, requested, committed, passes, disposal, budget>>

\* What the adapters leave mounted when the servers in "broken" refuse to
\* start or to stop.
Landed(plan, broken) == (plan \ (broken \ mounted)) \cup (broken \cap (mounted \ plan))

\* The adapters answered.  A pass whose catalog moved meanwhile owes another
\* one; then the job goes on: an activation must own what it asked for.
PassEnd ==
    /\ running # Idle
    /\ \E broken \in SUBSET Ids :
       /\ Cardinality(broken) + budget.faults <= MaxFaults
       /\ broken # {} => running.live /\ broken \subseteq (running.plan \ mounted) \cup (mounted \ running.plan)
       /\ budget' = [budget EXCEPT !.faults = @ + Cardinality(broken)]
       /\ mounted' = IF running.live THEN Landed(running.plan, broken) ELSE mounted
       /\ failed' = IF running.live THEN running.plan \ mounted' ELSE failed
       /\ passEpoch' = IF running.live THEN running.epoch ELSE passEpoch
    /\ LET job == running.job
           rest == IF running.live /\ ~Disposed /\ running.epoch # epoch
                   THEN Append(queue, Job("pass", NoCall)) ELSE queue IN
       CASE job.kind = "activate" /\ (Disposed \/ ~(Needed(job.who) \subseteq mounted')) ->
               Withdraw(job.who, TRUE, rest)
         [] job.kind = "activate" /\ ~Disposed /\ Needed(job.who) \subseteq mounted' ->
               /\ calls' = [calls EXCEPT ![job.who].pc = "held"]
               /\ queue' = rest /\ UNCHANGED staged
         [] job.kind = "cleanup" ->
               /\ calls' = [calls EXCEPT ![job.who] = Done]
               /\ queue' = rest /\ UNCHANGED staged
         [] OTHER -> queue' = rest /\ UNCHANGED <<calls, staged>>
    /\ running' = Idle
    /\ UNCHANGED <<authority, epoch, world, requested, committed, disposal>>

-----------------------------------------------------------------------------
(* The catalog owner                                                        *)

\* A source is added, updated or removed, or a suite is enabled or disabled.
CatalogChanges ==
    /\ Disturbances < MaxChanges
    /\ catalog' \in Catalogs \ {catalog}
    /\ requested' = TRUE
    /\ budget' = [budget EXCEPT !.changes = @ + 1]
    /\ UNCHANGED <<authority, epoch, off, sessions, queue, passes, gone, disposal>>

\* The user switches one server of the base off or on: an override that no
\* catalog row carries.
Toggle(i) ==
    /\ budget.toggles < MaxToggles /\ Disturbances < MaxChanges
    /\ off' = IF i \in off THEN off \ {i} ELSE off \cup {i}
    /\ requested' = TRUE
    /\ budget' = [budget EXCEPT !.toggles = @ + 1]
    /\ UNCHANGED <<authority, epoch, catalog, sessions, queue, passes, gone, disposal>>

\* One scheduler pass at a time: publish what was read and queue the pass.
RefreshCatalog ==
    /\ requested /\ ~Disposed
    /\ \A k \in 1..Len(queue) : queue[k].kind # "refresh"
    /\ running.job.kind # "refresh"
    /\ requested' = FALSE
    /\ Publish(catalog)
    /\ Enqueue(<<Job("refresh", NoCall)>>)
    /\ UNCHANGED <<world, sessions, passes, disposal, budget>>

\* dispose revokes every receipt, then waits for the queue.
Dispose ==
    /\ ~Disposed
    /\ disposal' = "draining"
    /\ calls' = [c \in Calls |-> [calls[c] EXCEPT !.active = @ /\ staged[OwnerOf[c]] # c]]
    /\ staged' = [o \in Owners |-> NoCall]
    /\ committed' = [o \in Owners |-> NoCall]
    /\ Enqueue(<<Job("drain", NoCall)>>)
    /\ UNCHANGED <<authority, epoch, world, requested, passes, budget>>

\* The adapters dispose every mount; one that will not stop stays.
Drain ==
    /\ queue # <<>> /\ running = Idle /\ Head(queue).kind = "drain"
    /\ queue' = Tail(queue)
    /\ disposal' = "drained"
    /\ \E broken \in SUBSET mounted :
       /\ Cardinality(broken) + budget.faults <= MaxFaults
       /\ mounted' = broken
       /\ budget' = [budget EXCEPT !.faults = @ + Cardinality(broken)]
    /\ UNCHANGED <<authority, epoch, world, requested, sessions, running, failed, passEpoch>>

Next ==
    \/ \E c \in Calls : Apply(c) \/ StageBegin(c) \/ StageRead(c) \/ StageReadFails(c) \/ StageReady(c)
                        \/ Commit(c) \/ Rollback(c)
    \/ \E o \in Owners : AgentGone(o)
    \/ PassStart \/ ActivationRefused \/ PassEnd
    \/ CatalogChanges \/ RefreshCatalog \/ Dispose \/ Drain
    \/ \E i \in Ids : Toggle(i)

Spec == Init /\ [][Next]_vars
-----------------------------------------------------------------------------
CallTypes == [pc: {"none", "applying", "reading", "classifying", "activating", "held", "cleaning", "done"},
              ids: SUBSET Ids, active: BOOLEAN, ready: BOOLEAN, mounts: BOOLEAN, epoch: Nat,
              read: Catalogs \cup {NoCatalog}, seen: SUBSET Ids, covered: SUBSET Ids]
JobTypes == [kind: {"none", "activate", "cleanup", "release", "pass", "refresh", "drain"},
             who: Calls \cup Owners \cup {NoCall}]

\* The state of the reconciler, its receipts and its queue keep their types;
\* a staged or committed token belongs to the session it is filed under, and is
\* active exactly while it is staged.
TypeOK ==
    /\ authority \in Catalogs \cup {NoCatalog} /\ catalog \in Catalogs
    /\ epoch \in Nat /\ passEpoch \in Nat /\ requested \in BOOLEAN
    /\ calls \in [Calls -> CallTypes]
    /\ staged \in [Owners -> Calls \cup {NoCall}] /\ committed \in [Owners -> Calls \cup {NoCall}]
    /\ queue \in Seq(JobTypes)
    /\ running \in [job: JobTypes, epoch: Nat, plan: SUBSET Ids, live: BOOLEAN]
    /\ off \in SUBSET Ids /\ mounted \in SUBSET Ids /\ failed \in SUBSET Ids /\ gone \in SUBSET Owners
    /\ disposal \in {"no", "draining", "drained"}
    /\ budget \in [changes: 0..MaxChanges, toggles: 0..MaxToggles, faults: 0..MaxFaults]
    /\ \A o \in Owners : \A c \in {staged[o], committed[o]} \cap Calls :
          OwnerOf[c] = o /\ calls[c].active = (staged[o] = c)

\* A pass for the current catalog version has finished.
CaughtUp == passEpoch = epoch
\* Nothing is queued, running or requested.
Quiet == queue = <<>> /\ running = Idle /\ ~requested /\ ~Disposed

\* A receipt that is held in force or committed backs its identities: once a
\* pass has caught up with the catalog, every server it had to activate and
\* the catalog still offers is mounted, whatever other sessions staged,
\* rolled back or released meanwhile (SessionDemandReceipt).
Backing(c) == (calls[c].pc = "held" /\ InForce(c)) \/ committed[OwnerOf[c]] = c
ReceiptBacked ==
    CaughtUp /\ ~Disposed =>
        \A c \in Calls : Backing(c) => Needed(c) \cap Offered \subseteq mounted \cup failed

\* When everything has come to rest, the base and the demand of the live
\* sessions are mounted.  (Not after a switch: DemandOutranksToggle.)
RestServes ==
    Quiet /\ budget.toggles = 0 => /\ Wanted \ failed \subseteq mounted
                                  /\ failed \cap mounted = {}

\* Nothing stays behind: at rest no server is mounted that nobody wants, and
\* a disposed reconciler holds no demand, whichever receipts are still out,
\* and no server once it has drained.
RestFrees ==
    /\ Quiet /\ budget.faults = 0 => mounted \subseteq Wanted
    /\ Disposed => \A o \in Owners : committed[o] = NoCall /\ staged[o] = NoCall
    /\ disposal = "drained" /\ budget.faults = 0 => mounted = {}

\* A session's committed demand outranks the user's switch: at rest, what it
\* selected is mounted even if the server is switched off meanwhile.
DemandOutranksToggle ==
    Quiet => \A o \in Owners : IdsOf(committed[o]) \cap Offered \subseteq mounted \cup failed

\* A session that gives up or leaves never unmounts a server another session
\* has activated and committed.  (A pass that a newer catalog has overtaken may:
\* it was computed without a server that is offered again, and PassEnd owes
\* the pass that mounts it.)
OthersKeepTheirs ==
    [][\A c \in Calls : committed[OwnerOf[c]] = c /\ ~Disposed /\ running.epoch = epoch
          => (mounted \ mounted') \cap Needed(c) \cap Offered = {}]_vars

\* Nobody is left behind: once the queue has nothing to do, no call waits for
\* an activation or a cleanup, and a disposed agent whose calls have all
\* settled holds no demand.
NobodyStranded ==
    queue = <<>> /\ running = Idle =>
        /\ \A c \in Calls : calls[c].pc \notin {"activating", "cleaning"}
        /\ \A o \in gone : (\A c \in Calls : OwnerOf[c] = o => calls[c].pc \in {"none", "done"})
                            => committed[o] = NoCall /\ staged[o] = NoCall
=============================================================================
