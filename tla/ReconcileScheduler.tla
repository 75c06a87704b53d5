------------------------ MODULE ReconcileScheduler ------------------------
(* What stands between a change and the pass that serves it: the catalog's  *)
(* loop of derived refreshes, which absorbs the changes that land while it  *)
(* runs, and behind it the scheduler, whose passes other callers join too.  *)
(* What a pass reads is a version per input: the enabled suites and the     *)
(* declarations, read side by side, and the secrets its mounts use.         *)
(* Definitions carry the scheduler's name where the catalog's have one too, *)
(* so that one module can speak of both.                                    *)
EXTENDS Integers

CONSTANTS
    MaxChanges,    \* bound on changes of the catalog
    MaxUpdates     \* bound on updates of credentials

ASSUME BoundsAssumption == MaxChanges \in Nat /\ MaxUpdates \in Nat

VARIABLES
    version,         \* the newest version of each input
    refreshing,      \* the loop of derived refreshes is running (refreshPass)
    refreshQueued,   \* a change landed since its last round began
    armed,           \* the debounce of credential updates
    requested,       \* the follow-up the scheduler remembers
    reconciling,     \* the pass: where it is, and what it has read
    applied,         \* what the last pass put into force of each input
    rejected,        \* the last pass to end has rejected
    disposed

scheduler == <<requested, reconciling>>
schedulerVars == <<version, refreshing, refreshQueued, armed, requested, reconciling, applied, rejected, disposed>>

Inputs == {"suites", "declarations", "secrets"}
Unread == -1
Blank == [i \in Inputs |-> Unread]
NewPass == [at |-> "reading", read |-> Blank]
NoPass == [at |-> "idle", read |-> Blank]

\* Activation requests the first pass.
SchedulerInit ==
    /\ version = [i \in Inputs |-> 0] /\ applied = Blank
    /\ refreshing = FALSE /\ refreshQueued = FALSE /\ armed = FALSE
    /\ requested = FALSE /\ reconciling = NewPass
    /\ rejected = FALSE /\ disposed = FALSE

-----------------------------------------------------------------------------
(* request                                                                  *)

\* Mutant: joins the pass in flight and forgets the follow-up.
JoinOnly ==
    /\ requested' = FALSE
    /\ reconciling' = IF ~disposed /\ reconciling.at = "idle" THEN NewPass ELSE reconciling

\* Joins the pass in flight and remembers one follow-up, or starts a pass.
Request ==
    \/ disposed /\ UNCHANGED scheduler
    \/ ~disposed /\ reconciling.at = "idle" /\ requested' = FALSE /\ reconciling' = NewPass
    \/ ~disposed /\ reconciling.at # "idle" /\ requested' = TRUE /\ UNCHANGED reconciling

\* A mutation of the catalog ends in notifyChanged; scheduleRefresh queues a
\* round of the loop, or starts the loop, which requests a pass at once.
CatalogChanges ==
    /\ version["suites"] < MaxChanges
    /\ version' = [version EXCEPT !["suites"] = @ + 1, !["declarations"] = @ + 1]
    /\ IF refreshing
       THEN refreshQueued' = TRUE /\ UNCHANGED <<refreshing, scheduler>>
       ELSE refreshing' = TRUE /\ Request /\ UNCHANGED refreshQueued
    /\ UNCHANGED <<armed, applied, rejected, disposed>>

\* Settings and resource filters run the change pipeline themselves.
PolicyChanges ==
    /\ version["suites"] < MaxChanges
    /\ version' = [version EXCEPT !["suites"] = @ + 1]
    /\ Request
    /\ UNCHANGED <<refreshing, refreshQueued, armed, applied, rejected, disposed>>

\* Mutant: the last round looks no further.
RoundEndsLoop ==
    /\ refreshing /\ refreshing' = FALSE /\ refreshQueued' = FALSE
    /\ UNCHANGED <<version, scheduler, armed, applied, rejected, disposed>>

\* A round of the loop ends: its stages have settled or run out of time, so
\* its pass may still be running.
RoundEnds ==
    /\ refreshing
    /\ IF refreshQueued
       THEN refreshQueued' = FALSE /\ Request /\ UNCHANGED refreshing
       ELSE refreshing' = FALSE /\ UNCHANGED <<refreshQueued, scheduler>>
    /\ UNCHANGED <<version, armed, applied, rejected, disposed>>

CredentialUpdated ==
    /\ ~disposed /\ version["secrets"] < MaxUpdates
    /\ version' = [version EXCEPT !["secrets"] = @ + 1]
    /\ armed' = TRUE
    /\ UNCHANGED <<refreshing, refreshQueued, scheduler, applied, rejected, disposed>>

FlushCredentialUpdates ==
    /\ armed /\ armed' = FALSE
    /\ Request
    /\ UNCHANGED <<version, refreshing, refreshQueued, applied, rejected, disposed>>

-----------------------------------------------------------------------------
(* reconcileOnce                                                            *)

\* The inputs are read in no particular order: the suites and declarations
\* before they are published, the secrets while the servers are mounted.
Readable == IF reconciling.at = "reading" THEN {"suites", "declarations"} ELSE {"secrets"}
Reads(i) ==
    /\ reconciling.at # "idle" /\ i \in Readable /\ reconciling.read[i] = Unread
    /\ reconciling' = [reconciling EXCEPT !.read[i] = version[i]]
    /\ UNCHANGED <<version, refreshing, refreshQueued, armed, requested, applied, rejected, disposed>>

\* The loop of one pass: over, or again if a follow-up was requested.
EndOrRepeat ==
    IF requested /\ ~disposed
    THEN requested' = FALSE /\ reconciling' = NewPass
    ELSE reconciling' = NoPass /\ UNCHANGED requested

\* Mutants: publishes as soon as one read is there, or after disposal.
PublishesFirst ==
    /\ reconciling.at = "reading" /\ \E i \in Inputs : reconciling.read[i] # Unread
    /\ reconciling' = [reconciling EXCEPT !.at = "mounting"]
    /\ applied' = [reconciling.read EXCEPT !["secrets"] = applied["secrets"]]
    /\ UNCHANGED <<version, refreshing, refreshQueued, armed, requested, rejected, disposed>>
PublishesAlways ==
    /\ reconciling.at = "reading" /\ \A i \in Inputs \ {"secrets"} : reconciling.read[i] # Unread
    /\ reconciling' = [reconciling EXCEPT !.at = "mounting"]
    /\ applied' = [reconciling.read EXCEPT !["secrets"] = applied["secrets"]]
    /\ UNCHANGED <<version, refreshing, refreshQueued, armed, requested, rejected, disposed>>

Publishes ==
    /\ reconciling.at = "reading" /\ \A i \in Inputs \ {"secrets"} : reconciling.read[i] # Unread
    /\ IF disposed
       THEN EndOrRepeat /\ UNCHANGED applied
       ELSE /\ reconciling' = [reconciling EXCEPT !.at = "mounting"]
            /\ applied' = [reconciling.read EXCEPT !["secrets"] = applied["secrets"]]
            /\ UNCHANGED requested
    /\ UNCHANGED <<version, refreshing, refreshQueued, armed, rejected, disposed>>

Mounts ==
    /\ reconciling.at = "mounting" /\ reconciling.read["secrets"] # Unread
    /\ applied' = [applied EXCEPT !["secrets"] = reconciling.read["secrets"]]
    /\ rejected' = FALSE
    /\ EndOrRepeat
    /\ UNCHANGED <<version, refreshing, refreshQueued, armed, disposed>>

\* A read fails, or the reconciler rejects: the error leaves the loop of the
\* pass, whatever was requested meanwhile.
Rejects ==
    /\ reconciling.at # "idle"
    /\ reconciling' = NoPass /\ rejected' = TRUE
    /\ UNCHANGED <<version, refreshing, refreshQueued, armed, requested, applied, disposed>>

Dispose ==
    /\ ~disposed /\ disposed' = TRUE
    /\ armed' = FALSE
    /\ UNCHANGED <<version, refreshing, refreshQueued, scheduler, applied, rejected>>

PassStep == (\E i \in Inputs : Reads(i)) \/ Publishes \/ Mounts
SchedulerNext ==
    \/ CatalogChanges \/ PolicyChanges \/ RoundEnds \/ CredentialUpdated \/ FlushCredentialUpdates
    \/ PassStep \/ Rejects \/ Dispose

SchedulerSpec == SchedulerInit /\ [][SchedulerNext]_schedulerVars

\* The event loop resumes every continuation, reads and mounts end, and
\* armed timers fire.
FairScheduler ==
    /\ SchedulerSpec
    /\ WF_schedulerVars(PassStep) /\ WF_schedulerVars(RoundEnds) /\ WF_schedulerVars(FlushCredentialUpdates)

-----------------------------------------------------------------------------
InputVersions == [Inputs -> Int]
Passes == [at: {"idle", "reading", "mounting"}, read: InputVersions]

\* The scheduler's state keeps its types; nothing is published half read.
SchedulerType ==
    /\ version \in InputVersions /\ applied \in InputVersions
    /\ refreshing \in BOOLEAN /\ refreshQueued \in BOOLEAN /\ armed \in BOOLEAN
    /\ requested \in BOOLEAN /\ rejected \in BOOLEAN /\ disposed \in BOOLEAN
    /\ reconciling \in Passes
    /\ reconciling.at = "mounting" => Unread \notin {reconciling.read["suites"], reconciling.read["declarations"]}

\* No change is lost between the two loops and the debounce: once they are
\* at rest, what is served is the newest version of every input, including
\* changes that landed while a pass was half way through its reads; only a
\* pass that rejected, and was logged, may have left something behind.
AtRest == ~refreshing /\ ~armed /\ reconciling.at = "idle"
RestServesNewest == AtRest /\ ~rejected /\ ~disposed => applied = version

\* request() remembers one follow-up for the pass in flight.  Violated: when
\* that pass rejects, the follow-up that was remembered is never run.
FollowUpRemembered == requested /\ ~disposed => reconciling.at # "idle"

\* After disposal nothing is published, neither by the pass in flight nor by
\* a follow-up, a debounce or a round of the catalog (ReconcileScheduler.dispose).
DisposedPublishesNothing ==
    [][disposed => \A i \in {"suites", "declarations"} : applied'[i] = applied[i]]_schedulerVars

\* Every change is served in the end, unless the scheduler was disposed or
\* its last pass has rejected.
CatchesUp == <>[](applied = version \/ rejected \/ disposed)
=============================================================================
