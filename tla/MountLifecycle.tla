--------------------------- MODULE MountLifecycle ---------------------------
(***************************************************************************)
(* The pass queue and the bounded retry schedule that the registries of    *)
(* mounted servers share                                                   *)
(* (market-runtime/src/runtime/core/mount-lifecycle.ts).  A registry adds  *)
(* what one of its passes does, and what "a pass for this input" is.       *)
(***************************************************************************)
EXTENDS Naturals, Sequences

CONSTANTS
    Keys,          \* mount keys: one server of one suite each
    MaxAttempts    \* retries of one failing mount before it is given up

ASSUME AttemptsAssumption == MaxAttempts \in Nat \ {0}

VARIABLES
    queue,         \* SerialPassQueue: the passes that have not started
    timers,        \* keys with a retry timer pending
    attempts       \* failures of each key since it was last settled

NoAttempts == [k \in Keys |-> 0]
LifecycleInit == queue = <<>> /\ timers = {} /\ attempts = NoAttempts
LifecycleType(passes) ==
    /\ queue \in Seq(passes)
    /\ timers \subseteq Keys /\ attempts \in [Keys -> 0..MaxAttempts + 1]
    /\ \A k \in timers : attempts[k] \in 1..MaxAttempts

\* run: behind the pass in flight, whatever became of that one.
Queue(pass) == queue' = Append(queue, pass)

GaveUp(k) == attempts[k] > MaxAttempts

\* schedule: every failed key uses up one attempt, and has a timer while there
\* are attempts left.  settle, and schedule without a reason: the key's timer
\* and its budget are dropped.
Retry(failed, settled) ==
    /\ attempts' = [k \in Keys |-> IF k \in settled THEN 0
                                   ELSE IF k \in failed /\ ~GaveUp(k) THEN attempts[k] + 1
                                   ELSE attempts[k]]
    /\ timers' = (timers \ (settled \cup failed)) \cup {k \in failed : attempts[k] < MaxAttempts}
Schedule(k) == Retry({k}, {})
Settle(k) == Retry({}, {k})

\* A timer fires: the registry replays the input it saw last.
Fires(k, replay) ==
    /\ k \in timers /\ timers' = timers \ {k}
    /\ Queue(replay)
    /\ UNCHANGED attempts

\* clear: after a disposal.
Clear == timers' = {} /\ attempts' = NoAttempts
=============================================================================
