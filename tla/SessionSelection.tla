-------------------------- MODULE SessionSelection --------------------------
(***************************************************************************)
(* ExtensionSessionState for one governed agent                            *)
(* (market-runtime/src/runtime/host/extension-session-state.ts): how the   *)
(* extension selection of a session is captured, changed, requested during *)
(* a turn, promoted at a boundary, recovered after a failure and replayed  *)
(* after a restart.  Agents share nothing in this service, so one agent is *)
(* the whole system.                                                       *)
(*                                                                         *)
(* Three asynchronous activities can write the journal: the session start  *)
(* ("init"), the host's maintenance slot ("maint") and the turn-stopping   *)
(* hook ("stop").  tx[p] is where activity p is in its transaction; each   *)
(* await of commit() is a state in which everything else may move.  The    *)
(* log is the session's in-memory event log, durable the length of its     *)
(* prefix known to be on disk, and a crash keeps any prefix from there on. *)
(***************************************************************************)
EXTENDS SessionJournal, FiniteSets

CONSTANTS
    ForkedLogs,      \* logs a session may start from: empty, or a fork's inherited events
    FollowsCatalog,  \* whether a default capture follows the catalog (refreshAgent)
    MaxLog,          \* bound: no transaction starts on a longer log
    MaxFaults,       \* bound: failed flushes, applies, reads, rollbacks and callbacks
    MaxRestarts      \* bound: crashes and plugin reloads

ASSUME BoundsAssumption ==
    /\ FollowsCatalog \in BOOLEAN
    /\ MaxLog \in Nat /\ MaxFaults \in Nat /\ MaxRestarts \in Nat
ASSUME ForkedLogsAssumption ==
    \A seed \in ForkedLogs : seed \in Seq(Entries) /\ Replayable(seed, Len(seed))
                             /\ \A i \in DOMAIN seed : seed[i].owner = "parent"

VARIABLES
    log, durable, inherited,                    \* the session's event log
    states, unavailable, errors, checkpoint,    \* the published selection and why not
    captured, startFailed,
    intents, intentTurn, chain, req, pai,       \* requests, promotions and their order
    tx,                                         \* the transactions in progress
    turn, entered, parked, driver, boot,        \* the host's side of the agent
    applied,                                    \* what the resource adapter has in effect
    lastAck, turnSel, follows,                  \* history: what was acknowledged and used, and where
                                                \* in the log a follow was committed
    faults, restarts

journal == <<log, durable, inherited>>
published == <<states, unavailable, errors, checkpoint, captured, startFailed>>
requests == <<intents, intentTurn, chain, req, pai>>
host == <<turn, entered, parked, driver, boot>>
history == <<lastAck, turnSel, follows>>
bounds == <<faults, restarts>>
vars == <<journal, published, requests, tx, host, applied, history, bounds>>

Activities == {"init", "maint", "stop"}
NoState == [rev |-> 0, sel |-> NoSel]
NoIntent == [tok |-> 0, sel |-> NoSel]
NoCheckpoint == [latest |-> NoEntry, committed |-> NoEntry, initial |-> NoSel]
NoReq == [pc |-> "none", tok |-> 0, sel |-> NoSel, mark |-> 0]
NoTx == [pc |-> "none", kind |-> "none", rev |-> 0, tok |-> 0, sel |-> NoSel,
         rec |-> NoRec, mark |-> 0, undo |-> NoSel]

Larger(a, b) == IF a >= b THEN a ELSE b
Active(p) == tx[p].pc # "none"
Starts == {"init", "reinit"}   \* a session start, and its retry after a busy attach
Initializing == \E p \in Activities : Active(p) /\ tx[p].kind \in Starts

\* runMaintenance throws while a turn or another maintenance owns the agent.
\* Faulty: maintenance is let in while a turn runs.
SlotFreeInTurn == ~Active("maint")
SlotFree == turn = "none" /\ ~Active("maint")
Room == Len(log) + 2 <= MaxLog

Ready == ~unavailable /\ states # NoState
RecoveryTarget ==
    IF checkpoint.committed # NoEntry THEN checkpoint.committed.sel ELSE checkpoint.initial
Recoverable ==
    /\ ~Ready /\ ~Initializing /\ errors # "corrupt"
    /\ RecoveryTarget # NoSel \/ (errors # "none" /\ captured)
TerminalFailure ==
    /\ ~Initializing /\ startFailed
    /\ errors \notin {"none", "busy", "corrupt"}

\* The public compare-and-swap token: the pending request, else the commit.
\* Faulty: the pending request does not compare.
SelectionRevisionOfCommit ==
    IF checkpoint.committed.owner = "self" THEN checkpoint.committed.tok ELSE states.rev
SelectionRevision ==
    IF intents # NoIntent THEN intents.tok
    ELSE IF checkpoint.committed.owner = "self" THEN checkpoint.committed.tok ELSE states.rev

-----------------------------------------------------------------------------
Init ==
    /\ log \in ForkedLogs /\ inherited = Len(log) /\ durable = Len(log)
    /\ states = NoState /\ unavailable = FALSE /\ errors = "none"
    /\ checkpoint = NoCheckpoint /\ captured = FALSE /\ startFailed = FALSE
    /\ intents = NoIntent /\ intentTurn = "none" /\ chain = "free" /\ req = NoReq /\ pai = {}
    /\ tx = [p \in Activities |-> NoTx]
    /\ turn = "none" /\ entered = FALSE /\ parked = FALSE /\ driver = FALSE /\ boot = "created"
    /\ applied = NoSel /\ lastAck = NoIntent /\ turnSel = NoSel /\ follows = {}
    /\ faults = 0 /\ restarts = 0

-----------------------------------------------------------------------------
(* The steps of one transaction.                                           *)

Fault == faults < MaxFaults /\ faults' = faults + 1 /\ UNCHANGED restarts

\* A binding stores its token only when it differs from its revision.
RequestRevision(binding) == IF binding.tok = binding.rev THEN 0 ELSE binding.tok

\* requestRevision ?? max(revision, what the previous transaction reached + 1)
Token(rev, requested, latest) ==
    IF requested # 0 THEN requested
    ELSE Larger(rev, IF latest.owner = "self" THEN RequestRevision(latest) + 1 ELSE 1)

\* A flush that reports success covers every event up to the injected one.
\* Faulty: the writer goes on without waiting for the disk.
NotFlushed(mark) == UNCHANGED durable
Flushed(mark) == durable' = Larger(durable, mark)

\* The gates deny before a transaction starts.
\* Faulty: the old selection stays readable while the new one is written.
DenyLate == UNCHANGED unavailable
Deny == unavailable' = TRUE

\* commit() up to its first await: number the transaction, inject the pending
\* envelope and remember it as the latest one.
Begin(p, kind, rev, sel, rec, requested, cp) ==
    LET tok == Token(rev, requested, cp.latest)
        binding == Entry("pending", "self", rev, tok, sel, rec)
    IN /\ log' = Append(log, binding)
       /\ checkpoint' = [latest |-> binding, committed |-> cp.committed,
                         initial |-> IF cp.initial = NoSel THEN sel ELSE cp.initial]
       /\ tx' = [tx EXCEPT ![p] = [pc |-> "flushPending", kind |-> kind, rev |-> rev, tok |-> tok,
                                   sel |-> sel, rec |-> rec, mark |-> Len(log) + 1, undo |-> applied]]

\* fail(): deny before anything is unwound.
Fail(code) == unavailable' = TRUE /\ errors' = code

\* The awaiting caller of transaction p sees it settle.  A published selection
\* clears startFailed; a session start that throws sets it.
Answer(p, ok) ==
    /\ tx' = [tx EXCEPT ![p] = NoTx]
    /\ chain' = IF tx[p].kind = "promote" THEN "free" ELSE chain
    /\ req' = IF tx[p].kind = "change" THEN [req EXCEPT !.pc = IF ok THEN "applied" ELSE "refused"] ELSE req
Settle(p, ok) ==
    /\ Answer(p, ok)
    /\ startFailed' = IF ok THEN FALSE ELSE startFailed \/ tx[p].kind \in Starts

\* wake(): only a ready session re-runs the user input it parked.
Wakes(kind) == kind \in {"recover", "promote", "reinit"}

Publish(p) ==
    /\ states' = [rev |-> tx[p].rev, sel |-> tx[p].sel]
    /\ unavailable' = FALSE /\ errors' = "none"
    /\ driver' = (driver \/ (Wakes(tx[p].kind) /\ p = "maint" /\ parked))
    /\ Settle(p, TRUE)

FlushPending(p) ==
    /\ tx[p].pc = "flushPending"
    /\ Flushed(tx[p].mark)
    /\ tx' = [tx EXCEPT ![p].pc = "apply"]
    /\ UNCHANGED <<log, inherited, published, requests, host, applied, history, bounds>>

\* The flush reports failure, or the signal aborts right after it.
FlushPendingFails(p) ==
    /\ tx[p].pc = "flushPending" /\ Fault
    /\ durable' \in {durable, Larger(durable, tx[p].mark)}
    /\ Fail("failed") /\ Settle(p, FALSE)
    /\ UNCHANGED <<log, inherited, states, checkpoint, captured, intents, intentTurn, pai, host, applied, history>>

\* applySelection resolves with its receipt and the committed twin is injected.
Apply(p) ==
    /\ tx[p].pc = "apply"
    /\ LET binding == [checkpoint.latest EXCEPT !.kind = "committed"] IN
       /\ applied' = tx[p].sel
       /\ log' = Append(log, binding)
       /\ checkpoint' = [checkpoint EXCEPT !.latest = binding]
    /\ tx' = [tx EXCEPT ![p].pc = "flushCommitted", ![p].mark = Len(log) + 1]
    /\ follows' = IF tx[p].kind = "follow" THEN follows \cup {Len(log) + 1} ELSE follows
    /\ UNCHANGED <<durable, inherited, states, unavailable, errors, captured, startFailed,
                   requests, host, lastAck, turnSel, bounds>>

\* applySelection rejects, having undone its own work.
ApplyFails(p) ==
    /\ tx[p].pc \in {"apply", "restore"} /\ Fault
    /\ Fail("failed") /\ Settle(p, FALSE)
    /\ UNCHANGED <<journal, states, checkpoint, captured, intents, intentTurn, pai, host, applied, history>>

\* The signal aborts after the effect was applied: deny, then roll back.
ApplyAborted(p) ==
    /\ tx[p].pc \in {"apply", "restore"} /\ Fault
    /\ applied' = tx[p].sel /\ Fail("failed")
    /\ tx' = [tx EXCEPT ![p].pc = "rollback"]
    /\ UNCHANGED <<journal, states, checkpoint, captured, startFailed, requests, host, history>>

FlushCommitted(p) ==
    /\ tx[p].pc = "flushCommitted"
    /\ Flushed(tx[p].mark)
    /\ checkpoint' = [checkpoint EXCEPT !.committed = checkpoint.latest]
    /\ Publish(p)
    /\ UNCHANGED <<log, inherited, captured, intents, intentTurn, pai,
                   turn, entered, parked, boot, applied, history, bounds>>

\* The committed() callback throws after the selection was published: the
\* session is denied, and what is durable or replayed is never rolled back.
CommittedThrows(p) ==
    /\ Fault
    /\ \/ /\ tx[p].pc = "flushCommitted"
          /\ Flushed(tx[p].mark)
          /\ checkpoint' = [checkpoint EXCEPT !.committed = checkpoint.latest]
          /\ UNCHANGED applied
       \/ /\ tx[p].pc = "restore"
          /\ applied' = tx[p].sel
          /\ UNCHANGED <<durable, checkpoint>>
    /\ states' = [rev |-> tx[p].rev, sel |-> tx[p].sel]
    /\ Fail("failed") /\ Answer(p, FALSE)
    /\ startFailed' = (tx[p].kind \in Starts)
    /\ UNCHANGED <<log, inherited, captured, intents, intentTurn, pai, host, history>>

FlushCommittedFails(p) ==
    /\ tx[p].pc = "flushCommitted" /\ Fault
    /\ durable' \in {durable, Larger(durable, tx[p].mark)}
    /\ Fail("failed")
    /\ tx' = [tx EXCEPT ![p].pc = "rollback"]
    /\ UNCHANGED <<log, inherited, states, checkpoint, captured, startFailed, requests, host, applied, history>>

\* rollbackApplied(): a rollback that rejects is only a diagnostic.
Rollback(p) ==
    /\ tx[p].pc = "rollback"
    /\ \/ applied' = tx[p].undo /\ UNCHANGED bounds
       \/ Fault /\ UNCHANGED applied
    /\ Settle(p, FALSE)
    /\ UNCHANGED <<journal, states, unavailable, errors, checkpoint, captured,
                   intents, intentTurn, pai, host, history>>

-----------------------------------------------------------------------------
(* Session start: initialize() and initializeOnce().                       *)

Initialize(p, kind) ==
    /\ ~Ready /\ ~Initializing /\ errors \in {"none", "busy"}
    /\ unavailable' = TRUE /\ errors' = "none"
    /\ tx' = [tx EXCEPT ![p] = [NoTx EXCEPT !.pc = "replay", !.kind = kind]]
    /\ boot' = "none"

\* agent/created: the session starts outside the maintenance slot.
Created ==
    /\ boot = "created"
    /\ Initialize("init", "init")
    /\ UNCHANGED <<journal, states, checkpoint, captured, startFailed, requests,
                   turn, entered, parked, driver, applied, history, bounds>>

\* start(): a reloaded service attaches through the maintenance slot.
Attach ==
    /\ boot \in {"attach", "retry"} /\ SlotFree
    /\ Initialize("maint", IF boot = "retry" THEN "reinit" ELSE "init")
    /\ UNCHANGED <<journal, states, checkpoint, captured, startFailed, requests,
                   turn, entered, parked, driver, applied, history, bounds>>

AttachBusy ==
    /\ boot = "attach" /\ ~SlotFree
    /\ boot' = "retry" /\ errors' = "busy"
    /\ UNCHANGED <<journal, states, unavailable, checkpoint, captured, startFailed, requests,
                   tx, turn, entered, parked, driver, applied, history, bounds>>

CheckpointOf(replayed) ==
    [latest |-> replayed.latest, committed |-> replayed.committed, initial |-> replayed.initial]

\* observeSession answers and the replayed record decides how the session starts.
InitReplay(p) ==
    LET replayed == Replay(log) IN
    /\ tx[p].pc = "replay" /\ tx[p].kind \in Starts
    /\ \/ /\ ~Replayable(log, inherited)
          /\ Fail("corrupt") /\ Settle(p, FALSE)
          /\ UNCHANGED <<log, checkpoint, intents, captured>>
       \/ /\ Replayable(log, inherited) /\ replayed.latest.kind = "pending"
          /\ checkpoint' = CheckpointOf(replayed)
          /\ Fail("incomplete") /\ Settle(p, FALSE)
          /\ UNCHANGED <<log, intents, captured>>
       \/ /\ Replayable(log, inherited) /\ replayed.latest.kind # "pending"
          /\ intents' = IF replayed.intent = NoEntry THEN intents
                        ELSE [tok |-> replayed.intent.tok, sel |-> replayed.intent.sel]
          /\ \/ /\ replayed.latest.owner = "self"
                /\ checkpoint' = CheckpointOf(replayed)
                /\ tx' = [tx EXCEPT ![p] = [@ EXCEPT !.pc = "restore", !.rev = replayed.latest.rev,
                                            !.sel = replayed.latest.sel, !.undo = applied]]
                /\ UNCHANGED <<log, captured>>
             \/ /\ replayed.latest.owner = "parent"
                /\ Begin(p, tx[p].kind, 1, replayed.latest.sel, NoRec, 0, CheckpointOf(replayed))
                /\ UNCHANGED captured
             \/ /\ replayed.latest = NoEntry
                /\ checkpoint' = CheckpointOf(replayed)
                /\ captured' = TRUE
                /\ tx' = [tx EXCEPT ![p].pc = "capture"]
                /\ UNCHANGED log
          /\ UNCHANGED <<unavailable, errors, startFailed, chain, req>>
    /\ UNCHANGED <<durable, inherited, states, intentTurn, pai, host, applied, history, bounds>>

\* The committed selection of an earlier run is applied again and published;
\* nothing is written.
Restore(p) ==
    /\ tx[p].pc = "restore"
    /\ applied' = tx[p].sel
    /\ Publish(p)
    /\ pai' = IF intents # NoIntent THEN pai \cup {"wait"} ELSE pai
    /\ UNCHANGED <<journal, checkpoint, captured, intents, intentTurn,
                   turn, entered, parked, boot, history, bounds>>

ReplayFails(p) ==
    /\ tx[p].pc \in {"replay", "capture"} /\ Fault
    /\ Fail("failed") /\ Settle(p, FALSE)
    /\ UNCHANGED <<journal, states, checkpoint, captured, intents, intentTurn, pai, host, applied, history>>

\* capture(): the adapter names the initial selection, committed as revision 1.
Capture(p) ==
    /\ tx[p].pc = "capture"
    /\ \E sel \in Selections : Begin(p, tx[p].kind, 1, sel, NoRec, 0, checkpoint)
    /\ UNCHANGED <<durable, inherited, states, unavailable, errors, captured, startFailed,
                   requests, host, applied, history, bounds>>

-----------------------------------------------------------------------------
(* Explicit recovery, and the change a catalog refresh makes.              *)

\* A recovery names the transaction it gives up.
\* Faulty: the recovery is written as an ordinary transaction.
RecoveryOfNothing(latest) == NoRec
RecoveryOf(latest) == IF latest = NoEntry THEN NoRec ELSE NamesLatest(latest)

\* recover() with the revision the caller read from status().
Recover ==
    /\ SlotFree /\ Recoverable /\ Room /\ boot = "none"
    /\ tx' = [tx EXCEPT !["maint"] = [NoTx EXCEPT !.pc = "replay", !.kind = "recover",
                                      !.rev = checkpoint.latest.rev]]
    /\ UNCHANGED <<journal, published, requests, host, applied, history, bounds>>

RecoverReplay ==
    LET p == "maint"
        replayed == Replay(log)
        cp == CheckpointOf(replayed)
        target == IF replayed.committed # NoEntry THEN replayed.committed.sel
                  ELSE IF replayed.initial # NoSel THEN replayed.initial ELSE checkpoint.initial
    IN
    /\ tx[p].pc = "replay" /\ tx[p].kind = "recover"
    /\ \/ /\ ~Replayable(log, inherited)
          /\ Fail("corrupt") /\ Settle(p, FALSE)
          /\ UNCHANGED <<log, checkpoint>>
       \/ /\ Replayable(log, inherited) /\ replayed.latest.rev # tx[p].rev
          /\ Fail("conflict") /\ Settle(p, FALSE)
          /\ UNCHANGED <<log, checkpoint>>
       \/ /\ Replayable(log, inherited) /\ replayed.latest.rev = tx[p].rev
          /\ \/ /\ target = NoSel
                /\ checkpoint' = cp
                /\ tx' = [tx EXCEPT ![p].pc = "capture"]
                /\ UNCHANGED log
             \/ /\ target # NoSel
                /\ Begin(p, "recover", NextRevision(replayed.latest, "self"), target,
                         RecoveryOf(replayed.latest), 0, cp)
          /\ UNCHANGED <<unavailable, errors, startFailed, chain, req>>
    /\ UNCHANGED <<durable, inherited, states, captured, intents, intentTurn, pai,
                   host, applied, history, bounds>>

\* refreshAgent(): the catalog gained rows, so the default capture follows it
\* with a change of its own, outside the order of requests.
Follow ==
    /\ FollowsCatalog /\ SlotFree /\ Ready /\ Room
    /\ \E sel \in Selections \ {states.sel} :
          tx' = [tx EXCEPT !["maint"] = [NoTx EXCEPT !.pc = "begin", !.kind = "follow",
                                         !.rev = states.rev, !.sel = sel]]
    /\ UNCHANGED <<journal, published, requests, host, applied, history, bounds>>

\* change() inside its maintenance: compare, deny, and begin.
Change ==
    LET p == "maint" IN
    /\ tx[p].pc = "begin"
    /\ IF Ready /\ states.rev = tx[p].rev
       THEN /\ Deny
            /\ Begin(p, tx[p].kind, states.rev + 1, tx[p].sel, NoRec, tx[p].tok, checkpoint)
            /\ UNCHANGED <<startFailed, chain, req>>
       ELSE /\ tx' = [tx EXCEPT ![p] = NoTx]
            /\ req' = IF tx[p].kind = "change" THEN [req EXCEPT !.pc = "refused"] ELSE req
            /\ UNCHANGED <<log, unavailable, checkpoint, startFailed, chain>>
    /\ UNCHANGED <<durable, inherited, states, errors, captured, intents, intentTurn, pai,
                   host, applied, history, bounds>>

-----------------------------------------------------------------------------
(* requestSelection(): requests and promotions run one at a time (chain).  *)

\* A request naming the current token.  An idle agent changes now; a busy one
\* gets a durable intent.  Any other token is refused with a conflict.
Request(sel) ==
    /\ chain = "free" /\ Ready /\ Room /\ boot = "none"
    /\ chain' = "request"
    /\ \/ /\ SlotFree
          /\ req' = [pc |-> "changing", tok |-> SelectionRevision + 1, sel |-> sel, mark |-> 0]
          /\ tx' = [tx EXCEPT !["maint"] = [NoTx EXCEPT !.pc = "begin", !.kind = "change",
                        !.rev = states.rev, !.tok = SelectionRevision + 1, !.sel = sel]]
          /\ UNCHANGED log
       \/ /\ ~SlotFree
          /\ req' = [pc |-> "flushing", tok |-> SelectionRevision + 1, sel |-> sel, mark |-> Len(log) + 1]
          /\ log' = Append(log, Entry("intent", "self", 0, SelectionRevision + 1, sel, NoRec))
          /\ UNCHANGED tx
    /\ UNCHANGED <<durable, inherited, published, intents, intentTurn, pai, host, applied, history, bounds>>

\* The idle request's change settled: it supersedes whatever was pending.
RequestApplied ==
    /\ req.pc = "applied"
    /\ lastAck' = [tok |-> req.tok, sel |-> req.sel]
    /\ intents' = NoIntent /\ intentTurn' = "none"
    /\ req' = NoReq /\ chain' = "free"
    /\ UNCHANGED <<journal, published, pai, tx, host, applied, turnSel, follows, bounds>>

RequestRefused ==
    /\ req.pc = "refused"
    /\ req' = NoReq /\ chain' = "free"
    /\ UNCHANGED <<journal, published, intents, intentTurn, pai, tx, host, applied, history, bounds>>

\* The intent is on disk: it is pending, and acknowledged with its own token.
IntentPersisted ==
    /\ req.pc = "flushing"
    /\ Flushed(req.mark)
    /\ lastAck' = [tok |-> req.tok, sel |-> req.sel]
    /\ intents' = [tok |-> req.tok, sel |-> req.sel]
    /\ intentTurn' = IF ~entered THEN "none" ELSE IF turn = "none" THEN "past" ELSE "current"
    /\ pai' = IF turn = "none" THEN pai \cup {"wait"} ELSE pai
    /\ req' = NoReq /\ chain' = "free"
    /\ UNCHANGED <<log, inherited, published, tx, host, applied, turnSel, follows, bounds>>

IntentFails ==
    /\ req.pc = "flushing" /\ Fault
    /\ durable' \in {durable, Larger(durable, req.mark)}
    /\ req' = NoReq /\ chain' = "free"
    /\ UNCHANGED <<log, inherited, published, intents, intentTurn, pai, tx, host, applied, history>>

-----------------------------------------------------------------------------
(* promote() and promoteAfterIdle().                                       *)

\* whenIdle() resolves; its continuation still has to win the slot.
IdleReached ==
    /\ "wait" \in pai /\ SlotFree
    /\ pai' = (pai \ {"wait"}) \cup {"due"}
    /\ UNCHANGED <<journal, published, intents, intentTurn, chain, req, tx, host, applied, history, bounds>>

PromoteAfterIdle ==
    /\ "due" \in pai /\ pai' = pai \ {"due"}
    /\ tx' = IF Ready /\ intents # NoIntent /\ SlotFree
             THEN [tx EXCEPT !["maint"] = [NoTx EXCEPT !.pc = "queued", !.kind = "promote"]]
             ELSE tx
    /\ UNCHANGED <<journal, published, intents, intentTurn, chain, req, host, applied, history, bounds>>

\* Faulty: a promotion whose request is gone goes on.
PromotionDueWhenReady == Ready
PromotionDue == Ready /\ intents # NoIntent

\* promoteNow(): the pending request leaves memory and becomes a transaction.
Promote(p) ==
    /\ tx[p].pc = "queued" /\ chain = "free"
    /\ IF PromotionDue
       THEN /\ chain' = "promote"
            /\ intents' = NoIntent /\ intentTurn' = "none" /\ Deny
            /\ Begin(p, "promote", states.rev + 1, intents.sel, NoRec, intents.tok, checkpoint)
            /\ UNCHANGED driver
       ELSE /\ tx' = [tx EXCEPT ![p] = NoTx]
            /\ driver' = (driver \/ (p = "maint" /\ Ready /\ parked))
            /\ UNCHANGED <<log, checkpoint, unavailable, chain, intents, intentTurn>>
    /\ UNCHANGED <<durable, inherited, states, errors, captured, startFailed, req, pai,
                   turn, entered, parked, boot, applied, history, bounds>>

-----------------------------------------------------------------------------
(* The host: user input, turns, and their ends.                            *)

UserSend ==
    /\ ~(parked /\ driver)
    /\ parked' = TRUE /\ driver' = TRUE
    /\ UNCHANGED <<journal, published, requests, tx, turn, entered, boot, applied, history, bounds>>

\* A request that no turn was observed for is taken to come from this one.
MadeIn == IF intents # NoIntent /\ intentTurn = "none" THEN "current" ELSE intentTurn

\* A turn that is over is a past turn for the request made in it, and status
\* idle promotes that request.
Past(made) == IF made = "current" THEN "past" ELSE made
TurnOver(made) ==
    /\ turn' = "none" /\ intentTurn' = Past(made)
    /\ pai' = IF intents # NoIntent THEN pai \cup {"wait"} ELSE pai

\* The first step of a turn claims the user input; the pre-step hook runs it,
\* runs it degraded, or puts it back.
TurnStart ==
    LET superseded == intents # NoIntent /\ MadeIn = "past" IN
    /\ SlotFree /\ driver /\ parked
    /\ driver' = FALSE /\ entered' = TRUE
    /\ \/ /\ superseded
          /\ pai' = pai \cup {"wait"}
          /\ \/ turn' = "none" /\ UNCHANGED tx
             \/ /\ turn' = "stopping"
                /\ tx' = [tx EXCEPT !["stop"] = [NoTx EXCEPT !.pc = "queued", !.kind = "promote"]]
          /\ UNCHANGED <<parked, turnSel, intentTurn>>
       \/ /\ ~superseded /\ (Ready \/ TerminalFailure)
          /\ parked' = FALSE /\ turn' = "running" /\ intentTurn' = MadeIn
          /\ turnSel' = IF Ready THEN states.sel ELSE NoSel
          /\ UNCHANGED <<pai, tx>>
       \/ /\ ~superseded /\ ~Ready /\ ~TerminalFailure
          /\ TurnOver(MadeIn)
          /\ UNCHANGED <<parked, turnSel, tx>>
    /\ UNCHANGED <<journal, published, intents, chain, req, boot, applied, lastAck, follows, bounds>>

\* A later step of the turn: after a tool call, or after the stop, when a Stop
\* hook or the user steered the turn on.  It runs on whatever is in force, which
\* the stop may have replaced, or is put back with the input it claimed.
LaterStep ==
    /\ turn = "running" \/ (turn = "stopping" /\ ~Active("stop"))
    /\ entered' = TRUE
    /\ \/ /\ Ready \/ TerminalFailure
          /\ turn' = "running" /\ intentTurn' = MadeIn
          /\ turnSel' = IF turn = "running" THEN turnSel ELSE IF Ready THEN states.sel ELSE NoSel
          /\ \/ parked' = FALSE /\ driver' = FALSE
             \/ UNCHANGED <<parked, driver>>
          /\ UNCHANGED pai
       \/ /\ ~Ready /\ ~TerminalFailure
          /\ TurnOver(MadeIn) /\ turnSel' = NoSel
          /\ UNCHANGED <<parked, driver>>
    /\ UNCHANGED <<journal, published, intents, chain, req, tx, boot, applied, lastAck, follows, bounds>>

\* A clean stop dispatches turn-stopping, which promotes a pending request.
TurnStopping ==
    /\ turn = "running" /\ turn' = "stopping"
    /\ tx' = IF intents # NoIntent
             THEN [tx EXCEPT !["stop"] = [NoTx EXCEPT !.pc = "queued", !.kind = "promote"]]
             ELSE tx
    /\ UNCHANGED <<journal, published, requests, entered, parked, driver, boot, applied, history, bounds>>

\* The turn ends, after its stopping hook or cancelled.
TurnEnd ==
    /\ turn = "running" \/ (turn = "stopping" /\ ~Active("stop"))
    /\ TurnOver(intentTurn) /\ turnSel' = NoSel
    /\ UNCHANGED <<journal, published, intents, chain, req, tx, entered, parked, driver, boot,
                   applied, lastAck, follows, bounds>>

-----------------------------------------------------------------------------
(* Crashes and plugin reloads.                                             *)

ForgetMemory ==
    /\ states' = NoState /\ errors' = "none" /\ checkpoint' = NoCheckpoint
    /\ captured' = FALSE /\ startFailed' = FALSE
    /\ intents' = NoIntent /\ intentTurn' = "none" /\ chain' = "free" /\ req' = NoReq /\ pai' = {}
    /\ tx' = [p \in Activities |-> NoTx]
    /\ entered' = FALSE /\ applied' = NoSel
    /\ restarts < MaxRestarts /\ restarts' = restarts + 1

\* The host dies: any suffix of the log that was not known durable is lost.
Crash ==
    /\ ForgetMemory
    /\ \E kept \in durable .. Len(log) : /\ log' = SubSeq(log, 1, kept) /\ durable' = kept
                                          /\ follows' = {i \in follows : i <= kept}
    /\ unavailable' = FALSE /\ boot' = "created"
    /\ turn' = "none" /\ driver' = FALSE /\ turnSel' = NoSel
    /\ UNCHANGED <<inherited, parked, lastAck, faults>>

\* dispose() waits for every operation, then a new service attaches to the
\* live agent and its in-memory log.
Reload ==
    /\ \A p \in Activities : ~Active(p)
    /\ req = NoReq
    /\ ForgetMemory
    /\ unavailable' = TRUE /\ boot' = "attach"
    /\ UNCHANGED <<journal, turn, parked, driver, history, faults>>

-----------------------------------------------------------------------------
TransactionStep(p) ==
    \/ FlushPending(p) \/ FlushPendingFails(p)
    \/ Apply(p) \/ ApplyFails(p) \/ ApplyAborted(p)
    \/ FlushCommitted(p) \/ CommittedThrows(p) \/ FlushCommittedFails(p)
    \/ Rollback(p)
    \/ InitReplay(p) \/ Restore(p) \/ ReplayFails(p) \/ Capture(p) \/ Promote(p)

Next ==
    \/ \E p \in Activities : TransactionStep(p)
    \/ Created \/ Attach \/ AttachBusy
    \/ Recover \/ RecoverReplay \/ Follow \/ Change
    \/ \E sel \in Selections : Request(sel)
    \/ RequestApplied \/ RequestRefused \/ IntentPersisted \/ IntentFails
    \/ IdleReached \/ PromoteAfterIdle
    \/ UserSend \/ TurnStart \/ LaterStep \/ TurnStopping \/ TurnEnd
    \/ Crash \/ Reload

Spec == Init /\ [][Next]_vars

-----------------------------------------------------------------------------
(* Properties.                                                             *)

Codes == {"none", "busy", "corrupt", "incomplete", "failed", "conflict"}
Pcs == {"none", "replay", "capture", "begin", "queued", "flushPending", "apply", "restore",
        "flushCommitted", "rollback"}
Kinds == {"none", "init", "reinit", "recover", "change", "follow", "promote"}
Grants == Selections \cup {NoSel}
Bindings == Entries \cup {NoEntry}
Txs == [pc : Pcs, kind : Kinds, rev : Nat, tok : Nat, sel : Grants, rec : Recoveries,
        mark : Nat, undo : Grants]

TypeOfJournal == log \in Seq(Entries) /\ durable \in Nat /\ inherited \in Nat
TypeOfPublished ==
    /\ states \in [rev : Nat, sel : Selections] \cup {NoState}
    /\ unavailable \in BOOLEAN /\ errors \in Codes
    /\ checkpoint \in [latest : Bindings, committed : Bindings, initial : Grants]
    /\ captured \in BOOLEAN /\ startFailed \in BOOLEAN
TypeOfRequests ==
    /\ intents \in [tok : Nat, sel : Selections] \cup {NoIntent}
    /\ intentTurn \in {"none", "current", "past"}
    /\ chain \in {"free", "request", "promote"}
    /\ req \in [pc : {"none", "changing", "applied", "refused", "flushing"},
                tok : Nat, sel : Grants, mark : Nat]
    /\ pai \in SUBSET {"wait", "due"}
    /\ req.pc = "flushing" => req.sel \in Selections
TypeOfTransactions ==
    /\ tx \in [Activities -> Txs]
    /\ \A p \in Activities :
          tx[p].pc \notin {"none", "replay", "capture", "queued"} => tx[p].sel \in Selections
TypeOfHost ==
    /\ turn \in {"none", "running", "stopping"}
    /\ entered \in BOOLEAN /\ parked \in BOOLEAN /\ driver \in BOOLEAN
    /\ boot \in {"created", "attach", "retry", "none"}
TypeOfHistory ==
    /\ applied \in Grants /\ lastAck \in [tok : Nat, sel : Grants] /\ turnSel \in Grants /\ follows \in SUBSET Nat
    /\ faults \in Nat /\ restarts \in Nat

\* Every variable keeps its type; in particular nothing that is not a
\* selection is ever written to the journal or published.
TypeOK ==
    /\ TypeOfJournal /\ TypeOfPublished /\ TypeOfRequests
    /\ TypeOfTransactions /\ TypeOfHost /\ TypeOfHistory

\* Whatever failed, crashed, was retried, forked or raced: the log that is left
\* always replays.  The service never writes itself into the 'corrupt' state
\* that no recovery is offered for.
JournalReplayable == Replayable(log, inherited)

\* The three activities that may write the journal never write it together:
\* commit() numbers its envelopes from memory and would interleave them.
Writing(p) == tx[p].pc \in {"flushPending", "apply", "flushCommitted", "rollback", "restore"}
OneWriter == \A p, q \in Activities : Writing(p) /\ Writing(q) => p = q

\* A session that reports ready grants exactly its last committed transaction,
\* nothing newer is half written, and the adapter has that selection in effect.
ReadyMeansCommitted ==
    Ready => LET replayed == Replay(log) IN
             /\ replayed.latest.kind = "committed"
             /\ replayed.committed.sel = states.sel
             /\ replayed.committed.rev = states.rev
             /\ applied = states.sel

\* An envelope that carries the token and the selection of a request, or the
\* token of a later one.
Matches(e, ack) == e.tok = ack.tok /\ e.sel = ack.sel
Covers(e, ack) == e.tok > ack.tok \/ Matches(e, ack)

\* The steps between a turn's start, or the stop it was continued after, and its
\* next stop run on one selection; a turn that entered degraded stays denied.
StepsKeepSelection == turn = "running" /\ Ready => states.sel = turnSel

\* The log holds the session's own request for a transaction.
Asked(e) == \E i \in DOMAIN log : /\ log[i].kind = "intent" /\ log[i].owner = "self"
                                  /\ Matches(log[i], e)

\* Whatever is requested, followed, recovered or promoted meanwhile, the selection
\* a turn works on changes only at a stop of the turn, and then to one that a
\* request in the log asked for: no follow, no recovery and no start gets
\* between the steps of a turn.
SwitchesOnlyAtStops ==
    /\ StepsKeepSelection
    /\ turn = "stopping" /\ Ready /\ turnSel \notin {NoSel, states.sel} => Asked(checkpoint.committed)

\* docs/reference/acceptance-fixes-2026-10-08.md:23 "The current turn keeps its
\* committed resources", and docs/user/settings.md:15 that a selection takes
\* effect on the next user request.  Violated: turn-stopping promotes the pending
\* request, and a Stop hook that blocks or adds context then continues the turn.
TurnKeepsItsResources ==
    [][turn = "stopping" /\ turn' = "running" /\ turnSel # NoSel => turnSel' = turnSel]_vars

\* A recovery that committed after the request was written: the user explicitly
\* restored the committed choice, and the request was dropped with the failure.
RecoveredAfter(l, ack) ==
    \E i, j \in DOMAIN l : /\ i < j /\ l[i].kind = "intent" /\ Matches(l[i], ack)
                           /\ l[j].kind = "committed" /\ l[j].rec # NoRec

\* A catalog follow was committed after the request was written: replay takes
\* the request for served, although the follow never served it.
FollowedAfter(l, ack) ==
    \E i \in DOMAIN l, j \in follows \cap DOMAIN l :
        i < j /\ l[i].kind = "intent" /\ Matches(l[i], ack)

\* An acknowledged request survives any crash: whatever the disk keeps holds it
\* as the pending request, as the selection of its own transaction, under a later
\* request or transaction that was made with its token in hand, or the user
\* gave it up by recovering the session, or a follow overtook it.
AckSurvives ==
    lastAck # NoIntent => \A kept \in durable .. Len(log) :
        LET disk == SubSeq(log, 1, kept)
            replayed == Replay(disk) IN
        \/ Covers(replayed.intent, lastAck) \/ Covers(replayed.latest, lastAck)
        \/ RecoveredAfter(disk, lastAck) \/ FollowedAfter(disk, lastAck)

\* While the session is ready and no request or promotion is in progress, the
\* token a client is shown covers every request that was acknowledged: always
\* in the life of the service that acknowledged it, and after a restart unless
\* a follow or a recovery overtook the request (selectionRevision).
ReadyTokenCoversAck ==
    Ready /\ chain = "free" =>
        \/ SelectionRevision >= lastAck.tok
        \/ restarts > 0 /\ (RecoveredAfter(log, lastAck) \/ FollowedAfter(log, lastAck))

\* extension-session-state.ts:670 "each request carries a revision of its own
\* rather than repeating one": the token the next request would get is not one
\* that a request was acknowledged with.  Violated: a follow numbers itself
\* past the latest transaction only, so it stays below the requests it
\* overtakes, and a restart forgets those.
TokensNeverRepeat ==
    Ready /\ chain = "free" => SelectionRevision + 1 > lastAck.tok

\* The last committed selection of the journal, and what the session is granted.
Stored == Replay(log).committed.sel
Granted == IF Ready THEN states.sel ELSE NoSel

Register == INSTANCE SelectionRegister WITH
    Values <- Selections, NoValue <- NoSel, stored <- Stored, granted <- Granted

\* The service implements the register of selections: whatever it journals,
\* promotes, rolls back or replays, a session is only ever granted the selection
\* that a replay of its journal would find, and that one is replaced only while
\* nothing is granted.
ImplementsRegister == Register!Spec
=============================================================================
