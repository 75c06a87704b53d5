--------------------------- MODULE ExtensionHooks ---------------------------
(***************************************************************************)
(* The command hooks of one agent (runtime/surfaces/extension-hooks.ts)    *)
(* and the owner that mounts them (host/scoped-contributors.ts).  Each     *)
(* event of the host runs a pass over the selected suites, one command at  *)
(* a time; meanwhile the selection may be replaced, a grant withdrawn, the *)
(* turn cancelled, or the bridge disposed.                                 *)
(*                                                                         *)
(* A suite declares at most one command for a point; which tool a matcher  *)
(* names is abstracted to whether it matches.  The host's turn is modelled *)
(* from the decisions the bridge returns.                                  *)
(***************************************************************************)
EXTENDS Naturals, Sequences, FiniteSets

CONSTANTS
    Declares,       \* the points each suite declares a matching command for, in
                    \* the order of the catalog
    Selections,     \* what the session may select: sets of suites
    None,
    Cap,            \* STOP_CONTINUATION_CAP
    MaxReconciles,  \* bound on selections
    MaxPrompts,     \* bound on prompts of the user
    MaxCalls,       \* bound on tool calls
    MaxInputs       \* bound: a start, a subagent, its end, a compaction, a
                    \* malformed suite, a withdrawn grant, a cancellation and
                    \* a disposal: one of each, so many together

Points == {"SessionStart", "UserPromptSubmit", "PreToolUse", "PostToolUse", "PostToolUseFailure",
           "Stop", "SubagentStart", "SubagentStop", "PreCompact", "SessionEnd"}
\* Passes that may run side by side: the turn's events come one at a time.
Slots == {"startup", "turn", "child", "notice", "end"}

Suites == DOMAIN Declares
ASSUME SuitesAssumption == Declares \in Seq(SUBSET Points) /\ None \notin Suites
ASSUME SelectionsAssumption == Selections \subseteq SUBSET Suites
ASSUME BoundsAssumption ==
    Cap \in Nat \ {0} /\ MaxReconciles \in Nat /\ MaxPrompts \in Nat /\ MaxCalls \in Nat /\ MaxInputs \in Nat

VARIABLES
    revision,       \* selections asked for so far
    maps,           \* the selection map each of them built
    selected,       \* the map in force
    pending,        \* reconcile's chain: the selections still to be read
    passes,         \* the pass of each slot
    continuations,  \* stop hooks that forced a step, in a row
    tracked,        \* the child agent is in "children"
    disposed,
    closing,        \* "no", "closing", "closed"
    active,         \* the owner's grant: mount.active
    revoked,        \* suites the session no longer allows
    turn,           \* the host's turn
    result,         \* of its tool call: "none", "ok", "error", "skipped"
    applied,        \* the slot whose pass reaches the agent in this step, if any
    final,          \* the selection at disposal
    ended,          \* suites whose SessionEnd command has run
    budget          \* bounded counters

selection == <<revision, maps, selected, pending>>
lifetime == <<disposed, closing, active, final>>
host == <<turn, result>>
vars == <<selection, passes, continuations, tracked, lifetime, revoked, host, applied, ended, budget>>

Free == [point |-> "none", map |-> 0, todo |-> {}, run |-> None, outs |-> {}, phase |-> "free",
         aborted |-> FALSE, failed |-> {}, after |-> 0]

Init ==
    /\ revision = 0 /\ maps = [r \in 0..MaxReconciles |-> {}] /\ selected = 0 /\ pending = <<>>
    /\ passes = [k \in Slots |-> Free]
    /\ continuations = 0 /\ tracked = FALSE
    /\ disposed = FALSE /\ closing = "no" /\ active = TRUE /\ final = {}
    /\ revoked = {} /\ turn = "idle" /\ result = "none" /\ applied = {} /\ ended = {}
    /\ budget = [prompts |-> 0, calls |-> 0, inputs |-> {}]

Input(kind) ==
    /\ kind \notin budget.inputs /\ Cardinality(budget.inputs) < MaxInputs
    /\ budget' = [budget EXCEPT !.inputs = @ \cup {kind}]
\* No pass reaches the agent.
Untouched == applied' = {}

-----------------------------------------------------------------------------
(* The selection                                                           *)

\* reconcile: the map in force is emptied at once, the new one is read behind
\* the selections still being read.
Reconcile(suites) ==
    /\ ~disposed /\ revision < MaxReconciles
    /\ revision' = revision + 1
    /\ maps' = [maps EXCEPT ![selected] = {}]
    /\ pending' = Append(pending, [revision |-> revision + 1, suites |-> suites])
    /\ Untouched /\ UNCHANGED <<selected, passes, continuations, tracked, lifetime, revoked, host, ended, budget>>

\* Mutant: a selection is published although a later one was asked for.
PublishesLate(job) == ~disposed
\* The selection published when its documents have been read: none, if a later
\* one was asked for.
Publishes(job) == ~disposed /\ job.revision = revision

Read ==
    /\ pending # <<>>
    /\ LET job == Head(pending) IN
       \E readable \in {job.suites} \cup {job.suites \ {s} : s \in job.suites} :
          /\ IF readable = job.suites THEN UNCHANGED budget ELSE Input("malformed")
          /\ IF Publishes(job)
             THEN /\ maps' = [maps EXCEPT ![job.revision] = readable]
                  /\ selected' = job.revision
             ELSE UNCHANGED <<maps, selected>>
    /\ pending' = Tail(pending)
    /\ Untouched /\ UNCHANGED <<revision, passes, continuations, tracked, lifetime, revoked, host, ended>>

-----------------------------------------------------------------------------
(* One pass                                                                *)

Declared(suites, point) == {s \in suites : point \in Declares[s]}
\* A pass over the map in force.
Pass(point) ==
    [Free EXCEPT !.point = point, !.map = selected, !.todo = Declared(maps[selected], point), !.phase = "collect"]

\* Mutant: the disposal stops the closing pass too.
StoppedByDrain(k, pass) == disposed \/ pass.aborted
\* Which commands collect still runs: the bridge, the map and the grant are
\* checked before each.  The closing pass reads a copy of the selection.
Stopped(k, pass) == (k # "end" /\ disposed) \/ pass.aborted
Allowed(s) == active /\ s \notin revoked
Runs(k, pass) ==
    {s \in pass.todo : ~Stopped(k, pass) /\ Allowed(s) /\ (k # "end" => s \in maps[pass.map])}

\* The loop goes on to its next command, skipping the others.
Advance(k, pass) ==
    IF Runs(k, pass) = {} THEN [pass EXCEPT !.run = None, !.todo = {}]
    ELSE LET s == CHOOSE s \in Runs(k, pass) : \A q \in Runs(k, pass) : s <= q IN
         [pass EXCEPT !.run = s, !.todo = {q \in @ : q > s},
                      !.failed = IF pass.point = "PostToolUseFailure" THEN @ \cup {s} ELSE @]

Opens(k, pass) == passes' = [passes EXCEPT ![k] = pass] /\ Untouched
Begins(k, point) == Opens(k, Advance(k, Pass(point)))
Frees(k) == passes' = [passes EXCEPT ![k] = Free]

\* What a command of this point may decide; "none" covers one that fails, times
\* out or cannot be decoded.
Outputs(point) ==
    CASE point = "PreToolUse" -> {"none", "context", "deny", "ask", "allow", "stop"}
      [] point \in {"SessionEnd", "SubagentStop", "PreCompact"} -> {"none"}
      [] OTHER -> {"none", "context", "deny", "stop"}

\* A command ends: its output counts unless the pass was stopped meanwhile.
Returns(k) ==
    /\ passes[k].run # None
    /\ \E out \in Outputs(passes[k].point) :
          LET heard == IF Stopped(k, passes[k]) \/ out = "none" THEN {} ELSE {out} IN
          passes' = [passes EXCEPT ![k] = Advance(k, [passes[k] EXCEPT !.outs = @ \cup heard])]
    /\ ended' = IF k = "end" /\ ~Stopped(k, passes[k]) THEN ended \cup {passes[k].run} ELSE ended
    /\ Untouched /\ UNCHANGED <<selection, continuations, tracked, lifetime, revoked, host, budget>>

Collected(k, point) ==
    /\ passes[k].phase = "collect" /\ passes[k].point = point
    /\ passes[k].run = None /\ passes[k].todo = {}
\* mergeHookOutputs: a stop wins, then the most restrictive decision.
Says(k, out) == out \in passes[k].outs
Decides(k) == IF Says(k, "stop") THEN "stop" ELSE IF Says(k, "deny") THEN "deny"
              ELSE IF Says(k, "ask") THEN "ask" ELSE "none"

\* What a pass's outcome reaches: nothing, unless "takes".
Applies(k, takes) == applied' = IF takes THEN {k} ELSE {}
\* The waterfall goes on to the listeners behind this one.
Downstream == passes' = [passes EXCEPT !["turn"].phase = "downstream"] /\ Untouched /\ UNCHANGED host
GoesOn(points) == passes["turn"].phase = "downstream" /\ passes["turn"].point \in points

\* The turn goes on after its pass, unless it was cancelled meanwhile.
TurnGoes(to, res) ==
    /\ turn' = IF passes["turn"].aborted THEN "idle" ELSE to
    /\ result' = IF passes["turn"].aborted THEN "none" ELSE res
TurnEnds == turn' = "idle" /\ result' = "none"
\* agent.cancel: a pass of the turn ends with its turn, later.
CancelTurn(others) ==
    IF passes["turn"] = Free THEN TurnEnds /\ passes' = others
    ELSE passes' = [others EXCEPT !["turn"].aborted = TRUE] /\ UNCHANGED host

-----------------------------------------------------------------------------
(* The turn                                                                *)

\* A step with a prompt of the user in it: a prompt of its own, or a message
\* beside a stop hook's.
Prompt ==
    /\ turn \in {"idle", "steered"} /\ budget.prompts < MaxPrompts
    /\ budget' = [budget EXCEPT !.prompts = @ + 1]
    /\ UNCHANGED <<selection, tracked, lifetime, revoked, result, ended>>
    /\ \/ disposed /\ turn' = "open" /\ Untouched /\ UNCHANGED <<passes, continuations>>
       \/ ~disposed /\ turn' = "prompt" /\ continuations' = 0 /\ Begins("turn", "UserPromptSubmit")

PromptDecided ==
    /\ Collected("turn", "UserPromptSubmit")
    /\ IF ~disposed /\ Decides("turn") \in {"stop", "deny"}
       THEN Frees("turn") /\ Applies("turn", TRUE) /\ TurnEnds
       ELSE Downstream
    /\ UNCHANGED <<selection, continuations, tracked, lifetime, revoked, ended, budget>>

\* The other listeners let the step enter or reject it.
PromptEnters ==
    /\ GoesOn({"UserPromptSubmit"})
    /\ Frees("turn")
    /\ \/ TurnGoes("open", "none") /\ Applies("turn", ~disposed /\ Says("turn", "context"))
       \/ TurnEnds /\ Untouched
    /\ UNCHANGED <<selection, continuations, tracked, lifetime, revoked, ended, budget>>

\* Mutant: a hook's own message counts as a prompt.
HookStepAsPrompt ==
    /\ turn = "steered" /\ turn' = "open" /\ continuations' = 0
    /\ Untouched /\ UNCHANGED <<selection, passes, tracked, lifetime, revoked, result, ended, budget>>
\* A step whose messages are a stop hook's: no prompt, and no reset.
HookStep ==
    /\ turn = "steered" /\ turn' = "open"
    /\ Untouched /\ UNCHANGED <<selection, passes, continuations, tracked, lifetime, revoked, result, ended, budget>>

CallTool ==
    /\ turn = "open" /\ budget.calls < MaxCalls
    /\ budget' = [budget EXCEPT !.calls = @ + 1]
    /\ UNCHANGED <<selection, continuations, tracked, lifetime, revoked, result, ended>>
    /\ \/ disposed /\ turn' = "exec" /\ Untouched /\ UNCHANGED passes
       \/ ~disposed /\ turn' = "pre" /\ Begins("turn", "PreToolUse")

\* A denied call is reported as a failed one; an approval may refuse it too.
Refused == TurnGoes("result", "error")
Approved == TurnGoes("exec", "none")

PreDecided ==
    /\ Collected("turn", "PreToolUse")
    /\ IF disposed \/ Decides("turn") = "none" THEN Downstream
       ELSE /\ Frees("turn") /\ Applies("turn", TRUE)
            /\ CASE Decides("turn") = "stop" -> TurnEnds
                 [] Decides("turn") = "deny" -> Refused
                 [] Decides("turn") = "ask" -> Approved \/ Refused
    /\ UNCHANGED <<selection, continuations, tracked, lifetime, revoked, ended, budget>>

\* A hook's allow answers an ask of the listeners behind it, never their denial.
PreGoesOn ==
    /\ GoesOn({"PreToolUse"})
    /\ Frees("turn")
    /\ \E down \in {"allow", "ask", "deny"} :
       LET decision == IF down = "ask" /\ Says("turn", "allow") THEN "allow" ELSE down IN
       /\ Applies("turn", ~disposed /\ decision = "allow" /\ Says("turn", "context"))
       /\ (decision # "deny" /\ Approved) \/ (decision # "allow" /\ Refused)
    /\ UNCHANGED <<selection, continuations, tracked, lifetime, revoked, ended, budget>>

\* "skipped" is a failure whose code says that no tool body ran.
Executes ==
    /\ turn = "exec" /\ turn' = "result" /\ result' \in {"ok", "error", "skipped"}
    /\ Untouched /\ UNCHANGED <<selection, passes, continuations, tracked, lifetime, revoked, ended, budget>>

Answers ==
    /\ turn = "result"
    /\ IF disposed \/ result = "skipped" THEN turn' = "open" /\ result' = "none" /\ Untouched /\ UNCHANGED passes
       ELSE /\ Begins("turn", IF result = "error" THEN "PostToolUseFailure" ELSE "PostToolUse")
            /\ turn' = "post" /\ UNCHANGED result
    /\ UNCHANGED <<selection, continuations, tracked, lifetime, revoked, ended, budget>>

\* Mutant: only a suite that answered silences the fallback.
AnswersFailure == passes["turn"].outs # {}
\* declaresFailureFor: read after the failure commands, from the map then in force.
DeclaresFailure == Declared(maps[selected], "PostToolUseFailure") # {}

\* A failed call nobody declares the failure event for runs PostToolUse.
FailureRouted ==
    /\ Collected("turn", "PostToolUseFailure")
    /\ passes' = [passes EXCEPT !["turn"] =
          IF DeclaresFailure THEN [@ EXCEPT !.phase = "decide"]
          ELSE Advance("turn", [Pass("PostToolUse") EXCEPT !.outs = passes["turn"].outs, !.failed = passes["turn"].failed,
                                                           !.aborted = passes["turn"].aborted])]
    /\ Untouched /\ UNCHANGED <<selection, continuations, tracked, lifetime, revoked, host, ended, budget>>

PostDecided ==
    /\ passes["turn"].phase = "decide" \/ Collected("turn", "PostToolUse")
    /\ CASE ~disposed /\ Decides("turn") = "stop" -> Frees("turn") /\ Applies("turn", TRUE) /\ TurnEnds
         [] ~disposed /\ Decides("turn") = "deny" /\ result = "ok" ->
               Frees("turn") /\ Applies("turn", TRUE) /\ TurnGoes("open", "none")
         [] OTHER -> Downstream
    /\ UNCHANGED <<selection, continuations, tracked, lifetime, revoked, ended, budget>>

\* Context rides the next request, and so does the reason that blocks a call
\* that had failed already.
PostGoesOn ==
    /\ GoesOn({"PostToolUse", "PostToolUseFailure"})
    /\ Frees("turn")
    /\ Applies("turn", ~disposed /\ (Says("turn", "context") \/ Says("turn", "deny")))
    /\ TurnGoes("open", "none")
    /\ UNCHANGED <<selection, continuations, tracked, lifetime, revoked, ended, budget>>

StopTurn ==
    /\ turn = "open"
    /\ IF disposed THEN TurnEnds /\ Untouched /\ UNCHANGED passes
       ELSE Begins("turn", "Stop") /\ turn' = "stopping" /\ UNCHANGED result
    /\ UNCHANGED <<selection, continuations, tracked, lifetime, revoked, ended, budget>>

\* A denial, or context, forces another step, so many times in a row.
StopDecided ==
    /\ Collected("turn", "Stop")
    /\ Frees("turn")
    /\ CASE disposed \/ Decides("turn") = "stop" ->
               TurnEnds /\ Applies("turn", ~disposed) /\ UNCHANGED continuations
         [] ~disposed /\ passes["turn"].outs = {} ->
               TurnEnds /\ continuations' = 0 /\ Untouched
         [] OTHER ->
               IF continuations >= Cap
               THEN TurnEnds /\ continuations' = 0 /\ Untouched
               ELSE TurnGoes("steered", "none") /\ continuations' = continuations + 1 /\ Applies("turn", TRUE)
    /\ UNCHANGED <<selection, tracked, lifetime, revoked, ended, budget>>

\* The user interrupts.
Cancel ==
    /\ turn # "idle" /\ Input("cancel")
    /\ CancelTurn(passes)
    /\ Untouched /\ UNCHANGED <<selection, continuations, tracked, lifetime, revoked, ended>>

-----------------------------------------------------------------------------
(* The session, its subagents and compactions                              *)

\* start: behind the selections asked for before it; once.
Start ==
    /\ ~disposed /\ Input("start")
    /\ Opens("startup", [Free EXCEPT !.point = "SessionStart", !.phase = "waiting", !.after = revision])
    /\ UNCHANGED <<selection, continuations, tracked, lifetime, revoked, host, ended>>

StartRuns ==
    /\ passes["startup"].phase = "waiting"
    /\ \A i \in 1..Len(pending) : pending[i].revision > passes["startup"].after
    /\ passes' = [passes EXCEPT !["startup"] = Advance("startup", Pass("SessionStart"))]
    /\ Untouched /\ UNCHANGED <<selection, continuations, tracked, lifetime, revoked, host, ended, budget>>

\* A session that has started cannot be denied: a denial is only reported.
StartDecided ==
    /\ Collected("startup", "SessionStart")
    /\ Applies("startup", ~disposed /\ (Says("startup", "stop") \/ Says("startup", "context")))
    /\ IF ~disposed /\ Says("startup", "stop") THEN CancelTurn([passes EXCEPT !["startup"] = Free])
       ELSE Frees("startup") /\ UNCHANGED host
    /\ UNCHANGED <<selection, continuations, tracked, lifetime, revoked, ended, budget>>

ChildStarts ==
    /\ ~disposed /\ Input("child")
    /\ tracked' = TRUE
    /\ Begins("child", "SubagentStart")
    /\ UNCHANGED <<selection, continuations, lifetime, revoked, host, ended>>

ChildEnds ==
    /\ ~disposed /\ "child" \in budget.inputs /\ passes["notice"] = Free /\ Input("child ends")
    /\ tracked' = FALSE
    /\ Begins("notice", "SubagentStop")
    /\ UNCHANGED <<selection, continuations, lifetime, revoked, host, ended>>

\* A child that has ended gets no context; a halt is not held back.
ChildDecided ==
    /\ Collected("child", "SubagentStart")
    /\ Frees("child")
    /\ Applies("child", ~disposed /\ (Says("child", "stop") \/ (tracked /\ Says("child", "context"))))
    /\ UNCHANGED <<selection, continuations, tracked, lifetime, revoked, host, ended, budget>>

Compacts ==
    /\ ~disposed /\ passes["notice"] = Free /\ Input("compaction")
    /\ Begins("notice", "PreCompact")
    /\ UNCHANGED <<selection, continuations, tracked, lifetime, revoked, host, ended>>

\* Neither the end of a child nor a compaction can be vetoed.
NoticeDecided ==
    /\ Collected("notice", "SubagentStop") \/ Collected("notice", "PreCompact")
    /\ Frees("notice")
    /\ Untouched /\ UNCHANGED <<selection, continuations, tracked, lifetime, revoked, host, ended, budget>>

\* The session commits a selection without this suite.
Revoke(s) ==
    /\ s \notin revoked /\ Input("revoke")
    /\ revoked' = revoked \cup {s}
    /\ Untouched /\ UNCHANGED <<selection, passes, continuations, tracked, lifetime, host, ended>>

-----------------------------------------------------------------------------
(* Disposal                                                                *)

\* The owner disposes the bridge while its own grant is still open.
Dispose ==
    /\ closing = "no" /\ Input("dispose")
    /\ disposed' = TRUE /\ closing' = "closing" /\ final' = maps[selected]
    /\ maps' = [maps EXCEPT ![selected] = {}]
    /\ tracked' = FALSE
    /\ passes' = [passes EXCEPT !["end"] =
          IF maps[selected] = {} THEN Free
          ELSE Advance("end", Pass("SessionEnd"))]
    /\ Untouched /\ UNCHANGED <<revision, selected, pending, continuations, active, revoked, host, ended>>

EndDecided ==
    /\ Collected("end", "SessionEnd")
    /\ Frees("end")
    /\ Untouched /\ UNCHANGED <<selection, continuations, tracked, lifetime, revoked, host, ended, budget>>

\* Every run has drained and every selection was read: the grant closes.
Closed ==
    /\ closing = "closing" /\ (\A k \in Slots : passes[k] = Free) /\ pending = <<>>
    /\ closing' = "closed" /\ active' = FALSE
    /\ Untouched /\ UNCHANGED <<selection, passes, continuations, tracked, disposed, final, revoked, host, ended, budget>>

-----------------------------------------------------------------------------
TurnSteps ==
    \/ PromptDecided \/ PromptEnters \/ HookStep \/ PreDecided \/ PreGoesOn \/ Executes \/ Answers
    \/ FailureRouted \/ PostDecided \/ PostGoesOn \/ StopDecided
SessionSteps == StartRuns \/ StartDecided \/ ChildDecided \/ NoticeDecided \/ EndDecided

Next ==
    \/ (\E suites \in Selections : Reconcile(suites)) \/ Read
    \/ \E k \in Slots : Returns(k)
    \/ Prompt \/ CallTool \/ StopTurn \/ TurnSteps \/ Cancel
    \/ Start \/ ChildStarts \/ ChildEnds \/ Compacts \/ SessionSteps
    \/ (\E s \in Suites : Revoke(s)) \/ Dispose \/ Closed

\* Commands end or time out, listeners and approvals answer, files are read,
\* and the model stops calling tools.
Fairness ==
    /\ WF_vars(Read) /\ WF_vars(Closed)
    /\ WF_vars(TurnSteps) /\ WF_vars(StopTurn)
    /\ WF_vars(StartRuns \/ StartDecided) /\ WF_vars(ChildDecided) /\ WF_vars(NoticeDecided) /\ WF_vars(EndDecided)
    /\ \A k \in Slots : WF_vars(Returns(k))

Spec == Init /\ [][Next]_vars
FairSpec == Spec /\ Fairness
-----------------------------------------------------------------------------
Passed == [point: Points \cup {"none"}, map: 0..MaxReconciles, todo: SUBSET Suites, run: Suites \cup {None},
           outs: SUBSET {"context", "deny", "ask", "allow", "stop"},
           phase: {"free", "waiting", "collect", "decide", "downstream"},
           aborted: BOOLEAN, failed: SUBSET Suites, after: 0..MaxReconciles]

\* The bridge keeps its types, and a turn has a pass exactly where it waits for one.
TypeOK ==
    /\ revision \in 0..MaxReconciles /\ selected \in 0..MaxReconciles
    /\ maps \in [0..MaxReconciles -> SUBSET Suites]
    /\ pending \in Seq([revision: 1..MaxReconciles, suites: SUBSET Suites])
    /\ passes \in [Slots -> Passed]
    /\ continuations \in 0..Cap /\ tracked \in BOOLEAN
    /\ disposed \in BOOLEAN /\ closing \in {"no", "closing", "closed"} /\ active \in BOOLEAN
    /\ final \in SUBSET Suites /\ revoked \in SUBSET Suites /\ ended \in SUBSET Suites
    /\ turn \in {"idle", "prompt", "open", "pre", "exec", "result", "post", "stopping", "steered"}
    /\ result \in {"none", "ok", "error", "skipped"} /\ applied \in SUBSET Slots
    /\ (passes["turn"] # Free) <=> (turn \in {"prompt", "pre", "post", "stopping"})

\* A command starts only for the selection asked for last, whose grant still
\* stands, and never after the disposal; and a command that outlives the
\* disposal no longer reaches the agent.
OnlyTheSelected ==
    [][/\ \A k \in Slots \ {"end"} :
             passes'[k].run \notin {None, passes[k].run} =>
                 ~disposed /\ passes'[k].map = revision /\ passes'[k].run \notin revoked
       /\ disposed => applied' = {}]_vars

\* No suite gets both events of one failed call, whichever selection is read
\* between them.
FailureSplit == passes["turn"].point = "PostToolUse" => passes["turn"].run \notin passes["turn"].failed

\* Once the disposal has ended, every suite selected when it began has run its
\* SessionEnd command to the end, unless its grant was withdrawn.
SessionEndRuns == closing = "closed" => Declared(final, "SessionEnd") \ revoked \subseteq ended

\* Every turn ends, however often its stop hooks block, and every disposal does.
EverythingEnds == (turn # "idle" ~> turn = "idle") /\ (closing = "closing" ~> closing = "closed")
=============================================================================
