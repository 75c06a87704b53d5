------------------------ MODULE ExtensionHooksProofs ------------------------
(* The order of a pass, the split of the tool events, the final pass and    *)
(* the rule that only the selection in force starts commands, for any        *)
(* number of suites, selections, prompts and calls.                          *)
EXTENDS ExtensionHooks, TLAPS, WellFoundedInduction

\* The commands of a pass: none, or suites that declare its point.
Declarers(point) == {s \in Suites : point \in Declares[s]}

\* A pass runs suites that declare its point; those that ran for the failure
\* event declare that, and PostToolUse is left to the others.
Sound(p) ==
    /\ p \in Passed
    /\ p.todo \subseteq Declarers(p.point)
    /\ p.failed \subseteq Declarers("PostToolUseFailure")
    /\ p.point = "PostToolUse" => p.todo \cap p.failed = {} /\ p.run \notin p.failed

\* What a pass is at its start.
LEMMA FreeIsSound == Sound(Free) /\ Free.run = None /\ Free.todo = {} /\ ~Free.aborted
  BY BoundsAssumption DEF Sound, Free, Passed, Declarers, Points

\* A set of suites that is not empty has a first one: the catalog's order.
LEMMA FirstSuite ==
    ASSUME NEW S \in SUBSET Suites, S # {}
    PROVE  \E s \in S : \A q \in S : s <= q
<1>1. S \subseteq Nat
  BY SuitesAssumption DEF Suites
<1>2. \E s \in S : \A q \in S : ~(<<q, s>> \in OpToRel(<, Nat))
  BY <1>1, NatLessThanWellFounded, WFMin
<1>3. \A s, q \in S : ~(<<q, s>> \in OpToRel(<, Nat)) => s <= q
  BY <1>1 DEF OpToRel
<1>4. QED
  BY <1>2, <1>3

\* The loop of a pass starts the first command that may still run, or ends.
LEMMA AdvanceOutcome ==
    ASSUME NEW k \in Slots, NEW p, Sound(p), maps \in [0..MaxReconciles -> SUBSET Suites]
    PROVE  /\ Sound(Advance(k, p))
           /\ Advance(k, p).map = p.map /\ Advance(k, p).point = p.point
           /\ Advance(k, p).aborted = p.aborted
           /\ Advance(k, p).run \in Runs(k, p) \cup {None}
           /\ \A q \in Runs(k, p) : q \in Advance(k, p).todo \cup {Advance(k, p).run}
<1> DEFINE R == Runs(k, p)
           f == CHOOSE s \in R : \A q \in R : s <= q
<1>1. R \subseteq p.todo /\ R \subseteq Suites /\ p.todo \subseteq Suites /\ p.failed \subseteq Suites
  BY DEF Runs, Sound, Passed
<1>2. CASE R = {}
  <2>1. Advance(k, p) = [p EXCEPT !.run = None, !.todo = {}]
    BY <1>2 DEF Advance
  <2> DEFINE e == [p EXCEPT !.run = None, !.todo = {}]
  <2>2. /\ e \in Passed /\ e.todo = {} /\ e.run = None /\ e.map = p.map /\ e.point = p.point
        /\ e.aborted = p.aborted /\ e.failed = p.failed
    BY DEF Sound, Passed
  <2> HIDE DEF e
  <2>3. Sound(e)
    BY <1>1, <2>2, SuitesAssumption DEF Sound
  <2>4. Advance(k, p) = e
    BY <2>1 DEF e
  <2>5. QED
    BY <1>2, <2>2, <2>3, <2>4
<1>3. CASE R # {}
  <2>1. f \in R /\ \A q \in R : f <= q
    BY <1>1, <1>3, FirstSuite
  <2> HIDE DEF f
  <2>2. Advance(k, p) = [p EXCEPT !.run = f, !.todo = {q \in @ : q > f},
                      !.failed = IF p.point = "PostToolUseFailure" THEN @ \cup {f} ELSE @]
    BY <1>3 DEF Advance, f
  <2>3. f \in Suites /\ f \in p.todo /\ f \in Declarers(p.point)
    BY <1>1, <2>1 DEF Sound
  <2>4. Suites \subseteq Nat
    BY SuitesAssumption DEF Suites
  <2>5. f \notin {q \in p.todo : q > f} /\ \A q \in R : q \in {x \in p.todo : x > f} \cup {f}
    BY <1>1, <2>1, <2>3, <2>4
  <2> DEFINE G == IF p.point = "PostToolUseFailure" THEN p.failed \cup {f} ELSE p.failed
             r == [p EXCEPT !.run = f, !.todo = {q \in p.todo : q > f}, !.failed = G]
  <2>6. G \in SUBSET Suites /\ {q \in p.todo : q > f} \in SUBSET Suites
    BY <1>1, <2>3 DEF Sound, Passed
  <2>7. /\ r \in Passed /\ r.todo = {q \in p.todo : q > f} /\ r.run = f /\ r.map = p.map /\ r.point = p.point
        /\ r.aborted = p.aborted /\ r.failed = G
    BY <2>3, <2>6 DEF Sound, Passed
  <2>8. Advance(k, p) = r
    BY <2>2, <2>3 DEF Sound, Passed
  <2> HIDE DEF r
  <2>9. Sound(r)
    BY <2>3, <2>5, <2>7 DEF Sound
  <2>10. QED
    BY <2>1, <2>5, <2>7, <2>8, <2>9
<1>4. QED
  BY <1>2, <1>3

-----------------------------------------------------------------------------
(* The invariant                                                           *)

Bridge ==
    /\ revision \in 0..MaxReconciles /\ selected \in 0..MaxReconciles
    /\ maps \in [0..MaxReconciles -> SUBSET Suites]
    /\ pending \in Seq([revision: 1..MaxReconciles, suites: SUBSET Suites])
    /\ passes \in [Slots -> Passed]

\* Only the map of the selection asked for last has suites, and none has after
\* the disposal.
InForce == \A r \in 0..MaxReconciles : maps[r] # {} => r = selected /\ r = revision /\ ~disposed

AllSound == \A k \in Slots : Sound(passes[k])

\* Until the grant closes, a suite that owes its SessionEnd command is still
\* ahead of the final pass, or has lost its grant.
Owes(s) == s \in passes["end"].todo \cup {passes["end"].run}
Ending ==
    /\ ~passes["end"].aborted /\ final \subseteq Suites
    /\ closing \in {"no", "closing", "closed"}
    /\ closing = "no" => ~disposed /\ active /\ ended = {} /\ passes["end"] = Free
    /\ closing # "no" => disposed
    /\ closing = "closing" => active /\ \A s \in Declared(final, "SessionEnd") : s \in revoked \cup ended \/ Owes(s)
    /\ SessionEndRuns

IInv == Bridge /\ InForce /\ AllSound /\ Ending

\* What a pass may become in a step: it starts a command only of the selection
\* in force.
Starts(k, p) == p.run \in {None, passes[k].run} \/ (~disposed /\ p.map = revision /\ p.run \notin revoked)
\* The step OnlyTheSelected allows.
Obeys ==
    /\ \A k \in Slots \ {"end"} :
          passes'[k].run \notin {None, passes[k].run} =>
              ~disposed /\ passes'[k].map = revision /\ passes'[k].run \notin revoked
    /\ disposed => applied' = {}

LEMMA InitHolds == Init => IInv
<1> SUFFICES ASSUME Init PROVE IInv
  OBVIOUS
<1>1. Bridge
  BY FreeIsSound, BoundsAssumption DEF Init, Bridge, Sound
<1>2. InForce /\ AllSound
  BY FreeIsSound, BoundsAssumption DEF Init, InForce, AllSound
<1>3. Ending
  BY FreeIsSound DEF Init, Ending, SessionEndRuns, Slots
<1>4. QED
  BY <1>1, <1>2, <1>3 DEF IInv

\* A pass over the map in force begins with the suites that declare its point.
LEMMA PassIsSound ==
    ASSUME IInv, NEW point \in Points
    PROVE  /\ Sound(Pass(point)) /\ Pass(point).map = selected /\ Pass(point).point = point
           /\ Pass(point).todo = Declared(maps[selected], point) /\ ~Pass(point).aborted
           /\ Pass(point).failed = {} /\ Pass(point).run = None
<1> DEFINE d == Declared(maps[selected], point)
<1>1. d \in SUBSET Suites /\ d \subseteq Declarers(point)
  BY DEF IInv, Bridge, Declared, Declarers
<1>2. Pass(point) = [Free EXCEPT !.point = point, !.map = selected, !.todo = d, !.phase = "collect"]
  BY DEF Pass
<1> HIDE DEF d
<1>3. Pass(point) = [point |-> point, map |-> selected, todo |-> d, run |-> None, outs |-> {},
                     phase |-> "collect", aborted |-> FALSE, failed |-> {}, after |-> 0]
  BY <1>2 DEF Free
<1>4. Pass(point) \in Passed
  BY <1>1, <1>3, BoundsAssumption DEF Passed, IInv, Bridge
<1>5. QED
  BY <1>1, <1>3, <1>4 DEF Sound, d

\* The loop of a pass other than the final one starts what the selection in
\* force has, while the bridge lives and the grant stands.
LEMMA AdvanceStarts ==
    ASSUME IInv, NEW k \in Slots \ {"end"}, NEW p, Sound(p)
    PROVE  Sound(Advance(k, p)) /\ Starts(k, Advance(k, p))
<1>1. Sound(Advance(k, p)) /\ Advance(k, p).map = p.map /\ Advance(k, p).run \in Runs(k, p) \cup {None}
  BY AdvanceOutcome DEF IInv, Bridge
<1>2. ASSUME Advance(k, p).run \in Runs(k, p)
      PROVE  ~disposed /\ p.map = revision /\ Advance(k, p).run \notin revoked
  <2>1. ~disposed /\ Advance(k, p).run \notin revoked /\ maps[p.map] # {}
    BY <1>2 DEF Runs, Stopped, Allowed
  <2>2. p.map \in 0..MaxReconciles
    BY DEF Sound, Passed
  <2>3. QED
    BY <2>1, <2>2 DEF IInv, InForce
<1>3. QED
  BY <1>1, <1>2 DEF Starts

\* A pass begun at an event of the host.
LEMMA BeginStarts ==
    ASSUME IInv, NEW k \in Slots \ {"end"}, NEW point \in Points
    PROVE  Sound(Advance(k, Pass(point))) /\ Starts(k, Advance(k, Pass(point)))
  BY PassIsSound, AdvanceStarts

\* A step that leaves the selection, the disposal and the final pass alone.
LEMMA PassesStep ==
    ASSUME IInv, UNCHANGED <<selection, lifetime, revoked, ended>>,
           passes' \in [Slots -> Passed], passes'["end"] = passes["end"],
           \A k \in Slots \ {"end"} : Sound(passes'[k]) /\ Starts(k, passes'[k]),
           disposed => applied' = {}
    PROVE  IInv' /\ Obeys
<1>1. Bridge' /\ InForce'
  BY DEF IInv, Bridge, InForce, selection, lifetime
<1>2. AllSound'
  <2>1. \A p : Sound(p)' <=> Sound(p)
    BY DEF Sound
  <2>2. QED
    BY <2>1 DEF IInv, AllSound, Slots
<1>3. Ending'
  BY DEF IInv, Ending, SessionEndRuns, Owes, lifetime
<1>4. Obeys
  BY DEF Obeys, Starts
<1>5. QED
  BY <1>1, <1>2, <1>3, <1>4 DEF IInv

\* The usual case: one pass moves.
LEMMA OnePassStep ==
    ASSUME IInv, UNCHANGED <<selection, lifetime, revoked, ended>>,
           NEW k \in Slots \ {"end"}, NEW p, passes' = [passes EXCEPT ![k] = p],
           Sound(p), Starts(k, p),
           disposed => applied' = {}
    PROVE  IInv' /\ Obeys
<1>1. passes \in [Slots -> Passed] /\ p \in Passed
  BY DEF IInv, Bridge, Sound
<1>2. passes' \in [Slots -> Passed] /\ passes'["end"] = passes["end"]
  BY <1>1 DEF Slots
<1>3. \A j \in Slots \ {"end"} : Sound(passes'[j]) /\ Starts(j, passes'[j])
  BY <1>1 DEF IInv, AllSound, Starts
<1>4. QED
  BY <1>2, <1>3, PassesStep

\* A step that moves no pass.
LEMMA NoPassStep ==
    ASSUME IInv, UNCHANGED <<selection, lifetime, revoked, ended, passes>>, disposed => applied' = {}
    PROVE  IInv' /\ Obeys
<1>1. \A j \in Slots \ {"end"} : Sound(passes'[j]) /\ Starts(j, passes'[j])
  BY DEF IInv, AllSound, Starts
<1>2. QED
  BY <1>1, PassesStep DEF IInv, Bridge

-----------------------------------------------------------------------------
(* The steps                                                               *)

\* A pass whose phase, or whose turn's cancellation, is noted stays sound.
LEMMA MarkedStarts ==
    ASSUME IInv, NEW k \in Slots \ {"end"}
    PROVE  /\ Sound([passes[k] EXCEPT !.aborted = TRUE]) /\ Starts(k, [passes[k] EXCEPT !.aborted = TRUE])
           /\ Sound([passes[k] EXCEPT !.phase = "downstream"]) /\ Starts(k, [passes[k] EXCEPT !.phase = "downstream"])
           /\ Sound([passes[k] EXCEPT !.phase = "decide"]) /\ Starts(k, [passes[k] EXCEPT !.phase = "decide"])
<1>1. Sound(passes[k]) /\ passes[k] \in Passed
  BY DEF IInv, AllSound, Bridge
<1>2. ASSUME NEW p, p \in Passed, p.todo = passes[k].todo, p.failed = passes[k].failed, p.run = passes[k].run,
             p.point = passes[k].point
      PROVE  Sound(p) /\ Starts(k, p)
  BY <1>1, <1>2 DEF Sound, Starts
<1>3. [passes[k] EXCEPT !.aborted = TRUE] \in Passed
  BY <1>1 DEF Passed
<1>4. [passes[k] EXCEPT !.phase = "downstream"] \in Passed
  BY <1>1 DEF Passed
<1>5. [passes[k] EXCEPT !.phase = "decide"] \in Passed
  BY <1>1 DEF Passed
<1>6. QED
  BY <1>1, <1>2, <1>3, <1>4, <1>5 DEF Passed

\* A pass that ends starts nothing.
LEMMA FreeStarts == \A k : Sound(Free) /\ Starts(k, Free)
  BY FreeIsSound DEF Starts

\* A new selection empties the map in force; nothing else has suites.
LEMMA ReconcileStep ==
    ASSUME IInv, NEW suites \in Selections, Reconcile(suites)
    PROVE  IInv' /\ Obeys
<1>0. revision \in 0..MaxReconciles /\ MaxReconciles \in Nat /\ revision' = revision + 1 /\ revision < MaxReconciles
  BY BoundsAssumption DEF Reconcile, IInv, Bridge
<1>1. revision' \in 1..MaxReconciles /\ selected' = selected /\ passes' = passes /\ disposed' = disposed
  <2>1. revision' \in 1..MaxReconciles
    BY <1>0
  <2>2. QED
    BY <2>1 DEF Reconcile, lifetime
<1>2. maps' = [maps EXCEPT ![selected] = {}] /\ maps' \in [0..MaxReconciles -> SUBSET Suites]
  BY DEF Reconcile, IInv, Bridge
<1>3. pending' \in Seq([revision: 1..MaxReconciles, suites: SUBSET Suites])
  <2>1. [revision |-> revision + 1, suites |-> suites] \in [revision: 1..MaxReconciles, suites: SUBSET Suites]
    BY <1>1, SelectionsAssumption DEF Reconcile
  <2>2. QED
    BY <2>1 DEF Reconcile, IInv, Bridge
<1>4. Bridge'
  BY <1>1, <1>2, <1>3 DEF IInv, Bridge
<1>5. InForce'
  <2>1. \A r \in 0..MaxReconciles : maps'[r] = {}
    BY <1>2 DEF IInv, InForce, Bridge
  <2>2. QED
    BY <2>1 DEF InForce
<1>6. AllSound' /\ Ending' /\ Obeys
  BY <1>1 DEF Reconcile, IInv, AllSound, Sound, Ending, SessionEndRuns, Owes, Obeys, Untouched, lifetime
<1>7. QED
  BY <1>4, <1>5, <1>6 DEF IInv

\* What is read is published only for the selection asked for last.
LEMMA ReadStep ==
    ASSUME IInv, Read
    PROVE  IInv' /\ Obeys
<1> DEFINE Jobs == [revision: 1..MaxReconciles, suites: SUBSET Suites]
<1>1. pending \in Seq(Jobs) /\ pending # <<>> /\ pending' = Tail(pending)
  BY DEF Read, IInv, Bridge
<1> HIDE DEF Jobs
<1>2. Head(pending) \in Jobs /\ pending' \in Seq(Jobs)
  BY <1>1
<1> USE DEF Jobs
<1>3. /\ revision' = revision /\ passes' = passes /\ disposed' = disposed /\ closing' = closing /\ active' = active
      /\ final' = final /\ revoked' = revoked /\ ended' = ended /\ applied' = {}
  BY DEF Read, lifetime, Untouched
<1>4. PICK readable : /\ readable \subseteq Head(pending).suites
                      /\ IF Publishes(Head(pending))
                         THEN maps' = [maps EXCEPT ![Head(pending).revision] = readable] /\ selected' = Head(pending).revision
                         ELSE UNCHANGED <<maps, selected>>
  BY DEF Read
<1>5. readable \in SUBSET Suites /\ Head(pending).revision \in 1..MaxReconciles
  BY <1>2, <1>4
<1>6. Bridge'
  BY <1>2, <1>3, <1>4, <1>5 DEF IInv, Bridge
<1>7. InForce'
  <2>1. CASE Publishes(Head(pending))
    BY <1>3, <1>4, <1>5, <2>1 DEF Publishes, IInv, InForce, Bridge
  <2>2. CASE ~Publishes(Head(pending))
    BY <1>3, <1>4, <2>2 DEF IInv, InForce, Bridge
  <2>3. QED
    BY <2>1, <2>2
<1>8. AllSound' /\ Ending' /\ Obeys
  BY <1>3 DEF IInv, AllSound, Sound, Ending, SessionEndRuns, Owes, Obeys
<1>9. QED
  BY <1>6, <1>7, <1>8 DEF IInv

\* The outputs of a command are decisions.
LEMMA OutputsAreDecisions ==
    \A point \in Points : Outputs(point) \subseteq {"none", "context", "deny", "ask", "allow", "stop"}
  BY DEF Outputs

\* A command that ends adds its decision to its pass.
LEMMA HeardIsSound ==
    ASSUME NEW p, Sound(p), NEW outs \in SUBSET {"context", "deny", "ask", "allow", "stop"}
    PROVE  /\ Sound([p EXCEPT !.outs = outs])
           /\ [p EXCEPT !.outs = outs].todo = p.todo /\ [p EXCEPT !.outs = outs].aborted = p.aborted
           /\ [p EXCEPT !.outs = outs].map = p.map
<1> DEFINE q == [p EXCEPT !.outs = outs]
<1>1. /\ q \in Passed /\ q.todo = p.todo /\ q.failed = p.failed /\ q.run = p.run /\ q.point = p.point
      /\ q.aborted = p.aborted /\ q.map = p.map
  BY DEF Sound, Passed
<1> HIDE DEF q
<1>2. Sound(q)
  BY <1>1 DEF Sound
<1>3. QED
  BY <1>1, <1>2 DEF q

\* The final pass goes on with every suite it still owes whose grant stands.
LEMMA FinalAdvance ==
    ASSUME IInv, NEW p, Sound(p), ~p.aborted
    PROVE  /\ Sound(Advance("end", p)) /\ ~Advance("end", p).aborted
           /\ active => \A s \in p.todo : s \in revoked \/ s \in Advance("end", p).todo \cup {Advance("end", p).run}
<1>1. "end" \in Slots
  BY DEF Slots
<1>2. active => \A s \in p.todo : s \in revoked \/ s \in Runs("end", p)
  BY DEF Runs, Stopped, Allowed
<1>3. QED
  BY <1>1, <1>2, AdvanceOutcome DEF IInv, Bridge

\* Only the final pass moves, and whoever it no longer owes has run or lost
\* its grant.
LEMMA FinalStep ==
    ASSUME IInv, UNCHANGED <<selection, lifetime, revoked>>, closing # "no",
           NEW p, passes' = [passes EXCEPT !["end"] = p], Sound(p), ~p.aborted,
           ended \subseteq ended',
           \A s : closing = "closing" /\ Owes(s) => s \in revoked \cup ended' \/ s \in p.todo \cup {p.run},
           applied' = {}
    PROVE  IInv' /\ Obeys
<1>1. passes \in [Slots -> Passed] /\ p \in Passed /\ "end" \in Slots
  BY DEF IInv, Bridge, Sound, Slots
<1>2. passes' \in [Slots -> Passed] /\ passes'["end"] = p /\ \A k \in Slots \ {"end"} : passes'[k] = passes[k]
  BY <1>1
<1>3. Bridge' /\ InForce'
  BY <1>2 DEF IInv, Bridge, InForce, selection, lifetime
<1>4. AllSound'
  <2>1. \A x : Sound(x)' <=> Sound(x)
    BY DEF Sound
  <2>2. QED
    BY <1>2, <2>1 DEF IInv, AllSound
<1>5. Ending'
  <2>1. closing = "closing" => \A s \in Declared(final, "SessionEnd") : s \in revoked \cup ended' \/ s \in p.todo \cup {p.run}
    BY DEF IInv, Ending
  <2>2. QED
    BY <1>2, <2>1 DEF IInv, Ending, SessionEndRuns, Owes, lifetime
<1>6. Obeys
  BY <1>2 DEF Obeys
<1>7. QED
  BY <1>3, <1>4, <1>5, <1>6 DEF IInv

\* A command of any pass ends.
LEMMA ReturnsStep ==
    ASSUME IInv, NEW k \in Slots, Returns(k)
    PROVE  IInv' /\ Obeys
<1>1. Sound(passes[k]) /\ passes[k].outs \in SUBSET {"context", "deny", "ask", "allow", "stop"}
      /\ passes[k].point \in Points \cup {"none"} /\ passes[k].run \in Suites \cup {None}
  BY DEF IInv, AllSound, Sound, Passed
<1>2. passes[k].point \in Points \cup {"none"} => Outputs(passes[k].point) \subseteq {"none", "context", "deny", "ask", "allow", "stop"}
  BY DEF Outputs
<1> DEFINE Heard(out) == IF Stopped(k, passes[k]) \/ out = "none" THEN {} ELSE {out}
<1>3. PICK out \in Outputs(passes[k].point) :
          passes' = [passes EXCEPT ![k] = Advance(k, [passes[k] EXCEPT !.outs = passes[k].outs \cup Heard(out)])]
  BY DEF Returns
<1> DEFINE outs == passes[k].outs \cup Heard(out)
           p == [passes[k] EXCEPT !.outs = outs]
<1>4. outs \in SUBSET {"context", "deny", "ask", "allow", "stop"}
  BY <1>1, <1>2
<1>5. passes' = [passes EXCEPT ![k] = Advance(k, p)]
  BY <1>3
<1> HIDE DEF outs
<1>6. Sound(p) /\ p.todo = passes[k].todo /\ p.aborted = passes[k].aborted /\ p.map = passes[k].map
  BY <1>1, <1>4, HeardIsSound
<1> HIDE DEF p
<1>7. UNCHANGED <<selection, lifetime, revoked>> /\ applied' = {}
  BY DEF Returns, Untouched
<1>8. CASE k = "end"
  <2>1. closing # "no" /\ ~passes["end"].aborted
    BY <1>8, FreeIsSound DEF IInv, Ending, Returns
  <2>2. ended' = ended \cup {passes["end"].run}
    BY <1>8, <2>1 DEF Returns, Stopped
  <2>3. /\ Sound(Advance("end", p)) /\ ~Advance("end", p).aborted
        /\ active => \A s \in p.todo : s \in revoked \/ s \in Advance("end", p).todo \cup {Advance("end", p).run}
    BY <1>6, <1>8, <2>1, FinalAdvance
  <2>4. closing = "closing" => active
    BY DEF IInv, Ending
  <2> DEFINE a == Advance("end", p)
  <2>5. passes' = [passes EXCEPT !["end"] = a] /\ Sound(a) /\ ~a.aborted
    BY <1>5, <1>8, <2>3
  <2>6. \A s : closing = "closing" /\ Owes(s) => s \in revoked \cup ended' \/ s \in a.todo \cup {a.run}
    BY <1>6, <1>8, <2>2, <2>3, <2>4 DEF Owes
  <2> HIDE DEF a
  <2>7. QED
    BY <1>7, <2>1, <2>2, <2>5, <2>6, FinalStep
<1>9. CASE k # "end"
  <2>1. ended' = ended
    BY <1>9 DEF Returns
  <2>2. Sound(Advance(k, p)) /\ Starts(k, Advance(k, p))
    BY <1>6, <1>9, AdvanceStarts
  <2>3. QED
    BY <1>5, <1>7, <1>9, <2>1, <2>2, OnePassStep
<1>10. QED
  BY <1>8, <1>9

\* The final pass begins with every suite selected that declares its end.
LEMMA DisposeStep ==
    ASSUME IInv, Dispose
    PROVE  IInv' /\ Obeys
<1> DEFINE p == IF maps[selected] = {} THEN Free ELSE Advance("end", Pass("SessionEnd"))
<1>1. /\ disposed' = TRUE /\ closing' = "closing" /\ final' = maps[selected] /\ active' = active /\ revoked' = revoked
      /\ ended' = ended /\ revision' = revision /\ selected' = selected /\ pending' = pending /\ applied' = {}
      /\ maps' = [maps EXCEPT ![selected] = {}] /\ passes' = [passes EXCEPT !["end"] = p] /\ closing = "no"
  BY DEF Dispose, Untouched
<1>2. active /\ ended = {} /\ maps[selected] \subseteq Suites
  BY <1>1 DEF IInv, Ending, Bridge
<1>3. Sound(p) /\ ~p.aborted /\ \A s \in Declared(maps[selected], "SessionEnd") : s \in revoked \/ s \in p.todo \cup {p.run}
  <2>1. CASE maps[selected] = {}
    BY <2>1, FreeIsSound DEF Declared
  <2>2. CASE maps[selected] # {}
    <3>1. "SessionEnd" \in Points
      BY DEF Points
    <3>2. /\ Sound(Pass("SessionEnd")) /\ ~Pass("SessionEnd").aborted
          /\ Pass("SessionEnd").todo = Declared(maps[selected], "SessionEnd")
      BY <3>1, PassIsSound
    <3>3. QED
      BY <1>2, <2>2, <3>2, FinalAdvance
  <2>3. QED
    BY <2>1, <2>2
<1> HIDE DEF p
<1>4. passes \in [Slots -> Passed] /\ p \in Passed /\ "end" \in Slots
  BY <1>3 DEF IInv, Bridge, Sound, Slots
<1>5. passes' \in [Slots -> Passed] /\ passes'["end"] = p /\ \A k \in Slots \ {"end"} : passes'[k] = passes[k]
  BY <1>1, <1>4
<1>6. \A r \in 0..MaxReconciles : maps'[r] = {}
  BY <1>1 DEF IInv, InForce, Bridge
<1>7. Bridge' /\ InForce'
  BY <1>1, <1>5, <1>6 DEF IInv, Bridge, InForce
<1>8. AllSound'
  <2>1. \A x : Sound(x)' <=> Sound(x)
    BY DEF Sound
  <2>2. QED
    BY <1>3, <1>5, <2>1 DEF IInv, AllSound
<1>9. Ending'
  <2>1. \A s \in Declared(final', "SessionEnd") : s \in revoked' \cup ended' \/ s \in p.todo \cup {p.run}
    BY <1>1, <1>3
  <2>2. Declared(final, "SessionEnd")' = Declared(final', "SessionEnd")
    BY DEF Declared
  <2>3. QED
    BY <1>1, <1>2, <1>3, <1>5, <2>1, <2>2 DEF Ending, SessionEndRuns, Owes
<1>10. Obeys
  BY <1>1, <1>5 DEF Obeys
<1>11. QED
  BY <1>7, <1>8, <1>9, <1>10 DEF IInv

\* The final pass ends with nothing left in it.
LEMMA EndDecidedStep ==
    ASSUME IInv, EndDecided
    PROVE  IInv' /\ Obeys
<1>1. passes["end"].run = None /\ passes["end"].todo = {} /\ passes["end"].point = "SessionEnd"
  BY DEF EndDecided, Collected
<1>2. closing # "no" /\ Sound(Free) /\ ~Free.aborted /\ Free.run = None
  BY <1>1, FreeIsSound DEF IInv, Ending, Free
<1>3. UNCHANGED <<selection, lifetime, revoked>> /\ ended' = ended /\ applied' = {} /\ passes' = [passes EXCEPT !["end"] = Free]
  BY DEF EndDecided, Frees, Untouched
<1>4. \A s : Owes(s) => s \in Free.todo \cup {Free.run}
  BY <1>1, <1>2 DEF Owes
<1>5. QED
  BY <1>2, <1>3, <1>4, FinalStep

\* The grant closes when the final pass has ended.
LEMMA ClosedStep ==
    ASSUME IInv, Closed
    PROVE  IInv' /\ Obeys
<1>1. /\ closing = "closing" /\ closing' = "closed" /\ passes["end"] = Free /\ applied' = {}
      /\ UNCHANGED <<selection, passes, disposed, final, revoked, ended>>
  BY DEF Closed, Slots, Untouched
<1>2. Bridge' /\ InForce'
  BY <1>1 DEF IInv, Bridge, InForce, selection
<1>3. AllSound' /\ Obeys
  <2>1. \A x : Sound(x)' <=> Sound(x)
    BY DEF Sound
  <2>2. QED
    BY <1>1, <2>1 DEF IInv, AllSound, Obeys
<1>4. \A s \in Declared(final, "SessionEnd") : s \in revoked \cup ended
  <2>1. \A s \in Declared(final, "SessionEnd") : s \in revoked \cup ended \/ s = None
    BY <1>1, FreeIsSound DEF IInv, Ending, Owes
  <2>2. None \notin Declared(final, "SessionEnd")
    BY SuitesAssumption DEF IInv, Ending, Declared
  <2>3. QED
    BY <2>1, <2>2
<1>5. Ending'
  BY <1>1, <1>4 DEF IInv, Ending, SessionEndRuns, Declared
<1>6. QED
  BY <1>2, <1>3, <1>5 DEF IInv

\* A withdrawn grant only frees the final pass from one suite.
LEMMA RevokeStep ==
    ASSUME IInv, NEW s \in Suites, Revoke(s)
    PROVE  IInv' /\ Obeys
<1>1. revoked' = revoked \cup {s} /\ applied' = {} /\ UNCHANGED <<selection, passes, lifetime, ended>>
  BY DEF Revoke, Untouched
<1>2. Bridge' /\ InForce'
  BY <1>1 DEF IInv, Bridge, InForce, selection, lifetime
<1>3. AllSound' /\ Obeys
  <2>1. \A x : Sound(x)' <=> Sound(x)
    BY DEF Sound
  <2>2. QED
    BY <1>1, <2>1 DEF IInv, AllSound, Obeys
<1>4. Ending'
  BY <1>1 DEF IInv, Ending, SessionEndRuns, Owes, lifetime
<1>5. QED
  BY <1>2, <1>3, <1>4 DEF IInv

\* What an event's pass, its end and its way downstream have in common.
LEMMA BeginStep ==
    ASSUME IInv, NEW k \in Slots \ {"end"}, NEW point \in Points, Begins(k, point),
           UNCHANGED <<selection, lifetime, revoked, ended>>
    PROVE  IInv' /\ Obeys
<1>1. passes' = [passes EXCEPT ![k] = Advance(k, Pass(point))] /\ applied' = {}
  BY DEF Begins, Opens, Untouched
<1>2. QED
  BY <1>1, BeginStarts, OnePassStep

LEMMA FreesStep ==
    ASSUME IInv, NEW k \in Slots \ {"end"}, Frees(k), disposed => applied' = {},
           UNCHANGED <<selection, lifetime, revoked, ended>>
    PROVE  IInv' /\ Obeys
  BY FreeStarts, OnePassStep DEF Frees

LEMMA DownstreamStep ==
    ASSUME IInv, Downstream, UNCHANGED <<selection, lifetime, revoked, ended>>
    PROVE  IInv' /\ Obeys
<1>1. "turn" \in Slots \ {"end"} /\ applied' = {}
      /\ passes' = [passes EXCEPT !["turn"] = [passes["turn"] EXCEPT !.phase = "downstream"]]
  BY DEF Downstream, Slots, Untouched, IInv, Bridge
<1>2. QED
  BY <1>1, MarkedStarts, OnePassStep

\* A cancelled turn loses nothing but its pass's effect.
LEMMA CancelStep ==
    ASSUME IInv, NEW others \in [Slots -> Passed], CancelTurn(others), others["end"] = passes["end"],
           others["turn"] = passes["turn"],
           \A k \in Slots \ {"end"} : Sound(others[k]) /\ Starts(k, others[k]),
           disposed => applied' = {}, UNCHANGED <<selection, lifetime, revoked, ended>>
    PROVE  IInv' /\ Obeys
<1>1. CASE passes' = others
  BY <1>1, PassesStep
<1>2. CASE passes' = [others EXCEPT !["turn"].aborted = TRUE]
  <2> DEFINE p == [passes["turn"] EXCEPT !.aborted = TRUE]
  <2>1. "turn" \in Slots \ {"end"}
    BY DEF Slots
  <2>2. Sound(p) /\ Starts("turn", p)
    BY <2>1, MarkedStarts
  <2>3. passes' = [others EXCEPT !["turn"] = p]
    BY <1>2
  <2> HIDE DEF p
  <2>4. p \in Passed
    BY <2>2 DEF Sound
  <2>5. passes' \in [Slots -> Passed] /\ passes'["end"] = passes["end"]
        /\ \A k \in Slots \ {"end"} : Sound(passes'[k]) /\ Starts(k, passes'[k])
    BY <2>1, <2>2, <2>3, <2>4
  <2>6. QED
    BY <2>5, PassesStep
<1>3. QED
  BY <1>1, <1>2 DEF CancelTurn

\* The steps of a turn up to its tool call.
LEMMA PromptSteps ==
    ASSUME IInv, Prompt \/ PromptDecided \/ PromptEnters \/ HookStep \/ CallTool \/ PreDecided \/ PreGoesOn \/ Executes
    PROVE  IInv' /\ Obeys
<1>1. "turn" \in Slots \ {"end"} /\ {"UserPromptSubmit", "PreToolUse"} \subseteq Points
  BY DEF Slots, Points
<1>2. UNCHANGED <<selection, lifetime, revoked, ended>>
  BY DEF Prompt, PromptDecided, PromptEnters, HookStep, CallTool, PreDecided, PreGoesOn, Executes
<1>3. CASE Prompt
  <2>1. CASE Begins("turn", "UserPromptSubmit")
    BY <1>1, <1>2, <2>1, BeginStep
  <2>2. CASE Untouched /\ UNCHANGED passes
    BY <1>2, <2>2, NoPassStep DEF Untouched
  <2>3. QED
    BY <1>3, <2>1, <2>2 DEF Prompt
<1>4. CASE PromptDecided
  <2>1. CASE Frees("turn") /\ ~disposed
    BY <1>1, <1>2, <2>1, FreesStep
  <2>2. CASE Downstream
    BY <1>2, <2>2, DownstreamStep
  <2>3. QED
    BY <1>4, <2>1, <2>2 DEF PromptDecided
<1>5. CASE PromptEnters
  <2>1. Frees("turn") /\ (disposed => applied' = {})
    BY <1>5 DEF PromptEnters, Applies, Untouched
  <2>2. QED
    BY <1>1, <1>2, <2>1, FreesStep
<1>6. CASE HookStep \/ Executes
  BY <1>2, <1>6, NoPassStep DEF HookStep, Executes, Untouched
<1>7. CASE CallTool
  <2>1. CASE Begins("turn", "PreToolUse")
    BY <1>1, <1>2, <2>1, BeginStep
  <2>2. CASE Untouched /\ UNCHANGED passes
    BY <1>2, <2>2, NoPassStep DEF Untouched
  <2>3. QED
    BY <1>7, <2>1, <2>2 DEF CallTool
<1>8. CASE PreDecided
  <2>1. CASE Frees("turn") /\ ~disposed
    BY <1>1, <1>2, <2>1, FreesStep
  <2>2. CASE Downstream
    BY <1>2, <2>2, DownstreamStep
  <2>3. QED
    BY <1>8, <2>1, <2>2 DEF PreDecided
<1>9. CASE PreGoesOn
  <2>1. Frees("turn") /\ (disposed => applied' = {})
    BY <1>9 DEF PreGoesOn, Applies
  <2>2. QED
    BY <1>1, <1>2, <2>1, FreesStep
<1>10. QED
  BY <1>3, <1>4, <1>5, <1>6, <1>7, <1>8, <1>9

\* A failed call falls back to PostToolUse only for suites that have not heard
\* of it.
LEMMA FailureRoutedStep ==
    ASSUME IInv, FailureRouted
    PROVE  IInv' /\ Obeys
<1>1. "turn" \in Slots \ {"end"} /\ "PostToolUse" \in Points
  BY DEF Slots, Points
<1>2. UNCHANGED <<selection, lifetime, revoked, ended>> /\ applied' = {}
  BY DEF FailureRouted, Untouched
<1> DEFINE p == [Pass("PostToolUse") EXCEPT !.outs = passes["turn"].outs, !.failed = passes["turn"].failed,
                                          !.aborted = passes["turn"].aborted]
<1>3. CASE DeclaresFailure
  <2>1. passes' = [passes EXCEPT !["turn"] = [passes["turn"] EXCEPT !.phase = "decide"]]
    BY <1>3 DEF FailureRouted
  <2>2. QED
    BY <1>1, <1>2, <2>1, MarkedStarts, OnePassStep
<1>4. CASE ~DeclaresFailure
  <2>1. passes' = [passes EXCEPT !["turn"] = Advance("turn", p)]
    BY <1>4 DEF FailureRouted
  <2>2. Sound(p)
    <3>1. Sound(passes["turn"]) /\ Sound(Pass("PostToolUse"))
          /\ Pass("PostToolUse").todo = Declared(maps[selected], "PostToolUse")
          /\ Pass("PostToolUse").point = "PostToolUse" /\ Pass("PostToolUse").run = None
      BY <1>1, PassIsSound DEF IInv, AllSound
    <3>2. p \in Passed /\ p.todo = Pass("PostToolUse").todo /\ p.failed = passes["turn"].failed /\ p.run = None
          /\ p.point = "PostToolUse"
      BY <3>1 DEF Sound, Passed
    <3>3. p.todo \cap p.failed = {} /\ None \notin p.failed
      BY <1>4, <3>1, <3>2, SuitesAssumption DEF DeclaresFailure, Declared, Declarers, Sound
    <3> HIDE DEF p
    <3>4. QED
      BY <3>1, <3>2, <3>3 DEF Sound
  <2> HIDE DEF p
  <2>3. QED
    BY <1>1, <1>2, <2>1, <2>2, AdvanceStarts, OnePassStep
<1>5. QED
  BY <1>3, <1>4

\* The steps of a turn from its tool's answer on.
LEMMA AnswerSteps ==
    ASSUME IInv, Answers \/ PostDecided \/ PostGoesOn \/ StopTurn \/ StopDecided \/ Cancel
    PROVE  IInv' /\ Obeys
<1>1. "turn" \in Slots \ {"end"} /\ {"PostToolUse", "PostToolUseFailure", "Stop"} \subseteq Points
  BY DEF Slots, Points
<1>2. UNCHANGED <<selection, lifetime, revoked, ended>>
  BY DEF Answers, PostDecided, PostGoesOn, StopTurn, StopDecided, Cancel
<1>3. CASE Answers
  <2>1. CASE Begins("turn", "PostToolUse") \/ Begins("turn", "PostToolUseFailure")
    BY <1>1, <1>2, <2>1, BeginStep
  <2>2. CASE Untouched /\ UNCHANGED passes
    BY <1>2, <2>2, NoPassStep DEF Untouched
  <2>3. QED
    BY <1>3, <2>1, <2>2 DEF Answers
<1>4. CASE PostDecided
  <2>1. CASE Frees("turn") /\ ~disposed
    BY <1>1, <1>2, <2>1, FreesStep
  <2>2. CASE Downstream
    BY <1>2, <2>2, DownstreamStep
  <2>3. QED
    BY <1>4, <2>1, <2>2 DEF PostDecided
<1>5. CASE PostGoesOn
  <2>1. Frees("turn") /\ (disposed => applied' = {})
    BY <1>5 DEF PostGoesOn, Applies
  <2>2. QED
    BY <1>1, <1>2, <2>1, FreesStep
<1>6. CASE StopTurn
  <2>1. CASE Begins("turn", "Stop")
    BY <1>1, <1>2, <2>1, BeginStep
  <2>2. CASE Untouched /\ UNCHANGED passes
    BY <1>2, <2>2, NoPassStep DEF Untouched
  <2>3. QED
    BY <1>6, <2>1, <2>2 DEF StopTurn
<1>7. CASE StopDecided
  <2>1. Frees("turn") /\ (disposed => applied' = {})
    BY <1>7 DEF StopDecided, Applies, Untouched
  <2>2. QED
    BY <1>1, <1>2, <2>1, FreesStep
<1>8. CASE Cancel
  <2>1. CancelTurn(passes) /\ applied' = {} /\ passes \in [Slots -> Passed]
    BY <1>8 DEF Cancel, Untouched, IInv, Bridge
  <2>2. \A k \in Slots \ {"end"} : Sound(passes[k]) /\ Starts(k, passes[k])
    BY DEF IInv, AllSound, Starts
  <2>3. QED
    BY <1>2, <2>1, <2>2, CancelStep
<1>9. QED
  BY <1>3, <1>4, <1>5, <1>6, <1>7, <1>8

\* The session's start, its subagents and compactions.
LEMMA SessionStepsHold ==
    ASSUME IInv,
           Start \/ StartRuns \/ StartDecided \/ ChildStarts \/ ChildEnds \/ ChildDecided \/ Compacts \/ NoticeDecided
    PROVE  IInv' /\ Obeys
<1>1. {"startup", "turn", "child", "notice"} \subseteq Slots \ {"end"}
      /\ {"SessionStart", "SubagentStart", "SubagentStop", "PreCompact"} \subseteq Points
  BY DEF Slots, Points
<1>2. UNCHANGED <<selection, lifetime, revoked, ended>>
  BY DEF Start, StartRuns, StartDecided, ChildStarts, ChildEnds, ChildDecided, Compacts, NoticeDecided
<1>3. CASE Start
  <2> DEFINE p == [Free EXCEPT !.point = "SessionStart", !.phase = "waiting", !.after = revision]
  <2>1. /\ p \in Passed /\ p.todo = {} /\ p.failed = {} /\ p.run = None /\ p.point = "SessionStart"
    <3>1. Free \in Passed /\ Free.todo = {} /\ Free.failed = {} /\ Free.run = None
      BY FreeIsSound DEF Sound, Free
    <3>2. revision \in 0..MaxReconciles /\ "SessionStart" \in Points \cup {"none"}
      BY <1>1 DEF IInv, Bridge
    <3>3. QED
      BY <3>1, <3>2 DEF Passed
  <2>2. passes' = [passes EXCEPT !["startup"] = p] /\ applied' = {}
    BY <1>3 DEF Start, Opens, Untouched
  <2> HIDE DEF p
  <2>3. Sound(p) /\ Starts("startup", p)
    BY <2>1 DEF Sound, Starts
  <2>4. QED
    BY <1>1, <1>2, <2>2, <2>3, OnePassStep
<1>4. CASE StartRuns
  <2>1. passes' = [passes EXCEPT !["startup"] = Advance("startup", Pass("SessionStart"))] /\ applied' = {}
    BY <1>4 DEF StartRuns, Untouched
  <2>2. QED
    BY <1>1, <1>2, <2>1, BeginStarts, OnePassStep
<1>5. CASE StartDecided
  <2>1. disposed => applied' = {}
    BY <1>5 DEF StartDecided, Applies
  <2>2. CASE Frees("startup")
    BY <1>1, <1>2, <2>1, <2>2, FreesStep
  <2>3. CASE CancelTurn([passes EXCEPT !["startup"] = Free])
    <3> DEFINE others == [passes EXCEPT !["startup"] = Free]
    <3>1. passes \in [Slots -> Passed] /\ Free \in Passed
      BY FreeIsSound DEF IInv, Bridge, Sound
    <3>2. others \in [Slots -> Passed] /\ others["end"] = passes["end"] /\ others["turn"] = passes["turn"]
      BY <1>1, <3>1 DEF Slots
    <3>3. \A k \in Slots \ {"end"} : others[k] = passes[k] \/ others[k] = Free
      BY <3>1
    <3> HIDE DEF others
    <3>4. \A k \in Slots \ {"end"} : Sound(others[k]) /\ Starts(k, others[k])
      BY <3>3, FreeStarts DEF IInv, AllSound, Starts
    <3>5. QED
      BY <1>2, <2>1, <2>3, <3>2, <3>4, CancelStep DEF others
  <2>4. QED
    BY <1>5, <2>2, <2>3 DEF StartDecided
<1>6. CASE ChildStarts
  <2>1. Begins("child", "SubagentStart")
    BY <1>6 DEF ChildStarts
  <2>2. QED
    BY <1>1, <1>2, <2>1, BeginStep
<1>7. CASE ChildEnds
  <2>1. Begins("notice", "SubagentStop")
    BY <1>7 DEF ChildEnds
  <2>2. QED
    BY <1>1, <1>2, <2>1, BeginStep
<1>8. CASE Compacts
  <2>1. Begins("notice", "PreCompact")
    BY <1>8 DEF Compacts
  <2>2. QED
    BY <1>1, <1>2, <2>1, BeginStep
<1>9. CASE ChildDecided
  <2>1. Frees("child") /\ (disposed => applied' = {})
    BY <1>9 DEF ChildDecided, Applies
  <2>2. QED
    BY <1>1, <1>2, <2>1, FreesStep
<1>10. CASE NoticeDecided
  <2>1. Frees("notice") /\ applied' = {}
    BY <1>10 DEF NoticeDecided, Untouched
  <2>2. QED
    BY <1>1, <1>2, <2>1, FreesStep
<1>11. QED
  BY <1>3, <1>4, <1>5, <1>6, <1>7, <1>8, <1>9, <1>10

\* Every step keeps the invariant, and starts only what is in force.
LEMMA StepHolds ==
    ASSUME IInv, [Next]_vars
    PROVE  IInv' /\ (Obeys \/ UNCHANGED vars)
<1>1. CASE UNCHANGED vars
  BY <1>1 DEF vars, selection, lifetime, IInv, Bridge, InForce, AllSound, Sound, Ending, SessionEndRuns, Owes
<1>2. CASE \E suites \in Selections : Reconcile(suites)
  BY <1>2, ReconcileStep
<1>3. CASE Read
  BY <1>3, ReadStep
<1>4. CASE \E k \in Slots : Returns(k)
  BY <1>4, ReturnsStep
<1>5. CASE TurnSteps
  BY <1>5, PromptSteps, FailureRoutedStep, AnswerSteps DEF TurnSteps
<1>6. CASE Prompt \/ CallTool \/ StopTurn \/ Cancel
  BY <1>6, PromptSteps, AnswerSteps
<1>7. CASE SessionSteps
  BY <1>7, SessionStepsHold, EndDecidedStep DEF SessionSteps
<1>8. CASE Start \/ ChildStarts \/ ChildEnds \/ Compacts
  BY <1>8, SessionStepsHold
<1>9. CASE \E s \in Suites : Revoke(s)
  BY <1>9, RevokeStep
<1>10. CASE Dispose \/ Closed
  BY <1>10, DisposeStep, ClosedStep
<1>11. QED
  BY <1>1, <1>2, <1>3, <1>4, <1>5, <1>6, <1>7, <1>8, <1>9, <1>10 DEF Next

-----------------------------------------------------------------------------
(* The theorems                                                            *)

\* The invariant holds in every state the bridge reaches.
THEOREM InvariantHolds == Spec => []IInv
<1>1. IInv /\ [Next]_vars => IInv'
  BY StepHolds
<1>2. QED
  BY <1>1, InitHolds, PTL DEF Spec

\* No suite gets both events of one failed call (on tools/post-execute).
THEOREM NoSuiteHearsTwice == Spec => []FailureSplit
<1>1. IInv => FailureSplit
  BY DEF IInv, AllSound, Sound, FailureSplit, Slots
<1>2. QED
  BY <1>1, InvariantHolds, PTL

\* Every suite selected at the disposal has run its SessionEnd command before
\* the grant closes (sessionEnd, dispose).
THEOREM SessionEndIsServed == Spec => []SessionEndRuns
<1>1. IInv => SessionEndRuns
  BY DEF IInv, Ending
<1>2. QED
  BY <1>1, InvariantHolds, PTL

\* A command starts only for the selection in force and while its grant
\* stands, and none reaches the agent after the disposal (collect).
THEOREM OnlyTheSelectedStart == Spec => OnlyTheSelected
<1>1. IInv /\ [Next]_vars =>
          [/\ \A k \in Slots \ {"end"} :
                 passes'[k].run \notin {None, passes[k].run} =>
                     ~disposed /\ passes'[k].map = revision /\ passes'[k].run \notin revoked
           /\ disposed => applied' = {}]_vars
  BY StepHolds DEF Obeys
<1>2. QED
  BY <1>1, InvariantHolds, PTL DEF Spec, OnlyTheSelected
=============================================================================
