----------------------- MODULE SessionSelectionProofs -----------------------
(***************************************************************************)
(* The safety invariants of SessionSelection, for every set of selections, *)
(* every forked log and every bound.                                       *)
(*                                                                         *)
(* None of them is inductive alone.  IInv adds what the code relies on     *)
(* without saying so: that an activity which works on the journal excludes *)
(* the others, that the checkpoint in memory is the one a replay of the    *)
(* log would find, and where in its turn the host is while it runs them.   *)
(* AInv adds, for the acknowledged requests, what the log keeps of the     *)
(* last one and what the service and its transactions in progress hold of  *)
(* it, until a recovery or a follow commits over it and a restart forgets  *)
(* it.                                                                     *)
(***************************************************************************)
EXTENDS SessionSelection, WellFoundedInduction, TLAPS

-----------------------------------------------------------------------------
(* The replay of SessionJournal reads a log from the front, so what it      *)
(* requires of an event depends on the events before it alone.              *)

Latest(l) == LatestBefore(l, Len(l) + 1)
Committed(l) == EntryAt(l, CommittedBefore(l, Len(l) + 1))
Target(l) == TargetBefore(l, Len(l) + 1)

\* Every nonempty set of naturals has a least element, and a bounded one has a
\* greatest: LastOf and FirstOf choose a position of the log.
LEMMA LeastExists ==
    ASSUME NEW S \in SUBSET Nat, S # {}
    PROVE  \E n \in S : \A m \in S : n <= m
<1>1. PICK n \in S : \A m \in S : <<m, n>> \notin OpToRel(<, Nat)
  BY WFMin, NatLessThanWellFounded, Zenon
<1>2. \A m \in S : ~(m < n)
  BY <1>1, Zenon DEF OpToRel
<1> QED
  BY <1>2

LEMMA PositionsChosen ==
    ASSUME NEW n \in Nat, NEW S \in SUBSET (1 .. n), S # {}
    PROVE  /\ LastOf(S) \in S /\ \A j \in S : j <= LastOf(S)
           /\ FirstOf(S) \in S /\ \A j \in S : FirstOf(S) <= j
<1> DEFINE T == {k \in Nat : n - k \in S}
<1>1. PICK k \in T : \A m \in T : k <= m
  <2>1. PICK j \in S : TRUE
    OBVIOUS
  <2>2. n - j \in T
    BY <2>1
  <2> QED
    BY <2>2, LeastExists
<1>2. n - k \in S /\ \A j \in S : j <= n - k
  <2>1. ASSUME NEW j \in S PROVE j <= n - k
    <3>1. n - j \in T
      BY <2>1
    <3>2. k <= n - j
      BY <3>1, <1>1
    <3> QED
      BY <3>2, <1>1
  <2> QED
    BY <2>1, <1>1
<1>3. \E i \in S : \A j \in S : i <= j
  BY LeastExists
<1> QED
  BY <1>2, <1>3 DEF LastOf, FirstOf

\* Two logs that agree below i are the same log to the replay of event i.
LEMMA BeforeAgree ==
    ASSUME NEW i \in Nat \ {0}, NEW l \in Seq(Entries), NEW m \in Seq(Entries),
           i <= Len(l) + 1, i <= Len(m) + 1,
           \A j \in 1 .. (i - 1) : l[j] = m[j]
    PROVE  /\ LatestBefore(l, i) = LatestBefore(m, i)
           /\ TargetBefore(l, i) = TargetBefore(m, i)
<1>1. /\ BindingsBefore(l, i) = BindingsBefore(m, i)
      /\ CommittedBefore(l, i) = CommittedBefore(m, i)
  BY DEF BindingsBefore, CommittedBefore
<1>2. BindingsBefore(l, i) \in SUBSET (1 .. (i - 1)) /\ CommittedBefore(l, i) \in SUBSET (1 .. (i - 1))
  BY DEF BindingsBefore, CommittedBefore
<1>3. ASSUME NEW S \in SUBSET (1 .. (i - 1)) , S # {}
      PROVE  l[LastOf(S)] = m[LastOf(S)] /\ l[FirstOf(S)] = m[FirstOf(S)]
  BY <1>3, PositionsChosen, i - 1 \in Nat
<1> QED
  BY <1>1, <1>2, <1>3 DEF LatestBefore, TargetBefore, InitialBefore, EntryAt

\* What the replay of a log finds is one of its events, or nothing at all.
LEMMA ReplayType ==
    ASSUME NEW l \in Seq(Entries)
    PROVE  /\ Latest(l) \in Entries \cup {NoEntry} /\ Committed(l) \in Entries \cup {NoEntry}
           /\ EntryAt(l, LiveIntents(l)) \in Entries \cup {NoEntry}
           /\ EntryAt(l, LiveIntents(l)) # NoEntry => EntryAt(l, LiveIntents(l)).kind = "intent"
           /\ Latest(l) # NoEntry => Latest(l).kind \in {"pending", "committed"}
           /\ Committed(l) # NoEntry => Committed(l).kind = "committed"
           /\ InitialBefore(l, Len(l) + 1) \in Selections \cup {NoSel}
           /\ InitialBefore(l, Len(l) + 1) = NoSel <=> Latest(l) = NoEntry
<1> DEFINE i == Len(l) + 1
<1>1. \A e \in Entries : e # NoEntry /\ e.sel \in Selections /\ e.sel # NoSel
  BY SelectionsAssumption DEF Entries, NoEntry, Entry
<1>2. /\ BindingsBefore(l, i) \in SUBSET (1 .. Len(l))
      /\ CommittedBefore(l, i) \in SUBSET (1 .. Len(l))
      /\ LiveIntents(l) \in SUBSET (1 .. Len(l))
  BY DEF BindingsBefore, CommittedBefore, LiveIntents
<1>3. ASSUME NEW S \in SUBSET (1 .. Len(l)), S # {}
      PROVE  LastOf(S) \in S /\ FirstOf(S) \in S /\ l[LastOf(S)] \in Entries /\ l[FirstOf(S)] \in Entries
  <2>1. LastOf(S) \in S /\ FirstOf(S) \in S
    BY <1>3, PositionsChosen, Len(l) \in Nat
  <2>2. LastOf(S) \in 1 .. Len(l) /\ FirstOf(S) \in 1 .. Len(l)
    BY <2>1
  <2>3. \A j \in 1 .. Len(l) : l[j] \in Entries
    OBVIOUS
  <2> QED
    BY <2>1, <2>2, <2>3
<1>4. /\ \A j \in BindingsBefore(l, i) : l[j].kind \in {"pending", "committed"}
      /\ \A j \in CommittedBefore(l, i) : l[j].kind = "committed"
      /\ \A j \in LiveIntents(l) : l[j].kind = "intent"
  BY DEF BindingsBefore, CommittedBefore, LiveIntents
<1> QED
  BY <1>1, <1>2, <1>3, <1>4 DEF Latest, Committed, LatestBefore, InitialBefore, EntryAt

\* The selection a recovery restores, as the checkpoint of a replay names it.
LEMMA TargetOfReplay ==
    ASSUME NEW l \in Seq(Entries)
    PROVE  Target(l) = IF Committed(l) # NoEntry THEN Committed(l).sel
                       ELSE InitialBefore(l, Len(l) + 1)
<1> DEFINE C == CommittedBefore(l, Len(l) + 1)
<1>1. \A e \in Entries : e # NoEntry
  BY DEF Entries, NoEntry, Entry
<1>2. C \in SUBSET (1 .. Len(l))
  BY DEF CommittedBefore
<1>3. C # {} => l[LastOf(C)] \in Entries
  <2>1. C # {} => LastOf(C) \in 1 .. Len(l)
    BY <1>2, PositionsChosen, Len(l) \in Nat
  <2>2. \A j \in 1 .. Len(l) : l[j] \in Entries
    OBVIOUS
  <2> QED
    BY <2>1, <2>2
<1> QED
  BY <1>1, <1>3 DEF Target, TargetBefore, Committed, EntryAt

\* What one more event does to what a replay finds.
LEMMA AppendFinds ==
    ASSUME NEW l \in Seq(Entries), NEW e \in Entries
    PROVE  /\ Append(l, e) \in Seq(Entries) /\ Len(Append(l, e)) = Len(l) + 1
           /\ e.kind = "intent" => Latest(Append(l, e)) = Latest(l)
           /\ e.kind # "intent" => Latest(Append(l, e)) = e
<1> DEFINE m == Append(l, e)
<1>1. /\ m \in Seq(Entries) /\ Len(m) = Len(l) + 1 /\ m[Len(m)] = e
      /\ \A j \in 1 .. Len(l) : m[j] = l[j]
  OBVIOUS
<1>2. CASE e.kind = "intent"
  <2>1. BindingsBefore(m, Len(m) + 1) = BindingsBefore(l, Len(l) + 1)
    BY <1>1, <1>2 DEF BindingsBefore
  <2>2. BindingsBefore(l, Len(l) + 1) \in SUBSET (1 .. Len(l))
    BY DEF BindingsBefore
  <2>3. BindingsBefore(l, Len(l) + 1) # {} => LastOf(BindingsBefore(l, Len(l) + 1)) \in 1 .. Len(l)
    BY <2>2, PositionsChosen, Len(l) \in Nat
  <2> QED
    BY <1>1, <1>2, <2>1, <2>3 DEF Latest, LatestBefore, EntryAt
<1>3. CASE e.kind # "intent"
  <2> DEFINE S == BindingsBefore(m, Len(m) + 1)
  <2>1. S \in SUBSET (1 .. Len(m)) /\ Len(m) \in S
    BY <1>1, <1>3 DEF BindingsBefore, Entries
  <2>2. LastOf(S) \in S /\ \A j \in S : j <= LastOf(S)
    BY <2>1, PositionsChosen, Len(m) \in Nat
  <2>3. LastOf(S) = Len(m)
    BY <2>1, <2>2
  <2> QED
    BY <1>1, <1>3, <2>1, <2>3 DEF Latest, LatestBefore, EntryAt
<1> QED
  BY <1>1, <1>2, <1>3

\* When the last transaction is committed it is the last committed one.
LEMMA CommittedIsLatest ==
    ASSUME NEW l \in Seq(Entries), Latest(l).kind = "committed"
    PROVE  Committed(l) = Latest(l)
<1> DEFINE B == BindingsBefore(l, Len(l) + 1)
           C == CommittedBefore(l, Len(l) + 1)
<1>1. B \in SUBSET (1 .. Len(l)) /\ C \in SUBSET B
  BY DEF BindingsBefore, CommittedBefore
<1>2. B # {}
  BY DEF Latest, LatestBefore, EntryAt, NoEntry, Entry
<1>3. LastOf(B) \in B /\ \A j \in B : j <= LastOf(B)
  BY <1>1, <1>2, PositionsChosen, Len(l) \in Nat
<1>4. LastOf(B) \in C
  BY <1>1, <1>2, <1>3 DEF Latest, LatestBefore, EntryAt, CommittedBefore
<1>5. LastOf(C) \in C /\ \A j \in C : j <= LastOf(C)
  BY <1>1, <1>4, PositionsChosen, Len(l) \in Nat
<1>6. LastOf(B) = LastOf(C)
  BY <1>1, <1>3, <1>4, <1>5
<1> QED
  BY <1>2, <1>4, <1>6 DEF Latest, Committed, LatestBefore, EntryAt

\* An event is judged by the events before it.
LEMMA EntryOKAgree ==
    ASSUME NEW l \in Seq(Entries), NEW m \in Seq(Entries), NEW passed \in Nat,
           NEW i \in 1 .. Len(l), i <= Len(m), \A j \in 1 .. i : l[j] = m[j]
    PROVE  EntryOK(l, i, passed) <=> EntryOK(m, i, passed)
<1>1. LatestBefore(l, i) = LatestBefore(m, i) /\ TargetBefore(l, i) = TargetBefore(m, i)
  BY BeforeAgree
<1> QED
  BY <1>1 DEF EntryOK, PendingOK, CommittedOK

\* So a log keeps replaying when its tail is lost,
LEMMA PrefixReplays ==
    ASSUME NEW l \in Seq(Entries), NEW passed \in Nat, NEW kept \in 0 .. Len(l),
           Replayable(l, passed)
    PROVE  SubSeq(l, 1, kept) \in Seq(Entries) /\ Replayable(SubSeq(l, 1, kept), passed)
<1> DEFINE m == SubSeq(l, 1, kept)
<1>1. m \in Seq(Entries) /\ Len(m) = kept /\ \A j \in 1 .. kept : m[j] = l[j]
  OBVIOUS
<1> HIDE DEF m
<1>2. ASSUME NEW i \in 1 .. kept PROVE EntryOK(m, i, passed)
  <2>1. i \in 1 .. Len(l) /\ i <= Len(m) /\ \A j \in 1 .. i : l[j] = m[j]
    BY <1>1
  <2>2. EntryOK(l, i, passed)
    BY <2>1 DEF Replayable
  <2> QED
    BY <1>1, <2>1, <2>2, EntryOKAgree
<1> QED
  BY <1>1, <1>2 DEF Replayable, m

\* and when a well-made event is appended.
LEMMA AppendReplays ==
    ASSUME NEW l \in Seq(Entries), NEW passed \in Nat, NEW e \in Entries,
           Replayable(l, passed), passed <= Len(l), e.owner = "self",
           e.kind = "pending" =>
              /\ e.rev = NextRevision(Latest(l), "self")
              /\ IF e.rec # NoRec
                 THEN Latest(l) # NoEntry /\ e.rec = NamesLatest(Latest(l)) /\ e.sel = Target(l)
                 ELSE Latest(l).kind # "pending",
           e.kind = "committed" => /\ Latest(l).kind = "pending"
                                   /\ e = [Latest(l) EXCEPT !.kind = "committed"]
    PROVE  Replayable(Append(l, e), passed)
<1> DEFINE m == Append(l, e)
           n == Len(l) + 1
<1>1. m \in Seq(Entries) /\ Len(m) = n /\ m[n] = e /\ \A j \in 1 .. Len(l) : m[j] = l[j]
  OBVIOUS
<1> HIDE DEF m
<1>2. ASSUME NEW i \in 1 .. Len(l) PROVE EntryOK(m, i, passed)
  <2>1. i <= Len(m) /\ \A j \in 1 .. i : l[j] = m[j]
    BY <1>1
  <2>2. EntryOK(l, i, passed)
    BY DEF Replayable
  <2> QED
    BY <1>1, <2>1, <2>2, EntryOKAgree
<1>3. LatestBefore(m, n) = Latest(l) /\ TargetBefore(m, n) = Target(l)
  <2>1. n \in Nat \ {0} /\ n <= Len(m) + 1 /\ \A j \in 1 .. (n - 1) : l[j] = m[j]
    BY <1>1
  <2>2. LatestBefore(l, n) = LatestBefore(m, n) /\ TargetBefore(l, n) = TargetBefore(m, n)
    BY <1>1, <2>1, BeforeAgree
  <2> QED
    BY <2>2 DEF Latest, Target
<1>4. EntryOK(m, n, passed)
  BY <1>1, <1>3 DEF EntryOK, PendingOK, CommittedOK
<1> QED
  BY <1>1, <1>2, <1>4 DEF Replayable, m

-----------------------------------------------------------------------------
(* The activities, the turn and the journal                                 *)

\* An activity past its waiting states works on the journal.
Busy(p) == tx[p].pc \notin {"none", "begin", "queued"}

Exclusive ==
    \A p \in Activities : Busy(p) =>
        /\ ~Ready /\ turn # "running"
        /\ \A q \in Activities : Busy(q) => p = q

\* Who the host lets in: maintenance between turns, the stopping hook at the
\* end of one, the session start once and before anything else.
Hosted ==
    /\ Active("stop") => turn = "stopping"
    /\ Active("maint") => turn = "none"
    /\ Active("init") => Busy("init") /\ tx["init"].kind \in Starts
    /\ boot # "none" => /\ \A p \in Activities : ~Active(p)
                        /\ states = NoState /\ intents = NoIntent /\ req = NoReq
    /\ boot = "created" => turn = "none" /\ ~startFailed

\* A mark never points past the log, and what is durable covers what was inherited.
Marked ==
    /\ inherited <= durable /\ durable <= Len(log)
    /\ \A p \in Activities : tx[p].mark <= Len(log)
    /\ req.mark <= Len(log)

\* What a transaction assumes of the journal between its steps.
Same(binding, t) == binding.rev = t.rev /\ binding.sel = t.sel /\ binding.owner = "self"
Linked ==
    \A p \in Activities :
        /\ tx[p].pc \in {"flushPending", "apply"} =>
              /\ checkpoint.latest = Latest(log) /\ checkpoint.latest.kind = "pending"
              /\ Same(checkpoint.latest, tx[p])
        /\ tx[p].pc \in {"restore", "flushCommitted"} =>
              /\ checkpoint.latest = Latest(log) /\ checkpoint.latest.kind = "committed"
              /\ Same(checkpoint.latest, tx[p])
        /\ tx[p].pc = "flushCommitted" => applied = tx[p].sel
        /\ tx[p].pc = "restore" => checkpoint.committed = checkpoint.latest
        /\ tx[p].pc = "capture" => Latest(log) = NoEntry /\ checkpoint.latest = NoEntry

\* A ready session is its last committed transaction, on every side.
ReadyLinked ==
    Ready => /\ checkpoint.latest = Latest(log) /\ checkpoint.latest.kind = "committed"
             /\ Same(checkpoint.latest, states) /\ applied = states.sel

IInv ==
    /\ TypeOK /\ JournalReplayable
    /\ Exclusive /\ Hosted /\ Marked /\ Linked /\ ReadyLinked /\ StepsKeepSelection

-----------------------------------------------------------------------------
(* What the steps of several actions have in common.                       *)

Checkpoints == [latest : Bindings, committed : Bindings, initial : Grants]

\* An activity that gives up: whatever it wrote, the session is denied.
LEMMA FailureKeeps ==
    ASSUME IInv, NEW p \in Activities, NEW code \in Codes, Busy(p),
           Fail(code), Settle(p, FALSE), checkpoint' \in Checkpoints,
           durable' \in Nat, durable <= durable', durable' <= Len(log), faults' \in Nat,
           UNCHANGED <<log, inherited, states, captured, intents, intentTurn, pai, host,
                       applied, history, restarts>>
    PROVE  IInv'
<1>1. TypeOfJournal' /\ JournalReplayable' /\ TypeOfHost' /\ TypeOfHistory'
  BY DEF IInv, TypeOK, TypeOfJournal, JournalReplayable, TypeOfHost, TypeOfHistory, host, history
<1>2. TypeOfPublished'
  BY DEF IInv, TypeOK, TypeOfPublished, Checkpoints, Fail, Settle, Answer
<1>3. TypeOfRequests' /\ req'.mark = req.mark
  BY DEF IInv, TypeOK, TypeOfRequests, Settle, Answer
<1>4. TypeOfTransactions'
  BY DEF IInv, TypeOK, TypeOfTransactions, Txs, Settle, Answer, Pcs, Kinds, NoTx, Grants, NoRec, Owners,
     Recoveries
<1>5. ~Ready' /\ tx' = [tx EXCEPT ![p] = NoTx] /\ boot = "none"
  BY DEF IInv, Fail, Ready, Settle, Answer, Hosted, Busy, Active
<1>6. Exclusive' /\ Hosted'
  BY <1>5 DEF IInv, Exclusive, Hosted, Busy, Active, NoTx, host
<1>7. Marked'
  BY <1>3, <1>5 DEF IInv, TypeOK, TypeOfJournal, Marked, NoTx
<1>8. Linked'
  BY <1>5 DEF IInv, TypeOK, TypeOfTransactions, Linked, NoTx, Exclusive, Busy
<1>9. ReadyLinked' /\ StepsKeepSelection'
  BY <1>5 DEF ReadyLinked, StepsKeepSelection
<1> QED
  BY <1>1, <1>2, <1>3, <1>4, <1>6, <1>7, <1>8, <1>9 DEF IInv, TypeOK

\* A transaction that begins: its pending envelope continues the journal and is
\* what the checkpoint remembers.
LEMMA BeginKeeps ==
    ASSUME IInv, NEW p \in Activities, NEW kind \in Kinds, NEW rev \in Nat, NEW sel \in Selections,
           NEW rec \in Recoveries, NEW requested \in Nat, NEW cp \in Checkpoints,
           Begin(p, kind, rev, sel, rec, requested, cp),
           rev = NextRevision(Latest(log), "self"),
           IF rec # NoRec
           THEN Latest(log) # NoEntry /\ rec = NamesLatest(Latest(log)) /\ sel = Target(log)
           ELSE Latest(log).kind # "pending",
           Active(p), \A q \in Activities : Busy(q) => q = p,
           p = "init" => kind \in Starts,
           turn # "running", ~Ready', unavailable' \in BOOLEAN, TypeOfRequests',
           UNCHANGED <<durable, inherited, states, errors, captured, startFailed, req, host,
                       applied, history, bounds>>
    PROVE  IInv'
<1> DEFINE tok == Token(rev, requested, cp.latest)
           binding == Entry("pending", "self", rev, tok, sel, rec)
<1>1. tok \in Nat /\ binding \in Entries
  BY DEF Token, Larger, RequestRevision, Checkpoints, Bindings, NoEntry, Entry, Entries
<1>2. log' = Append(log, binding) /\ checkpoint'.latest = binding /\ checkpoint' \in Checkpoints
  BY <1>1 DEF Begin, Checkpoints, Bindings, Grants
<1>3. /\ log' \in Seq(Entries) /\ Len(log') = Len(log) + 1 /\ Latest(log') = binding
      /\ Replayable(log', inherited)
  <2>1. binding.kind = "pending" /\ binding.owner = "self" /\ binding.rev = rev /\ binding.sel = sel
        /\ binding.rec = rec
    BY DEF Entry
  <2>2. log \in Seq(Entries) /\ inherited \in Nat /\ inherited <= Len(log) /\ Replayable(log, inherited)
    BY DEF IInv, TypeOK, TypeOfJournal, JournalReplayable, Marked
  <2> HIDE DEF binding
  <2>3. Replayable(Append(log, binding), inherited)
    BY <1>1, <2>1, <2>2, AppendReplays
  <2> QED
    BY <1>1, <1>2, <2>1, <2>2, <2>3, AppendFinds
<1>4. binding.kind = "pending" /\ Same(binding, [rev |-> rev, sel |-> sel])
  BY DEF Entry, Same
<1>5. /\ tx' = [tx EXCEPT ![p] = [pc |-> "flushPending", kind |-> kind, rev |-> rev, tok |-> tok,
                                  sel |-> sel, rec |-> rec, mark |-> Len(log) + 1, undo |-> applied]]
      /\ boot = "none" /\ turn' = turn /\ boot' = boot
  BY DEF IInv, Begin, Hosted, host
<1> HIDE DEF tok, binding
<1>6. TypeOfJournal' /\ JournalReplayable'
  BY <1>3 DEF IInv, TypeOK, TypeOfJournal, JournalReplayable
<1>7. TypeOfPublished'
  BY <1>2 DEF IInv, TypeOK, TypeOfPublished, Checkpoints
<1>8. TypeOfTransactions'
  BY <1>1, <1>5 DEF IInv, TypeOK, TypeOfTransactions, TypeOfHistory, Txs, Pcs, Grants
<1>9. TypeOfHost' /\ TypeOfHistory'
  BY DEF IInv, TypeOK, TypeOfHost, TypeOfHistory, host, history, bounds
<1>10. Exclusive'
  BY <1>5 DEF Exclusive, Busy
<1>11. Hosted'
  BY <1>5 DEF IInv, Hosted, Busy, Active
<1>12. Marked'
  BY <1>3, <1>5 DEF IInv, TypeOK, TypeOfJournal, TypeOfTransactions, TypeOfRequests, Txs, Marked
<1>13. Linked'
  BY <1>2, <1>3, <1>4, <1>5 DEF IInv, TypeOK, TypeOfTransactions, Linked, Busy, Same
<1>14. ReadyLinked' /\ StepsKeepSelection'
  BY DEF ReadyLinked, StepsKeepSelection
<1> QED
  BY <1>6, <1>7, <1>8, <1>9, <1>10, <1>11, <1>12, <1>13, <1>14 DEF IInv, TypeOK

\* A replay that found nothing to complain of: the start or the recovery moves on
\* to restore what is committed, or to capture when there is nothing.
LEMMA ReplayedKeeps ==
    ASSUME IInv, NEW p \in Activities, Busy(p), NEW t \in Txs,
           t.pc \in {"capture", "restore"}, t.kind = tx[p].kind, t.mark <= Len(log),
           t.pc = "capture" => Latest(log) = NoEntry /\ checkpoint'.latest = NoEntry,
           t.pc = "restore" => /\ t.sel \in Selections /\ Same(checkpoint'.latest, t)
                               /\ checkpoint'.latest = Latest(log)
                               /\ checkpoint'.latest.kind = "committed"
                               /\ checkpoint'.committed = checkpoint'.latest,
           tx' = [tx EXCEPT ![p] = t], checkpoint' \in Checkpoints, captured' \in BOOLEAN,
           TypeOfRequests',
           UNCHANGED <<journal, states, unavailable, errors, startFailed, req, host,
                       applied, history, bounds>>
    PROVE  IInv'
<1>1. TypeOfJournal' /\ JournalReplayable' /\ TypeOfHost' /\ TypeOfHistory'
  BY DEF IInv, TypeOK, TypeOfJournal, JournalReplayable, TypeOfHost, TypeOfHistory, journal, host,
     history, bounds
<1>2. TypeOfPublished'
  BY DEF IInv, TypeOK, TypeOfPublished, Checkpoints
<1>3. TypeOfTransactions'
  BY DEF IInv, TypeOK, TypeOfTransactions
<1>4. ~Ready' /\ boot = "none" /\ turn' = turn
  BY DEF IInv, Exclusive, Hosted, Busy, Active, Ready, host
<1>5. Exclusive' /\ Hosted'
  BY <1>4 DEF IInv, Exclusive, Hosted, Busy, Active, host
<1>6. Marked'
  BY DEF IInv, Marked, journal
<1>7. Linked'
  BY DEF IInv, TypeOK, TypeOfTransactions, Linked, Exclusive, Busy, journal
<1>8. ReadyLinked' /\ StepsKeepSelection'
  BY <1>4 DEF ReadyLinked, StepsKeepSelection
<1> QED
  BY <1>1, <1>2, <1>3, <1>5, <1>6, <1>7, <1>8 DEF IInv, TypeOK

\* A durable pending envelope only moves its own transaction.
LEMMA FlushPendingKeeps ==
    ASSUME IInv, NEW p \in Activities, FlushPending(p)
    PROVE  IInv'
<1>1. TypeOfPublished' /\ TypeOfRequests' /\ TypeOfHost' /\ TypeOfHistory' /\ JournalReplayable' /\ ReadyLinked' /\ StepsKeepSelection'
  BY DEF IInv, TypeOK, TypeOfPublished, TypeOfRequests, TypeOfHost, TypeOfHistory, JournalReplayable,
     ReadyLinked, Ready, StepsKeepSelection, FlushPending, published, requests, host, history, bounds
<1>2. TypeOfJournal'
  BY DEF IInv, TypeOK, TypeOfJournal, TypeOfTransactions, Txs, FlushPending, Flushed, Larger
<1>3. TypeOfTransactions'
  BY DEF IInv, TypeOK, TypeOfTransactions, Txs, Pcs, FlushPending
<1>4. Exclusive'
  BY DEF IInv, Exclusive, Busy, Ready, FlushPending, published, host
<1>5. Hosted'
  BY DEF IInv, Hosted, Busy, Active, FlushPending, host
<1>6. Marked'
  BY DEF IInv, TypeOK, Marked, TypeOfJournal, TypeOfTransactions, Txs, FlushPending, Flushed, Larger,
     requests
<1>7. Linked'
  BY DEF IInv, Linked, Same, FlushPending, published
<1> QED
  BY <1>1, <1>2, <1>3, <1>4, <1>5, <1>6, <1>7 DEF IInv, TypeOK

\* A flush that fails denies the session and leaves the pending envelope to replay.
LEMMA FlushPendingFailsKeeps ==
    ASSUME IInv, NEW p \in Activities, FlushPendingFails(p)
    PROVE  IInv'
<1>1. Busy(p) /\ Fail("failed") /\ Settle(p, FALSE) /\ "failed" \in Codes
  BY DEF FlushPendingFails, Busy, Codes
<1>2. checkpoint' \in Checkpoints
  BY DEF IInv, TypeOK, TypeOfPublished, Checkpoints, FlushPendingFails
<1>3. faults' \in Nat /\ restarts' = restarts
  BY DEF IInv, TypeOK, TypeOfHistory, FlushPendingFails, Fault
<1>4. durable' \in Nat /\ durable <= durable' /\ durable' <= Len(log)
  <2>1. durable \in Nat /\ tx[p].mark \in Nat /\ Len(log) \in Nat
    BY DEF IInv, TypeOK, TypeOfJournal, TypeOfTransactions, Txs
  <2>2. durable <= Len(log) /\ tx[p].mark <= Len(log)
    BY DEF IInv, Marked
  <2>3. durable' \in {durable, Larger(durable, tx[p].mark)}
    BY DEF FlushPendingFails
  <2> QED
    BY <2>1, <2>2, <2>3 DEF Larger
<1> QED
  BY <1>1, <1>2, <1>3, <1>4, FailureKeeps DEF FlushPendingFails

\* The committed twin continues the journal right after its pending envelope.
LEMMA ApplyKeeps ==
    ASSUME IInv, NEW p \in Activities, Apply(p)
    PROVE  IInv'
<1>0. tx' = [tx EXCEPT ![p] = [tx[p] EXCEPT !.pc = "flushCommitted", !.mark = Len(log) + 1]]
  BY DEF Apply
<1> DEFINE binding == [checkpoint.latest EXCEPT !.kind = "committed"]
<1>1. /\ checkpoint.latest = Latest(log) /\ Latest(log).kind = "pending" /\ Same(Latest(log), tx[p])
      /\ Latest(log) \in Entries
  BY ReplayType DEF IInv, Apply, Linked, TypeOK, TypeOfJournal, NoEntry, Entry
<1>2. /\ binding \in Entries /\ binding.kind = "committed" /\ binding.owner = "self" /\ Same(binding, tx[p])
      /\ binding = [Latest(log) EXCEPT !.kind = "committed"]
  BY <1>1 DEF Entries, Same
<1>3. log' = Append(log, binding) /\ checkpoint' = [checkpoint EXCEPT !.latest = binding]
      /\ applied' = tx[p].sel
  BY DEF Apply
<1> HIDE DEF binding
<1>4. /\ log' \in Seq(Entries) /\ Len(log') = Len(log) + 1 /\ Latest(log') = binding
  BY <1>2, <1>3, AppendFinds DEF IInv, TypeOK, TypeOfJournal
<1>5. inherited \in Nat /\ inherited <= Len(log) /\ log \in Seq(Entries) /\ Replayable(log, inherited)
  BY DEF IInv, TypeOK, TypeOfJournal, Marked, JournalReplayable
<1>6. JournalReplayable'
  <2>1. Replayable(Append(log, binding), inherited)
    BY <1>1, <1>2, <1>5, AppendReplays
  <2> QED
    BY <1>3, <2>1 DEF JournalReplayable, Apply
<1>7. TypeOfJournal' /\ TypeOfRequests' /\ TypeOfHost'
  BY <1>4 DEF IInv, TypeOK, TypeOfJournal, TypeOfRequests, TypeOfHost, Apply, requests, host
<1>8. TypeOfPublished' /\ checkpoint'.latest = binding
  BY <1>2, <1>3 DEF IInv, TypeOK, TypeOfPublished, Bindings, Apply
<1>9. TypeOfTransactions'
  <2>1. Len(log) + 1 \in Nat /\ tx[p].sel \in Selections
    BY DEF IInv, TypeOK, TypeOfTransactions, Apply
  <2> QED
    BY <2>1, <1>0 DEF IInv, TypeOK, TypeOfTransactions, Txs, Pcs
<1>10. TypeOfHistory'
  BY DEF IInv, TypeOK, TypeOfTransactions, Txs, TypeOfHistory, Apply, history, bounds
<1>11. /\ tx'[p].pc = "flushCommitted" /\ tx'[p].kind = tx[p].kind /\ tx'[p].mark = Len(log) + 1
       /\ Same(binding, tx'[p]) /\ tx'[p].sel = tx[p].sel
       /\ \A q \in Activities \ {p} : tx'[q] = tx[q] /\ ~Busy(q)
       /\ Busy(p) /\ boot = "none" /\ UNCHANGED <<host, req, unavailable, states, errors>>
  BY <1>0, <1>2 DEF IInv, TypeOK, TypeOfTransactions, Exclusive, Hosted, Busy, Active, Same, Apply,
     requests
<1>12. Exclusive'
  BY <1>11 DEF IInv, Exclusive, Busy, Ready, host
<1>13. Hosted'
  BY <1>11 DEF IInv, Hosted, Busy, Active, Activities, host
<1>14. Marked'
  BY <1>4, <1>11 DEF IInv, TypeOK, TypeOfJournal, TypeOfTransactions, Txs, Marked, Apply
<1>15. Linked'
  <2>1. ASSUME NEW q \in Activities, q # p
        PROVE  tx'[q].pc \notin {"flushPending", "apply", "restore", "flushCommitted", "capture"}
    BY <1>11, <2>1 DEF Busy
  <2> QED
    BY <1>2, <1>3, <1>4, <1>8, <1>11, <2>1 DEF Linked
<1>16. ReadyLinked' /\ StepsKeepSelection'
  BY DEF IInv, ReadyLinked, StepsKeepSelection, Exclusive, Busy, Ready, Apply
<1> QED
  BY <1>6, <1>7, <1>8, <1>9, <1>10, <1>12, <1>13, <1>14, <1>15, <1>16 DEF IInv, TypeOK

\* A rejected apply leaves the pending transaction as the latest one.
LEMMA ApplyFailsKeeps ==
    ASSUME IInv, NEW p \in Activities, ApplyFails(p)
    PROVE  IInv'
<1>1. Busy(p) /\ Fail("failed") /\ Settle(p, FALSE) /\ "failed" \in Codes
  BY DEF ApplyFails, Busy, Codes
<1>2. checkpoint' \in Checkpoints
  BY DEF IInv, TypeOK, TypeOfPublished, Checkpoints, ApplyFails
<1>3. faults' \in Nat /\ restarts' = restarts
  BY DEF IInv, TypeOK, TypeOfHistory, ApplyFails, Fault
<1>4. durable' \in Nat /\ durable <= durable' /\ durable' <= Len(log)
  BY DEF IInv, TypeOK, TypeOfJournal, Marked, ApplyFails, journal
<1> QED
  BY <1>1, <1>2, <1>3, <1>4, FailureKeeps DEF ApplyFails, journal

\* An abort after the effect denies first and then unwinds.
LEMMA ApplyAbortedKeeps ==
    ASSUME IInv, NEW p \in Activities, ApplyAborted(p)
    PROVE  IInv'
<1>1. TypeOfJournal' /\ TypeOfRequests' /\ TypeOfHost' /\ JournalReplayable'
  BY DEF IInv, TypeOK, TypeOfJournal, TypeOfRequests, TypeOfHost, JournalReplayable, ApplyAborted,
     journal, requests, host
<1>2. TypeOfPublished'
  BY DEF IInv, TypeOK, TypeOfPublished, Codes, ApplyAborted, Fail
<1>3. TypeOfTransactions'
  BY DEF IInv, TypeOK, TypeOfTransactions, Txs, Pcs, ApplyAborted, Fault
<1>4. TypeOfHistory'
  BY DEF IInv, TypeOK, TypeOfHistory, Grants, TypeOfTransactions, ApplyAborted, Fault, history
<1>5. Exclusive'
  BY DEF IInv, Exclusive, Busy, Ready, ApplyAborted, Fail, host
<1>6. Hosted'
  BY DEF IInv, Hosted, Busy, Active, ApplyAborted, host
<1>7. Marked'
  BY DEF IInv, Marked, ApplyAborted, journal, requests
<1>8. Linked'
  BY DEF IInv, TypeOK, Linked, Exclusive, Busy, TypeOfTransactions, ApplyAborted
<1>9. ReadyLinked'
  BY DEF ReadyLinked, Ready, ApplyAborted, Fail
<1>10. StepsKeepSelection'
  BY DEF StepsKeepSelection, Ready, ApplyAborted, Fail
<1> QED
  BY <1>1, <1>2, <1>3, <1>4, <1>5, <1>6, <1>7, <1>8, <1>9, <1>10 DEF IInv, TypeOK

\* Publication is the one step that makes a session ready, and only of the latest commit.
LEMMA FlushCommittedKeeps ==
    ASSUME IInv, NEW p \in Activities, FlushCommitted(p)
    PROVE  IInv'
<1>1. TypeOfHistory' /\ JournalReplayable'
  BY DEF IInv, TypeOK, TypeOfHistory, JournalReplayable, FlushCommitted, history, bounds
<1>2. TypeOfJournal'
  BY DEF IInv, TypeOK, TypeOfJournal, TypeOfTransactions, Txs, FlushCommitted, Flushed, Larger
<1>3. TypeOfPublished'
  BY DEF IInv, TypeOK, TypeOfPublished, Codes, TypeOfTransactions, Txs, FlushCommitted, Publish, Settle, Answer
<1>4. TypeOfRequests'
  BY DEF IInv, TypeOK, TypeOfRequests, FlushCommitted, Publish, Settle, Answer
<1>5. TypeOfTransactions'
  BY DEF IInv, TypeOK, TypeOfTransactions, Txs, Pcs, Kinds, NoTx, Grants, NoRec, Owners, Recoveries,
     FlushCommitted, Publish, Settle, Answer
<1>6. TypeOfHost'
  BY DEF IInv, TypeOK, TypeOfHost, FlushCommitted, Publish
<1>7. Exclusive'
  BY DEF IInv, TypeOK, Exclusive, Busy, NoTx, TypeOfTransactions, FlushCommitted, Publish, Settle, Answer
<1>8. Hosted'
  BY DEF IInv, Hosted, Busy, Active, NoTx, FlushCommitted, Publish, Settle, Answer
<1>9. Marked'
  BY DEF IInv, TypeOK, Marked, NoTx, TypeOfJournal, TypeOfTransactions, Txs, FlushCommitted, Flushed,
     Publish, Larger, Settle, Answer
<1>10. Linked'
  BY DEF IInv, Linked, NoTx, FlushCommitted, Publish, Settle, Answer
<1>11. ReadyLinked'
  BY DEF IInv, ReadyLinked, Same, Linked, FlushCommitted, Publish
<1>12. StepsKeepSelection'
  BY DEF IInv, StepsKeepSelection, Exclusive, Busy, FlushCommitted
<1> QED
  BY <1>1, <1>2, <1>3, <1>4, <1>5, <1>6, <1>7, <1>8, <1>9, <1>10, <1>11, <1>12 DEF IInv, TypeOK

\* A callback that throws leaves the commit in the journal and the session denied.
LEMMA CommittedThrowsKeeps ==
    ASSUME IInv, NEW p \in Activities, CommittedThrows(p)
    PROVE  IInv'
<1>0. tx[p].pc \in {"flushCommitted", "restore"} /\ Busy(p) /\ tx[p].sel \in Selections
  BY DEF IInv, TypeOK, TypeOfTransactions, CommittedThrows, Busy
<1>1. TypeOfHost' /\ JournalReplayable'
  BY DEF IInv, TypeOK, TypeOfHost, JournalReplayable, CommittedThrows, host
<1>2. TypeOfJournal'
  BY DEF IInv, TypeOK, TypeOfJournal, TypeOfTransactions, Txs, CommittedThrows, Flushed, Larger
<1>3. TypeOfPublished'
  BY DEF IInv, TypeOK, TypeOfPublished, Codes, TypeOfTransactions, Txs, CommittedThrows, Fail, Answer
<1>4. TypeOfRequests'
  BY DEF IInv, TypeOK, TypeOfRequests, CommittedThrows, Answer
<1>5. TypeOfTransactions'
  BY DEF IInv, TypeOK, TypeOfTransactions, Txs, Pcs, Kinds, NoTx, Grants, NoRec, Owners, Recoveries,
     CommittedThrows, Answer
<1>6. TypeOfHistory'
  BY <1>0 DEF IInv, TypeOK, TypeOfHistory, Grants, CommittedThrows, Fault, history
<1>7. Exclusive'
  BY DEF IInv, TypeOK, Exclusive, Busy, NoTx, TypeOfTransactions, CommittedThrows, Answer
<1>8. Hosted'
  BY DEF IInv, Hosted, Busy, Active, NoTx, CommittedThrows, Answer, host
<1>9. Marked'
  BY DEF IInv, TypeOK, Marked, NoTx, TypeOfJournal, TypeOfTransactions, Txs, CommittedThrows, Flushed,
     Answer, Larger
<1>10. Linked'
  BY <1>0 DEF IInv, TypeOK, Linked, NoTx, Exclusive, Busy, TypeOfTransactions, CommittedThrows, Answer
<1>11. ReadyLinked'
  BY DEF ReadyLinked, Ready, CommittedThrows, Fail
<1>12. StepsKeepSelection'
  BY DEF StepsKeepSelection, Ready, CommittedThrows, Fail
<1> QED
  BY <1>1, <1>2, <1>3, <1>4, <1>5, <1>6, <1>7, <1>8, <1>9, <1>10, <1>11, <1>12 DEF IInv, TypeOK

\* A commit whose flush failed is unwound while the session is denied.
LEMMA FlushCommittedFailsKeeps ==
    ASSUME IInv, NEW p \in Activities, FlushCommittedFails(p)
    PROVE  IInv'
<1>1. TypeOfRequests' /\ TypeOfHost' /\ JournalReplayable'
  BY DEF IInv, TypeOK, TypeOfRequests, TypeOfHost, JournalReplayable, FlushCommittedFails, requests,
     host
<1>2. TypeOfJournal'
  BY DEF IInv, TypeOK, TypeOfJournal, TypeOfTransactions, Txs, FlushCommittedFails, Larger
<1>3. TypeOfPublished'
  BY DEF IInv, TypeOK, TypeOfPublished, Codes, FlushCommittedFails, Fail
<1>4. TypeOfTransactions'
  BY DEF IInv, TypeOK, TypeOfTransactions, Txs, Pcs, FlushCommittedFails, Fail
<1>5. TypeOfHistory'
  BY DEF IInv, TypeOK, TypeOfHistory, FlushCommittedFails, Fault, history
<1>6. Exclusive'
  BY DEF IInv, Exclusive, Busy, Ready, FlushCommittedFails, Fail, host
<1>7. Hosted'
  BY DEF IInv, Hosted, Busy, Active, FlushCommittedFails, host
<1>8. Marked'
  BY DEF IInv, TypeOK, Marked, TypeOfJournal, TypeOfTransactions, Txs, FlushCommittedFails, Larger,
     requests
<1>9. Linked'
  BY DEF IInv, Linked, FlushCommittedFails
<1>10. ReadyLinked'
  BY DEF ReadyLinked, Ready, FlushCommittedFails, Fail
<1>11. StepsKeepSelection'
  BY DEF StepsKeepSelection, Ready, FlushCommittedFails, Fail
<1> QED
  BY <1>1, <1>2, <1>3, <1>4, <1>5, <1>6, <1>7, <1>8, <1>9, <1>10, <1>11 DEF IInv, TypeOK

\* Unwinding touches what is in effect, never the journal.
LEMMA RollbackKeeps ==
    ASSUME IInv, NEW p \in Activities, Rollback(p)
    PROVE  IInv'
<1>1. TypeOfJournal' /\ TypeOfHost' /\ JournalReplayable' /\ StepsKeepSelection'
  BY DEF IInv, TypeOK, TypeOfJournal, TypeOfHost, JournalReplayable, StepsKeepSelection, Exclusive,
     Busy, Rollback, journal, host
<1>2. TypeOfPublished'
  BY DEF IInv, TypeOK, TypeOfPublished, Rollback, Settle, Answer
<1>3. TypeOfRequests'
  BY DEF IInv, TypeOK, TypeOfRequests, Rollback, Settle, Answer
<1>4. TypeOfTransactions'
  BY DEF IInv, TypeOK, TypeOfTransactions, Txs, Pcs, Kinds, NoTx, Grants, NoRec, Owners, Recoveries,
     Rollback, Settle, Answer
<1>5. TypeOfHistory'
  BY DEF IInv, TypeOK, TypeOfHistory, TypeOfTransactions, Txs, Rollback, Fault, history, bounds
<1>6. Exclusive'
  BY DEF IInv, TypeOK, Exclusive, Busy, NoTx, TypeOfTransactions, Rollback, Settle, Answer
<1>7. Hosted'
  BY DEF IInv, Hosted, Busy, Active, NoTx, Rollback, Settle, Answer, host
<1>8. Marked'
  BY DEF IInv, Marked, NoTx, Rollback, Settle, Answer, journal
<1>9. Linked'
  BY DEF IInv, Linked, NoTx, Exclusive, Busy, Rollback, Settle, Answer
<1>10. ReadyLinked'
  BY DEF IInv, ReadyLinked, Ready, Exclusive, Busy, Rollback
<1> QED
  BY <1>1, <1>2, <1>3, <1>4, <1>5, <1>6, <1>7, <1>8, <1>9, <1>10 DEF IInv, TypeOK

\* The start follows the checkpoint the replay found.
LEMMA InitReplayKeeps ==
    ASSUME IInv, NEW p \in Activities, InitReplay(p)
    PROVE  IInv'
<1> DEFINE replayed == Replay(log)
           cp == CheckpointOf(replayed)
           restoring == [tx[p] EXCEPT !.pc = "restore", !.rev = cp.latest.rev, !.sel = cp.latest.sel, !.undo = applied]
           capturing == [tx[p] EXCEPT !.pc = "capture"]
<1>1. /\ Busy(p) /\ Active(p) /\ turn # "running" /\ boot = "none" /\ ~Ready /\ tx[p].kind \in Starts
      /\ \A q \in Activities : Busy(q) => q = p
  BY DEF IInv, Exclusive, Hosted, Active, Busy, InitReplay
<1>2. /\ cp \in Checkpoints /\ cp.latest = Latest(log) /\ cp.committed = Committed(log)
      /\ replayed.latest = cp.latest
  BY ReplayType DEF IInv, TypeOK, TypeOfJournal, Checkpoints, Bindings, Grants, CheckpointOf, Replay,
     Latest, Committed
<1>3. log \in Seq(Entries) /\ Replayable(log, inherited)
  BY DEF IInv, JournalReplayable, TypeOK, TypeOfJournal
<1>4. replayed.intent = NoEntry \/ replayed.intent \in Entries
  BY <1>3, ReplayType DEF Replay
<1>5. UNCHANGED <<durable, inherited, states, intentTurn, pai, host, applied, history, bounds>>
  BY DEF InitReplay
<1>6. \/ /\ checkpoint' = cp /\ Fail("incomplete") /\ Settle(p, FALSE) /\ UNCHANGED <<log, intents, captured>>
      \/ /\ cp.latest.kind # "pending"
         /\ intents' = IF replayed.intent = NoEntry THEN intents
                       ELSE [tok |-> replayed.intent.tok, sel |-> replayed.intent.sel]
         /\ \/ /\ cp.latest.owner = "self" /\ checkpoint' = cp /\ tx' = [tx EXCEPT ![p] = restoring]
               /\ UNCHANGED <<log, captured>>
            \/ /\ cp.latest.owner = "parent"
               /\ Begin(p, tx[p].kind, 1, cp.latest.sel, NoRec, 0, cp) /\ UNCHANGED captured
            \/ /\ cp.latest = NoEntry /\ checkpoint' = cp /\ captured' = TRUE
               /\ tx' = [tx EXCEPT ![p] = capturing] /\ UNCHANGED log
         /\ UNCHANGED <<unavailable, errors, startFailed, chain, req>>
  BY <1>2, <1>3 DEF InitReplay
<1> HIDE DEF cp
<1>7. ASSUME cp.latest # NoEntry PROVE cp.latest \in Entries
  BY <1>2, <1>7 DEF Checkpoints, Bindings
<1>8. CASE checkpoint' = cp /\ Fail("incomplete") /\ Settle(p, FALSE) /\ UNCHANGED <<log, intents, captured>>
  <2>1. "incomplete" \in Codes
    BY DEF Codes
  <2>2. durable' \in Nat /\ durable <= durable' /\ durable' <= Len(log) /\ faults' \in Nat /\ UNCHANGED restarts
    BY <1>5 DEF IInv, TypeOK, TypeOfJournal, TypeOfHistory, Marked, bounds
  <2> QED
    BY <1>1, <1>2, <1>5, <1>8, <2>1, <2>2, FailureKeeps
<1>9. CASE /\ cp.latest.kind # "pending"
           /\ intents' = IF replayed.intent = NoEntry THEN intents
                         ELSE [tok |-> replayed.intent.tok, sel |-> replayed.intent.sel]
           /\ UNCHANGED <<unavailable, errors, startFailed, chain, req>>
           /\ log' = log \/ cp.latest.owner = "parent"
  <2> HIDE DEF replayed
  <2>1. TypeOfRequests'
    BY <1>4, <1>5, <1>9 DEF IInv, TypeOK, TypeOfRequests, Entries
  <2>2. CASE /\ cp.latest.owner = "self" /\ checkpoint' = cp /\ tx' = [tx EXCEPT ![p] = restoring]
             /\ UNCHANGED <<log, captured>>
    <3>1. cp.latest \in Entries /\ cp.latest.kind = "committed" /\ cp.committed = cp.latest
      BY <1>2, <1>3, <1>7, <1>9, <2>2, ReplayType, CommittedIsLatest DEF NoEntry, Entry
    <3>2. cp.latest.rev \in Nat /\ cp.latest.sel \in Selections
      BY <3>1 DEF Entries
    <3>3. /\ restoring \in Txs /\ restoring.pc = "restore" /\ restoring.kind = tx[p].kind
          /\ restoring.mark <= Len(log) /\ restoring.sel \in Selections /\ Same(cp.latest, restoring)
      BY <2>2, <3>2 DEF IInv, TypeOK, TypeOfTransactions, TypeOfHistory, Txs, Pcs, Grants, Marked, Same
    <3>4. captured' \in BOOLEAN
      BY <2>2 DEF IInv, TypeOK, TypeOfPublished
    <3> HIDE DEF restoring
    <3> QED
      BY <1>1, <1>2, <1>5, <1>9, <2>1, <2>2, <3>1, <3>3, <3>4, ReplayedKeeps DEF journal
  <2>3. CASE /\ cp.latest.owner = "parent"
             /\ Begin(p, tx[p].kind, 1, cp.latest.sel, NoRec, 0, cp) /\ UNCHANGED captured
    <3>1. cp.latest \in Entries
      BY <1>7, <2>3 DEF NoEntry, Entry
    <3>2. /\ cp.latest.sel \in Selections /\ tx[p].kind \in Kinds /\ NoRec \in Recoveries
          /\ 1 = NextRevision(Latest(log), "self") /\ Latest(log).kind # "pending"
      BY <1>2, <1>9, <2>3, <3>1 DEF IInv, TypeOK, TypeOfTransactions, Txs, Entries, NoRec, Recoveries,
         Owners, NextRevision
    <3>3. ~Ready' /\ unavailable' \in BOOLEAN
      BY <1>1, <1>5, <1>9 DEF IInv, TypeOK, TypeOfPublished, Ready
    <3> QED
      BY <1>1, <1>2, <1>5, <1>9, <2>1, <2>3, <3>2, <3>3, BeginKeeps
  <2>4. CASE /\ cp.latest = NoEntry /\ checkpoint' = cp /\ captured' = TRUE
             /\ tx' = [tx EXCEPT ![p] = capturing] /\ UNCHANGED log
    <3>1. /\ capturing \in Txs /\ capturing.pc = "capture" /\ capturing.kind = tx[p].kind
          /\ capturing.mark <= Len(log)
      BY DEF IInv, TypeOK, TypeOfTransactions, Txs, Pcs, Marked
    <3> HIDE DEF capturing
    <3> QED
      BY <1>1, <1>2, <1>5, <1>9, <2>1, <2>4, <3>1, ReplayedKeeps DEF journal
  <2> QED
    BY <1>6, <1>8, <1>9, <2>2, <2>3, <2>4
<1> QED
  BY <1>6, <1>8, <1>9

\* Restoring publishes the commit the log ends with.
LEMMA RestoreKeeps ==
    ASSUME IInv, NEW p \in Activities, Restore(p)
    PROVE  IInv'
<1>1. TypeOfJournal' /\ JournalReplayable'
  BY DEF IInv, TypeOK, TypeOfJournal, JournalReplayable, Restore, journal
<1>2. TypeOfPublished'
  BY DEF IInv, TypeOK, TypeOfPublished, Codes, TypeOfTransactions, Txs, Restore, Publish, Settle, Answer
<1>3. TypeOfRequests'
  BY DEF IInv, TypeOK, TypeOfRequests, Restore, Publish, Settle, Answer
<1>4. TypeOfTransactions'
  BY DEF IInv, TypeOK, TypeOfTransactions, Txs, Pcs, Kinds, NoTx, Grants, NoRec, Owners, Recoveries,
     Restore, Publish, Settle, Answer
<1>5. TypeOfHost'
  BY DEF IInv, TypeOK, TypeOfHost, Restore, Publish
<1>6. TypeOfHistory'
  BY DEF IInv, TypeOK, TypeOfHistory, Grants, TypeOfTransactions, Restore, history, bounds
<1>7. Exclusive'
  BY DEF IInv, TypeOK, Exclusive, Busy, NoTx, TypeOfTransactions, Restore, Publish, Settle, Answer
<1>8. Hosted'
  BY DEF IInv, Hosted, Busy, Active, NoTx, Restore, Publish, Settle, Answer
<1>9. Marked'
  BY DEF IInv, Marked, NoTx, Restore, Publish, Settle, Answer, journal
<1>10. Linked'
  BY DEF IInv, TypeOK, Linked, NoTx, Exclusive, Busy, TypeOfTransactions, Restore, Publish, Settle, Answer
<1>11. ReadyLinked'
  BY DEF IInv, ReadyLinked, Same, Linked, Restore, Publish, journal
<1>12. StepsKeepSelection'
  BY DEF IInv, StepsKeepSelection, Exclusive, Busy, Restore
<1> QED
  BY <1>1, <1>2, <1>3, <1>4, <1>5, <1>6, <1>7, <1>8, <1>9, <1>10, <1>11, <1>12 DEF IInv, TypeOK

\* A start or recovery whose reads fail gives up.
LEMMA ReplayFailsKeeps ==
    ASSUME IInv, NEW p \in Activities, ReplayFails(p)
    PROVE  IInv'
<1>1. Busy(p) /\ Fail("failed") /\ Settle(p, FALSE) /\ "failed" \in Codes
  BY DEF ReplayFails, Busy, Codes
<1>2. checkpoint' \in Checkpoints
  BY DEF IInv, TypeOK, TypeOfPublished, Checkpoints, ReplayFails
<1>3. faults' \in Nat /\ restarts' = restarts
  BY DEF IInv, TypeOK, TypeOfHistory, ReplayFails, Fault
<1>4. durable' \in Nat /\ durable <= durable' /\ durable' <= Len(log)
  BY DEF IInv, TypeOK, TypeOfJournal, Marked, ReplayFails, journal
<1> QED
  BY <1>1, <1>2, <1>3, <1>4, FailureKeeps DEF ReplayFails, journal

\* A capture writes the first transaction of a log without any.
LEMMA CaptureKeeps ==
    ASSUME IInv, NEW p \in Activities, Capture(p)
    PROVE  IInv'
<1>1. PICK sel \in Selections : Begin(p, tx[p].kind, 1, sel, NoRec, 0, checkpoint)
  BY DEF Capture
<1>2. tx[p].kind \in Kinds /\ checkpoint \in Checkpoints /\ NoRec \in Recoveries
  BY DEF IInv, TypeOK, TypeOfTransactions, TypeOfPublished, Txs, Checkpoints, NoRec, Recoveries, Owners
<1>3. Latest(log) = NoEntry /\ Latest(log).kind # "pending" /\ 1 = NextRevision(Latest(log), "self")
  BY DEF IInv, Linked, Capture, NextRevision, NoEntry, Entry
<1>4. /\ Active(p) /\ Busy(p) /\ turn # "running" /\ ~Ready' /\ unavailable' \in BOOLEAN
      /\ \A q \in Activities : Busy(q) => q = p
      /\ p = "init" => tx[p].kind \in Starts
  BY DEF IInv, TypeOK, TypeOfPublished, Exclusive, Hosted, Capture, Active, Busy, Ready
<1>5. TypeOfRequests'
  BY DEF IInv, TypeOK, TypeOfRequests, Capture, requests
<1> QED
  BY <1>1, <1>2, <1>3, <1>4, <1>5, BeginKeeps DEF Capture, requests

\* A promotion is an ordinary transaction from the committed selection.
LEMMA PromoteKeeps ==
    ASSUME IInv, NEW p \in Activities, Promote(p)
    PROVE  IInv'
<1>1. Active(p) /\ boot = "none" /\ p # "init" /\ turn # "running"
  BY DEF IInv, Hosted, Active, Busy, Promote, Activities
<1>2. TypeOfRequests' /\ req' = req
  BY DEF IInv, TypeOK, TypeOfRequests, Promote
<1>3. CASE PromotionDue
  <2>1. Begin(p, "promote", states.rev + 1, intents.sel, NoRec, intents.tok, checkpoint) /\ unavailable' = TRUE
    BY <1>3 DEF Promote, Deny
  <2>2. /\ "promote" \in Kinds /\ intents.sel \in Selections /\ intents.tok \in Nat
        /\ checkpoint \in Checkpoints /\ NoRec \in Recoveries /\ states.rev \in Nat
    BY <1>3 DEF IInv, TypeOK, TypeOfRequests, TypeOfPublished, Checkpoints, NoRec, NoState, Recoveries,
       Owners, Kinds, PromotionDue
  <2>3. Latest(log).kind # "pending" /\ states.rev + 1 = NextRevision(Latest(log), "self")
    BY <1>3 DEF IInv, ReadyLinked, Same, NextRevision, PromotionDue
  <2>4. ~Ready' /\ \A q \in Activities : ~Busy(q)
    BY <1>3, <2>1 DEF IInv, Exclusive, Ready, PromotionDue
  <2>5. UNCHANGED <<durable, inherited, states, errors, captured, startFailed, req, host,
                    applied, history, bounds>>
    BY <1>3 DEF Promote, host
  <2> QED
    BY <1>1, <1>2, <2>1, <2>2, <2>3, <2>4, <2>5, BeginKeeps
<1>4. CASE ~PromotionDue
  <2>1. /\ tx' = [tx EXCEPT ![p] = NoTx] /\ driver' \in BOOLEAN
        /\ UNCHANGED <<journal, published, intents, applied, history, bounds, turn, entered, parked, boot>>
    BY <1>4 DEF Promote, journal, published
  <2>2. /\ TypeOfJournal' /\ JournalReplayable' /\ TypeOfPublished' /\ TypeOfHost' /\ TypeOfHistory'
        /\ ReadyLinked' /\ StepsKeepSelection'
    BY <2>1 DEF IInv, TypeOK, TypeOfJournal, JournalReplayable, TypeOfPublished, TypeOfHost,
       TypeOfHistory, ReadyLinked, StepsKeepSelection, Ready, journal, published, history, bounds
  <2>3. TypeOfTransactions'
    BY <2>1 DEF IInv, TypeOK, TypeOfTransactions, Txs, Pcs, Kinds, NoTx, Grants, NoRec, Owners,
       Recoveries
  <2>4. Exclusive' /\ Hosted'
    BY <1>1, <1>2, <2>1 DEF IInv, Exclusive, Hosted, Busy, Active, Ready, NoTx, published
  <2>5. Marked' /\ Linked'
    BY <1>2, <2>1 DEF IInv, Marked, Linked, NoTx, journal, published
  <2> QED
    BY <1>2, <2>2, <2>3, <2>4, <2>5 DEF IInv, TypeOK
<1> QED
  BY <1>3, <1>4

\* The session start of a created agent runs before anything else.
LEMMA CreatedKeeps ==
    ASSUME IInv, Created
    PROVE  IInv'
<1>1. TypeOfJournal' /\ TypeOfRequests' /\ TypeOfHistory' /\ JournalReplayable'
  BY DEF IInv, TypeOK, TypeOfJournal, TypeOfRequests, TypeOfHistory, JournalReplayable, Created,
     journal, requests, history, bounds
<1>2. TypeOfPublished'
  BY DEF IInv, TypeOK, TypeOfPublished, Codes, Created, Initialize
<1>3. TypeOfTransactions'
  BY DEF IInv, TypeOK, TypeOfTransactions, Txs, Pcs, Kinds, NoTx, Grants, NoRec, Owners, Recoveries,
     Created, Initialize
<1>4. TypeOfHost'
  BY DEF IInv, TypeOK, TypeOfHost, Created, Initialize
<1>5. Exclusive'
  BY DEF IInv, Exclusive, Busy, Ready, Hosted, Active, Created, Initialize
<1>6. Hosted'
  BY DEF IInv, Hosted, Busy, Active, Starts, Created, Initialize
<1>7. Marked'
  BY DEF IInv, Marked, NoTx, Created, Initialize, journal, requests
<1>8. Linked'
  BY DEF IInv, Linked, Created, Initialize, journal
<1>9. ReadyLinked'
  BY DEF ReadyLinked, Ready, Created, Initialize
<1>10. StepsKeepSelection'
  BY DEF StepsKeepSelection, Ready, Created, Initialize
<1> QED
  BY <1>1, <1>2, <1>3, <1>4, <1>5, <1>6, <1>7, <1>8, <1>9, <1>10 DEF IInv, TypeOK

\* A reloaded service starts the session inside the maintenance slot.
LEMMA AttachKeeps ==
    ASSUME IInv, Attach
    PROVE  IInv'
<1>1. TypeOfJournal' /\ TypeOfRequests' /\ TypeOfHistory' /\ JournalReplayable'
  BY DEF IInv, TypeOK, TypeOfJournal, TypeOfRequests, TypeOfHistory, JournalReplayable, Attach, journal,
     requests, history, bounds
<1>2. TypeOfPublished'
  BY DEF IInv, TypeOK, TypeOfPublished, Codes, Attach, Initialize
<1>3. TypeOfTransactions'
  BY DEF IInv, TypeOK, TypeOfTransactions, Txs, Pcs, Kinds, NoTx, Grants, NoRec, Owners, Recoveries,
     Attach, Initialize
<1>4. TypeOfHost'
  BY DEF IInv, TypeOK, TypeOfHost, Attach, Initialize
<1>5. Exclusive'
  BY DEF IInv, Exclusive, Busy, Ready, Hosted, Active, Attach, Initialize, SlotFree
<1>6. Hosted'
  BY DEF IInv, Hosted, Busy, Active, Attach, Initialize, SlotFree
<1>7. Marked'
  BY DEF IInv, Marked, NoTx, Attach, Initialize, journal, requests
<1>8. Linked'
  BY DEF IInv, Linked, Attach, Initialize, journal
<1>9. ReadyLinked'
  BY DEF ReadyLinked, Ready, Attach, Initialize
<1>10. StepsKeepSelection'
  BY DEF StepsKeepSelection, Ready, Attach, Initialize
<1> QED
  BY <1>1, <1>2, <1>3, <1>4, <1>5, <1>6, <1>7, <1>8, <1>9, <1>10 DEF IInv, TypeOK

\* A busy agent stays denied until it is idle.
LEMMA AttachBusyKeeps ==
    ASSUME IInv, AttachBusy
    PROVE  IInv'
<1>1. TypeOfJournal' /\ TypeOfRequests' /\ TypeOfTransactions' /\ TypeOfHistory' /\ JournalReplayable' /\ Exclusive' /\ Marked' /\ Linked' /\ ReadyLinked' /\ StepsKeepSelection'
  BY DEF IInv, TypeOK, TypeOfJournal, TypeOfRequests, TypeOfTransactions, TypeOfHistory,
     JournalReplayable, Exclusive, Busy, Ready, Marked, Linked, ReadyLinked, StepsKeepSelection,
     AttachBusy, journal, requests, history, bounds
<1>2. TypeOfPublished'
  BY DEF IInv, TypeOK, TypeOfPublished, Codes, AttachBusy
<1>3. TypeOfHost'
  BY DEF IInv, TypeOK, TypeOfHost, AttachBusy
<1>4. Hosted'
  BY DEF IInv, Hosted, Busy, Active, AttachBusy, requests
<1> QED
  BY <1>1, <1>2, <1>3, <1>4 DEF IInv, TypeOK

\* A recovery is let in only while nothing else works on the journal.
LEMMA RecoverKeeps ==
    ASSUME IInv, Recover
    PROVE  IInv'
<1>1. TypeOfJournal' /\ TypeOfPublished' /\ TypeOfRequests' /\ TypeOfHost' /\ TypeOfHistory' /\ JournalReplayable' /\ ReadyLinked' /\ StepsKeepSelection'
  BY DEF IInv, TypeOK, TypeOfJournal, TypeOfPublished, TypeOfRequests, TypeOfHost, TypeOfHistory,
     JournalReplayable, ReadyLinked, Ready, StepsKeepSelection, Recover, journal, published, requests,
     host, history, bounds
<1>2. TypeOfTransactions'
  <2>1. checkpoint.latest.rev \in Nat
    BY DEF IInv, TypeOK, TypeOfPublished, Bindings, Entries, NoEntry, Entry
  <2> QED
    BY <2>1 DEF IInv, TypeOK, TypeOfTransactions, Txs, Pcs, Kinds, NoTx, Grants, NoRec, Owners,
       Recoveries, Recover
<1>3. Exclusive'
  BY DEF IInv, Exclusive, Busy, Ready, Hosted, Active, Recover, SlotFree, Recoverable, Initializing,
     published, host, Activities
<1>4. Hosted'
  BY DEF IInv, Hosted, Busy, Active, Recover, SlotFree, host
<1>5. Marked'
  BY DEF IInv, Marked, NoTx, Recover, journal, requests
<1>6. Linked'
  BY DEF IInv, Linked, Recover, journal, published
<1> QED
  BY <1>1, <1>2, <1>3, <1>4, <1>5, <1>6 DEF IInv, TypeOK

\* A recovery restores the target that the replay names, and names what it gives up.
LEMMA RecoverReplayKeeps ==
    ASSUME IInv, RecoverReplay
    PROVE  IInv'
<1> DEFINE q == "maint"
           cp == CheckpointOf(Replay(log))
           target == IF cp.committed # NoEntry THEN cp.committed.sel
                     ELSE IF cp.initial # NoSel THEN cp.initial ELSE checkpoint.initial
<1>1. /\ q \in Activities /\ Busy(q) /\ Active(q) /\ turn # "running" /\ boot = "none" /\ ~Ready
      /\ \A p \in Activities : Busy(p) => p = q
  BY DEF IInv, Exclusive, Hosted, Active, Busy, RecoverReplay, Activities
<1>2. /\ cp \in Checkpoints /\ cp.latest = Latest(log) /\ cp.committed = Committed(log)
      /\ cp.initial = InitialBefore(log, Len(log) + 1) /\ Replay(log).latest = cp.latest
      /\ Replay(log).committed = cp.committed /\ Replay(log).initial = cp.initial
  BY ReplayType DEF IInv, TypeOK, TypeOfJournal, Checkpoints, Bindings, Grants, CheckpointOf, Replay,
     Latest, Committed
<1>3. log \in Seq(Entries) /\ Replayable(log, inherited)
  BY DEF IInv, JournalReplayable, TypeOK, TypeOfJournal
<1>4. TypeOfRequests' /\ req'.mark = req.mark
  BY DEF IInv, TypeOK, TypeOfRequests, RecoverReplay, Settle, Answer
<1>5. \/ /\ Fail("conflict") /\ Settle(q, FALSE) /\ UNCHANGED <<log, checkpoint>>
      \/ /\ target = NoSel /\ checkpoint' = cp /\ tx' = [tx EXCEPT ![q].pc = "capture"]
         /\ UNCHANGED <<log, unavailable, errors, startFailed, chain, req>>
      \/ /\ target # NoSel
         /\ Begin(q, "recover", NextRevision(cp.latest, "self"), target, RecoveryOf(cp.latest), 0, cp)
         /\ UNCHANGED <<unavailable, errors, startFailed, chain, req>>
  BY <1>2, <1>3 DEF RecoverReplay
<1>6. UNCHANGED <<durable, inherited, states, captured, intents, intentTurn, pai, host, applied, history, bounds>>
  BY DEF RecoverReplay
<1> HIDE DEF cp
<1>7. CASE Fail("conflict") /\ Settle(q, FALSE) /\ UNCHANGED <<log, checkpoint>>
  <2>1. checkpoint' \in Checkpoints /\ "conflict" \in Codes
    BY <1>7 DEF IInv, TypeOK, TypeOfPublished, Checkpoints, Codes
  <2>2. durable' \in Nat /\ durable <= durable' /\ durable' <= Len(log) /\ faults' \in Nat /\ UNCHANGED restarts
    BY <1>6 DEF IInv, TypeOK, TypeOfJournal, TypeOfHistory, Marked, bounds
  <2> QED
    BY <1>1, <1>6, <1>7, <2>1, <2>2, FailureKeeps
<1>8. CASE /\ target = NoSel /\ checkpoint' = cp /\ tx' = [tx EXCEPT ![q].pc = "capture"]
           /\ UNCHANGED <<log, unavailable, errors, startFailed, chain, req>>
  <2> DEFINE t == [tx[q] EXCEPT !.pc = "capture"]
  <2>1. /\ t \in Txs /\ t.pc = "capture" /\ t.kind = tx[q].kind /\ t.mark <= Len(log)
        /\ tx' = [tx EXCEPT ![q] = t]
    BY <1>1, <1>8 DEF IInv, TypeOK, TypeOfTransactions, Txs, Pcs, Marked
  <2> HIDE DEF t
  <2>2. Latest(log) = NoEntry
    BY <1>2, <1>3, <1>8, ReplayType, SelectionsAssumption DEF Entries
  <2>3. captured' \in BOOLEAN
    BY <1>6 DEF IInv, TypeOK, TypeOfPublished
  <2> QED
    BY <1>1, <1>2, <1>4, <1>6, <1>8, <2>1, <2>2, <2>3, ReplayedKeeps DEF journal
<1>9. CASE /\ target # NoSel
           /\ Begin(q, "recover", NextRevision(cp.latest, "self"), target, RecoveryOf(cp.latest), 0, cp)
           /\ UNCHANGED <<unavailable, errors, startFailed, chain, req>>
  <2> DEFINE rev == NextRevision(cp.latest, "self")
             rec == RecoveryOf(cp.latest)
  <2>1. /\ target \in Selections /\ rev \in Nat /\ rec \in Recoveries /\ "recover" \in Kinds
    <3>1. /\ cp.latest \in Entries \cup {NoEntry} /\ cp.committed \in Entries \cup {NoEntry}
          /\ cp.initial \in Grants /\ checkpoint.initial \in Grants
      BY <1>2 DEF IInv, TypeOK, TypeOfPublished, Checkpoints, Bindings
    <3>2. target \in Selections
      BY <1>9, <3>1 DEF Grants, Entries
    <3>3. rev \in Nat
      BY <3>1 DEF NextRevision, Entries, NoEntry, Entry
    <3>4. rec \in Recoveries
      BY <3>1 DEF RecoveryOf, NamesLatest, Entries, Recoveries, Owners, NoRec
    <3> QED
      BY <3>2, <3>3, <3>4 DEF Kinds
  <2>2. IF rec # NoRec
        THEN Latest(log) # NoEntry /\ rec = NamesLatest(Latest(log)) /\ target = Target(log)
        ELSE Latest(log).kind # "pending"
    <3>1. CASE Latest(log) = NoEntry
      BY <1>2, <3>1 DEF RecoveryOf, NoEntry, Entry
    <3>2. CASE Latest(log) # NoEntry
      <4>1. rec = NamesLatest(Latest(log)) /\ rec # NoRec
        BY <1>2, <1>3, <3>2, ReplayType DEF RecoveryOf, NamesLatest, NoRec, Entries
      <4>2. target = Target(log)
        BY <1>2, <1>3, <3>2, ReplayType, TargetOfReplay
      <4> QED
        BY <3>2, <4>1, <4>2
    <3> QED
      BY <3>1, <3>2
  <2>3. ~Ready' /\ unavailable' \in BOOLEAN
    BY <1>1, <1>6, <1>9 DEF IInv, TypeOK, TypeOfPublished, Ready
  <2>4. q # "init" /\ 0 \in Nat /\ rev = NextRevision(Latest(log), "self")
    BY <1>2
  <2>5. Begin(q, "recover", rev, target, rec, 0, cp)
    BY <1>9
  <2> HIDE DEF rev, rec, target
  <2> QED
    BY <1>1, <1>2, <1>4, <1>6, <1>9, <2>1, <2>2, <2>3, <2>4, <2>5, BeginKeeps
<1> QED
  BY <1>5, <1>7, <1>8, <1>9

\* Following the catalog starts as any change does.
LEMMA FollowKeeps ==
    ASSUME IInv, Follow
    PROVE  IInv'
<1>1. TypeOfJournal' /\ TypeOfPublished' /\ TypeOfRequests' /\ TypeOfHost' /\ TypeOfHistory' /\ JournalReplayable' /\ ReadyLinked' /\ StepsKeepSelection'
  BY DEF IInv, TypeOK, TypeOfJournal, TypeOfPublished, TypeOfRequests, TypeOfHost, TypeOfHistory,
     JournalReplayable, ReadyLinked, StepsKeepSelection, Follow, journal, published, requests, host,
     history, bounds
<1>2. TypeOfTransactions'
  <2>1. states.rev \in Nat
    BY DEF IInv, TypeOK, TypeOfPublished, NoState
  <2>2. PICK sel \in Selections : tx' = [tx EXCEPT !["maint"] = [NoTx EXCEPT !.pc = "begin", !.kind = "follow",
                                                                !.rev = states.rev, !.sel = sel]]
    BY DEF Follow
  <2> QED
    BY <2>1, <2>2 DEF IInv, TypeOK, TypeOfTransactions, Txs, Pcs, Kinds, NoTx, Grants, NoRec, Owners,
       Recoveries
<1>3. Exclusive'
  BY DEF IInv, Exclusive, Busy, Follow
<1>4. Hosted'
  BY DEF IInv, Hosted, Busy, Active, Follow, SlotFree, Ready, host
<1>5. Marked'
  BY DEF IInv, Marked, NoTx, Follow, journal, requests
<1>6. Linked'
  BY DEF IInv, Linked, Exclusive, Busy, Follow
<1> QED
  BY <1>1, <1>2, <1>3, <1>4, <1>5, <1>6 DEF IInv, TypeOK

\* A change compares against the ready selection before it writes.
LEMMA ChangeKeeps ==
    ASSUME IInv, Change
    PROVE  IInv'
<1> DEFINE q == "maint"
<1>1. Active(q) /\ turn = "none" /\ boot = "none" /\ q \in Activities
  BY DEF IInv, Hosted, Active, Change, Activities
<1>2. TypeOfRequests' /\ req'.mark = req.mark
  BY DEF IInv, TypeOK, TypeOfRequests, Change
<1>3. CASE Ready /\ states.rev = tx[q].rev
  <2>1. Begin(q, tx[q].kind, states.rev + 1, tx[q].sel, NoRec, tx[q].tok, checkpoint) /\ unavailable' = TRUE
    BY <1>3 DEF Change, Deny
  <2>2. /\ tx[q].kind \in Kinds /\ tx[q].sel \in Selections /\ tx[q].tok \in Nat
        /\ checkpoint \in Checkpoints /\ NoRec \in Recoveries /\ states.rev \in Nat
    BY DEF IInv, TypeOK, TypeOfTransactions, TypeOfPublished, Txs, Checkpoints, NoRec, NoState,
       Recoveries, Owners, Change, Activities
  <2>3. Latest(log).kind # "pending" /\ states.rev + 1 = NextRevision(Latest(log), "self")
    BY <1>3 DEF IInv, ReadyLinked, Same, NextRevision
  <2>4. ~Ready' /\ \A p \in Activities : ~Busy(p)
    BY <1>3, <2>1 DEF IInv, Exclusive, Ready
  <2>5. UNCHANGED <<durable, inherited, states, errors, captured, startFailed, req, host,
                    applied, history, bounds>>
    BY <1>3 DEF Change
  <2> QED
    BY <1>1, <1>2, <2>1, <2>2, <2>3, <2>4, <2>5, BeginKeeps
<1>4. CASE ~(Ready /\ states.rev = tx[q].rev)
  <2>1. /\ tx' = [tx EXCEPT ![q] = NoTx]
        /\ UNCHANGED <<journal, published, applied, history, bounds, host>>
    BY <1>4 DEF Change, journal, published
  <2>2. /\ TypeOfJournal' /\ JournalReplayable' /\ TypeOfPublished' /\ TypeOfHost' /\ TypeOfHistory'
        /\ ReadyLinked' /\ StepsKeepSelection'
    BY <2>1 DEF IInv, TypeOK, TypeOfJournal, JournalReplayable, TypeOfPublished, TypeOfHost,
       TypeOfHistory, ReadyLinked, StepsKeepSelection, Ready, journal, published, history, bounds, host
  <2>3. TypeOfTransactions'
    BY <2>1 DEF IInv, TypeOK, TypeOfTransactions, Txs, Pcs, Kinds, NoTx, Grants, NoRec, Owners,
       Recoveries
  <2>4. Exclusive' /\ Hosted'
    BY <1>1, <2>1 DEF IInv, Exclusive, Hosted, Busy, Active, Ready, NoTx, published, host
  <2>5. Marked' /\ Linked'
    BY <1>2, <2>1 DEF IInv, Marked, Linked, NoTx, journal, published
  <2> QED
    BY <1>2, <2>2, <2>3, <2>4, <2>5 DEF IInv, TypeOK
<1> QED
  BY <1>3, <1>4

\* A request is an idle change or an intent, and an intent is no transaction.
LEMMA RequestKeeps ==
    ASSUME IInv, NEW sel \in Selections, Request(sel)
    PROVE  IInv'
<1> DEFINE tok == SelectionRevision + 1
           intent == Entry("intent", "self", 0, tok, sel, NoRec)
<1>1. tok \in Nat /\ states.rev \in Nat /\ intent \in Entries /\ intent.kind = "intent" /\ intent.owner = "self"
  BY DEF IInv, TypeOK, TypeOfRequests, TypeOfPublished, SelectionRevision, NoState, NoEntry, Bindings,
     Entries, Entry, NoRec, Recoveries, Owners
<1>2. /\ boot = "none" /\ Ready /\ \A p \in Activities : ~Busy(p)
      /\ UNCHANGED <<durable, inherited, published, intents, host, applied, history, bounds>>
  BY DEF IInv, Exclusive, Request
<1>3. /\ TypeOfPublished' /\ TypeOfHost' /\ TypeOfHistory' /\ StepsKeepSelection'
  BY <1>2 DEF IInv, TypeOK, TypeOfPublished, TypeOfHost, TypeOfHistory, StepsKeepSelection, published,
     host, history, bounds
<1>4. TypeOfRequests'
  BY <1>1 DEF IInv, TypeOK, TypeOfRequests, Grants, Request
<1>5. CASE SlotFree /\ log' = log
  <2>1. tx' = [tx EXCEPT !["maint"] = [NoTx EXCEPT !.pc = "begin", !.kind = "change",
                                       !.rev = states.rev, !.tok = tok, !.sel = sel]]
        /\ req'.mark = 0
    BY <1>5 DEF Request
  <2>2. TypeOfJournal' /\ JournalReplayable' /\ ReadyLinked'
    BY <1>2, <1>5 DEF IInv, TypeOK, TypeOfJournal, JournalReplayable, ReadyLinked, published
  <2>3. TypeOfTransactions'
    BY <1>1, <2>1 DEF IInv, TypeOK, TypeOfTransactions, Txs, Pcs, Kinds, NoTx, Grants, NoRec, Owners,
       Recoveries
  <2>4. Exclusive' /\ Hosted'
    BY <1>2, <1>5, <2>1 DEF IInv, Exclusive, Hosted, Busy, Active, SlotFree, host
  <2>5. Marked' /\ Linked'
    BY <1>2, <1>5, <2>1 DEF IInv, Marked, Linked, NoTx, Busy
  <2> QED
    BY <1>3, <1>4, <2>2, <2>3, <2>4, <2>5 DEF IInv, TypeOK
<1>6. CASE ~SlotFree /\ tx' = tx
  <2>1. log' = Append(log, intent) /\ req'.mark = Len(log) + 1
    BY <1>6 DEF Request
  <2>2. log \in Seq(Entries) /\ inherited \in Nat /\ inherited <= Len(log) /\ Replayable(log, inherited)
    BY DEF IInv, TypeOK, TypeOfJournal, Marked, JournalReplayable
  <2> HIDE DEF intent, tok
  <2>3. log' \in Seq(Entries) /\ Len(log') = Len(log) + 1 /\ Latest(log') = Latest(log)
    BY <1>1, <2>1, <2>2, AppendFinds
  <2>4. Replayable(log', inherited)
    BY <1>1, <2>1, <2>2, AppendReplays
  <2>5. TypeOfJournal' /\ JournalReplayable' /\ ReadyLinked'
    BY <1>2, <2>3, <2>4 DEF IInv, TypeOK, TypeOfJournal, JournalReplayable, ReadyLinked, published
  <2>6. TypeOfTransactions' /\ Exclusive' /\ Hosted'
    BY <1>2, <1>6 DEF IInv, TypeOK, TypeOfTransactions, Exclusive, Hosted, Busy, Active, host
  <2>7. Marked'
    BY <1>2, <1>6, <2>1, <2>3 DEF IInv, TypeOK, TypeOfJournal, TypeOfTransactions, Txs, Marked
  <2>8. Linked'
    BY <1>2, <1>6 DEF Linked, Busy
  <2> QED
    BY <1>3, <1>4, <2>5, <2>6, <2>7, <2>8 DEF IInv, TypeOK
<1> QED
  BY <1>5, <1>6 DEF Request

\* An applied request is acknowledged and supersedes the pending one.
LEMMA RequestAppliedKeeps ==
    ASSUME IInv, RequestApplied
    PROVE  IInv'
<1>1. TypeOfJournal' /\ TypeOfPublished' /\ TypeOfTransactions' /\ TypeOfHost' /\ JournalReplayable' /\ Exclusive' /\ Linked' /\ ReadyLinked' /\ StepsKeepSelection'
  BY DEF IInv, TypeOK, TypeOfJournal, TypeOfPublished, TypeOfTransactions, TypeOfHost,
     JournalReplayable, Exclusive, Busy, Ready, Linked, ReadyLinked, StepsKeepSelection, RequestApplied,
     journal, published, host
<1>2. TypeOfRequests'
  BY DEF IInv, TypeOK, TypeOfRequests, NoReq, Grants, RequestApplied
<1>3. TypeOfHistory'
  BY DEF IInv, TypeOK, TypeOfHistory, TypeOfRequests, RequestApplied, bounds
<1>4. Hosted'
  BY DEF IInv, Hosted, Busy, Active, RequestApplied, published, host
<1>5. Marked'
  BY DEF IInv, Marked, NoReq, RequestApplied, journal
<1> QED
  BY <1>1, <1>2, <1>3, <1>4, <1>5 DEF IInv, TypeOK

\* A refused request leaves nothing behind.
LEMMA RequestRefusedKeeps ==
    ASSUME IInv, RequestRefused
    PROVE  IInv'
<1>1. TypeOfJournal' /\ TypeOfPublished' /\ TypeOfTransactions' /\ TypeOfHost' /\ TypeOfHistory' /\ JournalReplayable' /\ Exclusive' /\ Linked' /\ ReadyLinked' /\ StepsKeepSelection'
  BY DEF IInv, TypeOK, TypeOfJournal, TypeOfPublished, TypeOfTransactions, TypeOfHost, TypeOfHistory,
     JournalReplayable, Exclusive, Busy, Ready, Linked, ReadyLinked, StepsKeepSelection, RequestRefused,
     journal, published, host, history, bounds
<1>2. TypeOfRequests'
  BY DEF IInv, TypeOK, TypeOfRequests, NoReq, Grants, RequestRefused
<1>3. Hosted'
  BY DEF IInv, Hosted, Busy, Active, RequestRefused, published, host
<1>4. Marked'
  BY DEF IInv, Marked, NoReq, RequestRefused, journal
<1> QED
  BY <1>1, <1>2, <1>3, <1>4 DEF IInv, TypeOK

\* A durable intent becomes pending without touching the selection.
LEMMA IntentPersistedKeeps ==
    ASSUME IInv, IntentPersisted
    PROVE  IInv'
<1>1. TypeOfPublished' /\ TypeOfTransactions' /\ TypeOfHost' /\ JournalReplayable' /\ Exclusive' /\ Linked' /\ ReadyLinked' /\ StepsKeepSelection'
  BY DEF IInv, TypeOK, TypeOfPublished, TypeOfTransactions, TypeOfHost, JournalReplayable, Exclusive,
     Busy, Ready, Linked, ReadyLinked, StepsKeepSelection, IntentPersisted, published, host
<1>2. TypeOfJournal'
  BY DEF IInv, TypeOK, TypeOfJournal, IntentPersisted, Flushed, Larger
<1>3. TypeOfRequests'
  BY DEF IInv, TypeOK, TypeOfRequests, NoReq, Grants, IntentPersisted
<1>4. TypeOfHistory'
  BY DEF IInv, TypeOK, TypeOfHistory, TypeOfRequests, IntentPersisted, bounds
<1>5. Hosted'
  BY DEF IInv, Hosted, Busy, Active, IntentPersisted, host, NoReq
<1>6. Marked'
  BY DEF IInv, TypeOK, Marked, NoReq, TypeOfJournal, TypeOfTransactions, IntentPersisted, Flushed,
     Larger
<1> QED
  BY <1>1, <1>2, <1>3, <1>4, <1>5, <1>6 DEF IInv, TypeOK

\* An intent whose write failed is not pending.
LEMMA IntentFailsKeeps ==
    ASSUME IInv, IntentFails
    PROVE  IInv'
<1>1. TypeOfPublished' /\ TypeOfTransactions' /\ TypeOfHost' /\ JournalReplayable' /\ Exclusive' /\ Linked' /\ ReadyLinked' /\ StepsKeepSelection'
  BY DEF IInv, TypeOK, TypeOfPublished, TypeOfTransactions, TypeOfHost, JournalReplayable, Exclusive,
     Busy, Ready, Linked, ReadyLinked, StepsKeepSelection, IntentFails, published, host, history
<1>2. TypeOfJournal'
  BY DEF IInv, TypeOK, TypeOfJournal, IntentFails, Larger
<1>3. TypeOfRequests'
  BY DEF IInv, TypeOK, TypeOfRequests, NoReq, Grants, IntentFails
<1>4. TypeOfHistory'
  BY DEF IInv, TypeOK, TypeOfHistory, IntentFails, Fault, history
<1>5. Hosted'
  BY DEF IInv, Hosted, Busy, Active, IntentFails, published, host
<1>6. Marked'
  BY DEF IInv, TypeOK, Marked, NoReq, TypeOfJournal, IntentFails, Larger
<1> QED
  BY <1>1, <1>2, <1>3, <1>4, <1>5, <1>6 DEF IInv, TypeOK

\* Waiting for idle changes nothing but the wait.
LEMMA IdleReachedKeeps ==
    ASSUME IInv, IdleReached
    PROVE  IInv'
<1>1. TypeOfJournal' /\ TypeOfPublished' /\ TypeOfTransactions' /\ TypeOfHost' /\ TypeOfHistory' /\ JournalReplayable' /\ Exclusive' /\ Hosted' /\ Marked' /\ Linked' /\ ReadyLinked' /\ StepsKeepSelection'
  BY DEF IInv, TypeOK, TypeOfJournal, TypeOfPublished, TypeOfTransactions, TypeOfHost, TypeOfHistory,
     JournalReplayable, Exclusive, Busy, Ready, Hosted, Active, Marked, Linked, ReadyLinked,
     StepsKeepSelection, IdleReached, journal, published, host, history, bounds
<1>2. TypeOfRequests'
  BY DEF IInv, TypeOK, TypeOfRequests, IdleReached
<1> QED
  BY <1>1, <1>2 DEF IInv, TypeOK

\* A promotion from idle takes the free slot or leaves it.
LEMMA PromoteAfterIdleKeeps ==
    ASSUME IInv, PromoteAfterIdle
    PROVE  IInv'
<1>1. TypeOfJournal' /\ TypeOfPublished' /\ TypeOfHost' /\ TypeOfHistory' /\ JournalReplayable' /\ ReadyLinked' /\ StepsKeepSelection'
  BY DEF IInv, TypeOK, TypeOfJournal, TypeOfPublished, TypeOfHost, TypeOfHistory, JournalReplayable,
     ReadyLinked, Ready, StepsKeepSelection, PromoteAfterIdle, journal, published, host, history, bounds
<1>2. TypeOfRequests'
  BY DEF IInv, TypeOK, TypeOfRequests, PromoteAfterIdle
<1>3. TypeOfTransactions'
  BY DEF IInv, TypeOK, TypeOfTransactions, Txs, Pcs, Kinds, NoTx, Grants, NoRec, Owners, Recoveries,
     PromoteAfterIdle
<1>4. Exclusive'
  BY DEF IInv, Exclusive, Busy, Ready, PromoteAfterIdle, published, host
<1>5. Hosted'
  BY DEF IInv, Hosted, Busy, Active, PromoteAfterIdle, SlotFree, published, host
<1>6. Marked'
  BY DEF IInv, Marked, NoTx, PromoteAfterIdle, journal
<1>7. Linked'
  BY DEF IInv, Linked, PromoteAfterIdle, journal, published
<1> QED
  BY <1>1, <1>2, <1>3, <1>4, <1>5, <1>6, <1>7 DEF IInv, TypeOK

\* User input waits for a turn.
LEMMA UserSendKeeps ==
    ASSUME IInv, UserSend
    PROVE  IInv'
<1>1. TypeOfJournal' /\ TypeOfPublished' /\ TypeOfRequests' /\ TypeOfTransactions' /\ TypeOfHistory' /\ JournalReplayable' /\ Exclusive' /\ Hosted' /\ Marked' /\ Linked' /\ ReadyLinked' /\ StepsKeepSelection'
  BY DEF IInv, TypeOK, TypeOfJournal, TypeOfPublished, TypeOfRequests, TypeOfTransactions,
     TypeOfHistory, JournalReplayable, Exclusive, Busy, Ready, Hosted, Active, Marked, Linked,
     ReadyLinked, StepsKeepSelection, UserSend, journal, published, requests, history, bounds
<1>2. TypeOfHost'
  BY DEF IInv, TypeOK, TypeOfHost, UserSend
<1> QED
  BY <1>1, <1>2 DEF IInv, TypeOK

\* A turn starts on the ready selection, degraded, or not at all.
LEMMA TurnStartKeeps ==
    ASSUME IInv, TurnStart
    PROVE  IInv'
<1> DEFINE queued == [NoTx EXCEPT !.pc = "queued", !.kind = "promote"]
<1>1. /\ turn = "none" /\ ~Active("maint") /\ ~Active("stop") /\ turn' \in {"none", "running", "stopping"}
      /\ UNCHANGED <<journal, published, intents, req, boot, applied, lastAck, follows, bounds>>
  BY DEF IInv, Hosted, TurnStart, TurnOver, SlotFree
<1>2. \/ tx' = tx /\ turn' = "none" /\ turnSel' = turnSel
      \/ tx' = tx /\ turn' = "running" /\ (Ready \/ TerminalFailure) /\ turnSel' = IF Ready THEN states.sel ELSE NoSel
      \/ tx' = [tx EXCEPT !["stop"] = queued] /\ turn' = "stopping" /\ turnSel' = turnSel
         /\ intents # NoIntent
  BY DEF TurnStart, TurnOver
<1>0. queued \in Txs /\ queued.pc = "queued" /\ queued.mark = 0
  BY DEF Txs, Pcs, Kinds, NoTx, Grants, NoRec, Owners, Recoveries
<1> HIDE DEF queued
<1>3. /\ TypeOfJournal' /\ JournalReplayable' /\ TypeOfPublished' /\ ReadyLinked'
  BY <1>1 DEF IInv, TypeOK, TypeOfJournal, JournalReplayable, TypeOfPublished, ReadyLinked, Ready,
     journal, published
<1>4. TypeOfRequests'
  BY DEF IInv, TypeOK, TypeOfRequests, TurnStart, TurnOver, MadeIn, Past
<1>5. TypeOfTransactions'
  BY <1>0, <1>2 DEF IInv, TypeOK, TypeOfTransactions
<1>6. TypeOfHost'
  BY <1>1 DEF IInv, TypeOK, TypeOfHost, TurnStart, TurnOver
<1>7. TypeOfHistory'
  BY <1>1, <1>2 DEF IInv, TypeOK, TypeOfHistory, TypeOfPublished, Grants, NoState, bounds
<1>8. \A p \in Activities : Busy(p)' => Busy(p) /\ tx'[p] = tx[p]
  BY <1>0, <1>2 DEF IInv, TypeOK, TypeOfTransactions, Busy
<1>9. ASSUME NEW p \in Activities, Busy(p) PROVE turn' # "running"
  <2>1. ~Ready
    BY <1>9 DEF IInv, Exclusive
  <2>2. p = "init" /\ tx[p].kind \in Starts
    BY <1>1, <1>9 DEF IInv, Hosted, Active, Busy, Activities
  <2>3. ~TerminalFailure
    BY <1>9, <2>2 DEF TerminalFailure, Initializing, Active, Busy
  <2> QED
    BY <1>2, <2>1, <2>3
<1>10. Exclusive'
  BY <1>1, <1>8, <1>9 DEF IInv, Exclusive, Ready, published
<1>11. Hosted'
  <2>1. boot = "created" => turn' = "none"
    BY <1>2 DEF IInv, Hosted, TerminalFailure, Ready
  <2>2. /\ tx'["maint"] = tx["maint"] /\ tx'["init"] = tx["init"] /\ ~Active("maint")'
        /\ Active("stop")' => turn' = "stopping"
    BY <1>0, <1>1, <1>2 DEF IInv, TypeOK, TypeOfTransactions, Active, Activities
  <2>3. boot # "none" => \A p \in Activities : ~Active(p)'
    BY <1>2, <2>2 DEF IInv, Hosted, Active
  <2> QED
    BY <1>1, <2>1, <2>2, <2>3 DEF IInv, Hosted, Busy, Active, published
<1>12. Marked'
  BY <1>0, <1>1, <1>2 DEF IInv, TypeOK, TypeOfTransactions, Marked, journal
<1>13. Linked'
  BY <1>1, <1>8 DEF IInv, Linked, Busy, journal, published
<1>14. StepsKeepSelection'
  BY <1>1, <1>2 DEF StepsKeepSelection, Ready, published
<1> QED
  BY <1>3, <1>4, <1>5, <1>6, <1>7, <1>10, <1>11, <1>12, <1>13, <1>14 DEF IInv, TypeOK

\* A later step goes on with the selection in force, or puts the input back.
LEMMA LaterStepKeeps ==
    ASSUME IInv, LaterStep
    PROVE  IInv'
<1>1. /\ turn # "none" /\ ~Active("maint") /\ ~Active("stop") /\ turn' \in {"none", "running"}
      /\ UNCHANGED <<journal, published, intents, chain, req, tx, boot, applied, lastAck, follows, bounds>>
  BY DEF IInv, Hosted, LaterStep, TurnOver
<1>2. turn' = "running" => Ready \/ TerminalFailure
  BY DEF LaterStep, TurnOver
<1>3. turn' = "running" => turnSel' = IF turn = "running" THEN turnSel ELSE IF Ready THEN states.sel ELSE NoSel
  BY DEF LaterStep, TurnOver
<1>4. turn' = "none" => turnSel' = NoSel
  BY DEF LaterStep
<1>5. /\ TypeOfJournal' /\ JournalReplayable' /\ TypeOfPublished' /\ TypeOfTransactions' /\ ReadyLinked'
      /\ Marked' /\ Linked'
  BY <1>1 DEF IInv, TypeOK, TypeOfJournal, JournalReplayable, TypeOfPublished, TypeOfTransactions, ReadyLinked,
     Ready, Marked, Linked, Busy, journal, published
<1>6. TypeOfRequests'
  BY DEF IInv, TypeOK, TypeOfRequests, LaterStep, TurnOver, MadeIn, Past
<1>7. TypeOfHost'
  BY <1>1 DEF IInv, TypeOK, TypeOfHost, LaterStep
<1>8. TypeOfHistory'
  BY <1>1, <1>3, <1>4 DEF IInv, TypeOK, TypeOfHistory, TypeOfPublished, Grants, NoState, bounds
<1>9. ASSUME NEW p \in Activities, Busy(p) PROVE turn' # "running"
  <2>1. ~Ready
    BY <1>9 DEF IInv, Exclusive
  <2>2. p = "init" /\ tx[p].kind \in Starts
    BY <1>1, <1>9 DEF IInv, Hosted, Active, Busy, Activities
  <2>3. ~TerminalFailure
    BY <1>9, <2>2 DEF TerminalFailure, Initializing, Active, Busy
  <2> QED
    BY <1>2, <2>1, <2>3
<1>10. Exclusive'
  BY <1>1, <1>9 DEF IInv, Exclusive, Busy, Ready, published
<1>11. Hosted'
  BY <1>1 DEF IInv, Hosted, Busy, Active, published
<1>12. StepsKeepSelection'
  BY <1>1, <1>3 DEF IInv, StepsKeepSelection, Ready, published
<1> QED
  BY <1>5, <1>6, <1>7, <1>8, <1>10, <1>11, <1>12 DEF IInv, TypeOK

\* The stopping hook promotes between the last step and the end of the turn.
LEMMA TurnStoppingKeeps ==
    ASSUME IInv, TurnStopping
    PROVE  IInv'
<1>1. TypeOfJournal' /\ TypeOfPublished' /\ TypeOfRequests' /\ TypeOfHistory' /\ JournalReplayable' /\ ReadyLinked'
  BY DEF IInv, TypeOK, TypeOfJournal, TypeOfPublished, TypeOfRequests, TypeOfHistory, JournalReplayable,
     ReadyLinked, Ready, TurnStopping, journal, published, requests, history, bounds
<1>2. TypeOfTransactions'
  BY DEF IInv, TypeOK, TypeOfTransactions, Txs, Pcs, Kinds, NoTx, Grants, NoRec, Owners, Recoveries,
     TurnStopping
<1>3. TypeOfHost'
  BY DEF IInv, TypeOK, TypeOfHost, TurnStopping
<1>4. Exclusive'
  BY DEF IInv, Exclusive, Busy, TurnStopping
<1>5. Hosted'
  BY DEF IInv, Hosted, Busy, Active, TurnStopping, published, requests
<1>6. Marked'
  BY DEF IInv, Marked, NoTx, TurnStopping, journal, requests
<1>7. Linked'
  BY DEF IInv, Linked, Exclusive, Busy, TurnStopping
<1>8. StepsKeepSelection'
  BY DEF StepsKeepSelection, TurnStopping
<1> QED
  BY <1>1, <1>2, <1>3, <1>4, <1>5, <1>6, <1>7, <1>8 DEF IInv, TypeOK

\* A turn ends after its stopping hook.
LEMMA TurnEndKeeps ==
    ASSUME IInv, TurnEnd
    PROVE  IInv'
<1>1. TypeOfJournal' /\ TypeOfPublished' /\ TypeOfTransactions' /\ JournalReplayable' /\ Marked' /\ Linked' /\ ReadyLinked'
  BY DEF IInv, TypeOK, TypeOfJournal, TypeOfPublished, TypeOfTransactions, JournalReplayable, Marked,
     Linked, Ready, ReadyLinked, TurnEnd, journal, published
<1>2. TypeOfRequests'
  BY DEF IInv, TypeOK, TypeOfRequests, TurnEnd, TurnOver, Past
<1>3. TypeOfHost'
  BY DEF IInv, TypeOK, TypeOfHost, TurnEnd, TurnOver
<1>4. TypeOfHistory'
  BY DEF IInv, TypeOK, TypeOfHistory, Grants, TurnEnd, bounds
<1>5. Exclusive'
  BY DEF IInv, Exclusive, Busy, Ready, TurnEnd, TurnOver, published
<1>6. Hosted'
  BY DEF IInv, Hosted, Busy, Active, TurnEnd, TurnOver, published
<1>7. StepsKeepSelection'
  BY DEF StepsKeepSelection, TurnEnd, TurnOver
<1> QED
  BY <1>1, <1>2, <1>3, <1>4, <1>5, <1>6, <1>7 DEF IInv, TypeOK

\* A crash forgets memory and keeps a prefix of the log, which replays.
LEMMA CrashKeeps ==
    ASSUME IInv, Crash
    PROVE  IInv'
<1>1. TypeOfJournal'
  BY DEF IInv, TypeOK, TypeOfJournal, Crash
<1>2. TypeOfPublished'
  BY DEF TypeOfPublished, Codes, NoCheckpoint, Bindings, Grants, Crash, ForgetMemory
<1>3. TypeOfRequests'
  BY DEF TypeOfRequests, NoReq, Grants, Crash, ForgetMemory
<1>4. TypeOfTransactions'
  BY DEF TypeOfTransactions, Txs, Pcs, Kinds, NoTx, Grants, NoRec, Owners, Recoveries, Crash,
     ForgetMemory
<1>5. TypeOfHost'
  BY DEF IInv, TypeOK, TypeOfHost, Crash, ForgetMemory
<1>6. TypeOfHistory'
  <2>1. follows \in SUBSET Nat /\ \E kept \in durable .. Len(log) : follows' = {i \in follows : i <= kept}
    BY DEF IInv, TypeOK, TypeOfHistory, Crash
  <2>2. follows' \in SUBSET Nat
    BY <2>1
  <2> QED
    BY <2>2 DEF IInv, TypeOK, TypeOfHistory, Grants, Crash, ForgetMemory
<1>7. JournalReplayable'
  <2>1. PICK kept \in durable .. Len(log) : log' = SubSeq(log, 1, kept)
    BY DEF Crash
  <2>2. kept \in 0 .. Len(log)
    BY DEF IInv, TypeOK, TypeOfJournal
  <2> QED
    BY <2>1, <2>2, PrefixReplays DEF IInv, TypeOK, TypeOfJournal, JournalReplayable, Crash
<1>8. Exclusive'
  BY DEF Exclusive, Busy, NoTx, Crash, ForgetMemory
<1>9. Hosted'
  BY DEF Hosted, Active, Activities, NoTx, Crash, ForgetMemory
<1>10. Marked'
  BY DEF IInv, TypeOK, Marked, NoTx, NoReq, TypeOfJournal, Crash, ForgetMemory
<1>11. Linked'
  BY DEF Linked, NoTx, Crash, ForgetMemory
<1>12. ReadyLinked'
  BY DEF ReadyLinked, Ready, Crash, ForgetMemory
<1>13. StepsKeepSelection'
  BY DEF StepsKeepSelection, Crash
<1> QED
  BY <1>1, <1>2, <1>3, <1>4, <1>5, <1>6, <1>7, <1>8, <1>9, <1>10, <1>11, <1>12, <1>13 DEF IInv, TypeOK

\* A reload forgets memory while nothing is in progress.
LEMMA ReloadKeeps ==
    ASSUME IInv, Reload
    PROVE  IInv'
<1>1. TypeOfJournal' /\ JournalReplayable'
  BY DEF IInv, TypeOK, TypeOfJournal, JournalReplayable, Reload, journal
<1>2. TypeOfPublished'
  BY DEF TypeOfPublished, Codes, NoCheckpoint, Bindings, Grants, Reload, ForgetMemory
<1>3. TypeOfRequests'
  BY DEF IInv, TypeOK, TypeOfRequests, Reload, ForgetMemory
<1>4. TypeOfTransactions'
  BY DEF TypeOfTransactions, Txs, Pcs, Kinds, NoTx, Grants, NoRec, Owners, Recoveries, Reload,
     ForgetMemory
<1>5. TypeOfHost'
  BY DEF IInv, TypeOK, TypeOfHost, Reload, ForgetMemory
<1>6. TypeOfHistory'
  BY DEF IInv, TypeOK, TypeOfHistory, Grants, Reload, ForgetMemory, history
<1>7. Exclusive'
  BY DEF Exclusive, Busy, NoTx, Reload, ForgetMemory
<1>8. Hosted'
  BY DEF Hosted, Active, Activities, NoTx, Reload, ForgetMemory
<1>9. Marked'
  BY DEF IInv, Marked, NoTx, Reload, ForgetMemory, journal
<1>10. Linked'
  BY DEF Linked, NoTx, Reload, ForgetMemory
<1>11. ReadyLinked'
  BY DEF ReadyLinked, Ready, Reload
<1>12. StepsKeepSelection'
  BY DEF StepsKeepSelection, Ready, Reload
<1> QED
  BY <1>1, <1>2, <1>3, <1>4, <1>5, <1>6, <1>7, <1>8, <1>9, <1>10, <1>11, <1>12 DEF IInv, TypeOK

-----------------------------------------------------------------------------
(* The invariant is inductive.                                             *)

\* Every log a session may start from satisfies it.
LEMMA InitHolds == Init => IInv
<1> SUFFICES ASSUME Init PROVE IInv
  OBVIOUS
<1>1. log \in Seq(Entries) /\ Replayable(log, Len(log)) /\ inherited = Len(log) /\ durable = Len(log)
  BY ForkedLogsAssumption DEF Init
<1>2. TypeOfJournal /\ TypeOfPublished /\ TypeOfRequests /\ TypeOfTransactions
  <2>1. TypeOfJournal
    BY <1>1 DEF TypeOfJournal
  <2>2. TypeOfPublished
    BY DEF Init, TypeOfPublished, Codes, Grants, Bindings, NoCheckpoint
  <2>3. TypeOfRequests
    BY DEF Init, TypeOfRequests, NoReq, Grants
  <2>4. TypeOfTransactions
    BY DEF Init, TypeOfTransactions, Txs, Pcs, Kinds, NoTx, Grants, NoRec, Owners, Recoveries
  <2> QED
    BY <2>1, <2>2, <2>3, <2>4
<1>3. TypeOfHost /\ TypeOfHistory
  BY DEF Init, TypeOfHost, TypeOfHistory, Grants, NoIntent
<1>4. JournalReplayable
  BY <1>1 DEF JournalReplayable
<1>5. ~Ready /\ \A p \in Activities : ~Active(p) /\ ~Busy(p) /\ tx[p].pc = "none" /\ tx[p].mark = 0
  BY DEF Init, Ready, Active, Busy, NoTx
<1>6. Exclusive /\ Hosted /\ Linked /\ ReadyLinked /\ StepsKeepSelection
  BY <1>5 DEF Init, Exclusive, Hosted, Linked, ReadyLinked, StepsKeepSelection, Activities
<1>7. Marked
  BY <1>1, <1>5 DEF Init, Marked, NoReq
<1> QED
  BY <1>2, <1>3, <1>4, <1>6, <1>7 DEF IInv, TypeOK

\* Stuttering keeps it.
LEMMA StutterKeeps ==
    ASSUME IInv, UNCHANGED vars
    PROVE  IInv'
<1>1. TypeOK' /\ JournalReplayable'
  BY DEF IInv, TypeOK, TypeOfJournal, TypeOfPublished, TypeOfRequests, TypeOfTransactions, TypeOfHost,
     TypeOfHistory, JournalReplayable, vars, journal, published, requests, host, history, bounds
<1>2. Exclusive' /\ Hosted' /\ Marked'
  BY DEF IInv, Exclusive, Hosted, Marked, Busy, Active, Ready, vars, journal, published, requests, host
<1>3. Linked' /\ ReadyLinked' /\ StepsKeepSelection'
  BY DEF IInv, Linked, ReadyLinked, StepsKeepSelection, Ready, vars, journal, published, host, history
<1> QED
  BY <1>1, <1>2, <1>3 DEF IInv

\* Every step keeps it, one lemma per action.
LEMMA StepKeeps == IInv /\ [Next]_vars => IInv'
<1> SUFFICES ASSUME IInv, [Next]_vars PROVE IInv'
  OBVIOUS
<1>1. ASSUME NEW p \in Activities, TransactionStep(p) PROVE IInv'
  BY <1>1, FlushPendingKeeps, FlushPendingFailsKeeps, ApplyKeeps, ApplyFailsKeeps, ApplyAbortedKeeps,
     FlushCommittedKeeps, CommittedThrowsKeeps, FlushCommittedFailsKeeps, RollbackKeeps,
     InitReplayKeeps, RestoreKeeps, ReplayFailsKeeps, CaptureKeeps, PromoteKeeps DEF TransactionStep
<1>2. ASSUME NEW sel \in Selections, Request(sel) PROVE IInv'
  BY <1>2, RequestKeeps
<1>3. CASE Created \/ Attach \/ AttachBusy \/ Recover \/ RecoverReplay \/ Follow \/ Change
  BY <1>3, CreatedKeeps, AttachKeeps, AttachBusyKeeps, RecoverKeeps, RecoverReplayKeeps, FollowKeeps, ChangeKeeps
<1>4. CASE RequestApplied \/ RequestRefused \/ IntentPersisted \/ IntentFails \/ IdleReached \/ PromoteAfterIdle
  BY <1>4, RequestAppliedKeeps, RequestRefusedKeeps, IntentPersistedKeeps, IntentFailsKeeps,
     IdleReachedKeeps, PromoteAfterIdleKeeps
<1>5. CASE UserSend \/ TurnStart \/ LaterStep \/ TurnStopping \/ TurnEnd \/ Crash \/ Reload
  BY <1>5, UserSendKeeps, TurnStartKeeps, LaterStepKeeps, TurnStoppingKeeps, TurnEndKeeps, CrashKeeps, ReloadKeeps
<1> QED
  BY <1>1, <1>2, <1>3, <1>4, <1>5, StutterKeeps DEF Next

\* It holds of every behaviour.
LEMMA Inductive == Spec => []IInv
  BY InitHolds, StepKeeps, PTL DEF Spec

-----------------------------------------------------------------------------
(* What it shows.                                                          *)

\* Nothing but a selection is ever written to the journal, requested or
\* published (extension-session-state.ts, commit and persistIntent).
THEOREM TypesHold == Spec => []TypeOK
<1>1. IInv => TypeOK
  BY DEF IInv
<1> QED
  BY <1>1, Inductive, PTL

\* The log the service leaves always replays: no interleaving of starts,
\* changes, promotions, recoveries, failures and crashes leads to 'corrupt'.
THEOREM JournalAlwaysReplays == Spec => []JournalReplayable
<1>1. IInv => JournalReplayable
  BY DEF IInv
<1> QED
  BY <1>1, Inductive, PTL

\* commit() and the restore of initializeOnce() never run twice at once.
THEOREM OneWriterAtATime == Spec => []OneWriter
<1>1. IInv => OneWriter
  BY DEF IInv, Exclusive, OneWriter, Writing, Busy
<1> QED
  BY <1>1, Inductive, PTL

\* status().ready promises the last committed transaction of the log, and the
\* resources that are in effect are those of its selection.
THEOREM ReadyGrantsCommitted == Spec => []ReadyMeansCommitted
<1>1. ASSUME IInv PROVE ReadyMeansCommitted
  <2>1. log \in Seq(Entries)
    BY <1>1 DEF IInv, TypeOK, TypeOfJournal
  <2>2. Ready => Latest(log).kind = "committed" /\ Same(Latest(log), states) /\ applied = states.sel
    BY <1>1 DEF IInv, ReadyLinked
  <2>3. Ready => Committed(log) = Latest(log)
    BY <2>1, <2>2, CommittedIsLatest
  <2> QED
    BY <2>2, <2>3 DEF ReadyMeansCommitted, Same, Replay, Latest, Committed
<1> QED
  BY <1>1, Inductive, PTL

-----------------------------------------------------------------------------
(* The service implements the register of selections.                      *)

\* An envelope that is not a commit leaves the last commit in force.
LEMMA AppendKeepsCommitted ==
    ASSUME NEW l \in Seq(Entries), NEW e \in Entries, e.kind # "committed"
    PROVE  Committed(Append(l, e)) = Committed(l)
<1> DEFINE m == Append(l, e)
           C == CommittedBefore(l, Len(l) + 1)
<1>1. /\ m \in Seq(Entries) /\ Len(m) = Len(l) + 1 /\ m[Len(m)] = e
      /\ \A j \in 1 .. Len(l) : m[j] = l[j]
  OBVIOUS
<1> HIDE DEF m
<1>2. CommittedBefore(m, Len(m) + 1) = C
  <2>1. DOMAIN m = 1 .. Len(l) + 1 /\ DOMAIN l = 1 .. Len(l) /\ Len(l) \in Nat
    BY <1>1
  <2>2. m[Len(l) + 1].kind # "committed"
    BY <1>1
  <2>3. ASSUME NEW j \in 1 .. Len(l) + 1
        PROVE  (j < Len(m) + 1 /\ m[j].kind = "committed")
               <=> (j \in 1 .. Len(l) /\ j < Len(l) + 1 /\ l[j].kind = "committed")
    <3>1. CASE j = Len(l) + 1
      BY <1>1, <2>1, <2>2, <3>1
    <3>2. CASE j \in 1 .. Len(l)
      BY <1>1, <2>1, <3>2
    <3> QED
      BY <2>1, <3>1, <3>2
  <2> QED
    BY <2>1, <2>3 DEF CommittedBefore
<1>3. C \in SUBSET (1 .. Len(l))
  BY DEF CommittedBefore
<1>4. C # {} => LastOf(C) \in C
  BY <1>3, PositionsChosen, Len(l) \in Nat
<1>5. EntryAt(m, C) = EntryAt(l, C)
  BY <1>1, <1>3, <1>4 DEF EntryAt
<1> QED
  BY <1>2, <1>5 DEF Committed, m

\* An envelope that commits nothing; a request carries the next token.
Uncommitted(e) == e.kind # "committed" /\ (e.kind = "intent" => e.tok = SelectionRevision + 1)

\* What a step can do to the log: nothing, one envelope that commits nothing,
\* the commit of a transaction, or a crash.
LEMMA LogSteps ==
    ASSUME [Next]_vars
    PROVE  \/ log' = log
           \/ \E e : Uncommitted(e) /\ log' = Append(log, e)
           \/ \E p \in Activities : Apply(p)
           \/ Crash
<1>1. ASSUME NEW p \in Activities, NEW kind, NEW rev, NEW sel, NEW rec, NEW requested, NEW cp,
             Begin(p, kind, rev, sel, rec, requested, cp)
      PROVE  \E e : Uncommitted(e) /\ log' = Append(log, e)
  BY <1>1 DEF Begin, Entry, Uncommitted
<1>2. ASSUME NEW p \in Activities, InitReplay(p) \/ Capture(p) \/ Promote(p)
      PROVE  log' = log \/ \E e : Uncommitted(e) /\ log' = Append(log, e)
  BY <1>1, <1>2 DEF InitReplay, Capture, Promote
<1>3. ASSUME RecoverReplay \/ Change
      PROVE  log' = log \/ \E e : Uncommitted(e) /\ log' = Append(log, e)
  BY <1>1, <1>3 DEF RecoverReplay, Change, Activities
<1>4. ASSUME NEW sel \in Selections, Request(sel)
      PROVE  log' = log \/ \E e : Uncommitted(e) /\ log' = Append(log, e)
  BY <1>4 DEF Request, Entry, Uncommitted
<1>5. ASSUME NEW p \in Activities,
             \/ FlushPending(p) \/ FlushPendingFails(p) \/ ApplyFails(p) \/ ApplyAborted(p)
             \/ FlushCommitted(p) \/ CommittedThrows(p) \/ FlushCommittedFails(p) \/ Rollback(p)
             \/ Restore(p) \/ ReplayFails(p)
      PROVE  log' = log
  BY <1>5 DEF FlushPending, FlushPendingFails, ApplyFails, ApplyAborted, FlushCommitted, CommittedThrows,
     FlushCommittedFails, Rollback, Restore, ReplayFails, journal
<1>6. ASSUME \/ Created \/ Attach \/ AttachBusy \/ Recover \/ Follow \/ RequestApplied \/ RequestRefused
             \/ IntentPersisted \/ IntentFails \/ IdleReached \/ PromoteAfterIdle \/ UserSend
             \/ TurnStart \/ LaterStep \/ TurnStopping \/ TurnEnd \/ Reload \/ UNCHANGED vars
      PROVE  log' = log
  BY <1>6 DEF Created, Attach, AttachBusy, Recover, Follow, RequestApplied, RequestRefused, IntentPersisted,
     IntentFails, IdleReached, PromoteAfterIdle, UserSend, TurnStart, LaterStep, TurnStopping, TurnEnd, Reload,
     vars, journal
<1> QED
  BY <1>2, <1>3, <1>4, <1>5, <1>6 DEF Next, TransactionStep

\* A ready session's grant is a selection, and the stored one.
StoredGranted ==
    /\ Stored \in Selections \cup {NoSel}
    /\ Ready => Stored = states.sel /\ states.sel \in Selections

\* The invariant says so, before and after a step.
LEMMA GrantIsStored == IInv => StoredGranted
<1> SUFFICES ASSUME IInv PROVE StoredGranted
  OBVIOUS
<1>1. log \in Seq(Entries)
  BY DEF IInv, TypeOK, TypeOfJournal
<1>2. Committed(log) \in Entries \cup {NoEntry} /\ Stored = Committed(log).sel
  BY <1>1, ReplayType DEF Stored, Replay, Committed
<1>3. Stored \in Selections \cup {NoSel}
  BY <1>2 DEF Entries, NoEntry, Entry
<1>4. Ready => Latest(log).kind = "committed" /\ Latest(log).sel = states.sel
  BY DEF IInv, ReadyLinked, Same
<1>5. Ready => Committed(log) = Latest(log)
  BY <1>1, <1>4, CommittedIsLatest
<1>6. Ready => states.sel \in Selections
  BY DEF IInv, TypeOK, TypeOfPublished, Ready
<1> QED
  BY <1>2, <1>3, <1>4, <1>5, <1>6 DEF StoredGranted

\* The same after a step.
LEMMA GrantIsStoredNext == IInv' => StoredGranted'
  BY GrantIsStored, PTL

\* While the commits stay as they are, a grant is given or taken away as a whole.
LEMMA GrantMoves ==
    ASSUME IInv, IInv', Stored' = Stored
    PROVE  [Register!Next]_<<Stored, Granted>>
<1>1. StoredGranted /\ StoredGranted'
  BY GrantIsStored, GrantIsStoredNext
<1>2. CASE Ready /\ Ready'
  BY <1>1, <1>2 DEF StoredGranted, Granted
<1>3. CASE Ready /\ ~Ready'
  BY <1>1, <1>3, SelectionsAssumption DEF Register!Next, Register!Withdraw, StoredGranted, Granted, Stored
<1>4. CASE ~Ready /\ Ready'
  BY <1>1, <1>4, SelectionsAssumption DEF Register!Next, Register!Grant, StoredGranted, Granted, Stored
<1>5. CASE ~Ready /\ ~Ready'
  BY <1>5 DEF Granted
<1> QED
  BY <1>2, <1>3, <1>4, <1>5

\* A session is only ever granted what its journal commits to, and the journal
\* gets another selection only while nothing is granted: commit() denies before
\* it writes, and every failure denies before anything is unwound.
THEOREM SelectionIsARegister == Spec => ImplementsRegister
<1>1. Init => Register!Init
  <2> SUFFICES ASSUME Init PROVE Register!Init
    OBVIOUS
  <2>1. IInv
    BY InitHolds
  <2>2. ~Ready
    BY DEF Init, Ready
  <2> QED
    BY <2>1, <2>2, GrantIsStored DEF Register!Init, StoredGranted, Granted
<1>2. ASSUME IInv, IInv', [Next]_vars PROVE [Register!Next]_<<Stored, Granted>>
  <2>1. log \in Seq(Entries) /\ log' \in Seq(Entries)
    BY <1>2 DEF IInv, TypeOK, TypeOfJournal
  <2>2. CASE log' = log
    <3>1. Stored' = Stored
      BY <2>2 DEF Stored
    <3> QED
      BY <1>2, <3>1, GrantMoves
  <2>3. CASE \E e : Uncommitted(e) /\ log' = Append(log, e)
    <3>1. PICK e : e.kind # "committed" /\ log' = Append(log, e)
      BY <2>3 DEF Uncommitted
    <3>2. e \in Entries
      <4>1. log \in Seq(Entries \cup {e})
        BY <2>1
      <4>2. Len(log') = Len(log) + 1 /\ log'[Len(log) + 1] = e
        BY <3>1, <4>1
      <4> QED
        BY <2>1, <4>2
    <3>3. Committed(log') = Committed(log)
      BY <2>1, <3>1, <3>2, AppendKeepsCommitted
    <3>4. Stored' = Stored
      BY <3>3 DEF Stored, Replay, Committed
    <3> QED
      BY <1>2, <3>4, GrantMoves
  <2>4. ASSUME NEW p \in Activities, Apply(p) PROVE [Register!Next]_<<Stored, Granted>>
    <3>1. ~Ready /\ ~Ready'
      BY <1>2, <2>4 DEF IInv, Exclusive, Busy, Apply, Ready
    <3>2. Stored' \in Selections \cup {NoSel} /\ Granted = NoSel /\ Granted' = NoSel
      BY <1>2, <3>1, GrantIsStoredNext DEF StoredGranted, Granted
    <3> QED
      BY <3>2 DEF Register!Next, Register!Crash, Stored, Granted
  <2>5. CASE Crash
    <3>1. ~Ready'
      BY <2>5 DEF Crash, ForgetMemory, Ready
    <3>2. Stored' \in Selections \cup {NoSel} /\ Granted' = NoSel
      BY <1>2, <3>1, GrantIsStoredNext DEF StoredGranted, Granted
    <3> QED
      BY <3>2 DEF Register!Next, Register!Crash, Stored, Granted
  <2> QED
    BY <1>2, <2>2, <2>3, <2>4, <2>5, LogSteps
<1> QED
  BY <1>1, <1>2, Inductive, PTL DEF Spec, ImplementsRegister, Register!Spec, Stored, Granted

-----------------------------------------------------------------------------
(* Acknowledged requests: what the log keeps of the last one.               *)

\* By position n, a recovery or a follow has committed over the request.
Overtaken(l, fs, ack, n) ==
    \E i, j \in 1 .. n : /\ i < j /\ l[i].kind = "intent" /\ Matches(l[i], ack)
                         /\ l[j].kind = "committed" /\ (l[j].rec # NoRec \/ j \in fs)
CommittedIn(l, i, n) == \E c \in i .. n : l[c].kind = "committed"

\* The envelope that records an acknowledged request, its intent or its own
\* commit, and what may follow it: later requests and what they commit.  A
\* transaction that only recovers or follows is numbered past its predecessor,
\* and overtakes the request when it commits over a pending one.
Sound(l, fs, ack, i, j) ==
    /\ l[j].kind = "intent" => l[j].tok > ack.tok
    /\ l[j].kind = "committed" => Covers(l[j], ack)
    /\ l[j].kind = "pending" /\ CommittedIn(l, i, j - 1) => Covers(l[j], ack)
Record(l, inh, fs, ack, i) ==
    /\ l[i].kind \in {"intent", "committed"} /\ l[i].owner = "self" /\ Matches(l[i], ack)
    /\ CommittedIn(l, inh + 1, i)
    /\ \A j \in (i + 1) .. Len(l) : Overtaken(l, fs, ack, j) \/ Sound(l, fs, ack, i, j)

\* Both look at the log up to one position only.
LEMMA LogsAgree ==
    ASSUME NEW l, NEW m, NEW fs, NEW gs, NEW ack, NEW n \in Nat,
           \A j \in 1 .. n : l[j] = m[j] /\ (j \in fs <=> j \in gs)
    PROVE  /\ Overtaken(l, fs, ack, n) <=> Overtaken(m, gs, ack, n)
           /\ \A i \in 1 .. n : CommittedIn(l, i, n) <=> CommittedIn(m, i, n)
  BY DEF Overtaken, CommittedIn

LEMMA SoundAgrees ==
    ASSUME NEW l, NEW m, NEW fs, NEW gs, NEW ack, NEW n \in Nat, NEW i \in 1 .. n, NEW j \in (i + 1) .. n,
           \A k \in 1 .. n : l[k] = m[k] /\ (k \in fs <=> k \in gs),
           Overtaken(l, fs, ack, j) \/ Sound(l, fs, ack, i, j)
    PROVE  Overtaken(m, gs, ack, j) \/ Sound(m, gs, ack, i, j)
<1>1. j \in Nat /\ j - 1 \in Nat /\ i \in 1 .. (j - 1) /\ l[j] = m[j]
      /\ \A k \in 1 .. j : l[k] = m[k] /\ (k \in fs <=> k \in gs)
  OBVIOUS
<1>2. Overtaken(l, fs, ack, j) <=> Overtaken(m, gs, ack, j)
  BY <1>1, LogsAgree
<1>3. CommittedIn(l, i, j - 1) <=> CommittedIn(m, i, j - 1)
  <2>1. \A k \in 1 .. (j - 1) : l[k] = m[k] /\ (k \in fs <=> k \in gs)
    BY <1>1
  <2> QED
    BY <1>1, <2>1, LogsAgree
<1> QED
  BY <1>1, <1>2, <1>3, Zenon DEF Sound

\* A record stays one when a tail of the log behind it is lost, and when an
\* envelope is appended that is sound for it.
LEMMA RecordKept ==
    ASSUME NEW l \in Seq(Entries), NEW inh \in Nat, NEW fs, NEW ack, NEW kept \in 0 .. Len(l), NEW i \in 1 .. kept,
           Record(l, inh, fs, ack, i)
    PROVE  Record(SubSeq(l, 1, kept), inh, {k \in fs : k <= kept}, ack, i)
<1> DEFINE m == SubSeq(l, 1, kept)
           gs == {k \in fs : k <= kept}
<1>1. Len(m) = kept /\ \A j \in 1 .. kept : l[j] = m[j] /\ (j \in fs <=> j \in gs)
  OBVIOUS
<1> HIDE DEF m, gs
<1>2. CommittedIn(m, inh + 1, i)
  BY <1>1 DEF Record, CommittedIn
<1>3. ASSUME NEW j \in (i + 1) .. Len(m) PROVE Overtaken(m, gs, ack, j) \/ Sound(m, gs, ack, i, j)
  <2>1. kept \in Nat /\ j \in (i + 1) .. kept /\ j \in (i + 1) .. Len(l)
    BY <1>1
  <2>2. Overtaken(l, fs, ack, j) \/ Sound(l, fs, ack, i, j)
    BY <2>1 DEF Record
  <2> QED
    BY <1>1, <2>1, <2>2, SoundAgrees
<1> QED
  BY <1>1, <1>2, <1>3 DEF Record, m, gs

LEMMA RecordAppended ==
    ASSUME NEW l \in Seq(Entries), NEW inh \in Nat, NEW fs, NEW gs, NEW ack, NEW e \in Entries, NEW i \in 1 .. Len(l),
           Record(l, inh, fs, ack, i), \A j \in 1 .. Len(l) : j \in fs <=> j \in gs,
           \/ Overtaken(Append(l, e), gs, ack, Len(l) + 1)
           \/ Sound(Append(l, e), gs, ack, i, Len(l) + 1)
    PROVE  Record(Append(l, e), inh, gs, ack, i)
<1> DEFINE m == Append(l, e)
<1>1. Len(m) = Len(l) + 1 /\ \A j \in 1 .. Len(l) : l[j] = m[j] /\ (j \in fs <=> j \in gs)
  OBVIOUS
<1> HIDE DEF m
<1>2. CommittedIn(m, inh + 1, i)
  BY <1>1 DEF Record, CommittedIn
<1>3. ASSUME NEW j \in (i + 1) .. Len(l) PROVE Overtaken(m, gs, ack, j) \/ Sound(m, gs, ack, i, j)
  <2>1. Overtaken(l, fs, ack, j) \/ Sound(l, fs, ack, i, j)
    BY DEF Record
  <2> QED
    BY <1>1, <2>1, SoundAgrees, Len(l) \in Nat
<1>4. \A j \in (i + 1) .. Len(m) : j = Len(l) + 1 \/ j \in (i + 1) .. Len(l)
  BY <1>1
<1> QED
  BY <1>1, <1>2, <1>3, <1>4 DEF Record, m

\* Where a replay finds what it returns.
LEMMA LatestAt ==
    ASSUME NEW l \in Seq(Entries), NEW c \in 1 .. Len(l), l[c].kind # "intent"
    PROVE  \E q \in c .. Len(l) : Latest(l) = l[q] /\ l[q].kind # "intent"
<1> DEFINE B == BindingsBefore(l, Len(l) + 1)
<1>1. B \in SUBSET (1 .. Len(l)) /\ c \in B
  <2>1. l[c] \in Entries /\ c \in DOMAIN l /\ c < Len(l) + 1
    OBVIOUS
  <2>2. l[c].kind \in {"pending", "committed"}
    BY <2>1 DEF Entries
  <2> QED
    BY <2>1, <2>2 DEF BindingsBefore
<1>2. LastOf(B) \in B /\ \A j \in B : j <= LastOf(B)
  BY <1>1, PositionsChosen, Len(l) \in Nat
<1>3. LastOf(B) \in c .. Len(l) /\ Latest(l) = l[LastOf(B)] /\ l[LastOf(B)].kind # "intent"
  BY <1>1, <1>2 DEF Latest, LatestBefore, EntryAt, BindingsBefore
<1> QED
  BY <1>3

LEMMA LiveAt ==
    ASSUME NEW l \in Seq(Entries), LiveIntents(l) # {}
    PROVE  \E q \in LiveIntents(l) : EntryAt(l, LiveIntents(l)) = l[q] /\ \A j \in LiveIntents(l) : j <= q
<1>1. LiveIntents(l) \in SUBSET (1 .. Len(l))
  BY DEF LiveIntents
<1>2. LastOf(LiveIntents(l)) \in LiveIntents(l) /\ \A j \in LiveIntents(l) : j <= LastOf(LiveIntents(l))
  BY <1>1, PositionsChosen, Len(l) \in Nat
<1> QED
  BY <1>2 DEF EntryAt

\* A request that was not overtaken is covered by what a replay finds: by the
\* latest transaction, if any was committed since, or else by the intent.
LEMMA RecordCovered ==
    ASSUME NEW l \in Seq(Entries), NEW inh \in Nat, NEW fs, NEW ack, NEW i \in 1 .. Len(l),
           Record(l, inh, fs, ack, i), ~Overtaken(l, fs, ack, Len(l))
    PROVE  /\ CommittedIn(l, i, Len(l)) => Covers(Latest(l), ack)
           /\ EntryAt(l, LiveIntents(l)) # NoEntry => Covers(EntryAt(l, LiveIntents(l)), ack)
           /\ EntryAt(l, LiveIntents(l)) = NoEntry => CommittedIn(l, i, Len(l))
<1>1. ASSUME NEW j \in (i + 1) .. Len(l) PROVE Sound(l, fs, ack, i, j)
  <2>1. ~Overtaken(l, fs, ack, j)
    BY DEF Overtaken
  <2> QED
    BY <2>1 DEF Record
<1>2. \A j \in 1 .. Len(l) : l[j] \in Entries
  OBVIOUS
<1>3. ASSUME CommittedIn(l, i, Len(l)) PROVE Covers(Latest(l), ack)
  <2>1. PICK c \in i .. Len(l) : l[c].kind = "committed"
    BY <1>3 DEF CommittedIn
  <2>2. PICK q \in c .. Len(l) : Latest(l) = l[q] /\ l[q].kind # "intent"
    <3>1. c \in 1 .. Len(l) /\ l[c].kind # "intent"
      BY <2>1
    <3> QED
      BY <3>1, LatestAt
  <2>3. CASE q = i
    BY <2>2, <2>3 DEF Record, Covers
  <2>4. CASE q # i
    <3>1. q \in (i + 1) .. Len(l) /\ l[q] \in Entries
      BY <2>4, <1>2
    <3>2. l[q].kind = "committed" \/ (l[q].kind = "pending" /\ CommittedIn(l, i, q - 1))
      <4>1. l[q].kind \in {"pending", "committed"}
        BY <2>2, <3>1 DEF Entries
      <4>2. c # q => c \in i .. (q - 1)
        BY <2>1, <2>2
      <4> QED
        BY <2>1, <4>1, <4>2 DEF CommittedIn
    <3> QED
      BY <1>1, <2>2, <3>1, <3>2 DEF Sound
  <2> QED
    BY <2>3, <2>4
<1>4. ASSUME EntryAt(l, LiveIntents(l)) # NoEntry PROVE Covers(EntryAt(l, LiveIntents(l)), ack)
  <2>1. PICK q \in LiveIntents(l) : EntryAt(l, LiveIntents(l)) = l[q] /\ \A j \in LiveIntents(l) : j <= q
    BY <1>4, LiveAt DEF EntryAt
  <2>2. /\ q \in 1 .. Len(l) /\ l[q].kind = "intent"
        /\ \A k \in 1 .. Len(l) : l[k].kind = "committed" => k < q
    BY DEF LiveIntents, CommittedBefore
  <2>3. q >= i
    <3>1. CASE l[i].kind = "committed"
      BY <2>2, <3>1
    <3>2. CASE l[i].kind = "intent"
      <4>1. CASE i \in LiveIntents(l)
        BY <2>1, <2>2, <4>1
      <4>2. CASE i \notin LiveIntents(l)
        <5>1. PICK k \in 1 .. Len(l) : l[k].kind = "committed" /\ ~(k < i)
          BY <3>2, <4>2 DEF LiveIntents, CommittedBefore, Record
        <5> QED
          BY <2>2, <5>1
      <4> QED
        BY <4>1, <4>2
    <3> QED
      BY <3>1, <3>2 DEF Record
  <2>4. CASE q = i
    BY <2>1, <2>4 DEF Record, Covers
  <2>5. CASE q # i
    <3>1. q \in (i + 1) .. Len(l)
      BY <2>2, <2>3, <2>5
    <3> QED
      BY <1>1, <2>1, <2>2, <3>1 DEF Sound, Covers
  <2> QED
    BY <2>4, <2>5
<1>5. ASSUME EntryAt(l, LiveIntents(l)) = NoEntry PROVE CommittedIn(l, i, Len(l))
  <2>1. i \notin LiveIntents(l)
    <3>1. ASSUME LiveIntents(l) # {} PROVE FALSE
      <4>1. PICK q \in LiveIntents(l) : EntryAt(l, LiveIntents(l)) = l[q]
        BY <3>1, LiveAt
      <4>2. l[q].kind = "intent"
        BY DEF LiveIntents
      <4> QED
        BY <1>5, <4>1, <4>2 DEF NoEntry, Entry
    <3> QED
      BY <3>1
  <2>2. l[i].kind = "committed" \/ \E k \in 1 .. Len(l) : l[k].kind = "committed" /\ ~(k < i)
    BY <2>1 DEF LiveIntents, CommittedBefore, Record
  <2> QED
    BY <2>2 DEF CommittedIn
<1> QED
  BY <1>3, <1>4, <1>5

\* A session that recorded a request has a transaction of its own in the log,
\* whatever is appended after it.
LEMMA OwnTransaction ==
    ASSUME NEW l \in Seq(Entries), NEW inh \in Nat, NEW n \in 1 .. Len(l), CommittedIn(l, inh + 1, n), Replayable(l, inh)
    PROVE  Latest(l) # NoEntry /\ Latest(l).owner = "self" /\ Latest(l) \in Entries
<1>1. PICK c \in (inh + 1) .. n : l[c].kind = "committed"
  BY DEF CommittedIn
<1>2. PICK q \in c .. Len(l) : Latest(l) = l[q] /\ l[q].kind # "intent"
  <2>1. c \in 1 .. Len(l) /\ l[c].kind # "intent"
    BY <1>1
  <2> QED
    BY <2>1, LatestAt
<1>3. q \in DOMAIN l /\ q > inh /\ l[q] \in Entries
  BY <1>1
<1>4. l[q].owner = "self"
  BY <1>3 DEF Replayable, EntryOK
<1> QED
  BY <1>2, <1>3, <1>4 DEF Entries, NoEntry, Entry

\* The token of a transaction that no request names grows with the journal.
LEMMA TokenGrows ==
    ASSUME NEW latest \in Entries, latest.owner = "self", NEW rev \in Nat, rev = NextRevision(latest, "self")
    PROVE  Token(rev, 0, latest) \in Nat /\ Token(rev, 0, latest) > latest.tok
  BY DEF Token, RequestRevision, Larger, NextRevision, Entries

-----------------------------------------------------------------------------
(* Requests and the transactions that serve them.                           *)

\* What kind of transaction waits or runs where.
Kinded(t) ==
    /\ t.kind = "none" <=> t.pc = "none"
    /\ t.pc = "begin" => t.kind = "change" \/ (t.kind = "follow" /\ t.tok = 0)
    /\ t.pc = "queued" => t.kind = "promote"
    /\ t.pc = "replay" => t.kind \in Starts \cup {"recover"}
    /\ t.pc = "capture" => t.kind \in Starts \cup {"recover"}
    /\ t.pc = "restore" => t.kind \in Starts

\* A change serves the request in progress, a promotion past its waiting holds
\* the chain, and a session start finds neither.
Ordered(p) ==
    /\ tx[p].kind = "change" => p = "maint" /\ req.pc = "changing" /\ Matches(tx[p], req)
    /\ tx[p].kind = "promote" => tx[p].pc = "queued" \/ chain = "promote"
    /\ tx[p].kind \in Starts => req.pc = "none"
    /\ tx[p].kind \in Starts /\ tx[p].pc = "replay" => intents = NoIntent /\ checkpoint = NoCheckpoint
Serial ==
    /\ req.pc # "none" => chain = "request" /\ req.tok > 0
    /\ boot # "none" => checkpoint = NoCheckpoint
    /\ \A p \in Activities : Kinded(tx[p]) /\ Ordered(p)

\* A start and a recovery work on the journal from their first step.
LEMMA BusyKinds ==
    ASSUME Serial, NEW p \in Activities, tx[p].kind \in Starts \cup {"recover"} \/ tx[p].pc = "replay" \/ tx[p].pc = "capture"
    PROVE  Busy(p)
  BY DEF Serial, Kinded, Busy, Starts

\* A transaction that settles frees the chain it held and the request it served.
LEMMA SerialSettles ==
    ASSUME IInv, Serial, NEW p \in Activities, Busy(p), Answer(p, FALSE) \/ Answer(p, TRUE),
           boot' = boot, checkpoint' = checkpoint \/ boot = "none", intents' = intents
    PROVE  Serial'
<1>1. /\ tx' = [tx EXCEPT ![p] = NoTx] /\ DOMAIN tx = Activities /\ NoTx.pc = "none" /\ NoTx.kind = "none"
      /\ boot = "none"
  BY DEF Answer, IInv, TypeOK, TypeOfTransactions, NoTx, Hosted, Busy, Active
<1>2. req'.tok = req.tok /\ req'.sel = req.sel /\ (req'.pc # "none" => req.pc # "none")
      /\ (tx[p].kind # "change" => req' = req)
  <2>1. req \in [pc : {"none", "changing", "applied", "refused", "flushing"}, tok : Nat, sel : Grants, mark : Nat]
    BY DEF IInv, TypeOK, TypeOfRequests
  <2>2. tx[p].kind = "change" => req.pc # "none"
    BY DEF Serial, Ordered
  <2> QED
    BY <2>1, <2>2 DEF Answer
<1>3. /\ chain' = chain \/ (tx[p].kind = "promote" /\ chain = "promote")
      /\ req'.pc # "none" => chain' = "request" /\ req'.tok > 0
  <2>1. tx[p].kind = "promote" => chain = "promote"
    BY DEF Serial, Ordered, Kinded, Busy
  <2>2. chain' = IF tx[p].kind = "promote" THEN "free" ELSE chain
    BY DEF Answer
  <2> QED
    BY <1>2, <2>1, <2>2 DEF Serial
<1>4. ASSUME NEW q \in Activities, q # p PROVE Kinded(tx'[q]) /\ Ordered(q)'
  <2>1. tx'[q] = tx[q] /\ ~Busy(q) /\ Kinded(tx[q]) /\ Ordered(q)
    BY <1>1, <1>4 DEF IInv, Exclusive, Serial
  <2>2. tx[q].kind \in {"none", "change", "follow", "promote"} /\ (tx[q].kind = "promote" => tx[q].pc = "queued")
    BY <2>1 DEF Busy, Kinded
  <2>3. tx[q].kind = "change" => tx[p].kind # "change"
    BY <1>4, <2>1 DEF Serial, Ordered
  <2> QED
    BY <1>2, <2>1, <2>2, <2>3 DEF Ordered, Matches, Starts
<1>5. Kinded(tx'[p]) /\ Ordered(p)'
  BY <1>1 DEF Kinded, Ordered, Starts
<1> QED
  BY <1>1, <1>3, <1>4, <1>5 DEF Serial

\* A transaction that begins keeps its kind; what a change was asked for, it writes.
LEMMA SerialBegins ==
    ASSUME IInv, Serial, NEW p \in Activities, NEW kind, NEW rev, NEW sel, NEW rec, NEW requested, NEW cp,
           Begin(p, kind, rev, sel, rec, requested, cp), tx[p].kind = kind, Active(p),
           \A q \in Activities : Busy(q) => q = p,
           kind = "change" => requested = tx[p].tok /\ sel = tx[p].sel,
           req' = req, boot' = boot, boot = "none",
           kind = "promote" => chain' = "promote", kind # "promote" => chain' = chain,
           req.pc # "none" => chain' = chain
    PROVE  Serial'
<1>1. tx' = [tx EXCEPT ![p] = [pc |-> "flushPending", kind |-> kind, rev |-> rev, tok |-> Token(rev, requested, cp.latest),
                               sel |-> sel, rec |-> rec, mark |-> Len(log) + 1, undo |-> applied]]
      /\ DOMAIN tx = Activities
  BY DEF Begin, IInv, TypeOK, TypeOfTransactions
<1>2. kind = "change" => req.tok > 0 /\ Token(rev, requested, cp.latest) = req.tok /\ sel = req.sel
  BY DEF Serial, Ordered, Matches, Token
<1>3. Kinded(tx'[p]) /\ Ordered(p)'
  <2>1. kind # "none" /\ tx'[p].pc = "flushPending" /\ tx'[p].kind = kind
    BY <1>1 DEF Serial, Kinded, Active
  <2>2. Ordered(p) /\ tx[p].kind = kind
    BY DEF Serial
  <2> QED
    BY <1>1, <1>2, <2>1, <2>2 DEF Kinded, Ordered, Matches
<1>4. ASSUME NEW q \in Activities, q # p PROVE Kinded(tx'[q]) /\ Ordered(q)'
  <2>1. tx'[q] = tx[q] /\ ~Busy(q) /\ Kinded(tx[q]) /\ Ordered(q)
    BY <1>1, <1>4 DEF Serial
  <2>2. tx[q].kind \in {"none", "change", "follow", "promote"} /\ (tx[q].kind = "promote" => tx[q].pc = "queued")
    BY <2>1 DEF Busy, Kinded
  <2> QED
    BY <2>1, <2>2 DEF Ordered, Starts
<1> QED
  BY <1>3, <1>4 DEF Serial

\* A transaction that moves on keeps its kind and what it was asked for.
LEMMA SerialMoves ==
    ASSUME IInv, Serial, NEW p \in Activities, Busy(p), NEW t, tx' = [tx EXCEPT ![p] = t],
           t.kind = tx[p].kind, t.kind = "change" => t.tok = tx[p].tok /\ t.sel = tx[p].sel,
           t.pc \in {"apply", "flushCommitted", "rollback"} \/ (t.pc \in {"restore", "capture"} /\ t.kind \in Starts)
              \/ (t.pc = "capture" /\ t.kind = "recover"),
           UNCHANGED <<req, boot, chain>>
    PROVE  Serial'
<1>1. DOMAIN tx = Activities /\ boot = "none" /\ \A q \in Activities : Busy(q) => q = p
  BY DEF IInv, TypeOK, TypeOfTransactions, Exclusive, Hosted, Busy, Active
<1>2. Kinded(tx'[p]) /\ Ordered(p)'
  <2>1. Kinded(tx[p]) /\ Ordered(p) /\ tx'[p] = t /\ tx[p].pc \notin {"none", "begin", "queued"}
    BY <1>1 DEF Serial, Busy
  <2> QED
    BY <2>1 DEF Kinded, Ordered, Matches, Starts
<1>3. ASSUME NEW q \in Activities, q # p PROVE Kinded(tx'[q]) /\ Ordered(q)'
  <2>1. tx'[q] = tx[q] /\ ~Busy(q) /\ Kinded(tx[q]) /\ Ordered(q)
    BY <1>1, <1>3 DEF Serial
  <2>2. tx[q].kind \in {"none", "change", "follow", "promote"}
    BY <2>1 DEF Busy, Kinded
  <2> QED
    BY <2>1, <2>2 DEF Ordered, Starts
<1> QED
  BY <1>1, <1>2, <1>3 DEF Serial

\* Every action keeps the requests and their transactions in order.
LEMMA SerialTransaction ==
    ASSUME IInv, Serial, NEW p \in Activities, TransactionStep(p)
    PROVE  Serial'
<1>0. DOMAIN tx = Activities /\ (Busy(p) => boot = "none" /\ \A q \in Activities : Busy(q) => q = p)
  BY DEF IInv, TypeOK, TypeOfTransactions, Exclusive, Hosted, Busy, Active
<1>1. CASE FlushPending(p) \/ Apply(p) \/ ApplyAborted(p) \/ FlushCommittedFails(p)
  <2>1. tx[p] \in Txs /\ Busy(p) /\ UNCHANGED <<req, boot, chain>>
    BY <1>1 DEF IInv, TypeOK, TypeOfTransactions, FlushPending, Apply, ApplyAborted, FlushCommittedFails, Busy,
       requests, host
  <2>2. CASE Apply(p)
    <3> DEFINE t == [tx[p] EXCEPT !.pc = "flushCommitted", !.mark = Len(log) + 1]
    <3>1. tx' = [tx EXCEPT ![p] = t]
      BY <2>2 DEF Apply
    <3>2. t.kind = tx[p].kind /\ t.tok = tx[p].tok /\ t.sel = tx[p].sel /\ t.pc = "flushCommitted"
      BY <2>1 DEF Txs
    <3> HIDE DEF t
    <3> QED
      BY <2>1, <3>1, <3>2, SerialMoves
  <2>3. CASE ~Apply(p)
    <3>1. PICK pc \in {"apply", "rollback"} : tx' = [tx EXCEPT ![p] = [tx[p] EXCEPT !.pc = pc]]
      BY <1>1, <2>3 DEF FlushPending, ApplyAborted, FlushCommittedFails
    <3> DEFINE t == [tx[p] EXCEPT !.pc = pc]
    <3>2. t.kind = tx[p].kind /\ t.tok = tx[p].tok /\ t.sel = tx[p].sel /\ t.pc = pc
      BY <2>1 DEF Txs
    <3> HIDE DEF t
    <3> QED
      BY <2>1, <3>1, <3>2, SerialMoves DEF t
  <2> QED
    BY <2>2, <2>3
<1>2. CASE FlushPendingFails(p) \/ ApplyFails(p) \/ ReplayFails(p) \/ Rollback(p) \/ CommittedThrows(p)
  <2>1. Busy(p) /\ Answer(p, FALSE) /\ boot' = boot /\ intents' = intents
    BY <1>2 DEF FlushPendingFails, ApplyFails, ReplayFails, Rollback, CommittedThrows, Settle, Busy, host
  <2> QED
    BY <1>0, <2>1, SerialSettles
<1>3. CASE FlushCommitted(p) \/ Restore(p)
  <2>1. Busy(p) /\ Answer(p, TRUE) /\ boot' = boot /\ intents' = intents
    BY <1>3 DEF FlushCommitted, Restore, Publish, Settle, Busy
  <2> QED
    BY <1>0, <2>1, SerialSettles
<1>4. CASE InitReplay(p)
  <2>1. Busy(p) /\ Active(p) /\ boot' = boot /\ tx[p].kind \in Starts /\ req.pc = "none"
    BY <1>4 DEF InitReplay, Busy, Active, Serial, Ordered, host
  <2>2. CASE Settle(p, FALSE) /\ intents' = intents
    BY <1>0, <2>1, <2>2, SerialSettles DEF Settle
  <2>3. CASE \E sel, cp : Begin(p, tx[p].kind, 1, sel, NoRec, 0, cp) /\ UNCHANGED <<chain, req>>
    <3>1. PICK sel, cp : Begin(p, tx[p].kind, 1, sel, NoRec, 0, cp)
      BY <2>3
    <3> QED
      BY <1>0, <2>1, <2>3, <3>1, SerialBegins DEF Starts
  <2>4. CASE /\ UNCHANGED <<chain, req>>
             /\ \E t \in Txs : t.pc \in {"restore", "capture"} /\ t.kind = tx[p].kind /\ tx' = [tx EXCEPT ![p] = t]
    <3>1. PICK t \in Txs : t.pc \in {"restore", "capture"} /\ t.kind = tx[p].kind /\ tx' = [tx EXCEPT ![p] = t]
      BY <2>4
    <3> QED
      BY <2>1, <2>4, <3>1, SerialMoves DEF Starts
  <2>5. Replay(log).latest.owner = "self" => Replay(log).latest.rev \in Nat /\ Replay(log).latest.sel \in Selections
    <3>1. Replay(log).latest \in Entries \cup {NoEntry}
      BY ReplayType DEF Replay, Latest, IInv, TypeOK, TypeOfJournal
    <3> QED
      BY <3>1 DEF Entries, NoEntry, Entry
  <2>6. ASSUME tx' = [tx EXCEPT ![p] = [@ EXCEPT !.pc = "restore", !.rev = Replay(log).latest.rev,
                                        !.sel = Replay(log).latest.sel, !.undo = applied]],
               Replay(log).latest.owner = "self"
        PROVE  \E t \in Txs : t.pc \in {"restore", "capture"} /\ t.kind = tx[p].kind /\ tx' = [tx EXCEPT ![p] = t]
    <3> DEFINE t == [tx[p] EXCEPT !.pc = "restore", !.rev = Replay(log).latest.rev,
                                  !.sel = Replay(log).latest.sel, !.undo = applied]
    <3>1. tx' = [tx EXCEPT ![p] = t]
      BY <2>6
    <3>2. t \in Txs /\ t.pc = "restore" /\ t.kind = tx[p].kind
      BY <2>5, <2>6 DEF IInv, TypeOK, TypeOfTransactions, TypeOfHistory, Txs, Pcs, Grants
    <3> HIDE DEF t
    <3> QED
      BY <3>1, <3>2
  <2>7. ASSUME tx' = [tx EXCEPT ![p].pc = "capture"]
        PROVE  \E t \in Txs : t.pc \in {"restore", "capture"} /\ t.kind = tx[p].kind /\ tx' = [tx EXCEPT ![p] = t]
    <3> DEFINE t == [tx[p] EXCEPT !.pc = "capture"]
    <3>1. tx' = [tx EXCEPT ![p] = t]
      BY <2>7
    <3>2. t \in Txs /\ t.pc = "capture" /\ t.kind = tx[p].kind
      BY DEF IInv, TypeOK, TypeOfTransactions, Txs, Pcs
    <3> HIDE DEF t
    <3> QED
      BY <3>1, <3>2
  <2>8. \/ Settle(p, FALSE) /\ intents' = intents
        \/ UNCHANGED <<chain, req>> /\ \E sel, cp : Begin(p, tx[p].kind, 1, sel, NoRec, 0, cp)
        \/ /\ UNCHANGED <<chain, req>>
           /\ \E t \in Txs : t.pc \in {"restore", "capture"} /\ t.kind = tx[p].kind /\ tx' = [tx EXCEPT ![p] = t]
    BY <1>4, <2>6, <2>7, Zenon DEF InitReplay
  <2> QED
    BY <2>2, <2>3, <2>4, <2>8
<1>5. CASE Capture(p)
  <2>1. PICK sel \in Selections : Begin(p, tx[p].kind, 1, sel, NoRec, 0, checkpoint)
    BY <1>5 DEF Capture
  <2>2. Busy(p) /\ Active(p) /\ UNCHANGED <<chain, req, boot>> /\ tx[p].kind \in Starts \cup {"recover"}
    BY <1>5 DEF Capture, Busy, Active, Serial, Kinded, requests, host
  <2> QED
    BY <1>0, <2>1, <2>2, SerialBegins DEF Starts
<1>6. CASE Promote(p)
  <2>1. Active(p) /\ boot = "none" /\ tx[p].kind = "promote" /\ req.pc = "none" /\ ~Busy(p) /\ UNCHANGED <<req, boot>>
    BY <1>6 DEF Promote, Active, IInv, Hosted, Serial, Kinded, Busy
  <2>2. CASE PromotionDue
    <3>1. Begin(p, "promote", states.rev + 1, intents.sel, NoRec, intents.tok, checkpoint) /\ chain' = "promote" /\ Ready
      BY <1>6, <2>2 DEF Promote, PromotionDue
    <3>2. \A q \in Activities : ~Busy(q)
      BY <3>1 DEF IInv, Exclusive
    <3> QED
      BY <2>1, <3>1, <3>2, SerialBegins
  <2>3. CASE ~PromotionDue
    BY <1>0, <1>6, <2>1, <2>3 DEF Promote, Serial, Kinded, Ordered, NoTx, Starts
  <2> QED
    BY <2>2, <2>3
<1> QED
  BY <1>1, <1>2, <1>3, <1>4, <1>5, <1>6 DEF TransactionStep

\* Every step keeps the order of requests and of the transactions that serve them.
LEMMA SerialStep ==
    ASSUME IInv, Serial, [Next]_vars,
           RecoverReplay => \/ Settle("maint", FALSE)
                            \/ tx' = [tx EXCEPT !["maint"].pc = "capture"] /\ UNCHANGED <<chain, req>>
                            \/ UNCHANGED <<chain, req>> /\ \E rev, sel, rec, cp : Begin("maint", "recover", rev, sel, rec, 0, cp)
    PROVE  Serial'
<1>0. DOMAIN tx = Activities /\ {"init", "maint", "stop"} = Activities
  BY DEF IInv, TypeOK, TypeOfTransactions, Activities
<1>1. CASE \E p \in Activities : TransactionStep(p)
  BY <1>1, SerialTransaction
<1>2. CASE Created \/ Attach
  <2>1. boot # "none" /\ boot' = "none" /\ intents = NoIntent /\ req = NoReq /\ checkpoint = NoCheckpoint
        /\ UNCHANGED <<intents, req, chain, checkpoint>>
    BY <1>2 DEF Created, Attach, Initialize, IInv, Hosted, Serial, requests
  <2>2. \E p \in Activities, kind \in Starts : tx' = [tx EXCEPT ![p] = [NoTx EXCEPT !.pc = "replay", !.kind = kind]]
    BY <1>0, <1>2, Zenon DEF Created, Attach, Initialize, Starts
  <2>3. PICK p \in Activities, kind \in Starts : tx' = [tx EXCEPT ![p] = [NoTx EXCEPT !.pc = "replay", !.kind = kind]]
    BY <2>2
  <2>4. \A q \in Activities \ {p} : tx'[q] = tx[q] /\ Kinded(tx[q]) /\ tx[q].pc = "none"
    BY <1>0, <2>1, <2>3 DEF Serial, IInv, Hosted, Active
  <2>5. \A q \in Activities \ {p} : Kinded(tx'[q]) /\ Ordered(q)'
    BY <2>4 DEF Kinded, Ordered, Starts
  <2>6. Kinded(tx'[p]) /\ Ordered(p)'
    BY <1>0, <2>1, <2>3 DEF Kinded, Ordered, Starts, NoTx, NoReq
  <2> QED
    BY <1>0, <2>1, <2>5, <2>6 DEF Serial, NoReq
<1>3. CASE AttachBusy
  BY <1>3 DEF AttachBusy, Serial, Ordered, requests
<1>4. CASE Recover
  <2>1. /\ tx' = [tx EXCEPT !["maint"] = [NoTx EXCEPT !.pc = "replay", !.kind = "recover", !.rev = checkpoint.latest.rev]]
        /\ UNCHANGED <<intents, req, chain, checkpoint, boot>>
    BY <1>4 DEF Recover, requests, published, host
  <2>2. \A q \in Activities \ {"maint"} : tx'[q] = tx[q] /\ Kinded(tx[q]) /\ Ordered(q)
    BY <1>0, <2>1 DEF Serial
  <2>3. Kinded(tx'["maint"]) /\ Ordered("maint")'
    BY <1>0, <2>1 DEF Kinded, Ordered, Starts, NoTx
  <2> QED
    BY <1>0, <2>1, <2>2, <2>3 DEF Serial, Ordered
<1>5. CASE RecoverReplay
  <2>1. /\ Busy("maint") /\ Active("maint") /\ tx["maint"].kind = "recover" /\ UNCHANGED <<boot, intents>> /\ "maint" \in Activities
        /\ boot = "none" /\ \A q \in Activities : Busy(q) => q = "maint"
    BY <1>0, <1>5 DEF RecoverReplay, Busy, Active, host, IInv, Hosted, Exclusive
  <2>2. CASE Settle("maint", FALSE)
    BY <2>1, <2>2, SerialSettles DEF Settle
  <2>3. CASE tx' = [tx EXCEPT !["maint"].pc = "capture"] /\ UNCHANGED <<chain, req>>
    <3> DEFINE t == [tx["maint"] EXCEPT !.pc = "capture"]
    <3>1. tx' = [tx EXCEPT !["maint"] = t]
      BY <2>3
    <3>2. t.kind = tx["maint"].kind /\ t.tok = tx["maint"].tok /\ t.sel = tx["maint"].sel /\ t.pc = "capture"
      BY <2>1 DEF IInv, TypeOK, TypeOfTransactions, Txs
    <3> HIDE DEF t
    <3> QED
      BY <2>1, <2>3, <3>1, <3>2, SerialMoves
  <2>4. CASE UNCHANGED <<chain, req>> /\ \E rev, sel, rec, cp : Begin("maint", "recover", rev, sel, rec, 0, cp)
    <3>1. PICK rev, sel, rec, cp : Begin("maint", "recover", rev, sel, rec, 0, cp)
      BY <2>4
    <3> QED
      BY <2>1, <2>4, <3>1, SerialBegins
  <2> QED
    BY <1>5, <2>2, <2>3, <2>4
<1>6. CASE Follow
  <2>1. PICK sel \in Selections : tx' = [tx EXCEPT !["maint"] = [NoTx EXCEPT !.pc = "begin", !.kind = "follow",
                                                                  !.rev = states.rev, !.sel = sel]]
    BY <1>6 DEF Follow
  <2>2. UNCHANGED <<intents, req, chain, checkpoint, boot>>
    BY <1>6 DEF Follow, requests, published, host
  <2>3. \A q \in Activities \ {"maint"} : tx'[q] = tx[q] /\ Kinded(tx[q]) /\ Ordered(q)
    BY <1>0, <2>1 DEF Serial
  <2>4. Kinded(tx'["maint"]) /\ Ordered("maint")'
    BY <1>0, <2>1 DEF Kinded, Ordered, Starts, NoTx
  <2> QED
    BY <1>0, <2>2, <2>3, <2>4 DEF Serial, Ordered
<1>7. CASE Change
  <2>1. /\ tx["maint"].pc = "begin" /\ Kinded(tx["maint"]) /\ Ordered("maint") /\ boot = "none" /\ Active("maint")
        /\ tx["maint"].kind \in {"change", "follow"} /\ UNCHANGED <<intents, boot>>
    BY <1>0, <1>7 DEF Change, Serial, Kinded, IInv, Hosted, Active, host
  <2>2. CASE Ready /\ states.rev = tx["maint"].rev
    <3>1. Begin("maint", tx["maint"].kind, states.rev + 1, tx["maint"].sel, NoRec, tx["maint"].tok, checkpoint)
          /\ UNCHANGED <<chain, req>>
      BY <1>7, <2>2 DEF Change
    <3>2. \A q \in Activities : ~Busy(q)
      BY <2>2 DEF IInv, Exclusive
    <3> QED
      BY <1>0, <2>1, <3>1, <3>2, SerialBegins
  <2>3. CASE ~(Ready /\ states.rev = tx["maint"].rev)
    <3>1. /\ tx' = [tx EXCEPT !["maint"] = NoTx] /\ UNCHANGED <<chain, checkpoint>>
          /\ req' = IF tx["maint"].kind = "change" THEN [req EXCEPT !.pc = "refused"] ELSE req
      BY <1>7, <2>3 DEF Change
    <3>2. req'.tok = req.tok /\ (req'.pc # "none" => req.pc # "none") /\ (tx["maint"].kind # "change" => req' = req)
      <4>1. req \in [pc : {"none", "changing", "applied", "refused", "flushing"}, tok : Nat, sel : Grants, mark : Nat]
        BY DEF IInv, TypeOK, TypeOfRequests
      <4> QED
        BY <2>1, <3>1, <4>1 DEF Ordered
    <3>3. ASSUME NEW q \in Activities, q # "maint" PROVE Kinded(tx'[q]) /\ Ordered(q)'
      <4>1. tx'[q] = tx[q] /\ Kinded(tx[q]) /\ Ordered(q)
        BY <1>0, <3>1, <3>3 DEF Serial
      <4> QED
        BY <2>1, <3>1, <3>2, <3>3, <4>1 DEF Ordered
    <3>4. Kinded(tx'["maint"]) /\ Ordered("maint")'
      BY <1>0, <3>1 DEF Kinded, Ordered, NoTx, Starts
    <3> QED
      BY <1>0, <2>1, <3>1, <3>2, <3>3, <3>4 DEF Serial
  <2> QED
    BY <2>2, <2>3
<1>8. CASE \E sel \in Selections : Request(sel)
  <2>1. PICK sel \in Selections : Request(sel)
    BY <1>8
  <2>2. /\ Ready /\ req.pc = "none" /\ chain' = "request" /\ UNCHANGED <<intents, checkpoint, boot>>
        /\ \A q \in Activities : tx[q].kind # "change" /\ tx[q].kind \notin Starts /\ (tx[q].kind = "promote" => tx[q].pc = "queued")
    BY <2>1, BusyKinds DEF Request, Serial, Ordered, IInv, Exclusive, published, host
  <2>3. SelectionRevision + 1 \in Nat /\ SelectionRevision + 1 > 0
    BY DEF SelectionRevision, IInv, TypeOK, TypeOfRequests, TypeOfPublished, NoIntent, NoState, Bindings, Entries, NoEntry, Entry
  <2>4. req'.tok > 0 /\ req'.pc # "none"
    BY <2>1, <2>3 DEF Request
  <2>5. CASE SlotFree
    <3>1. /\ req' = [pc |-> "changing", tok |-> SelectionRevision + 1, sel |-> sel, mark |-> 0]
          /\ tx' = [tx EXCEPT !["maint"] = [NoTx EXCEPT !.pc = "begin", !.kind = "change", !.rev = states.rev,
                                            !.tok = SelectionRevision + 1, !.sel = sel]]
      BY <2>1, <2>5 DEF Request
    <3>2. \A q \in Activities \ {"maint"} : tx'[q] = tx[q] /\ Kinded(tx[q]) /\ Ordered(q)
      BY <1>0, <3>1 DEF Serial
    <3>3. \A q \in Activities \ {"maint"} : Kinded(tx'[q]) /\ Ordered(q)'
      BY <2>2, <3>2 DEF Ordered
    <3>4. Kinded(tx'["maint"]) /\ Ordered("maint")'
      BY <1>0, <3>1 DEF Kinded, Ordered, Matches, NoTx, Starts
    <3> QED
      BY <1>0, <2>2, <2>4, <3>3, <3>4 DEF Serial
  <2>6. CASE ~SlotFree
    BY <2>1, <2>2, <2>4, <2>6 DEF Request, Serial, Ordered
  <2> QED
    BY <2>5, <2>6
<1>9. CASE RequestApplied \/ RequestRefused \/ IntentFails
  <2>1. req.pc \in {"applied", "refused", "flushing"} /\ req' = NoReq /\ UNCHANGED <<tx, checkpoint, boot>> /\ chain = "request"
    BY <1>9 DEF RequestApplied, RequestRefused, IntentFails, Serial, published, host
  <2>2. intents' = intents \/ intents' = NoIntent
    BY <1>9 DEF RequestApplied, RequestRefused, IntentFails
  <2> QED
    BY <2>1, <2>2 DEF Serial, Ordered, NoReq
<1>10. CASE IntentPersisted
  <2>1. req.pc = "flushing" /\ req' = NoReq /\ UNCHANGED <<tx, checkpoint, boot>> /\ chain = "request"
    BY <1>10 DEF IntentPersisted, Serial, published, host
  <2> QED
    BY <2>1 DEF Serial, Ordered, NoReq
<1>11. CASE IdleReached \/ UserSend \/ LaterStep \/ TurnEnd
  BY <1>11 DEF IdleReached, UserSend, LaterStep, TurnEnd, Serial, Ordered, requests, published, host
<1>12. CASE PromoteAfterIdle \/ TurnStart \/ TurnStopping
  <2>1. UNCHANGED <<intents, chain, req, checkpoint, boot>>
    BY <1>12 DEF PromoteAfterIdle, TurnStart, TurnStopping, requests, published, host
  <2>2. tx' = tx \/ \E q \in {"maint", "stop"} : /\ ~Active(q) \/ turn = "running"
                                                 /\ tx' = [tx EXCEPT ![q] = [NoTx EXCEPT !.pc = "queued", !.kind = "promote"]]
    <3>1. SlotFree => ~Active("stop") /\ ~Active("maint")
      BY DEF SlotFree, IInv, Hosted
    <3> QED
      BY <1>12, <3>1, Zenon DEF PromoteAfterIdle, TurnStart, TurnStopping
  <2>3. ASSUME NEW q \in {"maint", "stop"}, tx' = [tx EXCEPT ![q] = [NoTx EXCEPT !.pc = "queued", !.kind = "promote"]]
        PROVE  Serial'
    <3>1. \A r \in Activities \ {q} : tx'[r] = tx[r] /\ Kinded(tx[r]) /\ Ordered(r)
      BY <1>0, <2>3 DEF Serial
    <3>2. Kinded(tx'[q]) /\ Ordered(q)'
      BY <1>0, <2>3 DEF Kinded, Ordered, Starts, NoTx
    <3> QED
      BY <1>0, <2>1, <3>1, <3>2 DEF Serial, Ordered
  <2>4. CASE tx' = tx
    BY <2>1, <2>4 DEF Serial, Ordered
  <2> QED
    BY <2>2, <2>3, <2>4
<1>13. CASE Crash \/ Reload
  <2>1. tx' = [p \in Activities |-> NoTx] /\ req' = NoReq /\ checkpoint' = NoCheckpoint
    BY <1>13 DEF Crash, Reload, ForgetMemory
  <2> QED
    BY <2>1 DEF Serial, Kinded, Ordered, NoTx, NoReq, Starts
<1>14. CASE UNCHANGED vars
  BY <1>14 DEF vars, requests, published, host, Serial, Ordered
<1> QED
  BY <1>1, <1>2, <1>3, <1>4, <1>5, <1>6, <1>7, <1>8, <1>9, <1>10, <1>11, <1>12, <1>13, <1>14 DEF Next

-----------------------------------------------------------------------------
(* What keeps an acknowledged request from being lost.                      *)

\* The envelopes a fork inherits are its parent's.
Forked == \A i \in 1 .. inherited : log[i].owner = "parent"

\* The last acknowledged request is on disk.
Recorded ==
    lastAck # NoIntent =>
        lastAck.tok > 0 /\ \E i \in 1 .. durable : Record(log, inherited, follows, lastAck, i)

\* The checkpoint in memory, once there is one, is what the log says.
Loaded ==
    /\ checkpoint.latest # NoEntry => checkpoint.latest = Latest(log)
    /\ checkpoint.latest = NoEntry => checkpoint.committed = NoEntry /\ checkpoint.initial = NoSel
    /\ Ready => checkpoint.committed = checkpoint.latest
    /\ req.pc # "none" => checkpoint.latest # NoEntry
    /\ tx["maint"].kind = "recover" /\ tx["maint"].pc = "replay" => checkpoint.latest # NoEntry \/ captured

\* What each kind of transaction knows of the requests before it.
Fresh == lastAck = NoIntent /\ req.pc = "none"
Running(p) == tx[p].pc \in {"flushPending", "apply"}
Carries(p) ==
    /\ tx[p].kind = "recover" /\ Running(p) => checkpoint.latest.rec # NoRec \/ Fresh
    /\ (tx[p].kind \in Starts /\ Running(p)) \/ tx[p].pc = "capture" => Fresh
    /\ tx[p].kind = "change" /\ (Running(p) \/ tx[p].pc = "flushCommitted") => Matches(checkpoint.latest, req)
    /\ tx[p].pc = "flushCommitted" => tx[p].mark = Len(log) /\ log[Len(log)] = checkpoint.latest
Carried ==
    /\ checkpoint.latest = NoEntry /\ lastAck # NoIntent => restarts > 0 /\ ~captured
    /\ \A p \in Activities : Carries(p)

\* The request in progress: its intent is in the log and only a recovery or a
\* follow commits over it, or its change is durable and nothing older follows.
Flushing(l, inh, fs, r) ==
    /\ r.mark \in 1 .. Len(l)
    /\ l[r.mark].kind = "intent" /\ l[r.mark].owner = "self" /\ Matches(l[r.mark], r)
    /\ CommittedIn(l, inh + 1, r.mark)
    /\ \A j \in (r.mark + 1) .. Len(l) : l[j].kind # "intent" /\ (l[j].kind = "committed" => l[j].rec # NoRec \/ j \in fs)
Served(l, inh, n, r) ==
    \E c \in (inh + 1) .. n :
        /\ l[c].kind = "committed" /\ l[c].owner = "self" /\ Matches(l[c], r)
        /\ \A j \in (c + 1) .. Len(l) : l[j].kind # "intent" /\ l[j].tok > r.tok
InRequest ==
    /\ req.pc = "flushing" => Flushing(log, inherited, follows, req)
    /\ req.pc = "applied" => Served(log, inherited, durable, req)

\* What the service holds covers the acknowledged request, unless a restart has
\* dropped it, or the session waits behind a transaction for its recovery.
Lost == restarts > 0 /\ Overtaken(log, follows, lastAck, Len(log))
Unserved(l, ack) ==
    \E i \in 1 .. Len(l) : /\ l[i].kind = "intent" /\ Matches(l[i], ack)
                           /\ \A j \in (i + 1) .. Len(l) : l[j].kind # "committed"
Stuck ==
    /\ restarts > 0 /\ Unserved(log, lastAck) /\ ~Ready /\ Latest(log).kind = "pending"
    /\ \A p \in Activities : Busy(p) => tx[p].kind = "recover"
Serves(p) == tx[p].kind \in {"change", "promote"} /\ Running(p)
Held ==
    lastAck # NoIntent /\ ~Lost =>
        /\ intents # NoIntent => Covers(intents, lastAck)
        /\ intents = NoIntent /\ checkpoint.latest # NoEntry => Covers(Latest(log), lastAck) \/ Stuck
        /\ req.pc \in {"changing", "flushing"} => req.tok > lastAck.tok
        /\ \A p \in Activities : Serves(p) => Covers(checkpoint.latest, lastAck)

AInv == Serial /\ Forked /\ Recorded /\ Loaded /\ Carried /\ InRequest /\ Held

-----------------------------------------------------------------------------
(* Lemmas about the log.                                                    *)

\* What was overtaken stays overtaken.
LEMMA OvertakenAppended ==
    ASSUME NEW l \in Seq(Entries), NEW e \in Entries, NEW fs, NEW gs, NEW ack,
           \A j \in 1 .. Len(l) : j \in fs <=> j \in gs, Overtaken(l, fs, ack, Len(l))
    PROVE  Overtaken(Append(l, e), gs, ack, Len(l) + 1)
<1> DEFINE m == Append(l, e)
<1>1. \A j \in 1 .. Len(l) : m[j] = l[j]
  OBVIOUS
<1> HIDE DEF m
<1>2. PICK i \in 1 .. Len(l), j \in 1 .. Len(l) : /\ i < j /\ l[i].kind = "intent" /\ Matches(l[i], ack)
                                                  /\ l[j].kind = "committed" /\ (l[j].rec # NoRec \/ j \in fs)
  BY DEF Overtaken
<1>3. i \in 1 .. Len(l) + 1 /\ j \in 1 .. Len(l) + 1
  OBVIOUS
<1> QED
  BY <1>1, <1>2, <1>3 DEF Overtaken, m

\* What a replay finds stands somewhere in the log.
LEMMA LatestFrom ==
    ASSUME NEW l \in Seq(Entries), Latest(l) # NoEntry
    PROVE  \E q \in 1 .. Len(l) : Latest(l) = l[q] /\ l[q].kind # "intent"
<1> DEFINE B == BindingsBefore(l, Len(l) + 1)
<1>1. B \in SUBSET (1 .. Len(l)) /\ B # {}
  BY DEF BindingsBefore, Latest, LatestBefore, EntryAt
<1>2. LastOf(B) \in B
  BY <1>1, PositionsChosen, Len(l) \in Nat
<1> QED
  BY <1>1, <1>2 DEF Latest, LatestBefore, EntryAt, BindingsBefore

\* A session whose latest transaction is its own commit has committed itself.
LEMMA OwnCommit ==
    ASSUME NEW l \in Seq(Entries), NEW inh \in Nat, \A i \in 1 .. inh : l[i].owner = "parent",
           Latest(l).kind = "committed", Latest(l).owner = "self"
    PROVE  CommittedIn(l, inh + 1, Len(l))
<1>1. Latest(l) # NoEntry
  BY DEF NoEntry, Entry
<1>2. PICK q \in 1 .. Len(l) : Latest(l) = l[q]
  BY <1>1, LatestFrom
<1>3. q \in (inh + 1) .. Len(l)
  BY <1>2
<1> QED
  BY <1>2, <1>3 DEF CommittedIn

\* A binding that is numbered past another, or has its token, covers what that covers.
LEMMA CoversOn ==
    ASSUME NEW x, NEW y, NEW ack, x.tok \in Nat, y.tok \in Nat, ack.tok \in Nat,
           Covers(x, ack), y.tok > x.tok \/ Matches(y, x)
    PROVE  Covers(y, ack)
  BY DEF Covers, Matches

\* What a pending envelope must bring to be sound.
LEMMA PendingSound ==
    ASSUME NEW l \in Seq(Entries), NEW e \in Entries, e.kind = "pending", NEW fs, NEW ack, NEW i \in 1 .. Len(l),
           CommittedIn(l, i, Len(l)) => Covers(e, ack)
    PROVE  Sound(Append(l, e), fs, ack, i, Len(l) + 1)
<1> DEFINE m == Append(l, e)
<1>1. m[Len(l) + 1] = e /\ (Len(l) + 1) - 1 = Len(l) /\ \A j \in i .. Len(l) : m[j] = l[j]
  OBVIOUS
<1> HIDE DEF m
<1>2. CommittedIn(m, i, Len(l)) => CommittedIn(l, i, Len(l))
  BY <1>1 DEF CommittedIn
<1> QED
  BY <1>1, <1>2 DEF Sound, m

\* The last acknowledged request stays on disk when the log grows.
LEMMA RecordedAppends ==
    ASSUME IInv, Recorded, NEW e \in Entries, log' = Append(log, e), durable' \in Nat, durable <= durable',
           UNCHANGED <<inherited, lastAck>>, \A j \in 1 .. Len(log) : j \in follows <=> j \in follows',
           \A i \in 1 .. durable : lastAck # NoIntent /\ Record(log, inherited, follows, lastAck, i) =>
               \/ Overtaken(log', follows', lastAck, Len(log) + 1)
               \/ Sound(log', follows', lastAck, i, Len(log) + 1)
    PROVE  Recorded'
<1>1. log \in Seq(Entries) /\ inherited \in Nat /\ durable \in Nat /\ durable <= Len(log)
  BY DEF IInv, TypeOK, TypeOfJournal, Marked
<1>2. ASSUME lastAck # NoIntent PROVE lastAck.tok > 0 /\ \E i \in 1 .. durable' : Record(log', inherited, follows', lastAck, i)
  <2>1. PICK i \in 1 .. durable : Record(log, inherited, follows, lastAck, i)
    BY <1>2 DEF Recorded
  <2>2. i \in 1 .. Len(log) /\ i \in 1 .. durable'
    BY <1>1
  <2>3. Record(log', inherited, follows', lastAck, i)
    BY <1>1, <1>2, <2>1, <2>2, RecordAppended
  <2> QED
    BY <1>2, <2>2, <2>3 DEF Recorded
<1> QED
  BY <1>2 DEF Recorded

\* The inherited part of the log is never touched.
LEMMA InheritedStays == [Next]_vars => inherited' = inherited
<1> SUFFICES ASSUME [Next]_vars PROVE inherited' = inherited
  OBVIOUS
<1>1. ASSUME NEW p \in Activities, TransactionStep(p) PROVE inherited' = inherited
  BY <1>1 DEF TransactionStep, FlushPending, FlushPendingFails, Apply, ApplyFails, ApplyAborted, FlushCommitted,
     CommittedThrows, FlushCommittedFails, Rollback, InitReplay, Restore, ReplayFails, Capture, Promote, journal
<1>2. ASSUME NEW sel \in Selections, Request(sel) PROVE inherited' = inherited
  BY <1>2 DEF Request
<1>3. CASE \/ Created \/ Attach \/ AttachBusy \/ Recover \/ RecoverReplay \/ Follow \/ Change \/ RequestApplied
           \/ RequestRefused \/ IntentPersisted \/ IntentFails \/ IdleReached \/ PromoteAfterIdle \/ UserSend
           \/ TurnStart \/ LaterStep \/ TurnStopping \/ TurnEnd \/ Crash \/ Reload \/ UNCHANGED vars
  BY <1>3 DEF Created, Attach, AttachBusy, Recover, RecoverReplay, Follow, Change, RequestApplied, RequestRefused,
     IntentPersisted, IntentFails, IdleReached, PromoteAfterIdle, UserSend, TurnStart, LaterStep, TurnStopping, TurnEnd,
     Crash, Reload, vars, journal
<1> QED
  BY <1>1, <1>2, <1>3 DEF Next

\* A log only grows behind its inherited part, and a crash keeps that part.
LEMMA ForkedKeeps ==
    ASSUME IInv, Forked, [Next]_vars
    PROVE  Forked'
<1>1. log \in Seq(Entries) /\ inherited \in Nat /\ durable \in Nat /\ inherited <= durable /\ durable <= Len(log)
  BY DEF IInv, TypeOK, TypeOfJournal, Marked
<1>2. \A i \in 1 .. inherited : log'[i] = log[i]
  <2>1. CASE \E e : log' = Append(log, e)
    BY <1>1, <2>1
  <2>2. ASSUME NEW p \in Activities, Apply(p) PROVE \E e : log' = Append(log, e)
    BY <2>2 DEF Apply
  <2>3. CASE Crash
    <3>1. PICK kept \in durable .. Len(log) : log' = SubSeq(log, 1, kept)
      BY <2>3 DEF Crash
    <3> QED
      BY <1>1, <3>1
  <2> QED
    BY <2>1, <2>2, <2>3, LogSteps
<1> QED
  BY <1>2, InheritedStays DEF Forked

-----------------------------------------------------------------------------
(* Steps that leave the log, the checkpoint and the requests as they are.   *)

\* An activity that stays where it is, gives up, waits, or only moves to its apply.
Eases(p) ==
    \/ tx'[p] = tx[p]
    \/ tx'[p].pc \in {"none", "begin", "queued"}
    \/ /\ tx'[p].pc = "replay"
       /\ tx'[p].kind \in Starts => checkpoint.latest = NoEntry
       /\ tx'[p].kind = "recover" => checkpoint.latest # NoEntry \/ captured
    \/ /\ tx'[p].kind = tx[p].kind /\ Busy(p)
       /\ tx'[p].pc = "rollback" \/ (tx[p].pc = "flushPending" /\ tx'[p].pc = "apply")

\* The request in progress stays, ends, or is a new one for an idle agent.
ReqEases ==
    \/ req' = req
    \/ req'.pc = "none"
    \/ req'.pc = "refused" /\ req.pc # "none"
    \/ /\ req.pc = "none" /\ req'.pc = "changing" /\ Ready
       /\ lastAck # NoIntent /\ ~Lost => req'.tok > lastAck.tok

\* A step that eases what the activities hold keeps everything that is known of the
\* acknowledged request.
LEMMA QuietKeeps ==
    ASSUME IInv, IInv', AInv, Serial', durable <= durable', Ready' => Ready,
           UNCHANGED <<log, inherited, follows, lastAck, restarts, checkpoint, captured, intents>>,
           ReqEases, \A p \in Activities : Eases(p)
    PROVE  Recorded' /\ Loaded' /\ Carried' /\ InRequest' /\ Held'
<1>1. durable \in Nat /\ durable' \in Nat /\ 1 .. durable \subseteq 1 .. durable'
  BY DEF IInv, TypeOK, TypeOfJournal
<1>2. Ready => checkpoint.latest # NoEntry /\ \A p \in Activities : ~Busy(p)
  BY DEF IInv, ReadyLinked, Exclusive, NoEntry, Entry
<1>3. \A p \in Activities : tx'[p].pc = "replay" => tx'[p].kind \in Starts \cup {"recover"}
  BY DEF Serial, Kinded
<1>4. Recorded'
  BY <1>1 DEF AInv, Recorded
<1>5. Loaded'
  <2>1. req'.pc # "none" => checkpoint.latest # NoEntry
    BY <1>2 DEF AInv, Loaded, ReqEases
  <2>2. tx'["maint"].kind = "recover" /\ tx'["maint"].pc = "replay" => checkpoint.latest # NoEntry \/ captured
    <3>1. Eases("maint")
      BY DEF Activities
    <3> QED
      BY <3>1 DEF AInv, Loaded, Eases, Starts
  <2> QED
    BY <2>1, <2>2 DEF AInv, Loaded
<1>6. Fresh /\ ~Fresh' => Ready
  BY DEF Fresh, ReqEases
<1>7. ASSUME NEW p \in Activities PROVE Carries(p)'
  <2>1. Carries(p) /\ Eases(p)
    BY DEF AInv, Carried
  <2>2. CASE tx'[p] = tx[p]
    <3>1. tx[p].kind = "change" => req.pc = "changing"
      BY DEF AInv, Serial, Ordered
    <3>2. tx'[p].kind = "change" => req'.pc = "changing"
      BY DEF Serial, Ordered
    <3>3. tx[p].kind = "change" => req' = req
      BY <2>2, <3>1, <3>2 DEF ReqEases
    <3>4. Running(p) \/ tx[p].pc = "capture" => (Fresh => Fresh')
      BY <1>2, <1>6 DEF Running, Busy
    <3> QED
      BY <2>1, <2>2, <3>3, <3>4 DEF Carries, Running
  <2>3. CASE tx'[p].pc \in {"none", "begin", "queued", "replay", "rollback"}
    BY <2>3 DEF Carries, Running
  <2>4. CASE tx'[p].kind = tx[p].kind /\ Busy(p) /\ tx[p].pc = "flushPending" /\ tx'[p].pc = "apply"
    <3>1. tx[p].kind = "change" => req.pc = "changing"
      BY DEF AInv, Serial, Ordered
    <3>2. tx'[p].kind = "change" => req'.pc = "changing"
      BY DEF Serial, Ordered
    <3>3. tx[p].kind = "change" => req' = req
      BY <2>4, <3>1, <3>2 DEF ReqEases
    <3>4. Fresh => Fresh'
      BY <1>2, <1>6, <2>4
    <3> QED
      BY <2>1, <2>4, <3>3, <3>4 DEF Carries, Running
  <2> QED
    BY <2>1, <2>2, <2>3, <2>4 DEF Eases
<1>8. Carried'
  BY <1>7 DEF AInv, Carried
<1>9. InRequest'
  <2>1. req'.pc \in {"flushing", "applied"} => req' = req
    BY DEF ReqEases
  <2> QED
    BY <1>1, <2>1 DEF AInv, InRequest, Served
<1>10. Held'
  <2>1. Lost' <=> Lost
    BY DEF Lost
  <2> SUFFICES ASSUME lastAck # NoIntent, ~Lost
               PROVE  /\ intents' # NoIntent => Covers(intents', lastAck)
                      /\ intents' = NoIntent /\ checkpoint'.latest # NoEntry => Covers(Latest(log'), lastAck) \/ Stuck'
                      /\ req'.pc \in {"changing", "flushing"} => req'.tok > lastAck.tok
                      /\ \A p \in Activities : Serves(p)' => Covers(checkpoint'.latest, lastAck)
    BY <2>1 DEF Held
  <2>2. intents' # NoIntent => Covers(intents', lastAck)
    BY DEF AInv, Held
  <2>3. ASSUME Stuck, checkpoint.latest # NoEntry PROVE Stuck'
    <3>1. ASSUME NEW p \in Activities, Busy(p)' PROVE tx'[p].kind = "recover"
      <4>1. Eases(p) /\ (Busy(p) => tx[p].kind = "recover")
        BY <2>3 DEF Stuck
      <4> QED
        BY <1>3, <2>3, <3>1, <4>1 DEF Eases, Busy
    <3> QED
      BY <2>3, <3>1 DEF Stuck
  <2>4. intents' = NoIntent /\ checkpoint'.latest # NoEntry => Covers(Latest(log'), lastAck) \/ Stuck'
    BY <2>3 DEF AInv, Held
  <2>5. req'.pc \in {"changing", "flushing"} => req'.tok > lastAck.tok
    BY DEF AInv, Held, ReqEases
  <2>6. ASSUME NEW p \in Activities, Serves(p)' PROVE Covers(checkpoint'.latest, lastAck)
    <3>1. Eases(p) /\ (Serves(p) => Covers(checkpoint.latest, lastAck))
      BY DEF AInv, Held
    <3>2. Serves(p)
      BY <2>6, <3>1 DEF Eases, Serves, Running
    <3> QED
      BY <3>1, <3>2
  <2> QED
    BY <2>2, <2>4, <2>5, <2>6
<1> QED
  BY <1>4, <1>5, <1>8, <1>9, <1>10

\* An activity that gives up eases everything it held.
LEMMA SettleEases ==
    ASSUME IInv, AInv, NEW p \in Activities, Settle(p, FALSE)
    PROVE  ReqEases /\ \A q \in Activities : Eases(q)
<1>1. tx' = [tx EXCEPT ![p] = NoTx] /\ DOMAIN tx = Activities /\ NoTx.pc = "none"
  BY DEF Settle, Answer, IInv, TypeOK, TypeOfTransactions, NoTx
<1>2. \A q \in Activities : Eases(q)
  BY <1>1 DEF Eases
<1>3. req \in [pc : {"none", "changing", "applied", "refused", "flushing"}, tok : Nat, sel : Grants, mark : Nat]
  BY DEF IInv, TypeOK, TypeOfRequests
<1>4. tx[p].kind = "change" => req.pc # "none"
  BY DEF AInv, Serial, Ordered
<1>5. ReqEases
  BY <1>3, <1>4 DEF Settle, Answer, ReqEases
<1> QED
  BY <1>2, <1>5

\* So does one that changes its place without a step forward.
LEMMA MoveEases ==
    ASSUME IInv, NEW p \in Activities, NEW t, tx' = [tx EXCEPT ![p] = t], Activities = DOMAIN tx,
           \/ t.pc \in {"none", "begin", "queued"}
           \/ /\ t.pc = "replay"
              /\ t.kind \in Starts => checkpoint.latest = NoEntry
              /\ t.kind = "recover" => checkpoint.latest # NoEntry \/ captured
           \/ /\ t.kind = tx[p].kind /\ Busy(p)
              /\ t.pc = "rollback" \/ (tx[p].pc = "flushPending" /\ t.pc = "apply")
    PROVE  \A q \in Activities : Eases(q)
  BY DEF Eases

\* The token a ready session shows covers what it acknowledged.
LEMMA TokenCovers ==
    ASSUME IInv, AInv, Ready, lastAck # NoIntent, ~Lost
    PROVE  SelectionRevision \in Nat /\ SelectionRevision >= lastAck.tok
<1>1. /\ checkpoint.latest = Latest(log) /\ checkpoint.latest # NoEntry /\ checkpoint.committed = checkpoint.latest
      /\ checkpoint.latest.owner = "self"
  BY DEF IInv, ReadyLinked, Same, AInv, Loaded, NoEntry, Entry
<1>2. checkpoint.latest.tok \in Nat /\ intents.tok \in Nat /\ lastAck.tok \in Nat
  BY DEF IInv, TypeOK, TypeOfPublished, TypeOfRequests, TypeOfHistory, Bindings, Entries, NoEntry, Entry, NoIntent
<1>3. intents # NoIntent => Covers(intents, lastAck)
  BY DEF AInv, Held
<1>4. intents = NoIntent => Covers(checkpoint.latest, lastAck)
  BY <1>1 DEF AInv, Held, Stuck
<1> QED
  BY <1>1, <1>2, <1>3, <1>4 DEF SelectionRevision, Covers, Matches

\* The steps of a transaction that neither write the log nor publish.
LEMMA QuietTransaction ==
    ASSUME IInv, IInv', AInv, Serial', NEW p \in Activities,
           \/ FlushPending(p) \/ FlushPendingFails(p) \/ ApplyFails(p) \/ ApplyAborted(p)
           \/ FlushCommittedFails(p) \/ Rollback(p) \/ ReplayFails(p)
    PROVE  Recorded' /\ Loaded' /\ Carried' /\ InRequest' /\ Held'
<1>1. UNCHANGED <<log, inherited, follows, lastAck, restarts, checkpoint, captured, intents>> /\ (Ready' => Ready)
  <2>1. CASE FlushPending(p)
    BY <2>1 DEF FlushPending, Ready, published, requests, history, bounds
  <2>2. CASE FlushPendingFails(p) \/ ApplyFails(p) \/ ReplayFails(p)
    BY <2>2 DEF FlushPendingFails, ApplyFails, ReplayFails, Fail, Fault, Ready, journal, history
  <2>3. CASE ApplyAborted(p) \/ FlushCommittedFails(p)
    BY <2>3 DEF ApplyAborted, FlushCommittedFails, Fail, Fault, Ready, journal, requests, history
  <2>4. CASE Rollback(p)
    BY <2>4 DEF Rollback, Fault, Ready, journal, history, bounds
  <2> QED
    BY <2>1, <2>2, <2>3, <2>4
<1>2. durable <= durable'
  <2>1. durable \in Nat /\ tx[p].mark \in Nat
    BY DEF IInv, TypeOK, TypeOfJournal, TypeOfTransactions, Txs
  <2>2. durable' \in {durable, Larger(durable, tx[p].mark)}
    BY DEF FlushPending, FlushPendingFails, ApplyFails, ApplyAborted, FlushCommittedFails, Rollback, ReplayFails,
       Flushed, journal
  <2> QED
    BY <2>1, <2>2 DEF Larger
<1>3. ReqEases /\ \A q \in Activities : Eases(q)
  <2>1. CASE Settle(p, FALSE)
    BY <2>1, SettleEases
  <2>2. CASE FlushPending(p) \/ ApplyAborted(p) \/ FlushCommittedFails(p)
    <3>1. PICK pc \in {"apply", "rollback"} : tx' = [tx EXCEPT ![p] = [tx[p] EXCEPT !.pc = pc]] /\ req' = req
                                              /\ (pc = "apply" => tx[p].pc = "flushPending")
      BY <2>2 DEF FlushPending, ApplyAborted, FlushCommittedFails, requests
    <3>2. tx[p] \in Txs /\ DOMAIN tx = Activities /\ Busy(p)
      BY <2>2 DEF IInv, TypeOK, TypeOfTransactions, Busy, FlushPending, ApplyAborted, FlushCommittedFails
    <3> DEFINE t == [tx[p] EXCEPT !.pc = pc]
    <3>3. t.kind = tx[p].kind /\ t.pc = pc /\ tx' = [tx EXCEPT ![p] = t]
      BY <3>1, <3>2 DEF Txs
    <3> HIDE DEF t
    <3> QED
      BY <3>1, <3>2, <3>3, MoveEases DEF ReqEases
  <2> QED
    BY <2>1, <2>2 DEF FlushPendingFails, ApplyFails, Rollback, ReplayFails
<1> QED
  BY <1>1, <1>2, <1>3, QuietKeeps

\* The steps of requests and of the host that start no transaction.
LEMMA QuietRequest ==
    ASSUME IInv, IInv', AInv, Serial',
           \/ RequestRefused \/ IntentFails \/ IdleReached \/ UserSend \/ LaterStep \/ TurnEnd \/ AttachBusy \/ UNCHANGED vars
    PROVE  Recorded' /\ Loaded' /\ Carried' /\ InRequest' /\ Held'
<1>1. UNCHANGED <<log, inherited, follows, lastAck, restarts, checkpoint, captured, intents, tx>> /\ (Ready' => Ready)
  BY DEF RequestRefused, IntentFails, IdleReached, UserSend, LaterStep, TurnEnd, AttachBusy, vars, Fault, Ready, journal,
     published, requests, history, bounds
<1>2. durable <= durable'
  <2>1. durable \in Nat /\ req.mark \in Nat
    BY DEF IInv, TypeOK, TypeOfJournal, TypeOfRequests
  <2>2. durable' \in {durable, Larger(durable, req.mark)}
    BY DEF RequestRefused, IntentFails, IdleReached, UserSend, LaterStep, TurnEnd, AttachBusy, vars, journal
  <2> QED
    BY <2>1, <2>2 DEF Larger
<1>3. req' = req \/ req'.pc = "none"
  BY DEF RequestRefused, IntentFails, IdleReached, UserSend, LaterStep, TurnEnd, AttachBusy, vars, requests, NoReq
<1> QED
  BY <1>1, <1>2, <1>3, QuietKeeps DEF ReqEases, Eases

\* The steps of the host that start one, which has not read or written anything yet.
LEMMA QuietHost ==
    ASSUME IInv, IInv', AInv, Serial',
           Created \/ Attach \/ Recover \/ Follow \/ PromoteAfterIdle \/ TurnStart \/ TurnStopping
    PROVE  Recorded' /\ Loaded' /\ Carried' /\ InRequest' /\ Held'
<1>1. UNCHANGED <<log, durable, inherited, follows, lastAck, restarts, checkpoint, captured, intents, req>>
  BY DEF Created, Attach, Initialize, Recover, Follow, PromoteAfterIdle, TurnStart, TurnStopping, journal, published,
     requests, history, bounds
<1>2. Ready' => Ready
  BY DEF Created, Attach, Initialize, Recover, Follow, PromoteAfterIdle, TurnStart, TurnStopping, published, Ready
<1>3. durable <= durable' /\ DOMAIN tx = Activities /\ Activities = {"init", "maint", "stop"}
  BY <1>1 DEF IInv, TypeOK, TypeOfJournal, TypeOfTransactions, Activities
<1>4. \A q \in Activities : Eases(q)
  <2>1. CASE Created \/ Attach
    <3>1. checkpoint.latest = NoEntry
      BY <2>1 DEF Created, Attach, AInv, Serial, NoCheckpoint
    <3>2. PICK p \in Activities, kind \in Starts : tx' = [tx EXCEPT ![p] = [NoTx EXCEPT !.pc = "replay", !.kind = kind]]
      BY <1>3, <2>1, Zenon DEF Created, Attach, Initialize, Starts
    <3> QED
      BY <1>3, <3>1, <3>2 DEF Eases, NoTx, Starts
  <2>2. CASE Recover
    <3>1. tx' = [tx EXCEPT !["maint"] = [NoTx EXCEPT !.pc = "replay", !.kind = "recover", !.rev = checkpoint.latest.rev]]
      BY <2>2 DEF Recover
    <3>2. checkpoint.latest # NoEntry \/ captured
      BY <2>2 DEF Recover, Recoverable, RecoveryTarget, AInv, Loaded
    <3> QED
      BY <1>3, <3>1, <3>2 DEF Eases, NoTx, Starts
  <2>3. CASE Follow \/ PromoteAfterIdle \/ TurnStart \/ TurnStopping
    <3>1. tx' = tx \/ \E q \in Activities, t \in [pc : {"begin", "queued"}, kind : Kinds, rev : {0, states.rev}, tok : {0},
                              sel : Selections \cup {NoSel}, rec : {NoRec}, mark : {0}, undo : {NoSel}] : tx' = [tx EXCEPT ![q] = t]
      <4>1. CASE Follow
        <5>1. PICK sel \in Selections : tx' = [tx EXCEPT !["maint"] = [NoTx EXCEPT !.pc = "begin", !.kind = "follow",
                                                                         !.rev = states.rev, !.sel = sel]]
          BY <4>1 DEF Follow
        <5> QED
          BY <1>3, <5>1 DEF NoTx, Kinds
      <4>2. CASE ~Follow
        <5>1. tx' = tx \/ \E q \in Activities : tx' = [tx EXCEPT ![q] = [NoTx EXCEPT !.pc = "queued", !.kind = "promote"]]
          BY <1>3, <2>3, <4>2, Zenon DEF PromoteAfterIdle, TurnStart, TurnStopping
        <5> QED
          BY <5>1 DEF NoTx, Kinds
      <4> QED
        BY <4>1, <4>2
    <3>2. ASSUME NEW q \in Activities, NEW t, t.pc \in {"begin", "queued"}, tx' = [tx EXCEPT ![q] = t]
          PROVE  \A r \in Activities : Eases(r)
      BY <1>3, <3>2 DEF Eases
    <3>3. tx' = tx => \A r \in Activities : Eases(r)
      BY DEF Eases
    <3> QED
      BY <3>1, <3>2, <3>3
  <2> QED
    BY <2>1, <2>2, <2>3
<1> QED
  BY <1>1, <1>2, <1>3, <1>4, QuietKeeps DEF ReqEases

-----------------------------------------------------------------------------
(* Steps that append an envelope.                                           *)

\* A request that was served stays served, by a latest transaction that covers it.
LEMMA ServedLatest ==
    ASSUME NEW l \in Seq(Entries), NEW inh \in Nat, NEW n \in Nat, n <= Len(l), NEW r, r.tok \in Nat, Served(l, inh, n, r)
    PROVE  /\ Latest(l).tok > r.tok \/ Matches(Latest(l), r)
           /\ Latest(l).kind = "pending" => Latest(l).tok > r.tok
<1>1. PICK c \in (inh + 1) .. n : /\ l[c].kind = "committed" /\ Matches(l[c], r)
                                  /\ \A j \in (c + 1) .. Len(l) : l[j].kind # "intent" /\ l[j].tok > r.tok
  BY DEF Served
<1>2. c \in 1 .. Len(l) /\ l[c].kind # "intent"
  BY <1>1
<1>3. PICK q \in c .. Len(l) : Latest(l) = l[q]
  BY <1>2, LatestAt
<1>4. q # c => q \in (c + 1) .. Len(l)
  BY <1>2, <1>3
<1> QED
  BY <1>1, <1>3, <1>4

\* A later transaction is numbered past the request that was served.
LEMMA ServedAppends ==
    ASSUME NEW l \in Seq(Entries), NEW inh \in Nat, NEW n \in Nat, n <= Len(l), NEW r, r.tok \in Nat, Served(l, inh, n, r),
           NEW e \in Entries, e.kind # "intent",
           e.tok > Latest(l).tok \/ (Latest(l).kind = "pending" /\ e.tok = Latest(l).tok)
    PROVE  Served(Append(l, e), inh, n, r)
<1> DEFINE m == Append(l, e)
<1>1. Len(m) = Len(l) + 1 /\ m[Len(l) + 1] = e /\ \A j \in 1 .. Len(l) : m[j] = l[j]
  OBVIOUS
<1>2. Latest(l).tok \in Nat
  <2>1. Latest(l) \in Entries \cup {NoEntry}
    BY ReplayType
  <2> QED
    BY <2>1 DEF Entries, NoEntry, Entry
<1>3. e.tok \in Nat /\ e.tok > r.tok
  <2>1. e.tok \in Nat
    BY DEF Entries
  <2> QED
    BY <1>2, <2>1, ServedLatest DEF Matches
<1> HIDE DEF m
<1>4. PICK c \in (inh + 1) .. n : /\ l[c].kind = "committed" /\ l[c].owner = "self" /\ Matches(l[c], r)
                                  /\ \A j \in (c + 1) .. Len(l) : l[j].kind # "intent" /\ l[j].tok > r.tok
  BY DEF Served
<1>5. c \in 1 .. Len(l) /\ m[c] = l[c]
  BY <1>1, <1>4
<1>6. \A j \in (c + 1) .. Len(m) : m[j].kind # "intent" /\ m[j].tok > r.tok
  <2>1. \A j \in (c + 1) .. Len(m) : j = Len(l) + 1 \/ (j \in (c + 1) .. Len(l) /\ j \in 1 .. Len(l))
    BY <1>1, <1>5
  <2> QED
    BY <1>1, <1>3, <1>4, <2>1
<1>7. Served(m, inh, n, r)
  BY <1>4, <1>5, <1>6 DEF Served
<1> QED
  BY <1>7 DEF m

\* While an intent is flushed, only a recovery or a follow commits.
LEMMA FlushingAppends ==
    ASSUME NEW l \in Seq(Entries), NEW inh \in Nat, NEW fs, NEW gs, NEW r, Flushing(l, inh, fs, r),
           NEW e \in Entries, e.kind # "intent", e.kind = "committed" => e.rec # NoRec \/ Len(l) + 1 \in gs,
           \A j \in 1 .. Len(l) : j \in fs <=> j \in gs
    PROVE  Flushing(Append(l, e), inh, gs, r)
<1> DEFINE m == Append(l, e)
<1>1. Len(m) = Len(l) + 1 /\ m[Len(l) + 1] = e /\ \A j \in 1 .. Len(l) : m[j] = l[j]
  OBVIOUS
<1> HIDE DEF m
<1>2. /\ r.mark \in 1 .. Len(l) /\ r.mark \in 1 .. Len(m) /\ m[r.mark] = l[r.mark]
  BY <1>1 DEF Flushing
<1>3. CommittedIn(m, inh + 1, r.mark)
  BY <1>1, <1>2 DEF Flushing, CommittedIn
<1>4. \A j \in (r.mark + 1) .. Len(m) : m[j].kind # "intent" /\ (m[j].kind = "committed" => m[j].rec # NoRec \/ j \in gs)
  <2>1. \A j \in (r.mark + 1) .. Len(m) : j = Len(l) + 1 \/ (j \in (r.mark + 1) .. Len(l) /\ j \in 1 .. Len(l))
    BY <1>1, <1>2
  <2> QED
    BY <1>1, <2>1 DEF Flushing
<1>5. Flushing(m, inh, gs, r)
  BY <1>2, <1>3, <1>4 DEF Flushing
<1> QED
  BY <1>5 DEF m

\* What is known after a transaction has begun.
LEMMA BeginFacts ==
    ASSUME IInv, IInv', NEW p \in Activities, NEW kind, NEW rev, NEW sel, NEW rec, NEW requested, NEW cp,
           Begin(p, kind, rev, sel, rec, requested, cp)
    PROVE  /\ checkpoint'.latest = Entry("pending", "self", rev, Token(rev, requested, cp.latest), sel, rec)
           /\ checkpoint'.latest \in Entries /\ checkpoint'.latest # NoEntry
           /\ log' = Append(log, checkpoint'.latest) /\ Latest(log') = checkpoint'.latest
           /\ tx'[p].pc = "flushPending" /\ tx'[p].kind = kind
           /\ ~Ready' /\ \A q \in Activities : q # p => tx'[q] = tx[q] /\ ~Busy(q)'
<1> DEFINE e == Entry("pending", "self", rev, Token(rev, requested, cp.latest), sel, rec)
<1>1. /\ log' = Append(log, e) /\ checkpoint'.latest = e /\ DOMAIN tx = Activities
      /\ log \in Seq(Entries) /\ log' \in Seq(Entries)
  BY DEF Begin, IInv, TypeOK, TypeOfJournal, TypeOfTransactions
<1>2. e \in Entries
  <2>1. log \in Seq(Entries \cup {e})
    BY <1>1
  <2>2. Len(log') = Len(log) + 1 /\ log'[Len(log) + 1] = e
    BY <1>1, <2>1
  <2> QED
    BY <1>1, <2>2
<1>3. e.kind = "pending" /\ e # NoEntry
  BY DEF Entry, NoEntry
<1>4. \E t : t.pc = "flushPending" /\ t.kind = kind /\ tx' = [tx EXCEPT ![p] = t]
  BY DEF Begin
<1>5. tx'[p].pc = "flushPending" /\ tx'[p].kind = kind /\ \A q \in Activities : q # p => tx'[q] = tx[q]
  BY <1>1, <1>4
<1> HIDE DEF e
<1>6. Latest(log') = e
  BY <1>1, <1>2, <1>3, AppendFinds
<1>7. Busy(p)'
  BY <1>5 DEF Busy
<1>8. ~Ready' /\ \A q \in Activities : q # p => ~Busy(q)'
  BY <1>7 DEF IInv, Exclusive
<1> QED
  BY <1>1, <1>2, <1>3, <1>5, <1>6, <1>8 DEF e

\* A transaction that begins knows of the acknowledged request what its kind promises.
LEMMA BeginKeepsAcks ==
    ASSUME IInv, IInv', AInv, NEW p \in Activities, NEW kind, NEW rev, NEW sel, NEW rec, NEW requested, NEW cp,
           Begin(p, kind, rev, sel, rec, requested, cp),
           UNCHANGED <<durable, inherited, follows, lastAck, restarts, captured, req>>,
           lastAck # NoIntent => intents' = intents \/ intents' = NoIntent,
           \A i \in 1 .. durable :
               /\ lastAck # NoIntent /\ Record(log, inherited, follows, lastAck, i)
               /\ ~Overtaken(log, follows, lastAck, Len(log)) /\ CommittedIn(log, i, Len(log))
               => Covers(checkpoint'.latest, lastAck),
           lastAck # NoIntent /\ ~Lost =>
               /\ intents' = NoIntent => Covers(checkpoint'.latest, lastAck) \/ Stuck'
               /\ kind \in {"change", "promote"} => Covers(checkpoint'.latest, lastAck),
           kind = "recover" => rec # NoRec \/ Fresh,
           kind \in Starts => Fresh,
           kind = "change" => Matches(checkpoint'.latest, req),
           req.pc = "applied" => checkpoint'.latest.tok > Latest(log).tok
    PROVE  Recorded' /\ Loaded' /\ Carried' /\ InRequest' /\ Held'
<1> DEFINE e == checkpoint'.latest
<1>0. /\ log \in Seq(Entries) /\ inherited \in Nat /\ durable \in Nat /\ durable <= Len(log)
      /\ req.tok \in Nat /\ DOMAIN tx = Activities
  BY DEF IInv, TypeOK, TypeOfJournal, Marked, TypeOfRequests, TypeOfTransactions
<1>1. /\ e \in Entries /\ e # NoEntry /\ e.kind = "pending" /\ e.rec = rec /\ log' = Append(log, e) /\ Latest(log') = e
      /\ tx'[p].pc = "flushPending" /\ tx'[p].kind = kind
      /\ ~Ready' /\ \A q \in Activities : q # p => ~Busy(q)'
  <2>1. /\ e = Entry("pending", "self", rev, Token(rev, requested, cp.latest), sel, rec)
        /\ e \in Entries /\ e # NoEntry /\ log' = Append(log, e) /\ Latest(log') = e
        /\ tx'[p].pc = "flushPending" /\ tx'[p].kind = kind
        /\ ~Ready' /\ \A q \in Activities : q # p => ~Busy(q)'
    BY BeginFacts
  <2> QED
    BY <2>1 DEF Entry
<1> HIDE DEF e
<1>2. Recorded'
  <2>1. ASSUME NEW i \in 1 .. durable, lastAck # NoIntent, Record(log, inherited, follows, lastAck, i)
        PROVE  \/ Overtaken(log', follows', lastAck, Len(log) + 1)
               \/ Sound(log', follows', lastAck, i, Len(log) + 1)
    <3>1. CASE Overtaken(log, follows, lastAck, Len(log))
      BY <1>0, <1>1, <3>1, OvertakenAppended
    <3>2. CASE ~Overtaken(log, follows, lastAck, Len(log))
      <4>1. CommittedIn(log, i, Len(log)) => Covers(e, lastAck)
        BY <2>1, <3>2 DEF e
      <4>2. i \in 1 .. Len(log)
        BY <1>0
      <4> QED
        BY <1>0, <1>1, <4>1, <4>2, PendingSound
    <3> QED
      BY <3>1, <3>2
  <2> QED
    BY <1>0, <1>1, <2>1, RecordedAppends DEF AInv
<1>3. Loaded'
  <2>1. ~(tx'["maint"].pc = "replay")
    <3>1. "maint" \in Activities
      BY DEF Activities
    <3> QED
      BY <1>1, <3>1 DEF Busy
  <2> QED
    BY <1>1, <2>1 DEF Loaded, e
<1>4. Carried'
  <2>1. Carries(p)'
    BY <1>1 DEF Carries, Running, Fresh, e
  <2>2. ASSUME NEW q \in Activities, q # p PROVE Carries(q)'
    BY <1>1, <2>2 DEF Carries, Running, Busy
  <2> QED
    BY <1>1, <2>1, <2>2 DEF Carried, e
<1>5. InRequest'
  <2>1. req.pc = "flushing" => Flushing(log', inherited, follows, req)
    BY <1>0, <1>1, FlushingAppends DEF AInv, InRequest
  <2>2. req.pc = "applied" => Served(log', inherited, durable, req)
    BY <1>0, <1>1, ServedAppends DEF AInv, InRequest, e
  <2> QED
    BY <2>1, <2>2 DEF InRequest
<1>6. Held'
  <2> SUFFICES ASSUME lastAck # NoIntent, ~Lost'
               PROVE  /\ intents' # NoIntent => Covers(intents', lastAck)
                      /\ intents' = NoIntent /\ checkpoint'.latest # NoEntry => Covers(Latest(log'), lastAck) \/ Stuck'
                      /\ req'.pc \in {"changing", "flushing"} => req'.tok > lastAck.tok
                      /\ \A q \in Activities : Serves(q)' => Covers(checkpoint'.latest, lastAck)
    BY DEF Held
  <2>1. ~Lost
    <3>1. Len(log') = Len(log) + 1
      BY <1>0, <1>1, AppendFinds
    <3> QED
      BY <1>0, <1>1, <3>1, OvertakenAppended DEF Lost
  <2>2. intents' # NoIntent => Covers(intents', lastAck)
    BY <2>1 DEF AInv, Held
  <2>3. intents' = NoIntent => Covers(Latest(log'), lastAck) \/ Stuck'
    BY <1>1, <2>1 DEF e
  <2>4. req'.pc \in {"changing", "flushing"} => req'.tok > lastAck.tok
    BY <2>1 DEF AInv, Held
  <2>5. ASSUME NEW q \in Activities, Serves(q)' PROVE Covers(checkpoint'.latest, lastAck)
    <3>1. q = p
      BY <1>1, <2>5 DEF Serves, Running, Busy
    <3> QED
      BY <1>1, <2>1, <2>5, <3>1 DEF Serves
  <2> QED
    BY <2>2, <2>3, <2>4, <2>5
<1> QED
  BY <1>2, <1>3, <1>4, <1>5, <1>6

\* An acknowledged request is recorded behind a transaction of the session's own.
LEMMA AckIsOwn ==
    ASSUME IInv, AInv, lastAck # NoIntent
    PROVE  /\ \E i \in 1 .. durable : i \in 1 .. Len(log) /\ Record(log, inherited, follows, lastAck, i)
           /\ Latest(log) # NoEntry /\ Latest(log).owner = "self" /\ Latest(log) \in Entries
<1>1. /\ log \in Seq(Entries) /\ inherited \in Nat /\ durable \in Nat /\ durable <= Len(log) /\ Replayable(log, inherited)
  BY DEF IInv, TypeOK, TypeOfJournal, Marked, JournalReplayable
<1>2. PICK i \in 1 .. durable : Record(log, inherited, follows, lastAck, i)
  BY DEF AInv, Recorded
<1>3. i \in 1 .. Len(log) /\ CommittedIn(log, inherited + 1, i)
  BY <1>1, <1>2 DEF Record
<1> QED
  BY <1>1, <1>2, <1>3, OwnTransaction

\* A transaction that no request names covers what its predecessor covered.
LEMMA UnnamedCovers ==
    ASSUME IInv, AInv, lastAck # NoIntent, NEW e, e.tok \in Nat, e.tok > Latest(log).tok
    PROVE  /\ Covers(Latest(log), lastAck) => Covers(e, lastAck)
           /\ \A i \in 1 .. durable :
                  Record(log, inherited, follows, lastAck, i) /\ ~Overtaken(log, follows, lastAck, Len(log))
                  /\ CommittedIn(log, i, Len(log)) => Covers(e, lastAck)
<1>1. /\ log \in Seq(Entries) /\ inherited \in Nat /\ durable \in Nat /\ durable <= Len(log) /\ lastAck.tok \in Nat
  BY DEF IInv, TypeOK, TypeOfJournal, TypeOfHistory, Marked
<1>2. Latest(log).tok \in Nat
  BY AckIsOwn DEF Entries
<1>3. Covers(Latest(log), lastAck) => Covers(e, lastAck)
  BY <1>1, <1>2, CoversOn
<1>4. \A i \in 1 .. durable : i \in 1 .. Len(log)
  BY <1>1
<1> QED
  BY <1>1, <1>3, <1>4, RecordCovered

\* A session that captures its first selection has acknowledged nothing.
LEMMA CaptureKeepsAcks ==
    ASSUME IInv, IInv', AInv, NEW p \in Activities, Capture(p)
    PROVE  Recorded' /\ Loaded' /\ Carried' /\ InRequest' /\ Held'
<1>1. Fresh /\ tx[p].kind \in Starts \cup {"recover"}
  BY DEF Capture, AInv, Carried, Carries, Serial, Kinded
<1>2. PICK sel \in Selections : Begin(p, tx[p].kind, 1, sel, NoRec, 0, checkpoint)
  BY DEF Capture
<1>3. UNCHANGED <<durable, inherited, follows, lastAck, restarts, captured, req, intents>>
  BY DEF Capture, history, bounds, requests
<1> QED
  BY <1>1, <1>2, <1>3, BeginKeepsAcks DEF Fresh, Starts

\* A session that nothing was committed in has nothing committed or captured.
LEMMA NothingCommitted ==
    ASSUME NEW l \in Seq(Entries), Latest(l) = NoEntry
    PROVE  Committed(l) = NoEntry /\ InitialBefore(l, Len(l) + 1) = NoSel
<1>1. ASSUME NEW c \in 1 .. Len(l), l[c].kind = "committed" PROVE FALSE
  <2>1. PICK q \in c .. Len(l) : Latest(l) = l[q]
    BY <1>1, LatestAt
  <2>2. l[q] \in Entries
    BY <2>1
  <2> QED
    BY <2>1, <2>2 DEF Entries, NoEntry, Entry
<1>2. CommittedBefore(l, Len(l) + 1) = {}
  BY <1>1 DEF CommittedBefore
<1> QED
  BY <1>2, ReplayType DEF Committed, EntryAt

\* The checkpoint and the requests are read back from the log.
LEMMA LoadKeeps ==
    ASSUME IInv, IInv', AInv, NEW p \in Activities, Busy(p),
           checkpoint' = CheckpointOf(Replay(log)), UNCHANGED <<log, durable, inherited, follows, lastAck, restarts>>,
           ~Ready', req'.pc = "none", tx'[p].pc \in {"none", "restore", "capture"},
           \A q \in Activities : q # p => tx'[q] = tx[q],
           captured' = captured \/ Latest(log) = NoEntry,
           tx'[p].pc = "capture" => Latest(log) = NoEntry,
           lastAck # NoIntent =>
               /\ restarts > 0 /\ ~captured
               /\ intents' # NoIntent => /\ EntryAt(log, LiveIntents(log)) # NoEntry
                                         /\ Matches(intents', EntryAt(log, LiveIntents(log)))
               /\ intents' = NoIntent => \/ EntryAt(log, LiveIntents(log)) = NoEntry
                                         \/ Latest(log).kind = "pending" /\ tx'[p].pc = "none"
    PROVE  Recorded' /\ Loaded' /\ Carried' /\ InRequest' /\ Held'
<1>0. /\ log \in Seq(Entries) /\ inherited \in Nat /\ lastAck.tok \in Nat /\ \A q \in Activities : q # p => ~Busy(q)
  BY DEF IInv, TypeOK, TypeOfJournal, TypeOfHistory, Exclusive
<1>1. checkpoint'.latest = Latest(log) /\ checkpoint'.committed = Committed(log)
      /\ checkpoint'.initial = InitialBefore(log, Len(log) + 1)
  BY DEF CheckpointOf, Replay, Latest, Committed
<1>2. Recorded'
  BY DEF AInv, Recorded
<1>3. lastAck # NoIntent => Latest(log) # NoEntry
  BY AckIsOwn
<1>4. Loaded'
  <2>1. Latest(log) = NoEntry => checkpoint'.committed = NoEntry /\ checkpoint'.initial = NoSel
    BY <1>0, <1>1, NothingCommitted
  <2>2. ~(tx'["maint"].pc = "replay")
    <3>1. "maint" \in Activities
      BY DEF Activities
    <3> QED
      BY <1>0, <3>1 DEF Busy
  <2> QED
    BY <1>1, <2>1, <2>2 DEF Loaded
<1>5. Carried'
  <2>1. Carries(p)'
    BY <1>3 DEF Carries, Running, Fresh
  <2>2. ASSUME NEW q \in Activities, q # p PROVE Carries(q)'
    BY <1>0, <2>2 DEF Carries, Running, Busy
  <2> QED
    BY <1>1, <1>3, <2>1, <2>2 DEF Carried
<1>6. InRequest'
  BY DEF InRequest
<1>7. Held'
  <2> SUFFICES ASSUME lastAck # NoIntent, ~Lost'
               PROVE  /\ intents' # NoIntent => Covers(intents', lastAck)
                      /\ intents' = NoIntent => Covers(Latest(log'), lastAck) \/ Stuck'
                      /\ req'.pc \notin {"changing", "flushing"}
                      /\ \A q \in Activities : ~Serves(q)'
    BY DEF Held
  <2>1. PICK i \in 1 .. durable : i \in 1 .. Len(log) /\ Record(log, inherited, follows, lastAck, i)
    BY AckIsOwn
  <2>2. /\ CommittedIn(log, i, Len(log)) => Covers(Latest(log), lastAck)
        /\ EntryAt(log, LiveIntents(log)) # NoEntry => Covers(EntryAt(log, LiveIntents(log)), lastAck)
        /\ EntryAt(log, LiveIntents(log)) = NoEntry => CommittedIn(log, i, Len(log))
    <3>1. ~Overtaken(log, follows, lastAck, Len(log))
      BY DEF Lost
    <3> QED
      BY <1>0, <2>1, <3>1, RecordCovered
  <2>3. intents' # NoIntent => Covers(intents', lastAck)
    BY <2>2 DEF Covers, Matches
  <2>4. ASSUME intents' = NoIntent PROVE Covers(Latest(log'), lastAck) \/ Stuck'
    <3>1. CASE CommittedIn(log, i, Len(log))
      BY <2>2, <3>1
    <3>2. CASE ~CommittedIn(log, i, Len(log))
      <4>1. Latest(log).kind = "pending" /\ tx'[p].pc = "none"
        BY <2>2, <2>4, <3>2
      <4>2. \A q \in Activities : ~Busy(q)'
        BY <1>0, <4>1 DEF Busy
      <4>3. Unserved(log, lastAck)
        BY <2>1, <3>2 DEF Unserved, CommittedIn, Record
      <4> QED
        BY <4>1, <4>2, <4>3 DEF Stuck
    <3> QED
      BY <3>1, <3>2
  <2>5. \A q \in Activities : ~Serves(q)'
    BY <1>0 DEF Serves, Running, Busy
  <2> QED
    BY <2>3, <2>4, <2>5
<1> QED
  BY <1>2, <1>4, <1>5, <1>6, <1>7

\* A session start reads the request back, or finds a session that has acknowledged nothing.
LEMMA InitReplayKeepsAcks ==
    ASSUME IInv, IInv', AInv, NEW p \in Activities, InitReplay(p)
    PROVE  Recorded' /\ Loaded' /\ Carried' /\ InRequest' /\ Held'
<1> DEFINE cp == CheckpointOf(Replay(log))
           intent == EntryAt(log, LiveIntents(log))
           restoring == [tx[p] EXCEPT !.pc = "restore", !.rev = cp.latest.rev, !.sel = cp.latest.sel, !.undo = applied]
           capturing == [tx[p] EXCEPT !.pc = "capture"]
<1>1. /\ Busy(p) /\ ~Ready /\ tx[p].kind \in Starts /\ req.pc = "none" /\ intents = NoIntent /\ checkpoint = NoCheckpoint
      /\ tx[p] \in Txs /\ DOMAIN tx = Activities /\ log \in Seq(Entries) /\ Replayable(log, inherited)
  BY DEF IInv, TypeOK, TypeOfJournal, TypeOfTransactions, JournalReplayable, Exclusive, Busy, InitReplay, AInv, Serial,
     Ordered
<1>2. lastAck # NoIntent => restarts > 0 /\ ~captured
  BY <1>1 DEF AInv, Carried, NoCheckpoint
<1>3. cp.latest = Latest(log) /\ Replay(log).latest = cp.latest /\ Replay(log).intent = intent
  BY DEF CheckpointOf, Replay, Latest
<1>4. UNCHANGED <<durable, inherited, states, follows, lastAck, restarts>>
  BY DEF InitReplay, history, bounds
<1>5. \/ /\ checkpoint' = cp /\ cp.latest.kind = "pending" /\ Fail("incomplete") /\ Settle(p, FALSE)
         /\ UNCHANGED <<log, intents, captured>>
      \/ /\ intents' = IF intent = NoEntry THEN intents ELSE [tok |-> intent.tok, sel |-> intent.sel]
         /\ UNCHANGED <<unavailable, req>>
         /\ \/ /\ cp.latest.owner = "self" /\ checkpoint' = cp /\ tx' = [tx EXCEPT ![p] = restoring]
               /\ UNCHANGED <<log, captured>>
            \/ /\ cp.latest.owner = "parent"
               /\ Begin(p, tx[p].kind, 1, cp.latest.sel, NoRec, 0, cp) /\ UNCHANGED captured
            \/ /\ cp.latest = NoEntry /\ checkpoint' = cp /\ captured' = TRUE
               /\ tx' = [tx EXCEPT ![p] = capturing] /\ UNCHANGED log
  BY <1>1, <1>3 DEF InitReplay
<1>6. restoring.pc = "restore" /\ capturing.pc = "capture"
  BY <1>1 DEF Txs
<1>7. intent = NoEntry \/ intent \in Entries
  BY <1>1, ReplayType
<1>8. captured \in BOOLEAN
  BY DEF IInv, TypeOK, TypeOfPublished
<1> HIDE DEF cp, intent, restoring, capturing
<1>9. CASE /\ checkpoint' = cp /\ cp.latest.kind = "pending" /\ Fail("incomplete") /\ Settle(p, FALSE)
           /\ UNCHANGED <<log, intents, captured>>
  <2>1. tx' = [tx EXCEPT ![p] = NoTx] /\ req' = req /\ NoTx.pc = "none"
    BY <1>1, <1>9 DEF Settle, Answer, Starts, NoTx
  <2>2. ~Ready' /\ Latest(log) # NoEntry /\ Latest(log).kind = "pending"
    BY <1>3, <1>9 DEF Fail, Ready, NoEntry, Entry
  <2> QED
    BY <1>1, <1>2, <1>4, <1>8, <1>9, <2>1, <2>2, LoadKeeps DEF cp
<1>10. CASE /\ intents' = IF intent = NoEntry THEN intents ELSE [tok |-> intent.tok, sel |-> intent.sel]
            /\ UNCHANGED <<unavailable, req>>
  <2>1. ~Ready'
    BY <1>1, <1>4, <1>10 DEF Ready
  <2>2. intents' # NoIntent => intent # NoEntry /\ Matches(intents', intent)
    BY <1>1, <1>10 DEF Matches
  <2>3. intents' = NoIntent => intent = NoEntry
    BY <1>7, <1>10, SelectionsAssumption DEF NoIntent, Entries
  <2>4. CASE /\ cp.latest.owner = "self" /\ checkpoint' = cp /\ tx' = [tx EXCEPT ![p] = restoring]
             /\ UNCHANGED <<log, captured>>
    <3>1. Latest(log) # NoEntry
      BY <1>3, <2>4 DEF NoEntry, Entry
    <3> QED
      BY <1>1, <1>2, <1>4, <1>6, <1>8, <1>10, <2>1, <2>2, <2>3, <2>4, <3>1, LoadKeeps DEF cp, intent
  <2>5. CASE /\ cp.latest.owner = "parent"
             /\ Begin(p, tx[p].kind, 1, cp.latest.sel, NoRec, 0, cp) /\ UNCHANGED captured
    <3>1. Fresh
      BY <1>1, <1>3, <2>5, AckIsOwn DEF Fresh
    <3> QED
      BY <1>1, <1>4, <1>10, <2>5, <3>1, BeginKeepsAcks DEF Fresh, Starts
  <2>6. CASE /\ cp.latest = NoEntry /\ checkpoint' = cp /\ captured' = TRUE
             /\ tx' = [tx EXCEPT ![p] = capturing] /\ UNCHANGED log
    BY <1>1, <1>2, <1>3, <1>4, <1>6, <1>8, <1>10, <2>1, <2>2, <2>3, <2>6, LoadKeeps DEF cp, intent
  <2> QED
    BY <1>5, <1>9, <2>4, <2>5, <2>6
<1> QED
  BY <1>5, <1>9, <1>10

\* How a recovery goes on from what it read back.
RecoverySettles == Fail("conflict") /\ Settle("maint", FALSE) /\ UNCHANGED <<log, checkpoint>>
RecoveryCaptures ==
    /\ checkpoint' = CheckpointOf(Replay(log)) /\ tx' = [tx EXCEPT !["maint"].pc = "capture"]
    /\ UNCHANGED <<log, unavailable, chain, req>>
RecoveryBegins ==
    /\ \E sel : Begin("maint", "recover", NextRevision(Latest(log), "self"), sel, RecoveryOf(Latest(log)), 0,
                      CheckpointOf(Replay(log)))
    /\ UNCHANGED <<unavailable, chain, req>>

LEMMA RecoverReplayCases ==
    ASSUME IInv, RecoverReplay
    PROVE  RecoverySettles \/ RecoveryCaptures \/ RecoveryBegins
<1>1. Replay(log).latest = Latest(log) /\ Replayable(log, inherited)
  BY DEF Replay, Latest, IInv, JournalReplayable
<1>2. \/ Fail("conflict") /\ Settle("maint", FALSE) /\ UNCHANGED <<log, checkpoint>>
      \/ /\ checkpoint' = CheckpointOf(Replay(log)) /\ tx' = [tx EXCEPT !["maint"].pc = "capture"]
         /\ UNCHANGED <<log, unavailable, chain, req>>
      \/ /\ \E sel : Begin("maint", "recover", NextRevision(Replay(log).latest, "self"), sel,
                           RecoveryOf(Replay(log).latest), 0, CheckpointOf(Replay(log)))
         /\ UNCHANGED <<unavailable, chain, req>>
  BY <1>1, Zenon DEF RecoverReplay
<1> QED
  BY <1>1, <1>2 DEF RecoverySettles, RecoveryCaptures, RecoveryBegins

\* A recovery reads the log back and names the transaction it gives up.
LEMMA RecoverReplayKeepsAcks ==
    ASSUME IInv, IInv', AInv, Serial', RecoverReplay
    PROVE  Recorded' /\ Loaded' /\ Carried' /\ InRequest' /\ Held'
<1> DEFINE p == "maint"
<1>1. /\ p \in Activities /\ Busy(p) /\ ~Ready /\ tx[p].kind = "recover" /\ tx[p].pc = "replay"
      /\ tx[p] \in Txs /\ DOMAIN tx = Activities /\ log \in Seq(Entries) /\ inherited \in Nat /\ durable \in Nat
      /\ durable <= Len(log) /\ captured \in BOOLEAN /\ \A q \in Activities : Busy(q) => q = p
  BY DEF IInv, TypeOK, TypeOfJournal, TypeOfPublished, TypeOfTransactions, Exclusive, Busy, RecoverReplay, Activities,
     Marked
<1>2. UNCHANGED <<durable, inherited, states, captured, intents, follows, lastAck, restarts>>
  BY DEF RecoverReplay, history, bounds
<1>3. CASE RecoverySettles
  <2>1. ReqEases /\ (\A q \in Activities : Eases(q))
    BY <1>1, <1>3, SettleEases DEF RecoverySettles
  <2>2. Ready' => Ready
    BY <1>3 DEF RecoverySettles, Fail, Ready
  <2> QED
    BY <1>1, <1>2, <1>3, <2>1, <2>2, QuietKeeps DEF RecoverySettles
<1>4. CASE RecoveryCaptures
  <2> DEFINE t == [tx[p] EXCEPT !.pc = "capture"]
  <2>1. tx' = [tx EXCEPT ![p] = t] /\ t.pc = "capture"
    BY <1>1, <1>4 DEF RecoveryCaptures, Txs
  <2> HIDE DEF t
  <2>2. ~Ready' /\ log' = log
    BY <1>1, <1>2, <1>4 DEF RecoveryCaptures, Ready
  <2>3. Latest(log) = NoEntry
    BY <1>1, <2>1, <2>2 DEF IInv, Linked
  <2>4. lastAck = NoIntent
    BY <2>3, AckIsOwn
  <2>5. checkpoint.latest = NoEntry /\ captured /\ req.pc = "none"
    BY <1>1, <2>3 DEF AInv, Loaded
  <2> QED
    BY <1>1, <1>2, <1>4, <2>1, <2>2, <2>3, <2>4, <2>5, LoadKeeps DEF RecoveryCaptures
<1>5. CASE RecoveryBegins
  <2> DEFINE cp == CheckpointOf(Replay(log))
             rev == NextRevision(Latest(log), "self")
             rec == RecoveryOf(Latest(log))
  <2>1. PICK sel : Begin(p, "recover", rev, sel, rec, 0, cp)
    BY <1>5 DEF RecoveryBegins
  <2>2. cp.latest = Latest(log) /\ UNCHANGED req
    BY <1>5 DEF CheckpointOf, Replay, Latest, RecoveryBegins
  <2>3. /\ checkpoint'.latest = Entry("pending", "self", rev, Token(rev, 0, Latest(log)), sel, rec)
        /\ checkpoint'.latest \in Entries /\ log' = Append(log, checkpoint'.latest)
        /\ Latest(log') = checkpoint'.latest /\ ~Ready'
        /\ tx'[p].kind = "recover" /\ \A q \in Activities : q # p => ~Busy(q)'
    BY <1>1, <2>1, <2>2, BeginFacts
  <2>4. Latest(log) \in Entries => rec # NoRec
    BY DEF RecoveryOf, NamesLatest, NoRec, Entries, NoEntry, Entry
  <2>5. Latest(log) \in Entries \cup {NoEntry}
    BY <1>1, ReplayType
  <2>6. rec # NoRec \/ Fresh
    <3>1. CASE Latest(log) \in Entries
      BY <2>4, <3>1
    <3>2. CASE Latest(log) = NoEntry
      BY <3>2, AckIsOwn DEF Fresh, AInv, Loaded
    <3> QED
      BY <2>5, <3>1, <3>2
  <2>7. ASSUME Latest(log) \in Entries, Latest(log).owner = "self"
        PROVE  checkpoint'.latest.tok \in Nat /\ checkpoint'.latest.tok > Latest(log).tok
    <3>1. rev \in Nat
      BY <2>7 DEF NextRevision, Entries
    <3>2. checkpoint'.latest.tok = Token(rev, 0, Latest(log))
      BY <2>3 DEF Entry
    <3> QED
      BY <2>7, <3>1, <3>2, TokenGrows
  <2>8. req.pc = "applied" => checkpoint'.latest.tok > Latest(log).tok
    <3>1. ASSUME req.pc = "applied" PROVE Latest(log) \in Entries /\ Latest(log).owner = "self"
      <4>1. Served(log, inherited, durable, req) /\ Replayable(log, inherited)
        BY <3>1 DEF AInv, InRequest, IInv, JournalReplayable
      <4>2. PICK c \in (inherited + 1) .. durable : log[c].kind = "committed"
        BY <4>1 DEF Served
      <4>3. c \in 1 .. Len(log) /\ CommittedIn(log, inherited + 1, c)
        BY <1>1, <4>2 DEF CommittedIn
      <4> QED
        BY <1>1, <4>1, <4>3, OwnTransaction
    <3> QED
      BY <2>7, <3>1
  <2>9. ASSUME lastAck # NoIntent
        PROVE  /\ Covers(Latest(log), lastAck) => Covers(checkpoint'.latest, lastAck)
               /\ \A i \in 1 .. durable :
                      Record(log, inherited, follows, lastAck, i) /\ ~Overtaken(log, follows, lastAck, Len(log))
                      /\ CommittedIn(log, i, Len(log)) => Covers(checkpoint'.latest, lastAck)
    <3>1. checkpoint'.latest.tok \in Nat /\ checkpoint'.latest.tok > Latest(log).tok
      BY <2>7, <2>9, AckIsOwn
    <3> QED
      BY <2>9, <3>1, UnnamedCovers
  <2>10. ASSUME lastAck # NoIntent, ~Lost, intents' = NoIntent
         PROVE  Covers(checkpoint'.latest, lastAck) \/ Stuck'
    <3>1. ASSUME restarts > 0, Unserved(log, lastAck) PROVE Stuck'
      <4>1. Unserved(log', lastAck)
        <5>1. PICK i \in 1 .. Len(log) : /\ log[i].kind = "intent" /\ Matches(log[i], lastAck)
                                         /\ \A j \in (i + 1) .. Len(log) : log[j].kind # "committed"
          BY <3>1 DEF Unserved
        <5>2. /\ checkpoint'.latest.kind # "committed" /\ Len(log') = Len(log) + 1
              /\ log'[Len(log) + 1] = checkpoint'.latest /\ \A j \in 1 .. Len(log) : log'[j] = log[j]
          BY <1>1, <2>3 DEF Entry
        <5>3. \A j \in (i + 1) .. Len(log') : j = Len(log) + 1 \/ (j \in (i + 1) .. Len(log) /\ j \in 1 .. Len(log))
          BY <5>2
        <5>4. \A j \in (i + 1) .. Len(log') : log'[j].kind # "committed"
          BY <5>1, <5>2, <5>3
        <5>5. i \in 1 .. Len(log') /\ log'[i] = log[i]
          BY <5>2
        <5> QED
          BY <5>1, <5>4, <5>5 DEF Unserved
      <4>2. Latest(log').kind = "pending"
        BY <2>3 DEF Entry
      <4>3. \A q \in Activities : Busy(q)' => tx'[q].kind = "recover"
        BY <2>3
      <4> QED
        BY <1>2, <2>3, <3>1, <4>1, <4>2, <4>3 DEF Stuck
    <3>2. CASE checkpoint.latest # NoEntry
      <4>1. Covers(Latest(log), lastAck) \/ Stuck
        BY <1>2, <2>10, <3>2 DEF AInv, Held
      <4> QED
        BY <2>9, <2>10, <3>1, <4>1 DEF Stuck
    <3>3. CASE checkpoint.latest = NoEntry
      <4>1. restarts > 0 /\ ~Overtaken(log, follows, lastAck, Len(log))
        BY <2>10, <3>3 DEF AInv, Carried, Lost
      <4>2. PICK i \in 1 .. durable : i \in 1 .. Len(log) /\ Record(log, inherited, follows, lastAck, i)
        BY <2>10, AckIsOwn
      <4>3. CASE CommittedIn(log, i, Len(log))
        BY <2>9, <2>10, <4>1, <4>2, <4>3
      <4>4. CASE ~CommittedIn(log, i, Len(log))
        <5>1. Unserved(log, lastAck)
          BY <4>2, <4>4 DEF Unserved, CommittedIn, Record
        <5> QED
          BY <3>1, <4>1, <5>1
      <4> QED
        BY <4>3, <4>4
    <3> QED
      BY <3>2, <3>3
  <2> HIDE DEF cp, rev, rec, p
  <2>11. p \in Activities
    BY <1>1
  <2> QED
    BY <1>2, <2>1, <2>2, <2>6, <2>8, <2>9, <2>10, <2>11, BeginKeepsAcks DEF Starts
<1> QED
  BY <1>3, <1>4, <1>5, RecoverReplayCases

\* A change writes the token of the request it serves; a follow numbers itself.
LEMMA ChangeKeepsAcks ==
    ASSUME IInv, IInv', AInv, Serial', Change
    PROVE  Recorded' /\ Loaded' /\ Carried' /\ InRequest' /\ Held'
<1> DEFINE p == "maint"
<1>1. /\ p \in Activities /\ tx[p].pc = "begin" /\ DOMAIN tx = Activities /\ tx[p] \in Txs
      /\ states.rev \in Nat /\ log \in Seq(Entries)
  BY DEF IInv, TypeOK, TypeOfJournal, TypeOfPublished, TypeOfTransactions, NoState, Change, Activities
<1>2. UNCHANGED <<durable, inherited, states, captured, intents, follows, lastAck, restarts>>
  BY DEF Change, history, bounds
<1>3. \/ tx[p].kind = "change" /\ req.pc = "changing" /\ Matches(tx[p], req) /\ req.tok > 0
      \/ tx[p].kind = "follow" /\ tx[p].tok = 0
  BY <1>1 DEF AInv, Serial, Kinded, Ordered
<1>4. CASE Ready /\ states.rev = tx[p].rev
  <2> DEFINE kind == tx[p].kind
             e == checkpoint'.latest
  <2>1. Begin(p, kind, states.rev + 1, tx[p].sel, NoRec, tx[p].tok, checkpoint) /\ UNCHANGED req
    BY <1>4 DEF Change
  <2>2. /\ e = Entry("pending", "self", states.rev + 1, Token(states.rev + 1, tx[p].tok, checkpoint.latest), tx[p].sel, NoRec)
        /\ e \in Entries
    BY <1>1, <2>1, BeginFacts
  <2>3. e.tok = Token(states.rev + 1, tx[p].tok, Latest(log)) /\ e.tok \in Nat /\ e.sel = tx[p].sel
    BY <1>4, <2>2 DEF IInv, ReadyLinked, Entry, Entries
  <2>4. /\ Latest(log).owner = "self" /\ Latest(log) \in Entries /\ Latest(log).tok \in Nat
        /\ states.rev + 1 = NextRevision(Latest(log), "self") /\ checkpoint.latest # NoEntry /\ ~Stuck
    <3>1. /\ checkpoint.latest = Latest(log) /\ Same(Latest(log), states) /\ ~Stuck
      BY <1>4 DEF IInv, ReadyLinked, Stuck
    <3>2. Latest(log).owner = "self" /\ Latest(log) # NoEntry /\ Latest(log).rev = states.rev
      BY <3>1 DEF Same, NoEntry, Entry
    <3>3. Latest(log) \in Entries
      BY <1>1, <3>2, ReplayType
    <3> QED
      BY <3>1, <3>2, <3>3 DEF Entries, NextRevision
  <2> HIDE DEF e, kind
  <2>5. CASE tx[p].kind = "change" /\ req.pc = "changing" /\ Matches(tx[p], req) /\ req.tok > 0
    <3>1. Matches(e, req)
      BY <2>3, <2>5 DEF Matches, Token
    <3>2. lastAck # NoIntent /\ ~Lost => Covers(e, lastAck)
      BY <2>5, <3>1 DEF AInv, Held, Covers, Matches
    <3>3. ~Overtaken(log, follows, lastAck, Len(log)) => ~Lost
      BY DEF Lost
    <3> HIDE DEF p
    <3> QED
      BY <1>1, <1>2, <2>1, <2>5, <3>1, <3>2, <3>3, BeginKeepsAcks DEF e, kind, Starts
  <2>6. CASE tx[p].kind = "follow" /\ tx[p].tok = 0
    <3>1. e.tok > Latest(log).tok
      BY <1>1, <2>3, <2>4, <2>6, TokenGrows
    <3>2. ASSUME lastAck # NoIntent
          PROVE  /\ Covers(Latest(log), lastAck) => Covers(e, lastAck)
                 /\ \A i \in 1 .. durable :
                        Record(log, inherited, follows, lastAck, i) /\ ~Overtaken(log, follows, lastAck, Len(log))
                        /\ CommittedIn(log, i, Len(log)) => Covers(e, lastAck)
      BY <2>3, <3>1, <3>2, UnnamedCovers
    <3>3. lastAck # NoIntent /\ ~Lost /\ intents' = NoIntent => Covers(e, lastAck)
      BY <1>2, <2>4, <3>2 DEF AInv, Held
    <3> HIDE DEF p
    <3> QED
      BY <1>1, <1>2, <2>1, <2>6, <3>1, <3>2, <3>3, BeginKeepsAcks DEF e, kind, Starts
  <2> QED
    BY <1>3, <2>5, <2>6
<1>5. CASE ~(Ready /\ states.rev = tx[p].rev)
  <2>1. /\ tx' = [tx EXCEPT ![p] = NoTx] /\ UNCHANGED <<log, unavailable, checkpoint>>
        /\ req' = IF tx[p].kind = "change" THEN [req EXCEPT !.pc = "refused"] ELSE req
    BY <1>5 DEF Change
  <2>2. NoTx.pc \in {"none", "begin", "queued"}
    BY DEF NoTx
  <2>3. \A q \in Activities : Eases(q)
    BY <1>1, <2>1, <2>2, MoveEases
  <2>4. ReqEases
    BY <1>3, <2>1 DEF ReqEases, IInv, TypeOK, TypeOfRequests
  <2>5. Ready' => Ready
    BY <1>2, <2>1 DEF Ready
  <2>6. durable <= durable'
    BY <1>2 DEF IInv, TypeOK, TypeOfJournal
  <2> QED
    BY <1>2, <2>1, <2>3, <2>4, <2>5, <2>6, QuietKeeps
<1> QED
  BY <1>4, <1>5

\* A promotion writes the token of the pending request, which covers the last one acknowledged.
LEMMA PromoteKeepsAcks ==
    ASSUME IInv, IInv', AInv, Serial', NEW p \in Activities, Promote(p)
    PROVE  Recorded' /\ Loaded' /\ Carried' /\ InRequest' /\ Held'
<1>1. /\ tx[p].pc = "queued" /\ DOMAIN tx = Activities /\ states.rev \in Nat /\ log \in Seq(Entries)
      /\ lastAck.tok \in Nat /\ intents.tok \in Nat
  BY DEF IInv, TypeOK, TypeOfJournal, TypeOfPublished, TypeOfRequests, TypeOfHistory, TypeOfTransactions, NoState,
     NoIntent, Promote
<1>2. UNCHANGED <<durable, inherited, states, captured, follows, lastAck, restarts, req>> /\ req.pc = "none"
  BY DEF Promote, history, bounds, AInv, Serial
<1>3. CASE PromotionDue
  <2> DEFINE e == checkpoint'.latest
  <2>1. /\ Begin(p, "promote", states.rev + 1, intents.sel, NoRec, intents.tok, checkpoint)
        /\ intents' = NoIntent
    BY <1>3 DEF Promote
  <2>2. /\ e = Entry("pending", "self", states.rev + 1, Token(states.rev + 1, intents.tok, checkpoint.latest), intents.sel, NoRec)
    BY <2>1, BeginFacts
  <2>3. ASSUME lastAck # NoIntent, ~Lost PROVE Covers(e, lastAck)
    <3>1. Covers(intents, lastAck) /\ lastAck.tok > 0
      BY <1>3, <2>3 DEF PromotionDue, AInv, Held, Recorded
    <3>2. intents.tok # 0
      BY <1>1, <3>1 DEF Covers, Matches
    <3>3. Matches(e, intents)
      BY <2>2, <3>2 DEF Matches, Token, Entry
    <3> QED
      BY <3>1, <3>3 DEF Covers, Matches
  <2>4. ~Overtaken(log, follows, lastAck, Len(log)) => ~Lost
    BY DEF Lost
  <2> HIDE DEF e
  <2> QED
    BY <1>2, <2>1, <2>3, <2>4, BeginKeepsAcks DEF e, Starts
<1>4. CASE ~PromotionDue
  <2>1. tx' = [tx EXCEPT ![p] = NoTx] /\ UNCHANGED <<log, unavailable, checkpoint, intents>>
    BY <1>4 DEF Promote
  <2>2. NoTx.pc \in {"none", "begin", "queued"}
    BY DEF NoTx
  <2>3. \A q \in Activities : Eases(q)
    BY <1>1, <2>1, <2>2, MoveEases
  <2>4. (Ready' => Ready) /\ ReqEases /\ durable <= durable'
    BY <1>2, <2>1 DEF Ready, ReqEases, IInv, TypeOK, TypeOfJournal
  <2> QED
    BY <1>2, <2>1, <2>3, <2>4, QuietKeeps
<1> QED
  BY <1>3, <1>4

\* A commit over an intent that is still live overtakes it, if it is a recovery's or a follow's.
LEMMA CommitOvertakes ==
    ASSUME NEW l \in Seq(Entries), NEW e \in Entries, e.kind = "committed", NEW gs, NEW ack, NEW i \in 1 .. Len(l),
           l[i].kind = "intent", Matches(l[i], ack), e.rec # NoRec \/ Len(l) + 1 \in gs
    PROVE  Overtaken(Append(l, e), gs, ack, Len(l) + 1)
<1> DEFINE m == Append(l, e)
<1>1. m[i] = l[i] /\ m[Len(l) + 1] = e /\ i \in 1 .. Len(l) + 1 /\ Len(l) + 1 \in 1 .. Len(l) + 1 /\ i < Len(l) + 1
  OBVIOUS
<1> HIDE DEF m
<1> QED
  BY <1>1 DEF Overtaken, m

\* A commit covers the acknowledged request, or overtakes it.
LEMMA ApplyKeepsAcks ==
    ASSUME IInv, IInv', AInv, NEW p \in Activities, Apply(p)
    PROVE  Recorded' /\ Loaded' /\ Carried' /\ InRequest' /\ Held'
<1> DEFINE e == [checkpoint.latest EXCEPT !.kind = "committed"]
           kind == tx[p].kind
<1>0. /\ log \in Seq(Entries) /\ inherited \in Nat /\ durable \in Nat /\ durable <= Len(log) /\ req.tok \in Nat
      /\ lastAck.tok \in Nat /\ DOMAIN tx = Activities /\ Busy(p) /\ tx[p].pc = "apply" /\ tx[p] \in Txs
  BY DEF IInv, TypeOK, TypeOfJournal, TypeOfRequests, TypeOfHistory, TypeOfTransactions, Marked, Busy, Apply
<1>1. /\ checkpoint.latest = Latest(log) /\ Latest(log).kind = "pending" /\ Latest(log) \in Entries
  BY ReplayType DEF IInv, Apply, Linked, TypeOK, TypeOfJournal, NoEntry, Entry
<1>2. /\ e \in Entries /\ e.kind = "committed" /\ e # NoEntry /\ Matches(e, Latest(log)) /\ e.rec = Latest(log).rec
  BY <1>1 DEF Entries, NoEntry, Entry, Matches
<1>3. log' = Append(log, e) /\ checkpoint'.latest = e
  BY DEF Apply, IInv, TypeOK, TypeOfPublished
<1>4. UNCHANGED <<durable, inherited, captured, intents, req, lastAck, restarts>>
  BY DEF Apply, requests, bounds
<1>5. /\ \A j \in 1 .. Len(log) : j \in follows <=> j \in follows'
      /\ kind = "follow" => Len(log) + 1 \in follows'
  BY <1>0 DEF Apply
<1>6. tx' = [tx EXCEPT ![p] = [tx[p] EXCEPT !.pc = "flushCommitted", !.mark = Len(log) + 1]]
  BY DEF Apply
<1>7. /\ tx'[p].pc = "flushCommitted" /\ tx'[p].kind = kind /\ tx'[p].mark = Len(log) + 1
      /\ \A q \in Activities : q # p => tx'[q] = tx[q]
  BY <1>0, <1>6 DEF Txs
<1> HIDE DEF e, kind
<1>8. ~Ready' /\ \A q \in Activities : q # p => ~Busy(q)'
  <2>1. Busy(p)'
    BY <1>7 DEF Busy
  <2> QED
    BY <2>1 DEF IInv, Exclusive
<1>9. log' \in Seq(Entries) /\ Len(log') = Len(log) + 1 /\ Latest(log') = e
  BY <1>0, <1>2, <1>3, AppendFinds
<1>10. kind \in {"init", "reinit", "recover", "change", "follow", "promote"}
  BY <1>0 DEF kind, Txs, Kinds, AInv, Serial, Kinded
<1>11. kind \in {"recover", "follow"} => e.rec # NoRec \/ Len(log) + 1 \in follows' \/ Fresh
  BY <1>0, <1>1, <1>2, <1>5 DEF kind, AInv, Carried, Carries, Running
<1>12. Covers(Latest(log), lastAck) => Covers(e, lastAck)
  BY <1>2 DEF Covers, Matches
<1>13. Recorded'
  <2>1. ASSUME NEW i \in 1 .. durable, lastAck # NoIntent, Record(log, inherited, follows, lastAck, i)
        PROVE  \/ Overtaken(log', follows', lastAck, Len(log) + 1)
               \/ Sound(log', follows', lastAck, i, Len(log) + 1)
    <3>1. CASE Overtaken(log, follows, lastAck, Len(log))
      BY <1>0, <1>2, <1>3, <1>5, <3>1, OvertakenAppended
    <3>2. CASE ~Overtaken(log, follows, lastAck, Len(log)) /\ Covers(e, lastAck)
      <4>1. log'[Len(log) + 1] = e
        BY <1>0, <1>2, <1>3
      <4> QED
        BY <1>2, <3>2, <4>1 DEF Sound
    <3>3. CASE ~Overtaken(log, follows, lastAck, Len(log)) /\ ~Covers(e, lastAck)
      <4>1. kind \notin {"change", "promote"}
        BY <1>0, <1>1, <1>12, <2>1, <3>3 DEF AInv, Held, Lost, Serves, Running, kind
      <4>2. kind \notin Starts
        BY <1>0, <2>1 DEF AInv, Carried, Carries, Running, Fresh, kind
      <4>3. e.rec # NoRec \/ Len(log) + 1 \in follows'
        BY <1>10, <1>11, <2>1, <4>1, <4>2 DEF Starts, Fresh
      <4>4. i \in 1 .. Len(log)
        BY <1>0
      <4>5. ~CommittedIn(log, i, Len(log))
        BY <1>0, <1>12, <2>1, <3>3, <4>4, RecordCovered
      <4>6. log[i].kind = "intent" /\ Matches(log[i], lastAck)
        BY <2>1, <4>4, <4>5 DEF Record, CommittedIn
      <4> QED
        BY <1>0, <1>2, <1>3, <4>3, <4>4, <4>6, CommitOvertakes
    <3> QED
      BY <3>1, <3>2, <3>3
  <2> QED
    BY <1>0, <1>2, <1>3, <1>4, <1>5, <2>1, RecordedAppends DEF AInv
<1>14. Loaded'
  <2>1. ~(tx'["maint"].pc = "replay")
    <3>1. "maint" \in Activities
      BY DEF Activities
    <3> QED
      BY <1>7, <1>8, <3>1 DEF Busy
  <2> QED
    BY <1>2, <1>3, <1>8, <1>9, <2>1 DEF Loaded
<1>15. Carried'
  <2>1. Carries(p)'
    <3>1. kind = "change" => Matches(e, req)
      BY <1>0, <1>1, <1>2 DEF AInv, Carried, Carries, Running, Matches, kind
    <3>2. log'[Len(log')] = e
      BY <1>0, <1>2, <1>3, <1>9
    <3> QED
      BY <1>3, <1>4, <1>7, <1>9, <3>1, <3>2 DEF Carries, Running
  <2>2. ASSUME NEW q \in Activities, q # p PROVE Carries(q)'
    BY <1>8, <2>2 DEF Carries, Running, Busy
  <2> QED
    BY <1>2, <1>3, <2>1, <2>2 DEF Carried
<1>16. InRequest'
  <2>1. ASSUME req.pc = "flushing" PROVE Flushing(log', inherited, follows', req)
    <3>1. kind \notin {"change", "promote"} /\ kind \notin Starts
      BY <1>0, <2>1 DEF AInv, Serial, Ordered, kind
    <3>2. e.rec # NoRec \/ Len(log) + 1 \in follows'
      BY <1>10, <1>11, <2>1, <3>1 DEF Starts, Fresh
    <3> QED
      BY <1>0, <1>2, <1>3, <1>5, <2>1, <3>2, FlushingAppends DEF AInv, InRequest
  <2>2. ASSUME req.pc = "applied" PROVE Served(log', inherited, durable, req)
    <3>1. e.kind # "intent" /\ e.tok = Latest(log).tok
      BY <1>2 DEF Matches
    <3> QED
      BY <1>0, <1>1, <1>2, <1>3, <2>2, <3>1, ServedAppends DEF AInv, InRequest
  <2> QED
    BY <1>4, <2>1, <2>2 DEF InRequest
<1>17. Held'
  <2> SUFFICES ASSUME lastAck # NoIntent, ~Lost'
               PROVE  /\ intents' # NoIntent => Covers(intents', lastAck)
                      /\ intents' = NoIntent => Covers(Latest(log'), lastAck)
                      /\ req'.pc \in {"changing", "flushing"} => req'.tok > lastAck.tok
                      /\ \A q \in Activities : ~Serves(q)'
    BY <1>4 DEF Held
  <2>1. ~Lost
    BY <1>0, <1>2, <1>3, <1>4, <1>5, <1>9, OvertakenAppended DEF Lost
  <2>2. intents' # NoIntent => Covers(intents', lastAck)
    BY <1>4, <2>1 DEF AInv, Held
  <2>3. ASSUME intents' = NoIntent PROVE Covers(Latest(log'), lastAck)
    <3>1. ASSUME Stuck PROVE FALSE
      <4>1. kind = "recover" /\ restarts > 0 /\ Unserved(log, lastAck)
        BY <1>0, <3>1 DEF Stuck, kind
      <4>2. e.rec # NoRec \/ Len(log) + 1 \in follows'
        BY <1>11, <4>1 DEF Fresh
      <4>3. PICK i \in 1 .. Len(log) : log[i].kind = "intent" /\ Matches(log[i], lastAck)
        BY <4>1 DEF Unserved
      <4>4. Overtaken(log', follows', lastAck, Len(log) + 1)
        BY <1>0, <1>2, <1>3, <4>2, <4>3, CommitOvertakes
      <4> QED
        BY <1>4, <1>9, <4>1, <4>4 DEF Lost
    <3>2. Covers(Latest(log), lastAck) \/ Stuck
      BY <1>1, <1>4, <2>1, <2>3 DEF AInv, Held, NoEntry, Entry
    <3> QED
      BY <1>9, <1>12, <3>1, <3>2
  <2>4. req'.pc \in {"changing", "flushing"} => req'.tok > lastAck.tok
    BY <1>4, <2>1 DEF AInv, Held
  <2>5. \A q \in Activities : ~Serves(q)'
    BY <1>7, <1>8 DEF Serves, Running, Busy
  <2> QED
    BY <2>2, <2>3, <2>4, <2>5
<1> QED
  BY <1>13, <1>14, <1>15, <1>16, <1>17

-----------------------------------------------------------------------------
(* Requests.                                                                *)

\* A new request is numbered past everything that was acknowledged and is still held.
LEMMA RequestKeepsAcks ==
    ASSUME IInv, IInv', AInv, Serial', NEW sel \in Selections, Request(sel)
    PROVE  Recorded' /\ Loaded' /\ Carried' /\ InRequest' /\ Held'
<1> DEFINE tok == SelectionRevision + 1
           e == Entry("intent", "self", 0, tok, sel, NoRec)
<1>0. /\ log \in Seq(Entries) /\ inherited \in Nat /\ durable \in Nat /\ durable <= Len(log) /\ lastAck.tok \in Nat
      /\ inherited <= Len(log) /\ DOMAIN tx = Activities /\ "maint" \in Activities
  BY DEF IInv, TypeOK, TypeOfJournal, TypeOfHistory, TypeOfTransactions, Marked, Activities
<1>1. /\ UNCHANGED <<durable, inherited, follows, lastAck, restarts, checkpoint, captured, intents>>
      /\ Ready /\ Ready' /\ chain = "free"
  BY DEF Request, published, history, bounds, Ready
<1>2. req.pc = "none" /\ \A q \in Activities : ~Busy(q)
  BY <1>1 DEF AInv, Serial, IInv, Exclusive
<1>3. lastAck # NoIntent /\ ~Lost => tok \in Nat /\ tok > lastAck.tok
  <2>1. lastAck # NoIntent /\ ~Lost => SelectionRevision \in Nat /\ SelectionRevision >= lastAck.tok
    BY <1>1, TokenCovers
  <2> QED
    BY <1>0, <2>1
<1>4. /\ checkpoint.latest = Latest(log) /\ Latest(log).kind = "committed" /\ Latest(log).owner = "self"
      /\ checkpoint.latest # NoEntry /\ ~Stuck
  BY <1>1 DEF IInv, ReadyLinked, Same, NoEntry, Entry, Stuck
<1>5. CASE SlotFree
  <2> DEFINE t == [NoTx EXCEPT !.pc = "begin", !.kind = "change", !.rev = states.rev, !.tok = tok, !.sel = sel]
  <2>1. req' = [pc |-> "changing", tok |-> tok, sel |-> sel, mark |-> 0] /\ tx' = [tx EXCEPT !["maint"] = t] /\ log' = log
    BY <1>5 DEF Request
  <2>2. t.pc \in {"none", "begin", "queued"}
    BY DEF NoTx
  <2> HIDE DEF t, tok
  <2>3. \A q \in Activities : Eases(q)
    BY <1>0, <2>1, <2>2, MoveEases
  <2>4. ReqEases
    BY <1>1, <1>2, <1>3, <2>1 DEF ReqEases
  <2> QED
    BY <1>0, <1>1, <2>1, <2>3, <2>4, QuietKeeps
<1>6. CASE ~SlotFree
  <2>1. /\ req' = [pc |-> "flushing", tok |-> tok, sel |-> sel, mark |-> Len(log) + 1]
        /\ log' = Append(log, e) /\ tx' = tx
    BY <1>6 DEF Request
  <2>2. e \in Entries
    <3>1. log' \in Seq(Entries)
      BY DEF IInv, TypeOK, TypeOfJournal
    <3>2. log \in Seq(Entries \cup {e})
      BY <1>0
    <3>3. Len(log') = Len(log) + 1 /\ log'[Len(log) + 1] = e
      BY <2>1, <3>2
    <3> QED
      BY <3>1, <3>3
  <2>3. e.kind = "intent" /\ e.owner = "self" /\ e.tok = tok /\ Matches(e, req')
    BY <2>1 DEF Entry, Matches
  <2> HIDE DEF e, tok
  <2>4. Latest(log') = Latest(log) /\ Len(log') = Len(log) + 1
    BY <1>0, <2>1, <2>2, <2>3, AppendFinds
  <2>5. log'[Len(log) + 1] = e /\ \A j \in 1 .. Len(log) : log'[j] = log[j]
    BY <1>0, <2>1, <2>2
  <2>6. ~Overtaken(log, follows, lastAck, Len(log)) => ~Lost
    BY DEF Lost
  <2>7. Overtaken(log, follows, lastAck, Len(log)) => Overtaken(log', follows, lastAck, Len(log) + 1)
    BY <1>0, <2>1, <2>2, OvertakenAppended
  <2>8. Recorded'
    <3>1. ASSUME NEW i \in 1 .. durable, lastAck # NoIntent, ~Overtaken(log, follows, lastAck, Len(log))
          PROVE  Sound(log', follows, lastAck, i, Len(log) + 1)
      BY <1>3, <2>3, <2>5, <2>6, <3>1 DEF Sound
    <3> QED
      BY <1>0, <1>1, <2>1, <2>2, <2>7, <3>1, RecordedAppends DEF AInv
  <2>9. Loaded'
    BY <1>0, <1>1, <1>2, <1>4, <2>1, <2>4 DEF AInv, Loaded, Busy
  <2>10. Carried'
    <3>1. \A q \in Activities : Carries(q)'
      BY <1>2, <2>1 DEF Carries, Running, Busy
    <3> QED
      BY <1>1, <1>4, <3>1 DEF Carried
  <2>11. InRequest'
    <3>1. CommittedIn(log, inherited + 1, Len(log))
      BY <1>0, <1>4, OwnCommit DEF AInv, Forked
    <3>2. CommittedIn(log', inherited + 1, Len(log) + 1)
      BY <1>0, <2>5, <3>1 DEF CommittedIn
    <3>3. req'.mark = Len(log) + 1 /\ req'.pc = "flushing" /\ req'.mark \in 1 .. Len(log')
          /\ \A j \in (req'.mark + 1) .. Len(log') : FALSE
      BY <1>0, <2>1, <2>4
    <3>4. Flushing(log', inherited, follows, req')
      BY <2>3, <2>5, <3>2, <3>3 DEF Flushing
    <3> QED
      BY <1>1, <3>3, <3>4 DEF InRequest
  <2>12. Held'
    <3> SUFFICES ASSUME lastAck # NoIntent, ~Lost'
                 PROVE  /\ intents' # NoIntent => Covers(intents', lastAck)
                        /\ intents' = NoIntent => Covers(Latest(log'), lastAck)
                        /\ req'.pc \in {"changing", "flushing"} => req'.tok > lastAck.tok
                        /\ \A q \in Activities : ~Serves(q)'
      BY <1>1 DEF Held
    <3>1. ~Lost
      BY <1>1, <2>4, <2>7 DEF Lost
    <3>2. req'.tok > lastAck.tok
      BY <1>3, <2>1, <3>1
    <3>3. \A q \in Activities : ~Serves(q)'
      BY <1>2, <2>1 DEF Serves, Running, Busy
    <3> QED
      BY <1>1, <1>4, <2>4, <3>1, <3>2, <3>3 DEF AInv, Held
  <2> QED
    BY <2>8, <2>9, <2>10, <2>11, <2>12
<1> QED
  BY <1>5, <1>6

\* What a request in progress keeps from running when it is acknowledged.
LEMMA AckFacts ==
    ASSUME IInv, AInv, req.pc \in {"applied", "flushing"}
    PROVE  /\ req.tok > 0 /\ req.tok \in Nat /\ checkpoint.latest # NoEntry /\ ~Fresh
           /\ \A q \in Activities : ~Serves(q) /\ tx[q].kind # "change"
<1>1. chain = "request" /\ req.tok > 0 /\ req.tok \in Nat
  BY DEF AInv, Serial, IInv, TypeOK, TypeOfRequests
<1>2. ASSUME NEW q \in Activities PROVE ~Serves(q) /\ tx[q].kind # "change"
  <2>1. Ordered(q)
    BY DEF AInv, Serial
  <2> QED
    BY <1>1, <2>1 DEF Ordered, Serves, Running
<1> QED
  BY <1>1, <1>2 DEF AInv, Loaded, Fresh

\* A request that was served is acknowledged with its commit in the log.
LEMMA RequestAppliedKeepsAcks ==
    ASSUME IInv, IInv', AInv, RequestApplied
    PROVE  Recorded' /\ Loaded' /\ Carried' /\ InRequest' /\ Held'
<1>0. log \in Seq(Entries) /\ inherited \in Nat /\ durable \in Nat /\ durable <= Len(log)
  BY DEF IInv, TypeOK, TypeOfJournal, Marked
<1>1. /\ req.pc = "applied" /\ lastAck' = [tok |-> req.tok, sel |-> req.sel] /\ intents' = NoIntent
      /\ req'.pc = "none" /\ UNCHANGED <<log, durable, inherited, checkpoint, captured, tx, follows, restarts>>
      /\ Ready' = Ready
  BY DEF RequestApplied, journal, published, bounds, NoReq, Ready
<1>2. /\ req.tok > 0 /\ req.tok \in Nat /\ checkpoint.latest # NoEntry /\ ~Fresh
      /\ \A q \in Activities : ~Serves(q) /\ tx[q].kind # "change"
  BY <1>1, AckFacts
<1>3. Served(log, inherited, durable, req)
  BY <1>1 DEF AInv, InRequest
<1>4. Recorded'
  <2>1. PICK c \in (inherited + 1) .. durable :
            /\ log[c].kind = "committed" /\ log[c].owner = "self" /\ Matches(log[c], req)
            /\ \A j \in (c + 1) .. Len(log) : log[j].kind # "intent" /\ log[j].tok > req.tok
    BY <1>3 DEF Served
  <2>2. CommittedIn(log, inherited + 1, c) /\ c \in 1 .. durable
    BY <1>0, <2>1 DEF CommittedIn
  <2>3. Record(log, inherited, follows, lastAck', c)
    BY <1>1, <2>1, <2>2 DEF Record, Sound, Matches, Covers
  <2> QED
    BY <1>1, <1>2, <2>2, <2>3 DEF Recorded
<1>5. Loaded'
  BY <1>1 DEF AInv, Loaded
<1>6. Carried'
  <2>1. ASSUME NEW q \in Activities PROVE Carries(q)'
    <3>1. Carries(q) /\ tx'[q] = tx[q]
      BY <1>1 DEF AInv, Carried
    <3> QED
      BY <1>1, <1>2, <3>1 DEF Carries, Running
  <2> QED
    BY <1>1, <1>2, <2>1 DEF Carried
<1>7. InRequest'
  BY <1>1 DEF InRequest
<1>8. Held'
  <2>1. Covers(Latest(log), lastAck')
    BY <1>0, <1>1, <1>2, <1>3, ServedLatest DEF Covers, Matches
  <2>2. \A q \in Activities : ~Serves(q)'
    BY <1>1, <1>2 DEF Serves, Running
  <2> QED
    BY <1>1, <2>1, <2>2 DEF Held
<1> QED
  BY <1>4, <1>5, <1>6, <1>7, <1>8

\* A request that is pending is acknowledged with its intent in the log.
LEMMA IntentPersistedKeepsAcks ==
    ASSUME IInv, IInv', AInv, IntentPersisted
    PROVE  Recorded' /\ Loaded' /\ Carried' /\ InRequest' /\ Held'
<1>0. log \in Seq(Entries) /\ inherited \in Nat /\ durable \in Nat /\ durable <= Len(log) /\ req.mark \in Nat
  BY DEF IInv, TypeOK, TypeOfJournal, TypeOfRequests, Marked
<1>1. /\ req.pc = "flushing" /\ lastAck' = [tok |-> req.tok, sel |-> req.sel] /\ intents' = lastAck'
      /\ req'.pc = "none" /\ durable' = Larger(durable, req.mark)
      /\ UNCHANGED <<log, inherited, checkpoint, captured, tx, follows, restarts>>
      /\ Ready' = Ready
  BY DEF IntentPersisted, Flushed, published, bounds, NoReq, Ready
<1>2. /\ req.tok > 0 /\ req.tok \in Nat /\ checkpoint.latest # NoEntry /\ ~Fresh
      /\ \A q \in Activities : ~Serves(q) /\ tx[q].kind # "change"
  BY <1>1, AckFacts
<1>3. Flushing(log, inherited, follows, req)
  BY <1>1 DEF AInv, InRequest
<1>4. Recorded'
  <2> DEFINE i == req.mark
  <2>1. /\ i \in 1 .. Len(log) /\ log[i].kind = "intent" /\ log[i].owner = "self" /\ Matches(log[i], lastAck')
        /\ CommittedIn(log, inherited + 1, i)
    BY <1>1, <1>3 DEF Flushing, Matches
  <2>2. ASSUME NEW j \in (i + 1) .. Len(log) PROVE Overtaken(log, follows, lastAck', j) \/ Sound(log, follows, lastAck', i, j)
    <3>1. ASSUME NEW c \in (i + 1) .. j, log[c].kind = "committed" PROVE Overtaken(log, follows, lastAck', j)
      <4>1. c \in (i + 1) .. Len(log) /\ i \in 1 .. j /\ c \in 1 .. j /\ i < c
        BY <2>1, <3>1
      <4>2. log[c].rec # NoRec \/ c \in follows
        BY <1>3, <3>1, <4>1 DEF Flushing
      <4> QED
        BY <2>1, <3>1, <4>1, <4>2 DEF Overtaken
    <3>2. log[j].kind # "intent"
      BY <1>3 DEF Flushing
    <3>3. ASSUME CommittedIn(log, i, j - 1) PROVE \E c \in (i + 1) .. j : log[c].kind = "committed"
      <4>1. PICK c \in i .. (j - 1) : log[c].kind = "committed"
        BY <3>3 DEF CommittedIn
      <4>2. c \in (i + 1) .. j
        BY <2>1, <4>1
      <4> QED
        BY <4>1, <4>2
    <3>4. j \in (i + 1) .. j
      BY <2>1
    <3> QED
      BY <3>1, <3>2, <3>3, <3>4 DEF Sound
  <2>3. i \in 1 .. durable'
    BY <1>0, <1>1, <2>1 DEF Larger
  <2>4. Record(log, inherited, follows, lastAck', i)
    BY <2>1, <2>2 DEF Record
  <2> QED
    BY <1>1, <1>2, <2>3, <2>4 DEF Recorded
<1>5. Loaded'
  BY <1>1 DEF AInv, Loaded
<1>6. Carried'
  <2>1. ASSUME NEW q \in Activities PROVE Carries(q)'
    <3>1. Carries(q) /\ tx'[q] = tx[q]
      BY <1>1 DEF AInv, Carried
    <3> QED
      BY <1>1, <1>2, <3>1 DEF Carries, Running
  <2> QED
    BY <1>1, <1>2, <2>1 DEF Carried
<1>7. InRequest'
  BY <1>1 DEF InRequest
<1>8. Held'
  <2>1. Covers(intents', lastAck') /\ intents' # NoIntent
    BY <1>1, <1>2 DEF Covers, Matches, NoIntent
  <2>2. \A q \in Activities : ~Serves(q)'
    BY <1>1, <1>2 DEF Serves, Running
  <2> QED
    BY <1>1, <2>1, <2>2 DEF Held
<1> QED
  BY <1>4, <1>5, <1>6, <1>7, <1>8

-----------------------------------------------------------------------------
(* Publishing a transaction, and restarts.                                  *)

\* A transaction that is published is durable, and a change it was asked for is served.
LEMMA PublishKeepsAcks ==
    ASSUME IInv, IInv', AInv, NEW p \in Activities, FlushCommitted(p) \/ CommittedThrows(p) \/ Restore(p)
    PROVE  Recorded' /\ Loaded' /\ Carried' /\ InRequest' /\ Held'
<1>0. /\ log \in Seq(Entries) /\ inherited \in Nat /\ durable \in Nat /\ durable <= Len(log) /\ DOMAIN tx = Activities
      /\ Busy(p) /\ tx[p].mark \in Nat /\ tx[p].mark <= Len(log) /\ NoTx.pc = "none" /\ NoTx.kind = "none"
      /\ \A q \in Activities : Busy(q) => q = p
  BY DEF IInv, TypeOK, TypeOfJournal, TypeOfTransactions, Txs, Marked, Exclusive, Busy, NoTx, FlushCommitted,
     CommittedThrows, Restore
<1>1. /\ UNCHANGED <<log, inherited, follows, lastAck, restarts, captured, intents>>
      /\ tx' = [tx EXCEPT ![p] = NoTx]
      /\ Answer(p, TRUE) \/ Answer(p, FALSE)
  BY DEF FlushCommitted, CommittedThrows, Restore, Publish, Settle, Answer, Fault, journal, history, bounds
<1>2. /\ checkpoint.latest = Latest(log) /\ Latest(log).kind = "committed" /\ checkpoint.latest # NoEntry
      /\ checkpoint'.latest = checkpoint.latest /\ checkpoint'.committed = checkpoint.latest
  <2>1. CASE tx[p].pc = "flushCommitted"
    <3>1. checkpoint' = [checkpoint EXCEPT !.committed = checkpoint.latest]
      BY <2>1 DEF FlushCommitted, CommittedThrows, Restore
    <3>2. checkpoint \in Checkpoints
      BY DEF IInv, TypeOK, TypeOfPublished, Checkpoints
    <3>3. checkpoint'.latest = checkpoint.latest /\ checkpoint'.committed = checkpoint.latest
      BY <3>1, <3>2 DEF Checkpoints
    <3> QED
      BY <2>1, <3>3 DEF IInv, Linked, NoEntry, Entry
  <2>2. CASE tx[p].pc = "restore"
    <3>1. checkpoint' = checkpoint
      BY <2>2 DEF FlushCommitted, CommittedThrows, Restore
    <3> QED
      BY <2>2, <3>1 DEF IInv, Linked, NoEntry, Entry
  <2> QED
    BY <2>1, <2>2 DEF FlushCommitted, CommittedThrows, Restore
<1>3. durable' \in Nat /\ durable <= durable' /\ (tx[p].pc = "flushCommitted" => durable' >= tx[p].mark)
  <2>1. CASE tx[p].pc = "flushCommitted"
    <3>1. durable' = Larger(durable, tx[p].mark)
      BY <2>1 DEF FlushCommitted, CommittedThrows, Restore, Flushed
    <3> QED
      BY <1>0, <3>1 DEF Larger
  <2>2. CASE tx[p].pc = "restore"
    <3>1. durable' = durable
      BY <2>2 DEF FlushCommitted, CommittedThrows, Restore, journal
    <3> QED
      BY <1>0, <2>2, <3>1
  <2> QED
    BY <2>1, <2>2 DEF FlushCommitted, CommittedThrows, Restore
<1>4. \A q \in Activities : (q # p => tx'[q] = tx[q]) /\ ~Busy(q)'
  BY <1>0, <1>1 DEF Busy
<1>5. /\ tx[p].kind # "change" => req' = req
      /\ tx[p].kind = "change" => /\ req'.pc \in {"applied", "refused"} /\ req'.tok = req.tok /\ req'.sel = req.sel
                                  /\ req.pc = "changing"
  <2>1. req \in [pc : {"none", "changing", "applied", "refused", "flushing"}, tok : Nat, sel : Grants, mark : Nat]
    BY DEF IInv, TypeOK, TypeOfRequests
  <2>2. Ordered(p)
    BY DEF AInv, Serial
  <2> QED
    BY <1>1, <2>1, <2>2 DEF Answer, Ordered
<1>6. Recorded'
  <2>1. 1 .. durable \subseteq 1 .. durable'
    BY <1>0, <1>3
  <2> QED
    BY <1>1, <2>1 DEF AInv, Recorded
<1>7. Loaded'
  <2>1. ~(tx'["maint"].pc = "replay")
    <3>1. "maint" \in Activities
      BY DEF Activities
    <3> QED
      BY <1>4, <3>1 DEF Busy
  <2> QED
    BY <1>1, <1>2, <2>1 DEF Loaded
<1>8. Carried'
  <2>1. \A q \in Activities : Carries(q)'
    BY <1>4 DEF Carries, Running, Busy
  <2> QED
    BY <1>2, <2>1 DEF Carried
<1>9. InRequest'
  <2>1. CASE tx[p].kind # "change"
    <3>1. 1 .. durable \subseteq 1 .. durable' /\ (inherited + 1) .. durable \subseteq (inherited + 1) .. durable'
      BY <1>0, <1>3
    <3> QED
      BY <1>1, <1>5, <2>1, <3>1 DEF AInv, InRequest, Served
  <2>2. CASE tx[p].kind = "change"
    <3>1. tx[p].pc = "flushCommitted"
      BY <2>2 DEF FlushCommitted, CommittedThrows, Restore, AInv, Serial, Kinded, Starts
    <3>2. Matches(Latest(log), req) /\ tx[p].mark = Len(log) /\ log[Len(log)] = Latest(log) /\ Latest(log).owner = "self"
      BY <1>2, <2>2, <3>1 DEF AInv, Carried, Carries, IInv, Linked, Same
    <3>3. Len(log) \in 1 .. Len(log)
      <4>1. Latest(log) # NoEntry
        BY <1>2
      <4>2. PICK n \in 1 .. Len(log) : Latest(log) = log[n]
        BY <1>0, <4>1, LatestFrom
      <4> QED
        BY <1>0, <4>2
    <3>4. Len(log) \notin 1 .. inherited
      BY <3>2 DEF AInv, Forked
    <3>5. Len(log) \in (inherited + 1) .. durable'
      BY <1>0, <1>3, <3>1, <3>2, <3>3, <3>4
    <3>6. \A j \in (Len(log) + 1) .. Len(log) : FALSE
      BY <1>0
    <3>7. Matches(Latest(log), req')
      BY <1>5, <2>2, <3>2 DEF Matches
    <3>8. Served(log, inherited, durable', req')
      BY <1>2, <3>2, <3>5, <3>6, <3>7 DEF Served
    <3> QED
      BY <1>1, <1>5, <2>2, <3>8 DEF InRequest
  <2> QED
    BY <2>1, <2>2
<1>10. Held'
  <2> SUFFICES ASSUME lastAck # NoIntent, ~Lost
               PROVE  /\ intents' # NoIntent => Covers(intents', lastAck)
                      /\ intents' = NoIntent => Covers(Latest(log'), lastAck)
                      /\ req'.pc \in {"changing", "flushing"} => req'.tok > lastAck.tok
                      /\ \A q \in Activities : ~Serves(q)'
    BY <1>1 DEF Held, Lost
  <2>1. ~Stuck
    BY <1>2 DEF Stuck
  <2>2. req'.pc \in {"changing", "flushing"} => req'.tok > lastAck.tok
    BY <1>5 DEF AInv, Held
  <2>3. \A q \in Activities : ~Serves(q)'
    BY <1>4 DEF Serves, Running, Busy
  <2> QED
    BY <1>1, <1>2, <2>1, <2>2, <2>3 DEF AInv, Held
<1> QED
  BY <1>6, <1>7, <1>8, <1>9, <1>10

\* A service that starts over knows nothing, and the log still records the request.
LEMMA ForgetKeepsAcks ==
    ASSUME IInv, IInv', AInv, Crash \/ Reload
    PROVE  Recorded' /\ Loaded' /\ Carried' /\ InRequest' /\ Held'
<1>0. log \in Seq(Entries) /\ inherited \in Nat /\ durable \in Nat /\ durable <= Len(log) /\ restarts \in Nat
  BY DEF IInv, TypeOK, TypeOfJournal, TypeOfHistory, Marked
<1>1. ForgetMemory /\ UNCHANGED <<inherited, lastAck>>
  BY DEF Crash, Reload, journal, history
<1>2. /\ ~Ready' /\ checkpoint'.latest = NoEntry /\ checkpoint'.committed = NoEntry /\ checkpoint'.initial = NoSel
      /\ ~captured' /\ intents' = NoIntent /\ req'.pc = "none" /\ restarts' > 0
      /\ \A q \in Activities : tx'[q].pc = "none" /\ tx'[q].kind = "none"
  BY <1>0, <1>1 DEF ForgetMemory, Ready, NoCheckpoint, NoReq, NoTx
<1>3. Recorded'
  <2>1. CASE Crash
    <3>1. PICK kept \in durable .. Len(log) : /\ log' = SubSeq(log, 1, kept) /\ durable' = kept
                                              /\ follows' = {k \in follows : k <= kept}
      BY <2>1 DEF Crash
    <3>2. kept \in 0 .. Len(log) /\ 1 .. durable \subseteq 1 .. kept
      BY <1>0
    <3>3. ASSUME NEW i \in 1 .. durable, Record(log, inherited, follows, lastAck, i)
          PROVE  Record(log', inherited, follows', lastAck, i)
      BY <1>0, <3>1, <3>2, <3>3, RecordKept
    <3> QED
      BY <1>1, <3>1, <3>2, <3>3 DEF AInv, Recorded
  <2>2. CASE Reload
    BY <2>2 DEF Reload, journal, history, AInv, Recorded
  <2> QED
    BY <2>1, <2>2
<1>4. Loaded'
  <2>1. "maint" \in Activities
    BY DEF Activities
  <2> QED
    BY <1>2, <2>1 DEF Loaded
<1>5. Carried' /\ InRequest' /\ Held'
  BY <1>2 DEF Carried, Carries, Running, InRequest, Held, Serves
<1> QED
  BY <1>3, <1>4, <1>5

-----------------------------------------------------------------------------
(* The invariant of the acknowledged requests.                              *)

\* A session that has acknowledged nothing starts with nothing to keep.
LEMMA AcksInit == Init => AInv
<1> SUFFICES ASSUME Init PROVE AInv
  OBVIOUS
<1>1. \A p \in Activities : tx[p].pc = "none" /\ tx[p].kind = "none" /\ tx[p].tok = 0
  BY DEF Init, NoTx
<1>2. /\ lastAck = NoIntent /\ req.pc = "none" /\ checkpoint = NoCheckpoint /\ states = NoState /\ "maint" \in Activities
  BY DEF Init, NoReq, Activities
<1>3. Forked
  BY ForkedLogsAssumption DEF Init, Forked
<1>4. Serial
  BY <1>1, <1>2 DEF Serial, Kinded, Ordered, Starts
<1>5. Recorded /\ Loaded /\ Carried /\ InRequest /\ Held
  BY <1>1, <1>2 DEF Recorded, Loaded, Carried, Carries, Running, InRequest, Held, Ready, NoCheckpoint
<1> QED
  BY <1>3, <1>4, <1>5 DEF AInv

\* Every step keeps what is known of the acknowledged request.
LEMMA AcksStep == IInv /\ AInv /\ [Next]_vars => AInv'
<1> SUFFICES ASSUME IInv, AInv, [Next]_vars PROVE AInv'
  OBVIOUS
<1>1. IInv'
  BY StepKeeps
<1>2. Serial'
  <2>1. Serial
    BY DEF AInv
  <2>2. RecoverReplay => \/ Settle("maint", FALSE)
                         \/ tx' = [tx EXCEPT !["maint"].pc = "capture"] /\ UNCHANGED <<chain, req>>
                         \/ UNCHANGED <<chain, req>> /\ \E rev, sel, rec, cp : Begin("maint", "recover", rev, sel, rec, 0, cp)
    <3>1. RecoverReplay => RecoverySettles \/ RecoveryCaptures \/ RecoveryBegins
      BY RecoverReplayCases
    <3> QED
      BY <3>1 DEF RecoverySettles, RecoveryCaptures, RecoveryBegins
  <2> QED
    BY <2>1, <2>2, SerialStep
<1>3. Forked'
  BY ForkedKeeps DEF AInv
<1>4. ASSUME NEW p \in Activities, TransactionStep(p) PROVE Recorded' /\ Loaded' /\ Carried' /\ InRequest' /\ Held'
  BY <1>1, <1>2, <1>4, QuietTransaction, ApplyKeepsAcks, PublishKeepsAcks, InitReplayKeepsAcks, CaptureKeepsAcks,
     PromoteKeepsAcks DEF TransactionStep
<1>5. ASSUME NEW sel \in Selections, Request(sel) PROVE Recorded' /\ Loaded' /\ Carried' /\ InRequest' /\ Held'
  BY <1>1, <1>2, <1>5, RequestKeepsAcks
<1>6. ASSUME \/ RequestRefused \/ IntentFails \/ IdleReached \/ UserSend \/ LaterStep \/ TurnEnd \/ AttachBusy \/ UNCHANGED vars
      PROVE  Recorded' /\ Loaded' /\ Carried' /\ InRequest' /\ Held'
  BY <1>1, <1>2, <1>6, QuietRequest
<1>7. ASSUME Created \/ Attach \/ Recover \/ Follow \/ PromoteAfterIdle \/ TurnStart \/ TurnStopping
      PROVE  Recorded' /\ Loaded' /\ Carried' /\ InRequest' /\ Held'
  BY <1>1, <1>2, <1>7, QuietHost
<1>8. ASSUME RecoverReplay \/ Change \/ RequestApplied \/ IntentPersisted \/ Crash \/ Reload
      PROVE  Recorded' /\ Loaded' /\ Carried' /\ InRequest' /\ Held'
  BY <1>1, <1>2, <1>8, RecoverReplayKeepsAcks, ChangeKeepsAcks, RequestAppliedKeepsAcks, IntentPersistedKeepsAcks,
     ForgetKeepsAcks
<1>9. Recorded' /\ Loaded' /\ Carried' /\ InRequest' /\ Held'
  BY <1>4, <1>5, <1>6, <1>7, <1>8 DEF Next
<1> QED
  BY <1>2, <1>3, <1>9 DEF AInv

\* Both invariants together hold in every reachable state.
LEMMA AcksInductive == Spec => [](IInv /\ AInv)
<1>1. Init => IInv /\ AInv
  BY InitHolds, AcksInit
<1>2. (IInv /\ AInv) /\ [Next]_vars => (IInv /\ AInv)'
  <2>1. IInv /\ [Next]_vars => IInv'
    BY StepKeeps
  <2>2. IInv /\ AInv /\ [Next]_vars => AInv'
    BY AcksStep
  <2> QED
    BY <2>1, <2>2
<1> QED
  BY <1>1, <1>2, PTL DEF Spec

\* A request that a recovery or a follow overtook was recovered from or followed after.
LEMMA OvertakenShows ==
    ASSUME NEW l \in Seq(Entries), NEW ack, Overtaken(l, follows, ack, Len(l))
    PROVE  RecoveredAfter(l, ack) \/ FollowedAfter(l, ack)
  BY DEF Overtaken, RecoveredAfter, FollowedAfter

\* Every acknowledgement is on disk and stays: whatever a crash leaves of the
\* log, from its durable prefix on, still holds the last request that was
\* acknowledged, as the pending request or under a transaction that serves it
\* or a later one, unless a recovery or a catalog follow committed over it.
THEOREM AcknowledgedRequestsSurvive == Spec => []AckSurvives
<1>1. ASSUME IInv, AInv PROVE AckSurvives
  <2> SUFFICES ASSUME lastAck # NoIntent, NEW kept \in durable .. Len(log)
               PROVE  LET disk == SubSeq(log, 1, kept)
                          replayed == Replay(disk) IN
                      \/ Covers(replayed.intent, lastAck) \/ Covers(replayed.latest, lastAck)
                      \/ RecoveredAfter(disk, lastAck) \/ FollowedAfter(disk, lastAck)
    BY DEF AckSurvives
  <2> DEFINE disk == SubSeq(log, 1, kept)
             fs == {k \in follows : k <= kept}
  <2>0. log \in Seq(Entries) /\ inherited \in Nat /\ durable \in Nat /\ durable <= Len(log) /\ kept \in 0 .. Len(log)
    BY <1>1 DEF IInv, TypeOK, TypeOfJournal, Marked
  <2>1. disk \in Seq(Entries) /\ Len(disk) = kept
    BY <2>0
  <2>2. PICK i \in 1 .. durable : Record(log, inherited, follows, lastAck, i)
    BY <1>1 DEF AInv, Recorded
  <2>3. i \in 1 .. kept
    BY <2>0
  <2>4. Record(disk, inherited, fs, lastAck, i)
    BY <2>0, <2>2, <2>3, RecordKept
  <2>5. \A j \in 1 .. kept : j \in fs <=> j \in follows
    BY <2>0
  <2> HIDE DEF disk, fs
  <2>6. CASE Overtaken(disk, fs, lastAck, kept)
    <3>1. Overtaken(disk, follows, lastAck, kept)
      BY <2>0, <2>5, <2>6, LogsAgree
    <3> QED
      BY <2>1, <3>1, OvertakenShows DEF disk
  <2>7. CASE ~Overtaken(disk, fs, lastAck, kept)
    <3>1. /\ CommittedIn(disk, i, Len(disk)) => Covers(Latest(disk), lastAck)
          /\ EntryAt(disk, LiveIntents(disk)) # NoEntry => Covers(EntryAt(disk, LiveIntents(disk)), lastAck)
          /\ EntryAt(disk, LiveIntents(disk)) = NoEntry => CommittedIn(disk, i, Len(disk))
      BY <2>0, <2>1, <2>3, <2>4, <2>7, RecordCovered
    <3>2. Replay(disk).intent = EntryAt(disk, LiveIntents(disk)) /\ Replay(disk).latest = Latest(disk)
      BY DEF Replay, Latest
    <3> QED
      BY <3>1, <3>2 DEF disk
  <2> QED
    BY <2>6, <2>7
<1>2. IInv /\ AInv => AckSurvives
  BY <1>1
<1> QED
  BY <1>2, AcksInductive, PTL

\* The token a ready session shows between requests, the one a client must name
\* in its next request, is not below the last one acknowledged: a stale client
\* is told so.  After a restart that holds unless a recovery or a follow had
\* committed over the request.
THEOREM ReadyTokensCoverAcks == Spec => []ReadyTokenCoversAck
<1>1. ASSUME IInv, AInv PROVE ReadyTokenCoversAck
  <2> SUFFICES ASSUME Ready, chain = "free", ~(SelectionRevision >= lastAck.tok)
               PROVE  restarts > 0 /\ (RecoveredAfter(log, lastAck) \/ FollowedAfter(log, lastAck))
    BY DEF ReadyTokenCoversAck
  <2>1. lastAck # NoIntent
    <3>1. SelectionRevision \in Nat
      BY <1>1 DEF IInv, TypeOK, TypeOfPublished, TypeOfRequests, SelectionRevision, NoState, Bindings, Entries,
         NoEntry, Entry, NoIntent
    <3> QED
      BY <3>1 DEF NoIntent
  <2>2. Lost
    BY <1>1, <2>1, TokenCovers
  <2>3. log \in Seq(Entries)
    BY <1>1 DEF IInv, TypeOK, TypeOfJournal
  <2> QED
    BY <2>2, <2>3, OvertakenShows DEF Lost
<1>2. IInv /\ AInv => ReadyTokenCoversAck
  BY <1>1
<1> QED
  BY <1>2, AcksInductive, PTL

-----------------------------------------------------------------------------
(* The selection of a turn, and the stops it changes at.                    *)

\* Every request of the session in the log is numbered.
Numbered == \A i \in DOMAIN log : log[i].kind = "intent" /\ log[i].owner = "self" => log[i].tok > 0

\* A pending request, and the transaction a promotion makes of it, are asked for
\* in the log.
Unfinished(p) == Running(p) \/ tx[p].pc = "flushCommitted"
HeldAsked == intents # NoIntent => intents.tok > 0 /\ Asked(intents)
PromotionsAsked ==
    \A p \in Activities : tx[p].kind = "promote" /\ Unfinished(p) => Asked(checkpoint.latest)

\* The stopping hook only promotes, and no turn has a selection while none runs or
\* the session still starts.
StopPromotes == tx["stop"].kind \in {"none", "promote"}
TurnGrants == turn = "none" \/ Active("init") => turnSel = NoSel
StopsAsked == turn = "stopping" /\ Ready /\ turnSel \notin {NoSel, states.sel} => Asked(checkpoint.committed)

TInv == Numbered /\ HeldAsked /\ PromotionsAsked /\ StopPromotes /\ TurnGrants /\ StopsAsked

\* The types the proofs below need.
LEMMA TurnTypes ==
    ASSUME IInv
    PROVE  /\ log \in Seq(Entries) /\ DOMAIN tx = Activities /\ Activities = {"init", "maint", "stop"}
           /\ checkpoint \in Checkpoints /\ SelectionRevision \in Nat
<1>1. log \in Seq(Entries) /\ DOMAIN tx = Activities /\ Activities = {"init", "maint", "stop"}
      /\ checkpoint \in Checkpoints
  BY DEF IInv, TypeOK, TypeOfJournal, TypeOfTransactions, TypeOfPublished, Activities, Checkpoints
<1>2. SelectionRevision \in Nat
  BY DEF SelectionRevision, IInv, TypeOK, TypeOfRequests, TypeOfPublished, NoIntent, NoState, Bindings, Entries, NoEntry,
     Entry
<1> QED
  BY <1>1, <1>2

\* What was asked for stays in the log of a session that does not crash.
LEMMA AskedStays ==
    ASSUME IInv, [Next]_vars, ~Crash, NEW e,
           \E i \in DOMAIN log : log[i].kind = "intent" /\ log[i].owner = "self" /\ Matches(log[i], e)
    PROVE  \E i \in DOMAIN log' : log'[i].kind = "intent" /\ log'[i].owner = "self" /\ Matches(log'[i], e)
<1>1. CASE log' = log
  BY <1>1
<1>2. CASE \E x : log' = Append(log, x)
  <2>1. \A i \in DOMAIN log : i \in DOMAIN log' /\ log'[i] = log[i]
    BY <1>2, TurnTypes
  <2> QED
    BY <2>1
<1>3. ASSUME NEW p \in Activities, Apply(p) PROVE \E x : log' = Append(log, x)
  BY <1>3 DEF Apply
<1> QED
  BY <1>1, <1>2, <1>3, LogSteps

\* Only requests are written as intents, each with a number of its own.
LEMMA NumberedKeeps ==
    ASSUME IInv, Numbered, [Next]_vars
    PROVE  Numbered'
<1>0. log \in Seq(Entries) /\ SelectionRevision \in Nat /\ durable \in Nat
  BY TurnTypes DEF IInv, TypeOK, TypeOfJournal
<1>1. CASE log' = log
  BY <1>1 DEF Numbered
<1>2. ASSUME NEW e, log' = Append(log, e), e.kind = "intent" => e.tok = SelectionRevision + 1
      PROVE  Numbered'
  <2>1. \A i \in DOMAIN log' : (i \in DOMAIN log /\ log'[i] = log[i]) \/ log'[i] = e
    BY <1>0, <1>2
  <2> QED
    BY <1>0, <1>2, <2>1 DEF Numbered
<1>3. ASSUME NEW p \in Activities, Apply(p) PROVE \E e : log' = Append(log, e) /\ e.kind # "intent"
  <2>1. log' = Append(log, [checkpoint.latest EXCEPT !.kind = "committed"])
    BY <1>3 DEF Apply
  <2>2. checkpoint.latest \in Entries
    BY <1>3 DEF Apply, IInv, Linked, TypeOK, TypeOfPublished, Bindings, NoEntry, Entry
  <2>3. [checkpoint.latest EXCEPT !.kind = "committed"].kind = "committed"
    BY <2>2 DEF Entries
  <2> QED
    BY <2>1, <2>3
<1>4. CASE Crash
  <2>1. PICK kept \in durable .. Len(log) : log' = SubSeq(log, 1, kept)
    BY <1>4 DEF Crash
  <2>2. \A i \in DOMAIN log' : i \in DOMAIN log /\ log'[i] = log[i]
    BY <1>0, <2>1
  <2> QED
    BY <2>2 DEF Numbered
<1> QED
  BY <1>1, <1>2, <1>3, <1>4, LogSteps DEF Uncommitted

\* What becomes of the pending request: it stays, is dropped, is a new one that
\* was just written, or is the one a replay finds.
LEMMA IntentSteps ==
    ASSUME [Next]_vars
    PROVE  \/ intents' \in {intents, NoIntent}
           \/ IntentPersisted
           \/ \E p \in Activities : InitReplay(p)
<1>1. ASSUME NEW p \in Activities, TransactionStep(p), ~InitReplay(p) PROVE intents' \in {intents, NoIntent}
  BY <1>1 DEF TransactionStep, FlushPending, FlushPendingFails, Apply, ApplyFails, ApplyAborted, FlushCommitted,
     CommittedThrows, FlushCommittedFails, Rollback, Restore, ReplayFails, Capture, Promote, requests
<1>2. ASSUME NEW sel \in Selections, Request(sel) PROVE intents' = intents
  BY <1>2 DEF Request
<1>3. CASE \/ Created \/ Attach \/ AttachBusy \/ Recover \/ RecoverReplay \/ Follow \/ Change \/ RequestApplied
           \/ RequestRefused \/ IntentFails \/ IdleReached \/ PromoteAfterIdle \/ UserSend
           \/ TurnStart \/ LaterStep \/ TurnStopping \/ TurnEnd \/ Crash \/ Reload \/ UNCHANGED vars
  BY <1>3 DEF Created, Attach, AttachBusy, Recover, RecoverReplay, Follow, Change, RequestApplied, RequestRefused,
     IntentFails, IdleReached, PromoteAfterIdle, UserSend, TurnStart, LaterStep, TurnStopping, TurnEnd,
     Crash, Reload, ForgetMemory, vars, requests
<1> QED
  BY <1>1, <1>2, <1>3 DEF Next

\* What is pending was asked for: a request is in memory only once it is in the log.
LEMMA HeldAskedKeeps ==
    ASSUME IInv, AInv, Numbered, HeldAsked, [Next]_vars
    PROVE  HeldAsked'
<1>0. log \in Seq(Entries)
  BY TurnTypes
<1>1. CASE intents' = NoIntent
  BY <1>1 DEF HeldAsked
<1>2. CASE intents' = intents /\ intents # NoIntent
  <2>1. ~Crash
    BY <1>2 DEF Crash, ForgetMemory
  <2>2. Asked(intents) /\ intents.tok > 0
    BY <1>2 DEF HeldAsked
  <2> QED
    BY <1>2, <2>1, <2>2, AskedStays DEF HeldAsked, Asked
<1>3. CASE IntentPersisted
  <2>1. /\ intents' = [tok |-> req.tok, sel |-> req.sel] /\ log' = log /\ req.tok > 0
        /\ req.mark \in 1 .. Len(log) /\ log[req.mark].kind = "intent" /\ log[req.mark].owner = "self"
        /\ Matches(log[req.mark], req)
    BY <1>3 DEF IntentPersisted, AInv, Serial, InRequest, Flushing
  <2> QED
    BY <1>0, <2>1 DEF HeldAsked, Asked, Matches
<1>4. ASSUME NEW p \in Activities, InitReplay(p), intents' \notin {intents, NoIntent} PROVE HeldAsked'
  <2>1. /\ Replay(log).intent # NoEntry
        /\ intents' = [tok |-> Replay(log).intent.tok, sel |-> Replay(log).intent.sel]
    BY <1>4, Zenon DEF InitReplay
  <2>2. Replay(log).intent = EntryAt(log, LiveIntents(log)) /\ LiveIntents(log) # {}
    BY <2>1 DEF Replay, EntryAt
  <2>3. PICK q \in LiveIntents(log) : EntryAt(log, LiveIntents(log)) = log[q]
    BY <1>0, <2>2, LiveAt
  <2>4. q \in DOMAIN log /\ log[q].kind = "intent" /\ log[q].owner = "self" /\ log[q].tok > 0
    BY <2>3 DEF LiveIntents, Numbered
  <2>5. intents' = [tok |-> log[q].tok, sel |-> log[q].sel]
    BY <2>1, <2>2, <2>3
  <2>6. ~Crash
    BY <1>4 DEF Crash, ForgetMemory
  <2>7. \E i \in DOMAIN log' : log'[i].kind = "intent" /\ log'[i].owner = "self" /\ Matches(log'[i], intents')
    BY <2>4, <2>5, <2>6, AskedStays DEF Matches
  <2> QED
    BY <2>4, <2>5, <2>7 DEF HeldAsked, Asked
<1> QED
  BY <1>1, <1>2, <1>3, <1>4, IntentSteps DEF HeldAsked

\* A transaction that steps leaves the others alone, and keeps its kind until it ends.
LEMMA TransactionMoves ==
    ASSUME IInv, Serial, NEW p \in Activities, TransactionStep(p)
    PROVE  /\ \A q \in Activities : q # p => tx'[q] = tx[q]
           /\ (tx'[p].pc = "none" /\ tx'[p].kind = "none") \/ tx'[p].kind = tx[p].kind
<1>0. DOMAIN tx = Activities /\ tx[p] \in Txs /\ Kinded(tx[p]) /\ NoTx.pc = "none" /\ NoTx.kind = "none"
  BY DEF IInv, TypeOK, TypeOfTransactions, Serial, NoTx
<1>1. ASSUME tx' = [tx EXCEPT ![p] = NoTx]
      PROVE  (\A q \in Activities : q # p => tx'[q] = tx[q]) /\ tx'[p].pc = "none" /\ tx'[p].kind = "none"
  BY <1>0, <1>1
<1>2. ASSUME NEW t, tx' = [tx EXCEPT ![p] = t], t.kind = tx[p].kind
      PROVE  (\A q \in Activities : q # p => tx'[q] = tx[q]) /\ tx'[p].kind = tx[p].kind
  BY <1>0, <1>2
<1>3. ASSUME NEW rev, NEW sel, NEW rec, NEW requested, NEW cp, Begin(p, tx[p].kind, rev, sel, rec, requested, cp)
      PROVE  (\A q \in Activities : q # p => tx'[q] = tx[q]) /\ tx'[p].kind = tx[p].kind
  BY <1>0, <1>3 DEF Begin
<1>4. CASE FlushPending(p) \/ Apply(p) \/ ApplyAborted(p) \/ FlushCommittedFails(p)
  BY <1>0, <1>4 DEF FlushPending, Apply, ApplyAborted, FlushCommittedFails, Txs
<1>5. CASE \/ FlushPendingFails(p) \/ ApplyFails(p) \/ ReplayFails(p) \/ Rollback(p) \/ CommittedThrows(p)
           \/ FlushCommitted(p) \/ Restore(p)
  <2>1. tx' = [tx EXCEPT ![p] = NoTx]
    BY <1>5 DEF FlushPendingFails, ApplyFails, ReplayFails, Rollback, CommittedThrows, FlushCommitted, Restore, Publish,
       Settle, Answer
  <2> QED
    BY <1>1, <2>1
<1>6. CASE InitReplay(p)
  <2>1. \/ tx' = [tx EXCEPT ![p] = NoTx]
        \/ tx' = [tx EXCEPT ![p] = [@ EXCEPT !.pc = "restore", !.rev = Replay(log).latest.rev,
                                             !.sel = Replay(log).latest.sel, !.undo = applied]]
        \/ Begin(p, tx[p].kind, 1, Replay(log).latest.sel, NoRec, 0, CheckpointOf(Replay(log)))
        \/ tx' = [tx EXCEPT ![p].pc = "capture"]
    BY <1>6, Zenon DEF InitReplay, Settle, Answer
  <2>2. ASSUME \/ tx' = [tx EXCEPT ![p] = [@ EXCEPT !.pc = "restore", !.rev = Replay(log).latest.rev,
                                                    !.sel = Replay(log).latest.sel, !.undo = applied]]
               \/ tx' = [tx EXCEPT ![p].pc = "capture"]
        PROVE  (\A q \in Activities : q # p => tx'[q] = tx[q]) /\ tx'[p].kind = tx[p].kind
    BY <1>0, <2>2 DEF Txs
  <2> QED
    BY <1>1, <1>3, <2>1, <2>2
<1>7. CASE Capture(p)
  BY <1>3, <1>7 DEF Capture
<1>8. CASE Promote(p)
  <2>1. tx[p].kind = "promote"
    BY <1>0, <1>8 DEF Promote, Kinded
  <2>2. tx' = [tx EXCEPT ![p] = NoTx] \/ Begin(p, "promote", states.rev + 1, intents.sel, NoRec, intents.tok, checkpoint)
    BY <1>8 DEF Promote
  <2> QED
    BY <1>1, <1>3, <2>1, <2>2
<1> QED
  BY <1>4, <1>5, <1>6, <1>7, <1>8 DEF TransactionStep

\* The steps of the host and of requests that write no transaction.
HostStep ==
    \/ Created \/ Attach \/ AttachBusy \/ Recover \/ Follow
    \/ \E sel \in Selections : Request(sel)
    \/ RequestApplied \/ RequestRefused \/ IntentPersisted \/ IntentFails
    \/ IdleReached \/ PromoteAfterIdle
    \/ UserSend \/ TurnStart \/ LaterStep \/ TurnStopping \/ TurnEnd
    \/ UNCHANGED vars

\* They leave the checkpoint, and start an activity at most: the session start only
\* when the agent is created, and in the stopping hook only a promotion.
LEMMA HostMoves ==
    ASSUME IInv, HostStep
    PROVE  /\ \A q \in Activities : tx'[q] = tx[q] \/ tx'[q].pc \in {"replay", "begin", "queued"}
           /\ tx'["stop"].kind \in {tx["stop"].kind, "promote"}
           /\ Active("init")' => Active("init") \/ Created
           /\ checkpoint' = checkpoint
<1>0. DOMAIN tx = Activities /\ Activities = {"init", "maint", "stop"}
  BY TurnTypes
<1>1. CASE \/ AttachBusy \/ RequestApplied \/ RequestRefused \/ IntentPersisted \/ IntentFails \/ IdleReached \/ UserSend
           \/ LaterStep \/ TurnEnd \/ UNCHANGED vars
  BY <1>0, <1>1 DEF AttachBusy, RequestApplied, RequestRefused, IntentPersisted, IntentFails, IdleReached, UserSend,
     LaterStep, TurnEnd, vars, Active, published
<1>2. CASE Created \/ Attach
  BY <1>0, <1>2 DEF Created, Attach, Initialize, NoTx, Active
<1>3. CASE Recover \/ Follow \/ PromoteAfterIdle \/ TurnStart \/ TurnStopping
  BY <1>0, <1>3 DEF Recover, Follow, PromoteAfterIdle, TurnStart, TurnStopping, NoTx, Active, published
<1>4. ASSUME NEW sel \in Selections, Request(sel)
      PROVE  /\ \A q \in Activities : tx'[q] = tx[q] \/ tx'[q].pc \in {"replay", "begin", "queued"}
             /\ tx'["stop"].kind \in {tx["stop"].kind, "promote"}
             /\ Active("init")' => Active("init") \/ Created
             /\ checkpoint' = checkpoint
  BY <1>0, <1>4 DEF Request, NoTx, Active, published
<1> QED
  BY <1>1, <1>2, <1>3, <1>4 DEF HostStep

\* A recovery and a change run in the maintenance slot, and are no promotions.
LEMMA MaintenanceMoves ==
    ASSUME IInv, Serial, RecoverReplay \/ Change
    PROVE  /\ Active("maint") /\ UNCHANGED <<turn, turnSel>> /\ (Ready' => Ready /\ UNCHANGED <<states, checkpoint>>)
           /\ \A q \in Activities : q # "maint" => tx'[q] = tx[q]
           /\ tx'["maint"].kind # "promote"
           /\ (\E q \in Activities : q # "maint" /\ Busy(q)) => checkpoint' = checkpoint
<1>0. DOMAIN tx = Activities /\ "maint" \in Activities /\ tx["maint"] \in Txs /\ Kinded(tx["maint"]) /\ NoTx.kind = "none"
  BY TurnTypes DEF IInv, TypeOK, TypeOfTransactions, Serial, NoTx
<1>1. CASE RecoverReplay
  <2>1. /\ tx["maint"].kind = "recover" /\ Busy("maint") /\ UNCHANGED <<turn, turnSel, states>>
        /\ unavailable' = TRUE \/ unavailable' = unavailable
    BY <1>1 DEF RecoverReplay, Busy, Fail, host, history
  <2>2. ~Ready /\ ~Ready' /\ \A q \in Activities : Busy(q) => q = "maint"
    BY <1>0, <2>1 DEF IInv, Exclusive, Ready
  <2>3. RecoverySettles \/ RecoveryCaptures \/ RecoveryBegins
    BY <1>1, RecoverReplayCases
  <2>4. (\A q \in Activities : q # "maint" => tx'[q] = tx[q]) /\ tx'["maint"].kind # "promote"
    BY <1>0, <2>1, <2>3 DEF RecoverySettles, RecoveryCaptures, RecoveryBegins, Settle, Answer, Begin, Txs
  <2> QED
    BY <2>1, <2>2, <2>4 DEF Active, Busy
<1>2. CASE Change
  <2>1. /\ tx["maint"].kind \in {"change", "follow"} /\ Active("maint") /\ UNCHANGED <<turn, turnSel, states>>
    BY <1>0, <1>2 DEF Change, Kinded, Active, host, history
  <2>2. CASE Ready /\ states.rev = tx["maint"].rev
    <3>1. /\ unavailable' = TRUE
          /\ Begin("maint", tx["maint"].kind, states.rev + 1, tx["maint"].sel, NoRec, tx["maint"].tok, checkpoint)
      BY <1>2, <2>2 DEF Change, Deny
    <3>2. \A q \in Activities : ~Busy(q)
      BY <2>2 DEF IInv, Exclusive
    <3> QED
      BY <1>0, <2>1, <3>1, <3>2 DEF Begin, Ready
  <2>3. CASE ~(Ready /\ states.rev = tx["maint"].rev)
    BY <1>0, <1>2, <2>1, <2>3 DEF Change, Ready
  <2> QED
    BY <2>1, <2>2, <2>3
<1> QED
  BY <1>1, <1>2

\* The steps that can be taken, in the groups of the lemmas above.
LEMMA StepGroups ==
    ASSUME [Next]_vars
    PROVE  (\E p \in Activities : TransactionStep(p)) \/ HostStep \/ RecoverReplay \/ Change \/ Crash \/ Reload
  BY DEF Next, HostStep

\* A promotion that is written and not finished has just begun, or goes on.
LEMMA PromotionSteps ==
    ASSUME IInv, Serial, [Next]_vars, NEW p \in Activities, tx'[p].kind = "promote", Unfinished(p)'
    PROVE  \/ Promote(p) /\ PromotionDue
           \/ tx[p].kind = "promote" /\ Unfinished(p) /\ ~Crash /\ (checkpoint' = checkpoint \/ Apply(p))
<1>0. /\ DOMAIN tx = Activities /\ tx[p] \in Txs /\ Kinded(tx[p]) /\ tx'[p].pc \in {"flushPending", "apply", "flushCommitted"}
      /\ (Unfinished(p) => Busy(p) /\ ~Ready /\ \A q \in Activities : Busy(q) => q = p)
  BY TurnTypes DEF IInv, TypeOK, TypeOfTransactions, Exclusive, Serial, Unfinished, Running, Busy
<1>1. ~Crash /\ ~Reload
  BY <1>0 DEF Crash, Reload, ForgetMemory, NoTx
<1>2. ASSUME NEW q \in Activities, TransactionStep(q), q # p
      PROVE  tx[p].kind = "promote" /\ Unfinished(p) /\ checkpoint' = checkpoint
  <2>1. tx'[p] = tx[p]
    BY <1>2, TransactionMoves
  <2>2. Unfinished(p) /\ ~Ready /\ ~Busy(q)
    BY <1>0, <1>2, <2>1 DEF Unfinished, Running
  <2>3. Promote(q)
    BY <1>2, <2>2 DEF TransactionStep, FlushPending, FlushPendingFails, Apply, ApplyFails, ApplyAborted, FlushCommitted,
       CommittedThrows, FlushCommittedFails, Rollback, InitReplay, Restore, ReplayFails, Capture, Busy
  <2> QED
    BY <2>1, <2>2, <2>3 DEF Promote, PromotionDue
<1>3. CASE TransactionStep(p)
  <2>1. tx[p].kind = "promote" /\ tx[p].pc \notin {"replay", "capture", "restore"}
    BY <1>0, <1>3, TransactionMoves DEF Kinded, Starts
  <2>2. CASE Promote(p)
    BY <1>0, <2>2 DEF Promote, NoTx
  <2>3. CASE FlushPending(p) \/ Apply(p)
    BY <1>1, <2>1, <2>3 DEF FlushPending, Apply, Unfinished, Running, published
  <2>4. ~(ApplyAborted(p) \/ FlushCommittedFails(p))
    BY <1>0 DEF ApplyAborted, FlushCommittedFails, Txs
  <2>5. ~(FlushPendingFails(p) \/ ApplyFails(p) \/ Rollback(p) \/ CommittedThrows(p) \/ FlushCommitted(p))
    <3>1. tx' # [tx EXCEPT ![p] = NoTx]
      BY <1>0 DEF NoTx
    <3> QED
      BY <3>1 DEF FlushPendingFails, ApplyFails, Rollback, CommittedThrows, FlushCommitted, Publish, Settle, Answer
  <2>6. ~(InitReplay(p) \/ Restore(p) \/ ReplayFails(p) \/ Capture(p))
    BY <2>1 DEF InitReplay, Restore, ReplayFails, Capture
  <2> QED
    BY <1>3, <2>2, <2>3, <2>4, <2>5, <2>6 DEF TransactionStep
<1>4. CASE HostStep
  <2>1. tx'[p] = tx[p] /\ checkpoint' = checkpoint
    BY <1>0, <1>4, HostMoves
  <2> QED
    BY <1>1, <2>1 DEF Unfinished, Running
<1>5. CASE RecoverReplay \/ Change
  <2>1. p # "maint" /\ tx'[p] = tx[p]
    BY <1>5, MaintenanceMoves
  <2>2. Unfinished(p) /\ checkpoint' = checkpoint
    BY <1>0, <1>5, <2>1, MaintenanceMoves DEF Unfinished, Running
  <2> QED
    BY <1>1, <2>1, <2>2
<1> QED
  BY <1>1, <1>2, <1>3, <1>4, <1>5, StepGroups

\* What a promotion commits was asked for: it carries the token and the selection of
\* the request it takes from memory, to its commit.
LEMMA PromotionsAskedKeeps ==
    ASSUME IInv, Serial, HeldAsked, PromotionsAsked, [Next]_vars
    PROVE  PromotionsAsked'
<1> SUFFICES ASSUME NEW p \in Activities, tx'[p].kind = "promote", Unfinished(p)'
             PROVE  Asked(checkpoint.latest)'
  BY DEF PromotionsAsked
<1>1. CASE Promote(p) /\ PromotionDue
  <2>1. intents.tok > 0 /\ Asked(intents) /\ intents.tok \in Nat
    BY <1>1 DEF HeldAsked, PromotionDue, IInv, TypeOK, TypeOfRequests, NoIntent
  <2>2. checkpoint'.latest = Entry("pending", "self", states.rev + 1, intents.tok, intents.sel, NoRec)
    BY <1>1, <2>1 DEF Promote, Begin, Token
  <2>3. Matches(checkpoint'.latest, intents)
    BY <2>2 DEF Matches, Entry
  <2>4. ~Crash
    BY <1>1 DEF Promote, Crash, bounds, ForgetMemory, IInv, TypeOK, TypeOfHistory
  <2>5. \E i \in DOMAIN log' : log'[i].kind = "intent" /\ log'[i].owner = "self" /\ Matches(log'[i], intents)
    BY <2>1, <2>4, AskedStays DEF Asked
  <2> QED
    BY <2>3, <2>5 DEF Asked, Matches
<1>2. CASE tx[p].kind = "promote" /\ Unfinished(p) /\ ~Crash /\ (checkpoint' = checkpoint \/ Apply(p))
  <2>1. Asked(checkpoint.latest)
    BY <1>2 DEF PromotionsAsked
  <2>2. \E i \in DOMAIN log' : log'[i].kind = "intent" /\ log'[i].owner = "self" /\ Matches(log'[i], checkpoint.latest)
    BY <1>2, <2>1, AskedStays DEF Asked
  <2>3. Matches(checkpoint'.latest, checkpoint.latest)
    <3>1. CASE checkpoint' = checkpoint
      BY <3>1 DEF Matches
    <3>2. CASE Apply(p)
      <4>1. checkpoint.latest \in Entries /\ checkpoint \in Checkpoints
        BY <3>2, TurnTypes DEF Apply, IInv, Linked, TypeOK, TypeOfPublished, Bindings, NoEntry, Entry
      <4>2. checkpoint' = [checkpoint EXCEPT !.latest = [checkpoint.latest EXCEPT !.kind = "committed"]]
        BY <3>2 DEF Apply
      <4> QED
        BY <4>1, <4>2 DEF Matches, Entries, Checkpoints
    <3> QED
      BY <1>2, <3>1, <3>2
  <2> QED
    BY <2>2, <2>3 DEF Asked, Matches
<1> QED
  BY <1>1, <1>2, PromotionSteps

\* The stopping hook does nothing but promote.
LEMMA StopPromotesKeeps ==
    ASSUME IInv, Serial, StopPromotes, [Next]_vars
    PROVE  StopPromotes'
<1>0. "stop" \in Activities /\ "stop" # "maint"
  BY DEF Activities
<1>1. ASSUME NEW p \in Activities, TransactionStep(p) PROVE tx'["stop"].kind \in {tx["stop"].kind, "none"}
  BY <1>0, <1>1, TransactionMoves
<1>2. CASE HostStep
  BY <1>2, HostMoves DEF StopPromotes
<1>3. CASE RecoverReplay \/ Change
  BY <1>0, <1>3, MaintenanceMoves DEF StopPromotes
<1>4. CASE Crash \/ Reload
  BY <1>0, <1>4 DEF Crash, Reload, ForgetMemory, NoTx, StopPromotes
<1> QED
  BY <1>1, <1>2, <1>3, <1>4, StepGroups DEF StopPromotes

\* A turn has a selection from its first step, which no session start overlaps, to its end.
LEMMA TurnGrantsKeeps ==
    ASSUME IInv, Serial, TurnGrants, [Next]_vars
    PROVE  TurnGrants'
<1>0. "init" \in Activities /\ (Active("init") => Initializing /\ ~Ready /\ ~TerminalFailure)
  BY DEF Activities, IInv, Hosted, Exclusive, Initializing, TerminalFailure
<1>1. ASSUME NEW p \in Activities, TransactionStep(p) PROVE TurnGrants'
  <2>1. UNCHANGED <<turn, turnSel>>
    BY <1>1 DEF TransactionStep, FlushPending, FlushPendingFails, Apply, ApplyFails, ApplyAborted, FlushCommitted,
       CommittedThrows, FlushCommittedFails, Rollback, InitReplay, Restore, ReplayFails, Capture, Promote, host, history
  <2>2. Active("init")' => Active("init")
    <3>1. p = "init" => Active("init")
      BY <1>1 DEF TransactionStep, FlushPending, FlushPendingFails, Apply, ApplyFails, ApplyAborted, FlushCommitted,
         CommittedThrows, FlushCommittedFails, Rollback, InitReplay, Restore, ReplayFails, Capture, Promote, Active
    <3> QED
      BY <1>0, <1>1, <3>1, TransactionMoves DEF Active
  <2> QED
    BY <2>1, <2>2 DEF TurnGrants
<1>2. CASE HostStep
  <2>1. Active("init")' => Active("init") \/ Created
    BY <1>2, HostMoves
  <2>2. CASE Created
    BY <2>2 DEF Created, IInv, Hosted, TurnGrants, host, history
  <2>3. CASE TurnStart
    BY <1>0, <2>1, <2>3 DEF TurnStart, SlotFree, TurnOver, TurnGrants, Created
  <2>4. CASE LaterStep
    <3>1. Active("init")' <=> Active("init")
      BY <2>4 DEF LaterStep, Active
    <3>2. (Ready \/ TerminalFailure) \/ turnSel' = NoSel
      BY <2>4 DEF LaterStep
    <3>3. turn' = "none" => turnSel' = NoSel
      BY <2>4 DEF LaterStep
    <3> QED
      BY <1>0, <3>1, <3>2, <3>3 DEF TurnGrants
  <2>5. CASE TurnStopping \/ TurnEnd
    BY <2>1, <2>5 DEF TurnStopping, TurnEnd, TurnOver, TurnGrants, Created, history
  <2>6. ASSUME HostStep, ~Created, ~TurnStart, ~LaterStep, ~TurnStopping, ~TurnEnd PROVE UNCHANGED <<turn, turnSel>>
    <3>1. ASSUME NEW sel \in Selections, Request(sel) PROVE UNCHANGED <<turn, turnSel>>
      BY <3>1 DEF Request, host, history
    <3> QED
      BY <2>6, <3>1 DEF HostStep, Attach, AttachBusy, Recover, Follow, RequestApplied, RequestRefused, IntentPersisted,
         IntentFails, IdleReached, PromoteAfterIdle, UserSend, vars, host, history
  <2> QED
    BY <1>2, <2>1, <2>2, <2>3, <2>4, <2>5, <2>6 DEF TurnGrants
<1>3. CASE RecoverReplay \/ Change
  BY <1>0, <1>3, MaintenanceMoves DEF TurnGrants, Active
<1>4. CASE Crash \/ Reload
  BY <1>0, <1>4 DEF Crash, Reload, ForgetMemory, NoTx, TurnGrants, Active, history
<1> QED
  BY <1>1, <1>2, <1>3, <1>4, StepGroups

\* A selection that a stopping turn did not run on was promoted by its stopping hook.
LEMMA StopsAskedKeeps ==
    ASSUME IInv, IInv', Serial, PromotionsAsked, StopPromotes, TurnGrants, StopsAsked, [Next]_vars
    PROVE  StopsAsked'
<1> SUFFICES ASSUME turn' = "stopping", Ready', turnSel' \notin {NoSel, states'.sel}
             PROVE  Asked(checkpoint.committed)'
  BY DEF StopsAsked
<1>0. /\ Activities = {"init", "maint", "stop"} /\ ~Crash /\ ~Reload
      /\ (Active("maint") => turn = "none") /\ checkpoint \in Checkpoints
  BY TurnTypes DEF IInv, Hosted, Crash, Reload, ForgetMemory, Ready
<1>1. CASE /\ turn = "stopping" /\ Ready /\ states' = states /\ turnSel' = turnSel
           /\ checkpoint'.committed = checkpoint.committed
  <2>1. Asked(checkpoint.committed)
    BY <1>1 DEF StopsAsked
  <2> QED
    BY <1>0, <1>1, <2>1, AskedStays DEF Asked
<1>2. ASSUME NEW p \in Activities, FlushCommitted(p) \/ Restore(p) PROVE Asked(checkpoint.committed)'
  <2>1. turn = "stopping" /\ turnSel # NoSel /\ Active(p) /\ Kinded(tx[p]) /\ log' = log
    BY <1>2 DEF FlushCommitted, Restore, Active, Serial, history, journal
  <2>2. p = "stop"
    BY <1>0, <2>1 DEF TurnGrants
  <2>3. FlushCommitted(p) /\ tx[p].kind = "promote" /\ Unfinished(p)
    BY <1>2, <2>1, <2>2 DEF StopPromotes, Restore, FlushCommitted, Kinded, Starts, Unfinished
  <2>4. Asked(checkpoint.latest) /\ checkpoint'.committed = checkpoint.latest
    BY <1>0, <2>3 DEF PromotionsAsked, FlushCommitted, Checkpoints
  <2> QED
    BY <2>1, <2>4 DEF Asked
<1>3. ASSUME NEW p \in Activities, TransactionStep(p), ~FlushCommitted(p), ~Restore(p)
      PROVE  Asked(checkpoint.committed)'
  <2>1. /\ UNCHANGED <<turn, turnSel>>
        /\ Promote(p) /\ ~PromotionDue
    <3>1. Busy(p) \/ Promote(p)
      BY <1>3 DEF TransactionStep, FlushPending, FlushPendingFails, Apply, ApplyFails, ApplyAborted, FlushCommitted,
         CommittedThrows, FlushCommittedFails, Rollback, InitReplay, Restore, ReplayFails, Capture, Busy
    <3>2. ASSUME ~Promote(p) PROVE FALSE
      <4>1. ~Ready
        BY <3>1, <3>2 DEF IInv, Exclusive
      <4>2. unavailable' \in {TRUE, unavailable}
        BY <1>3, <3>2 DEF TransactionStep, FlushPending, FlushPendingFails, Apply, ApplyFails, ApplyAborted,
           CommittedThrows, FlushCommittedFails, Rollback, InitReplay, ReplayFails, Capture, Fail, published
      <4>3. states' = states \/ unavailable' = TRUE
        BY <1>3, <3>2 DEF TransactionStep, FlushPending, FlushPendingFails, Apply, ApplyFails, ApplyAborted,
           CommittedThrows, FlushCommittedFails, Rollback, InitReplay, ReplayFails, Capture, Fail, published
      <4> QED
        BY <4>1, <4>2, <4>3 DEF Ready, IInv, TypeOK, TypeOfPublished
    <3>3. ~PromotionDue
      BY <3>2 DEF Promote, Deny, Ready
    <3> QED
      BY <3>2, <3>3 DEF Promote, history
  <2>2. Ready /\ states' = states /\ checkpoint' = checkpoint
    BY <2>1 DEF Promote, Ready
  <2> QED
    BY <1>1, <2>1, <2>2
<1>4. CASE HostStep
  <2>1. checkpoint' = checkpoint
    BY <1>4, HostMoves
  <2>2. Ready /\ states' = states
    <3>1. ASSUME NEW sel \in Selections, Request(sel) PROVE UNCHANGED <<states, unavailable>>
      BY <3>1 DEF Request, published
    <3>2. ~(Created \/ Attach)
      BY DEF Created, Attach, Initialize, Ready
    <3>3. ASSUME HostStep, ~Created, ~Attach PROVE UNCHANGED <<states, unavailable>>
      BY <3>1, <3>3 DEF HostStep, AttachBusy, Recover, Follow, RequestApplied, RequestRefused, IntentPersisted, IntentFails,
         IdleReached, PromoteAfterIdle, UserSend, TurnStart, LaterStep, TurnStopping, TurnEnd, vars, published
    <3> QED
      BY <1>4, <3>2, <3>3 DEF Ready
  <2>3. ~LaterStep /\ ~TurnEnd /\ ~TurnStopping /\ ~TurnStart
    <3>1. ~TurnStopping
      BY <2>2 DEF TurnStopping, IInv, StepsKeepSelection, history
    <3>2. ~TurnStart
      BY DEF TurnStart, SlotFree, TurnOver, TurnGrants
    <3> QED
      BY <2>2, <3>1, <3>2 DEF LaterStep, TurnEnd, TurnOver
  <2>4. UNCHANGED <<turn, turnSel>>
    <3>1. ASSUME NEW sel \in Selections, Request(sel) PROVE UNCHANGED <<turn, turnSel>>
      BY <3>1 DEF Request, host, history
    <3>2. ~Created
      BY <2>2 DEF Created, Initialize
    <3> QED
      BY <1>4, <2>3, <3>1, <3>2 DEF HostStep, Attach, AttachBusy, Recover, Follow, RequestApplied, RequestRefused, IntentPersisted,
         IntentFails, IdleReached, PromoteAfterIdle, UserSend, vars, host, history
  <2> QED
    BY <1>1, <2>1, <2>2, <2>4
<1>5. CASE RecoverReplay \/ Change
  BY <1>0, <1>5, MaintenanceMoves
<1> QED
  BY <1>0, <1>2, <1>3, <1>4, <1>5, StepGroups

\* Whatever is requested, followed, recovered or promoted meanwhile, a turn changes
\* its selection only at a stop, and then to one a request in the log asked for:
\* beginStep and the maintenance slot keep everything else out of a turn.
THEOREM TurnsSwitchOnlyAtStops == Spec => []SwitchesOnlyAtStops
<1>1. Init => TInv
  <2> SUFFICES ASSUME Init PROVE TInv
    OBVIOUS
  <2>1. \A p \in Activities : tx[p].pc = "none" /\ tx[p].kind = "none"
    BY DEF Init, NoTx
  <2>2. Numbered
    BY ForkedLogsAssumption DEF Init, Numbered
  <2> QED
    BY <2>1, <2>2 DEF TInv, Init, HeldAsked, PromotionsAsked, StopPromotes, TurnGrants, StopsAsked, Unfinished, Running, Activities
<1>2. (IInv /\ AInv) /\ (IInv /\ AInv)' /\ TInv /\ [Next]_vars => TInv'
  <2>1. AInv => Serial
    BY DEF AInv
  <2> QED
    BY <2>1, NumberedKeeps, HeldAskedKeeps, PromotionsAskedKeeps, StopPromotesKeeps, TurnGrantsKeeps, StopsAskedKeeps DEF TInv
<1>3. IInv /\ TInv => SwitchesOnlyAtStops
  BY DEF IInv, TInv, StopsAsked, SwitchesOnlyAtStops
<1> QED
  BY <1>1, <1>2, <1>3, AcksInductive, PTL DEF Spec
=============================================================================
