--------------------------- MODULE SessionJournal ---------------------------
(***************************************************************************)
(* The durable journal of one session's extension selection, and the       *)
(* replay that turns a log back into a checkpoint                          *)
(* (market-runtime/src/runtime/host/extension-session-state.ts).           *)
(*                                                                         *)
(* The code folds the log from its first event and throws                  *)
(* 'extension-session-corrupt' at the first event that does not continue   *)
(* what came before.  Here the same replay is stated event by event:       *)
(* EntryOK(log, i) is what the code requires of event i given the events   *)
(* before it, and the checkpoint is read off the last matching events.     *)
(***************************************************************************)
EXTENDS Naturals, Sequences

CONSTANTS
    Selections,   \* what a session may be granted: captured ids, abstracted
    NoSel         \* no selection at all

ASSUME SelectionsAssumption == NoSel \notin Selections

NoRec == [owner |-> "none", rev |-> 0]

\* The binding and the intent envelopes share one shape; a field the code
\* leaves out of an envelope keeps its neutral value.
Entry(kind, owner, rev, tok, sel, rec) ==
    [kind |-> kind, owner |-> owner, rev |-> rev, tok |-> tok, sel |-> sel, rec |-> rec]

NoEntry == Entry("none", "none", 0, 0, NoSel, NoRec)

Owners == {"none", "self", "parent"}
Recoveries == [owner : Owners, rev : Nat]
Entries == [kind : {"pending", "committed", "intent"}, owner : {"self", "parent"}, rev : Nat,
            tok : Nat, sel : Selections, rec : Recoveries]

LastOf(S) == CHOOSE i \in S : \A j \in S : j <= i
FirstOf(S) == CHOOSE i \in S : \A j \in S : i <= j
EntryAt(log, S) == IF S = {} THEN NoEntry ELSE log[LastOf(S)]

\* Positions of the transaction envelopes and of the committed ones before i.
BindingsBefore(log, i) == {j \in DOMAIN log : j < i /\ log[j].kind \in {"pending", "committed"}}
CommittedBefore(log, i) == {j \in DOMAIN log : j < i /\ log[j].kind = "committed"}

LatestBefore(log, i) == EntryAt(log, BindingsBefore(log, i))
InitialBefore(log, i) ==
    IF BindingsBefore(log, i) = {} THEN NoSel ELSE log[FirstOf(BindingsBefore(log, i))].sel

\* committed?.selection ?? initial
TargetBefore(log, i) ==
    IF CommittedBefore(log, i) # {}
    THEN EntryAt(log, CommittedBefore(log, i)).sel
    ELSE InitialBefore(log, i)

NextRevision(latest, owner) == IF latest.owner = owner THEN latest.rev + 1 ELSE 1

NamesLatest(latest) == [owner |-> latest.owner, rev |-> latest.rev]

\* A pending envelope continues the numbering of its own owner; only a recovery
\* may follow an unfinished transaction, and only to restore the target.
PendingOK(log, i) ==
    LET latest == LatestBefore(log, i) IN
    /\ log[i].rev = NextRevision(latest, log[i].owner)
    /\ IF log[i].rec # NoRec
       THEN /\ latest # NoEntry
            /\ log[i].rec = NamesLatest(latest)
            /\ log[i].sel = TargetBefore(log, i)
       ELSE latest.kind # "pending"

\* A committed envelope is the twin of the pending envelope right before it.
CommittedOK(log, i) ==
    LET latest == LatestBefore(log, i) IN
    /\ latest.kind = "pending"
    /\ log[i] = [latest EXCEPT !.kind = "committed"]

EntryOK(log, i, inherited) ==
    /\ i > inherited => log[i].owner = "self"
    /\ log[i].kind = "pending" => PendingOK(log, i)
    /\ log[i].kind = "committed" => CommittedOK(log, i)

\* The log replays without 'extension-session-corrupt'.
Replayable(log, inherited) == \A i \in DOMAIN log : EntryOK(log, i, inherited)

\* A request written before the newest commit was superseded by it, and a
\* request inherited through a fork belongs to the session that made it.
LiveIntents(log) ==
    {j \in DOMAIN log : /\ log[j].kind = "intent"
                        /\ log[j].owner = "self"
                        /\ \A k \in CommittedBefore(log, Len(log) + 1) : k < j}

Replay(log) ==
    LET end == Len(log) + 1 IN
    [latest |-> LatestBefore(log, end),
     committed |-> EntryAt(log, CommittedBefore(log, end)),
     initial |-> InitialBefore(log, end),
     intent |-> EntryAt(log, LiveIntents(log))]
=============================================================================
