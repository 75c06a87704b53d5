---------------------- MODULE ExtensionInventoryProofs ----------------------
(***************************************************************************)
(* A revocation is seen by the next call, for any number of overlapping    *)
(* refreshes, changes of the catalog and failures.  A read is published    *)
(* only in the epoch it began in, and one of the current epoch began after *)
(* the change that opened it; so what is cached and not stale is no older  *)
(* than the last revocation.  And a denial is never permanent: who carries *)
(* a denied agent hands it on before it ends, whatever it ends by.         *)
(***************************************************************************)
EXTENDS ExtensionInventory, TLAPS

\* A read that is under way, or none: it is of some epoch so far, and one of
\* the current epoch began after the change that opened it.
Begun(read) ==
    /\ read.epoch \in Int /\ read.epoch <= epoch
    /\ read.epoch = epoch => read.version \in seen..version

Counted == version \in Nat /\ epoch \in Nat /\ seen \in 0..version

\* Who reads holds the read it has begun.
Shaped ==
    /\ DOMAIN task = Tasks /\ \A t \in Tasks : "read" \in DOMAIN task[t]
    /\ "read" \in DOMAIN commit

ReadsBegun == (\A t \in Tasks : Begun(task[t].read)) /\ Begun(commit.read) /\ Begun(window.read)

\* What is cached and not stale is as new as the last revocation.
CacheCurrent == ~stale => resources = None \/ resources \in seen..version

IInv == Counted /\ Shaped /\ ReadsBegun /\ CacheCurrent

\* No read has an epoch before the first.
LEMMA ReadingBegun == Counted => Begun(Reading) /\ Begun(NoRead)
  BY DEF Counted, Begun, Reading, NoRead, None

LEMMA InitHolds == Init => IInv
<1> SUFFICES ASSUME Init PROVE IInv
  OBVIOUS
<1>1. Counted
  BY DEF Init, Counted
<1>2. commit.read = Reading /\ window.read = NoRead /\ \A t \in Tasks : task[t].read = NoRead
  BY DEF Init, NoCommit, NoWindow, NoTask
<1>3. ReadsBegun
  BY <1>1, <1>2, ReadingBegun DEF ReadsBegun
<1>4. Shaped
  BY DEF Init, Shaped, NoTask, NoCommit
<1>5. CacheCurrent
  BY DEF Init, CacheCurrent
<1>6. QED
  BY <1>1, <1>3, <1>4, <1>5 DEF IInv

-----------------------------------------------------------------------------
(* What a step does to the reads and to the cache                          *)

\* After the step, a reader holds the read it held, none, or one that the
\* step began.
Follows(after, before) == after = before \/ after = NoRead \/ after = Reading
TasksFollow ==
    /\ DOMAIN task' = Tasks
    /\ \A t \in Tasks : "read" \in DOMAIN task'[t] /\ Follows(task'[t].read, task[t].read)
CommitFollows == "read" \in DOMAIN commit' /\ Follows(commit'.read, commit.read)
WindowFollows == Follows(window'.read, window.read)
ClockStands == UNCHANGED <<version, epoch, seen>>

LEMMA ReadsFollow ==
    ASSUME IInv, ClockStands, TasksFollow, CommitFollows, WindowFollows, CacheCurrent'
    PROVE  IInv'
<1>1. Counted' /\ \A read : Begun(read)' <=> Begun(read)
  BY DEF IInv, Counted, ClockStands, Begun
<1>2. Begun(Reading) /\ Begun(NoRead)
  BY ReadingBegun DEF IInv
<1>3. ASSUME NEW after, NEW before, Begun(before), Follows(after, before)
      PROVE  Begun(after)
  BY <1>2, <1>3 DEF Follows
<1>4. ReadsBegun'
  BY <1>1, <1>3 DEF IInv, ReadsBegun, TasksFollow, CommitFollows, WindowFollows, Begun
<1>5. Shaped'
  BY DEF Shaped, TasksFollow, CommitFollows
<1>6. QED
  BY <1>1, <1>4, <1>5 DEF IInv

LEMMA StandingStill ==
    ASSUME Shaped
    PROVE  /\ UNCHANGED task => TasksFollow
           /\ UNCHANGED commit => CommitFollows
           /\ UNCHANGED window => WindowFollows
  BY DEF Shaped, TasksFollow, CommitFollows, WindowFollows, Follows

\* A call that begins, ends, or repeats holds no read.
LEMMA SpawnFollows == ASSUME Shaped, NEW outer, Spawn(outer) PROVE TasksFollow
  BY DEF Shaped, Spawn, Calls, NoTask, TasksFollow, Follows

LEMMA EndCallFollows ==
    ASSUME Shaped, NEW t \in Tasks, NEW arms, EndCall(t, arms) PROVE TasksFollow
<1> DEFINE repeats == ~disposed /\ dirty' /\ task[t].epoch # None /\ task[t].epoch # epoch
<1>1. task' = [task EXCEPT ![t] = IF repeats THEN Calls(@.outer) ELSE NoTask]
  BY DEF EndCall
<1>2. \A outer : "read" \in DOMAIN Calls(outer) /\ Calls(outer).read = NoRead
  BY DEF Calls, NoTask
<1>3. "read" \in DOMAIN NoTask /\ NoTask.read = NoRead
  BY DEF NoTask
<1> HIDE DEF repeats
<1>4. QED
  BY <1>1, <1>2, <1>3 DEF Shaped, TasksFollow, Follows

LEMMA LeavingFollows ==
    ASSUME Shaped, NEW t \in Tasks, task' = [task EXCEPT ![t] = NoTask] PROVE TasksFollow
  BY DEF Shaped, TasksFollow, Follows, NoTask

LEMMA ResumeFollows == ASSUME Shaped, NEW ok, Resume(ok) PROVE TasksFollow
  BY EndCallFollows, StandingStill DEF Resume

LEMMA CacheStands ==
    ASSUME IInv, ClockStands, UNCHANGED <<resources, stale>> PROVE CacheCurrent'
  BY DEF IInv, CacheCurrent, ClockStands

LEMMA BeginReadKeeps ==
    ASSUME IInv, ClockStands, NEW reader, BeginRead(reader) PROVE CacheCurrent'
  BY CacheStands DEF BeginRead

\* A read that ends is published only in its own epoch.
LEMMA EndReadKeeps ==
    ASSUME IInv, ClockStands, NEW reader, NEW read, Begun(read), EndRead(reader, read)
    PROVE  CacheCurrent'
<1>1. CASE Publishes(reader, read)
  BY <1>1 DEF EndRead, Publishes, Begun, CacheCurrent, Counted, ClockStands
<1>2. CASE ~Publishes(reader, read)
  BY <1>2, CacheStands DEF EndRead
<1>3. QED
  BY <1>1, <1>2

LEMMA FailReadKeeps ==
    ASSUME IInv, ClockStands, NEW reader, NEW read, Begun(read), FailRead(reader, read)
    PROVE  CacheCurrent'
  BY EndReadKeeps, CacheStands DEF FailRead, cache

-----------------------------------------------------------------------------
(* The steps                                                               *)

\* A change that is not announced yet makes the catalog younger only.
LEMMA ChangesKeeps == IInv /\ Changes => IInv'
<1> SUFFICES ASSUME IInv, Changes PROVE IInv'
  OBVIOUS
<1>1. UNCHANGED <<epoch, seen, resources, stale, task, commit, window>> /\ version' = version + 1
  BY DEF Changes, cache, retry
<1>2. Counted'
  BY <1>1 DEF IInv, Counted
<1>3. \A read : Begun(read) => Begun(read)'
  BY <1>1 DEF IInv, Counted, Begun
<1>4. ReadsBegun' /\ Shaped' /\ CacheCurrent'
  BY <1>1, <1>3 DEF IInv, Counted, ReadsBegun, Begun, Shaped, CacheCurrent
<1>5. QED
  BY <1>2, <1>4 DEF IInv

\* The announcement opens an epoch that no read has begun in.
LEMMA OnChangedKeeps == IInv /\ OnChanged => IInv'
<1> SUFFICES ASSUME IInv, OnChanged PROVE IInv'
  OBVIOUS
<1>1. /\ UNCHANGED <<version, task, commit, window>>
      /\ epoch' = epoch + 1 /\ seen' = version /\ stale' = TRUE
  BY DEF OnChanged, Invalidate, retry
<1>2. Counted'
  BY <1>1 DEF IInv, Counted
<1>3. \A read : Begun(read) => Begun(read)'
  BY <1>1 DEF IInv, Counted, Begun
<1>4. ReadsBegun' /\ Shaped' /\ CacheCurrent'
  BY <1>1, <1>3 DEF IInv, ReadsBegun, Begun, Shaped, CacheCurrent
<1>5. QED
  BY <1>2, <1>4 DEF IInv

LEMMA RefreshAllKeeps == ASSUME IInv, RefreshAll PROVE IInv'
<1>1. ClockStands /\ Shaped
  BY DEF IInv, RefreshAll, ClockStands, catalog
<1>2. TasksFollow
  BY <1>1, SpawnFollows DEF RefreshAll
<1>3. CommitFollows
  BY <1>1, StandingStill DEF RefreshAll
<1>4. WindowFollows
  BY <1>1, StandingStill DEF RefreshAll
<1>5. CacheCurrent'
  BY <1>1, CacheStands DEF RefreshAll, cache
<1>6. QED
  BY <1>1, <1>2, <1>3, <1>4, <1>5, ReadsFollow

LEMMA TimerFiresKeeps == ASSUME IInv, TimerFires PROVE IInv'
<1>1. ClockStands /\ Shaped
  BY DEF IInv, TimerFires, ClockStands, catalog
<1>2. TasksFollow
  BY <1>1, SpawnFollows DEF TimerFires
<1>3. CommitFollows
  BY <1>1, StandingStill DEF TimerFires
<1>4. WindowFollows
  BY <1>1, StandingStill DEF TimerFires
<1>5. CacheCurrent'
  BY <1>1, CacheStands DEF TimerFires, cache
<1>6. QED
  BY <1>1, <1>2, <1>3, <1>4, <1>5, ReadsFollow

LEMMA CallSkipsKeeps == ASSUME IInv, NEW t \in Tasks, CallSkips(t) PROVE IInv'
<1>1. ClockStands /\ Shaped
  BY DEF IInv, CallSkips, ClockStands, catalog
<1>2. TasksFollow
  BY <1>1, EndCallFollows DEF CallSkips
<1>3. CommitFollows
  BY <1>1, StandingStill DEF CallSkips
<1>4. WindowFollows
  BY <1>1, StandingStill DEF CallSkips
<1>5. CacheCurrent'
  BY <1>1, CacheStands DEF CallSkips, cache
<1>6. QED
  BY <1>1, <1>2, <1>3, <1>4, <1>5, ReadsFollow

LEMMA CallBusyKeeps == ASSUME IInv, NEW t \in Tasks, CallBusy(t) PROVE IInv'
<1>1. ClockStands /\ Shaped
  BY DEF IInv, CallBusy, ClockStands, catalog
<1>2. TasksFollow
  BY <1>1 DEF CallBusy, Shaped, TasksFollow, Follows
<1>3. CommitFollows
  BY <1>1, StandingStill DEF CallBusy
<1>4. WindowFollows
  BY <1>1, StandingStill DEF CallBusy
<1>5. CacheCurrent'
  BY <1>1, BeginReadKeeps DEF CallBusy
<1>6. QED
  BY <1>1, <1>2, <1>3, <1>4, <1>5, ReadsFollow

LEMMA BusyReadEndsKeeps == ASSUME IInv, NEW t \in Tasks, BusyReadEnds(t) PROVE IInv'
<1>1. ClockStands /\ Shaped
  BY DEF IInv, BusyReadEnds, ClockStands, catalog
<1>2. TasksFollow
  BY <1>1 DEF BusyReadEnds, Shaped, TasksFollow, Follows
<1>3. CommitFollows
  BY <1>1, StandingStill DEF BusyReadEnds
<1>4. WindowFollows
  BY <1>1, StandingStill DEF BusyReadEnds
<1>5. CacheCurrent'
  BY <1>1, EndReadKeeps, FailReadKeeps DEF BusyReadEnds, IInv, ReadsBegun
<1>6. QED
  BY <1>1, <1>2, <1>3, <1>4, <1>5, ReadsFollow

LEMMA BecomesIdleKeeps == ASSUME IInv, NEW t \in Tasks, BecomesIdle(t) PROVE IInv'
<1>1. ClockStands /\ Shaped
  BY DEF IInv, BecomesIdle, ClockStands, catalog
<1>2. TasksFollow
  BY <1>1 DEF BecomesIdle, Shaped, TasksFollow, Follows, Calls, NoTask
<1>3. CommitFollows
  BY <1>1, StandingStill DEF BecomesIdle
<1>4. WindowFollows
  BY <1>1, StandingStill DEF BecomesIdle
<1>5. CacheCurrent'
  BY <1>1, CacheStands DEF BecomesIdle, cache
<1>6. QED
  BY <1>1, <1>2, <1>3, <1>4, <1>5, ReadsFollow

LEMMA CallUnreadyKeeps == ASSUME IInv, NEW t \in Tasks, CallUnready(t) PROVE IInv'
<1>1. ClockStands /\ Shaped
  BY DEF IInv, CallUnready, ClockStands, catalog
<1>2. TasksFollow
  BY <1>1, EndCallFollows DEF CallUnready
<1>3. CommitFollows
  BY <1>1, StandingStill DEF CallUnready
<1>4. WindowFollows
  BY <1>1, StandingStill DEF CallUnready
<1>5. CacheCurrent'
  BY <1>1, CacheStands DEF CallUnready, cache
<1>6. QED
  BY <1>1, <1>2, <1>3, <1>4, <1>5, ReadsFollow

LEMMA CallReadsKeeps == ASSUME IInv, NEW t \in Tasks, CallReads(t) PROVE IInv'
<1>1. ClockStands /\ Shaped
  BY DEF IInv, CallReads, ClockStands, catalog
<1>2. TasksFollow
  BY <1>1 DEF CallReads, Shaped, TasksFollow, Follows
<1>3. CommitFollows
  BY <1>1, StandingStill DEF CallReads
<1>4. WindowFollows
  BY <1>1, StandingStill DEF CallReads
<1>5. CacheCurrent'
  BY <1>1, BeginReadKeeps DEF CallReads
<1>6. QED
  BY <1>1, <1>2, <1>3, <1>4, <1>5, ReadsFollow

LEMMA TaskReadsKeeps == ASSUME IInv, NEW t \in Tasks, TaskReads(t) PROVE IInv'
<1>1. ClockStands /\ Shaped
  BY DEF IInv, TaskReads, ClockStands, catalog
<1>2. TasksFollow
  BY <1>1, EndCallFollows DEF TaskReads, Shaped, TasksFollow, Follows
<1>3. CommitFollows
  BY <1>1, StandingStill DEF TaskReads
<1>4. WindowFollows
  BY <1>1, StandingStill DEF TaskReads
<1>5. CacheCurrent'
  BY <1>1, EndReadKeeps DEF TaskReads, IInv, ReadsBegun
<1>6. QED
  BY <1>1, <1>2, <1>3, <1>4, <1>5, ReadsFollow

LEMMA TaskAppliesKeeps == ASSUME IInv, NEW t \in Tasks, TaskApplies(t) PROVE IInv'
<1>1. ClockStands /\ Shaped
  BY DEF IInv, TaskApplies, ClockStands, catalog
<1>2. TasksFollow
  BY <1>1, EndCallFollows, LeavingFollows DEF TaskApplies
<1>3. CommitFollows
  BY <1>1, StandingStill DEF TaskApplies
<1>4. WindowFollows
  BY <1>1, StandingStill DEF TaskApplies
<1>5. CacheCurrent'
  BY <1>1, CacheStands DEF TaskApplies, cache
<1>6. QED
  BY <1>1, <1>2, <1>3, <1>4, <1>5, ReadsFollow

LEMMA TaskFailsKeeps == ASSUME IInv, NEW t \in Tasks, TaskFails(t) PROVE IInv'
<1>1. ClockStands /\ Shaped
  BY DEF IInv, TaskFails, ClockStands, catalog
<1>2. TasksFollow
  BY <1>1, EndCallFollows DEF TaskFails
<1>3. CommitFollows
  BY <1>1, StandingStill DEF TaskFails
<1>4. WindowFollows
  BY <1>1, StandingStill DEF TaskFails
<1>5. CacheCurrent'
  BY <1>1, FailReadKeeps, CacheStands DEF TaskFails, IInv, ReadsBegun, cache
<1>6. QED
  BY <1>1, <1>2, <1>3, <1>4, <1>5, ReadsFollow

LEMMA FollowCommitsKeeps == ASSUME IInv, NEW t \in Tasks, FollowCommits(t) PROVE IInv'
<1>1. ClockStands /\ Shaped
  BY DEF IInv, FollowCommits, ClockStands, catalog
<1>2. TasksFollow
  BY <1>1 DEF FollowCommits, Shaped, TasksFollow, Follows
<1>3. CommitFollows
  BY <1>1 DEF FollowCommits, CommitFollows, Follows, NoCommit
<1>4. WindowFollows
  BY <1>1, StandingStill DEF FollowCommits
<1>5. CacheCurrent'
  BY <1>1, BeginReadKeeps DEF FollowCommits
<1>6. QED
  BY <1>1, <1>2, <1>3, <1>4, <1>5, ReadsFollow

LEMMA FollowFailsKeeps == ASSUME IInv, NEW t \in Tasks, FollowFails(t) PROVE IInv'
<1>1. ClockStands /\ Shaped
  BY DEF IInv, FollowFails, ClockStands, catalog
<1>2. TasksFollow
  BY <1>1, EndCallFollows, LeavingFollows DEF FollowFails
<1>3. CommitFollows
  BY <1>1, StandingStill DEF FollowFails
<1>4. WindowFollows
  BY <1>1, StandingStill DEF FollowFails
<1>5. CacheCurrent'
  BY <1>1, CacheStands DEF FollowFails, cache
<1>6. QED
  BY <1>1, <1>2, <1>3, <1>4, <1>5, ReadsFollow

LEMMA SelectKeeps == ASSUME IInv, NEW default \in BOOLEAN, Select(default) PROVE IInv'
<1>1. ClockStands /\ Shaped
  BY DEF IInv, Select, ClockStands, catalog
<1>2. TasksFollow
  BY <1>1, StandingStill DEF Select, retry
<1>3. CommitFollows
  BY <1>1 DEF Select, CommitFollows, Follows, NoCommit
<1>4. WindowFollows
  BY <1>1, StandingStill DEF Select
<1>5. CacheCurrent'
  BY <1>1, BeginReadKeeps DEF Select
<1>6. QED
  BY <1>1, <1>2, <1>3, <1>4, <1>5, ReadsFollow

LEMMA CapturesKeeps == ASSUME IInv, Captures PROVE IInv'
<1>1. ClockStands /\ Shaped
  BY DEF IInv, Captures, ClockStands, catalog
<1>2. TasksFollow
  BY <1>1, StandingStill DEF Captures, retry
<1>3. CommitFollows
  BY <1>1 DEF Captures, Shaped, CommitFollows, Follows
<1>4. WindowFollows
  BY <1>1, StandingStill DEF Captures
<1>5. CacheCurrent'
  BY <1>1, EndReadKeeps DEF Captures, IInv, ReadsBegun
<1>6. QED
  BY <1>1, <1>2, <1>3, <1>4, <1>5, ReadsFollow

LEMMA CommitStartsKeeps == ASSUME IInv, CommitStarts PROVE IInv'
<1>1. ClockStands /\ Shaped
  BY DEF IInv, CommitStarts, ClockStands, catalog
<1>2. TasksFollow
  BY <1>1, StandingStill DEF CommitStarts, retry
<1>3. CommitFollows
  BY <1>1 DEF CommitStarts, Shaped, CommitFollows, Follows
<1>4. WindowFollows
  BY <1>1, StandingStill DEF CommitStarts
<1>5. CacheCurrent'
  BY <1>1, BeginReadKeeps DEF CommitStarts
<1>6. QED
  BY <1>1, <1>2, <1>3, <1>4, <1>5, ReadsFollow

LEMMA CommitReadsKeeps == ASSUME IInv, CommitReads PROVE IInv'
<1>1. ClockStands /\ Shaped
  BY DEF IInv, CommitReads, ClockStands, catalog
<1>2. TasksFollow
  BY <1>1, StandingStill DEF CommitReads, retry
<1>3. CommitFollows
  BY <1>1 DEF CommitReads, Shaped, CommitFollows, Follows
<1>4. WindowFollows
  BY <1>1, StandingStill DEF CommitReads
<1>5. CacheCurrent'
  BY <1>1, EndReadKeeps DEF CommitReads, IInv, ReadsBegun
<1>6. QED
  BY <1>1, <1>2, <1>3, <1>4, <1>5, ReadsFollow

LEMMA CommitAppliesKeeps == ASSUME IInv, CommitApplies PROVE IInv'
<1>1. ClockStands /\ Shaped
  BY DEF IInv, CommitApplies, ClockStands, catalog
<1>2. TasksFollow
  BY <1>1, StandingStill DEF CommitApplies, retry
<1>3. CommitFollows
  BY <1>1 DEF CommitApplies, Shaped, CommitFollows, Follows
<1>4. WindowFollows
  BY <1>1, StandingStill DEF CommitApplies
<1>5. CacheCurrent'
  BY <1>1, CacheStands DEF CommitApplies, cache
<1>6. QED
  BY <1>1, <1>2, <1>3, <1>4, <1>5, ReadsFollow

LEMMA CommitPublishesKeeps == ASSUME IInv, CommitPublishes PROVE IInv'
<1>1. ClockStands /\ Shaped
  BY DEF IInv, CommitPublishes, ClockStands, catalog
<1>2. TasksFollow
  BY <1>1, ResumeFollows DEF CommitPublishes
<1>3. CommitFollows
  BY <1>1 DEF CommitPublishes, CommitFollows, Follows, NoCommit
<1>4. WindowFollows
  BY <1>1, StandingStill DEF CommitPublishes, WindowFollows, Follows
<1>5. CacheCurrent'
  BY <1>1, BeginReadKeeps, CacheStands DEF CommitPublishes, cache
<1>6. QED
  BY <1>1, <1>2, <1>3, <1>4, <1>5, ReadsFollow

LEMMA CommitFailsKeeps == ASSUME IInv, CommitFails PROVE IInv'
<1>1. ClockStands /\ Shaped
  BY DEF IInv, CommitFails, ClockStands, catalog
<1>2. TasksFollow
  BY <1>1, ResumeFollows DEF CommitFails
<1>3. CommitFollows
  BY <1>1 DEF CommitFails, CommitFollows, Follows, NoCommit
<1>4. WindowFollows
  BY <1>1, StandingStill DEF CommitFails
<1>5. CacheCurrent'
  BY <1>1, FailReadKeeps, CacheStands DEF CommitFails, IInv, ReadsBegun, cache
<1>6. QED
  BY <1>1, <1>2, <1>3, <1>4, <1>5, ReadsFollow

LEMMA RecoverReadyKeeps == ASSUME IInv, RecoverReady PROVE IInv'
<1>1. ClockStands /\ Shaped
  BY DEF IInv, RecoverReady, ClockStands, catalog
<1>2. TasksFollow
  BY <1>1, SpawnFollows DEF RecoverReady
<1>3. CommitFollows
  BY <1>1, StandingStill DEF RecoverReady
<1>4. WindowFollows
  BY <1>1, StandingStill DEF RecoverReady
<1>5. CacheCurrent'
  BY <1>1, CacheStands DEF RecoverReady, cache
<1>6. QED
  BY <1>1, <1>2, <1>3, <1>4, <1>5, ReadsFollow

LEMMA RecoverUnreadyKeeps == ASSUME IInv, RecoverUnready PROVE IInv'
<1>1. ClockStands /\ Shaped
  BY DEF IInv, RecoverUnready, ClockStands, catalog
<1>2. TasksFollow
  BY <1>1, StandingStill DEF RecoverUnready, retry
<1>3. CommitFollows
  BY <1>1 DEF RecoverUnready, CommitFollows, Follows, NoCommit
<1>4. WindowFollows
  BY <1>1, StandingStill DEF RecoverUnready
<1>5. CacheCurrent'
  BY <1>1, BeginReadKeeps DEF RecoverUnready
<1>6. QED
  BY <1>1, <1>2, <1>3, <1>4, <1>5, ReadsFollow

LEMMA RecoveryRereadsKeeps == ASSUME IInv, RecoveryRereads PROVE IInv'
<1>1. ClockStands /\ Shaped
  BY DEF IInv, RecoveryRereads, ClockStands, catalog
<1>2. TasksFollow
  BY <1>1, SpawnFollows, StandingStill DEF RecoveryRereads
<1>3. CommitFollows
  BY <1>1, StandingStill DEF RecoveryRereads
<1>4. WindowFollows
  BY <1>1 DEF RecoveryRereads, WindowFollows, Follows, NoWindow
<1>5. CacheCurrent'
  BY <1>1, EndReadKeeps, FailReadKeeps DEF RecoveryRereads, IInv, ReadsBegun
<1>6. QED
  BY <1>1, <1>2, <1>3, <1>4, <1>5, ReadsFollow

LEMMA WindowReadsKeeps == ASSUME IInv, WindowReads PROVE IInv'
<1>1. ClockStands /\ Shaped
  BY DEF IInv, WindowReads, ClockStands, catalog
<1>2. TasksFollow
  BY <1>1, StandingStill DEF WindowReads, retry
<1>3. CommitFollows
  BY <1>1, StandingStill DEF WindowReads
<1>4. WindowFollows
  BY <1>1 DEF WindowReads, WindowFollows, Follows
<1>5. CacheCurrent'
  BY <1>1, BeginReadKeeps DEF WindowReads
<1>6. QED
  BY <1>1, <1>2, <1>3, <1>4, <1>5, ReadsFollow

LEMMA WindowAnswersKeeps == ASSUME IInv, WindowAnswers PROVE IInv'
<1>1. ClockStands /\ Shaped
  BY DEF IInv, WindowAnswers, ClockStands, catalog
<1>2. TasksFollow
  BY <1>1, StandingStill DEF WindowAnswers, retry
<1>3. CommitFollows
  BY <1>1, StandingStill DEF WindowAnswers
<1>4. WindowFollows
  BY <1>1 DEF WindowAnswers, WindowFollows, Follows, NoWindow
<1>5. CacheCurrent'
  BY <1>1, EndReadKeeps, FailReadKeeps DEF WindowAnswers, IInv, ReadsBegun
<1>6. QED
  BY <1>1, <1>2, <1>3, <1>4, <1>5, ReadsFollow

LEMMA TurnBeginsKeeps == ASSUME IInv, TurnBegins PROVE IInv'
<1>1. ClockStands /\ Shaped
  BY DEF IInv, TurnBegins, ClockStands, catalog
<1>2. TasksFollow
  BY <1>1, StandingStill DEF TurnBegins, retry
<1>3. CommitFollows
  BY <1>1, StandingStill DEF TurnBegins
<1>4. WindowFollows
  BY <1>1, StandingStill DEF TurnBegins
<1>5. CacheCurrent'
  BY <1>1, CacheStands DEF TurnBegins, cache
<1>6. QED
  BY <1>1, <1>2, <1>3, <1>4, <1>5, ReadsFollow

LEMMA TurnEndsKeeps == ASSUME IInv, TurnEnds PROVE IInv'
<1>1. ClockStands /\ Shaped
  BY DEF IInv, TurnEnds, ClockStands, catalog
<1>2. TasksFollow
  BY <1>1, StandingStill DEF TurnEnds, retry
<1>3. CommitFollows
  BY <1>1, StandingStill DEF TurnEnds
<1>4. WindowFollows
  BY <1>1, StandingStill DEF TurnEnds
<1>5. CacheCurrent'
  BY <1>1, CacheStands DEF TurnEnds, cache
<1>6. QED
  BY <1>1, <1>2, <1>3, <1>4, <1>5, ReadsFollow

LEMMA DisposeKeeps == ASSUME IInv, Dispose PROVE IInv'
<1>1. ClockStands /\ Shaped
  BY DEF IInv, Dispose, ClockStands, catalog
<1>2. TasksFollow
  BY <1>1, StandingStill DEF Dispose, retry
<1>3. CommitFollows
  BY <1>1, StandingStill DEF Dispose
<1>4. WindowFollows
  BY <1>1, StandingStill DEF Dispose
<1>5. CacheCurrent'
  BY <1>1, CacheStands DEF Dispose, cache
<1>6. QED
  BY <1>1, <1>2, <1>3, <1>4, <1>5, ReadsFollow

LEMMA DisposedKeeps == ASSUME IInv, Disposed PROVE IInv'
<1>1. ClockStands /\ Shaped
  BY DEF IInv, Disposed, ClockStands, catalog
<1>2. TasksFollow
  BY <1>1, StandingStill DEF Disposed, retry
<1>3. CommitFollows
  BY <1>1, StandingStill DEF Disposed
<1>4. WindowFollows
  BY <1>1, StandingStill DEF Disposed
<1>5. CacheCurrent'
  BY <1>1 DEF Disposed, CacheCurrent
<1>6. QED
  BY <1>1, <1>2, <1>3, <1>4, <1>5, ReadsFollow

-----------------------------------------------------------------------------

LEMMA StutterKeeps == IInv /\ UNCHANGED vars => IInv'
<1> SUFFICES ASSUME IInv, UNCHANGED vars PROVE IInv'
  OBVIOUS
<1>1. ClockStands /\ Shaped /\ UNCHANGED <<task, commit, window, resources, stale>>
  BY DEF IInv, ClockStands, vars, catalog, retry, cache
<1>2. QED
  BY <1>1, StandingStill, CacheStands, ReadsFollow

LEMMA StepHolds == IInv /\ [Next]_vars => IInv'
<1> SUFFICES ASSUME IInv, [Next]_vars PROVE IInv'
  OBVIOUS
<1>1. CASE UNCHANGED vars
  BY <1>1, StutterKeeps
<1>2. CASE Changes \/ OnChanged \/ RefreshAll \/ TimerFires
  BY <1>2, ChangesKeeps, OnChangedKeeps, RefreshAllKeeps, TimerFiresKeeps
<1>3. ASSUME NEW t \in Tasks, TaskStep(t) PROVE IInv'
  BY <1>3, CallSkipsKeeps, CallBusyKeeps, CallUnreadyKeeps, CallReadsKeeps, BusyReadEndsKeeps, TaskReadsKeeps,
     TaskAppliesKeeps, FollowFailsKeeps DEF TaskStep
<1>4. ASSUME NEW t \in Tasks, BecomesIdle(t) \/ FollowCommits(t) \/ TaskFails(t) PROVE IInv'
  BY <1>4, BecomesIdleKeeps, FollowCommitsKeeps, TaskFailsKeeps
<1>5. CASE CommitStep
  BY <1>5, CapturesKeeps, CommitStartsKeeps, CommitReadsKeeps, CommitAppliesKeeps, CommitPublishesKeeps,
     RecoveryRereadsKeeps DEF CommitStep
<1>6. CASE CommitFails \/ RecoverReady \/ RecoverUnready \/ \E d \in BOOLEAN : Select(d)
  BY <1>6, CommitFailsKeeps, RecoverReadyKeeps, RecoverUnreadyKeeps, SelectKeeps
<1>7. CASE WindowReads \/ WindowAnswers \/ TurnBegins \/ TurnEnds \/ Dispose \/ Disposed
  BY <1>7, WindowReadsKeeps, WindowAnswersKeeps, TurnBeginsKeeps, TurnEndsKeeps, DisposeKeeps, DisposedKeeps
<1>8. QED
  BY <1>1, <1>2, <1>3, <1>4, <1>5, <1>6, <1>7 DEF Next

\* In every reachable state the cache that lets a call through is current,
\* and every read under way knows whether the catalog has overtaken it
\* (refreshInventory's epoch and revision).
THEOREM InventoryCurrent == Spec => []IInv
  BY InitHolds, StepHolds, PTL DEF Spec

\* No call gets through on an inventory that was read before the last
\* change was announced, whatever else is under way (invalidate,
\* refreshInventory, and the inventory of a call).
THEOREM RevocationIsSeen == Spec => []RevocationHolds
<1>1. IInv => RevocationHolds
  BY DEF IInv, CacheCurrent, RevocationHolds, Allows, Rows
<1>2. QED
  BY <1>1, InventoryCurrent, PTL

-----------------------------------------------------------------------------
(* Nobody is abandoned: what a denied agent is owed, and who carries it     *)

TaskType == [pc : {"off", "call", "busyRead", "whenIdle", "read", "apply", "follow", "following"},
             epoch : Int, read : [epoch : Int, version : Int], outer : BOOLEAN]
Reads(t) == task[t].pc \in {"read", "apply"}
FollowsUp(t) == task[t].pc \in {"follow", "following"}

Flags ==
    /\ timer \in BOOLEAN /\ dirty \in BOOLEAN /\ stale \in BOOLEAN /\ disposed \in BOOLEAN
    /\ ready \in BOOLEAN /\ turn \in BOOLEAN /\ refreshing \in BOOLEAN
RTyped ==
    /\ Flags
    /\ refreshes \in Nat
    /\ appliedEpoch \in Int /\ appliedEpoch <= epoch
    /\ task \in [Tasks -> TaskType] /\ \A t \in Tasks : task[t].epoch <= epoch
    /\ {"pc", "kind", "epoch"} \subseteq DOMAIN commit

\* A task that reads or applies owns the agent: neither a turn nor a commit
\* runs.
Exclusive ==
    /\ \A t \in Tasks : Reads(t) => ~Committing /\ ~turn /\ (ready \/ disposed)
    /\ Committing \/ commit.kind = "init" => ~ready
    /\ commit.kind \in Tasks => task[commit.kind].pc = "following"
    /\ refreshing => \E t \in Tasks : task[t].pc \in {"whenIdle", "read", "apply"}

\* Only the announcement of a change makes the inventory stale, and it opens
\* an epoch of which nothing has been applied.
Marked ==
    /\ \A t \in Tasks : Reads(t) \/ FollowsUp(t) => task[t].epoch # None
    /\ \A t \in Tasks : task[t].pc = "apply" \/ FollowsUp(t) => (task[t].epoch = epoch => ~stale)
    /\ appliedEpoch = epoch => ~stale
    /\ stale => dirty

Halted == (ready => ~disposed) /\ (disposed => ~timer)

\* Someone will refresh the agent, or arm the next retry, whatever happens.
Carried ==
    \/ timer \/ refreshes > 0
    \/ \E t \in Tasks : task[t].pc \in {"call", "busyRead", "whenIdle", "read", "apply"}
    \/ commit.kind = "recover" \/ window.pc = "recovery"

\* The commit in flight, if any, applies the newest epoch.
Settles ==
    /\ commit.pc \in {"applyRead", "apply"} => commit.epoch = epoch
    /\ commit.pc = "publish" => appliedEpoch = epoch

\* Otherwise only the selection is behind: a follow leaves by a commit, or by
\* an error of a session that is not ready any more, and the next commit of
\* such a session declares it clean.
Owing == ~disposed /\ dirty => Carried \/ (~stale /\ Settles /\ (ready => \E t \in Tasks : FollowsUp(t)))

RInv == RTyped /\ Exclusive /\ Marked /\ Halted /\ Owing

LEMMA RInitHolds == Init => RInv
<1> SUFFICES ASSUME Init PROVE RInv
  OBVIOUS
<1>1. /\ refreshes = 0 /\ appliedEpoch = -1 /\ epoch = 0 /\ timer = FALSE /\ dirty = FALSE /\ stale = FALSE
      /\ disposed = FALSE /\ ready = FALSE /\ turn = FALSE /\ refreshing = FALSE
      /\ task = [t \in Tasks |-> NoTask]
  BY DEF Init, None
<1>2. commit.kind = "init" /\ commit.pc = "capture" /\ {"pc", "kind", "epoch"} \subseteq DOMAIN commit
  BY DEF Init, NoCommit
<1>3. NoTask \in TaskType /\ NoTask.pc = "off" /\ NoTask.epoch = -1
  BY DEF NoTask, TaskType, None, NoRead
<1>4. RTyped
  <2>1. Flags
    BY <1>1, Zenon DEF Flags
  <2>2. task \in [Tasks -> TaskType] /\ \A t \in Tasks : task[t].epoch <= epoch
    BY <1>1, <1>3
  <2>3. refreshes \in Nat /\ appliedEpoch \in Int /\ appliedEpoch <= epoch
    BY <1>1
  <2>4. QED
    BY <1>2, <2>1, <2>2, <2>3 DEF RTyped
<1>5. Exclusive
  BY <1>1, <1>2, <1>3, CallsAssumption DEF Exclusive, Reads, Committing
<1>6. Marked /\ Halted /\ Owing
  BY <1>1, <1>3 DEF Marked, Reads, FollowsUp, Halted, Owing
<1>7. QED
  BY <1>4, <1>5, <1>6 DEF RInv

\* What a call may become, and what it leaves behind.
Over == {Calls(TRUE), Calls(FALSE), NoTask}
LEMMA OverType ==
    /\ Over \subseteq TaskType
    /\ \A after \in Over : after.pc \in {"off", "call"} /\ after.epoch = -1 /\ (after # NoTask => after.pc = "call")
    /\ NoTask.pc = "off" /\ \A outer \in BOOLEAN : Calls(outer) \in Over /\ Calls(outer).pc = "call"
<1>1. NoTask \in TaskType /\ NoTask.pc = "off" /\ NoTask.epoch = None
  BY DEF NoTask, TaskType, NoRead, None
<1>2. \A outer \in BOOLEAN : Calls(outer) \in TaskType
  BY <1>1 DEF Calls, TaskType
<1>3. \A outer : Calls(outer).pc = "call" /\ Calls(outer).epoch = None
  BY <1>1 DEF Calls, TaskType
<1>4. \A outer \in BOOLEAN : Calls(outer) \in Over
  BY DEF Over
<1>5. \A after \in Over : after = NoTask \/ \E outer \in BOOLEAN : after = Calls(outer)
  BY DEF Over
<1>6. QED
  BY <1>1, <1>2, <1>3, <1>4, <1>5 DEF None

LEMMA SpawnCalls ==
    ASSUME NEW outer \in BOOLEAN, Spawn(outer)
    PROVE  \E t \in Tasks : task[t] = NoTask /\ task' = [task EXCEPT ![t] = Calls(outer)]
  BY DEF Spawn

\* The call of t is over: it repeats if the catalog moved, or has armed a
\* retry if it was told to.
Ended(t, arms) ==
    /\ \E after \in Over :
        /\ task' = [task EXCEPT ![t] = after]
        /\ ~disposed /\ dirty' /\ task[t].epoch # None /\ task[t].epoch # epoch => after.pc = "call"
    /\ timer' \in BOOLEAN
    /\ timer => timer'
    /\ timer' => timer \/ ~disposed
    /\ arms /\ ~disposed /\ dirty' => timer'

LEMMA EndCallEnds ==
    ASSUME RTyped, dirty' \in BOOLEAN, NEW t \in Tasks, NEW arms \in BOOLEAN, EndCall(t, arms)
    PROVE  Ended(t, arms)
<1> DEFINE repeats == ~disposed /\ dirty' /\ task[t].epoch # None /\ task[t].epoch # epoch
<1>1. /\ task' = [task EXCEPT ![t] = IF repeats THEN Calls(task[t].outer) ELSE NoTask]
      /\ timer' = IF arms \/ (~repeats /\ task[t].outer) THEN Armed(dirty') ELSE timer
  BY DEF EndCall, RTyped
<1>2. task[t].outer \in BOOLEAN
  BY DEF RTyped, TaskType
<1>3. \E after \in Over : task' = [task EXCEPT ![t] = after] /\ (repeats => after.pc = "call")
  BY <1>1, <1>2, OverType DEF Over
<1>4. timer \in BOOLEAN /\ disposed \in BOOLEAN
  BY DEF RTyped, Flags
<1>5. /\ timer' \in BOOLEAN /\ (timer => timer') /\ (timer' => timer \/ ~disposed)
      /\ (arms /\ ~disposed /\ dirty' => timer')
  BY <1>1, <1>4 DEF Armed
<1>6. QED
  BY <1>3, <1>5 DEF Ended

\* Parts of what a step may do: to the flags, to who runs, to the commit,
\* and to what is stale or applied.
FlagsMove == Flags' /\ (stale' => stale) /\ (timer => timer') /\ (timer' => timer \/ ~disposed)
NoneReads == \A t \in Tasks : ~Reads(t)
TurnsMove ==
    /\ turn' => turn \/ NoneReads
    /\ (ready' => ready) /\ (ready' \/ ~ready \/ NoneReads)
    /\ window.pc = "recovery" => window'.pc = "recovery"
CommitMoves ==
    /\ {"pc", "kind", "epoch"} \subseteq DOMAIN commit'
    /\ Committing' => ~ready' /\ NoneReads
    /\ commit'.kind = "init" => ~ready'
    /\ commit'.kind \in Tasks => commit'.kind = commit.kind
    /\ commit.kind = "recover" => commit'.kind = "recover"
MarksMove ==
    /\ appliedEpoch' \in Int /\ appliedEpoch' <= epoch /\ (appliedEpoch' = epoch => ~stale')
    /\ ~stale /\ Settles => Settles'

\* A step that leaves the calls alone.
LEMMA TasksStand ==
    ASSUME RInv, UNCHANGED <<refreshes, epoch, dirty, disposed, refreshing, task>>,
           FlagsMove, TurnsMove, CommitMoves, MarksMove
    PROVE  RInv'
<1> USE DEF FlagsMove, TurnsMove, CommitMoves, MarksMove, NoneReads
<1>1. RTyped'
  BY DEF RInv, RTyped
<1>2. Exclusive'
  <2>1. \A t \in Tasks : (Reads(t))' <=> Reads(t)
    BY DEF Reads
  <2>2. \A t \in Tasks : Reads(t) => ~Committing' /\ ~turn' /\ (ready' \/ disposed')
    <3> SUFFICES ASSUME NEW t \in Tasks, Reads(t) PROVE ~Committing' /\ ~turn' /\ (ready' \/ disposed)
      OBVIOUS
    <3>1. ~NoneReads /\ ~Committing /\ ~turn /\ (ready \/ disposed)
      BY DEF RInv, Exclusive
    <3>2. QED
      BY <3>1
  <2>3. QED
    BY <2>1, <2>2 DEF RInv, Exclusive
<1>3. Marked' /\ Halted'
  BY DEF RInv, Marked, Halted, Reads, FollowsUp
<1>4. Owing'
  <2>1. Carried => Carried'
    BY DEF Carried
  <2>2. QED
    BY <2>1 DEF RInv, Owing, FollowsUp
<1>5. QED
  BY <1>1, <1>2, <1>3, <1>4 DEF RInv

\* A step that moves calls, and perhaps a commit with them.
FlagsFall == Flags' /\ (stale' => stale) /\ (stale' => dirty') /\ (turn' => turn) /\ Halted' /\ refreshes' \in Nat
Moved(t) ==
    /\ task'[t].epoch <= epoch
    /\ task'[t].pc \in {"read", "apply"} => ~Committing' /\ ~turn' /\ (ready' \/ disposed')
    /\ task'[t].pc \in {"read", "apply", "follow", "following"} => task'[t].epoch # None
    /\ task'[t].pc \in {"apply", "follow", "following"} /\ task'[t].epoch = epoch => ~stale'
TasksMove == task' \in [Tasks -> TaskType] /\ \A t \in Tasks : task'[t] = task[t] \/ Moved(t)
Refresher == refreshing => \E t \in Tasks : task[t].pc \in {"whenIdle", "read", "apply"}
AgentMoves ==
    /\ {"pc", "kind", "epoch"} \subseteq DOMAIN commit'
    /\ ready' => ready \/ NoneReads
    /\ ready' \/ ~ready \/ disposed \/ NoneReads
    /\ Committing' => ~ready' /\ NoneReads
    /\ commit'.kind = "init" => ~ready'
    /\ commit'.kind \in Tasks => task'[commit'.kind].pc = "following"

LEMMA CallsMove ==
    ASSUME RInv, UNCHANGED <<epoch, appliedEpoch, disposed>>, FlagsFall, TasksMove, AgentMoves, Refresher', Owing'
    PROVE  RInv'
<1> USE DEF FlagsFall, TasksMove, AgentMoves
<1>1. RTyped'
  BY DEF RInv, RTyped, Moved
<1>2. Exclusive'
  <2>1. ASSUME NEW t \in Tasks, (Reads(t))'
        PROVE  ~Committing' /\ ~turn' /\ (ready' \/ disposed')
    <3>1. CASE Moved(t)
      BY <2>1, <3>1 DEF Moved, Reads
    <3>2. CASE task'[t] = task[t]
      <4>1. Reads(t)
        BY <2>1, <3>2 DEF Reads
      <4>2. ~NoneReads /\ ~Committing /\ ~turn /\ (ready \/ disposed)
        BY <4>1 DEF RInv, Exclusive, NoneReads
      <4>3. QED
        BY <4>2
    <3>3. QED
      BY <3>1, <3>2
  <2>2. QED
    BY <2>1 DEF Exclusive, Refresher
<1>3. Marked'
  <2>1. ASSUME NEW t \in Tasks, (Reads(t) \/ FollowsUp(t))'
        PROVE  task'[t].epoch # None /\ (task'[t].pc # "read" /\ task'[t].epoch = epoch => ~stale')
    <3>1. CASE Moved(t)
      BY <2>1, <3>1 DEF Moved, Reads, FollowsUp
    <3>2. CASE task'[t] = task[t]
      BY <2>1, <3>2 DEF RInv, Marked, Reads, FollowsUp
    <3>3. QED
      BY <3>1, <3>2
  <2>2. \A t \in Tasks : (Reads(t) \/ FollowsUp(t))' => task'[t].epoch # None
    BY <2>1
  <2>3. \A t \in Tasks : task'[t].pc = "apply" \/ (FollowsUp(t))' => (task'[t].epoch = epoch => ~stale')
    BY <2>1 DEF Reads, FollowsUp
  <2>4. QED
    BY <2>2, <2>3 DEF RInv, Marked
<1>4. QED
  BY <1>1, <1>2, <1>3 DEF RInv

\* A step that leaves session and commit alone, and moves a call that no
\* commit was made for.
LEMMA AgentRests ==
    ASSUME RInv, NEW t \in Tasks, task[t].pc # "following", UNCHANGED <<ready, commit>>,
           \A u \in Tasks : u # t => task'[u] = task[u]
    PROVE  AgentMoves
<1>1. Committing' => Committing
  BY DEF Committing
<1>2. Committing => ~ready /\ NoneReads
  BY DEF RInv, Exclusive, NoneReads
<1>3. commit'.kind \in Tasks => task'[commit'.kind].pc = "following"
  BY DEF RInv, Exclusive
<1>4. QED
  BY <1>1, <1>2, <1>3 DEF AgentMoves, RInv, RTyped, Exclusive

\* The calls after one of them has ended, repeated or begun.
LEMMA OverMoves ==
    ASSUME IInv, RInv, NEW t \in Tasks, NEW after \in Over, task' = [task EXCEPT ![t] = after]
    PROVE  /\ TasksMove /\ \A u \in Tasks : u # t => task'[u] = task[u]
           /\ task'[t] = after /\ task'[t].pc \in {"off", "call"}
<1>1. after \in TaskType /\ after.pc \in {"off", "call"} /\ after.epoch <= epoch
  BY OverType DEF IInv, Counted
<1>2. task'[t] = after /\ (\A u \in Tasks : u # t => task'[u] = task[u]) /\ task' \in [Tasks -> TaskType]
  BY <1>1 DEF RInv, RTyped
<1>3. QED
  BY <1>1, <1>2 DEF TasksMove, Moved

\* The refresh in flight is another one's.
LEMMA RefresherStays ==
    ASSUME RInv, NEW t \in Tasks, task[t].pc \notin {"whenIdle", "read", "apply"}, refreshing' = refreshing,
           \A u \in Tasks : u # t => task'[u] = task[u]
    PROVE  Refresher'
<1>1. refreshing' => \E u \in Tasks : u # t /\ task[u].pc \in {"whenIdle", "read", "apply"}
  BY DEF RInv, Exclusive
<1>2. QED
  BY <1>1 DEF Refresher

LEMMA ReadEnds ==
    ASSUME RInv, NEW reader, NEW read, EndRead(reader, read) \/ FailRead(reader, read)
    PROVE  stale' \in BOOLEAN /\ (stale' => stale)
<1>1. stale' = stale \/ stale' = FALSE
  BY Zenon DEF EndRead, FailRead, cache
<1>2. stale \in BOOLEAN
  BY DEF RInv, RTyped, Flags
<1>3. CASE stale' = stale
  BY <1>2, <1>3
<1>4. CASE stale' = FALSE
  BY <1>4
<1>5. QED
  BY <1>1, <1>3, <1>4

\* The calls after one of them has gone on.
ReadType == [epoch : Int, version : Int]
LEMMA ReadTypes == IInv => Reading \in ReadType /\ NoRead \in ReadType /\ epoch \in Nat
  BY DEF IInv, Counted, Reading, NoRead, ReadType, None

LEMMA StepsOn ==
    ASSUME RInv, NEW t \in Tasks, NEW pc, NEW read \in ReadType,
           pc \in {"off", "call", "busyRead", "whenIdle", "read", "apply", "follow", "following"},
           task' = [task EXCEPT ![t].pc = pc, ![t].read = read]
    PROVE  /\ task' \in [Tasks -> TaskType] /\ \A u \in Tasks : u # t => task'[u] = task[u]
           /\ task'[t].pc = pc /\ task'[t].epoch = task[t].epoch
<1>1. task \in [Tasks -> TaskType]
  BY DEF RInv, RTyped
<1>2. [task[t] EXCEPT !.pc = pc, !.read = read] \in TaskType
  BY <1>1 DEF TaskType, ReadType
<1>3. task' = [task EXCEPT ![t] = [task[t] EXCEPT !.pc = pc, !.read = read]]
  BY <1>1
<1>4. task'[t] = [task[t] EXCEPT !.pc = pc, !.read = read]
  BY <1>1, <1>3
<1>5. task'[t].pc = pc /\ task'[t].epoch = task[t].epoch
  BY <1>1, <1>4 DEF TaskType
<1>6. QED
  BY <1>1, <1>2, <1>3, <1>5

LEMMA ChangesRKeeps == ASSUME IInv, RInv, Changes PROVE RInv'
<1> USE DEF catalog, cache, marks, retry, session, bounds, Event
<1>1. UNCHANGED <<refreshes, epoch, dirty, disposed, refreshing, task>>
  BY DEF Changes
<1>2. FlagsMove
  BY DEF FlagsMove, RInv, RTyped, Flags, Changes
<1>3. TurnsMove
  BY DEF TurnsMove, NoneReads, Changes
<1>4. CommitMoves
  BY DEF CommitMoves, NoneReads, Changes, RInv, RTyped, Exclusive, Committing
<1>5. MarksMove
  BY <1>1, <1>2 DEF MarksMove, FlagsMove, Changes, RInv, RTyped, Marked, Settles, Committing
<1>9. QED
  BY <1>1, <1>2, <1>3, <1>4, <1>5, TasksStand

LEMMA SelectRKeeps == ASSUME IInv, RInv, NEW default \in BOOLEAN, Select(default) PROVE RInv'
<1> USE DEF catalog, cache, marks, retry, session, bounds, Event
<1>1. UNCHANGED <<refreshes, epoch, dirty, disposed, refreshing, task>>
  BY DEF Select
<1>2. FlagsMove
  BY DEF FlagsMove, RInv, RTyped, Flags, Select, BeginRead
<1>3. TurnsMove
  BY DEF TurnsMove, NoneReads, Select
<1>4. CommitMoves
  BY CallsAssumption DEF CommitMoves, NoneReads, Select, RInv, RTyped, Exclusive, Committing, NoCommit
<1>5. MarksMove
  BY <1>1, <1>2 DEF MarksMove, FlagsMove, Select, RInv, RTyped, Marked, Settles, Committing
<1>9. QED
  BY <1>1, <1>2, <1>3, <1>4, <1>5, TasksStand

LEMMA CapturesRKeeps == ASSUME IInv, RInv, Captures PROVE RInv'
<1> USE DEF catalog, cache, marks, retry, session, bounds, Event
<1>1. UNCHANGED <<refreshes, epoch, dirty, disposed, refreshing, task>>
  BY DEF Captures
<1>2. FlagsMove
  BY ReadEnds DEF FlagsMove, RInv, RTyped, Flags, Captures
<1>3. TurnsMove
  BY DEF TurnsMove, NoneReads, Captures
<1>4. CommitMoves
  BY DEF CommitMoves, NoneReads, Captures, RInv, RTyped, Exclusive, Committing
<1>5. MarksMove
  BY <1>1, <1>2 DEF MarksMove, FlagsMove, Captures, RInv, RTyped, Marked, Settles, Committing
<1>9. QED
  BY <1>1, <1>2, <1>3, <1>4, <1>5, TasksStand

LEMMA CommitStartsRKeeps == ASSUME IInv, RInv, CommitStarts PROVE RInv'
<1> USE DEF catalog, cache, marks, retry, session, bounds, Event
<1>1. UNCHANGED <<refreshes, epoch, dirty, disposed, refreshing, task>>
  BY DEF CommitStarts
<1>2. FlagsMove
  BY DEF FlagsMove, RInv, RTyped, Flags, CommitStarts, BeginRead
<1>3. TurnsMove
  BY DEF TurnsMove, NoneReads, CommitStarts, Idle, Reads, Committing, RInv, Exclusive
<1>4. CommitMoves
  BY DEF CommitMoves, NoneReads, CommitStarts, RInv, RTyped, Exclusive, Committing, Idle, Reads
<1>5. MarksMove
  BY <1>1, <1>2 DEF MarksMove, FlagsMove, CommitStarts, RInv, RTyped, Marked, Settles, Committing
<1>9. QED
  BY <1>1, <1>2, <1>3, <1>4, <1>5, TasksStand

LEMMA CommitReadsRKeeps == ASSUME IInv, RInv, CommitReads PROVE RInv'
<1> USE DEF catalog, cache, marks, retry, session, bounds, Event
<1>1. UNCHANGED <<refreshes, epoch, dirty, disposed, refreshing, task>>
  BY DEF CommitReads
<1>2. FlagsMove
  BY ReadEnds DEF FlagsMove, RInv, RTyped, Flags, CommitReads
<1>3. TurnsMove
  BY DEF TurnsMove, NoneReads, CommitReads
<1>4. CommitMoves
  BY DEF CommitMoves, NoneReads, CommitReads, RInv, RTyped, Exclusive, Committing
<1>5. MarksMove
  BY <1>1, <1>2 DEF MarksMove, FlagsMove, CommitReads, RInv, RTyped, Marked, Settles, Committing
<1>9. QED
  BY <1>1, <1>2, <1>3, <1>4, <1>5, TasksStand

LEMMA CommitAppliesRKeeps == ASSUME IInv, RInv, CommitApplies PROVE RInv'
<1> USE DEF catalog, cache, marks, retry, session, bounds, Event
<1>1. UNCHANGED <<refreshes, epoch, dirty, disposed, refreshing, task>>
  BY DEF CommitApplies
<1>2. FlagsMove
  BY DEF FlagsMove, RInv, RTyped, Flags, CommitApplies
<1>3. TurnsMove
  BY DEF TurnsMove, NoneReads, CommitApplies
<1>4. CommitMoves
  BY DEF CommitMoves, NoneReads, CommitApplies, RInv, RTyped, Exclusive, Committing
<1>5. MarksMove
  <2>1. epoch \in Nat /\ commit'.pc = "publish" /\ commit.pc = "apply" /\ stale' = stale
    BY DEF CommitApplies, IInv, Counted, RInv, RTyped
  <2>2. appliedEpoch' = epoch \/ (appliedEpoch' = appliedEpoch /\ ~(~stale /\ commit.epoch = epoch))
    BY DEF CommitApplies
  <2>3. appliedEpoch' = appliedEpoch \/ (appliedEpoch' = epoch /\ ~stale)
    BY DEF CommitApplies
  <2>4. QED
    BY <1>1, <2>1, <2>2, <2>3 DEF MarksMove, RInv, RTyped, Marked, Settles
<1>9. QED
  BY <1>1, <1>2, <1>3, <1>4, <1>5, TasksStand

LEMMA RecoverUnreadyRKeeps == ASSUME IInv, RInv, RecoverUnready PROVE RInv'
<1> USE DEF catalog, cache, marks, retry, session, bounds, Event
<1>1. UNCHANGED <<refreshes, epoch, dirty, disposed, refreshing, task>>
  BY DEF RecoverUnready
<1>2. FlagsMove
  BY DEF FlagsMove, RInv, RTyped, Flags, RecoverUnready, BeginRead
<1>3. TurnsMove
  BY DEF TurnsMove, NoneReads, RecoverUnready
<1>4. CommitMoves
  BY CallsAssumption DEF CommitMoves, NoneReads, RecoverUnready, RInv, RTyped, Exclusive, Committing, NoCommit, Reads
<1>5. MarksMove
  BY <1>1, <1>2 DEF MarksMove, FlagsMove, RecoverUnready, RInv, RTyped, Marked, Settles, Committing
<1>9. QED
  BY <1>1, <1>2, <1>3, <1>4, <1>5, TasksStand

LEMMA WindowReadsRKeeps == ASSUME IInv, RInv, WindowReads PROVE RInv'
<1> USE DEF catalog, cache, marks, retry, session, bounds, Event
<1>1. UNCHANGED <<refreshes, epoch, dirty, disposed, refreshing, task>>
  BY DEF WindowReads
<1>2. FlagsMove
  BY DEF FlagsMove, RInv, RTyped, Flags, WindowReads, BeginRead
<1>3. TurnsMove
  BY DEF TurnsMove, NoneReads, WindowReads, NoWindow
<1>4. CommitMoves
  BY DEF CommitMoves, NoneReads, WindowReads, RInv, RTyped, Exclusive, Committing
<1>5. MarksMove
  BY <1>1, <1>2 DEF MarksMove, FlagsMove, WindowReads, RInv, RTyped, Marked, Settles, Committing
<1>9. QED
  BY <1>1, <1>2, <1>3, <1>4, <1>5, TasksStand

LEMMA WindowAnswersRKeeps == ASSUME IInv, RInv, WindowAnswers PROVE RInv'
<1> USE DEF catalog, cache, marks, retry, session, bounds, Event
<1>1. UNCHANGED <<refreshes, epoch, dirty, disposed, refreshing, task>>
  BY DEF WindowAnswers
<1>2. FlagsMove
  BY ReadEnds DEF FlagsMove, RInv, RTyped, Flags, WindowAnswers, Armed
<1>3. TurnsMove
  BY DEF TurnsMove, NoneReads, WindowAnswers, NoWindow
<1>4. CommitMoves
  BY DEF CommitMoves, NoneReads, WindowAnswers, RInv, RTyped, Exclusive, Committing
<1>5. MarksMove
  BY <1>1, <1>2 DEF MarksMove, FlagsMove, WindowAnswers, RInv, RTyped, Marked, Settles, Committing
<1>9. QED
  BY <1>1, <1>2, <1>3, <1>4, <1>5, TasksStand

LEMMA TurnBeginsRKeeps == ASSUME IInv, RInv, TurnBegins PROVE RInv'
<1> USE DEF catalog, cache, marks, retry, session, bounds, Event
<1>1. UNCHANGED <<refreshes, epoch, dirty, disposed, refreshing, task>>
  BY DEF TurnBegins
<1>2. FlagsMove
  BY DEF FlagsMove, RInv, RTyped, Flags, TurnBegins
<1>3. TurnsMove
  BY DEF TurnsMove, NoneReads, TurnBegins, Idle, Reads
<1>4. CommitMoves
  BY DEF CommitMoves, NoneReads, TurnBegins, RInv, RTyped, Exclusive, Committing
<1>5. MarksMove
  BY <1>1, <1>2 DEF MarksMove, FlagsMove, TurnBegins, RInv, RTyped, Marked, Settles, Committing
<1>9. QED
  BY <1>1, <1>2, <1>3, <1>4, <1>5, TasksStand

LEMMA TurnEndsRKeeps == ASSUME IInv, RInv, TurnEnds PROVE RInv'
<1> USE DEF catalog, cache, marks, retry, session, bounds, Event
<1>1. UNCHANGED <<refreshes, epoch, dirty, disposed, refreshing, task>>
  BY DEF TurnEnds
<1>2. FlagsMove
  BY DEF FlagsMove, RInv, RTyped, Flags, TurnEnds
<1>3. TurnsMove
  BY DEF TurnsMove, NoneReads, TurnEnds
<1>4. CommitMoves
  BY DEF CommitMoves, NoneReads, TurnEnds, RInv, RTyped, Exclusive, Committing
<1>5. MarksMove
  BY <1>1, <1>2 DEF MarksMove, FlagsMove, TurnEnds, RInv, RTyped, Marked, Settles, Committing
<1>9. QED
  BY <1>1, <1>2, <1>3, <1>4, <1>5, TasksStand

LEMMA RefreshAllRKeeps == ASSUME IInv, RInv, RefreshAll PROVE RInv'
<1> USE DEF catalog, cache, marks, retry, session, bounds, Event, BeginRead
<1>1. UNCHANGED <<epoch, appliedEpoch, disposed, ready, commit, refreshing, dirty, stale, turn>> /\ refreshes' \in Nat
  BY DEF RefreshAll, RInv, RTyped
<1>2. timer' \in BOOLEAN /\ (timer' => timer)
  BY Zenon DEF RefreshAll, RInv, RTyped, Flags
<1>3. PICK t \in Tasks : task[t] = NoTask /\ task' = [task EXCEPT ![t] = Calls(FALSE)]
  BY SpawnCalls DEF RefreshAll
<1>4. Calls(FALSE) \in Over /\ Calls(FALSE).pc = "call" /\ task[t].pc = "off"
  BY <1>3, OverType
<1>5. TasksMove /\ (\A u \in Tasks : u # t => task'[u] = task[u]) /\ task'[t] = Calls(FALSE)
  BY <1>3, <1>4, OverMoves
<1>6. FlagsFall
  BY <1>1, <1>2 DEF FlagsFall, RInv, RTyped, Flags, Halted, Marked
<1>7. AgentMoves /\ Refresher'
  BY <1>1, <1>4, <1>5, AgentRests, RefresherStays
<1>8. Owing'
  BY <1>4, <1>5 DEF Owing, Carried
<1>9. QED
  BY <1>1, <1>5, <1>6, <1>7, <1>8, CallsMove

LEMMA TimerFiresRKeeps == ASSUME IInv, RInv, TimerFires PROVE RInv'
<1> USE DEF catalog, cache, marks, retry, session, bounds, Event, BeginRead
<1>1. UNCHANGED <<epoch, appliedEpoch, disposed, ready, commit, refreshing, dirty, stale, turn>> /\ refreshes' \in Nat
  BY DEF TimerFires, RInv, RTyped
<1>2. timer' \in BOOLEAN /\ (timer' => timer)
  BY Zenon DEF TimerFires, RInv, RTyped, Flags
<1>3. PICK t \in Tasks : task[t] = NoTask /\ task' = [task EXCEPT ![t] = Calls(FALSE)]
  BY SpawnCalls DEF TimerFires
<1>4. Calls(FALSE) \in Over /\ Calls(FALSE).pc = "call" /\ task[t].pc = "off"
  BY <1>3, OverType
<1>5. TasksMove /\ (\A u \in Tasks : u # t => task'[u] = task[u]) /\ task'[t] = Calls(FALSE)
  BY <1>3, <1>4, OverMoves
<1>6. FlagsFall
  BY <1>1, <1>2 DEF FlagsFall, RInv, RTyped, Flags, Halted, Marked
<1>7. AgentMoves /\ Refresher'
  BY <1>1, <1>4, <1>5, AgentRests, RefresherStays
<1>8. Owing'
  BY <1>4, <1>5 DEF Owing, Carried
<1>9. QED
  BY <1>1, <1>5, <1>6, <1>7, <1>8, CallsMove

LEMMA RecoverReadyRKeeps == ASSUME IInv, RInv, RecoverReady PROVE RInv'
<1> USE DEF catalog, cache, marks, retry, session, bounds, Event, BeginRead
<1>1. UNCHANGED <<epoch, appliedEpoch, disposed, ready, commit, refreshing, dirty, stale, turn>> /\ refreshes' \in Nat
  BY DEF RecoverReady, RInv, RTyped
<1>2. timer' \in BOOLEAN /\ (timer' => timer)
  BY Zenon DEF RecoverReady, RInv, RTyped, Flags
<1>3. PICK t \in Tasks : task[t] = NoTask /\ task' = [task EXCEPT ![t] = Calls(FALSE)]
  BY SpawnCalls DEF RecoverReady
<1>4. Calls(FALSE) \in Over /\ Calls(FALSE).pc = "call" /\ task[t].pc = "off"
  BY <1>3, OverType
<1>5. TasksMove /\ (\A u \in Tasks : u # t => task'[u] = task[u]) /\ task'[t] = Calls(FALSE)
  BY <1>3, <1>4, OverMoves
<1>6. FlagsFall
  BY <1>1, <1>2 DEF FlagsFall, RInv, RTyped, Flags, Halted, Marked
<1>7. AgentMoves /\ Refresher'
  BY <1>1, <1>4, <1>5, AgentRests, RefresherStays
<1>8. Owing'
  BY <1>4, <1>5 DEF Owing, Carried
<1>9. QED
  BY <1>1, <1>5, <1>6, <1>7, <1>8, CallsMove

LEMMA CallBusyRKeeps == ASSUME IInv, RInv, NEW t \in Tasks, CallBusy(t) PROVE RInv'
<1> USE DEF catalog, cache, marks, retry, session, bounds, Event, BeginRead
<1>1. UNCHANGED <<epoch, appliedEpoch, disposed, ready, commit, dirty, turn>> /\ refreshes' \in Nat /\ task[t].pc = "call"
  BY DEF CallBusy, Working, RInv, RTyped
<1>2. timer' \in BOOLEAN /\ refreshing' \in BOOLEAN /\ (timer' => timer \/ ~disposed) /\ stale' \in BOOLEAN /\ (stale' => stale)
  BY ReadEnds DEF CallBusy, Working, RInv, RTyped, Flags, Armed
<1>3. TasksMove /\ (\A u \in Tasks : u # t => task'[u] = task[u]) /\ task'[t].pc = "busyRead"
  <2>1. task' = [task EXCEPT ![t].pc = "busyRead", ![t].read = Reading]
    BY DEF CallBusy
  <2>2. /\ task' \in [Tasks -> TaskType] /\ \A u \in Tasks : u # t => task'[u] = task[u]
        /\ task'[t].pc = "busyRead" /\ task'[t].epoch = task[t].epoch
    BY <2>1, ReadTypes, StepsOn
  <2>3. QED
    BY <1>1, <2>2 DEF TasksMove, Moved, RInv, RTyped
<1>4. FlagsFall
  BY <1>1, <1>2 DEF FlagsFall, RInv, RTyped, Flags, Halted, Marked
<1>5. AgentMoves
  BY <1>1, <1>3, AgentRests
<1>6. Refresher'
  BY <1>1, <1>3, RefresherStays DEF CallBusy
<1>7. Owing'
  BY <1>3 DEF Owing, Carried
<1>8. QED
  BY <1>1, <1>3, <1>4, <1>5, <1>6, <1>7, CallsMove

LEMMA BusyReadEndsRKeeps == ASSUME IInv, RInv, NEW t \in Tasks, BusyReadEnds(t) PROVE RInv'
<1> USE DEF catalog, cache, marks, retry, session, bounds, Event, BeginRead
<1>1. UNCHANGED <<epoch, appliedEpoch, disposed, ready, commit, dirty, turn>> /\ refreshes' \in Nat /\ task[t].pc = "busyRead"
  BY DEF BusyReadEnds, Working, RInv, RTyped
<1>2. timer' \in BOOLEAN /\ refreshing' \in BOOLEAN /\ (timer' => timer \/ ~disposed) /\ stale' \in BOOLEAN /\ (stale' => stale)
  BY ReadEnds DEF BusyReadEnds, Working, RInv, RTyped, Flags, Armed
<1>3. TasksMove /\ (\A u \in Tasks : u # t => task'[u] = task[u]) /\ task'[t].pc = "whenIdle"
  <2>1. task' = [task EXCEPT ![t].pc = "whenIdle", ![t].read = NoRead]
    BY DEF BusyReadEnds
  <2>2. /\ task' \in [Tasks -> TaskType] /\ \A u \in Tasks : u # t => task'[u] = task[u]
        /\ task'[t].pc = "whenIdle" /\ task'[t].epoch = task[t].epoch
    BY <2>1, ReadTypes, StepsOn
  <2>3. QED
    BY <1>1, <2>2 DEF TasksMove, Moved, RInv, RTyped
<1>4. FlagsFall
  BY <1>1, <1>2 DEF FlagsFall, RInv, RTyped, Flags, Halted, Marked
<1>5. AgentMoves
  BY <1>1, <1>3, AgentRests
<1>6. Refresher'
  BY <1>3 DEF Refresher
<1>7. Owing'
  BY <1>3 DEF Owing, Carried
<1>8. QED
  BY <1>1, <1>3, <1>4, <1>5, <1>6, <1>7, CallsMove

LEMMA BecomesIdleRKeeps == ASSUME IInv, RInv, NEW t \in Tasks, BecomesIdle(t) PROVE RInv'
<1> USE DEF catalog, cache, marks, retry, session, bounds, Event, BeginRead
<1>1. UNCHANGED <<epoch, appliedEpoch, disposed, ready, commit, dirty, turn>> /\ refreshes' \in Nat /\ task[t].pc = "whenIdle"
  BY DEF BecomesIdle, Working, RInv, RTyped
<1>2. timer' \in BOOLEAN /\ refreshing' \in BOOLEAN /\ (timer' => timer \/ ~disposed) /\ stale' \in BOOLEAN /\ (stale' => stale)
  BY ReadEnds DEF BecomesIdle, Working, RInv, RTyped, Flags, Armed
<1>3. TasksMove /\ (\A u \in Tasks : u # t => task'[u] = task[u]) /\ task'[t].pc = "call"
  <2>1. task' = [task EXCEPT ![t] = Calls(TRUE)] /\ Calls(TRUE) \in Over /\ Calls(TRUE).pc = "call"
    BY OverType DEF BecomesIdle
  <2>2. QED
    BY <2>1, OverMoves
<1>4. FlagsFall
  BY <1>1, <1>2 DEF FlagsFall, RInv, RTyped, Flags, Halted, Marked
<1>5. AgentMoves
  BY <1>1, <1>3, AgentRests
<1>6. Refresher'
  BY DEF BecomesIdle, Refresher
<1>7. Owing'
  BY <1>3 DEF Owing, Carried
<1>8. QED
  BY <1>1, <1>3, <1>4, <1>5, <1>6, <1>7, CallsMove

LEMMA CallReadsRKeeps == ASSUME IInv, RInv, NEW t \in Tasks, CallReads(t) PROVE RInv'
<1> USE DEF catalog, cache, marks, retry, session, bounds, Event, BeginRead
<1>1. UNCHANGED <<epoch, appliedEpoch, disposed, ready, commit, dirty, turn>> /\ refreshes' \in Nat /\ task[t].pc = "call"
  BY DEF CallReads, Working, RInv, RTyped
<1>2. timer' \in BOOLEAN /\ refreshing' \in BOOLEAN /\ (timer' => timer \/ ~disposed) /\ stale' \in BOOLEAN /\ (stale' => stale)
  BY ReadEnds DEF CallReads, Working, RInv, RTyped, Flags, Armed
<1>3. TasksMove /\ (\A u \in Tasks : u # t => task'[u] = task[u]) /\ task'[t].pc = "read"
  <2>1. /\ task' = [task EXCEPT ![t] = [task[t] EXCEPT !.pc = "read", !.epoch = epoch, !.read = Reading]]
        /\ ready /\ ~turn /\ ~Committing
    BY DEF CallReads, Working, Idle, RInv, RTyped
  <2>2. [task[t] EXCEPT !.pc = "read", !.epoch = epoch, !.read = Reading] \in TaskType
    <3>1. task[t] \in TaskType /\ epoch \in Int /\ Reading \in ReadType
      BY ReadTypes DEF RInv, RTyped
    <3>2. QED
      BY <3>1 DEF TaskType, ReadType
  <2>3. task'[t].pc = "read" /\ task'[t].epoch = epoch
    BY <2>1 DEF RInv, RTyped, TaskType
  <2>4. task' \in [Tasks -> TaskType] /\ \A u \in Tasks : u # t => task'[u] = task[u]
    BY <2>1, <2>2 DEF RInv, RTyped
  <2>5. QED
    BY <1>1, <2>1, <2>3, <2>4, ReadTypes DEF TasksMove, Moved, Committing, None
<1>4. FlagsFall
  BY <1>1, <1>2 DEF FlagsFall, RInv, RTyped, Flags, Halted, Marked
<1>5. AgentMoves
  BY <1>1, <1>3, AgentRests
<1>6. Refresher'
  BY <1>3 DEF Refresher
<1>7. Owing'
  BY <1>3 DEF Owing, Carried
<1>8. QED
  BY <1>1, <1>3, <1>4, <1>5, <1>6, <1>7, CallsMove

LEMMA CallSkipsRKeeps == ASSUME IInv, RInv, NEW t \in Tasks, CallSkips(t) PROVE RInv'
<1> USE DEF catalog, cache, marks, retry, session, bounds, Event, BeginRead
<1>1. UNCHANGED <<epoch, appliedEpoch, disposed, ready, commit, dirty, turn, refreshes, window>> /\ task[t].pc = "call" /\ (disposed \/ ~dirty \/ refreshing)
  BY DEF CallSkips, Working
<1>2. refreshing' \in BOOLEAN /\ stale' \in BOOLEAN /\ (stale' => stale)
  BY ReadEnds DEF CallSkips, RInv, RTyped, Flags
<1>3. EndCall(t, FALSE)
  BY DEF CallSkips
<1>4. dirty' \in BOOLEAN /\ Ended(t, FALSE)
  BY <1>1, <1>3, EndCallEnds DEF RInv, RTyped, Flags
<1>5. PICK after \in Over : task' = [task EXCEPT ![t] = after]
                          /\ (~disposed /\ dirty' /\ task[t].epoch # None /\ task[t].epoch # epoch => after.pc = "call")
  BY <1>4 DEF Ended
<1>6. TasksMove /\ (\A u \in Tasks : u # t => task'[u] = task[u]) /\ task'[t] = after
  BY <1>5, OverMoves
<1>7. FlagsFall
  BY <1>1, <1>2, <1>4 DEF FlagsFall, RInv, RTyped, Flags, Halted, Marked, Ended
<1>8. AgentMoves
  BY <1>1, <1>6, AgentRests
<1>9. Refresher'
  BY <1>1, <1>6, RefresherStays DEF CallSkips
<1>10. Owing'
  <2>1. CASE disposed \/ ~dirty
    BY <1>1, <2>1 DEF Owing
  <2>2. CASE refreshing
    <3>1. PICK u \in Tasks : task[u].pc \in {"whenIdle", "read", "apply"}
      BY <2>2 DEF RInv, Exclusive
    <3>2. task'[u] = task[u]
      BY <1>1, <1>6, <3>1
    <3>3. QED
      BY <3>1, <3>2 DEF Owing, Carried
  <2>3. QED
    BY <1>1, <2>1, <2>2
<1>11. QED
  BY <1>1, <1>6, <1>7, <1>8, <1>9, <1>10, CallsMove

LEMMA CallUnreadyRKeeps == ASSUME IInv, RInv, NEW t \in Tasks, CallUnready(t) PROVE RInv'
<1> USE DEF catalog, cache, marks, retry, session, bounds, Event, BeginRead
<1>1. UNCHANGED <<epoch, appliedEpoch, disposed, ready, commit, dirty, turn, refreshes, window>> /\ task[t].pc = "call"
  BY DEF CallUnready, Working
<1>2. refreshing' \in BOOLEAN /\ stale' \in BOOLEAN /\ (stale' => stale)
  BY ReadEnds DEF CallUnready, RInv, RTyped, Flags
<1>3. EndCall(t, TRUE)
  BY DEF CallUnready
<1>4. dirty' \in BOOLEAN /\ Ended(t, TRUE)
  BY <1>1, <1>3, EndCallEnds DEF RInv, RTyped, Flags
<1>5. PICK after \in Over : task' = [task EXCEPT ![t] = after]
                          /\ (~disposed /\ dirty' /\ task[t].epoch # None /\ task[t].epoch # epoch => after.pc = "call")
  BY <1>4 DEF Ended
<1>6. TasksMove /\ (\A u \in Tasks : u # t => task'[u] = task[u]) /\ task'[t] = after
  BY <1>5, OverMoves
<1>7. FlagsFall
  BY <1>1, <1>2, <1>4 DEF FlagsFall, RInv, RTyped, Flags, Halted, Marked, Ended
<1>8. AgentMoves
  BY <1>1, <1>6, AgentRests
<1>9. Refresher'
  BY <1>1, <1>6, RefresherStays DEF CallUnready
<1>10. Owing'
  BY <1>1, <1>4 DEF Ended, Owing, Carried
<1>11. QED
  BY <1>1, <1>6, <1>7, <1>8, <1>9, <1>10, CallsMove

LEMMA TaskFailsRKeeps == ASSUME IInv, RInv, NEW t \in Tasks, TaskFails(t) PROVE RInv'
<1> USE DEF catalog, cache, marks, retry, session, bounds, Event, BeginRead
<1>1. UNCHANGED <<epoch, appliedEpoch, disposed, ready, commit, dirty, turn, refreshes, window>> /\ task[t].pc \in {"read", "apply"}
  BY DEF TaskFails, Working
<1>2. refreshing' \in BOOLEAN /\ stale' \in BOOLEAN /\ (stale' => stale)
  BY ReadEnds DEF TaskFails, RInv, RTyped, Flags
<1>3. EndCall(t, TRUE)
  BY DEF TaskFails
<1>4. dirty' \in BOOLEAN /\ Ended(t, TRUE)
  BY <1>1, <1>3, EndCallEnds DEF RInv, RTyped, Flags
<1>5. PICK after \in Over : task' = [task EXCEPT ![t] = after]
                          /\ (~disposed /\ dirty' /\ task[t].epoch # None /\ task[t].epoch # epoch => after.pc = "call")
  BY <1>4 DEF Ended
<1>6. TasksMove /\ (\A u \in Tasks : u # t => task'[u] = task[u]) /\ task'[t] = after
  BY <1>5, OverMoves
<1>7. FlagsFall
  BY <1>1, <1>2, <1>4 DEF FlagsFall, RInv, RTyped, Flags, Halted, Marked, Ended
<1>8. AgentMoves
  BY <1>1, <1>6, AgentRests
<1>9. Refresher'
  BY DEF TaskFails, Refresher
<1>10. Owing'
  BY <1>1, <1>4 DEF Ended, Owing, Carried
<1>11. QED
  BY <1>1, <1>6, <1>7, <1>8, <1>9, <1>10, CallsMove

\* A read ends: it has failed to make the inventory current, or the mounts
\* follow, or the selection has to follow first.
LEMMA TaskReadsRKeeps == ASSUME IInv, RInv, NEW t \in Tasks, TaskReads(t) PROVE RInv'
<1> USE DEF catalog, cache, marks, retry, session, bounds
<1>1. UNCHANGED <<epoch, appliedEpoch, disposed, ready, commit, dirty, turn, refreshes, window>> /\ task[t].pc = "read"
  BY DEF TaskReads
<1>2. stale' \in BOOLEAN /\ (stale' => stale)
  BY ReadEnds DEF TaskReads
<1>3. ~Committing /\ ~turn /\ (ready \/ disposed) /\ task[t].epoch # None /\ task[t].epoch <= epoch
  BY <1>1 DEF RInv, RTyped, Exclusive, Marked, Reads
<1>4. CASE refreshing' = FALSE /\ EndCall(t, TRUE)
  <2>1. dirty' \in BOOLEAN /\ Ended(t, TRUE)
    BY <1>1, <1>4, EndCallEnds DEF RInv, RTyped, Flags
  <2>2. PICK after \in Over : task' = [task EXCEPT ![t] = after]
    BY <2>1 DEF Ended
  <2>3. TasksMove /\ AgentMoves
    BY <1>1, <2>2, OverMoves, AgentRests
  <2>4. FlagsFall
    BY <1>1, <1>2, <1>4, <2>1 DEF FlagsFall, RInv, RTyped, Flags, Halted, Marked, Ended
  <2>5. Refresher' /\ Owing'
    BY <1>1, <1>4, <2>1 DEF Refresher, Ended, Owing, Carried
  <2>6. QED
    BY <1>1, <2>3, <2>4, <2>5, CallsMove
<1>5. ASSUME NEW pc \in {"follow", "apply"}, ~stale', timer' = timer,
             task' = [task EXCEPT ![t].pc = pc, ![t].read = NoRead],
             refreshing' = IF pc = "follow" THEN FALSE ELSE refreshing
      PROVE  RInv'
  <2>1. /\ task' \in [Tasks -> TaskType] /\ \A u \in Tasks : u # t => task'[u] = task[u]
        /\ task'[t].pc = pc /\ task'[t].epoch = task[t].epoch
    BY <1>5, ReadTypes, StepsOn
  <2>2. Committing' => Committing
    BY <1>1 DEF Committing
  <2>3. TasksMove
    BY <1>1, <1>3, <1>5, <2>1, <2>2 DEF TasksMove, Moved
  <2>4. AgentMoves
    BY <1>1, <2>1, AgentRests
  <2>5. FlagsFall
    BY <1>1, <1>2, <1>5 DEF FlagsFall, RInv, RTyped, Flags, Halted, Marked
  <2>6. Refresher'
    BY <1>5, <2>1 DEF Refresher
  <2>7. Owing'
    <3>1. Settles'
      BY <1>1, <1>3 DEF Settles, Committing
    <3>2. \E u \in Tasks : (FollowsUp(u))' \/ task'[u].pc = "apply"
      BY <1>5, <2>1 DEF FollowsUp
    <3>3. QED
      BY <1>5, <3>1, <3>2 DEF Owing, Carried
  <2>8. QED
    BY <1>1, <2>3, <2>4, <2>5, <2>6, <2>7, CallsMove
<1>6. \/ stale' /\ refreshing' = FALSE /\ EndCall(t, TRUE)
      \/ ~stale' /\ refreshing' = FALSE /\ timer' = timer /\ task' = [task EXCEPT ![t].pc = "follow", ![t].read = NoRead]
      \/ ~stale' /\ refreshing' = refreshing /\ timer' = timer /\ task' = [task EXCEPT ![t].pc = "apply", ![t].read = NoRead]
  BY Zenon DEF TaskReads
<1>7. QED
  BY <1>4, <1>5, <1>6

\* The call that applies declares the agent clean, or repeats.
LEMMA TaskAppliesRKeeps == ASSUME IInv, RInv, NEW t \in Tasks, TaskApplies(t) PROVE RInv'
<1> USE DEF catalog, cache, marks, retry, session, bounds
<1>1. /\ UNCHANGED <<epoch, appliedEpoch, disposed, ready, commit, stale, turn, refreshes, window>> /\ task[t].pc = "apply"
      /\ refreshing' = FALSE
  BY DEF TaskApplies
<1>2. task[t].epoch # None /\ (task[t].epoch = epoch => ~stale)
  BY <1>1 DEF RInv, Marked, Reads
<1>3. CASE task[t].epoch # epoch
  <2>1. dirty' = dirty /\ EndCall(t, FALSE)
    BY <1>3 DEF TaskApplies
  <2>2. dirty' \in BOOLEAN /\ Ended(t, FALSE)
    BY <2>1, EndCallEnds DEF RInv, RTyped, Flags
  <2>3. PICK after \in Over : task' = [task EXCEPT ![t] = after]
                          /\ (~disposed /\ dirty' /\ task[t].epoch # None /\ task[t].epoch # epoch => after.pc = "call")
    BY <2>2 DEF Ended
  <2>4. TasksMove /\ AgentMoves /\ task'[t] = after
    BY <1>1, <2>3, OverMoves, AgentRests
  <2>5. FlagsFall
    BY <1>1, <2>1, <2>2 DEF FlagsFall, RInv, RTyped, Flags, Halted, Marked, Ended
  <2>6. Refresher'
    BY <1>1 DEF Refresher
  <2>7. Owing'
    BY <1>1, <1>2, <1>3, <2>3, <2>4 DEF Owing, Carried
  <2>8. QED
    BY <1>1, <2>4, <2>5, <2>6, <2>7, CallsMove
<1>4. CASE task[t].epoch = epoch
  <2>1. dirty' = FALSE /\ timer' = FALSE /\ task' = [task EXCEPT ![t] = NoTask]
    BY <1>4 DEF TaskApplies
  <2>2. TasksMove /\ AgentMoves
    BY <1>1, <2>1, OverMoves, AgentRests DEF Over
  <2>3. FlagsFall
    BY <1>1, <1>2, <1>4, <2>1 DEF FlagsFall, RInv, RTyped, Flags, Halted
  <2>4. Refresher' /\ Owing'
    BY <1>1, <2>1 DEF Refresher, Owing
  <2>5. QED
    BY <1>1, <2>2, <2>3, <2>4, CallsMove
<1>5. QED
  BY <1>3, <1>4

\* A follow that cannot commit is retried, or leaves a session that is not
\* ready to its next commit.
LEMMA FollowFailsRKeeps == ASSUME IInv, RInv, NEW t \in Tasks, FollowFails(t) PROVE RInv'
<1> USE DEF catalog, cache, marks, retry, session, bounds
<1>1. /\ UNCHANGED <<epoch, appliedEpoch, disposed, ready, commit, stale, dirty, turn, refreshes, window, refreshing>>
      /\ task[t].pc = "follow" /\ dirty' \in BOOLEAN
  BY DEF FollowFails, RInv, RTyped, Flags
<1>2. ASSUME NEW after \in Over, task' = [task EXCEPT ![t] = after], timer' \in BOOLEAN, timer' => timer \/ ~disposed, Owing'
      PROVE  RInv'
  <2>1. TasksMove /\ (\A u \in Tasks : u # t => task'[u] = task[u])
    BY <1>2, OverMoves
  <2>2. AgentMoves /\ Refresher'
    BY <1>1, <2>1, AgentRests, RefresherStays
  <2>3. FlagsFall
    BY <1>1, <1>2 DEF FlagsFall, RInv, RTyped, Flags, Halted, Marked
  <2>4. QED
    BY <1>1, <1>2, <2>1, <2>2, <2>3, CallsMove
<1>3. CASE ready
  <2>1. Ended(t, TRUE)
    BY <1>1, <1>3, EndCallEnds DEF FollowFails, RInv
  <2>2. Owing'
    BY <1>1, <2>1 DEF Ended, Owing, Carried
  <2>3. QED
    BY <1>2, <2>1, <2>2 DEF Ended
<1>4. CASE ~ready
  <2>1. task' = [task EXCEPT ![t] = NoTask] /\ timer' = timer
    BY <1>4 DEF FollowFails
  <2>2. Owing'
    <3>1. \A u \in Tasks : u # t => task'[u] = task[u]
      BY <2>1, OverMoves DEF Over
    <3>2. Carried => Carried'
      BY <1>1, <2>1, <3>1 DEF Carried
    <3>3. QED
      BY <1>1, <1>4, <3>2 DEF RInv, Owing, Settles
  <2>3. QED
    BY <1>2, <2>1, <2>2 DEF Over, RInv, RTyped, Flags
<1>5. QED
  BY <1>3, <1>4

LEMMA FollowCommitsRKeeps == ASSUME IInv, RInv, NEW t \in Tasks, FollowCommits(t) PROVE RInv'
<1> USE DEF catalog, cache, marks, retry, session, bounds, BeginRead
<1>1. /\ UNCHANGED <<epoch, appliedEpoch, disposed, stale, dirty, turn, refreshes, window, refreshing, timer>>
      /\ task[t].pc = "follow" /\ ready /\ Idle /\ commit = NoCommit /\ ready' = FALSE
      /\ task' = [task EXCEPT ![t].pc = "following"]
  BY DEF FollowCommits
<1>2. {"pc", "kind", "epoch"} \subseteq DOMAIN commit' /\ commit'.kind = t /\ commit'.pc = "applyRead" /\ commit'.epoch = epoch
  BY DEF FollowCommits, NoCommit
<1>3. NoneReads
  BY <1>1 DEF Idle, NoneReads, Reads
<1>4. /\ task' \in [Tasks -> TaskType] /\ (\A u \in Tasks : u # t => task'[u] = task[u])
      /\ task'[t].pc = "following" /\ task'[t].epoch = task[t].epoch
  BY <1>1 DEF RInv, RTyped, TaskType
<1>5. task[t].epoch # None /\ task[t].epoch <= epoch /\ (task[t].epoch = epoch => ~stale)
  BY <1>1 DEF RInv, RTyped, Marked, FollowsUp
<1>6. TasksMove
  BY <1>1, <1>4, <1>5 DEF TasksMove, Moved
<1>7. AgentMoves
  BY <1>1, <1>2, <1>3, <1>4, CallsAssumption DEF AgentMoves
<1>8. FlagsFall
  BY <1>1 DEF FlagsFall, RInv, RTyped, Flags, Halted, Marked
<1>9. Refresher'
  BY <1>1, <1>4, RefresherStays
<1>10. Owing'
  <2>1. commit.kind # "recover"
    BY <1>1 DEF NoCommit
  <2>2. Carried => Carried'
    BY <1>1, <1>4, <2>1 DEF Carried
  <2>3. Settles'
    BY <1>1, <1>2 DEF Settles
  <2>4. QED
    BY <1>1, <2>2, <2>3 DEF RInv, Owing
<1>11. QED
  BY <1>1, <1>6, <1>7, <1>8, <1>9, <1>10, CallsMove

\* What a commit that is over leaves behind: no commit, and the call that
\* waited for it, if any, goes on.
LEMMA ResumeEnds ==
    ASSUME IInv, RInv, dirty' \in BOOLEAN, disposed' = disposed, NEW ok \in BOOLEAN, Resume(ok)
    PROVE  /\ TasksMove
           /\ \A t \in Tasks : t # commit.kind => task'[t] = task[t]
           /\ commit.kind \in Tasks => Ended(commit.kind, ~ok)
           /\ timer' \in BOOLEAN /\ (timer => timer') /\ (timer' => timer \/ ~disposed)
           /\ ~ok /\ commit.kind \in Tasks \cup {"recover"} /\ ~disposed /\ dirty' => timer'
<1>1. task \in [Tasks -> TaskType] /\ timer \in BOOLEAN /\ disposed \in BOOLEAN /\ (~ok) \in BOOLEAN
  BY DEF RInv, RTyped, Flags
<1>2. CASE commit.kind \in Tasks
  <2>1. Ended(commit.kind, ~ok)
    BY <1>1, <1>2, EndCallEnds DEF Resume, RInv
  <2>2. PICK after \in Over : task' = [task EXCEPT ![commit.kind] = after]
    BY <2>1 DEF Ended
  <2>3. TasksMove /\ \A t \in Tasks : t # commit.kind => task'[t] = task[t]
    BY <1>2, <2>2, OverMoves
  <2>4. QED
    BY <1>2, <2>1, <2>3 DEF Ended
<1>3. CASE commit.kind \notin Tasks
  <2>1. task' = task /\ timer' = IF ~ok /\ commit.kind = "recover" THEN Armed(dirty') ELSE timer
    BY <1>3 DEF Resume
  <2>2. TasksMove
    BY <1>1, <2>1 DEF TasksMove
  <2>3. /\ timer' \in BOOLEAN /\ (timer => timer') /\ (timer' => timer \/ ~disposed)
        /\ (~ok /\ commit.kind = "recover" /\ ~disposed /\ dirty' => timer')
    BY <1>1, <2>1 DEF Armed
  <2>4. QED
    BY <1>3, <2>1, <2>2, <2>3
<1>4. QED
  BY <1>2, <1>3

\* The refresh in flight does not wait for a commit.
LEMMA ResumeRefresher ==
    ASSUME RInv, refreshing' = refreshing, \A t \in Tasks : t # commit.kind => task'[t] = task[t]
    PROVE  Refresher'
<1>1. refreshing => \E t \in Tasks : task[t].pc \in {"whenIdle", "read", "apply"}
  BY DEF RInv, Exclusive
<1>2. \A t \in Tasks : t = commit.kind => task[t].pc = "following"
  BY DEF RInv, Exclusive
<1>3. QED
  BY <1>1, <1>2 DEF Refresher

LEMMA NoCommitRests == NoCommit.pc = "off" /\ NoCommit.kind = "none" /\ {"pc", "kind", "epoch"} \subseteq DOMAIN NoCommit
  BY DEF NoCommit

LEMMA CommitPublishesRKeeps == ASSUME IInv, RInv, CommitPublishes PROVE RInv'
<1> USE DEF catalog, cache, marks, bounds, BeginRead
<1>1. /\ UNCHANGED <<epoch, appliedEpoch, disposed, stale, turn, refreshes, refreshing>>
      /\ commit.pc = "publish" /\ commit' = NoCommit /\ Resume(TRUE)
      /\ IF commit.kind = "recover" THEN window'.pc = "recovery" ELSE window' = window
  <2>1. /\ UNCHANGED <<epoch, appliedEpoch, disposed, turn, refreshes, refreshing>>
        /\ commit.pc = "publish" /\ commit' = NoCommit /\ Resume(TRUE)
    BY DEF CommitPublishes
  <2>2. stale' = stale
    BY Zenon DEF CommitPublishes
  <2>3. /\ commit.kind = "recover" => window' = [pc |-> "recovery", read |-> Reading]
        /\ commit.kind # "recover" => window' = window
    BY Zenon DEF CommitPublishes
  <2>4. commit.kind = "recover" => window'.pc = "recovery"
    BY <2>3
  <2>5. QED
    BY <2>1, <2>2, <2>3, <2>4, Zenon
<1>2. ready' = (~disposed) /\ dirty' = (dirty /\ ~AppliedNewest)
  BY DEF CommitPublishes
<1>3. ready' \in BOOLEAN /\ dirty' \in BOOLEAN /\ disposed \in BOOLEAN /\ (dirty' => dirty /\ appliedEpoch # epoch)
      /\ (dirty /\ appliedEpoch # epoch => dirty')
  BY <1>2 DEF RInv, RTyped, Flags, AppliedNewest
<1>4. /\ TasksMove /\ (\A t \in Tasks : t # commit.kind => task'[t] = task[t])
      /\ commit.kind \in Tasks => Ended(commit.kind, FALSE)
      /\ timer' \in BOOLEAN /\ (timer => timer') /\ (timer' => timer \/ ~disposed)
  <2>1. (~TRUE) = FALSE
    OBVIOUS
  <2>2. QED
    BY <1>1, <1>3, <2>1, ResumeEnds
<1>5. NoneReads /\ ~ready
  BY <1>1 DEF RInv, Exclusive, Committing, NoneReads
<1>6. AgentMoves
  BY <1>1, <1>5, NoCommitRests, CallsAssumption DEF AgentMoves, Committing
<1>7. FlagsFall
  BY <1>1, <1>2, <1>3, <1>4 DEF FlagsFall, RInv, RTyped, Flags, Halted, Marked
<1>8. Refresher'
  BY <1>1, <1>4, ResumeRefresher
<1>9. Owing'
  <2>1. SUFFICES ASSUME ~disposed, dirty' PROVE Carried'
    BY <1>1 DEF Owing
  <2>2. Carried
    BY <1>1, <1>3, <2>1 DEF RInv, Owing, Settles
  <2>3. \A t \in Tasks : t = commit.kind => task[t].pc = "following"
    BY DEF RInv, Exclusive
  <2>4. QED
    BY <1>1, <1>4, <2>2, <2>3 DEF Carried
<1>10. QED
  BY <1>1, <1>4, <1>6, <1>7, <1>8, <1>9, CallsMove

LEMMA CommitFailsRKeeps == ASSUME IInv, RInv, CommitFails PROVE RInv'
<1> USE DEF catalog, cache, bounds, Event
<1>1. /\ UNCHANGED <<epoch, appliedEpoch, disposed, refreshes, refreshing, window>>
      /\ commit.pc \in {"capture", "applyRead", "apply", "publish"} /\ commit' = NoCommit /\ Resume(FALSE)
  BY DEF CommitFails
<1>2. stale' \in BOOLEAN /\ (stale' => stale)
  BY ReadEnds DEF CommitFails, RInv, RTyped, Flags
<1>3. IF commit.pc = "publish" THEN dirty' = TRUE ELSE dirty' = dirty
  BY DEF CommitFails
<1>4. IF commit.pc = "capture" THEN ready' = ready /\ turn' = turn ELSE ready' = FALSE /\ turn' = FALSE
  BY DEF CommitFails
<1>5. dirty' \in BOOLEAN /\ ready' \in BOOLEAN /\ turn' \in BOOLEAN /\ (dirty => dirty') /\ (turn' => turn) /\ (ready' => ready)
  BY <1>3, <1>4 DEF RInv, RTyped, Flags
<1>6. /\ TasksMove /\ (\A t \in Tasks : t # commit.kind => task'[t] = task[t])
      /\ timer' \in BOOLEAN /\ (timer => timer') /\ (timer' => timer \/ ~disposed)
      /\ commit.kind \in Tasks \cup {"recover"} /\ ~disposed /\ dirty' => timer'
  BY <1>1, <1>5, ResumeEnds
<1>7. commit.pc # "capture" => NoneReads
  BY <1>1 DEF RInv, Exclusive, Committing, NoneReads
<1>8. AgentMoves
  BY <1>1, <1>4, <1>5, <1>7, NoCommitRests, CallsAssumption DEF AgentMoves, Committing
<1>9. FlagsFall
  BY <1>1, <1>2, <1>5, <1>6 DEF FlagsFall, RInv, RTyped, Flags, Halted, Marked
<1>10. Refresher'
  BY <1>1, <1>6, ResumeRefresher
<1>11. Owing'
  <2>1. SUFFICES ASSUME ~disposed, dirty', ~timer'
                 PROVE  Carried' \/ (~stale' /\ Settles' /\ (ready' => \E t \in Tasks : (FollowsUp(t))'))
    BY <1>1 DEF Owing, Carried
  <2>2. commit.kind \notin Tasks /\ commit.kind # "recover" /\ ~timer
    BY <1>6, <2>1
  <2>3. Settles' /\ \A t \in Tasks : task'[t] = task[t]
    BY <1>1, <1>6, <2>2, NoCommitRests DEF Settles
  <2>4. CASE dirty
    <3>1. Carried => Carried'
      BY <1>1, <2>2, <2>3 DEF Carried
    <3>2. (\E t \in Tasks : FollowsUp(t)) => \E t \in Tasks : (FollowsUp(t))'
      BY <2>3 DEF FollowsUp
    <3>3. QED
      BY <1>2, <1>5, <2>1, <2>3, <2>4, <3>1, <3>2 DEF RInv, Owing
  <2>5. CASE ~dirty
    <3>1. ~stale /\ commit.pc = "publish"
      BY <1>3, <2>1, <2>5 DEF RInv, Marked
    <3>2. QED
      BY <1>2, <1>4, <2>3, <3>1
  <2>6. QED
    BY <2>4, <2>5
<1>12. QED
  BY <1>1, <1>6, <1>8, <1>9, <1>10, <1>11, CallsMove

\* The read after a recovery hands the agent on to a call or to the timer.
LEMMA RecoveryRereadsRKeeps == ASSUME IInv, RInv, RecoveryRereads PROVE RInv'
<1> USE DEF catalog, session, marks, bounds, Event
<1>1. UNCHANGED <<epoch, appliedEpoch, disposed, refreshes, refreshing, ready, commit, dirty, turn>>
  BY DEF RecoveryRereads
<1>2. stale' \in BOOLEAN /\ (stale' => stale)
  BY ReadEnds DEF RecoveryRereads
<1>3. CASE Spawn(TRUE) /\ timer' = timer
  <2>1. PICK t \in Tasks : task[t] = NoTask /\ task' = [task EXCEPT ![t] = Calls(TRUE)]
    BY <1>3, SpawnCalls
  <2>2. Calls(TRUE) \in Over /\ Calls(TRUE).pc = "call" /\ task[t].pc = "off"
    BY <2>1, OverType
  <2>3. TasksMove /\ (\A u \in Tasks : u # t => task'[u] = task[u]) /\ task'[t] = Calls(TRUE)
    BY <2>1, <2>2, OverMoves
  <2>4. FlagsFall
    BY <1>1, <1>2, <1>3 DEF FlagsFall, RInv, RTyped, Flags, Halted, Marked
  <2>5. AgentMoves /\ Refresher'
    BY <1>1, <2>2, <2>3, AgentRests, RefresherStays
  <2>6. Owing'
    BY <2>2, <2>3 DEF Owing, Carried
  <2>7. QED
    BY <1>1, <2>3, <2>4, <2>5, <2>6, CallsMove
<1>4. CASE task' = task /\ timer' = Armed(dirty)
  <2>1. TasksMove
    BY <1>4 DEF TasksMove, RInv, RTyped
  <2>2. timer' \in BOOLEAN /\ (timer' => timer \/ ~disposed) /\ (~disposed /\ dirty => timer')
    BY <1>4 DEF Armed, RInv, RTyped, Flags
  <2>3. FlagsFall
    BY <1>1, <1>2, <2>2 DEF FlagsFall, RInv, RTyped, Flags, Halted, Marked
  <2>4. AgentMoves
    BY <1>1, <1>4 DEF AgentMoves, RInv, RTyped, Exclusive, Committing, NoneReads
  <2>5. Refresher'
    BY <1>1, <1>4 DEF Refresher, RInv, Exclusive
  <2>6. Owing'
    BY <1>1, <2>2 DEF Owing, Carried
  <2>7. QED
    BY <1>1, <2>1, <2>3, <2>4, <2>5, <2>6, CallsMove
<1>5. (Spawn(TRUE) /\ timer' = timer) \/ (task' = task /\ timer' = Armed(dirty))
  BY Zenon DEF RecoveryRereads
<1>6. QED
  BY <1>3, <1>4, <1>5

\* The announcement of a change is followed by the refresh of the agents.
LEMMA OnChangedRKeeps == ASSUME IInv, RInv, OnChanged PROVE RInv'
<1> USE DEF retry, session, bounds, Invalidate
<1>1. /\ UNCHANGED <<appliedEpoch, disposed, refreshing, ready, commit, turn, timer, task, window>>
      /\ epoch' = epoch + 1 /\ epoch \in Nat /\ refreshes' = refreshes + 1 /\ refreshes \in Nat /\ stale' = TRUE /\ dirty' = TRUE
  BY DEF OnChanged, IInv, Counted, RInv, RTyped
<1>2. RTyped'
  BY <1>1 DEF RInv, RTyped, Flags, TaskType
<1>3. Exclusive'
  BY <1>1 DEF RInv, Exclusive, Reads, Committing
<1>4. Marked'
  <2>1. \A t \in Tasks : task[t].epoch \in Int /\ task[t].epoch <= epoch
    BY DEF RInv, RTyped, TaskType
  <2>2. QED
    BY <1>1, <2>1 DEF RInv, RTyped, Marked, Reads, FollowsUp
<1>5. Halted' /\ Owing'
  BY <1>1 DEF RInv, Halted, Owing, Carried
<1>6. QED
  BY <1>2, <1>3, <1>4, <1>5 DEF RInv

LEMMA DisposeRKeeps == ASSUME IInv, RInv, Dispose PROVE RInv'
<1> USE DEF cache, marks
<1>1. /\ UNCHANGED <<epoch, stale, dirty, appliedEpoch, refreshing, task, commit>> /\ disposed' = TRUE /\ timer' = FALSE
      /\ ready' = FALSE /\ refreshes' = 0 /\ turn' = FALSE
  BY DEF Dispose
<1>2. RTyped'
  BY <1>1 DEF RInv, RTyped, Flags
<1>3. Exclusive'
  BY <1>1 DEF RInv, Exclusive, Reads, Committing
<1>4. Marked' /\ Halted' /\ Owing'
  BY <1>1 DEF RInv, Marked, Reads, FollowsUp, Halted, Owing
<1>5. QED
  BY <1>2, <1>3, <1>4 DEF RInv

LEMMA DisposedRKeeps == ASSUME IInv, RInv, Disposed PROVE RInv'
<1> USE DEF catalog, retry, session, bounds
<1>1. /\ UNCHANGED <<epoch, refreshes, refreshing, task, commit, timer, ready, turn, disposed>> /\ disposed
      /\ stale' = FALSE /\ dirty' = FALSE /\ appliedEpoch' = -1 /\ epoch \in Nat
  BY DEF Disposed, None, IInv, Counted
<1>2. RTyped'
  <2>1. Flags'
    BY <1>1 DEF RInv, RTyped, Flags
  <2>2. QED
    BY <1>1, <2>1 DEF RInv, RTyped
<1>3. Exclusive'
  BY <1>1 DEF RInv, Exclusive, Reads, Committing
<1>4. Marked' /\ Halted' /\ Owing'
  BY <1>1 DEF RInv, Marked, Reads, FollowsUp, Halted, Owing
<1>5. QED
  BY <1>2, <1>3, <1>4 DEF RInv

LEMMA RStutterKeeps == ASSUME IInv, RInv, UNCHANGED vars PROVE RInv'
<1>1. UNCHANGED <<refreshes, epoch, dirty, disposed, refreshing, task, stale, timer, turn, ready, commit, window, appliedEpoch>>
  BY DEF vars, catalog, cache, marks, retry, session, bounds
<1>2. FlagsMove /\ TurnsMove /\ MarksMove
  BY <1>1 DEF FlagsMove, TurnsMove, MarksMove, RInv, RTyped, Flags, Marked, Settles
<1>3. CommitMoves
  BY <1>1 DEF CommitMoves, RInv, RTyped, Exclusive, Committing, NoneReads
<1>4. QED
  BY <1>1, <1>2, <1>3, TasksStand

LEMMA RStepHolds == IInv /\ RInv /\ [Next]_vars => RInv'
<1> SUFFICES ASSUME IInv, RInv, [Next]_vars PROVE RInv'
  OBVIOUS
<1>1. CASE UNCHANGED vars
  BY <1>1, RStutterKeeps
<1>2. CASE Changes \/ OnChanged \/ RefreshAll \/ TimerFires
  BY <1>2, ChangesRKeeps, OnChangedRKeeps, RefreshAllRKeeps, TimerFiresRKeeps
<1>3. ASSUME NEW t \in Tasks, TaskStep(t) PROVE RInv'
  BY <1>3, CallSkipsRKeeps, CallBusyRKeeps, CallUnreadyRKeeps, CallReadsRKeeps, BusyReadEndsRKeeps, TaskReadsRKeeps,
     TaskAppliesRKeeps, FollowFailsRKeeps DEF TaskStep
<1>4. ASSUME NEW t \in Tasks, BecomesIdle(t) \/ FollowCommits(t) \/ TaskFails(t) PROVE RInv'
  BY <1>4, BecomesIdleRKeeps, FollowCommitsRKeeps, TaskFailsRKeeps
<1>5. CASE CommitStep
  BY <1>5, CapturesRKeeps, CommitStartsRKeeps, CommitReadsRKeeps, CommitAppliesRKeeps, CommitPublishesRKeeps,
     RecoveryRereadsRKeeps DEF CommitStep
<1>6. CASE CommitFails \/ RecoverReady \/ RecoverUnready \/ \E d \in BOOLEAN : Select(d)
  BY <1>6, CommitFailsRKeeps, RecoverReadyRKeeps, RecoverUnreadyRKeeps, SelectRKeeps
<1>7. CASE WindowReads \/ WindowAnswers \/ TurnBegins \/ TurnEnds \/ Dispose \/ Disposed
  BY <1>7, WindowReadsRKeeps, WindowAnswersRKeeps, TurnBeginsRKeeps, TurnEndsRKeeps, DisposeRKeeps, DisposedRKeeps
<1>8. QED
  BY <1>1, <1>2, <1>3, <1>4, <1>5, <1>6, <1>7 DEF Next

\* In every reachable state a denied agent is carried by a timer, a refresh
\* owed, a call or a recovery, or waits for the commit of a session that is
\* not ready, which declares it clean.
THEOREM DeniedIsCarried == Spec => []RInv
<1>1. Init => RInv
  BY RInitHolds
<1>2. IInv /\ RInv /\ [Next]_vars => RInv'
  BY RStepHolds
<1>3. QED
  BY <1>1, <1>2, InventoryCurrent, PTL DEF Spec

\* The denial is never permanent while the agent is ready, and a disposed
\* service arms nothing (scheduleRetry, refreshAgent, recover).
THEOREM NobodyIsAbandoned == Spec => []NobodyAbandoned
<1>1. RInv => NobodyAbandoned
  <2> SUFFICES ASSUME RInv PROVE NobodyAbandoned
    OBVIOUS
  <2>1. \A t \in Tasks : task[t].pc \in {"call", "busyRead", "whenIdle", "read", "apply"} \/ FollowsUp(t) => task[t] # NoTask
    BY OverType DEF FollowsUp
  <2>2. dirty /\ ready => ComingBack
    BY <2>1 DEF RInv, Halted, Owing, Carried, ComingBack
  <2>3. QED
    BY <2>2 DEF RInv, Marked, Halted, NobodyAbandoned
<1>2. QED
  BY <1>1, DeniedIsCarried, PTL
=============================================================================
