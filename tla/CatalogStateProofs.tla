------------------------- MODULE CatalogStateProofs -------------------------
(* What a mutation acknowledged is in the file, and what the caches, the    *)
(* readers and the runtime are served is never older than what they are     *)
(* owed, for any number of sources, readers, mutations, failures and        *)
(* restarts.  And the loops that carry an announced change to a pass of the *)
(* runtime, which ReconcileScheduler models, lose none of them.             *)
EXTENDS CatalogState, ReconcileScheduler, TLAPS

StateType == [source : [Sources -> Nat], installed : [Sources -> Entries], commit : Nat]
Kind == AllKinds \cup {"none"}
Place == {"idle", "acquire", "discover", "name", "remove", "sync", "save", "notify"}
OpType == [kind : Kind, src : Sources \cup {NoSource}, at : Place, todo : SUBSET Sources]

Typed == mem \in StateType /\ disk \in StateType /\ acked \in Nat /\ op \in OpType

\* Memory is ahead of the file only while a mutation saves or after a save
\* failed; a mutation about to notify, or to delete the checkout of a source
\* it removed, has saved.
Saved ==
    /\ disk.commit <= mem.commit
    /\ op.at = "notify" => disk = mem
    /\ op.at = "remove" => op.kind = "update" \/ disk = mem
    /\ op.at = "sync" => op.kind = "refresh"

IInv == Typed /\ Saved /\ AckDurable

\* A step of a mutation that leaves state, file and acknowledgement alone,
\* and leads nowhere a save has to come before.
LEMMA QuietStep ==
    ASSUME IInv, UNCHANGED <<mem, disk, acked>>, op' \in OpType,
           op'.at # "notify", op'.at = "remove" => op'.kind = "update", op'.at = "sync" => op'.kind = "refresh"
    PROVE IInv'
  BY DEF IInv, Typed, Saved, AckDurable

\* So does a step that leaves the mutation alone as well.
LEMMA IdleStep ==
    ASSUME IInv, UNCHANGED <<mem, disk, acked, op>>
    PROVE IInv'
  BY DEF IInv, Typed, Saved, AckDurable

\* A commit moves memory ahead of the file and goes on to save it.
LEMMA CommitStep ==
    ASSUME IInv, UNCHANGED <<disk, acked>>, mem' \in StateType, mem'.commit = mem.commit + 1,
           op' \in OpType, op'.at = "save"
    PROVE IInv'
  BY DEF IInv, Typed, Saved, AckDurable, StateType

\* The states a mutation commits.
LEMMA NextStates ==
    ASSUME mem \in StateType, NEW s
    PROVE /\ \A entry \in Entries : WithEntry(s, entry) \in StateType /\ WithEntry(s, entry).commit = mem.commit + 1
          /\ \A address \in Nat : WithSource(s, address) \in StateType /\ WithSource(s, address).commit = mem.commit + 1
          /\ WithoutSource(s) \in StateType /\ WithoutSource(s).commit = mem.commit + 1
  <1>1. mem.source \in [Sources -> Nat] /\ mem.installed \in [Sources -> Entries] /\ mem.commit \in Nat
    BY DEF StateType
  <1>2. /\ \A entry \in Entries : [mem.installed EXCEPT ![s] = entry] \in [Sources -> Entries]
        /\ [mem.installed EXCEPT ![s] = "none"] \in [Sources -> Entries]
    BY <1>1 DEF Entries
  <1>3. /\ \A address \in Nat : [mem.source EXCEPT ![s] = address] \in [Sources -> Nat]
        /\ [mem.source EXCEPT ![s] = Unregistered] \in [Sources -> Nat]
    BY <1>1 DEF Unregistered
  <1>4. mem.commit + 1 \in Nat BY <1>1
  <1> QED BY <1>1, <1>2, <1>3, <1>4 DEF WithEntry, WithSource, WithoutSource, StateType

LEMMA InitHolds == ASSUME CatalogAssumption, Init PROVE IInv
  <1>1. mem \in StateType BY DEF Init, StateType
  <1>2. NoOp \in OpType BY DEF NoOp, Op, OpType, Kind, Place
  <1>3. mem.commit = 0 /\ disk = mem /\ acked = 0 /\ op = NoOp BY DEF Init
  <1> QED BY <1>1, <1>2, <1>3 DEF IInv, Typed, Saved, AckDurable, NoOp, Op

LEMMA OpTypes ==
    ASSUME NEW k \in Kind, NEW s \in Sources \cup {NoSource}, NEW a \in Place
    PROVE Op(k, s, a) \in OpType /\ Op(k, s, a).kind = k /\ Op(k, s, a).at = a
  BY DEF Op, OpType

LEMMA NoOpType == NoOp \in OpType /\ NoOp.at = "idle"
  BY DEF NoOp, Op, OpType, Kind, Place

LEMMA BeginHolds == ASSUME IInv, Begin PROVE IInv'
  <1> USE DEF Begins
  <1>0. mem \in StateType /\ op \in OpType BY DEF IInv, Typed
  <1>1. ASSUME NEW s \in Sources, BeginInstall(s) PROVE IInv'
    <2>1. op' \in OpType /\ op'.at \in {"discover", "acquire"}
      BY <1>1, OpTypes DEF BeginInstall, Kind, AllKinds, Place
    <2> QED BY <1>1, <2>1, QuietStep DEF BeginInstall
  <1>2. ASSUME NEW s \in Sources, BeginAdd(s) PROVE IInv'
    <2>1. op' \in OpType /\ op'.at = "acquire"
      BY <1>2, OpTypes DEF BeginAdd, Kind, AllKinds, Place
    <2> QED BY <1>2, <2>1, QuietStep DEF BeginAdd
  <1>3. ASSUME NEW s \in Sources, BeginUpdate(s) PROVE IInv'
    <2>1. CASE op' = Op("update", s, "remove") /\ UNCHANGED mem
      <3>1. op' \in OpType /\ op'.at = "remove" /\ op'.kind = "update"
        BY <2>1, OpTypes DEF Kind, AllKinds, Place
      <3>2. UNCHANGED <<mem, disk, acked>> BY <1>3, <2>1 DEF BeginUpdate
      <3> QED BY <3>1, <3>2, QuietStep
    <2>2. ASSUME NEW address \in Addresses(s),
                 mem' = WithSource(s, address), op' = Op("update", s, "save")
          PROVE IInv'
      <3>1. op' \in OpType /\ op'.at = "save" BY <2>2, OpTypes DEF Kind, AllKinds, Place
      <3>2. address \in Nat BY CatalogAssumption DEF CatalogAssumption, Addresses
      <3>3. mem' \in StateType /\ mem'.commit = mem.commit + 1 BY <1>0, <2>2, <3>2, NextStates
      <3> QED BY <1>3, <3>1, <3>3, CommitStep DEF BeginUpdate
    <2> QED BY <1>3, <2>1, <2>2 DEF BeginUpdate
  <1>4. ASSUME NEW s \in Sources, NEW entry \in Entries, BeginEntry(s, entry) PROVE IInv'
    <2>1. op' \in OpType /\ op'.at = "save"
      BY <1>4, OpTypes DEF BeginEntry, Kind, AllKinds, Place
    <2>2. mem' \in StateType /\ mem'.commit = mem.commit + 1 BY <1>0, <1>4, NextStates DEF BeginEntry
    <2> QED BY <1>4, <2>1, <2>2, CommitStep DEF BeginEntry
  <1>5. ASSUME NEW s \in Sources, NEW kind \in {"remove", "delete"}, BeginRemove(kind, s) PROVE IInv'
    <2>1. op' \in OpType /\ op'.at = "save"
      BY <1>5, OpTypes DEF BeginRemove, Kind, AllKinds, Place
    <2>2. mem' \in StateType /\ mem'.commit = mem.commit + 1
      BY <1>0, <1>5, NextStates DEF BeginRemove, Entries
    <2> QED BY <1>5, <2>1, <2>2, CommitStep DEF BeginRemove
  <1>6. ASSUME NEW targets \in SUBSET Sources, BeginRefresh(targets) PROVE IInv'
    <2>1. op' \in OpType /\ op'.at = "sync" /\ op'.kind = "refresh"
      BY <1>6 DEF BeginRefresh, OpType, Kind, AllKinds, Place
    <2> QED BY <1>6, <2>1, QuietStep DEF BeginRefresh
  <1>7. \A targets \in {Registered} \cup {{s} : s \in Registered} : targets \in SUBSET Sources
    BY DEF Registered
  <1> QED BY <1>1, <1>2, <1>3, <1>4, <1>5, <1>6, <1>7 DEF Begin

LEMMA MutationHolds == ASSUME IInv, Mutation PROVE IInv'
  <1>0. mem \in StateType /\ op \in OpType BY DEF IInv, Typed
  <1>1. CASE Acquire
    <2>1. op' \in OpType /\ op'.at \in {"discover", "name"} BY <1>0, <1>1 DEF Acquire, OpType, Place
    <2> QED BY <1>1, <2>1, QuietStep DEF Acquire
  <1>2. CASE Discover
    <2>1. op' \in OpType /\ op'.at = "save" BY <1>0, <1>2 DEF Discover, Commit, OpType, Place
    <2>2. mem' \in StateType /\ mem'.commit = mem.commit + 1
      BY <1>0, <1>2, NextStates DEF Discover, Commit, Entries
    <2> QED BY <1>2, <2>1, <2>2, CommitStep DEF Discover
  <1>3. CASE Name
    <2>1. op' \in OpType /\ op'.at = "save" BY <1>0, <1>3 DEF Name, Commit, OpType, Place
    <2>2. mem' \in StateType /\ mem'.commit = mem.commit + 1 BY <1>0, <1>3, NextStates DEF Name, Commit, Entries
    <2> QED BY <1>3, <2>1, <2>2, CommitStep DEF Name
  <1>4. CASE Remove /\ op.kind = "update"
    <2>1. PICK address \in Addresses(op.src) : Commit(WithSource(op.src, address))
      BY <1>4 DEF Remove
    <2>2. address \in Nat BY CatalogAssumption DEF CatalogAssumption, Addresses
    <2>3. op' \in OpType /\ op'.at = "save" BY <1>0, <2>1 DEF Commit, OpType, Place
    <2>4. mem' \in StateType /\ mem'.commit = mem.commit + 1 BY <1>0, <2>1, <2>2, NextStates DEF Commit
    <2> QED BY <1>4, <2>3, <2>4, CommitStep DEF Remove
  <1>5. CASE Remove /\ op.kind # "update"
    <2>1. op' \in OpType /\ op'.at = "notify" BY <1>0, <1>5 DEF Remove, OpType, Place
    <2>2. UNCHANGED <<mem, disk, acked>> /\ disk = mem BY <1>5 DEF Remove, IInv, Saved
    <2> QED BY <2>1, <2>2 DEF IInv, Typed, Saved, AckDurable
  <1>6. CASE Save
    <2>1. op' \in OpType /\ op'.at \in {"remove", "notify"} BY <1>0, <1>6 DEF Save, OpType, Place
    <2>2. mem' = mem /\ disk' = mem /\ acked' = acked BY <1>6 DEF Save
    <2> QED BY <2>1, <2>2 DEF IInv, Typed, Saved, AckDurable, StateType
  <1>7. CASE Notify
    <2>1. op' = NoOp /\ UNCHANGED <<mem, disk>> BY <1>7 DEF Notify
    <2>2. acked' \in Nat /\ acked' <= disk.commit
      BY <1>0, <1>7 DEF Notify, IInv, Typed, Saved, AckDurable, StateType
    <2> QED BY <2>1, <2>2, NoOpType DEF IInv, Typed, Saved, AckDurable
  <1>8. CASE Reject
    <2>1. op' = NoOp /\ UNCHANGED <<mem, disk, acked>> BY <1>8 DEF Reject
    <2> QED BY <2>1, NoOpType, QuietStep
  <1>9. ASSUME NEW s \in Sources, Sync(s) PROVE IInv'
    <2>1. op' \in OpType /\ op'.at = op.at /\ op'.kind = op.kind /\ op.at = "sync"
      BY <1>0, <1>9 DEF Sync, OpType
    <2>2. UNCHANGED <<mem, disk, acked>> BY <1>9 DEF Sync
    <2> QED BY <2>1, <2>2, QuietStep DEF IInv, Saved
  <1> QED BY <1>1, <1>2, <1>3, <1>4, <1>5, <1>6, <1>7, <1>8, <1>9, BeginHolds DEF Mutation

LEMMA StepHolds == ASSUME IInv, [Next]_vars PROVE IInv'
  <1>1. CASE Mutation BY <1>1, MutationHolds
  <1>2. CASE PanelsChanged BY <1>2, IdleStep DEF PanelsChanged
  <1>3. CASE Reading
    <2>1. UNCHANGED <<mem, disk, acked, op>>
      BY <1>3, Zenon DEF Reading, Read, ScanEnds, BuildEnds, KeepWarm, Expire
    <2> QED BY <2>1, IdleStep
  <1>4. CASE RuntimeReads \/ RuntimeServed BY <1>4, IdleStep DEF RuntimeReads, RuntimeServed
  <1>5. CASE Restart
    <2>1. mem' = disk /\ disk' = disk /\ op' = NoOp /\ acked' = acked BY <1>5 DEF Restart
    <2> QED BY <2>1, NoOpType DEF IInv, Typed, Saved, AckDurable, StateType
  <1>6. CASE UNCHANGED vars BY <1>6, IdleStep DEF vars
  <1> QED BY <1>1, <1>2, <1>3, <1>4, <1>5, <1>6 DEF Next

\* IInv holds in every state of every behaviour.
THEOREM Inductive == Spec => []IInv
  <1>1. Init => IInv BY InitHolds, CatalogAssumption
  <1>2. IInv /\ [Next]_vars => IInv' BY StepHolds
  <1> QED BY <1>1, <1>2, PTL DEF Spec

\* No failure and no restart loses a mutation that was acknowledged
\* (CatalogContext.commit, InstallStore, SourceStore).
THEOREM AcknowledgedIsDurable == Spec => []AckDurable
  <1>1. IInv => AckDurable BY DEF IInv
  <1> QED BY <1>1, Inductive, PTL

-----------------------------------------------------------------------------
(* The caches, and whom they serve                                          *)

PerSource == [Sources -> Nat]
SnapshotType == [commit : Int, seen : PerSource]
BuildType == [commit : Int, fp : PerSource, revision : Nat, generation : Nat, scan : Nat,
              at : {"none", "scan", "built"}, seen : PerSource]
ScanType == [fp : PerSource, scan : Nat, from : PerSource]

Shaped ==
    /\ generation \in Nat /\ revision \in Nat /\ joinable \in {NoPromise, revision}
    /\ checkout \in PerSource /\ announced \in PerSource
    /\ \A s \in Sources : announced[s] <= checkout[s]
    /\ builds \subseteq BuildType /\ pass \in BuildType /\ scans \subseteq ScanType
    /\ \A fp \in DOMAIN scanCache : scanCache[fp] \in PerSource
    /\ reader \in [Readers -> [at : {"idle", "waiting"}, build : Nat, owes : SnapshotType]]
    /\ snapshot \in SnapshotType /\ served \in SnapshotType

\* What a build was, or will be, told is as new as what is owed: its state
\* already, its files once it has them.
Meets(build, owed, started) ==
    /\ build.commit >= owed.commit
    /\ build.at = "built" => \A s \in Sources : build.seen[s] # 0 => build.seen[s] >= owed.seen[s]
    /\ build.at = "scan" => \A scan \in started : Awaits(build, scan) =>
                               \A s \in Sources : scan.from[s] >= owed.seen[s]

\* A scan of the current generation began after discovery was last dropped,
\* and only such a scan can be joined.
Begun(scan) ==
    /\ scan.scan <= generation
    /\ scan.scan = generation => \A s \in Sources : scan.from[s] >= announced[s]
ScansCurrent ==
    /\ \A scan \in scans : Begun(scan)
    /\ \A fp \in DOMAIN scanPromises : scanPromises[fp] = generation

\* A cached discovery was read by such a scan.
Discovered ==
    \A fp \in DOMAIN scanCache, s \in Sources :
        IF fp[s] = Unregistered THEN scanCache[fp][s] = 0 ELSE scanCache[fp][s] >= announced[s]

\* A build of the current revision will answer what is owed now; there is one
\* at most, and it can be joined.
OfItsScan(build) == build.generation <= generation /\ (build.at = "scan" => build.scan = build.generation)
Newly(build) ==
    build.revision = revision =>
        joinable = revision /\ build.generation = generation /\ Meets(build, Owed, scans)
BuildsCurrent ==
    /\ OfItsScan(pass)
    /\ \A build \in builds : build.revision <= revision /\ OfItsScan(build) /\ Newly(build)
    /\ \A build, other \in builds : build.revision = other.revision => build = other

\* Who waits is owed what was announced before, by the build it waits for.
Waiting(r) == reader[r].at = "waiting"
Answered ==
    \A r \in Readers : Waiting(r) =>
        /\ \A s \in Sources : reader[r].owes.seen[s] <= checkout[s]
        /\ \A build \in builds : build.revision = reader[r].build => Meets(build, reader[r].owes, scans)

\* The runtime was served what is owed, or is about to be.
ServedCurrent ==
    ~queued => IF pass.at = "none" THEN Covers(served, Owed) ELSE Meets(pass, Owed, scans)

SnapshotCurrent == snapshot # NoSnapshot => Covers(snapshot, Owed)

CInv ==
    /\ Shaped /\ ScansCurrent /\ Discovered /\ BuildsCurrent /\ SnapshotCurrent
    /\ Answered /\ ServedCurrent /\ NobodyWaitsInVain

LEMMA Shapes ==
    /\ Unseen \in PerSource /\ \A s \in Sources : Unseen[s] = 0
    /\ NoSnapshot \in SnapshotType
    /\ NoBuild \in BuildType /\ NoBuild.at = "none" /\ NoBuild.generation = 0 /\ NoBuild.scan = 0
    /\ NoReader \in [at : {"idle", "waiting"}, build : Nat, owes : SnapshotType] /\ NoReader.at = "idle"
<1>1. Unseen \in PerSource /\ \A s \in Sources : Unseen[s] = 0
  BY DEF Unseen, PerSource
<1>2. QED
  BY <1>1 DEF NoSnapshot, SnapshotType, NoBuild, BuildType, NoReader

LEMMA CInitHolds == Init => CInv
<1> SUFFICES ASSUME Init PROVE CInv
  OBVIOUS
<1>1. /\ generation = 1 /\ revision = 0 /\ joinable = NoPromise /\ builds = {} /\ pass = NoBuild /\ scans = {}
      /\ snapshot = NoSnapshot /\ served = NoSnapshot /\ queued = TRUE /\ announced = checkout
      /\ checkout = [s \in Sources |-> 1] /\ reader = [r \in Readers |-> NoReader]
      /\ DOMAIN scanCache = {} /\ DOMAIN scanPromises = {}
  BY DEF Init
<1>2. Shaped
  BY <1>1, Shapes DEF Shaped, PerSource
<1>3. ScansCurrent /\ Discovered /\ BuildsCurrent
  BY <1>1, Shapes DEF ScansCurrent, Discovered, BuildsCurrent, OfItsScan
<1>4. SnapshotCurrent /\ Answered /\ ServedCurrent
  BY <1>1, Shapes DEF SnapshotCurrent, Answered, Waiting, ServedCurrent
<1>5. NobodyWaitsInVain
  BY <1>1, Shapes DEF NobodyWaitsInVain
<1>6. QED
  BY <1>2, <1>3, <1>4, <1>5 DEF CInv

\* A step of a mutation that announces nothing: files only become newer.
LEMMA UnannouncedKeeps ==
    ASSUME CInv, UNCHANGED <<caches, running, queued, acked, announced>>,
           checkout' \in PerSource, \A s \in Sources : checkout'[s] >= checkout[s]
    PROVE  CInv'
<1> USE DEF caches, running
<1>1. Shaped'
  <2>1. \A s \in Sources : announced'[s] <= checkout'[s]
    BY DEF CInv, Shaped, PerSource
  <2>2. QED
    BY <2>1 DEF CInv, Shaped
<1>2. ScansCurrent' /\ Discovered' /\ BuildsCurrent' /\ SnapshotCurrent' /\ ServedCurrent' /\ NobodyWaitsInVain'
  BY DEF CInv, ScansCurrent, Begun, Discovered, BuildsCurrent, OfItsScan, Newly, Meets, Owed, SnapshotCurrent,
         ServedCurrent, NobodyWaitsInVain, Awaits, Covers
<1>3. Answered'
  <2> SUFFICES ASSUME NEW r \in Readers, Waiting(r)
               PROVE  /\ \A s \in Sources : reader[r].owes.seen[s] <= checkout'[s]
                      /\ \A build \in builds : build.revision = reader[r].build => Meets(build, reader[r].owes, scans)
    BY DEF Answered, Waiting
  <2>1. reader[r].owes.seen \in PerSource
    BY DEF CInv, Shaped, SnapshotType
  <2>2. QED
    BY <2>1 DEF CInv, Shaped, Answered, PerSource
<1>4. QED
  BY <1>1, <1>2, <1>3 DEF CInv

\* A change is announced: what runs may be of the past from now on, but
\* nothing that may be joined is, and the runtime will read again.
LEMMA AnnouncedKeeps ==
    ASSUME CInv, NEW keep \in BOOLEAN, NotifyChanged(keep), UNCHANGED <<checkout, running>>
    PROVE  CInv'
<1> USE DEF running
<1>1. /\ revision' = revision + 1 /\ snapshot' = NoSnapshot /\ joinable' = NoPromise /\ queued' = TRUE
      /\ revision \in Nat /\ generation \in Nat
  BY DEF CInv, Shaped, NotifyChanged, InvalidateSnapshots
<1>2. \/ UNCHANGED <<generation, scanCache, scanPromises, announced>>
      \/ /\ generation' = generation + 1 /\ DOMAIN scanCache' = {} /\ DOMAIN scanPromises' = {}
         /\ announced' = checkout
  BY DEF NotifyChanged, InvalidateScans
<1>3. Shaped'
  BY <1>1, <1>2, Shapes DEF CInv, Shaped, PerSource
<1>4. ScansCurrent' /\ Discovered'
  BY <1>1, <1>2 DEF CInv, Shaped, ScansCurrent, Begun, ScanType, Discovered
<1>5. BuildsCurrent'
  BY <1>1, <1>2 DEF CInv, Shaped, BuildType, BuildsCurrent, OfItsScan, Newly
<1>6. SnapshotCurrent' /\ ServedCurrent' /\ Answered'
  BY <1>1 DEF CInv, SnapshotCurrent, ServedCurrent, Answered, Waiting, Meets, Awaits
<1>7. NobodyWaitsInVain'
  BY <1>1, <1>2 DEF CInv, NobodyWaitsInVain, Awaits
<1>8. QED
  BY <1>3, <1>4, <1>5, <1>6, <1>7 DEF CInv

\* Scans that begin now read files newer than anything owed.
LEMMA MeetsStays ==
    ASSUME NEW build, NEW owed, NEW started, NEW more, Meets(build, owed, started),
           \A scan \in more \ started, s \in Sources : scan.from[s] >= owed.seen[s]
    PROVE  Meets(build, owed, more)
  BY DEF Meets

LEMMA OwedType ==
    ASSUME IInv, CInv
    PROVE Owed \in SnapshotType /\ Owed.seen = announced /\ Owed.commit = acked /\ acked <= mem.commit
  BY DEF IInv, Typed, Saved, AckDurable, StateType, CInv, Shaped, SnapshotType, Owed

\* The scans and promises after a build of now has looked for its discovery:
\* at most one scan is added, which begins now.
Grown ==
    /\ scans \subseteq scans' /\ scans' \subseteq ScanType
    /\ \A scan \in scans' \ scans : scan.scan = generation /\ scan.from = checkout
    /\ \A fp \in DOMAIN scanPromises' : /\ scanPromises'[fp] = generation
                                        /\ \E scan \in scans' : scan.fp = fp /\ scan.scan = generation

\* A build of now is told, or will be told, all that is owed now.
LEMMA BuildsMeet ==
    ASSUME IInv, CInv, NEW fp \in PerSource, NEW skipCache \in BOOLEAN, Discovers(BuildOf(fp, skipCache))
    PROVE  /\ Grown
           /\ BuildOf(fp, skipCache) \in BuildType /\ OfItsScan(BuildOf(fp, skipCache))
           /\ BuildOf(fp, skipCache).revision = revision /\ BuildOf(fp, skipCache).generation = generation
           /\ BuildOf(fp, skipCache).at # "none"
           /\ Meets(BuildOf(fp, skipCache), Owed, scans')
           /\ BuildOf(fp, skipCache).at = "scan" => \E scan \in scans' : Awaits(BuildOf(fp, skipCache), scan)
<1> DEFINE build == BuildOf(fp, skipCache)
<1>1. /\ mem.commit \in Nat /\ acked <= mem.commit /\ Owed.commit = acked /\ Owed.seen = announced
      /\ generation \in Nat /\ revision \in Nat /\ checkout \in PerSource /\ announced \in PerSource
      /\ scans \subseteq ScanType /\ \A s \in Sources : announced[s] <= checkout[s]
  BY OwedType DEF IInv, Typed, StateType, CInv, Shaped
<1>2. /\ \A other \in DOMAIN scanPromises : /\ scanPromises[other] = generation
                                          /\ \E scan \in scans : scan.fp = other /\ scan.scan = generation
      /\ \A scan \in scans : scan.scan = generation => \A s \in Sources : scan.from[s] >= announced[s]
  BY DEF CInv, ScansCurrent, Begun, NobodyWaitsInVain
<1>3. CASE ~skipCache /\ fp \in DOMAIN scanCache
  <2>1. build = [commit |-> mem.commit, fp |-> Unseen, revision |-> revision, generation |-> generation,
                 scan |-> 0, at |-> "built", seen |-> scanCache[fp]]
    BY <1>3 DEF BuildOf
  <2>2. UNCHANGED <<scans, scanPromises>>
    BY <2>1 DEF Discovers
  <2>3. scanCache[fp] \in PerSource /\ \A s \in Sources : scanCache[fp][s] # 0 => scanCache[fp][s] >= announced[s]
    BY <1>3 DEF CInv, Shaped, Discovered
  <2>4. build \in BuildType
    BY <1>1, <2>1, <2>3, Shapes DEF BuildType
  <2>5. Grown
    BY <1>1, <1>2, <2>2 DEF Grown
  <2>6. Meets(build, Owed, scans') /\ OfItsScan(build)
    BY <1>1, <2>1, <2>3 DEF Meets, OfItsScan
  <2>7. QED
    BY <2>1, <2>4, <2>5, <2>6
<1>4. CASE ~(~skipCache /\ fp \in DOMAIN scanCache)
  <2>1. build = [commit |-> mem.commit, fp |-> fp, revision |-> revision, generation |-> generation,
                 scan |-> generation, at |-> "scan", seen |-> Unseen]
    BY <1>2, <1>4 DEF BuildOf
  <2>2. build \in BuildType /\ OfItsScan(build)
    BY <1>1, <2>1, Shapes DEF BuildType, OfItsScan
  <2>3. Grown /\ \E scan \in scans' : scan.fp = fp /\ scan.scan = generation
    <3>1. CASE fp \in DOMAIN scanPromises
      BY <1>1, <1>2, <2>1, <3>1 DEF Discovers, Grown
    <3>2. CASE fp \notin DOMAIN scanPromises
      <4> DEFINE begun == [fp |-> fp, scan |-> generation, from |-> checkout]
      <4>1. scans' = scans \cup {begun} /\ begun \in ScanType
        BY <1>1, <2>1, <3>2 DEF Discovers, ScanType
      <4>2. DOMAIN scanPromises' = DOMAIN scanPromises \cup {fp} /\ \A other \in DOMAIN scanPromises' : scanPromises'[other] = generation
        BY <1>2, <2>1, <3>2 DEF Discovers
      <4>3. QED
        BY <1>1, <1>2, <4>1, <4>2 DEF Grown
    <3>3. QED
      BY <3>1, <3>2
  <2>4. \A scan \in scans' : scan.scan = generation => \A s \in Sources : scan.from[s] >= announced[s]
    BY <1>1, <1>2, <2>3 DEF Grown, PerSource
  <2>5. Meets(build, Owed, scans')
    BY <1>1, <2>1, <2>4 DEF Meets, Awaits
  <2>6. QED
    BY <2>1, <2>2, <2>3, <2>5 DEF Awaits
<1>5. QED
  BY <1>3, <1>4

\* What runs keeps its promises when scans begin.
LEMMA GrownKeeps ==
    ASSUME IInv, CInv, Grown
    PROVE  /\ \A build \in builds : build.revision = revision => Meets(build, Owed, scans')
           /\ ~queued /\ pass.at # "none" => Meets(pass, Owed, scans')
           /\ \A r \in Readers : Waiting(r) =>
                \A build \in builds : build.revision = reader[r].build => Meets(build, reader[r].owes, scans')
           /\ \A scan \in scans' : Begun(scan)
           /\ \A build \in builds \cup {pass} : build.at = "scan" => \E scan \in scans' : Awaits(build, scan)
<1>1. /\ checkout \in PerSource /\ announced \in PerSource /\ \A s \in Sources : announced[s] <= checkout[s]
      /\ Owed.seen = announced /\ generation \in Nat
  BY OwedType DEF CInv, Shaped
<1>2. \A scan \in scans' \ scans, s \in Sources : scan.from[s] >= Owed.seen[s]
  BY <1>1 DEF Grown, PerSource
<1>3. \A build \in builds : build.revision = revision => Meets(build, Owed, scans')
  BY <1>2, MeetsStays DEF CInv, BuildsCurrent, Newly
<1>4. ~queued /\ pass.at # "none" => Meets(pass, Owed, scans')
  BY <1>2, MeetsStays DEF CInv, ServedCurrent
<1>5. ASSUME NEW r \in Readers, Waiting(r), NEW build \in builds, build.revision = reader[r].build
      PROVE  Meets(build, reader[r].owes, scans')
  <2>1. reader[r].owes.seen \in PerSource
    BY DEF CInv, Shaped, SnapshotType
  <2>2. \A scan \in scans' \ scans, s \in Sources : scan.from[s] >= reader[r].owes.seen[s]
    BY <1>1, <1>5, <2>1 DEF Grown, PerSource, CInv, Answered
  <2>3. Meets(build, reader[r].owes, scans)
    BY <1>5 DEF CInv, Answered
  <2>4. QED
    BY <2>2, <2>3, MeetsStays
<1>6. \A scan \in scans' : Begun(scan)
  BY <1>1 DEF Grown, PerSource, CInv, ScansCurrent, Begun
<1>7. \A build \in builds \cup {pass} : build.at = "scan" => \E scan \in scans' : Awaits(build, scan)
  BY DEF Grown, CInv, NobodyWaitsInVain
<1>8. QED
  BY <1>3, <1>4, <1>5, <1>6, <1>7

\* A build of the current revision starts where none runs; a reader that did
\* not wait before waits for it, and is owed what is owed now.
LEMMA StartKeeps ==
    ASSUME IInv, CInv, joinable = NoPromise, NEW skipCache \in BOOLEAN, StartsBuild(skipCache),
           UNCHANGED <<checkout, scanCache, snapshot, generation, revision, pass, served, queued, acked, announced>>,
           reader' \in [Readers -> [at : {"idle", "waiting"}, build : Nat, owes : SnapshotType]],
           \A r \in Readers : reader'[r] = reader[r] \/ (reader'[r].build = revision /\ reader'[r].owes = Owed)
    PROVE  CInv'
<1> DEFINE build == BuildOf(mem.source, skipCache)
<1>1. builds' = builds \cup {build} /\ Discovers(build) /\ joinable' = revision /\ mem.source \in PerSource
  BY DEF StartsBuild, IInv, Typed, StateType, PerSource
<1>2. /\ Grown /\ build \in BuildType /\ OfItsScan(build) /\ build.revision = revision
      /\ build.generation = generation /\ Meets(build, Owed, scans')
      /\ build.at = "scan" => \E scan \in scans' : Awaits(build, scan)
  BY <1>1, BuildsMeet
<1> HIDE DEF build
<1>3. /\ \A other \in builds : other.revision # revision
      /\ \A r \in Readers : Waiting(r) => reader[r].build # revision
      /\ revision \in Nat
  BY DEF CInv, Shaped, BuildsCurrent, Newly, NobodyWaitsInVain, Waiting, NoPromise
<1>4. Owed' = Owed /\ Owed.seen = announced /\ \A s \in Sources : announced[s] <= checkout[s]
  BY DEF Owed, CInv, Shaped
<1>5. Shaped'
  BY <1>1, <1>2 DEF CInv, Shaped, Grown
<1>6. ScansCurrent' /\ Discovered' /\ SnapshotCurrent'
  BY <1>2, <1>4, GrownKeeps DEF CInv, ScansCurrent, Begun, Grown, Discovered, SnapshotCurrent, Covers
<1>7. BuildsCurrent'
  <2>1. \A other \in builds' : other.revision <= revision /\ (OfItsScan(other))'
    BY <1>1, <1>2, <1>3 DEF CInv, BuildsCurrent, OfItsScan
  <2>2. (OfItsScan(pass))'
    BY DEF CInv, BuildsCurrent, OfItsScan
  <2>3. \A other \in builds' : (Newly(other))'
    BY <1>1, <1>2, <1>3, <1>4 DEF Newly
  <2>4. QED
    BY <1>1, <1>2, <1>3, <2>1, <2>2, <2>3 DEF CInv, BuildsCurrent
<1>8. Answered'
  <2> SUFFICES ASSUME NEW r \in Readers, reader'[r].at = "waiting"
               PROVE  /\ \A s \in Sources : reader'[r].owes.seen[s] <= checkout[s]
                      /\ \A other \in builds' : other.revision = reader'[r].build => Meets(other, reader'[r].owes, scans')
    BY DEF Answered, Waiting
  <2>1. CASE reader'[r] = reader[r]
    BY <1>1, <1>2, <1>3, <2>1, GrownKeeps DEF CInv, Answered, Waiting
  <2>2. CASE reader'[r].build = revision /\ reader'[r].owes = Owed
    BY <1>1, <1>2, <1>3, <1>4, <2>2
  <2>3. QED
    BY <2>1, <2>2
<1>9. ServedCurrent'
  BY <1>2, <1>4, GrownKeeps DEF CInv, ServedCurrent, Covers
<1>10. NobodyWaitsInVain'
  <2>1. \A r \in Readers : reader'[r].at = "waiting" => \E other \in builds' : other.revision = reader'[r].build
    BY <1>1, <1>2 DEF CInv, NobodyWaitsInVain
  <2>2. \A other \in builds' \cup {pass'} : other.at = "scan" => \E scan \in scans' : Awaits(other, scan)
    BY <1>1, <1>2, GrownKeeps
  <2>3. QED
    BY <1>1, <1>2, <2>1, <2>2 DEF NobodyWaitsInVain, Grown, Awaits
<1>11. QED
  BY <1>5, <1>6, <1>7, <1>8, <1>9, <1>10 DEF CInv

LEMMA ReadKeeps == ASSUME IInv, CInv, NEW r \in Readers, Read(r) PROVE CInv'
<1>1. /\ UNCHANGED <<checkout, scanCache, snapshot, generation, revision, pass, served, queued, acked, announced>>
      /\ reader' = [reader EXCEPT ![r] = [at |-> "waiting", owes |-> Owed,
                        build |-> IF joinable # NoPromise THEN joinable ELSE revision]]
      /\ revision \in Nat /\ joinable \in {NoPromise, revision}
  BY DEF Read, CInv, Shaped, files
<1>2. reader' \in [Readers -> [at : {"idle", "waiting"}, build : Nat, owes : SnapshotType]]
  BY <1>1, OwedType DEF CInv, Shaped
<1>3. \A other \in Readers : reader'[other] = reader[other] \/ (reader'[other].build = revision /\ reader'[other].owes = Owed)
  BY <1>1 DEF CInv, Shaped
<1>4. CASE joinable = NoPromise
  <2>1. StartsBuild(FALSE)
    BY <1>4 DEF Read
  <2>2. QED
    BY <1>1, <1>2, <1>3, <1>4, <2>1, StartKeeps
<1>5. CASE joinable # NoPromise
  <2>1. UNCHANGED <<builds, scans, scanPromises, joinable>> /\ joinable = revision
    BY <1>1, <1>5 DEF Read
  <2>2. Shaped'
    BY <1>1, <1>2, <2>1 DEF CInv, Shaped
  <2>3. ScansCurrent' /\ Discovered' /\ BuildsCurrent' /\ SnapshotCurrent' /\ ServedCurrent'
    BY <1>1, <2>1 DEF CInv, ScansCurrent, Begun, Discovered, BuildsCurrent, OfItsScan, Newly, Meets, Owed,
                      SnapshotCurrent, ServedCurrent, Awaits, Covers
  <2>4. Answered'
    <3> SUFFICES ASSUME NEW other \in Readers, reader'[other].at = "waiting"
                 PROVE  /\ \A s \in Sources : reader'[other].owes.seen[s] <= checkout[s]
                        /\ \A build \in builds : build.revision = reader'[other].build
                                                    => Meets(build, reader'[other].owes, scans)
      BY <1>1, <2>1 DEF Answered, Waiting
    <3>1. CASE reader'[other] = reader[other]
      BY <3>1 DEF CInv, Answered, Waiting
    <3>2. CASE reader'[other].build = revision /\ reader'[other].owes = Owed
      BY <3>2, OwedType DEF CInv, Shaped, BuildsCurrent, Newly
    <3>3. QED
      BY <1>3, <3>1, <3>2
  <2>5. NobodyWaitsInVain'
    <3>1. \A other \in Readers : reader'[other].at = "waiting" => \E build \in builds : build.revision = reader'[other].build
      BY <1>3, <1>5, <2>1 DEF CInv, NobodyWaitsInVain
    <3>2. QED
      BY <1>1, <2>1, <3>1 DEF CInv, NobodyWaitsInVain, Awaits
  <2>6. QED
    BY <2>2, <2>3, <2>4, <2>5 DEF CInv
<1>6. QED
  BY <1>4, <1>5

LEMMA KeepWarmKeeps == ASSUME IInv, CInv, KeepWarm PROVE CInv'
<1>1. reader' = reader /\ reader \in [Readers -> [at : {"idle", "waiting"}, build : Nat, owes : SnapshotType]]
  BY DEF KeepWarm, CInv, Shaped
<1>2. QED
  BY <1>1, StartKeeps DEF KeepWarm, files

\* The end of a build wakes whom it was to answer, and nobody else.
LEMMA BuildEndsKeeps == ASSUME CInv, NEW build \in builds, BuildEnds(build) PROVE CInv'
<1>1. /\ UNCHANGED <<checkout, scanCache, scanPromises, generation, revision, scans, pass, served, queued, acked, announced>>
      /\ builds' = builds \ {build} /\ build.at = "built" /\ build \in BuildType
      /\ joinable' = IF joinable = build.revision THEN NoPromise ELSE joinable
  BY DEF BuildEnds, Settles, CInv, Shaped, files
<1>2. \A r \in Readers : reader'[r] = NoReader
                         \/ (reader'[r] = reader[r] /\ ~(Waiting(r) /\ reader[r].build = build.revision))
  BY DEF BuildEnds, Waiting
<1>3. \A other \in builds' : other \in builds /\ other.revision # build.revision
  BY <1>1 DEF CInv, BuildsCurrent
<1>4. snapshot' = snapshot \/ (build.revision = revision /\ snapshot' = [commit |-> build.commit, seen |-> build.seen])
  BY DEF BuildEnds, Publish
<1>5. Shaped'
  <2>1. snapshot' \in SnapshotType
    BY <1>1, <1>4 DEF CInv, Shaped, BuildType, SnapshotType
  <2>2. reader' \in [Readers -> [at : {"idle", "waiting"}, build : Nat, owes : SnapshotType]]
    BY <1>2, Shapes DEF BuildEnds, CInv, Shaped
  <2>3. QED
    BY <1>1, <2>1, <2>2 DEF CInv, Shaped
<1>6. ScansCurrent' /\ Discovered'
  BY <1>1 DEF CInv, ScansCurrent, Begun, Discovered
<1>7. BuildsCurrent'
  BY <1>1, <1>3 DEF CInv, BuildsCurrent, OfItsScan, Newly, Meets, Awaits, Owed
<1>8. SnapshotCurrent'
  BY <1>1, <1>4 DEF CInv, SnapshotCurrent, BuildsCurrent, Newly, Meets, Owed, Covers
<1>9. Answered'
  <2> SUFFICES ASSUME NEW r \in Readers, reader'[r].at = "waiting"
               PROVE  /\ \A s \in Sources : reader'[r].owes.seen[s] <= checkout[s]
                      /\ \A other \in builds' : other.revision = reader'[r].build => Meets(other, reader'[r].owes, scans)
    BY <1>1 DEF Answered, Waiting
  <2>1. reader'[r] = reader[r] /\ Waiting(r)
    BY <1>2, Shapes DEF Waiting
  <2>2. QED
    BY <1>3, <2>1 DEF CInv, Answered
<1>10. ServedCurrent'
  BY <1>1 DEF CInv, ServedCurrent, Meets, Awaits, Owed, Covers
<1>11. NobodyWaitsInVain'
  <2>1. \A r \in Readers : reader'[r].at = "waiting" => \E other \in builds' : other.revision = reader'[r].build
    <3> SUFFICES ASSUME NEW r \in Readers, reader'[r].at = "waiting"
                 PROVE  \E other \in builds' : other.revision = reader'[r].build
      OBVIOUS
    <3>1. reader'[r] = reader[r] /\ Waiting(r) /\ reader[r].build # build.revision
      BY <1>2, Shapes DEF Waiting
    <3>2. PICK other \in builds : other.revision = reader[r].build
      BY <3>1 DEF CInv, NobodyWaitsInVain, Waiting
    <3>3. QED
      BY <1>1, <3>1, <3>2
  <2>2. joinable' # NoPromise => \E other \in builds' : other.revision = joinable'
    <3> SUFFICES ASSUME joinable' # NoPromise PROVE \E other \in builds' : other.revision = joinable'
      OBVIOUS
    <3>1. PICK other \in builds : other.revision = joinable
      BY <1>1 DEF CInv, NobodyWaitsInVain
    <3>2. QED
      BY <1>1, <3>1
  <2>3. QED
    BY <1>1, <2>1, <2>2 DEF CInv, NobodyWaitsInVain, Awaits
<1>12. QED
  BY <1>5, <1>6, <1>7, <1>8, <1>9, <1>10, <1>11 DEF CInv

LEMMA ExpireKeeps == ASSUME CInv, Expire PROVE CInv'
<1>1. UNCHANGED <<checkout, scanPromises, joinable, generation, revision, scans, builds, pass, served, reader, queued,
                  acked, announced>>
  BY DEF Expire, running, files
<1>2. (snapshot' = snapshot \/ snapshot' = NoSnapshot) /\ DOMAIN scanCache' \subseteq DOMAIN scanCache
      /\ \A fp \in DOMAIN scanCache' : scanCache'[fp] = scanCache[fp]
  BY DEF Expire, Restrict
<1>3. Shaped'
  BY <1>1, <1>2, Shapes DEF CInv, Shaped
<1>4. ScansCurrent' /\ Discovered' /\ SnapshotCurrent'
  BY <1>1, <1>2 DEF CInv, ScansCurrent, Begun, Discovered, SnapshotCurrent, Covers, Owed
<1>5. BuildsCurrent' /\ Answered' /\ ServedCurrent' /\ NobodyWaitsInVain'
  BY <1>1 DEF CInv, BuildsCurrent, OfItsScan, Newly, Meets, Owed, Answered, Waiting, ServedCurrent, Covers, Awaits,
              NobodyWaitsInVain
<1>6. QED
  BY <1>3, <1>4, <1>5 DEF CInv

\* A scan is over: what awaited it was told files read since the scan began.
LEMMA BuiltMeets ==
    ASSUME CInv, NEW scan \in scans, NEW seen \in PerSource,
           \A s \in Sources : IF scan.fp[s] = Unregistered THEN seen[s] = 0 ELSE seen[s] >= scan.from[s],
           NEW build \in BuildType
    PROVE  /\ Built(build, scan, seen) \in BuildType
           /\ Built(build, scan, seen).revision = build.revision
           /\ Built(build, scan, seen).generation = build.generation
           /\ Built(build, scan, seen).at = "none" <=> build.at = "none"
           /\ OfItsScan(build) => OfItsScan(Built(build, scan, seen))
           /\ \A owed \in SnapshotType : Meets(build, owed, scans)
                                           => Meets(Built(build, scan, seen), owed, scans \ {scan})
           /\ Built(build, scan, seen).at = "scan" /\ (\E other \in scans : Awaits(build, other))
                => \E other \in scans \ {scan} : Awaits(Built(build, scan, seen), other)
<1>1. CASE Awaits(build, scan)
  <2>1. Built(build, scan, seen) = [commit |-> build.commit, fp |-> Unseen, revision |-> build.revision,
                                    generation |-> build.generation, scan |-> 0, at |-> "built", seen |-> seen]
    BY <1>1 DEF Built, BuildType
  <2>2. Built(build, scan, seen) \in BuildType
    BY <2>1, Shapes DEF BuildType
  <2>3. ASSUME NEW owed \in SnapshotType, Meets(build, owed, scans)
        PROVE  Meets(Built(build, scan, seen), owed, scans \ {scan})
    <3>1. \A s \in Sources : scan.from[s] >= owed.seen[s]
      BY <1>1, <2>3 DEF Meets, Awaits
    <3>2. owed.seen \in PerSource /\ scan.from \in PerSource
      BY DEF SnapshotType, CInv, Shaped, ScanType
    <3>3. \A s \in Sources : seen[s] # 0 => seen[s] >= owed.seen[s]
      BY <3>1, <3>2 DEF PerSource
    <3>4. QED
      BY <2>1, <2>3, <3>3 DEF Meets
  <2>4. QED
    BY <1>1, <2>1, <2>2, <2>3 DEF OfItsScan, Awaits
<1>2. CASE ~Awaits(build, scan)
  <2>1. Built(build, scan, seen) = build
    BY <1>2 DEF Built
  <2>2. QED
    BY <1>2, <2>1 DEF Meets
<1>3. QED
  BY <1>1, <1>2

LEMMA ScanEndsKeeps == ASSUME IInv, CInv, NEW scan \in scans, ScanEnds(scan) PROVE CInv'
<1>1. /\ UNCHANGED <<checkout, snapshot, joinable, generation, revision, queued, served, reader, acked, announced>>
      /\ scans' = scans \ {scan}
  BY DEF ScanEnds, files
<1>2. PICK seen \in [Sources -> 0..Newest] :
        /\ \A s \in Sources : IF scan.fp[s] = Unregistered THEN seen[s] = 0
                              ELSE seen[s] \in scan.from[s]..checkout[s]
        /\ builds' = {Built(build, scan, seen) : build \in builds}
        /\ pass' = Built(pass, scan, seen)
        /\ CachesScan(scan, seen)
  BY DEF ScanEnds
<1>3. seen \in PerSource
  BY CatalogAssumption DEF CatalogAssumption, Newest, PerSource
<1>4. \A s \in Sources : IF scan.fp[s] = Unregistered THEN seen[s] = 0 ELSE seen[s] >= scan.from[s]
  BY <1>2, <1>3 DEF PerSource
<1>5. builds \subseteq BuildType /\ pass \in BuildType /\ scan \in ScanType /\ Owed \in SnapshotType /\ Owed' = Owed
      /\ Owed.seen = announced /\ announced \in PerSource
  BY <1>1, OwedType DEF CInv, Shaped, Owed
<1>6. \A build \in builds \cup {pass} :
        /\ Built(build, scan, seen) \in BuildType
        /\ Built(build, scan, seen).revision = build.revision
        /\ Built(build, scan, seen).generation = build.generation
        /\ Built(build, scan, seen).at = "none" <=> build.at = "none"
        /\ OfItsScan(build) => OfItsScan(Built(build, scan, seen))
        /\ \A owed \in SnapshotType : Meets(build, owed, scans) => Meets(Built(build, scan, seen), owed, scans \ {scan})
        /\ Built(build, scan, seen).at = "scan" /\ (\E other \in scans : Awaits(build, other))
             => \E other \in scans \ {scan} : Awaits(Built(build, scan, seen), other)
  BY <1>3, <1>4, <1>5, BuiltMeets
<1>7. /\ DOMAIN scanPromises' \subseteq DOMAIN scanPromises
      /\ \A fp \in DOMAIN scanPromises' : /\ scanPromises'[fp] = scanPromises[fp]
                                          /\ ~(fp = scan.fp /\ scanPromises[fp] = scan.scan)
  BY DEF ScanEnds, Restrict
<1>8. \/ scanCache' = scanCache
      \/ /\ scan.scan = generation
         /\ scanCache' = [fp \in DOMAIN scanCache \cup {scan.fp} |-> IF fp = scan.fp THEN seen ELSE scanCache[fp]]
  <2>1. \A build \in builds \cup {pass} : Awaits(build, scan) /\ build.generation = generation => scan.scan = generation
    BY DEF CInv, BuildsCurrent, OfItsScan, Awaits
  <2>2. QED
    BY <1>2, <2>1 DEF CachesScan
<1>9. Shaped'
  <2>1. \A fp \in DOMAIN scanCache' : scanCache'[fp] \in PerSource
    BY <1>3, <1>8 DEF CInv, Shaped
  <2>2. builds' \subseteq BuildType /\ pass' \in BuildType
    BY <1>2, <1>6
  <2>3. QED
    BY <1>1, <2>1, <2>2 DEF CInv, Shaped
<1>10. ScansCurrent'
  BY <1>1, <1>7 DEF CInv, ScansCurrent, Begun
<1>11. Discovered'
  <2>1. CASE scanCache' = scanCache
    BY <1>1, <2>1 DEF CInv, Discovered
  <2>2. CASE /\ scan.scan = generation
             /\ scanCache' = [fp \in DOMAIN scanCache \cup {scan.fp} |-> IF fp = scan.fp THEN seen ELSE scanCache[fp]]
    <3>1. \A s \in Sources : scan.from[s] >= announced[s] /\ scan.from[s] \in Nat
      BY <1>5, <2>2 DEF CInv, ScansCurrent, Begun, ScanType, PerSource
    <3>2. \A s \in Sources : IF scan.fp[s] = Unregistered THEN seen[s] = 0 ELSE seen[s] >= announced[s]
      BY <1>3, <1>4, <1>5, <3>1 DEF PerSource
    <3>3. QED
      BY <1>1, <2>2, <3>2 DEF CInv, Discovered
  <2>3. QED
    BY <1>8, <2>1, <2>2
<1>12. BuildsCurrent'
  <2>1. \A build \in builds' : build.revision <= revision /\ (OfItsScan(build))' /\ (Newly(build))'
    <3> SUFFICES ASSUME NEW old \in builds, NEW build, build = Built(old, scan, seen)
                 PROVE  build.revision <= revision /\ (OfItsScan(build))' /\ (Newly(build))'
      BY <1>2
    <3>1. old.revision <= revision /\ OfItsScan(old) /\ Newly(old)
      BY DEF CInv, BuildsCurrent
    <3>2. build.revision = old.revision /\ build.generation = old.generation /\ OfItsScan(build)
      BY <1>6, <3>1
    <3>3. Meets(old, Owed, scans) => Meets(build, Owed, scans \ {scan})
      BY <1>5, <1>6
    <3>4. QED
      BY <1>1, <1>5, <3>1, <3>2, <3>3 DEF OfItsScan, Newly
  <2>2. (OfItsScan(pass))'
    BY <1>1, <1>2, <1>6 DEF CInv, BuildsCurrent, OfItsScan
  <2>3. \A build, other \in builds' : build.revision = other.revision => build = other
    BY <1>2, <1>6 DEF CInv, BuildsCurrent
  <2>4. QED
    BY <1>1, <2>1, <2>2, <2>3 DEF BuildsCurrent
<1>13. SnapshotCurrent'
  BY <1>1 DEF CInv, SnapshotCurrent, Covers, Owed
<1>14. Answered'
  <2> SUFFICES ASSUME NEW r \in Readers, Waiting(r)
               PROVE  /\ \A s \in Sources : reader[r].owes.seen[s] <= checkout[s]
                      /\ \A build \in builds' : build.revision = reader[r].build
                                                  => Meets(build, reader[r].owes, scans \ {scan})
    BY <1>1 DEF Answered, Waiting
  <2>1. reader[r].owes \in SnapshotType
    BY DEF CInv, Shaped
  <2>2. QED
    BY <1>2, <1>6, <2>1 DEF CInv, Answered
<1>15. ServedCurrent'
  <2>1. pass.at # "none" /\ ~queued => Meets(pass', Owed, scans \ {scan})
    BY <1>2, <1>5, <1>6 DEF CInv, ServedCurrent
  <2>2. pass'.at = "none" <=> pass.at = "none"
    BY <1>2, <1>6
  <2>3. QED
    BY <1>1, <1>5, <2>1, <2>2 DEF CInv, ServedCurrent, Covers
<1>16. NobodyWaitsInVain'
  <2>1. \A r \in Readers : reader'[r].at = "waiting" => \E build \in builds' : build.revision = reader'[r].build
    BY <1>1, <1>2, <1>6 DEF CInv, NobodyWaitsInVain
  <2>2. \A build \in builds' \cup {pass'} : build.at = "scan" => \E other \in scans' : Awaits(build, other)
    <3> SUFFICES ASSUME NEW old \in builds \cup {pass}, NEW build, build = Built(old, scan, seen), build.at = "scan"
                 PROVE  \E other \in scans \ {scan} : Awaits(build, other)
      BY <1>1, <1>2
    <3>1. old.at = "scan"
      BY DEF Built
    <3>2. \E other \in scans : Awaits(old, other)
      BY <3>1 DEF CInv, NobodyWaitsInVain
    <3>3. QED
      BY <1>6, <3>2
  <2>3. joinable' # NoPromise => \E build \in builds' : build.revision = joinable'
    BY <1>1, <1>2, <1>6 DEF CInv, NobodyWaitsInVain
  <2>4. \A fp \in DOMAIN scanPromises' : \E other \in scans' : other.fp = fp /\ other.scan = scanPromises'[fp]
    <3> SUFFICES ASSUME NEW fp \in DOMAIN scanPromises'
                 PROVE  \E other \in scans' : other.fp = fp /\ other.scan = scanPromises'[fp]
      OBVIOUS
    <3>1. PICK other \in scans : other.fp = fp /\ other.scan = scanPromises[fp]
      BY <1>7 DEF CInv, NobodyWaitsInVain
    <3>2. QED
      BY <1>1, <1>7, <3>1
  <2>5. QED
    BY <2>1, <2>2, <2>3, <2>4 DEF NobodyWaitsInVain, Awaits
<1>17. QED
  BY <1>9, <1>10, <1>11, <1>12, <1>13, <1>14, <1>15, <1>16 DEF CInv

LEMMA RuntimeReadsKeeps == ASSUME IInv, CInv, RuntimeReads PROVE CInv'
<1> DEFINE fp == Enabled(mem)
           build == BuildOf(fp, FALSE)
<1>1. /\ UNCHANGED <<checkout, scanCache, snapshot, joinable, generation, revision, builds, served, reader, acked, announced>>
      /\ queued' = FALSE
      /\ IF fp = Unseen THEN pass' = [build EXCEPT !.at = "built"] /\ UNCHANGED <<scans, scanPromises>>
                        ELSE pass' = build /\ Discovers(build)
  BY DEF RuntimeReads, files
<1>2. fp \in PerSource
  BY DEF IInv, Typed, StateType, Enabled, PerSource, Unregistered
<1>3. Owed' = Owed
  BY <1>1 DEF Owed
<1>4. /\ Grown /\ pass' \in BuildType /\ OfItsScan(pass') /\ pass'.at # "none" /\ Meets(pass', Owed, scans')
      /\ pass'.at = "scan" => \E scan \in scans' : Awaits(pass', scan)
  <2>1. CASE fp = Unseen
    <3>1. /\ mem.commit \in Nat /\ acked <= mem.commit /\ Owed.commit = acked /\ Owed.seen = announced
          /\ generation \in Nat /\ revision \in Nat
      BY OwedType DEF IInv, Typed, StateType, CInv, Shaped
    <3>2. /\ build.seen \in PerSource /\ \A s \in Sources : build.seen[s] # 0 => build.seen[s] >= announced[s]
          /\ build.fp \in PerSource /\ build.scan \in Nat
      BY <1>2, <2>1, Shapes DEF BuildOf, CInv, Shaped, Discovered, ScansCurrent
    <3>3. pass' = [commit |-> mem.commit, fp |-> build.fp, revision |-> revision, generation |-> generation,
                   scan |-> build.scan, at |-> "built", seen |-> build.seen]
      BY <1>1, <2>1 DEF BuildOf
    <3>4. Grown
      BY <1>1, <2>1 DEF Grown, CInv, Shaped, ScansCurrent, NobodyWaitsInVain
    <3> HIDE DEF build
    <3>5. pass' \in BuildType
      BY <3>1, <3>2, <3>3 DEF BuildType
    <3>6. QED
      BY <3>1, <3>2, <3>3, <3>4, <3>5 DEF OfItsScan, Meets
  <2>2. CASE fp # Unseen
    BY <1>1, <1>2, <2>2, BuildsMeet
  <2>3. QED
    BY <2>1, <2>2
<1> HIDE DEF build
<1>5. Shaped'
  BY <1>1, <1>4 DEF CInv, Shaped, Grown
<1>6. ScansCurrent' /\ Discovered' /\ SnapshotCurrent'
  BY <1>1, <1>3, <1>4, GrownKeeps DEF CInv, ScansCurrent, Begun, Grown, Discovered, SnapshotCurrent, Covers
<1>7. BuildsCurrent'
  BY <1>1, <1>3, <1>4, GrownKeeps DEF CInv, BuildsCurrent, OfItsScan, Newly
<1>8. Answered' /\ ServedCurrent'
  BY <1>1, <1>3, <1>4, GrownKeeps DEF CInv, Answered, Waiting, ServedCurrent
<1>9. NobodyWaitsInVain'
  <2>1. \A other \in builds' \cup {pass'} : other.at = "scan" => \E scan \in scans' : Awaits(other, scan)
    BY <1>1, <1>4, GrownKeeps
  <2>2. QED
    BY <1>1, <1>4, <2>1 DEF CInv, NobodyWaitsInVain, Grown, Awaits
<1>10. QED
  BY <1>5, <1>6, <1>7, <1>8, <1>9 DEF CInv

LEMMA RuntimeServedKeeps == ASSUME CInv, RuntimeServed PROVE CInv'
<1>1. /\ UNCHANGED <<checkout, scanCache, scanPromises, snapshot, joinable, generation, revision, scans, builds, reader,
                     queued, acked, announced>>
      /\ pass.at = "built" /\ pass' = NoBuild /\ served' = [commit |-> pass.commit, seen |-> pass.seen]
      /\ pass \in BuildType
  BY DEF RuntimeServed, files, caches, CInv, Shaped
<1>2. Shaped'
  BY <1>1, Shapes DEF CInv, Shaped, BuildType, SnapshotType
<1>3. BuildsCurrent'
  <2>1. (OfItsScan(pass))'
    BY <1>1, Shapes DEF OfItsScan, CInv, Shaped
  <2>2. QED
    BY <1>1, <2>1 DEF CInv, BuildsCurrent, OfItsScan, Newly, Meets, Awaits, Owed
<1>4. ScansCurrent' /\ Discovered' /\ SnapshotCurrent' /\ Answered'
  BY <1>1 DEF CInv, ScansCurrent, Begun, Discovered, SnapshotCurrent, Covers, Owed, Answered, Waiting, Meets, Awaits
<1>5. ServedCurrent'
  BY <1>1, Shapes DEF CInv, ServedCurrent, Meets, Covers, Owed
<1>6. NobodyWaitsInVain'
  BY <1>1, Shapes DEF CInv, NobodyWaitsInVain, Awaits
<1>7. QED
  BY <1>2, <1>3, <1>4, <1>5, <1>6 DEF CInv

LEMMA RestartKeeps == ASSUME CInv, Restart PROVE CInv'
<1>1. /\ checkout' = checkout /\ announced' = checkout /\ snapshot' = NoSnapshot /\ joinable' = NoPromise
      /\ DOMAIN scanCache' = {} /\ DOMAIN scanPromises' = {} /\ generation' = 1 /\ revision' = 0
      /\ scans' = {} /\ builds' = {} /\ pass' = NoBuild /\ queued' = TRUE /\ served' = NoSnapshot
      /\ reader' = [r \in Readers |-> NoReader]
  BY DEF Restart, files
<1>2. Shaped'
  BY <1>1, Shapes DEF CInv, Shaped, PerSource
<1>3. ScansCurrent' /\ Discovered' /\ BuildsCurrent'
  BY <1>1, Shapes DEF ScansCurrent, Discovered, BuildsCurrent, OfItsScan
<1>4. SnapshotCurrent' /\ Answered' /\ ServedCurrent'
  BY <1>1, Shapes DEF SnapshotCurrent, Answered, Waiting, ServedCurrent
<1>5. NobodyWaitsInVain'
  BY <1>1, Shapes DEF NobodyWaitsInVain
<1>6. QED
  BY <1>2, <1>3, <1>4, <1>5 DEF CInv

\* What a mutation does to files makes them newer.
LEMMA Newer ==
    ASSUME CInv, NEW s,
           UNCHANGED files \/ checkout' = [checkout EXCEPT ![s] = @ + 1]
    PROVE  checkout' \in PerSource /\ \A other \in Sources : checkout'[other] >= checkout[other]
<1>1. checkout \in PerSource
  BY DEF CInv, Shaped
<1>2. QED
  BY <1>1 DEF PerSource, files

LEMMA MutationKeeps == ASSUME IInv, CInv, Mutation PROVE CInv'
<1>1. CASE Begin \/ Discover \/ Name \/ Save
  <2>1. UNCHANGED <<files, caches, running, queued, acked, announced>>
    BY <1>1, Zenon DEF Begin, Begins, BeginInstall, BeginEntry, BeginAdd, BeginUpdate, BeginRemove, BeginRefresh, Discover, Name, Save
  <2>2. QED
    BY <2>1, Newer, UnannouncedKeeps
<1>2. CASE Acquire \/ Remove
  <2>1. UNCHANGED <<caches, running, queued, acked, announced>> /\ (UNCHANGED files \/ checkout' = [checkout EXCEPT ![op.src] = @ + 1])
    BY <1>2 DEF Acquire, Remove, Fetched, Deleted
  <2>2. QED
    BY <2>1, Newer, UnannouncedKeeps
<1>3. CASE Notify
  <2>1. (op.kind \in {"install", "entry"}) \in BOOLEAN /\ NotifyChanged(op.kind \in {"install", "entry"})
    BY <1>3 DEF Notify
  <2>2. UNCHANGED <<checkout, running>>
    BY <1>3 DEF Notify, files
  <2>3. QED
    BY <2>1, <2>2, AnnouncedKeeps
<1>4. CASE Reject
  <2>1. UNCHANGED <<caches, running, queued, acked, announced>> /\ \E s : (UNCHANGED files \/ checkout' = [checkout EXCEPT ![s] = @ + 1])
    BY <1>4 DEF Reject, BrokenOff
  <2>2. QED
    BY <2>1, Newer, UnannouncedKeeps
<1>5. ASSUME NEW s \in Sources, Sync(s) PROVE CInv'
  <2>1. UNCHANGED <<caches, running, queued, acked, announced>> /\ (UNCHANGED files \/ checkout' = [checkout EXCEPT ![s] = @ + 1])
    BY <1>5 DEF Sync, Fetched
  <2>2. QED
    BY <2>1, Newer, UnannouncedKeeps
<1>6. QED
  BY <1>1, <1>2, <1>3, <1>4, <1>5 DEF Mutation

LEMMA StepKeeps == ASSUME IInv, CInv, [Next]_vars PROVE CInv'
<1>1. CASE Mutation
  BY <1>1, MutationKeeps
<1>2. CASE PanelsChanged
  BY <1>2, AnnouncedKeeps DEF PanelsChanged, files
<1>3. CASE Reading
  BY <1>3, ReadKeeps, ScanEndsKeeps, BuildEndsKeeps, KeepWarmKeeps, ExpireKeeps DEF Reading
<1>4. CASE RuntimeReads
  BY <1>4, RuntimeReadsKeeps
<1>5. CASE RuntimeServed
  BY <1>5, RuntimeServedKeeps
<1>6. CASE Restart
  BY <1>6, RestartKeeps
<1>7. CASE UNCHANGED vars
  <2>1. UNCHANGED <<files, caches, running, queued, acked, announced>>
    BY <1>7 DEF vars
  <2>2. QED
    BY <2>1, Newer, UnannouncedKeeps
<1>8. QED
  BY <1>1, <1>2, <1>3, <1>4, <1>5, <1>6, <1>7 DEF Next

\* CInv holds in every state of every behaviour.
THEOREM CachesInductive == Spec => []CInv
<1>1. Init => CInv
  BY CInitHolds
<1>2. IInv /\ CInv /\ [Next]_vars => CInv'
  BY StepKeeps
<1>3. QED
  BY <1>1, <1>2, Inductive, PTL DEF Spec

\* Nothing cached is older than the last invalidation: the snapshot holds
\* every acknowledged mutation, and a discovery that a later build replays
\* was read after discovery was last dropped (SnapshotCache).
THEOREM CachesAreCurrent == Spec => []CachesCurrent
<1>1. CInv => CachesCurrent
  BY DEF CInv, SnapshotCurrent, Discovered, CachesCurrent
<1>2. QED
  BY <1>1, CachesInductive, PTL

\* A reader has its build, a build its scan, and what can be joined runs
\* (userSnapshotPromise, scanPromises).
THEOREM NobodyWaits == Spec => []NobodyWaitsInVain
<1>1. CInv => NobodyWaitsInVain
  BY DEF CInv
<1>2. QED
  BY <1>1, CachesInductive, PTL

\* Once nothing is owed or under way, the runtime was served everything,
\* also what was announced while it read (CatalogContext.notifyChanged).
THEOREM RuntimeIsCurrent == Spec => []RuntimeCurrent
<1>1. CInv => RuntimeCurrent
  BY Shapes DEF CInv, ServedCurrent, RuntimeCurrent
<1>2. QED
  BY <1>1, CachesInductive, PTL

\* An answer holds all that was acknowledged and announced before the
\* question, whichever build and scan it shares (loadUserSnapshot, build).
THEOREM ReadersSeeAcked == Spec => ReadSeesAcked
<1> DEFINE Answers == \A r \in Readers, build \in builds \ builds' :
    reader[r].at = "waiting" /\ reader[r].build = build.revision /\ build.at = "built" => Covers(build, reader[r].owes)
<1>1. CInv => [Answers]_vars
  BY DEF CInv, Answered, Waiting, Meets, Covers
<1>2. QED
  BY <1>1, CachesInductive, PTL DEF ReadSeesAcked

-----------------------------------------------------------------------------
(* The loops between a change and the pass that serves it: the scheduler's  *)
(* types, and its promise that no change is lost, for every number of       *)
(* changes.                                                                 *)

\* What will still be read again: by a round of the loop, by the follow-up
\* of the pass in flight, or by the debounced flush.
ReadAgain(i) == refreshQueued \/ requested \/ (armed /\ i = "secrets")

\* A queued round has a loop to run it.
Looped == refreshQueued => refreshing

\* Until disposal the pass in flight has read the newest version of an input,
\* or not read it yet, or it will be read again.
Fresh ==
    reconciling.at # "idle" /\ ~disposed => \A i \in Inputs : reconciling.read[i] \in {Unread, version[i]} \/ ReadAgain(i)

\* What a pass has put into force is what it has read.
Published ==
    reconciling.at = "mounting" => \A i \in {"suites", "declarations"} : applied[i] = reconciling.read[i] /\ applied[i] # Unread

\* Between passes the newest version of an input is served, or it will be.
Settled ==
    reconciling.at = "idle" /\ ~rejected /\ ~disposed
        => \A i \in Inputs : applied[i] = version[i] \/ refreshQueued \/ (armed /\ i = "secrets")

SchedulerInv == SchedulerType /\ Looped /\ Fresh /\ Published /\ Settled

\* Neither a pass that just started nor an idle scheduler has read anything.
LEMMA NothingRead ==
    /\ NewPass \in Passes /\ NewPass.at = "reading" /\ \A i \in Inputs : NewPass.read[i] = Unread
    /\ NoPass \in Passes /\ NoPass.at = "idle"
  BY DEF NewPass, NoPass, Blank, Passes, InputVersions, Unread

\* The first pass has read nothing yet.
LEMMA SchedulerStarts == SchedulerInit => SchedulerInv
<1> SUFFICES ASSUME SchedulerInit PROVE SchedulerInv
  OBVIOUS
<1>1. SchedulerType
  <2>1. applied \in InputVersions /\ version \in InputVersions
    BY DEF SchedulerInit, InputVersions, Blank, Unread
  <2>2. QED
    BY <2>1, NothingRead DEF SchedulerInit, SchedulerType
<1>2. Looped /\ Fresh /\ Published /\ Settled
  BY NothingRead DEF SchedulerInit, Looped, Fresh, Published, Settled
<1>3. QED
  BY <1>1, <1>2 DEF SchedulerInv

\* A request is remembered by the pass in flight, or starts one that has read
\* nothing, or comes from a disposed scheduler.
LEMMA RequestOutcome ==
    ASSUME SchedulerType, Request
    PROVE  /\ requested' \in BOOLEAN /\ reconciling' \in Passes
           /\ \/ disposed /\ requested' = requested /\ reconciling' = reconciling
              \/ requested' = TRUE /\ reconciling' = reconciling /\ reconciling.at # "idle"
              \/ reconciling' = NewPass /\ reconciling.at = "idle"
  BY NothingRead DEF SchedulerType, Request, scheduler

\* What a pass leaves behind when it ends or runs again.
LEMMA EndOutcome ==
    ASSUME SchedulerType, EndOrRepeat
    PROVE  /\ requested' \in BOOLEAN /\ reconciling' \in Passes
           /\ \/ reconciling' = NewPass
              \/ reconciling' = NoPass /\ requested' = requested /\ (disposed \/ ~requested)
  BY NothingRead DEF SchedulerType, EndOrRepeat

\* Whatever has changed, a request makes good for it.
LEMMA RequestHolds ==
    ASSUME SchedulerInv, Request, version' \in InputVersions, UNCHANGED <<applied, rejected, disposed>>,
           refreshing' \in BOOLEAN, refreshQueued' \in BOOLEAN, armed' \in BOOLEAN,
           refreshQueued' => refreshing'
    PROVE  SchedulerInv'
<1>1. SchedulerType /\ Looped /\ Fresh /\ Published /\ Settled
  BY DEF SchedulerInv
<1>2. SchedulerType'
  <2>1. (reconciling.at = "mounting" => Unread \notin {reconciling.read["suites"], reconciling.read["declarations"]})'
    BY <1>1, RequestOutcome, NothingRead DEF SchedulerType, Unread
  <2>2. QED
    BY <1>1, <2>1, RequestOutcome DEF SchedulerType
<1>3. Fresh'
  BY <1>1, RequestOutcome, NothingRead DEF Fresh, ReadAgain
<1>4. Published'
  BY <1>1, RequestOutcome, NothingRead DEF Published
<1>5. Settled'
  BY <1>1, RequestOutcome, NothingRead DEF Settled
<1>6. QED
  BY <1>2, <1>3, <1>4, <1>5 DEF SchedulerInv, Looped

\* Every step preserves the invariant.
LEMMA SchedulerSteps == SchedulerInv /\ [SchedulerNext]_schedulerVars => SchedulerInv'
<1> SUFFICES ASSUME SchedulerInv, [SchedulerNext]_schedulerVars PROVE SchedulerInv'
  OBVIOUS
<1> USE NothingRead DEF SchedulerInv, SchedulerType, InputVersions, Looped, Fresh, Published, Settled, ReadAgain
<1>1. CASE CatalogChanges
  <2>1. CASE refreshing
    BY <1>1, <2>1, SMT DEF CatalogChanges, scheduler, Inputs, Unread
  <2>2. CASE ~refreshing /\ Request
    <3>1. version' \in InputVersions /\ refreshing' = TRUE /\ refreshQueued' = FALSE
      BY <1>1, <2>2 DEF CatalogChanges, Inputs
    <3>2. QED
      BY <1>1, <2>2, <3>1, RequestHolds DEF CatalogChanges
  <2>3. QED
    BY <1>1, <2>1, <2>2 DEF CatalogChanges
<1>2. CASE PolicyChanges
  <2>1. version' \in InputVersions
    BY <1>2 DEF PolicyChanges, Inputs
  <2>2. QED
    BY <1>2, <2>1, RequestHolds DEF PolicyChanges
<1>3. CASE RoundEnds
  <2>1. CASE refreshQueued /\ Request
    BY <1>3, <2>1, RequestHolds DEF RoundEnds
  <2>2. CASE ~refreshQueued
    <3>1. refreshing' = FALSE /\ UNCHANGED <<version, refreshQueued, requested, reconciling, armed, applied, rejected, disposed>>
      BY <1>3, <2>2 DEF RoundEnds, scheduler
    <3>2. QED
      BY <2>2, <3>1
  <2>3. QED
    BY <1>3, <2>1, <2>2 DEF RoundEnds
<1>4. CASE CredentialUpdated
  BY <1>4, SMT DEF CredentialUpdated, scheduler, Inputs, Unread
<1>5. CASE FlushCredentialUpdates
  BY <1>5, RequestHolds DEF FlushCredentialUpdates
<1>6. ASSUME NEW i \in Inputs, Reads(i) PROVE SchedulerInv'
  BY <1>6, SMT DEF Reads, Readable, Passes, Inputs, Unread
<1>7. CASE Publishes
  <2>1. CASE disposed
    BY <1>7, <2>1, EndOutcome, NothingRead DEF Publishes
  <2>2. CASE ~disposed
    BY <1>7, <2>2, SMT DEF Publishes, Passes, Inputs, Unread
  <2>3. QED
    BY <1>7, <2>1, <2>2
<1>8. CASE Mounts
  <2>1. applied' \in InputVersions /\ reconciling.at = "mounting"
    BY <1>8 DEF Mounts, Passes, Inputs
  <2>2. \A i \in Inputs : applied'[i] = reconciling.read[i] /\ reconciling.read[i] # Unread
    BY <1>8, SMT DEF Mounts, Passes, Inputs, Unread
  <2>3. CASE reconciling' = NewPass
    BY <1>8, <2>1, <2>3, EndOutcome DEF Mounts
  <2>4. CASE reconciling' = NoPass /\ requested' = requested /\ (disposed \/ ~requested)
    BY <1>8, <2>1, <2>2, <2>4, EndOutcome DEF Mounts
  <2>5. QED
    BY <1>8, <2>3, <2>4, EndOutcome DEF Mounts
<1>9. CASE Rejects
  BY <1>9, SMT DEF Rejects, Inputs, Unread
<1>10. CASE Dispose
  <2>1. disposed' = TRUE /\ armed' = FALSE
    BY <1>10 DEF Dispose
  <2>2. UNCHANGED <<version, refreshing, refreshQueued, requested, reconciling, applied, rejected>>
    BY <1>10 DEF Dispose, scheduler
  <2>3. QED
    BY <2>1, <2>2
<1>11. CASE UNCHANGED schedulerVars
  <2>1. UNCHANGED <<version, refreshing, refreshQueued, requested, reconciling, armed, applied, rejected, disposed>>
    BY <1>11 DEF schedulerVars, scheduler
  <2>2. QED
    BY <2>1
<1>12. QED
  BY <1>1, <1>2, <1>3, <1>4, <1>5, <1>6, <1>7, <1>8, <1>9, <1>10, <1>11 DEF SchedulerNext, PassStep

\* Every reachable state satisfies the invariant.
LEMMA SchedulerInductive == SchedulerSpec => []SchedulerInv
  BY SchedulerStarts, SchedulerSteps, PTL DEF SchedulerSpec

\* The scheduler's state keeps its types, whatever changes and rejects.
THEOREM SchedulerTypesHold == SchedulerSpec => []SchedulerType
<1>1. SchedulerInv => SchedulerType
  BY DEF SchedulerInv
<1>2. QED
  BY <1>1, SchedulerInductive, PTL

\* No change is lost: once both loops and the debounce are at rest, the
\* newest version of every input is served, unless the last pass rejected.
THEOREM NothingIsLost == SchedulerSpec => []RestServesNewest
<1>1. SchedulerInv => RestServesNewest
  <2> SUFFICES ASSUME SchedulerInv, AtRest, ~rejected, ~disposed PROVE applied = version
    BY DEF RestServesNewest
  <2>1. \A i \in Inputs : applied[i] = version[i]
    BY DEF SchedulerInv, Settled, Looped, AtRest
  <2>2. QED
    BY <2>1 DEF SchedulerInv, SchedulerType, InputVersions
<1>2. QED
  BY <1>1, SchedulerInductive, PTL

\* A disposed scheduler publishes nothing any more.
THEOREM NothingAfterDisposal == SchedulerSpec => DisposedPublishesNothing
<1> DEFINE Kept == \A i \in {"suites", "declarations"} : applied'[i] = applied[i]
<1>1. ASSUME SchedulerInv, [SchedulerNext]_schedulerVars, disposed PROVE Kept
  <2>1. CASE UNCHANGED applied
    BY <2>1
  <2>2. CASE Publishes
    BY <1>1, <2>2 DEF Publishes
  <2>3. CASE Mounts
    BY <1>1, <2>3, SMT DEF Mounts, SchedulerInv, SchedulerType, InputVersions, Inputs
  <2>4. QED
    BY <1>1, <2>1, <2>2, <2>3 DEF SchedulerNext, PassStep, CatalogChanges, PolicyChanges, RoundEnds, CredentialUpdated,
       FlushCredentialUpdates, Reads, Rejects, Dispose, schedulerVars
<1>2. SchedulerInv /\ [SchedulerNext]_schedulerVars => [disposed => Kept]_schedulerVars
  BY <1>1
<1>3. QED
  BY <1>2, SchedulerInductive, PTL DEF SchedulerSpec, DisposedPublishesNothing
=============================================================================
