--------------------------- MODULE CatalogState ---------------------------
(* The user dimension of the catalog: mutations of its persisted state, run *)
(* one at a time; the checkouts they fetch and delete; and the discovery    *)
(* scans and snapshots readers and the runtime are served from.             *)
(* A source stands for its one suite. A checkout is a version, raised by    *)
(* every change of its files. Sources are managed checkouts: local and      *)
(* adopted directories, which the market never writes, are left out.        *)
EXTENDS Integers, Functions

CONSTANTS
    Sources,
    NoSource,
    Readers,
    Kinds,         \* the mutations users ask for
    MaxAddresses,  \* urls and branches a source can have, the numbers from 1
    MaxMutations,  \* bound on mutations and on changes of the panels
    MaxFailures,   \* bound on failing file and network operations
    MaxRestarts,   \* bound on restarts of the process
    MaxRefreshes   \* bound on keep-warm refreshes of the snapshot and restarts together

AllKinds == {"install", "entry", "add", "update", "remove", "delete", "refresh"}
ASSUME CatalogAssumption ==
    /\ NoSource \notin Sources
    /\ Kinds \subseteq AllKinds
    /\ MaxAddresses \in Nat \ {0}
    /\ MaxMutations \in Nat /\ MaxFailures \in Nat /\ MaxRestarts \in Nat /\ MaxRefreshes \in Nat

VARIABLES
    mem,           \* the state in memory (currentState), numbered by commits
    disk,          \* the state in the file
    checkout,      \* per source, the version of its files
    present,       \* the sources whose checkout directory exists
    op,            \* the mutation at the head of the queue
    generation,    \* scanGeneration
    revision,      \* revision
    scanCache,     \* per fingerprint, the versions a finished scan saw
    scanPromises,  \* per fingerprint, the scan a build may join
    scans,         \* the scans that run
    snapshot,      \* userSnapshot
    joinable,      \* userSnapshotPromise: the build a reader may join
    builds,        \* the user builds that run
    queued,        \* a derived refresh is owed
    pass,          \* the build of the runtime's read
    served,        \* what the runtime was last served
    reader,        \* per reader, the build it awaits and what the answer owes it
    acked,         \* the last commit a mutation that succeeded made
    announced,     \* per source, its version when discovery was last dropped
    mutations, failures, restarts, refreshes

files == <<checkout, present>>
caches == <<scanCache, scanPromises, snapshot, joinable, generation, revision>>
running == <<scans, builds, pass, served, reader>>
counts == <<mutations, failures, restarts, refreshes>>
vars == <<mem, disk, files, op, caches, running, queued, acked, announced, counts>>

Unregistered == 0
Entries == {"none", "off", "on"}
Addresses(s) == (1..MaxAddresses) \ {mem.source[s]}
Unseen == [s \in Sources |-> 0]

Op(kind, s, at) == [kind |-> kind, src |-> s, at |-> at, todo |-> {}]
NoOp == Op("none", NoSource, "idle")

\* The state with one entry rewritten, one source addressed, or one removed
WithEntry(s, entry) ==
    [source |-> mem.source, installed |-> [mem.installed EXCEPT ![s] = entry], commit |-> mem.commit + 1]
WithSource(s, address) ==
    [source |-> [mem.source EXCEPT ![s] = address], installed |-> mem.installed, commit |-> mem.commit + 1]
WithoutSource(s) ==
    [source |-> [mem.source EXCEPT ![s] = Unregistered], installed |-> [mem.installed EXCEPT ![s] = "none"],
     commit |-> mem.commit + 1]

NoSnapshot == [commit |-> -1, seen |-> Unseen]
NoBuild == [commit |-> -1, fp |-> Unseen, revision |-> 0, generation |-> 0, scan |-> 0, at |-> "none", seen |-> Unseen]
NoReader == [at |-> "idle", build |-> 0, owes |-> NoSnapshot]
NoPromise == -1

-----------------------------------------------------------------------------
(* Invalidation: CatalogContext and SnapshotCache                           *)

\* Mutant: the build in flight stays joinable.
KeepsPromise == snapshot' = NoSnapshot /\ UNCHANGED joinable
InvalidateSnapshots == snapshot' = NoSnapshot /\ joinable' = NoPromise

InvalidateScans ==
    /\ generation' = generation + 1
    /\ scanCache' = <<>> /\ scanPromises' = <<>>

\* Mutant: the discovery cache is kept whatever changed.
KeepsScans(keep) ==
    /\ UNCHANGED <<generation, scanCache, scanPromises>>
    /\ revision' = revision + 1 /\ InvalidateSnapshots
    /\ queued' = TRUE
    /\ announced' = IF keep THEN announced ELSE checkout

\* keep: the mutation left every checkout alone, so discovery stays cached.
NotifyChanged(keep) ==
    /\ IF keep THEN UNCHANGED <<generation, scanCache, scanPromises>> ELSE InvalidateScans
    /\ revision' = revision + 1 /\ InvalidateSnapshots
    /\ queued' = TRUE
    /\ announced' = IF keep THEN announced ELSE checkout

-----------------------------------------------------------------------------
(* Steps of a mutation                                                      *)

Fails == failures < MaxFailures /\ failures' = failures + 1

\* Mutant: the document is written behind the acknowledged mutation.
CommitUnsaved(next) ==
    /\ mem' = next
    /\ op' = [op EXCEPT !.at = IF op.kind = "delete" THEN "remove" ELSE "notify"]

\* Memory takes the new state at once; the file follows.
Commit(next) ==
    /\ mem' = next
    /\ op' = [op EXCEPT !.at = "save"]

\* An operation on the files of s succeeds, or breaks off and may have
\* changed or removed some of them.
Fetched(s) == checkout' = [checkout EXCEPT ![s] = @ + 1] /\ present' = present \cup {s}
Deleted(s) == checkout' = [checkout EXCEPT ![s] = @ + 1] /\ present' = present \ {s}
BrokenOff(s) ==
    \/ UNCHANGED files
    \/ checkout' = [checkout EXCEPT ![s] = @ + 1] /\ present' \in {present \cup {s}, present \ {s}}

\* The queue hands out the next mutation; the rest of the enqueued ones have
\* done nothing yet, so only the one that runs is state.
Begins(kind) ==
    /\ kind \in Kinds /\ op = NoOp /\ mutations < MaxMutations
    /\ mutations' = mutations + 1
    /\ UNCHANGED <<disk, files, caches, running, queued, acked, announced, failures, restarts, refreshes>>

BeginInstall(s) ==
    /\ Begins("install") /\ mem.source[s] # Unregistered
    /\ op' = Op("install", s, IF s \in present THEN "discover" ELSE "acquire")
    /\ UNCHANGED mem

\* uninstall, setEnabled and setSurface rewrite an existing entry at once.
BeginEntry(s, entry) ==
    /\ Begins("entry") /\ mem.installed[s] # "none"
    /\ mem' = WithEntry(s, entry)
    /\ op' = Op("entry", s, "save")

\* pickSourceId takes a name that neither a source nor a directory has.
BeginAdd(s) ==
    /\ Begins("add") /\ mem.source[s] = Unregistered /\ s \notin present
    /\ op' = Op("add", s, "acquire")
    /\ UNCHANGED mem

\* A new url deletes the checkout first; a new branch is only committed.
BeginUpdate(s) ==
    /\ Begins("update") /\ mem.source[s] # Unregistered
    /\ \/ op' = Op("update", s, "remove") /\ UNCHANGED mem
       \/ \E address \in Addresses(s) :
            /\ mem' = WithSource(s, address)
            /\ op' = Op("update", s, "save")

BeginRemove(kind, s) ==
    /\ kind \in {"remove", "delete"} /\ Begins(kind)
    /\ mem' = WithoutSource(s)
    /\ op' = Op(kind, s, "save")

BeginRefresh(targets) ==
    /\ Begins("refresh")
    /\ op' = [kind |-> "refresh", src |-> NoSource, at |-> "sync", todo |-> targets]
    /\ UNCHANGED mem

Registered == {s \in Sources : mem.source[s] # Unregistered}
Begin ==
    \/ \E s \in Sources : \/ BeginInstall(s) \/ BeginAdd(s) \/ BeginUpdate(s)
                          \/ \E entry \in Entries : BeginEntry(s, entry)
                          \/ \E kind \in {"remove", "delete"} : BeginRemove(kind, s)
    \/ \E targets \in {Registered} \cup {{s} : s \in Registered} : BeginRefresh(targets)

\* acquire of install and add
Acquire ==
    /\ op.at = "acquire" /\ Fetched(op.src)
    /\ op' = [op EXCEPT !.at = IF op.kind = "install" THEN "discover" ELSE "name"]
    /\ UNCHANGED <<mem, disk, caches, running, queued, acked, announced, counts>>

\* discoverSuitesInSource finds the suite; the entry is written.
Discover ==
    /\ op.at = "discover"
    /\ Commit(WithEntry(op.src, "on"))
    /\ UNCHANGED <<disk, files, caches, running, queued, acked, announced, counts>>

\* The checkout is named and moved, and the source is registered.
Name ==
    /\ op.at = "name"
    /\ Commit(WithSource(op.src, 1))
    /\ UNCHANGED <<disk, files, caches, running, queued, acked, announced, counts>>

\* gitRemove, before the commit of an update and after that of a removal
Remove ==
    /\ op.at = "remove" /\ Deleted(op.src)
    /\ IF op.kind = "update"
       THEN \E address \in Addresses(op.src) : Commit(WithSource(op.src, address))
       ELSE op' = [op EXCEPT !.at = "notify"] /\ UNCHANGED mem
    /\ UNCHANGED <<disk, caches, running, queued, acked, announced, counts>>

\* refresh, source by source: files change unless upstream did not
Sync(s) ==
    /\ op.at = "sync" /\ s \in op.todo
    /\ op' = [op EXCEPT !.todo = @ \ {s}]
    /\ Fetched(s) \/ (s \in present /\ UNCHANGED files)
    /\ UNCHANGED <<mem, disk, caches, running, queued, acked, announced, counts>>

\* writeFileAtomic
Save ==
    /\ op.at = "save" /\ disk' = mem
    /\ op' = [op EXCEPT !.at = IF op.kind = "delete" THEN "remove" ELSE "notify"]
    /\ UNCHANGED <<mem, files, caches, running, queued, acked, announced, counts>>

\* The mutation notifies and is acknowledged.
Notify ==
    /\ op.at = "notify" \/ (op.at = "sync" /\ op.todo = {})
    /\ NotifyChanged(op.kind \in {"install", "entry"})
    /\ acked' = IF op.kind = "refresh" THEN acked ELSE mem.commit
    /\ op' = NoOp
    /\ UNCHANGED <<mem, disk, files, running, counts>>

\* A step rejects, and the mutation with it.
Reject ==
    /\ Fails
    /\ \/ op.at \in {"discover", "name", "save"} /\ UNCHANGED files
       \/ op.at \in {"acquire", "remove"} /\ BrokenOff(op.src)
       \/ op.at = "sync" /\ (\E s \in op.todo : BrokenOff(s))
    /\ op' = NoOp
    /\ UNCHANGED <<mem, disk, caches, running, queued, acked, announced, mutations, restarts, refreshes>>

\* notifyPanelsChanged and setScanProjectLayouts do not wait for the queue.
PanelsChanged ==
    /\ mutations < MaxMutations /\ mutations' = mutations + 1
    /\ NotifyChanged(FALSE)
    /\ UNCHANGED <<mem, disk, files, op, running, acked, failures, restarts, refreshes>>

-----------------------------------------------------------------------------
(* build: one snapshot, from cached discovery or from a scan                *)

\* The build that reads fp now, and the scan it starts unless it joins one.
BuildOf(fp, skipCache) ==
    LET cached == ~skipCache /\ fp \in DOMAIN scanCache
        joined == fp \in DOMAIN scanPromises
    IN [commit |-> mem.commit, fp |-> IF cached THEN Unseen ELSE fp, revision |-> revision, generation |-> generation,
        scan |-> IF cached THEN 0 ELSE IF joined THEN scanPromises[fp] ELSE generation,
        at |-> IF cached THEN "built" ELSE "scan",
        seen |-> IF cached THEN scanCache[fp] ELSE Unseen]

\* A scan reads each checkout somewhere between its start and its end.
Discovers(build) ==
    IF build.at = "built" \/ build.fp \in DOMAIN scanPromises
    THEN UNCHANGED <<scans, scanPromises>>
    ELSE /\ scanPromises' = [fp \in DOMAIN scanPromises \cup {build.fp} |->
                                IF fp = build.fp THEN generation ELSE scanPromises[fp]]
         /\ scans' = scans \cup {[fp |-> build.fp, scan |-> generation, from |-> checkout]}

Awaits(build, scan) == build.at = "scan" /\ build.fp = scan.fp /\ build.scan = scan.scan
Built(build, scan, seen) ==
    IF Awaits(build, scan) THEN [build EXCEPT !.at = "built", !.fp = Unseen, !.scan = 0, !.seen = seen] ELSE build

\* A scan that began before discovery was last dropped is not cached.
CachesScan(scan, seen) ==
    IF \E build \in builds \cup {pass} : Awaits(build, scan) /\ build.generation = generation
    THEN scanCache' = [fp \in DOMAIN scanCache \cup {scan.fp} |-> IF fp = scan.fp THEN seen ELSE scanCache[fp]]
    ELSE UNCHANGED scanCache

Newest == MaxMutations + 1
ScanEnds(scan) ==
    /\ \E seen \in [Sources -> 0..Newest] :
        /\ \A s \in Sources : IF scan.fp[s] = Unregistered THEN seen[s] = 0
                              ELSE seen[s] \in scan.from[s]..checkout[s]
        /\ builds' = {Built(build, scan, seen) : build \in builds}
        /\ pass' = Built(pass, scan, seen)
        /\ CachesScan(scan, seen)
    /\ scans' = scans \ {scan}
    /\ scanPromises' = IF scan.fp \in DOMAIN scanPromises /\ scanPromises[scan.fp] = scan.scan
                       THEN Restrict(scanPromises, DOMAIN scanPromises \ {scan.fp}) ELSE scanPromises
    /\ UNCHANGED <<mem, disk, files, op, snapshot, joinable, generation, revision,
                   queued, served, reader, acked, announced, counts>>

-----------------------------------------------------------------------------
(* Readers of the user snapshot                                             *)

StartsBuild(skipCache) ==
    LET build == BuildOf(mem.source, skipCache)
    IN /\ builds' = builds \cup {build}
       /\ Discovers(build)
       /\ joinable' = revision

Owed == [commit |-> acked, seen |-> announced]

\* readUserCatalog joins the build in flight or starts one; a reader that
\* finds a snapshot is answered at once.
Read(r) ==
    /\ reader[r].at = "idle" /\ snapshot = NoSnapshot
    /\ reader' = [reader EXCEPT ![r] = [at |-> "waiting", owes |-> Owed,
                        build |-> IF joinable # NoPromise THEN joinable ELSE revision]]
    /\ IF joinable # NoPromise THEN UNCHANGED <<builds, scans, scanPromises, joinable>> ELSE StartsBuild(FALSE)
    /\ UNCHANGED <<mem, disk, files, op, scanCache, snapshot, generation, revision, pass,
                   served, queued, acked, announced, counts>>

\* The keep-warm refresh scans again whatever is cached.
KeepWarm ==
    /\ joinable = NoPromise /\ refreshes + restarts < MaxRefreshes /\ refreshes' = refreshes + 1
    /\ StartsBuild(TRUE)
    /\ UNCHANGED <<mem, disk, files, op, scanCache, snapshot, generation, revision, pass,
                   served, reader, queued, acked, announced, mutations, failures, restarts>>

\* Mutant: publishes whatever changed meanwhile.
PublishAlways(build) == snapshot' = [commit |-> build.commit, seen |-> build.seen]

\* A snapshot of an older revision or generation is never published.
Publish(build) ==
    IF build.revision = revision /\ build.generation = generation
    THEN snapshot' = [commit |-> build.commit, seen |-> build.seen]
    ELSE UNCHANGED snapshot

\* Mutant: a build that is over stays joinable.
StaysJoinable(build) == UNCHANGED joinable

\* The finally of a build clears its own promise and no later one.
Settles(build) == joinable' = IF joinable = build.revision THEN NoPromise ELSE joinable

BuildEnds(build) ==
    /\ build.at = "built"
    /\ builds' = builds \ {build}
    /\ Publish(build)
    /\ Settles(build)
    /\ reader' = [r \in Readers |->
                    IF reader[r].at = "waiting" /\ reader[r].build = build.revision
                    THEN NoReader ELSE reader[r]]
    /\ UNCHANGED <<mem, disk, files, op, scanCache, scanPromises, generation, revision, scans,
                   pass, served, queued, acked, announced, counts>>

\* A time to live ends, or the cache is full and cleared.
Expire ==
    /\ \/ snapshot # NoSnapshot /\ snapshot' = NoSnapshot /\ UNCHANGED scanCache
       \/ \E fp \in DOMAIN scanCache :
            scanCache' = Restrict(scanCache, DOMAIN scanCache \ {fp}) /\ UNCHANGED snapshot
    /\ UNCHANGED <<mem, disk, files, op, scanPromises, joinable, generation, revision, running,
                   queued, acked, announced, counts>>

-----------------------------------------------------------------------------
(* The runtime's read, and the process                                      *)

Enabled(state) == [s \in Sources |-> IF state.installed[s] = "on" THEN state.source[s] ELSE Unregistered]

\* enabledUserSuites: only sources with an enabled suite, nothing cached but
\* discovery
RuntimeReads ==
    /\ queued /\ queued' = FALSE /\ pass.at = "none"
    /\ LET build == BuildOf(Enabled(mem), FALSE)
       IN IF Enabled(mem) = Unseen
          THEN pass' = [build EXCEPT !.at = "built"] /\ UNCHANGED <<scans, scanPromises>>
          ELSE pass' = build /\ Discovers(build)
    /\ UNCHANGED <<mem, disk, files, op, scanCache, snapshot, joinable, generation, revision,
                   builds, served, reader, acked, announced, counts>>

RuntimeServed ==
    /\ pass.at = "built" /\ pass' = NoBuild
    /\ served' = [commit |-> pass.commit, seen |-> pass.seen]
    /\ UNCHANGED <<mem, disk, files, op, caches, scans, builds, reader, queued, acked, announced, counts>>

\* The process ends anywhere and starts again: load, then the first pass.
Restart ==
    /\ restarts < MaxRestarts /\ restarts + refreshes < MaxRefreshes /\ restarts' = restarts + 1
    /\ mem' = disk /\ op' = NoOp
    /\ snapshot' = NoSnapshot /\ joinable' = NoPromise /\ scanCache' = <<>> /\ scanPromises' = <<>>
    /\ generation' = 1 /\ revision' = 0
    /\ scans' = {} /\ builds' = {} /\ pass' = NoBuild /\ queued' = TRUE
    /\ served' = NoSnapshot
    /\ reader' = [r \in Readers |-> NoReader]
    /\ announced' = checkout
    /\ UNCHANGED <<disk, files, acked, mutations, failures, refreshes>>

\* A state an earlier life of the process left: some sources registered,
\* one of them perhaps without its checkout, and some suites installed.
Init ==
    /\ mem \in [source : [Sources -> 0..1], installed : [Sources -> Entries], commit : {0}]
    /\ \A s \in Sources : mem.source[s] = Unregistered => mem.installed[s] = "none"
    /\ disk = mem
    /\ checkout = [s \in Sources |-> 1] /\ present \in SUBSET {s \in Sources : mem.source[s] # Unregistered}
    /\ op = NoOp
    /\ generation = 1 /\ revision = 0
    /\ scanCache = <<>> /\ scanPromises = <<>> /\ snapshot = NoSnapshot /\ joinable = NoPromise
    /\ scans = {} /\ builds = {} /\ pass = NoBuild /\ queued = TRUE
    /\ served = NoSnapshot
    /\ reader = [r \in Readers |-> NoReader]
    /\ acked = 0 /\ announced = checkout
    /\ mutations = 0 /\ failures = 0 /\ restarts = 0 /\ refreshes = 0

Mutation == Begin \/ Acquire \/ Discover \/ Name \/ Remove \/ Save \/ Notify \/ Reject \/ \E s \in Sources : Sync(s)
Reading == \/ \E r \in Readers : Read(r)
           \/ \E scan \in scans : ScanEnds(scan)
           \/ \E build \in builds : BuildEnds(build)
           \/ KeepWarm \/ Expire
Next == Mutation \/ PanelsChanged \/ Reading \/ RuntimeReads \/ RuntimeServed \/ Restart
Spec == Init /\ [][Next]_vars

-----------------------------------------------------------------------------
(* Properties                                                               *)

States == [source : [Sources -> 0..MaxAddresses], installed : [Sources -> Entries], commit : 0..MaxMutations]
Versions == [Sources -> 0..Newest]
Snapshots == [commit : -1..MaxMutations, seen : Versions]
BuildsOK == [commit : -1..MaxMutations, fp : [Sources -> 0..MaxAddresses], revision : Nat, generation : Nat,
             scan : Nat, at : {"none", "scan", "built"}, seen : Versions]

\* Types of the variables.
TypeOK ==
    /\ mem \in States /\ disk \in States
    /\ checkout \in Versions /\ present \subseteq Sources /\ announced \in Versions
    /\ op \in [kind : AllKinds \cup {"none"}, src : Sources \cup {NoSource}, todo : SUBSET Sources,
               at : {"idle", "acquire", "discover", "name", "remove", "sync", "save", "notify"}]
    /\ generation \in Nat /\ revision \in Nat
    /\ \A fp \in DOMAIN scanCache : fp \in [Sources -> 0..MaxAddresses] /\ scanCache[fp] \in Versions
    /\ \A fp \in DOMAIN scanPromises : fp \in [Sources -> 0..MaxAddresses] /\ scanPromises[fp] \in Nat
    /\ scans \subseteq [fp : [Sources -> 0..MaxAddresses], scan : Nat, from : Versions]
    /\ snapshot \in Snapshots /\ served \in Snapshots
    /\ joinable \in Nat \cup {NoPromise}
    /\ builds \subseteq BuildsOK /\ pass \in BuildsOK
    /\ queued \in BOOLEAN /\ acked \in 0..MaxMutations
    /\ reader \in [Readers -> [at : {"idle", "waiting"}, build : Nat, owes : Snapshots]]
    /\ mutations \in 0..MaxMutations /\ failures \in 0..MaxFailures /\ restarts \in 0..MaxRestarts
    /\ refreshes \in 0..MaxRefreshes

\* What an answer owes: commits up to one, and files as new as some versions.
\* A source an answer does not have (version 0) was not registered in it.
Covers(answer, owed) ==
    /\ answer.commit >= owed.commit
    /\ \A s \in Sources : answer.seen[s] # 0 => answer.seen[s] >= owed.seen[s]

\* A mutation that was acknowledged is in the file, whatever fails or ends
\* after it: no restart loses it (CatalogContext.commit).
AckDurable == acked <= disk.commit

\* An answer holds every mutation acknowledged before the question was asked
\* and every content change announced by then, although readers share builds,
\* builds share scans, and both outlive the invalidation that drops them
\* (SnapshotCache.loadUserSnapshot and build).
ReadSeesAcked == [][\A r \in Readers, build \in builds \ builds' :
    reader[r].at = "waiting" /\ reader[r].build = build.revision /\ build.at = "built" => Covers(build, reader[r].owes)]_vars

\* What is cached is never older than the last invalidation: neither the
\* snapshot nor the discovery a later build will replay.
CachesCurrent ==
    /\ snapshot # NoSnapshot => Covers(snapshot, Owed)
    /\ \A fp \in DOMAIN scanCache, s \in Sources : fp[s] # Unregistered => scanCache[fp][s] >= announced[s]

\* Whoever waits waits for something that runs: a reader has its build,
\* a build its scan, and what may be joined has not ended
\* (userSnapshotPromise, scanPromises).
NobodyWaitsInVain ==
    /\ \A r \in Readers : reader[r].at = "waiting" => \E build \in builds : build.revision = reader[r].build
    /\ \A build \in builds \cup {pass} : build.at = "scan" => \E scan \in scans : Awaits(build, scan)
    /\ joinable # NoPromise => \E build \in builds : build.revision = joinable
    /\ \A fp \in DOMAIN scanPromises : \E scan \in scans : scan.fp = fp /\ scan.scan = scanPromises[fp]

\* Once nothing is owed or under way, the runtime was served every
\* acknowledged mutation and announced change, also when one landed during
\* the read before (CatalogContext.notifyChanged).
RuntimeCurrent == (op = NoOp /\ ~queued /\ pass = NoBuild) => Covers(served, Owed)

\* snapshot-cache.ts:9 "Content-changing mutations (add / update / remove /
\* adopt / refresh / acquire) clear every cached discovery generation": once
\* a mutation is over, no cached discovery shows files it replaced.
CachesFollowCheckouts ==
    op = NoOp => \A fp \in DOMAIN scanCache, s \in Sources :
        fp[s] # Unregistered => scanCache[fp][s] = checkout[s]
===========================================================================
