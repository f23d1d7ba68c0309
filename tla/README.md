# A TLA+ model of suitcase

`suitcase` is a C library of parts that daemons need: a thread manager
("janitor"), a threaded balanced tree, object persistence, logging, modules,
settings, daemon start-up and a few small algorithms. This directory holds TLA+
modules for its parts, TLC configurations that check them on small instances,
and TLAPS proofs of the properties that matter most for every instance.

## Inventory

| Part | Source | State | Operations | Hard behaviour | What makes it correct |
|---|---|---|---|---|---|
| Thread manager | `janitor.c:82-450` | `threadlock`, rings `threadlist` and `finishedthreadlist`, per thread `next`, `prev`, `isstarted`, `startbarrier`, class | class create/set*, thread create, start, join, tryjoinall, joinall, the life of `runthread` | any number of threads and callers; records freed by a joiner or by the thread; a lock held while a barrier is destroyed | both rings hold exactly the right threads; nothing is used after free; started threads end; joinall joins all |
| Thread dump, crash signals | `janitor.c:452-743` | `threadblock`, `threadlocator`, saved signal actions | dumpthreads, handlesignal, trapsignals | a walk that gives up the lock at each element; signals delivered anywhere, even inside `threadlock` | every running thread answers once; the dump ends; no freed record is reached |
| Replacement barrier | `janitor.c:745-810` | mutex, condition, `waiting`, `count` | init, wait, destroy | spurious wake-ups, destruction while a released waiter is still inside | nobody passes early; destroy reports EBUSY until the barrier was crossed |
| Tree | `tree.c` | nodes with threads, balance, cursor | insert, insertref, lookup*, remove, replace, cursor functions, traverse, foreach | rotations on threaded links, fixed-depth paths | ordered set semantics, thread links consistent, height bounded |
| Persistence | `dbsimple.c`, `dbsimplebase.c`, `dbsimple_sqlite3.c` | per session two trees of objects, object states, back patches; rows in the database | open, fetch, sync, dirty, delete, commit, free | two sessions on one database; busy retries; failure in the middle of a commit; keys that become known late | commit is all or nothing; no lost update; references resolve |
| Logging | `logging.c` | classes with chains, global set-up and serial, context stack per thread | configure a class, message, context push/pop/clear | reconfiguration while other threads log, without a lock | a class that is marked as current has the current settings; the context stack is a stack |
| Modules | `modules.c`, `module.c`, `execute.c` | registry, static cursor | load, register, lookup, execute | iterations that interleave | every module is initialised once and in order |
| Settings | `settings.c`, `settings_yaml.c` | parsed document, handles, a default handle | access, configure, free, the getters, setcontext | a handle opened again; the getters log while logging is being configured | the value at the path, or the default; no handle with a deleted document; logging as the file says |
| Daemon start-up | `daemonize.c`, `main.c`, `commandline.c` | pid file, pipe | daemonize, checkpidfile, writepidfile | two instances at once; parent and child through a pipe | one instance; the parent returns |
| Example schema | `exampledb.c` | tables | dbsetup: create, upgrade | a start that dies between two statements, two starts at once | who goes on finds complete tables |
| Option parsing | `longgetopt.c` | argument vector, cursor | longgetopt | permutes its input | every option once, operands in order |
| Periods | `iso8601.c` | none | parse, normalise, add | calendar arithmetic | the sum is the right moment |
| Others | `utilities.c`, `settings_xml.c`, `dbsimple_mysql.c`, `dbsimple_dummy.c`, `executelua.c`, `executetcl.c`, `executepython.c` | none of their own | | | see "Not modelled" |

The parts meet in few places: `main.c` runs the start-up, loads the settings,
configures logging and the modules and calls `janitor_trapsignals`; logging
reads the settings, whose getters log; persistence keeps its objects in trees.
The compositions are modelled where state is shared: `JanitorDump` extends
`Janitor`, `Settings` extends `Logging`, and `Startup` holds main, modules and
schema in one. The thread manager is used by every program that has threads and
has the most concurrency of its own; it comes first.

A run checks each module in one configuration that is large enough for its
hazards; there are twelve, two of them expected to end in a violation.

## The thread manager

| Module | Models |
|---|---|
| `Ring` | the pointer assignments of the circular lists, as functions from links to links |
| `ThreadLifecycle` | what callers are promised: a life in stages, a set of running and a set of finished threads |
| `Janitor` | `janitor.c:82-450`, action by action |
| `MCJanitor` | instances for TLC |
| `JanitorPartsProofs`, `JanitorProofs` | the proofs |

**State.** `threadlock` is the owner of the mutex. `threadlist`,
`finishedthreadlist`, `next` and `prev` are the pointers themselves; the rings
are not assumed to be rings. `arrived[t]` and `leaving[t]` are the processes in
the native barrier of record `t`: blocked, and released but not yet scheduled.
`freed` and `crashed` record what C does not. `pc` says where a process is.

**Steps.** The processes are clients, threads of the application that call the
API, and managed threads. A critical section is two steps: `Lock` takes the
mutex for whatever section the process stands at, and an action whose guard is
`Inside` does the work and unlocks. Nothing else touches the lists, so the work
of one section is one step; only `unregister` is split, because it waits for
the barrier with the lock held. Everything outside the lock (booting, the
barrier, reading the class, freeing) is a step of its own.

| Code | Actions |
|---|---|
| `janitor_thread_create` | `CallCreate`, `CallCreateFails`, `Register`, then `TestAndSet` ... for autorun classes |
| `janitor_thread_start` | `CallStart`, `TestAndSet`, `StartArrive`, `StartLeave` |
| `janitor_thread_join` | `CallJoin`, `Join`, `DisposeUnlink`, `Free` |
| `janitor_thread_tryjoinall`, `joinall` | `CallJoinAll`, `ScanFound`, `ScanNone`, `CheckLeft` and the steps of join |
| `runthread` | `Boot`, `RunFunction`, `FunctionReturns`, `UnregisterUnlink`, `UnregisterDestroy`, `FinishedDetached`, `FinishedJoinable`, `FinishedDefault`, `FinishedInsert`, `Exit` |

**What the caller owes.** pthreads leave misuse undefined, so the model has the
application keep these rules: a handle is used after create returned it and
until a join of it may begin; a thread is joined after it was started and by one
client; while one client joins a class nobody else joins a thread of it; no
start call is in progress on a thread when a join of it begins; and only its
first starter uses a detached thread, which may be gone at any moment.

**Abstractions.** Class attributes are sets of classes (`Detached`, `Autorun`),
fixed before threads are created. `sigaltstack`, signal masks and stack sizes
are left out. `tryjoinall` takes any finished thread of its class, not the first
on the ring: which one is not observable by the caller. Clients and managed
threads are disjoint, so a managed thread that itself creates or joins is not
covered. `pthread_barrier_destroy` waits for leaving processes, as POSIX
requires of a native barrier and as the loop at `janitor.c:223-230` makes up
for where it does not; its bound of four tries is not modelled.

### Runs

| Run | Instance | Checks |
|---|---|---|
| `janitor_clients` | 2 clients, a detached autorun and a joinable thread | `IInv`, `StartBarrierCrossedOnce`, `NoUseAfterFree`, `JoinAllMissesOnlyInTransit`, `ImplementsLifecycle` |
| `janitor_live` | 2 clients, 1 thread, fair | `StartedThreadsExit`, `CallsReturn` |
| `janitor_default` | expected violation | `NoNullDereference` |

The bounds are small because the proofs cover every size; TLC is there to
explore what the proofs cannot state (liveness) and to find what is false. Two
clients are enough for two starters of one thread, or a joiner against a
starter. Threads are created once per record, and so every run is finite without
a further bound. `Client` is a symmetry set in `janitor_clients`.

That the rings are exact (`RingsExact`) is checked in `dump_walk` below, where three
records are on the lists: fewer have no removal whose two neighbours differ.

Deadlock is checked in all of them; the action `Ended` marks the legitimate end
of the program.

**Fairness.** Weak fairness of the steps of every thread and of every client
inside a call: the operating system runs them, and run functions return. Strong
fairness of taking the mutex: it becomes free again and again, and whoever waits
gets it in the end; weak fairness would let a spinning `joinall` keep it for
ever. Starting a call is not fair: an application may stop calling.

### What came out

* `joinall` may leave a thread behind. `runthread` calls
  `janitor_thread_unregister` and `janitor_thread_finished` one after the other
  and lets go of `threadlock` in between. A `joinall` that looks at that moment
  sees the thread on neither list and returns; the thread then puts itself on
  `finishedthreadlist`, unjoined. `JoinAllMissesOnlyInTransit` says, and the
  proof shows, that this is the only way in which it misses one.
* `janitor_default`: a thread of the default class cannot end. `janitor_threadclass_DEFAULT` is
  `NULL`; `janitor_thread_finished` reads `info->threadclass->detached`.

### What is proved

For any sets of clients, threads and classes that satisfy
`ConstantsAssumption` (which says only that they are disjoint and that classes
have a kind):

* `Invariance`: `Spec => []IInv`. None of the properties is inductive. `IInv`
  adds to the types who owns the lock while a barrier is destroyed (`LockInv`), what a client in the
  middle of a call has established about its record (`ClientInv`), that no two
  clients join the same thread (`UniqueInv`), how far a thread must be for a
  record to be started or freed (`ThreadInv`), who can be inside a barrier
  (`BarrierInv`), who may still be about to start a thread (`StartInv`), and
  that each head starts one ring of exactly the right records (`RingInv`).
  `RingOf` is stated with closed sets, not with a path: insertion and removal
  then need no induction.
* `ListsExact`, `MemorySafety`, `BarrierOnce`, `JoinAllMisses` follow from it.
* `Refinement`: the thread manager implements `ThreadLifecycle`; each action
  maps to one of its actions or to a stutter. `ListsFollow` is the invariant of
  `ThreadLifecycle`.
* `OwnedInside`: only a process inside a critical section owns `threadlock`. Nothing
  else rests on it, and a dump, which takes the same mutex, breaks it; so it is not
  part of `IInv`.
* `JanitorProofs` begins with the lemmas about the four list operations:
  `WalkVisitsRing`, `InsertMakesRing`, `UnlinkMakesRing` and `DisposeIsUnlink`, that
  dispose's guarded relinking is an unlink; none touches the other ring.

## The thread dump

`JanitorDump` extends `Janitor`: the same processes, and on top of them
`dumpthreads` (`janitor.c:452-470`) and `handlesignal` (`551-632`).

**State.** `dpc[p]` is how far the dump of `p` is and `dumpat[p]` its local
`list`. `pending` are threads with an undelivered SIGQUIT, `handling` those in
the handler. `asked` and `began` are history, for the properties.

| Code | Actions |
|---|---|
| `janitor_backtrace_all`, a crash caught by `handlesignal` | `BeginDump` |
| `dumpthreads`, from the lock to the first wait and from each wait to the next | `Ask`, `AskSelf`, `FinishDump`, `GoWild` |
| return of `pthread_cond_wait` | `Signal` by a handler or by `unregister`, or `SpuriousWake` |
| `handlesignal` for SIGQUIT | `Deliver`, `Answer` |

A handler runs on top of its thread: while it runs (`handling`), or while the
thread dumps after a crash, no step of the thread beneath is enabled. A SIGQUIT
is delivered anywhere in a thread's life, inside a critical section too.
Following a NULL link, reading a freed record or signalling a joined thread is
`GoWild`, after which nothing is modelled. A dump that waits for an answer which
never comes hangs, and other dumps with it: deadlock is not checked here, and
`DumpEnds` names the cases. The proofs are in `JanitorDumpProofs`.

| Run | Instance | Checks |
|---|---|---|
| `dump_walk` | a detached and a joinable thread run, a client may create a third one of the default class, one dump | `DumpAsksEachOnce`, `NoLostAnswer`, `RingsExact`, `WildOnlyOffList` |
| `dump_live` | from `Init`: a client, a thread that may crash and dump, a dump by the application; fair | `DumpEnds` |

`dump_walk` begins where the threads of `Running` have been
created in the order `t1`, `t2` and run, a state `Janitor` reaches; to walk there
in every run would multiply the states by all orders of creation. The list then
loses its head or its tail and gets a new head while the dump waits: three
records are the least for which these differ.

**Fairness.** As for the thread manager; signals are delivered and handlers run,
and a dump gets the mutex (strongly fair: it is taken and freed by others).

There is a flaw here: `pthread_cond_wait` gives up `threadlock`, so that
the record the dump stands on may be unregistered meanwhile. Its `next` is then
NULL, or a link of the other list, or freed. `WildOnlyOffList` says that nothing
else leads the dump astray. `DumpEnds` excludes that case, two dumps at once, a
handler that interrupts a critical section of its own thread, and a thread that
could not store its record under the key and waits for itself.

### What is proved

For any threads and clients, any number of dumps (`Dumper`) and any threads that may crash
(`Crashing`), under `DumperAssumption`, which says only that dumps by the
application are other processes:

* `AskedOnce` (`DumpAsksEachOnce`): while threads come and go, a dump asks none twice
  that stays on the list, leaves none out, and asks none that came after it began;
* `ListsExactUnderDumps` (`RingsExact`): `IInv` survives the dump's steps, the crashes, and
  handlers that run inside critical sections;
* `WildOffList` (`WildOnlyOffList`): with the record it stands on still on the list,
  the dump is never led astray;
* `AnswersCome` (`NoLostAnswer`): a single dump that waits on a thread of the list has a
  signal pending or a handler running that ends its wait.

The invariant is `DInv`: `IInv`; that a record on neither list has no link
(`LooseInv`, or the dump would come from it into a ring); the types; and for each caller of the
dump `CallerInv`. Of its parts `WalkInv` is the core: what the dump has asked,
and the record it stands on, make a segment of the ring that begins at its head
(`Segment`). A registration puts its record in front of all that was passed, and an
unregistration takes one out of the segment or out of the rest; the lemmas about
segments say that either leaves a segment, again with sets and without induction along
the ring. `PlaceInv`, `OnceInv` and `DoneInv` add where a
dump is, how often it has asked, and that at its end nobody is left.

## The replacement barrier

`JanitorBarrier` is `janitor_pthread_barrier_init`, `wait` and `destroy`
(`janitor.c:745-810`) for one crossing by the set `Party`; `NativeBarrier` is
what a pthread barrier promises. `pc` says where each process is; `life` is what
`destroy` has done.
`pthread_cond_wait` is called once and not in a loop; `spurious`, fixed from the start,
says whether it may return without a broadcast, which POSIX permits. `destroy`
tests, then frees, as two steps, since nothing stops others in between.

| Run | Instance | Checks |
|---|---|---|
| `barrier_crossing` | 4 processes, with and without spurious wake-ups, weak fairness of each process's steps | `ImplementsNative`, `DestroyedOnlyWhenCrossed`, `EverybodyPasses` |

`ImplementsNative` says that without spurious wake-ups every step is one of the
native barrier, which keeps everybody until all have come. With them it fails: a
process woken too early returns from the barrier, since `wait` tests nothing. A
managed thread may then run before it was started.

`count` is 0 as soon as the last process came, so
that `destroy` does not see the processes it released but that have not yet
taken the mutex again, and frees it under them (`DestroyedOnlyWhenCrossed` promises no
more than that all have come); the comment in `unregister`
expects `EBUSY` then.

The program uses the barrier with two parties; four are checked, and the proofs
in `JanitorPartsProofs` hold for every finite `Party`. `CountInv` ties `waiting` and
`count` to the set of processes that came, and `OrderInv` says what must have
happened before anybody is released; from both follow `CountExact`,
`DestroyWaits` and, without spurious wake-ups, `BarrierRefinement`.

## The tree

`Tree` models `tree.c`. A node is named by its key; `left`, `right`, `balance`
are its fields, `lkid` and `rkid` the nodes whose `left_child` and `right_child`
are set. Where there is no child the pointer is a thread to the neighbour in
order. The operations are functions from tree to tree. The loop of `placenode` is
`GrowUp`, turn by turn, the one of `removenode` a fold of `ShrinkStep` over the
path, and a loop down the tree is a `Chain` of nodes. `OrderedSet` is what the
callers are promised.

| Code | Definitions |
|---|---|
| `rotateleft`, `rotateright`, `rebalance` | `RotateLeft`, `RotateRight`, `Rebalance` |
| `placenode` | `Attach`, `GrowStep`, `GrowUp`, `Inserted`; the call is `TreeInsert` |
| `removenode` | `Unhook`, `PutNext`, `TakeOut`, `ShrinkStep`, `Dropped`, `Removed`; the call is `TreeRemove` |
| `lookupnode`, `firstnode`, `nextnode`, `previousnode` | `Toward`, `Path`, `Has`, `LeftSpine`, `RightSpine`, `FirstNode`, `NextNode`, `PreviousNode` |
| `tree_lookupfirstcursor`, `tree_cursornext` | `LookupFirstCursor`, `CursorNext` |

The caller's one duty is not to remove the node a cursor stands on, which is
freed.

| Run | Instance | Checks |
|---|---|---|
| `tree_set` | 6 keys | `TreeInv`, `ImplementsSet` |
| `tree_corrupt` | 7 keys, expected violation | `NextIsAnother` |

`TreeInv` is the representation invariant: `ThreadsInOrder`, `BalanceExact`,
`BalancedBelowRoot` and the count of nodes. Every series of calls on these keys is
explored, of any length. **`tree_set`
does not carry over to larger trees**: with seven keys the tree can be destroyed.
The counterexample of `tree_corrupt` is: insert 2 1 4 5 6 3 7, remove 1 3 2 5, insert
1 2, remove 6 2 1. The loop of `placenode` stops below the root, so an insertion never
rebalances the root, and the first seven leave it, node 2, with balance 2. `remove 1`
makes that 3. A removal does rebalance the root, but one rotation cannot repair such a
balance: it leaves node 2, now below the root, with balance 2. `remove 3` makes it 1, so
that its subtree is lower; but the loop of `removenode` goes up only from a balance that
has become 0 (line 449), and the root 5 keeps -1 where the true balance is 0. From here
on recorded balances are not the true ones. After `remove 2` of the second series the root
and its right child 7 say 1 and -1 where both have 0; `remove 1` makes the root 2, and
7, which has no left child, is rotated to the right. A thread then leads from node 4 to
itself, and lookups do not end. The compiled `tree.c` has the same balances step by step,
and loops, too. The database sessions are not hit: they
insert, look up and traverse, and never remove. Their trees are only higher than
the "balanced tree" of the repository's own description, since the root may have
nearly all of its keys on one side.

`TreeProofs` shows that neither the rotations nor the insertions are to blame.
`RotateLeftExact` and `RotateRightExact` say that the balances a rotation computes,
by cases and without measuring, are exact whenever those before were, in a tree of
any size and for balances of any size. `h` and `h2` are the heights before and
after; the rotation's own arithmetic is all that is between them.

`GrowSpec` is `Spec` without the removals, which is how `dbsimplebase.c` uses its
trees. For any set of integer keys, finite or not, put in in any order:

* `TreeGrowsRight`: `GrowSpec => []TreeInv`;
* `TreeGrowsAsSet`: `GrowSpec => ImplementsSet`, the whole refinement: every
  insertion, look-up and step of the cursor is the one of `OrderedSet`.

`TreeInv` measures the tree by walking it and says too little to be inductive. The
invariant `Grown` says instead that there are the set `M` of nodes, a parent for each
node, a bound on each side of it, and a height, which together describe the tree
locally (`Balanced`): a node hangs where its parent has it; the nodes at and below it lie
between its bounds; where it misses a child its thread is the bound, and no key of `M` lies in
between; the recorded balance is the difference of the two heights (`Sound`); and all but the
root are balanced. What is the same for left and right is said once, for a side `s` and
the opposite one. The argument follows the code:

* the search for `k` ends at `k` or at the one node in whose gap `k` lies (`PathIs`,
  `OneGap`), and hanging it there keeps the shape (`AttachShape`);
* while `placenode` looks at node `x`, only the parent of `x` is wrong, by one, and only if
  `x` has grown (`Growing`). A turn of the loop passes that on to the next
  node (`GrowStepKeeps`) or rotates once or twice and is done (`SettleBalances`, from
  `SingleSound` and `DoubleSound`; a rotation keeps the shape by `RotatedShape`).
  That the rotated side has its old height again, so that nobody above need know, is
  the heart of it, and fails for the balances a removal leaves behind;
* the loop ends below the root with every balance true (`GrowUpBalances`);
* the measures of `TreeInv` are those of the shape (`MembersIs`, `HeightIs`), and the
  threads lead to the neighbours (`NeighbourIs`).

Loops down the tree are recursive functions. Each has the value its lemma gives because a
step to a child lowers the height (`ChainIs`, `FromBelow`), an argument by the least
height for which it would fail.

## Persistence

`DbSimple` models `dbsimplebase.c` (objects in memory, traversal, back patches) with
the SQLite back end `dbsimple_sqlite3.c`, for several sessions over the same tables.

**State.** `rows` are the committed tables, `work` what the connection that holds
the write lock (`writer`) sees, `tx` the connections inside `BEGIN`. Per session,
`entries` is `pointermap`: an entry has the key, revision and state of
`dbobject_struct`; `unknown` are the objects that were referred to before they were
read; `data` the fields of the objects. `seen`, `asked`, `stopped` and `late` are
history. A row has a key, a revision, the column with a UNIQUE index if its table has one
(`Unique`: the name of a policy and of a zone, the locator of a `hsmKey`,
`sqlstmts_sqlite3.sql:50,87,114`), one foreign key, and one field for all others (the
session that wrote it last). A foreign key is a REFERENCE of the object, a BACKREFERENCE,
which puts it into an array of what it refers to, or both (`Column`); `keyData` and
`keyDependency`, which have two, are not instances. Nor is `policyKey`: its REFERENCE names
its own definition, by a slip it seems (`exampledb.c:133`).

| Code | Actions |
|---|---|
| `dbsimple_opensession`, `closesession` | `OpenSession`, `CloseSession` |
| `dbsimple_fetch`, `fetchobject` (one per SELECT), `resolvebackpatches` | `Fetch`, `FetchObject`, `Resolve` |
| `dbsimple_dirty`, `dbsimple_delete` and the changes of fields around them | `Change`, `Link`, `Create`, `Unlink`, `Delete` |
| `commitdata`, `dbsimple__committraverse` | `Commit`, `EndPersist`, `EndCommit` |
| `commitobject`, `persistobject` | `PersistNew`, `PersistModified`, `InsertModified`, `PersistRemoved`, `CheckRemoved` |
| the process ends, or reads a definition that is NULL | `Crash`, `NoDefinition` |

A statement is a step: others' statements come between. A modified object takes two,
a DELETE by key and revision and an INSERT OR REPLACE. A statement without the write
lock returns busy and is tried again: no step until the lock is free.
`pointermap` is ordered by address, so that the order of visits is arbitrary
(`ToVisit`); once an entry gets other data while it is in the tree, a look-up may miss
it and a traversal may visit it twice (`disordered`, `filed`). The comparison of
pointers truncates the difference to `int`; the model has all objects within 2 GB.

`db_sessions` has two sessions, and seven programs they may run:

* `Plain`: connections of their own, policies before the zones that refer to them; a
  policy may be added and objects may be given the names `a` and `b`; two changes, two
  fetches in all;
* `Again`: the same without renaming, with a third fetch, so that a session starts over;
* `Forward`: zones before policies; `Default`: the order of the example, `hsmKey` before the
  policies whose arrays the keys are in; one change and one fetch each;
* `OneConnection` for both sessions; `Flags`: explicit and automatic definitions;
* `Twice`: four changes and one fetch, so that a new object is marked twice and a zone refers
  to it.

No row above revision `MaxRev` = 1 is changed. Two sessions are what a lost update needs, two
names what a lost namesake needs. Deadlock is not checked: when the bounds are used up all
sessions may be idle for good.

| Property | Says |
|---|---|
| `DbInv` | the types, and `ChangesWritten`: at `COMMIT` each change is in the tables, but for the four ways it names |
| `RevisionsGrow` | a row is replaced by a higher revision, except by the lost update below |
| `RemovedOnlyOnPurpose` | why a row may disappear |
| `WholeCommits` | others see all of a commit or nothing, also when its process dies |
| `LockReleased` | whoever writes gives the lock up; with weak fairness of the steps of a commit, which calls nobody and waits only for the lock |

What the exceptions in these properties name, and what came out while they were
written:

* *Lost update.* That the DELETE by revision found no row is not looked at for a
  modified object; INSERT OR REPLACE then overwrites what another session committed
  (`dbsimple_sqlite3.c:558-590`). `keydependency` has no revision field: its DELETE
  binds NULL and never finds a row.
* *Lost namesake.* INSERT OR REPLACE also deletes the row of another object that has the
  same value under a UNIQUE index, and tells nobody. `example_dbtest`
  (`exampledb.c:409-419`) renames the second zone it finds to `MODIFIED`: run again, it gives
  the name to another zone, and the commit removes the one that has it, which was fetched,
  is kept, and was deleted by nobody. Within one
  commit the last of two objects with one name remains (`Namesake`, `NameTaken`).
* *Lost row.* An object whose reference is NULL is deleted, and its INSERT refused by
  NOT NULL; neither result stops the commit.
* *Torn read.* The SELECTs of a fetch are outside any transaction, so that a reference
  may lead to a row that is gone or not read; it becomes NULL, and a later change of
  the object loses its row.
* *Unreachable and dirty means deleted.* A changed object that no array or reference
  leads to any more is removed; one that is new and was made dirty has no definition,
  which is read all the same.
* *References.* An object that refers to one with a key drawn later in the same commit
  is written with 0, or -1.
* *Keys.* New keys are drawn at random; a collision replaces a row. An object that is
  marked as dirty a second time before it has a key becomes a modified one with the key
  -1, and is written under it; all such objects of a table are one row (`Keyless`).
  Hence `Drawn` in the properties.
* *Partial commit.* A failed removal ends the traversal and what was written is
  committed; the commit reports success.
* *Shared connection.* The `COMMIT` of one session falls between the DELETE and the
  INSERT of another's; hence `Alone` in the properties.
* *Bound with nothing.* The INSERT into `hsmKey` has 13 parameters, of which
  `bindstatement` binds 12, as it binds nothing for a BACKREFERENCE
  (`sqlstmts_sqlite3.sql:180`, `exampledb.c:146`); the last column is NOT NULL. So it is
  always refused, and a key that is changed loses its row (`LostReference`). The same goes
  for `keyState` (7 of 8).
* *Read too late.* An object that is referred to before its row is read sits in
  `pointermap` without data and gets it there, which puts the tree out of order
  (`dbsimplebase.c:199-235`). A BACKREFERENCE does this as a REFERENCE does, so the plan of
  the example, `hsmKey` before `policy` (`exampledb.c:243-252`), is no better than one with
  a forward reference as soon as a `hsmKey` refers to a policy. A row may then have two
  entries and be removed for no reason: `RemovedOnlyOnPurpose` does not speak of the
  commit of such a session (`late`), the other properties do.

`DbSimpleProofs` proves, for any sessions, connections, keys and definitions, and for every
program of `Setups` (with any numbers of fetches and changes, and with any order of the
definitions):

* `Transactions`: a session that writes is inside its transaction if its connection is its
  own; hence `CommitsAreWhole` (`WholeCommits`): no statement but `COMMIT` changes what the
  others see, and no step other than a session's own ends its transaction;
* `Sessions`: the inductive invariant `DbIndInv`, and from it `ChangesAreWritten` (`DbInv`),
  `RevisionsOfRowsGrow` (`RevisionsGrow`) and `RowsGoOnPurpose` (`RemovedOnlyOnPurpose`);
* `OrderedPlansAreInTime`: for a plan that names each definition after the one its foreign key
  is for (`Ordered`), the exception `late` is none.

The argument has two halves. `MemInv` says what a session has in memory between two of its
steps: each entry is that of a new object, of one that was marked twice without a key, or of a
row that was fetched, with a revision no lower than that one's (`OriginInv`, with `SeenInv`
and `FetchingInv`); references lead to objects of the right definition (`TypedInv`); only
a removed object has no data (`RemovedInv`); while no object was referred to too early, the
tree is in order, so that a row has one entry and a pointer too (`AwaitedInv`, `OnceInv`,
`InOrderInv`); the traversal reaches what the singleton leads to (`ReachedInv`), and a commit ends
when nothing is left to visit (`EarlyInv`, `CurrentInv`, `DoneInv`). `StoreInv` says what its
commit has done so far, statement by statement: which rows it sees changed and why
(`GrowInv`, `ChangedInv`), that such a row has the name of an object the commit wrote or is to
write under its key (`NamedInv`, `Puts`), which rows are gone and why (`GoneInv`; `Taken`: an
object was given the name the row had or got), and that what was visited is
written, unless another entry has its key or its name (`WrittenInv`, `Shared`, `Outnamed`).
That such a claim survives a statement is one lemma (`PutsKept`): each entry it speaks of has
an heir with the same key and object. `TypeInv`, `TxInv` and `TablesInv` are what both rest on. That other
sessions do not disturb either half is one lemma about the half and their steps; the bulk is the
traversal and the statements. `Reachable` is the least set closed under references, not a
path, for the same reason as `RingOf`.

`DbAssumption` asks that stored references have the type of their definition, that a
definition has one foreign key at most and not to itself, that the stored rows obey the UNIQUE
indexes, and that a program names no definition twice in its plan. `LockReleased` is only model-checked: it is a
liveness property.

## Logging and settings

`Logging` models `logging.c`, `Settings` extends it with `settings_configure`,
`settings_access` and `settings_free`. The two belong together: `settings_configure`
adds the chains, and the getters it calls log warnings while it does.

**State.** `chains` with `block` (its memory; `realloc` moves it and frees the old) and
`serial` are `logger_setup`; `cls` is `logger_cls_struct` of each class: level, chain,
serial. `calls[t]` is the stack of `logger_message` calls thread `t` is in, since a class
that takes over new settings logs that it does. `top` and `prev` are the contexts.
`conf` is where `settings_configure` is, `own` and `default` the documents of the
program's handle and of `defaulthandle`.

| Code | Actions |
|---|---|
| `logger_message`, `logger_enabled` | `Message`, `Check`, `Enabled`, `Use` |
| `logger_resetup` | `Resetup` (test and mark), `ResetupDefault`, `ResetupMatch`; `Reinitialize` in the first |
| `logger_configurecls` | `AddChain` inside `Add` (the chains grow, the old memory is freed), `RaiseSerial` inside `Raise`; the mutex is held from the one to the other |
| context functions | `PushContext`, `PopContext`, `ClearContext` |
| `settings_configure` | `Configure` (with `Access`), `Verbosity`, `Name`, `ClassLevel`, `Target`, `Add`, `Raise`, `Done` |
| `settings_free` | `Free` |

`configure`: a main thread that configures at most twice (`MaxDocument`) from any of
four files (missing, poor, with a verbosity on the command line, full with two entries)
with or without a handle of its own, against one that logs and pushes and pops
contexts. Threads log one message between them by themselves (`MaxMessages`; those of
the getters come on top), `realloc` always moves. No fairness: all properties are
safety. Deadlock is not checked, as a program that pops a context that is not there is
at its end.

| Property | Says |
|---|---|
| `SettingsInv` | the types, and that a handle never has a deleted document and no document is forgotten but those opened over |
| `CurrentIsInForce` | a class with the current serial that nobody is setting up has the level and the place of the last chain that names it, of the chains that serial speaks of; in the memory of the chains, but while a chain has been added and the serial not raised |
| `DanglingOnlyInWindow` | a thread uses freed chains only if a chain was added since it compared the serials, or is being added, or during another's set-up of the class |
| `PopFindsContext` | unless somebody logged too early, who pushed finds a context, and stacks do not share any |
| `AsConfigured` | after `settings_configure` a class has the level the file and the command line give it (more than four `-v` count as DIAG) |
| `ForgottenOnlyAfterEarlyMessage` | the only way in which a configuration is forgotten |

`DanglingOnlyInWindow` is a limit, not a clean bill: `logger_configurecls` frees the chains
with `realloc` (line 249) before it raises the serial (253), and `logger_enabled` compares
serials without the mutex (61). A thread that logs in between finds the serials equal and
calls through memory that is gone (76-77); so does one that compared before and calls
after. Each alternative of the property is needed: without `Adding` TLC shows the first.

The last property of the table names another flaw. `logger_resetup` takes a class with serial 1 for one that was
never set up and initialises logging again. A class that logged before the first chain
was added has serial 1, and its next message forgets all that was configured, and the
key of the contexts with it: a pop then dereferences NULL. A file without a readable
`logging.verbosity` is enough for that, as the getter logs a warning before the first
chain. `settings_configure` copies `sizeof(long)` bytes into an `int`: what that overwrites
depends on the build, and the model has both outcomes, a crash or none.

`SettingsProofs` proves all six, for any threads, classes, contexts, files and number of
messages and configurations:

* `SettingsInForce` (`CurrentIsInForce`), `WindowIsNarrow` (`DanglingOnlyInWindow`) and
  `Forgetting` (`ForgottenOnlyAfterEarlyMessage`) follow from `LogInv`: only the owner of
  the mutex sets a class up, and with the last of its calls (`OwnerInv`, `StackInv`); no
  serial is from the future (`SerialInv`); whoever found the serials equal or set the
  class up knows that it is marked as current as long as the serial is not raised
  (`MarkedInv`); and marked classes that nobody is at have the settings in force, those of the
  chains but the last while one is being added (`ForceInv`). `EarlyInv`
  adds for the third that no class has serial 1 before somebody logged too early, as who logs
  while the first chain is being added waits for the mutex.
* `PopsFind` (`PopFindsContext`): each context is on one stack, below one other at most
  (`CtxInv`), and the stack of a thread is a sequence that `prev` runs through, of as many
  contexts as it pushed and did not pop (`DepthsInv`).
* `HandlesAreHeld` (`SettingsInv`): no document has two owners, and none that a handle has was
  deleted (`DocInv`).
* `Configured` (`AsConfigured`): `ConfInv` says where `settings_configure` is in the file and
  what its variables hold, `ChainsInv` what kind of chains there are, and `WrittenInv` that
  the last chains are those of the entries read so far, after one for all classes, whoever
  logged in between; `AddingInv` that no chain is half added but by `settings_configure` itself.
  With `ForceInv`, the level of a class is that of its last entry.

The assumptions are those of the modules: the classes of the library are classes, NULL is
neither a thread, a class nor a context, and a file is made of entries.

## Start-up

`Startup` models what `main` does, for a program that is started up to three times over
one pid file and one database: `checkpidfile`, `daemonize` and `writepidfile`; the
loading of libraries, their constructors, and the initialisation of their modules
through `modules_lookup` with its static cursor (`modules.c`, `execute.c`); and
`example_dbsetup`, which probes, creates and upgrades the tables statement by statement.

**State.** `launcher[s]` is the process of start `s`, `program[s]` the one that goes on,
which is its child for a daemon; `writers[s]` who holds the write end of their pipe;
`pidfile` what the file says; `loaded`, `instances`, `cursor`, `called` the modules; `db`
what is in the database and `at` the statement.

| Code | Actions |
|---|---|
| `main`, `daemonize.c` | `Begin`, `CheckPidFile`, `Fork`, `ClosePipe`, `WritePidFile`, `ReadPipe`, `Detach` |
| `modules_addlibraries`, constructors, `modules_lookup`, `execute` | `Load`, `Initialize`, `AddLibraries` |
| `example_dbsetup`, `dbsimple_sync`, `dbtest` | `Open`, `Probe`, `Prepare`, `CarryOut`, `Test` |
| the end of a process anywhere | `Kill` |

`main.c` sets the local `optdaemon` to 0 and never to anything else; the daemon path is
reached only in a build that sets it, and `Config` has both. `startup` has every content
of the pid file, a library loaded twice, one whose initialisation calls `execute`, and a
database that opens, fails, or has no driver. Three starts: one creates, one upgrades, one
comes after. `MaxCalled` cuts off the loop that a nested `execute` can make endless.

| Property | Says |
|---|---|
| `TwoDaemonsOnlyInTheWindow` | who looks at the pid file after a daemon has written it does not go on |
| `RegistryInv` | the types, and that modules are initialised once each, in the order of loading |
| `TablesAreComplete`, `FoundIsUpgraded` | who goes on finds all tables, upgraded, unless a start died or gave up at them or is at them still |
| `LauncherReturns` | who started a daemon gets the terminal back |

Fairness: weak, of the steps of each launcher and each program, which wait for nothing
but the pipe; dying is not fair. Deadlock is not checked: the starts come to an end.

What came out: `writepidfile` does not create a missing file, and what it writes is the
beginning of the file's name, so once there has been a daemon no later one starts; the
launcher always exits with 1; `databaseVersion` never gets a row, so that every start
runs the upgrade again; a start that dies between DROP INDEX and DROP COLUMN leaves a
column nobody drops any more; a CREATE INDEX prepared before another's upgrade brings the index
back; an `execute` inside an initialisation resets the cursor of the loop in `main`,
which then skips modules or never ends, one without a `using` returns -1 and looks nothing up,
and one whose module is not there calls through NULL (`execute.c` 52, 55-63); a datasource no driver knows leads to a NULL
connection, and `example_dbtest` reads the first zone of a database without any.

`StartupProofs` proves the four invariants for any number of starts, libraries and
configurations and for any `MaxCalled`:

* `OneDaemon` (`TwoDaemonsOnlyInTheWindow`), from `PidInv`: whoever wrote the file left something
  there that no start takes for the pid of a process that has ended, and a start that
  looked afterwards failed.
* `Registry` (`RegistryInv`), from `RegistryTypes` and `RegistryOrder`: the modules are those of
  the libraries that were loaded, in that order, and those that were initialised are the ones
  before the cursor, unless a module with an `execute` has reset it. That `modules_lookup`
  returns the first module after the cursor that has the function is an induction over
  places in the list, by the least-number principle.
* `CompleteTables` (`TablesAreComplete`) and `Upgraded` (`FoundIsUpgraded`), from `SchemaInv`:
  a start comes to a statement when the tables before it are there (`WayInv`), what is
  missing is owed by a start that is about to make it (`OwedInv`), and once somebody has found all tables
  nobody creates any, so a dropped index stays away (`FoundInv`).

`StartupAssumption` has the values a configuration can have, and that no library is
called NULL or `suitcase`. `LauncherReturns` is liveness and only model-checked.

## Option vectors, periods, parameters

Three sequential algorithms, each a machine of its own, side by side in `MCText`; the
proofs are in `TextProofs`.

* `LongGetopt` is `longgetopt.c` call by call; `CommandLine` says item by item what a command
  line means, without looking at the parser. `OptionsAsWritten` and `OperandsKept` relate the
  two, in the run for all vectors of up to two items out of 22, some of three, and five out
  of five. `main.c` itself uses `getopt_long`; the tests use this one.
* `Iso8601` is `intrvl_add`: the parser character by character, with `normalizeperiod`
  field by field. `SumIsExact` compares with a count of days since a fixed one, and only
  when no year that is passed is one the leap year rule misjudges, and the moment itself
  is a date by that rule (29 February 2000 is not). `ReadsAsWritten` compares
  with the standard's way to write a period. `AdditionEnds` is under weak
  fairness of the algorithm's own steps, as a function that was called runs on. Nothing
  in the repository but its test calls it.
* `Lookup` is the location of a parameter in a parsed document (`settings_yaml.c`), the
  getters and `settings_setcontext`. `AnswerIsWarranted` says when a getter may report
  success, `ContextIsAPrefix` that a context is a path in front.

The inputs are chosen for the branches: clusters, separators, end marks and arguments that
look like options; the ends of months, of leap years and of centuries; texts with
blanks, words for numbers, and numbers too large.

The properties name where the code differs from what one would expect: after an end mark
the last operand comes first (`longgetopt.c:185` stops one short); a lone `-` is an
error, and whoever calls on after it reads past the end of the item; an argument after
`:` may not contain `=`; a period with months and days is refused, and what was read
before is added all the same; the leap year rule is applied to years counted
from 1900, and so is wrong for 1900, 2000, 2300. `settings_getbool` reads every text as
true; `int` and `long` read any word as 0 and report success; trailing blanks stay.

### What is proved

All six safety properties, for inputs of any length and without a bound on any number:

| Theorem | States | By the invariant |
|---|---|---|
| `SumKeepsMoment` | `IsoSpec => []SumIsExact` | `IsoInv` |
| `PeriodsRead` | `IsoSpec => []ReadsAsWritten` | `ReadInv` |
| `OptionsRead` | `OptionsSpec => []OptionsAsWritten` | `OptInv` |
| `OperandsStay` | `OptionsSpec => []OperandsKept` | `OptInv` |
| `AnswersWarranted` | `LookSpec => []AnswerIsWarranted` | `LookInv` |
| `ContextsArePrefixes` | `LookSpec => []ContextIsAPrefix` | `LookInv` |

* `IsoInv`: no field but the year and month is ever negative, so that the
  branch of `normalizeperiod` for negative days is never taken, and each turn of the loop
  goes up in years. Such a turn keeps the moment in a year the rule is right about
  (`TurnKeeps`): a carry of seconds, minutes or hours by arithmetic, a month by
  the count of days before it. The first
  loop has nothing to do on a date, and what the second has reached is, until it is done,
  the moment of the sum (`Reached`).
* `ReadInv`: the parser stands in front of the amount of one field (`Before`) or between
  the amount and its unit (`Within`). In either case what is unread is what is still to be
  written, in the standard's order, `t2` is the fields before it, and the last unit is one after which
  the next may come, but where days follow months (`Came`).
* `OptInv`: between two calls the parser is midway (`Midway`). What it has reported, then
  the rest of the item it is in, then the rest of the line by `CommandLine`, is the
  meaning of the line; the operands it has moved to the end and those to come are the
  words of the line. The two look at different vectors, and `Midway` is what joins them: which
  part of `argv` is a part of `given`, and which holds moved operands.
* `LookInv`: the handle stands at the node its context leads to. For the question asked
  there, the turns along the joined path go beside the turns along the context's
  (`Beside`) until that one ends, and then are the turns of the question (`SameWay`).
  `AnswersWarranted` is a case for each kind of parameter.

What a line means, how many days come before a month and where a path leads are recursive
functions. That each has the values its definition says is proved first, from the least
number at which it would not (`WFMin` of the library).

Assumptions on the constants: `MomentsAssumption` (`localtime_r` gives fields in their
bounds; no leap seconds), `DigitsAssumption` and `FieldsAssumption` (digits spell natural
numbers, each amount can be spelled, and no group of digits is a mark or a unit);
`LinesAssumption`, `NullAssumption` and `OptionsAssumption` (no option is named by a
separator or the character that ends a string); `NodesAssumption`,
`QuestionsAssumption`, `ContextsAssumption` and `ValuesAssumption`. `ContextsAssumption` is a duty of
whoever calls `settings_setcontext`: the path does not end in a dot, its conversions
stand where a name begins, as the code looks for them nowhere else, and each has its
argument. Nothing in the repository calls `settings_setcontext` yet.

## Where each run ends

| Run | Distinct states | Violation expected |
|---|---|---|
| `janitor_clients` | 121,318 | |
| `janitor_live` | 11,100 | |
| `janitor_default` | | `NoNullDereference` |
| `dump_walk` | 2,203,481 | |
| `dump_live` | 8,495 | |
| `barrier_crossing` | 520 | |
| `tree_set` | 11,940 | |
| `tree_corrupt` | | `NextIsAnother` |
| `db_sessions` | 245,495 | |
| `configure` | 3,978,263 | |
| `startup` | 149,120 | |
| `text` | 56,553 | |

Each property has a mutant in `PROJECT.json`: a definition of the code changed as a
plausible slip would change it (`...Flat`, `...Forgotten`, `...ButLast` and the like, next to
the definitions they replace), under which TLC finds the property violated.

## What could follow

1. Replacement in `Tree`, the other cursors and the traversals; a proof for removals, up to
   the first one that leaves a node out of balance.
2. References that are stubs, keys that are names, and more than one reference in `DbSimple`.

## What is only model-checked

* Liveness: `StartedThreadsExit`, `CallsReturn`, `DumpEnds`, `EverybodyPasses`, `LockReleased`,
  `LauncherReturns`, `AdditionEnds`. The prover does not do liveness under fairness.
* Removals from the tree. With them `TreeInv` and `ImplementsSet` are false for seven keys,
  and are proved without them.

Every other property of a run that is expected to pass is the statement of a theorem.

## Not modelled

* `tree.c`: replacement, `lookupleftcursor`, `lookuprightcursor`, traversals, and
  `lookupneighbours`, which writes the right neighbour over the left one (line 701); the
  `abort` of `placenode` below a depth of 36, which a tree has with some 39 million keys. Keys
  that change while they are in a tree are in `DbSimple`.
* `settings_clone`, which nobody calls and which shares memory with its original; the
  XML front end `settings_xml.c`.
* `logger_setcontext`, labels and the procedures that write; all formatting of output,
  the symbols of back traces included.
* `periodstring` and `intrvl_concat` of `iso8601.c`: they give `alloc` the string where it
  wants its address, and cannot be called with anything but the empty period.
* `commandline.c` (the path of the program; line 79 takes an index into another string),
  `modules_names`, unloading of modules, `droppriviledges` with names.
* `utilities.c` and `io.h` (no state), the script interpreters (front ends of libraries),
  `dbsimple_mysql.c` and `moduledbmysql.c` (written against an older interface of
  `dbsimplebase.c`, not built by default), `dbsimple_dummy.c` (does nothing).
