# A verification of bitzer

bitzer is a small process supervisor: it reads a list of tasks, forks a process
for each, sleeps, and starts a process again when it has ended.  This directory
holds TLA+ models of it, TLC configurations that check them, and proofs that
TLAPS checks.  Paths such as `context.c:141` are relative to `src/` of the
repository; everything here is translated from the code.

## The system

| Component | Source | State | Operations |
|---|---|---|---|
| life cycle | `main.c` | `bz->log`, pid file, `test_conf`, ... | `bz_init_instance` (paths, log, daemonize, redirect, handlers, pid file), `bz_run`, `bz_signal_callback`, `bz_post_run` |
| event loop | `context.c` | signal mask, `bz_*` flags, the tree of running tasks | `context_run`: mask, start all, then `pselect` → reap and restart → callback, for ever |
| task | `task.c` | `pid`, `status`, `node.key`, argument vectors | `task_run` (reset, fork, `task_pre_run`, exec), `task_exit_handler`, `task_close` |
| pid index | `rbtree.c` | nodes with links, key and color; root; sentinel | `rbtree_insert`, `rbtree_delete`, the walk of `context_find_task` |
| signals | `sighandler.c` | handler table | `signal_init`, `signal_handler` |
| configuration | `conf_gram.y`, `conf.c`, `list.h` | static `task`, `conf->tasks_list` | the reductions of the grammar, `list_add` |
| scanner | `conf_scan.l` | none | tokens |
| log | `log.c`, `strutil.c` | a descriptor | `bz_log_create`, `bz_log_close`; `_log`: two bounded prints into a buffer, one `write` |
| descriptors | `bz_redirect_io`, `task_redirect_io`, and all that opens a file | the descriptor table | `open`, `dup2`, `close` |
| options | `bz_get_options` | `show_help`, `test_conf`, ... | refuses, shows the version, or goes on |
| allocation | `alloc.c` | none | |

How they interact: `main()` calls down into `context_run()`, which never returns
in normal operation.  The kernel calls `signal_handler()` back, which only sets
flags and logs through the global `context`.  All signals that matter are blocked
outside `pselect()`, so that flags change there.  `context_event_handler()` calls
`waitpid()` until no child is left, finds the task of each pid in the tree, takes
its node out, and lets `task_run()` write the new pid into it before it is put in
again.  The callback of `main.c` then looks at the quit and terminate flags.
Between processes there is the fork, `SIGCHLD`, and the pid file.

What is hard here is all about order: children die at any moment, several of
them per `SIGCHLD`; the kernel uses pids again; `fork()` fails; signals come
before the mask is set or while the context is being freed; two invocations
share a pid file; the tree is pointer code with stale fields; bitzer may be
started with any descriptor closed; and the handler logs in the middle of
whatever it interrupts.  `PROJECT.json`
lists each such hazard at its line, with the properties that cover it.

What makes each component correct:

* **supervision** — a task has one process at most; the tree, the task fields and
  the kernel agree; no dead child is overlooked; a task is served again or given
  up for a reason; requests to leave are honoured;
* **pid index** — a balanced search tree at every step, no wrong dereference,
  every call returns, and from outside a partial map from pids to nodes;
* **life cycle** — the pid file names the master, and goes with it or the log says
  why not; a request ends the process in the way that was asked for; the signal
  handler finds a context; a daemon that fails after its caller has been told
  that all is well has opened its log by then;
* **configuration** — the list says what the text says, the vectors are those
  that `execv()` needs, are never overrun, and are freed up to their end;
* **task and descriptors** — a program starts with its log as descriptors 0 to 2,
  in its directory, with the mask of the caller, or not at all; a daemon is cut
  off from its caller; nothing else is left open;
* **log** — a line is the text, cut off once, within the buffer; `errno` is kept.

## The modules

| Module | What it is |
|---|---|
| `Keeper.tla` | the promise: each task is *owed* a process, *up*, or *down*; no pids, signals or trees |
| `Supervisor.tla` | the master from the entry of `context_run()` to its exit, its children, and the kernel between them; implements `Keeper` |
| `SupervisorProofs.tla` | the proofs about it |
| `PidIndex.tla` | the contract of the tree: a set of pairs in which no pid and no node occurs twice |
| `RBTree.tla`, `MCRBTree.tla` | `rbtree.c` pointer by pointer, and its instances; implements `PidIndex` |
| `RBHeapProofs.tla`, `RBTreeProofs.tla` | the proofs about it: lemmas about what is written to any heap that holds a tree, and then the steps of `RBTree` |
| `Instance.tla`, `InstanceProofs.tla` | invocations of `main()` that share a pid file, and the proofs about them |
| `Conf.tla`, `ConfProofs.tla`, `ConfTextProofs.tla` | the semantic actions of the grammar up to `task_close()`, and the proofs about their bounds and about what they build |
| `Launch.tla`, `LaunchProofs.tla` | one process from the log of bitzer to the program of a task: its descriptor table and environment, and the proofs about them |
| `LogLine.tla`, `LogLineProofs.tla` | `_log()` in a buffer of a given size, interrupted by a handler that logs, and the proofs about it |

`PidIndex` is where the two halves of supervision meet.  `Supervisor` keeps the
tree as a set of tasks with keys and is proved to ask only for the steps that
`PidIndex` allows (`UsesIndexWell`); `RBTree` is proved to make exactly those
steps with pointers (`KeepsIndex`).  The same contract is the guarantee of one
and the assumption of the other.

### Supervisor

`pc` is a place in `context_run`, `task_run` or the callback; each action is the
straight code between two places at which a child, the kernel or a signal can
make a difference.  `cur` and `ret` are the task and the caller of `task_run()`,
which both the start loop and the restart use.  `pid`, `status` and `key` are the
fields of the tasks, `tree` the tasks that are in the tree.  `proc` and `owner`
are the kernel's view of each pid: free, a forked copy of bitzer, a program, or a
zombie, and the task it was forked for.  `pending` and `flags` are the signals
that are pending and the flags of `context.c:26-30`.  `Pselect(D)` runs the
handlers of any nonempty set of pending unblocked signals, as `pselect()` may.
`Blocked` is the mask: inherited signals before `context_sigmask()`, the six of
`context_sigmask()` too afterwards; `SIGTTIN` and `SIGTTOU` are never blocked.
Names and paths of a task are reduced to whether it has both (`Complete`).

### RBTree

An action is one iteration of a loop, or the code between two loops.  The code
writes each case twice with left and right exchanged; here the side is a
parameter.  `Init` leaves the color of a node arbitrary, as `rbtree_node_init()`
does.  `InsertBegin`, `DeleteBegin` and `FindBegin` are the calls.  What a piece
of straight code writes is an operator on heaps of its own (`Rotate`, `Leaf`,
`Unlinked`, `TakePlace`, `Lift`, `BlackenSibling`, `RedFar`, `LiftSibling`), so that
a lemma can say what it does to any tree.

### Instance

One process per invocation, from `main()` to its end, with every failure path to
`bz_post_run()`.  `log` starts as garbage, because `BZ_STRCAT_IF_RELATIVE` may
return before it is set (`main.c:356`).  `linked` says whose open descriptor
still refers to the file at the path, so that a write to an unlinked file is
lost.  `open()` with `O_TRUNC` empties the file; a pid that is written over another
one may leave `Garbled` content, because the longer one sticks out.  `Start` is
`bz_set_default_instance()` and `bz_get_options()`, which may end the invocation
before it has touched anything; `GethostnameFails` is the warning through the
uninitialized `bz->log` (`main.c:309`).  `HandleSignals(i, K)` runs the handler for
one signal or for several that are delivered in one wakeup, so that SIGQUIT and
SIGTERM can both be pending when the callback looks.

`PostRun` is `bz_post_run()`.  `unlink()` may fail, or find nothing at the path: the
file stays, `bz_post_run()` says so if there is a log (`main.c:417`), and `exit(1)`
follows all the same.  Without a log it is silent, and with an uninitialized
`bz->log` it may crash (`log[i] = "garbage"`).

Three variables are history that no guard reads.  `Fork` is the point at which the
caller of a daemon sees exit status 0: `told`.  `rivals` are the invocations that
overlapped.  `complained` are those that have logged, since the file was last
opened, that they could not remove it.

### Conf

A vector is a record of its cells and its `_len` and `_total`; a cell that
`realloc()` has just returned holds `Junk`, and there is no cell beyond `_total`:
a write there changes nothing, and the properties notice.  `said` and `text` are
history: what the file says.  `Close` is `task_close()` for each task of the
list: `Walked` is where its loop gets to, which would include a cell beyond the
end if there were no NULL.  The scanner, the tables of bison and the strings
themselves are left out.

### Launch

`fds` says which file each descriptor refers to; `open()` takes the lowest that is
closed, as POSIX says, and any set may be open at the start.  `bz_redirect_io()`
and `task_redirect_io()` are the same code but for what follows a failure, so
that the actions from `RedirectOpen` to `RedirectClose` serve both, told apart by
`who`: the master gives up, and the child goes on, because `task_pre_run()` does
not look at the result.  `fd` and `std` are the local variable of the function
and the descriptor that its next `dup2()` replaces.  After `Fork` the process is
the child; what the master has open does not change any more.  `cwd`, `pwd` and
`mask` are the rest of what `task_pre_run()` hands over.  The forks and `setsid()`
of `bz_daemonize()` are in `Instance` and change none of this; nor does `umask()`.

### LogLine

Two calls, one of them in a handler that interrupts the other: `Step` lets the
first go on only while the second is idle.  `buf` is the buffer as far as it is
filled, of characters of which only the origin counts; a print of *n* characters
may get past the size only if the code's arithmetic lets it.  `Write` and
`Restore` are separate steps, so that the handler may come between a failed
`write()` and `errno = errno_save`.  The handler is not interrupted by another one:
what a second handler does to the first is what the first does to the code below
it, but the run and the proofs have two levels only.  `_log_stderr()` fills its
buffer as `_log()` does with an empty header, so `LineWhole` speaks of it too; it
does not save `errno` (`log.c:157`), and `ErrnoKept` says nothing about it.  The
counter `nerr`, which nothing reads, is left out.

## The runs

| Run | Bounds | Shows |
|---|---|---|
| `Supervisor_safety` | 3 tasks, one incomplete; 3 pids; foreign children; `fork()` may fail; SIGTERM, SIGQUIT, SIGTTIN | the safety properties, and that every step is one of `Keeper` and of `PidIndex` |
| `Supervisor_live` | 2 tasks, 2 pids, `fork()` cannot fail | dead children are reaped, requests are honoured, `Keeper` with its fairness |
| `Supervisor_forkfails` | 2 tasks, `fork()` may fail | *violation*: one failed `fork()` ends supervision of the task |
| `Supervisor_earlysignal` | 2 tasks | *violation*: a SIGTERM before the mask is slept on |
| `RBTree_ops` | 4 nodes, all operations in every order | the tree properties, `PidIndex`, termination of every call |
| `RBTree_grow` | 10 nodes, inserted in ascending order, deleted in any | the same where a deletion's fixup climbs |
| `Instance_two` | 2 invocations, a daemon and one in the foreground | pid file, handler, what the caller is told, requests |
| `Instance_testconf` | 1 invocation with `-t` | *violation*: `-t` supervises |
| `Conf_blocks` | 2 blocks, 3 arguments, 2 variables, vectors that grow by 2 | vectors, list, and what is freed |
| `Conf_empty` | 2 blocks, no failing allocation | *violation*: `task { }` crashes the parser |
| `Launch_all` | 6 descriptors, any of them open at the start; daemon or not, `dir` or not | descriptors and environment, whatever fails |
| `LogLine_cut` | a buffer of 4, header and message of 0 to 5 characters or an error | bounds, the cut, `errno` |

Why the bounds are enough to be worth something.  Three pids for two complete
tasks let `fork()` run out, let a foreign process take a pid that a task has had,
and let two children die under one `SIGCHLD`; three list entries put a task that
cannot start before, between or after others that have died already.  Ten is the
least number of nodes for which the fixup of a deletion moves up, which a search
over sizes showed; four nodes reach every case of the insertion.  `MCRBTree`
gives node *i* the pid *i*: the code compares keys only, so nothing is lost.  Two
invocations can overlap at every pair of places.  With `DefaultLen = 2` a vector
grows within a block (the third argument), at its end (the two cells for path
and NULL), or not at all (one variable and its NULL).  No more than two files are
open at once beside descriptors 0 to 2, so that six descriptors leave one that
only the caller can have opened.  Texts of 0 to 5 characters end before, at and
behind each place at which a buffer of 4 can be full.

The properties, beyond a type invariant per module:

* `RegistryExact`, `FindTaskCorrect`, `OneProcessPerTask`, `StatusTruthful`,
  `NoLostChild` relate the tree, the fields, the kernel and the pending signals;
* `KeepsPromiseSafely` and `KeepsPromise` are `Keeper` under the refinement
  mapping `keeperSt`.  `SureTasks` are the tasks that may never be given up: all
  complete ones, when `fork()` cannot fail and there are enough pids;
* `SearchTree`, `OneViolation`, `PointersValid` hold at *every* step inside a
  call, so they say what each loop may rely on; `OneViolation` counts black
  nodes on every way down, with the one that a fixup still owes;
* `RedBlackTree` is the three of them together, for the deep tree;
* `PidFileNamesMaster`, `NoLitter`, `NeverSilent`, `HandlerFindsContext`,
  `RequestEnds` relate an invocation to what others left behind or do meanwhile,
  and to what its caller has been told.  `NoLitter` and `RequestEnds` allow for a
  failing `unlink()`: a file that names an invocation that ended by `exit(1)`, or
  that is there when all have, is one about which there is a message in a log.
  `PidFileNamesMaster` has a condition, `i \notin rivals`: an invocation that
  overlaps with another one empties the file, and takes it away when it fails
  (`main.c:270`, `main.c:297`).  `NeverSilent` says that the log of a daemon is open
  when it fails, not that every failure is written to it: `conf_mmap()` returns
  without a word when `fstat()` fails (`conf.c:89`).  `HandlerFindsContext` speaks of
  the time between mask and end of supervision; before `bz_run()` sets the global
  and after `context_close()` a handled signal may crash bitzer, and the model has
  these crashes;
* `InBounds`, `BuildsBlock`, `ListFaithful`, `ClosesWhatWasBuilt` relate the
  vectors, and what is freed in the end, to the text;
* `LogIsLog`, `Detached`, `ProgramStdio`, `NoStray`, `ProgramEnvironment` relate
  what master, daemon and program have to what bitzer was started with.
  `Detached` and `ProgramStdio` have a condition, `OneMissing`: with two or more of
  the descriptors 0 to 2 closed at the start, `open()` in the redirection returns
  one of them, and `close(fd)` closes it again after `dup2()` (`main.c:252`,
  `task.c:114`).  `LogIsLog` needs no such condition for the master;
* `LineWhole` and `ErrnoKept` relate a line to what was asked for, and `errno` to
  what it was before the call.

Each property of a passing run has a mutant (`Bug...`, beside the definition it
replaces): a plausible mistake in the code that makes TLC report the property.

### Fairness

`Supervisor.LiveSpec` assumes that the master is scheduled (weak fairness of its
steps); that no dead child is passed over for ever (strong fairness of
`Waitpid(p)`: the kernel looks at the children oldest first, and a restarted task
gets the youngest); and that a pending signal that is unblocked again and again
is delivered (strong fairness of `pselect` for each signal, which is what the
kernel does with every signal that is pending when the mask changes).  Nothing is
assumed of the tasks or of those who send signals.  `RequestHonoured` has a
hypothesis, `Calm`: from some point on no process ends while the master reaps.
Without it the property fails, and rightly so: tasks that die as fast as they are
restarted keep the loop at `context.c:141` from ending.  `RBTree.LiveSpec` and
`Instance.LiveSpec` only assume that code that can run does.  `CallsReturn` is
checked with four nodes, with which no fixup of a deletion climbs twice; that the
deep tree of `RBTree_grow` is kept in every state is safety, and no bound on the
steps of a call is proved.

The runs take an empty inherited mask.  With `SIGCHLD` in it bitzer never reaps
anything; safety is proved for every inherited mask.

## What disagrees with the documentation

1. A task whose restart meets a failed `fork()` is never started again
   (`context.c:225`); the README promises a restart.  (`Supervisor_forkfails`)
2. A SIGTERM that is handled before the mask is set is recorded and logged as
   "exiting", and then bitzer sleeps until another signal comes (`context.c:83`).
   (`Supervisor_earlysignal`)
3. `-t` is accepted, documented and ignored (`main.c:489`).  (`Instance_testconf`)
4. `task { }` dereferences a null pointer instead of being refused
   (`conf_gram.y:85`).  (`Conf_empty`)

## The proofs

`SupervisorProofs` proves, for every number of tasks, set of pids, set of
signals, inherited mask and choice of the other constants under
`SupervisorAssumption`:

* `TypeCorrect`, `RegistryCorrect`, `LookupCorrect`, `NeverTwoProcesses`,
  `StatusCorrect`, `ChildrenNotLost`: the six invariants of the safety run;
* `GoodCaller`: the implementation of `PidIndex`;
* `PromiseKept`: the implementation of the safety half of `Keeper`.

The argument is one inductive invariant, `IInv`.  `RegistryExact` is not
inductive alone: that an insertion keeps it depends on the task in `task_run()`
having no process and no node (`CurOK`); that depends, for the start loop, on the
rest of the list being untouched (`ListOK`), and for the restart on
`OneProcessPerTask`; `StatusTruthful` speaks only of the moments between two
tasks, so that `FieldsOK` carries it through `task_run()`; and a pid that
`fork()` returns must belong to nobody (`FreeUnowned`).  `InvStep` takes the
actions one by one.  TLC was used to check `IInv` before it was proved.

For `Keeper` it must be known as well that a task of `SureTasks` is never given up.
`fork()` fails there only if no pid is free; `AllOwned` says that without foreign
children each pid in use belongs to a task; no two belong to the same one, and the task that is to be started has
none, so that a pid is free if there are as many as tasks (`ForkFindsPid`, by
counting).  `KeeperStutters` and `KeeperChanges` divide the steps into those that
`Keeper` does not see and those that it does; `ExitStops` is the exit.

`RBHeapProofs` and `RBTreeProofs` prove all that the runs of `RBTree` check but
termination, for any finite set of nodes and any keys: `TypeCorrect`,
`AlwaysSearchTree`, `AlwaysOneViolation`, `AlwaysPointersValid`, `NothingMissed`,
`AlwaysRedBlack`, and `IndexKept`, the implementation of `PidIndex`.  A tree is
pointers, and what the properties say of it (`Below`, `Ways`) is recursive.  So the
invariant does not compute it but claims that it exists: there are a set `T` of
nodes, a `D` with the nodes below each cell, and a `b` with the black nodes of a way
down from each cell, which agree at every link (`Tree`, `Counted`).  That is
local, and each write of the code changes it at a few cells:

* the `...Writes` lemmas say which links a piece of code sets; `RotateTree`,
  `LinkFacts`, `CutTree`, `SupplantTree` that there are `T` and `D` for the new
  links, `RotateSorted`, `SupplantSorted` that the keys are still in order, and
  `RotateCounted`, `CutColours`, `SupplantColours` that there is a `b`;
* one lemma per case of the fixups: `RecolourUncle`, `RotateOuter`, `RotateInner`;
  `RedSibling`, `BlackNephews`, `RedNearNephew`, `RedFarNephew`; and `InsertSettles`
  and `DeleteSettles` for their ends.  `InsertFixing` and `DeleteFixing` are the loop
  invariants: one violation, at the node that the loop is at;
* `Inserting`, `Least` and `Finding` are the invariants of the three walks: the new
  node belongs below the cell; what is on the right of the deleted node is greater
  than the cell, unless it is below it; a node with the key is below the cell;
* `ReachFacts` and `OneHeight` go back from `T`, `D` and `b` to what the properties
  speak of.  A recursive function over subsets is a least closed set (`HullSolves`,
  `HullOnly`: by a set that is as small as can be, not by an induction rule);
  `D` says which sets are closed, and `b` bounds what a way can count.

`KeepsIndex` then needs of each action what becomes of `T`: one node comes, one goes,
or none.  TLC checked this invariant too, with `T`, `D` and `b` computed, on the
bounds of both runs before it was proved.

`ConfProofs` proves, for every set of strings, every `CONF_DEFAULT_LEN` above 0
and texts of any length, that the vectors keep their types (`TypeCorrect`) and
that nothing is written beyond their end (`NothingOverrun`).  Each macro has a
lemma (`GrowSound`, `StoreSound`, `ShiftSound`, `PutFirstSound`); `ArgvSound`
chains them for the end of a block, where two cells are asked for and two used.
Its invariant adds to the type that each vector is sound and the list a sequence.

`ConfTextProofs` goes on from there to the content: `BuildsBlock`, `ListFaithful`
and `ClosesWhatWasBuilt`, for texts of any length.  Each macro has a second lemma
that says what a vector holds afterwards (`GrowHolds`, `StoreHolds`,
`PutFirstHolds`), chained in `ArgvHolds` and `EnvpHolds`; `WalkedUpTo` says where
the loop of `task_close()` stops.  `BuildsBlock` is not enough for the end of a
block: that no vector is made for a block without `env` has to be known as well
(`Building`).  These theorems have a hypothesis, `NullIsNoTask`: `Conf` tells a
null pointer from a task by inequality, and the constant `NULL` might otherwise be
a record that looks like a task.

`LaunchProofs` proves all six invariants of the run of `Launch` for a descriptor
table of any size above 3.  The inductive invariant has a part for each of them.
What carries it: whatever is opened later was closed, so it is not the log
(`TemporaryPart`); the log takes the only gap there is, so that later files get
descriptors above 2 (`FullPart`); and while `dup2()` goes from 0 to 2, those that
it has done equal `fd` (`StdPart`).  `OpenStep` and `CloseStep` are the two lemmas
that all functions which open a file share.

`LogLineProofs` proves the three invariants of its run for every size of the
buffer and all lengths.  `MessagePrinted` is the heart: the second print, given
the room that the first has left, makes of a cut header the cut text, also when
the header has filled the buffer.  For `errno` the invariant follows both calls:
while the handler runs, it is the handler's `before` that agrees with the
interrupted call (`ErrnoFollowed`), except between its `write()` and its restore.

`InstanceProofs` proves the five safety properties of `Instance_two` for any number
of invocations.  `PidFileNamesMaster` rests on two facts: two invocations that are
alive at the same time know it (`RivalsKnown`); hence nobody opens or removes the
file between the `open()` and the `write()` of one that is alone, so that its pid
gets into the file at the path and stays there (`AloneWrites`).  `NoLitter` is not
inductive.  Its first half (`EndComplains`) needs that a pid in the file was
written by an invocation with a log (`PidLogged`), so that a failing `unlink()` is
not silent.  Its second half follows from `FileOwned`: while there is a file and
nobody has complained, some invocation that has opened it (`Holder`) has still to
go through `bz_post_run()`, or has ended without it; an invocation ends only once
(`EndsOnce`).  `LogKept` and `ContextKept` say from which place on there is a log and
a context.

Only model-checked: every liveness property, since fairness and `ENABLED` are
beyond the prover.  That is `DeadAreReaped`, `RequestHonoured`, `RequestEnds`,
`CallsReturn`, and of `KeepsPromise` the fairness of `Keeper`.  Every invariant of a
passing run, and the safety part of every refinement, is stated by a theorem.

## What is not modelled

* The scanner: regular expressions without start conditions, whose actions copy
  the text of a token; it keeps no state, and no property tells its data apart.
* The fields that `bz_get_options()` sets, as such: two of them are constants
  (`Foreground`, `TestConf`), the others strings.
* Strings and formats; the filter by level in the macros of `log.h`; the process
  title; memory allocation beyond success and failure.
* The branch of `bz_log_create()` for an empty file name: the name always has a
  prefix by then (`main.c:373`).
* A `write()` of less than a whole pid or line, which the code does not notice.
* `start_count`, `start_time` and `nerr`, which are written and never read.
  SIGHUP and SIGUSR1 set flags that nothing reads, which the model has.
  `rbtree_min`, `rbtree_max` and `bz_log_reopen` are never called.
* A signal that the forked child gets before `execv()` (`task.c:148`): its handler
  sets a flag of the child, which `execv()` forgets.  Nothing in the repository
  promises that such a signal arrives.

## Plan

Done, in this order: `Keeper` and `Supervisor` with its proofs; `PidIndex` and
`RBTree`; `Instance`; `Conf` with its proofs; `Launch` and `LogLine` with theirs;
`task_close()` in `Conf`, and `bz_get_options()` and the forks in `Instance`; the
proofs about the text in `Conf`, and about `Instance`; that `Supervisor` implements
the safety half of `Keeper`; the proofs about `RBTree`.  Next:

1. The signals of a child before `execv()`, as part of `Supervisor`.
2. `Conf` and `Supervisor` composed: what `task_run()` makes of each kind of block.
3. `Supervisor` and `RBTree` composed: that the nodes of the tasks are a tree of
   `RBTree` at every step, not only that each side keeps to `PidIndex`.
