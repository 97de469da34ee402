----------------------------- MODULE Supervisor -----------------------------
(***************************************************************************)
(* The master process of bitzer from the entry of context_run() to its     *)
(* exit, the processes it forks for its tasks, and the part of the kernel  *)
(* that joins the two: fork, exec, exit, SIGCHLD, waitpid, the signal mask *)
(* and pselect.  Source: src/src/context.c, task.c, sighandler.c and       *)
(* bz_signal_callback() of main.c.                                         *)
(*                                                                         *)
(* The red-black tree of context.c is a set of tasks here, looked up by    *)
(* key; RBTree.tla shows that the pointer structure implements that.       *)
(* Left out: logging, and start_count and start_time, which the program    *)
(* writes and never reads.                                                 *)
(***************************************************************************)
EXTENDS Naturals, FiniteSets

CONSTANTS
  N,            \* number of tasks of the configuration
  Complete,     \* the tasks that have both a name and a path
  Pids,         \* the process ids that the kernel hands out
  Signals,      \* the signals that somebody may send to the master
  OrigMask,     \* the signals that were blocked when bitzer was started
  ForkMayFail,  \* may fork() fail although a process id is free?
  Adopts        \* may the master become the parent of processes that it did
                \* not fork (it runs as PID 1, or was exec'ed by a script)?

NoPid  == 0
NoTask == 0

\* Task t is the t-th entry of conf->tasks_list.
Tasks == 1..N

\* The signals that context_sigmask() blocks.
Masked == {"SIGCHLD", "SIGINT", "SIGQUIT", "SIGTERM", "SIGHUP", "SIGUSR1"}

\* SIGTTIN and SIGTTOU have a handler and are never blocked.
Handled == Masked \cup {"SIGTTIN", "SIGTTOU"}

ASSUME SupervisorAssumption ==
  /\ N \in Nat
  /\ Complete \subseteq Tasks
  /\ NoPid \notin Pids
  /\ Signals \subseteq Handled
  /\ "SIGCHLD" \in Signals
  /\ OrigMask \subseteq Signals
  /\ ForkMayFail \in BOOLEAN
  /\ Adopts \in BOOLEAN

VARIABLES
  pc,       \* where the master is
  ret,      \* who called task_run(): the start loop or the waitpid loop
  cur,      \* the task in task_run()
  next,     \* position of the start loop in the list
  code,     \* exit status of the master
  flags,    \* the bz_* flags that are raised
  pending,  \* the signals that are pending for the master
  pid, status, key,  \* task->pid, task->status, task->node.key
  tree,     \* the tasks whose node is in ctx->tasks_rbtree
  proc,     \* what the kernel knows of a process id
  owner     \* the task that a process was forked for

ctlVars  == <<pc, ret, cur, next, code>>
sigVars  == <<flags, pending>>
taskVars == <<pid, status, key, tree>>
kernVars == <<proc, owner>>
vars     == <<ctlVars, sigVars, taskVars, kernVars>>

Locations == {"context_sigmask", "context_start_tasks", "task_run",
              "rbtree_insert", "pselect", "waitpid", "callback", "exited"}
Callers   == {"context_start_tasks", "waitpid"}
Flags     == {"bz_quit", "bz_terminate", "bz_reconfigure", "bz_reopen", "bz_child"}
Statuses  == {"TASK_INIT", "TASK_RUNNING", "TASK_FINISHED"}
\* "child": a copy of bitzer in task_pre_run(); "program": after execv().
ProcStates == {"free", "child", "program", "zombie"}

TypeOK ==
  /\ pc \in Locations
  /\ ret \in Callers
  /\ cur \in Tasks \cup {NoTask}
  /\ next \in 1..(N + 1)
  /\ code \in 0..2
  /\ flags \subseteq Flags
  /\ pending \subseteq Signals
  /\ pid \in [Tasks -> Pids \cup {NoPid}]
  /\ status \in [Tasks -> Statuses]
  /\ key \in [Tasks -> Pids \cup {NoPid}]
  /\ tree \subseteq Tasks
  /\ proc \in [Pids -> ProcStates]
  /\ owner \in [Pids -> Tasks \cup {NoTask}]

Init ==
  /\ pc = "context_sigmask"
  /\ ret = "context_start_tasks"
  /\ cur = NoTask
  /\ next = 1
  /\ code = 0
  /\ flags = {}
  /\ pending = {}
  /\ pid = [t \in Tasks |-> NoPid]
  /\ status = [t \in Tasks |-> "TASK_INIT"]
  /\ key = [t \in Tasks |-> NoPid]
  /\ tree = {}
  /\ proc = [p \in Pids |-> "free"]
  /\ owner = [p \in Pids |-> NoTask]

Alive == pc # "exited"

-----------------------------------------------------------------------------
(* Signals *)

\* The flag that signal_handler() raises for a signal, if any.
FlagOf == [SIGQUIT |-> "bz_quit",        SIGTERM |-> "bz_terminate",
           SIGINT  |-> "bz_terminate",   SIGHUP  |-> "bz_reconfigure",
           SIGUSR1 |-> "bz_reopen",      SIGCHLD |-> "bz_child"]

RaisedBy(D) == {FlagOf[s] : s \in D \cap DOMAIN FlagOf}

\* Mutant of Blocked: context_sigmask() forgets SIGCHLD.
BugBlocked ==
  IF pc = "context_sigmask" THEN OrigMask ELSE OrigMask \cup (Masked \ {"SIGCHLD"})

\* The signal mask of the master outside pselect().
Blocked == IF pc = "context_sigmask" THEN OrigMask ELSE OrigMask \cup Masked

\* Somebody sends s; a signal that is already pending is not queued twice.
SendSignal(s) ==
  /\ Alive
  /\ pending' = pending \cup {s}
  /\ UNCHANGED <<ctlVars, flags, taskVars, kernVars>>

\* The handler of s runs while the master does anything but wait.
DeliverSignal(s) ==
  /\ Alive
  /\ pc # "pselect"
  /\ s \in pending \ Blocked
  /\ pending' = pending \ {s}
  /\ flags' = flags \cup RaisedBy({s})
  /\ UNCHANGED <<ctlVars, taskVars, kernVars>>

-----------------------------------------------------------------------------
(* The end of the master *)

\* Mutant of Exit: the processes of the tasks are killed.
BugExit(c) ==
  /\ pc' = "exited"
  /\ code' = c
  /\ cur' = NoTask
  /\ pending' = {}
  /\ proc' = [p \in Pids |-> "free"]
  /\ owner' = [p \in Pids |-> NoTask]
  /\ UNCHANGED <<ret, next, flags, taskVars>>

\* exit(): the children that are left go to init, which reaps the dead ones.
Exit(c) ==
  /\ pc' = "exited"
  /\ code' = c
  /\ cur' = NoTask
  /\ pending' = {}
  /\ proc' = [p \in Pids |-> IF proc[p] = "zombie" THEN "free" ELSE proc[p]]
  /\ owner' = [p \in Pids |-> IF proc[p] = "zombie" THEN NoTask ELSE owner[p]]
  /\ UNCHANGED <<ret, next, flags, taskVars>>

-----------------------------------------------------------------------------
(* context_run: mask the signals, start every task of the list *)

ContextSigmask ==
  /\ pc = "context_sigmask"
  /\ \/ /\ pc' = "context_start_tasks"
        /\ UNCHANGED <<ret, cur, next, code, sigVars, taskVars, kernVars>>
     \/ Exit(1)     \* sigprocmask() failed: context_run returns to main()

\* Mutant of StartNextTask: the loop runs past the end of the list.
BugStartNextTask ==
  /\ pc = "context_start_tasks"
  /\ next <= N + 1
  /\ cur' = next
  /\ next' = next + 1
  /\ ret' = "context_start_tasks"
  /\ pc' = "task_run"
  /\ UNCHANGED <<code, sigVars, taskVars, kernVars>>

StartNextTask ==
  /\ pc = "context_start_tasks"
  /\ next <= N
  /\ cur' = next
  /\ next' = next + 1
  /\ ret' = "context_start_tasks"
  /\ pc' = "task_run"
  /\ UNCHANGED <<code, sigVars, taskVars, kernVars>>

StartTasksDone ==
  /\ pc = "context_start_tasks"
  /\ next > N
  /\ pc' = "pselect"
  /\ UNCHANGED <<ret, cur, next, code, sigVars, taskVars, kernVars>>

-----------------------------------------------------------------------------
(* task_run *)

\* Mutant of TaskReset: the pid of the dead process stays.
BugTaskReset(t) ==
  /\ status' = [status EXCEPT ![t] = "TASK_FINISHED"]
  /\ UNCHANGED pid

\* task_reset() is all that task_run() does to a task that it does not start.
TaskReset(t) ==
  /\ pid' = [pid EXCEPT ![t] = NoPid]
  /\ status' = [status EXCEPT ![t] = "TASK_FINISHED"]

Return ==
  /\ pc' = ret
  /\ cur' = NoTask
  /\ UNCHANGED <<ret, next, code>>

ForkCanFail == ForkMayFail \/ \A p \in Pids : proc[p] # "free"

\* The task has no name or no path, or fork() fails: the caller logs it.
TaskRunFails ==
  /\ pc = "task_run"
  /\ cur \notin Complete \/ ForkCanFail
  /\ TaskReset(cur)
  /\ Return
  /\ UNCHANGED <<key, tree, sigVars, kernVars>>

\* Mutant of TaskRunForks: node.key is not set.
BugTaskRunForks(p) ==
  /\ pc = "task_run"
  /\ cur \in Complete
  /\ proc[p] = "free"
  /\ proc' = [proc EXCEPT ![p] = "child"]
  /\ owner' = [owner EXCEPT ![p] = cur]
  /\ pid' = [pid EXCEPT ![cur] = p]
  /\ status' = [status EXCEPT ![cur] = "TASK_RUNNING"]
  /\ pc' = "rbtree_insert"
  /\ UNCHANGED <<ret, cur, next, code, key, tree, sigVars>>

\* fork() returns p; the new child runs from here on.
TaskRunForks(p) ==
  /\ pc = "task_run"
  /\ cur \in Complete
  /\ proc[p] = "free"
  /\ proc' = [proc EXCEPT ![p] = "child"]
  /\ owner' = [owner EXCEPT ![p] = cur]
  /\ pid' = [pid EXCEPT ![cur] = p]
  /\ key' = [key EXCEPT ![cur] = p]
  /\ status' = [status EXCEPT ![cur] = "TASK_RUNNING"]
  /\ pc' = "rbtree_insert"
  /\ UNCHANGED <<ret, cur, next, code, tree, sigVars>>

\* The caller of task_run(), start loop or restart, puts the node in the tree.
RbtreeInsert ==
  /\ pc = "rbtree_insert"
  /\ tree' = tree \cup {cur}
  /\ Return
  /\ UNCHANGED <<pid, status, key, sigVars, kernVars>>

-----------------------------------------------------------------------------
(* The event loop: pselect, context_event_handler, the signal callback *)

\* pselect() returns EINTR once the handlers of some pending signals have run;
\* the handler of events does nothing as long as no child has ever ended.
Pselect(D) ==
  /\ pc = "pselect"
  /\ D # {}
  /\ D \subseteq pending \ OrigMask
  /\ pending' = pending \ D
  /\ flags' = flags \cup RaisedBy(D)
  /\ pc' = IF "bz_child" \in flags' THEN "waitpid" ELSE "callback"
  /\ UNCHANGED <<ret, cur, next, code, taskVars, kernVars>>

\* Mutant of WaitpidNone: waitpid() is called once per SIGCHLD, not in a loop.
BugWaitpidNone ==
  /\ pc = "waitpid"
  /\ pc' = "callback"
  /\ UNCHANGED <<ret, cur, next, code, sigVars, taskVars, kernVars>>

\* waitpid() returns 0, or -1 when there is no child: the loop ends.
WaitpidNone ==
  /\ pc = "waitpid"
  /\ \A p \in Pids : proc[p] # "zombie"
  /\ pc' = "callback"
  /\ UNCHANGED <<ret, cur, next, code, sigVars, taskVars, kernVars>>

\* Mutant of FindTask: the last node visited is returned when none has key p.
BugFindTask(p) ==
  LET found == {t \in tree : key[t] = p} IN IF found = {} THEN tree ELSE found

\* context_find_task(): the nodes of the tree that carry key p.
FindTask(p) == {t \in tree : key[t] = p}

Reap(p) ==
  /\ proc[p] = "zombie"
  /\ proc' = [proc EXCEPT ![p] = "free"]
  /\ owner' = [owner EXCEPT ![p] = NoTask]

\* Mutant of WaitpidTask: the node stays in the tree.
BugWaitpidTask(p) ==
  /\ pc = "waitpid"
  /\ Reap(p)
  /\ \E t \in FindTask(p) : cur' = t
  /\ ret' = "waitpid"
  /\ pc' = "task_run"
  /\ UNCHANGED <<next, code, taskVars, sigVars>>

\* Mutant of WaitpidTask: the task is not run again.
BugReapOnly(p) ==
  /\ pc = "waitpid"
  /\ Reap(p)
  /\ \E t \in FindTask(p) :
       /\ tree' = tree \ {t}
       /\ key' = [key EXCEPT ![t] = NoPid]
  /\ UNCHANGED <<ctlVars, pid, status, sigVars>>

\* waitpid() returns p; context_restart_task() takes the node of its task out
\* of the tree (rbtree_node_init clears the key) and calls task_run().
WaitpidTask(p) ==
  /\ pc = "waitpid"
  /\ Reap(p)
  /\ \E t \in FindTask(p) :
       /\ tree' = tree \ {t}
       /\ key' = [key EXCEPT ![t] = NoPid]
       /\ cur' = t
  /\ ret' = "waitpid"
  /\ pc' = "task_run"
  /\ UNCHANGED <<next, code, pid, status, sigVars>>

\* waitpid() returns the id of a process that belongs to no task.
WaitpidUnknown(p) ==
  /\ pc = "waitpid"
  /\ Reap(p)
  /\ FindTask(p) = {}
  /\ UNCHANGED <<ctlVars, taskVars, sigVars>>

Waitpid(p) == WaitpidTask(p) \/ WaitpidUnknown(p)

\* Mutant of Callback: only bz_quit is looked at.
BugCallback ==
  /\ pc = "callback"
  /\ \/ "bz_quit" \in flags /\ Exit(2)
     \/ /\ "bz_quit" \notin flags
        /\ pc' = "pselect"
        /\ UNCHANGED <<ret, cur, next, code, sigVars, taskVars, kernVars>>

\* bz_signal_callback(): quitting comes before terminating.
Callback ==
  /\ pc = "callback"
  /\ \/ "bz_quit" \in flags /\ Exit(2)
     \/ "bz_quit" \notin flags /\ "bz_terminate" \in flags /\ Exit(1)
     \/ /\ flags \cap {"bz_quit", "bz_terminate"} = {}
        /\ pc' = "pselect"
        /\ UNCHANGED <<ret, cur, next, code, sigVars, taskVars, kernVars>>

-----------------------------------------------------------------------------
(* The processes of the tasks, and others *)

\* task_pre_run() succeeds and execv() replaces the child.
ChildExecs(p) ==
  /\ proc[p] = "child"
  /\ proc' = [proc EXCEPT ![p] = "program"]
  /\ UNCHANGED <<owner, ctlVars, sigVars, taskVars>>

\* A process ends: the program by itself or by a signal, the child because
\* task_pre_run() or execv() failed.  Without a master, init reaps it.
ProcessEnds(p) ==
  /\ proc[p] \in {"child", "program"}
  /\ IF Alive
       THEN /\ proc' = [proc EXCEPT ![p] = "zombie"]
            /\ pending' = pending \cup {"SIGCHLD"}
            /\ UNCHANGED owner
       ELSE /\ proc' = [proc EXCEPT ![p] = "free"]
            /\ owner' = [owner EXCEPT ![p] = NoTask]
            /\ UNCHANGED pending
  /\ UNCHANGED <<ctlVars, flags, taskVars>>

\* A process that the master did not fork becomes its child.
Adopt(p) ==
  /\ Adopts
  /\ Alive
  /\ proc[p] = "free"
  /\ proc' = [proc EXCEPT ![p] = "program"]
  /\ UNCHANGED <<owner, ctlVars, sigVars, taskVars>>

\* Master and tasks are gone.
Finished ==
  /\ ~Alive
  /\ \A p \in Pids : proc[p] = "free"
  /\ UNCHANGED vars

-----------------------------------------------------------------------------
MasterStep ==
  \/ ContextSigmask \/ StartNextTask \/ StartTasksDone
  \/ TaskRunFails \/ (\E p \in Pids : TaskRunForks(p)) \/ RbtreeInsert
  \/ (\E D \in SUBSET pending : Pselect(D))
  \/ WaitpidNone \/ (\E p \in Pids : Waitpid(p))
  \/ Callback

Environment ==
  \/ \E s \in Signals : SendSignal(s) \/ DeliverSignal(s)
  \/ \E p \in Pids : ChildExecs(p) \/ ProcessEnds(p) \/ Adopt(p)

Next == MasterStep \/ Environment \/ Finished

Spec == Init /\ [][Next]_vars

(* The master is scheduled.  waitpid() picks the children oldest first and  *)
(* a restarted task gets the youngest one, so no dead child waits for ever; *)
(* the kernel delivers every pending signal that is not blocked.            *)
Fairness ==
  /\ WF_vars(MasterStep)
  /\ \A p \in Pids : SF_vars(Waitpid(p))
  /\ \A s \in Signals : SF_vars(\E D \in SUBSET pending : s \in D /\ Pselect(D))

LiveSpec == Spec /\ Fairness

-----------------------------------------------------------------------------
(* Safety *)

\* context_restart_task and task_run keep the tree equal to the processes that
\* have not been reaped: each of them is in the tree under its pid, except the
\* one that fork() has just returned, and the tree holds nothing else.
RegistryExact ==
  Alive =>
    /\ \A p \in Pids : owner[p] # NoTask =>
         /\ key[owner[p]] = p
         /\ owner[p] \in tree \/ (pc = "rbtree_insert" /\ cur = owner[p])
    /\ \A t \in tree : key[t] \in Pids /\ owner[key[t]] = t

\* context_find_task() finds the task of a dead child, no other task (although
\* the kernel gives pids out again), and no task for a foreign process.
FindTaskCorrect ==
  pc = "waitpid" =>
    \A p \in Pids : proc[p] = "zombie" => FindTask(p) = {owner[p]} \ {NoTask}

\* A task is never started while its last process has not been reaped, and the
\* processes that a dead master leaves behind are one per task too.
OneProcessPerTask ==
  \A p, q \in Pids : owner[p] # NoTask /\ owner[p] = owner[q] => p = q

\* Whenever the master is between two tasks, task->status and task->pid say
\* what the kernel says, also after a fork() that failed.
StatusTruthful ==
  pc \in {"waitpid", "callback", "pselect"} =>
    \A t \in Tasks :
      IF status[t] = "TASK_RUNNING"
        THEN pid[t] \in Pids /\ owner[pid[t]] = t
        ELSE pid[t] = NoPid /\ \A p \in Pids : owner[p] # t

\* The waitpid loop is under way: it will look for dead children again.
Draining ==
  \/ pc = "waitpid"
  \/ pc \in {"task_run", "rbtree_insert"} /\ ret = "waitpid"

\* SIGCHLD does not count children, and is blocked outside pselect(): as long
\* as the dead process of a task has not been reaped, either a SIGCHLD is
\* pending or the waitpid loop is under way.
NoLostChild ==
  Alive /\ (\E p \in Pids : proc[p] = "zombie" /\ owner[p] # NoTask)
    => "SIGCHLD" \in pending \/ Draining

\* "graceful termination" (main.c): the master does not go to sleep on a
\* request to quit or to terminate that signal_handler() has recorded.
NeverSleepsOnRequest ==
  pc = "pselect" => flags \cap {"bz_quit", "bz_terminate"} = {}

-----------------------------------------------------------------------------
(* Liveness *)

\* The dead process of a task is reaped, or the master leaves.
DeadAreReaped ==
  \A p \in Pids : (proc[p] = "zombie" /\ owner[p] # NoTask) ~> proc[p] # "zombie"

Requests == {"SIGTERM", "SIGINT", "SIGQUIT"} \cap Signals

\* From some point on no process ends while the master reaps: tasks that die as
\* fast as they are restarted would keep it in the waitpid loop for ever.
Calm == <>[][Draining => \A p \in Pids : ~ProcessEnds(p)]_vars

\* A request to leave that arrives once the signals are masked is honoured,
\* unless crashing tasks starve the callback.
RequestHonoured ==
  Calm => \A s \in Requests : (s \in pending /\ pc # "context_sigmask") ~> ~Alive

\* README: when a process exits the master "will restart the process
\* automatically", as long as the master runs.
RestartedAutomatically ==
  \A t \in Tasks :
    (\E p \in Pids : owner[p] = t /\ proc[p] = "zombie")
      ~> (~Alive \/ \E p \in Pids : owner[p] = t /\ proc[p] # "zombie")

-----------------------------------------------------------------------------
(* The master keeps what Keeper promises. *)

\* The tasks that fork() can never fail for.
SureTasks ==
  IF ForkMayFail \/ Adopts \/ Cardinality(Pids) < N THEN {} ELSE Complete

Up(t) == \E p \in Pids : owner[p] = t /\ proc[p] \in {"child", "program"}

\* Not started yet, dead and not reaped, or in task_run().
Owed(t) ==
  Alive /\ (t >= next \/ (\E p \in Pids : owner[p] = t) \/ (pc = "task_run" /\ cur = t))

keeperSt ==
  [t \in Tasks |-> IF Up(t) THEN "up" ELSE IF Owed(t) THEN "owed" ELSE "down"]

K == INSTANCE Keeper WITH Sure <- SureTasks, on <- Alive, st <- keeperSt

\* No task is served twice, dropped without a reason, or started again after it
\* was given up; what runs when the master leaves goes on.
KeepsPromiseSafely == K!Init /\ [][K!Next]_(K!vars)

\* Moreover no task waits for ever to be started, or started again.
KeepsPromise == K!Spec

\* What ctx->tasks_rbtree holds.
treeIndex == {<<key[t], t>> : t \in tree}

Ix == INSTANCE PidIndex WITH Keys <- Pids, Nodes <- Tasks, index <- treeIndex

\* The master is a caller that the tree can rely on: it never inserts a pid or a
\* node that is there, and never changes the key of a node that is there.
UsesIndexWell == Ix!Spec
=============================================================================
