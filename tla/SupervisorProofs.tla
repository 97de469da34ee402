-------------------------- MODULE SupervisorProofs --------------------------
(***************************************************************************)
(* Proofs about Supervisor.tla, for every list of tasks, every set of pids *)
(* and every choice of the other constants.                                *)
(***************************************************************************)
EXTENDS Supervisor, FiniteSetTheorems, TLAPS

(***************************************************************************)
(* The inductive invariant.  The properties of Supervisor.tla say nothing  *)
(* of the task that task_run() holds, of the part of the list that the     *)
(* start loop has not reached, or of the fields of a task in the tree.     *)
(***************************************************************************)

\* The task in task_run() has no process and no node; once forked, it has one
\* process, under the key that rbtree_insert() is about to use.
CurOK ==
  /\ pc = "task_run" =>
       /\ cur \in Tasks \ tree
       /\ \A p \in Pids : owner[p] # cur
  /\ pc = "rbtree_insert" =>
       /\ cur \in Tasks \ tree
       /\ key[cur] \in Pids
       /\ owner[key[cur]] = cur

\* The start loop has not touched the rest of the list.
ListOK ==
  /\ pc = "context_sigmask" => next = 1
  /\ pc \in {"task_run", "rbtree_insert"} => cur < next
  /\ Alive => \A t \in tree : t < next

\* A task is RUNNING under its pid exactly while the tree holds it, or is
\* about to; task_run() is free to find stale values.
FieldsOK ==
  /\ \A t \in tree : status[t] = "TASK_RUNNING" /\ pid[t] = key[t]
  /\ pc = "rbtree_insert" => status[cur] = "TASK_RUNNING" /\ pid[cur] = key[cur]
  /\ \A t \in Tasks \ tree :
       ~(pc \in {"task_run", "rbtree_insert"} /\ t = cur)
         => status[t] # "TASK_RUNNING" /\ pid[t] = NoPid

\* A pid that is free belongs to nobody.
FreeUnowned == \A p \in Pids : proc[p] = "free" => owner[p] = NoTask

IInv ==
  /\ TypeOK
  /\ CurOK
  /\ ListOK
  /\ FieldsOK
  /\ FreeUnowned
  /\ RegistryExact
  /\ OneProcessPerTask
  /\ NoLostChild

-----------------------------------------------------------------------------
(* Type correctness *)

\* A handler raises flags only, and SIGCHLD raises bz_child.
LEMMA RaisedFlags ==
  ASSUME NEW D
  PROVE  /\ RaisedBy(D) \subseteq Flags
         /\ "SIGCHLD" \in D => "bz_child" \in RaisedBy(D)
<1>1. DOMAIN FlagOf = {"SIGQUIT", "SIGTERM", "SIGINT", "SIGHUP", "SIGUSR1", "SIGCHLD"}
  BY DEF FlagOf
<1>2. \A s \in DOMAIN FlagOf : FlagOf[s] \in Flags
  BY <1>1 DEF FlagOf, Flags
<1>3. FlagOf["SIGCHLD"] = "bz_child"
  BY DEF FlagOf
<1>4. QED
  BY <1>1, <1>2, <1>3 DEF RaisedBy

\* exit() keeps the variables in range.
LEMMA ExitType == \A c \in 0..2 : TypeOK /\ Exit(c) => TypeOK'
<1> SUFFICES ASSUME TypeOK, NEW c \in 0..2, Exit(c) PROVE TypeOK'
  OBVIOUS
<1> USE DEF TypeOK, taskVars, NoTask
<1>1. proc' \in [Pids -> ProcStates]
  BY DEF Exit, ProcStates
<1>2. owner' \in [Pids -> Tasks \cup {NoTask}]
  BY DEF Exit
<1>3. QED
  BY <1>1, <1>2 DEF Exit, Locations

\* Every step of the program and of the kernel keeps the variables in range.
LEMMA TypeStep == TypeOK /\ CurOK /\ [Next]_vars => TypeOK'
<1> SUFFICES ASSUME TypeOK, CurOK, [Next]_vars PROVE TypeOK'
  OBVIOUS
<1> USE SupervisorAssumption
<1> USE DEF TypeOK, Locations, Callers, Statuses, ProcStates, Tasks, NoPid, NoTask,
            Alive, ctlVars, sigVars, taskVars, kernVars
<1>1. ASSUME ContextSigmask PROVE TypeOK'
  <2>1. CASE Exit(1)
    BY <2>1, ExitType, 1 \in 0..2, 2 \in 0..2
  <2>2. CASE ~Exit(1)
    BY <1>1, <2>2 DEF ContextSigmask
  <2>3. QED
    BY <2>1, <2>2
<1>2. ASSUME StartNextTask PROVE TypeOK'
  BY <1>2 DEF StartNextTask
<1>3. ASSUME StartTasksDone PROVE TypeOK'
  BY <1>3 DEF StartTasksDone
<1>4. ASSUME TaskRunFails PROVE TypeOK'
  BY <1>4 DEF TaskRunFails, TaskReset, Return
<1>5. ASSUME NEW p \in Pids, TaskRunForks(p) PROVE TypeOK'
  BY <1>5 DEF TaskRunForks
<1>6. ASSUME RbtreeInsert PROVE TypeOK'
  BY <1>6 DEF RbtreeInsert, Return, CurOK
<1>7. ASSUME NEW D \in SUBSET pending, Pselect(D) PROVE TypeOK'
  BY <1>7, RaisedFlags DEF Pselect
<1>8. ASSUME WaitpidNone PROVE TypeOK'
  BY <1>8 DEF WaitpidNone
<1>9. ASSUME NEW p \in Pids, WaitpidTask(p) PROVE TypeOK'
  BY <1>9 DEF WaitpidTask, Reap, FindTask
<1>10. ASSUME NEW p \in Pids, WaitpidUnknown(p) PROVE TypeOK'
  BY <1>10 DEF WaitpidUnknown, Reap
<1>11. ASSUME Callback PROVE TypeOK'
  <2>1. CASE Exit(1) \/ Exit(2)
    BY <2>1, ExitType, 1 \in 0..2, 2 \in 0..2
  <2>2. CASE ~(Exit(1) \/ Exit(2))
    BY <1>11, <2>2 DEF Callback
  <2>3. QED
    BY <2>1, <2>2
<1>12. ASSUME NEW s \in Signals, SendSignal(s) PROVE TypeOK'
  BY <1>12 DEF SendSignal
<1>13. ASSUME NEW s \in Signals, DeliverSignal(s) PROVE TypeOK'
  BY <1>13, RaisedFlags DEF DeliverSignal
<1>14. ASSUME NEW p \in Pids, ChildExecs(p) PROVE TypeOK'
  BY <1>14 DEF ChildExecs
<1>15. ASSUME NEW p \in Pids, ProcessEnds(p) PROVE TypeOK'
  BY <1>15 DEF ProcessEnds
<1>16. ASSUME NEW p \in Pids, Adopt(p) PROVE TypeOK'
  BY <1>16 DEF Adopt
<1>17. ASSUME Finished PROVE TypeOK'
  BY <1>17 DEF Finished, vars
<1>18. CASE UNCHANGED vars
  BY <1>18 DEF vars
<1>19. QED
  BY <1>1, <1>2, <1>3, <1>4, <1>5, <1>6, <1>7, <1>8, <1>9, <1>10, <1>11, <1>12,
     <1>13, <1>14, <1>15, <1>16, <1>17, <1>18
     DEF Next, MasterStep, Environment, Waitpid


-----------------------------------------------------------------------------
(* The inductive invariant is one. *)

\* It holds when context_run() is entered.
LEMMA InvInit == Init => IInv
<1> USE SupervisorAssumption
<1>1. Init => TypeOK
  BY DEF Init, TypeOK, Locations, Callers, Statuses, ProcStates, Tasks, NoPid, NoTask
<1>2. Init => IInv
  BY <1>1 DEF Init, IInv, CurOK, ListOK, FieldsOK, FreeUnowned, RegistryExact,
              OneProcessPerTask, NoLostChild, NoPid, NoTask, Tasks
<1>3. QED
  BY <1>2

\* No step of the master, of the kernel or of a process breaks it.
LEMMA InvStep == IInv /\ [Next]_vars => IInv'
<1> SUFFICES ASSUME IInv, [Next]_vars PROVE IInv'
  OBVIOUS
<1> USE SupervisorAssumption
<1>0. TypeOK /\ TypeOK'
  BY TypeStep DEF IInv
<1> DEFINE Rest == CurOK /\ ListOK /\ FieldsOK /\ FreeUnowned /\ RegistryExact
                   /\ OneProcessPerTask /\ NoLostChild
<1> USE DEF Tasks, NoPid, NoTask, Alive, ctlVars, sigVars, taskVars, kernVars,
            TypeOK, IInv, CurOK, ListOK, FieldsOK, FreeUnowned, RegistryExact,
            OneProcessPerTask, NoLostChild, Draining
<1>20. ASSUME NEW c, Exit(c), pc \in {"context_sigmask", "callback"}
      PROVE  Rest'      \* only zombies leave the kernel
  <2>1. CurOK' /\ ListOK' /\ FieldsOK' /\ RegistryExact' /\ NoLostChild'
    BY <1>0, <1>20 DEF Exit
  <2>2. FreeUnowned' /\ OneProcessPerTask'
    BY <1>0, <1>20 DEF Exit
  <2>3. QED
    BY <2>1, <2>2
<1>1. ASSUME ContextSigmask PROVE Rest'
  <2>1. CASE pc' = "context_start_tasks"
    BY <1>0, <1>1, <2>1 DEF ContextSigmask, Exit
  <2>2. CASE Exit(1)
    BY <1>20, <1>1, <2>2 DEF ContextSigmask
  <2>3. QED
    BY <1>1, <2>1, <2>2 DEF ContextSigmask
<1>2. ASSUME StartNextTask PROVE Rest'
  BY <1>0, <1>2 DEF StartNextTask
<1>3. ASSUME StartTasksDone PROVE Rest'
  BY <1>0, <1>3 DEF StartTasksDone
<1>4. ASSUME TaskRunFails PROVE Rest'
  BY <1>0, <1>4 DEF TaskRunFails, TaskReset, Return, Callers
<1>5. ASSUME NEW p \in Pids, TaskRunForks(p) PROVE Rest'
  BY <1>0, <1>5 DEF TaskRunForks
<1>6. ASSUME RbtreeInsert PROVE Rest'
  BY <1>0, <1>6 DEF RbtreeInsert, Return, Callers
<1>7. ASSUME NEW D \in SUBSET pending, Pselect(D) PROVE Rest'
  BY <1>0, <1>7, RaisedFlags DEF Pselect
<1>8. ASSUME WaitpidNone PROVE Rest'
  BY <1>0, <1>8 DEF WaitpidNone
<1>9. ASSUME NEW p \in Pids, WaitpidTask(p) PROVE Rest'
  <2>1. PICK t \in FindTask(p) : /\ tree' = tree \ {t}
                                 /\ key' = [key EXCEPT ![t] = NoPid]
                                 /\ cur' = t
    BY <1>9 DEF WaitpidTask
  <2>2. t \in tree /\ key[t] = p /\ owner[p] = t
    BY <1>0, <1>9, <2>1 DEF WaitpidTask, FindTask
  <2>3. CurOK'            \* the dead process was the only one of t
    BY <1>0, <1>9, <2>1, <2>2 DEF WaitpidTask, Reap
  <2>4. RegistryExact'    \* t and p leave the registry together
    BY <1>0, <1>9, <2>1, <2>2 DEF WaitpidTask, Reap
  <2>5. ListOK' /\ FieldsOK' /\ FreeUnowned' /\ OneProcessPerTask' /\ NoLostChild'
    BY <1>0, <1>9, <2>1, <2>2 DEF WaitpidTask, Reap
  <2>6. QED
    BY <2>3, <2>4, <2>5
<1>10. ASSUME NEW p \in Pids, WaitpidUnknown(p) PROVE Rest'
  BY <1>0, <1>10 DEF WaitpidUnknown, Reap, FindTask
<1>11. ASSUME Callback PROVE Rest'
  <2>1. CASE pc' = "pselect"
    BY <1>0, <1>11, <2>1 DEF Callback, Exit
  <2>2. CASE Exit(1) \/ Exit(2)
    BY <1>20, <1>11, <2>2 DEF Callback
  <2>3. QED
    BY <1>11, <2>1, <2>2 DEF Callback
<1>12. ASSUME NEW s \in Signals, SendSignal(s) PROVE Rest'
  BY <1>0, <1>12 DEF SendSignal
<1>13. ASSUME NEW s \in Signals, DeliverSignal(s) PROVE Rest'
  <2>1. Rest' \/ ~NoLostChild'
    BY <1>0, <1>13 DEF DeliverSignal
  <2>2. CASE pc = "context_sigmask"      \* nothing has been forked yet
    <3>1. \A p \in Pids : owner[p] = NoTask
      BY <1>0, <2>2
    <3>2. QED
      BY <1>13, <2>1, <3>1 DEF DeliverSignal
  <2>3. CASE pc # "context_sigmask"      \* SIGCHLD is blocked
    BY <1>0, <1>13, <2>1, <2>3 DEF DeliverSignal, Blocked, Masked
  <2>4. QED
    BY <2>2, <2>3
<1>14. ASSUME NEW p \in Pids, ChildExecs(p) PROVE Rest'
  BY <1>0, <1>14 DEF ChildExecs
<1>15. ASSUME NEW p \in Pids, ProcessEnds(p) PROVE Rest'
  <2>1. ListOK' /\ FieldsOK'
    BY <1>0, <1>15 DEF ProcessEnds
  <2>a. CurOK'            \* without a master, nobody is in task_run()
    <3>1. UNCHANGED <<pc, cur, key, tree>> /\ (Alive => UNCHANGED owner)
      BY <1>15 DEF ProcessEnds
    <3>2. QED
      BY <1>0, <3>1
  <2>b. FreeUnowned'
    BY <1>0, <1>15 DEF ProcessEnds
  <2>2. RegistryExact' /\ OneProcessPerTask'
    <3>1. CASE Alive
      BY <1>0, <1>15, <3>1 DEF ProcessEnds
    <3>2. CASE ~Alive
      BY <1>0, <1>15, <3>2 DEF ProcessEnds
    <3>3. QED
      BY <3>1, <3>2
  <2>3. NoLostChild'      \* the SIGCHLD of this process
    BY <1>0, <1>15 DEF ProcessEnds
  <2>4. QED
    BY <2>1, <2>a, <2>b, <2>2, <2>3
<1>16. ASSUME NEW p \in Pids, Adopt(p) PROVE Rest'
  BY <1>0, <1>16 DEF Adopt
<1>17. ASSUME Finished PROVE Rest'
  BY <1>0, <1>17 DEF Finished, vars
<1>18. CASE UNCHANGED vars
  BY <1>18 DEF vars
<1>19. QED
  BY <1>0, <1>1, <1>2, <1>3, <1>4, <1>5, <1>6, <1>7, <1>8, <1>9, <1>10, <1>11, <1>12,
     <1>13, <1>14, <1>15, <1>16, <1>17, <1>18
     DEF Next, MasterStep, Environment, Waitpid

\* The tree, the fields of the tasks, the kernel and the pending SIGCHLD agree at
\* every step of context_run().
THEOREM Invariance == Spec => []IInv
<1>1. QED
  BY InvInit, InvStep, PTL DEF Spec

-----------------------------------------------------------------------------
(* What follows from it *)

\* The flags, the tree, task->pid and the rest always have their types.
THEOREM TypeCorrect == Spec => []TypeOK
<1>1. IInv => TypeOK
  BY DEF IInv
<1>2. QED
  BY <1>1, Invariance, PTL

\* The tree always holds exactly the processes that have not been reaped,
\* except the one that fork() has just returned.
THEOREM RegistryCorrect == Spec => []RegistryExact
<1>1. IInv => RegistryExact
  BY DEF IInv
<1>2. QED
  BY <1>1, Invariance, PTL

\* context_find_task() never takes a dead process for one of another task.
THEOREM LookupCorrect == Spec => []FindTaskCorrect
<1>1. IInv => FindTaskCorrect
  <2> SUFFICES ASSUME IInv, pc = "waitpid", NEW p \in Pids
               PROVE  FindTask(p) = {owner[p]} \ {NoTask}
    BY DEF FindTaskCorrect
  <2> USE SupervisorAssumption DEF Tasks, NoTask
  <2>1. ASSUME NEW t \in FindTask(p) PROVE t = owner[p] /\ t # NoTask
    BY <2>1 DEF IInv, TypeOK, RegistryExact, Alive, FindTask
  <2>2. owner[p] # NoTask => owner[p] \in FindTask(p)
    BY DEF IInv, TypeOK, RegistryExact, Alive, FindTask
  <2>3. QED
    BY <2>1, <2>2
<1>2. QED
  BY <1>1, Invariance, PTL

\* No task ever has two processes, whatever fork(), the kernel and the other
\* processes do, and also after the master has left.
THEOREM NeverTwoProcesses == Spec => []OneProcessPerTask
<1>1. IInv => OneProcessPerTask
  BY DEF IInv
<1>2. QED
  BY <1>1, Invariance, PTL

\* Between two tasks, task->status and task->pid agree with the kernel.
THEOREM StatusCorrect == Spec => []StatusTruthful
<1>1. IInv => StatusTruthful
  BY SupervisorAssumption
     DEF IInv, TypeOK, StatusTruthful, FieldsOK, RegistryExact, Alive, Tasks, NoTask, NoPid
<1>2. QED
  BY <1>1, Invariance, PTL

\* No SIGCHLD is lost: a dead process of a task will be looked for.
THEOREM ChildrenNotLost == Spec => []NoLostChild
<1>1. IInv => NoLostChild
  BY DEF IInv
<1>2. QED
  BY <1>1, Invariance, PTL

-----------------------------------------------------------------------------
(* The master is a good caller of the red-black tree. *)

\* Each step inserts one pair that is new, deletes one, or leaves the tree alone.
LEMMA IndexStep == IInv /\ [Next]_vars => [Ix!Next]_treeIndex
<1> SUFFICES ASSUME IInv, [Next]_vars PROVE Ix!Next \/ UNCHANGED treeIndex
  OBVIOUS
<1> USE SupervisorAssumption
        DEF Tasks, NoPid, NoTask, Alive, ctlVars, sigVars, taskVars, kernVars, IInv, TypeOK
<1>1. CASE UNCHANGED <<key, tree>>
  BY <1>1 DEF treeIndex
<1>2. CASE RbtreeInsert
  <2>1. treeIndex' = treeIndex \cup {<<key[cur], cur>>}
    BY <1>2 DEF RbtreeInsert, treeIndex
  <2>2. key[cur] \in Pids /\ cur \in Tasks
    BY <1>2 DEF RbtreeInsert, CurOK
  <2>3. \A t \in tree : key[t] # key[cur] /\ t # cur
    BY <1>2 DEF RbtreeInsert, CurOK, RegistryExact
  <2>4. Ix!Insert(key[cur], cur)
    BY <2>1, <2>3 DEF Ix!Insert, treeIndex
  <2>5. <<key[cur], cur>> \in (treeIndex' \ treeIndex) \cap (Pids \X Tasks)
    BY <2>1, <2>2, <2>3 DEF treeIndex
  <2>6. QED
    BY <2>4, <2>5 DEF Ix!Next
<1>3. ASSUME NEW p \in Pids, WaitpidTask(p) PROVE Ix!Next
  <2>1. PICK t \in tree : /\ key[t] = p
                          /\ tree' = tree \ {t}
                          /\ key' = [key EXCEPT ![t] = NoPid]
    BY <1>3 DEF WaitpidTask, FindTask
  <2>2. treeIndex' = treeIndex \ {<<key[t], t>>}
    <3>1. tree' = tree \ {t} /\ \A u \in tree' : key'[u] = key[u]
      BY <2>1
    <3>2. \A e : e \in treeIndex' <=> \E u \in tree' : e = <<key'[u], u>>
      BY DEF treeIndex
    <3>3. \A e : e \in treeIndex' <=> \E u \in tree \ {t} : e = <<key[u], u>>
      BY <3>1, <3>2
    <3>4. QED
      BY <3>3 DEF treeIndex
  <2>3. <<key[t], t>> \in treeIndex
    BY <2>1 DEF treeIndex
  <2>4. QED
    BY <2>2, <2>3 DEF Ix!Next, Ix!Delete
<1>4. ASSUME NEW p \in Pids, TaskRunForks(p) PROVE UNCHANGED treeIndex
  BY <1>4 DEF TaskRunForks, CurOK, treeIndex
<1>5. QED
  BY <1>1, <1>2, <1>3, <1>4
     DEF Next, vars, MasterStep, Environment, Finished, ContextSigmask, StartNextTask,
         StartTasksDone, TaskRunFails, Pselect, WaitpidNone, Waitpid, WaitpidUnknown,
         Callback, Exit, SendSignal, DeliverSignal, ChildExecs, ProcessEnds, Adopt

\* context_restart_task() takes a node out of the tree before task_run() changes
\* its key, and no pid is ever in the tree twice.
THEOREM GoodCaller == Spec => UsesIndexWell
<1>1. Init => Ix!Init
  BY DEF Init, Ix!Init, treeIndex
<1>2. QED
  BY <1>1, Invariance, IndexStep, PTL DEF Spec, UsesIndexWell, Ix!Spec

-----------------------------------------------------------------------------
(* The master implements Keeper: what it promises, without fairness. *)

\* Unless the master adopts processes, every pid in use is that of a task.
AllOwned == ~Adopts => \A p \in Pids : proc[p] # "free" => owner[p] # NoTask

\* Only Adopt() brings in a process that fork() has not returned.
LEMMA OwnedStep == IInv /\ AllOwned /\ [Next]_vars => AllOwned'
<1> SUFFICES ASSUME IInv, AllOwned, [Next]_vars, ~Adopts, NEW q \in Pids, proc'[q] # "free"
             PROVE  owner'[q] # NoTask
  BY SupervisorAssumption DEF AllOwned
<1> USE DEF AllOwned, IInv, TypeOK, NoTask, Tasks, ctlVars, sigVars, taskVars, kernVars
<1>1. CASE UNCHANGED kernVars
  BY <1>1
<1>2. ASSUME NEW p \in Pids, TaskRunForks(p) PROVE owner'[q] # NoTask
  BY <1>2 DEF TaskRunForks, CurOK
<1>3. ASSUME NEW p \in Pids, Reap(p) PROVE owner'[q] # NoTask
  BY <1>3 DEF Reap
<1>4. ASSUME NEW c, Exit(c) PROVE owner'[q] # NoTask
  BY <1>4 DEF Exit
<1>5. ASSUME NEW p \in Pids, ChildExecs(p) \/ ProcessEnds(p) PROVE owner'[q] # NoTask
  BY <1>5 DEF ChildExecs, ProcessEnds
<1>6. QED
  BY <1>1, <1>2, <1>3, <1>4, <1>5
     DEF Next, vars, MasterStep, Environment, Finished, ContextSigmask, StartNextTask,
         StartTasksDone, TaskRunFails, RbtreeInsert, Pselect, WaitpidNone, Waitpid, WaitpidTask,
         WaitpidUnknown, Callback, SendSignal, DeliverSignal, Adopt

\* With a pid for every task, fork() does not run out of them: those in use belong
\* to the other tasks, and none of these has two.
LEMMA ForkFindsPid ==
  ASSUME IInv, AllOwned, pc = "task_run", cur \in SureTasks
  PROVE  ~ForkCanFail
<1> USE SupervisorAssumption DEF IInv, NoTask, Tasks
<1>1. ~ForkMayFail /\ ~Adopts /\ ~(Cardinality(Pids) < N)
  BY DEF SureTasks
<1>2. cur \in 1..N
  BY DEF CurOK
<1>3. ASSUME \A p \in Pids : proc[p] # "free" PROVE FALSE
  <2> DEFINE Others == (1..N) \ {cur}
             f == [p \in Pids |-> owner[p]]
  <2>1. f \in Injection(Pids, Others)
    <3>1. \A p \in Pids : owner[p] \in Others
      BY <1>1, <1>3 DEF AllOwned, CurOK, TypeOK
    <3>2. \A p, q \in Pids : owner[p] = owner[q] => p = q
      BY <1>1, <1>3 DEF AllOwned, OneProcessPerTask
    <3>3. QED
      BY <3>1, <3>2 DEF Injection, IsInjective
  <2>2. IsFiniteSet(1..N) /\ Cardinality(1..N) = N
    BY FS_Interval
  <2>3. IsFiniteSet(Others) /\ Cardinality(Others) = N - 1
    BY <1>2, <2>2, FS_RemoveElement
  <2>4. Cardinality(Pids) <= N - 1 /\ IsFiniteSet(Pids)
    BY <2>1, <2>3, FS_Injection
  <2>5. Cardinality(Pids) \in Nat
    BY <2>4, FS_CardinalityType
  <2>6. QED
    BY <1>1, <2>4, <2>5
<1>4. QED
  BY <1>1, <1>3 DEF ForkCanFail

\* Keeper stutters when no task gets or loses a process and none is dropped.
LEMMA KeeperStutters ==
  ASSUME Alive' = Alive, \A t \in Tasks : (Up(t)' <=> Up(t)) /\ (Up(t) \/ (Owed(t)' <=> Owed(t)))
  PROVE  UNCHANGED K!vars
<1>1. keeperSt' = keeperSt
  BY DEF keeperSt
<1>2. QED
  BY <1>1 DEF K!vars

\* One task changes what it is.
LEMMA KeeperChanges ==
  ASSUME NEW t \in Tasks, NEW v,
         v = IF Up(t)' THEN "up" ELSE IF Owed(t)' THEN "owed" ELSE "down",
         \A u \in Tasks \ {t} : (Up(u)' <=> Up(u)) /\ (Up(u) \/ (Owed(u)' <=> Owed(u)))
  PROVE  keeperSt' = [keeperSt EXCEPT ![t] = v]
BY DEF keeperSt

\* What runs when the master leaves goes on, and nothing else is owed.
LEMMA ExitStops ==
  ASSUME IInv, NEW c, Exit(c), Alive
  PROVE  K!Stop
<1> USE DEF IInv, TypeOK, Tasks, NoTask
<1>1. \A t \in Tasks : Up(t)' <=> Up(t)
  BY SupervisorAssumption DEF Up, Exit
<1>2. ~Alive'
  BY DEF Exit, Alive
<1>3. \A t \in Tasks : ~Owed(t)'
  BY <1>2 DEF Owed
<1>4. keeperSt' = [t \in Tasks |-> IF keeperSt[t] = "up" THEN "up" ELSE "down"]
  BY <1>1, <1>3 DEF keeperSt
<1>5. QED
  BY <1>2, <1>4 DEF K!Stop, Alive

\* Each step serves a task, gives one up that may be given up, sees one end, stops
\* the master, or changes nothing that Keeper knows of.
LEMMA KeeperStep == IInv /\ AllOwned /\ [Next]_vars => [K!Next]_(K!vars)
<1> SUFFICES ASSUME IInv, AllOwned, [Next]_vars PROVE K!Next \/ UNCHANGED K!vars
  OBVIOUS
<1> USE SupervisorAssumption
<1> USE DEF Tasks, NoPid, NoTask, ctlVars, sigVars, taskVars, kernVars, IInv, TypeOK
<1>1. CASE UNCHANGED <<pc, cur, next, proc, owner>>
  <2>1. \A t \in Tasks : (Up(t)' <=> Up(t)) /\ (Owed(t)' <=> Owed(t))
    BY <1>1 DEF Up, Owed, Alive
  <2>2. QED
    BY <1>1, <2>1, KeeperStutters DEF Alive
<1>2. CASE /\ UNCHANGED <<cur, next, proc, owner>>
           /\ pc # "task_run" /\ pc' # "task_run" /\ Alive' = Alive
  <2>1. \A t \in Tasks : (Up(t)' <=> Up(t)) /\ (Owed(t)' <=> Owed(t))
    BY <1>2 DEF Up, Owed
  <2>2. QED
    BY <1>2, <2>1, KeeperStutters
<1>3. CASE StartNextTask
  <2>1. \A t \in Tasks : (Up(t)' <=> Up(t)) /\ (Owed(t)' <=> Owed(t))
    BY <1>3 DEF Up, Owed, Alive, StartNextTask
  <2>2. QED
    BY <1>3, <2>1, KeeperStutters DEF StartNextTask, Alive
<1>4. CASE TaskRunFails
  <2>1. PICK t \in Tasks : t = cur
    BY <1>4 DEF TaskRunFails, CurOK
  <2>2. t \notin SureTasks
    BY <1>4, <2>1, ForkFindsPid DEF TaskRunFails, SureTasks
  <2>3. ~Up(t) /\ Owed(t) /\ ~Up(t)' /\ ~Owed(t)'
    BY <1>4, <2>1 DEF TaskRunFails, Return, Callers, CurOK, ListOK, Up, Owed, Alive
  <2>4. \A u \in Tasks \ {t} : (Up(u)' <=> Up(u)) /\ (Owed(u)' <=> Owed(u))
    BY <1>4, <2>1 DEF TaskRunFails, Return, Callers, Up, Owed, Alive
  <2>5. keeperSt' = [keeperSt EXCEPT ![t] = "down"] /\ keeperSt[t] = "owed"
    BY <2>3, <2>4, KeeperChanges DEF keeperSt
  <2>6. Alive /\ Alive'
    BY <1>4 DEF TaskRunFails, Return, Callers, Alive
  <2>7. K!GiveUp(t)
    BY <2>2, <2>5, <2>6 DEF K!GiveUp
  <2>8. QED
    BY <2>7 DEF K!Next
<1>5. ASSUME NEW p \in Pids, TaskRunForks(p) PROVE K!Next
  <2>1. PICK t \in Tasks : t = cur
    BY <1>5 DEF TaskRunForks, CurOK
  <2>2. ~Up(t) /\ Owed(t) /\ Up(t)'
    BY <1>5, <2>1 DEF TaskRunForks, CurOK, Up, Owed, Alive
  <2>3. \A u \in Tasks \ {t} : (Up(u)' <=> Up(u)) /\ (Owed(u)' <=> Owed(u))
    BY <1>5, <2>1 DEF TaskRunForks, FreeUnowned, Up, Owed, Alive
  <2>4. keeperSt' = [keeperSt EXCEPT ![t] = "up"] /\ keeperSt[t] = "owed"
    BY <2>2, <2>3, KeeperChanges DEF keeperSt
  <2>5. Alive /\ Alive'
    BY <1>5 DEF TaskRunForks, Alive
  <2>6. K!Serve(t)
    BY <2>4, <2>5 DEF K!Serve
  <2>7. QED
    BY <2>6 DEF K!Next
<1>6. CASE RbtreeInsert
  <2>1. \A t \in Tasks : (Up(t)' <=> Up(t)) /\ (Owed(t)' <=> Owed(t))
    BY <1>6 DEF RbtreeInsert, Return, Callers, Up, Owed, Alive
  <2>2. QED
    BY <1>6, <2>1, KeeperStutters DEF RbtreeInsert, Return, Callers, Alive
<1>7. ASSUME NEW p \in Pids, WaitpidTask(p) PROVE UNCHANGED K!vars
  <2>1. PICK t \in tree : key[t] = p /\ cur' = t
    BY <1>7 DEF WaitpidTask, FindTask
  <2>2. owner[p] = t /\ \A q \in Pids : owner[q] = t => q = p
    BY <1>7, <2>1 DEF WaitpidTask, RegistryExact, OneProcessPerTask, Alive
  <2>3. \A u \in Tasks : (Up(u)' <=> Up(u)) /\ (Owed(u)' <=> Owed(u))
    BY <1>7, <2>1, <2>2 DEF WaitpidTask, Reap, Up, Owed, Alive
  <2>4. QED
    BY <1>7, <2>3, KeeperStutters DEF WaitpidTask, Alive
<1>8. ASSUME NEW p \in Pids, WaitpidUnknown(p) PROVE UNCHANGED K!vars
  <2>1. owner[p] = NoTask
    BY <1>8 DEF WaitpidUnknown, FindTask, RegistryExact, Alive
  <2>2. \A u \in Tasks : (Up(u)' <=> Up(u)) /\ (Owed(u)' <=> Owed(u))
    BY <1>8, <2>1 DEF WaitpidUnknown, Reap, Up, Owed, Alive
  <2>3. QED
    BY <1>8, <2>2, KeeperStutters DEF WaitpidUnknown, Alive
<1>9. ASSUME NEW c, Exit(c), Alive PROVE K!Next
  BY <1>9, ExitStops DEF K!Next
<1>10. ASSUME NEW p \in Pids, ChildExecs(p) \/ Adopt(p) PROVE UNCHANGED K!vars
  <2>1. \A u \in Tasks : (Up(u)' <=> Up(u)) /\ (Owed(u)' <=> Owed(u))
    BY <1>10 DEF ChildExecs, Adopt, FreeUnowned, Up, Owed, Alive
  <2>2. QED
    BY <1>10, <2>1, KeeperStutters DEF ChildExecs, Adopt, Alive
<1>11. ASSUME NEW p \in Pids, ProcessEnds(p) PROVE K!Next \/ UNCHANGED K!vars
  <2>1. UNCHANGED <<pc, cur, next>> /\ Alive' = Alive
    BY <1>11 DEF ProcessEnds, Alive
  <2>2. CASE owner[p] = NoTask
    <3>1. \A u \in Tasks : (Up(u)' <=> Up(u)) /\ (Owed(u)' <=> Owed(u))
      BY <1>11, <2>1, <2>2 DEF ProcessEnds, Up, Owed
    <3>2. QED
      BY <2>1, <3>1, KeeperStutters
  <2>3. CASE owner[p] # NoTask
    <3>1. PICK t \in Tasks : t = owner[p]
      BY <2>3
    <3>2. Up(t) /\ \A q \in Pids : owner[q] = t => q = p
      BY <1>11, <2>3, <3>1 DEF ProcessEnds, OneProcessPerTask, Up
    <3>3. ~Up(t)'
      BY <1>11, <3>1, <3>2 DEF ProcessEnds, Up
    <3>4. Alive => Owed(t)'
      BY <1>11, <2>1, <3>1 DEF ProcessEnds, Owed
    <3>5. ~Alive => ~Owed(t)'
      BY <2>1 DEF Owed
    <3>6. \A u \in Tasks \ {t} : (Up(u)' <=> Up(u)) /\ (Owed(u)' <=> Owed(u))
      BY <1>11, <2>1, <3>1 DEF ProcessEnds, Up, Owed
    <3>7. keeperSt' = [keeperSt EXCEPT ![t] = IF Alive THEN "owed" ELSE "down"]
      BY <3>3, <3>4, <3>5, <3>6, KeeperChanges
    <3>8. keeperSt[t] = "up"
      BY <3>2 DEF keeperSt
    <3>9. K!End(t)
      BY <2>1, <3>7, <3>8 DEF K!End
    <3>10. QED
      BY <3>9 DEF K!Next
  <2>4. QED
    BY <2>2, <2>3
<1>12. CASE ContextSigmask
  BY <1>2, <1>9, <1>12 DEF ContextSigmask, Alive
<1>13. CASE Callback
  BY <1>2, <1>9, <1>13 DEF Callback, Alive
<1>14. CASE StartTasksDone \/ WaitpidNone \/ \E D \in SUBSET pending : Pselect(D)
  BY <1>2, <1>14 DEF StartTasksDone, WaitpidNone, Pselect, Alive
<1>15. CASE \E s \in Signals : SendSignal(s) \/ DeliverSignal(s)
  BY <1>1, <1>15 DEF SendSignal, DeliverSignal
<1>16. CASE Finished \/ UNCHANGED vars
  BY <1>1, <1>16 DEF Finished, vars
<1>17. QED
  BY <1>3, <1>4, <1>5, <1>6, <1>7, <1>8, <1>10, <1>11, <1>12, <1>13, <1>14, <1>15, <1>16
     DEF Next, MasterStep, Environment, Waitpid

\* For every list of tasks and whatever processes, signals and fork() do, the master
\* serves no task twice, drops none without a reason, never starts one again that it
\* has given up, and gives none up that fork() cannot fail for.
THEOREM PromiseKept == Spec => KeepsPromiseSafely
<1>1. Init => K!Init
  <2> SUFFICES ASSUME Init PROVE K!Init
    OBVIOUS
  <2>1. \A t \in Tasks : ~Up(t) /\ Owed(t)
    BY DEF Init, Up, Owed, Alive, Tasks, NoTask
  <2>2. QED
    BY <2>1 DEF K!Init, keeperSt, Init, Alive
<1>2. Init => AllOwned
  BY DEF Init, AllOwned
<1>3. QED
  BY <1>1, <1>2, Invariance, OwnedStep, KeeperStep, PTL DEF Spec, KeepsPromiseSafely
=============================================================================
