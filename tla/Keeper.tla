------------------------------- MODULE Keeper -------------------------------
(***************************************************************************)
(* What bitzer promises about the tasks of its configuration, with no      *)
(* signals, pids, trees or system calls in it.  A task is "owed" a process *)
(* from the moment the master starts, and again each time its process has  *)
(* ended; the master serves it or gives it up.  A task that was given up   *)
(* stays down.  Once the master has left, nothing is owed to anybody and   *)
(* the processes that are left go their own way.                           *)
(*                                                                         *)
(* Supervisor.tla implements this specification.                           *)
(***************************************************************************)
CONSTANTS
  Tasks,    \* the tasks of the configuration
  Sure      \* the tasks that the master may never give up while it runs

VARIABLES
  on,       \* is the master running?
  st        \* st[t]: "owed", "up" or "down"

vars == <<on, st>>

States == {"owed", "up", "down"}

TypeOK == on \in BOOLEAN /\ st \in [Tasks -> States]

Init == on = TRUE /\ st = [t \in Tasks |-> "owed"]

\* The master starts, or restarts, the process of task t.
Serve(t) ==
  /\ on
  /\ st[t] = "owed"
  /\ st' = [st EXCEPT ![t] = "up"]
  /\ UNCHANGED on

\* The master gives task t up: it is not tried again.
GiveUp(t) ==
  /\ on
  /\ t \notin Sure
  /\ st[t] = "owed"
  /\ st' = [st EXCEPT ![t] = "down"]
  /\ UNCHANGED on

\* The process of task t ends.
End(t) ==
  /\ st[t] = "up"
  /\ st' = [st EXCEPT ![t] = IF on THEN "owed" ELSE "down"]
  /\ UNCHANGED on

\* The master leaves.
Stop ==
  /\ on
  /\ on' = FALSE
  /\ st' = [t \in Tasks |-> IF st[t] = "up" THEN "up" ELSE "down"]

Next ==
  \/ \E t \in Tasks : Serve(t) \/ GiveUp(t) \/ End(t)
  \/ Stop

\* What is owed to a task is not owed for ever.
Fairness == \A t \in Tasks : WF_vars(Serve(t) \/ GiveUp(t))

Spec == Init /\ [][Next]_vars /\ Fairness
=============================================================================
