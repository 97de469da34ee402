-------------------------------- MODULE Conf --------------------------------
(***************************************************************************)
(* The configuration, from the semantic actions of the grammar of          *)
(* conf_gram.y, one for each option that the parser reduces, which build   *)
(* the tasks and their vectors, to task_close(), which frees the strings   *)
(* in them.  A string is an element of a small set; the scanner and the    *)
(* tables of bison are left out, so that a behaviour is a text that they   *)
(* accept up to some point.                                                *)
(* Source: src/src/conf_gram.y, task.c, list.h, context_close() of         *)
(* context.c.                                                              *)
(***************************************************************************)
EXTENDS Naturals, Sequences

CONSTANTS
  Names, Paths, Dirs, Args, Envs,   \* the strings of each option
  NULL,         \* the null pointer
  Junk,         \* what memory holds that realloc() has just returned
  DefaultLen,   \* CONF_DEFAULT_LEN, 10 in the code
  AllocMayFail, \* may malloc() and realloc() return NULL?
  MaxTasks, MaxArgs, MaxEnvs        \* bounds on the text, for TLC

Strings == Names \cup Paths \cup Dirs \cup Args \cup Envs

ASSUME ConfAssumption ==
  /\ DefaultLen \in Nat \ {0}
  /\ AllocMayFail \in BOOLEAN
  /\ MaxTasks \in Nat /\ MaxArgs \in Nat /\ MaxEnvs \in Nat
  /\ NULL \notin Strings /\ Junk \notin Strings /\ NULL # Junk

VARIABLES
  pc,     \* outside and inside a block, or how the load has ended
  task,   \* the static pointer: the task that is being built
  list,   \* conf->tasks_list
  freed,  \* the cells whose strings task_close() has freed, for each task
  said,   \* history: what the text of the current block has said so far
  text    \* history: what the blocks that are complete have said

vars == <<pc, task, list, freed, said, text>>

\* What the text of a block says.
Blocks == [name : Names \cup {NULL}, path : Paths \cup {NULL}, dir : Dirs \cup {NULL},
           args : Seq(Args), envp : Seq(Envs)]

Nothing == [name |-> NULL, path |-> NULL, dir |-> NULL, args |-> <<>>, envp |-> <<>>]

\* A char** with its _len and _total; it is the null pointer while total is 0.
NullVector == [at |-> <<>>, len |-> 0, total |-> 0]

\* task_init()
NewTask == [name |-> NULL, path |-> NULL, dir |-> NULL,
            args |-> NullVector, envp |-> NullVector]

Init ==
  /\ pc = "outside"
  /\ task = NULL
  /\ list = <<>>
  /\ freed = <<>>
  /\ said = Nothing
  /\ text = <<>>

-----------------------------------------------------------------------------
(* The macros *)

\* check_task(): the first option of a block creates the task.
CheckTask == IF task = NULL THEN NewTask ELSE task

\* Has v no room for `need' more cells?
Full(v, need) == v.len + need > v.total

\* Mutant of CheckTaskMember: the vector grows one cell too late.
BugCheckTaskMember(v, need, incr) ==
  IF v.len + need > v.total + 1
    THEN [v EXCEPT !.at = [i \in 0..(v.total + incr - 1) |-> IF i < v.total THEN @[i] ELSE Junk],
                   !.total = @ + incr]
    ELSE v

\* Mutant of CheckTaskMember: the new total is forgotten.
BugRealloc(v, need, incr) ==
  IF Full(v, need)
    THEN [v EXCEPT !.at = [i \in 0..(v.total + incr - 1) |-> IF i < v.total THEN @[i] ELSE Junk]]
    ELSE v

\* check_task_member(): `incr' more cells for a vector that is full.
CheckTaskMember(v, need, incr) ==
  IF Full(v, need)
    THEN [v EXCEPT !.at = [i \in 0..(v.total + incr - 1) |-> IF i < v.total THEN @[i] ELSE Junk],
                   !.total = @ + incr]
    ELSE v

\* v[v_len++] = x; there is no cell beyond v_total to write to.
Store(v, x) == [at |-> [i \in DOMAIN v.at |-> IF i = v.len THEN x ELSE v.at[i]],
                len |-> v.len + 1, total |-> v.total]

\* Mutant of Shift: the loop runs upwards, and copies the first cell over all.
BugShift(v) ==
  [v EXCEPT !.at = [i \in DOMAIN @ |-> IF i \in 1..v.len THEN @[0] ELSE @[i]]]

\* The loop that moves the arguments one cell up.
Shift(v) ==
  [v EXCEPT !.at = [i \in DOMAIN @ |-> IF i \in 1..v.len THEN @[i - 1] ELSE @[i]]]

-----------------------------------------------------------------------------
(* The reductions of the parser *)

OpenTask ==
  /\ pc = "outside"
  /\ Len(text) < MaxTasks
  /\ pc' = "inside"
  /\ said' = Nothing
  /\ UNCHANGED <<task, list, freed, text>>

SetName(n) ==
  /\ pc = "inside"
  /\ task' = [CheckTask EXCEPT !.name = n]
  /\ said' = [said EXCEPT !.name = n]
  /\ UNCHANGED <<pc, list, freed, text>>

SetPath(p) ==
  /\ pc = "inside"
  /\ task' = [CheckTask EXCEPT !.path = p]
  /\ said' = [said EXCEPT !.path = p]
  /\ UNCHANGED <<pc, list, freed, text>>

SetDir(d) ==
  /\ pc = "inside"
  /\ task' = [CheckTask EXCEPT !.dir = d]
  /\ said' = [said EXCEPT !.dir = d]
  /\ UNCHANGED <<pc, list, freed, text>>

\* One word of `args', and one `env'.
AddArg(a) ==
  /\ pc = "inside"
  /\ Len(said.args) < MaxArgs
  /\ task' = [CheckTask EXCEPT !.args = Store(CheckTaskMember(@, 1, DefaultLen), a)]
  /\ said' = [said EXCEPT !.args = Append(@, a)]
  /\ UNCHANGED <<pc, list, freed, text>>

AddEnv(e) ==
  /\ pc = "inside"
  /\ Len(said.envp) < MaxEnvs
  /\ task' = [CheckTask EXCEPT !.envp = Store(CheckTaskMember(@, 1, DefaultLen), e)]
  /\ said' = [said EXCEPT !.envp = Append(@, e)]
  /\ UNCHANGED <<pc, list, freed, text>>

\* v[0] = x; v_len++
PutFirst(v, x) == [at |-> [v.at EXCEPT ![0] = x], len |-> v.len + 1, total |-> v.total]

\* Mutant of Argv: room for the path is made, and none for the end.
BugArgv(t) == Store(PutFirst(Shift(CheckTaskMember(t.args, 1, 2)), t.path), NULL)

\* args at the end of a block: the path goes in front and NULL to the end.
Argv(t) == Store(PutFirst(Shift(CheckTaskMember(t.args, 2, 2)), t.path), NULL)

\* Mutant of Envp: it is terminated when there is room for a NULL.
BugEnvp(t) == IF Full(t.envp, 1) THEN t.envp ELSE Store(t.envp, NULL)

\* envp is NULL-terminated when there is one.
Envp(t) == IF t.envp.total = 0 THEN t.envp ELSE Store(CheckTaskMember(t.envp, 1, 1), NULL)

\* list_add() puts a task in front of the others.
ListAdd(t, l) == <<t>> \o l

\* Mutant of EndTask: the static pointer goes on pointing to the task.
BugEndTask ==
  /\ pc = "inside"
  /\ task # NULL
  /\ list' = ListAdd([task EXCEPT !.args = Argv(task), !.envp = Envp(task)], list)
  /\ task' = [task EXCEPT !.args = Argv(task), !.envp = Envp(task)]
  /\ pc' = "outside"
  /\ text' = Append(text, said)
  /\ UNCHANGED <<freed, said>>

\* The end of a block that has said something.
EndTask ==
  /\ pc = "inside"
  /\ task # NULL
  /\ list' = ListAdd([task EXCEPT !.args = Argv(task), !.envp = Envp(task)], list)
  /\ task' = NULL
  /\ pc' = "outside"
  /\ text' = Append(text, said)
  /\ UNCHANGED <<freed, said>>

\* The end of a block that has said nothing dereferences a null pointer, and so
\* does an option, or the end of a block, when its allocation fails.
Crash ==
  /\ pc = "inside"
  /\ task # NULL => AllocMayFail /\ (Full(task.args, 2) \/ Full(task.envp, 1))
  /\ pc' = "crashed"
  /\ UNCHANGED <<task, list, freed, said, text>>

\* yyparse() gives up: main() ends.  What was built is left alone.
SyntaxError ==
  /\ pc \in {"inside", "outside"}
  /\ pc' = "error"
  /\ UNCHANGED <<task, list, freed, said, text>>

EndOfFile ==
  /\ pc = "outside"
  /\ pc' = "loaded"
  /\ UNCHANGED <<task, list, freed, said, text>>

\* The cells that the loop `while (*ptr) free(*ptr++)' gets past; without a NULL
\* it goes beyond the end.  A vector that is a null pointer has none.
Walked(v) ==
  {i \in 0..v.total : v.total # 0 /\ \A j \in DOMAIN v.at \cap 0..i : v.at[j] # NULL}

\* context_close(): task_close() frees the strings of each task of the list, its
\* path as the first of its arguments.
Close ==
  /\ pc \in {"loaded", "error"}
  /\ pc' = "closed"
  /\ freed' = [k \in DOMAIN list |->
                [args |-> Walked(list[k].args), envp |-> Walked(list[k].envp)]]
  /\ UNCHANGED <<task, list, said, text>>

Finished == pc \in {"closed", "crashed"} /\ UNCHANGED vars

-----------------------------------------------------------------------------
Next ==
  \/ OpenTask
  \/ \E n \in Names : SetName(n)
  \/ \E p \in Paths : SetPath(p)
  \/ \E d \in Dirs : SetDir(d)
  \/ \E a \in Args : AddArg(a)
  \/ \E e \in Envs : AddEnv(e)
  \/ EndTask \/ Crash \/ SyntaxError \/ EndOfFile \/ Close \/ Finished

Spec == Init /\ [][Next]_vars

-----------------------------------------------------------------------------
(* Safety *)

\* What realloc() has allocated is what the code believes to have.
VectorOK(v, S) ==
  /\ v.len \in Nat /\ v.total \in Nat
  /\ v.at \in [0..(v.total - 1) -> S \cup {NULL, Junk}]

TaskOK(t) ==
  /\ DOMAIN t = DOMAIN NewTask
  /\ t.name \in Names \cup {NULL} /\ t.path \in Paths \cup {NULL}
  /\ t.dir \in Dirs \cup {NULL}
  /\ VectorOK(t.args, Paths \cup Args) /\ VectorOK(t.envp, Envs)

TypeOK ==
  /\ pc \in {"outside", "inside", "loaded", "error", "crashed", "closed"}
  /\ task # NULL => TaskOK(task)
  /\ \A k \in DOMAIN list : TaskOK(list[k])
  /\ said \in Blocks
  /\ text \in Seq(Blocks)

\* check_task_member() has always made enough room: no cell is written beyond
\* the end of a vector, whatever the number of arguments and variables is.
InBounds ==
  /\ task # NULL => task.args.len <= task.args.total /\ task.envp.len <= task.envp.total
  /\ \A k \in DOMAIN list :
       /\ list[k].args.len <= list[k].args.total
       /\ list[k].envp.len <= list[k].envp.total

\* The first len cells of v hold the elements of s.
Holds(v, s) == v.len = Len(s) /\ \A i \in 1..Len(s) : v.at[i - 1] = s[i]

SaysSame(t, b) == t.name = b.name /\ t.path = b.path /\ t.dir = b.dir

\* The task that is being built holds what its block has said, and nothing of
\* the block before: the static pointer is null between two blocks.
BuildsBlock ==
  pc \in {"outside", "inside"} =>
    IF task = NULL
      THEN pc = "outside" \/ said = Nothing
      ELSE /\ pc = "inside"
           /\ SaysSame(task, said)
           /\ Holds(task.args, said.args) /\ Holds(task.envp, said.envp)

\* Every block of the text is in the list, the last one first, with the vectors
\* that execv() relies on: the path, the arguments in their order, and NULL.
ListFaithful ==
  /\ Len(list) = Len(text)
  /\ \A k \in 1..Len(list) :
       LET t == list[k]
           b == text[Len(text) + 1 - k]
       IN /\ SaysSame(t, b)
          /\ Holds(t.args, <<b.path>> \o b.args \o <<NULL>>)
          /\ IF b.envp = <<>> THEN t.envp = NullVector
                              ELSE Holds(t.envp, b.envp \o <<NULL>>)

\* task_close() stops at the NULL of a vector, before any cell that was never
\* written or lies beyond the end, and frees each argument and variable of the
\* text once, and the path.  The arguments of a task without a path are not freed
\* at all, since its first cell is NULL.
ClosesWhatWasBuilt ==
  pc = "closed" =>
    \A k \in 1..Len(list) :
      LET b == text[Len(text) + 1 - k]
      IN /\ freed[k].args = IF b.path = NULL THEN {} ELSE 0..Len(b.args)
         /\ freed[k].envp = 0..(Len(b.envp) - 1)

\* README: "`name` and `path` must be provided".  A block that lacks them is
\* refused, here or when it is to be run, and never makes bitzer crash.
NeverCrashes == pc # "crashed"
=============================================================================
