-------------------------------- MODULE Launch --------------------------------
(***************************************************************************)
(* One process of bitzer on its way from main() to the program of a task:  *)
(* what it has open, and the directory, $PWD and signal mask it hands      *)
(* over.  It starts with any of its descriptors closed, opens its log,     *)
(* becomes a daemon or not, writes the pid file, reads the configuration,  *)
(* and supervises; fork() then turns it into the child that becomes the    *)
(* program, and leaves the table of the master as it was.                  *)
(* Source: src/src/main.c, log.c, conf.c, and task_pre_run() of task.c.    *)
(* The strings are left out, and the fork() and setsid() of                *)
(* bz_daemonize(), which do not change what is modelled here.              *)
(***************************************************************************)
EXTENDS Integers

CONSTANT NFds     \* the size of the descriptor table

ASSUME LaunchAssumption == NFds \in Nat /\ NFds > 3

Fds == 0..(NFds - 1)
Std == 0..2       \* STDIN_FILENO, STDOUT_FILENO, STDERR_FILENO
NoFd == -1

Closed == "closed"
\* "caller": whatever bitzer was started with; "task": the log of the task;
\* "elsewhere": another file, at the path of that log in another directory.
Files == {Closed, "caller", "log", "pid", "conf", "task", "elsewhere"}

VARIABLES
  pc,       \* where the process is
  who,      \* the master, or a child that it has forked
  started,  \* the descriptors that were open when bitzer was started
  opt,      \* is it to be a daemon, and does the task have a dir?
  fds,      \* the descriptor table: which file each refers to
  logfd,    \* log->fd, or NoFd when there is no log
  fd,       \* the local variable of the function that has opened a file
  std,      \* the descriptor that the next dup2() replaces
  cwd, pwd, mask    \* working directory, $PWD, signal mask

table == <<fds, logfd, fd, std>>
env == <<cwd, pwd, mask>>
vars == <<pc, who, started, opt, table, env>>

\* "dup2" and "close" are in bz_redirect_io() and in task_redirect_io().
Locations ==
  {"log_create", "redirect_io", "dup2", "close", "open_pidfile", "write_pidfile",
   "conf_open", "conf_load", "sigmask", "pselect", "post_run", "gone",
   "chdir", "setenv_PWD", "setenv__", "sigprocmask", "execv", "program"}

TypeOK ==
  /\ pc \in Locations
  /\ who \in {"master", "child"}
  /\ started \subseteq Fds
  /\ opt \in [daemonize : BOOLEAN, dir : BOOLEAN]
  /\ fds \in [Fds -> Files]
  /\ logfd \in IF pc \in {"log_create", "post_run", "gone"} THEN Fds \cup {NoFd} ELSE Fds
  /\ fd \in Fds \cup {NoFd}
  /\ std \in 0..3
  /\ cwd \in {"start", "dir"} /\ pwd \in {"start", "dir"}
  /\ mask \in {"start", "masked"}

Init ==
  /\ pc = "log_create"
  /\ who = "master"
  /\ started \in SUBSET Fds
  /\ opt \in [daemonize : BOOLEAN, dir : BOOLEAN]
  /\ fds = [d \in Fds |-> IF d \in started THEN "caller" ELSE Closed]
  /\ logfd = NoFd
  /\ fd = NoFd
  /\ std = 0
  /\ cwd = "start" /\ pwd = "start" /\ mask = "start"

-----------------------------------------------------------------------------
(* System calls *)

\* open() returns the lowest descriptor that is closed.
Open(d, file) ==
  /\ fds[d] = Closed
  /\ \A e \in Fds : e < d => fds[e] # Closed
  /\ fds' = [fds EXCEPT ![d] = file]

Close(d) == fds' = [fds EXCEPT ![d] = Closed]

\* A function of the master fails: main() goes to bz_post_run().
Fail == pc' = "post_run" /\ UNCHANGED table

-----------------------------------------------------------------------------
(* The master: bz_init_instance() and bz_run() *)

\* Mutant of LogCreate: the descriptor that open() returned is not looked at.
BugLogCreate ==
  /\ pc = "log_create"
  /\ \/ \E d \in Fds : Open(d, "log") /\ logfd' = d
     \/ UNCHANGED <<fds, logfd>>
  /\ pc' = IF opt.daemonize THEN "redirect_io" ELSE "open_pidfile"
  /\ UNCHANGED <<who, started, opt, fd, std, env>>

\* bz_log_create()
LogCreate ==
  /\ pc = "log_create"
  /\ \/ /\ \E d \in Fds : Open(d, "log") /\ logfd' = d
        /\ pc' = IF opt.daemonize THEN "redirect_io" ELSE "open_pidfile"
        /\ UNCHANGED <<fd, std>>
     \/ Fail
  /\ UNCHANGED <<who, started, opt, env>>

\* The prefix may be relative: the log of a task is looked for from here.
RedirectFile ==
  IF who = "master" THEN "log" ELSE IF cwd = "start" THEN "task" ELSE "elsewhere"

\* bz_redirect_io() ends in an error of the master; task_pre_run() does not
\* look at what task_redirect_io() returns.
RedirectFailed == pc' = IF who = "master" THEN "post_run" ELSE "chdir"

RedirectOpen ==
  /\ pc = "redirect_io"
  /\ \/ /\ \E d \in Fds : Open(d, RedirectFile) /\ fd' = d
        /\ pc' = "dup2"
        /\ std' = 0
     \/ RedirectFailed /\ UNCHANGED <<fds, fd, std>>
  /\ UNCHANGED <<who, started, opt, logfd, env>>

\* Mutant of Dup2Fails: close(fd) is forgotten.
BugDup2Fails ==
  /\ pc = "dup2"
  /\ RedirectFailed
  /\ UNCHANGED <<who, started, opt, table, env>>

\* Mutant of Dup2Fails: the master goes on as the child does.
BugGoOn ==
  /\ pc = "dup2"
  /\ pc' = IF who = "master" THEN "open_pidfile" ELSE "chdir"
  /\ Close(fd)
  /\ UNCHANGED <<who, started, opt, logfd, fd, std, env>>

\* DUP2FAILED
Dup2Fails ==
  /\ pc = "dup2"
  /\ RedirectFailed
  /\ Close(fd)
  /\ UNCHANGED <<who, started, opt, logfd, fd, std, env>>

\* dup2() does nothing when both descriptors are the same.
Dup2 ==
  /\ pc = "dup2"
  /\ fds' = [fds EXCEPT ![std] = fds[fd]]
  /\ std' = std + 1
  /\ pc' = IF std = 2 THEN "close" ELSE "dup2"
  /\ UNCHANGED <<who, started, opt, logfd, fd, env>>

\* Mutant of RedirectClose: the log of bitzer is closed instead.
BugRedirectClose ==
  /\ pc = "close"
  /\ Close(logfd)
  /\ pc' = IF who = "child" THEN "chdir" ELSE "open_pidfile"
  /\ UNCHANGED <<who, started, opt, logfd, fd, std, env>>

\* close(fd), although open() may have returned 0, 1 or 2.
RedirectClose ==
  /\ pc = "close"
  /\ Close(fd)
  /\ pc' \in IF who = "child" THEN {"chdir"} ELSE {"open_pidfile", "post_run"}
  /\ UNCHANGED <<who, started, opt, logfd, fd, std, env>>

\* bz_write_pidfile(), after signal_init(), which may fail too.
OpenPidfile ==
  /\ pc = "open_pidfile"
  /\ \/ /\ \E d \in Fds : Open(d, "pid") /\ fd' = d
        /\ pc' = "write_pidfile"
        /\ UNCHANGED <<logfd, std>>
     \/ Fail
  /\ UNCHANGED <<who, started, opt, env>>

WritePidfile ==
  /\ pc = "write_pidfile"
  /\ Close(fd)
  /\ pc' \in {"conf_open", "post_run"}
  /\ UNCHANGED <<who, started, opt, logfd, fd, std, env>>

\* conf_mmap(); its message about a failure goes to descriptor 2.
ConfOpen ==
  /\ pc = "conf_open"
  /\ \/ /\ \E d \in Fds : Open(d, "conf") /\ fd' = d
        /\ pc' = "conf_load"
        /\ UNCHANGED <<logfd, std>>
     \/ Fail
  /\ UNCHANGED <<who, started, opt, env>>

\* The file is closed whether it could be mapped or not, then parsed.
ConfLoad ==
  /\ pc = "conf_load"
  /\ Close(fd)
  /\ pc' \in {"sigmask", "post_run"}
  /\ UNCHANGED <<who, started, opt, logfd, fd, std, env>>

\* context_sigmask()
ContextSigmask ==
  /\ pc = "sigmask"
  /\ \/ pc' = "pselect" /\ mask' = "masked"
     \/ pc' = "post_run" /\ UNCHANGED mask
  /\ UNCHANGED <<who, started, opt, table, cwd, pwd>>

\* The master ends, by bz_log_close(): SIGTERM, or a failure before.
PostRun ==
  /\ pc \in {"post_run", "pselect"}
  /\ pc' = "gone"
  /\ IF logfd > 0 /\ logfd # 2 THEN Close(logfd) ELSE UNCHANGED fds
  /\ UNCHANGED <<who, started, opt, logfd, fd, std, env>>

-----------------------------------------------------------------------------
(* The child: task_pre_run() and execv() *)

\* Mutant of Fork: the directory is changed before the redirection.
BugFork ==
  /\ pc = "pselect"
  /\ who' = "child"
  /\ cwd' = IF opt.dir THEN "dir" ELSE cwd
  /\ pc' = "redirect_io"
  /\ std' = 0
  /\ UNCHANGED <<started, opt, fds, logfd, fd, pwd, mask>>

\* fork() of task_run()
Fork ==
  /\ pc = "pselect"
  /\ who' = "child"
  /\ pc' = "redirect_io"
  /\ std' = 0
  /\ UNCHANGED <<started, opt, fds, logfd, fd, env>>

Chdir ==
  /\ pc = "chdir"
  /\ cwd' = IF opt.dir THEN "dir" ELSE cwd
  /\ pc' = "setenv_PWD"
  /\ UNCHANGED <<who, started, opt, table, pwd, mask>>

SetenvPWD ==
  /\ pc = "setenv_PWD"
  /\ pwd' = IF opt.dir THEN "dir" ELSE pwd
  /\ pc' = "setenv__"
  /\ UNCHANGED <<who, started, opt, table, cwd, mask>>

Setenv_ ==
  /\ pc = "setenv__"
  /\ pc' = "sigprocmask"
  /\ UNCHANGED <<who, started, opt, table, env>>

RestoreMask ==
  /\ pc = "sigprocmask"
  /\ mask' = "start"
  /\ pc' = "execv"
  /\ UNCHANGED <<who, started, opt, table, cwd, pwd>>

Execv ==
  /\ pc = "execv"
  /\ pc' = "program"
  /\ UNCHANGED <<who, started, opt, table, env>>

\* Mutant of ChildFails: what task_pre_run() returns is ignored.
BugChildFails ==
  /\ pc \in {"chdir", "setenv_PWD", "setenv__", "sigprocmask"}
  /\ pc \in {"chdir", "setenv_PWD"} => opt.dir
  /\ pc' = "execv"
  /\ UNCHANGED <<who, started, opt, table, env>>

\* Any other failure of the child ends it, by _exit().
ChildFails ==
  /\ pc \in {"chdir", "setenv_PWD", "setenv__", "sigprocmask", "execv"}
  /\ pc \in {"chdir", "setenv_PWD"} => opt.dir
  /\ pc' = "gone"
  /\ UNCHANGED <<who, started, opt, table, env>>

Finished == pc \in {"gone", "program"} /\ UNCHANGED vars

-----------------------------------------------------------------------------
Next ==
  \/ LogCreate \/ RedirectOpen \/ Dup2 \/ Dup2Fails \/ RedirectClose
  \/ OpenPidfile \/ WritePidfile \/ ConfOpen \/ ConfLoad
  \/ ContextSigmask \/ PostRun
  \/ Fork \/ Chdir \/ SetenvPWD \/ Setenv_ \/ RestoreMask \/ Execv \/ ChildFails
  \/ Finished

Spec == Init /\ [][Next]_vars

-----------------------------------------------------------------------------
(* Safety *)

\* bitzer was started with at most one of the descriptors 0 to 2 closed.
OneMissing == \E d \in Std : Std \ {d} \subseteq started

\* Whatever was closed at the start, log->fd of the master refers to the log,
\* although open() may have made it 0, 1 or 2 and bz_redirect_io() replaces
\* those.  What a child has to say before execv() is written somewhere too: in
\* the log, if 0 to 2 were open, and otherwise in the log of its task.
LogIsLog ==
  logfd # NoFd /\ pc \notin {"gone", "program"} =>
    \/ fds[logfd] = "log"
    \/ who = "child" /\ fds[logfd] = "task" /\ ~(Std \subseteq started)

\* The daemon is cut off from whoever started it, however bz_redirect_io() went,
\* and bz_log_stderr() then writes to the log, unless two descriptors or more
\* were closed at the start: then close(fd) closes one of 0 to 2 again.
Detached ==
  opt.daemonize /\ pc \in {"open_pidfile", "conf_open", "sigmask", "pselect"} =>
    \A d \in Std : fds[d] = "log" \/ (fds[d] = Closed /\ ~OneMissing)

\* A program has its three descriptors on the log of its task, or a redirection
\* has failed, or two descriptors or more were closed at the start.
ProgramStdio ==
  pc = "program" /\ std = 3 /\ OneMissing => \A d \in Std : fds[d] = "task"

\* No path through the functions that open files leaves one open: beside 0 to 2
\* and what the caller had open, master and program have the log of bitzer only.
NoStray ==
  pc \in {"pselect", "program"} =>
    \A d \in Fds \ (Std \cup {logfd}) : fds[d] = IF d \in started THEN "caller" ELSE Closed

\* README.md:44: `dir' "will be the process's working directory".  A program runs
\* there or not at all, $PWD agrees, and bitzer's mask is not handed on.
ProgramEnvironment ==
  pc = "program" => /\ cwd = IF opt.dir THEN "dir" ELSE "start"
                    /\ pwd = cwd
                    /\ mask = "start"
=============================================================================
