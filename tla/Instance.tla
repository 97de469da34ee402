------------------------------ MODULE Instance ------------------------------
(***************************************************************************)
(* Invocations of bitzer on one machine that share the path of the pid     *)
(* file: what main() does from its first system call to its exit, what     *)
(* signals do to it on the way, and what becomes of the pid file.          *)
(* context_run() is reduced to its mask, its wait and its callback;        *)
(* Supervisor.tla models the rest of it.  Source: src/src/main.c,          *)
(* sighandler.c, and the life of the context in context.c.                 *)
(***************************************************************************)
EXTENDS FiniteSets

CONSTANTS
  Invocations,  \* the times that somebody runs bitzer
  Foreground,   \* those with -D
  TestConf,     \* those with -t
  NoPid,        \* content of a pid file that is empty
  NoFile,       \* there is no pid file
  Garbled       \* content that two invocations have written over each other

ASSUME InstanceAssumption ==
  /\ {NoPid, NoFile, Garbled} \cap Invocations = {}
  /\ NoPid # NoFile /\ NoPid # Garbled /\ NoFile # Garbled
  /\ Foreground \subseteq Invocations
  /\ TestConf \subseteq Invocations

VARIABLES
  pc,         \* where the process of an invocation is
  log,        \* bz->log
  context,    \* the global that signal_handler() reads
  handlers,   \* has signal_init() been called?
  masked,     \* has context_sigmask() been called?
  flags,      \* bz_quit, bz_terminate
  end,        \* how the invocation ended
  pidfile,    \* the content of the pid file
  linked,     \* the invocations that hold the file open and not unlinked
  rivals,     \* the invocations that another one has overlapped with
  told,       \* the invocations whose caller has seen exit status 0
  complained  \* those that have logged, since the file was last opened, that
              \* they could not remove it

files == <<pidfile, linked>>
signals == <<context, handlers, masked, flags>>
history == <<rivals, told, complained>>
vars == <<pc, log, signals, end, files, history>>

\* The path from start to context_run(), and the way out.
Locations ==
  {"not_started", "strcat", "log_create", "fork", "setsid", "fork_again",
   "redirect_io", "signal_init", "open_pidfile", "write_pidfile",
   "context_create", "context_init", "set_context", "context_sigmask",
   "pselect", "callback", "context_close", "post_run", "gone"}

Requests == {"quit", "terminate"}
\* "other": SIGTTIN or SIGTTOU, which have a handler and are never blocked.
Kinds == Requests \cup {"other"}
\* "refused": main() has ended before bz_init_instance().
Ends == {"none", "refused", "exit1", "exit2", "killed", "crashed"}

TypeOK ==
  /\ pc \in [Invocations -> Locations]
  /\ log \in [Invocations -> {"garbage", "null", "open"}]
  /\ context \in [Invocations -> {"null", "valid", "freed"}]
  /\ handlers \in [Invocations -> BOOLEAN]
  /\ masked \in [Invocations -> BOOLEAN]
  /\ flags \in [Invocations -> SUBSET Requests]
  /\ end \in [Invocations -> Ends]
  /\ pidfile \in Invocations \cup {NoPid, NoFile, Garbled}
  /\ linked \subseteq Invocations
  /\ rivals \subseteq Invocations
  /\ told \subseteq Invocations
  /\ complained \subseteq Invocations

Init ==
  /\ pc = [i \in Invocations |-> "not_started"]
  /\ log = [i \in Invocations |-> "garbage"]
  /\ context = [i \in Invocations |-> "null"]
  /\ handlers = [i \in Invocations |-> FALSE]
  /\ masked = [i \in Invocations |-> FALSE]
  /\ flags = [i \in Invocations |-> {}]
  /\ end = [i \in Invocations |-> "none"]
  /\ pidfile = NoFile
  /\ linked = {}
  /\ rivals = {}
  /\ told = {}
  /\ complained = {}

Alive(i) == pc[i] \notin {"not_started", "gone"}

Goto(i, l) == pc' = [pc EXCEPT ![i] = l]

\* A step of the normal path that may fail: main() goes to bz_post_run() then.
Step(i, from, to) ==
  /\ pc[i] = from
  /\ Goto(i, to) \/ Goto(i, "post_run")

EndWith(i, how) ==
  /\ pc' = [pc EXCEPT ![i] = "gone"]
  /\ end' = [end EXCEPT ![i] = how]

-----------------------------------------------------------------------------
(* bz_init_instance *)

\* Invocation i gets past its options while others are alive.
Overlap(i) ==
  LET others == {j \in Invocations : Alive(j)}
  IN rivals' = IF others = {} THEN rivals ELSE rivals \cup others \cup {i}

\* Mutant of Start: main() goes to bz_post_run() after the usage.
BugStart(i) ==
  /\ pc[i] = "not_started"
  /\ \/ Goto(i, "post_run") /\ UNCHANGED rivals
     \/ Goto(i, "strcat") /\ Overlap(i)
  /\ UNCHANGED <<log, signals, end, files, told, complained>>

\* gethostname() fails in bz_set_default_instance(), and the warning goes through
\* bz->log, which nobody has set; if that is not noticed, Start goes on as usual.
GethostnameFails(i) == EndWith(i, "crashed")

\* bz_get_options(): -h and -v end in exit(0); an option that is unknown or lacks
\* its argument, a negative level, or a prefix that cannot be searched, in the
\* usage and exit(1).  Neither goes by way of bz_post_run().
Start(i) ==
  /\ pc[i] = "not_started"
  /\ \/ EndWith(i, "refused") /\ UNCHANGED rivals
     \/ GethostnameFails(i) /\ UNCHANGED rivals
     \/ Goto(i, "strcat") /\ Overlap(i) /\ UNCHANGED end
  /\ UNCHANGED <<log, signals, files, told, complained>>

\* BZ_STRCAT_IF_RELATIVE makes the paths absolute; malloc() may fail.
Strcat(i) ==
  /\ Step(i, "strcat", "log_create")
  /\ UNCHANGED <<log, signals, end, files, history>>

\* Mutant of LogCreate: its result is not looked at.
BugLogCreate(i) ==
  /\ pc[i] = "log_create"
  /\ Goto(i, IF i \in Foreground THEN "signal_init" ELSE "fork")
  /\ \E l \in {"null", "open"} : log' = [log EXCEPT ![i] = l]
  /\ UNCHANGED <<signals, end, files, history>>

LogCreate(i) ==
  /\ Step(i, "log_create", IF i \in Foreground THEN "signal_init" ELSE "fork")
  /\ log' = [log EXCEPT ![i] = IF pc'[i] = "post_run" THEN "null" ELSE "open"]
  /\ UNCHANGED <<signals, end, files, history>>

\* The first fork() of bz_daemonize(): the child goes on, and the parent leaves
\* with status 0, whatever becomes of the child.
Fork(i) ==
  /\ Step(i, "fork", "setsid")
  /\ told' = IF pc'[i] = "setsid" THEN told \cup {i} ELSE told
  /\ UNCHANGED <<log, signals, end, files, rivals, complained>>

\* The rest of bz_daemonize(), and bz_redirect_io().
BecomeDaemon(i) ==
  /\ \/ Step(i, "setsid", "fork_again")
     \/ Step(i, "fork_again", "redirect_io")
     \/ Step(i, "redirect_io", "signal_init")
  /\ UNCHANGED <<log, signals, end, files, history>>

\* Some handlers may be installed although sigaction() fails for a later one.
SignalInit(i) ==
  /\ Step(i, "signal_init", "open_pidfile")
  /\ \E h \in BOOLEAN :
       /\ ~h => pc'[i] = "post_run"
       /\ handlers' = [handlers EXCEPT ![i] = h]
  /\ UNCHANGED <<log, context, masked, flags, end, files, history>>

\* Mutant of OpenPidfile: open() without O_TRUNC.
BugOpenPidfile(i) ==
  /\ Step(i, "open_pidfile", "write_pidfile")
  /\ IF pc'[i] = "post_run"
       THEN UNCHANGED <<files, complained>>
       ELSE /\ pidfile' = IF pidfile = NoFile THEN NoPid ELSE pidfile
            /\ linked' = linked \cup {i}
            /\ complained' = {}
  /\ UNCHANGED <<log, signals, end, rivals, told>>

\* open(O_TRUNC) takes the content away, whoever wrote it.
OpenPidfile(i) ==
  /\ Step(i, "open_pidfile", "write_pidfile")
  /\ IF pc'[i] = "post_run"
       THEN UNCHANGED <<files, complained>>
       ELSE pidfile' = NoPid /\ linked' = linked \cup {i} /\ complained' = {}
  /\ UNCHANGED <<log, signals, end, rivals, told>>

\* What a file holds after a pid has been written from its start: a longer pid
\* that was there sticks out.
Written(i) == IF pidfile = NoPid THEN {i} ELSE {i, Garbled}

\* write() goes to the file that was opened, which another invocation may have
\* unlinked or written to since.
WritePidfile(i) ==
  /\ Step(i, "write_pidfile", "context_create")
  /\ pidfile' \in IF pc'[i] = "post_run" \/ i \notin linked THEN {pidfile} ELSE Written(i)
  /\ linked' = linked \ {i}
  /\ UNCHANGED <<log, signals, end, history>>

-----------------------------------------------------------------------------
(* bz_run *)

ContextCreate(i) ==
  /\ Step(i, "context_create", "context_init")
  /\ UNCHANGED <<log, signals, end, files, history>>

\* Mutant of ContextInit: the global is never set.
BugContextInit(i) ==
  /\ Step(i, "context_init", "context_sigmask")
  /\ UNCHANGED <<log, signals, end, files, history>>

\* The configuration is loaded; test_conf is never looked at.  On an error the
\* context is freed, but the global has not been set yet.
ContextInit(i) ==
  /\ Step(i, "context_init", "set_context")
  /\ UNCHANGED <<log, signals, end, files, history>>

SetContext(i) ==
  /\ pc[i] = "set_context"
  /\ Goto(i, "context_sigmask")
  /\ context' = [context EXCEPT ![i] = "valid"]
  /\ UNCHANGED <<log, handlers, masked, flags, end, files, history>>

\* context_run(); it returns when sigprocmask() fails.
ContextRun(i) ==
  /\ pc[i] = "context_sigmask"
  /\ \/ Goto(i, "pselect") /\ masked' = [masked EXCEPT ![i] = TRUE]
     \/ Goto(i, "context_close") /\ UNCHANGED masked
  /\ UNCHANGED <<log, context, handlers, flags, end, files, history>>

\* Mutants of Callback: exit(0), and bz_terminate before bz_quit.
BugExitStatus(i) ==
  /\ pc[i] = "callback"
  /\ IF "quit" \in flags[i] THEN EndWith(i, "exit0")
     ELSE /\ Goto(i, IF "terminate" \in flags[i] THEN "context_close" ELSE "pselect")
          /\ UNCHANGED end
  /\ UNCHANGED <<log, signals, files, history>>

BugCallback(i) ==
  /\ pc[i] = "callback"
  /\ IF "terminate" \in flags[i] THEN Goto(i, "context_close") /\ UNCHANGED end
     ELSE IF "quit" \in flags[i] THEN EndWith(i, "exit2")
     ELSE Goto(i, "pselect") /\ UNCHANGED end
  /\ UNCHANGED <<log, signals, files, history>>

\* bz_signal_callback(): exit(2) leaves everything as it is.
Callback(i) ==
  /\ pc[i] = "callback"
  /\ IF "quit" \in flags[i] THEN EndWith(i, "exit2")
     ELSE /\ Goto(i, IF "terminate" \in flags[i] THEN "context_close" ELSE "pselect")
          /\ UNCHANGED end
  /\ UNCHANGED <<log, signals, files, history>>

\* The context is freed, and the global goes on pointing to it.
ContextClose(i) ==
  /\ pc[i] = "context_close"
  /\ Goto(i, "post_run")
  /\ context' = [context EXCEPT ![i] = "freed"]
  /\ UNCHANGED <<log, handlers, masked, flags, end, files, history>>

\* Mutant of PostRun: bz_remove_pidfile() is forgotten.
BugPostRun(i) ==
  /\ pc[i] = "post_run"
  /\ EndWith(i, "exit1")
  /\ UNCHANGED <<log, signals, files, history>>

\* unlink() takes the file away, whoever wrote it.
Removed ==
  /\ pidfile # NoFile
  /\ pidfile' = NoFile /\ linked' = {} /\ complained' = {}

\* unlink() fails, or there is nothing at the path: that is logged if there is a
\* log, and the file stays.
NotRemoved(i) ==
  /\ complained' = IF log[i] = "open" THEN complained \cup {i} ELSE complained
  /\ UNCHANGED files

\* bz_post_run() and exit(1), whether the pid file could be removed or not.  When
\* bz->log has not been set it is read uninitialized, and the path of the pid file
\* may not be the one that was asked for, so that unlink() misses it.
PostRun(i) ==
  /\ pc[i] = "post_run"
  /\ Removed \/ NotRemoved(i)
  /\ \/ EndWith(i, "exit1")
     \/ log[i] = "garbage" /\ EndWith(i, "crashed")
  /\ UNCHANGED <<log, signals, rivals, told>>

-----------------------------------------------------------------------------
(* Signals *)

\* The default action of a signal before signal_init(), or SIGKILL at any time.
Killed(i) ==
  /\ Alive(i)
  /\ EndWith(i, "killed")
  /\ UNCHANGED <<log, signals, files, history>>

Unblocked(i, k) == k = "other" \/ ~masked[i] \/ pc[i] = "pselect"

\* signal_handler() runs for the signals K, one after the other: it records each
\* request, then reads context->log; to read a freed context may or may not be
\* noticed.
HandleSignals(i, K) ==
  /\ Alive(i)
  /\ handlers[i]
  /\ \A k \in K : Unblocked(i, k)
  /\ flags' = [flags EXCEPT ![i] = @ \cup (K \cap Requests)]
  /\ \/ /\ context[i] # "null"
        /\ pc' = [pc EXCEPT ![i] = IF @ = "pselect" THEN "callback" ELSE @]
        /\ UNCHANGED end
     \/ /\ context[i] # "valid"
        /\ EndWith(i, "crashed")
  /\ UNCHANGED <<log, context, handlers, masked, files, history>>

-----------------------------------------------------------------------------
Run(i) ==
  \/ Strcat(i) \/ LogCreate(i) \/ Fork(i) \/ BecomeDaemon(i) \/ SignalInit(i)
  \/ OpenPidfile(i) \/ WritePidfile(i)
  \/ ContextCreate(i) \/ ContextInit(i) \/ SetContext(i) \/ ContextRun(i)
  \/ Callback(i) \/ ContextClose(i) \/ PostRun(i)

Finished == (\A i \in Invocations : pc[i] = "gone") /\ UNCHANGED vars

Next ==
  \/ \E i \in Invocations :
       \/ Start(i) \/ Run(i) \/ Killed(i)
       \/ \E K \in SUBSET Kinds \ {{}} : HandleSignals(i, K)
  \/ Finished

Spec == Init /\ [][Next]_vars

\* A process that can run does.
LiveSpec == Spec /\ \A i \in Invocations : WF_vars(Run(i))
-----------------------------------------------------------------------------
(* Safety *)

Supervising(i) == pc[i] \in {"pselect", "callback"}

\* While bitzer supervises, the pid file holds its pid, whatever an earlier
\* invocation has left in it, unless another invocation was there at the same
\* time: bz_write_pidfile() and bz_remove_pidfile() do not look at what the file
\* holds, so that one that only fails to start takes the file away.  One that is
\* asked for its version, or does not like its options, leaves it alone.
PidFileNamesMaster ==
  \A i \in Invocations : Supervising(i) /\ i \notin rivals => pidfile = i

\* A pid file is never left behind in silence.  It does not name an invocation
\* that has ended by exit(1), unless that one has logged that it could not remove
\* it; and when all have ended that way or at their options, it is gone unless one
\* has logged so since it was last opened, also when invocations have overlapped.
\* exit(2), signals and crashes leave it behind.
NoLitter ==
  /\ \A i \in Invocations : pidfile = i /\ end[i] = "exit1" => i \in complained
  /\ (\A i \in Invocations : pc[i] = "not_started" \/ end[i] \in {"refused", "exit1"})
       => pidfile = NoFile \/ complained # {}

\* From the moment on that the signals are masked until the context is closed,
\* signal_handler() finds a context: bz_run() sets the global early enough.
HandlerFindsContext ==
  [][\A i \in Invocations : Supervising(i) => end'[i] # "crashed"]_vars

\* Whoever starts a daemon sees status 0 before anybody knows whether it will
\* run; if it then fails, in the second fork() or later, its log is open by then:
\* what it writes there is another matter (conf_mmap() fails without a word).
NeverSilent ==
  \A i \in told : end[i] \in {"exit1", "crashed"} => log[i] = "open"

\* usage(): "-t, --test-conf : test configuration and exit".
TestConfExits ==
  \A i \in TestConf : ~Supervising(i)

-----------------------------------------------------------------------------
(* Liveness *)

\* A request that the callback sees ends the process in the way that was asked
\* for, unless a signal cuts it short.  SIGQUIT comes first, and ends it at once
\* with exit(2); after SIGTERM alone bz_post_run() is gone through, so that the pid
\* file does not name the process any more, or its log says that it could not be
\* removed.
RequestEnds ==
  \A i \in Invocations :
    /\ (pc[i] = "callback" /\ "quit" \in flags[i]) ~> end[i] \in {"exit2", "killed"}
    /\ (pc[i] = "callback" /\ flags[i] = {"terminate"})
         ~> \/ end[i] = "exit1" /\ (pidfile = i => i \in complained)
            \/ end[i] \in {"killed", "crashed"}
=============================================================================
