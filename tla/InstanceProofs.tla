---------------------------- MODULE InstanceProofs ----------------------------
(***************************************************************************)
(* Proofs about Instance.tla, for any number of invocations: what the pid  *)
(* file holds and when it goes, what signal_handler() finds, and what a    *)
(* daemon leaves behind that fails after its caller has been told that it  *)
(* runs.                                                                   *)
(***************************************************************************)
EXTENDS Instance, TLAPS

\* The places between bz_write_pidfile() and bz_post_run().
Named == {"context_create", "context_init", "set_context", "context_sigmask",
          "pselect", "callback", "context_close"}

\* The places at which the global context has been set and not been freed.
WithContext == {"context_sigmask", "pselect", "callback", "context_close"}

\* The places before the end of bz_log_create().
WithoutLog == {"not_started", "strcat", "log_create", "post_run", "gone"}

EndsOnce == \A i \in Invocations : pc[i] # "gone" => end[i] = "none"

\* Two invocations that are alive at the same time know it.
RivalsKnown ==
  \A i, j \in Invocations : i # j /\ Alive(i) /\ Alive(j) => i \in rivals

\* An invocation that is alone writes to the file at the path, which is empty, and
\* it is the one that has written last.
AloneWrites ==
  \A i \in Invocations : i \notin rivals =>
    /\ pc[i] = "write_pidfile" => i \in linked /\ pidfile = NoPid
    /\ pc[i] \in Named => pidfile = i

LogKept ==
  \A i \in Invocations :
    /\ pc[i] \notin WithoutLog => log[i] = "open"
    /\ i \in told => log[i] = "open" /\ pc[i] \notin {"not_started", "strcat", "log_create"}

ContextKept ==
  \A i \in Invocations : pc[i] \in WithContext => context[i] = "valid"

\* A pid that is in the file has been written by an invocation with a log.
PidLogged ==
  \A i \in Invocations :
    pidfile = i => log[i] = "open" /\ pc[i] \notin {"not_started", "strcat", "log_create"}

\* Those that have opened the pid file, and have not been through bz_post_run().
Holder(i) ==
  \/ pc[i] \in Named \cup {"write_pidfile"}
  \/ pc[i] = "post_run" /\ log[i] = "open"
  \/ end[i] \in {"exit2", "killed", "crashed"}

\* If there is a file and nobody has complained about it, somebody holds it still
\* or has ended without going through bz_post_run().
FileOwned ==
  pidfile = NoFile \/ complained # {} \/ \E i \in Invocations : Holder(i)

\* The first half of NoLitter; the second follows from FileOwned and EndsOnce.
EndComplains ==
  \A i \in Invocations : pidfile = i /\ end[i] = "exit1" => i \in complained

IInv ==
  /\ TypeOK
  /\ EndsOnce
  /\ RivalsKnown
  /\ AloneWrites
  /\ LogKept
  /\ ContextKept
  /\ PidLogged
  /\ FileOwned
  /\ EndComplains

-----------------------------------------------------------------------------
(* The invariant *)

\* No invocation has started, and there is no file.
LEMMA InvInit == Init => IInv
  <1> SUFFICES ASSUME Init PROVE IInv
    OBVIOUS
  <1>1. TypeOK
    BY DEF Init, TypeOK, Locations, Ends, Requests
  <1>2. EndsOnce /\ RivalsKnown /\ PidLogged /\ FileOwned /\ EndComplains
    BY InstanceAssumption DEF Init, EndsOnce, RivalsKnown, Alive, PidLogged, FileOwned, EndComplains
  <1>3. AloneWrites /\ LogKept /\ ContextKept
    BY DEF Init, AloneWrites, LogKept, ContextKept, Named, WithContext, WithoutLog
  <1> QED BY <1>1, <1>2, <1>3 DEF IInv

\* The end of bz_get_options(): an invocation that goes on meets those that are alive.
LEMMA StartStep ==
  ASSUME IInv, NEW i \in Invocations, Start(i)
  PROVE  IInv'
  <1> USE DEF IInv, Start, GethostnameFails, Step, Goto, EndWith, Overlap, files, signals, history
  <1>1. TypeOK'
    BY DEF TypeOK, Locations, Ends, Requests, Kinds, Alive
  <1>2. EndsOnce'
    BY DEF EndsOnce, TypeOK, Alive
  <1>3. RivalsKnown'
    BY DEF RivalsKnown, TypeOK, Alive
  <1>4. AloneWrites'
    BY DEF AloneWrites, RivalsKnown, TypeOK, Alive, Named
  <1>5. LogKept'
    BY DEF LogKept, TypeOK, Alive, WithoutLog
  <1>6. ContextKept'
    BY DEF ContextKept, TypeOK, Alive, WithContext
  <1>7. PidLogged'
    BY DEF PidLogged, LogKept, TypeOK, WithoutLog
  <1>8. FileOwned'
    BY DEF FileOwned, Holder, EndsOnce, Named, LogKept, WithoutLog, TypeOK
  <1>9. EndComplains'
    BY DEF EndComplains, PidLogged, EndsOnce, TypeOK
  <1> QED BY <1>1, <1>2, <1>3, <1>4, <1>5, <1>6, <1>7, <1>8, <1>9

\* A path that cannot be made ends the invocation before it has a log.
LEMMA StrcatStep ==
  ASSUME IInv, NEW i \in Invocations, Strcat(i)
  PROVE  IInv'
  <1> USE DEF IInv, Strcat, Step, Goto, EndWith, Overlap, files, signals, history
  <1>1. TypeOK'
    BY DEF TypeOK, Locations, Ends, Requests, Kinds, Alive
  <1>2. EndsOnce'
    BY DEF EndsOnce, TypeOK, Alive
  <1>3. RivalsKnown'
    BY DEF RivalsKnown, TypeOK, Alive
  <1>4. AloneWrites'
    BY DEF AloneWrites, RivalsKnown, TypeOK, Alive, Named
  <1>5. LogKept'
    BY DEF LogKept, TypeOK, Alive, WithoutLog
  <1>6. ContextKept'
    BY DEF ContextKept, TypeOK, Alive, WithContext
  <1>7. PidLogged'
    BY DEF PidLogged, LogKept, TypeOK, WithoutLog
  <1>8. FileOwned'
    BY DEF FileOwned, Holder, Named, LogKept, WithoutLog, TypeOK
  <1>9. EndComplains'
    BY DEF EndComplains, PidLogged, EndsOnce, TypeOK
  <1> QED BY <1>1, <1>2, <1>3, <1>4, <1>5, <1>6, <1>7, <1>8, <1>9

\* bz_log_create() sets log, or ends the invocation.
LEMMA LogCreateStep ==
  ASSUME IInv, NEW i \in Invocations, LogCreate(i)
  PROVE  IInv'
  <1> USE DEF IInv, LogCreate, Step, Goto, EndWith, Overlap, files, signals, history
  <1>1. TypeOK'
    BY DEF TypeOK, Locations, Ends, Requests, Kinds, Alive
  <1>2. EndsOnce'
    BY DEF EndsOnce, TypeOK, Alive
  <1>3. RivalsKnown'
    BY DEF RivalsKnown, TypeOK, Alive
  <1>4. AloneWrites'
    BY DEF AloneWrites, RivalsKnown, TypeOK, Alive, Named
  <1>5. LogKept'
    BY DEF LogKept, TypeOK, Alive, WithoutLog
  <1>6. ContextKept'
    BY DEF ContextKept, TypeOK, Alive, WithContext
  <1>7. PidLogged'
    BY DEF PidLogged, LogKept, TypeOK, WithoutLog
  <1>8. FileOwned'
    BY DEF FileOwned, Holder, Named, LogKept, WithoutLog, TypeOK
  <1>9. EndComplains'
    BY DEF EndComplains, PidLogged, EndsOnce, TypeOK
  <1> QED BY <1>1, <1>2, <1>3, <1>4, <1>5, <1>6, <1>7, <1>8, <1>9

\* The caller is told when the log is open already.
LEMMA ForkStep ==
  ASSUME IInv, NEW i \in Invocations, Fork(i)
  PROVE  IInv'
  <1> USE DEF IInv, Fork, Step, Goto, EndWith, Overlap, files, signals, history
  <1>1. TypeOK'
    BY DEF TypeOK, Locations, Ends, Requests, Kinds, Alive
  <1>2. EndsOnce'
    BY DEF EndsOnce, TypeOK, Alive
  <1>3. RivalsKnown'
    BY DEF RivalsKnown, TypeOK, Alive
  <1>4. AloneWrites'
    BY DEF AloneWrites, RivalsKnown, TypeOK, Alive, Named
  <1>5. LogKept'
    BY DEF LogKept, TypeOK, Alive, WithoutLog
  <1>6. ContextKept'
    BY DEF ContextKept, TypeOK, Alive, WithContext
  <1>7. PidLogged'
    BY DEF PidLogged, LogKept, TypeOK, WithoutLog
  <1>8. FileOwned'
    BY DEF FileOwned, Holder, Named, LogKept, WithoutLog, TypeOK
  <1>9. EndComplains'
    BY DEF EndComplains, PidLogged, EndsOnce, TypeOK
  <1> QED BY <1>1, <1>2, <1>3, <1>4, <1>5, <1>6, <1>7, <1>8, <1>9

\* The rest of bz_daemonize() and the redirection touch no file of others.
LEMMA BecomeDaemonStep ==
  ASSUME IInv, NEW i \in Invocations, BecomeDaemon(i)
  PROVE  IInv'
  <1> USE DEF IInv, BecomeDaemon, Step, Goto, EndWith, Overlap, files, signals, history
  <1>1. TypeOK'
    BY DEF TypeOK, Locations, Ends, Requests, Kinds, Alive
  <1>2. EndsOnce'
    BY DEF EndsOnce, TypeOK, Alive
  <1>3. RivalsKnown'
    BY DEF RivalsKnown, TypeOK, Alive
  <1>4. AloneWrites'
    BY DEF AloneWrites, RivalsKnown, TypeOK, Alive, Named
  <1>5. LogKept'
    BY DEF LogKept, TypeOK, Alive, WithoutLog
  <1>6. ContextKept'
    BY DEF ContextKept, TypeOK, Alive, WithContext
  <1>7. PidLogged'
    BY DEF PidLogged, LogKept, TypeOK, WithoutLog
  <1>8. FileOwned'
    BY DEF FileOwned, Holder, Named, LogKept, WithoutLog, TypeOK
  <1>9. EndComplains'
    BY DEF EndComplains, PidLogged, EndsOnce, TypeOK
  <1> QED BY <1>1, <1>2, <1>3, <1>4, <1>5, <1>6, <1>7, <1>8, <1>9

\* signal_init() comes before there is a pid file of this invocation.
LEMMA SignalInitStep ==
  ASSUME IInv, NEW i \in Invocations, SignalInit(i)
  PROVE  IInv'
  <1> USE DEF IInv, SignalInit, Step, Goto, EndWith, Overlap, files, signals, history
  <1>1. TypeOK'
    BY DEF TypeOK, Locations, Ends, Requests, Kinds, Alive
  <1>2. EndsOnce'
    BY DEF EndsOnce, TypeOK, Alive
  <1>3. RivalsKnown'
    BY DEF RivalsKnown, TypeOK, Alive
  <1>4. AloneWrites'
    BY DEF AloneWrites, RivalsKnown, TypeOK, Alive, Named
  <1>5. LogKept'
    BY DEF LogKept, TypeOK, Alive, WithoutLog
  <1>6. ContextKept'
    BY DEF ContextKept, TypeOK, Alive, WithContext
  <1>7. PidLogged'
    BY DEF PidLogged, LogKept, TypeOK, WithoutLog
  <1>8. FileOwned'
    BY DEF FileOwned, Holder, Named, LogKept, WithoutLog, TypeOK
  <1>9. EndComplains'
    BY DEF EndComplains, PidLogged, EndsOnce, TypeOK
  <1> QED BY <1>1, <1>2, <1>3, <1>4, <1>5, <1>6, <1>7, <1>8, <1>9

\* Whoever opens the file at the path is linked to it.
LEMMA OpenPidfileStep ==
  ASSUME IInv, NEW i \in Invocations, OpenPidfile(i)
  PROVE  IInv'
  <1> USE InstanceAssumption DEF IInv, OpenPidfile, Step, Goto, EndWith, Overlap, files, signals, history
  <1>1. TypeOK'
    BY DEF TypeOK, Locations, Ends, Requests, Kinds, Alive
  <1>2. EndsOnce'
    BY DEF EndsOnce, TypeOK, Alive
  <1>3. RivalsKnown'
    BY DEF RivalsKnown, TypeOK, Alive
  <1>4. AloneWrites'
    BY DEF AloneWrites, RivalsKnown, TypeOK, Alive, Named
  <1>5. LogKept'
    BY DEF LogKept, TypeOK, Alive, WithoutLog
  <1>6. ContextKept'
    BY DEF ContextKept, TypeOK, Alive, WithContext
  <1>7. PidLogged'
    BY DEF PidLogged, LogKept, TypeOK, WithoutLog
  <1>8. FileOwned'
    BY DEF FileOwned, Holder, Named, LogKept, WithoutLog, TypeOK
  <1>9. EndComplains'
    BY DEF EndComplains, PidLogged, EndsOnce, TypeOK
  <1> QED BY <1>1, <1>2, <1>3, <1>4, <1>5, <1>6, <1>7, <1>8, <1>9

\* The pid gets into the file at the path if the invocation is still linked to it.
LEMMA WritePidfileStep ==
  ASSUME IInv, NEW i \in Invocations, WritePidfile(i)
  PROVE  IInv'
  <1> USE InstanceAssumption DEF IInv, WritePidfile, Written, Step, Goto, EndWith, Overlap, files, signals, history
  <1>1. TypeOK'
    BY DEF TypeOK, Locations, Ends, Requests, Kinds, Alive
  <1>2. EndsOnce'
    BY DEF EndsOnce, TypeOK, Alive
  <1>3. RivalsKnown'
    BY DEF RivalsKnown, TypeOK, Alive
  <1>4. AloneWrites'
    BY DEF AloneWrites, RivalsKnown, TypeOK, Alive, Named
  <1>5. LogKept'
    BY DEF LogKept, TypeOK, Alive, WithoutLog
  <1>6. ContextKept'
    BY DEF ContextKept, TypeOK, Alive, WithContext
  <1>7. PidLogged'
    BY DEF PidLogged, LogKept, TypeOK, WithoutLog
  <1>8. FileOwned'
    BY DEF FileOwned, Holder, Named, LogKept, WithoutLog, TypeOK
  <1>9. EndComplains'
    BY DEF EndComplains, PidLogged, EndsOnce, TypeOK
  <1> QED BY <1>1, <1>2, <1>3, <1>4, <1>5, <1>6, <1>7, <1>8, <1>9

\* context_create() leaves the pid file alone.
LEMMA ContextCreateStep ==
  ASSUME IInv, NEW i \in Invocations, ContextCreate(i)
  PROVE  IInv'
  <1> USE DEF IInv, ContextCreate, Step, Goto, EndWith, Overlap, files, signals, history
  <1>1. TypeOK'
    BY DEF TypeOK, Locations, Ends, Requests, Kinds, Alive
  <1>2. EndsOnce'
    BY DEF EndsOnce, TypeOK, Alive
  <1>3. RivalsKnown'
    BY DEF RivalsKnown, TypeOK, Alive
  <1>4. AloneWrites'
    BY DEF AloneWrites, RivalsKnown, TypeOK, Alive, Named
  <1>5. LogKept'
    BY DEF LogKept, TypeOK, Alive, WithoutLog
  <1>6. ContextKept'
    BY DEF ContextKept, TypeOK, Alive, WithContext
  <1>7. PidLogged'
    BY DEF PidLogged, LogKept, TypeOK, WithoutLog
  <1>8. FileOwned'
    BY DEF FileOwned, Holder, Named, LogKept, WithoutLog, TypeOK
  <1>9. EndComplains'
    BY DEF EndComplains, PidLogged, EndsOnce, TypeOK
  <1> QED BY <1>1, <1>2, <1>3, <1>4, <1>5, <1>6, <1>7, <1>8, <1>9

\* context_init() leaves the pid file alone.
LEMMA ContextInitStep ==
  ASSUME IInv, NEW i \in Invocations, ContextInit(i)
  PROVE  IInv'
  <1> USE DEF IInv, ContextInit, Step, Goto, EndWith, Overlap, files, signals, history
  <1>1. TypeOK'
    BY DEF TypeOK, Locations, Ends, Requests, Kinds, Alive
  <1>2. EndsOnce'
    BY DEF EndsOnce, TypeOK, Alive
  <1>3. RivalsKnown'
    BY DEF RivalsKnown, TypeOK, Alive
  <1>4. AloneWrites'
    BY DEF AloneWrites, RivalsKnown, TypeOK, Alive, Named
  <1>5. LogKept'
    BY DEF LogKept, TypeOK, Alive, WithoutLog
  <1>6. ContextKept'
    BY DEF ContextKept, TypeOK, Alive, WithContext
  <1>7. PidLogged'
    BY DEF PidLogged, LogKept, TypeOK, WithoutLog
  <1>8. FileOwned'
    BY DEF FileOwned, Holder, Named, LogKept, WithoutLog, TypeOK
  <1>9. EndComplains'
    BY DEF EndComplains, PidLogged, EndsOnce, TypeOK
  <1> QED BY <1>1, <1>2, <1>3, <1>4, <1>5, <1>6, <1>7, <1>8, <1>9

\* From here on the handler finds the context.
LEMMA SetContextStep ==
  ASSUME IInv, NEW i \in Invocations, SetContext(i)
  PROVE  IInv'
  <1> USE DEF IInv, SetContext, Step, Goto, EndWith, Overlap, files, signals, history
  <1>1. TypeOK'
    BY DEF TypeOK, Locations, Ends, Requests, Kinds, Alive
  <1>2. EndsOnce'
    BY DEF EndsOnce, TypeOK, Alive
  <1>3. RivalsKnown'
    BY DEF RivalsKnown, TypeOK, Alive
  <1>4. AloneWrites'
    BY DEF AloneWrites, RivalsKnown, TypeOK, Alive, Named
  <1>5. LogKept'
    BY DEF LogKept, TypeOK, Alive, WithoutLog
  <1>6. ContextKept'
    BY DEF ContextKept, TypeOK, Alive, WithContext
  <1>7. PidLogged'
    BY DEF PidLogged, LogKept, TypeOK, WithoutLog
  <1>8. FileOwned'
    BY DEF FileOwned, Holder, Named, LogKept, WithoutLog, TypeOK
  <1>9. EndComplains'
    BY DEF EndComplains, PidLogged, EndsOnce, TypeOK
  <1> QED BY <1>1, <1>2, <1>3, <1>4, <1>5, <1>6, <1>7, <1>8, <1>9

\* context_run() keeps the context.
LEMMA ContextRunStep ==
  ASSUME IInv, NEW i \in Invocations, ContextRun(i)
  PROVE  IInv'
  <1> USE DEF IInv, ContextRun, Step, Goto, EndWith, Overlap, files, signals, history
  <1>1. TypeOK'
    BY DEF TypeOK, Locations, Ends, Requests, Kinds, Alive
  <1>2. EndsOnce'
    BY DEF EndsOnce, TypeOK, Alive
  <1>3. RivalsKnown'
    BY DEF RivalsKnown, TypeOK, Alive
  <1>4. AloneWrites'
    BY DEF AloneWrites, RivalsKnown, TypeOK, Alive, Named
  <1>5. LogKept'
    BY DEF LogKept, TypeOK, Alive, WithoutLog
  <1>6. ContextKept'
    BY DEF ContextKept, TypeOK, Alive, WithContext
  <1>7. PidLogged'
    BY DEF PidLogged, LogKept, TypeOK, WithoutLog
  <1>8. FileOwned'
    BY DEF FileOwned, Holder, Named, LogKept, WithoutLog, TypeOK
  <1>9. EndComplains'
    BY DEF EndComplains, PidLogged, EndsOnce, TypeOK
  <1> QED BY <1>1, <1>2, <1>3, <1>4, <1>5, <1>6, <1>7, <1>8, <1>9

\* The callback leads back to pselect() or to the end, with the context in place.
LEMMA CallbackStep ==
  ASSUME IInv, NEW i \in Invocations, Callback(i)
  PROVE  IInv'
  <1> USE DEF IInv, Callback, Step, Goto, EndWith, Overlap, files, signals, history
  <1>1. TypeOK'
    BY DEF TypeOK, Locations, Ends, Requests, Kinds, Alive
  <1>2. EndsOnce'
    BY DEF EndsOnce, TypeOK, Alive
  <1>3. RivalsKnown'
    BY DEF RivalsKnown, TypeOK, Alive
  <1>4. AloneWrites'
    BY DEF AloneWrites, RivalsKnown, TypeOK, Alive, Named
  <1>5. LogKept'
    BY DEF LogKept, TypeOK, Alive, WithoutLog
  <1>6. ContextKept'
    BY DEF ContextKept, TypeOK, Alive, WithContext
  <1>7. PidLogged'
    BY DEF PidLogged, LogKept, TypeOK, WithoutLog
  <1>8. FileOwned'
    BY DEF FileOwned, Holder, Named, LogKept, WithoutLog, TypeOK
  <1>9. EndComplains'
    BY DEF EndComplains, PidLogged, EndsOnce, TypeOK
  <1> QED BY <1>1, <1>2, <1>3, <1>4, <1>5, <1>6, <1>7, <1>8, <1>9

\* The context goes when nothing is supervised any more.
LEMMA ContextCloseStep ==
  ASSUME IInv, NEW i \in Invocations, ContextClose(i)
  PROVE  IInv'
  <1> USE DEF IInv, ContextClose, Step, Goto, EndWith, Overlap, files, signals, history
  <1>1. TypeOK'
    BY DEF TypeOK, Locations, Ends, Requests, Kinds, Alive
  <1>2. EndsOnce'
    BY DEF EndsOnce, TypeOK, Alive
  <1>3. RivalsKnown'
    BY DEF RivalsKnown, TypeOK, Alive
  <1>4. AloneWrites'
    BY DEF AloneWrites, RivalsKnown, TypeOK, Alive, Named
  <1>5. LogKept'
    BY DEF LogKept, TypeOK, Alive, WithoutLog
  <1>6. ContextKept'
    BY DEF ContextKept, TypeOK, Alive, WithContext
  <1>7. PidLogged'
    BY DEF PidLogged, LogKept, TypeOK, WithoutLog
  <1>8. FileOwned'
    BY DEF FileOwned, Holder, Named, LogKept, WithoutLog, TypeOK
  <1>9. EndComplains'
    BY DEF EndComplains, PidLogged, EndsOnce, TypeOK
  <1> QED BY <1>1, <1>2, <1>3, <1>4, <1>5, <1>6, <1>7, <1>8, <1>9

\* bz_post_run() removes the file at the path, whoever wrote it, or complains.
LEMMA PostRunStep ==
  ASSUME IInv, NEW i \in Invocations, PostRun(i)
  PROVE  IInv'
  <1> USE InstanceAssumption DEF IInv, PostRun, Removed, NotRemoved, Step, Goto, EndWith, Overlap, files, signals, history
  <1>1. TypeOK'
    BY DEF TypeOK, Locations, Ends, Requests, Kinds, Alive
  <1>2. EndsOnce'
    BY DEF EndsOnce, TypeOK, Alive
  <1>3. RivalsKnown'
    BY DEF RivalsKnown, TypeOK, Alive
  <1>4. AloneWrites'
    BY DEF AloneWrites, RivalsKnown, TypeOK, Alive, Named
  <1>5. LogKept'
    BY DEF LogKept, TypeOK, Alive, WithoutLog
  <1>6. ContextKept'
    BY DEF ContextKept, TypeOK, Alive, WithContext
  <1>7. PidLogged'
    BY DEF PidLogged, LogKept, TypeOK, WithoutLog
  <1>8. FileOwned'
    BY DEF FileOwned, Holder, EndsOnce, Named, LogKept, WithoutLog, TypeOK
  <1>9. EndComplains'
    BY DEF EndComplains, PidLogged, EndsOnce, TypeOK
  <1> QED BY <1>1, <1>2, <1>3, <1>4, <1>5, <1>6, <1>7, <1>8, <1>9

\* An invocation that is killed leaves its file behind.
LEMMA KilledStep ==
  ASSUME IInv, NEW i \in Invocations, Killed(i)
  PROVE  IInv'
  <1> USE DEF IInv, Killed, Step, Goto, EndWith, Overlap, files, signals, history
  <1>1. TypeOK'
    BY DEF TypeOK, Locations, Ends, Requests, Kinds, Alive
  <1>2. EndsOnce'
    BY DEF EndsOnce, TypeOK, Alive
  <1>3. RivalsKnown'
    BY DEF RivalsKnown, TypeOK, Alive
  <1>4. AloneWrites'
    BY DEF AloneWrites, RivalsKnown, TypeOK, Alive, Named
  <1>5. LogKept'
    BY DEF LogKept, TypeOK, Alive, WithoutLog
  <1>6. ContextKept'
    BY DEF ContextKept, TypeOK, Alive, WithContext
  <1>7. PidLogged'
    BY DEF PidLogged, LogKept, TypeOK, WithoutLog
  <1>8. FileOwned'
    BY DEF FileOwned, Holder, Named, LogKept, WithoutLog, TypeOK
  <1>9. EndComplains'
    BY DEF EndComplains, PidLogged, EndsOnce, TypeOK
  <1> QED BY <1>1, <1>2, <1>3, <1>4, <1>5, <1>6, <1>7, <1>8, <1>9

\* The handler sets a flag or dereferences what context points to.
LEMMA HandleSignalsStep ==
  ASSUME IInv, NEW i \in Invocations, NEW K \in SUBSET Kinds, HandleSignals(i, K)
  PROVE  IInv'
  <1> USE DEF IInv, HandleSignals, Step, Goto, EndWith, Overlap, files, signals, history
  <1>1. TypeOK'
    BY DEF TypeOK, Locations, Ends, Requests, Kinds, Alive
  <1>2. EndsOnce'
    BY DEF EndsOnce, TypeOK, Alive
  <1>3. RivalsKnown'
    BY DEF RivalsKnown, TypeOK, Alive
  <1>4. AloneWrites'
    BY DEF AloneWrites, RivalsKnown, TypeOK, Alive, Named
  <1>5. LogKept'
    BY DEF LogKept, TypeOK, Alive, WithoutLog
  <1>6. ContextKept'
    BY DEF ContextKept, TypeOK, Alive, WithContext
  <1>7. PidLogged'
    BY DEF PidLogged, LogKept, TypeOK, WithoutLog
  <1>8. FileOwned'
    BY DEF FileOwned, Holder, Named, LogKept, WithoutLog, TypeOK
  <1>9. EndComplains'
    BY DEF EndComplains, PidLogged, EndsOnce, TypeOK
  <1> QED BY <1>1, <1>2, <1>3, <1>4, <1>5, <1>6, <1>7, <1>8, <1>9

\* No step of any invocation breaks the invariant.
LEMMA InvStep == IInv /\ [Next]_vars => IInv'
  <1> SUFFICES ASSUME IInv, [Next]_vars PROVE IInv'
    OBVIOUS
  <1>1. ASSUME NEW i \in Invocations, Run(i)
        PROVE  IInv'
    <2>1. CASE Strcat(i) \/ LogCreate(i) \/ Fork(i) \/ BecomeDaemon(i) \/ SignalInit(i)
      BY <2>1, StrcatStep, LogCreateStep, ForkStep, BecomeDaemonStep, SignalInitStep
    <2>2. CASE OpenPidfile(i) \/ WritePidfile(i)
      BY <2>2, OpenPidfileStep, WritePidfileStep
    <2>3. CASE ContextCreate(i) \/ ContextInit(i) \/ SetContext(i) \/ ContextRun(i)
      BY <2>3, ContextCreateStep, ContextInitStep, SetContextStep, ContextRunStep
    <2>4. CASE Callback(i) \/ ContextClose(i) \/ PostRun(i)
      BY <2>4, CallbackStep, ContextCloseStep, PostRunStep
    <2> QED BY <1>1, <2>1, <2>2, <2>3, <2>4 DEF Run
  <1>2. ASSUME NEW i \in Invocations, Start(i) \/ Killed(i) \/ \E K \in SUBSET Kinds \ {{}} : HandleSignals(i, K)
        PROVE  IInv'
    BY <1>2, StartStep, KilledStep, HandleSignalsStep
  <1>3. CASE UNCHANGED vars
    BY <1>3 DEF vars, files, signals, history, IInv, TypeOK, EndsOnce, RivalsKnown, Alive,
                AloneWrites, LogKept, ContextKept, PidLogged, FileOwned, Holder, EndComplains
  <1> QED BY <1>1, <1>2, <1>3 DEF Next, Finished

\* The invariant holds at every step, for any number of invocations.
THEOREM Invariance == Spec => []IInv
  <1> QED BY InvInit, InvStep, PTL DEF Spec

-----------------------------------------------------------------------------
(* What follows from it *)

\* The variables keep their types; no invocation ends in another way than those
\* that main(), the callback and the signals have.
THEOREM TypeCorrect == Spec => []TypeOK
  <1>1. IInv => TypeOK
    BY DEF IInv
  <1> QED BY <1>1, Invariance, PTL

\* An invocation that supervises, and has never been alive together with another
\* one, has its pid in the file: none of those before it matters, however they
\* ended, and none that only looked at its options.
THEOREM MasterNamed == Spec => []PidFileNamesMaster
  <1>1. IInv => PidFileNamesMaster
    BY DEF IInv, AloneWrites, PidFileNamesMaster, Supervising, Named
  <1> QED BY <1>1, Invariance, PTL

\* bz_post_run() takes the pid file away, whoever wrote it, or logs that it could
\* not: a file that names an invocation that has ended that way, or that is there
\* when all have, is one that has been complained about.
THEOREM NothingLeft == Spec => []NoLitter
  <1>1. ASSUME IInv PROVE NoLitter
    <2>1. ASSUME \A i \in Invocations : pc[i] = "not_started" \/ end[i] \in {"refused", "exit1"}
          PROVE  \A i \in Invocations : ~Holder(i)
      BY <1>1, <2>1 DEF IInv, EndsOnce, Holder, Named
    <2> QED BY <1>1, <2>1 DEF IInv, FileOwned, EndComplains, NoLitter
  <1> QED BY <1>1, Invariance, PTL

\* A daemon that fails after its caller has seen status 0 has opened its log.
THEOREM FailureHasLog == Spec => []NeverSilent
  <1>1. IInv => NeverSilent
    BY DEF IInv, LogKept, NeverSilent, TypeOK
  <1> QED BY <1>1, Invariance, PTL

\* While bitzer supervises, no signal makes its handler read a context that is
\* null or freed.
THEOREM HandlerSafe == Spec => HandlerFindsContext
  <1>1. ASSUME IInv, [Next]_vars, NEW i \in Invocations, Supervising(i)
        PROVE  end'[i] # "crashed"
    <2>1. context[i] = "valid" /\ end[i] = "none" /\ end \in [Invocations -> Ends]
      BY <1>1 DEF IInv, ContextKept, WithContext, Supervising, EndsOnce, TypeOK
    <2>2. ASSUME NEW j \in Invocations, PostRun(j)
          PROVE  end'[i] # "crashed"
      BY <1>1, <2>1, <2>2 DEF PostRun, EndWith, Supervising
    <2>3. ASSUME NEW j \in Invocations, NEW K \in SUBSET Kinds, HandleSignals(j, K)
          PROVE  end'[i] # "crashed"
      BY <2>1, <2>3 DEF HandleSignals, EndWith
    <2>4. ASSUME NEW j \in Invocations, Run(j), ~PostRun(j)
          PROVE  end'[i] # "crashed"
      BY <2>1, <2>4 DEF Run, Strcat, LogCreate, Fork, BecomeDaemon, SignalInit, OpenPidfile,
           WritePidfile, ContextCreate, ContextInit, SetContext, ContextRun, Callback,
           ContextClose, EndWith
    <2>5. ASSUME NEW j \in Invocations, Start(j) \/ Killed(j)
          PROVE  end'[i] # "crashed"
      BY <1>1, <2>1, <2>5 DEF Start, GethostnameFails, Killed, EndWith, Goto, Supervising
    <2>6. CASE UNCHANGED vars
      BY <2>1, <2>6 DEF vars
    <2> QED BY <1>1, <2>2, <2>3, <2>4, <2>5, <2>6 DEF Next, Finished
  <1>2. IInv /\ [Next]_vars => [\A i \in Invocations : Supervising(i) => end'[i] # "crashed"]_vars
    BY <1>1
  <1> QED BY <1>2, Invariance, PTL DEF Spec, HandlerFindsContext
=============================================================================
