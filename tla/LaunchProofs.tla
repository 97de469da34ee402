----------------------------- MODULE LaunchProofs -----------------------------
(***************************************************************************)
(* Proofs about Launch.tla, for a descriptor table of any size and every   *)
(* set of descriptors that are open when bitzer is started.                *)
(***************************************************************************)
EXTENDS Launch, TLAPS

Before == {"log_create", "post_run", "gone"}
Redirecting == {"redirect_io", "dup2", "close"}
OfMaster == {"open_pidfile", "write_pidfile", "conf_open", "conf_load", "sigmask",
             "pselect", "post_run", "log_create"}
OfChild == {"chdir", "setenv_PWD", "setenv__", "sigprocmask", "execv", "program"}

\* The places at which fd is open and about to be closed.
Temporary == {"dup2", "close", "write_pidfile", "conf_load"}

\* What a descriptor referred to at the start.
Original(d) == IF d \in started THEN "caller" ELSE Closed

Roles ==
  /\ pc \in OfMaster => who = "master"
  /\ pc \in OfChild => who = "child"
  /\ pc \in Redirecting /\ who = "master" => opt.daemonize

\* The log keeps its descriptor, until the child replaces it by the log of its
\* task; it is one of 0 to 2 only if that one was closed.
LogPart ==
  /\ pc = "log_create" => logfd = NoFd /\ \A d \in Fds : fds[d] = Original(d)
  /\ logfd # NoFd /\ pc # "gone" =>
       /\ fds[logfd] = "log" \/ (who = "child" /\ fds[logfd] = "task" /\ logfd \in Std)
       /\ logfd \in Std => ~(Std \subseteq started)

\* What has been opened last is not the log, and is new.
TemporaryPart ==
  pc \in Temporary =>
    /\ fd \in Fds /\ fd # logfd
    /\ fd \notin Std => fd \notin started
    /\ pc \in {"dup2", "close"} => fds[fd] = IF who = "master" THEN "log" ELSE "task"

\* The log fills the only gap that there may be.
FullPart ==
  OneMissing =>
    /\ pc \notin Before => \A d \in Std : fds[d] # Closed
    /\ pc \in Temporary => fd \notin Std

\* How far the redirection has come.
StdPart ==
  /\ pc = "redirect_io" /\ who = "child" => std = 0
  /\ pc = "dup2" => std \in Std
  /\ pc = "close" => std = 3
  /\ pc \in {"dup2", "close"} => \A d \in Std : d < std => fds[d] = fds[fd]
  /\ who = "child" /\ std = 3 /\ OneMissing /\ pc # "gone" => \A d \in Std : fds[d] = "task"

DaemonPart ==
  opt.daemonize /\ pc \in OfMaster \ Before =>
    \A d \in Std : \/ fds[d] = "log"
                   \/ ~OneMissing /\ fds[d] = Closed
                   \/ pc \in Temporary /\ d = fd

StrayPart ==
  pc \notin {"post_run", "gone"} =>
    \A d \in Fds \ (Std \cup {logfd}) :
      (pc \in Temporary => d # fd) => fds[d] = Original(d)

EnvironmentPart ==
  /\ pc \notin OfChild \ {"chdir"} /\ pc # "gone" => cwd = "start"
  /\ pc \notin OfChild \ {"chdir", "setenv_PWD"} /\ pc # "gone" => pwd = "start"
  /\ pc \in OfChild \ {"chdir"} => cwd = IF opt.dir THEN "dir" ELSE "start"
  /\ pc \in OfChild \ {"chdir", "setenv_PWD"} => pwd = cwd
  /\ pc \in {"execv", "program"} => mask = "start"

IInv ==
  /\ TypeOK
  /\ Roles
  /\ LogPart
  /\ TemporaryPart
  /\ FullPart
  /\ StdPart
  /\ DaemonPart
  /\ StrayPart
  /\ EnvironmentPart

-----------------------------------------------------------------------------
(* System calls *)

\* open() returns a descriptor that was closed, the lowest, and touches no other.
LEMMA OpenFacts ==
  ASSUME fds \in [Fds -> Files], NEW d \in Fds, NEW f \in Files, Open(d, f)
  PROVE  /\ fds[d] = Closed
         /\ \A e \in Fds : e < d => fds[e] # Closed
         /\ fds' \in [Fds -> Files]
         /\ fds'[d] = f
         /\ \A e \in Fds : e # d => fds'[e] = fds[e]
  BY DEF Open

\* close() takes one descriptor away and leaves the others alone.
LEMMA CloseFacts ==
  ASSUME fds \in [Fds -> Files], NEW d \in Fds, Close(d)
  PROVE  /\ fds' \in [Fds -> Files]
         /\ fds'[d] = Closed
         /\ \A e \in Fds : e # d => fds'[e] = fds[e]
  BY DEF Close, Files

\* dup2() changes one descriptor.
LEMMA Dup2Facts ==
  ASSUME fds \in [Fds -> Files], NEW d \in Fds, NEW e \in Fds,
         fds' = [fds EXCEPT ![d] = fds[e]]
  PROVE  /\ fds' \in [Fds -> Files]
         /\ fds'[d] = fds[e]
         /\ \A g \in Fds : g # d => fds'[g] = fds[g]
  OBVIOUS

\* What has been noted at the start stays as it is.
LEMMA StartKept ==
  ASSUME started' = started
  PROVE  OneMissing' = OneMissing /\ \A d : Original(d)' = Original(d)
  BY DEF OneMissing, Original, Std

-----------------------------------------------------------------------------
(* The invariant *)

\* The caller may have left any descriptors open.
LEMMA InvInit == Init => IInv
  <1> USE DEF Fds, Std, NoFd, Closed, Files
  <1> SUFFICES ASSUME Init PROVE IInv
    OBVIOUS
  <1>1. TypeOK
    BY DEF Init, TypeOK, Locations
  <1>2. Roles /\ LogPart /\ TemporaryPart /\ FullPart /\ StdPart
    BY DEF Init, Roles, LogPart, TemporaryPart, FullPart, StdPart, Original, OfMaster, OfChild,
           Redirecting, Temporary, Before
  <1>3. DaemonPart /\ StrayPart /\ EnvironmentPart
    BY DEF Init, DaemonPart, StrayPart, EnvironmentPart, Original, OfMaster, OfChild, Before, Temporary
  <1> QED BY <1>1, <1>2, <1>3 DEF IInv

\* context_sigmask() touches no descriptor.
LEMMA ContextSigmaskStep ==
  ASSUME IInv, ContextSigmask
  PROVE  IInv'
  <1> USE DEF ContextSigmask, IInv, table, env, OfMaster, OfChild, Redirecting, Temporary, Before
  <1>1. TypeOK'
    BY DEF TypeOK, Locations
  <1>2. OneMissing' = OneMissing /\ \A d : Original(d)' = Original(d)
    BY StartKept
  <1>3. Roles' /\ LogPart' /\ TemporaryPart'
    BY DEF Roles, LogPart, TemporaryPart
  <1>4. FullPart' /\ StdPart'
    BY <1>2 DEF FullPart, StdPart, Roles
  <1>5. DaemonPart' /\ StrayPart'
    BY <1>2 DEF DaemonPart, StrayPart, Roles
  <1>6. EnvironmentPart'
    BY DEF EnvironmentPart, Roles, TypeOK
  <1> QED BY <1>1, <1>3, <1>4, <1>5, <1>6

\* The child starts with the descriptors of the master.
LEMMA ForkStep ==
  ASSUME IInv, Fork
  PROVE  IInv'
  <1> USE DEF Fork, IInv, table, env, OfMaster, OfChild, Redirecting, Temporary, Before
  <1>1. TypeOK'
    BY DEF TypeOK, Locations
  <1>2. OneMissing' = OneMissing /\ \A d : Original(d)' = Original(d)
    BY StartKept
  <1>3. Roles' /\ LogPart' /\ TemporaryPart'
    BY DEF Roles, LogPart, TemporaryPart
  <1>4. FullPart' /\ StdPart'
    BY <1>2 DEF FullPart, StdPart, Roles
  <1>5. DaemonPart' /\ StrayPart'
    BY <1>2 DEF DaemonPart, StrayPart, Roles
  <1>6. EnvironmentPart'
    BY DEF EnvironmentPart, Roles, TypeOK
  <1> QED BY <1>1, <1>3, <1>4, <1>5, <1>6

\* chdir() touches no descriptor.
LEMMA ChdirStep ==
  ASSUME IInv, Chdir
  PROVE  IInv'
  <1> USE DEF Chdir, IInv, table, env, OfMaster, OfChild, Redirecting, Temporary, Before
  <1>1. TypeOK'
    BY DEF TypeOK, Locations
  <1>2. OneMissing' = OneMissing /\ \A d : Original(d)' = Original(d)
    BY StartKept
  <1>3. Roles' /\ LogPart' /\ TemporaryPart'
    BY DEF Roles, LogPart, TemporaryPart
  <1>4. FullPart' /\ StdPart'
    BY <1>2 DEF FullPart, StdPart, Roles
  <1>5. DaemonPart' /\ StrayPart'
    BY <1>2 DEF DaemonPart, StrayPart, Roles
  <1>6. EnvironmentPart'
    BY DEF EnvironmentPart, Roles, TypeOK
  <1> QED BY <1>1, <1>3, <1>4, <1>5, <1>6

\* setenv("PWD") touches no descriptor.
LEMMA SetenvPWDStep ==
  ASSUME IInv, SetenvPWD
  PROVE  IInv'
  <1> USE DEF SetenvPWD, IInv, table, env, OfMaster, OfChild, Redirecting, Temporary, Before
  <1>1. TypeOK'
    BY DEF TypeOK, Locations
  <1>2. OneMissing' = OneMissing /\ \A d : Original(d)' = Original(d)
    BY StartKept
  <1>3. Roles' /\ LogPart' /\ TemporaryPart'
    BY DEF Roles, LogPart, TemporaryPart
  <1>4. FullPart' /\ StdPart'
    BY <1>2 DEF FullPart, StdPart, Roles
  <1>5. DaemonPart' /\ StrayPart'
    BY <1>2 DEF DaemonPart, StrayPart, Roles
  <1>6. EnvironmentPart'
    BY DEF EnvironmentPart, Roles, TypeOK
  <1> QED BY <1>1, <1>3, <1>4, <1>5, <1>6

\* setenv("_") touches no descriptor.
LEMMA Setenv_Step ==
  ASSUME IInv, Setenv_
  PROVE  IInv'
  <1> USE DEF Setenv_, IInv, table, env, OfMaster, OfChild, Redirecting, Temporary, Before
  <1>1. TypeOK'
    BY DEF TypeOK, Locations
  <1>2. OneMissing' = OneMissing /\ \A d : Original(d)' = Original(d)
    BY StartKept
  <1>3. Roles' /\ LogPart' /\ TemporaryPart'
    BY DEF Roles, LogPart, TemporaryPart
  <1>4. FullPart' /\ StdPart'
    BY <1>2 DEF FullPart, StdPart, Roles
  <1>5. DaemonPart' /\ StrayPart'
    BY <1>2 DEF DaemonPart, StrayPart, Roles
  <1>6. EnvironmentPart'
    BY DEF EnvironmentPart, Roles, TypeOK
  <1> QED BY <1>1, <1>3, <1>4, <1>5, <1>6

\* sigprocmask() touches no descriptor.
LEMMA RestoreMaskStep ==
  ASSUME IInv, RestoreMask
  PROVE  IInv'
  <1> USE DEF RestoreMask, IInv, table, env, OfMaster, OfChild, Redirecting, Temporary, Before
  <1>1. TypeOK'
    BY DEF TypeOK, Locations
  <1>2. OneMissing' = OneMissing /\ \A d : Original(d)' = Original(d)
    BY StartKept
  <1>3. Roles' /\ LogPart' /\ TemporaryPart'
    BY DEF Roles, LogPart, TemporaryPart
  <1>4. FullPart' /\ StdPart'
    BY <1>2 DEF FullPart, StdPart, Roles
  <1>5. DaemonPart' /\ StrayPart'
    BY <1>2 DEF DaemonPart, StrayPart, Roles
  <1>6. EnvironmentPart'
    BY DEF EnvironmentPart, Roles, TypeOK
  <1> QED BY <1>1, <1>3, <1>4, <1>5, <1>6

\* execv() is reached only when all before it has succeeded.
LEMMA ExecvStep ==
  ASSUME IInv, Execv
  PROVE  IInv'
  <1> USE DEF Execv, IInv, table, env, OfMaster, OfChild, Redirecting, Temporary, Before
  <1>1. TypeOK'
    BY DEF TypeOK, Locations
  <1>2. OneMissing' = OneMissing /\ \A d : Original(d)' = Original(d)
    BY StartKept
  <1>3. Roles' /\ LogPart' /\ TemporaryPart'
    BY DEF Roles, LogPart, TemporaryPart
  <1>4. FullPart' /\ StdPart'
    BY <1>2 DEF FullPart, StdPart, Roles
  <1>5. DaemonPart' /\ StrayPart'
    BY <1>2 DEF DaemonPart, StrayPart, Roles
  <1>6. EnvironmentPart'
    BY DEF EnvironmentPart, Roles, TypeOK
  <1> QED BY <1>1, <1>3, <1>4, <1>5, <1>6

\* A child that gives up starts no program.
LEMMA ChildFailsStep ==
  ASSUME IInv, ChildFails
  PROVE  IInv'
  <1> USE DEF ChildFails, IInv, table, env, OfMaster, OfChild, Redirecting, Temporary, Before
  <1>1. TypeOK'
    BY DEF TypeOK, Locations
  <1>2. OneMissing' = OneMissing /\ \A d : Original(d)' = Original(d)
    BY StartKept
  <1>3. Roles' /\ LogPart' /\ TemporaryPart'
    BY DEF Roles, LogPart, TemporaryPart
  <1>4. FullPart' /\ StdPart'
    BY <1>2 DEF FullPart, StdPart, Roles
  <1>5. DaemonPart' /\ StrayPart'
    BY <1>2 DEF DaemonPart, StrayPart, Roles
  <1>6. EnvironmentPart'
    BY DEF EnvironmentPart, Roles, TypeOK
  <1> QED BY <1>1, <1>3, <1>4, <1>5, <1>6

\* The master gives up, whatever it has done so far.
LEMMA FailStep ==
  ASSUME IInv, who = "master", pc # "gone", Fail, UNCHANGED <<who, started, opt, env>>
  PROVE  IInv'
  <1> USE DEF Fail, IInv, table, env, OfMaster, OfChild, Redirecting, Temporary, Before
  <1>1. TypeOK'
    BY DEF TypeOK, Locations
  <1>2. Roles' /\ LogPart' /\ TemporaryPart'
    BY DEF Roles, LogPart, TemporaryPart
  <1>3. OneMissing' = OneMissing
    BY StartKept
  <1>4. FullPart' /\ StdPart'
    BY <1>3 DEF FullPart, StdPart
  <1>5. DaemonPart' /\ StrayPart' /\ EnvironmentPart'
    BY DEF DaemonPart, StrayPart, EnvironmentPart, Roles
  <1> QED BY <1>1, <1>2, <1>4, <1>5

\* The log takes the lowest descriptor that is closed.
LEMMA LogCreateStep ==
  ASSUME IInv, LogCreate
  PROVE  IInv'
  <1> USE DEF LogCreate, IInv, OfMaster, OfChild, Redirecting, Temporary, Before
  <1>1. pc = "log_create" /\ who = "master"
    BY DEF Roles
  <1>2. CASE Fail
    BY <1>1, <1>2, FailStep
  <1>3. ASSUME NEW d \in Fds, Open(d, "log"), logfd' = d, UNCHANGED <<fd, std>>,
               pc' = IF opt.daemonize THEN "redirect_io" ELSE "open_pidfile"
        PROVE  IInv'
    <2> USE <1>1, <1>3 DEF env
    <2>1. /\ fds[d] = Closed /\ (\A e \in Fds : e < d => fds[e] # Closed)
          /\ fds' \in [Fds -> Files] /\ fds'[d] = "log"
          /\ \A e \in Fds : e # d => fds'[e] = fds[e]
      BY OpenFacts DEF TypeOK, Files
    <2>2. OneMissing' = OneMissing /\ \A e : Original(e)' = Original(e)
      BY StartKept
    <2>3. TypeOK'
      BY <2>1 DEF TypeOK, Locations
    <2>4. \A e \in Fds : fds[e] = Original(e)
      BY DEF LogPart
    <2>5. Roles' /\ LogPart' /\ TemporaryPart'
      BY <2>1, <2>2, <2>4 DEF Roles, LogPart, TemporaryPart, Original, Closed
    <2>6. ASSUME NEW x \in Std, Std \ {x} \subseteq started, NEW e \in Std
          PROVE  fds'[e] # Closed
      <3>1. e \in Fds /\ e \in Int /\ d \in Int /\ (d < e => d \in Std)
        BY LaunchAssumption DEF Fds, Std
      <3>2. CASE e < d
        BY <3>1, <3>2, <2>1
      <3>3. CASE e = d
        BY <3>3, <2>1 DEF Closed
      <3>4. CASE e > d
        <4>1. d \in Std /\ d \notin started
          BY <3>1, <3>4, <2>1, <2>4 DEF Original, Closed
        <4>2. e \in started /\ e # d
          BY <4>1, <3>4, <3>1, <2>6
        <4> QED BY <4>2, <3>1, <2>1, <2>4 DEF Original, Closed
      <3> QED BY <3>1, <3>2, <3>3, <3>4
    <2>8. FullPart' /\ StdPart'
      BY <2>2, <2>6 DEF FullPart, StdPart, OneMissing
    <2>7. DaemonPart' /\ StrayPart' /\ EnvironmentPart'
      BY <2>1, <2>2, <2>4 DEF DaemonPart, StrayPart, EnvironmentPart
    <2> QED BY <2>3, <2>5, <2>8, <2>7
  <1> QED BY <1>2, <1>3

\* A function that opens a file of its own.
LEMMA OpenStep ==
  ASSUME IInv, NEW d \in Fds, NEW f \in Files \ {Closed}, Open(d, f), fd' = d,
         UNCHANGED <<who, started, opt, logfd, env>>,
         \/ pc = "redirect_io" /\ pc' = "dup2" /\ std' = 0 /\ f = IF who = "master" THEN "log" ELSE "task"
         \/ pc = "open_pidfile" /\ pc' = "write_pidfile" /\ UNCHANGED std
         \/ pc = "conf_open" /\ pc' = "conf_load" /\ UNCHANGED std
  PROVE  IInv'
  <1> USE DEF IInv, env, OfMaster, OfChild, Redirecting, Temporary, Before
  <1>1. /\ fds[d] = Closed /\ (\A e \in Fds : e < d => fds[e] # Closed)
        /\ fds' \in [Fds -> Files] /\ fds'[d] = f
        /\ \A e \in Fds : e # d => fds'[e] = fds[e]
    BY OpenFacts DEF TypeOK
  <1>2. OneMissing' = OneMissing /\ \A e : Original(e)' = Original(e)
    BY StartKept
  <1>3. TypeOK'
    BY <1>1 DEF TypeOK, Locations
  <1>4. logfd \in Fds /\ fds[logfd] # Closed /\ d # logfd /\ fds'[logfd] = fds[logfd]
    BY <1>1 DEF TypeOK, LogPart, NoFd, Fds, Closed
  <1>5. Std \subseteq Fds
    BY LaunchAssumption DEF Std, Fds
  <1>6. d \notin Std => fds[d] = Original(d)
    BY <1>4 DEF StrayPart
  <1>7. Roles' /\ LogPart'
    BY <1>4 DEF Roles, LogPart
  <1>8. TemporaryPart'
    BY <1>1, <1>4, <1>6 DEF TemporaryPart, Original, Closed
  <1>9. FullPart'
    BY <1>1, <1>2, <1>5 DEF FullPart, Closed
  <1>10. StdPart'
    BY <1>1, <1>2, <1>5 DEF StdPart, Roles, Std
  <1>11. DaemonPart'
    BY <1>1, <1>2, <1>5 DEF DaemonPart
  <1>12. StrayPart'
    BY <1>1, <1>2 DEF StrayPart
  <1>13. EnvironmentPart'
    BY DEF EnvironmentPart
  <1> QED BY <1>3, <1>7, <1>8, <1>9, <1>10, <1>11, <1>12, <1>13

\* A function that closes what it has opened.
LEMMA CloseStep ==
  ASSUME IInv, Close(fd), UNCHANGED <<who, started, opt, logfd, fd, std, env>>,
         \/ pc \in {"dup2", "close"} /\ who = "child" /\ pc' = "chdir"
         \/ pc = "close" /\ who = "master" /\ pc' = "open_pidfile"
         \/ pc = "write_pidfile" /\ pc' = "conf_open"
         \/ pc = "conf_load" /\ pc' = "sigmask"
         \/ pc \in Temporary /\ who = "master" /\ pc' = "post_run"
  PROVE  IInv'
  <1> USE DEF IInv, env, OfMaster, OfChild, Redirecting, Temporary, Before
  <1>1. fd \in Fds /\ fd # logfd /\ (fd \notin Std => fd \notin started)
    BY DEF TemporaryPart
  <1>2. /\ fds' \in [Fds -> Files] /\ fds'[fd] = Closed
        /\ \A e \in Fds : e # fd => fds'[e] = fds[e]
    BY <1>1, CloseFacts DEF TypeOK
  <1>3. OneMissing' = OneMissing /\ \A e : Original(e)' = Original(e)
    BY StartKept
  <1>4. TypeOK'
    BY <1>2 DEF TypeOK, Locations
  <1>5. logfd \in Fds /\ fds'[logfd] = fds[logfd]
    BY <1>1, <1>2 DEF TypeOK
  <1>6. Std \subseteq Fds
    BY LaunchAssumption DEF Std, Fds
  <1>7. Roles' /\ LogPart'
    BY <1>5 DEF Roles, LogPart
  <1>8. TemporaryPart'
    BY DEF TemporaryPart
  <1>9. FullPart'
    BY <1>2, <1>3, <1>6 DEF FullPart
  <1>10. StdPart'
    BY <1>2, <1>3, <1>6 DEF StdPart, FullPart
  <1>11. DaemonPart'
    <2> SUFFICES ASSUME opt.daemonize, pc' \in OfMaster \ Before, NEW e \in Std
                 PROVE  fds'[e] = "log" \/ (~OneMissing /\ fds'[e] = Closed)
      BY <1>3 DEF DaemonPart
    <2>1. who = "master" /\ (e = fd => ~OneMissing)
      BY DEF Roles, FullPart
    <2>2. e # fd => fds[e] = "log" \/ (~OneMissing /\ fds[e] = Closed)
      <3>1. CASE pc = "close"
        BY <2>1, <3>1, <1>1 DEF StdPart, TemporaryPart, Std
      <3>2. CASE pc # "close"
        BY <3>2 DEF DaemonPart
      <3> QED BY <3>1, <3>2
    <2> QED BY <2>1, <2>2, <1>2, <1>6
  <1>12. StrayPart'
    BY <1>1, <1>2, <1>3 DEF StrayPart, Original
  <1>13. EnvironmentPart'
    BY DEF EnvironmentPart, Roles
  <1> QED BY <1>4, <1>7, <1>8, <1>9, <1>10, <1>11, <1>12, <1>13

\* The file of a redirection gets a descriptor that was closed.
LEMMA RedirectOpenStep ==
  ASSUME IInv, RedirectOpen
  PROVE  IInv'
  <1> USE DEF RedirectOpen
  <1>1. ASSUME NEW d \in Fds, Open(d, RedirectFile), fd' = d, pc' = "dup2", std' = 0
        PROVE  IInv'
    <2>1. cwd = "start"
      BY DEF IInv, EnvironmentPart, OfChild
    <2>2. /\ RedirectFile \in Files \ {Closed}
          /\ RedirectFile = IF who = "master" THEN "log" ELSE "task"
      BY <2>1 DEF RedirectFile, Files, Closed
    <2> QED BY <1>1, <2>2, OpenStep
  <1>2. CASE RedirectFailed /\ UNCHANGED <<fds, fd, std>> /\ who = "master"
    BY <1>2, FailStep DEF RedirectFailed, Fail, table
  <1>3. CASE RedirectFailed /\ UNCHANGED <<fds, fd, std>> /\ who = "child"
    <2> USE <1>3 DEF RedirectFailed, IInv, env, OfMaster, OfChild, Redirecting, Temporary, Before
    <2>1. TypeOK'
      BY DEF TypeOK, Locations
    <2>2. OneMissing' = OneMissing /\ \A d : Original(d)' = Original(d)
      BY StartKept
    <2>3. Roles' /\ LogPart' /\ TemporaryPart'
      BY DEF Roles, LogPart, TemporaryPart
    <2>4. FullPart' /\ StdPart'
      BY <2>2 DEF FullPart, StdPart
    <2>5. DaemonPart' /\ StrayPart' /\ EnvironmentPart'
      BY <2>2 DEF DaemonPart, StrayPart, EnvironmentPart
    <2> QED BY <2>1, <2>3, <2>4, <2>5
  <1>4. who \in {"master", "child"}
    BY DEF IInv, TypeOK
  <1> QED BY <1>1, <1>2, <1>3, <1>4

\* After each dup2() one more of the descriptors 0 to 2 equals fd.
LEMMA Dup2Step ==
  ASSUME IInv, Dup2
  PROVE  IInv'
  <1> USE DEF Dup2, IInv, env, OfMaster, OfChild, Redirecting, Temporary, Before
  <1>1. Std \subseteq Fds /\ std \in Std /\ fd \in Fds /\ fd # logfd
    BY LaunchAssumption DEF Std, Fds, StdPart, TemporaryPart
  <1>2. /\ fds' \in [Fds -> Files] /\ fds'[std] = fds[fd]
        /\ \A e \in Fds : e # std => fds'[e] = fds[e]
    BY <1>1, Dup2Facts DEF TypeOK
  <1>3. OneMissing' = OneMissing /\ \A d : Original(d)' = Original(d)
    BY StartKept
  <1>4. fds'[fd] = fds[fd] /\ fds[fd] = IF who = "master" THEN "log" ELSE "task"
    BY <1>1, <1>2 DEF TemporaryPart
  <1>5. TypeOK'
    BY <1>1, <1>2 DEF TypeOK, Locations, Std
  <1>6. Roles'
    BY DEF Roles
  <1>7. LogPart'
    BY <1>1, <1>2, <1>4 DEF LogPart, TypeOK
  <1>8. TemporaryPart' /\ EnvironmentPart'
    BY <1>4 DEF TemporaryPart, EnvironmentPart
  <1>9. FullPart'
    BY <1>1, <1>2, <1>3, <1>4 DEF FullPart, Closed
  <1>10. \A d \in Std : d < std + 1 => fds'[d] = fds'[fd]
    BY <1>1, <1>2, <1>4 DEF StdPart, Std
  <1>11. StdPart'
    BY <1>1, <1>3, <1>4, <1>10 DEF StdPart, Std
  <1>12. DaemonPart' /\ StrayPart'
    BY <1>1, <1>2, <1>3 DEF DaemonPart, StrayPart
  <1> QED BY <1>5, <1>6, <1>7, <1>8, <1>9, <1>11, <1>12

\* The functions that close what they have opened.
LEMMA ClosingSteps ==
  ASSUME IInv, Dup2Fails \/ RedirectClose \/ WritePidfile \/ ConfLoad
  PROVE  IInv'
  <1> USE DEF IInv, TypeOK, Roles, OfMaster, Temporary
  <1>1. CASE Dup2Fails
    BY <1>1, CloseStep DEF Dup2Fails, RedirectFailed
  <1>2. CASE RedirectClose
    BY <1>2, CloseStep DEF RedirectClose
  <1>3. CASE WritePidfile
    BY <1>3, CloseStep DEF WritePidfile
  <1>4. CASE ConfLoad
    BY <1>4, CloseStep DEF ConfLoad
  <1> QED BY <1>1, <1>2, <1>3, <1>4

\* The functions that open a file for a moment.
LEMMA OpeningSteps ==
  ASSUME IInv, OpenPidfile \/ ConfOpen
  PROVE  IInv'
  <1>1. who = "master"
    BY DEF IInv, Roles, OfMaster, OpenPidfile, ConfOpen
  <1>2. "pid" \in Files \ {Closed} /\ "conf" \in Files \ {Closed}
    BY DEF Files, Closed
  <1>3. CASE OpenPidfile
    BY <1>1, <1>2, <1>3, OpenStep, FailStep DEF OpenPidfile
  <1>4. CASE ConfOpen
    BY <1>1, <1>2, <1>4, OpenStep, FailStep DEF ConfOpen
  <1> QED BY <1>3, <1>4

\* bz_log_close() closes the log, and nothing else if its descriptor is known.
LEMMA PostRunStep ==
  ASSUME IInv, PostRun
  PROVE  IInv'
  <1> USE DEF PostRun, IInv, env, OfMaster, OfChild, Redirecting, Temporary, Before
  <1>1. fds' \in [Fds -> Files]
    <2>1. CASE logfd > 0 /\ logfd # 2
      <3>1. logfd \in Fds
        BY <2>1 DEF TypeOK, NoFd
      <3> QED BY <2>1, <3>1, CloseFacts DEF TypeOK
    <2>2. CASE ~(logfd > 0 /\ logfd # 2)
      BY <2>2 DEF TypeOK
    <2> QED BY <2>1, <2>2
  <1>2. TypeOK'
    BY <1>1 DEF TypeOK, Locations
  <1>3. Roles' /\ LogPart' /\ TemporaryPart' /\ FullPart'
    BY DEF Roles, LogPart, TemporaryPart, FullPart
  <1>4. StdPart' /\ DaemonPart' /\ StrayPart' /\ EnvironmentPart'
    BY DEF StdPart, DaemonPart, StrayPart, EnvironmentPart
  <1> QED BY <1>2, <1>3, <1>4

\* No step breaks the invariant.
LEMMA InvStep == IInv /\ [Next]_vars => IInv'
  <1> SUFFICES ASSUME IInv, [Next]_vars PROVE IInv'
    OBVIOUS
  <1>1. CASE LogCreate \/ RedirectOpen \/ Dup2
    BY <1>1, LogCreateStep, RedirectOpenStep, Dup2Step
  <1>2. CASE Dup2Fails \/ RedirectClose \/ WritePidfile \/ ConfLoad
    BY <1>2, ClosingSteps
  <1>3. CASE OpenPidfile \/ ConfOpen
    BY <1>3, OpeningSteps
  <1>4. CASE ContextSigmask \/ PostRun \/ Fork
    BY <1>4, ContextSigmaskStep, PostRunStep, ForkStep
  <1>5. CASE Chdir \/ SetenvPWD \/ Setenv_ \/ RestoreMask \/ Execv \/ ChildFails
    BY <1>5, ChdirStep, SetenvPWDStep, Setenv_Step, RestoreMaskStep, ExecvStep, ChildFailsStep
  <1>6. CASE UNCHANGED vars
    <2> USE <1>6 DEF vars, table, env, IInv
    <2>1. OneMissing' = OneMissing /\ \A d : Original(d)' = Original(d)
      BY StartKept
    <2>2. TypeOK' /\ Roles' /\ LogPart' /\ TemporaryPart'
      BY <2>1 DEF TypeOK, Roles, LogPart, TemporaryPart
    <2>3. FullPart' /\ StdPart' /\ DaemonPart' /\ StrayPart' /\ EnvironmentPart'
      BY <2>1 DEF FullPart, StdPart, DaemonPart, StrayPart, EnvironmentPart
    <2> QED BY <2>2, <2>3
  <1> QED BY <1>1, <1>2, <1>3, <1>4, <1>5, <1>6 DEF Next, Finished

\* The invariant holds at every step, for a table of any size.
THEOREM Invariance == Spec => []IInv
  <1> QED BY InvInit, InvStep, PTL DEF Spec

-----------------------------------------------------------------------------
(* What follows from it *)

\* The variables keep their types, and between bz_log_create() and the end of the
\* process log->fd is a descriptor.
THEOREM TypeCorrect == Spec => []TypeOK
  <1>1. IInv => TypeOK
    BY DEF IInv
  <1> QED BY <1>1, Invariance, PTL

\* log->fd of the master refers to the log, whatever was closed at the start and
\* whatever bz_redirect_io() and the functions that open files do.
THEOREM LogStays == Spec => []LogIsLog
  <1>1. IInv => LogIsLog
    BY DEF IInv, LogPart, LogIsLog
  <1> QED BY <1>1, Invariance, PTL

\* After bz_redirect_io() the descriptors 0 to 2 of the daemon are its log.
THEOREM DaemonDetached == Spec => []Detached
  <1>1. IInv => Detached
    BY DEF IInv, DaemonPart, Detached, OfMaster, Before, Temporary
  <1> QED BY <1>1, Invariance, PTL

\* After task_redirect_io() the descriptors 0 to 2 of a program are its log.
THEOREM ProgramRedirected == Spec => []ProgramStdio
  <1>1. IInv => ProgramStdio
    BY DEF IInv, StdPart, ProgramStdio, Roles, OfChild
  <1> QED BY <1>1, Invariance, PTL

\* No function leaves the file open that it has opened, however it ends.
THEOREM NothingLeaks == Spec => []NoStray
  <1>1. IInv => NoStray
    BY DEF IInv, StrayPart, NoStray, Original, Temporary
  <1> QED BY <1>1, Invariance, PTL

\* task_pre_run() hands over directory, $PWD and signal mask, or does not return 0.
THEOREM EnvironmentHandedOver == Spec => []ProgramEnvironment
  <1>1. IInv => ProgramEnvironment
    BY DEF IInv, EnvironmentPart, ProgramEnvironment, OfChild
  <1> QED BY <1>1, Invariance, PTL
=============================================================================
