---------------------------- MODULE ConfTextProofs ----------------------------
(***************************************************************************)
(* Proofs about Conf.tla, for texts of any length: the tasks of the list   *)
(* hold what the blocks of the text say, in the form that execv() needs,   *)
(* and task_close() frees just that.                                       *)
(***************************************************************************)
EXTENDS ConfProofs

\* What the task holds that the next option goes to.
Reflects(t, b) ==
  /\ SaysSame(t, b)
  /\ Holds(t.args, b.args)
  /\ Holds(t.envp, b.envp)
  /\ b.envp = <<>> => t.envp = NullVector

\* The invariant adds to BuildsBlock that a block without env has no vector.
Building ==
  /\ pc = "outside" => task = NULL
  /\ pc = "inside" => IF task = NULL THEN said = Nothing ELSE Reflects(task, said)

TextInv ==
  /\ IInv
  /\ Building
  /\ ListFaithful
  /\ ClosesWhatWasBuilt

\* The null pointer is no task.  NULL is any value that is not among the strings,
\* and Conf.tla tells by it whether there is a task.
NullIsNoTask == \A t : SoundTask(t) => t # NULL

-----------------------------------------------------------------------------
(* The macros *)

\* realloc() moves nothing.
LEMMA GrowHolds ==
  ASSUME NEW S, NEW v, Sound(v, S), NEW T, NEW s \in Seq(T), Holds(v, s),
         NEW need \in Nat, NEW incr \in Nat, need <= incr
  PROVE  Holds(CheckTaskMember(v, need, incr), s)
  <1>1. CASE ~Full(v, need)
    BY <1>1 DEF CheckTaskMember, Full
  <1>2. CASE Full(v, need)
    <2> DEFINE cells == [i \in 0..(v.total + incr - 1) |-> IF i < v.total THEN v.at[i] ELSE Junk]
               w == [at |-> cells, len |-> v.len, total |-> v.total + incr]
    <2>1. CheckTaskMember(v, need, incr) = w
      BY <1>2 DEF CheckTaskMember, Sound
    <2>2. \A i \in 1..Len(s) : cells[i - 1] = s[i]
      BY DEF Sound, VectorOK, Holds
    <2>3. w.at = cells /\ w.len = v.len
      OBVIOUS
    <2> HIDE DEF cells, w
    <2> QED BY <2>1, <2>2, <2>3 DEF Holds
  <1> QED BY <1>1, <1>2

\* A string is stored behind the others.
LEMMA StoreHolds ==
  ASSUME NEW S, NEW v, Sound(v, S), v.len + 1 <= v.total,
         NEW T, NEW s \in Seq(T), Holds(v, s), NEW x
  PROVE  Holds(Store(v, x), s \o <<x>>)
  <1> DEFINE cells == [i \in DOMAIN v.at |-> IF i = v.len THEN x ELSE v.at[i]]
             U == T \cup {x}
             q == s \o <<x>>
  <1>1. Store(v, x).at = cells /\ Store(v, x).len = v.len + 1
    BY DEF Store
  <1>2. v.len = Len(s) /\ v.len \in Nat /\ v.total \in Nat /\ DOMAIN v.at = 0..(v.total - 1)
    BY DEF Sound, VectorOK, Holds
  <1>3. /\ Len(q) = Len(s) + 1
        /\ \A i \in 1..(Len(s) + 1) : q[i] = IF i <= Len(s) THEN s[i] ELSE x
    <2>1. s \in Seq(U) /\ <<x>> \in Seq(U) /\ Len(<<x>>) = 1 /\ <<x>>[1] = x
      OBVIOUS
    <2> HIDE DEF U
    <2>2. /\ Len(q) = Len(s) + 1
          /\ \A i \in 1..(Len(s) + 1) : q[i] = IF i <= Len(s) THEN s[i] ELSE <<x>>[i - Len(s)]
      BY <2>1, ConcatProperties
    <2>3. \A i \in 1..(Len(s) + 1) : i <= Len(s) \/ i - Len(s) = 1
      BY <1>2
    <2> QED BY <2>1, <2>2, <2>3
  <1>4. ASSUME NEW i \in 1..(Len(s) + 1) PROVE cells[i - 1] = q[i]
    <2>1. i - 1 \in DOMAIN v.at
      BY <1>2
    <2>2. CASE i <= Len(s)
      BY <2>1, <2>2, <1>2, <1>3 DEF Holds
    <2>3. CASE i = Len(s) + 1
      BY <2>1, <2>3, <1>2, <1>3
    <2> QED BY <2>2, <2>3, <1>2
  <1> HIDE DEF cells, q
  <1>5. Holds(Store(v, x), q)
    BY <1>1, <1>2, <1>3, <1>4 DEF Holds
  <1> QED BY <1>5 DEF q

\* The loop that shifts the arguments, and the path in the first cell.
LEMMA PutFirstHolds ==
  ASSUME NEW S, NEW v, Sound(v, S), v.len + 1 <= v.total,
         NEW T, NEW s \in Seq(T), Holds(v, s), NEW x
  PROVE  Holds(PutFirst(Shift(v), x), <<x>> \o s)
  <1> DEFINE cells == [i \in DOMAIN v.at |-> IF i \in 1..v.len THEN v.at[i - 1] ELSE v.at[i]]
             first == [cells EXCEPT ![0] = x]
             U == T \cup {x}
             q == <<x>> \o s
  <1>1. v.len = Len(s) /\ v.len \in Nat /\ v.total \in Nat /\ DOMAIN v.at = 0..(v.total - 1)
    BY DEF Sound, VectorOK, Holds
  <1>2. Shift(v) = [at |-> cells, len |-> v.len, total |-> v.total]
    BY DEF Shift, Sound
  <1>3. PutFirst(Shift(v), x).at = first /\ PutFirst(Shift(v), x).len = v.len + 1
    BY <1>2 DEF PutFirst
  <1>4. /\ Len(q) = Len(s) + 1
        /\ \A i \in 1..(Len(s) + 1) : q[i] = IF i = 1 THEN x ELSE s[i - 1]
    <2>1. s \in Seq(U) /\ <<x>> \in Seq(U) /\ Len(<<x>>) = 1 /\ <<x>>[1] = x
      OBVIOUS
    <2> HIDE DEF U
    <2>2. /\ Len(q) = 1 + Len(s)
          /\ \A i \in 1..(1 + Len(s)) : q[i] = IF i <= 1 THEN <<x>>[i] ELSE s[i - 1]
      BY <2>1, ConcatProperties
    <2> QED BY <1>1, <2>1, <2>2
  <1>5. ASSUME NEW i \in 1..(Len(s) + 1) PROVE first[i - 1] = q[i]
    <2>1. i - 1 \in DOMAIN v.at
      BY <1>1
    <2>2. CASE i = 1
      BY <2>1, <2>2, <1>4
    <2>3. CASE i # 1
      <3>1. i - 1 \in 1..v.len /\ i - 1 # 0
        BY <2>3, <1>1
      <3>2. first[i - 1] = v.at[i - 1 - 1]
        BY <2>1, <3>1
      <3>3. v.at[i - 1 - 1] = s[i - 1]
        BY <3>1, <1>1 DEF Holds
      <3> QED BY <3>2, <3>3, <2>3, <1>4
    <2> QED BY <2>2, <2>3
  <1> HIDE DEF first, q
  <1>6. Holds(PutFirst(Shift(v), x), q)
    BY <1>1, <1>3, <1>4, <1>5 DEF Holds
  <1> QED BY <1>6 DEF q

\* A word of args and an env are stored behind those before them.
LEMMA AddHolds ==
  ASSUME NEW S, NEW v, Sound(v, S), NEW T, NEW s \in Seq(T), Holds(v, s), NEW x \in T
  PROVE  Holds(Store(CheckTaskMember(v, 1, DefaultLen), x), Append(s, x))
  <1> DEFINE w == CheckTaskMember(v, 1, DefaultLen)
  <1>1. DefaultLen \in Nat /\ 1 <= DefaultLen
    BY ConfAssumption
  <1>2. Sound(w, S) /\ w.len = v.len /\ v.len + 1 <= w.total
    BY <1>1, GrowSound
  <1>3. Holds(w, s)
    BY <1>1, GrowHolds
  <1>4. Append(s, x) = s \o <<x>>
    BY AppendIsConcat
  <1> HIDE DEF w
  <1>5. Holds(Store(w, x), s \o <<x>>)
    BY <1>2, <1>3, StoreHolds
  <1> QED BY <1>4, <1>5 DEF w

\* execv() gets the path, the arguments in their order, and NULL.
LEMMA ArgvHolds ==
  ASSUME NEW t, SoundTask(t), NEW s \in Seq(Args), Holds(t.args, s)
  PROVE  Holds(Argv(t), <<t.path>> \o s \o <<NULL>>)
  <1> DEFINE S == Paths \cup Args
             v == t.args
             w1 == CheckTaskMember(v, 2, 2)
             w2 == Shift(w1)
             w3 == PutFirst(w2, t.path)
             T == Args \cup {t.path}
             q == <<t.path>> \o s
  <1> HIDE DEF S
  <1>0. Sound(v, S) /\ v.len \in Nat /\ t.path \in S \cup {NULL, Junk}
    BY DEF SoundTask, Sound, VectorOK, TaskOK, S
  <1>1. Sound(w1, S) /\ w1.len = v.len /\ v.len + 2 <= w1.total /\ Holds(w1, s)
    <2> HIDE DEF v
    <2>1. Sound(w1, S) /\ w1.len = v.len /\ v.len + 2 <= w1.total
      <3>1. 2 \in Nat /\ 2 <= 2 /\ Sound(v, S)
        BY <1>0
      <3> QED BY ONLY <3>1, GrowSound, ConfAssumption DEF w1
    <2>2. Holds(v, s)
      BY DEF v
    <2>3. Holds(w1, s)
      BY <1>0, <2>2, GrowHolds
    <2> QED BY <2>1, <2>3
  <1> HIDE DEF w1
  <1>2. w1.total \in Nat
    BY <1>1 DEF Sound, VectorOK
  <1>3. Sound(w2, S) /\ w2.len = v.len /\ w2.total = w1.total
    BY <1>0, <1>1, <1>2, ShiftSound
  <1>4. Holds(w3, q)
    BY <1>0, <1>1, <1>2, PutFirstHolds
  <1> HIDE DEF w2
  <1>5. Sound(w3, S) /\ w3.len = v.len + 1 /\ w3.total = w1.total
    BY <1>0, <1>1, <1>2, <1>3, PutFirstSound
  <1> HIDE DEF w3
  <1>6. q \in Seq(T)
    <2>1. <<t.path>> \in Seq(T) /\ s \in Seq(T)
      OBVIOUS
    <2> QED BY <2>1, ConcatProperties
  <1> HIDE DEF T, q
  <1>7. Holds(Store(w3, NULL), q \o <<NULL>>)
    BY <1>0, <1>1, <1>2, <1>4, <1>5, <1>6, StoreHolds
  <1> QED BY <1>7 DEF Argv, w1, w2, w3, q

\* A vector of variables is closed by a NULL, when there is one.
LEMMA EnvpHolds ==
  ASSUME NEW t, SoundTask(t), NEW s \in Seq(Envs), Holds(t.envp, s),
         s = <<>> => t.envp = NullVector
  PROVE  IF s = <<>> THEN Envp(t) = NullVector ELSE Holds(Envp(t), s \o <<NULL>>)
  <1> DEFINE v == t.envp
             w == CheckTaskMember(v, 1, 1)
  <1>1. CASE s = <<>>
    BY <1>1 DEF Envp, NullVector
  <1>2. CASE s # <<>>
    <2>1. Sound(v, Envs)
      BY DEF SoundTask
    <2>2. v.total # 0
      <3>1. Len(s) \in Nat /\ Len(s) # 0
        BY <1>2, EmptySeq
      <3> QED BY <2>1, <3>1 DEF Holds, Sound, VectorOK
    <2>3. Sound(w, Envs) /\ w.len = v.len /\ v.len + 1 <= w.total /\ Holds(w, s)
      BY <2>1, GrowSound, GrowHolds
    <2> HIDE DEF w
    <2>4. Holds(Store(w, NULL), s \o <<NULL>>)
      BY <2>3, StoreHolds
    <2> QED BY <1>2, <2>2, <2>4 DEF Envp, w
  <1> QED BY <1>1, <1>2

\* The loop of task_close() frees the cells in front of the first NULL.
LEMMA WalkedUpTo ==
  ASSUME NEW S, NEW v, Sound(v, S), NEW n \in Nat, n < v.len, v.at[n] = NULL,
         \A j \in 0..(n - 1) : v.at[j] # NULL
  PROVE  Walked(v) = 0..(n - 1)
  <1>1. v.len \in Nat /\ v.total \in Nat /\ v.len <= v.total /\ DOMAIN v.at = 0..(v.total - 1)
    BY DEF Sound, VectorOK
  <1>2. v.total # 0 /\ n \in DOMAIN v.at
    BY <1>1
  <1>3. ASSUME NEW i \in 0..v.total
        PROVE  (\A j \in DOMAIN v.at \cap 0..i : v.at[j] # NULL) <=> i \in 0..(n - 1)
    <2>1. CASE i < n
      BY <2>1, <1>1
    <2>2. CASE i >= n
      <3>1. n \in DOMAIN v.at \cap 0..i
        BY <2>2, <1>1, <1>2
      <3> QED BY <3>1, <2>2
    <2> QED BY <2>1, <2>2, <1>1
  <1>4. 0..(n - 1) \subseteq 0..v.total
    BY <1>1
  <1> QED BY <1>2, <1>3, <1>4 DEF Walked

\* The loop over args stops behind the last argument.
LEMMA ArgsWalked ==
  ASSUME NEW v, Sound(v, Paths \cup Args), NEW p \in Paths \cup {NULL}, NEW s \in Seq(Args),
         Holds(v, <<p>> \o s \o <<NULL>>)
  PROVE  Walked(v) = IF p = NULL THEN {} ELSE 0..Len(s)
  <1> DEFINE q == <<p>> \o s \o <<NULL>>
             U == Args \cup {p, NULL}
  <1>1. NULL \notin Args /\ NULL \notin Paths
    BY ConfAssumption DEF Strings
  <1>2. /\ Len(s) \in Nat
        /\ Len(q) = Len(s) + 2
        /\ q[1] = p
        /\ \A i \in 1..Len(s) : q[i + 1] = s[i] /\ s[i] # NULL
        /\ q[Len(s) + 2] = NULL
    <2>1. /\ <<p>> \in Seq(U) /\ s \in Seq(U) /\ <<NULL>> \in Seq(U)
          /\ Len(<<p>>) = 1 /\ Len(<<NULL>>) = 1 /\ <<p>>[1] = p /\ <<NULL>>[1] = NULL
          /\ Len(s) \in Nat
      OBVIOUS
    <2> HIDE DEF U
    <2>2. /\ <<p>> \o s \in Seq(U) /\ Len(<<p>> \o s) = 1 + Len(s)
          /\ \A i \in 1..(1 + Len(s)) : (<<p>> \o s)[i] = IF i <= 1 THEN <<p>>[i] ELSE s[i - 1]
      BY <2>1, ConcatProperties
    <2>3. /\ Len(q) = Len(<<p>> \o s) + 1
          /\ \A i \in 1..(Len(<<p>> \o s) + 1) :
               q[i] = IF i <= Len(<<p>> \o s) THEN (<<p>> \o s)[i] ELSE <<NULL>>[i - Len(<<p>> \o s)]
      BY <2>1, <2>2, ConcatProperties
    <2>4. \A i \in 1..Len(s) : s[i] # NULL
      BY <1>1
    <2> HIDE DEF q
    <2>5. q[1] = p
      BY <2>1, <2>2, <2>3
    <2>6. q[Len(s) + 2] = NULL
      BY <2>1, <2>2, <2>3
    <2>7. ASSUME NEW i \in 1..Len(s) PROVE q[i + 1] = s[i]
      BY <2>1, <2>2, <2>3
    <2> QED BY <2>1, <2>2, <2>3, <2>4, <2>5, <2>6, <2>7
  <1>3. v.len = Len(s) + 2 /\ \A i \in 1..(Len(s) + 2) : v.at[i - 1] = q[i]
    BY <1>2 DEF Holds
  <1> HIDE DEF q
  <1>4. /\ v.at[0] = p
        /\ v.at[Len(s) + 1] = NULL
        /\ \A i \in 1..Len(s) : v.at[i] # NULL
    <2>1. v.at[1 - 1] = p
      BY <1>2, <1>3
    <2>2. v.at[Len(s) + 2 - 1] = NULL
      BY <1>2, <1>3
    <2>3. ASSUME NEW i \in 1..Len(s) PROVE v.at[i] # NULL
      <3>1. v.at[i + 1 - 1] = q[i + 1]
        BY <1>2, <1>3
      <3> QED BY <3>1, <1>2
    <2> QED BY <2>1, <2>2, <2>3, <1>2
  <1>5. CASE p = NULL
    <2>1. Walked(v) = 0..(0 - 1)
      BY <1>2, <1>3, <1>4, <1>5, WalkedUpTo
    <2> QED BY <2>1, <1>5
  <1>6. CASE p # NULL
    <2>1. \A j \in 0..(Len(s) + 1 - 1) : v.at[j] # NULL
      BY <1>2, <1>4, <1>6
    <2>2. Walked(v) = 0..(Len(s) + 1 - 1)
      BY <1>2, <1>3, <1>4, <2>1, WalkedUpTo
    <2> QED BY <2>2, <1>2, <1>6
  <1> QED BY <1>5, <1>6

\* The loop over envp stops behind the last variable.
LEMMA EnvpWalked ==
  ASSUME NEW v, Sound(v, Envs), NEW s \in Seq(Envs),
         IF s = <<>> THEN v = NullVector ELSE Holds(v, s \o <<NULL>>)
  PROVE  Walked(v) = 0..(Len(s) - 1)
  <1> DEFINE q == s \o <<NULL>>
             U == Envs \cup {NULL}
  <1>1. CASE s = <<>>
    BY <1>1 DEF Walked, NullVector
  <1>2. CASE s # <<>>
    <2>1. /\ s \in Seq(U) /\ <<NULL>> \in Seq(U) /\ Len(<<NULL>>) = 1 /\ <<NULL>>[1] = NULL
          /\ Len(s) \in Nat /\ \A i \in 1..Len(s) : s[i] # NULL
      BY ConfAssumption DEF Strings
    <2> HIDE DEF U
    <2>2. /\ Len(q) = Len(s) + 1
          /\ \A i \in 1..(Len(s) + 1) : q[i] = IF i <= Len(s) THEN s[i] ELSE <<NULL>>[i - Len(s)]
      BY <2>1, ConcatProperties
    <2>3. v.len = Len(s) + 1 /\ \A i \in 1..(Len(s) + 1) : v.at[i - 1] = q[i]
      BY <1>2, <2>1, <2>2 DEF Holds
    <2> HIDE DEF q
    <2>4. v.at[Len(s)] = NULL
      <3>1. v.at[Len(s) + 1 - 1] = NULL
        BY <2>1, <2>2, <2>3
      <3> QED BY <3>1, <2>1
    <2>5. ASSUME NEW j \in 0..(Len(s) - 1) PROVE v.at[j] # NULL
      <3>1. j + 1 \in 1..Len(s) /\ j + 1 - 1 = j
        BY <2>1
      <3> QED BY <3>1, <2>1, <2>2, <2>3
    <2> QED BY <2>1, <2>3, <2>4, <2>5, WalkedUpTo
  <1> QED BY <1>1, <1>2

-----------------------------------------------------------------------------
(* The invariant *)

\* The parser starts between two blocks, with an empty list.
LEMMA TextInit == Init => TextInv
  <1> SUFFICES ASSUME Init PROVE TextInv
    OBVIOUS
  <1>1. IInv
    BY InvInit
  <1>2. Building /\ ClosesWhatWasBuilt
    BY DEF Init, Building, ClosesWhatWasBuilt
  <1>3. ListFaithful
    BY DEF Init, ListFaithful
  <1> QED BY <1>1, <1>2, <1>3 DEF TextInv

\* An option of a block finds the task that holds what the block has said.
LEMMA OptionTask ==
  ASSUME TextInv, pc = "inside"
  PROVE  SoundTask(CheckTask) /\ Reflects(CheckTask, said) /\ said \in Blocks
  <1>1. SoundTask(CheckTask) /\ said \in Blocks
    BY CheckTaskSound DEF TextInv, IInv
  <1>2. Reflects(NewTask, Nothing)
    <2>1. Len(<<>>) = 0 /\ NullVector.len = 0
      BY DEF NullVector
    <2>2. Holds(NullVector, <<>>)
      BY <2>1 DEF Holds
    <2> QED BY <2>2 DEF Reflects, SaysSame, NewTask, Nothing
  <1>3. Reflects(CheckTask, said)
    BY <1>2 DEF TextInv, Building, CheckTask
  <1> QED BY <1>1, <1>3

\* An option of a block changes the task as it changes what has been said.
LEMMA OptionReflected ==
  ASSUME NullIsNoTask, TextInv,
         \/ \E n \in Names : SetName(n)
         \/ \E p \in Paths : SetPath(p)
         \/ \E d \in Dirs : SetDir(d)
         \/ \E a \in Args : AddArg(a)
         \/ \E e \in Envs : AddEnv(e)
  PROVE  Reflects(task', said') /\ task' # NULL /\ pc = "inside" /\ pc' = "inside"
  <1> DEFINE t == CheckTask
  <1>0. pc = "inside" /\ pc' = "inside"
    BY DEF SetName, SetPath, SetDir, AddArg, AddEnv
  <1>1. SoundTask(t) /\ Reflects(t, said) /\ said \in Blocks
    BY <1>0, OptionTask
  <1> HIDE DEF t
  <1>2. /\ t = [name |-> t.name, path |-> t.path, dir |-> t.dir, args |-> t.args, envp |-> t.envp]
        /\ said = [name |-> said.name, path |-> said.path, dir |-> said.dir,
                   args |-> said.args, envp |-> said.envp]
        /\ Sound(t.args, Paths \cup Args) /\ Sound(t.envp, Envs)
        /\ said.args \in Seq(Args) /\ said.envp \in Seq(Envs)
    BY <1>1 DEF SoundTask, Blocks
  <1>3. ASSUME NEW n \in Names, SetName(n) PROVE Reflects(task', said')
    BY <1>1, <1>2, <1>3 DEF SetName, Reflects, SaysSame, t
  <1>4. ASSUME NEW p \in Paths, SetPath(p) PROVE Reflects(task', said')
    BY <1>1, <1>2, <1>4 DEF SetPath, Reflects, SaysSame, t
  <1>5. ASSUME NEW d \in Dirs, SetDir(d) PROVE Reflects(task', said')
    BY <1>1, <1>2, <1>5 DEF SetDir, Reflects, SaysSame, t
  <1>6. ASSUME NEW a \in Args, AddArg(a) PROVE Reflects(task', said')
    <2> DEFINE w == Store(CheckTaskMember(t.args, 1, DefaultLen), a)
               q == Append(said.args, a)
    <2>1. Holds(w, q)
      BY <1>1, <1>2, AddHolds DEF Reflects
    <2>2. task' = [t EXCEPT !.args = w] /\ said' = [said EXCEPT !.args = q]
      BY <1>6 DEF AddArg, t
    <2> HIDE DEF w, q
    <2> QED BY <1>1, <1>2, <2>1, <2>2 DEF Reflects, SaysSame
  <1>7. ASSUME NEW e \in Envs, AddEnv(e) PROVE Reflects(task', said')
    <2> DEFINE w == Store(CheckTaskMember(t.envp, 1, DefaultLen), e)
               q == Append(said.envp, e)
    <2>1. Holds(w, q)
      BY <1>1, <1>2, AddHolds DEF Reflects
    <2>2. q # <<>>
      BY <1>2, AppendProperties
    <2>3. task' = [t EXCEPT !.envp = w] /\ said' = [said EXCEPT !.envp = q]
      BY <1>7 DEF AddEnv, t
    <2> HIDE DEF w, q
    <2> QED BY <1>1, <1>2, <2>1, <2>2, <2>3 DEF Reflects, SaysSame
  <1>8. task' # NULL
    <2>1. SoundTask(task')
      BY OptionStep DEF TextInv
    <2> QED BY <2>1 DEF NullIsNoTask
  <1> QED BY <1>0, <1>3, <1>4, <1>5, <1>6, <1>7, <1>8

\* The end of a block puts a task in front of the list that says what it has said.
LEMMA EndTaskFaithful ==
  ASSUME TextInv, EndTask
  PROVE  ListFaithful'
  <1> DEFINE t1 == [task EXCEPT !.args = Argv(task), !.envp = Envp(task)]
             Faithful(t, b) ==
               /\ SaysSame(t, b)
               /\ Holds(t.args, <<b.path>> \o b.args \o <<NULL>>)
               /\ IF b.envp = <<>> THEN t.envp = NullVector
                                   ELSE Holds(t.envp, b.envp \o <<NULL>>)
  <1>1. SoundTask(task) /\ Reflects(task, said) /\ said \in Blocks
    BY DEF TextInv, IInv, Building, EndTask
  <1>2. /\ task = [name |-> task.name, path |-> task.path, dir |-> task.dir,
                   args |-> task.args, envp |-> task.envp]
        /\ said.args \in Seq(Args) /\ said.envp \in Seq(Envs)
    BY <1>1 DEF SoundTask, Blocks
  <1>3. Holds(Argv(task), <<task.path>> \o said.args \o <<NULL>>)
    BY <1>1, <1>2, ArgvHolds DEF Reflects
  <1>4. IF said.envp = <<>> THEN Envp(task) = NullVector
                            ELSE Holds(Envp(task), said.envp \o <<NULL>>)
    BY <1>1, <1>2, EnvpHolds DEF Reflects
  <1>5. /\ t1.name = task.name /\ t1.path = task.path /\ t1.dir = task.dir
        /\ t1.args = Argv(task) /\ t1.envp = Envp(task)
    BY <1>2
  <1>6. list' = ListAdd(t1, list) /\ text' = Append(text, said)
    BY DEF EndTask
  <1> HIDE DEF t1
  <1>7. Faithful(t1, said)
    BY <1>1, <1>3, <1>4, <1>5 DEF Reflects, SaysSame
  <1>8. /\ text \in Seq(Blocks) /\ Len(text') = Len(text) + 1
        /\ text'[Len(text) + 1] = said
        /\ \A i \in 1..Len(text) : text'[i] = text[i]
    BY <1>1, <1>6, AppendProperties DEF TextInv, IInv
  <1>9. /\ Len(list) \in Nat /\ Len(list') = Len(list) + 1 /\ list'[1] = t1
        /\ \A i \in 2..(Len(list) + 1) : list'[i] = list[i - 1]
    <2> DEFINE L == {list[k] : k \in DOMAIN list} \cup {t1}
    <2>1. list \in Seq(L) /\ <<t1>> \in Seq(L) /\ Len(<<t1>>) = 1 /\ <<t1>>[1] = t1
          /\ Len(list) \in Nat
      BY DEF TextInv, IInv, SoundList
    <2> HIDE DEF L
    <2>2. /\ Len(<<t1>> \o list) = 1 + Len(list)
          /\ \A i \in 1..(1 + Len(list)) :
               (<<t1>> \o list)[i] = IF i <= 1 THEN <<t1>>[i] ELSE list[i - 1]
      BY <2>1, ConcatProperties
    <2> QED BY <1>6, <2>1, <2>2 DEF ListAdd
  <1>10. /\ Len(list) = Len(text)
         /\ \A k \in 1..Len(list) : Faithful(list[k], text[Len(text) + 1 - k])
    BY DEF TextInv, ListFaithful
  <1> HIDE DEF Faithful
  <1>11. ASSUME NEW k \in 1..Len(list') PROVE Faithful(list'[k], text'[Len(text') + 1 - k])
    <2>1. CASE k = 1
      BY <2>1, <1>7, <1>8, <1>9, <1>10
    <2>2. CASE k # 1
      <3>1. k - 1 \in 1..Len(list) /\ k \in 2..(Len(list) + 1)
        BY <2>2, <1>9
      <3>2. Len(text) + 1 - (k - 1) \in 1..Len(text)
        BY <3>1, <1>9, <1>10
      <3>3. Len(text') + 1 - k = Len(text) + 1 - (k - 1)
        BY <1>8, <1>9, <1>10
      <3> QED BY <3>1, <3>2, <3>3, <1>8, <1>9, <1>10
    <2> QED BY <2>1, <2>2
  <1>12. Len(list') = Len(text')
    BY <1>8, <1>9, <1>10
  <1> QED BY <1>11, <1>12 DEF ListFaithful, Faithful

\* The loops of task_close() stop where the list says that a vector ends.
LEMMA CloseFaithful ==
  ASSUME TextInv, Close
  PROVE  ClosesWhatWasBuilt'
  <1> SUFFICES ASSUME NEW k \in 1..Len(list)
               PROVE  LET b == text[Len(text) + 1 - k]
                      IN /\ freed'[k].args = IF b.path = NULL THEN {} ELSE 0..Len(b.args)
                         /\ freed'[k].envp = 0..(Len(b.envp) - 1)
    BY DEF Close, ClosesWhatWasBuilt
  <1> DEFINE t == list[k]
             b == text[Len(text) + 1 - k]
  <1>1. /\ Len(list) \in Nat /\ DOMAIN list = 1..Len(list)
        /\ Len(list) = Len(text) /\ text \in Seq(Blocks)
    BY DEF TextInv, IInv, SoundList, ListFaithful
  <1>2. SoundTask(t) /\ b \in Blocks
    BY <1>1 DEF TextInv, IInv, SoundList
  <1>3. /\ Holds(t.args, <<b.path>> \o b.args \o <<NULL>>)
        /\ IF b.envp = <<>> THEN t.envp = NullVector ELSE Holds(t.envp, b.envp \o <<NULL>>)
    BY DEF TextInv, ListFaithful
  <1>4. freed'[k] = [args |-> Walked(t.args), envp |-> Walked(t.envp)]
    BY <1>1 DEF Close
  <1> HIDE DEF t, b
  <1>5. /\ b.path \in Paths \cup {NULL} /\ b.args \in Seq(Args) /\ b.envp \in Seq(Envs)
        /\ Sound(t.args, Paths \cup Args) /\ Sound(t.envp, Envs)
    BY <1>2 DEF Blocks, SoundTask
  <1>6. Walked(t.args) = IF b.path = NULL THEN {} ELSE 0..Len(b.args)
    BY <1>3, <1>5, ArgsWalked
  <1>7. Walked(t.envp) = 0..(Len(b.envp) - 1)
    BY <1>3, <1>5, EnvpWalked
  <1> QED BY <1>4, <1>6, <1>7 DEF b

\* No action of the parser breaks the invariant.
LEMMA TextStep ==
  ASSUME NullIsNoTask, TextInv, [Next]_vars
  PROVE  TextInv'
  <1>1. IInv'
    BY InvStep DEF TextInv
  <1>2. CASE \/ \E n \in Names : SetName(n)
             \/ \E p \in Paths : SetPath(p)
             \/ \E d \in Dirs : SetDir(d)
             \/ \E a \in Args : AddArg(a)
             \/ \E e \in Envs : AddEnv(e)
    <2>1. Reflects(task', said') /\ task' # NULL /\ pc' = "inside"
      BY <1>2, OptionReflected
    <2>2. UNCHANGED <<list, freed, text>>
      BY <1>2 DEF SetName, SetPath, SetDir, AddArg, AddEnv
    <2>3. Building'
      BY <2>1 DEF Building, Reflects, SaysSame, Holds
    <2>4. ListFaithful' /\ ClosesWhatWasBuilt'
      BY <2>1, <2>2 DEF TextInv, ListFaithful, SaysSame, Holds, ClosesWhatWasBuilt
    <2> QED BY <1>1, <2>3, <2>4 DEF TextInv
  <1>3. CASE EndTask
    <2>1. Building' /\ ClosesWhatWasBuilt'
      BY <1>3 DEF EndTask, Building, ClosesWhatWasBuilt
    <2> QED BY <1>1, <1>3, <2>1, EndTaskFaithful DEF TextInv
  <1>4. CASE OpenTask \/ Crash \/ SyntaxError \/ EndOfFile
    <2>1. /\ UNCHANGED <<task, list, freed, text>>
          /\ pc' \in {"inside", "crashed", "error", "loaded"}
          /\ pc' = "inside" => pc = "outside" /\ said' = Nothing
      BY <1>4 DEF OpenTask, Crash, SyntaxError, EndOfFile
    <2>2. Building' /\ ClosesWhatWasBuilt'
      BY <2>1 DEF TextInv, Building, ClosesWhatWasBuilt
    <2>3. ListFaithful'
      BY <2>1 DEF TextInv, ListFaithful, SaysSame, Holds
    <2> QED BY <1>1, <2>2, <2>3 DEF TextInv
  <1>5. CASE Close
    <2>1. Building'
      BY <1>5 DEF Close, Building
    <2>2. ListFaithful'
      BY <1>5 DEF Close, TextInv, ListFaithful, SaysSame, Holds
    <2> QED BY <1>1, <1>5, <2>1, <2>2, CloseFaithful DEF TextInv
  <1>6. CASE Finished \/ UNCHANGED vars
    <2>1. UNCHANGED <<pc, task, list, freed, said, text>>
      BY <1>6 DEF Finished, vars
    <2>2. Building' /\ ClosesWhatWasBuilt'
      BY <2>1 DEF TextInv, Building, Reflects, SaysSame, Holds, ClosesWhatWasBuilt
    <2>3. ListFaithful'
      BY <2>1 DEF TextInv, ListFaithful, SaysSame, Holds
    <2> QED BY <1>1, <2>2, <2>3 DEF TextInv
  <1> QED BY <1>2, <1>3, <1>4, <1>5, <1>6 DEF Next

\* Task, list and text agree at every step of the parser.
THEOREM TextInvariance ==
  ASSUME NullIsNoTask
  PROVE  Spec => []TextInv
  <1>1. TextInv /\ [Next]_vars => TextInv'
    BY TextStep
  <1> QED BY <1>1, TextInit, PTL DEF Spec

-----------------------------------------------------------------------------
(* What follows from it *)

\* The static pointer is null between two blocks, and within one the task holds
\* what the block has said so far and nothing of an earlier one.
THEOREM BlockBuilt ==
  ASSUME NullIsNoTask
  PROVE  Spec => []BuildsBlock
  <1>1. TextInv => BuildsBlock
    BY DEF TextInv, Building, BuildsBlock, Reflects
  <1> QED BY <1>1, TextInvariance, PTL

\* The list is the text, the last block first, with the path as the first of the
\* arguments and a NULL at the end of each vector, however long the blocks are.
THEOREM ListCorrect ==
  ASSUME NullIsNoTask
  PROVE  Spec => []ListFaithful
  <1>1. TextInv => ListFaithful
    BY DEF TextInv
  <1> QED BY <1>1, TextInvariance, PTL

\* task_close() frees what the blocks have said and never walks beyond a vector.
THEOREM CloseCorrect ==
  ASSUME NullIsNoTask
  PROVE  Spec => []ClosesWhatWasBuilt
  <1>1. TextInv => ClosesWhatWasBuilt
    BY DEF TextInv
  <1> QED BY <1>1, TextInvariance, PTL
=============================================================================
