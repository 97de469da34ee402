----------------------------- MODULE ConfProofs -----------------------------
(***************************************************************************)
(* Proofs about Conf.tla, for every set of strings, every CONF_DEFAULT_LEN *)
(* and texts of any length: the vectors of the tasks have their types, and *)
(* nothing is written beyond their end.                                    *)
(***************************************************************************)
EXTENDS Conf, SequenceTheorems, TLAPS

\* A vector of strings of S that has not been overrun.
Sound(v, S) ==
  /\ v = [at |-> v.at, len |-> v.len, total |-> v.total]
  /\ VectorOK(v, S)
  /\ v.len <= v.total

\* A task whose vectors are sound.
SoundTask(t) ==
  /\ t = [name |-> t.name, path |-> t.path, dir |-> t.dir, args |-> t.args, envp |-> t.envp]
  /\ TaskOK(t)
  /\ Sound(t.args, Paths \cup Args)
  /\ Sound(t.envp, Envs)

\* A list of sound tasks.
SoundList(l) ==
  /\ l \in Seq({l[k] : k \in DOMAIN l})
  /\ \A k \in DOMAIN l : SoundTask(l[k])

\* The invariant: TypeOK and InBounds say nothing of the shape of the list and
\* of the vectors as records, which a step needs to know.
IInv ==
  /\ pc \in {"outside", "inside", "loaded", "error", "crashed", "closed"}
  /\ task # NULL => SoundTask(task)
  /\ SoundList(list)
  /\ said \in Blocks
  /\ text \in Seq(Blocks)

-----------------------------------------------------------------------------
(* The macros *)

\* check_task_member() makes the room that it is asked for, and moves nothing.
LEMMA GrowSound ==
  ASSUME NEW S, NEW v, Sound(v, S),
         NEW need \in Nat, NEW incr \in Nat, need <= incr
  PROVE  /\ Sound(CheckTaskMember(v, need, incr), S)
         /\ CheckTaskMember(v, need, incr).len = v.len
         /\ v.len + need <= CheckTaskMember(v, need, incr).total
  <1>1. CASE ~Full(v, need)
    BY <1>1 DEF CheckTaskMember, Full, Sound, VectorOK
  <1>2. CASE Full(v, need)
    <2> DEFINE cells == [i \in 0..(v.total + incr - 1) |-> IF i < v.total THEN v.at[i] ELSE Junk]
               w == [at |-> cells, len |-> v.len, total |-> v.total + incr]
    <2>1. CheckTaskMember(v, need, incr) = w
      BY <1>2 DEF CheckTaskMember, Sound
    <2>2. cells \in [0..(v.total + incr - 1) -> S \cup {NULL, Junk}]
      BY DEF Sound, VectorOK
    <2>3. Sound(w, S) /\ w.len = v.len /\ v.len + need <= w.total
      BY <2>2 DEF Sound, VectorOK
    <2> QED BY <2>1, <2>3
  <1> QED BY <1>1, <1>2

\* A cell is stored within the bounds when there is room for it.
LEMMA StoreSound ==
  ASSUME NEW S, NEW v, Sound(v, S), v.len + 1 <= v.total,
         NEW x \in S \cup {NULL, Junk}
  PROVE  /\ Sound(Store(v, x), S)
         /\ Store(v, x).len = v.len + 1
         /\ Store(v, x).total = v.total
  <1> DEFINE cells == [i \in DOMAIN v.at |-> IF i = v.len THEN x ELSE v.at[i]]
             w == [at |-> cells, len |-> v.len + 1, total |-> v.total]
  <1>1. Store(v, x) = w
    BY DEF Store
  <1>2. cells \in [0..(v.total - 1) -> S \cup {NULL, Junk}]
    BY DEF Sound, VectorOK
  <1>3. Sound(w, S) /\ w.len = v.len + 1 /\ w.total = v.total
    BY <1>2 DEF Sound, VectorOK
  <1> QED BY <1>1, <1>3

\* The loop that shifts the arguments stays within the bounds: one more is free.
LEMMA ShiftSound ==
  ASSUME NEW S, NEW v, Sound(v, S), v.len + 1 <= v.total
  PROVE  /\ Sound(Shift(v), S)
         /\ Shift(v).len = v.len
         /\ Shift(v).total = v.total
  <1> DEFINE cells == [i \in DOMAIN v.at |-> IF i \in 1..v.len THEN v.at[i - 1] ELSE v.at[i]]
             w == [at |-> cells, len |-> v.len, total |-> v.total]
  <1>1. Shift(v) = w
    BY DEF Shift, Sound
  <1>2. cells \in [0..(v.total - 1) -> S \cup {NULL, Junk}]
    BY DEF Sound, VectorOK
  <1>3. Sound(w, S) /\ w.len = v.len /\ w.total = v.total
    BY <1>2 DEF Sound, VectorOK
  <1> QED BY <1>1, <1>3

\* The path is put into the first cell, which the shift has made free.
LEMMA PutFirstSound ==
  ASSUME NEW S, NEW v, Sound(v, S), v.len + 1 <= v.total,
         NEW x \in S \cup {NULL, Junk}
  PROVE  /\ Sound(PutFirst(v, x), S)
         /\ PutFirst(v, x).len = v.len + 1
         /\ PutFirst(v, x).total = v.total
  <1> DEFINE cells == [v.at EXCEPT ![0] = x]
             w == [at |-> cells, len |-> v.len + 1, total |-> v.total]
  <1>1. PutFirst(v, x) = w
    BY DEF PutFirst
  <1>2. cells \in [0..(v.total - 1) -> S \cup {NULL, Junk}]
    BY DEF Sound, VectorOK
  <1>3. Sound(w, S) /\ w.len = v.len + 1 /\ w.total = v.total
    BY <1>2 DEF Sound, VectorOK
  <1> QED BY <1>1, <1>3

-----------------------------------------------------------------------------
(* The reductions *)

\* The first option of a block starts from a sound task.
LEMMA CheckTaskSound ==
  ASSUME task # NULL => SoundTask(task)
  PROVE  SoundTask(CheckTask)
  <1>1. ASSUME NEW S PROVE Sound(NullVector, S)
    <2>1. 0..(0 - 1) = {}
      OBVIOUS
    <2>2. <<>> \in [{} -> S \cup {NULL, Junk}]
      OBVIOUS
    <2>3. /\ NullVector = [at |-> <<>>, len |-> 0, total |-> 0]
          /\ NullVector.at = <<>> /\ NullVector.len = 0 /\ NullVector.total = 0
      BY DEF NullVector
    <2>4. VectorOK(NullVector, S)
      BY <2>1, <2>2, <2>3 DEF VectorOK
    <2> QED BY <2>3, <2>4 DEF Sound
  <1>2. SoundTask(NewTask)
    BY <1>1 DEF SoundTask, TaskOK, Sound, NewTask
  <1> QED BY <1>2 DEF CheckTask

\* An option that replaces one string, or one vector, leaves a sound task.
LEMMA OptionSound ==
  ASSUME NEW t, SoundTask(t)
  PROVE  /\ \A n \in Names : SoundTask([t EXCEPT !.name = n])
         /\ \A p \in Paths : SoundTask([t EXCEPT !.path = p])
         /\ \A d \in Dirs : SoundTask([t EXCEPT !.dir = d])
         /\ \A v : Sound(v, Paths \cup Args) => SoundTask([t EXCEPT !.args = v])
         /\ \A v : Sound(v, Envs) => SoundTask([t EXCEPT !.envp = v])
  <1> DEFINE Rec(n, p, d, a, e) == [name |-> n, path |-> p, dir |-> d, args |-> a, envp |-> e]
  <1>1. ASSUME NEW n \in Names \cup {NULL}, NEW p \in Paths \cup {NULL},
               NEW d \in Dirs \cup {NULL}, NEW a, NEW e,
               Sound(a, Paths \cup Args), Sound(e, Envs)
        PROVE  SoundTask(Rec(n, p, d, a, e))
    <2>1. VectorOK(a, Paths \cup Args) /\ VectorOK(e, Envs)
      BY <1>1 DEF Sound
    <2>2. DOMAIN Rec(n, p, d, a, e) = DOMAIN NewTask
      BY DEF NewTask
    <2> QED BY <1>1, <2>1, <2>2 DEF SoundTask, TaskOK
  <1>2. /\ t = Rec(t.name, t.path, t.dir, t.args, t.envp)
        /\ t.name \in Names \cup {NULL} /\ t.path \in Paths \cup {NULL}
        /\ t.dir \in Dirs \cup {NULL}
        /\ Sound(t.args, Paths \cup Args) /\ Sound(t.envp, Envs)
    BY DEF SoundTask, TaskOK
  <1>3. /\ \A n : [t EXCEPT !.name = n] = Rec(n, t.path, t.dir, t.args, t.envp)
        /\ \A p : [t EXCEPT !.path = p] = Rec(t.name, p, t.dir, t.args, t.envp)
        /\ \A d : [t EXCEPT !.dir = d] = Rec(t.name, t.path, d, t.args, t.envp)
        /\ \A a : [t EXCEPT !.args = a] = Rec(t.name, t.path, t.dir, a, t.envp)
        /\ \A e : [t EXCEPT !.envp = e] = Rec(t.name, t.path, t.dir, t.args, e)
    BY <1>2
  <1> HIDE DEF Rec
  <1> QED BY <1>1, <1>2, <1>3

\* A word of args, and an env, are stored in a vector that has room for them.
LEMMA AddSound ==
  ASSUME NEW S, NEW v, Sound(v, S), NEW x \in S
  PROVE  Sound(Store(CheckTaskMember(v, 1, DefaultLen), x), S)
  <1> DEFINE w == CheckTaskMember(v, 1, DefaultLen)
  <1>1. DefaultLen \in Nat /\ 1 <= DefaultLen
    BY ConfAssumption
  <1>2. Sound(w, S) /\ w.len = v.len /\ v.len + 1 <= w.total
    BY <1>1, GrowSound
  <1> HIDE DEF w
  <1>3. Sound(Store(w, x), S)
    BY <1>2, StoreSound
  <1> QED BY <1>3 DEF w

\* The two cells that the end of a block asks for hold the path and the NULL.
LEMMA ArgvSound ==
  ASSUME NEW t, SoundTask(t)
  PROVE  Sound(Argv(t), Paths \cup Args)
  <1> DEFINE S == Paths \cup Args
             v == t.args
             w1 == CheckTaskMember(v, 2, 2)
             w2 == Shift(w1)
             w3 == PutFirst(w2, t.path)
  <1> HIDE DEF S
  <1>0. Sound(v, S) /\ v.len \in Nat /\ t.path \in S \cup {NULL, Junk}
    BY DEF SoundTask, Sound, VectorOK, TaskOK, S
  <1>1. /\ Sound(w1, S) /\ w1.len = v.len /\ v.len + 2 <= w1.total
        /\ w1.total \in Nat
    <2>1. Sound(w1, S) /\ w1.len = v.len /\ v.len + 2 <= w1.total
      BY <1>0, GrowSound
    <2> HIDE DEF w1
    <2> QED BY <2>1 DEF Sound, VectorOK
  <1> HIDE DEF w1
  <1>2. Sound(w2, S) /\ w2.len = v.len /\ w2.total = w1.total
    BY <1>0, <1>1, ShiftSound
  <1> HIDE DEF w2
  <1>3. Sound(w3, S) /\ w3.len = v.len + 1 /\ w3.total = w1.total
    BY <1>0, <1>1, <1>2, PutFirstSound
  <1> HIDE DEF w3
  <1>4. Sound(Store(w3, NULL), S)
    BY <1>0, <1>1, <1>3, StoreSound
  <1> QED BY <1>4 DEF Argv, w1, w2, w3, S

\* The NULL at the end of envp fits.
LEMMA EnvpSound ==
  ASSUME NEW t, SoundTask(t)
  PROVE  Sound(Envp(t), Envs)
  <1> DEFINE v == t.envp
             w == CheckTaskMember(v, 1, 1)
  <1>1. Sound(v, Envs)
    BY DEF SoundTask
  <1>2. Sound(w, Envs) /\ w.len = v.len /\ v.len + 1 <= w.total
    BY <1>1, GrowSound
  <1> HIDE DEF w
  <1>3. Sound(Store(w, NULL), Envs)
    BY <1>2, StoreSound
  <1> QED BY <1>1, <1>3 DEF Envp, w

-----------------------------------------------------------------------------
(* The invariant *)

\* list_add() puts a sound task in front of a list of sound tasks.
LEMMA ListAddSound ==
  ASSUME NEW l, SoundList(l), NEW t, SoundTask(t)
  PROVE  SoundList(ListAdd(t, l))
  <1> DEFINE L == {l[k] : k \in DOMAIN l} \cup {t}
             m == <<t>> \o l
             M == {m[k] : k \in DOMAIN m}
  <1>1. l \in Seq(L) /\ <<t>> \in Seq(L)
    BY DEF SoundList
  <1>2. /\ m \in Seq(L) /\ Len(m) = Len(l) + 1 /\ DOMAIN m = 1..Len(m)
        /\ \A k \in DOMAIN m : m[k] = IF k = 1 THEN t ELSE l[k - 1]
    BY <1>1
  <1> HIDE DEF m, L
  <1>3. ASSUME NEW k \in DOMAIN m PROVE SoundTask(m[k])
    <2>1. k = 1 \/ k - 1 \in DOMAIN l
      BY <1>1, <1>2
    <2> QED BY <1>2, <2>1 DEF SoundList
  <1>4. m \in Seq(M)
    <2>1. Len(m) \in Nat /\ m \in [1..Len(m) -> M]
      BY <1>2
    <2> QED BY <2>1, SeqDef
  <1> QED BY <1>3, <1>4 DEF SoundList, m, ListAdd

\* Nothing is built before the text begins.
LEMMA InvInit == Init => IInv
  <1> SUFFICES ASSUME Init PROVE IInv
    OBVIOUS
  <1>1. Nothing \in Blocks
    BY DEF Nothing, Blocks
  <1> QED BY <1>1 DEF Init, IInv, SoundList

\* An option leaves a sound task, and adds to what the block has said.
LEMMA OptionStep ==
  ASSUME IInv,
         \/ \E n \in Names : SetName(n)
         \/ \E p \in Paths : SetPath(p)
         \/ \E d \in Dirs : SetDir(d)
         \/ \E a \in Args : AddArg(a)
         \/ \E e \in Envs : AddEnv(e)
  PROVE  SoundTask(task') /\ said' \in Blocks /\ UNCHANGED <<pc, list, text>>
  <1> DEFINE t == CheckTask
  <1>1. SoundTask(t)
    BY CheckTaskSound DEF IInv
  <1>2. said \in Blocks
    BY DEF IInv
  <1> HIDE DEF t
  <1>3. ASSUME NEW n \in Names, SetName(n) PROVE SoundTask(task') /\ said' \in Blocks
    BY <1>1, <1>2, <1>3, OptionSound DEF SetName, Blocks, t
  <1>4. ASSUME NEW p \in Paths, SetPath(p) PROVE SoundTask(task') /\ said' \in Blocks
    BY <1>1, <1>2, <1>4, OptionSound DEF SetPath, Blocks, t
  <1>5. ASSUME NEW d \in Dirs, SetDir(d) PROVE SoundTask(task') /\ said' \in Blocks
    BY <1>1, <1>2, <1>5, OptionSound DEF SetDir, Blocks, t
  <1>6. ASSUME NEW a \in Args, AddArg(a) PROVE SoundTask(task') /\ said' \in Blocks
    <2>1. Sound(t.args, Paths \cup Args)
      BY <1>1 DEF SoundTask
    <2>2. Sound(Store(CheckTaskMember(t.args, 1, DefaultLen), a), Paths \cup Args)
      BY <2>1, AddSound
    <2>3. task' = [t EXCEPT !.args = Store(CheckTaskMember(t.args, 1, DefaultLen), a)]
      BY <1>6 DEF AddArg, t
    <2>4. said.args \in Seq(Args) /\ Append(said.args, a) \in Seq(Args)
      BY <1>2 DEF Blocks
    <2>5. said' \in Blocks
      BY <1>2, <1>6, <2>4 DEF AddArg, Blocks
    <2> QED BY <1>1, <2>2, <2>3, <2>5, OptionSound
  <1>7. ASSUME NEW e \in Envs, AddEnv(e) PROVE SoundTask(task') /\ said' \in Blocks
    <2>1. Sound(t.envp, Envs)
      BY <1>1 DEF SoundTask
    <2>2. Sound(Store(CheckTaskMember(t.envp, 1, DefaultLen), e), Envs)
      BY <2>1, AddSound
    <2>3. task' = [t EXCEPT !.envp = Store(CheckTaskMember(t.envp, 1, DefaultLen), e)]
      BY <1>7 DEF AddEnv, t
    <2>4. said.envp \in Seq(Envs) /\ Append(said.envp, e) \in Seq(Envs)
      BY <1>2 DEF Blocks
    <2>5. said' \in Blocks
      BY <1>2, <1>7, <2>4 DEF AddEnv, Blocks
    <2> QED BY <1>1, <2>2, <2>3, <2>5, OptionSound
  <1>8. UNCHANGED <<pc, list, text>>
    BY DEF SetName, SetPath, SetDir, AddArg, AddEnv
  <1> QED BY <1>3, <1>4, <1>5, <1>6, <1>7, <1>8

\* The end of a block moves a sound task into the list.
LEMMA EndTaskStep ==
  ASSUME IInv, EndTask
  PROVE  IInv'
  <1> DEFINE t0 == [task EXCEPT !.args = Argv(task)]
             t1 == [t0 EXCEPT !.envp = Envp(task)]
  <1>1. SoundTask(task)
    BY DEF IInv, EndTask
  <1>2. SoundTask(t0)
    BY <1>1, ArgvSound, OptionSound
  <1>3. SoundTask(t1)
    <2> HIDE DEF t0
    <2> QED BY <1>1, <1>2, EnvpSound, OptionSound
  <1>4. list' = ListAdd(t1, list)
    BY DEF EndTask
  <1> HIDE DEF t0, t1
  <1>5. SoundList(list')
    BY <1>3, <1>4, ListAddSound DEF IInv
  <1>6. text' \in Seq(Blocks) /\ said' \in Blocks /\ pc' = "outside" /\ task' = NULL
    BY DEF EndTask, IInv
  <1> QED BY <1>5, <1>6 DEF IInv

\* No step of the parser breaks the invariant.
LEMMA InvStep ==
  ASSUME IInv, [Next]_vars
  PROVE  IInv'
  <1>1. CASE \/ \E n \in Names : SetName(n)
             \/ \E p \in Paths : SetPath(p)
             \/ \E d \in Dirs : SetDir(d)
             \/ \E a \in Args : AddArg(a)
             \/ \E e \in Envs : AddEnv(e)
    BY <1>1, OptionStep DEF IInv
  <1>2. CASE EndTask
    BY <1>2, EndTaskStep
  <1>3. CASE OpenTask
    BY <1>3 DEF OpenTask, IInv, Nothing, Blocks
  <1>4. CASE Crash \/ SyntaxError \/ EndOfFile \/ Close
    BY <1>4 DEF Crash, SyntaxError, EndOfFile, Close, IInv
  <1>5. CASE Finished \/ UNCHANGED vars
    BY <1>5 DEF Finished, vars, IInv
  <1> QED BY <1>1, <1>2, <1>3, <1>4, <1>5 DEF Next

\* The invariant holds of every text.
THEOREM Invariance == Spec => []IInv
  <1> QED BY InvInit, InvStep, PTL DEF Spec

\* The parser keeps the types: a vector has as many cells as its _total says,
\* whatever realloc() has returned in them.
THEOREM TypeCorrect == Spec => []TypeOK
  <1>1. IInv => TypeOK
    BY DEF IInv, TypeOK, SoundList, SoundTask
  <1> QED BY <1>1, Invariance, PTL

\* check_task_member() is called with enough room each time: no text, however
\* many arguments and variables it has, makes the parser write out of bounds.
THEOREM NothingOverrun == Spec => []InBounds
  <1>1. IInv => InBounds
    BY DEF IInv, InBounds, SoundList, SoundTask, Sound
  <1> QED BY <1>1, Invariance, PTL
=============================================================================
