---------------------------- MODULE LogLineProofs ----------------------------
(***************************************************************************)
(* Proofs about LogLine.tla, for every size of the buffer and every length *)
(* of the texts: _log() does not write beyond its buffer, and what it      *)
(* hands to write() is the text, cut off once.                             *)
(***************************************************************************)
EXTENDS LogLine, SequenceTheorems, TLAPS

Chars == {"h", "m", "newline"}

\* The part that fits of a text with a header of h and a message of m characters.
CutLength(h, m) == Smaller(Length(h) + Length(m), Size - 1)
Cut(h, m) == [i \in 1..CutLength(h, m) |-> IF i <= Length(h) THEN "h" ELSE "m"]

\* What the buffer of a call holds at each of its steps.
Filled(c) ==
  /\ pc[c] \in {"idle", "localtime", "header"} => buf[c] = <<>>
  /\ pc[c] = "message" => buf[c] = Cut(asked[c][1], 0)
  /\ pc[c] = "newline" => buf[c] = Cut(asked[c][1], asked[c][2])
  /\ pc[c] \in {"write", "restore", "done"} =>
       buf[c] = Append(Cut(asked[c][1], asked[c][2]), "newline")

\* The steps at which errno is what it was when the call began, and those at
\* which it has been saved.
ErrnoSaved(c) ==
  pc[c] \in {"header", "message", "newline", "write", "restore"} =>
    errno_save[c] \in {before[c], "ENOENT"}

\* The handler may run when write() of the interrupted call has failed: errno is
\* then neither call's, but the handler gives it back.
ErrnoFollowed ==
  /\ pc[2] \notin {"idle", "restore"} => errno \in {before[2], "ENOENT"}
  /\ pc[1] \notin {"idle", "restore"} =>
       IF pc[2] = "idle"
       THEN errno \in {before[1], "ENOENT"}
       ELSE before[2] \in {before[1], "ENOENT"}

IInv ==
  /\ pc \in [Calls -> {"idle", "localtime", "header", "message", "newline", "write",
                      "restore", "done"}]
  /\ buf \in [Calls -> Seq(Chars)]
  /\ errno_save \in [Calls -> Errnos \cup {Garbage}]
  /\ asked \in [Calls -> Int \X Int]
  /\ before \in [Calls -> Errnos]
  /\ errno \in Errnos
  /\ \A c \in Calls : Filled(c) /\ ErrnoSaved(c)
  /\ ErrnoFollowed

-----------------------------------------------------------------------------
(* The arithmetic *)

\* bz_vscnprintf() never claims more than the room that it was given, less one.
LEMMA VscnprintfBound ==
  ASSUME NEW size \in Nat \ {0}, NEW n \in Int
  PROVE  /\ Vscnprintf(size, n) = Smaller(Length(n), size - 1)
         /\ Vscnprintf(size, n) \in 0..(size - 1)
  BY DEF Vscnprintf, Smaller, Length

\* A text that is cut leaves one character of the buffer free.
LEMMA CutType ==
  ASSUME NEW h \in Int, NEW m \in Int
  PROVE  /\ CutLength(h, m) \in Nat
         /\ CutLength(h, m) < Size
         /\ Cut(h, m) \in Seq(Chars)
         /\ Len(Cut(h, m)) = CutLength(h, m)
  <1>1. CutLength(h, m) \in Nat /\ CutLength(h, m) < Size
    BY LogLineAssumption DEF CutLength, Smaller, Length
  <1> QED BY <1>1 DEF Cut, Chars

\* The first print leaves what fits of the header.
LEMMA HeaderPrinted ==
  ASSUME NEW h \in Int
  PROVE  Scnprintf(<<>>, "h", h) = Cut(h, 0)
  <1>1. Size - Len(<<>>) = Size /\ Size \in Nat \ {0}
    BY LogLineAssumption
  <1>2. Vscnprintf(Size, h) = CutLength(h, 0)
    BY <1>1, VscnprintfBound DEF CutLength, Length, Smaller
  <1>3. CutLength(h, 0) \in Nat /\ CutLength(h, 0) <= Length(h)
    BY <1>1 DEF CutLength, Length, Smaller
  <1>4. Cut(h, 0) = [i \in 1..CutLength(h, 0) |-> "h"]
    BY <1>3 DEF Cut, Length
  <1>5. [i \in 1..CutLength(h, 0) |-> "h"] \in Seq(Chars)
    BY <1>3 DEF Chars
  <1> QED BY <1>1, <1>2, <1>4, <1>5 DEF Scnprintf

\* The second print leaves what fits of both, wherever the first one ended.
LEMMA MessagePrinted ==
  ASSUME NEW h \in Int, NEW m \in Int
  PROVE  Scnprintf(Cut(h, 0), "m", m) = Cut(h, m)
  <1> DEFINE a == CutLength(h, 0)
             b == Vscnprintf(Size - a, m)
             tail == [i \in 1..b |-> "m"]
  <1>1. /\ a \in Nat /\ a < Size /\ Size \in Nat
        /\ Cut(h, 0) \in Seq(Chars) /\ Len(Cut(h, 0)) = a
    BY CutType, LogLineAssumption
  <1>2. b \in Nat /\ b = Smaller(Length(m), Size - a - 1)
    <2> HIDE DEF a
    <2>1. Size - a \in Nat \ {0}
      BY <1>1
    <2> HIDE DEF b
    <2>2. b = Smaller(Length(m), Size - a - 1) /\ b \in 0..(Size - a - 1)
      BY <2>1, VscnprintfBound DEF b
    <2> QED BY <2>1, <2>2
  <1>3. tail \in Seq(Chars) /\ Len(tail) = b
    BY <1>2 DEF Chars
  <1>4. a + b = CutLength(h, m)
    BY <1>1, <1>2 DEF CutLength, Smaller, Length
  <1>5. \A i \in 1..a : i <= Length(h)
    BY <1>1 DEF CutLength, Smaller, Length
  <1>6. b > 0 => a = Length(h)
    BY <1>1, <1>2 DEF CutLength, Smaller, Length
  <1>7. Scnprintf(Cut(h, 0), "m", m) = Cut(h, 0) \o tail
    <2> HIDE DEF a
    <2> QED BY <1>1 DEF Scnprintf
  <1>8. \A i \in 1..a : Cut(h, 0)[i] = "h"
    BY <1>5 DEF Cut
  <1>9. Length(h) \in Nat
    BY DEF Length
  <1> HIDE DEF a, b
  <1>10. Cut(h, m) \in Seq(Chars) /\ Len(Cut(h, m)) = a + b
    BY <1>4, CutType
  <1>11. \A i \in 1..(a + b) : Cut(h, m)[i] = IF i <= Length(h) THEN "h" ELSE "m"
    BY <1>4 DEF Cut
  <1>12. /\ Cut(h, 0) \o tail \in Seq(Chars) /\ Len(Cut(h, 0) \o tail) = a + b
         /\ \A i \in 1..(a + b) :
              (Cut(h, 0) \o tail)[i] = IF i <= a THEN Cut(h, 0)[i] ELSE tail[i - a]
    <2> HIDE DEF tail
    <2> QED BY <1>1, <1>3, ConcatProperties
  <1>13. ASSUME NEW i \in 1..(a + b)
         PROVE  (Cut(h, 0) \o tail)[i] = Cut(h, m)[i]
    <2>1. CASE i <= a
      BY <2>1, <1>1, <1>2, <1>5, <1>8, <1>11, <1>12
    <2>2. CASE i > a
      <3>1. b > 0 /\ a = Length(h) /\ i - a \in 1..b
        BY <2>2, <1>1, <1>2, <1>6
      <3>2. tail[i - a] = "m"
        BY <3>1, <1>2
      <3>3. ~(i <= a) /\ ~(i <= Length(h))
        BY <3>1, <2>2, <1>1
      <3> HIDE DEF tail
      <3> QED BY <3>2, <3>3, <1>11, <1>12
    <2>3. i <= a \/ i > a
      BY <1>1, <1>2
    <2> HIDE DEF tail
    <2> QED BY <2>1, <2>2, <2>3
  <1> HIDE DEF tail
  <1> QED BY <1>7, <1>10, <1>12, <1>13, SeqEqual

\* What the proof says of a cut text is what the property LineWhole says of it.
LEMMA CutIsSubSeq ==
  ASSUME NEW h \in Int, NEW m \in Int
  PROVE  Cut(h, m) =
           SubSeq([i \in 1..(Length(h) + Length(m)) |-> IF i <= Length(h) THEN "h" ELSE "m"],
                  1, Smaller(Length(h) + Length(m), Size - 1))
  <1> DEFINE w == [i \in 1..(Length(h) + Length(m)) |-> IF i <= Length(h) THEN "h" ELSE "m"]
             n == CutLength(h, m)
  <1>1. Length(h) \in Nat /\ Length(m) \in Nat
    BY DEF Length
  <1>2. n \in Nat /\ n <= Length(h) + Length(m)
    BY <1>1, LogLineAssumption DEF CutLength, Smaller
  <1>3. \A i \in 1..n : w[i] = Cut(h, m)[i] /\ w[i] \in Chars
    BY <1>1, <1>2 DEF Cut, Chars
  <1>4. Cut(h, m) \in Seq(Chars) /\ Len(Cut(h, m)) = n
    BY CutType
  <1> HIDE DEF w
  <1>5. /\ SubSeq(w, 1, n) \in Seq(Chars) /\ Len(SubSeq(w, 1, n)) = n
        /\ \A i \in 1..n : SubSeq(w, 1, n)[i] = w[i]
    <2> HIDE DEF n
    <2>1. \A i \in 1..n : w[i] \in Chars
      BY <1>3
    <2>2. /\ SubSeq(w, 1, n) \in Seq(Chars)
          /\ Len(SubSeq(w, 1, n)) = IF 1 <= n THEN n - 1 + 1 ELSE 0
          /\ \A i \in 1..(n - 1 + 1) : SubSeq(w, 1, n)[i] = w[1 + i - 1]
      BY <1>2, <2>1, SubSeqProperties
    <2> QED BY <1>2, <2>2
  <1>6. Cut(h, m) = SubSeq(w, 1, n)
    <2> HIDE DEF n
    <2>1. \A i \in 1..Len(Cut(h, m)) : Cut(h, m)[i] = SubSeq(w, 1, n)[i]
      BY <1>3, <1>4, <1>5
    <2> QED BY <1>4, <1>5, <2>1, SeqEqual
  <1> QED BY <1>6 DEF CutLength, w

-----------------------------------------------------------------------------
(* The invariant *)

\* Neither of the two calls has begun.
LEMMA InvInit == Init => IInv
  BY DEF Init, IInv, Calls, Errnos, Garbage, Chars, Filled, ErrnoSaved, ErrnoFollowed

\* No step of the two calls breaks the invariant.
LEMMA InvStep == IInv /\ [Next]_vars => IInv'
  <1> SUFFICES ASSUME IInv, [Next]_vars PROVE IInv'
    OBVIOUS
  <1> USE DEF IInv
  <1>1. ASSUME NEW c \in Calls, NEW h \in Lengths \cup {Failure}, NEW m \in Lengths \cup {Failure},
               Begin(c, h, m)
        PROVE  IInv'
    <2>1. h \in Int /\ m \in Int
      BY LogLineAssumption DEF Failure
    <2> QED BY <1>1, <2>1 DEF Begin, Step, Calls, Errnos, Garbage, Filled, ErrnoSaved, ErrnoFollowed
  <1>2. ASSUME NEW c \in Calls, Localtime(c)
        PROVE  IInv'
    BY <1>2 DEF Localtime, Step, Calls, Errnos, Garbage, Filled, ErrnoSaved, ErrnoFollowed
  <1>3. ASSUME NEW c \in Calls, PrintHeader(c)
        PROVE  IInv'
    <2>1. asked[c][1] \in Int /\ buf[c] = <<>>
      BY <1>3 DEF PrintHeader, Step, Filled
    <2>2. buf'[c] = Cut(asked[c][1], 0) /\ buf'[c] \in Seq(Chars)
      BY <1>3, <2>1, HeaderPrinted, CutType DEF PrintHeader
    <2> QED BY <1>3, <2>2 DEF PrintHeader, Step, Calls, Filled, ErrnoSaved, ErrnoFollowed
  <1>4. ASSUME NEW c \in Calls, PrintMessage(c)
        PROVE  IInv'
    <2>1. asked[c][1] \in Int /\ asked[c][2] \in Int /\ buf[c] = Cut(asked[c][1], 0)
      BY <1>4 DEF PrintMessage, Step, Filled
    <2>2. buf'[c] = Cut(asked[c][1], asked[c][2]) /\ buf'[c] \in Seq(Chars)
      BY <1>4, <2>1, MessagePrinted, CutType DEF PrintMessage
    <2> QED BY <1>4, <2>2 DEF PrintMessage, Step, Calls, Filled, ErrnoSaved, ErrnoFollowed
  <1>5. ASSUME NEW c \in Calls, AddNewline(c)
        PROVE  IInv'
    <2>1. buf[c] = Cut(asked[c][1], asked[c][2])
      BY <1>5 DEF AddNewline, Step, Filled
    <2>2. /\ buf'[c] = Append(Cut(asked[c][1], asked[c][2]), "newline")
          /\ buf'[c] \in Seq(Chars)
      BY <1>5, <2>1 DEF AddNewline, Chars
    <2> QED BY <1>5, <2>2 DEF AddNewline, Step, Calls, Filled, ErrnoSaved, ErrnoFollowed
  <1>6. ASSUME NEW c \in Calls, Write(c)
        PROVE  IInv'
    BY <1>6 DEF Write, Step, Calls, Errnos, Filled, ErrnoSaved, ErrnoFollowed
  <1>7. ASSUME NEW c \in Calls, Restore(c)
        PROVE  IInv'
    BY <1>7 DEF Restore, Step, Calls, Errnos, Filled, ErrnoSaved, ErrnoFollowed
  <1>8. ASSUME NEW c \in Calls, Return(c)
        PROVE  IInv'
    BY <1>8 DEF Return, Step, Calls, Errnos, Garbage, Filled, ErrnoSaved, ErrnoFollowed
  <1>9. CASE UNCHANGED vars
    BY <1>9 DEF vars, Filled, ErrnoSaved, ErrnoFollowed
  <1> QED BY <1>1, <1>2, <1>3, <1>4, <1>5, <1>6, <1>7, <1>8, <1>9 DEF Next

\* The invariant holds at every step, for every size of the buffer.
THEOREM Invariance == Spec => []IInv
  <1> QED BY InvInit, InvStep, PTL DEF Spec

-----------------------------------------------------------------------------
(* What follows from it *)

\* The newline and each '\0' stay within the BZ_MAX_ERR_STR bytes of _log(),
\* whatever that size is and however long header and message are.
THEOREM TypeCorrect == Spec => []TypeOK
  <1>1. IInv => InBounds
    <2> SUFFICES ASSUME IInv, NEW c \in Calls
                 PROVE  IF pc[c] \in {"write", "restore", "done"}
                        THEN Len(buf[c]) <= Size ELSE Len(buf[c]) < Size
      BY DEF InBounds
    <2> DEFINE h == asked[c][1]
               m == asked[c][2]
    <2>1. h \in Int /\ m \in Int /\ Filled(c) /\ Size \in Nat \ {0}
      BY LogLineAssumption DEF IInv
    <2>2. /\ Cut(h, m) \in Seq(Chars) /\ Len(Cut(h, m)) < Size
          /\ Cut(h, 0) \in Seq(Chars) /\ Len(Cut(h, 0)) < Size
      <3> HIDE DEF h, m
      <3>1. /\ Cut(h, m) \in Seq(Chars) /\ CutLength(h, m) < Size
            /\ Len(Cut(h, m)) = CutLength(h, m)
        BY <2>1, CutType
      <3>2. /\ Cut(h, 0) \in Seq(Chars) /\ CutLength(h, 0) < Size
            /\ Len(Cut(h, 0)) = CutLength(h, 0)
        BY <2>1, CutType
      <3> QED BY <3>1, <3>2
    <2>3. Len(Append(Cut(h, m), "newline")) = Len(Cut(h, m)) + 1
      BY <2>2, AppendProperties DEF Chars
    <2>4. Len(Cut(h, m)) \in Nat /\ Len(<<>>) = 0
      BY <2>2
    <2> QED BY <2>1, <2>2, <2>3, <2>4 DEF Filled, IInv
  <1>2. IInv => TypeOK
    BY <1>1 DEF IInv, TypeOK, Chars
  <1> QED BY <1>2, Invariance, PTL

\* The two bounded prints and the newline of _log() hand write() the whole text,
\* cut off once: nothing is lost or doubled where header and message meet.
THEOREM WholeLine == Spec => []LineWhole
  <1>1. IInv => LineWhole
    <2> SUFFICES ASSUME IInv, NEW c \in Calls, pc[c] = "write"
                 PROVE  LET h == Length(asked[c][1])
                            m == Length(asked[c][2])
                            text == [i \in 1..(h + m) |-> IF i <= h THEN "h" ELSE "m"]
                        IN buf[c] = Append(SubSeq(text, 1, Smaller(h + m, Size - 1)), "newline")
      BY DEF LineWhole
    <2>1. /\ asked[c][1] \in Int /\ asked[c][2] \in Int
          /\ buf[c] = Append(Cut(asked[c][1], asked[c][2]), "newline")
      BY DEF IInv, Filled
    <2>2. buf[c] = Append(SubSeq([i \in 1..(Length(asked[c][1]) + Length(asked[c][2])) |->
                                    IF i <= Length(asked[c][1]) THEN "h" ELSE "m"],
                                 1, Smaller(Length(asked[c][1]) + Length(asked[c][2]), Size - 1)),
                          "newline")
      BY <2>1, CutIsSubSeq
    <2> QED BY <2>2
  <1> QED BY <1>1, Invariance, PTL

\* The code that logs, and the code that a handler that logs interrupts, find
\* errno as it was, save for an error of localtime().
THEOREM ErrnoUntouched == Spec => []ErrnoKept
  <1>1. IInv => ErrnoKept
    BY DEF IInv, ErrnoKept, ErrnoFollowed, Calls
  <1> QED BY <1>1, Invariance, PTL
=============================================================================
