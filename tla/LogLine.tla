------------------------------- MODULE LogLine -------------------------------
(***************************************************************************)
(* A line of the log: _log() prints the header and the message into a      *)
(* buffer on its stack, each print bounded by the room that is left, adds  *)
(* the newline and calls write() once.  A signal handler that logs may     *)
(* interrupt it anywhere.  Of a character only its origin counts.          *)
(* Source: src/src/log.c, strutil.c.                                       *)
(***************************************************************************)
EXTENDS Integers, Sequences

CONSTANTS
  Size,      \* BZ_MAX_ERR_STR, 1024 in the code
  Lengths    \* the lengths of headers and messages

ASSUME LogLineAssumption ==
  /\ Size \in Nat \ {0}
  /\ Lengths \subseteq Nat

Failure == -1      \* what vsnprintf() returns when it cannot format a text

Calls == {1, 2}    \* of the code that is interrupted, and of the handler

VARIABLES
  pc,          \* where each call is
  buf,         \* its buffer, as far as it has been filled
  errno_save,  \* its local variable
  asked,       \* history: the lengths of its header and its message
  before,      \* history: errno when it began
  errno

vars == <<pc, buf, errno_save, asked, before, errno>>

\* "EINTR" is from the code that is interrupted, "ENOENT" from localtime().
Errnos == {"none", "EINTR", "EIO", "ENOENT"}
Garbage == "garbage"     \* in a local variable that has not been set

Init ==
  /\ pc = [c \in Calls |-> "idle"]
  /\ buf = [c \in Calls |-> <<>>]
  /\ errno_save = [c \in Calls |-> Garbage]
  /\ asked = [c \in Calls |-> <<0, 0>>]
  /\ before = [c \in Calls |-> "none"]
  /\ errno = "none"

\* The interrupted code goes on when the handler has returned.
Step(c, from, to) ==
  /\ pc[c] = from
  /\ c = 1 => pc[2] = "idle"
  /\ pc' = [pc EXCEPT ![c] = to]

\* A call; the code around it may have made a system call that set errno.
Begin(c, h, m) ==
  /\ Step(c, "idle", "localtime")
  /\ errno' \in IF c = 1 THEN {"none", "EINTR"} ELSE {errno}
  /\ before' = [before EXCEPT ![c] = errno']
  /\ asked' = [asked EXCEPT ![c] = <<h, m>>]
  /\ UNCHANGED <<buf, errno_save>>

\* localtime() reads the zone file when it is called first, and may fail to.
Localtime(c) ==
  /\ Step(c, "localtime", "header")
  /\ errno' \in {errno, "ENOENT"}
  /\ errno_save' = [errno_save EXCEPT ![c] = errno']
  /\ UNCHANGED <<buf, asked, before>>

\* Mutant of Vscnprintf: vsnprintf() returns the length of the whole text.
BugVscnprintf(size, n) == IF n <= 0 THEN 0 ELSE n

\* _vscnprintf(): the characters that fit in front of a '\0'.
Vscnprintf(size, n) == IF n <= 0 THEN 0 ELSE IF n < size THEN n ELSE size - 1

\* Mutant of Scnprintf: the second print is given the size of the whole buffer less
\* the place for the newline, not the room that is left.
BugScnprintf(b, char, n) == b \o [i \in 1..Vscnprintf(Size - 1, n) |-> char]

\* A print of n characters behind those that are in buffer b.
Scnprintf(b, char, n) == b \o [i \in 1..Vscnprintf(Size - Len(b), n) |-> char]

PrintHeader(c) ==
  /\ Step(c, "header", "message")
  /\ buf' = [buf EXCEPT ![c] = Scnprintf(@, "h", asked[c][1])]
  /\ UNCHANGED <<errno_save, asked, before, errno>>

PrintMessage(c) ==
  /\ Step(c, "message", "newline")
  /\ buf' = [buf EXCEPT ![c] = Scnprintf(@, "m", asked[c][2])]
  /\ UNCHANGED <<errno_save, asked, before, errno>>

\* buf[len++] = '\n'
AddNewline(c) ==
  /\ Step(c, "newline", "write")
  /\ buf' = [buf EXCEPT ![c] = Append(@, "newline")]
  /\ UNCHANGED <<errno_save, asked, before, errno>>

\* write() succeeds or fails, and nobody looks at how much it has written.
Write(c) ==
  /\ Step(c, "write", "restore")
  /\ errno' \in {errno, "EIO"}
  /\ UNCHANGED <<buf, errno_save, asked, before>>

\* Mutant of Restore: errno is left as it is.
BugRestore(c) ==
  /\ Step(c, "restore", "done")
  /\ UNCHANGED <<buf, errno_save, asked, before, errno>>

\* errno = errno_save
Restore(c) ==
  /\ Step(c, "restore", "done")
  /\ errno' = errno_save[c]
  /\ UNCHANGED <<buf, errno_save, asked, before>>

\* The local variables are gone.
Return(c) ==
  /\ Step(c, "done", "idle")
  /\ buf' = [buf EXCEPT ![c] = <<>>]
  /\ errno_save' = [errno_save EXCEPT ![c] = Garbage]
  /\ asked' = [asked EXCEPT ![c] = <<0, 0>>]
  /\ before' = [before EXCEPT ![c] = "none"]
  /\ UNCHANGED errno

Next ==
  \E c \in Calls :
    \/ \E h, m \in Lengths \cup {Failure} : Begin(c, h, m)
    \/ Localtime(c) \/ PrintHeader(c) \/ PrintMessage(c) \/ AddNewline(c)
    \/ Write(c) \/ Restore(c) \/ Return(c)

Spec == Init /\ [][Next]_vars

-----------------------------------------------------------------------------
\* The newline and the '\0' of each print stay within the BZ_MAX_ERR_STR bytes,
\* however long the header and the message are.
InBounds ==
  \A c \in Calls :
    IF pc[c] \in {"write", "restore", "done"} THEN Len(buf[c]) <= Size ELSE Len(buf[c]) < Size

\* buf is a char[BZ_MAX_ERR_STR]; errno is never set from an unset errno_save.
TypeOK ==
  /\ pc \in [Calls -> {"idle", "localtime", "header", "message", "newline", "write",
                      "restore", "done"}]
  /\ buf \in [Calls -> Seq({"h", "m", "newline"})]
  /\ InBounds
  /\ errno_save \in [Calls -> Errnos \cup {Garbage}]
  /\ asked \in [Calls -> Int \X Int]
  /\ before \in [Calls -> Errnos]
  /\ errno \in Errnos

Smaller(a, b) == IF a < b THEN a ELSE b
Length(n) == IF n < 0 THEN 0 ELSE n

\* Two bounded prints and a newline give the whole text, cut off once so that it
\* fits: no character is lost or doubled where header and message meet.
LineWhole ==
  \A c \in Calls : pc[c] = "write" =>
    LET h == Length(asked[c][1])
        m == Length(asked[c][2])
        text == [i \in 1..(h + m) |-> IF i <= h THEN "h" ELSE "m"]
    IN buf[c] = Append(SubSeq(text, 1, Smaller(h + m, Size - 1)), "newline")

\* The code that a handler interrupts between a system call and its look at
\* errno finds errno as it was, and so does the code that logs.  Only an error
\* of localtime() gets through, because errno is saved after it.
ErrnoKept ==
  \A c \in Calls : pc[c] = "done" /\ (c = 1 => pc[2] = "idle") => errno \in {before[c], "ENOENT"}
=============================================================================
