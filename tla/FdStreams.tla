------------------------------ MODULE FdStreams ------------------------------
(***************************************************************************)
(* The streams of a child_process (detail/impl/child_process.ipp): cout()  *)
(* and cerr() read a pipe through fdinbuf, whose buffer keeps the last     *)
(* characters for putback, and cin() writes through fdoutbuf, which has no *)
(* buffer.                                                                 *)
(*                                                                         *)
(* A character is its place in the stream: the child writes 0, 1, 2, ...   *)
(* The std::istream and std::ostream around the buffers are external, and  *)
(* so is the child.                                                        *)
(***************************************************************************)
EXTENDS Integers, Sequences

CONSTANTS
    PbSize,    \* pbSize: 4
    BufSize,   \* bufSize: 1024
    MaxChars   \* bound: characters the child writes, and is sent

ASSUME StreamAssumption ==
    PbSize \in Nat /\ BufSize \in Nat \ {0} /\ MaxChars \in Nat

Cells == 0 .. PbSize + BufSize - 1
Junk  == -1                      \* a cell that was never written

VARIABLES
    written,  \* characters the child has written
    open,     \* does a process hold the end the child writes to
    taken,    \* characters read from the pipe
    buffer,
    eback, gptr, egptr,
    numPutback,  \* of the underflow() in progress
    pc,       \* "idle", or "get" or "peek" while it waits in read()
    state,    \* of the istream: good, ended (eofbit) or failed
    pos,      \* history: the character to be had next
    moved,    \* history: did an underflow() fail
    pipe,     \* what was written to the child
    sent,     \* characters the program has inserted into cin()
    ostate,   \* of the ostream
    ocleared  \* history: did the program clear a failure of it

child  == <<written, open>>
area   == <<eback, gptr, egptr>>
input  == <<taken, buffer, area, numPutback, pc, state, pos, moved>>
output == <<pipe, sent, ostate, ocleared>>
vars   == <<child, input, output>>

Init ==
    /\ written = 0 /\ open = TRUE
    /\ taken = 0
    /\ buffer = [c \in Cells |-> Junk]
    /\ eback = PbSize /\ gptr = PbSize /\ egptr = PbSize
    /\ numPutback = 0
    /\ pc = "idle" /\ state = "good"
    /\ pos = 0 /\ moved = FALSE
    /\ pipe = << >> /\ sent = 0 /\ ostate = "good" /\ ocleared = FALSE

AtMost(n, m) == IF n > m THEN m ELSE n

-----------------------------------------------------------------------------
\* fdinbuf

\* A character is at hand: get() takes it, peek() does not.
AtHand(op) ==
    /\ pc = "idle" /\ state = "good" /\ gptr < egptr
    /\ gptr' = IF op = "get" THEN gptr + 1 ELSE gptr
    /\ pos'  = IF op = "get" THEN pos + 1 ELSE pos
    /\ UNCHANGED <<child, taken, buffer, eback, egptr, numPutback, pc, state,
                   moved, output>>

\* memmove() as the code calls it: the cells before pbSize get what is before
\* `from'.
Moved(n, from) == [c \in Cells |-> IF c \in PbSize - n .. PbSize - 1
                                   THEN buffer[c + from - PbSize]
                                   ELSE buffer[c]]

\* Mutants: the characters are taken from the wrong end, or one too few.
UnderflowFromBack(op) ==
    /\ pc = "idle" /\ state = "good" /\ gptr >= egptr
    /\ numPutback' = AtMost(gptr - eback, PbSize)
    /\ buffer' = Moved(numPutback', eback + numPutback')
    /\ pc' = op
    /\ UNCHANGED <<child, taken, area, state, pos, moved, output>>
UnderflowShort(op) ==
    /\ pc = "idle" /\ state = "good" /\ gptr >= egptr
    /\ numPutback' = AtMost(gptr - eback, PbSize - 1)
    /\ buffer' = Moved(numPutback', gptr)
    /\ pc' = op
    /\ UNCHANGED <<child, taken, area, state, pos, moved, output>>

\* The last characters read are kept, and read() is called.
Underflow(op) ==
    /\ pc = "idle" /\ state = "good" /\ gptr >= egptr
    /\ numPutback' = AtMost(gptr - eback, PbSize)
    /\ buffer' = Moved(numPutback', gptr)
    /\ pc' = op
    /\ UNCHANGED <<child, taken, area, state, pos, moved, output>>

\* Mutant: the end is that of the buffer.
SetgFull(num) ==
    /\ eback' = PbSize - numPutback
    /\ gptr'  = IF pc = "get" THEN PbSize + 1 ELSE PbSize
    /\ egptr' = PbSize + BufSize

\* setg(), and the character get() takes.
Setg(num) ==
    /\ eback' = PbSize - numPutback
    /\ gptr'  = IF pc = "get" THEN PbSize + 1 ELSE PbSize
    /\ egptr' = PbSize + num

\* read() returns some of what is in the pipe.
ReadSome ==
    /\ pc # "idle"
    /\ \E num \in 1 .. BufSize :
         /\ num <= written - taken
         /\ buffer' = [c \in Cells |-> IF c \in PbSize .. PbSize + num - 1
                                       THEN taken + c - PbSize
                                       ELSE buffer[c]]
         /\ taken' = taken + num
         /\ Setg(num)
    /\ pos' = IF pc = "get" THEN pos + 1 ELSE pos
    /\ pc' = "idle"
    /\ UNCHANGED <<child, numPutback, state, moved, output>>

\* read() returns 0 at the end of the pipe, or -1 at any time, as when a signal
\* was caught.  Both are the end to the istream; buffer pointers stay.
ReadEnds ==
    /\ pc # "idle"
    /\ state' = IF pc = "get" THEN "failed" ELSE "ended"
    /\ pc' = "idle"
    /\ moved' = TRUE
    /\ UNCHANGED <<child, taken, buffer, area, numPutback, pos, output>>

\* unget(): eofbit does not hinder it; there is no pbackfail().
Unget ==
    /\ pc = "idle" /\ state # "failed"
    /\ IF gptr > eback
       THEN gptr' = gptr - 1 /\ pos' = pos - 1 /\ state' = "good"
       ELSE state' = "failed" /\ UNCHANGED <<gptr, pos>>
    /\ UNCHANGED <<child, taken, buffer, eback, egptr, numPutback, pc, moved,
                   output>>

\* The program clears the state and may try again.
Clear ==
    /\ pc = "idle" /\ state # "good"
    /\ state' = "good"
    /\ UNCHANGED <<child, taken, buffer, area, numPutback, pc, pos, moved,
                   output>>

-----------------------------------------------------------------------------
\* fdoutbuf

\* write() of n characters has taken k of them, or failed.
Through(k) == pipe' = pipe \o [i \in 1 .. k |-> sent + i - 1]

\* put(): overflow()
Put ==
    /\ ostate = "good" /\ sent < MaxChars
    /\ \E k \in 0 .. 1 : Through(k) /\ ostate' = IF k = 1 THEN "good" ELSE "failed"
    /\ sent' = sent + 1
    /\ UNCHANGED <<child, input, ocleared>>

\* Mutant: the answer of write() does not matter unless it is -1.
InsertAny(n) ==
    /\ ostate = "good" /\ sent + n <= MaxChars
    /\ \E k \in 0 .. n : Through(k) /\ ostate' = IF k = 0 THEN "failed" ELSE "good"
    /\ sent' = sent + n
    /\ UNCHANGED <<child, input, ocleared>>

\* operator<< and write(): xsputn() returns what write() does, the ostream fails
\* unless that is all.
Insert(n) ==
    /\ ostate = "good" /\ sent + n <= MaxChars
    /\ \E k \in 0 .. n : Through(k) /\ ostate' = IF k = n THEN "good" ELSE "failed"
    /\ sent' = sent + n
    /\ UNCHANGED <<child, input, ocleared>>

\* Nothing gets through an ostream that has failed.
InsertFailed ==
    /\ ostate = "failed" /\ sent < MaxChars
    /\ sent' = sent + 1
    /\ UNCHANGED <<child, input, pipe, ostate, ocleared>>

ClearOut ==
    /\ ostate = "failed"
    /\ ostate' = "good" /\ ocleared' = TRUE
    /\ UNCHANGED <<child, input, pipe, sent>>

-----------------------------------------------------------------------------
\* The child (external)

ChildWrites ==
    /\ open /\ written < MaxChars
    /\ written' = written + 1
    /\ UNCHANGED <<open, input, output>>

ChildCloses ==
    /\ open
    /\ open' = FALSE
    /\ UNCHANGED <<written, input, output>>

-----------------------------------------------------------------------------
Reading == \/ \E op \in {"get", "peek"} : AtHand(op) \/ Underflow(op)
           \/ ReadSome \/ ReadEnds \/ Unget \/ Clear
Writing == \/ Put \/ (\E n \in 2 .. MaxChars : Insert(n))
           \/ InsertFailed \/ ClearOut

Next == Reading \/ Writing \/ ChildWrites \/ ChildCloses

Spec == Init /\ [][Next]_vars

-----------------------------------------------------------------------------
\* Properties

\* The type invariant; the pointers stay in order and inside the buffer.
TypeOK ==
    /\ written \in Nat /\ open \in BOOLEAN
    /\ taken \in 0 .. written
    /\ buffer \in [Cells -> Int]
    /\ eback \in 0 .. PbSize
    /\ gptr \in eback .. egptr
    /\ egptr \in PbSize .. PbSize + BufSize
    /\ numPutback \in 0 .. PbSize
    /\ pc \in {"idle", "get", "peek"}
    /\ state \in {"good", "ended", "failed"}
    /\ pos \in Nat /\ moved \in BOOLEAN
    /\ sent \in Nat /\ ostate \in {"good", "failed"} /\ ocleared \in BOOLEAN

\* The character a cell of the window should hold.
Due(c) == pos + c - gptr

\* What is read for the first time is read in order: what lies ahead in the
\* buffer goes on where the program is, and the pipe goes on where the buffer
\* ends.  No failure of read() and no putback makes a character be skipped or
\* come twice.
NothingSkipped ==
    /\ \A c \in PbSize .. egptr - 1 : buffer[c] = Due(c)
    /\ Due(egptr) = taken

\* As long as no underflow() has failed, putback returns the characters that
\* were read last.
PutbackRight ==
    pc = "idle" /\ ~moved => \A c \in eback .. PbSize - 1 : buffer[c] = Due(c)

\* From the first cell of the last read, pbSize characters can be put back, or
\* as many as there ever were: "copy up to pbSize characters previously read".
PutbackRoom == eback = PbSize - AtMost(Due(PbSize), PbSize)

\* Unless the program cleared a failure, an ostream that is good has written
\* what was inserted, all of it, in order and once: a short write is noticed.
GoodMeansWritten ==
    ostate = "good" /\ ~ocleared => pipe = [i \in 1 .. sent |-> i - 1]

\* The inductive invariant behind these: while read() is waited for, what is to
\* be put back lies where setg() will look for it.
Waiting ==
    pc # "idle" =>
        /\ state = "good" /\ gptr = egptr
        /\ numPutback = AtMost(gptr - eback, PbSize)
        /\ ~moved => \A c \in PbSize - numPutback .. PbSize - 1 :
                        buffer[c] = taken + c - PbSize

IInv == TypeOK /\ NothingSkipped /\ PutbackRight /\ PutbackRoom /\ Waiting

-----------------------------------------------------------------------------
\* What the comments say and the code does not do

\* "at most, pbSize characters in putback area", "characters previously read":
\* what can be put back is what was read, also after an end or an error.
PutbackAlwaysRight ==
    pc = "idle" => \A c \in eback .. gptr - 1 : buffer[c] = Due(c)
=============================================================================
