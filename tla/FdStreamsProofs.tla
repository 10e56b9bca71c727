--------------------------- MODULE FdStreamsProofs ---------------------------
(***************************************************************************)
(* Proofs about FdStreams, for putback areas and buffers of any size and   *)
(* any number of characters.                                               *)
(***************************************************************************)
EXTENDS FdStreams, TLAPS

LEMMA InitIInv == Init => IInv
<1> SUFFICES ASSUME Init PROVE IInv
  OBVIOUS
<1> USE StreamAssumption DEF Init
<1>1. TypeOK
  <2>1. buffer \in [Cells -> Int]
    BY DEF Junk
  <2>2. open \in BOOLEAN /\ moved \in BOOLEAN /\ ocleared \in BOOLEAN
    BY Zenon
  <2>3. /\ written \in Nat /\ taken \in 0 .. written /\ eback \in 0 .. PbSize
        /\ gptr \in eback .. egptr /\ egptr \in PbSize .. PbSize + BufSize
        /\ numPutback \in 0 .. PbSize /\ pos \in Nat /\ sent \in Nat
    OBVIOUS
  <2> QED BY <2>1, <2>2, <2>3 DEF TypeOK
<1>2. NothingSkipped /\ PutbackRight /\ PutbackRoom
  BY DEF NothingSkipped, PutbackRight, PutbackRoom, Due, AtMost
<1> QED BY <1>1, <1>2 DEF IInv, Waiting

\* A step that leaves the buffer and the pipe alone keeps the invariant if the
\* pointer goes where the program goes, inside the window.
LEMMA PointerMoves ==
    ASSUME IInv, TypeOK', pc = "idle", pc' = "idle",
           UNCHANGED <<taken, buffer, eback, egptr, moved>>,
           pos' - gptr' = pos - gptr
    PROVE  IInv'
<1>0. /\ {pos, gptr, egptr} \subseteq Int /\ {pos', gptr'} \subseteq Int
      /\ PbSize \in Int
  BY StreamAssumption DEF IInv, TypeOK
<1>1. pos' + PbSize - gptr' = pos + PbSize - gptr
      /\ pos' + egptr - gptr' = pos + egptr - gptr
  BY <1>0
<1>2. \A c \in Int : pos' + c - gptr' = pos + c - gptr
  BY <1>0
<1>3. PutbackRoom' /\ Waiting'
  BY <1>1 DEF IInv, PutbackRoom, Waiting, Due
<1>4. NothingSkipped'
  <2>1. ASSUME NEW c \in PbSize .. egptr - 1
        PROVE  buffer'[c] = pos' + c - gptr'
    BY <1>0, <1>2 DEF IInv, NothingSkipped, Due
  <2> QED BY <1>1, <2>1 DEF IInv, NothingSkipped, Due
<1>5. PutbackRight'
  <2>1. ASSUME ~moved, NEW c \in eback .. PbSize - 1
        PROVE  buffer'[c] = pos' + c - gptr'
    <3>1. c \in Int
      BY StreamAssumption DEF IInv, TypeOK
    <3>2. buffer[c] = Due(c)
      BY <2>1 DEF IInv, PutbackRight
    <3> QED BY <1>2, <3>1, <3>2 DEF Due
  <2> QED BY <2>1 DEF PutbackRight, Due
<1> QED BY <1>3, <1>4, <1>5 DEF IInv

\* An unget() that finds a character before it finds one that was read.
LEMMA SomethingBefore ==
    ASSUME IInv, gptr > eback PROVE pos > 0
  BY StreamAssumption DEF IInv, TypeOK, PutbackRoom, Due, AtMost

LEMMA AtHandIInv ==
    ASSUME IInv, NEW op \in {"get", "peek"}, AtHand(op) PROVE IInv'
<1>1. TypeOK'
  BY StreamAssumption DEF IInv, TypeOK, AtHand, child, output
<1>2. pos' - gptr' = pos - gptr
  BY StreamAssumption DEF IInv, TypeOK, AtHand
<1> QED BY <1>1, <1>2, PointerMoves DEF AtHand

LEMMA UngetIInv == ASSUME IInv, Unget PROVE IInv'
<1>1. TypeOK'
  BY SomethingBefore, StreamAssumption DEF IInv, TypeOK, Unget, child, output
<1>2. pos' - gptr' = pos - gptr
  BY StreamAssumption DEF IInv, TypeOK, Unget
<1> QED BY <1>1, <1>2, PointerMoves DEF Unget

LEMMA ClearIInv == ASSUME IInv, Clear PROVE IInv'
<1>1. TypeOK'
  BY DEF IInv, TypeOK, Clear, child, output, area
<1> QED BY <1>1, PointerMoves DEF Clear, area, IInv, TypeOK

\* What memmove() leaves before pbSize is what was read last.
LEMMA UnderflowIInv ==
    ASSUME IInv, NEW op \in {"get", "peek"}, Underflow(op) PROVE IInv'
<1> USE StreamAssumption
<1>1. /\ gptr = egptr /\ numPutback' \in 0 .. PbSize
      /\ numPutback' <= gptr - eback
      /\ numPutback' = AtMost(gptr - eback, PbSize)
  BY DEF IInv, TypeOK, Underflow, AtMost
<1>2. ASSUME NEW c \in PbSize - numPutback' .. PbSize - 1
      PROVE  /\ c + gptr - PbSize \in Cells
             /\ c + gptr - PbSize \in eback .. egptr - 1
             /\ c \in Cells
             /\ buffer'[c] = buffer[c + gptr - PbSize]
  BY <1>1 DEF IInv, TypeOK, Underflow, Moved, Cells
<1>3. \A c \in Cells : c >= PbSize => buffer'[c] = buffer[c]
  BY <1>1 DEF IInv, TypeOK, Underflow, Moved, Cells
<1>4. buffer' \in [Cells -> Int]
  <2>1. \A c \in Cells :
          IF c \in PbSize - numPutback' .. PbSize - 1
          THEN buffer[c + gptr - PbSize] \in Int ELSE buffer[c] \in Int
    BY <1>2 DEF IInv, TypeOK
  <2> QED BY <2>1 DEF Underflow, Moved
<1>5. TypeOK'
  BY <1>1, <1>4 DEF IInv, TypeOK, Underflow, child, area, output
<1>6. NothingSkipped'
  BY <1>3 DEF IInv, TypeOK, NothingSkipped, Underflow, area, Due, Cells
<1>7. PutbackRight'
  BY DEF PutbackRight, Underflow
<1>8. PutbackRoom'
  BY DEF IInv, PutbackRoom, Underflow, area, Due
<1>9. ASSUME ~moved, NEW c \in PbSize - numPutback' .. PbSize - 1
      PROVE  buffer'[c] = taken + c - PbSize
  <2>1. buffer[c + gptr - PbSize] = Due(c + gptr - PbSize)
    BY <1>2, <1>9 DEF IInv, TypeOK, NothingSkipped, PutbackRight, Underflow
  <2>2. Due(c + gptr - PbSize) = taken + c - PbSize
    BY <1>1 DEF IInv, TypeOK, NothingSkipped, Due
  <2> QED BY <1>2, <2>1, <2>2
<1>10. Waiting'
  BY <1>1, <1>9 DEF Waiting, Underflow, area
<1> QED BY <1>5, <1>6, <1>7, <1>8, <1>10 DEF IInv

LEMMA ReadSomeIInv == ASSUME IInv, ReadSome PROVE IInv'
<1> USE StreamAssumption
<1>1. PICK num \in 1 .. BufSize :
        /\ num <= written - taken
        /\ buffer' = [c \in Cells |-> IF c \in PbSize .. PbSize + num - 1
                                      THEN taken + c - PbSize
                                      ELSE buffer[c]]
        /\ taken' = taken + num
        /\ Setg(num)
  BY DEF ReadSome
<1>2. /\ pc # "idle" /\ gptr = egptr /\ pos = taken
      /\ numPutback = AtMost(gptr - eback, PbSize)
  BY DEF IInv, TypeOK, ReadSome, Waiting, NothingSkipped, Due
<1>3. /\ \A c \in PbSize .. PbSize + num - 1 : buffer'[c] = taken + c - PbSize
      /\ \A c \in 0 .. PbSize - 1 : buffer'[c] = buffer[c]
      /\ buffer' \in [Cells -> Int]
  BY <1>1 DEF IInv, TypeOK, Cells
<1>4. numPutback = AtMost(pos, PbSize)
  BY <1>2 DEF IInv, TypeOK, PutbackRoom, Due, AtMost
<1>5. TypeOK'
  BY <1>1, <1>3 DEF IInv, TypeOK, ReadSome, Setg, child, output
<1>6. \A c \in Int : Due(c)' = taken + c - PbSize
  BY <1>1, <1>2 DEF IInv, TypeOK, ReadSome, Setg, Due
<1>7. NothingSkipped'
  BY <1>1, <1>3, <1>6 DEF IInv, TypeOK, NothingSkipped, Setg
<1>8. PutbackRight'
  <2>1. ~moved => \A c \in PbSize - numPutback .. PbSize - 1 :
                    buffer'[c] = taken + c - PbSize
    BY <1>2, <1>3 DEF IInv, TypeOK, Waiting
  <2>2. \A c \in eback' .. PbSize - 1 : c \in Int /\ Due(c)' = taken + c - PbSize
    BY <1>1, <1>6 DEF IInv, TypeOK, Setg
  <2> QED BY <1>1, <2>1, <2>2 DEF PutbackRight, Setg, ReadSome
<1>9. PutbackRoom'
  BY <1>1, <1>2, <1>4, <1>6 DEF IInv, TypeOK, PutbackRoom, Setg
<1>10. Waiting'
  BY DEF Waiting, ReadSome
<1> QED BY <1>5, <1>7, <1>8, <1>9, <1>10 DEF IInv

\* Buffer pointers stay; what the buffer holds before them is promised no more.
LEMMA ReadEndsIInv == ASSUME IInv, ReadEnds PROVE IInv'
  BY DEF IInv, TypeOK, NothingSkipped, PutbackRight, PutbackRoom, Waiting, Due,
         ReadEnds, child, area, output

\* The child, and all that is done to cin(), leave the buffer alone.
LEMMA OutputIInv == ASSUME IInv, Writing PROVE IInv'
<1>1. UNCHANGED <<child, input>> /\ ostate' \in {"good", "failed"}
  BY DEF Writing, Put, Insert, InsertFailed, ClearOut
<1>2. sent' \in Nat
  BY DEF IInv, TypeOK, Writing, Put, Insert, InsertFailed, ClearOut
<1>3. ocleared' \in BOOLEAN
  BY DEF IInv, TypeOK, Writing, Put, Insert, InsertFailed, ClearOut
<1> QED
  BY <1>1, <1>2, <1>3
  DEF IInv, TypeOK, NothingSkipped, PutbackRight, PutbackRoom, Waiting, Due,
      child, input, area

LEMMA ChildIInv == ASSUME IInv, ChildWrites \/ ChildCloses PROVE IInv'
<1>1. UNCHANGED <<input, output>>
  BY DEF ChildWrites, ChildCloses
<1>2. written' \in Nat /\ written' >= written
  BY DEF IInv, TypeOK, ChildWrites, ChildCloses
<1>3. open' \in BOOLEAN
  BY DEF IInv, TypeOK, ChildWrites, ChildCloses
<1> QED
  BY <1>1, <1>2, <1>3
  DEF IInv, TypeOK, NothingSkipped, PutbackRight, PutbackRoom, Waiting, Due,
      input, output, area

LEMMA NextIInv == ASSUME IInv, [Next]_vars PROVE IInv'
<1>1. CASE Reading
  BY <1>1, AtHandIInv, UnderflowIInv, ReadSomeIInv, ReadEndsIInv, UngetIInv,
     ClearIInv DEF Reading
<1>2. CASE Writing
  BY <1>2, OutputIInv
<1>3. CASE ChildWrites \/ ChildCloses
  BY <1>3, ChildIInv
<1>4. CASE UNCHANGED vars
  BY <1>4 DEF IInv, TypeOK, NothingSkipped, PutbackRight, PutbackRoom, Waiting,
              Due, vars, child, input, output, area
<1> QED BY <1>1, <1>2, <1>3, <1>4 DEF Next

LEMMA Invariance == Spec => []IInv
  BY InitIInv, NextIInv, PTL DEF Spec

-----------------------------------------------------------------------------
\* The pointers of the buffer stay in order and inside it.
THEOREM TypeCorrect == Spec => []TypeOK
  BY Invariance, PTL DEF IInv

\* No character the child wrote is skipped or read twice, whatever is put back
\* and however read() fails: underflow() goes on where the buffer ended.
THEOREM NoneIsSkipped == Spec => []NothingSkipped
  BY Invariance, PTL DEF IInv

\* Until an underflow() fails, what is put back is what was read.
THEOREM PutbackIsRight == Spec => []PutbackRight
  BY Invariance, PTL DEF IInv

\* After each read() there is room to put back as many characters as pbSize
\* allows.
THEOREM RoomToPutBack == Spec => []PutbackRoom
  BY Invariance, PTL DEF IInv

-----------------------------------------------------------------------------
\* The first n characters, followed by the k after them, are the first n + k.
LEMMA Appended ==
    ASSUME NEW n \in Nat, NEW k \in Nat
    PROVE  [i \in 1 .. n |-> i - 1] \o [i \in 1 .. k |-> n + i - 1]
             = [i \in 1 .. n + k |-> i - 1]
<1> DEFINE a == [i \in 1 .. n |-> i - 1]
           b == [i \in 1 .. k |-> n + i - 1]
<1>1. a \in Seq(Int) /\ Len(a) = n /\ b \in Seq(Int) /\ Len(b) = k
  OBVIOUS
<1>2. /\ a \o b \in Seq(Int) /\ Len(a \o b) = n + k
      /\ \A i \in 1 .. n + k : (a \o b)[i] = i - 1
  BY <1>1
<1> QED BY <1>2

\* A good ostream that was never cleared has written all that was inserted:
\* the answer of write() to overflow() and xsputn() is not lost.
THEOREM GoodHasWritten == Spec => []GoodMeansWritten
<1>1. Init => GoodMeansWritten
  BY DEF Init, GoodMeansWritten
<1>2. ASSUME TypeOK, GoodMeansWritten, [Next]_vars PROVE GoodMeansWritten'
  <2>1. CASE UNCHANGED output
    BY <2>1, <1>2 DEF GoodMeansWritten, output
  <2>2. ASSUME NEW n \in 1 .. MaxChars, Through(n), sent' = sent + n,
               ostate = "good", ocleared' = ocleared
        PROVE  GoodMeansWritten'
    <3>1. CASE ocleared
      BY <2>2, <3>1 DEF GoodMeansWritten
    <3>2. CASE ~ocleared
      <4>1. sent \in Nat /\ n \in Nat
        BY <1>2, StreamAssumption DEF TypeOK
      <4>2. pipe = [i \in 1 .. sent |-> i - 1]
        BY <1>2, <2>2, <3>2 DEF GoodMeansWritten
      <4>3. pipe' = [i \in 1 .. sent + n |-> i - 1]
        BY <2>2, <4>1, <4>2, Appended DEF Through
      <4> QED BY <2>2, <4>3 DEF GoodMeansWritten
    <3> QED BY <3>1, <3>2
  <2>3. CASE Put
    <3>1. PICK k \in 0 .. 1 :
            Through(k) /\ ostate' = IF k = 1 THEN "good" ELSE "failed"
      BY <2>3 DEF Put
    <3>2. CASE k = 1
      <4>1. 1 \in 1 .. MaxChars
        BY <1>2, <2>3, StreamAssumption DEF Put, TypeOK
      <4> QED BY <2>2, <2>3, <3>1, <3>2, <4>1 DEF Put
    <3>3. CASE k = 0
      BY <3>1, <3>3 DEF GoodMeansWritten
    <3> QED BY <3>2, <3>3
  <2>4. CASE \E n \in 2 .. MaxChars : Insert(n)
    <3>1. PICK n \in 2 .. MaxChars : Insert(n)
      BY <2>4
    <3> QED BY <2>2, <3>1, StreamAssumption DEF Insert, GoodMeansWritten
  <2>5. CASE InsertFailed \/ ClearOut
    BY <2>5 DEF InsertFailed, ClearOut, GoodMeansWritten
  <2> QED
    BY <1>2, <2>1, <2>3, <2>4, <2>5
    DEF Next, Reading, Writing, AtHand, Underflow, ReadSome, ReadEnds, Unget,
        Clear, ChildWrites, ChildCloses, vars
<1> QED BY <1>1, <1>2, TypeCorrect, PTL DEF Spec
=============================================================================
