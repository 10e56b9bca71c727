------------------------- MODULE ChildWindowsProofs -------------------------
(***************************************************************************)
(* Proofs about ChildWindows, for any number of objects and handles, and   *)
(* any number of calls.                                                    *)
(***************************************************************************)
EXTENDS ChildWindows, SequenceTheorems, TLAPS

-----------------------------------------------------------------------------
\* Operators

LEMMA HandleFacts ==
    /\ Handles \subseteq Values /\ 1 \in Handles
    /\ Null \in Values /\ Null \notin Handles
    /\ Invalid \in Values /\ Invalid \notin Handles /\ Invalid # Null
  BY WindowsAssumption DEF Handles, Values, Null, Invalid

LEMMA PipeNames ==
    /\ "in" \in Pipes /\ "out" \in Pipes /\ "err" \in Pipes
    /\ \A o : PipesOf(o) \subseteq Pipes /\ {"in", "out"} \subseteq PipesOf(o)
    /\ \A o : UseParentErr[o] => Pipes \ PipesOf(o) = {"err"}
    /\ \A o : ~UseParentErr[o] => PipesOf(o) = Pipes
  BY DEF Pipes, PipesOf

\* What is of an object is of no other, is neither closed nor our stderr, and is
\* either ours or the child's.
LEMMA FilesApart ==
    /\ \A o \in Objects : Closed \notin FilesOf(o) /\ StdErr \notin FilesOf(o)
    /\ Closed # StdErr
    /\ \A o, q \in Objects : o # q => FilesOf(o) \cap FilesOf(q) = {}
    /\ \A o \in Objects : OursOf(o) \cap HisOf(o) = {}
    /\ \A o \in Objects : FilesOf(o) \subseteq Refs
    /\ \A o \in Objects, p \in Pipes :
         <<o, p, "ours">> \in OursOf(o) /\ <<o, p, "his">> \in HisOf(o)
    /\ \A o \in Objects : Process(o) \in OursOf(o) /\ Thread(o) \in OursOf(o)
    /\ \A o \in Objects : Process(o) # Thread(o)
    /\ \A o \in Objects, p \in Pipes : Process(o) # <<o, p, "ours">>
                                       /\ Thread(o) # <<o, p, "ours">>
    /\ \A o \in Objects, p, r \in Pipes :
         /\ <<o, p, "ours">> = <<o, r, "ours">> => p = r
         /\ <<o, p, "his">> = <<o, r, "his">> => p = r
         /\ <<o, p, "ours">> # <<o, r, "his">>
    /\ \A o \in Objects : FilesOf(o) = OursOf(o) \cup HisOf(o)
  BY DEF FilesOf, OursOf, HisOf, Closed, StdErr, Refs, Pipes, Process, Thread

\* Whosever pipe it is, it is the child's end of one, and of one only.
LEMMA HisEnds ==
    /\ \A o \in Objects, p \in Pipes :
         HisEnd(o, p) \in HisOf(o) /\ HisEnd(o, p)' \in HisOf(o)
    /\ \A o \in Objects, p, r \in Pipes :
         /\ HisEnd(o, p) = HisEnd(o, r) => p = r
         /\ HisEnd(o, p) # <<o, r, "ours">>
         /\ HisEnd(o, p) # Process(o) /\ HisEnd(o, p) # Thread(o)
         /\ HisEnd(o, p) \in {<<o, p, "his">>, <<o, p, "theirs">>}
         /\ own[o][p] # Invalid => HisEnd(o, p) = <<o, p, "his">>
    /\ \A o \in Objects, p \in Pipes :
         own'[o] = own[o] => HisEnd(o, p)' = HisEnd(o, p)
  BY DEF HisEnd, HisOf, Process, Thread

LEMMA FilesOfIt ==
    ASSUME NEW o \in Objects
    PROVE  /\ \A p \in Pipes : /\ <<o, p, "ours">> \in FilesOf(o) /\ <<o, p, "his">> \in FilesOf(o)
                               /\ HisEnd(o, p) \in FilesOf(o) /\ HisEnd(o, p)' \in FilesOf(o)
           /\ Process(o) \in FilesOf(o) /\ Thread(o) \in FilesOf(o)
           /\ \A p \in Pipes : <<o, p, "ours">> # Closed /\ HisEnd(o, p) # Closed
<1>1. /\ \A p \in Pipes : /\ <<o, p, "ours">> \in FilesOf(o) /\ <<o, p, "his">> \in FilesOf(o)
                          /\ HisEnd(o, p) \in FilesOf(o) /\ HisEnd(o, p)' \in FilesOf(o)
      /\ Process(o) \in FilesOf(o) /\ Thread(o) \in FilesOf(o)
  BY FilesApart, HisEnds DEF FilesOf
<1>2. Closed \notin FilesOf(o)
  BY FilesApart
<1> QED BY <1>1, <1>2

LEMMA MadeIs ==
    ASSUME NEW o \in Objects
    PROVE  /\ At(o, "pipe_in") => Made(o) = {}
           /\ At(o, "pipe_out") => Made(o) = {"in"}
           /\ At(o, "pipe_err") => Made(o) = {"in", "out"}
           /\ phase[o] \notin {"pipe_in", "pipe_out", "pipe_err"} =>
                Made(o) = {p \in PipesOf(o) : own[o][p] # Invalid}
           /\ At(o, "pipe_in")' => Made(o)' = {}
           /\ At(o, "pipe_out")' => Made(o)' = {"in"}
           /\ At(o, "pipe_err")' => Made(o)' = {"in", "out"}
           /\ phase'[o] \notin {"pipe_in", "pipe_out", "pipe_err"} =>
                Made(o)' = {p \in PipesOf(o) : own'[o][p] # Invalid}
           /\ Made(o) \subseteq Pipes /\ Made(o)' \subseteq Pipes
           /\ Made(o) \subseteq PipesOf(o)
  BY PipeNames DEF Made, At

LEMMA MadeHisIs ==
    ASSUME NEW o \in Objects
    PROVE  /\ At(o, "pipe_in") => MadeHis(o) = {}
           /\ At(o, "pipe_out") => MadeHis(o) = {"in"}
           /\ phase[o] \in {"pipe_err", "file_err"} => MadeHis(o) = {"in", "out"}
           /\ phase[o] \notin {"pipe_in", "pipe_out", "pipe_err", "file_err"} =>
                MadeHis(o) = {p \in PipesOf(o) : his[o][p] # Invalid}
           /\ At(o, "pipe_in")' => MadeHis(o)' = {}
           /\ At(o, "pipe_out")' => MadeHis(o)' = {"in"}
           /\ phase'[o] \in {"pipe_err", "file_err"} => MadeHis(o)' = {"in", "out"}
           /\ phase'[o] \notin {"pipe_in", "pipe_out", "pipe_err", "file_err"} =>
                MadeHis(o)' = {p \in PipesOf(o) : his'[o][p] # Invalid}
           /\ MadeHis(o) \subseteq Pipes /\ MadeHis(o)' \subseteq Pipes
           /\ MadeHis(o) \subseteq PipesOf(o)
  BY PipeNames DEF MadeHis, At

LEMMA WhatIsClosed ==
    ASSUME NEW S, CloseAll(S), TypeOK
    PROVE  /\ table' \in [Handles -> Refs] /\ inherit' \subseteq Handles
           /\ \A h \in Handles : table'[h] = IF h \in S THEN Closed ELSE table[h]
           /\ inherit' = inherit \ S
  BY DEF CloseAll, TypeOK, Refs

\* A sequence with one element more, in front or at the end.
OneMore(s, h, e) ==
    /\ \A i \in 1 .. Len(s) : s[i] = e \/ \E j \in 1 .. Len(h) : s[i] = h[j]
    /\ \E i \in 1 .. Len(s) : s[i] = e
    /\ \A j \in 1 .. Len(h) : \E i \in 1 .. Len(s) : s[i] = h[j]
    /\ (/\ \A j \in 1 .. Len(h) : h[j] # e
        /\ \A i, j \in 1 .. Len(h) : h[i] = h[j] => i = j)
       => \A i, j \in 1 .. Len(s) : s[i] = s[j] => i = j

LEMMA OneMoreAtAnEnd ==
    ASSUME NEW S, NEW h \in Seq(S), NEW e \in S, NEW s,
           s = h \o <<e>> \/ s = <<e>> \o h
    PROVE  s \in Seq(S) /\ OneMore(s, h, e)
<1> USE DEF OneMore
<1> DEFINE z == <<e>>
<1>1. z \in Seq(S) /\ Len(z) = 1 /\ z[1] = e /\ Len(h) \in Nat
  OBVIOUS
<1>2. s = h \o z \/ s = z \o h
  OBVIOUS
<1> HIDE DEF z
<1>3. CASE s = h \o z
  <2>1. /\ s \in Seq(S) /\ Len(s) = Len(h) + 1
        /\ \A i \in 1 .. Len(h) + 1 : s[i] = IF i <= Len(h) THEN h[i] ELSE z[i - Len(h)]
    BY <1>1, <1>3, ConcatProperties
  <2>2. \A i \in 1 .. Len(h) + 1 : i \in 1 .. Len(h) \/ i = Len(h) + 1
    BY <1>1
  <2>3. (Len(h) + 1) - Len(h) = 1 /\ ~(Len(h) + 1 <= Len(h)) /\ Len(h) + 1 \in 1 .. Len(h) + 1
    BY <1>1
  <2>4. s[Len(h) + 1] = e
    BY <1>1, <2>1, <2>3
  <2>5. \A i \in 1 .. Len(h) : s[i] = h[i] /\ i \in 1 .. Len(s)
    BY <1>1, <2>1
  <2>6. \A i \in 1 .. Len(s) : s[i] = e \/ \E j \in 1 .. Len(h) : s[i] = h[j]
    BY <2>1, <2>2, <2>4, <2>5
  <2>7. \E i \in 1 .. Len(s) : s[i] = e
    BY <2>1, <2>3, <2>4
  <2>8. \A j \in 1 .. Len(h) : \E i \in 1 .. Len(s) : s[i] = h[j]
    BY <2>5
  <2>9. ASSUME \A j \in 1 .. Len(h) : h[j] # e,
               \A i, j \in 1 .. Len(h) : h[i] = h[j] => i = j
        PROVE  \A i, j \in 1 .. Len(s) : s[i] = s[j] => i = j
    BY <2>1, <2>2, <2>4, <2>5, <2>9
  <2> QED BY <2>1, <2>6, <2>7, <2>8, <2>9
<1>4. CASE s = z \o h
  <2>1. /\ s \in Seq(S) /\ Len(s) = 1 + Len(h)
        /\ \A i \in 1 .. 1 + Len(h) : s[i] = IF i <= 1 THEN z[i] ELSE h[i - 1]
    BY <1>1, <1>4, ConcatProperties
  <2>2. \A i \in 1 .. 1 + Len(h) : i = 1 \/ i - 1 \in 1 .. Len(h)
    BY <1>1
  <2>3. s[1] = e /\ 1 \in 1 .. Len(s)
    BY <1>1, <2>1
  <2>4. \A i \in 1 .. Len(h) : i + 1 \in 1 .. Len(s) /\ (i + 1) - 1 = i /\ ~(i + 1 <= 1)
    BY <1>1, <2>1
  <2>5. \A i \in 1 .. Len(h) : s[i + 1] = h[i]
    BY <1>1, <2>1, <2>4
  <2>6. \A i \in 1 .. Len(s) : i = 1 \/ s[i] = h[i - 1]
    BY <1>1, <2>1, <2>2
  <2>7. ASSUME \A j \in 1 .. Len(h) : h[j] # e,
               \A i, j \in 1 .. Len(h) : h[i] = h[j] => i = j,
               NEW i \in 1 .. Len(s), NEW j \in 1 .. Len(s), s[i] = s[j]
        PROVE  i = j
    <3>1. i \in Int /\ j \in Int
      BY <2>7
    <3>2. (i = 1 \/ i - 1 \in 1 .. Len(h)) /\ (j = 1 \/ j - 1 \in 1 .. Len(h))
      BY <2>1, <2>2, <2>7
    <3>3. i = 1 <=> j = 1
      BY <2>3, <2>6, <2>7, <3>2
    <3>4. i # 1 /\ j # 1 => i - 1 = j - 1
      BY <2>6, <2>7, <3>2
    <3> QED BY <3>1, <3>3, <3>4
  <2>8. \A i \in 1 .. Len(s) : s[i] = e \/ \E j \in 1 .. Len(h) : s[i] = h[j]
    BY <2>1, <2>2, <2>3, <2>6
  <2>9. \A j \in 1 .. Len(h) : \E i \in 1 .. Len(s) : s[i] = h[j]
    BY <2>4, <2>5
  <2> QED BY <2>1, <2>3, <2>7, <2>8, <2>9
<1> QED BY <1>2, <1>3, <1>4

\* The destructor closes each handle of the object once, if not both FILE *s
\* and streams were made.
LEMMA ClosesEach ==
    ASSUME TypeOK, NEW o \in Objects
    PROVE  /\ ToClose(o) \in Seq(Values)
           /\ ~(files[o] /\ streams[o]) =>
                /\ \A i \in 1 .. Len(ToClose(o)) :
                     \/ ToClose(o)[i] = processh[o]
                     \/ \E p \in PipesOf(o) : ToClose(o)[i] = own[o][p]
                /\ \E i \in 1 .. Len(ToClose(o)) : ToClose(o)[i] = processh[o]
                /\ \A p \in PipesOf(o) :
                     \E i \in 1 .. Len(ToClose(o)) : ToClose(o)[i] = own[o][p]
                /\ (/\ \A p \in PipesOf(o) : own[o][p] # processh[o]
                    /\ \A p, q \in PipesOf(o) : own[o][p] = own[o][q] => p = q)
                   => \A i, j \in 1 .. Len(ToClose(o)) :
                        ToClose(o)[i] = ToClose(o)[j] => i = j
<1>h. PICK h : h = HandlesOf(o)
  OBVIOUS
<1>z. PICK z : z = <<processh[o]>>
  OBVIOUS
<1>1. /\ own[o]["in"] \in Values /\ own[o]["out"] \in Values /\ own[o]["err"] \in Values
      /\ processh[o] \in Values
  BY PipeNames DEF TypeOK
<1>2. /\ h \in Seq(Values)
      /\ \A i \in 1 .. Len(h) : \E p \in PipesOf(o) : h[i] = own[o][p]
      /\ \A p \in PipesOf(o) : \E i \in 1 .. Len(h) : h[i] = own[o][p]
      /\ (\A p, q \in PipesOf(o) : own[o][p] = own[o][q] => p = q)
         => \A i, j \in 1 .. Len(h) : h[i] = h[j] => i = j
  <2>1. CASE UseParentErr[o]
    <3>1. h = <<own[o]["in"], own[o]["out"]>> /\ PipesOf(o) = {"in", "out"}
      BY <1>h, <2>1 DEF HandlesOf, PipesOf
    <3> QED BY <1>1, <3>1
  <2>2. CASE ~UseParentErr[o]
    <3>1. /\ h = <<own[o]["in"], own[o]["out"], own[o]["err"]>>
          /\ PipesOf(o) = {"in", "out", "err"}
      BY <1>h, <2>2 DEF HandlesOf, PipesOf, Pipes
    <3>2. h \in Seq(Values) /\ Len(h) = 3
      BY <1>1, <3>1
    <3>3. h[1] = own[o]["in"] /\ h[2] = own[o]["out"] /\ h[3] = own[o]["err"]
      BY <1>1, <3>1
    <3>4. 1 .. Len(h) = {1, 2, 3}
      BY <3>2
    <3>5. \A i \in 1 .. Len(h) : \E p \in PipesOf(o) : h[i] = own[o][p]
      BY <3>1, <3>3, <3>4
    <3>6. \A p \in PipesOf(o) : \E i \in 1 .. Len(h) : h[i] = own[o][p]
      BY <3>1, <3>3, <3>4
    <3>7. (\A p, q \in PipesOf(o) : own[o][p] = own[o][q] => p = q)
          => \A i, j \in 1 .. Len(h) : h[i] = h[j] => i = j
      BY <3>1, <3>3, <3>4
    <3> QED BY <3>2, <3>5, <3>6, <3>7
  <2> QED BY <2>1, <2>2
<1>3. z \in Seq(Values)
  BY <1>z, <1>1
<1>4. ToClose(o) = (IF files[o] THEN h ELSE << >>) \o (IF streams[o] THEN h ELSE << >>)
                   \o z \o (IF files[o] \/ streams[o] THEN << >> ELSE h)
  BY <1>h, <1>z DEF ToClose
<1>5. CASE ~(files[o] /\ streams[o])
  <2>1. ToClose(o) = h \o z \/ ToClose(o) = z \o h
    <3>1. \A s \in Seq(Values) : s \o << >> = s /\ << >> \o s = s
      BY ConcatEmptySeq
    <3>2. h \o z \in Seq(Values) /\ << >> \in Seq(Values)
      BY <1>2, <1>3, ConcatProperties
    <3> QED BY <1>2, <1>3, <1>4, <1>5, <3>1, <3>2
  <2>s. PICK s : s = ToClose(o)
    OBVIOUS
  <2>e. PICK e : e = processh[o]
    OBVIOUS
  <2>2. s = h \o <<e>> \/ s = <<e>> \o h
    BY <1>z, <2>1, <2>s, <2>e
  <2>3. e \in Values
    BY <1>1, <2>e
  <2>4. /\ s \in Seq(Values)
        /\ \A i \in 1 .. Len(s) : s[i] = e \/ \E j \in 1 .. Len(h) : s[i] = h[j]
        /\ \E i \in 1 .. Len(s) : s[i] = e
        /\ \A j \in 1 .. Len(h) : \E i \in 1 .. Len(s) : s[i] = h[j]
        /\ (/\ \A j \in 1 .. Len(h) : h[j] # e
            /\ \A i, j \in 1 .. Len(h) : h[i] = h[j] => i = j)
           => \A i, j \in 1 .. Len(s) : s[i] = s[j] => i = j
    <3>1. h \in Seq(Values)
      BY <1>2
    <3>2. s \in Seq(Values) /\ OneMore(s, h, e)
      BY <2>2, <2>3, <3>1, OneMoreAtAnEnd
    <3> QED BY <3>2 DEF OneMore
  <2>5. ASSUME NEW i \in 1 .. Len(s), s[i] # e
        PROVE  \E p \in PipesOf(o) : s[i] = own[o][p]
    <3>1. PICK j \in 1 .. Len(h) : s[i] = h[j]
      BY <2>4, <2>5
    <3>2. PICK p \in PipesOf(o) : h[j] = own[o][p]
      BY <1>2
    <3> QED BY <3>1, <3>2
  <2>6. \A p \in PipesOf(o) : \E i \in 1 .. Len(s) : s[i] = own[o][p]
    BY <1>2, <2>4
  <2>7. (\A p \in PipesOf(o) : own[o][p] # e) => \A j \in 1 .. Len(h) : h[j] # e
    BY <1>2
  <2>8. ASSUME \A p \in PipesOf(o) : own[o][p] # e,
               \A p, q \in PipesOf(o) : own[o][p] = own[o][q] => p = q
        PROVE  \A i, j \in 1 .. Len(s) : s[i] = s[j] => i = j
    <3>1. \A i, j \in 1 .. Len(h) : h[i] = h[j] => i = j
      BY <1>2, <2>8
    <3> QED BY <2>4, <2>7, <2>8, <3>1
  <2> QED BY <1>5, <2>4, <2>5, <2>6, <2>8, <2>s, <2>e
<1>6. CASE files[o] /\ streams[o]
  <2>1. ToClose(o) = h \o h \o z \o << >>
    BY <1>4, <1>6
  <2> QED BY <1>2, <1>3, <1>6, <2>1, ConcatProperties, ConcatEmptySeq
<1> QED BY <1>5, <1>6

-----------------------------------------------------------------------------
\* Type correctness

LEMMA TypeInit == Init => TypeOK
<1> SUFFICES ASSUME Init PROVE TypeOK
  OBVIOUS
<1>1. table \in [Handles -> Refs]
  BY DEF Init, Refs
<1>2. wired \in [Objects -> [Pipes -> Refs]] /\ inherited \in [Objects -> SUBSET Refs]
  BY DEF Init, NoStd, Refs
<1>3. own \in [Objects -> [Pipes -> Values]] /\ his \in [Objects -> [Pipes -> Values]]
  BY HandleFacts DEF Init, NoHandles
<1>4. todo \in [Objects -> Seq(Values)]
  BY DEF Init
<1>5. inherit \subseteq Handles /\ 0 \in 0 .. Width - 1
  BY HandleFacts, WindowsAssumption DEF Init
<1> QED BY <1>1, <1>2, <1>3, <1>4, <1>5, HandleFacts
        DEF Init, TypeOK, Phases, Launching, Opening

LEMMA NoHandlesType == NoHandles \in [Pipes -> Values]
  BY HandleFacts DEF NoHandles

LEMMA ErrTypes ==
    ASSUME TypeOK, NEW o \in Objects, NEW h \in Values
    PROVE  /\ [own EXCEPT ![o]["err"] = h] \in [Objects -> [Pipes -> Values]]
           /\ [his EXCEPT ![o]["err"] = h] \in [Objects -> [Pipes -> Values]]
<1> DEFINE e == "err"
<1>1. e \in Pipes
  BY PipeNames
<1> HIDE DEF e
<1>2. /\ [own EXCEPT ![o][e] = h] \in [Objects -> [Pipes -> Values]]
      /\ [his EXCEPT ![o][e] = h] \in [Objects -> [Pipes -> Values]]
  BY <1>1 DEF TypeOK
<1> QED BY <1>2 DEF e

LEMMA TypeOfLaunch ==
    ASSUME TypeOK, NEW o \in Objects, Launch(o)
    PROVE  TypeOK'
<1> USE DEF handles, waits, children
<1>1. CASE \E p \in Pipes : Pipe(o, p)
  <2> PICK p \in Pipes : Pipe(o, p)
    BY <1>1
  <2>1. PICK g \in Free, h \in Free :
           /\ table' = [table EXCEPT ![g] = <<o, p, "ours">>, ![h] = <<o, p, "his">>]
           /\ own' = [own EXCEPT ![o][p] = g]
           /\ his' = [his EXCEPT ![o][p] = h]
    BY DEF Pipe
  <2>2. g \in Values /\ h \in Values
    BY HandleFacts DEF Free
  <2>3. table' \in [Handles -> Refs]
    BY <2>1, FilesApart DEF TypeOK
  <2>4. own' \in [Objects -> [Pipes -> Values]] /\ his' \in [Objects -> [Pipes -> Values]]
    BY <2>1, <2>2 DEF TypeOK
  <2>5. phase' \in [Objects -> Phases]
    BY DEF TypeOK, Pipe, Goto, AfterPipe, Pipes, Phases, Launching, Opening
  <2> QED BY <2>3, <2>4, <2>5 DEF TypeOK, Pipe
<1>2. CASE \E p \in Pipes : PipeFails(o, p)
  <2> PICK p \in Pipes : PipeFails(o, p)
    BY <1>2
  <2>1. table' \in [Handles -> Refs] /\ inherit' \subseteq Handles
    BY WhatIsClosed DEF PipeFails
  <2> QED BY <2>1, NoHandlesType DEF TypeOK, PipeFails, Goto, Phases
<1>3. CASE ParentErr(o)
  BY <1>3, HandleFacts DEF TypeOK, ParentErr, Goto, Phases, Launching, Opening
<1>4. CASE NamedPipe(o) \/ OpenPipe(o)
  <2>1. PICK h \in Free :
           \/ /\ table' = [table EXCEPT ![h] = <<o, "err", "ours">>]
              /\ own' = [own EXCEPT ![o]["err"] = h] /\ his' = his
           \/ /\ table' = [table EXCEPT ![h] = HisEnd(o, "err")]
              /\ his' = [his EXCEPT ![o]["err"] = h] /\ own' = own
    BY <1>4 DEF NamedPipe, OpenPipe
  <2>2. h \in Values
    BY HandleFacts DEF Free
  <2>3. <<o, "err", "ours">> \in Refs /\ HisEnd(o, "err") \in Refs
    BY FilesApart, FilesOfIt, PipeNames
  <2>4. table' \in [Handles -> Refs]
    BY <2>1, <2>3 DEF TypeOK
  <2>5. own' \in [Objects -> [Pipes -> Values]] /\ his' \in [Objects -> [Pipes -> Values]]
    <3>1. own \in [Objects -> [Pipes -> Values]] /\ his \in [Objects -> [Pipes -> Values]]
      BY DEF TypeOK
    <3>2. CASE own' = [own EXCEPT ![o]["err"] = h] /\ his' = his
      BY <2>2, <3>1, <3>2, ErrTypes
    <3>3. CASE his' = [his EXCEPT ![o]["err"] = h] /\ own' = own
      BY <2>2, <3>1, <3>3, ErrTypes
    <3> QED BY <2>1, <3>2, <3>3
  <2>6. phase' \in [Objects -> Phases]
    BY <1>4 DEF TypeOK, NamedPipe, OpenPipe, Goto, Phases, Launching, Opening
  <2> QED BY <1>4, <2>4, <2>5, <2>6 DEF TypeOK, NamedPipe, OpenPipe
<1>9. CASE NamedPipeFails(o) \/ OpenFails(o)
  <2>1. own' \in [Objects -> [Pipes -> Values]] /\ his' \in [Objects -> [Pipes -> Values]]
    <3>1. /\ [own EXCEPT ![o]["err"] = Invalid] \in [Objects -> [Pipes -> Values]]
          /\ [his EXCEPT ![o]["err"] = Invalid] \in [Objects -> [Pipes -> Values]]
      BY HandleFacts, ErrTypes
    <3> QED BY <1>9, <3>1 DEF NamedPipeFails, OpenFails, TypeOK
  <2> QED BY <1>9, <2>1
          DEF TypeOK, NamedPipeFails, OpenFails, Goto, Phases, Launching, Opening
<1>5. CASE SetInherit(o)
  BY <1>5, HandleFacts DEF TypeOK, SetInherit, Goto, Phases, Launching, Opening
<1>6. CASE LaunchFails(o)
  <2>1. table' \in [Handles -> Refs] /\ inherit' \subseteq Handles
    BY <1>6, WhatIsClosed DEF LaunchFails
  <2> QED BY <1>6, <2>1, NoHandlesType DEF TypeOK, LaunchFails, Goto, Phases
<1>7. CASE Spawn(o)
  <2>1. PICK g \in Free, h \in Free :
           /\ table' = [table EXCEPT ![g] = Process(o), ![h] = Thread(o)]
           /\ processh' = [processh EXCEPT ![o] = g]
           /\ threadh' = [threadh EXCEPT ![o] = h]
    BY <1>7 DEF Spawn
  <2>2. g \in Values /\ h \in Values
    BY HandleFacts DEF Free
  <2>3. table' \in [Handles -> Refs]
    BY <2>1, FilesApart DEF TypeOK
  <2>4. inherited' \in [Objects -> SUBSET Refs]
    <3>1. {table[x] : x \in inherit} \subseteq Refs \cup {table[x] : x \in inherit \ Handles}
      BY DEF TypeOK
    <3> QED BY <1>7, <3>1 DEF TypeOK, Spawn
  <2>5. wired' \in [Objects -> [Pipes -> Refs]]
    BY <1>7 DEF TypeOK, Spawn, Refs
  <2>6. overlapped' \subseteq Objects
    BY <1>7 DEF TypeOK, Spawn, Exposed
  <2> QED BY <1>7, <2>1, <2>2, <2>3, <2>4, <2>5, <2>6
          DEF TypeOK, Spawn, Goto, Phases, Launching
<1>8. CASE Launched(o)
  <2>1. table' \in [Handles -> Refs] /\ inherit' \subseteq Handles
    BY <1>8, WhatIsClosed DEF Launched
  <2> QED BY <1>8, <2>1, NoHandlesType, HandleFacts
          DEF TypeOK, Launched, Goto, Phases, Alive
<1> QED BY <1>1, <1>2, <1>3, <1>4, <1>5, <1>6, <1>7, <1>8, <1>9 DEF Launch

LEMMA TypeOfUse ==
    ASSUME TypeOK, NEW o \in Objects,
           \/ Use(o) \/ ReadClock(o) \/ ReadClockAgain(o) \/ WaitOver(o)
           \/ DestroyWaited(o) \/ CloseNext(o) \/ Destroyed(o) \/ ChildExits(o)
    PROVE  TypeOK'
<1> USE DEF TypeOK, Phases, Alive, Goto, handles, waits, children
<1>0. 0 \in 0 .. Width - 1 /\ Infinite \in 0 .. Width - 1
  BY WindowsAssumption DEF Infinite
<1>1. CASE UseFiles(o) \/ UseStreams(o) \/ Destroy(o)
  BY <1>1 DEF UseFiles, UseStreams, Destroy
<1>2. CASE Wait(o)
  BY <1>0, <1>2 DEF Wait
<1>3. CASE WaitUntil(o)
  BY <1>3 DEF WaitUntil
<1>4. CASE ReadClock(o)
  <2>1. timeout' \in [Objects -> 0 .. Width - 1]
    BY <1>0, <1>4 DEF ReadClock
  <2>2. phase' \in [Objects -> Phases]
    BY <1>4 DEF ReadClock
  <2> QED BY <1>4, <2>1, <2>2 DEF ReadClock
<1>5. CASE ReadClockAgain(o)
  <2>1. \A late \in 0 .. MaxLate, left \in 0 .. 1 :
           (left + Width - late) % Width \in 0 .. Width - 1
    BY WindowsAssumption
  <2>2. timeout' \in [Objects -> 0 .. Width - 1]
    BY <1>5, <2>1 DEF ReadClockAgain
  <2> QED BY <1>5, <2>2 DEF ReadClockAgain
<1>6. CASE WaitOver(o)
  BY <1>0, <1>6 DEF WaitOver
<1>7. CASE DestroyWaited(o)
  <2>1. ToClose(o) \in Seq(Values)
    BY ClosesEach
  <2> QED BY <1>7, <2>1 DEF DestroyWaited
<1>8. CASE CloseNext(o)
  <2>1. table' \in [Handles -> Refs] /\ inherit' \subseteq Handles
    BY <1>8, WhatIsClosed DEF CloseNext
  <2>2. todo[o] \in Seq(Values) /\ todo[o] # << >>
    BY <1>8 DEF CloseNext
  <2>3. Tail(todo[o]) \in Seq(Values)
    BY <2>2
  <2> QED BY <1>8, <2>1, <2>3 DEF CloseNext
<1>9. CASE Destroyed(o)
  BY <1>9, NoHandlesType, HandleFacts DEF Destroyed
<1>10. CASE ChildExits(o)
  <2>1. NoStd \in [Pipes -> Refs]
    BY DEF NoStd, Refs
  <2> QED BY <1>10, <2>1 DEF ChildExits
<1> QED BY <1>1, <1>2, <1>3, <1>4, <1>5, <1>6, <1>7, <1>8, <1>9, <1>10 DEF Use

LEMMA TypeStep == TypeOK /\ [Next]_vars => TypeOK'
<1> SUFFICES ASSUME TypeOK, [Next]_vars PROVE TypeOK'
  OBVIOUS
<1>1. CASE Next
  <2> PICK o \in Objects : Busy(o) \/ Use(o) \/ ChildExits(o)
    BY <1>1 DEF Next
  <2> QED BY TypeOfLaunch, TypeOfUse DEF Busy
<1>2. CASE UNCHANGED vars
  BY <1>2 DEF TypeOK, vars, handles, waits, children
<1> QED BY <1>1, <1>2

-----------------------------------------------------------------------------
\* The initial state, and what a step leaves alone

LEMMA GoodInit == Init => Good
<1> SUFFICES ASSUME Init PROVE Good
  OBVIOUS
<1>1. ASSUME NEW o \in Objects PROVE ObjectGood(o)
  <2>1. /\ At(o, "pipe_in") /\ Made(o) = {} /\ MadeHis(o) = {} /\ todo[o] = << >> /\ child[o] = "none"
        /\ own[o] = NoHandles /\ his[o] = NoHandles
    BY MadeIs, MadeHisIs DEF Init, At
  <2>2. NotMade(o)
    BY <2>1, HandleFacts DEF NotMade, At, NoHandles
  <2>3. KnowsRight(o) /\ AllKnown(o)
    <3>1. \A h, f : ~Knows(o, h, f)
      BY <2>1 DEF Knows, At, Spawned, Alive
    <3>2. \A h \in Handles : table[h] \notin FilesOf(o)
      BY FilesApart DEF Init
    <3> QED BY <3>1, <3>2 DEF KnowsRight, AllKnown
  <2>4. TodoGood(o) /\ ChildGood(o)
    BY <2>1 DEF TodoGood, ChildGood, At, Spawned, Alive
  <2> QED BY <2>2, <2>3, <2>4 DEF ObjectGood
<1>2. InheritGood /\ InheritedGood
  BY HandleFacts DEF Init, InheritGood, InheritedGood
<1> QED BY <1>1, <1>2 DEF Good

\* A step that changes nothing of an object.
SameOf(q) == /\ phase'[q] = phase[q] /\ own'[q] = own[q] /\ his'[q] = his[q]
             /\ processh'[q] = processh[q] /\ threadh'[q] = threadh[q]
             /\ todo'[q] = todo[q] /\ child'[q] = child[q] /\ wired'[q] = wired[q]

\* A step of an object that makes or closes handles of that object only.
Touches(o) == \A h \in Handles : table'[h] # table[h] =>
    /\ table[h] \in FilesOf(o) \cup {Closed}
    /\ table'[h] \in FilesOf(o) \cup {Closed}

LEMMA Others ==
    ASSUME Good, NEW o \in Objects, Touches(o),
           NEW q \in Objects \ {o}, SameOf(q)
    PROVE  ObjectGood(q)'
<1> USE DEF SameOf
<1>1. ObjectGood(q)
  BY DEF Good
<1>2. \A h \in Handles, f \in FilesOf(q) : table'[h] = f <=> table[h] = f
  BY FilesApart DEF Touches
<1>3. Made(q)' = Made(q) /\ MadeHis(q)' = MadeHis(q)
  BY DEF Made, MadeHis, At
<1>e. \A p : HisEnd(q, p)' = HisEnd(q, p)
  BY DEF HisEnd
<1>4. \A h, f : Knows(q, h, f)' <=> Knows(q, h, f)
  BY <1>3, <1>e DEF Knows, At
<1>5. NotMade(q)'
  BY <1>1, <1>3 DEF ObjectGood, NotMade, At
<1>6. KnowsRight(q)'
  BY <1>1, <1>2, <1>4 DEF ObjectGood, KnowsRight
<1>7. AllKnown(q)'
  BY <1>1, <1>2, <1>4 DEF ObjectGood, AllKnown, At
<1>8. TodoGood(q)'
  <2>1. \A h \in Handles : table[h] \in OursOf(q) => table'[h] \in OursOf(q)
    BY <1>2, FilesApart
  <2> QED BY <1>1, <2>1 DEF ObjectGood, TodoGood, At
<1>9. ChildGood(q)'
  BY <1>1, <1>e DEF ObjectGood, ChildGood
<1> QED BY <1>5, <1>6, <1>7, <1>8, <1>9 DEF ObjectGood

\* Handles that are not made inheritable, while those that are stay what they
\* are and no launch that lends them ends.
LEMMA InheritStays ==
    ASSUME Good, NEW o \in Objects, Touches(o), inherit' \subseteq inherit,
           \A h \in inherit' : table'[h] = table[h],
           \A q \in Objects \ {o} : phase'[q] = phase[q],
           \/ phase[o] \notin {"spawn", "launched"}
           \/ phase'[o] \in {"spawn", "launched"}
           \/ \A h \in inherit' : table'[h] \notin HisOf(o)
    PROVE  InheritGood'
<1>1. table'[1] = StdErr
  BY HandleFacts, FilesApart DEF Good, InheritGood, Touches
<1>2. ASSUME NEW h \in inherit', table'[h] # StdErr
      PROVE  \E q \in Objects : table'[h] \in HisOf(q) /\ phase'[q] \in {"spawn", "launched"}
  <2>1. PICK q \in Objects : table[h] \in HisOf(q) /\ phase[q] \in {"spawn", "launched"}
    BY <1>2 DEF Good, InheritGood
  <2>2. phase'[q] \in {"spawn", "launched"}
    BY <1>2, <2>1
  <2> QED BY <1>2, <2>1, <2>2
<1> QED BY <1>1, <1>2 DEF InheritGood

LEMMA InheritedStays ==
    ASSUME InheritedGood, UNCHANGED <<inherited, child, overlapped>>
    PROVE  InheritedGood'
  BY DEF InheritedGood

\* What the object knows, told by its kind: and it knows right if all four are.
LEMMA Held ==
    ASSUME TypeOK, Good, NEW o \in Objects
    PROVE  /\ phase[o] \in Launching \cup Alive =>
                \A p \in Made(o) : own[o][p] \in Handles /\ table[own[o][p]] = <<o, p, "ours">>
           /\ phase[o] \in Launching =>
                \A p \in MadeHis(o) : his[o][p] \in Handles /\ table[his[o][p]] = HisEnd(o, p)
           /\ phase[o] \in Spawned =>
                processh[o] \in Handles /\ table[processh[o]] = Process(o)
           /\ At(o, "launched") =>
                threadh[o] \in Handles /\ table[threadh[o]] = Thread(o)
<1>1. KnowsRight(o)
  BY DEF Good, ObjectGood
<1>2. /\ \A p \in Made(o) : own[o][p] \in Values
      /\ \A p \in MadeHis(o) : his[o][p] \in Values
  BY MadeIs, MadeHisIs DEF TypeOK
<1>3. processh[o] \in Values /\ threadh[o] \in Values
  BY DEF TypeOK
<1>4. /\ \A p \in Made(o) : <<o, p, "ours">> \in FilesOf(o)
      /\ \A p \in MadeHis(o) : HisEnd(o, p) \in FilesOf(o)
  BY MadeIs, MadeHisIs, FilesOfIt
<1>5. Process(o) \in FilesOf(o) /\ Thread(o) \in FilesOf(o)
  BY FilesOfIt
<1>6. /\ phase[o] \in Launching \cup Alive =>
           \A p \in Made(o) : Knows(o, own[o][p], <<o, p, "ours">>)
      /\ phase[o] \in Launching =>
           \A p \in MadeHis(o) : Knows(o, his[o][p], HisEnd(o, p))
      /\ phase[o] \in Spawned => Knows(o, processh[o], Process(o))
      /\ At(o, "launched") => Knows(o, threadh[o], Thread(o))
  BY DEF Knows
<1> QED BY <1>1, <1>2, <1>3, <1>4, <1>5, <1>6 DEF KnowsRight

LEMMA RightIf ==
    ASSUME NEW o \in Objects,
           phase'[o] \in Launching \cup Alive =>
             \A p \in Made(o)' : own'[o][p] \in Handles /\ table'[own'[o][p]] = <<o, p, "ours">>,
           phase'[o] \in Launching =>
             \A p \in MadeHis(o)' : his'[o][p] \in Handles /\ table'[his'[o][p]] = HisEnd(o, p)',
           phase'[o] \in Spawned =>
             processh'[o] \in Handles /\ table'[processh'[o]] = Process(o),
           At(o, "launched")' => threadh'[o] \in Handles /\ table'[threadh'[o]] = Thread(o)
    PROVE  KnowsRight(o)'
  BY DEF KnowsRight, Knows

\* The handles of an object are apart.
LEMMA HeldApart ==
    ASSUME TypeOK, Good, NEW o \in Objects, phase[o] \in Launching \cup Alive
    PROVE  /\ \A p, r \in Made(o) : own[o][p] = own[o][r] => p = r
           /\ phase[o] \in Spawned => \A p \in Made(o) : own[o][p] # processh[o]
<1>1. \A p, r \in Made(o) : own[o][p] = own[o][r] => p = r
  BY Held, MadeIs, FilesApart
<1>2. ASSUME phase[o] \in Spawned, NEW p \in Made(o), own[o][p] = processh[o]
      PROVE  FALSE
  <2>1. <<o, p, "ours">> = Process(o)
    BY <1>2, Held
  <2> QED BY <2>1, MadeIs, FilesApart
<1> QED BY <1>1, <1>2

-----------------------------------------------------------------------------
\* The steps that make or close no handle

LEMMA GoodOfCalls ==
    ASSUME TypeOK, Good, NEW o \in Objects,
           \/ Use(o) \/ ReadClock(o) \/ ReadClockAgain(o) \/ WaitOver(o)
    PROVE  Good'
<1>1. /\ UNCHANGED <<table, inherit, own, his, processh, threadh, todo, child,
                     inherited, wired, overlapped>>
      /\ phase[o] \in Alive /\ phase'[o] \in Alive
      /\ \A q \in Objects \ {o} : phase'[q] = phase[q]
  <2> USE DEF handles, waits, children, At, Goto, Alive, TypeOK
  <2>1. CASE UseFiles(o) \/ UseStreams(o)
    BY <2>1 DEF UseFiles, UseStreams
  <2>2. CASE Wait(o) \/ WaitUntil(o) \/ Destroy(o)
    BY <2>2 DEF Wait, WaitUntil, Destroy
  <2>3. CASE ReadClock(o) \/ ReadClockAgain(o) \/ WaitOver(o)
    BY <2>3 DEF ReadClock, ReadClockAgain, WaitOver
  <2> QED BY <2>1, <2>2, <2>3 DEF Use
<1>2. Touches(o)
  BY <1>1 DEF Touches
<1>3. \A q \in Objects \ {o} : ObjectGood(q)'
  BY <1>1, <1>2, Others DEF SameOf
<1>4. ObjectGood(o)'
  <2> USE DEF Alive, At, Launching, Opening, Spawned
  <2>1. ObjectGood(o)
    BY DEF Good
  <2>2. /\ Made(o)' = Made(o) /\ MadeHis(o)' = MadeHis(o)
        /\ \A p : HisEnd(o, p)' = HisEnd(o, p)
    <3>1. phase[o] \notin Opening /\ phase'[o] \notin Opening /\ own' = own /\ his' = his
      BY <1>1
    <3>2. \A p : HisEnd(o, p)' = HisEnd(o, p)
      BY <3>1 DEF HisEnd
    <3>3. Made(o)' = Made(o)
      BY <3>1, MadeIs
    <3>4. MadeHis(o)' = MadeHis(o)
      BY <3>1, MadeHisIs
    <3> QED BY <3>2, <3>3, <3>4
  <2>3. \A h, f : Knows(o, h, f)' <=> Knows(o, h, f)
    BY <1>1, <2>2 DEF Knows
  <2>4. NotMade(o)'
    BY <1>1, <2>1, <2>2 DEF ObjectGood, NotMade
  <2>5. KnowsRight(o)'
    BY <1>1, <2>1, <2>3 DEF ObjectGood, KnowsRight
  <2>6. AllKnown(o)'
    BY <1>1, <2>1, <2>3 DEF ObjectGood, AllKnown
  <2>7. TodoGood(o)' /\ ChildGood(o)'
    BY <1>1, <2>1, <2>2 DEF ObjectGood, TodoGood, ChildGood
  <2> QED BY <2>4, <2>5, <2>6, <2>7 DEF ObjectGood
<1>5. InheritGood'
  BY <1>1, <1>2, InheritStays DEF Alive
<1>6. InheritedGood'
  BY <1>1, InheritedStays DEF Good
<1> QED BY <1>3, <1>4, <1>5, <1>6 DEF Good

LEMMA GoodOfChildExits ==
    ASSUME TypeOK, Good, NEW o \in Objects, ChildExits(o)
    PROVE  Good'
<1>1. /\ child[o] = "running" /\ child'[o] = "exited" /\ inherited'[o] = {}
      /\ \A q \in Objects \ {o} : /\ child'[q] = child[q] /\ wired'[q] = wired[q]
                                  /\ inherited'[q] = inherited[q]
      /\ UNCHANGED <<table, inherit, phase, own, his, processh, threadh, todo,
                     overlapped>>
  BY DEF ChildExits, handles, TypeOK
<1>2. Touches(o)
  BY <1>1 DEF Touches
<1>3. \A q \in Objects \ {o} : ObjectGood(q)'
  BY <1>1, <1>2, Others DEF SameOf
<1>4. ObjectGood(o)'
  <2>1. ObjectGood(o)
    BY DEF Good
  <2>2. /\ Made(o)' = Made(o) /\ MadeHis(o)' = MadeHis(o)
        /\ \A p : HisEnd(o, p)' = HisEnd(o, p)
    BY <1>1 DEF Made, MadeHis, HisEnd, At
  <2>3. \A h, f : Knows(o, h, f)' <=> Knows(o, h, f)
    BY <1>1, <2>2 DEF Knows, At
  <2>4. NotMade(o)'
    BY <1>1, <2>1, <2>2 DEF ObjectGood, NotMade, At
  <2>5. KnowsRight(o)'
    BY <1>1, <2>1, <2>3 DEF ObjectGood, KnowsRight
  <2>6. AllKnown(o)'
    BY <1>1, <2>1, <2>3 DEF ObjectGood, AllKnown, At
  <2>7. TodoGood(o)' /\ ChildGood(o)'
    BY <1>1, <2>1 DEF ObjectGood, TodoGood, ChildGood, At
  <2> QED BY <2>4, <2>5, <2>6, <2>7 DEF ObjectGood
<1>5. InheritGood'
  BY <1>1 DEF Good, InheritGood
<1>6. InheritedGood'
  BY <1>1 DEF Good, InheritedGood
<1> QED BY <1>3, <1>4, <1>5, <1>6 DEF Good

-----------------------------------------------------------------------------
\* launch()

LEMMA GoodOfPipe ==
    ASSUME TypeOK, Good, NEW o \in Objects, NEW p \in Pipes, Pipe(o, p)
    PROVE  Good'
<1>1. PICK g \in Free, h \in Free :
         /\ g # h
         /\ table' = [table EXCEPT ![g] = <<o, p, "ours">>, ![h] = <<o, p, "his">>]
         /\ own' = [own EXCEPT ![o][p] = g]
         /\ his' = [his EXCEPT ![o][p] = h]
  <2>1. \A g, h \in Free : GivenOut(g, h) => g # h
    BY DEF GivenOut, Free, Handles
  <2> QED BY <2>1 DEF Pipe
<1>2. /\ g \in Handles /\ h \in Handles /\ table[g] = Closed /\ table[h] = Closed
      /\ table'[g] = <<o, p, "ours">> /\ table'[h] = <<o, p, "his">>
      /\ \A x \in Handles \ {g, h} : table'[x] = table[x]
  BY <1>1 DEF Free, TypeOK
<1>3. /\ own'[o][p] = g /\ his'[o][p] = h
      /\ \A r \in Pipes \ {p} : own'[o][r] = own[o][r] /\ his'[o][r] = his[o][r]
      /\ \A q \in Objects \ {o} : own'[q] = own[q] /\ his'[q] = his[q]
  <2>1. own \in [Objects -> [Pipes -> Values]] /\ his \in [Objects -> [Pipes -> Values]]
    BY DEF TypeOK
  <2>2. /\ own' = [own EXCEPT ![o] = [own[o] EXCEPT ![p] = g]]
        /\ his' = [his EXCEPT ![o] = [his[o] EXCEPT ![p] = h]]
    BY <1>1
  <2> QED BY <2>1, <2>2
<1>4. /\ phase[o] = PipePhase[p] /\ phase'[o] = AfterPipe(p) /\ p \in {"in", "out"}
      /\ \A q \in Objects \ {o} : phase'[q] = phase[q]
      /\ UNCHANGED <<inherit, processh, threadh, todo, child, inherited, wired, overlapped>>
  BY DEF Pipe, At, Goto, waits, children, TypeOK
<1>5. Touches(o)
  BY <1>2, FilesOfIt DEF Touches
<1>6. \A q \in Objects \ {o} : ObjectGood(q)'
  BY <1>3, <1>4, <1>5, Others DEF SameOf
<1>7. ObjectGood(o)
  BY DEF Good
<1>8. PICK M : M = Made(o)
  OBVIOUS
<1>9. /\ Made(o) = M /\ MadeHis(o) = M
      /\ Made(o)' = M \cup {p} /\ MadeHis(o)' = M \cup {p} /\ p \notin M
      /\ M \subseteq Pipes
      /\ phase[o] \in {"pipe_in", "pipe_out"} /\ phase'[o] \in {"pipe_out", "pipe_err"}
  <2>1. CASE p = "in"
    <3>1. phase[o] = "pipe_in" /\ phase'[o] = "pipe_out"
      BY <1>4, <2>1 DEF PipePhase, AfterPipe
    <3>2. Made(o) = {} /\ MadeHis(o) = {} /\ Made(o)' = {"in"} /\ MadeHis(o)' = {"in"}
      BY <3>1, MadeIs, MadeHisIs DEF At
    <3> QED BY <1>8, <2>1, <3>1, <3>2
  <2>2. CASE p = "out"
    <3>1. phase[o] = "pipe_out" /\ phase'[o] = "pipe_err"
      BY <1>4, <2>2 DEF PipePhase, AfterPipe
    <3>2. /\ Made(o) = {"in"} /\ MadeHis(o) = {"in"}
          /\ Made(o)' = {"in", "out"} /\ MadeHis(o)' = {"in", "out"}
      BY <3>1, MadeIs, MadeHisIs DEF At
    <3> QED BY <1>8, <2>2, <3>1, <3>2, PipeNames
  <2> QED BY <1>4, <2>1, <2>2
<1>h. \A r \in M : /\ own[o][r] \in Handles /\ table[own[o][r]] = <<o, r, "ours">>
                   /\ his[o][r] \in Handles /\ table[his[o][r]] = HisEnd(o, r)
  <2>1. phase[o] \in Launching
    BY <1>9 DEF Launching, Opening
  <2> QED BY <1>9, <2>1, Held
<1>e. /\ HisEnd(o, p)' = <<o, p, "his">>
      /\ \A r \in M : HisEnd(o, r)' = HisEnd(o, r)
  <2>1. own'[o][p] # Invalid /\ \A r \in M : own'[o][r] = own[o][r]
    BY <1>2, <1>3, <1>9, HandleFacts
  <2> QED BY <2>1 DEF HisEnd
<1>10. NotMade(o)'
  <2>1. \A r \in Pipes : own'[o][r] = Invalid => r = "err" /\ ~UseParentErr[o]
    BY <1>2, <1>3, <1>7, HandleFacts DEF ObjectGood, NotMade
  <2>2. \A r \in Pipes \ Made(o)' : own'[o][r] \in {Null, Invalid}
    BY <1>3, <1>7, <1>9 DEF ObjectGood, NotMade, Opening
  <2> QED BY <1>9, <2>1, <2>2 DEF NotMade, At
<1>11. KnowsRight(o)'
  <2>1. \A r \in M \cup {p} : own'[o][r] \in Handles /\ table'[own'[o][r]] = <<o, r, "ours">>
                            /\ his'[o][r] \in Handles /\ table'[his'[o][r]] = HisEnd(o, r)'
    <3>1. \A r \in M : HisEnd(o, r) # Closed /\ <<o, r, "ours">> # Closed
      BY <1>9, FilesOfIt
    <3>2. \A r \in M : /\ own[o][r] \notin {g, h} /\ his[o][r] \notin {g, h}
                       /\ r # p /\ r \in Pipes
      BY <1>2, <1>h, <1>9, <3>1
    <3>3. ASSUME NEW r \in M
          PROVE  /\ own'[o][r] \in Handles /\ table'[own'[o][r]] = <<o, r, "ours">>
                 /\ his'[o][r] \in Handles /\ table'[his'[o][r]] = HisEnd(o, r)'
      <4>1. own'[o][r] = own[o][r] /\ his'[o][r] = his[o][r]
        BY <1>3, <3>2
      <4>2. own[o][r] \in Handles \ {g, h} /\ his[o][r] \in Handles \ {g, h}
        BY <1>h, <3>2
      <4> QED BY <1>2, <1>h, <1>e, <4>1, <4>2
    <3> QED BY <1>2, <1>3, <1>e, <3>3
  <2> QED BY <1>9, <2>1, RightIf DEF At, Spawned, Alive
<1>12. AllKnown(o)'
  <2> SUFFICES ASSUME NEW x \in Handles, NEW f \in FilesOf(o), table'[x] = f
               PROVE  Knows(o, x, f)'
    BY DEF AllKnown
  <2>0. phase'[o] \in Launching
    BY <1>9 DEF Launching, Opening
  <2>1. CASE x \in {g, h}
    BY <1>2, <1>3, <1>9, <1>e, <2>0, <2>1 DEF Knows
  <2>2. CASE x \notin {g, h}
    <3>1. Knows(o, x, f)
      BY <1>2, <1>7, <1>9, <2>2 DEF ObjectGood, AllKnown, At
    <3>0. phase[o] \notin Spawned /\ ~At(o, "launched")
      BY <1>9 DEF Spawned, Alive, At
    <3>a. \/ \E r \in Made(o) : x = own[o][r] /\ f = <<o, r, "ours">>
          \/ \E r \in MadeHis(o) : x = his[o][r] /\ f = HisEnd(o, r)
      BY <3>0, <3>1 DEF Knows
    <3>2. PICK r \in M : \/ x = own[o][r] /\ f = <<o, r, "ours">>
                         \/ x = his[o][r] /\ f = HisEnd(o, r)
      BY <1>9, <3>a
    <3>3. own'[o][r] = own[o][r] /\ his'[o][r] = his[o][r] /\ HisEnd(o, r)' = HisEnd(o, r)
      BY <1>3, <1>9, <1>e
    <3> QED BY <1>9, <2>0, <3>2, <3>3 DEF Knows
  <2> QED BY <2>1, <2>2
<1>13. TodoGood(o)' /\ ChildGood(o)'
  BY <1>4, <1>7, <1>9 DEF ObjectGood, TodoGood, ChildGood, At, Opening, Spawned, Alive
<1>14. InheritGood'
  <2>1. \A x \in inherit : table[x] # Closed /\ x \in Handles
    BY FilesApart DEF Good, InheritGood, TypeOK, FilesOf
  <2>2. \A x \in inherit' : table'[x] = table[x]
    BY <1>2, <1>4, <2>1
  <2> QED BY <1>4, <1>5, <1>9, <2>2, InheritStays
<1>15. InheritedGood'
  BY <1>4, InheritedStays DEF Good
<1> QED BY <1>6, <1>10, <1>11, <1>12, <1>13, <1>14, <1>15 DEF Good, ObjectGood

\* Our end of the child's stderr is made.
LEMMA GoodOfNamedPipe ==
    ASSUME TypeOK, Good, NEW o \in Objects, NamedPipe(o)
    PROVE  Good'
<1>1. PICK h \in Free : /\ table' = [table EXCEPT ![h] = <<o, "err", "ours">>]
                        /\ own' = [own EXCEPT ![o]["err"] = h]
  BY DEF NamedPipe
<1>2. /\ h \in Handles /\ table[h] = Closed /\ table'[h] = <<o, "err", "ours">>
      /\ \A x \in Handles \ {h} : table'[x] = table[x]
  BY <1>1 DEF Free, TypeOK
<1>3. /\ own'[o]["err"] = h /\ own'[o]["in"] = own[o]["in"] /\ own'[o]["out"] = own[o]["out"]
      /\ \A q \in Objects \ {o} : own'[q] = own[q]
  <2>1. own \in [Objects -> [Pipes -> Values]]
    BY DEF TypeOK
  <2>2. own' = [own EXCEPT ![o] = [own[o] EXCEPT !["err"] = h]]
    BY <1>1
  <2> QED BY <2>1, <2>2, PipeNames
<1>4. /\ phase[o] = "pipe_err" /\ phase'[o] = "file_err" /\ ~UseParentErr[o]
      /\ \A q \in Objects \ {o} : phase'[q] = phase[q]
      /\ UNCHANGED <<inherit, his, processh, threadh, todo, child, inherited,
                     wired, overlapped>>
  BY DEF NamedPipe, At, Goto, waits, children, TypeOK
<1>5. Touches(o)
  <2>1. <<o, "err", "ours">> \in FilesOf(o)
    BY FilesOfIt, PipeNames
  <2> QED BY <1>2, <2>1 DEF Touches
<1>6. \A q \in Objects \ {o} : ObjectGood(q)'
  BY <1>3, <1>4, <1>5, Others DEF SameOf
<1>7. ObjectGood(o)
  BY DEF Good
<1>8. Made(o) = {"in", "out"} /\ MadeHis(o) = {"in", "out"} /\ MadeHis(o)' = {"in", "out"}
  BY <1>4, MadeIs, MadeHisIs DEF At
<1>9. \A r \in {"in", "out"} :
         /\ own[o][r] \in Handles \ {h} /\ table[own[o][r]] = <<o, r, "ours">>
         /\ his[o][r] \in Handles \ {h} /\ table[his[o][r]] = HisEnd(o, r)
         /\ own'[o][r] = own[o][r] /\ HisEnd(o, r)' = HisEnd(o, r)
  <2>1. \A r \in {"in", "out"} : own'[o][r] = own[o][r] /\ HisEnd(o, r)' = HisEnd(o, r)
    BY <1>3 DEF HisEnd
  <2>2. \A r \in {"in", "out"} : <<o, r, "ours">> # Closed /\ HisEnd(o, r) # Closed
    BY PipeNames, FilesOfIt
  <2>3. phase[o] \in Launching
    BY <1>4 DEF Launching, Opening
  <2>4. \A r \in {"in", "out"} :
           /\ own[o][r] \in Handles /\ table[own[o][r]] = <<o, r, "ours">>
           /\ his[o][r] \in Handles /\ table[his[o][r]] = HisEnd(o, r)
    BY <1>8, <2>3, Held
  <2> QED BY <1>2, <2>1, <2>2, <2>4
<1>10. Made(o)' = Pipes
  <2>1. Made(o)' = {p \in PipesOf(o) : own'[o][p] # Invalid} /\ PipesOf(o) = Pipes
    BY <1>4, MadeIs, PipeNames
  <2>2. \A p \in Pipes : own'[o][p] # Invalid
    BY <1>2, <1>3, <1>9, HandleFacts DEF Pipes
  <2> QED BY <2>1, <2>2
<1>11. NotMade(o)'
  <2>1. \A p \in Pipes : own'[o][p] # Invalid
    BY <1>2, <1>3, <1>9, HandleFacts DEF Pipes
  <2> QED BY <1>4, <1>10, <2>1 DEF NotMade, At
<1>12. KnowsRight(o)'
  <2>1. \A r \in Made(o)' : own'[o][r] \in Handles /\ table'[own'[o][r]] = <<o, r, "ours">>
    BY <1>2, <1>3, <1>9, <1>10 DEF Pipes
  <2>2. \A r \in MadeHis(o)' : his'[o][r] \in Handles /\ table'[his'[o][r]] = HisEnd(o, r)'
    BY <1>2, <1>4, <1>8, <1>9
  <2> QED BY <1>4, <2>1, <2>2, RightIf DEF At, Spawned, Alive
<1>13. AllKnown(o)'
  <2> SUFFICES ASSUME NEW x \in Handles, NEW f \in FilesOf(o), table'[x] = f
               PROVE  Knows(o, x, f)'
    BY DEF AllKnown
  <2>0. phase'[o] \in Launching
    BY <1>4 DEF Launching, Opening
  <2>1. CASE x = h
    BY <1>2, <1>3, <1>10, <2>0, <2>1, PipeNames DEF Knows
  <2>2. CASE x # h
    <3>1. Knows(o, x, f)
      BY <1>2, <1>4, <1>7, <2>2 DEF ObjectGood, AllKnown, At
    <3>0. phase[o] \notin Spawned /\ ~At(o, "launched")
      BY <1>4 DEF Spawned, Alive, At
    <3>a. \/ \E r \in Made(o) : x = own[o][r] /\ f = <<o, r, "ours">>
          \/ \E r \in MadeHis(o) : x = his[o][r] /\ f = HisEnd(o, r)
      BY <3>0, <3>1 DEF Knows
    <3>2. PICK r \in {"in", "out"} : \/ x = own[o][r] /\ f = <<o, r, "ours">>
                                     \/ x = his[o][r] /\ f = HisEnd(o, r)
      BY <1>8, <3>a
    <3>3. /\ own'[o][r] = own[o][r] /\ his'[o][r] = his[o][r] /\ HisEnd(o, r)' = HisEnd(o, r)
          /\ r \in Made(o)' /\ r \in MadeHis(o)'
      BY <1>4, <1>8, <1>9, <1>10, PipeNames
    <3> QED BY <2>0, <3>2, <3>3 DEF Knows
  <2> QED BY <2>1, <2>2
<1>14. TodoGood(o)' /\ ChildGood(o)'
  BY <1>4, <1>7 DEF ObjectGood, TodoGood, ChildGood, At, Opening, Spawned, Alive
<1>15. InheritGood'
  <2>1. \A x \in inherit : table[x] # Closed /\ x \in Handles
    BY FilesApart DEF Good, InheritGood, TypeOK, FilesOf
  <2>2. \A x \in inherit' : table'[x] = table[x]
    BY <1>2, <1>4, <2>1
  <2> QED BY <1>4, <1>5, <2>2, InheritStays
<1>16. InheritedGood'
  BY <1>4, InheritedStays DEF Good
<1> QED BY <1>6, <1>11, <1>12, <1>13, <1>14, <1>15, <1>16 DEF Good, ObjectGood

\* The child's end of it is made, or one of another's pipe.
LEMMA GoodOfOpenPipe ==
    ASSUME TypeOK, Good, NEW o \in Objects, OpenPipe(o)
    PROVE  Good'
<1>1. PICK h \in Free : /\ table' = [table EXCEPT ![h] = HisEnd(o, "err")]
                        /\ his' = [his EXCEPT ![o]["err"] = h]
  BY DEF OpenPipe
<1>2. /\ h \in Handles /\ table[h] = Closed /\ table'[h] = HisEnd(o, "err")
      /\ \A x \in Handles \ {h} : table'[x] = table[x]
  BY <1>1 DEF Free, TypeOK
<1>3. /\ his'[o]["err"] = h /\ his'[o]["in"] = his[o]["in"] /\ his'[o]["out"] = his[o]["out"]
      /\ \A q \in Objects \ {o} : his'[q] = his[q]
  <2>1. his \in [Objects -> [Pipes -> Values]]
    BY DEF TypeOK
  <2>2. his' = [his EXCEPT ![o] = [his[o] EXCEPT !["err"] = h]]
    BY <1>1
  <2> QED BY <2>1, <2>2, PipeNames
<1>4. /\ phase[o] = "file_err" /\ phase'[o] = "inherit"
      /\ \A q \in Objects \ {o} : phase'[q] = phase[q]
      /\ UNCHANGED <<inherit, own, processh, threadh, todo, child, inherited,
                     wired, overlapped>>
  BY DEF OpenPipe, At, Goto, waits, children, TypeOK
<1>5. Touches(o)
  <2>1. HisEnd(o, "err") \in FilesOf(o)
    BY FilesOfIt, PipeNames
  <2> QED BY <1>2, <2>1 DEF Touches
<1>6. \A q \in Objects \ {o} : ObjectGood(q)'
  BY <1>3, <1>4, <1>5, Others DEF SameOf
<1>7. ObjectGood(o)
  BY DEF Good
<1>8. /\ Made(o)' = Made(o) /\ MadeHis(o) = {"in", "out"} /\ PipesOf(o) = Pipes
      /\ \A r : HisEnd(o, r)' = HisEnd(o, r)
  <2>1. Made(o)' = Made(o)
    BY <1>4, MadeIs
  <2>2. MadeHis(o) = {"in", "out"}
    BY <1>4, MadeHisIs
  <2>3. PipesOf(o) = Pipes
    BY <1>4, <1>7, PipeNames DEF ObjectGood, NotMade, At
  <2> QED BY <1>4, <2>1, <2>2, <2>3 DEF HisEnd
<1>9. /\ \A r \in Made(o) : own[o][r] \in Handles \ {h} /\ table[own[o][r]] = <<o, r, "ours">>
      /\ \A r \in {"in", "out"} : his[o][r] \in Handles \ {h} /\ table[his[o][r]] = HisEnd(o, r)
  <2>1. /\ \A r \in Pipes : <<o, r, "ours">> # Closed /\ HisEnd(o, r) # Closed
        /\ Made(o) \subseteq Pipes /\ {"in", "out"} \subseteq Pipes
    BY PipeNames, FilesOfIt, MadeIs
  <2>2. phase[o] \in Launching
    BY <1>4 DEF Launching, Opening
  <2>3. /\ \A r \in Made(o) : own[o][r] \in Handles /\ table[own[o][r]] = <<o, r, "ours">>
        /\ \A r \in {"in", "out"} : his[o][r] \in Handles /\ table[his[o][r]] = HisEnd(o, r)
    BY <1>8, <2>2, Held
  <2> QED BY <1>2, <2>1, <2>3
<1>10. MadeHis(o)' = Pipes
  <2>1. MadeHis(o)' = {p \in PipesOf(o) : his'[o][p] # Invalid}
    BY <1>4, MadeHisIs
  <2>2. \A p \in Pipes : his'[o][p] # Invalid
    BY <1>2, <1>3, <1>9, HandleFacts DEF Pipes
  <2> QED BY <1>8, <2>1, <2>2
<1>11. NotMade(o)'
  BY <1>4, <1>7, <1>8, <1>10 DEF ObjectGood, NotMade, At, Opening
<1>12. KnowsRight(o)'
  <2>1. \A r \in Made(o)' : own'[o][r] \in Handles /\ table'[own'[o][r]] = <<o, r, "ours">>
    BY <1>2, <1>4, <1>8, <1>9
  <2>2. \A r \in MadeHis(o)' : his'[o][r] \in Handles /\ table'[his'[o][r]] = HisEnd(o, r)'
    BY <1>2, <1>3, <1>8, <1>9, <1>10 DEF Pipes
  <2> QED BY <1>4, <2>1, <2>2, RightIf DEF At, Spawned, Alive
<1>13. AllKnown(o)'
  <2> SUFFICES ASSUME NEW x \in Handles, NEW f \in FilesOf(o), table'[x] = f
               PROVE  Knows(o, x, f)'
    BY DEF AllKnown
  <2>0. phase'[o] \in Launching /\ phase[o] \notin Spawned
    BY <1>4 DEF Launching, Opening, Spawned, Alive
  <2>1. CASE x = h
    BY <1>2, <1>3, <1>8, <1>10, <2>0, <2>1, PipeNames DEF Knows
  <2>2. CASE x # h
    <3>1. Knows(o, x, f)
      BY <1>2, <1>4, <1>7, <2>2 DEF ObjectGood, AllKnown, At
    <3>2. \/ \E r \in Made(o) : x = own[o][r] /\ f = <<o, r, "ours">>
          \/ \E r \in {"in", "out"} : x = his[o][r] /\ f = HisEnd(o, r)
      BY <1>4, <1>8, <2>0, <3>1 DEF Knows, At
    <3>3. CASE \E r \in Made(o) : x = own[o][r] /\ f = <<o, r, "ours">>
      BY <1>4, <1>8, <2>0, <3>3 DEF Knows
    <3>4. CASE \E r \in {"in", "out"} : x = his[o][r] /\ f = HisEnd(o, r)
      BY <1>3, <1>8, <1>10, <2>0, <3>4, PipeNames DEF Knows
    <3> QED BY <3>2, <3>3, <3>4
  <2> QED BY <2>1, <2>2
<1>14. TodoGood(o)' /\ ChildGood(o)'
  BY <1>4, <1>7 DEF ObjectGood, TodoGood, ChildGood, At, Opening, Spawned, Alive
<1>15. InheritGood'
  <2>1. \A x \in inherit : table[x] # Closed /\ x \in Handles
    BY FilesApart DEF Good, InheritGood, TypeOK, FilesOf
  <2>2. \A x \in inherit' : table'[x] = table[x]
    BY <1>2, <1>4, <2>1
  <2> QED BY <1>4, <1>5, <2>2, InheritStays
<1>16. InheritedGood'
  BY <1>4, InheritedStays DEF Good
<1> QED BY <1>6, <1>11, <1>12, <1>13, <1>14, <1>15, <1>16 DEF Good, ObjectGood

\* The child gets our stderr, or no handle is made.
LEMMA GoodOfNoPipe ==
    ASSUME TypeOK, Good, NEW o \in Objects,
           ParentErr(o) \/ NamedPipeFails(o) \/ OpenFails(o)
    PROVE  Good'
<1>1. /\ \A q \in Objects \ {o} : phase'[q] = phase[q] /\ own'[q] = own[q] /\ his'[q] = his[q]
      /\ \A r \in {"in", "out"} : own'[o][r] = own[o][r] /\ his'[o][r] = his[o][r]
      /\ UNCHANGED <<table, inherit, processh, threadh, todo, child, inherited,
                     wired, overlapped>>
  BY PipeNames DEF ParentErr, NamedPipeFails, OpenFails, At, Goto, waits, children, TypeOK
<1>2. \/ /\ phase[o] = "pipe_err" /\ phase'[o] = "inherit" /\ UseParentErr[o]
         /\ his'[o]["err"] = 1 /\ own'[o] = own[o]
      \/ /\ phase[o] = "pipe_err" /\ phase'[o] = "file_err" /\ ~UseParentErr[o]
         /\ own'[o]["err"] = Invalid /\ his'[o] = his[o]
      \/ /\ phase[o] = "file_err" /\ phase'[o] = "inherit"
         /\ his'[o]["err"] = Invalid /\ own'[o] = own[o]
  BY PipeNames DEF ParentErr, NamedPipeFails, OpenFails, At, Goto, TypeOK
<1>3. /\ phase[o] \in Launching \cap Opening /\ phase'[o] \in Launching \cap Opening
      /\ ~At(o, "launched") /\ ~At(o, "launched")' /\ ~At(o, "closing") /\ ~At(o, "closing")'
      /\ ~At(o, "failed_early") /\ phase[o] \notin Spawned /\ phase'[o] \notin Spawned
  BY <1>2 DEF Launching, Opening, Spawned, Alive, At
<1>4. Touches(o)
  BY <1>1 DEF Touches
<1>5. \A q \in Objects \ {o} : ObjectGood(q)'
  BY <1>1, <1>4, Others DEF SameOf
<1>6. ObjectGood(o)
  BY DEF Good
<1>7. /\ \A r \in {"in", "out"} : HisEnd(o, r)' = HisEnd(o, r) /\ own[o][r] # Invalid
      /\ MadeHis(o) = {"in", "out"}
  <2>1. \A r \in {"in", "out"} : own[o][r] # Invalid
    BY <1>6, PipeNames DEF ObjectGood, NotMade
  <2>2. MadeHis(o) = {"in", "out"}
    BY <1>2, MadeHisIs
  <2> QED BY <1>1, <2>1, <2>2 DEF HisEnd
<1>8. /\ \A r \in Made(o) : own[o][r] \in Handles /\ table[own[o][r]] = <<o, r, "ours">>
      /\ \A r \in {"in", "out"} : his[o][r] \in Handles /\ table[his[o][r]] = HisEnd(o, r)
  BY <1>3, <1>7, Held
<1>9. Made(o)' = Made(o) /\ MadeHis(o)' = {"in", "out"}
  <2>1. CASE phase[o] = "pipe_err"
    <3>1. Made(o) = {"in", "out"}
      BY <2>1, MadeIs DEF At
    <3>2. Made(o)' = {p \in PipesOf(o) : own'[o][p] # Invalid}
      BY <1>2, <2>1, MadeIs
    <3>3. own'[o]["in"] # Invalid /\ own'[o]["out"] # Invalid
      BY <1>1, <1>7
    <3>4. Made(o)' = {"in", "out"}
      BY <1>2, <2>1, <3>2, <3>3 DEF PipesOf, Pipes
    <3>5. MadeHis(o)' = {"in", "out"}
      <4>1. CASE phase'[o] = "file_err"
        BY <4>1, MadeHisIs
      <4>2. CASE phase'[o] = "inherit"
        <5>1. PipesOf(o) = {"in", "out"}
          BY <1>2, <2>1, <4>2 DEF PipesOf
        <5>2. his'[o]["in"] # Invalid /\ his'[o]["out"] # Invalid
          BY <1>1, <1>8, HandleFacts
        <5>3. MadeHis(o)' = {p \in PipesOf(o) : his'[o][p] # Invalid}
          BY <4>2, MadeHisIs
        <5> QED BY <5>1, <5>2, <5>3
      <4> QED BY <1>2, <2>1, <4>1, <4>2
    <3> QED BY <3>1, <3>4, <3>5
  <2>2. CASE phase[o] = "file_err"
    <3>1. Made(o)' = Made(o)
      BY <1>2, <2>2, MadeIs
    <3>2. MadeHis(o)' = {p \in PipesOf(o) : his'[o][p] # Invalid}
      BY <1>2, <2>2, MadeHisIs
    <3>3. his'[o]["in"] # Invalid /\ his'[o]["out"] # Invalid /\ his'[o]["err"] = Invalid
      BY <1>1, <1>2, <1>8, <2>2, HandleFacts
    <3> QED BY <3>1, <3>2, <3>3 DEF PipesOf, Pipes
  <2> QED BY <1>2, <2>1, <2>2
<1>10. NotMade(o)'
  <2>1. \A p \in Pipes : own'[o][p] = Invalid => p = "err" /\ ~UseParentErr[o]
    BY <1>1, <1>2, <1>6, <1>7 DEF ObjectGood, NotMade, Pipes, At
  <2>2. \A p \in Pipes \ Made(o)' : own'[o][p] \in {Null, Invalid}
    BY <1>2, <1>3, <1>6, <1>9, MadeIs DEF ObjectGood, NotMade, Pipes, At
  <2>3. At(o, "inherit")' => his'[o]["err"] = IF "err" \in PipesOf(o) THEN Invalid ELSE 1
    BY <1>2, <1>6, PipeNames DEF ObjectGood, NotMade, At, PipesOf
  <2> QED BY <1>2, <1>9, <2>1, <2>2, <2>3 DEF NotMade, At, Pipes
<1>11. KnowsRight(o)'
  <2>1. \A r \in Made(o) : own'[o][r] = own[o][r]
    BY <1>1, <1>2, MadeIs DEF At
  <2>2. \A r \in Made(o)' : own'[o][r] \in Handles /\ table'[own'[o][r]] = <<o, r, "ours">>
    BY <1>1, <1>8, <1>9, <2>1
  <2>3. \A r \in {"in", "out"} : his'[o][r] \in Handles /\ table'[his'[o][r]] = HisEnd(o, r)'
    BY <1>1, <1>7, <1>8
  <2>4. \A r \in MadeHis(o)' : his'[o][r] \in Handles /\ table'[his'[o][r]] = HisEnd(o, r)'
    BY <1>9, <2>3
  <2> QED BY <1>3, <2>2, <2>4, RightIf
<1>12. AllKnown(o)'
  <2> SUFFICES ASSUME NEW x \in Handles, NEW f \in FilesOf(o), table'[x] = f
               PROVE  Knows(o, x, f)'
    BY DEF AllKnown
  <2>1. Knows(o, x, f)
    BY <1>1, <1>3, <1>6 DEF ObjectGood, AllKnown
  <2>2. \/ \E r \in Made(o) : x = own[o][r] /\ f = <<o, r, "ours">>
        \/ \E r \in {"in", "out"} : x = his[o][r] /\ f = HisEnd(o, r)
    BY <1>3, <1>7, <2>1 DEF Knows
  <2>3. \A r \in Made(o) : own'[o][r] = own[o][r]
    BY <1>1, <1>2, MadeIs DEF At
  <2>4. CASE \E r \in Made(o) : x = own[o][r] /\ f = <<o, r, "ours">>
    BY <1>3, <1>9, <2>3, <2>4 DEF Knows
  <2>5. CASE \E r \in {"in", "out"} : x = his[o][r] /\ f = HisEnd(o, r)
    BY <1>1, <1>3, <1>7, <1>9, <2>5 DEF Knows
  <2> QED BY <2>2, <2>4, <2>5
<1>13. TodoGood(o)' /\ ChildGood(o)'
  BY <1>1, <1>3, <1>6 DEF ObjectGood, TodoGood, ChildGood, Opening
<1>14. InheritGood'
  <2>1. phase[o] \notin {"spawn", "launched"}
    BY <1>2
  <2> QED BY <1>1, <1>4, <2>1, InheritStays
<1>15. InheritedGood'
  BY <1>1, InheritedStays DEF Good
<1> QED BY <1>5, <1>10, <1>11, <1>12, <1>13, <1>14, <1>15 DEF Good, ObjectGood

\* A launch that fails: closed are handles the object knew, among them the
\* child's ends if they were inheritable already; what stays is nothing of it,
\* or the child's ends before the guards.
LEMMA GoodOfFailure ==
    ASSUME TypeOK, Good, NEW o \in Objects,
           LaunchFails(o) \/ (\E p \in Pipes : PipeFails(o, p))
    PROVE  Good'
<1>1. PICK S :
      /\ CloseAll(S)
      /\ \/ /\ phase[o] \in {"inherit", "spawn"} /\ phase'[o] = "gone"
            /\ S = {own[o][p] : p \in PipesOf(o)} \cup {his[o][p] : p \in PipesOf(o)}
         \/ /\ phase[o] \in {"pipe_in", "pipe_out"} /\ phase'[o] = "failed_early"
            /\ S = {own[o]["in"]}
      /\ \A q \in Objects \ {o} : phase'[q] = phase[q] /\ own'[q] = own[q] /\ his'[q] = his[q]
      /\ UNCHANGED <<processh, threadh, todo, child, inherited, wired, overlapped>>
  <2> USE DEF At, Goto, waits, children, TypeOK
  <2>1. CASE LaunchFails(o)
    BY <2>1 DEF LaunchFails
  <2>2. ASSUME NEW p \in Pipes, PipeFails(o, p) PROVE phase[o] \in {"pipe_in", "pipe_out"}
    BY <2>2 DEF PipeFails, PipePhase, Pipes
  <2>3. CASE \E p \in Pipes : PipeFails(o, p)
    BY <2>2, <2>3 DEF PipeFails
  <2> QED BY <2>1, <2>3
<1>2. /\ \A h \in Handles : table'[h] = IF h \in S THEN Closed ELSE table[h]
      /\ inherit' = inherit \ S
  BY <1>1, WhatIsClosed
<1>3. ObjectGood(o) /\ phase[o] \in Opening
  BY <1>1 DEF Good, Opening
<1>4. /\ \A r \in Made(o) : own[o][r] \in Handles /\ table[own[o][r]] = <<o, r, "ours">>
      /\ \A r \in MadeHis(o) : his[o][r] \in Handles /\ table[his[o][r]] = HisEnd(o, r)
  BY <1>3, Held DEF Launching
<1>5. \A r \in Pipes \ Made(o) : own[o][r] \notin Handles
  BY <1>3, HandleFacts DEF ObjectGood, NotMade
<1>6. phase[o] \in {"inherit", "spawn"} =>
        \A r \in PipesOf(o) \ MadeHis(o) : his[o][r] \notin Handles
  BY <1>3, HandleFacts, PipeNames DEF ObjectGood, NotMade, At
<1>7. \A h \in S \cap Handles : table[h] \in FilesOf(o)
  <2> TAKE h \in S \cap Handles
  <2>1. PICK r \in Pipes :
           \/ h = own[o][r]
           \/ /\ h = his[o][r] /\ r \in PipesOf(o)
              /\ phase[o] \in {"inherit", "spawn"}
    BY <1>1, PipeNames
  <2>2. CASE h = own[o][r]
    <3>1. table[h] = <<o, r, "ours">>
      BY <1>4, <1>5, <2>2
    <3> QED BY <3>1, FilesOfIt
  <2>3. CASE h = his[o][r] /\ r \in PipesOf(o) /\ phase[o] \in {"inherit", "spawn"}
    <3>1. table[h] = HisEnd(o, r)
      BY <1>4, <1>6, <2>3
    <3> QED BY <3>1, FilesOfIt
  <2> QED BY <2>1, <2>2, <2>3
<1>8. Touches(o)
  BY <1>2, <1>7 DEF Touches
<1>9. \A q \in Objects \ {o} : ObjectGood(q)'
  BY <1>1, <1>8, Others DEF SameOf
<1>10. ASSUME NEW h \in Handles, NEW f \in FilesOf(o), table'[h] = f
       PROVE  phase'[o] = "failed_early" /\ f \in HisOf(o)
  <2>1. h \notin S /\ table[h] = f
    BY <1>2, <1>10, FilesApart
  <2>2. Knows(o, h, f)
    BY <1>3, <2>1 DEF ObjectGood, AllKnown, At, Opening
  <2>3. \/ \E r \in Made(o) : h = own[o][r] /\ f = <<o, r, "ours">>
        \/ \E r \in MadeHis(o) : h = his[o][r] /\ f = HisEnd(o, r)
    <3>1. phase[o] \notin Spawned /\ ~At(o, "launched")
      BY <1>3 DEF Spawned, Alive, Opening, At
    <3> QED BY <2>2, <3>1 DEF Knows
  <2>4. CASE phase[o] \in {"inherit", "spawn"}
    BY <1>1, <2>1, <2>3, <2>4, MadeIs, MadeHisIs
  <2>5. CASE phase[o] \in {"pipe_in", "pipe_out"}
    <3>1. Made(o) \subseteq {"in"}
      BY <2>5, MadeIs DEF At
    <3>2. S = {own[o]["in"]} /\ phase'[o] = "failed_early"
      BY <1>1, <2>5
    <3>3. PICK r \in MadeHis(o) : f = HisEnd(o, r)
      BY <2>1, <2>3, <3>1, <3>2
    <3> QED BY <3>2, <3>3, HisEnds, MadeHisIs
  <2> QED BY <1>1, <2>4, <2>5
<1>11. ~At(o, "closing")' /\ phase'[o] \notin Launching \cup Alive
  BY <1>1 DEF At, Launching, Opening, Alive
<1>12. NotMade(o)'
  <2>1. own' = [own EXCEPT ![o] = NoHandles]
    BY DEF LaunchFails, PipeFails
  <2>2. own'[o] = NoHandles
    BY <2>1 DEF TypeOK
  <2>3. \A p \in Pipes : own'[o][p] # Invalid
    BY <2>2, HandleFacts DEF NoHandles
  <2> QED BY <1>1, <2>3 DEF NotMade, At, Opening
<1>13. KnowsRight(o)' /\ AllKnown(o)'
  <2>1. KnowsRight(o)'
    BY <1>11, RightIf DEF At, Spawned, Launching
  <2> QED BY <1>10, <2>1 DEF AllKnown, At
<1>14. TodoGood(o)' /\ ChildGood(o)'
  BY <1>1, <1>3, <1>11 DEF ObjectGood, TodoGood, ChildGood, At, Opening, Spawned, Launching
<1>15. InheritGood'
  <2>1. inherit \subseteq Handles
    BY DEF TypeOK
  <2>2. \A h \in inherit' : table'[h] = table[h]
    BY <1>2, <2>1
  <2>3. phase[o] = "spawn" => \A h \in inherit' : table'[h] \notin HisOf(o)
    BY <1>1, <1>2, <1>10, <2>1, FilesApart
  <2> QED BY <1>1, <1>2, <1>8, <2>2, <2>3, InheritStays
<1>16. InheritedGood'
  BY <1>1, InheritedStays DEF Good
<1> QED BY <1>9, <1>12, <1>13, <1>14, <1>15, <1>16 DEF Good, ObjectGood

LEMMA GoodOfSetInherit ==
    ASSUME TypeOK, Good, NEW o \in Objects, SetInherit(o)
    PROVE  Good'
<1>1. /\ phase[o] = "inherit" /\ phase'[o] = "spawn"
      /\ \A p \in Pipes : his[o][p] \in Handles /\ his[o][p] # Invalid
      /\ inherit' = inherit \cup {his[o][p] : p \in Pipes}
      /\ \A q \in Objects \ {o} : phase'[q] = phase[q]
      /\ UNCHANGED <<table, own, his, processh, threadh, todo, child, inherited,
                     wired, overlapped>>
  BY HandleFacts DEF SetInherit, At, Goto, handles, children, waits, TypeOK
<1>2. Touches(o)
  BY <1>1 DEF Touches
<1>3. \A q \in Objects \ {o} : ObjectGood(q)'
  BY <1>1, <1>2, Others DEF SameOf
<1>4. ObjectGood(o)
  BY DEF Good
<1>5. /\ Made(o)' = Made(o) /\ MadeHis(o)' = MadeHis(o) /\ MadeHis(o) = PipesOf(o)
      /\ \A p : HisEnd(o, p)' = HisEnd(o, p)
      /\ \A p \in Pipes \ PipesOf(o) : his[o][p] = 1
  <2>1. \A p \in Pipes \ MadeHis(o) : p \notin PipesOf(o) /\ his[o][p] = 1
    BY <1>1, <1>4 DEF ObjectGood, NotMade, At
  <2>2. MadeHis(o) = PipesOf(o)
    <3>1. MadeHis(o) \subseteq PipesOf(o)
      BY MadeHisIs
    <3>2. PipesOf(o) \subseteq Pipes
      BY PipeNames
    <3> QED BY <2>1, <3>1, <3>2
  <2>3. Made(o)' = Made(o)
    BY <1>1, MadeIs
  <2>4. MadeHis(o)' = MadeHis(o)
    BY <1>1, MadeHisIs
  <2>5. \A p \in Pipes \ PipesOf(o) : his[o][p] = 1
    BY <2>1, <2>2
  <2> QED BY <1>1, <2>2, <2>3, <2>4, <2>5 DEF HisEnd
<1>6. /\ \A r \in Made(o) : own[o][r] \in Handles /\ table[own[o][r]] = <<o, r, "ours">>
      /\ \A r \in MadeHis(o) : his[o][r] \in Handles /\ table[his[o][r]] = HisEnd(o, r)
  BY <1>1, Held DEF Launching, Opening
<1>7. NotMade(o)'
  <2>1. UseParentErr[o] => his[o]["err"] = 1
    BY <1>5, PipeNames
  <2>2. \A p \in Pipes \ Made(o) : own[o][p] \in {Null, Invalid}
    BY <1>1, <1>4 DEF ObjectGood, NotMade, Opening
  <2>3. \A p \in Pipes : own[o][p] = Invalid => p = "err" /\ ~UseParentErr[o]
    BY <1>4 DEF ObjectGood, NotMade
  <2> QED BY <1>1, <1>5, <2>1, <2>2, <2>3 DEF NotMade, At
<1>8. KnowsRight(o)'
  BY <1>1, <1>5, <1>6, RightIf DEF At, Spawned, Alive
<1>9. AllKnown(o)'
  <2> SUFFICES ASSUME NEW x \in Handles, NEW f \in FilesOf(o), table'[x] = f
               PROVE  Knows(o, x, f)'
    BY DEF AllKnown
  <2>1. Knows(o, x, f)
    BY <1>1, <1>4 DEF ObjectGood, AllKnown, At
  <2> QED BY <1>1, <1>5, <2>1 DEF Knows, At, Launching, Opening, Spawned, Alive
<1>10. TodoGood(o)' /\ ChildGood(o)'
  BY <1>1, <1>4 DEF ObjectGood, TodoGood, ChildGood, At, Opening, Spawned, Alive
<1>11. InheritGood'
  <2>1. InheritGood
    BY DEF Good
  <2>2. ASSUME NEW x \in inherit', table[x] # StdErr
        PROVE  \E q \in Objects : table[x] \in HisOf(q) /\ phase'[q] \in {"spawn", "launched"}
    <3>1. CASE x \in inherit
      <4>1. PICK q \in Objects : table[x] \in HisOf(q) /\ phase[q] \in {"spawn", "launched"}
        BY <2>1, <2>2, <3>1 DEF InheritGood
      <4> QED BY <1>1, <4>1
    <3>2. CASE x \notin inherit
      <4>1. PICK p \in Pipes : x = his[o][p]
        BY <1>1, <2>2, <3>2
      <4>2. p \in PipesOf(o)
        BY <1>5, <2>1, <2>2, <4>1 DEF InheritGood
      <4>3. table[x] \in HisOf(o)
        BY <1>5, <1>6, <4>1, <4>2, HisEnds
      <4> QED BY <1>1, <4>3
    <3> QED BY <3>1, <3>2
  <2> QED BY <1>1, <2>1, <2>2 DEF InheritGood
<1>12. InheritedGood'
  BY <1>1, InheritedStays DEF Good
<1> QED BY <1>3, <1>7, <1>8, <1>9, <1>10, <1>11, <1>12 DEF Good, ObjectGood

\* A child inherits what is inheritable: the launches others have made so are
\* those that are told to be overlapped.
LEMMA GoodOfSpawn ==
    ASSUME TypeOK, Good, NEW o \in Objects, Spawn(o)
    PROVE  Good'
<1>1. PICK g \in Free, h \in Free :
         /\ g # h
         /\ table' = [table EXCEPT ![g] = Process(o), ![h] = Thread(o)]
         /\ processh' = [processh EXCEPT ![o] = g]
         /\ threadh' = [threadh EXCEPT ![o] = h]
  <2>1. \A g, h \in Free : GivenOut(g, h) => g # h
    BY DEF GivenOut, Free, Handles
  <2> QED BY <2>1 DEF Spawn
<1>2. /\ g \in Handles /\ h \in Handles /\ table[g] = Closed /\ table[h] = Closed
      /\ table'[g] = Process(o) /\ table'[h] = Thread(o)
      /\ \A x \in Handles \ {g, h} : table'[x] = table[x]
  BY <1>1 DEF Free, TypeOK
<1>3. /\ processh'[o] = g /\ threadh'[o] = h
      /\ \A q \in Objects \ {o} : processh'[q] = processh[q] /\ threadh'[q] = threadh[q]
  BY <1>1 DEF TypeOK
<1>4. /\ phase[o] = "spawn" /\ phase'[o] = "launched"
      /\ child'[o] = "running" /\ inherited'[o] = {table[x] : x \in inherit}
      /\ wired'[o] = [p \in Pipes |-> IF his[o][p] \in Handles THEN table[his[o][p]]
                                      ELSE Closed]
      /\ \A q \in Objects \ {o} : /\ phase'[q] = phase[q] /\ child'[q] = child[q]
                                  /\ inherited'[q] = inherited[q] /\ wired'[q] = wired[q]
      /\ overlapped' = overlapped \cup Exposed(o)
      /\ UNCHANGED <<inherit, own, his, todo>>
  BY DEF Spawn, At, Goto, TypeOK
<1>p. phase[o] = "spawn" /\ phase'[o] = "launched" /\ own' = own /\ his' = his
  BY <1>4
<1>5. Touches(o)
  BY <1>2, FilesOfIt DEF Touches
<1>6. \A q \in Objects \ {o} : ObjectGood(q)'
  BY <1>3, <1>4, <1>5, Others DEF SameOf
<1>7. ObjectGood(o)
  BY DEF Good
<1>8. /\ Made(o)' = Made(o) /\ MadeHis(o)' = MadeHis(o) /\ MadeHis(o) = PipesOf(o)
      /\ \A p : HisEnd(o, p)' = HisEnd(o, p)
      /\ \A p \in Pipes \ PipesOf(o) : his[o][p] = 1
  <2>1. MadeHis(o) = PipesOf(o) /\ (UseParentErr[o] => his[o]["err"] = 1)
    BY <1>4, <1>7 DEF ObjectGood, NotMade, At
  <2>2. Made(o)' = Made(o) /\ MadeHis(o)' = MadeHis(o)
    <3>1. /\ Made(o) = {p \in PipesOf(o) : own[o][p] # Invalid}
          /\ Made(o)' = {p \in PipesOf(o) : own'[o][p] # Invalid}
      BY <1>p, MadeIs
    <3>2. /\ MadeHis(o) = {p \in PipesOf(o) : his[o][p] # Invalid}
          /\ MadeHis(o)' = {p \in PipesOf(o) : his'[o][p] # Invalid}
      BY <1>p, MadeHisIs
    <3> QED BY <1>p, <3>1, <3>2
  <2>3. ASSUME NEW p \in Pipes \ PipesOf(o) PROVE his[o][p] = 1
    <3>1. UseParentErr[o] /\ p = "err"
      BY <2>3 DEF PipesOf, Pipes
    <3> QED BY <2>1, <3>1
  <2>4. \A p : HisEnd(o, p)' = HisEnd(o, p)
    BY <1>p DEF HisEnd
  <2> QED BY <2>1, <2>2, <2>3, <2>4
<1>9. /\ \A r \in Made(o) : own[o][r] \in Handles /\ table[own[o][r]] = <<o, r, "ours">>
      /\ \A r \in MadeHis(o) : his[o][r] \in Handles /\ table[his[o][r]] = HisEnd(o, r)
  BY <1>p, Held DEF Launching, Opening
<1>10. NotMade(o)'
  BY <1>4, <1>7, <1>8 DEF ObjectGood, NotMade, At, Opening
<1>11. KnowsRight(o)'
  <2>1. /\ \A r \in Made(o) : own[o][r] \in Handles \ {g, h}
        /\ \A r \in MadeHis(o) : his[o][r] \in Handles \ {g, h}
    <3>1. \A r \in Pipes : <<o, r, "ours">> # Closed /\ HisEnd(o, r) # Closed
      BY FilesOfIt
    <3>2. Made(o) \subseteq Pipes /\ MadeHis(o) \subseteq Pipes
      BY MadeIs, MadeHisIs
    <3>3. table[g] = Closed /\ table[h] = Closed
      BY <1>2
    <3>4. ASSUME NEW r \in Made(o) PROVE own[o][r] \in Handles \ {g, h}
      BY <1>9, <3>1, <3>2, <3>3
    <3>5. ASSUME NEW r \in MadeHis(o) PROVE his[o][r] \in Handles \ {g, h}
      BY <1>9, <3>1, <3>2, <3>3
    <3> QED BY <3>4, <3>5
  <2>2. \A r \in Made(o)' : own'[o][r] \in Handles /\ table'[own'[o][r]] = <<o, r, "ours">>
    <3>1. \A x \in Handles \ {g, h} : table'[x] = table[x]
      BY <1>2
    <3> QED BY <1>p, <1>8, <1>9, <2>1, <3>1
  <2>3. \A r \in MadeHis(o)' : his'[o][r] \in Handles /\ table'[his'[o][r]] = HisEnd(o, r)'
    <3>1. \A x \in Handles \ {g, h} : table'[x] = table[x]
      BY <1>2
    <3> QED BY <1>p, <1>8, <1>9, <2>1, <3>1
  <2> QED BY <1>2, <1>3, <2>2, <2>3, RightIf
<1>12. AllKnown(o)'
  <2> SUFFICES ASSUME NEW x \in Handles, NEW f \in FilesOf(o), table'[x] = f
               PROVE  Knows(o, x, f)'
    BY DEF AllKnown
  <2>1. CASE x \in {g, h}
    BY <1>2, <1>3, <1>4, <2>1 DEF Knows, At, Spawned
  <2>2. CASE x \notin {g, h}
    <3>1. Knows(o, x, f)
      BY <1>2, <1>4, <1>7, <2>2 DEF ObjectGood, AllKnown, At
    <3>2. \/ \E r \in Made(o) : x = own[o][r] /\ f = <<o, r, "ours">>
          \/ \E r \in MadeHis(o) : x = his[o][r] /\ f = HisEnd(o, r)
      BY <1>4, <3>1 DEF Knows, At, Spawned, Alive
    <3>3. CASE \E r \in Made(o) : x = own[o][r] /\ f = <<o, r, "ours">>
      BY <1>4, <1>8, <3>3 DEF Knows, Launching
    <3>4. CASE \E r \in MadeHis(o) : x = his[o][r] /\ f = HisEnd(o, r)
      BY <1>4, <1>8, <3>4 DEF Knows, Launching
    <3> QED BY <3>2, <3>3, <3>4
  <2> QED BY <2>1, <2>2
<1>13. TodoGood(o)'
  BY <1>4, <1>7 DEF ObjectGood, TodoGood, At
<1>14. ChildGood(o)'
  <2>1. ASSUME NEW p \in Pipes
        PROVE  wired'[o][p] = IF p \in PipesOf(o) THEN HisEnd(o, p) ELSE StdErr
    <3>1. CASE p \in PipesOf(o)
      BY <1>4, <1>8, <1>9, <3>1
    <3>2. CASE p \notin PipesOf(o)
      <4>1. his[o][p] = 1 /\ table[1] = StdErr
        BY <1>8, <3>2 DEF Good, InheritGood
      <4> QED BY <1>4, <3>2, <4>1, HandleFacts
    <3> QED BY <3>1, <3>2
  <2>2. /\ \A p \in Pipes : HisEnd(o, p) \in {<<o, p, "his">>, <<o, p, "theirs">>}
        /\ \A p \in {"in", "out"} : HisEnd(o, p) = <<o, p, "his">> /\ p \in PipesOf(o)
    <3>1. \A p \in {"in", "out"} : own[o][p] # Invalid /\ p \in Pipes
      BY <1>7, PipeNames DEF ObjectGood, NotMade
    <3> QED BY <3>1, HisEnds, PipeNames
  <2>3. /\ \A p \in Pipes \ PipesOf(o) : wired'[o][p] = StdErr
        /\ \A p \in PipesOf(o) : /\ wired'[o][p] = HisEnd(o, p)'
                                 /\ wired'[o][p] \in {<<o, p, "his">>, <<o, p, "theirs">>}
        /\ \A p \in {"in", "out"} : wired'[o][p] = <<o, p, "his">>
    BY <1>8, <2>1, <2>2, PipeNames
  <2> QED BY <1>4, <2>3 DEF ChildGood, Opening
<1>15. InheritGood'
  <2>1. \A x \in inherit : table[x] # Closed /\ x \in Handles
    BY FilesApart DEF Good, InheritGood, TypeOK
  <2>2. \A x \in inherit' : table'[x] = table[x]
    BY <1>2, <1>4, <2>1
  <2> QED BY <1>4, <1>5, <2>2, InheritStays
<1>16. InheritedGood'
  <2>1. InheritedGood
    BY DEF Good
  <2>2. ASSUME NEW f \in inherited'[o], f # StdErr
        PROVE  \E q \in overlapped' \cup {o} : f \in HisOf(q)
    <3>1. PICK x \in inherit : f = table[x]
      BY <1>4, <2>2
    <3>2. PICK q \in Objects : f \in HisOf(q) /\ phase[q] \in {"spawn", "launched"}
      BY <2>2, <3>1 DEF Good, InheritGood
    <3>3. q \in Exposed(o) \cup {o}
      BY <3>2 DEF Exposed
    <3> QED BY <1>4, <3>2, <3>3
  <2>3. ASSUME NEW q \in Objects \ {o}
        PROVE  /\ child'[q] # "running" => inherited'[q] = {}
               /\ \A f \in inherited'[q] :
                    f = StdErr \/ \E r \in overlapped' \cup {q} : f \in HisOf(r)
    BY <1>4, <2>1, <2>3 DEF InheritedGood
  <2> QED BY <1>4, <2>2, <2>3 DEF InheritedGood
<1> QED BY <1>6, <1>10, <1>11, <1>12, <1>13, <1>14, <1>15, <1>16 DEF Good, ObjectGood

LEMMA GoodOfLaunched ==
    ASSUME TypeOK, Good, NEW o \in Objects, Launched(o)
    PROVE  Good'
<1>s. PICK S : S = {threadh[o]} \cup {his[o][p] : p \in PipesOf(o)}
  OBVIOUS
<1>1. /\ phase[o] = "launched" /\ phase'[o] = "live"
      /\ \A h \in Handles : table'[h] = IF h \in S THEN Closed ELSE table[h]
      /\ inherit' = inherit \ S
      /\ \A q \in Objects \ {o} : /\ phase'[q] = phase[q] /\ his'[q] = his[q]
                                  /\ threadh'[q] = threadh[q]
      /\ UNCHANGED <<own, processh, todo, child, inherited, wired, overlapped>>
  <2>1. CloseAll(S)
    BY <1>s DEF Launched
  <2>2. /\ \A h \in Handles : table'[h] = IF h \in S THEN Closed ELSE table[h]
        /\ inherit' = inherit \ S
    BY <2>1, WhatIsClosed
  <2>3. /\ phase[o] = "launched" /\ phase' = [phase EXCEPT ![o] = "live"]
        /\ threadh' = [threadh EXCEPT ![o] = Null] /\ his' = [his EXCEPT ![o] = NoHandles]
        /\ UNCHANGED <<own, processh, todo, child, inherited, wired, overlapped>>
    BY DEF Launched, At, Goto, children
  <2>4. /\ phase \in [Objects -> Phases] /\ his \in [Objects -> [Pipes -> Values]]
        /\ threadh \in [Objects -> Values]
    BY DEF TypeOK
  <2> QED BY <2>2, <2>3, <2>4
<1>2. ObjectGood(o)
  BY DEF Good
<1>3. Made(o)' = Made(o) /\ MadeHis(o) = PipesOf(o) /\ \A p : HisEnd(o, p)' = HisEnd(o, p)
  <2>1. MadeHis(o) = PipesOf(o)
    BY <1>1, <1>2 DEF ObjectGood, NotMade
  <2>2. /\ Made(o) = {p \in PipesOf(o) : own[o][p] # Invalid}
        /\ Made(o)' = {p \in PipesOf(o) : own'[o][p] # Invalid}
    BY <1>1, MadeIs
  <2>3. own' = own
    BY <1>1
  <2> QED BY <2>1, <2>2, <2>3 DEF HisEnd
<1>4. /\ \A r \in Made(o) : own[o][r] \in Handles /\ table[own[o][r]] = <<o, r, "ours">>
      /\ \A r \in PipesOf(o) : his[o][r] \in Handles /\ table[his[o][r]] = HisEnd(o, r)
      /\ processh[o] \in Handles /\ table[processh[o]] = Process(o)
      /\ threadh[o] \in Handles /\ table[threadh[o]] = Thread(o)
  BY <1>1, <1>3, Held DEF Launching, Spawned, At
<1>5. \A h \in S : h \in Handles /\ table[h] \in FilesOf(o)
  <2> TAKE h \in S
  <2>1. CASE h = threadh[o]
    BY <1>4, <2>1, FilesOfIt
  <2>2. CASE h # threadh[o]
    <3>1. PICK p \in PipesOf(o) : h = his[o][p]
      BY <1>s, <2>2
    <3>2. table[h] = HisEnd(o, p) /\ h \in Handles /\ p \in Pipes
      BY <1>4, <3>1, PipeNames
    <3> QED BY <3>2, FilesOfIt
  <2> QED BY <2>1, <2>2
<1>6. Touches(o)
  BY <1>1, <1>5 DEF Touches
<1>7. \A q \in Objects \ {o} : ObjectGood(q)'
  BY <1>1, <1>6, Others DEF SameOf
<1>8. NotMade(o)'
  BY <1>1, <1>2 DEF ObjectGood, NotMade, At, Opening
<1>9. KnowsRight(o)'
  <2>1. \A h \in S : table[h] = Thread(o) \/ \E p \in Pipes : table[h] = HisEnd(o, p)
    BY <1>s, <1>4, PipeNames
  <2>2. \A r \in Made(o) : own[o][r] \notin S
    <3>1. ASSUME NEW r \in Made(o), own[o][r] \in S PROVE FALSE
      <4>1. table[own[o][r]] = <<o, r, "ours">> /\ r \in Pipes
        BY <1>4, MadeIs
      <4>2. Thread(o) # <<o, r, "ours">> /\ \A p \in Pipes : HisEnd(o, p) # <<o, r, "ours">>
        BY <4>1, FilesApart, HisEnds
      <4> QED BY <2>1, <3>1, <4>1, <4>2
    <3> QED BY <3>1
  <2>3. processh[o] \notin S
    <3>1. Thread(o) # Process(o) /\ \A p \in Pipes : HisEnd(o, p) # Process(o)
      BY FilesApart, HisEnds
    <3> QED BY <1>4, <2>1, <3>1
  <2>4. \A r \in Made(o)' : own'[o][r] \in Handles /\ table'[own'[o][r]] = <<o, r, "ours">>
    <3>1. \A r \in Made(o) : table'[own[o][r]] = table[own[o][r]]
      BY <1>1, <1>4, <2>2
    <3>2. own' = own
      BY <1>1
    <3> QED BY <1>3, <1>4, <3>1, <3>2
  <2>5. processh'[o] \in Handles /\ table'[processh'[o]] = Process(o)
    BY <1>1, <1>4, <2>3
  <2>6. phase'[o] \notin Launching
    BY <1>1 DEF Launching, Opening
  <2> QED BY <1>1, <2>4, <2>5, <2>6, RightIf DEF At
<1>10. AllKnown(o)'
  <2> SUFFICES ASSUME NEW x \in Handles, NEW f \in FilesOf(o), table'[x] = f
               PROVE  Knows(o, x, f)'
    BY DEF AllKnown
  <2>1. x \notin S /\ table[x] = f
    BY <1>1, FilesApart
  <2>2. Knows(o, x, f)
    BY <1>1, <1>2, <2>1 DEF ObjectGood, AllKnown, At
  <2>3. \/ \E r \in Made(o) : x = own[o][r] /\ f = <<o, r, "ours">>
        \/ x = processh[o] /\ f = Process(o)
    BY <1>s, <1>1, <1>3, <2>1, <2>2 DEF Knows
  <2> QED BY <1>1, <1>3, <2>3 DEF Knows, Spawned, Alive
<1>11. TodoGood(o)'
  BY <1>1, <1>2 DEF ObjectGood, TodoGood, At
<1>12. ChildGood(o)'
  BY <1>1, <1>2, <1>3 DEF ObjectGood, ChildGood, Opening, Spawned
<1>13. InheritGood'
  <2>1. inherit \subseteq Handles
    BY DEF TypeOK
  <2>2. \A h \in inherit' : h \in Handles \ S /\ table'[h] = table[h]
    BY <1>1, <2>1
  <2>3. \A h \in inherit' : table'[h] \notin HisOf(o)
    <3>1. ASSUME NEW h \in inherit', table[h] \in HisOf(o) PROVE FALSE
      <4>1. table[h] \in FilesOf(o) /\ h \in Handles
        BY <2>2, <3>1 DEF FilesOf
      <4>2. Knows(o, h, table[h])
        BY <1>1, <1>2, <4>1 DEF ObjectGood, AllKnown, At
      <4>3. table[h] \notin OursOf(o)
        BY <3>1, FilesApart
      <4>4. /\ table[h] # Process(o) /\ table[h] # Thread(o)
            /\ \A p \in Made(o) : table[h] # <<o, p, "ours">>
        <5>1. Process(o) \in OursOf(o) /\ Thread(o) \in OursOf(o)
          BY FilesApart
        <5>2. \A p \in Made(o) : <<o, p, "ours">> \in OursOf(o)
          BY FilesApart, MadeIs
        <5> QED BY <4>3, <5>1, <5>2
      <4>5. \E r \in MadeHis(o) : h = his[o][r]
        BY <4>2, <4>4 DEF Knows
      <4> QED BY <1>s, <1>3, <2>2, <4>5
    <3> QED BY <2>2, <3>1
  <2> QED BY <1>1, <1>6, <2>2, <2>3, InheritStays
<1>14. InheritedGood'
  BY <1>1, InheritedStays DEF Good
<1> QED BY <1>7, <1>8, <1>9, <1>10, <1>11, <1>12, <1>13, <1>14 DEF Good, ObjectGood

-----------------------------------------------------------------------------
\* ~child_process()

LEMMA GoodOfDestroyWaited ==
    ASSUME TypeOK, Good, OneOwner, NEW o \in Objects, DestroyWaited(o)
    PROVE  Good'
<1>1. /\ phase[o] = "dtor_wait" /\ phase'[o] = "closing" /\ Returns(processh[o])
      /\ todo'[o] = ToClose(o)
      /\ \A q \in Objects \ {o} : phase'[q] = phase[q] /\ todo'[q] = todo[q]
      /\ UNCHANGED <<table, inherit, own, his, processh, threadh, child,
                     inherited, wired, overlapped>>
  BY DEF DestroyWaited, At, Goto, handles, children, TypeOK
<1>2. Touches(o)
  BY <1>1 DEF Touches
<1>3. \A q \in Objects \ {o} : ObjectGood(q)'
  BY <1>1, <1>2, Others DEF SameOf
<1>4. ObjectGood(o) /\ phase[o] \in Spawned \cap Alive
  BY <1>1 DEF Good, Spawned, Alive
<1>h. /\ \A r \in Made(o) : own[o][r] \in Handles /\ table[own[o][r]] = <<o, r, "ours">>
      /\ processh[o] \in Handles /\ table[processh[o]] = Process(o)
  BY <1>4, Held
<1>m. \A r \in PipesOf(o) : r \in Made(o) \/ (own[o][r] = Invalid /\ r = "err")
  <2>1. Made(o) = {p \in PipesOf(o) : own[o][p] # Invalid}
    BY <1>1, MadeIs
  <2>2. \A r \in Pipes : own[o][r] = Invalid => r = "err"
    BY <1>4 DEF ObjectGood, NotMade
  <2> QED BY <2>1, <2>2, PipeNames
<1>5. child[o] = "exited"
  BY <1>1, <1>h DEF Returns
<1>6. /\ \A r \in PipesOf(o) : \/ own[o][r] = Invalid
                               \/ own[o][r] \in Handles /\ table[own[o][r]] \in OursOf(o)
      /\ processh[o] \in Handles /\ table[processh[o]] \in OursOf(o)
  <2>1. \A r \in Made(o) : <<o, r, "ours">> \in OursOf(o)
    BY MadeIs, FilesApart
  <2>2. Process(o) \in OursOf(o)
    BY FilesApart
  <2>3. ASSUME NEW r \in PipesOf(o), own[o][r] # Invalid
        PROVE  own[o][r] \in Handles /\ table[own[o][r]] \in OursOf(o)
    BY <1>h, <1>m, <2>1, <2>3
  <2> QED BY <1>h, <2>2, <2>3
<1>7. PICK s : s = ToClose(o)
  OBVIOUS
<1>8. /\ \A i \in 1 .. Len(s) : \/ s[i] = processh[o]
                                \/ \E p \in PipesOf(o) : s[i] = own[o][p]
      /\ \E i \in 1 .. Len(s) : s[i] = processh[o]
      /\ \A p \in PipesOf(o) : \E i \in 1 .. Len(s) : s[i] = own[o][p]
      /\ \A i, j \in 1 .. Len(s) : s[i] = s[j] => i = j
  <2>1. ~(files[o] /\ streams[o])
    BY DEF OneOwner
  <2>2. /\ \A p \in PipesOf(o) : own[o][p] # processh[o]
        /\ \A p, q \in PipesOf(o) : own[o][p] = own[o][q] => p = q
    <3>1. /\ \A p, q \in Made(o) : own[o][p] = own[o][q] => p = q
          /\ \A p \in Made(o) : own[o][p] # processh[o]
      BY <1>4, HeldApart
    <3>2. processh[o] # Invalid /\ \A p \in Made(o) : own[o][p] # Invalid
      BY <1>h, HandleFacts
    <3> QED BY <1>m, <3>1, <3>2
  <2> QED BY <1>7, <2>1, <2>2, ClosesEach
<1>9. NotMade(o)' /\ KnowsRight(o)'
  <2>1. phase'[o] \notin Launching \cup Spawned \cup Alive
    BY <1>1 DEF Launching, Opening, Spawned, Alive
  <2>2. KnowsRight(o)'
    BY <2>1, RightIf DEF At, Launching
  <2>3. \A p \in Pipes : own'[o][p] = Invalid => p = "err" /\ ~UseParentErr[o]
    BY <1>1, <1>4 DEF ObjectGood, NotMade
  <2> QED BY <1>1, <2>2, <2>3 DEF NotMade, At, Opening
<1>10. AllKnown(o)'
  <2> SUFFICES ASSUME NEW x \in Handles, NEW f \in FilesOf(o), table'[x] = f
               PROVE  \E i \in 1 .. Len(s) : s[i] = x
    BY <1>1, <1>7 DEF AllKnown, At
  <2>1. Knows(o, x, f)
    BY <1>1, <1>4 DEF ObjectGood, AllKnown, At
  <2>2. x = processh[o] \/ \E p \in Made(o) : x = own[o][p]
    BY <1>1, <2>1 DEF Knows, At, Launching, Opening
  <2>3. Made(o) \subseteq PipesOf(o)
    BY MadeIs
  <2> QED BY <1>8, <2>2, <2>3
<1>11. TodoGood(o)'
  <2>1. \A i \in 1 .. Len(s) : \/ s[i] = Invalid
                               \/ s[i] \in Handles /\ table[s[i]] \in OursOf(o)
    BY <1>6, <1>8
  <2> QED BY <1>1, <1>7, <1>8, <2>1 DEF TodoGood, At
<1>12. ChildGood(o)'
  BY <1>1, <1>5 DEF ChildGood, Opening, Spawned, Alive
<1>13. InheritGood'
  BY <1>1, <1>2, InheritStays
<1>14. InheritedGood'
  BY <1>1, InheritedStays DEF Good
<1> QED BY <1>3, <1>9, <1>10, <1>11, <1>12, <1>13, <1>14 DEF Good, ObjectGood

LEMMA GoodOfCloseNext ==
    ASSUME TypeOK, Good, NEW o \in Objects, CloseNext(o)
    PROVE  Good'
<1>1. PICK s : s = todo[o]
  OBVIOUS
<1>2. /\ phase[o] = "closing" /\ s # << >> /\ CloseAll({Head(s)})
      /\ todo'[o] = Tail(s)
      /\ \A q \in Objects \ {o} : todo'[q] = todo[q]
      /\ UNCHANGED <<phase, own, his, processh, threadh, child, inherited, wired,
                     overlapped>>
  BY <1>1 DEF CloseNext, At, handles, children, TypeOK
<1>3. PICK t : t = Tail(s)
  OBVIOUS
<1>4. /\ 1 \in 1 .. Len(s) /\ Head(s) = s[1]
      /\ \A i \in 1 .. Len(t) : i + 1 \in 1 .. Len(s) /\ t[i] = s[i + 1] /\ i + 1 # 1
      /\ \A i \in 1 .. Len(s) : i = 1 \/ (i - 1 \in 1 .. Len(t) /\ t[i - 1] = s[i])
      /\ \A i, j \in 1 .. Len(t) : i + 1 = j + 1 => i = j
  <2>1. s \in Seq(Values)
    BY <1>1 DEF TypeOK
  <2>2. Len(s) \in Nat /\ Len(s) >= 1 /\ Head(s) = s[1]
    BY <1>2, <2>1
  <2>3. Len(t) = Len(s) - 1 /\ \A i \in 1 .. Len(s) - 1 : t[i] = s[i + 1]
    BY <1>2, <1>3, <2>1
  <2>4. \A i \in 1 .. Len(s) : i = 1 \/ (i - 1 \in 1 .. Len(s) - 1 /\ (i - 1) + 1 = i)
    BY <2>2
  <2> QED BY <2>2, <2>3, <2>4
<1>5. ObjectGood(o)
  BY DEF Good
<1>6. /\ \A i \in 1 .. Len(s) : \/ s[i] = Invalid
                                \/ s[i] \in Handles /\ table[s[i]] \in OursOf(o)
      /\ \A i, j \in 1 .. Len(s) : s[i] = s[j] => i = j
  BY <1>1, <1>5 DEF ObjectGood, TodoGood
<1>7. PICK x : x = s[1]
  OBVIOUS
<1>8. /\ x \in Handles => table[x] \in OursOf(o) /\ table'[x] = Closed
      /\ inherit' = inherit \ {x}
      /\ \A h \in Handles \ {x} : table'[h] = table[h]
  <2>1. /\ \A h \in Handles : table'[h] = IF h \in {x} THEN Closed ELSE table[h]
        /\ inherit' = inherit \ {x}
    BY <1>2, <1>4, <1>7, WhatIsClosed
  <2>2. x \in Handles => table[x] \in OursOf(o)
    BY <1>4, <1>6, <1>7, HandleFacts
  <2> QED BY <2>1, <2>2
<1>9. Touches(o)
  BY <1>8, FilesApart DEF Touches, FilesOf
<1>10. \A q \in Objects \ {o} : ObjectGood(q)'
  BY <1>2, <1>9, Others DEF SameOf
<1>11. NotMade(o)' /\ KnowsRight(o)'
  <2>1. phase'[o] \notin Launching \cup Spawned \cup Alive
    BY <1>2 DEF Launching, Opening, Spawned, Alive
  <2>2. KnowsRight(o)'
    BY <2>1, RightIf DEF At, Launching
  <2> QED BY <1>2, <1>5, <2>2 DEF ObjectGood, NotMade, At, Opening
<1>12. AllKnown(o)'
  <2> SUFFICES ASSUME NEW h \in Handles, NEW f \in FilesOf(o), table'[h] = f
               PROVE  \E i \in 1 .. Len(t) : t[i] = h
    BY <1>2, <1>3 DEF AllKnown, At
  <2>1. h # x /\ table[h] = f
    BY <1>8, FilesApart
  <2>2. ~Knows(o, h, f)
    BY <1>2 DEF Knows, At, Launching, Opening, Spawned, Alive
  <2>3. PICK i \in 1 .. Len(s) : s[i] = h
    BY <1>1, <1>2, <1>5, <2>1, <2>2 DEF ObjectGood, AllKnown, At
  <2> QED BY <1>4, <1>7, <2>1, <2>3
<1>13. TodoGood(o)'
  <2>1. \A i \in 1 .. Len(t) :
           /\ t[i] # x
           /\ \/ t[i] = Invalid
              \/ t[i] \in Handles /\ table[t[i]] \in OursOf(o)
    <3> TAKE i \in 1 .. Len(t)
    <3>1. i + 1 \in 1 .. Len(s) /\ t[i] = s[i + 1] /\ i + 1 # 1
      BY <1>4
    <3>2. s[i + 1] # s[1]
      BY <1>4, <1>6, <3>1
    <3>3. \/ s[i + 1] = Invalid
          \/ s[i + 1] \in Handles /\ table[s[i + 1]] \in OursOf(o)
      BY <1>6, <3>1
    <3> QED BY <1>7, <3>1, <3>2, <3>3
  <2>2. \A i \in 1 .. Len(t) : \/ t[i] = Invalid
                               \/ t[i] \in Handles /\ table'[t[i]] \in OursOf(o)
    BY <1>8, <2>1
  <2>3. \A i, j \in 1 .. Len(t) : t[i] = t[j] => i = j
    BY <1>4, <1>6
  <2> QED BY <1>2, <1>3, <2>2, <2>3 DEF TodoGood, At
<1>14. ChildGood(o)'
  BY <1>2, <1>5 DEF ObjectGood, ChildGood, Spawned, Alive, Opening
<1>15. InheritGood'
  <2>1. \A h \in inherit' : table'[h] = table[h]
    BY <1>8 DEF TypeOK
  <2> QED BY <1>2, <1>8, <1>9, <2>1, InheritStays
<1>16. InheritedGood'
  BY <1>2, InheritedStays DEF Good
<1> QED BY <1>10, <1>11, <1>12, <1>13, <1>14, <1>15, <1>16 DEF Good, ObjectGood

LEMMA GoodOfDestroyed ==
    ASSUME TypeOK, Good, NEW o \in Objects, Destroyed(o)
    PROVE  Good'
<1>1. /\ phase[o] = "closing" /\ phase'[o] = "gone" /\ todo[o] = << >>
      /\ \A q \in Objects \ {o} : phase'[q] = phase[q] /\ own'[q] = own[q]
                                  /\ processh'[q] = processh[q]
      /\ own'[o] = NoHandles
      /\ UNCHANGED <<table, inherit, his, threadh, todo, child, inherited, wired,
                     overlapped>>
  BY DEF Destroyed, At, Goto, children, TypeOK
<1>2. Touches(o)
  BY <1>1 DEF Touches
<1>3. \A q \in Objects \ {o} : ObjectGood(q)'
  BY <1>1, <1>2, Others DEF SameOf
<1>4. ObjectGood(o)
  BY DEF Good
<1>5. NotMade(o)' /\ KnowsRight(o)'
  <2>1. phase'[o] \notin Launching \cup Spawned \cup Alive
    BY <1>1 DEF Launching, Opening, Spawned, Alive
  <2>2. KnowsRight(o)'
    BY <2>1, RightIf DEF At, Launching
  <2>3. \A p \in Pipes : own'[o][p] # Invalid
    BY <1>1, HandleFacts DEF NoHandles
  <2> QED BY <1>1, <2>2, <2>3 DEF NotMade, At, Opening
<1>6. AllKnown(o)'
  <2>1. \A h, f : ~Knows(o, h, f)
    BY <1>1 DEF Knows, At, Launching, Opening, Spawned, Alive
  <2>2. \A h \in Handles, f \in FilesOf(o) : table[h] # f
    BY <1>1, <1>4, <2>1 DEF ObjectGood, AllKnown, At
  <2> QED BY <1>1, <2>2 DEF AllKnown
<1>7. TodoGood(o)' /\ ChildGood(o)'
  BY <1>1, <1>4 DEF ObjectGood, TodoGood, ChildGood, At, Opening, Spawned, Alive
<1>8. InheritGood'
  BY <1>1, <1>2, InheritStays
<1>9. InheritedGood'
  BY <1>1, InheritedStays DEF Good
<1> QED BY <1>3, <1>5, <1>6, <1>7, <1>8, <1>9 DEF Good, ObjectGood

-----------------------------------------------------------------------------
\* The inductive invariant

LEMMA GoodStutter == Good /\ UNCHANGED vars => Good'
<1> SUFFICES ASSUME Good, UNCHANGED vars PROVE Good'
  OBVIOUS
<1>1. \A o \in Objects : ObjectGood(o)'
  <2> TAKE o \in Objects
  <2>1. /\ Made(o)' = Made(o) /\ MadeHis(o)' = MadeHis(o)
        /\ \A p : HisEnd(o, p)' = HisEnd(o, p)
    BY DEF Made, MadeHis, HisEnd, At, vars, handles
  <2>2. \A h, f : Knows(o, h, f)' <=> Knows(o, h, f)
    BY <2>1 DEF Knows, At, vars, handles
  <2> QED BY <2>1, <2>2 DEF Good, ObjectGood, NotMade, KnowsRight, AllKnown,
             TodoGood, ChildGood, At, vars, handles, children
<1>2. InheritGood' /\ InheritedGood'
  BY DEF Good, InheritGood, InheritedGood, vars, children
<1> QED BY <1>1, <1>2 DEF Good

\* FILE *s and streams, once made, stay.
LEMMA OwnersStay == TypeOK /\ [Next]_vars /\ OneOwner' => OneOwner
<1> SUFFICES ASSUME TypeOK, [Next]_vars PROVE \A q \in Objects :
        (files[q] => files'[q]) /\ (streams[q] => streams'[q])
  BY DEF OneOwner
<1>1. CASE Next
  <2> PICK o \in Objects : Busy(o) \/ Use(o) \/ ChildExits(o)
    BY <1>1 DEF Next
  <2> USE DEF TypeOK
  <2>1. CASE Launch(o)
    BY <2>1 DEF Launch, Pipe, PipeFails, ParentErr, NamedPipe,
         NamedPipeFails, OpenPipe, OpenFails, SetInherit,
       LaunchFails, Spawn, Launched
  <2>2. CASE ReadClock(o) \/ ReadClockAgain(o) \/ WaitOver(o) \/ ChildExits(o)
    BY <2>2 DEF ReadClock, ReadClockAgain, WaitOver, ChildExits
  <2>3. CASE DestroyWaited(o) \/ CloseNext(o) \/ Destroyed(o)
    BY <2>3 DEF DestroyWaited, CloseNext, Destroyed
  <2>4. CASE Use(o)
    BY <2>4 DEF Use, UseFiles, UseStreams, Wait, WaitUntil, Destroy
  <2> QED BY <2>1, <2>2, <2>3, <2>4 DEF Busy
<1>2. CASE UNCHANGED vars
  BY <1>2 DEF vars
<1> QED BY <1>1, <1>2

LEMMA GoodStep ==
    ASSUME TypeOK, Good, OneOwner, [Next]_vars
    PROVE  Good'
<1>1. CASE Next
  <2> PICK o \in Objects : Busy(o) \/ Use(o) \/ ChildExits(o)
    BY <1>1 DEF Next
  <2>1. CASE Launch(o)
    <3>1. ASSUME NEW p \in Pipes, Pipe(o, p) PROVE Good'
      BY <3>1, GoodOfPipe
    <3>2. CASE ParentErr(o) \/ NamedPipe(o) \/ NamedPipeFails(o) \/ OpenPipe(o) \/ OpenFails(o)
      BY <3>2, GoodOfNoPipe, GoodOfNamedPipe, GoodOfOpenPipe
    <3>3. CASE LaunchFails(o) \/ (\E p \in Pipes : PipeFails(o, p))
      BY <3>3, GoodOfFailure
    <3> QED BY <2>1, <3>1, <3>2, <3>3, GoodOfSetInherit, GoodOfSpawn,
               GoodOfLaunched DEF Launch
  <2>2. CASE Use(o) \/ ReadClock(o) \/ ReadClockAgain(o) \/ WaitOver(o)
    BY <2>2, GoodOfCalls
  <2>3. CASE DestroyWaited(o) \/ CloseNext(o) \/ Destroyed(o) \/ ChildExits(o)
    BY <2>3, GoodOfDestroyWaited, GoodOfCloseNext, GoodOfDestroyed, GoodOfChildExits
  <2> QED BY <2>1, <2>2, <2>3 DEF Busy
<1>2. CASE UNCHANGED vars
  BY <1>2, GoodStutter
<1> QED BY <1>1, <1>2

LEMMA Invariance == Spec => []IInv
<1>1. Init => IInv
  BY TypeInit, GoodInit DEF IInv
<1>2. IInv /\ [Next]_vars => IInv'
  BY TypeStep, GoodStep, OwnersStay DEF IInv
<1> QED BY <1>1, <1>2, PTL DEF Spec

-----------------------------------------------------------------------------
\* The properties

\* Each variable keeps its type: the timeout of a wait is a DWORD, whatever the
\* clock said, and what is to be closed are handles, null or invalid ones.
THEOREM TypeCorrect == Spec => []TypeOK
<1>1. IInv => TypeOK
  BY DEF IInv
<1> QED BY <1>1, Invariance, PTL

\* ~child_process() closes each handle of its object once and no other's, also
\* where the FILE *s or the streams own them (destructor of child_process).
THEOREM OwnHandlesOnly == Spec => ClosesOnlyOwn
<1>1. IInv => [\A o \in Objects : OneOwner /\ todo[o] # << >> /\ todo'[o] # todo[o]
                 => \/ Head(todo[o]) = Invalid
                    \/ Head(todo[o]) \in Handles /\ table[Head(todo[o])] \in OursOf(o)]_vars
  <2> SUFFICES ASSUME IInv, OneOwner, NEW o \in Objects, todo[o] # << >>
               PROVE  \/ Head(todo[o]) = Invalid
                      \/ Head(todo[o]) \in Handles /\ table[Head(todo[o])] \in OursOf(o)
    OBVIOUS
  <2>1. 1 \in 1 .. Len(todo[o]) /\ Head(todo[o]) = todo[o][1]
    <3>1. todo[o] \in Seq(Values)
      BY DEF IInv, TypeOK
    <3> QED BY <3>1
  <2>2. TodoGood(o)
    BY DEF IInv, Good, ObjectGood
  <2> QED BY <2>1, <2>2 DEF TodoGood
<1> QED BY <1>1, Invariance, PTL DEF ClosesOnlyOwn

\* An object that was destroyed, or whose launch failed behind its guards, has
\* left neither a handle nor a running child (launch() and the destructor).
THEOREM NothingIsLeft == Spec => []NothingLeft
<1>1. IInv => NothingLeft
  <2> SUFFICES ASSUME IInv, OneOwner, NEW o \in Objects, phase[o] = "gone"
               PROVE  /\ \A h \in Handles : table[h] \notin FilesOf(o)
                      /\ child[o] # "running"
    BY DEF NothingLeft, At, FilesOf
  <2>1. ObjectGood(o)
    BY DEF IInv, Good
  <2>2. \A h, f : ~Knows(o, h, f)
    BY DEF Knows, At, Launching, Opening, Spawned, Alive
  <2> QED BY <2>1, <2>2 DEF ObjectGood, AllKnown, ChildGood, At
<1> QED BY <1>1, Invariance, PTL

\* A child has the ends of its own pipes, whoever else is launched meanwhile and
\* whatever fails; only where our end of its stderr is invalid may it have
\* another's; and no child has one of ours (launch()).
THEOREM ChildrenAreWired == Spec => []ChildWired
<1>1. IInv => ChildWired
  <2> SUFFICES ASSUME IInv, OneOwner, NEW o \in Objects, child[o] = "running"
               PROVE  /\ \A p \in Pipes \ PipesOf(o) : wired[o][p] = StdErr
                      /\ \A p \in PipesOf(o) :
                           IF phase[o] \in Alive THEN wired[o][p] = HisEnd(o, p)
                           ELSE wired[o][p] \in {<<o, p, "his">>, <<o, p, "theirs">>}
                      /\ wired[o]["in"] = <<o, "in", "his">>
                      /\ wired[o]["out"] = <<o, "out", "his">>
                      /\ \A q \in Objects : inherited[o] \cap OursOf(q) = {}
    BY DEF ChildWired
  <2>1. ChildGood(o) /\ InheritedGood /\ overlapped \subseteq Objects
    BY DEF IInv, Good, ObjectGood, TypeOK
  <2>2. ASSUME NEW q \in Objects, NEW f \in inherited[o], f \in OursOf(q) PROVE FALSE
    <3>1. f # StdErr
      BY <2>2, FilesApart DEF FilesOf
    <3>2. PICK r \in Objects : f \in HisOf(r)
      BY <2>1, <2>2, <3>1 DEF InheritedGood
    <3> QED BY <2>2, <3>2 DEF OursOf, HisOf
  <2>3. \A p \in PipesOf(o) : /\ wired[o][p] \in {<<o, p, "his">>, <<o, p, "theirs">>}
                              /\ phase[o] \in Alive => wired[o][p] = HisEnd(o, p)
    BY <2>1 DEF ChildGood, Spawned
  <2>4. /\ \A p \in Pipes \ PipesOf(o) : wired[o][p] = StdErr
        /\ wired[o]["in"] = <<o, "in", "his">> /\ wired[o]["out"] = <<o, "out", "his">>
    BY <2>1 DEF ChildGood
  <2> QED BY <2>2, <2>3, <2>4
<1> QED BY <1>1, Invariance, PTL

\* Once a child has exited the end of its output can be read, unless another
\* thread spawned between its SetHandleInformation() and its guards (launch()).
THEOREM OutputHasAnEnd == Spec => []OutputEnds
<1>1. IInv => OutputEnds
  <2> SUFFICES ASSUME IInv, OneOwner, NEW o \in Objects, phase[o] \in Alive,
                      child[o] = "exited", o \notin overlapped
               PROVE  /\ \A h \in Handles : table[h] \notin HisOf(o)
                      /\ \A q \in Objects : inherited[q] \cap HisOf(o) = {}
    BY DEF OutputEnds
  <2>1. AllKnown(o) /\ InheritedGood /\ overlapped \subseteq Objects
    BY DEF IInv, Good, ObjectGood, TypeOK
  <2>2. ASSUME NEW h \in Handles, table[h] \in HisOf(o) PROVE FALSE
    <3>1. table[h] \notin OursOf(o)
      BY <2>2, FilesApart
    <3>2. Knows(o, h, table[h])
      BY <2>1, <2>2 DEF AllKnown, At, Alive, FilesOf
    <3>3. /\ table[h] # Process(o) /\ phase[o] \notin Launching
          /\ ~At(o, "launched")
      BY <3>1, FilesApart DEF Alive, Launching, Opening, At
    <3>4. PICK p \in Made(o) : table[h] = <<o, p, "ours">>
      BY <3>2, <3>3 DEF Knows
    <3>5. <<o, p, "ours">> \in OursOf(o)
      BY FilesApart, MadeIs
    <3> QED BY <3>1, <3>4, <3>5
  <2>3. ASSUME NEW q \in Objects, NEW f \in inherited[q], f \in HisOf(o) PROVE FALSE
    <3>1. f # StdErr /\ f \in FilesOf(o)
      BY <2>3, FilesApart DEF FilesOf
    <3>2. PICK r \in overlapped \cup {q} : f \in HisOf(r)
      BY <2>1, <2>3, <3>1 DEF InheritedGood
    <3>3. r = o
      BY <2>1, <3>1, <3>2, FilesApart DEF FilesOf
    <3>4. child[o] # "running"
      OBVIOUS
    <3> QED BY <2>1, <2>3, <3>2, <3>3, <3>4 DEF InheritedGood
  <2> QED BY <2>2, <2>3
<1> QED BY <1>1, Invariance, PTL

-----------------------------------------------------------------------------
\* ChildWindows implements ChildContract.

\* A step of an object shows of no other.
LEMMA OthersShowNothing ==
    ASSUME TypeOK, NEW o \in Objects, Busy(o) \/ Use(o) \/ ChildExits(o)
    PROVE  /\ \A q \in Objects \ {o} :
                /\ phase'[q] = phase[q] /\ child'[q] = child[q] /\ due'[q] = due[q]
                /\ timeout'[q] = timeout[q] /\ ObjectNow(q)' = ObjectNow(q)
           /\ Spawn(o) \/ ChildExits(o) \/ child' = child
           /\ UseFiles(o) \/ UseStreams(o) \/ UNCHANGED <<files, streams>>
<1>1. /\ \A q \in Objects \ {o} : phase'[q] = phase[q]
      /\ Spawn(o) \/ ChildExits(o) \/ child' = child
  BY DEF Busy, Use, Launch, Pipe, PipeFails, ParentErr, NamedPipe,
         NamedPipeFails, OpenPipe, OpenFails, SetInherit,
         LaunchFails, Spawn, Launched, UseFiles, UseStreams, Wait, WaitUntil,
         ReadClock, ReadClockAgain, WaitOver, Destroy, DestroyWaited, CloseNext,
         Destroyed, ChildExits, Goto, children, TypeOK
<1>2. \A q \in Objects \ {o} : due'[q] = due[q] /\ timeout'[q] = timeout[q]
  BY DEF Busy, Use, Launch, Pipe, PipeFails, ParentErr, NamedPipe,
         NamedPipeFails, OpenPipe, OpenFails, SetInherit,
         LaunchFails, Spawn, Launched, UseFiles, UseStreams, Wait, WaitUntil,
         ReadClock, ReadClockAgain, WaitOver, Destroy, DestroyWaited, CloseNext,
         Destroyed, ChildExits, waits, TypeOK
<1>3. \A q \in Objects \ {o} : child'[q] = child[q]
  BY <1>1 DEF Spawn, ChildExits, TypeOK
<1>4. UseFiles(o) \/ UseStreams(o) \/ UNCHANGED <<files, streams>>
  BY DEF Busy, Use, Launch, Pipe, PipeFails, ParentErr, NamedPipe, NamedPipeFails,
         OpenPipe, OpenFails, SetInherit, LaunchFails, Spawn, Launched, Wait,
         WaitUntil, ReadClock, ReadClockAgain, WaitOver, Destroy, DestroyWaited,
         CloseNext, Destroyed, ChildExits
<1> QED BY <1>1, <1>2, <1>3, <1>4 DEF ObjectNow, At

\* How the step of an object shows in the contract.
LEMMA HowItGoes ==
    ASSUME NEW o \in Objects, NEW from, NEW to,
           \A q \in Objects \ {o} : ObjectNow(q)' = ObjectNow(q),
           child' = child, ObjectNow(o) = from, ObjectNow(o)' = to,
           UNCHANGED <<files, streams>>
    PROVE  Contract!Goes(o, from, to)
  BY DEF Contract!Goes, OneOwner

LEMMA NothingShows ==
    ASSUME \A q \in Objects : ObjectNow(q)' = ObjectNow(q), child' = child,
           UNCHANGED <<files, streams>>
    PROVE  UNCHANGED Contract!vars
  BY DEF Contract!vars, OneOwner

\* Where each handle has one owner a wait without a deadline returns only when
\* the object's own child has exited: the handle is that of its process.
LEMMA ReturnsOfOwn ==
    ASSUME IInv, NEW o \in Objects, phase[o] \in Spawned, Returns(processh[o])
    PROVE  Contract!Over(o)
<1>1. CASE OneOwner
  <2>1. processh[o] \in Handles /\ table[processh[o]] = Process(o)
    BY <1>1, Held DEF IInv
  <2> QED BY <2>1 DEF Returns, Contract!Over
<1>2. CASE ~OneOwner
  BY <1>2 DEF Contract!Over
<1> QED BY <1>1, <1>2

LEMMA AtFirst ==
    ASSUME NEW o \in Objects, phase[o] \in Launching
    PROVE  ObjectNow(o) = "launching"
  BY DEF ObjectNow, Launching, Opening, At

\* The steps of launch().
LEMMA LaunchShows ==
    ASSUME TypeOK, ContractInv, NEW o \in Objects, Launch(o)
    PROVE  [Contract!Next]_(Contract!vars)
<1>1. \A q \in Objects \ {o} : ObjectNow(q)' = ObjectNow(q)
  BY OthersShowNothing DEF Busy
<1>f. UNCHANGED <<files, streams>>
  BY DEF Launch, Pipe, PipeFails, ParentErr, NamedPipe, NamedPipeFails, OpenPipe,
         OpenFails, SetInherit, LaunchFails, Spawn, Launched
<1>2. phase[o] \in Launching /\ ObjectNow(o) = "launching"
  <2>1. phase[o] \in Launching
    BY DEF Launch, Pipe, PipeFails, ParentErr, NamedPipe,
         NamedPipeFails, OpenPipe, OpenFails, SetInherit,
           LaunchFails, Spawn, Launched, At, PipePhase, Pipes, Launching, Opening
  <2> QED BY <2>1, AtFirst
<1>3. CASE \/ \E p \in Pipes : Pipe(o, p)
           \/ ParentErr(o) \/ NamedPipe(o) \/ NamedPipeFails(o)
           \/ OpenPipe(o) \/ OpenFails(o) \/ SetInherit(o)
  <2>1. phase'[o] \in Launching /\ child' = child
    BY <1>3 DEF Pipe, ParentErr, NamedPipe, NamedPipeFails, OpenPipe, OpenFails, SetInherit, Goto, AfterPipe, Pipes,
                Launching, Opening, children, TypeOK
  <2>2. ObjectNow(o)' = "launching"
    BY <2>1 DEF ObjectNow, Launching, Opening, At
  <2>3. \A q \in Objects : ObjectNow(q)' = ObjectNow(q)
    BY <1>1, <1>2, <2>2
  <2> QED BY <1>f, <2>1, <2>3, NothingShows
<1>4. CASE (\E p \in Pipes : PipeFails(o, p)) \/ LaunchFails(o)
  <2>1. /\ phase'[o] \in {"failed_early", "gone"} /\ child' = child
        /\ phase[o] \in Opening
    BY <1>4 DEF PipeFails, LaunchFails, Goto, At, PipePhase, Opening, children, TypeOK
  <2>2. child[o] = "none"
    BY <2>1 DEF ContractInv
  <2>3. ObjectNow(o)' = "failed"
    BY <2>1, <2>2 DEF ObjectNow, Launching, Opening, At
  <2>4. Contract!Goes(o, "launching", "failed")
    BY <1>1, <1>2, <1>f, <2>1, <2>3, HowItGoes
  <2>5. Contract!LaunchFails(o)
    BY <2>2, <2>4 DEF Contract!LaunchFails
  <2> QED BY <2>5 DEF Contract!Next
<1>5. CASE Spawn(o)
  <2>1. /\ phase[o] = "spawn" /\ phase'[o] = "launched"
        /\ child' = [child EXCEPT ![o] = "running"]
    BY <1>5 DEF Spawn, At, Goto, TypeOK
  <2>2. child[o] = "none"
    BY <2>1 DEF ContractInv, Opening
  <2>3. ObjectNow(o)' = "launching"
    BY <2>1 DEF ObjectNow, Launching, Opening, At
  <2>4. Contract!Spawn(o)
    BY <1>1, <1>2, <1>f, <2>1, <2>2, <2>3 DEF Contract!Spawn, OneOwner
  <2> QED BY <2>4 DEF Contract!Next
<1>6. CASE Launched(o)
  <2>1. phase[o] = "launched" /\ phase'[o] = "live" /\ child' = child
    BY <1>6 DEF Launched, At, Goto, children, TypeOK
  <2>2. child[o] # "none"
    BY <2>1 DEF ContractInv, Spawned
  <2>3. ObjectNow(o)' = "live"
    BY <2>1 DEF ObjectNow, Launching, Opening, At
  <2>4. Contract!Goes(o, "launching", "live")
    BY <1>1, <1>2, <1>f, <2>1, <2>3, HowItGoes
  <2>5. Contract!Launched(o)
    BY <2>2, <2>4 DEF Contract!Launched
  <2> QED BY <2>5 DEF Contract!Next
<1> QED BY <1>3, <1>4, <1>5, <1>6 DEF Launch

\* The steps of a wait.
LEMMA WaitShows ==
    ASSUME IInv, ContractInv, NEW o \in Objects,
           Wait(o) \/ WaitUntil(o) \/ ReadClock(o) \/ ReadClockAgain(o) \/ WaitOver(o)
    PROVE  [Contract!Next]_(Contract!vars)
<1>1. \A q \in Objects \ {o} : ObjectNow(q)' = ObjectNow(q)
  BY OthersShowNothing DEF Busy, Use, IInv
<1>2. child' = child
  BY DEF Wait, WaitUntil, ReadClock, ReadClockAgain, WaitOver, children
<1>f. UNCHANGED <<files, streams>> /\ TypeOK
  BY DEF Wait, WaitUntil, ReadClock, ReadClockAgain, WaitOver, IInv
<1>3. CASE Wait(o)
  <2>1. phase[o] = "live" /\ phase'[o] = "wait" /\ due'[o] = due[o] /\ due[o] = "none"
    BY <1>f, <1>3 DEF Wait, Goto, At, TypeOK, ContractInv
  <2>2. ObjectNow(o) = "live" /\ ObjectNow(o)' = "waiting"
    BY <2>1 DEF ObjectNow, Launching, Opening, At
  <2> QED BY <1>1, <1>2, <1>f, <2>2, HowItGoes DEF Contract!Wait, Contract!Next
<1>4. CASE WaitUntil(o)
  <2>1. phase[o] = "live" /\ phase'[o] = "clock" /\ due'[o] \in {"ahead", "past"}
    BY <1>f, <1>4 DEF WaitUntil, Goto, At, TypeOK
  <2>2. ObjectNow(o) = "live" /\ ObjectNow(o)' = "waiting_until"
    BY <2>1 DEF ObjectNow, Launching, Opening, At
  <2> QED BY <1>1, <1>2, <1>f, <2>2, HowItGoes DEF Contract!WaitUntil, Contract!Next
<1>5. CASE ReadClock(o) \/ ReadClockAgain(o)
  <2>1. /\ phase[o] \in {"clock", "clock_again"} /\ due[o] # "none" /\ due'[o] = due[o]
        /\ phase'[o] \in {"clock_again", "wait"}
    BY <1>f, <1>5 DEF ReadClock, ReadClockAgain, Goto, At, TypeOK, ContractInv
  <2>2. ObjectNow(o)' = ObjectNow(o)
    BY <2>1 DEF ObjectNow, Launching, Opening, At
  <2>3. \A q \in Objects : ObjectNow(q)' = ObjectNow(q)
    BY <1>1, <2>2
  <2> QED BY <1>2, <1>f, <2>3, NothingShows
<1>6. CASE WaitOver(o)
  <2>1. /\ phase[o] = "wait" /\ phase'[o] = "live"
        /\ Returns(processh[o]) \/ due[o] # "none"
    BY <1>f, <1>6 DEF WaitOver, Goto, At, TypeOK, ContractInv
  <2>2. /\ ObjectNow(o) = IF due[o] = "none" THEN "waiting" ELSE "waiting_until"
        /\ ObjectNow(o)' = "live"
    BY <2>1 DEF ObjectNow, Launching, Opening, At
  <2>3. CASE due[o] = "none"
    <3>1. Contract!Over(o)
      BY <2>1, <2>3, ReturnsOfOwn DEF Spawned, Alive
    <3>2. Contract!Goes(o, "waiting", "live")
      BY <1>1, <1>2, <1>f, <2>2, <2>3, HowItGoes
    <3> QED BY <3>1, <3>2 DEF Contract!Waited, Contract!Next
  <2>4. CASE due[o] # "none"
    BY <1>1, <1>2, <1>f, <2>2, <2>4, HowItGoes DEF Contract!WaitedUntil, Contract!Next
  <2> QED BY <2>3, <2>4
<1> QED BY <1>3, <1>4, <1>5, <1>6

\* The steps of the destructor.
LEMMA DestructorShows ==
    ASSUME IInv, ContractInv, NEW o \in Objects,
           Destroy(o) \/ DestroyWaited(o) \/ CloseNext(o) \/ Destroyed(o)
    PROVE  [Contract!Next]_(Contract!vars)
<1>1. \A q \in Objects \ {o} : ObjectNow(q)' = ObjectNow(q)
  BY OthersShowNothing DEF Busy, Use, IInv
<1>2. child' = child
  BY DEF Destroy, DestroyWaited, CloseNext, Destroyed, children
<1>f. UNCHANGED <<files, streams>> /\ TypeOK
  BY DEF Destroy, DestroyWaited, CloseNext, Destroyed, IInv
<1>3. CASE Destroy(o)
  <2>1. phase[o] = "live" /\ phase'[o] = "dtor_wait"
    BY <1>f, <1>3 DEF Destroy, Goto, At, TypeOK
  <2>2. ObjectNow(o) = "live" /\ ObjectNow(o)' = "ending"
    BY <2>1 DEF ObjectNow, Launching, Opening, At
  <2> QED BY <1>1, <1>2, <1>f, <2>2, HowItGoes DEF Contract!Destroy, Contract!Next
<1>4. CASE DestroyWaited(o)
  <2>1. phase[o] = "dtor_wait" /\ phase'[o] = "closing" /\ Returns(processh[o])
    BY <1>f, <1>4 DEF DestroyWaited, Goto, At, TypeOK
  <2>2. ObjectNow(o) = "ending" /\ ObjectNow(o)' = "closing"
    BY <2>1 DEF ObjectNow, Launching, Opening, At
  <2>3. Contract!Over(o)
    BY <2>1, ReturnsOfOwn DEF Spawned, Alive
  <2>4. Contract!Goes(o, "ending", "closing")
    BY <1>1, <1>2, <1>f, <2>2, HowItGoes
  <2> QED BY <2>3, <2>4 DEF Contract!BeginsToClose, Contract!Next
<1>5. CASE CloseNext(o)
  <2>1. phase' = phase /\ due' = due
    BY <1>5 DEF CloseNext, waits
  <2>2. \A q \in Objects : ObjectNow(q)' = ObjectNow(q)
    BY <1>2, <2>1 DEF ObjectNow, At
  <2> QED BY <1>2, <1>f, <2>2, NothingShows
<1>6. CASE Destroyed(o)
  <2>1. phase[o] = "closing" /\ phase'[o] = "gone" /\ child[o] # "none"
    BY <1>f, <1>6 DEF Destroyed, Goto, At, TypeOK, ContractInv
  <2>2. ObjectNow(o) = "closing" /\ ObjectNow(o)' = "gone"
    BY <1>2, <2>1 DEF ObjectNow, Launching, Opening, At
  <2> QED BY <1>1, <1>2, <1>f, <2>2, HowItGoes DEF Contract!Destroyed, Contract!Next
<1> QED BY <1>3, <1>4, <1>5, <1>6

\* Every step shows in the contract as a step of it, or not at all.
LEMMA ContractStep ==
    ASSUME IInv, ContractInv, [Next]_vars
    PROVE  [Contract!Next]_(Contract!vars)
<1>0. TypeOK
  BY DEF IInv
<1>1. CASE UNCHANGED vars
  <2>1. UNCHANGED <<phase, child, due, files, streams>>
    BY <1>1 DEF vars, waits, children
  <2> QED BY <2>1, NothingShows DEF ObjectNow, At
<1>2. ASSUME NEW o \in Objects, UseFiles(o) \/ UseStreams(o)
      PROVE  [Contract!Next]_(Contract!vars)
  <2>1. UNCHANGED <<phase, child, due>>
    BY <1>2 DEF UseFiles, UseStreams, waits, children
  <2>2. \A q \in Objects : ObjectNow(q)' = ObjectNow(q)
    BY <2>1 DEF ObjectNow, At
  <2>3. OneOwner' => OneOwner
    BY <1>0, <1>2, OwnersStay DEF Next, Use
  <2>4. Contract!Disturb
    BY <2>1, <2>2, <2>3 DEF Contract!Disturb
  <2> QED BY <2>4 DEF Contract!Next
<1>3. ASSUME NEW o \in Objects, ChildExits(o)
      PROVE  [Contract!Next]_(Contract!vars)
  <2>1. phase' = phase /\ due' = due /\ child[o] = "running" /\ UNCHANGED <<files, streams>>
    BY <1>3 DEF ChildExits, waits
  <2>2. child' = [child EXCEPT ![o] = "exited"]
    BY <1>3 DEF ChildExits
  <2>3. \A q \in Objects : (child'[q] = "none") <=> (child[q] = "none")
    BY <1>0, <2>1, <2>2 DEF TypeOK
  <2>4. \A q \in Objects : ObjectNow(q)' = ObjectNow(q)
    BY <2>1, <2>3 DEF ObjectNow, At
  <2>5. Contract!Exit(o)
    BY <2>1, <2>2, <2>4 DEF Contract!Exit, OneOwner
  <2> QED BY <2>5 DEF Contract!Next
<1>4. ASSUME NEW o \in Objects, Busy(o) \/ Use(o) \/ ChildExits(o)
      PROVE  [Contract!Next]_(Contract!vars)
  BY <1>0, <1>2, <1>3, <1>4, LaunchShows, WaitShows, DestructorShows DEF Busy, Use
<1> QED BY <1>1, <1>4 DEF Next

LEMMA StepOfContractInv ==
    ASSUME TypeOK, ContractInv, [Next]_vars
    PROVE  ContractInv'
<1>1. CASE UNCHANGED vars
  BY <1>1 DEF ContractInv, At, vars, waits, children
<1>2. ASSUME NEW o \in Objects, Busy(o) \/ Use(o) \/ ChildExits(o)
      PROVE  ContractInv'
  <2>1. \A q \in Objects \ {o} :
           /\ phase'[q] = phase[q] /\ child'[q] = child[q] /\ due'[q] = due[q]
           /\ timeout'[q] = timeout[q]
    BY <1>2, OthersShowNothing
  <2>2. /\ phase'[o] \in Opening \cup {"failed_early"} => child'[o] = "none"
        /\ phase'[o] \in Spawned \cup {"closing"} => child'[o] # "none"
    BY <1>2
    DEF ContractInv, Busy, Use, Launch, Pipe, PipeFails, ParentErr, NamedPipe, NamedPipeFails, OpenPipe, OpenFails,
        SetInherit, LaunchFails, Spawn, Launched, UseFiles, UseStreams, Wait,
        WaitUntil, ReadClock, ReadClockAgain, WaitOver, Destroy, DestroyWaited,
        CloseNext, Destroyed, ChildExits, Goto, At, PipePhase, AfterPipe, Pipes,
        Opening, Spawned, Alive, children, TypeOK
  <2>3. /\ phase'[o] \in Launching \cup {"live", "dtor_wait"} => due'[o] = "none"
        /\ phase'[o] \in {"clock", "clock_again"} => due'[o] # "none"
        /\ phase'[o] = "wait" /\ due'[o] = "none" => timeout'[o] = Infinite
    BY <1>2
    DEF ContractInv, Busy, Use, Launch, Pipe, PipeFails, ParentErr, NamedPipe, NamedPipeFails, OpenPipe, OpenFails,
        SetInherit, LaunchFails, Spawn, Launched, UseFiles, UseStreams, Wait,
        WaitUntil, ReadClock, ReadClockAgain, WaitOver, Destroy, DestroyWaited,
        CloseNext, Destroyed, ChildExits, Goto, At, PipePhase, AfterPipe, Pipes,
        Launching, Opening, waits, TypeOK
  <2> QED BY <2>1, <2>2, <2>3 DEF ContractInv, At
<1> QED BY <1>1, <1>2 DEF Next

\* ChildWindows keeps the contract that ChildProcess does, and as long as no
\* object has both FILE *s and streams nothing disturbs its waits: one without a
\* deadline, that of the destructor included, is over only when the object's own
\* child has exited.  (Else the process's handle may be closed by another, and
\* the contract lets any wait end.)
THEOREM ImplementsContract == Spec => KeepsContract
<1>1. Init => Contract!Init
  <2> SUFFICES ASSUME Init PROVE Contract!Init
    OBVIOUS
  <2>1. phase = [o \in Objects |-> "pipe_in"] /\ child = [o \in Objects |-> "none"]
    BY DEF Init
  <2>2. ASSUME NEW o \in Objects PROVE ObjectNow(o) = "launching"
    BY <2>1, AtFirst DEF Launching, Opening
  <2>3. (IF OneOwner THEN {} ELSE Objects) \subseteq Objects
    OBVIOUS
  <2> QED BY <2>1, <2>2, <2>3 DEF Contract!Init
<1>2. Init => ContractInv
  <2> SUFFICES ASSUME Init PROVE ContractInv
    OBVIOUS
  <2>1. /\ phase = [o \in Objects |-> "pipe_in"] /\ child = [o \in Objects |-> "none"]
        /\ due = [o \in Objects |-> "none"]
    BY DEF Init
  <2>2. ASSUME NEW o \in Objects
        PROVE  /\ child[o] = "none" /\ due[o] = "none" /\ ~At(o, "wait")
               /\ phase[o] \notin Spawned \cup {"closing"}
               /\ phase[o] \notin {"clock", "clock_again"}
    BY <2>1 DEF Spawned, Alive, At
  <2> QED BY <2>2, Zenon DEF ContractInv
<1>3. TypeOK /\ ContractInv /\ [Next]_vars => ContractInv'
  BY StepOfContractInv
<1>4. IInv /\ ContractInv /\ [Next]_vars => [Contract!Next]_(Contract!vars)
  BY ContractStep
<1> QED BY <1>1, <1>2, <1>3, <1>4, TypeCorrect, Invariance, PTL
        DEF Spec, KeepsContract, Contract!Spec
=============================================================================
