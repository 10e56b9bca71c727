-------------------------- MODULE ChildProcessProofs --------------------------
(***************************************************************************)
(* Proofs about ChildProcess, for any number of objects, children and      *)
(* descriptors, and any number of calls.                                   *)
(***************************************************************************)
EXTENDS ChildProcess, TLAPS

-----------------------------------------------------------------------------
\* Operators

LEMMA FdFacts == Fds \subseteq Nat /\ NoFd \notin Fds /\ 0 \in Fds /\ 1 \in Fds /\ 2 \in Fds
  BY ChildAssumption DEF Fds, NoFd

LEMMA PipeNames ==
    /\ "in" \in Pipes /\ "out" \in Pipes /\ "err" \in Pipes
    /\ \A o : PipesOf(o) \subseteq Pipes /\ {"in", "out"} \subseteq PipesOf(o)
    /\ \A p \in Pipes : OurEnd(p) # HisEnd(p) /\ {OurEnd(p), HisEnd(p)} = {"r", "w"}
    /\ \A p \in Pipes : StdOf[p] \in Fds
    /\ \A p, q \in Pipes : StdOf[p] = StdOf[q] => p = q
  BY FdFacts DEF Pipes, PipesOf, OurEnd, HisEnd, StdOf

\* What is an end of a pipe is neither closed nor a standard stream, and of one
\* object, pipe and kind.
LEMMA EndsApart ==
    /\ \A f \in Ends : f # Closed /\ \A p : f # Std(p)
    /\ \A p : Closed # Std(p)
    /\ \A o, p, e : \A q, r, g : <<o, p, e>> = <<q, r, g>> <=> o = q /\ p = r /\ e = g
    /\ \A o \in Objects, p \in Pipes :
         /\ <<o, p, "r">> \in Ends /\ <<o, p, "w">> \in Ends
         /\ <<o, p, OurEnd(p)>> \in Ends /\ <<o, p, HisEnd(p)>> \in Ends
    /\ \A o \in Objects : OursOf(o) \subseteq Ends /\ HisOf(o) \subseteq Ends
  BY DEF Ends, Closed, Std, Pipes, OurEnd, HisEnd, OursOf, HisOf

LEMMA WhatIsClosed ==
    ASSUME NEW S, CloseFds(S), TypeOK
    PROVE  /\ fd' \in [Fds -> Files] /\ cloexec' \subseteq Fds
           /\ \A x \in Fds : fd'[x] = IF x \in S THEN Closed ELSE fd[x]
           /\ cloexec' = cloexec \ S
  BY DEF CloseFds, TypeOK, Files

-----------------------------------------------------------------------------
\* Type correctness

LEMMA TypeInit == Init => TypeOK
<1> SUFFICES ASSUME Init PROVE TypeOK
  OBVIOUS
<1>1. fd \in [Fds -> Files]
  BY DEF Init, Files, Pipes
<1>2. proc \in [Pids -> [state : States, of : Objects \cup {NoPid},
                         told : BOOLEAN, table : [Fds -> Files]]]
  BY DEF Init, NoChild, States, Files
<1>3. todo \in [Objects -> Seq(Fds)]
  BY DEF Init
<1> QED BY <1>1, <1>2, <1>3 DEF Init, TypeOK, Phases, Answers

\* The destructor closes every handle, and without a FILE * nothing else and
\* none twice.
LEMMA HandlesToClose ==
    ASSUME TypeOK, HandlesSet, NEW o \in Objects, phase[o] \in Alive
    PROVE  /\ ToClose(o) \in Seq(Fds)
           /\ \A p \in PipesOf(o) : \E i \in 1 .. Len(ToClose(o)) : ToClose(o)[i] = own[o][p]
           /\ ~files[o] => \A i \in 1 .. Len(ToClose(o)) :
                \E p \in PipesOf(o) :
                   /\ ToClose(o)[i] = own[o][p]
                   /\ \A j \in 1 .. Len(ToClose(o)) :
                        (\A q \in PipesOf(o) \ {p} : own[o][q] # own[o][p])
                        /\ ToClose(o)[j] = own[o][p] => i = j
<1> DEFINE h == HandlesOf(o)
<1>1. /\ h \in Seq(Fds)
      /\ \A p \in PipesOf(o) : \E i \in 1 .. Len(h) : h[i] = own[o][p]
      /\ \A i \in 1 .. Len(h) : \E p \in PipesOf(o) :
            /\ h[i] = own[o][p]
            /\ \A j \in 1 .. Len(h) :
                 (\A q \in PipesOf(o) \ {p} : own[o][q] # own[o][p]) /\ h[j] = own[o][p]
                 => i = j
  <2>1. \A p \in PipesOf(o) : own[o][p] \in Fds
    BY PipeNames DEF HandlesSet, Opened, Alive
  <2>2. CASE UseParentErr[o]
    <3>1. h = <<own[o]["in"], own[o]["out"]>> /\ PipesOf(o) = {"in", "out"}
      BY <2>2 DEF HandlesOf, PipesOf
    <3> QED BY <2>1, <3>1
  <2>3. CASE ~UseParentErr[o]
    <3>1. h = <<own[o]["in"], own[o]["out"], own[o]["err"]>> /\ PipesOf(o) = {"in", "out", "err"}
      BY <2>3 DEF HandlesOf, PipesOf, Pipes
    <3> QED BY <2>1, <3>1
  <2> QED BY <2>2, <2>3
<1> HIDE DEF h
<1>2. CASE files[o]
  <2> DEFINE z == [i \in 1 .. Len(h) |-> 0]
  <2>1. z \in Seq(Fds)
    BY <1>1, FdFacts
  <2>2. ToClose(o) = h \o z
    BY <1>2 DEF ToClose, h
  <2> HIDE DEF z
  <2>3. /\ h \o z \in Seq(Fds) /\ Len(h) <= Len(h \o z)
        /\ \A i \in 1 .. Len(h) : (h \o z)[i] = h[i]
    BY <1>1, <2>1
  <2>4. \A i \in 1 .. Len(h) : i \in 1 .. Len(h \o z)
    BY <1>1, <2>1, <2>3
  <2> QED BY <1>1, <1>2, <2>2, <2>3, <2>4
<1>3. CASE ~files[o]
  <2>1. ToClose(o) = h
    BY <1>3 DEF ToClose, h
  <2> QED BY <1>1, <2>1
<1> QED BY <1>2, <1>3

LEMMA TypeOfTold ==
    ASSUME TypeOK, NEW p \in Pids
    PROVE  /\ Told(p) \in [Pids -> [state : States, of : Objects \cup {NoPid},
                                    told : BOOLEAN, table : [Fds -> Files]]]
           /\ proc[p].state = "zombie" => Told(p)[p] = NoChild
           /\ proc[p].state # "zombie" => 
                /\ Told(p)[p].state = proc[p].state
                /\ Told(p)[p].of = proc[p].of
                /\ Told(p)[p].table = proc[p].table
           /\ \A q \in Pids \ {p} : Told(p)[q] = proc[q]
<1>1. /\ proc[p] \in [state : States, of : Objects \cup {NoPid}, told : BOOLEAN,
                      table : [Fds -> Files]]
      /\ proc \in [Pids -> [state : States, of : Objects \cup {NoPid},
                             told : BOOLEAN, table : [Fds -> Files]]]
  BY DEF TypeOK
<1>2. NoChild \in [state : States, of : Objects \cup {NoPid}, told : BOOLEAN,
                   table : [Fds -> Files]]
  BY DEF NoChild, States, Files
<1>3. CASE proc[p].state = "zombie"
  <2>1. Told(p) = [proc EXCEPT ![p] = NoChild]
    BY <1>1, <1>3 DEF Told
  <2> QED BY <1>1, <1>2, <1>3, <2>1
<1>4. CASE proc[p].state # "zombie"
  <2>1. Told(p) = [proc EXCEPT ![p] = [proc[p] EXCEPT !.told = TRUE]]
    BY <1>1, <1>4 DEF Told
  <2> DEFINE c == [proc[p] EXCEPT !.told = TRUE]
  <2>2. /\ c \in [state : States, of : Objects \cup {NoPid}, told : BOOLEAN,
                  table : [Fds -> Files]]
        /\ c.state = proc[p].state /\ c.of = proc[p].of /\ c.table = proc[p].table
    BY <1>1
  <2> HIDE DEF c
  <2>3. Told(p) = [proc EXCEPT ![p] = c]
    BY <2>1 DEF c
  <2> QED BY <1>1, <1>4, <2>2, <2>3
<1> QED BY <1>3, <1>4

\* The steps of a call, none of which touches a descriptor or a handle.
LEMMA TypeOfCalls ==
    ASSUME TypeOK, NEW o \in Objects,
           \/ UseFiles(o) \/ AskRunning(o) \/ Wait(o) \/ Destroy(o)
           \/ WaitFails(o) \/ WaitInterrupted(o) \/ WaitSleeps(o) \/ WakeUp(o)
           \/ DeadlinePasses(o)
    PROVE  TypeOK'
<1> USE DEF TypeOK, Phases, Answers, Goto, descriptors, handles, waiting,
            children, histories
<1>1. CASE UseFiles(o)
  BY <1>1 DEF UseFiles
<1>2. CASE AskRunning(o)
  BY <1>2 DEF AskRunning
<1>3. CASE Wait(o)
  BY <1>3 DEF Wait
<1>4. CASE Destroy(o)
  BY <1>4 DEF Destroy
<1>5. CASE WaitFails(o)
  BY <1>5 DEF WaitFails, Answer
<1>6. CASE WaitInterrupted(o)
  BY <1>6 DEF WaitInterrupted, Answer
<1>7. CASE WaitSleeps(o)
  BY <1>7 DEF WaitSleeps
<1>8. CASE WakeUp(o)
  <2>1. CASE expired[o]
    BY <1>8, <2>1 DEF WakeUp, Answer
  <2>2. CASE ~expired[o]
    BY <1>8, <2>2 DEF WakeUp
  <2> QED BY <2>1, <2>2
<1>9. CASE DeadlinePasses(o)
  BY <1>9 DEF DeadlinePasses
<1> QED BY <1>1, <1>2, <1>3, <1>4, <1>5, <1>6, <1>7, <1>8, <1>9

LEMMA TypeOfWithout ==
    ASSUME NEW h \in [Objects -> [Pipes -> Fds \cup {NoFd}]], NEW o \in Objects
    PROVE  /\ Without(h, o) \in [Objects -> [Pipes -> Fds \cup {NoFd}]]
           /\ \A p \in Pipes : Without(h, o)[o][p] = NoFd
           /\ \A q \in Objects \ {o} : Without(h, o)[q] = h[q]
  BY DEF Without

\* A file action of posix_spawn() in a child's table.
LEMMA TypeOfWire ==
    ASSUME NEW table \in [Fds -> Files], NEW o \in Objects, NEW p \in Pipes,
           his[o][p] \in Fds
    PROVE  /\ Wire(table, o, p) \in [Fds -> Files]
           /\ \A x \in Fds : Wire(table, o, p)[x] =
                IF x = his[o][p] THEN Closed
                ELSE IF x = StdOf[p] THEN table[his[o][p]] ELSE table[x]
  BY PipeNames DEF Wire, Dup2, Close, Files

LEMMA TypeOfChildTable ==
    ASSUME TypeOK, NEW o \in Objects, \A p \in PipesOf(o) : his[o][p] \in Fds
    PROVE  /\ ChildTable(o) \in [Fds -> Files]
           /\ \A x \in Fds : \/ ChildTable(o)[x] = Closed
                             \/ \E y \in Fds : ChildTable(o)[x] = fd[y]
<1> DEFINE in  == Wire(fd, o, "in")
           out == Wire(in, o, "out")
           err == IF "err" \in PipesOf(o) THEN Wire(out, o, "err") ELSE out
           From(t) == /\ t \in [Fds -> Files]
                      /\ \A x \in Fds : t[x] = Closed \/ \E y \in Fds : t[x] = fd[y]
<1>0. ASSUME NEW t, From(t), NEW p \in PipesOf(o)
      PROVE  From(Wire(t, o, p))
  <2>1. p \in Pipes /\ his[o][p] \in Fds
    BY PipeNames
  <2>2. /\ Wire(t, o, p) \in [Fds -> Files]
        /\ \A x \in Fds : Wire(t, o, p)[x] =
             IF x = his[o][p] THEN Closed
             ELSE IF x = StdOf[p] THEN t[his[o][p]] ELSE t[x]
    BY <1>0, <2>1, TypeOfWire
  <2> QED BY <1>0, <2>1, <2>2
<1>1. From(in)
  <2>1. From(fd)
    BY DEF TypeOK
  <2> QED BY <1>0, <2>1, PipeNames
<1>2. From(out)
  <2> HIDE DEF in, From
  <2> QED BY <1>0, <1>1, PipeNames
<1>3. From(err)
  <2> HIDE DEF out, From
  <2> QED BY <1>0, <1>2
<1>4. ChildTable(o) = [x \in Fds |-> IF x \in cloexec \ {StdOf[p] : p \in PipesOf(o)}
                                    THEN Closed ELSE err[x]]
  BY DEF ChildTable
<1> HIDE DEF err
<1>5. \A x \in Fds : ChildTable(o)[x] = Closed \/ ChildTable(o)[x] = err[x]
  BY <1>4
<1> QED BY <1>3, <1>4, <1>5 DEF Files

LEMMA TypeOfLaunch ==
    ASSUME TypeOK, HandlesSet, NEW o \in Objects, Launch(o)
    PROVE  TypeOK'
<1>1. CASE \E p \in Pipes : Pipe(o, p)
  <2> PICK p \in Pipes : Pipe(o, p)
    BY <1>1
  <2>1. PICK r \in Free, w \in Free :
           /\ fd' = [fd EXCEPT ![r] = <<o, p, "r">>, ![w] = <<o, p, "w">>]
           /\ own' = [own EXCEPT ![o][p] = IF OurEnd(p) = "r" THEN r ELSE w]
           /\ his' = [his EXCEPT ![o][p] = IF HisEnd(p) = "r" THEN r ELSE w]
    BY DEF Pipe
  <2>2. r \in Fds /\ w \in Fds
    BY DEF Free
  <2>3. fd' \in [Fds -> Files]
    BY <2>1, EndsApart DEF TypeOK, Files
  <2>4. own' \in [Objects -> [Pipes -> Fds \cup {NoFd}]]
    BY <2>1, <2>2 DEF TypeOK
  <2>5. his' \in [Objects -> [Pipes -> Fds \cup {NoFd}]]
    BY <2>1, <2>2 DEF TypeOK
  <2>6. phase' \in [Objects -> Phases]
    BY DEF TypeOK, Pipe, Goto, AfterPipe, Phases
  <2> QED
    BY <2>3, <2>4, <2>5, <2>6 DEF TypeOK, Pipe, waiting, children, histories
<1>2. CASE \E p \in Pipes : PipeFails(o, p)
  <2> PICK p \in Pipes : PipeFails(o, p)
    BY <1>2
  <2>1. fd' \in [Fds -> Files] /\ cloexec' \subseteq Fds
    BY WhatIsClosed DEF PipeFails
  <2> QED BY <2>1, TypeOfWithout
          DEF TypeOK, PipeFails, Goto, Phases, waiting, children, histories
<1>3. CASE SetCloexec(o)
  <2>1. \A p \in PipesOf(o) : own[o][p] \in Fds
    BY <1>3, PipeNames DEF HandlesSet, Opened, SetCloexec, At
  <2> QED BY <1>3, <2>1
          DEF TypeOK, SetCloexec, Goto, Phases, handles, waiting, children, histories
<1>4. CASE LaunchFails(o)
  <2>1. fd' \in [Fds -> Files] /\ cloexec' \subseteq Fds
    BY <1>4, WhatIsClosed DEF LaunchFails
  <2> QED BY <1>4, <2>1, TypeOfWithout
          DEF TypeOK, LaunchFails, Goto, Phases, waiting, children, histories
<1>5. CASE Spawn(o)
  <2>1. PICK p \in Pids :
           /\ proc' = [proc EXCEPT ![p] = [state |-> "running", of |-> o,
                                           told |-> FALSE, table |-> ChildTable(o)]]
           /\ pid' = [pid EXCEPT ![o] = p]
    BY <1>5 DEF Spawn
  <2>2. overlapped' \subseteq Objects \X {"ours", "his"}
    BY <1>5 DEF Spawn, Exposed, TypeOK
  <2>3. ChildTable(o) \in [Fds -> Files]
    BY <1>5, TypeOfChildTable, PipeNames
       DEF Spawn, At, HandlesSet, Lent, Opened, Launching
  <2> QED BY <1>5, <2>1, <2>2, <2>3
          DEF TypeOK, Spawn, Goto, Phases, States, descriptors, handles, waiting
<1>6. CASE CloseHis(o)
  <2>1. fd' \in [Fds -> Files] /\ cloexec' \subseteq Fds
    BY <1>6, WhatIsClosed DEF CloseHis
  <2> QED BY <1>6, <2>1, TypeOfWithout
          DEF TypeOK, CloseHis, Goto, Phases, waiting, children, histories
<1> QED BY <1>1, <1>2, <1>3, <1>4, <1>5, <1>6 DEF Launch

\* A wait that is told of a child, and the end of the object.
LEMMA TypeOfEnd ==
    ASSUME TypeOK, HandlesSet, Reaping, NEW o \in Objects,
           \/ WaitReports(o) \/ DestroyWaited(o) \/ DestroyInterrupted(o)
           \/ CloseNext(o) \/ Destroyed(o)
    PROVE  TypeOK'
<1>1. CASE WaitReports(o)
  <2>1. pid[o] \in Pids
    BY <1>1 DEF WaitReports, At, Reaping, Spawned, Alive
  <2>2. Reported(pid[o]) \subseteq Objects
    BY <2>1 DEF TypeOK, Reported, Reaping
  <2> QED BY <1>1, <2>1, <2>2, TypeOfTold
          DEF TypeOK, WaitReports, Answer, Goto, Phases, Answers, descriptors,
              handles, histories
<1>2. CASE DestroyWaited(o) \/ DestroyInterrupted(o)
  <2>1. At(o, "dtor_wait")
    BY <1>2 DEF DestroyWaited, DestroyInterrupted
  <2>2. pid[o] \in Pids
    BY <2>1 DEF At, Reaping, Spawned, Alive
  <2>3. Reported(pid[o]) \subseteq Objects
    BY <2>2 DEF TypeOK, Reported, Reaping
  <2>4. todo' \in [Objects -> Seq(Fds)]
    <3>1. ToClose(o) \in Seq(Fds)
      BY <2>1, HandlesToClose DEF At, Alive
    <3> QED BY <1>2, <3>1 DEF TypeOK, DestroyWaited, DestroyInterrupted
  <2>5. CASE DestroyInterrupted(o)
    BY <2>4, <2>5
       DEF TypeOK, DestroyInterrupted, Goto, Phases, descriptors, handles,
           waiting, children
  <2>6. CASE DestroyWaited(o)
    <3>1. /\ proc' \in [Pids -> [state : States, of : Objects \cup {NoPid},
                                 told : BOOLEAN, table : [Fds -> Files]]]
          /\ reaped' \subseteq Objects /\ cut' \subseteq Objects
      BY <2>2, <2>3, <2>6, TypeOfTold DEF TypeOK, DestroyWaited
    <3> QED BY <2>4, <2>6, <3>1
            DEF TypeOK, DestroyWaited, Goto, Phases, descriptors, handles, waiting
  <2> QED BY <1>2, <2>5, <2>6
<1>3. CASE CloseNext(o)
  <2>1. fd' \in [Fds -> Files] /\ cloexec' \subseteq Fds
    BY <1>3, WhatIsClosed DEF CloseNext
  <2>2. todo' \in [Objects -> Seq(Fds)]
    <3>1. todo[o] \in Seq(Fds) /\ todo[o] # << >>
      BY <1>3 DEF TypeOK, CloseNext
    <3>2. Tail(todo[o]) \in Seq(Fds)
      BY <3>1
    <3> QED BY <1>3, <3>2 DEF TypeOK, CloseNext
  <2> QED BY <1>3, <2>1, <2>2
          DEF TypeOK, CloseNext, handles, waiting, children, histories
<1>4. CASE Destroyed(o)
  BY <1>4, TypeOfWithout
     DEF TypeOK, Destroyed, Goto, Phases, descriptors, waiting, children, histories
<1> QED BY <1>1, <1>2, <1>3, <1>4

\* What becomes of a child: it keeps its object, and its descriptors while it
\* has not exited.
LEMMA ChildChanges ==
    ASSUME TypeOK, NEW p \in Pids,
           ChildExits(p) \/ ChildStops(p) \/ ChildContinues(p)
    PROVE  /\ proc' \in [Pids -> [state : States, of : Objects \cup {NoPid},
                                  told : BOOLEAN, table : [Fds -> Files]]]
           /\ \A q \in Pids \ {p} : proc'[q] = proc[q]
           /\ proc[p].state \in {"running", "stopped"}
           /\ proc'[p].of = proc[p].of
           /\ \/ /\ ChildExits(p) /\ proc'[p].state = "zombie"
                 /\ \A x \in Fds : proc'[p].table[x] = Closed
              \/ /\ ~ChildExits(p) /\ proc'[p].state \in {"running", "stopped"}
                 /\ proc'[p].table = proc[p].table
<1>1. /\ proc \in [Pids -> [state : States, of : Objects \cup {NoPid},
                             told : BOOLEAN, table : [Fds -> Files]]]
      /\ proc[p] \in [state : States, of : Objects \cup {NoPid},
                      told : BOOLEAN, table : [Fds -> Files]]
  BY DEF TypeOK
<1>2. CASE ChildExits(p)
  <2> DEFINE c == [proc[p] EXCEPT !.state = "zombie", !.table = [x \in Fds |-> Closed]]
  <2>1. /\ c \in [state : States, of : Objects \cup {NoPid},
                  told : BOOLEAN, table : [Fds -> Files]]
        /\ c.state = "zombie" /\ c.of = proc[p].of
        /\ \A x \in Fds : c.table[x] = Closed
    BY <1>1 DEF States, Files
  <2>2. proc' = [proc EXCEPT ![p] = c]
    BY <1>1, <1>2 DEF ChildExits
  <2> HIDE DEF c
  <2>3. /\ proc'[p] = c
        /\ \A q \in Pids \ {p} : proc'[q] = proc[q]
        /\ proc' \in [Pids -> [state : States, of : Objects \cup {NoPid},
                              told : BOOLEAN, table : [Fds -> Files]]]
    BY <1>1, <2>1, <2>2
  <2>4. proc[p].state = "running"
    BY <1>2 DEF ChildExits
  <2> QED BY <1>2, <2>1, <2>3, <2>4
<1>3. CASE ChildStops(p)
  <2> DEFINE c == [proc[p] EXCEPT !.state = "stopped", !.told = FALSE]
  <2>1. /\ c \in [state : States, of : Objects \cup {NoPid},
                  told : BOOLEAN, table : [Fds -> Files]]
        /\ c.state = "stopped" /\ c.of = proc[p].of /\ c.table = proc[p].table
    BY <1>1 DEF States
  <2>2. proc' = [proc EXCEPT ![p] = c] /\ proc[p].state = "running"
    BY <1>1, <1>3 DEF ChildStops
  <2> HIDE DEF c
  <2>3. ~ChildExits(p)
    BY <1>1, <2>1, <2>2 DEF ChildExits
  <2> QED BY <1>1, <2>1, <2>2, <2>3
<1>4. CASE ChildContinues(p)
  <2> DEFINE c == [proc[p] EXCEPT !.state = "running"]
  <2>1. /\ c \in [state : States, of : Objects \cup {NoPid},
                  told : BOOLEAN, table : [Fds -> Files]]
        /\ c.state = "running" /\ c.of = proc[p].of /\ c.table = proc[p].table
    BY <1>1 DEF States
  <2>2. proc' = [proc EXCEPT ![p] = c] /\ proc[p].state = "stopped"
    BY <1>1, <1>4 DEF ChildContinues
  <2> HIDE DEF c
  <2>3. ~ChildExits(p)
    BY <1>1, <2>2 DEF ChildExits
  <2> QED BY <1>1, <2>1, <2>2, <2>3
<1> QED BY <1>2, <1>3, <1>4

LEMMA TypeOfChildren ==
    ASSUME TypeOK, Reaping, NEW p \in Pids,
           ChildExits(p) \/ ChildStops(p) \/ ChildContinues(p)
    PROVE  TypeOK'
<1>1. proc[p].of \in Objects
  <2>1. proc[p].state \in {"running", "stopped"}
    BY ChildChanges
  <2> QED BY <2>1 DEF TypeOK, Reaping
<1>2. exited' \subseteq Objects /\ reaped' \subseteq Objects
  BY <1>1 DEF TypeOK, ChildExits, ChildStops, ChildContinues
<1>3. UNCHANGED <<descriptors, phase, handles, pid, files, todo, waiting, histories>>
  BY DEF ChildExits, ChildStops, ChildContinues
<1> QED BY ChildChanges, <1>2, <1>3
        DEF TypeOK, descriptors, handles, waiting, histories

-----------------------------------------------------------------------------
\* Descriptors and handles

\* What a step that opens and closes nothing does, and the names of its phases.
Quiet ==
    /\ UNCHANGED <<fd, cloexec, own, his, todo>>
    /\ \A o \in Objects : files[o] => files'[o]
    /\ \A o \in Objects : \/ phase'[o] = phase[o]
                          \/ phase[o] \in Alive /\ phase'[o] \in Alive
                          \/ phase[o] = "spawn" /\ phase'[o] = "launched"

LEMMA QuietKeeps ==
    ASSUME Quiet
    PROVE  /\ HandlesSet => HandlesSet'
           /\ EndsOwned => EndsOwned'
           /\ HandlesGood => HandlesGood'
           /\ NoFileUsed' => NoFileUsed
<1>1. \A o \in Objects : /\ Opened(o)' = Opened(o) /\ Lent(o)' = Lent(o)
                         /\ \A ph \in {"pipe_out", "pipe_err", "cloexec", "closing",
                                       "failed_early"} :
                              phase'[o] = ph <=> phase[o] = ph
  BY DEF Quiet, Opened, Lent, Launching, Alive
<1>2. HandlesSet => HandlesSet'
  BY <1>1 DEF Quiet, HandlesSet, At
<1>3. EndsOwned => EndsOwned'
  BY <1>1 DEF Quiet, EndsOwned, At
<1>4. HandlesGood => HandlesGood'
  BY <1>1 DEF Quiet, HandlesGood, At
<1> QED BY <1>2, <1>3, <1>4 DEF Quiet, NoFileUsed

LEMMA QuietSteps ==
    ASSUME TypeOK, NEW o \in Objects,
           \/ UseFiles(o) \/ AskRunning(o) \/ Wait(o) \/ Destroy(o)
           \/ WaitFails(o) \/ WaitInterrupted(o) \/ WaitSleeps(o) \/ WakeUp(o)
           \/ DeadlinePasses(o) \/ WaitReports(o) \/ Spawn(o)
    PROVE  Quiet
<1> USE DEF TypeOK, At, Goto, Alive, Quiet, descriptors, handles, waiting,
            children, histories
<1>1. CASE UseFiles(o)
  BY <1>1 DEF UseFiles
<1>2. CASE AskRunning(o)
  BY <1>2 DEF AskRunning
<1>3. CASE Wait(o)
  BY <1>3 DEF Wait
<1>4. CASE Destroy(o)
  BY <1>4 DEF Destroy
<1>5. CASE WaitFails(o)
  BY <1>5 DEF WaitFails, Answer
<1>6. CASE WaitInterrupted(o)
  BY <1>6 DEF WaitInterrupted, Answer
<1>7. CASE WaitSleeps(o)
  BY <1>7 DEF WaitSleeps
<1>8. CASE WakeUp(o)
  BY <1>8 DEF WakeUp, Answer
<1>9. CASE DeadlinePasses(o)
  BY <1>9 DEF DeadlinePasses
<1>10. CASE WaitReports(o)
  BY <1>10 DEF WaitReports, Answer
<1>11. CASE Spawn(o)
  BY <1>11 DEF Spawn
<1> QED BY <1>1, <1>2, <1>3, <1>4, <1>5, <1>6, <1>7, <1>8, <1>9, <1>10, <1>11

LEMMA QuietChildren ==
    ASSUME NEW p \in Pids, ChildExits(p) \/ ChildStops(p) \/ ChildContinues(p)
    PROVE  Quiet
  BY DEF Quiet, ChildExits, ChildStops, ChildContinues, descriptors, handles

\* The rest of launch() and of the destructor.
Loud(o) ==
    \/ \E p \in Pipes : Pipe(o, p) \/ PipeFails(o, p)
    \/ SetCloexec(o) \/ LaunchFails(o) \/ CloseHis(o)
    \/ DestroyWaited(o) \/ DestroyInterrupted(o) \/ CloseNext(o) \/ Destroyed(o)

LEMMA LoudFrame ==
    ASSUME TypeOK, NEW o \in Objects, Loud(o)
    PROVE  /\ \A q \in Objects \ {o} :
                /\ phase'[q] = phase[q] /\ own'[q] = own[q] /\ his'[q] = his[q]
                /\ todo'[q] = todo[q]
                /\ Opened(q)' = Opened(q) /\ Lent(q)' = Lent(q)
                /\ At(q, "closing")' = At(q, "closing")
           /\ UNCHANGED files /\ NoFileUsed' = NoFileUsed
<1>1. /\ \A q \in Objects \ {o} :
           phase'[q] = phase[q] /\ own'[q] = own[q] /\ his'[q] = his[q] /\ todo'[q] = todo[q]
      /\ UNCHANGED files
  <2> USE DEF TypeOK, Goto, Without, descriptors, handles, waiting, children,
              histories
  <2>1. CASE \E p \in Pipes : Pipe(o, p)
    BY <2>1 DEF Pipe
  <2>2. CASE \E p \in Pipes : PipeFails(o, p)
    BY <2>2 DEF PipeFails
  <2>3. CASE SetCloexec(o)
    BY <2>3 DEF SetCloexec
  <2>4. CASE LaunchFails(o)
    BY <2>4 DEF LaunchFails
  <2>5. CASE CloseHis(o)
    BY <2>5 DEF CloseHis
  <2>6. CASE DestroyWaited(o)
    BY <2>6 DEF DestroyWaited
  <2>7. CASE DestroyInterrupted(o)
    BY <2>7 DEF DestroyInterrupted
  <2>8. CASE CloseNext(o)
    BY <2>8 DEF CloseNext
  <2>9. CASE Destroyed(o)
    BY <2>9 DEF Destroyed
  <2> QED BY <2>1, <2>2, <2>3, <2>4, <2>5, <2>6, <2>7, <2>8, <2>9 DEF Loud
<1> QED BY <1>1 DEF Opened, Lent, At, NoFileUsed

LEMMA PipePhases ==
    ASSUME NEW o \in Objects, NEW p \in Pipes, At(o, PipePhase[p]),
           At(o, "pipe_err") => ~UseParentErr[o],
           AfterPipe(o, p) = phase'[o]
    PROVE  /\ Opened(o)' = Opened(o) \cup {p} /\ Lent(o)' = Opened(o) \cup {p}
           /\ Lent(o) = Opened(o) /\ p \notin Opened(o)
           /\ phase'[o] \in {"pipe_out", "pipe_err", "cloexec"}
           /\ phase'[o] = "pipe_err" => ~UseParentErr[o]
           /\ phase[o] \in {"pipe_in", "pipe_out", "pipe_err"}
<1>1. CASE p = "in"
  BY <1>1 DEF At, PipePhase, AfterPipe, Opened, Lent, Launching
<1>2. CASE p = "out"
  BY <1>2 DEF At, PipePhase, AfterPipe, Opened, Lent, Launching, PipesOf, Pipes
<1>3. CASE p = "err"
  BY <1>3 DEF At, PipePhase, AfterPipe, Opened, Lent, Launching, PipesOf, Pipes
<1> QED BY <1>1, <1>2, <1>3 DEF Pipes

\* The two descriptors a pipe is given.
LEMMA WhatIsPiped ==
    ASSUME TypeOK, HandlesSet, NEW o \in Objects, NEW p \in Pipes, Pipe(o, p)
    PROVE  \E a \in Free, b \in Free :
              /\ a # b /\ a \in Fds /\ b \in Fds
              /\ fd'[a] = <<o, p, OurEnd(p)>> /\ fd'[b] = <<o, p, HisEnd(p)>>
              /\ \A x \in Fds \ {a, b} : fd'[x] = fd[x]
              /\ own'[o][p] = a /\ his'[o][p] = b
              /\ \A q \in Pipes \ {p} : own'[o][q] = own[o][q] /\ his'[o][q] = his[o][q]
<1>1. PICK r \in Free, w \in Free :
         /\ r # w
         /\ fd' = [fd EXCEPT ![r] = <<o, p, "r">>, ![w] = <<o, p, "w">>]
         /\ own' = [own EXCEPT ![o][p] = IF OurEnd(p) = "r" THEN r ELSE w]
         /\ his' = [his EXCEPT ![o][p] = IF HisEnd(p) = "r" THEN r ELSE w]
  BY DEF Pipe
<1>2. r \in Fds /\ w \in Fds
  BY DEF Free
<1>3. /\ fd'[r] = <<o, p, "r">> /\ fd'[w] = <<o, p, "w">>
      /\ \A x \in Fds \ {r, w} : fd'[x] = fd[x]
  BY <1>1, <1>2 DEF TypeOK
<1>4. /\ own'[o][p] = IF OurEnd(p) = "r" THEN r ELSE w
      /\ his'[o][p] = IF HisEnd(p) = "r" THEN r ELSE w
      /\ \A q \in Pipes \ {p} : own'[o][q] = own[o][q] /\ his'[o][q] = his[o][q]
  BY <1>1 DEF TypeOK
<1>5. CASE OurEnd(p) = "r"
  <2>1. HisEnd(p) = "w"
    BY <1>5, PipeNames
  <2>2. own'[o][p] = r /\ his'[o][p] = w
    BY <1>4, <1>5, <2>1
  <2>3. fd'[r] = <<o, p, OurEnd(p)>> /\ fd'[w] = <<o, p, HisEnd(p)>>
    BY <1>3, <1>5, <2>1
  <2> QED BY <1>1, <1>2, <1>3, <1>4, <2>2, <2>3
<1>6. CASE OurEnd(p) # "r"
  <2>1. HisEnd(p) = "r" /\ OurEnd(p) = "w"
    BY <1>6, PipeNames
  <2>2. own'[o][p] = w /\ his'[o][p] = r
    BY <1>4, <2>1
  <2>3. fd'[w] = <<o, p, OurEnd(p)>> /\ fd'[r] = <<o, p, HisEnd(p)>>
    BY <1>3, <2>1
  <2> QED BY <1>1, <1>2, <1>3, <1>4, <2>2, <2>3
<1> QED BY <1>5, <1>6

LEMMA LoudHandlesSet ==
    ASSUME TypeOK, HandlesSet, NEW o \in Objects, Loud(o)
    PROVE  HandlesSet'
<1> DEFINE Set(q) ==
             /\ At(q, "pipe_err") => ~UseParentErr[q]
             /\ \A p \in Pipes :
                  /\ own[q][p] \in IF p \in Opened(q) THEN Fds ELSE {NoFd}
                  /\ his[q][p] \in IF p \in Lent(q) THEN Fds ELSE {NoFd}
             /\ phase[q] # "closing" => todo[q] = << >>
<1>1. \A q \in Objects : Set(q)
  BY DEF HandlesSet
<1>2. \A q \in Objects \ {o} : Set(q)'
  BY <1>1, LoudFrame DEF At
<1>3. /\ \A p \in Pipes : Without(own, o)[o][p] = NoFd /\ Without(his, o)[o][p] = NoFd
      /\ \A ph : Goto(o, ph) => phase'[o] = ph
  BY TypeOfWithout DEF TypeOK, Goto
<1>4. Set(o)'
  <2> USE DEF At, Opened, Lent, Launching, handles
  <2>1. CASE \E p \in Pipes : Pipe(o, p)
    <3> PICK p \in Pipes : Pipe(o, p)
      BY <2>1
    <3>1. AfterPipe(o, p) = phase'[o] /\ At(o, PipePhase[p]) /\ UNCHANGED todo
      BY <1>3 DEF Pipe
    <3>2. /\ Opened(o)' = Opened(o) \cup {p} /\ Lent(o)' = Opened(o) \cup {p}
          /\ Lent(o) = Opened(o) /\ p \notin Opened(o)
          /\ phase'[o] \in {"pipe_out", "pipe_err", "cloexec"}
          /\ phase'[o] = "pipe_err" => ~UseParentErr[o]
          /\ phase[o] \in {"pipe_in", "pipe_out", "pipe_err"}
      BY <1>1, <3>1, PipePhases
    <3>3. /\ own'[o][p] \in Fds /\ his'[o][p] \in Fds
          /\ \A q \in Pipes \ {p} : own'[o][q] = own[o][q] /\ his'[o][q] = his[o][q]
      BY WhatIsPiped
    <3>4. phase[o] # "closing" /\ todo'[o] = << >>
      BY <1>1, <3>1, <3>2
    <3> HIDE DEF Opened, Lent
    <3> QED BY <1>1, <3>2, <3>3, <3>4
  <2>2. CASE \E p \in Pipes : PipeFails(o, p)
    <3>1. /\ phase[o] # "closing" /\ phase'[o] = "failed_early" /\ UNCHANGED todo
          /\ own' = Without(own, o) /\ his' = Without(his, o)
      BY <1>3, <2>2 DEF PipeFails, PipePhase, Pipes
    <3> QED BY <1>1, <1>3, <3>1
  <2>3. CASE SetCloexec(o)
    BY <1>1, <1>3, <2>3 DEF SetCloexec
  <2>4. CASE LaunchFails(o)
    BY <1>1, <1>3, <2>4 DEF LaunchFails
  <2>5. CASE CloseHis(o)
    BY <1>1, <1>3, <2>5 DEF CloseHis
  <2>6. CASE DestroyWaited(o)
    BY <1>1, <1>3, <2>6 DEF DestroyWaited
  <2>7. CASE DestroyInterrupted(o)
    BY <1>1, <1>3, <2>7 DEF DestroyInterrupted
  <2>8. CASE CloseNext(o)
    BY <1>1, <2>8 DEF CloseNext
  <2>9. CASE Destroyed(o)
    BY <1>1, <1>3, <2>9 DEF Destroyed
  <2> QED BY <2>1, <2>2, <2>3, <2>4, <2>5, <2>6, <2>7, <2>8, <2>9 DEF Loud
<1>5. \A q \in Objects : Set(q)'
  BY <1>2, <1>4
<1> QED BY <1>5 DEF HandlesSet

\* What the step of an object leaves of the descriptor table.
LEMMA LoudFd ==
    ASSUME TypeOK, HandlesSet, NEW o \in Objects, Loud(o)
    PROVE  \A x \in Fds :
             /\ \A q \in Objects \ {o}, p \in Pipes, e \in {"r", "w"} :
                  fd'[x] = <<q, p, e>> => fd[x] = <<q, p, e>>
             /\ fd'[x] = Closed \/ fd'[x] = fd[x] \/ \E p \in Pipes : Pipe(o, p)
             /\ x \in cloexec /\ fd'[x] # Closed => x \in cloexec'
<1>1. CASE \E p \in Pipes : Pipe(o, p)
  <2> PICK p \in Pipes : Pipe(o, p)
    BY <1>1
  <2>1. UNCHANGED cloexec
    BY DEF Pipe
  <2>2. PICK a \in Free, b \in Free :
          /\ fd'[a] = <<o, p, OurEnd(p)>> /\ fd'[b] = <<o, p, HisEnd(p)>>
          /\ \A x \in Fds \ {a, b} : fd'[x] = fd[x]
          /\ own'[o][p] = a /\ his'[o][p] = b
    BY WhatIsPiped
  <2>3. \A x \in Fds, q \in Objects \ {o}, r \in Pipes, e \in {"r", "w"} :
          fd'[x] = <<q, r, e>> => fd[x] = <<q, r, e>>
    <3> TAKE x \in Fds, q \in Objects \ {o}, r \in Pipes, e \in {"r", "w"}
    <3>1. CASE x \in {a, b}
      BY <2>2, <3>1
    <3>2. CASE x \notin {a, b}
      BY <2>2, <3>2
    <3> QED BY <3>1, <3>2
  <2>4. \E r \in Pipes : Pipe(o, r)
    OBVIOUS
  <2>5. \A x \in Fds : x \in cloexec => x \in cloexec'
    BY <2>1
  <2> SUFFICES ASSUME NEW x \in Fds
               PROVE  /\ \A q \in Objects \ {o}, r \in Pipes, e \in {"r", "w"} :
                           fd'[x] = <<q, r, e>> => fd[x] = <<q, r, e>>
                      /\ x \in cloexec => x \in cloexec'
    BY <2>4
  <2> QED BY <2>3, <2>5
<1>2. CASE \E S : CloseFds(S)
  <2>1. \A x \in Fds : /\ fd'[x] = fd[x] \/ fd'[x] = Closed
                       /\ x \in cloexec /\ fd'[x] # Closed => x \in cloexec'
    BY <1>2, WhatIsClosed
  <2>2. \A q \in Objects, p \in Pipes, e \in {"r", "w"} : <<q, p, e>> # Closed
    BY EndsApart
  <2> QED BY <2>1, <2>2
<1>3. CASE UNCHANGED fd /\ cloexec \subseteq cloexec'
  BY <1>3
<1> QED BY <1>1, <1>2, <1>3
        DEF Loud, PipeFails, SetCloexec, LaunchFails, CloseHis, DestroyWaited,
            DestroyInterrupted, CloseNext, Destroyed, descriptors

LEMMA LoudEndsOwned ==
    ASSUME TypeOK, HandlesSet, EndsOwned, NEW o \in Objects, Loud(o)
    PROVE  EndsOwned'
<1> DEFINE Ours(x, q, p) ==
             fd[x] = <<q, p, OurEnd(p)>> =>
               /\ p \in Opened(q) /\ own[q][p] = x
               /\ At(q, "closing") => \E i \in 1 .. Len(todo[q]) : todo[q][i] = x
               /\ x \in cloexec \/ phase[q] \in {"pipe_out", "pipe_err", "cloexec"}
           His(x, q, p) ==
             fd[x] = <<q, p, HisEnd(p)>> =>
               At(q, "failed_early") \/ (p \in Lent(q) /\ his[q][p] = x)
<1>1. \A x \in Fds, q \in Objects, p \in Pipes : Ours(x, q, p) /\ His(x, q, p)
  BY DEF EndsOwned
<1>2. \A p \in Pipes : OurEnd(p) \in {"r", "w"} /\ HisEnd(p) \in {"r", "w"}
  BY PipeNames
<1>3. \A q \in Objects, p \in Pipes :
          <<q, p, OurEnd(p)>> # Closed /\ <<q, p, HisEnd(p)>> # Closed
  BY EndsApart
<1>4. \A x \in Fds, q \in Objects \ {o}, p \in Pipes : Ours(x, q, p)' /\ His(x, q, p)'
  <2> TAKE x \in Fds, q \in Objects \ {o}, p \in Pipes
  <2>1. /\ phase'[q] = phase[q] /\ own'[q] = own[q] /\ his'[q] = his[q]
        /\ todo'[q] = todo[q]
        /\ Opened(q)' = Opened(q) /\ Lent(q)' = Lent(q)
    BY LoudFrame
  <2>2. /\ fd'[x] = <<q, p, OurEnd(p)>> =>
             fd[x] = <<q, p, OurEnd(p)>> /\ (x \in cloexec => x \in cloexec')
        /\ fd'[x] = <<q, p, HisEnd(p)>> => fd[x] = <<q, p, HisEnd(p)>>
    BY <1>2, <1>3, LoudFd
  <2>3. Ours(x, q, p) /\ His(x, q, p)
    BY <1>1
  <2>4. Ours(x, q, p)'
    BY <2>1, <2>2, <2>3 DEF At
  <2>5. His(x, q, p)'
    BY <2>1, <2>2, <2>3 DEF At
  <2> QED BY <2>4, <2>5
<1>5. \A x \in Fds, p \in Pipes : Ours(x, o, p)' /\ His(x, o, p)'
  <2> USE DEF At
  <2>1. CASE \E p \in Pipes : Pipe(o, p)
    <3> PICK p \in Pipes : Pipe(o, p)
      BY <2>1
    <3>1. PICK a \in Free, b \in Free :
            /\ fd'[a] = <<o, p, OurEnd(p)>> /\ fd'[b] = <<o, p, HisEnd(p)>>
            /\ \A x \in Fds \ {a, b} : fd'[x] = fd[x]
            /\ own'[o][p] = a /\ his'[o][p] = b
            /\ \A q \in Pipes \ {p} : own'[o][q] = own[o][q] /\ his'[o][q] = his[o][q]
      BY WhatIsPiped
    <3>2. AfterPipe(o, p) = phase'[o] /\ At(o, PipePhase[p])
      BY DEF TypeOK, Pipe, Goto
    <3>3. /\ Opened(o)' = Opened(o) \cup {p} /\ Lent(o)' = Opened(o) \cup {p}
          /\ Lent(o) = Opened(o) /\ p \notin Opened(o)
          /\ phase'[o] \in {"pipe_out", "pipe_err", "cloexec"}
          /\ phase[o] \in {"pipe_in", "pipe_out", "pipe_err"}
      BY <3>2, PipePhases DEF HandlesSet
    <3> SUFFICES ASSUME NEW x \in Fds, NEW q \in Pipes
                 PROVE  Ours(x, o, q)' /\ His(x, o, q)'
      OBVIOUS
    <3>4. CASE x \in {a, b}
      <4>1. /\ fd'[x] = <<o, q, OurEnd(q)>> => q = p /\ x = a
            /\ fd'[x] = <<o, q, HisEnd(q)>> => q = p /\ x = b
        BY <3>1, <3>4, PipeNames
      <4> QED BY <3>1, <3>3, <4>1
    <3>5. CASE x \notin {a, b}
      <4>1. fd'[x] = fd[x]
        BY <3>1, <3>5
      <4>2. Ours(x, o, q) /\ His(x, o, q)
        BY <1>1
      <4>3. /\ fd[x] = <<o, q, OurEnd(q)>> => q \in Opened(o) /\ own[o][q] = x
            /\ fd[x] = <<o, q, HisEnd(q)>> => q \in Opened(o) /\ his[o][q] = x
        BY <3>3, <4>2
      <4> QED BY <3>1, <3>3, <4>1, <4>3
    <3> QED BY <3>4, <3>5
  <2>2. ASSUME NEW S, CloseFds(S), phase'[o] \in {"gone", "failed_early"},
               \A p \in Opened(o) : own[o][p] \in S,
               phase'[o] = "gone" => \A p \in Lent(o) : his[o][p] \in S,
               phase[o] # "failed_early"
        PROVE  \A x \in Fds, p \in Pipes : Ours(x, o, p)' /\ His(x, o, p)'
    <3> SUFFICES ASSUME NEW x \in Fds, NEW q \in Pipes
                 PROVE  Ours(x, o, q)' /\ His(x, o, q)'
      OBVIOUS
    <3>1. /\ x \in S => fd'[x] = Closed
          /\ x \notin S => fd'[x] = fd[x]
      BY <2>2, WhatIsClosed
    <3>2. Ours(x, o, q) /\ His(x, o, q)
      BY <1>1
    <3>3. fd'[x] # <<o, q, OurEnd(q)>>
      BY <1>3, <2>2, <3>1, <3>2
    <3>4. fd'[x] = <<o, q, HisEnd(q)>> => phase'[o] = "failed_early"
      BY <1>3, <2>2, <3>1, <3>2
    <3> QED BY <3>3, <3>4
  <2>3. CASE \E p \in Pipes : PipeFails(o, p)
    <3> DEFINE S == {own[o][q] : q \in Pipes}
    <3>1. /\ CloseFds(S)
          /\ phase'[o] = "failed_early" /\ phase[o] # "failed_early"
      BY <2>3 DEF PipeFails, TypeOK, Goto, PipePhase, Pipes
    <3>2. \A p \in Opened(o) : own[o][p] \in S
      BY DEF Opened, PipesOf, Pipes
    <3> HIDE DEF S
    <3> QED BY <2>2, <3>1, <3>2
  <2>4. CASE LaunchFails(o)
    <3> DEFINE S == {own[o][p] : p \in PipesOf(o)} \cup {his[o][p] : p \in PipesOf(o)}
    <3>1. /\ CloseFds(S)
          /\ phase'[o] = "gone" /\ phase[o] \in {"cloexec", "spawn"}
      BY <2>4 DEF LaunchFails, TypeOK, Goto
    <3>2. /\ \A p \in Opened(o) : own[o][p] \in S
          /\ \A p \in Lent(o) : his[o][p] \in S
      BY <3>1 DEF Opened, Lent
    <3> HIDE DEF S
    <3> QED BY <2>2, <3>1, <3>2
  <2>5. CASE SetCloexec(o)
    <3>1. /\ phase[o] = "cloexec" /\ phase'[o] = "spawn" /\ UNCHANGED <<fd, own, his>>
          /\ cloexec' = cloexec \cup {own[o][p] : p \in PipesOf(o)}
          /\ Opened(o)' = PipesOf(o) /\ Opened(o) = PipesOf(o)
          /\ Lent(o)' = PipesOf(o) /\ Lent(o) = PipesOf(o)
      BY <2>5 DEF SetCloexec, TypeOK, Goto, handles, Opened, Lent, Launching
    <3> QED BY <1>1, <3>1
  <2>6. CASE CloseHis(o)
    <3>1. /\ phase[o] = "launched" /\ phase'[o] = "live" /\ UNCHANGED own
          /\ CloseFds({his[o][p] : p \in PipesOf(o)})
          /\ Opened(o)' = PipesOf(o) /\ Opened(o) = PipesOf(o) /\ Lent(o) = PipesOf(o)
      BY <2>6 DEF CloseHis, TypeOK, Goto, Opened, Lent, Launching
    <3> SUFFICES ASSUME NEW x \in Fds, NEW q \in Pipes
                 PROVE  Ours(x, o, q)' /\ His(x, o, q)'
      OBVIOUS
    <3>2. /\ x \in {his[o][p] : p \in PipesOf(o)} => fd'[x] = Closed
          /\ x \notin {his[o][p] : p \in PipesOf(o)} =>
               fd'[x] = fd[x] /\ (x \in cloexec => x \in cloexec')
      BY <3>1, WhatIsClosed
    <3>3. Ours(x, o, q) /\ His(x, o, q)
      BY <1>1
    <3>4. fd'[x] # <<o, q, HisEnd(q)>>
      BY <1>3, <3>1, <3>2, <3>3
    <3>5. fd'[x] = <<o, q, OurEnd(q)>> =>
            /\ q \in PipesOf(o) /\ own[o][q] = x /\ x \in cloexec'
      BY <1>3, <3>1, <3>2, <3>3
    <3>6. Ours(x, o, q)'
      BY <3>1, <3>5
    <3> QED BY <3>4, <3>6
  <2>7. CASE DestroyWaited(o) \/ DestroyInterrupted(o)
    <3>1. /\ phase[o] = "dtor_wait" /\ phase'[o] = "closing"
          /\ UNCHANGED <<fd, cloexec, own, his>> /\ todo'[o] = ToClose(o)
          /\ Opened(o)' = PipesOf(o) /\ Opened(o) = PipesOf(o) /\ Lent(o) = {}
      BY <2>7 DEF DestroyWaited, DestroyInterrupted, TypeOK, Goto, Opened, Lent,
                  Launching, descriptors, handles
    <3>2. \A p \in PipesOf(o) : \E i \in 1 .. Len(ToClose(o)) : ToClose(o)[i] = own[o][p]
      BY <3>1, HandlesToClose DEF Alive
    <3> QED BY <1>1, <3>1, <3>2
  <2>8. CASE CloseNext(o)
    <3>1. /\ phase[o] = "closing" /\ UNCHANGED <<phase, own, his>>
          /\ CloseFds({Head(todo[o])}) /\ todo'[o] = Tail(todo[o])
          /\ todo[o] \in Seq(Fds) /\ todo[o] # << >>
          /\ Opened(o)' = Opened(o) /\ Lent(o)' = Lent(o)
      BY <2>8 DEF CloseNext, TypeOK, handles, Opened, Lent
    <3> SUFFICES ASSUME NEW x \in Fds, NEW q \in Pipes
                 PROVE  Ours(x, o, q)' /\ His(x, o, q)'
      OBVIOUS
    <3>2. /\ x = todo[o][1] => fd'[x] = Closed
          /\ x # todo[o][1] => fd'[x] = fd[x] /\ (x \in cloexec => x \in cloexec')
      BY <3>1, WhatIsClosed
    <3>3. Ours(x, o, q) /\ His(x, o, q)
      BY <1>1
    <3>4. (\E i \in 1 .. Len(todo[o]) : todo[o][i] = x) /\ x # todo[o][1] =>
              \E i \in 1 .. Len(Tail(todo[o])) : Tail(todo[o])[i] = x
      <4> SUFFICES ASSUME NEW i \in 1 .. Len(todo[o]), todo[o][i] = x, x # todo[o][1]
                   PROVE  i - 1 \in 1 .. Len(Tail(todo[o])) /\ Tail(todo[o])[i - 1] = x
        OBVIOUS
      <4> QED BY <3>1
    <3> QED BY <1>3, <3>1, <3>2, <3>3, <3>4
  <2>9. CASE Destroyed(o)
    <3>1. /\ phase[o] = "closing" /\ phase'[o] = "gone" /\ UNCHANGED <<fd, his>>
          /\ todo[o] = << >> /\ Lent(o) = {}
      BY <2>9 DEF Destroyed, TypeOK, Goto, Lent, Launching, descriptors
    <3> QED BY <1>1, <3>1
  <2> QED BY <2>1, <2>3, <2>4, <2>5, <2>6, <2>7, <2>8, <2>9 DEF Loud
<1>6. \A x \in Fds, q \in Objects, p \in Pipes : Ours(x, q, p)' /\ His(x, q, p)'
  BY <1>4, <1>5
<1> QED BY <1>6 DEF EndsOwned

LEMMA LoudHandlesGood ==
    ASSUME TypeOK, HandlesSet, HandlesGood, NoFileUsed, NEW o \in Objects, Loud(o)
    PROVE  HandlesGood'
<1> DEFINE Good(q) ==
             /\ phase[q] # "closing" =>
                  \A p \in Opened(q) : fd[own[q][p]] = <<q, p, OurEnd(p)>>
             /\ \A p \in Lent(q) : fd[his[q][p]] = <<q, p, HisEnd(p)>>
             /\ \A i \in 1 .. Len(todo[q]) :
                  /\ fd[todo[q][i]] \in OursOf(q)
                  /\ \A j \in 1 .. Len(todo[q]) : todo[q][i] = todo[q][j] => i = j
           \* Nothing of another object, nor a standard stream, is closed.
           Spared == \A x \in Fds :
             \/ \E q \in Objects \ {o} : fd[x] \in OursOf(q) \cup HisOf(q)
             \/ \E p \in Pipes : fd[x] = Std(p)
             => fd'[x] = fd[x]
           Marked == \A x \in cloexec : \E q \in Objects : fd[x] \in OursOf(q)
<1>1. /\ \A p \in Pipes : fd[StdOf[p]] = Std(p)
      /\ Marked /\ \A q \in Objects : Good(q)
  BY DEF HandlesGood
<1>2. \A q \in Objects : /\ Opened(q) \subseteq Pipes /\ Lent(q) \subseteq Pipes
                         /\ OursOf(q)' = OursOf(q)
                         /\ \A p \in Opened(q) : own[q][p] \in Fds
                         /\ \A p \in Lent(q) : his[q][p] \in Fds
                         /\ todo[q] \in Seq(Fds)
                         /\ \A p \in Pipes : /\ <<q, p, OurEnd(p)>> \in OursOf(q)
                                             /\ <<q, p, HisEnd(p)>> \in HisOf(q)
  <2> TAKE q \in Objects
  <2>1. Opened(q) \subseteq Pipes
    BY PipeNames DEF Opened
  <2>2. Lent(q) \subseteq Opened(q)
    BY DEF Lent
  <2> QED BY <2>1, <2>2 DEF HandlesSet, TypeOK, OursOf, HisOf
<1>3. \A q \in Objects :
          /\ phase[q] # "closing" => \A p \in Opened(q) : fd[own[q][p]] \in OursOf(q)
          /\ \A p \in Lent(q) : fd[his[q][p]] \in HisOf(q)
  <2> TAKE q \in Objects
  <2>1. Good(q)
    BY <1>1
  <2>2. \A p \in Opened(q) : <<q, p, OurEnd(p)>> \in OursOf(q)
    BY <1>2
  <2>3. \A p \in Lent(q) : <<q, p, HisEnd(p)>> \in HisOf(q)
    BY <1>2
  <2> QED BY <2>1, <2>2, <2>3
<1>4. ASSUME Spared, Marked', Good(o)'
      PROVE  HandlesGood'
  <2>1. \A p \in Pipes : fd'[StdOf[p]] = Std(p)
    BY <1>1, <1>4, PipeNames
  <2>2. \A q \in Objects \ {o} : Good(q)'
    <3> TAKE q \in Objects \ {o}
    <3>1. /\ phase'[q] = phase[q] /\ own'[q] = own[q] /\ his'[q] = his[q]
          /\ todo'[q] = todo[q]
          /\ Opened(q)' = Opened(q) /\ Lent(q)' = Lent(q)
      BY LoudFrame
    <3>2. \A x \in Fds : fd[x] \in OursOf(q) \cup HisOf(q) => fd'[x] = fd[x]
      BY <1>4
    <3>3. Good(q)
      BY <1>1
    <3>4. phase'[q] # "closing" =>
             \A p \in Opened(q)' : fd'[own'[q][p]] = <<q, p, OurEnd(p)>>
      <4> SUFFICES ASSUME phase[q] # "closing", NEW p \in Opened(q)
                   PROVE  fd'[own[q][p]] = <<q, p, OurEnd(p)>>
        BY <3>1
      <4>1. p \in Pipes /\ own[q][p] \in Fds /\ <<q, p, OurEnd(p)>> \in OursOf(q)
        BY <1>2
      <4> QED BY <3>2, <3>3, <4>1
    <3>5. \A p \in Lent(q)' : fd'[his'[q][p]] = <<q, p, HisEnd(p)>>
      <4> SUFFICES ASSUME NEW p \in Lent(q)
                   PROVE  fd'[his[q][p]] = <<q, p, HisEnd(p)>>
        BY <3>1
      <4>1. p \in Pipes /\ his[q][p] \in Fds /\ <<q, p, HisEnd(p)>> \in HisOf(q)
        BY <1>2
      <4> QED BY <3>2, <3>3, <4>1
    <3>6. \A i \in 1 .. Len(todo'[q]) :
             /\ fd'[todo'[q][i]] \in OursOf(q)'
             /\ \A j \in 1 .. Len(todo'[q]) : todo'[q][i] = todo'[q][j] => i = j
      BY <1>2, <3>1, <3>2, <3>3
    <3> QED BY <3>4, <3>5, <3>6
  <2>3. \A q \in Objects : Good(q)'
    BY <1>4, <2>2
  <2> QED BY <1>4, <2>1, <2>3 DEF HandlesGood
<1>5. ASSUME NEW S, CloseFds(S), \A x \in S : x \in Fds => fd[x] \in OursOf(o) \cup HisOf(o)
      PROVE  Spared /\ Marked'
  <2>1. \A x \in Fds : fd'[x] = IF x \in S THEN Closed ELSE fd[x]
    BY <1>5, WhatIsClosed
  <2>2. \A x \in S : x \in Fds => /\ \A q \in Objects \ {o} : fd[x] \notin OursOf(q) \cup HisOf(q)
                                  /\ \A p \in Pipes : fd[x] # Std(p)
    BY <1>5, EndsApart DEF OursOf, HisOf
  <2>3. Spared
    BY <2>1, <2>2
  <2>4. cloexec' = cloexec \ S /\ cloexec \subseteq Fds
    BY <1>5, WhatIsClosed DEF TypeOK
  <2>5. Marked'
    BY <1>1, <1>2, <2>1, <2>4
  <2> QED BY <2>3, <2>5
<1>6. CASE \E p \in Pipes : Pipe(o, p)
  <2> PICK p \in Pipes : Pipe(o, p)
    BY <1>6
  <2>1. PICK a \in Free, b \in Free :
          /\ a # b /\ a \in Fds /\ b \in Fds
          /\ fd'[a] = <<o, p, OurEnd(p)>> /\ fd'[b] = <<o, p, HisEnd(p)>>
          /\ \A x \in Fds \ {a, b} : fd'[x] = fd[x]
          /\ own'[o][p] = a /\ his'[o][p] = b
          /\ \A q \in Pipes \ {p} : own'[o][q] = own[o][q] /\ his'[o][q] = his[o][q]
    BY WhatIsPiped
  <2>2. fd[a] = Closed /\ fd[b] = Closed
    BY DEF Free
  <2>3. \A x \in Fds : fd[x] # Closed => fd'[x] = fd[x]
    BY <2>1, <2>2
  <2>4. /\ \A q \in Objects : Closed \notin OursOf(q) \cup HisOf(q)
        /\ \A q \in Pipes : Closed # Std(q)
    BY EndsApart
  <2>5. Spared
    BY <2>3, <2>4
  <2>6. Marked'
    <3>1. UNCHANGED cloexec /\ cloexec \subseteq Fds
      BY DEF Pipe, TypeOK
    <3> QED BY <1>1, <1>2, <2>3, <2>4, <3>1
  <2>7. AfterPipe(o, p) = phase'[o] /\ At(o, PipePhase[p]) /\ UNCHANGED todo
    BY DEF TypeOK, Pipe, Goto
  <2>8. /\ Opened(o)' = Opened(o) \cup {p} /\ Lent(o)' = Opened(o) \cup {p}
        /\ Lent(o) = Opened(o) /\ p \notin Opened(o)
        /\ phase[o] # "closing"
    BY <2>7, PipePhases DEF HandlesSet
  <2>9. Good(o)'
    <3>1. \A q \in Opened(o) :
             /\ fd'[own'[o][q]] = <<o, q, OurEnd(q)>>
             /\ fd'[his'[o][q]] = <<o, q, HisEnd(q)>>
      <4> TAKE q \in Opened(o)
      <4>1. /\ q \in Pipes \ {p} /\ own[o][q] \in Fds /\ his[o][q] \in Fds
            /\ <<o, q, OurEnd(q)>> # Closed /\ <<o, q, HisEnd(q)>> # Closed
        <5>1. q \in Pipes /\ q # p /\ q \in Opened(o) /\ q \in Lent(o)
          BY <1>2, <2>8
        <5>2. own[o][q] \in Fds /\ his[o][q] \in Fds
          BY <1>2, <5>1
        <5> QED BY <5>1, <5>2, EndsApart
      <4>2. fd[own[o][q]] = <<o, q, OurEnd(q)>> /\ fd[his[o][q]] = <<o, q, HisEnd(q)>>
        BY <1>1, <2>8
      <4> QED BY <2>1, <2>3, <4>1, <4>2
    <3>2. todo'[o] = << >>
      BY <2>7, <2>8 DEF HandlesSet
    <3>3. /\ \A q \in Opened(o)' : fd'[own'[o][q]] = <<o, q, OurEnd(q)>>
          /\ \A q \in Lent(o)' : fd'[his'[o][q]] = <<o, q, HisEnd(q)>>
      BY <2>1, <2>8, <3>1
    <3>4. \A i \in 1 .. Len(todo'[o]) : FALSE
      BY <3>2
    <3> QED BY <3>3, <3>4, Zenon
  <2> QED BY <1>4, <2>5, <2>6, <2>9
<1>7. CASE \E p \in Pipes : PipeFails(o, p)
  <2> DEFINE S == {own[o][q] : q \in Pipes}
  <2>1. /\ CloseFds(S) /\ phase'[o] = "failed_early" /\ UNCHANGED todo
        /\ phase[o] # "closing"
    BY <1>7 DEF PipeFails, At, TypeOK, Goto, PipePhase, Pipes
  <2>2. \A x \in S : x \in Fds => fd[x] \in OursOf(o) \cup HisOf(o)
    <3> SUFFICES ASSUME NEW q \in Pipes, own[o][q] \in Fds
                 PROVE  fd[own[o][q]] \in OursOf(o)
      OBVIOUS
    <3>1. q \in Opened(o)
      BY FdFacts DEF HandlesSet
    <3> QED BY <1>1, <1>2, <2>1, <3>1
  <2> HIDE DEF S
  <2>3. Good(o)'
    BY <2>1 DEF HandlesSet, Opened, Lent, Launching
  <2> QED BY <1>4, <1>5, <2>1, <2>2, <2>3
<1>8. CASE LaunchFails(o)
  <2> DEFINE S == {own[o][p] : p \in PipesOf(o)} \cup {his[o][p] : p \in PipesOf(o)}
  <2>1. /\ CloseFds(S) /\ phase'[o] = "gone" /\ UNCHANGED todo
        /\ phase[o] \in {"cloexec", "spawn"}
    BY <1>8 DEF LaunchFails, TypeOK, Goto
  <2>2. Opened(o) = PipesOf(o) /\ Lent(o) = PipesOf(o)
    BY <2>1 DEF Opened, Lent, Launching
  <2>3. \A x \in S : x \in Fds => fd[x] \in OursOf(o) \cup HisOf(o)
    <3> SUFFICES ASSUME NEW q \in PipesOf(o)
                 PROVE  fd[own[o][q]] \in OursOf(o) /\ fd[his[o][q]] \in HisOf(o)
      OBVIOUS
    <3> QED BY <1>3, <2>1, <2>2
  <2> HIDE DEF S
  <2>4. Good(o)'
    BY <2>1 DEF HandlesSet, Opened, Lent, Launching
  <2> QED BY <1>4, <1>5, <2>1, <2>3, <2>4
<1>9. CASE SetCloexec(o)
  <2>1. /\ phase[o] = "cloexec" /\ phase'[o] = "spawn" /\ UNCHANGED <<fd, own, his, todo>>
        /\ cloexec' = cloexec \cup {own[o][p] : p \in PipesOf(o)}
    BY <1>9 DEF SetCloexec, At, TypeOK, Goto, handles
  <2>2. /\ Opened(o)' = PipesOf(o) /\ Opened(o) = PipesOf(o)
        /\ Lent(o)' = PipesOf(o) /\ Lent(o) = PipesOf(o)
    BY <2>1 DEF Opened, Lent, Launching
  <2>3. Spared
    BY <2>1
  <2>4. Marked'
    <3>1. \A p \in PipesOf(o) : fd[own[o][p]] \in OursOf(o)
      BY <1>3, <2>1, <2>2
    <3> QED BY <1>1, <1>2, <2>1, <3>1
  <2>5. Good(o)'
    <3>1. Good(o)
      BY <1>1
    <3> QED BY <1>2, <2>1, <2>2, <3>1
  <2> QED BY <1>4, <2>3, <2>4, <2>5
<1>10. CASE CloseHis(o)
  <2> DEFINE S == {his[o][p] : p \in PipesOf(o)}
  <2>1. /\ CloseFds(S) /\ phase'[o] = "live" /\ UNCHANGED <<todo, own>>
        /\ phase[o] = "launched"
    BY <1>10 DEF CloseHis, At, TypeOK, Goto
  <2>2. /\ Opened(o) = PipesOf(o) /\ Lent(o) = PipesOf(o)
        /\ Opened(o)' = PipesOf(o) /\ Lent(o)' = {}
    BY <2>1 DEF Opened, Lent, Launching
  <2>3. \A x \in S : x \in Fds => fd[x] \in OursOf(o) \cup HisOf(o)
    <3> SUFFICES ASSUME NEW q \in PipesOf(o)
                 PROVE  fd[his[o][q]] \in HisOf(o)
      OBVIOUS
    <3> QED BY <1>3, <2>1, <2>2
  <2>4. \A q \in PipesOf(o) : fd'[own[o][q]] = <<o, q, OurEnd(q)>>
    <3> TAKE q \in PipesOf(o)
    <3>1. fd[own[o][q]] = <<o, q, OurEnd(q)>> /\ own[o][q] \in Fds /\ q \in Pipes
      BY <1>1, <1>2, <2>1, <2>2
    <3>2. own[o][q] \notin S
      <4> SUFFICES ASSUME NEW p \in PipesOf(o), his[o][p] = own[o][q]
                   PROVE  FALSE
        OBVIOUS
      <4>1. fd[his[o][p]] = <<o, p, HisEnd(p)>>
        BY <1>1, <2>2
      <4> QED BY <3>1, <4>1, PipeNames
    <3> HIDE DEF S
    <3> QED BY <2>1, <3>1, <3>2, WhatIsClosed
  <2> HIDE DEF S
  <2>5. todo'[o] = << >>
    BY <2>1 DEF HandlesSet
  <2>6. Good(o)'
    BY <2>1, <2>2, <2>4, <2>5
  <2> QED BY <1>4, <1>5, <2>1, <2>3, <2>6
<1>11. CASE DestroyWaited(o) \/ DestroyInterrupted(o)
  <2>1. /\ phase[o] = "dtor_wait" /\ phase'[o] = "closing"
        /\ UNCHANGED <<fd, cloexec, own, his>> /\ todo'[o] = ToClose(o)
    BY <1>11 DEF DestroyWaited, DestroyInterrupted, At, TypeOK, Goto, descriptors, handles
  <2>2. Opened(o) = PipesOf(o) /\ Lent(o)' = {}
    BY <2>1 DEF Opened, Lent, Launching
  <2>3. \A q \in PipesOf(o) : fd[own[o][q]] = <<o, q, OurEnd(q)>> /\ q \in Pipes
    BY <1>1, <1>2, <2>1, <2>2
  <2>4. \A q, r \in PipesOf(o) : own[o][q] = own[o][r] => q = r
    BY <2>3
  <2>5. \A i \in 1 .. Len(ToClose(o)) : \E p \in PipesOf(o) :
           /\ ToClose(o)[i] = own[o][p]
           /\ \A j \in 1 .. Len(ToClose(o)) : ToClose(o)[j] = own[o][p] => i = j
    <3>1. ~files[o] /\ phase[o] \in Alive
      BY <2>1 DEF NoFileUsed, Alive
    <3> QED BY <2>4, <3>1, HandlesToClose
  <2>6. Good(o)'
    <3> SUFFICES ASSUME NEW i \in 1 .. Len(ToClose(o))
                 PROVE  /\ fd[ToClose(o)[i]] \in OursOf(o)
                        /\ \A j \in 1 .. Len(ToClose(o)) :
                             ToClose(o)[i] = ToClose(o)[j] => i = j
      BY <1>2, <2>1, <2>2
    <3> PICK p \in PipesOf(o) :
           /\ ToClose(o)[i] = own[o][p]
           /\ \A j \in 1 .. Len(ToClose(o)) : ToClose(o)[j] = own[o][p] => i = j
      BY <2>5
    <3> QED BY <1>2, <2>3
  <2>7. Spared /\ Marked'
    BY <1>1, <1>2, <2>1
  <2> QED BY <1>4, <2>6, <2>7
<1>12. CASE CloseNext(o)
  <2> DEFINE S == {Head(todo[o])}
             t == todo[o]
  <2>1. /\ CloseFds(S) /\ phase[o] = "closing" /\ UNCHANGED <<phase, own, his>>
        /\ todo'[o] = Tail(t) /\ t \in Seq(Fds) /\ t # << >>
    BY <1>12 DEF CloseNext, At, TypeOK, handles
  <2>2. /\ \A i \in 1 .. Len(t) :
             /\ fd[t[i]] \in OursOf(o)
             /\ \A j \in 1 .. Len(t) : t[i] = t[j] => i = j
    BY <1>1
  <2> HIDE DEF t
  <2>3. \A x \in S : x = t[1] /\ 1 \in 1 .. Len(t)
    BY <2>1 DEF t
  <2>4. \A x \in S : x \in Fds => fd[x] \in OursOf(o) \cup HisOf(o)
    BY <2>2, <2>3
  <2> HIDE DEF S
  <2>5. \A i \in 1 .. Len(Tail(t)) :
           /\ Tail(t)[i] = t[i + 1] /\ i + 1 \in 1 .. Len(t) /\ t[i + 1] \in Fds
    BY <2>1
  <2>6. \A i \in 1 .. Len(Tail(t)) : fd'[Tail(t)[i]] = fd[Tail(t)[i]]
    <3> TAKE i \in 1 .. Len(Tail(t))
    <3>1. t[i + 1] \notin S
      BY <2>2, <2>3, <2>5
    <3> QED BY <2>1, <2>5, <3>1, WhatIsClosed
  <2>7. Lent(o)' = {}
    BY <2>1 DEF Lent, Launching
  <2>8. \A i \in 1 .. Len(Tail(t)) :
           /\ fd'[Tail(t)[i]] \in OursOf(o)
           /\ \A j \in 1 .. Len(Tail(t)) : Tail(t)[i] = Tail(t)[j] => i = j
    BY <2>2, <2>5, <2>6
  <2>9. Good(o)'
    BY <1>2, <2>1, <2>7, <2>8
  <2> QED BY <1>4, <1>5, <2>1, <2>4, <2>9
<1>13. CASE Destroyed(o)
  <2>1. /\ phase[o] = "closing" /\ phase'[o] = "gone" /\ UNCHANGED <<fd, cloexec, his>>
        /\ todo'[o] = << >>
    BY <1>13 DEF Destroyed, At, TypeOK, Goto, descriptors
  <2>2. Opened(o)' = {} /\ Lent(o)' = {}
    BY <2>1 DEF Opened, Lent, Launching
  <2> QED BY <1>1, <1>2, <1>4, <2>1, <2>2
<1> QED BY <1>6, <1>7, <1>8, <1>9, <1>10, <1>11, <1>12, <1>13 DEF Loud

-----------------------------------------------------------------------------
\* Children

Unborn == {"pipe_in", "pipe_out", "pipe_err", "cloexec", "spawn"}

\* A step that neither makes a child nor is told of one.
LEMMA ReapingFrame ==
    ASSUME TypeOK, Reaping,
           UNCHANGED <<pid, proc, reaped, exited>>, cut \subseteq cut',
           \A o \in Objects :
              \/ phase'[o] = phase[o]
              \/ {phase[o], phase'[o]} \subseteq Spawned /\ phase'[o] # "closing"
              \/ phase[o] = "closing" /\ phase'[o] = "gone"
              \/ phase[o] \in Unborn /\ phase'[o] \notin Spawned
              \/ phase[o] = "dtor_wait" /\ phase'[o] = "closing" /\ o \in cut'
    PROVE  Reaping'
<1>1. \A o \in Objects :
         /\ phase'[o] \in Spawned => pid'[o] \in Pids
                                     /\ (o \in reaped' \/ proc'[pid'[o]].of = o)
         /\ o \in exited' => phase'[o] \in Spawned \cup {"gone"}
         /\ phase'[o] \in {"closing", "gone"} /\ o \notin cut' =>
              \A p \in Pids : proc'[p].of # o
  BY DEF Reaping, Spawned, Alive, Unborn
<1>2. \A p \in Pids :
         /\ proc'[p].state = "free" <=> proc'[p].of = NoPid
         /\ proc'[p].of \in Objects =>
              /\ pid'[proc'[p].of] = p
              /\ phase'[proc'[p].of] \in Spawned \cup {"gone"}
         /\ proc'[p].state = "zombie" => proc'[p].of \in exited'
  BY DEF Reaping, Spawned, Alive, Unborn
<1> QED BY <1>1, <1>2 DEF Reaping

LEMMA SpawnReaping ==
    ASSUME TypeOK, Reaping, NEW o \in Objects, Spawn(o)
    PROVE  Reaping'
<1>1. PICK p \in Pids :
         /\ proc[p].state = "free"
         /\ proc' = [proc EXCEPT ![p] = [state |-> "running", of |-> o,
                                         told |-> FALSE, table |-> ChildTable(o)]]
         /\ pid' = [pid EXCEPT ![o] = p]
  BY DEF Spawn
<1>2. /\ proc'[p].state = "running" /\ proc'[p].of = o
      /\ \A q \in Pids \ {p} : proc'[q] = proc[q]
      /\ pid'[o] = p /\ \A q \in Objects \ {o} : pid'[q] = pid[q]
  BY <1>1 DEF TypeOK
<1>3. /\ phase[o] = "spawn" /\ phase'[o] = "launched"
      /\ \A q \in Objects \ {o} : phase'[q] = phase[q]
      /\ UNCHANGED <<exited, reaped, cut>>
  BY DEF Spawn, At, Goto, TypeOK
<1>4. proc[p].of = NoPid /\ NoPid \notin Objects
  BY <1>1, ChildAssumption DEF Reaping
<1>5. \A q \in Pids : proc[q].of # o
  BY <1>3 DEF Reaping, Spawned, Alive
<1>6. \A q \in Objects :
         /\ phase'[q] \in Spawned => pid'[q] \in Pids
                                     /\ (q \in reaped' \/ proc'[pid'[q]].of = q)
         /\ q \in exited' => phase'[q] \in Spawned \cup {"gone"}
         /\ phase'[q] \in {"closing", "gone"} /\ q \notin cut' =>
              \A r \in Pids : proc'[r].of # q
  <2> TAKE q \in Objects
  <2>1. CASE q = o
    BY <1>2, <1>3, <2>1 DEF Spawned, Alive
  <2>2. CASE q # o
    <3>1. /\ phase[q] \in Spawned => pid[q] \in Pids
                                     /\ (q \in reaped \/ proc[pid[q]].of = q)
          /\ q \in exited => phase[q] \in Spawned \cup {"gone"}
          /\ phase[q] \in {"closing", "gone"} /\ q \notin cut =>
               \A r \in Pids : proc[r].of # q
      BY DEF Reaping
    <3>2. phase'[q] = phase[q] /\ pid'[q] = pid[q]
      BY <1>2, <1>3, <2>2
    <3>3. \A r \in Pids : proc[r].of = q => proc'[r].of = q
      BY <1>2, <1>4
    <3>4. \A r \in Pids : proc'[r].of = q => proc[r].of = q
      BY <1>2, <2>2
    <3> QED BY <1>3, <3>1, <3>2, <3>3, <3>4
  <2> QED BY <2>1, <2>2
<1>7. \A r \in Pids :
         /\ proc'[r].state = "free" <=> proc'[r].of = NoPid
         /\ proc'[r].of \in Objects =>
              /\ pid'[proc'[r].of] = r
              /\ phase'[proc'[r].of] \in Spawned \cup {"gone"}
         /\ proc'[r].state = "zombie" => proc'[r].of \in exited'
  <2> TAKE r \in Pids
  <2>1. CASE r = p
    BY <1>2, <1>3, <1>4, <2>1 DEF Spawned
  <2>2. CASE r # p
    <3>1. proc'[r] = proc[r] /\ proc[r].of # o
      BY <1>2, <1>5, <2>2
    <3>2. /\ proc[r].state = "free" <=> proc[r].of = NoPid
          /\ proc[r].of \in Objects =>
               /\ pid[proc[r].of] = r
               /\ phase[proc[r].of] \in Spawned \cup {"gone"}
          /\ proc[r].state = "zombie" => proc[r].of \in exited
      BY DEF Reaping
    <3> QED BY <1>2, <1>3, <3>1, <3>2
  <2> QED BY <2>1, <2>2
<1> QED BY <1>6, <1>7 DEF Reaping

\* A step that is told of its child: an exit frees the child.
LEMMA ToldReaping ==
    ASSUME TypeOK, Reaping, NEW o \in Objects, phase[o] \in Alive,
           proc' = Told(pid[o]), reaped' = reaped \cup Reported(pid[o]),
           UNCHANGED <<pid, exited>>, cut \subseteq cut',
           \A q \in Objects \ {o} : phase'[q] = phase[q],
           \/ phase'[o] \in Alive
           \/ phase'[o] = "closing" /\ (proc[pid[o]].state = "zombie" \/ o \in cut')
    PROVE  Reaping'
<1> DEFINE p == pid[o]
<1>1. p \in Pids
  BY DEF Reaping, Spawned
<1> HIDE DEF p
<1>2. \A r \in Pids :
         \/ /\ r = p /\ proc[r].state = "zombie" /\ proc'[r] = NoChild
            /\ proc[r].of \in reaped'
         \/ /\ proc'[r].of = proc[r].of /\ proc'[r].state = proc[r].state
            /\ ~(r = p /\ proc[r].state = "zombie")
  BY <1>1, TypeOfTold DEF p, Reported
<1>3. NoChild.of = NoPid /\ NoChild.state = "free" /\ NoPid \notin Objects
  BY ChildAssumption DEF NoChild
<1>4. \A q \in Objects : {phase[q], phase'[q]} \subseteq Spawned \/ phase'[q] = phase[q]
  BY DEF Spawned
<1>5. \A q \in Objects :
         /\ phase'[q] \in Spawned => pid'[q] \in Pids
                                     /\ (q \in reaped' \/ proc'[pid'[q]].of = q)
         /\ q \in exited' => phase'[q] \in Spawned \cup {"gone"}
  <2> TAKE q \in Objects
  <2>1. /\ phase[q] \in Spawned => pid[q] \in Pids
                                   /\ (q \in reaped \/ proc[pid[q]].of = q)
        /\ q \in exited => phase[q] \in Spawned \cup {"gone"}
    BY DEF Reaping
  <2>2. phase'[q] \in Spawned <=> phase[q] \in Spawned
    BY <1>4
  <2>3. phase[q] \in Spawned => q \in reaped' \/ proc'[pid[q]].of = q
    BY <1>2, <2>1
  <2> QED BY <1>4, <2>1, <2>2, <2>3
<1>6. \A q \in Objects : phase'[q] \in {"closing", "gone"} /\ q \notin cut' =>
              \A r \in Pids : proc'[r].of # q
  <2> SUFFICES ASSUME NEW q \in Objects, phase'[q] \in {"closing", "gone"}, q \notin cut',
                      NEW r \in Pids, proc'[r].of = q
               PROVE  FALSE
    OBVIOUS
  <2>1. proc[r].of = q /\ ~(r = p /\ proc[r].state = "zombie")
    BY <1>2, <1>3
  <2>2. CASE q = o
    <3>1. pid[o] = r
      BY <2>1, <2>2 DEF Reaping
    <3> QED BY <2>1, <2>2, <3>1 DEF p, Alive
  <2>3. CASE q # o
    BY <2>1, <2>3 DEF Reaping
  <2> QED BY <2>2, <2>3
<1>7. \A r \in Pids :
         /\ proc'[r].state = "free" <=> proc'[r].of = NoPid
         /\ proc'[r].of \in Objects =>
              /\ pid'[proc'[r].of] = r
              /\ phase'[proc'[r].of] \in Spawned \cup {"gone"}
         /\ proc'[r].state = "zombie" => proc'[r].of \in exited'
  <2> TAKE r \in Pids
  <2>1. /\ proc[r].state = "free" <=> proc[r].of = NoPid
        /\ proc[r].of \in Objects =>
             /\ pid[proc[r].of] = r
             /\ phase[proc[r].of] \in Spawned \cup {"gone"}
        /\ proc[r].state = "zombie" => proc[r].of \in exited
    BY DEF Reaping
  <2>2. CASE proc'[r] = NoChild
    BY <1>3, <2>2
  <2>3. CASE proc'[r].of = proc[r].of /\ proc'[r].state = proc[r].state
    BY <1>4, <2>1, <2>3
  <2> QED BY <1>2, <2>2, <2>3
<1> QED BY <1>5, <1>6, <1>7 DEF Reaping

LEMMA ChildrenReaping ==
    ASSUME TypeOK, Reaping, NEW p \in Pids,
           ChildExits(p) \/ ChildStops(p) \/ ChildContinues(p)
    PROVE  Reaping'
<1>1. /\ \A q \in Pids \ {p} : proc'[q] = proc[q]
      /\ proc[p].state \in {"running", "stopped"} /\ proc'[p].of = proc[p].of
      /\ \/ proc'[p].state = "zombie" /\ exited' = exited \cup {proc[p].of}
         \/ proc'[p].state \in {"running", "stopped"} /\ exited' = exited
  BY ChildChanges DEF ChildExits, ChildStops, ChildContinues
<1>2. UNCHANGED <<pid, phase, reaped, cut>>
  BY DEF ChildExits, ChildStops, ChildContinues, histories
<1>3. proc[p].of \in Objects
  BY <1>1 DEF TypeOK, Reaping
<1>4. \A r \in Pids : proc'[r].of = proc[r].of
  BY <1>1
<1>5. phase[proc[p].of] \in Spawned \cup {"gone"}
  BY <1>3 DEF Reaping
<1>6. \A q \in Objects :
         /\ phase'[q] \in Spawned => pid'[q] \in Pids
                                     /\ (q \in reaped' \/ proc'[pid'[q]].of = q)
         /\ q \in exited' => phase'[q] \in Spawned \cup {"gone"}
         /\ phase'[q] \in {"closing", "gone"} /\ q \notin cut' =>
              \A r \in Pids : proc'[r].of # q
  BY <1>1, <1>2, <1>4, <1>5 DEF Reaping
<1>7. \A r \in Pids :
         /\ proc'[r].state = "free" <=> proc'[r].of = NoPid
         /\ proc'[r].of \in Objects =>
              /\ pid'[proc'[r].of] = r
              /\ phase'[proc'[r].of] \in Spawned \cup {"gone"}
         /\ proc'[r].state = "zombie" => proc'[r].of \in exited'
  BY <1>1, <1>2, <1>3, <1>4 DEF Reaping
<1> QED BY <1>6, <1>7 DEF Reaping

LEMMA StepReaping ==
    ASSUME TypeOK, Reaping, Next
    PROVE  Reaping'
<1>1. ASSUME NEW o \in Objects, Spawn(o)
      PROVE  Reaping'
  BY <1>1, SpawnReaping
<1>2. ASSUME NEW p \in Pids, ChildExits(p) \/ ChildStops(p) \/ ChildContinues(p)
      PROVE  Reaping'
  BY <1>2, ChildrenReaping
<1>3. ASSUME NEW o \in Objects,
             \/ UseFiles(o) \/ AskRunning(o) \/ Wait(o) \/ Destroy(o)
             \/ WaitFails(o) \/ WaitInterrupted(o) \/ WaitSleeps(o) \/ WakeUp(o)
             \/ DeadlinePasses(o)
      PROVE  Reaping'
  <2>1. UNCHANGED <<pid, proc, reaped, exited, cut>>
    BY <1>3 DEF UseFiles, AskRunning, Wait, Destroy, WaitFails, WaitInterrupted,
                WaitSleeps, WakeUp, DeadlinePasses, children, histories
  <2>2. Quiet
    BY <1>3, QuietSteps
  <2>3. \A q \in Objects : phase[q] = "spawn" => phase'[q] # "launched"
    BY <1>3 DEF UseFiles, AskRunning, Wait, Destroy, WaitFails, WaitInterrupted,
                WaitSleeps, WakeUp, DeadlinePasses, Answer, Goto, At, TypeOK, children
  <2> QED BY <2>1, <2>2, <2>3, ReapingFrame DEF Quiet, Spawned, Alive
<1>4. ASSUME NEW o \in Objects, \/ \E p \in Pipes : Pipe(o, p) \/ PipeFails(o, p)
                               \/ SetCloexec(o) \/ LaunchFails(o) \/ CloseHis(o)
                               \/ CloseNext(o) \/ Destroyed(o)
      PROVE  Reaping'
  <2>1. UNCHANGED <<pid, proc, reaped, exited, cut>>
    BY <1>4 DEF Pipe, PipeFails, SetCloexec, LaunchFails, CloseHis, CloseNext,
                Destroyed, children, histories
  <2>2. \A q \in Objects \ {o} : phase'[q] = phase[q]
    BY <1>4, LoudFrame DEF Loud
  <2>3. \/ phase'[o] = phase[o]
        \/ {phase[o], phase'[o]} \subseteq Spawned /\ phase'[o] # "closing"
        \/ phase[o] = "closing" /\ phase'[o] = "gone"
        \/ phase[o] \in Unborn /\ phase'[o] \notin Spawned
    <3> USE DEF TypeOK, At, Goto, Spawned, Alive, Unborn
    <3>1. CASE \E p \in Pipes : Pipe(o, p)
      BY <3>1 DEF Pipe, PipePhase, AfterPipe, Pipes
    <3>2. CASE \E p \in Pipes : PipeFails(o, p)
      BY <3>2 DEF PipeFails, PipePhase, Pipes
    <3>3. CASE SetCloexec(o)
      BY <3>3 DEF SetCloexec
    <3>4. CASE LaunchFails(o)
      BY <3>4 DEF LaunchFails
    <3>5. CASE CloseHis(o)
      BY <3>5 DEF CloseHis
    <3>6. CASE CloseNext(o)
      BY <3>6 DEF CloseNext
    <3>7. CASE Destroyed(o)
      BY <3>7 DEF Destroyed
    <3> QED BY <1>4, <3>1, <3>2, <3>3, <3>4, <3>5, <3>6, <3>7
  <2> QED BY <2>1, <2>2, <2>3, ReapingFrame
<1>5. ASSUME NEW o \in Objects, WaitReports(o)
      PROVE  Reaping'
  <2>1. /\ phase[o] \in Alive /\ phase'[o] \in Alive
        /\ \A q \in Objects \ {o} : phase'[q] = phase[q]
    BY <1>5 DEF WaitReports, Answer, Goto, At, Alive, TypeOK
  <2>2. /\ proc' = Told(pid[o]) /\ reaped' = reaped \cup Reported(pid[o])
        /\ UNCHANGED <<pid, exited, cut>>
    BY <1>5 DEF WaitReports, histories
  <2> QED BY <2>1, <2>2, ToldReaping
<1>6. ASSUME NEW o \in Objects, DestroyInterrupted(o) \/ DestroyWaited(o)
      PROVE  Reaping'
  <2>1. /\ phase[o] = "dtor_wait" /\ phase'[o] = "closing"
        /\ \A q \in Objects \ {o} : phase'[q] = phase[q]
        /\ UNCHANGED <<pid, exited>>
    BY <1>6 DEF DestroyInterrupted, DestroyWaited, Goto, At, TypeOK, children
  <2>2. CASE DestroyInterrupted(o)
    <3>1. UNCHANGED <<proc, reaped>> /\ cut' = cut \cup {o}
      BY <2>2 DEF DestroyInterrupted, children
    <3> QED BY <2>1, <3>1, ReapingFrame
  <2>3. CASE /\ proc[pid[o]].state = "free"
             /\ UNCHANGED <<proc, reaped, cut>>
    \* Its child was taken before: as ended as one told of.
    <3>1. pid[o] \in Pids
      BY <2>1 DEF Reaping, Spawned, Alive
    <3>2. \A p \in Pids : proc[p].of # o
      BY <2>3, <3>1, ChildAssumption DEF Reaping
    <3>3. Reaping!1'
      BY <2>1, <2>3, <3>2 DEF Reaping, Spawned, Alive
    <3>4. Reaping!2'
      BY <2>1, <2>3 DEF Reaping, Spawned, Alive
    <3> QED BY <3>3, <3>4 DEF Reaping
  <2>4. CASE DestroyWaited(o) /\ proc' = Told(pid[o])
             /\ reaped' = reaped \cup Reported(pid[o])
             /\ cut' = IF proc[pid[o]].state = "zombie" THEN cut ELSE cut \cup {o}
    <3>1. phase[o] \in Alive /\ cut \subseteq cut'
      BY <2>1, <2>4 DEF Alive
    <3>2. proc[pid[o]].state = "zombie" \/ o \in cut'
      BY <2>4
    <3> QED BY <2>1, <2>4, <3>1, <3>2, ToldReaping
  <2> QED BY <1>6, <2>2, <2>3, <2>4 DEF DestroyWaited
<1> QED BY <1>1, <1>2, <1>3, <1>4, <1>5, <1>6
        DEF Next, Busy, Use, Signal, Launch

-----------------------------------------------------------------------------
\* The descriptors of the children

\* Where the file actions of posix_spawn() put the descriptors of the parent.
LEMMA WhatAChildHolds ==
    ASSUME TypeOK, HandlesSet, HandlesGood, NEW o \in Objects, phase[o] = "spawn"
    PROVE  LET t == ChildTable(o) IN
           /\ t \in [Fds -> Files]
           /\ \A p \in PipesOf(o) : t[StdOf[p]] = <<o, p, HisEnd(p)>>
           /\ "err" \notin PipesOf(o) => t[2] = Std("err")
           /\ \A x \in Fds \ {0, 1, 2} :
                \/ t[x] = Closed
                \/ /\ t[x] = fd[x] /\ x \notin cloexec
                   /\ \A p \in PipesOf(o) : x # his[o][p]
<1> DEFINE in  == Wire(fd, o, "in")
           out == Wire(in, o, "out")
           err == IF "err" \in PipesOf(o) THEN Wire(out, o, "err") ELSE out
<1>1. Lent(o) = PipesOf(o)
  BY DEF Lent, Opened, Launching
<1>2. \A p \in PipesOf(o) : p \in Pipes /\ his[o][p] \in Fds
  BY <1>1, PipeNames DEF HandlesSet
<1>3. \A p \in PipesOf(o) : fd[his[o][p]] = <<o, p, HisEnd(p)>>
  BY <1>1 DEF HandlesGood
<1>4. \A p, q \in PipesOf(o) : p # q => his[o][p] # his[o][q]
  BY <1>3
<1>5. /\ fd[0] = Std("in") /\ fd[1] = Std("out") /\ fd[2] = Std("err")
      /\ StdOf["in"] = 0 /\ StdOf["out"] = 1 /\ StdOf["err"] = 2
  BY DEF HandlesGood, StdOf, Pipes
<1>6. \A p \in PipesOf(o) : his[o][p] \notin {0, 1, 2}
  <2>1. \A p \in PipesOf(o) : fd[his[o][p]] \in Ends
    <3> TAKE p \in PipesOf(o)
    <3>1. <<o, p, HisEnd(p)>> \in Ends
      BY <1>2, EndsApart
    <3> QED BY <1>3, <3>1
  <2>2. fd[0] \notin Ends /\ fd[1] \notin Ends /\ fd[2] \notin Ends
    BY <1>5, EndsApart
  <2> QED BY <2>1, <2>2
<1>7. 2 \notin cloexec
  BY <1>5, EndsApart DEF HandlesGood
<1>8. fd \in [Fds -> Files]
  BY DEF TypeOK
<1>9. /\ in \in [Fds -> Files]
      /\ \A x \in Fds : in[x] = IF x = his[o]["in"] THEN Closed
                                ELSE IF x = 0 THEN fd[his[o]["in"]] ELSE fd[x]
  BY <1>2, <1>5, <1>8, TypeOfWire, PipeNames
<1> HIDE DEF in
<1>10. /\ out \in [Fds -> Files]
       /\ \A x \in Fds : out[x] = IF x = his[o]["out"] THEN Closed
                                  ELSE IF x = 1 THEN in[his[o]["out"]] ELSE in[x]
  BY <1>2, <1>5, <1>9, TypeOfWire, PipeNames
<1> HIDE DEF out
<1>11. /\ out[0] = fd[his[o]["in"]] /\ out[1] = fd[his[o]["out"]] /\ out[2] = fd[2]
       /\ \A x \in Fds \ {0, 1, 2} :
            IF x \in {his[o]["in"], his[o]["out"]} THEN out[x] = Closed ELSE out[x] = fd[x]
  <2> DEFINE a == his[o]["in"]
             b == his[o]["out"]
  <2>1. /\ a \in Fds \ {0, 1, 2} /\ b \in Fds \ {0, 1, 2} /\ a # b
    BY <1>2, <1>4, <1>6, PipeNames
  <2>2. /\ \A x \in Fds : in[x] = IF x = a THEN Closed ELSE IF x = 0 THEN fd[a] ELSE fd[x]
        /\ \A x \in Fds : out[x] = IF x = b THEN Closed ELSE IF x = 1 THEN in[b] ELSE in[x]
    BY <1>9, <1>10
  <2> HIDE DEF a, b
  <2>3. in[b] = fd[b]
    BY <2>1, <2>2
  <2>4. out[0] = fd[a] /\ out[1] = fd[b] /\ out[2] = fd[2]
    BY <2>1, <2>2, <2>3, FdFacts
  <2>5. \A x \in Fds \ {0, 1, 2} : IF x \in {a, b} THEN out[x] = Closed ELSE out[x] = fd[x]
    BY <2>1, <2>2
  <2> QED BY <2>4, <2>5 DEF a, b
<1>12. err \in [Fds -> Files]
  BY <1>2, <1>10, TypeOfWire
<1>13. /\ \A p \in PipesOf(o) : err[StdOf[p]] = fd[his[o][p]]
       /\ "err" \notin PipesOf(o) => err[2] = fd[2]
       /\ \A x \in Fds \ {0, 1, 2} :
            \/ err[x] = Closed
            \/ err[x] = fd[x] /\ \A p \in PipesOf(o) : x # his[o][p]
  <2>1. CASE "err" \in PipesOf(o)
    <3>1. PipesOf(o) = {"in", "out", "err"}
      BY <2>1, PipeNames DEF Pipes
    <3>2. \A x \in Fds : err[x] = IF x = his[o]["err"] THEN Closed
                                 ELSE IF x = 2 THEN out[his[o]["err"]] ELSE out[x]
      BY <1>2, <1>5, <1>10, <2>1, TypeOfWire
    <3> HIDE DEF err
    <3>3. out[his[o]["err"]] = fd[his[o]["err"]]
      BY <1>2, <1>4, <1>6, <1>11, <3>1
    <3>4. err[0] = fd[his[o]["in"]] /\ err[1] = fd[his[o]["out"]] /\ err[2] = fd[his[o]["err"]]
      BY <1>6, <1>11, <3>1, <3>2, <3>3, FdFacts
    <3>5. \A x \in Fds \ {0, 1, 2} :
             \/ err[x] = Closed
             \/ err[x] = fd[x] /\ \A p \in PipesOf(o) : x # his[o][p]
      BY <1>11, <3>1, <3>2
    <3> QED BY <1>5, <2>1, <3>1, <3>4, <3>5
  <2>2. CASE "err" \notin PipesOf(o)
    <3>1. PipesOf(o) = {"in", "out"} /\ err = out
      BY <2>2, PipeNames DEF Pipes
    <3> HIDE DEF err
    <3> QED BY <1>5, <1>11, <3>1
  <2> QED BY <2>1, <2>2
<1>14. ChildTable(o) = [x \in Fds |-> IF x \in cloexec \ {StdOf[p] : p \in PipesOf(o)}
                                     THEN Closed ELSE err[x]]
  BY DEF ChildTable, in, out
<1> HIDE DEF err
<1>15. ChildTable(o) \in [Fds -> Files]
  BY <1>2, TypeOfChildTable
<1>16. \A p \in PipesOf(o) : ChildTable(o)[StdOf[p]] = <<o, p, HisEnd(p)>>
  <2> SUFFICES ASSUME NEW p \in PipesOf(o)
               PROVE  ChildTable(o)[StdOf[p]] = <<o, p, HisEnd(p)>>
    OBVIOUS
  <2>1. StdOf[p] \in Fds
    BY <1>5, FdFacts, PipeNames DEF Pipes
  <2>2. StdOf[p] \notin cloexec \ {StdOf[q] : q \in PipesOf(o)}
    OBVIOUS
  <2>3. ChildTable(o)[StdOf[p]] = err[StdOf[p]]
    BY <1>14, <2>1, <2>2
  <2>4. err[StdOf[p]] = <<o, p, HisEnd(p)>>
    BY <1>3, <1>13
  <2> QED BY <2>3, <2>4
<1>17. "err" \notin PipesOf(o) => ChildTable(o)[2] = Std("err")
  BY <1>5, <1>7, <1>13, <1>14, FdFacts
<1>18. \A x \in Fds \ {0, 1, 2} :
         \/ ChildTable(o)[x] = Closed
         \/ /\ ChildTable(o)[x] = fd[x] /\ x \notin cloexec
            /\ \A p \in PipesOf(o) : x # his[o][p]
  <2>1. \A p \in PipesOf(o) : StdOf[p] \in {0, 1, 2}
    BY <1>2, <1>5 DEF Pipes
  <2> QED BY <1>13, <1>14, <2>1
<1> QED BY <1>15, <1>16, <1>17, <1>18

\* A step in which no child is made: each child is as it was, or holds nothing
\* any more.
LEMMA TablesFrame ==
    ASSUME TypeOK, overlapped \subseteq overlapped',
           \A o \in Objects : At(o, "failed_early") => At(o, "failed_early")',
           \A p \in Pids :
              \/ /\ proc'[p].state \notin {"running", "stopped"}
                 /\ \A x \in Fds : proc'[p].table[x] = Closed
              \/ /\ proc'[p].table = proc[p].table /\ proc'[p].of = proc[p].of
                 /\ proc'[p].state \in {"running", "stopped"} =>
                      proc[p].state \in {"running", "stopped"}
                 /\ proc[p].of \in exited' => proc[p].of \in exited
    PROVE  (TablesEnd => TablesEnd') /\ (TablesGood => TablesGood')
<1>1. \A o \in Objects : Closed \notin OursOf(o) /\ Closed \notin HisOf(o)
  BY EndsApart
<1>2. \A o \in Objects : OursOf(o)' = OursOf(o) /\ HisOf(o)' = HisOf(o)
  BY DEF OursOf, HisOf
<1>3. TablesEnd => TablesEnd'
  <2> SUFFICES ASSUME TablesEnd, NEW p \in Pids, NEW x \in Fds, NEW o \in Objects,
                      proc'[p].table[x] \in HisOf(o)
               PROVE  \/ <<o, "his">> \in overlapped' \/ At(o, "failed_early")'
                      \/ proc'[p].of = o /\ o \notin exited'
    BY <1>2 DEF TablesEnd
  <2>1. /\ proc'[p].table = proc[p].table /\ proc'[p].of = proc[p].of
        /\ proc[p].of \in exited' => proc[p].of \in exited
    BY <1>1
  <2> QED BY <2>1 DEF TablesEnd
<1>4. TablesGood => TablesGood'
  <2> SUFFICES ASSUME TablesGood, NEW p \in Pids
               PROVE  /\ proc'[p].state \in {"running", "stopped"} => Wired(p)'
                      /\ \A x \in Fds, o \in Objects :
                           proc'[p].table[x] \in OursOf(o) => <<o, "ours">> \in overlapped'
    BY <1>2 DEF TablesGood
  <2>1. CASE /\ proc'[p].state \notin {"running", "stopped"}
             /\ \A x \in Fds : proc'[p].table[x] = Closed
    BY <1>1, <2>1
  <2>2. CASE /\ proc'[p].table = proc[p].table /\ proc'[p].of = proc[p].of
             /\ proc'[p].state \in {"running", "stopped"} =>
                  proc[p].state \in {"running", "stopped"}
    <3>1. /\ proc[p].state \in {"running", "stopped"} => Wired(p)
          /\ \A x \in Fds, o \in Objects :
               proc[p].table[x] \in OursOf(o) => <<o, "ours">> \in overlapped
      BY DEF TablesGood
    <3>2. Wired(p) => Wired(p)'
      BY <2>2 DEF Wired
    <3> QED BY <2>2, <3>1, <3>2
  <2> QED BY <2>1, <2>2
<1> QED BY <1>3, <1>4

\* The child's ends of the pipes a spawned child may hold.
LEMMA SpawnEnds ==
    ASSUME TypeOK, HandlesSet, EndsOwned, Reaping, TablesEnd, NEW o \in Objects, Spawn(o)
    PROVE  TablesEnd'
<1>1. PICK p \in Pids :
         /\ proc' = [proc EXCEPT ![p] = [state |-> "running", of |-> o,
                                         told |-> FALSE, table |-> ChildTable(o)]]
  BY DEF Spawn
<1>2. /\ proc'[p].of = o /\ proc'[p].table = ChildTable(o)
      /\ \A q \in Pids \ {p} : proc'[q] = proc[q]
  BY <1>1 DEF TypeOK
<1>3. /\ phase[o] = "spawn" /\ phase'[o] = "launched"
      /\ \A q \in Objects \ {o} : phase'[q] = phase[q]
      /\ UNCHANGED exited /\ overlapped' = overlapped \cup Exposed(o)
  BY DEF Spawn, At, Goto, TypeOK
<1>4. o \notin exited
  BY <1>3 DEF Reaping, Spawned, Alive
<1>5. \A q \in Objects : HisOf(q)' = HisOf(q) /\ Closed \notin HisOf(q)
  BY EndsApart DEF HisOf
<1> SUFFICES ASSUME NEW r \in Pids, NEW x \in Fds, NEW q \in Objects,
                    proc'[r].table[x] \in HisOf(q)
             PROVE  \/ <<q, "his">> \in overlapped' \/ At(q, "failed_early")'
                    \/ proc'[r].of = q /\ q \notin exited'
  BY <1>5 DEF TablesEnd
<1>6. CASE r # p
  <2>1. proc'[r] = proc[r]
    BY <1>2, <1>6
  <2> QED BY <1>3, <2>1 DEF TablesEnd, At
<1>7. CASE r = p
  <2>1. \A s \in PipesOf(o) : his[o][s] \in Fds
    BY <1>3, PipeNames DEF HandlesSet, Lent, Opened, Launching
  <2>2. PICK y \in Fds : fd[y] \in HisOf(q)
    BY <1>2, <1>5, <1>7, <2>1, TypeOfChildTable
  <2>3. At(q, "failed_early") \/ Lent(q) # {}
    BY <2>2 DEF EndsOwned, HisOf
  <2>4. Lent(q) # {} =>
           phase[q] \in {"pipe_out", "pipe_err", "cloexec", "spawn", "launched"}
    BY DEF Lent, Opened, Launching
  <2> QED BY <1>2, <1>3, <1>4, <1>7, <2>3, <2>4 DEF Exposed, At
<1> QED BY <1>6, <1>7

\* What one child may hold when it is spawned.
LEMMA SpawnTables ==
    ASSUME TypeOK, HandlesSet, EndsOwned, HandlesGood, TablesGood,
           NEW o \in Objects, Spawn(o)
    PROVE  TablesGood'
<1>1. PICK p \in Pids :
         /\ proc' = [proc EXCEPT ![p] = [state |-> "running", of |-> o,
                                         told |-> FALSE, table |-> ChildTable(o)]]
  BY DEF Spawn
<1>2. /\ proc'[p].of = o /\ proc'[p].table = ChildTable(o)
      /\ \A q \in Pids \ {p} : proc'[q] = proc[q]
  BY <1>1 DEF TypeOK
<1>3. /\ phase[o] = "spawn" /\ phase'[o] = "launched"
      /\ \A q \in Objects \ {o} : phase'[q] = phase[q]
      /\ UNCHANGED exited /\ overlapped' = overlapped \cup Exposed(o)
  BY DEF Spawn, At, Goto, TypeOK
<1> DEFINE t == ChildTable(o)
<1>4. /\ \A q \in PipesOf(o) : t[StdOf[q]] = <<o, q, HisEnd(q)>>
      /\ "err" \notin PipesOf(o) => t[2] = Std("err")
      /\ \A x \in Fds \ {0, 1, 2} :
           \/ t[x] = Closed
           \/ /\ t[x] = fd[x] /\ x \notin cloexec
              /\ \A q \in PipesOf(o) : x # his[o][q]
  BY <1>3, WhatAChildHolds
<1> HIDE DEF t
<1>5. \A x \in {0, 1, 2} : (\E q \in PipesOf(o) : x = StdOf[q]) \/ (x = 2 /\ "err" \notin PipesOf(o))
  BY PipeNames DEF StdOf
<1>6. \A x \in Fds, q \in Pipes : t[x] = <<o, q, HisEnd(q)>> => q \in PipesOf(o) /\ x = StdOf[q]
  <2> SUFFICES ASSUME NEW x \in Fds, NEW q \in Pipes, t[x] = <<o, q, HisEnd(q)>>
               PROVE  q \in PipesOf(o) /\ x = StdOf[q]
    OBVIOUS
  <2>1. <<o, q, HisEnd(q)>> # Closed /\ \A r : <<o, q, HisEnd(q)>> # Std(r)
    BY EndsApart
  <2>2. CASE x \in {0, 1, 2}
    <3>1. t[x] = Std("err") \/ \E r \in PipesOf(o) : x = StdOf[r] /\ t[x] = <<o, r, HisEnd(r)>>
      <4>1. CASE \E r \in PipesOf(o) : x = StdOf[r]
        BY <1>4, <4>1
      <4>2. CASE x = 2 /\ "err" \notin PipesOf(o)
        BY <1>4, <4>2
      <4> QED BY <1>5, <2>2, <4>1, <4>2
    <3>2. PICK r \in PipesOf(o) : x = StdOf[r] /\ t[x] = <<o, r, HisEnd(r)>>
      BY <2>1, <3>1
    <3> QED BY <3>2
  <2>3. CASE x \notin {0, 1, 2}
    <3>1. fd[x] = <<o, q, HisEnd(q)>> /\ \A r \in PipesOf(o) : x # his[o][r]
      BY <1>4, <2>1, <2>3
    <3>2. q \in Lent(o) /\ his[o][q] = x
      BY <1>3, <3>1 DEF EndsOwned, At
    <3> QED BY <1>3, <3>1, <3>2 DEF Lent, Opened, Launching
  <2> QED BY <2>2, <2>3
<1>7. Wired(p)'
  <2>1. \A q \in PipesOf(o) : q \in Pipes
    BY PipeNames
  <2>2. \A x \in Fds : /\ \A q \in PipesOf(o) : t[x] = <<o, q, HisEnd(q)>> <=> x = StdOf[q]
                       /\ "err" \notin PipesOf(o) /\ x = 2 => t[x] = Std("err")
    BY <1>4, <1>6, <2>1
  <2>3. proc'[p].of = o /\ proc'[p].table = t
    BY <1>2 DEF t
  <2> QED BY <2>2, <2>3 DEF Wired
<1>8. \A x \in Fds, q \in Objects : t[x] \in OursOf(q) => <<q, "ours">> \in overlapped'
  <2> TAKE x \in Fds, q \in Objects
  <2>1. CASE x \in {0, 1, 2}
    <3>1. t[x] = Std("err") \/ \E r \in PipesOf(o) : t[x] = <<o, r, HisEnd(r)>>
      <4>1. CASE \E r \in PipesOf(o) : x = StdOf[r]
        BY <1>4, <4>1
      <4>2. CASE x = 2 /\ "err" \notin PipesOf(o)
        BY <1>4, <4>2
      <4> QED BY <1>5, <2>1, <4>1, <4>2
    <3>2. t[x] \notin OursOf(q)
      <4>1. \A r \in PipesOf(o) : r \in Pipes /\ OurEnd(r) # HisEnd(r)
        BY PipeNames
      <4>2. Std("err") \notin OursOf(q)
        BY EndsApart
      <4> QED BY <3>1, <4>1, <4>2 DEF OursOf
    <3> QED BY <3>2
  <2>2. CASE x \notin {0, 1, 2}
    <3>1. Closed \notin OursOf(q)
      BY EndsApart
    <3>2. t[x] \in OursOf(q) => t[x] = fd[x] /\ x \notin cloexec
      BY <1>4, <2>2, <3>1
    <3>3. fd[x] \in OursOf(q) /\ x \notin cloexec => <<q, "ours">> \in overlapped'
      <4>1. fd[x] \in OursOf(q) /\ x \notin cloexec =>
               phase[q] \in {"pipe_out", "pipe_err", "cloexec"}
        BY DEF EndsOwned, OursOf
      <4> QED BY <1>3, <4>1 DEF Exposed
    <3> QED BY <3>2, <3>3
  <2> QED BY <2>1, <2>2
<1>9. \A q \in Objects : OursOf(q)' = OursOf(q)
  BY DEF OursOf
<1>10. \A r \in Pids \ {p} :
         /\ proc'[r].state \in {"running", "stopped"} => Wired(r)'
         /\ \A x \in Fds, q \in Objects :
              proc'[r].table[x] \in OursOf(q) => <<q, "ours">> \in overlapped'
  <2> TAKE r \in Pids \ {p}
  <2>1. /\ proc[r].state \in {"running", "stopped"} => Wired(r)
        /\ \A x \in Fds, q \in Objects :
             proc[r].table[x] \in OursOf(q) => <<q, "ours">> \in overlapped
    BY DEF TablesGood
  <2>2. proc'[r] = proc[r]
    BY <1>2
  <2>3. Wired(r) => Wired(r)'
    BY <2>2 DEF Wired
  <2> QED BY <1>3, <2>1, <2>2, <2>3
<1> QED BY <1>2, <1>7, <1>8, <1>9, <1>10 DEF TablesGood, t

\* A step of an object leaves the others where they are, and the children but
\* for what it is told of its own.
LEMMA StepOfOne ==
    ASSUME TypeOK, NEW o \in Objects, Busy(o) \/ Use(o) \/ DeadlinePasses(o) \/ Signal(o)
    PROVE  /\ \A q \in Objects \ {o} : phase'[q] = phase[q]
           /\ Spawn(o) \/ proc' = proc \/ (phase[o] \in Alive /\ proc' = Told(pid[o]))
<1>1. Spawn(o) \/ proc' = proc \/ (phase[o] \in Alive /\ proc' = Told(pid[o]))
  <2>1. CASE WaitReports(o)
    BY <2>1 DEF WaitReports, At, Alive
  <2>2. CASE DestroyWaited(o)
    BY <2>2 DEF DestroyWaited, At, Alive
  <2>3. CASE ~WaitReports(o) /\ ~DestroyWaited(o) /\ ~Spawn(o)
    BY <2>3
       DEF Busy, Use, Signal, Launch, UseFiles, AskRunning, Wait, Destroy,
           WaitFails, WaitInterrupted, WaitSleeps, WakeUp, DeadlinePasses,
           Pipe, PipeFails, SetCloexec, LaunchFails, CloseHis,
           DestroyInterrupted, CloseNext, Destroyed, children
  <2> QED BY <2>1, <2>2, <2>3
<1>2. \A q \in Objects \ {o} : phase'[q] = phase[q]
  <2>1. CASE Loud(o)
    BY <2>1, LoudFrame
  <2>2. CASE ~Loud(o)
    BY <2>2
       DEF Loud, Busy, Use, Signal, Launch, UseFiles, AskRunning, Wait, Destroy,
           WaitFails, WaitInterrupted, WaitSleeps, WakeUp, DeadlinePasses,
           WaitReports, Spawn, Answer, Goto, TypeOK
  <2> QED BY <2>1, <2>2
<1> QED BY <1>1, <1>2

LEMMA StepTables ==
    ASSUME TypeOK, HandlesSet, EndsOwned, Reaping, Next
    PROVE  (TablesEnd => TablesEnd') /\ (HandlesGood /\ TablesGood => TablesGood')
<1>1. ASSUME NEW o \in Objects, Spawn(o)
      PROVE  (TablesEnd => TablesEnd') /\ (HandlesGood /\ TablesGood => TablesGood')
  BY <1>1, SpawnEnds, SpawnTables
<1>2. ASSUME NEW p \in Pids, ChildExits(p) \/ ChildStops(p) \/ ChildContinues(p)
      PROVE  (TablesEnd => TablesEnd') /\ (HandlesGood /\ TablesGood => TablesGood')
  <2>1. /\ \A q \in Pids \ {p} : proc'[q] = proc[q]
        /\ proc[p].state \in {"running", "stopped"} /\ proc'[p].of = proc[p].of
        /\ \/ /\ proc'[p].state = "zombie" /\ exited' = exited \cup {proc[p].of}
              /\ \A x \in Fds : proc'[p].table[x] = Closed
           \/ /\ proc'[p].state \in {"running", "stopped"} /\ exited' = exited
              /\ proc'[p].table = proc[p].table
    BY <1>2, ChildChanges DEF ChildExits, ChildStops, ChildContinues
  <2>2. UNCHANGED <<phase, overlapped>>
    BY <1>2 DEF ChildExits, ChildStops, ChildContinues, histories
  <2>3. \A q \in Pids \ {p} : proc[q].of # proc[p].of \/ proc[q].of = NoPid
    BY DEF TypeOK, Reaping
  <2>4. proc[p].of # NoPid /\ (NoPid \notin exited)
    BY <2>1, ChildAssumption DEF TypeOK, Reaping
  <2>5. \A q \in Pids :
           \/ /\ proc'[q].state \notin {"running", "stopped"}
              /\ \A x \in Fds : proc'[q].table[x] = Closed
           \/ /\ proc'[q].table = proc[q].table /\ proc'[q].of = proc[q].of
              /\ proc'[q].state \in {"running", "stopped"} =>
                   proc[q].state \in {"running", "stopped"}
              /\ proc[q].of \in exited' => proc[q].of \in exited
    BY <2>1, <2>3, <2>4
  <2> QED BY <2>2, <2>5, TablesFrame DEF At
<1>3. ASSUME UNCHANGED <<exited, overlapped>>,
             \A o \in Objects : At(o, "failed_early") => At(o, "failed_early")',
             proc' = proc \/ \E o \in Objects : phase[o] \in Alive /\ proc' = Told(pid[o])
      PROVE  (TablesEnd => TablesEnd') /\ (HandlesGood /\ TablesGood => TablesGood')
  <2>1. ASSUME NEW q \in Pids
        PROVE  \/ /\ proc'[q].state \notin {"running", "stopped"}
                  /\ \A x \in Fds : proc'[q].table[x] = Closed
               \/ /\ proc'[q].table = proc[q].table /\ proc'[q].of = proc[q].of
                  /\ proc'[q].state = proc[q].state
    <3>1. CASE proc' = proc
      BY <3>1
    <3>2. CASE \E o \in Objects : phase[o] \in Alive /\ proc' = Told(pid[o])
      <4>1. PICK p \in Pids : proc' = Told(p)
        BY <3>2 DEF Reaping, Spawned
      <4>2. /\ NoChild.state = "free" /\ \A x \in Fds : NoChild.table[x] = Closed
        BY DEF NoChild
      <4> QED BY <4>1, <4>2, TypeOfTold
    <3> QED BY <1>3, <3>1, <3>2
  <2> QED BY <1>3, <2>1, TablesFrame
<1>4. ASSUME NEW o \in Objects, ~Spawn(o), Busy(o) \/ Use(o) \/ DeadlinePasses(o) \/ Signal(o)
      PROVE  /\ UNCHANGED <<exited, overlapped>>
             /\ \A q \in Objects : At(q, "failed_early") => At(q, "failed_early")'
             /\ proc' = proc \/ (phase[o] \in Alive /\ proc' = Told(pid[o]))
  <2>1. UNCHANGED <<exited, overlapped>>
    BY <1>4 DEF Busy, Use, Signal, Launch, UseFiles, AskRunning, Wait, Destroy,
                WaitFails, WaitInterrupted, WaitSleeps, WakeUp, DeadlinePasses,
                WaitReports, Pipe, PipeFails, SetCloexec, LaunchFails, CloseHis,
                DestroyWaited, DestroyInterrupted, CloseNext, Destroyed, children,
                histories
  <2>2. ASSUME phase[o] = "failed_early"
        PROVE  FALSE
    BY <1>4, <2>2
       DEF Busy, Use, Signal, Launch, UseFiles, AskRunning, Wait, Destroy,
           WaitFails, WaitInterrupted, WaitSleeps, WakeUp, DeadlinePasses,
           WaitReports, Pipe, PipeFails, SetCloexec, LaunchFails, CloseHis,
           DestroyWaited, DestroyInterrupted, CloseNext, Destroyed, At, PipePhase, Pipes
  <2> QED BY <1>4, <2>1, <2>2, StepOfOne DEF At
<1>5. ASSUME NEW o \in Objects, ~Spawn(o), Busy(o) \/ Use(o) \/ DeadlinePasses(o) \/ Signal(o)
      PROVE  (TablesEnd => TablesEnd') /\ (HandlesGood /\ TablesGood => TablesGood')
  BY <1>3, <1>4, <1>5
<1> QED BY <1>1, <1>2, <1>5 DEF Next

-----------------------------------------------------------------------------
\* The inductive invariant

LEMMA InvInit == Init => IInv
<1> SUFFICES ASSUME Init PROVE IInv
  OBVIOUS
<1>1. TypeOK
  BY TypeInit
<1>2. \A o \in Objects : phase[o] = "pipe_in" /\ Opened(o) = {} /\ Lent(o) = {} /\ todo[o] = << >>
  BY DEF Init, Opened, Lent, Launching
<1>3. HandlesSet
  BY <1>2 DEF Init, HandlesSet, At
<1>4. \A x \in Fds : fd[x] \notin Ends
  <2>1. \A x \in Fds : fd[x] = Std("in") \/ fd[x] = Std("out") \/ fd[x] = Std("err")
                       \/ fd[x] = Closed
    BY DEF Init
  <2>2. Closed \notin Ends /\ \A p : Std(p) \notin Ends
    BY EndsApart
  <2> QED BY <2>1, <2>2
<1>5. EndsOwned
  <2>1. \A o \in Objects, p \in Pipes :
           <<o, p, OurEnd(p)>> \in Ends /\ <<o, p, HisEnd(p)>> \in Ends
    BY EndsApart
  <2> QED BY <1>4, <2>1 DEF EndsOwned
<1>6. HandlesGood
  <2>1. \A p \in Pipes : fd[StdOf[p]] = Std(p)
    BY FdFacts DEF Init, StdOf, Pipes
  <2> QED BY <1>2, <2>1 DEF HandlesGood, Init
<1>7. \A p \in Pids : proc[p].of = NoPid /\ proc[p].state = "free"
                     /\ \A x \in Fds : proc[p].table[x] = Closed
  BY DEF Init, NoChild
<1>8. Reaping
  BY <1>2, <1>7, ChildAssumption DEF Reaping, Init, Spawned, Alive
<1>9. TablesEnd /\ TablesGood
  BY <1>7, EndsApart DEF TablesEnd, TablesGood
<1> QED BY <1>1, <1>3, <1>5, <1>6, <1>8, <1>9 DEF IInv

LEMMA QuietOrLoud ==
    ASSUME TypeOK, Next
    PROVE  Quiet \/ \E o \in Objects : Loud(o)
  BY QuietSteps, QuietChildren DEF Next, Busy, Use, Signal, Launch, Loud

LEMMA StepType ==
    ASSUME TypeOK, HandlesSet, Reaping, Next
    PROVE  TypeOK'
<1>1. ASSUME NEW o \in Objects, Busy(o) \/ Use(o) \/ DeadlinePasses(o) \/ Signal(o)
      PROVE  TypeOK'
  BY <1>1, TypeOfCalls, TypeOfLaunch, TypeOfEnd DEF Busy, Use, Signal
<1> QED BY <1>1, TypeOfChildren DEF Next

LEMMA InvStep == IInv /\ [Next]_vars => IInv'
<1> SUFFICES ASSUME IInv, [Next]_vars PROVE IInv'
  OBVIOUS
<1>1. CASE UNCHANGED vars
  <2> USE <1>1 DEF vars, descriptors, handles, waiting, children, histories, At
  <2>1. TypeOK => TypeOK'
    BY DEF TypeOK
  <2>2. Quiet
    BY DEF Quiet
  <2>3. Reaping => Reaping'
    BY DEF Reaping
  <2>4. TypeOK => (TablesEnd => TablesEnd') /\ (TablesGood => TablesGood')
    BY TablesFrame
  <2> QED BY <2>1, <2>2, <2>3, <2>4, QuietKeeps DEF IInv
<1>2. CASE Next
  <2>1. TypeOK /\ HandlesSet /\ EndsOwned /\ Reaping /\ TablesEnd
    BY DEF IInv
  <2>2. TypeOK'
    BY <1>2, <2>1, StepType
  <2>3. Reaping'
    BY <1>2, <2>1, StepReaping
  <2>4. HandlesSet' /\ EndsOwned'
    BY <1>2, <2>1, QuietOrLoud, QuietKeeps, LoudHandlesSet, LoudEndsOwned
  <2>5. NoFileUsed' => NoFileUsed
    BY <1>2, <2>1, QuietOrLoud, QuietKeeps, LoudFrame
  <2>6. NoFileUsed => HandlesGood /\ TablesGood
    BY DEF IInv
  <2>7. NoFileUsed /\ HandlesGood => HandlesGood'
    BY <1>2, <2>1, QuietOrLoud, QuietKeeps, LoudHandlesGood
  <2>8. TablesEnd' /\ (HandlesGood /\ TablesGood => TablesGood')
    BY <1>2, <2>1, StepTables
  <2> QED BY <2>2, <2>3, <2>4, <2>5, <2>6, <2>7, <2>8 DEF IInv
<1> QED BY <1>1, <1>2

LEMMA Invariance == Spec => []IInv
  BY InvInit, InvStep, PTL DEF Spec

-----------------------------------------------------------------------------
\* The theorems

\* The variables keep their types; the destructor closes only what is set.
THEOREM TypeCorrect == Spec => []TypeOK
  BY Invariance, PTL DEF IInv

\* An object that is gone has left no descriptor of its pipes in the process.
THEOREM NothingLeaks == Spec => []NoLeakWhenGone
<1>1. IInv => NoLeakWhenGone
  BY DEF IInv, EndsOwned, NoLeakWhenGone, At, Opened, Lent, Launching, OursOf, HisOf
<1> QED BY <1>1, Invariance, PTL

\* The handles of a live object are what they were opened for, as long as
\* nobody asks for a FILE *.
THEOREM HandlesStayValid == Spec => []HandlesValid
<1>1. IInv => HandlesValid
  BY DEF IInv, HandlesGood, HandlesValid, Opened, Alive
<1> QED BY <1>1, Invariance, PTL

\* Each child has its ends of its own pipes as its standard streams, under the
\* same condition.
THEOREM ChildrenAreWired == Spec => []ChildWired
<1>1. IInv => ChildWired
  BY DEF IInv, TablesGood, ChildWired
<1> QED BY <1>1, Invariance, PTL

\* Only the parent can end a child's input, under the same condition, unless a
\* child was spawned between pipe() and FD_CLOEXEC.
THEOREM InputEndsWithParent == Spec => []StdinEnds
<1>1. IInv => StdinEnds
  BY DEF IInv, TablesGood, StdinEnds
<1> QED BY <1>1, Invariance, PTL

\* The output of a child that has exited comes to an end, unless a child was
\* spawned before launch() had closed the ends of that one.
THEOREM OutputEndsWithChild == Spec => []OutputEnds
<1>1. IInv => OutputEnds
  <2> SUFFICES ASSUME IInv, NEW o \in Objects,
                      <<o, "his">> \notin overlapped, phase[o] \in Alive, o \in exited
               PROVE  /\ \A x \in Fds : fd[x] \notin HisOf(o)
                      /\ \A p \in Pids : \A x \in Fds : proc[p].table[x] \notin HisOf(o)
    BY DEF OutputEnds
  <2>1. Lent(o) = {} /\ ~At(o, "failed_early")
    BY DEF Lent, Alive, Launching, At
  <2>2. \A x \in Fds : fd[x] \notin HisOf(o)
    BY <2>1 DEF IInv, EndsOwned, HisOf
  <2>3. \A p \in Pids : \A x \in Fds : proc[p].table[x] \notin HisOf(o)
    BY <2>1 DEF IInv, TablesEnd
  <2> QED BY <2>2, <2>3
<1> QED BY <1>1, Invariance, PTL

\* A destroyed object leaves no child behind, unless its wait was cut short.
THEOREM NoChildIsLeft == Spec => []NoChildWhenGone
<1>1. IInv => NoChildWhenGone
  BY DEF IInv, Reaping, NoChildWhenGone, At
<1> QED BY <1>1, Invariance, PTL

\* A wait takes the exit of another object's child only when the exit of its
\* own was reported.
THEOREM OwnExitFirst == Spec => ForeignReapOnlyAfterOwn
<1> DEFINE Own == \A o \in Objects, p \in Pids :
          /\ phase[o] \in {"check", "dtor_wait"} /\ phase'[o] # phase[o]
          /\ proc[p].state = "zombie" /\ proc'[p].state = "free"
          => proc[p].of = o \/ o \in reaped
<1>1. IInv /\ [Next]_vars => [Own]_vars
  <2> SUFFICES ASSUME IInv, Next, NEW o \in Objects, NEW p \in Pids,
                      phase[o] \in {"check", "dtor_wait"}, phase'[o] # phase[o],
                      proc[p].state = "zombie", proc'[p].state = "free"
               PROVE  proc[p].of = o \/ o \in reaped
    BY DEF vars
  <2>1. o \in reaped \/ proc[pid[o]].of = o
    BY DEF IInv, Reaping, Spawned, Alive
  <2>2. NoChild.state = "free" /\ \A q \in Objects : phase[q] \in Alive => pid[q] \in Pids
    BY DEF NoChild, IInv, Reaping, Spawned
  <2>3. ASSUME NEW q \in Objects, Busy(q) \/ Use(q) \/ DeadlinePasses(q) \/ Signal(q)
        PROVE  q = o /\ p = pid[o]
    <3>1. \A r \in Objects \ {q} : phase'[r] = phase[r]
      BY <2>3, StepOfOne DEF IInv
    <3>2. q = o
      BY <3>1
    <3>3. proc' = Told(pid[o])
      <4>1. ~Spawn(o) /\ proc' # proc
        BY DEF Spawn, At
      <4> QED BY <2>3, <3>2, <4>1, StepOfOne DEF IInv
    <3> QED BY <2>2, <3>2, <3>3, TypeOfTold DEF IInv, Alive
  <2>4. ASSUME NEW q \in Pids, ChildExits(q) \/ ChildStops(q) \/ ChildContinues(q)
        PROVE  FALSE
    BY <2>4 DEF ChildExits, ChildStops, ChildContinues
  <2> QED BY <2>1, <2>3, <2>4 DEF Next
<1> HIDE DEF Own
<1>2. Spec => [][Own]_vars
  BY <1>1, Invariance, PTL DEF Spec
<1> QED BY <1>2 DEF Own, ForeignReapOnlyAfterOwn

-----------------------------------------------------------------------------
\* ChildProcess implements ChildContract.

LEMMA ContractInit == Init => ContractInv
  BY ChildAssumption DEF Init, ContractInv, Launching, At, NoChild

\* A step of an object shows of no other.
LEMMA OthersShowNothing ==
    ASSUME TypeOK, NEW o \in Objects, Busy(o) \/ Use(o) \/ DeadlinePasses(o) \/ Signal(o)
    PROVE  /\ \A q \in Objects \ {o} :
                /\ phase'[q] = phase[q] /\ pid'[q] = pid[q] /\ timed'[q] = timed[q]
                /\ ObjectNow(q)' = ObjectNow(q) /\ ChildNow(q)' = ChildNow(q)
           /\ exited' = exited /\ (Spawn(o) \/ pid' = pid)
<1>1. \A q \in Objects \ {o} : phase'[q] = phase[q]
  BY StepOfOne
<1>2. exited' = exited /\ (Spawn(o) \/ pid' = pid)
  BY DEF Busy, Use, Signal, Launch, UseFiles, AskRunning, Wait, Destroy,
         WaitFails, WaitInterrupted, WaitSleeps, WakeUp, DeadlinePasses,
         WaitReports, Pipe, PipeFails, SetCloexec, LaunchFails, CloseHis, Spawn,
         DestroyWaited, DestroyInterrupted, CloseNext, Destroyed, children
<1>3. \A q \in Objects \ {o} : timed'[q] = timed[q]
  BY DEF Busy, Use, Signal, Launch, UseFiles, AskRunning, Wait, Destroy,
         WaitFails, WaitInterrupted, WaitSleeps, WakeUp, DeadlinePasses,
         WaitReports, Pipe, PipeFails, SetCloexec, LaunchFails, CloseHis, Spawn,
         DestroyWaited, DestroyInterrupted, CloseNext, Destroyed, Answer, waiting,
         TypeOK
<1>4. \A q \in Objects \ {o} : pid'[q] = pid[q]
  BY <1>2 DEF Spawn, TypeOK
<1> QED BY <1>1, <1>2, <1>3, <1>4 DEF ObjectNow, ChildNow, At

\* How the step of an object shows in the contract.
LEMMA HowItGoes ==
    ASSUME NEW o \in Objects, NEW from, NEW to,
           \A q \in Objects \ {o} : ObjectNow(q)' = ObjectNow(q),
           \A q \in Objects : ChildNow(q)' = ChildNow(q),
           ObjectNow(o) = from, ObjectNow(o)' = to
    PROVE  Contract!Goes(o, from, to)
  BY DEF Contract!Goes

LEMMA NothingShows ==
    ASSUME \A q \in Objects : ObjectNow(q)' = ObjectNow(q) /\ ChildNow(q)' = ChildNow(q)
    PROVE  UNCHANGED Contract!vars
  BY DEF Contract!vars

\* Where an object is, seen from the contract.
LEMMA WhereItIs ==
    ASSUME NEW o \in Objects
    PROVE  /\ phase[o] \in Launching => ObjectNow(o) = "launching"
           /\ At(o, "live") => ObjectNow(o) = "live"
           /\ phase[o] \in {"check", "sleep"} =>
                ObjectNow(o) = IF timed[o] THEN "waiting_until" ELSE "waiting"
           /\ At(o, "dtor_wait") => ObjectNow(o) = "ending"
           /\ At(o, "closing") => ObjectNow(o) = "closing"
  BY DEF ObjectNow, Launching, At

\* What a wait may be told of, or an error it ends with, comes after the exit of
\* the object's own child, or after a stop of it.
LEMMA OwnIsOver ==
    ASSUME IInv, ContractInv, NEW o \in Objects, phase[o] \in Alive,
           Tells(pid[o]) \/ proc[pid[o]].state = "free"
    PROVE  Contract!Over(o)
<1>1. pid[o] \in Pids /\ pid[o] # NoPid /\ (o \in reaped \/ proc[pid[o]].of = o)
  BY ChildAssumption DEF IInv, Reaping, Spawned
<1>2. CASE o \in reaped
  <2>1. ChildNow(o) = "exited"
    BY <1>1, <1>2 DEF ContractInv, ChildNow
  <2> QED BY <2>1 DEF Contract!Over
<1>3. CASE o \notin reaped
  <2>1. proc[pid[o]].of = o /\ o # NoPid
    BY <1>1, <1>3, ChildAssumption
  <2>2. proc[pid[o]].state \in {"zombie", "stopped"}
    BY <1>1, <2>1 DEF IInv, Reaping, Tells
  <2>3. proc[pid[o]].state = "zombie" => o \in exited
    BY <1>1, <2>1 DEF IInv, Reaping
  <2>4. proc[pid[o]].state = "stopped" => o \in Stoppable
    BY <1>1, <2>1 DEF ContractInv
  <2> QED BY <1>1, <2>2, <2>3, <2>4 DEF Contract!Over, ChildNow
<1> QED BY <1>2, <1>3

\* The steps of launch().
LEMMA LaunchShows ==
    ASSUME IInv, ContractInv, NEW o \in Objects, Launch(o)
    PROVE  [Contract!Next]_(Contract!vars)
<1>1. \A q \in Objects \ {o} : ObjectNow(q)' = ObjectNow(q) /\ ChildNow(q)' = ChildNow(q)
  BY OthersShowNothing DEF IInv, Busy
<1>2. /\ TypeOK /\ phase[o] \in Launching
      /\ exited' = exited /\ (Spawn(o) \/ pid' = pid)
  <2>1. phase[o] \in Launching
    BY DEF Launch, Pipe, PipeFails, SetCloexec, LaunchFails, Spawn, CloseHis, At,
           Launching, PipePhase, Pipes
  <2> QED BY <2>1, OthersShowNothing DEF IInv, Busy
<1>3. ObjectNow(o) = "launching"
  BY <1>2, WhereItIs
<1>4. CASE (\E p \in Pipes : Pipe(o, p)) \/ SetCloexec(o)
  <2>1. phase'[o] \in Launching /\ pid' = pid
    BY <1>2, <1>4 DEF Pipe, SetCloexec, Goto, AfterPipe, Launching, TypeOK
  <2>2. ObjectNow(o)' = "launching"
    BY <2>1 DEF ObjectNow, Launching, At
  <2>3. ChildNow(o)' = ChildNow(o)
    BY <1>2, <2>1 DEF ChildNow
  <2>4. \A q \in Objects : ObjectNow(q)' = ObjectNow(q) /\ ChildNow(q)' = ChildNow(q)
    BY <1>1, <1>3, <2>2, <2>3
  <2> QED BY <2>4, NothingShows
<1>5. CASE (\E p \in Pipes : PipeFails(o, p)) \/ LaunchFails(o)
  <2>1. /\ phase'[o] \in {"failed_early", "gone"} /\ pid' = pid
        /\ phase[o] \in Launching \ {"launched"}
    BY <1>2, <1>5
    DEF PipeFails, LaunchFails, Goto, At, PipePhase, Pipes, Launching, TypeOK
  <2>2. pid[o] = NoPid
    BY <2>1 DEF ContractInv
  <2>3. ObjectNow(o)' = "failed"
    BY <2>1, <2>2 DEF ObjectNow, Launching, At
  <2>4. ChildNow(o)' = ChildNow(o) /\ ChildNow(o) = "none"
    BY <2>1, <2>2 DEF ChildNow
  <2>5. Contract!Goes(o, "launching", "failed")
    BY <1>1, <1>3, <2>3, <2>4, HowItGoes
  <2>6. Contract!LaunchFails(o)
    BY <2>4, <2>5 DEF Contract!LaunchFails
  <2> QED BY <2>6 DEF Contract!Next
<1>6. CASE Spawn(o)
  <2>1. phase[o] = "spawn" /\ phase'[o] = "launched" /\ pid'[o] \in Pids
    BY <1>2, <1>6 DEF Spawn, At, Goto, TypeOK
  <2>2. o \notin exited /\ pid[o] = NoPid /\ pid'[o] # NoPid
    BY <2>1, ChildAssumption DEF IInv, Reaping, Spawned, Alive, ContractInv, Launching
  <2>3. ObjectNow(o)' = "launching"
    BY <2>1 DEF ObjectNow, Launching, At
  <2>4. ChildNow(o) = "none" /\ ChildNow(o)' = "running"
    BY <1>2, <2>2 DEF ChildNow
  <2>5. Contract!Spawn(o)
    BY <1>1, <1>3, <2>3, <2>4 DEF Contract!Spawn
  <2> QED BY <2>5 DEF Contract!Next
<1>7. CASE CloseHis(o)
  <2>1. phase[o] = "launched" /\ phase'[o] = "live" /\ ~Spawn(o)
    BY <1>2, <1>7 DEF CloseHis, Spawn, At, Goto, TypeOK
  <2>2. pid[o] # NoPid
    BY <2>1, ChildAssumption DEF IInv, Reaping, Spawned
  <2>3. ObjectNow(o)' = "live"
    BY <2>1 DEF ObjectNow, Launching, At
  <2>4. ChildNow(o)' = ChildNow(o) /\ ChildNow(o) # "none"
    BY <1>2, <2>1, <2>2 DEF ChildNow
  <2>5. Contract!Goes(o, "launching", "live")
    BY <1>1, <1>3, <2>3, <2>4, HowItGoes
  <2>6. Contract!Launched(o)
    BY <2>4, <2>5 DEF Contract!Launched
  <2> QED BY <2>6 DEF Contract!Next
<1> QED BY <1>4, <1>5, <1>6, <1>7 DEF Launch

\* The steps of a wait.
LEMMA WaitShows ==
    ASSUME IInv, ContractInv, NEW o \in Objects,
           \/ Wait(o) \/ WaitReports(o) \/ WaitFails(o) \/ WaitInterrupted(o)
           \/ WaitSleeps(o) \/ WakeUp(o)
    PROVE  [Contract!Next]_(Contract!vars)
<1>0. /\ TypeOK
      /\ \A q \in Objects \ {o} : ObjectNow(q)' = ObjectNow(q)
      /\ \A q \in Objects : ChildNow(q)' = ChildNow(q)
  <2>1. ~Spawn(o)
    BY DEF Wait, WaitReports, WaitFails, WaitInterrupted, WaitSleeps, WakeUp, Spawn, At
  <2>2. exited' = exited /\ pid' = pid
    BY <2>1, OthersShowNothing DEF IInv, Busy, Use, Signal
  <2> QED BY <2>2, OthersShowNothing DEF IInv, Busy, Use, Signal, ChildNow
<1>1. CASE Wait(o)
  <2>1. PICK b \in BOOLEAN : timed'[o] = b /\ phase'[o] = "check" /\ phase[o] = "live"
    BY <1>0, <1>1 DEF Wait, Goto, At, TypeOK
  <2>2. /\ ObjectNow(o) = "live"
        /\ ObjectNow(o)' = IF b THEN "waiting_until" ELSE "waiting"
    BY <2>1 DEF ObjectNow, Launching, At
  <2>3. CASE b
    BY <1>0, <2>2, <2>3, HowItGoes DEF Contract!WaitUntil, Contract!Next
  <2>4. CASE ~b
    BY <1>0, <2>2, <2>4, HowItGoes DEF Contract!Wait, Contract!Next
  <2> QED BY <2>3, <2>4
<1>2. CASE WaitReports(o) \/ WaitFails(o) \/ WaitInterrupted(o)
  <2>1. phase[o] = "check" /\ phase'[o] = "live"
    BY <1>0, <1>2
    DEF WaitReports, WaitFails, WaitInterrupted, Answer, Goto, At, TypeOK
  <2>2. Contract!Over(o)
    <3>1. CASE WaitInterrupted(o)
      BY <3>1 DEF WaitInterrupted, Contract!Over
    <3>2. CASE WaitReports(o) \/ WaitFails(o)
      BY <2>1, <3>2, OwnIsOver DEF WaitReports, WaitFails, Alive
    <3> QED BY <1>2, <3>1, <3>2
  <2>3. /\ ObjectNow(o) = IF timed[o] THEN "waiting_until" ELSE "waiting"
        /\ ObjectNow(o)' = "live"
    BY <2>1 DEF ObjectNow, Launching, At
  <2>4. CASE timed[o]
    BY <1>0, <2>3, <2>4, HowItGoes DEF Contract!WaitedUntil, Contract!Next
  <2>5. CASE ~timed[o]
    BY <1>0, <2>2, <2>3, <2>5, HowItGoes DEF Contract!Waited, Contract!Next
  <2> QED BY <2>4, <2>5
<1>3. CASE WaitSleeps(o)
  <2>1. phase[o] = "check" /\ phase'[o] = "sleep" /\ timed[o] /\ timed'[o] = timed[o]
    BY <1>0, <1>3 DEF WaitSleeps, Goto, At, TypeOK, waiting
  <2>2. ObjectNow(o)' = ObjectNow(o)
    BY <2>1 DEF ObjectNow, Launching, At
  <2> QED BY <1>0, <2>2, NothingShows
<1>4. CASE WakeUp(o)
  <2>1. phase[o] = "sleep" /\ timed[o]
    BY <1>4 DEF WakeUp, At, ContractInv
  <2>2. CASE expired[o]
    <3>1. phase'[o] = "live"
      BY <1>0, <1>4, <2>2 DEF WakeUp, Answer, Goto, TypeOK
    <3>2. ObjectNow(o) = "waiting_until" /\ ObjectNow(o)' = "live"
      BY <2>1, <3>1 DEF ObjectNow, Launching, At
    <3> QED BY <1>0, <3>2, HowItGoes DEF Contract!WaitedUntil, Contract!Next
  <2>3. CASE ~expired[o]
    <3>1. phase'[o] = "check" /\ timed'[o] = timed[o]
      BY <1>0, <1>4, <2>3 DEF WakeUp, Goto, TypeOK
    <3>2. ObjectNow(o)' = ObjectNow(o)
      BY <2>1, <3>1 DEF ObjectNow, Launching, At
    <3> QED BY <1>0, <3>2, NothingShows
  <2> QED BY <2>2, <2>3
<1> QED BY <1>1, <1>2, <1>3, <1>4

\* The steps of the destructor.
LEMMA DestructorShows ==
    ASSUME IInv, ContractInv, NEW o \in Objects,
           \/ Destroy(o) \/ DestroyWaited(o) \/ DestroyInterrupted(o)
           \/ CloseNext(o) \/ Destroyed(o)
    PROVE  [Contract!Next]_(Contract!vars)
<1>0. /\ TypeOK
      /\ \A q \in Objects \ {o} : ObjectNow(q)' = ObjectNow(q)
      /\ \A q \in Objects : ChildNow(q)' = ChildNow(q)
      /\ pid' = pid
  <2>1. ~Spawn(o)
    BY DEF Destroy, DestroyWaited, DestroyInterrupted, CloseNext, Destroyed, Spawn, At
  <2>2. exited' = exited /\ pid' = pid
    BY <2>1, OthersShowNothing DEF IInv, Busy, Use, Signal
  <2> QED BY <2>2, OthersShowNothing DEF IInv, Busy, Use, Signal, ChildNow
<1>1. CASE Destroy(o)
  <2>1. phase[o] = "live" /\ phase'[o] = "dtor_wait"
    BY <1>0, <1>1 DEF Destroy, Goto, At, TypeOK
  <2>2. ObjectNow(o) = "live" /\ ObjectNow(o)' = "ending"
    BY <2>1 DEF ObjectNow, Launching, At
  <2> QED BY <1>0, <2>2, HowItGoes DEF Contract!Destroy, Contract!Next
<1>2. CASE DestroyWaited(o) \/ DestroyInterrupted(o)
  <2>1. phase[o] = "dtor_wait" /\ phase'[o] = "closing"
    BY <1>0, <1>2 DEF DestroyWaited, DestroyInterrupted, Goto, At, TypeOK
  <2>2. Contract!Over(o)
    <3>1. CASE DestroyInterrupted(o)
      BY <3>1 DEF DestroyInterrupted, Contract!Over
    <3>2. CASE DestroyWaited(o)
      BY <2>1, <3>2, OwnIsOver DEF DestroyWaited, Alive
    <3> QED BY <1>2, <3>1, <3>2
  <2>3. ObjectNow(o) = "ending" /\ ObjectNow(o)' = "closing"
    BY <2>1 DEF ObjectNow, Launching, At
  <2> QED BY <1>0, <2>2, <2>3, HowItGoes DEF Contract!BeginsToClose, Contract!Next
<1>3. CASE CloseNext(o)
  <2>1. phase' = phase /\ timed' = timed
    BY <1>3 DEF CloseNext, waiting
  <2>2. \A q \in Objects : ObjectNow(q)' = ObjectNow(q)
    BY <1>0, <2>1 DEF ObjectNow, At
  <2> QED BY <1>0, <2>2, NothingShows
<1>4. CASE Destroyed(o)
  <2>1. phase[o] = "closing" /\ phase'[o] = "gone"
    BY <1>0, <1>4 DEF Destroyed, Goto, At, TypeOK
  <2>2. pid[o] # NoPid
    BY <2>1, ChildAssumption DEF IInv, Reaping, Spawned
  <2>3. ObjectNow(o) = "closing" /\ ObjectNow(o)' = "gone"
    BY <1>0, <2>1, <2>2 DEF ObjectNow, Launching, At
  <2> QED BY <1>0, <2>3, HowItGoes DEF Contract!Destroyed, Contract!Next
<1> QED BY <1>1, <1>2, <1>3, <1>4

\* A child shows only by its exit.
LEMMA ChildShows ==
    ASSUME IInv, NEW p \in Pids, ChildExits(p) \/ ChildStops(p) \/ ChildContinues(p)
    PROVE  [Contract!Next]_(Contract!vars)
<1>1. UNCHANGED <<phase, pid, timed>>
  BY DEF ChildExits, ChildStops, ChildContinues, waiting
<1>2. \A q \in Objects : ObjectNow(q)' = ObjectNow(q)
  BY <1>1 DEF ObjectNow, At
<1>3. CASE exited' = exited
  BY <1>1, <1>2, <1>3, NothingShows DEF ChildNow
<1>4. CASE exited' # exited
  <2>1. PICK o \in Objects : o = proc[p].of /\ exited' = exited \cup {o} /\ o \notin exited
    <3>1. ChildExits(p) /\ proc[p].of \in Objects
      <4>1. ChildExits(p)
        BY <1>4 DEF ChildExits, ChildStops, ChildContinues
      <4>2. proc[p].of \in Objects \cup {NoPid} /\ proc[p].of # NoPid
        BY <4>1 DEF ChildExits, IInv, Reaping, TypeOK
      <4> QED BY <4>1, <4>2
    <3> QED BY <1>4, <3>1 DEF ChildExits
  <2>2. pid[o] # NoPid
    BY <2>1, ChildAssumption DEF IInv, Reaping
  <2>3. /\ ChildNow(o) = "running" /\ ChildNow(o)' = "exited"
        /\ \A q \in Objects \ {o} : ChildNow(q)' = ChildNow(q)
    BY <1>1, <2>1, <2>2 DEF ChildNow
  <2>4. Contract!Exit(o)
    BY <1>2, <2>3 DEF Contract!Exit
  <2> QED BY <2>4 DEF Contract!Next
<1> QED BY <1>3, <1>4

\* Every step shows in the contract as a step of it, or not at all.
LEMMA ContractStep ==
    ASSUME IInv, ContractInv, [Next]_vars
    PROVE  [Contract!Next]_(Contract!vars)
<1>1. ASSUME NEW o \in Objects, UseFiles(o) \/ AskRunning(o) \/ DeadlinePasses(o)
      PROVE  [Contract!Next]_(Contract!vars)
  <2>1. UNCHANGED <<phase, pid, timed, exited>>
    BY <1>1 DEF UseFiles, AskRunning, DeadlinePasses, waiting, children
  <2> QED BY <2>1, NothingShows DEF ObjectNow, ChildNow, At
<1>2. CASE UNCHANGED vars
  <2>1. UNCHANGED <<phase, pid, timed, exited>>
    BY <1>2 DEF vars, waiting, children
  <2> QED BY <2>1, NothingShows DEF ObjectNow, ChildNow, At
<1>3. ASSUME NEW o \in Objects, Busy(o) \/ Use(o) \/ DeadlinePasses(o) \/ Signal(o)
      PROVE  [Contract!Next]_(Contract!vars)
  BY <1>1, <1>3, LaunchShows, WaitShows, DestructorShows DEF Busy, Use, Signal
<1> QED BY <1>2, <1>3, ChildShows DEF Next

\* An object has no pid before its child was spawned, and only a wait with a
\* deadline sleeps.
LEMMA StepOfContractInv ==
    ASSUME IInv, ContractInv, [Next]_vars
    PROVE  ContractInv'
<1>1. CASE UNCHANGED vars
  BY <1>1 DEF ContractInv, At, vars, waiting, children
<1>2. ASSUME NEW o \in Objects, Busy(o) \/ Use(o) \/ DeadlinePasses(o) \/ Signal(o)
      PROVE  ContractInv'
  <2>1. /\ \A q \in Objects \ {o} :
             phase'[q] = phase[q] /\ pid'[q] = pid[q] /\ timed'[q] = timed[q]
        /\ exited' = exited /\ (Spawn(o) \/ pid' = pid)
    BY <1>2, OthersShowNothing DEF IInv
  <2>2. TypeOK
    BY DEF IInv
  <2>3. phase'[o] \in (Launching \ {"launched"}) \cup {"failed_early"} => pid'[o] = NoPid
    <3>1. CASE phase[o] \in Launching \ {"launched"} /\ ~Spawn(o)
      BY <2>1, <3>1 DEF ContractInv
    <3>2. CASE Spawn(o)
      BY <2>2, <3>2 DEF Spawn, Goto, TypeOK, Launching
    <3>3. CASE phase[o] \notin Launching \ {"launched"}
      <4>1. phase'[o] \notin (Launching \ {"launched"}) \cup {"failed_early"}
        BY <1>2, <2>2, <3>3
        DEF Busy, Use, Signal, Launch, UseFiles, AskRunning, Wait, Destroy,
            WaitFails, WaitInterrupted, WaitSleeps, WakeUp, DeadlinePasses,
            WaitReports, Pipe, PipeFails, SetCloexec, LaunchFails, CloseHis, Spawn,
            DestroyWaited, DestroyInterrupted, CloseNext, Destroyed, Answer, Goto,
            At, PipePhase, Pipes, Launching, TypeOK
      <4> QED BY <4>1
    <3> QED BY <3>1, <3>2, <3>3
  <2>4. phase'[o] = "sleep" => timed'[o]
    BY <1>2, <2>2
    DEF ContractInv, Busy, Use, Signal, Launch, UseFiles, AskRunning, Wait, Destroy,
        WaitFails, WaitInterrupted, WaitSleeps, WakeUp, DeadlinePasses,
        WaitReports, Pipe, PipeFails, SetCloexec, LaunchFails, CloseHis, Spawn,
        DestroyWaited, DestroyInterrupted, CloseNext, Destroyed, Answer, Goto,
        At, AfterPipe, waiting, TypeOK
  <2>5. reaped' \subseteq exited'
    <3>1. phase[o] \in Alive => Reported(pid[o]) \subseteq exited
      BY DEF IInv, Reaping, Spawned, Reported
    <3>2. reaped' = reaped \/ (phase[o] \in Alive /\ reaped' = reaped \cup Reported(pid[o]))
      BY <1>2
      DEF Busy, Use, Signal, Launch, UseFiles, AskRunning, Wait, Destroy,
          WaitFails, WaitInterrupted, WaitSleeps, WakeUp, DeadlinePasses,
          WaitReports, Pipe, PipeFails, SetCloexec, LaunchFails, CloseHis, Spawn,
          DestroyWaited, DestroyInterrupted, CloseNext, Destroyed, At, Alive, children
    <3> QED BY <2>1, <3>1, <3>2 DEF ContractInv
  <2>6. \A p \in Pids : proc'[p].state = "stopped" => proc'[p].of \in Stoppable
    <3>1. CASE Spawn(o)
      BY <2>2, <3>1 DEF Spawn, ContractInv, TypeOK
    <3>2. CASE proc' = proc
      BY <3>2 DEF ContractInv
    <3>3. CASE phase[o] \in Alive /\ proc' = Told(pid[o])
      <4>1. pid[o] \in Pids /\ NoChild.state = "free"
        BY <3>3 DEF IInv, Reaping, Spawned, NoChild
      <4> QED BY <2>2, <3>3, <4>1, TypeOfTold DEF ContractInv
    <3> QED BY <1>2, <2>2, <3>1, <3>2, <3>3, StepOfOne
  <2> QED BY <2>1, <2>3, <2>4, <2>5, <2>6 DEF ContractInv, At
<1>3. ASSUME NEW p \in Pids, ChildExits(p) \/ ChildStops(p) \/ ChildContinues(p)
      PROVE  ContractInv'
  <2>1. UNCHANGED <<phase, pid, timed, reaped>> /\ exited \subseteq exited'
    BY <1>3 DEF ChildExits, ChildStops, ChildContinues, waiting
  <2>2. \A r \in Pids : proc'[r].state = "stopped" => proc'[r].of \in Stoppable
    <3>1. /\ \A q \in Pids \ {p} : proc'[q] = proc[q]
          /\ proc'[p].of = proc[p].of
      BY <1>3, ChildChanges DEF IInv
    <3>2. proc'[p].state = "stopped" => proc[p].of \in Stoppable
      BY <1>3 DEF ChildExits, ChildStops, ChildContinues, IInv, TypeOK
    <3> QED BY <3>1, <3>2 DEF ContractInv
  <2> QED BY <2>1, <2>2 DEF ContractInv, At
<1> QED BY <1>1, <1>2, <1>3 DEF Next

\* ChildProcess keeps the contract: a wait without a deadline, that of the
\* destructor included, is over only when the object's own child has exited, or
\* was stopped, or a signal was caught, whoever else takes exits and whatever
\* pids are given out again.
THEOREM ImplementsContract == Spec => KeepsContract
<1>1. Init => Contract!Init
  <2> SUFFICES ASSUME Init PROVE Contract!Init
    OBVIOUS
  <2>1. \A o \in Objects : ObjectNow(o) = "launching"
    BY WhereItIs DEF Init, Launching
  <2>2. \A o \in Objects : ChildNow(o) = "none"
    BY DEF Init, ChildNow
  <2> QED BY <2>1, <2>2, ChildAssumption DEF Contract!Init
<1>2. IInv /\ ContractInv /\ [Next]_vars => ContractInv'
  BY StepOfContractInv
<1>3. IInv /\ ContractInv /\ [Next]_vars => [Contract!Next]_(Contract!vars)
  BY ContractStep
<1> QED BY <1>1, <1>2, <1>3, ContractInit, Invariance, PTL
        DEF Spec, KeepsContract, Contract!Spec

-----------------------------------------------------------------------------
\* The exception of DestructorEnds.

LEMMA StaysStuck ==
    ASSUME IInv, NoFileUsed, NEW o \in Objects, Stuck(o), [Next]_vars
    PROVE  Stuck(o)'
<1>1. /\ TypeOK /\ phase[o] = "dtor_wait" /\ o \in Reader \cup Writer
      /\ o \notin Stoppable /\ o \notin Signalled
      /\ pid[o] \in Pids /\ proc[pid[o]].state = "running" /\ proc[pid[o]].of = o
      /\ ~Tells(pid[o])
  BY DEF Stuck, At, IInv, Tells
<1>2. SUFFICES /\ phase'[o] = phase[o] /\ pid'[o] = pid[o]
               /\ proc'[pid[o]].state = "running" /\ proc'[pid[o]].of = o
  BY <1>1 DEF Stuck, At
<1>3. CASE UNCHANGED vars
  BY <1>1, <1>3 DEF vars, children
<1>4. ASSUME NEW q \in Objects, Busy(q) \/ Use(q) \/ DeadlinePasses(q) \/ Signal(q)
      PROVE  /\ phase'[o] = phase[o] /\ pid'[o] = pid[o]
             /\ proc'[pid[o]].state = "running" /\ proc'[pid[o]].of = o
  <2>1. q # o
    BY <1>1, <1>4
    DEF Busy, Use, Signal, Launch, UseFiles, AskRunning, Wait, Destroy,
        WaitFails, WaitInterrupted, WaitSleeps, WakeUp, DeadlinePasses,
        WaitReports, Pipe, PipeFails, SetCloexec, LaunchFails, CloseHis, Spawn,
        DestroyWaited, DestroyInterrupted, CloseNext, Destroyed, At, PipePhase, Pipes
  <2>2. phase'[o] = phase[o] /\ pid'[o] = pid[o]
    BY <1>1, <1>4, <2>1, OthersShowNothing
  <2>3. CASE Spawn(q)
    <3>1. PICK p \in Pids : /\ proc[p].state = "free"
                            /\ \A r \in Pids \ {p} : proc'[r] = proc[r]
      BY <1>1, <2>3 DEF Spawn, TypeOK
    <3>2. p # pid[o]
      BY <1>1, <3>1
    <3> QED BY <1>1, <2>2, <3>1, <3>2
  <2>4. CASE Tells(pid[q]) /\ pid[q] \in Pids /\ proc' = Told(pid[q])
    <3>1. pid[q] # pid[o]
      BY <1>1, <2>4
    <3> QED BY <1>1, <2>2, <2>4, <3>1 DEF Told, TypeOK
  <2>5. CASE proc' = proc
    BY <1>1, <2>2, <2>5
  <2>6. phase[q] \in Alive => pid[q] \in Pids
    BY DEF IInv, Reaping, Spawned
  <2> QED BY <1>4, <2>2, <2>3, <2>4, <2>5, <2>6
      DEF Busy, Use, Signal, Launch, UseFiles, AskRunning, Wait, Destroy,
          WaitFails, WaitInterrupted, WaitSleeps, WakeUp, DeadlinePasses,
          WaitReports, Pipe, PipeFails, SetCloexec, LaunchFails, CloseHis,
          DestroyWaited, DestroyInterrupted, CloseNext, Destroyed, children,
          At, Alive
<1>5. ASSUME NEW p \in Pids, ChildExits(p) \/ ChildStops(p) \/ ChildContinues(p)
      PROVE  /\ phase'[o] = phase[o] /\ pid'[o] = pid[o]
             /\ proc'[pid[o]].state = "running" /\ proc'[pid[o]].of = o
  <2>1. phase'[o] = phase[o] /\ pid'[o] = pid[o]
    BY <1>5 DEF ChildExits, ChildStops, ChildContinues
  <2>2. CASE p # pid[o]
    BY <1>1, <1>5, <2>2 DEF ChildExits, ChildStops, ChildContinues, TypeOK
  <2>3. ASSUME p = pid[o] PROVE FALSE
    <3>1. "in" \in Opened(o) /\ "out" \in Opened(o)
      BY <1>1 DEF Opened, PipesOf, Pipes
    <3>2. /\ fd[own[o]["in"]] = <<o, "in", "w">> /\ own[o]["in"] \in Fds
          /\ fd[own[o]["out"]] = <<o, "out", "r">> /\ own[o]["out"] \in Fds
      BY <1>1, <3>1 DEF IInv, HandlesGood, HandlesSet, OurEnd, Pipes
    <3>3. ~EndOfInput(o) /\ ~EndOfReaders(o)
      BY <3>2 DEF EndOfInput, EndOfReaders, HeldBeside
    <3> QED BY <1>1, <1>5, <2>3, <3>3 DEF ChildExits, ChildStops, ChildContinues
  <2> QED BY <2>1, <2>2, <2>3
<1> QED BY <1>3, <1>4, <1>5 DEF Next

\* A destructor that waits for a child that reads its input to the end, or that
\* is blocked writing its output, does so for ever, as long as nobody asks for a
\* FILE *.
THEOREM DestructorStaysStuck == Spec => DestructorHangs
<1>1. IInv /\ [Next]_vars =>
        [\A o \in Objects : NoFileUsed /\ Stuck(o) => Stuck(o)']_vars
  BY StaysStuck
<1> QED BY <1>1, Invariance, PTL DEF Spec, DestructorHangs

-----------------------------------------------------------------------------
\* What TimedWaitEnds rests on.

LEMMA LateStep ==
    ASSUME TypeOK, NEW o \in Objects, phase[o] \in {"check", "sleep"},
           timed[o], expired[o], Busy(o)
    PROVE  \/ At(o, "live")'
           \/ At(o, "check") /\ At(o, "sleep")' /\ timed'[o] /\ expired'[o]
<1>1. WaitReports(o) \/ WaitFails(o) \/ WaitSleeps(o) \/ WakeUp(o)
  BY DEF Busy, Launch, Pipe, PipeFails, SetCloexec, LaunchFails, CloseHis, Spawn,
         DestroyWaited, CloseNext, Destroyed, At, PipePhase, Pipes
<1>2. CASE WaitSleeps(o)
  BY <1>2 DEF WaitSleeps, At, Goto, TypeOK, waiting
<1>3. CASE WaitReports(o) \/ WaitFails(o) \/ WakeUp(o)
  BY <1>3 DEF WaitReports, WaitFails, WakeUp, Answer, Goto, At, TypeOK
<1> QED BY <1>1, <1>2, <1>3

\* The wait of another does not move or forget a deadline.
LEMMA OthersKeepTime ==
    ASSUME TypeOK, NEW q \in Objects, NEW o \in Objects \ {q},
           Busy(q) \/ Use(q) \/ DeadlinePasses(q) \/ Signal(q)
    PROVE  phase'[o] = phase[o] /\ timed'[o] = timed[o] /\ expired'[o] = expired[o]
<1>1. expired'[o] = expired[o]
  BY DEF Busy, Use, Signal, Launch, UseFiles, AskRunning, Wait, Destroy,
         WaitFails, WaitInterrupted, WaitSleeps, WakeUp, DeadlinePasses,
         WaitReports, Pipe, PipeFails, SetCloexec, LaunchFails, CloseHis, Spawn,
         DestroyWaited, DestroyInterrupted, CloseNext, Destroyed, Answer, waiting,
         TypeOK
<1> QED BY <1>1, OthersShowNothing

\* A wait whose deadline has passed is over after at most two steps of its
\* thread.
THEOREM LateWaitGoesOn == Spec => LateWaitAdvances
<1> DEFINE Advances == \A o \in Objects :
          phase[o] \in {"check", "sleep"} /\ timed[o] /\ expired[o] =>
            \/ At(o, "live")'
            \/ At(o, "check") /\ At(o, "sleep")' /\ timed'[o] /\ expired'[o]
            \/ ~Busy(o) /\ UNCHANGED <<phase[o], timed[o], expired[o]>>
<1>1. ASSUME IInv, [Next]_vars PROVE [Advances]_vars
  <2> SUFFICES ASSUME Next, NEW o \in Objects, phase[o] \in {"check", "sleep"},
                      timed[o], expired[o], ~Busy(o)
               PROVE  UNCHANGED <<phase[o], timed[o], expired[o]>>
    BY <1>1, LateStep DEF IInv
  <2>1. ~Use(o) /\ ~DeadlinePasses(o) /\ ~Signal(o)
    BY DEF Use, UseFiles, AskRunning, Wait, Destroy, DeadlinePasses, Signal,
           WaitInterrupted, DestroyInterrupted, At
  <2>2. CASE \E q \in Objects \ {o} : Busy(q) \/ Use(q) \/ DeadlinePasses(q) \/ Signal(q)
    BY <1>1, <2>2, OthersKeepTime DEF IInv
  <2>3. CASE \E p \in Pids : ChildExits(p) \/ ChildStops(p) \/ ChildContinues(p)
    BY <2>3 DEF ChildExits, ChildStops, ChildContinues, waiting
  <2> QED BY <2>1, <2>2, <2>3 DEF Next
<1> QED BY <1>1, Invariance, PTL DEF Spec, LateWaitAdvances
=============================================================================
