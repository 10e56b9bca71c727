---------------------------- MODULE ChildWindows ----------------------------
(***************************************************************************)
(* child_process::child_process on Windows                                 *)
(* (detail/impl/windows/child_process.ipp and the _MSC_VER parts of        *)
(* detail/impl/child_process.ipp): launching a child over three pipes,     *)
(* waiting for it until a deadline, and destroying the object.             *)
(*                                                                         *)
(* Each object is used by a thread of its own; they share the handle table *)
(* of the process.  What the system does with handles and processes is     *)
(* external: a closed handle may be given out again, lowest first, and a   *)
(* child inherits every handle that is marked inheritable.                 *)
(***************************************************************************)
EXTENDS Naturals, Sequences

CONSTANTS
    Objects,       \* the child_process objects, each launched once
    UseParentErr,  \* launch()'s use_parent_errh, of each object
    Endless,       \* the objects whose child need not exit
    StreamUsers,   \* bound: those whose streams may be asked for
    NHandles,      \* bound: handles open at a time
    MaxCalls,      \* bound: waits asked of each object
    MaxLate,       \* bound: milliseconds a thread is held up
    Width          \* a DWORD holds the numbers below it: 2^32

Handles == 1 .. NHandles
Null    == 0                        \* a handle of nullptr
Invalid == NHandles + 1             \* INVALID_HANDLE_VALUE
Pipes   == {"in", "out", "err"}

Closed == <<"closed", "closed", "closed">>
Process(o) == <<o, "process", "ours">>
Thread(o)  == <<o, "thread", "ours">>
StdErr == <<"std", "err", "parent's">>

ASSUME WindowsAssumption ==
    /\ UseParentErr \in [Objects -> BOOLEAN]
    /\ Endless \subseteq Objects /\ StreamUsers \subseteq Objects
    /\ NHandles \in Nat \ {0} /\ MaxCalls \in Nat
    /\ MaxLate \in Nat /\ Width \in Nat /\ MaxLate < Width - 1

VARIABLES
    table,    \* what each handle of the process refers to
    inherit,  \* the handles that are inheritable
    phase,    \* what each object's thread does
    own,      \* _readh, _writeh, _errh
    his,      \* launch()'s childreadh, childwriteh, childerrh
    processh, \* _processh
    threadh,  \* pi.hThread
    files,    \* were the FILE *s made
    streams,  \* were the streams made
    todo,     \* handles the destructor has yet to close
    child,    \* of each object: none, running, exited
    inherited,\* what each child has inherited, while it runs
    wired,    \* its standard handles
    asked,    \* waits asked so far
    due,      \* the wait's deadline: none, ahead, past
    timeout,  \* its milliseconds for WaitForSingleObject()
    overlapped \* history: the launches another child was spawned into

handles  == <<own, his, processh, threadh>>
waits    == <<asked, due, timeout>>
children == <<child, inherited, wired>>
vars == <<table, inherit, phase, handles, files, streams, todo, children,
          waits, overlapped>>

NoHandles == [p \in Pipes |-> Null]
NoStd     == [p \in Pipes |-> Closed]

Init ==
    /\ table = [h \in Handles |-> IF h = 1 THEN StdErr ELSE Closed]
    /\ inherit = {1}
    /\ phase = [o \in Objects |-> "pipe_in"]
    /\ own = [o \in Objects |-> NoHandles]
    /\ his = [o \in Objects |-> NoHandles]
    /\ processh = [o \in Objects |-> Null]
    /\ threadh = [o \in Objects |-> Null]
    /\ files = [o \in Objects |-> FALSE]
    /\ streams = [o \in Objects |-> FALSE]
    /\ todo = [o \in Objects |-> << >>]
    /\ child = [o \in Objects |-> "none"]
    /\ inherited = [o \in Objects |-> {}]
    /\ wired = [o \in Objects |-> NoStd]
    /\ asked = [o \in Objects |-> 0]
    /\ due = [o \in Objects |-> "none"]
    /\ timeout = [o \in Objects |-> 0]
    /\ overlapped = {}

At(o, ph)   == phase[o] = ph
Goto(o, ph) == phase' = [phase EXCEPT ![o] = ph]

Infinite == Width - 1               \* INFINITE

-----------------------------------------------------------------------------
\* The system

Free == {h \in Handles : table[h] = Closed}

\* Two handles given out, lowest first.
GivenOut(g, h) == /\ g < h
                  /\ \A x \in Free \ {g} : g < x /\ h <= x

\* CloseHandle() of each: it does nothing to a null or invalid handle.
CloseAll(S) ==
    /\ table' = [h \in Handles |-> IF h \in S THEN Closed ELSE table[h]]
    /\ inherit' = inherit \ S

-----------------------------------------------------------------------------
\* launch()

PipesOf(o) == IF UseParentErr[o] THEN {"in", "out"} ELSE Pipes
PipePhase == [in |-> "pipe_in", out |-> "pipe_out"]
AfterPipe(p) == IF p = "in" THEN "pipe_out" ELSE "pipe_err"

\* CreatePipe()
Pipe(o, p) ==
    /\ p \in {"in", "out"} /\ At(o, PipePhase[p])
    /\ \E g, h \in Free :
         /\ GivenOut(g, h)
         /\ table' = [table EXCEPT ![g] = <<o, p, "ours">>, ![h] = <<o, p, "his">>]
         /\ own' = [own EXCEPT ![o][p] = g]
         /\ his' = [his EXCEPT ![o][p] = h]
    /\ Goto(o, AfterPipe(p))
    /\ UNCHANGED <<inherit, processh, threadh, files, streams, todo, children,
                   waits, overlapped>>

\* GetStdHandle(STD_ERROR_HANDLE)
ParentErr(o) ==
    /\ At(o, "pipe_err") /\ UseParentErr[o]
    /\ his' = [his EXCEPT ![o]["err"] = 1]
    /\ Goto(o, "inherit")
    /\ UNCHANGED <<table, inherit, own, processh, threadh, files, streams,
                   todo, children, waits, overlapped>>

\* No guard is in place yet: the destructor of `ret' closes our end of the
\* first pipe, and nobody the child's.
PipeFails(o, p) ==
    /\ p \in {"in", "out"} /\ At(o, PipePhase[p])
    /\ CloseAll({own[o]["in"]})
    /\ own' = [own EXCEPT ![o] = NoHandles]
    /\ his' = [his EXCEPT ![o] = NoHandles]
    /\ Goto(o, "failed_early")
    /\ UNCHANGED <<processh, threadh, files, streams, todo, children, waits,
                   overlapped>>

\* CreateNamedPipeA() for the child's stderr
NamedPipe(o) ==
    /\ At(o, "pipe_err") /\ ~UseParentErr[o]
    /\ \E h \in Free :
         /\ \A x \in Free : h <= x
         /\ table' = [table EXCEPT ![h] = <<o, "err", "ours">>]
         /\ own' = [own EXCEPT ![o]["err"] = h]
    /\ Goto(o, "file_err")
    /\ UNCHANGED <<inherit, his, processh, threadh, files, streams, todo,
                   children, waits, overlapped>>

\* It fails, because the name is in use or for another reason: what it returns
\* is not the null the code looks for.
NamedPipeFails(o) ==
    /\ At(o, "pipe_err") /\ ~UseParentErr[o]
    /\ own' = [own EXCEPT ![o]["err"] = Invalid]
    /\ Goto(o, "file_err")
    /\ UNCHANGED <<table, inherit, his, processh, threadh, files, streams, todo,
                   children, waits, overlapped>>

\* The child's end of a pipe: where ours could not be made, the end of another's
\* pipe that has the name.
HisEnd(o, p) == <<o, p, IF own[o][p] = Invalid THEN "theirs" ELSE "his">>

\* CreateFileA() of that name
OpenPipe(o) ==
    /\ At(o, "file_err")
    /\ \E h \in Free :
         /\ \A x \in Free : h <= x
         /\ table' = [table EXCEPT ![h] = HisEnd(o, "err")]
         /\ his' = [his EXCEPT ![o]["err"] = h]
    /\ Goto(o, "inherit")
    /\ UNCHANGED <<inherit, own, processh, threadh, files, streams, todo,
                   children, waits, overlapped>>

\* It fails: nobody has a pipe of that name, or another has opened it.  The
\* code looks for null again.
OpenFails(o) ==
    /\ At(o, "file_err")
    /\ his' = [his EXCEPT ![o]["err"] = Invalid]
    /\ Goto(o, "inherit")
    /\ UNCHANGED <<table, inherit, own, processh, threadh, files, streams, todo,
                   children, waits, overlapped>>

\* Mutant: our ends are made inheritable too.
SetInheritBoth(o) ==
    /\ At(o, "inherit")
    /\ \A p \in Pipes : his[o][p] \in Handles
    /\ inherit' = inherit \cup {his[o][p] : p \in Pipes}
                          \cup {own[o][p] : p \in PipesOf(o)}
    /\ Goto(o, "spawn")
    /\ UNCHANGED <<table, handles, files, streams, todo, children, waits,
                   overlapped>>

\* SetHandleInformation() of the child's three handles fails for an invalid
\* one.
SetInherit(o) ==
    /\ At(o, "inherit")
    /\ \A p \in Pipes : his[o][p] \in Handles \ Free
    /\ inherit' = inherit \cup {his[o][p] : p \in Pipes}
    /\ Goto(o, "spawn")
    /\ UNCHANGED <<table, handles, files, streams, todo, children, waits,
                   overlapped>>

\* A handle cannot be marked, the arguments or the environment are too large,
\* or CreateProcessW() fails: the guards close both ends.
LaunchFails(o) ==
    /\ phase[o] \in {"inherit", "spawn"}
    /\ CloseAll({own[o][p] : p \in PipesOf(o)} \cup {his[o][p] : p \in PipesOf(o)})
    /\ own' = [own EXCEPT ![o] = NoHandles]
    /\ his' = [his EXCEPT ![o] = NoHandles]
    /\ Goto(o, "gone")
    /\ UNCHANGED <<processh, threadh, files, streams, todo, children, waits,
                   overlapped>>

\* The launches of others whose ends are inheritable when this one spawns.
Exposed(o) == {q \in Objects \ {o} : phase[q] \in {"spawn", "launched"}}

\* CreateProcessW()
Spawn(o) ==
    /\ At(o, "spawn")
    /\ \E g, h \in Free :
         /\ GivenOut(g, h)
         /\ table' = [table EXCEPT ![g] = Process(o), ![h] = Thread(o)]
         /\ processh' = [processh EXCEPT ![o] = g]
         /\ threadh' = [threadh EXCEPT ![o] = h]
    /\ child' = [child EXCEPT ![o] = "running"]
    /\ inherited' = [inherited EXCEPT ![o] = {table[h] : h \in inherit}]
    /\ wired' = [wired EXCEPT ![o] = [p \in Pipes |->
                   IF his[o][p] \in Handles THEN table[his[o][p]] ELSE Closed]]
    /\ overlapped' = overlapped \cup Exposed(o)
    /\ Goto(o, "launched")
    /\ UNCHANGED <<inherit, own, his, files, streams, todo, waits>>

\* Mutant: no guard on the child's ends.
LaunchedKeepingHis(o) ==
    /\ At(o, "launched")
    /\ CloseAll({threadh[o]})
    /\ threadh' = [threadh EXCEPT ![o] = Null]
    /\ his' = [his EXCEPT ![o] = NoHandles]
    /\ Goto(o, "live")
    /\ UNCHANGED <<own, processh, files, streams, todo, children, waits,
                   overlapped>>

\* After 30 ms: the thread's handle is closed, and by its guard what was the
\* child's.
Launched(o) ==
    /\ At(o, "launched")
    /\ CloseAll({threadh[o]} \cup {his[o][p] : p \in PipesOf(o)})
    /\ threadh' = [threadh EXCEPT ![o] = Null]
    /\ his' = [his EXCEPT ![o] = NoHandles]
    /\ Goto(o, "live")
    /\ UNCHANGED <<own, processh, files, streams, todo, children, waits,
                   overlapped>>

-----------------------------------------------------------------------------
\* file_in(), cin() and the like: _open_osfhandle() makes each handle one that
\* the descriptor of the FILE *, or of the stream, owns.  An invalid handle has
\* no descriptor, and the C runtime ends a process that goes on without.
Openable(o) == \A p \in PipesOf(o) : own[o][p] # Invalid

UseFiles(o) ==
    /\ At(o, "live") /\ ~files[o] /\ Openable(o)
    /\ files' = [files EXCEPT ![o] = TRUE]
    /\ UNCHANGED <<table, inherit, phase, handles, streams, todo, children,
                   waits, overlapped>>

UseStreams(o) ==
    /\ At(o, "live") /\ o \in StreamUsers /\ ~streams[o] /\ Openable(o)
    /\ streams' = [streams EXCEPT ![o] = TRUE]
    /\ UNCHANGED <<table, inherit, phase, handles, files, todo, children,
                   waits, overlapped>>

-----------------------------------------------------------------------------
\* wait_until()

\* Mutant: the wait begins with the timeout as it is, 0.
WaitNotAtAll(o) ==
    /\ At(o, "live")
    /\ asked[o] < MaxCalls /\ asked' = [asked EXCEPT ![o] = @ + 1]
    /\ Goto(o, "wait")
    /\ UNCHANGED <<table, inherit, handles, files, streams, todo, children,
                   due, timeout, overlapped>>

\* wait() has no deadline.
Wait(o) ==
    /\ At(o, "live")
    /\ timeout' = [timeout EXCEPT ![o] = Infinite]
    /\ asked[o] < MaxCalls /\ asked' = [asked EXCEPT ![o] = @ + 1]
    /\ Goto(o, "wait")
    /\ UNCHANGED <<table, inherit, handles, files, streams, todo, children,
                   due, overlapped>>

WaitUntil(o) ==
    /\ At(o, "live")
    /\ \E d \in {"ahead", "past"} : due' = [due EXCEPT ![o] = d]
    /\ asked[o] < MaxCalls /\ asked' = [asked EXCEPT ![o] = @ + 1]
    /\ Goto(o, "clock")
    /\ UNCHANGED <<table, inherit, handles, files, streams, todo, children,
                   timeout, overlapped>>

\* The deadline is compared with the clock: past, the timeout is 0.
ReadClock(o) ==
    /\ At(o, "clock")
    /\ \/ due[o] = "past" /\ timeout' = [timeout EXCEPT ![o] = 0] /\ Goto(o, "wait")
       \/ due[o] = "ahead" /\ Goto(o, "clock_again") /\ UNCHANGED timeout
    /\ UNCHANGED <<table, inherit, handles, files, streams, todo, children,
                   asked, due, overlapped>>

\* The clock is read again for the difference.  The deadline may have passed
\* since, by less than a millisecond or by more: the difference is cast to an
\* unsigned number.
ReadClockAgain(o) ==
    /\ At(o, "clock_again")
    /\ \E late \in 0 .. MaxLate, left \in 0 .. 1 :
         /\ late > 0 => left = 0
         /\ timeout' = [timeout EXCEPT ![o] = (left + Width - late) % Width]
    /\ Goto(o, "wait")
    /\ UNCHANGED <<table, inherit, handles, files, streams, todo, children,
                   asked, due, overlapped>>

\* WaitForSingleObject() without a deadline, and GetExitCodeProcess() after it,
\* may return: what the handle refers to by now is a process that has exited, or
\* no process, which either call answers with an error.
Returns(h) == \A q \in Objects : table[h] = Process(q) => child[q] = "exited"

\* An exit, the timeout or an error ends the wait.
WaitOver(o) ==
    /\ At(o, "wait")
    /\ Returns(processh[o]) \/ timeout[o] # Infinite
    /\ due' = [due EXCEPT ![o] = "none"]
    /\ timeout' = [timeout EXCEPT ![o] = 0]
    /\ Goto(o, "live")
    /\ UNCHANGED <<table, inherit, handles, files, streams, todo, children,
                   asked, overlapped>>

-----------------------------------------------------------------------------
\* ~child_process()

Destroy(o) ==
    /\ At(o, "live")
    /\ Goto(o, "dtor_wait")
    /\ UNCHANGED <<table, inherit, handles, files, streams, todo, children,
                   waits, overlapped>>

HandlesOf(o) == IF UseParentErr[o] THEN <<own[o]["in"], own[o]["out"]>>
                ELSE <<own[o]["in"], own[o]["out"], own[o]["err"]>>

\* Mutant: the handles that a FILE * owns are closed once more.
CloseTwice(o) == (IF files[o] \/ streams[o] THEN HandlesOf(o) ELSE << >>)
                 \o <<processh[o]>> \o HandlesOf(o)

\* The FILE *s close their handles, then the streams theirs, then the process's
\* goes; and ours if neither were made.
ToClose(o) == (IF files[o] THEN HandlesOf(o) ELSE << >>)
              \o (IF streams[o] THEN HandlesOf(o) ELSE << >>)
              \o <<processh[o]>>
              \o (IF files[o] \/ streams[o] THEN << >> ELSE HandlesOf(o))

\* Mutant: the destructor does not wait for long.
DestroyAnyway(o) ==
    /\ At(o, "dtor_wait")
    /\ todo' = [todo EXCEPT ![o] = ToClose(o)]
    /\ Goto(o, "closing")
    /\ UNCHANGED <<table, inherit, handles, files, streams, children, waits,
                   overlapped>>

\* (void) wait(): its answer, an exit or an error, is not looked at.
DestroyWaited(o) ==
    /\ At(o, "dtor_wait") /\ Returns(processh[o])
    /\ todo' = [todo EXCEPT ![o] = ToClose(o)]
    /\ Goto(o, "closing")
    /\ UNCHANGED <<table, inherit, handles, files, streams, children, waits,
                   overlapped>>

CloseNext(o) ==
    /\ At(o, "closing") /\ todo[o] # << >>
    /\ CloseAll({Head(todo[o])})
    /\ todo' = [todo EXCEPT ![o] = Tail(@)]
    /\ UNCHANGED <<phase, handles, files, streams, children, waits, overlapped>>

Destroyed(o) ==
    /\ At(o, "closing") /\ todo[o] = << >>
    /\ own' = [own EXCEPT ![o] = NoHandles]
    /\ processh' = [processh EXCEPT ![o] = Null]
    /\ Goto(o, "gone")
    /\ UNCHANGED <<table, inherit, his, threadh, files, streams, todo,
                   children, waits, overlapped>>

-----------------------------------------------------------------------------
\* The child (external)

ChildExits(o) ==
    /\ child[o] = "running"
    /\ child' = [child EXCEPT ![o] = "exited"]
    /\ inherited' = [inherited EXCEPT ![o] = {}]
    /\ wired' = [wired EXCEPT ![o] = NoStd]
    /\ UNCHANGED <<table, inherit, phase, handles, files, streams, todo, waits,
                   overlapped>>

-----------------------------------------------------------------------------
Launch(o) == \/ \E p \in Pipes : Pipe(o, p) \/ PipeFails(o, p)
             \/ ParentErr(o) \/ NamedPipe(o) \/ NamedPipeFails(o)
             \/ OpenPipe(o) \/ OpenFails(o)
             \/ SetInherit(o) \/ LaunchFails(o) \/ Spawn(o) \/ Launched(o)

\* What the object's thread does once it has begun it.
Busy(o) == \/ Launch(o)
           \/ ReadClock(o) \/ ReadClockAgain(o) \/ WaitOver(o)
           \/ DestroyWaited(o) \/ CloseNext(o) \/ Destroyed(o)

\* What its user may ask for.
Use(o) == UseFiles(o) \/ UseStreams(o) \/ Wait(o) \/ WaitUntil(o) \/ Destroy(o)

Next == \E o \in Objects : Busy(o) \/ Use(o) \/ ChildExits(o)

\* A call that has begun goes on, and a child that is not endless exits.
Fairness ==
    /\ \A o \in Objects : WF_vars(Busy(o))
    /\ \A o \in Objects \ Endless : WF_vars(ChildExits(o))

Spec == Init /\ [][Next]_vars /\ Fairness

-----------------------------------------------------------------------------
\* Properties

OursOf(o) == {<<o, p, "ours">> : p \in Pipes \cup {"process", "thread"}}
HisOf(o)  == {<<o, p, e>> : p \in Pipes, e \in {"his", "theirs"}}
Alive     == {"live", "clock", "clock_again", "wait", "dtor_wait"}

\* FILE *s and streams that were both made each own the same handles, which the
\* destructor then closes twice, whoever they belong to the second time.
OneOwner == \A o \in Objects : ~(files[o] /\ streams[o])

\* The destructor closes each handle of its object once and nothing else, also
\* where a FILE * or a stream owns the handle and another thread may have been
\* given its number since.  (One that is invalid it tries to close, in vain.)
ClosesOnlyOwn ==
    [][\A o \in Objects :
          OneOwner /\ todo[o] # << >> /\ todo'[o] # todo[o] =>
            \/ Head(todo[o]) = Invalid
            \/ Head(todo[o]) \in Handles /\ table[Head(todo[o])] \in OursOf(o)]_vars

\* An object that was destroyed after it waited for its child, or whose launch
\* failed once its guards were in place, has left no handle in the process, and
\* no child that runs.
NothingLeft ==
    \A o \in Objects : OneOwner /\ At(o, "gone") =>
        /\ \A h \in Handles : table[h] \notin OursOf(o) \cup HisOf(o)
        /\ child[o] # "running"

\* A child has the ends of its own pipes as its standard handles, or our stderr
\* where it was asked for; its stderr may be another's pipe, but only where our
\* end is invalid, since the failure of CreateNamedPipeA() goes unnoticed.  And
\* no child, not one spawned in between either, ever holds one of ours, or keeps
\* another's from ending its input.
ChildWired ==
    \A o \in Objects : OneOwner /\ child[o] = "running" =>
        /\ \A p \in Pipes \ PipesOf(o) : wired[o][p] = StdErr
        /\ \A p \in PipesOf(o) :
             IF phase[o] \in Alive THEN wired[o][p] = HisEnd(o, p)
             ELSE wired[o][p] \in {<<o, p, "his">>, <<o, p, "theirs">>}
        /\ wired[o]["in"] = <<o, "in", "his">> /\ wired[o]["out"] = <<o, "out", "his">>
        /\ \A q \in Objects : inherited[o] \cap OursOf(q) = {}

\* Once its child has exited the end of its output can be read: no process
\* holds the child's ends, unless another thread spawned while they were
\* inheritable.
OutputEnds ==
    \A o \in Objects :
        OneOwner /\ phase[o] \in Alive /\ child[o] = "exited" /\ o \notin overlapped =>
            /\ \A h \in Handles : table[h] \notin HisOf(o)
            /\ \A q \in Objects : inherited[q] \cap HisOf(o) = {}

-----------------------------------------------------------------------------
\* The inductive invariant

Values  == 0 .. Invalid
FilesOf(o) == OursOf(o) \cup HisOf(o)
Refs    == (UNION {FilesOf(o) : o \in Objects}) \cup {StdErr, Closed}
Opening   == {"pipe_in", "pipe_out", "pipe_err", "file_err", "inherit", "spawn"}
Launching == Opening \cup {"launched"}
Spawned   == {"launched"} \cup Alive
Phases    == Launching \cup Alive \cup {"closing", "gone", "failed_early"}

TypeOK ==
    /\ table \in [Handles -> Refs]
    /\ inherit \subseteq Handles
    /\ phase \in [Objects -> Phases]
    /\ own \in [Objects -> [Pipes -> Values]]
    /\ his \in [Objects -> [Pipes -> Values]]
    /\ processh \in [Objects -> Values] /\ threadh \in [Objects -> Values]
    /\ files \in [Objects -> BOOLEAN] /\ streams \in [Objects -> BOOLEAN]
    /\ todo \in [Objects -> Seq(Values)]
    /\ child \in [Objects -> {"none", "running", "exited"}]
    /\ inherited \in [Objects -> SUBSET Refs]
    /\ wired \in [Objects -> [Pipes -> Refs]]
    /\ asked \in [Objects -> Nat]
    /\ due \in [Objects -> {"none", "ahead", "past"}]
    /\ timeout \in [Objects -> 0 .. Width - 1]
    /\ overlapped \subseteq Objects

\* The pipes launch() has our ends of, and the child's.
Made(o) == CASE At(o, "pipe_in")  -> {}
             [] At(o, "pipe_out") -> {"in"}
             [] At(o, "pipe_err") -> {"in", "out"}
             [] OTHER -> {p \in PipesOf(o) : own[o][p] # Invalid}
MadeHis(o) == CASE At(o, "pipe_in")  -> {}
                [] At(o, "pipe_out") -> {"in"}
                [] phase[o] \in {"pipe_err", "file_err"} -> {"in", "out"}
                [] OTHER -> {p \in PipesOf(o) : his[o][p] # Invalid}

\* The object knows f by the handle h.
Knows(o, h, f) ==
    \/ /\ phase[o] \in Launching \cup Alive
       /\ \E p \in Made(o) : h = own[o][p] /\ f = <<o, p, "ours">>
    \/ /\ phase[o] \in Launching
       /\ \E p \in MadeHis(o) : h = his[o][p] /\ f = HisEnd(o, p)
    \/ phase[o] \in Spawned /\ h = processh[o] /\ f = Process(o)
    \/ At(o, "launched") /\ h = threadh[o] /\ f = Thread(o)

\* A handle not made is null, or invalid where its call failed, which only that
\* of stderr survives.
NotMade(o) ==
    /\ \A p \in Pipes : own[o][p] = Invalid => p = "err" /\ ~UseParentErr[o]
    /\ At(o, "file_err") => ~UseParentErr[o]
    /\ phase[o] \in Opening => \A p \in Pipes \ Made(o) : own[o][p] \in {Null, Invalid}
    /\ At(o, "inherit") =>
         \A p \in Pipes \ MadeHis(o) : his[o][p] = IF p \in PipesOf(o) THEN Invalid ELSE 1
    /\ phase[o] \in {"spawn", "launched"} => MadeHis(o) = PipesOf(o)
    /\ At(o, "spawn") /\ UseParentErr[o] => his[o]["err"] = 1

\* What the object knows is there; what is there of it the object knows, or the
\* destructor is about to close, or the early failure forgot.
KnowsRight(o) == \A h \in Values, f \in FilesOf(o) :
    Knows(o, h, f) => h \in Handles /\ table[h] = f
AllKnown(o) == \A h \in Handles, f \in FilesOf(o) : table[h] = f =>
    \/ Knows(o, h, f)
    \/ At(o, "closing") /\ \E i \in 1 .. Len(todo[o]) : todo[o][i] = h
    \/ At(o, "failed_early") /\ f \in HisOf(o)

\* What the destructor is about to close is there, of this object, and to be
\* closed once; or it is invalid.
TodoGood(o) ==
    /\ ~At(o, "closing") => todo[o] = << >>
    /\ \A i \in 1 .. Len(todo[o]) :
         /\ \/ todo[o][i] = Invalid
            \/ todo[o][i] \in Handles /\ table[todo[o][i]] \in OursOf(o)
         /\ \A j \in 1 .. Len(todo[o]) : todo[o][i] = todo[o][j] => i = j

ChildGood(o) ==
    /\ phase[o] \in Opening => child[o] = "none"
    /\ phase[o] \in Spawned => child[o] # "none"
    /\ phase[o] \in {"closing", "gone"} => child[o] # "running"
    /\ child[o] = "running" =>
         /\ \A p \in Pipes \ PipesOf(o) : wired[o][p] = StdErr
         /\ \A p \in PipesOf(o) :
              /\ wired[o][p] \in {<<o, p, "his">>, <<o, p, "theirs">>}
              /\ phase[o] \in Spawned => wired[o][p] = HisEnd(o, p)
         /\ \A p \in {"in", "out"} : wired[o][p] = <<o, p, "his">>

\* An inheritable handle is our stderr or a child's end whose launch is between
\* SetHandleInformation() and the guards; and a child has inherited those of
\* the launches it was spawned into.
InheritGood ==
    /\ table[1] = StdErr
    /\ \A h \in inherit :
         \/ table[h] = StdErr
         \/ \E o \in Objects : table[h] \in HisOf(o) /\ phase[o] \in {"spawn", "launched"}
InheritedGood == \A o \in Objects :
    /\ child[o] # "running" => inherited[o] = {}
    /\ \A f \in inherited[o] :
         f = StdErr \/ \E q \in overlapped \cup {o} : f \in HisOf(q)

ObjectGood(o) == /\ NotMade(o) /\ KnowsRight(o) /\ AllKnown(o)
                 /\ TodoGood(o) /\ ChildGood(o)

Good == (\A o \in Objects : ObjectGood(o)) /\ InheritGood /\ InheritedGood

IInv == TypeOK /\ (OneOwner => Good)

-----------------------------------------------------------------------------
\* What a user is promised

ObjectNow(o) ==
    CASE phase[o] \in Launching -> "launching"
      [] At(o, "failed_early") \/ (At(o, "gone") /\ child[o] = "none") -> "failed"
      [] phase[o] \in {"clock", "clock_again", "wait"} ->
           IF due[o] = "none" THEN "waiting" ELSE "waiting_until"
      [] At(o, "dtor_wait") -> "ending"
      [] OTHER -> phase[o]

Contract == INSTANCE ChildContract WITH
    object <- [o \in Objects |-> ObjectNow(o)],
    disturbed <- IF OneOwner THEN {} ELSE Objects

\* As long as no object has both FILE *s and streams, a wait without a deadline,
\* that of the destructor included, is over only when the object's own child has
\* exited, however the launches, clocks and failures of others come in between;
\* handles are closed only then.  (Else a handle that is closed twice may be the
\* process of another, whose wait then ends with an error.)
KeepsContract == Contract!Spec

\* What this rests on: there is a deadline only while a wait has one, a wait
\* without has INFINITE for its timeout, and an object has a child from its launch
\* on.
ContractInv ==
    \A o \in Objects :
        /\ phase[o] \in Opening \cup {"failed_early"} => child[o] = "none"
        /\ phase[o] \in Spawned \cup {"closing"} => child[o] # "none"
        /\ phase[o] \in Launching \cup {"live", "dtor_wait"} => due[o] = "none"
        /\ phase[o] \in {"clock", "clock_again"} => due[o] # "none"
        /\ At(o, "wait") /\ due[o] = "none" => timeout[o] = Infinite

-----------------------------------------------------------------------------
\* What the documentation says and the code does not do

\* "Waits for a child process to exit until deadline": a wait with a deadline
\* ends, whatever the child does.
TimedWaitEnds ==
    \A o \in Objects : At(o, "clock") ~> At(o, "live")
=============================================================================
