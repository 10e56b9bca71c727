---------------------------- MODULE ChildProcess ----------------------------
(***************************************************************************)
(* child_process::child_process on POSIX (child_process.hpp and the two    *)
(* child_process.ipp): launching a child over three pipes, waiting for it, *)
(* asking whether it runs, and destroying the object.                      *)
(*                                                                         *)
(* Several objects are used at once, each by a thread of its own.  They    *)
(* share the descriptor table and the children of the one process, which   *)
(* are modelled from what the code asks of them: descriptors are given out *)
(* lowest first, a child inherits what is not close-on-exec, waitid()      *)
(* reports an exit once, and a stop once.                                  *)
(***************************************************************************)
EXTENDS Naturals, Sequences, FiniteSets

CONSTANTS
    Objects,       \* the child_process objects, each launched once
    UseParentErr,  \* launch()'s use_parent_errh, of each object
    Reader,        \* the objects whose child exits only at the end of stdin
    Writer,        \* those whose child writes more than a pipe holds to stdout,
                   \* which nobody reads
    Endless,       \* those whose child need not exit at all
    Stoppable,     \* the objects whose child may be stopped
    Signalled,     \* the objects whose thread may catch a signal in waitid()
    Pids,          \* process identifiers, given out again after a reap
    NFds,          \* the limit on open descriptors
    MaxCalls,      \* bound: is_running() and waits asked of each object
    NoPid

Fds   == 0 .. NFds - 1
NoFd  == NFds                      \* a native_handle_type of fd -1
Pipes == {"in", "out", "err"}

\* What a descriptor may refer to: an end of a pipe of an object, a standard
\* stream of the process, or nothing.
Ends   == Objects \X Pipes \X {"r", "w"}
Std(p) == <<"std", p, "rw">>
Closed == <<"closed", "closed", "closed">>
Files  == Ends \cup {Std(p) : p \in Pipes} \cup {Closed}

ASSUME ChildAssumption ==
    /\ UseParentErr \in [Objects -> BOOLEAN]
    /\ Reader \subseteq Objects /\ Writer \subseteq Objects
    /\ Endless \subseteq Objects
    /\ Stoppable \subseteq Objects /\ Signalled \subseteq Objects
    /\ NFds \in Nat /\ NFds >= 3
    /\ MaxCalls \in Nat
    /\ NoPid \notin Pids \cup Objects

PipesOf(o) == IF UseParentErr[o] THEN {"in", "out"} ELSE Pipes

VARIABLES
    fd,         \* the process's descriptor table
    cloexec,    \* the descriptors that are close-on-exec
    phase,      \* what each object's thread does
    own,        \* _readh, _writeh, _errh: our ends of the pipes
    his,        \* launch()'s childreadh, childwriteh, childerrh
    pid,        \* _processh
    files,      \* were the FILE *s made (_stdin is set)
    todo,       \* descriptors the destructor has yet to close
    timed,      \* does the wait have a deadline
    expired,    \* has it passed
    calls,      \* how many calls were made, up to the bound
    answer,     \* of the last wait_until() or is_running()
    proc,       \* the children of the process, by pid
    exited,     \* history: the objects whose child has exited
    reaped,     \* history: the objects whose child's exit was reported
    overlapped, \* history: which launches another child was spawned into
    cut         \* history: the objects whose destructor did not wait to the end

descriptors == <<fd, cloexec>>
handles     == <<own, his>>
waiting     == <<timed, expired, calls, answer>>
children    == <<proc, exited, reaped>>
histories   == <<overlapped, cut>>
vars == <<descriptors, phase, handles, pid, files, todo, waiting, children,
          histories>>

NoChild == [state |-> "free", of |-> NoPid, told |-> FALSE,
            table |-> [x \in Fds |-> Closed]]

Init ==
    /\ fd = [x \in Fds |-> CASE x = 0 -> Std("in") [] x = 1 -> Std("out")
                             [] x = 2 -> Std("err") [] OTHER -> Closed]
    /\ cloexec = {}
    /\ phase = [o \in Objects |-> "pipe_in"]
    /\ own = [o \in Objects |-> [p \in Pipes |-> NoFd]]
    /\ his = [o \in Objects |-> [p \in Pipes |-> NoFd]]
    /\ pid = [o \in Objects |-> NoPid]
    /\ files = [o \in Objects |-> FALSE]
    /\ todo = [o \in Objects |-> << >>]
    /\ timed = [o \in Objects |-> FALSE]
    /\ expired = [o \in Objects |-> FALSE]
    /\ calls = [o \in Objects |-> 0]
    /\ answer = [o \in Objects |-> "none"]
    /\ proc = [p \in Pids |-> NoChild]
    /\ exited = {} /\ reaped = {}
    /\ overlapped = {} /\ cut = {}

At(o, ph)  == phase[o] = ph
Goto(o, ph) == phase' = [phase EXCEPT ![o] = ph]
Without(h, o) == [h EXCEPT ![o] = [p \in Pipes |-> NoFd]]

-----------------------------------------------------------------------------
\* The system calls.

Free == {x \in Fds : fd[x] = Closed}

CloseFds(S) ==
    /\ fd' = [x \in Fds |-> IF x \in S THEN Closed ELSE fd[x]]
    /\ cloexec' = cloexec \ S

Dup2(table, a, b) == [table EXCEPT ![b] = table[a]]
Close(table, a)   == [table EXCEPT ![a] = Closed]

\* Does some process but the child itself hold this end of a pipe?
HeldBeside(f, o) ==
    \/ \E x \in Fds : fd[x] = f
    \/ \E p \in Pids : proc[p].of # o /\ \E x \in Fds : proc[p].table[x] = f

\* What waitid() has to tell of a process: with the options wait_until() gives,
\* an exit, or a stop that was not told yet.
Tells(p) == \/ proc[p].state = "zombie"
            \/ proc[p].state = "stopped" /\ ~proc[p].told

\* The object whose child's exit is told.
Reported(p) == IF proc[p].state = "zombie" THEN {proc[p].of} ELSE {}

Told(p) == [proc EXCEPT ![p] = IF @.state = "zombie" THEN NoChild
                               ELSE [@ EXCEPT !.told = TRUE]]

\* waitid() refuses options that ask for no kind of change.
Kinds == {"WEXITED", "WSTOPPED", "WCONTINUED"}
Accepted(options) == options \cap Kinds # {}

-----------------------------------------------------------------------------
\* launch()

PipePhase == [in |-> "pipe_in", out |-> "pipe_out", err |-> "pipe_err"]
AfterPipe(o, p) == CASE p = "in" -> "pipe_out"
                     [] p = "out" /\ "err" \in PipesOf(o) -> "pipe_err"
                     [] OTHER -> "cloexec"

\* The child reads from `in' and writes to the others.
OurEnd(p) == IF p = "in" THEN "w" ELSE "r"
HisEnd(p) == IF p = "in" THEN "r" ELSE "w"

Pipe(o, p) ==
    /\ At(o, PipePhase[p])
    /\ \E r, w \in Free :
         /\ \A x \in Free \ {r} : r < x /\ w <= x
         /\ r # w
         /\ fd' = [fd EXCEPT ![r] = <<o, p, "r">>, ![w] = <<o, p, "w">>]
         /\ own' = [own EXCEPT ![o][p] = IF OurEnd(p) = "r" THEN r ELSE w]
         /\ his' = [his EXCEPT ![o][p] = IF HisEnd(p) = "r" THEN r ELSE w]
    /\ Goto(o, AfterPipe(o, p))
    /\ UNCHANGED <<cloexec, pid, files, todo, waiting, children, histories>>

\* No guard is in place yet: the destructor of `ret' closes our ends only.
PipeFails(o, p) ==
    /\ At(o, PipePhase[p])
    /\ Cardinality(Free) < 2
    /\ CloseFds({own[o][q] : q \in Pipes})
    /\ own' = Without(own, o) /\ his' = Without(his, o)
    /\ Goto(o, "failed_early")
    /\ UNCHANGED <<pid, files, todo, waiting, children, histories>>

\* Mutant: the descriptors are not marked.
SetCloexecForgotten(o) ==
    /\ At(o, "cloexec")
    /\ Goto(o, "spawn")
    /\ UNCHANGED <<descriptors, handles, pid, files, todo, waiting, children,
                   histories>>

SetCloexec(o) ==
    /\ At(o, "cloexec")
    /\ \A p \in PipesOf(o) : fd[own[o][p]] # Closed
    /\ cloexec' = cloexec \cup {own[o][p] : p \in PipesOf(o)}
    /\ Goto(o, "spawn")
    /\ UNCHANGED <<fd, handles, pid, files, todo, waiting, children,
                   histories>>

\* Mutant: no guard on the child's ends.
LaunchFailsKeepingHis(o) ==
    /\ phase[o] \in {"cloexec", "spawn"}
    /\ CloseFds({own[o][p] : p \in PipesOf(o)})
    /\ own' = Without(own, o) /\ his' = Without(his, o)
    /\ Goto(o, "gone")
    /\ UNCHANGED <<pid, files, todo, waiting, children, histories>>

\* fcntl(), a file action or posix_spawn() fails: the scope guards close both
\* ends of every pipe.
LaunchFails(o) ==
    /\ phase[o] \in {"cloexec", "spawn"}
    /\ CloseFds({own[o][p] : p \in PipesOf(o)} \cup {his[o][p] : p \in PipesOf(o)})
    /\ own' = Without(own, o) /\ his' = Without(his, o)
    /\ Goto(o, "gone")
    /\ UNCHANGED <<pid, files, todo, waiting, children, histories>>

\* The child's table: ours, after the file actions, without what is
\* close-on-exec (a target of dup2() is not).
StdOf == [in |-> 0, out |-> 1, err |-> 2]
\* Mutant: dup2() without the close that belongs to it.
WireOnly(table, o, p) == Dup2(table, his[o][p], StdOf[p])
Wire(table, o, p) == Close(Dup2(table, his[o][p], StdOf[p]), his[o][p])
ChildTable(o) ==
    LET in  == Wire(fd, o, "in")
        out == Wire(in, o, "out")
        err == IF "err" \in PipesOf(o) THEN Wire(out, o, "err") ELSE out
    IN  [x \in Fds |-> IF x \in cloexec \ {StdOf[p] : p \in PipesOf(o)}
                       THEN Closed ELSE err[x]]

\* The launches another thread is in when this one spawns: before ours are
\* close-on-exec, and before the child's ends are closed.
Exposed(o) ==
    {<<q, "ours">> : q \in {r \in Objects \ {o} :
                             phase[r] \in {"pipe_out", "pipe_err", "cloexec"}}}
    \cup
    {<<q, "his">> : q \in {r \in Objects \ {o} :
          phase[r] \in {"pipe_out", "pipe_err", "cloexec", "spawn", "launched"}}}

Spawn(o) ==
    /\ At(o, "spawn")
    /\ \A p \in PipesOf(o) : fd[his[o][p]] # Closed
    /\ \E p \in Pids :
         /\ proc[p].state = "free"
         /\ proc' = [proc EXCEPT ![p] = [state |-> "running", of |-> o,
                                         told |-> FALSE, table |-> ChildTable(o)]]
         /\ pid' = [pid EXCEPT ![o] = p]
    /\ overlapped' = overlapped \cup Exposed(o)
    /\ Goto(o, "launched")
    /\ UNCHANGED <<descriptors, handles, files, todo, waiting, exited,
                   reaped, cut>>

\* Mutants: ours are not released, and the child's ends have no guard.
CloseAll(o) ==
    /\ At(o, "launched")
    /\ CloseFds({his[o][p] : p \in PipesOf(o)} \cup {own[o][p] : p \in PipesOf(o)})
    /\ his' = Without(his, o)
    /\ Goto(o, "live")
    /\ UNCHANGED <<own, pid, files, todo, waiting, children, histories>>
CloseNone(o) ==
    /\ At(o, "launched")
    /\ his' = Without(his, o)
    /\ Goto(o, "live")
    /\ UNCHANGED <<descriptors, own, pid, files, todo, waiting, children,
                   histories>>

\* The guard on the child's ends closes them; ours are released to the object.
CloseHis(o) ==
    /\ At(o, "launched")
    /\ CloseFds({his[o][p] : p \in PipesOf(o)})
    /\ his' = Without(his, o)
    /\ Goto(o, "live")
    /\ UNCHANGED <<own, pid, files, todo, waiting, children, histories>>

-----------------------------------------------------------------------------
Called(o) == calls[o] < MaxCalls /\ calls' = [calls EXCEPT ![o] = @ + 1]

\* file_in(), file_out(), file_err(): _initialise_files

UseFiles(o) ==
    /\ At(o, "live") /\ ~files[o]
    /\ files' = [files EXCEPT ![o] = TRUE]
    /\ UNCHANGED <<descriptors, phase, handles, pid, todo, waiting, children,
                   histories>>

\* is_running(): waitid(WNOHANG | WNOWAIT)
AskRunning(o) ==
    /\ At(o, "live") /\ Called(o)
    /\ answer' = [answer EXCEPT ![o] =
                    IF Accepted({"WNOHANG", "WNOWAIT"}) /\ Tells(pid[o])
                    THEN "running" ELSE "not_running"]
    /\ UNCHANGED <<descriptors, phase, handles, pid, files, todo, timed,
                   expired, children, histories>>

-----------------------------------------------------------------------------
\* wait_until(d), and wait() without a deadline

Wait(o) ==
    /\ At(o, "live") /\ Called(o)
    /\ \E b \in BOOLEAN : timed' = [timed EXCEPT ![o] = b]
    /\ Goto(o, "check")
    /\ UNCHANGED <<descriptors, handles, pid, files, todo, expired, answer,
                   children, histories>>

Answer(o, a) ==
    /\ answer' = [answer EXCEPT ![o] = a]
    /\ timed' = [timed EXCEPT ![o] = FALSE]
    /\ expired' = [expired EXCEPT ![o] = FALSE]
    /\ Goto(o, "live")

\* Mutant: waitid(P_ALL).
WaitReportsAny(o) ==
    /\ At(o, "check")
    /\ \E p \in Pids : Tells(p) /\ proc' = Told(p)
    /\ Answer(o, "exited")
    /\ UNCHANGED <<descriptors, handles, pid, files, todo, calls, exited, reaped, histories>>

\* Whatever waitid() tells ends the wait.  _processh stays as it is.
WaitReports(o) ==
    /\ At(o, "check") /\ Tells(pid[o])
    /\ proc' = Told(pid[o])
    /\ reaped' = reaped \cup Reported(pid[o])
    /\ Answer(o, "exited")
    /\ UNCHANGED <<descriptors, handles, pid, files, todo, calls, exited, histories>>

WaitFails(o) ==
    /\ At(o, "check") /\ proc[pid[o]].state = "free"
    /\ Answer(o, "error")
    /\ UNCHANGED <<descriptors, handles, pid, files, todo, calls, children, histories>>

\* A signal is caught while waitid() blocks: its EINTR is an answer like another.
WaitInterrupted(o) ==
    /\ At(o, "check") /\ ~timed[o] /\ o \in Signalled
    /\ Answer(o, "error")
    /\ UNCHANGED <<descriptors, handles, pid, files, todo, calls, children, histories>>

\* Without a deadline waitid() blocks; with one it returns at once, and the
\* loop sleeps 100 ms before it looks at the clock.
WaitSleeps(o) ==
    /\ At(o, "check") /\ timed[o]
    /\ proc[pid[o]].state # "free" /\ ~Tells(pid[o])
    /\ Goto(o, "sleep")
    /\ UNCHANGED <<descriptors, handles, pid, files, todo, waiting, children,
                   histories>>

DeadlinePasses(o) ==
    /\ phase[o] \in {"check", "sleep"} /\ timed[o] /\ ~expired[o]
    /\ expired' = [expired EXCEPT ![o] = TRUE]
    /\ UNCHANGED <<descriptors, phase, handles, pid, files, todo, timed,
                   calls, answer, children, histories>>

\* Mutant: the loop never looks at the clock.
WakeUpBlindly(o) ==
    /\ At(o, "sleep")
    /\ Goto(o, "check")
    /\ UNCHANGED <<descriptors, handles, pid, files, todo, waiting, children,
                   histories>>

WakeUp(o) ==
    /\ At(o, "sleep")
    /\ IF expired[o] THEN Answer(o, "timed_out")
       ELSE Goto(o, "check") /\ UNCHANGED <<answer, timed, expired>>
    /\ UNCHANGED <<descriptors, handles, pid, files, todo, calls, children, histories>>

-----------------------------------------------------------------------------
\* ~child_process()

Destroy(o) ==
    /\ At(o, "live")
    /\ Goto(o, "dtor_wait")
    /\ UNCHANGED <<descriptors, handles, pid, files, todo, waiting, children,
                   histories>>

\* The handles in the order the destructor closes them.
HandlesOf(o) == IF UseParentErr[o] THEN <<own[o]["in"], own[o]["out"]>>
                ELSE <<own[o]["in"], own[o]["out"], own[o]["err"]>>

\* _deinitialise_files() closes the FILE *s and sets the handles to 0, which is
\* a handle that is set: the destructor closes descriptor 0 for each of them.
ToClose(o) == IF files[o]
              THEN HandlesOf(o) \o [i \in 1 .. Len(HandlesOf(o)) |-> 0]
              ELSE HandlesOf(o)

\* Mutant: an error does not end the wait.
DestroyWaitedForReport(o) ==
    /\ At(o, "dtor_wait")
    /\ Tells(pid[o])
    /\ proc' = Told(pid[o])
    /\ reaped' = reaped \cup Reported(pid[o])
    /\ todo' = [todo EXCEPT ![o] = ToClose(o)]
    /\ Goto(o, "closing")
    /\ UNCHANGED <<descriptors, handles, pid, files, waiting, exited,
                   histories>>

\* Mutant: the child is waited for only while it runs.
DestroyUnlessExited(o) ==
    /\ At(o, "dtor_wait")
    /\ proc[pid[o]].state \in {"free", "zombie"} \/ Tells(pid[o])
    /\ todo' = [todo EXCEPT ![o] = ToClose(o)]
    /\ Goto(o, "closing")
    /\ UNCHANGED <<descriptors, handles, pid, files, waiting, children,
                   histories>>

\* (void) wait(): an exit, a stop or an error ends it.
DestroyWaited(o) ==
    /\ At(o, "dtor_wait")
    /\ \/ /\ proc[pid[o]].state = "free"
          /\ UNCHANGED <<proc, reaped, cut>>
       \/ /\ Tells(pid[o])
          /\ proc' = Told(pid[o])
          /\ reaped' = reaped \cup Reported(pid[o])
          /\ cut' = IF proc[pid[o]].state = "zombie" THEN cut ELSE cut \cup {o}
    /\ todo' = [todo EXCEPT ![o] = ToClose(o)]
    /\ Goto(o, "closing")
    /\ UNCHANGED <<descriptors, handles, pid, files, waiting, exited,
                   overlapped>>

\* A signal ends it as well.
DestroyInterrupted(o) ==
    /\ At(o, "dtor_wait") /\ o \in Signalled
    /\ cut' = cut \cup {o}
    /\ todo' = [todo EXCEPT ![o] = ToClose(o)]
    /\ Goto(o, "closing")
    /\ UNCHANGED <<descriptors, handles, pid, files, waiting, children,
                   overlapped>>

CloseNext(o) ==
    /\ At(o, "closing") /\ todo[o] # << >>
    /\ CloseFds({Head(todo[o])})
    /\ todo' = [todo EXCEPT ![o] = Tail(@)]
    /\ UNCHANGED <<phase, handles, pid, files, waiting, children, histories>>

Destroyed(o) ==
    /\ At(o, "closing") /\ todo[o] = << >>
    /\ own' = Without(own, o)
    /\ Goto(o, "gone")
    /\ UNCHANGED <<descriptors, his, pid, files, todo, waiting, children,
                   histories>>

-----------------------------------------------------------------------------
\* The children (external).

EndOfInput(o) == ~HeldBeside(<<o, "in", "w">>, o)

\* Nobody could read the output any more: writing it fails instead of blocking.
EndOfReaders(o) == ~HeldBeside(<<o, "out", "r">>, o)

ChildExits(p) ==
    /\ proc[p].state = "running"
    /\ proc[p].of \in Reader => EndOfInput(proc[p].of)
    /\ proc[p].of \in Writer => EndOfReaders(proc[p].of)
    /\ proc' = [proc EXCEPT ![p].state = "zombie",
                            ![p].table = [x \in Fds |-> Closed]]
    /\ exited' = exited \cup {proc[p].of}
    /\ UNCHANGED <<descriptors, phase, handles, pid, files, todo, waiting,
                   reaped, histories>>

ChildStops(p) ==
    /\ proc[p].state = "running" /\ proc[p].of \in Stoppable
    /\ proc' = [proc EXCEPT ![p].state = "stopped", ![p].told = FALSE]
    /\ UNCHANGED <<descriptors, phase, handles, pid, files, todo, waiting,
                   exited, reaped, histories>>

ChildContinues(p) ==
    /\ proc[p].state = "stopped"
    /\ proc' = [proc EXCEPT ![p].state = "running"]
    /\ UNCHANGED <<descriptors, phase, handles, pid, files, todo, waiting,
                   exited, reaped, histories>>

-----------------------------------------------------------------------------
Launch(o) == \/ \E p \in Pipes : Pipe(o, p) \/ PipeFails(o, p)
             \/ SetCloexec(o) \/ LaunchFails(o) \/ Spawn(o) \/ CloseHis(o)

\* What the object's thread does once it has begun it.
Busy(o) == \/ Launch(o)
           \/ WaitReports(o) \/ WaitFails(o) \/ WaitSleeps(o) \/ WakeUp(o)
           \/ DestroyWaited(o) \/ CloseNext(o) \/ Destroyed(o)

\* What its user may ask for.
Use(o) == UseFiles(o) \/ AskRunning(o) \/ Wait(o) \/ Destroy(o)

\* A signal need never come.
Signal(o) == WaitInterrupted(o) \/ DestroyInterrupted(o)

Next == \/ \E o \in Objects : Busy(o) \/ Use(o) \/ DeadlinePasses(o) \/ Signal(o)
        \/ \E p \in Pids : ChildExits(p) \/ ChildStops(p) \/ ChildContinues(p)

\* A call that has begun goes on, time passes, a stopped child is continued, and
\* a child that can exit does in the end, however often it is stopped, unless it
\* is one that need not.
Fairness ==
    /\ \A o \in Objects : WF_vars(Busy(o)) /\ WF_vars(DeadlinePasses(o))
    /\ \A p \in Pids : /\ WF_vars(ChildContinues(p))
                       /\ SF_vars(proc[p].of \notin Endless /\ ChildExits(p))

Spec == Init /\ [][Next]_vars /\ Fairness

-----------------------------------------------------------------------------
\* Properties

Phases == {"pipe_in", "pipe_out", "pipe_err", "cloexec", "spawn", "launched",
           "live", "check", "sleep", "dtor_wait", "closing", "gone",
           "failed_early"}
Answers == {"none", "running", "not_running", "exited", "error", "timed_out"}
States  == {"free", "running", "stopped", "zombie"}

\* The type invariant.  That `todo' holds descriptors, and never -1, says the
\* destructor closes only handles that are set.
TypeOK ==
    /\ fd \in [Fds -> Files]
    /\ cloexec \subseteq Fds
    /\ phase \in [Objects -> Phases]
    /\ own \in [Objects -> [Pipes -> Fds \cup {NoFd}]]
    /\ his \in [Objects -> [Pipes -> Fds \cup {NoFd}]]
    /\ pid \in [Objects -> Pids \cup {NoPid}]
    /\ files \in [Objects -> BOOLEAN]
    /\ todo \in [Objects -> Seq(Fds)]
    /\ timed \in [Objects -> BOOLEAN]
    /\ expired \in [Objects -> BOOLEAN]
    /\ answer \in [Objects -> Answers]
    /\ proc \in [Pids -> [state : States, of : Objects \cup {NoPid},
                          told : BOOLEAN, table : [Fds -> Files]]]
    /\ exited \subseteq Objects /\ reaped \subseteq Objects
    /\ overlapped \subseteq Objects \X {"ours", "his"}
    /\ cut \subseteq Objects

OursOf(o) == {<<o, p, OurEnd(p)>> : p \in Pipes}
HisOf(o)  == {<<o, p, HisEnd(p)>> : p \in Pipes}
Alive == {"live", "check", "sleep", "dtor_wait"}
NoFileUsed == \A o \in Objects : ~files[o]

\* An object that was destroyed, or whose launch failed once its guards were in
\* place, has left no descriptor of its pipes in the process: also when other
\* threads open and close descriptors all the while.  One whose launch failed
\* before has left none of our ends, though it has the child's.
NoLeakWhenGone ==
    \A o \in Objects :
        /\ At(o, "gone") => \A x \in Fds : fd[x] \notin OursOf(o) \cup HisOf(o)
        /\ At(o, "failed_early") => \A x \in Fds : fd[x] \notin OursOf(o)

\* A destroyed object leaves no child behind, neither running nor waiting to be
\* reaped, unless a signal or a stop ended the wait of its destructor: also when
\* a wait had reported the exit before, or another object has taken it.
NoChildWhenGone ==
    \A o \in Objects : At(o, "gone") /\ o \notin cut =>
        \A p \in Pids : proc[p].of # o

\* As long as nobody asked for a FILE *, only the parent can end a child's
\* input: no child of the process, the child itself included, holds our end of
\* its pipes, unless one was spawned by another thread between pipe() and
\* FD_CLOEXEC.
StdinEnds ==
    NoFileUsed =>
        \A o \in Objects : <<o, "ours">> \notin overlapped /\ phase[o] \in Alive =>
            \A p \in Pids : \A x \in Fds : proc[p].table[x] \notin OursOf(o)

\* Once its child has exited, the end of the child's output can be read: no
\* process holds the child's ends any more, unless another thread spawned
\* before launch() had closed them.
OutputEnds ==
    \A o \in Objects :
        <<o, "his">> \notin overlapped /\ phase[o] \in Alive /\ o \in exited =>
            /\ \A x \in Fds : fd[x] \notin HisOf(o)
            /\ \A p \in Pids : \A x \in Fds : proc[p].table[x] \notin HisOf(o)

\* The child has its ends of its own pipes as its standard streams, and as
\* nothing else.
Wired(p) ==
    LET o == proc[p].of IN
    \A x \in Fds :
        /\ \A q \in PipesOf(o) :
             proc[p].table[x] = <<o, q, HisEnd(q)>> <=> x = StdOf[q]
        /\ "err" \notin PipesOf(o) /\ x = 2 => proc[p].table[x] = Std("err")

\* As long as nobody asked for a FILE *, each child that is spawned has its
\* ends of its own pipes as its standard streams, and as nothing else.
ChildWired ==
    NoFileUsed =>
        \A p \in Pids : proc[p].state \in {"running", "stopped"} => Wired(p)

\* As long as nobody asked for a FILE *, the handles of a live object stay the
\* ends of its own pipes, whatever other threads launch and destroy.
HandlesValid ==
    NoFileUsed =>
        \A o \in Objects : phase[o] \in Alive =>
            \A p \in PipesOf(o) : fd[own[o][p]] = <<o, p, OurEnd(p)>>

\* _processh is kept after the exit was reported, so a later wait, that of the
\* destructor included, may take the exit of a child of another object that was
\* given the same pid.  It does so only when the exit of its own child was
\* reported before: to it, or to another that has taken it in this way.
ForeignReapOnlyAfterOwn ==
    [][\A o \in Objects, p \in Pids :
          /\ phase[o] \in {"check", "dtor_wait"} /\ phase'[o] # phase[o]
          /\ proc[p].state = "zombie" /\ proc'[p].state = "free"
          => proc[p].of = o \/ o \in reaped]_vars

\* A wait with a deadline ends, whatever the child does.
TimedWaitEnds ==
    \A o \in Objects :
        phase[o] \in {"check", "sleep"} /\ timed[o] ~> At(o, "live")

\* The destructor ends, though it waits without a deadline, unless what it waits
\* for is a child that reads its input to the end, which ends only when the
\* destructor gets to closing it; one that writes more than a pipe holds, which
\* is deadlocked with it (the todo of child_process.hpp); or one that need not
\* exit.
Lingering == Reader \cup Writer \cup Endless

DestructorEnds ==
    \A o \in Objects :
        At(o, "dtor_wait") ~> \/ At(o, "gone")
                              \/ \E p \in Pids : p = pid[o] /\ proc[p].of \in Lingering

\* The destructor waits for a child that reads its input to the end, or that is
\* blocked writing its output.
Stuck(o) ==
    /\ At(o, "dtor_wait") /\ o \in (Reader \cup Writer) \ (Stoppable \cup Signalled)
    /\ \E p \in Pids : p = pid[o] /\ proc[p].state = "running" /\ proc[p].of = o

\* Nothing that other objects and their children do, and nothing the child can
\* do, gets the destructor on: these exceptions DestructorEnds makes are certain.
DestructorHangs == [][\A o \in Objects : NoFileUsed /\ Stuck(o) => Stuck(o)']_vars

\* Once its deadline has passed a wait sleeps at most once more: whatever its
\* thread does next takes it further, and nobody else takes it back.
LateWaitAdvances ==
    [][\A o \in Objects :
          phase[o] \in {"check", "sleep"} /\ timed[o] /\ expired[o] =>
            \/ At(o, "live")'
            \/ At(o, "check") /\ At(o, "sleep")' /\ timed'[o] /\ expired'[o]
            \/ ~Busy(o) /\ UNCHANGED <<phase[o], timed[o], expired[o]>>]_vars

-----------------------------------------------------------------------------
\* The inductive invariant behind these.

Launching == {"pipe_in", "pipe_out", "pipe_err", "cloexec", "spawn", "launched"}
Spawned   == Alive \cup {"launched", "closing"}

\* The pipes an object has our ends of, and launch() the child's.
Opened(o) == IF phase[o] \in {"pipe_in", "gone", "failed_early"} THEN {}
             ELSE IF phase[o] = "pipe_out" THEN {"in"}
             ELSE IF phase[o] = "pipe_err" THEN {"in", "out"}
             ELSE PipesOf(o)
Lent(o) == IF phase[o] \in Launching THEN Opened(o) ELSE {}

\* A handle is set as long as its pipe is the object's.
HandlesSet ==
    \A o \in Objects :
        /\ At(o, "pipe_err") => ~UseParentErr[o]
        /\ \A p \in Pipes :
             /\ own[o][p] \in IF p \in Opened(o) THEN Fds ELSE {NoFd}
             /\ his[o][p] \in IF p \in Lent(o) THEN Fds ELSE {NoFd}
        /\ phase[o] # "closing" => todo[o] = << >>

\* An end of a pipe that is open is in the handle it belongs to, and if it is
\* ours it is close-on-exec or will be before the object's child is spawned.
EndsOwned ==
    \A x \in Fds, o \in Objects, p \in Pipes :
        /\ fd[x] = <<o, p, OurEnd(p)>> =>
             /\ p \in Opened(o) /\ own[o][p] = x
             /\ At(o, "closing") => \E i \in 1 .. Len(todo[o]) : todo[o][i] = x
             /\ x \in cloexec \/ phase[o] \in {"pipe_out", "pipe_err", "cloexec"}
        /\ fd[x] = <<o, p, HisEnd(p)>> =>
             At(o, "failed_early") \/ (p \in Lent(o) /\ his[o][p] = x)

\* Without a FILE * each handle is what its object has opened.
HandlesGood ==
    /\ \A p \in Pipes : fd[StdOf[p]] = Std(p)
    /\ \A x \in cloexec : \E o \in Objects : fd[x] \in OursOf(o)
    /\ \A o \in Objects :
         /\ phase[o] # "closing" =>
              \A p \in Opened(o) : fd[own[o][p]] = <<o, p, OurEnd(p)>>
         /\ \A p \in Lent(o) : fd[his[o][p]] = <<o, p, HisEnd(p)>>
         /\ \A i \in 1 .. Len(todo[o]) :
              /\ fd[todo[o][i]] \in OursOf(o)
              /\ \A j \in 1 .. Len(todo[o]) : todo[o][i] = todo[o][j] => i = j

\* Whose child a process is, and until when.
Reaping ==
    /\ \A o \in Objects :
         /\ phase[o] \in Spawned => pid[o] \in Pids
                                    /\ (o \in reaped \/ proc[pid[o]].of = o)
         /\ o \in exited => phase[o] \in Spawned \cup {"gone"}
         /\ phase[o] \in {"closing", "gone"} /\ o \notin cut =>
              \A p \in Pids : proc[p].of # o
    /\ \A p \in Pids :
         /\ proc[p].state = "free" <=> proc[p].of = NoPid
         /\ proc[p].of \in Objects =>
              /\ pid[proc[p].of] = p
              /\ phase[proc[p].of] \in Spawned \cup {"gone"}
         /\ proc[p].state = "zombie" => proc[p].of \in exited

\* Which children hold a child's ends.
TablesEnd ==
    \A p \in Pids : \A x \in Fds, o \in Objects :
        proc[p].table[x] \in HisOf(o) =>
            \/ <<o, "his">> \in overlapped \/ At(o, "failed_early")
            \/ proc[p].of = o /\ o \notin exited

\* What else each child holds, without a FILE *.
TablesGood ==
    \A p \in Pids :
        /\ proc[p].state \in {"running", "stopped"} => Wired(p)
        /\ \A x \in Fds, o \in Objects :
             proc[p].table[x] \in OursOf(o) => <<o, "ours">> \in overlapped

IInv ==
    /\ TypeOK /\ HandlesSet /\ EndsOwned /\ Reaping /\ TablesEnd
    /\ NoFileUsed => HandlesGood /\ TablesGood

-----------------------------------------------------------------------------
\* What a user is promised

ObjectNow(o) ==
    CASE phase[o] \in Launching -> "launching"
      [] phase[o] \in {"failed_early", "gone"} /\ pid[o] = NoPid -> "failed"
      [] phase[o] \in {"check", "sleep"} ->
           IF timed[o] THEN "waiting_until" ELSE "waiting"
      [] At(o, "dtor_wait") -> "ending"
      [] OTHER -> phase[o]

ChildNow(o) == IF pid[o] = NoPid THEN "none"
               ELSE IF o \in exited THEN "exited" ELSE "running"

Contract == INSTANCE ChildContract WITH
    object <- [o \in Objects |-> ObjectNow(o)],
    child <- [o \in Objects |-> ChildNow(o)],
    disturbed <- Stoppable \cup Signalled

\* A wait without a deadline, that of the destructor included, is over only when
\* the object's own child has exited, or was stopped, or a signal was caught:
\* whoever else takes exits, and whatever pids are given out again, an answer
\* about another's child or none comes only after that.
KeepsContract == Contract!Spec

\* What this rests on besides IInv.
ContractInv ==
    /\ \A o \in Objects :
         /\ phase[o] \in (Launching \ {"launched"}) \cup {"failed_early"}
              => pid[o] = NoPid
         /\ At(o, "sleep") => timed[o]
    /\ reaped \subseteq exited
    /\ \A p \in Pids : proc[p].state = "stopped" => proc[p].of \in Stoppable

-----------------------------------------------------------------------------
\* What the documentation says and the code does not do

\* "These are now closed": the destructor closes nothing but what its object
\* opened.
ClosesOnlyOwn ==
    [][\A o \in Objects : At(o, "closing") /\ todo[o] # << >> /\ todo'[o] # todo[o]
          => fd[Head(todo[o])] \in OursOf(o)]_vars
=============================================================================
