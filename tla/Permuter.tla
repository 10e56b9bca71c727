------------------------------ MODULE Permuter ------------------------------
(***************************************************************************)
(* parameter_permuter::operator() and the hooks it instantiates around     *)
(* each call of the test kernel (permute_parameters.hpp, hooks/custom.hpp, *)
(* the life cycle of hooks/filesystem_workspace.hpp).                      *)
(*                                                                         *)
(* One call of operator() walks the rows of the parameter table.  For each *)
(* row a thread constructs one object per hook, in order, as a temporary;  *)
(* moves them into a hooks_container; calls the kernel; and destroys the   *)
(* container, which runs the hooks' second halves in reverse order.  An    *)
(* exception is turned into an error code of the row, chosen by the local  *)
(* variable `stage'.  An exception that leaves a noexcept destructor ends  *)
(* the process.                                                            *)
(***************************************************************************)
EXTENDS Naturals, FiniteSets

CONSTANTS
    Threads,        \* the OpenMP team (one thread without OpenMP)
    Master,         \* the thread that called operator()
    MultiThreaded,  \* is_mt, in a build with OpenMP
    NRows,          \* _params.size()
    NHooks,         \* sizeof...(Hooks)
    HookKind,       \* the kind of each hook
    Values, Errors, \* what a kernel may return: a value, or an error of its own
    Unset           \* a result that is not engaged

Rows  == 0 .. NRows - 1
Hooks == 1 .. NHooks
NoRow == NRows                    \* the idx of a thread that works on no row

Kinds    == {"custom", "setup", "setup_throwing", "compare"}
Codes    == {"setup_exception_thrown", "kernel_exception_thrown",
             "teardown_exception_thrown"}
Verdicts == {"filesystem_comparison_failed",
             "filesystem_comparison_internal_failure"}
Outcomes == Values \cup Errors \cup Codes \cup Verdicts

ASSUME ThreadsAssumption ==
    /\ IsFiniteSet(Threads)
    /\ Master \in Threads
    /\ MultiThreaded \in BOOLEAN
ASSUME SizesAssumption ==
    /\ NRows \in Nat
    /\ NHooks \in Nat \ {0}   \* hooks_container<> of no types is not defined
    /\ HookKind \in [Hooks -> Kinds]
ASSUME OutcomesAssumption ==
    /\ Unset \notin Outcomes
    /\ (Values \cup Errors) \cap (Codes \cup Verdicts) = {}
    /\ Values \cap Errors = {}

VARIABLES
    pc,       \* what each thread does
    idx,      \* the row it works on
    stage,    \* its variable `stage'
    n,        \* its position in the list of hooks
    temp,     \* the hook temporaries that are active
    held,     \* the elements of its hooks_container that are active
    exc,      \* is an exception in flight
    workdir,  \* is current_test_kernel.working_directory set (thread local)
    results,  \* the results returned by operator()
    claimed,  \* the rows some thread has taken
    begun,    \* history: how many hooks of the row were constructed
    finished, \* history: how often each hook of the row ran its second half
    called,   \* history: how often the kernel was called for the row
    threw,    \* history: the phase in which the row first threw
    death,    \* why the process ended, if it did
    returned  \* operator() returned

control == <<pc, idx, stage, n, temp, held, exc, workdir>>
history == <<begun, finished, called, threw>>
vars    == <<control, results, claimed, history, death, returned>>

Destroying == {"drop", "unwind", "teardown"}

IsSetup(h)   == HookKind[h] \in {"setup", "setup_throwing"}
IsCompare(h) == HookKind[h] = "compare"

Init ==
    /\ pc       = [t \in Threads |-> "idle"]
    /\ idx      = [t \in Threads |-> NoRow]
    /\ stage    = [t \in Threads |-> 0]
    /\ n        = [t \in Threads |-> 0]
    /\ temp     = [t \in Threads |-> {}]
    /\ held     = [t \in Threads |-> {}]
    /\ exc      = [t \in Threads |-> FALSE]
    /\ workdir  = [t \in Threads |-> FALSE]
    /\ results  = [r \in Rows |-> Unset]
    /\ claimed  = {}
    /\ begun    = [r \in Rows |-> 0]
    /\ finished = [r \in Rows |-> [h \in Hooks |-> 0]]
    /\ called   = [r \in Rows |-> 0]
    /\ threw    = [r \in Rows |-> "no"]
    /\ death    = "none"
    /\ returned = FALSE

-----------------------------------------------------------------------------
\* The loop over the rows.

\* With OpenMP any thread of the team may get any row (the schedule is left
\* to the implementation); without it the caller takes them in order.
MayTake(t, r) ==
    /\ r \notin claimed
    /\ MultiThreaded \/ (t = Master /\ \A q \in Rows : q < r => q \in claimed)

Claim(t) ==
    /\ pc[t] = "idle"
    /\ \E r \in Rows :
         /\ MayTake(t, r)
         /\ idx' = [idx EXCEPT ![t] = r]
         /\ claimed' = claimed \cup {r}
    /\ pc'    = [pc EXCEPT ![t] = "setup"]
    /\ stage' = [stage EXCEPT ![t] = 0]
    /\ n'     = [n EXCEPT ![t] = 0]
    /\ UNCHANGED <<temp, held, exc, workdir, results, history, death, returned>>

\* Leaves a row: the thread is ready for its next one.
LeaveRow(t) ==
    /\ pc'  = [pc EXCEPT ![t] = "idle"]
    /\ idx' = [idx EXCEPT ![t] = NoRow]

-----------------------------------------------------------------------------
\* instantiate_hooks: the temporaries are constructed from left to right.

BeginHook(t) ==
    /\ pc[t] = "setup" /\ n[t] < NHooks
    /\ n'       = [n EXCEPT ![t] = @ + 1]
    /\ temp'    = [temp EXCEPT ![t] = @ \cup {n[t] + 1}]
    /\ begun'   = [begun EXCEPT ![idx[t]] = @ + 1]
    /\ workdir' = [workdir EXCEPT ![t] = @ \/ IsSetup(n[t] + 1)]
    /\ UNCHANGED <<pc, idx, stage, held, exc, results, claimed, finished,
                   called, threw, death, returned>>

\* Mutant: an exception in a constructor leaves the earlier hooks standing
BeginThrowsLeaking(t) ==
    /\ pc[t] = "setup" /\ n[t] < NHooks
    /\ ~IsCompare(n[t] + 1)
    /\ pc'    = [pc EXCEPT ![t] = "unwind"]
    /\ exc'   = [exc EXCEPT ![t] = TRUE]
    /\ threw' = [threw EXCEPT ![idx[t]] = "setup"]
    /\ n'     = [n EXCEPT ![t] = 0]
    /\ UNCHANGED <<idx, stage, temp, held, workdir, results, claimed, begun,
                   finished, called, death, returned>>

\* The constructor of a custom hook's state or of a workspace throws; the
\* temporaries constructed before it are destroyed.  (The constructor of a
\* comparison only computes a path, and terminates where that fails.)
BeginThrows(t) ==
    /\ pc[t] = "setup" /\ n[t] < NHooks
    /\ ~IsCompare(n[t] + 1)
    /\ pc'    = [pc EXCEPT ![t] = "unwind"]
    /\ exc'   = [exc EXCEPT ![t] = TRUE]
    /\ threw' = [threw EXCEPT ![idx[t]] = "setup"]
    /\ UNCHANGED <<idx, stage, n, temp, held, workdir, results, claimed, begun,
                   finished, called, death, returned>>

\* Where the product's directory or the workspace's template is not found the
\* process is ended; setup_throwing calls library_directory<false>() as well.
BeginDies(t) ==
    /\ pc[t] = "setup" /\ n[t] < NHooks
    /\ HookKind[n[t] + 1] # "custom"
    /\ death' = "setup_failed"
    /\ UNCHANGED <<control, results, claimed, history, returned>>

\* Mutant: the move constructor does not reset o.active
MoveHooksKeepingActive(t) ==
    /\ pc[t] = "setup" /\ n[t] = NHooks
    /\ held' = [held EXCEPT ![t] = temp[t]]
    /\ pc'   = [pc EXCEPT ![t] = "drop"]
    /\ UNCHANGED <<idx, stage, n, temp, exc, workdir, results, claimed, history,
                   death, returned>>

\* The elements of the container are moved from the temporaries: the move
\* constructors take over what is active.
MoveHooks(t) ==
    /\ pc[t] = "setup" /\ n[t] = NHooks
    /\ held' = [held EXCEPT ![t] = temp[t]]
    /\ temp' = [temp EXCEPT ![t] = {}]
    /\ pc'   = [pc EXCEPT ![t] = "drop"]
    /\ UNCHANGED <<idx, stage, n, exc, workdir, results, claimed, history,
                   death, returned>>

\* The temporaries are gone: stage = 1.
EnterKernel(t) ==
    /\ pc[t] = "drop" /\ n[t] = 0
    /\ stage' = [stage EXCEPT ![t] = 1]
    /\ pc'    = [pc EXCEPT ![t] = "kernel"]
    /\ UNCHANGED <<idx, n, temp, held, exc, workdir, results, claimed, history,
                   death, returned>>

-----------------------------------------------------------------------------
\* The kernel.

KernelReturns(t) ==
    /\ pc[t] = "kernel"
    /\ \E v \in Values \cup Errors : results' = [results EXCEPT ![idx[t]] = v]
    /\ called' = [called EXCEPT ![idx[t]] = @ + 1]
    /\ stage'  = [stage EXCEPT ![t] = 2]
    /\ pc'     = [pc EXCEPT ![t] = "teardown"]
    /\ n'      = [n EXCEPT ![t] = NHooks]
    /\ UNCHANGED <<idx, temp, held, exc, workdir, claimed, begun, finished,
                   threw, death, returned>>

KernelThrows(t) ==
    /\ pc[t] = "kernel"
    /\ called' = [called EXCEPT ![idx[t]] = @ + 1]
    /\ exc'    = [exc EXCEPT ![t] = TRUE]
    /\ threw'  = [threw EXCEPT ![idx[t]] = "kernel"]
    /\ pc'     = [pc EXCEPT ![t] = "teardown"]
    /\ n'      = [n EXCEPT ![t] = NHooks]
    /\ UNCHANGED <<idx, stage, temp, held, workdir, results, claimed, begun,
                   finished, death, returned>>

-----------------------------------------------------------------------------
\* Destruction of the temporaries and of the container.  The members of a
\* hooks_container are _v, then _vs: the last hook goes first.

\* Mutant: the members of the container are declared the other way round
VictimForward(t) == NHooks + 1 - n[t]

Victim(t) == n[t]

IsActive(t) ==
    Victim(t) \in (IF pc[t] = "teardown" THEN held[t] ELSE temp[t])

AtVictim(t) == pc[t] \in Destroying /\ n[t] > 0

\* What a destructor leaves behind, whatever becomes of its second half.
Deactivate(t) ==
    /\ n'    = [n EXCEPT ![t] = @ - 1]
    /\ temp' = IF pc[t] = "teardown" THEN temp
               ELSE [temp EXCEPT ![t] = @ \ {Victim(t)}]
    /\ held' = IF pc[t] = "teardown" THEN [held EXCEPT ![t] = @ \ {Victim(t)}]
               ELSE held

\* An object that was moved from does nothing.
DestroyInactive(t) ==
    /\ AtVictim(t) /\ ~IsActive(t)
    /\ Deactivate(t)
    /\ UNCHANGED <<pc, idx, stage, exc, workdir, results, claimed, history,
                   death, returned>>

\* The second half of an active hook.  A workspace clears the thread's
\* working_directory; a comparison replaces any engaged result of the row
\* when the workspace differs from its model or cannot be compared.
FinishHook(t) ==
    /\ AtVictim(t) /\ IsActive(t)
    /\ IsCompare(Victim(t)) => workdir[t]
    /\ Deactivate(t)
    /\ finished' = [finished EXCEPT ![idx[t]][Victim(t)] = @ + 1]
    /\ workdir'  = [workdir EXCEPT ![t] = @ /\ ~IsSetup(Victim(t))]
    /\ \/ UNCHANGED results
       \/ /\ IsCompare(Victim(t)) /\ results[idx[t]] # Unset
          /\ \E v \in Verdicts : results' = [results EXCEPT ![idx[t]] = v]
    /\ UNCHANGED <<pc, idx, stage, exc, claimed, begun, called, threw, death,
                   returned>>

\* A workspace of filesystem_setup<true> that cannot be removed throws from
\* its destructor, which is noexcept(false).
FinishThrows(t) ==
    /\ AtVictim(t) /\ IsActive(t)
    /\ HookKind[Victim(t)] = "setup_throwing" /\ ~exc[t]
    /\ Deactivate(t)
    /\ finished' = [finished EXCEPT ![idx[t]][Victim(t)] = @ + 1]
    /\ workdir'  = [workdir EXCEPT ![t] = FALSE]
    /\ exc'      = [exc EXCEPT ![t] = TRUE]
    /\ threw'    = [threw EXCEPT ![idx[t]] = "teardown"]
    /\ UNCHANGED <<pc, idx, stage, results, claimed, begun, called, death,
                   returned>>

\* Every other exception in a destructor is std::terminate(): the destructor
\* is noexcept, or an exception is in flight already.
FinishTerminates(t) ==
    /\ AtVictim(t) /\ IsActive(t)
    /\ ~IsCompare(Victim(t))
    /\ HookKind[Victim(t)] = "setup_throwing" => exc[t]
    /\ death' = "teardown_threw"
    /\ UNCHANGED <<control, results, claimed, history, returned>>

\* A comparison that finds no working_directory ends the process.
ComparisonDies(t) ==
    /\ AtVictim(t) /\ IsActive(t)
    /\ IsCompare(Victim(t)) /\ ~workdir[t]
    /\ death' = "no_workspace"
    /\ UNCHANGED <<control, results, claimed, history, returned>>

-----------------------------------------------------------------------------
\* The end of a row.

\* Mutant: the codes of set-up and kernel are swapped
CodeOfSwapped(s) == CASE s = 0 -> "kernel_exception_thrown"
                      [] s = 1 -> "setup_exception_thrown"
                      [] s = 2 -> "teardown_exception_thrown"

CodeOf(s) == CASE s = 0 -> "setup_exception_thrown"
               [] s = 1 -> "kernel_exception_thrown"
               [] s = 2 -> "teardown_exception_thrown"

CatchException(t) ==
    /\ pc[t] \in {"unwind", "teardown"} /\ n[t] = 0 /\ exc[t]
    /\ results' = [results EXCEPT ![idx[t]] = CodeOf(stage[t])]
    /\ exc'     = [exc EXCEPT ![t] = FALSE]
    /\ LeaveRow(t)
    /\ UNCHANGED <<stage, n, temp, held, workdir, claimed, history, death,
                   returned>>

EndRow(t) ==
    /\ pc[t] = "teardown" /\ n[t] = 0 /\ ~exc[t]
    /\ LeaveRow(t)
    /\ UNCHANGED <<stage, n, temp, held, exc, workdir, results, claimed,
                   history, death, returned>>

\* Mutant: the loop does not wait for the team (`nowait')
ReturnEarly ==
    /\ death = "none" /\ ~returned
    /\ claimed = Rows
    /\ returned' = TRUE
    /\ UNCHANGED <<control, results, claimed, history, death>>

\* The loop is over when every row was run; `omp parallel for' ends with a
\* barrier.
Return ==
    /\ death = "none" /\ ~returned
    /\ claimed = Rows
    /\ \A t \in Threads : pc[t] = "idle"
    /\ returned' = TRUE
    /\ UNCHANGED <<control, results, claimed, history, death>>

Step(t) ==
    /\ death = "none" /\ ~returned
    /\ \/ Claim(t)
       \/ BeginHook(t) \/ BeginThrows(t) \/ BeginDies(t)
       \/ MoveHooks(t) \/ EnterKernel(t)
       \/ KernelReturns(t) \/ KernelThrows(t)
       \/ DestroyInactive(t)
       \/ FinishHook(t) \/ FinishThrows(t) \/ FinishTerminates(t)
       \/ ComparisonDies(t)
       \/ CatchException(t) \/ EndRow(t)

Over == death # "none" \/ returned

\* The call is over: only the environment goes on.
Stopped == Over /\ UNCHANGED vars

Next == (\E t \in Threads : Step(t)) \/ Return \/ Stopped

\* Hooks and kernel are assumed to end, and every thread of the team runs.
Fairness == (\A t \in Threads : WF_vars(Step(t))) /\ WF_vars(Return)

Spec == Init /\ [][Next]_vars /\ Fairness

-----------------------------------------------------------------------------
\* Properties.

Phases == {"idle", "setup", "drop", "kernel", "teardown", "unwind"}

\* The type invariant of the state of operator() and its hooks.
TypeOK ==
    /\ pc       \in [Threads -> Phases]
    /\ idx      \in [Threads -> Rows \cup {NoRow}]
    /\ stage    \in [Threads -> 0 .. 2]
    /\ n        \in [Threads -> 0 .. NHooks]
    /\ temp     \in [Threads -> SUBSET Hooks]
    /\ held     \in [Threads -> SUBSET Hooks]
    /\ exc      \in [Threads -> BOOLEAN]
    /\ workdir  \in [Threads -> BOOLEAN]
    /\ results  \in [Rows -> Outcomes \cup {Unset}]
    /\ claimed  \in SUBSET Rows
    /\ begun    \in [Rows -> 0 .. NHooks]
    /\ finished \in [Rows -> [Hooks -> Nat]]
    /\ called   \in [Rows -> Nat]
    /\ threw    \in [Rows -> {"no", "setup", "kernel", "teardown"}]
    /\ death    \in {"none", "setup_failed", "teardown_threw", "no_workspace"}
    /\ returned \in BOOLEAN

Running(r) == \E t \in Threads : pc[t] # "idle" /\ idx[t] = r
Settled(r) == r \in claimed /\ ~Running(r)

\* Once a row is settled, each hook that was constructed for it ran its second
\* half exactly once, and no other hook did: neither the move of the
\* temporaries into the container nor an exception half way through the list
\* loses a teardown or runs it twice (custom.hpp `active').
TeardownBalanced ==
    \A r \in Rows : Settled(r) =>
        \A h \in Hooks : finished[r][h] = IF h <= begun[r] THEN 1 ELSE 0

\* A hook's second half runs only after those of all the hooks constructed
\* later for the row: a comparison still sees the workspace that an earlier
\* hook made (the promise of hooks_container's comment).
FinishesLast(r, h) == \A k \in h + 1 .. begun[r] : finished[r][k] = 1

TeardownInReverse ==
    [][\A r \in Rows, h \in Hooks :
          finished'[r][h] # finished[r][h] => FinishesLast(r, h)]_vars

\* The kernel runs between the halves of the hooks: all of them were
\* constructed and none has finished, though the temporaries are gone.
HooksStand(r) == begun[r] = NHooks /\ \A h \in Hooks : finished[r][h] = 0

KernelInsideHooks ==
    [][\A r \in Rows :
          called'[r] # called[r] => called[r] = 0 /\ HooksStand(r)]_vars

PhaseCode(p) == CASE p = "setup"    -> "setup_exception_thrown"
                  [] p = "kernel"   -> "kernel_exception_thrown"
                  [] p = "teardown" -> "teardown_exception_thrown"

\* What a row may end with when nothing threw: what the kernel returned or, if
\* some hook compares, a verdict, which may have replaced an error of the kernel.
Unthrown ==
    Values \cup Errors \cup {v \in Verdicts : \E h \in Hooks : IsCompare(h)}

\* The result of a settled row tells where it failed: the code of the phase
\* that threw, and otherwise what the kernel returned or the comparison's
\* verdict on it.
ResultTellsPhase ==
    \A r \in Rows : Settled(r) =>
        IF threw[r] = "no" THEN results[r] \in Unthrown
        ELSE results[r] = PhaseCode(threw[r])

\* "If the outcome is not errored" a comparison is made: an error the kernel
\* returned is not replaced by a verdict, and the test is told of the cause.
\* The code asks whether there is an outcome, not whether it is a value, so
\* that this does not hold.
ErrorKept ==
    [][\A r \in Rows : results[r] \in Errors => results'[r] \notin Verdicts]_vars

\* operator() returns only when each row has an engaged result: check()
\* dereferences them without looking (permute_parameters.hpp:156).
EngagedAtReturn == returned => \A r \in Rows : results[r] # Unset

\* A result is final: when its row is settled no thread writes it again.
SettledFinal ==
    [][\A r \in Rows : Settled(r) => results'[r] = results[r]]_vars

\* Each comparison is preceded by a workspace, and none is set up after it.
WorkspaceOrdered ==
    \A c \in Hooks : IsCompare(c) =>
        /\ \E s \in 1 .. c - 1 : IsSetup(s)
        /\ \A s \in c + 1 .. NHooks : ~IsSetup(s)

\* In such a list of hooks a comparison always finds its workspace, whichever
\* hook or kernel throws: the FATAL exit of structure_impl is not reached.
ComparisonHasWorkspace == WorkspaceOrdered => death # "no_workspace"

-----------------------------------------------------------------------------
\* The inductive invariant behind the safety properties.

Ran(r, S) == finished[r] = [h \in Hooks |-> IF h \in S THEN 1 ELSE 0]

\* Nothing but constructors of hooks ran for the row.
Fresh(r) ==
    /\ Ran(r, {})
    /\ results[r] = Unset /\ called[r] = 0 /\ threw[r] = "no"

\* What a thread's phase says of its variables and of its row.
IdleInv(t) ==
    /\ idx[t] = NoRow /\ temp[t] = {} /\ held[t] = {} /\ ~exc[t]
SetupInv(t) ==
    /\ stage[t] = 0 /\ ~exc[t]
    /\ temp[t] = 1 .. n[t] /\ held[t] = {}
    /\ begun[idx[t]] = n[t] /\ Fresh(idx[t])
BuiltInv(t) ==
    /\ stage[t] = (IF pc[t] = "kernel" THEN 1 ELSE 0) /\ ~exc[t]
    /\ temp[t] = {} /\ held[t] = Hooks
    /\ begun[idx[t]] = NHooks /\ Fresh(idx[t])
UnwindInv(t) ==
    /\ stage[t] = 0 /\ exc[t]
    /\ temp[t] = 1 .. n[t] /\ held[t] = {}
    /\ n[t] <= begun[idx[t]]
    /\ Ran(idx[t], n[t] + 1 .. begun[idx[t]])
    /\ results[idx[t]] = Unset /\ threw[idx[t]] = "setup"
TeardownInv(t) ==
    /\ temp[t] = {} /\ held[t] = 1 .. n[t]
    /\ begun[idx[t]] = NHooks
    /\ Ran(idx[t], n[t] + 1 .. NHooks)
    /\ \/ /\ stage[t] = 1 /\ exc[t]
          /\ results[idx[t]] = Unset /\ threw[idx[t]] = "kernel"
       \/ /\ stage[t] = 2
          /\ results[idx[t]] \in Unthrown
          /\ threw[idx[t]] = IF exc[t] THEN "teardown" ELSE "no"

ThreadInv(t) ==
    /\ pc[t] = "idle" => IdleInv(t)
    /\ pc[t] # "idle" => idx[t] \in claimed
    /\ pc[t] = "setup" => SetupInv(t)
    /\ pc[t] \in {"drop", "kernel"} => BuiltInv(t)
    /\ pc[t] = "unwind" => UnwindInv(t)
    /\ pc[t] = "teardown" => TeardownInv(t)

\* No two threads work on one row.
Exclusive ==
    \A t, u \in Threads : t # u /\ pc[t] # "idle" /\ pc[u] # "idle"
                              => idx[t] # idx[u]

UnclaimedInv == \A r \in Rows : r \notin claimed => begun[r] = 0 /\ Fresh(r)

Complete(r) ==
    /\ Ran(r, 1 .. begun[r])
    /\ IF threw[r] = "no" THEN results[r] \in Unthrown
       ELSE results[r] = PhaseCode(threw[r])

SettledInv == \A r \in claimed : ~Running(r) => Complete(r)

ReturnInv == returned => claimed = Rows /\ \A t \in Threads : pc[t] = "idle"

IInv ==
    /\ TypeOK
    /\ \A t \in Threads : ThreadInv(t)
    /\ Exclusive
    /\ UnclaimedInv
    /\ SettledInv
    /\ ReturnInv

\* Without OpenMP only the caller works.
SingleInv ==
    \A t \in Threads : pc[t] # "idle" => MultiThreaded \/ t = Master

\* A thread has a working directory from the first workspace constructed for
\* its row until the first one destroyed.
WorkdirInv ==
    /\ WorkspaceOrdered => death # "no_workspace"
    /\ \A t \in Threads :
         /\ pc[t] = "setup" =>
              ((\E s \in 1 .. n[t] : IsSetup(s)) => workdir[t])
         /\ pc[t] \in {"drop", "kernel"} =>
              ((\E s \in Hooks : IsSetup(s)) => workdir[t])
         /\ pc[t] \in {"unwind", "teardown"} =>
              ((/\ \E s \in 1 .. n[t] : IsSetup(s)
                /\ \A s \in n[t] + 1 .. NHooks : ~IsSetup(s)) => workdir[t])

-----------------------------------------------------------------------------
\* Why the call ends, as long as its hooks and kernels do.

\* The steps thread t may still take in its row, and the most there can be.
Left(t) ==
    CASE pc[t] = "idle"   -> 0
      [] pc[t] = "setup"  -> 3 * NHooks + 4 - n[t]
      [] pc[t] = "drop"   -> NHooks + 3 + n[t]
      [] pc[t] = "kernel" -> NHooks + 2
      [] OTHER            -> n[t] + 1
MostLeft == 3 * NHooks + 5

\* What is left to do: each step of each row that some thread may still take.
Work ==
    {w \in Rows \X (1 .. MostLeft) :
        \/ w[1] \notin claimed
        \/ \E t \in Threads : pc[t] # "idle" /\ idx[t] = w[1] /\ w[2] <= Left(t)}

\* No row is run again, and none goes round in circles, whatever throws: each
\* step leaves less to do, until the call is over.
CountsDown ==
    [][~Over' => Cardinality(Work)' < Cardinality(Work)]_vars

\* What the guards of the steps of t come to.
CanGo(t) ==
    \/ pc[t] = "idle" /\ \E r \in Rows : MayTake(t, r)
    \/ pc[t] \in {"setup", "drop", "kernel", "teardown"}
    \/ pc[t] = "unwind" /\ (n[t] > 0 \/ exc[t])

\* As long as the call is not over some thread can go on with a row, or take
\* one, or operator() can return.
NobodyStuck ==
    \/ Over
    \/ claimed = Rows /\ \A t \in Threads : pc[t] = "idle"
    \/ \E t \in Threads : CanGo(t)

\* Without OpenMP the rows are taken in their order.
InOrder == MultiThreaded \/ \E k \in 0 .. NRows : claimed = 0 .. k - 1

-----------------------------------------------------------------------------
\* What a caller is promised.

RowStatus(r) == IF r \notin claimed THEN "todo"
                ELSE IF Running(r) THEN "running" ELSE "settled"

TeamSize == IF MultiThreaded THEN Cardinality(Threads) ELSE 1

Contract == INSTANCE PermuteContract WITH
    status <- [r \in Rows |-> RowStatus(r)],
    out    <- [r \in Rows |-> IF Settled(r) THEN results[r] ELSE Unset],
    phase  <- IF death # "none" THEN "dead"
              ELSE IF returned THEN "returned" ELSE "running",
    Width  <- TeamSize

\* Every step of operator() is one the contract allows, or invisible to it.
KeepsContract == Contract!Spec

=============================================================================
