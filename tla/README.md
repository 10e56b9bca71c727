# A verification of kerneltest

TLA+ models of [kerneltest](../src/Readme.md), checked by TLC on small instances
and proved about with TLAPS for any. The reference is the C++ under
`src/include/kerneltest/v1.0/` (paths below are relative to it); every definition
names the lines it stands for in `PROJECT.json` (`map`).

## 1. The system

A *test kernel* is called once for each row of a parameter table. *Hooks*
surround each call: they are constructed before it and destroyed after it. The
results are then checked against the table.

| component | state | operations | interacts with |
|---|---|---|---|
| `parameter_permuter` (`permute_parameters.hpp`) | `results`, per row the local `stage`, the hook temporaries and the `hooks_container` | `operator()`: a loop over the rows, `omp parallel for` if `is_mt` | constructs and destroys hooks, calls the kernel, turns exceptions into codes |
| `hooks::custom` (`hooks/custom.hpp`) | `active`, the state the first lambda returned | constructor, move, destructor | user's lambdas, which may throw |
| `hooks::filesystem_setup` (`hooks/filesystem_workspace.hpp`) | `_current`; the directory `kerneltest_workspace_<tid>`; the working directory of the *process*; `current_test_kernel.working_directory` of the *thread* | constructor (clear, copy, chdir), destructor (chdir back, remove), `starting_path()` | file system, `library_directory()` |
| `hooks::filesystem_comparison_structure` (same file) | reference to the row's result | destructor: `compare_directories` | the workspace of an earlier hook, the permuter's result |
| `library_directory`, `override_library_directory` (same file) | path and mutex of the process, `product` of each instantiation | look up, override | every workspace, on every thread |
| `child_process` (`child_process.hpp`, three `.ipp`) | `_processh`, `_readh`, `_writeh`, `_errh`, `FILE *`s, streams | `launch`, `is_running`, `wait_until`, `file_*`, `cin/cout/cerr`, destructor | descriptor or handle table and children of the process, shared with other threads |
| `fdinbuf`, `fdoutbuf` (`detail/impl/child_process.ipp`) | a buffer with a putback area, `eback`, `gptr`, `egptr` | `underflow`, `overflow`, `xsputn` | the child at the other end of a pipe |
| `KERNELTEST_TEST_KERNEL`, `current_test_kernel` (`test_kernel.hpp`, `config.hpp`) | a thread-local struct | set before a test, cleared after it | hooks read `product` and `working_directory` |
| `check`, `check_result`, `compare`, `check_results_with_boost_test` (`permute_parameters.hpp`) | `idx`, `ret`, the deferred `checks` | compare results with the table, tell Boost.Test | read what `operator()` returned |

What is hard: an exception in any of a row's four phases (constructors, kernel,
destructors, and a destructor during an exception); threads that share the
results, the working directory, the cached path, the descriptor table and the
children; a process that dies and leaves its workspace to the next; retries,
deadlines, signals and a destructor that waits; reads and writes that are short
or fail; errors that mean the same in two categories. `PROJECT.json` lists each
of these hazards at its line with the property that watches it.

What makes each component correct:

- permuter: each hook begun is torn down once and in reverse, the kernel runs
  once and between its hooks, and each row has one final result that names the
  phase that failed;
- tests: a test fails exactly if a row did not end as its table asks for, and
  every such row is told;
- workspace: a row starts from its template and nothing else, the working
  directory exists and is restored, nothing is left behind;
- comparison: the outcome is kept exactly when workspace and model hold the same
  files in the same directories;
- library directory: the answer is for the product asked for, calls return;
- child process: no descriptor or handle leaks or is closed by another than its
  owner, each end of a pipe is held by whom it is for, a wait is for one's own
  child, a destroyed object leaves no child, waits and destructors end;
- streams: what is read is read in order and once, putback returns what was
  read, and a good stream has written what was inserted.

## 2. Modules

| module | models |
|---|---|
| `PermuteContract` | what a caller of `operator()` is promised: rows `todo`, `running`, `settled`, at most `Width` running; no hooks, no exceptions |
| `ChildContract` | what a user of `child_process` is promised: an object is launched or has failed, has one child, and a wait without a deadline, or the destructor's, is over only when that child has exited; no handles, pids or clocks |
| `Permuter` | `operator()`, `hooks_container`, `custom`, the life cycle of the two file system hooks; states its refinement of `PermuteContract` |
| `TestCase` | extends `Permuter`: `check()` over the results `operator()` left, `check_result`, `compare`, the two callbacks, `check_results_with_boost_test` |
| `Workspace` | `filesystem_setup`, with the threads and processes that share the file system |
| `Comparison` | `copy_level` and `compare_directories` over trees with links, `~structure_impl` |
| `LibraryDirectory` | `library_directory`, `override_library_directory` |
| `ChildProcess` | `child_process` on POSIX, with descriptors, children and signals; states its refinement of `ChildContract` |
| `ChildWindows` | `child_process` on Windows, with handles, inheritance and the clock; states its refinement of `ChildContract` |
| `FdStreams` | `fdinbuf` and `fdoutbuf`, with the streams around them and the child at the other end |
| `PermuterProofs`, `TestCaseProofs`, `WorkspaceProofs`, `ComparisonProofs`, `LibraryProofs`, `ChildProcessProofs`, `ChildWindowsProofs`, `FdStreamsProofs` | the theorems about these modules |
| `MCPermuter`, `MCTestCase`, `MCComparison`, `MCLibraryDirectory`, `MCChildProcess`, `MCChildWindows` | values of structured constants for TLC (`Workspace` and `FdStreams` need none) |

A definition with the comment *Mutant* is a plausible mistake in the definition
that follows it and is used by no specification; `PROJECT.json` (`mutants`)
says which property notices it. Each property of a passing run has one.

### State and actions against the code

**Permuter.** `pc[t]` is where thread `t` is in `call_f`: `setup` (constructors of
the temporaries), `drop` (the temporaries, moved from, are destroyed), `kernel`,
`teardown` (the container is destroyed), `unwind` (a constructor threw and the
temporaries before it are destroyed). `temp` and `held` are the objects whose
`active` flag is set, or whose path is not empty, among the temporaries and in the
container; `exc` says that an exception is in flight, `stage` is the variable of
that name. One action is one constructor, one destructor or one call of the
kernel. The four kinds of hooks differ in what they may throw: `custom`, `setup`
(`filesystem_setup<false>`), `setup_throwing`, `compare`. What a hook does to
files is not in this module: a comparison may give either verdict or none. It is
run whenever the kernel returned, and then replaces what the kernel returned, an
error included (`filesystem_workspace.hpp:697`), which is the finding of
`kernel_error`. With `MultiThreaded` any idle thread may take any row, which
covers every OpenMP schedule. `begun`, `finished`, `called`, `threw` are history.

**TestCase.** `Call` is a step of `Permuter`; when that has returned, `cursor` is
`idx` of `check()`, `allPassed` its `ret`, and `checks` the vector of closures
of `check_results_with_boost_test`, each of which compares its row again, with
`compare` and not with `check_result`, when it is called. An outcome is a value
of the kernel's or an error code, a code is a category and a number, and the
codes of kerneltest have a category of their own, which leaves
`default_error_condition()` as it is. `void` says that the table is of
`outcome<void>`, where only errors are compared. `MapsSystem` is what an STL's
`system_category` does, which the code has a clause for. `failed` are the
`BOOST_CHECK`s that failed.

**Workspace.** `dir[t]` is the content of `kerneltest_workspace_<t>`, `cwd` the
working directory, `starting` the static in `starting_path()`, `told` the
thread-local `working_directory`. One action is one call to the file system as
far as another thread can see it in between: clear, create, copy a file, change
directory, remove. Each has an action for its failure. Of these `LeaveFails` is
the one after which the process stays in its workspace: `current_path()` throws
out of the destructor, the removal is skipped, and `stranded` remembers it until
another row sets the directory. `Fatal` is the choice between throwing and
`std::terminate()`; `Die` ends the process, whose successor finds the
directories as they are. `known` are the threads whose `product` is set.
`current_path()` sets the directory of the process, so with a team a kernel may
run in the workspace of another thread, which the model lets happen.

**Comparison.** Trees are functions from paths to nodes. `Walked` is what
`depth_first_walk` calls its function with, which is what is no directory:
directories are neither listed nor compared, nor are links to directories.
`SameFiles` says what is compared, `DirectoriesIgnored` what is not. `after` is
`after_items`, `Check` one call of the lambda on POSIX (`same`, `differs`, or an
exception: `error`), `First` the orders in which a walk may visit what it visits.
`after_items[]` of a path that is absent inserts an entry, which does not matter
since the walk then ends.

**LibraryDirectory.** `path` and `lock` are the statics of
`override_library_directory`, `product[b]` that of `library_directory<b>`.
Taking the mutex, and all that is done under it, are two actions.

**ChildProcess.** `fd` is the descriptor table of the process: which end of
whose pipe a number refers to. `own` and `his` are the handles of an object and
of `launch()`. `proc` are the children with tables of their own. A system call
is an action. The kernel's side (lowest descriptor first, inheritance,
`FD_CLOEXEC`, `waitid` reporting an exit once and a stop once, `EINVAL` for
options without a kind of change, `EINTR` for a signal, pids given out again
after a reap) is modelled from how the code uses it, and marked external in
`map`. `cut` remembers whose destructor was ended by a stop or a signal.
What a child writes is left out but for what becomes of it: one that is a
`Reader` exits only at the end of its input, one that is a `Writer`, having
written more to stdout than a pipe holds, only when nobody holds the reading end
any more (`EndOfReaders`: the write then fails), since no one reads; that is the
deadlock the todo of `child_process.hpp:80-82` speaks of. One that is `Endless`
need not exit at all. The `fcntl()`s of one launch, which a failure of
any answers alike, are one step, and so are the `close()`s of one guard.
`is_running()` asks for no kind of change and so answers false for every child,
as the code does. Without `FILE *`s the handles stay what they were opened as, and
`NoFileUsed` says that nobody asked for one.

**ChildWindows.** `table` says what each handle of the process refers to,
`inherit` which are inheritable; a child inherits all of these
(`bInheritHandles`). `Null` and `Invalid` are `nullptr` and
`INVALID_HANDLE_VALUE`, which the code does not tell apart from a handle. The pipe
of stderr is made by two calls that fail separately: `NamedPipe`, or
`NamedPipeFails`, which leaves `Invalid` in `_errh` and goes on, then `OpenPipe`,
or `OpenFails`. Where the first failed because the name is in use, the second may
open the other's pipe: an end that is `"theirs"`. An invalid end of the child's is
noticed by `SetHandleInformation()`, an invalid one of ours by nothing. The three
calls of `SetHandleInformation()` are one step. `UseFiles` and `UseStreams` hand
the handles over to the descriptors of the `FILE *`s and streams, and `ToClose` is
the order in which the destructor closes what these, and then itself, own.
(An invalid handle is not handed over: the C runtime ends a process that calls
`_fdopen(-1)`.) A wait looks at what its handle refers to by then
(`Returns`): a process that has exited, one that runs, or, once another has closed
the handle, no process at all, which is an error and ends the wait too; the
destructor does not look at the answer. `ReadClock` and `ReadClockAgain` are the
two calls of `steady_clock::now()`; between them time may pass, and the difference
is cast to a `DWORD` (`% Width`), whose largest value is `INFINITE`.

**ChildContract.** Both models of `child_process` map to it by `ObjectNow` (where
an object is, seen by its user: `check` and `sleep` on POSIX, the two readings of
the clock and the wait on Windows are one `waiting` or `waiting_until`) and, on
POSIX, `ChildNow`, which is about the object's *own* child and not about whoever
has its pid. `disturbed` are the objects whose waits something else may end: on
POSIX `Stoppable` and `Signalled`, by a stop or a signal; on Windows none, until
an object has both `FILE *`s and streams, and all from then on, since a handle
that is closed twice may be anyone's the second time.

**FdStreams.** A character is its place in the stream, so that order, loss and
repetition can be told; a cell of `buffer` holds one. `Underflow` is what
`underflow()` does before `read()`, `ReadSome` and `ReadEnds` what it does after
an answer: the program waits in between (`pc`), the child writes meanwhile.
`get()`, `peek()`, `unget()` and `clear()` of the istream, and `put()` and
`write()` of the ostream, are how the buffers are called. `sent`, `pos`, `moved`
and `ocleared` are history.

## 3. Runs

| run | bounds | asks |
|---|---|---|
| `tests` | 2 threads, 2 rows, hooks `custom`, `setup_throwing`, `compare`; 2 values; 2 errors of a kernel, 3 a table may ask for, of 2 categories and 2 numbers; all tables, of values and of void | all safety properties of a call, `PermuteContract`; then when a test fails, and what it tells |
| `child` | 2 objects, 2 pids, 10 descriptors, 1 call of each object, children that exit at any time | leaks, inheritance, wiring, validity, whose exit is taken, `ChildContract` |
| `child_ends` | 2 objects, 1 pid; one child reads its input to the end, writes more than a pipe holds and need not exit at all, the other may be stopped, and its thread may catch signals | what a destroyed object leaves, waits with a deadline and destructors end |
| `windows` | 2 objects, 12 handles, 1 wait of each, 1 ms late, a `DWORD` of 2 bits; both may have `FILE *`s and one streams | what is left, wiring and inheritance, who closes which handle, `ChildContract` |
| `streams` | putback area of 2, buffer of 3, 5 characters each way | order, putback, what was written |
| `workspace` | 2 threads, 3 rows, 2 files, 1 retry, 1 crash; each step may fail | freshness, working directory, what is left, each row ends |
| `comparison` | 3 paths, 2 sizes | when a test keeps its outcome, what is passed over |
| `library` | 2 threads, 3 products, 2 calls each | whose directory is returned, calls return |

and four runs that refute a statement of the documentation or of a comment:

| run | statement | what the code does |
|---|---|---|
| `kernel_error` | "on destruction if the outcome is not errored compares the test's workspace with a model workspace template" (`hooks/filesystem_workspace.hpp:739-740`), "Only do comparison if test passed" (696) | an outcome that holds an error is compared too, and the error replaced (697) |
| `child_files` | "These are now closed" (`detail/impl/child_process.ipp:67`) | handles are set to 0, which the destructor closes (73) |
| `streams_putback` | "copy up to pbSize characters previously read into the putback area" (`detail/impl/child_process.ipp:190`) | they are copied before `read()` answers; if it fails the pointers stay, and part of what they point to was overwritten (193, 198-202) |
| `windows_deadline` | "Waits for a child process to exit until deadline" (`child_process.hpp:219`) | a deadline that passes between two readings of the clock becomes a wait without end (`windows/child_process.ipp:201`) |

Two disagreements more are seen where a run passes. `DirectoriesIgnored` holds,
though the documentation lists timestamps, ACLs and the contents of files as what
a comparison of structures ignores, and no directories
(`hooks/filesystem_workspace.hpp:734-737`, 465). And `ChildWired` on Windows has
to allow for a stderr that is another's pipe, since `CreateNamedPipeA()` answers
`INVALID_HANDLE_VALUE` and the code looks for null
(`windows/child_process.ipp:101-108`).

Why the bounds are enough to show something: two rows for two threads are run at
once or one after the other, by one thread or by two, and are the fewest rows of
which one hides another in a table. Three hooks have one before, one after and the
failing one. Two numbers and two categories give every pair of codes that means
the same or not. Ten descriptors let either of two launches with three and two
pipes run into the limit at its second or third pipe, and let it through when the
other is not in the way. With two pids both children live at once, and a pid is
given out again to a second child whose exit the first object's destructor then
takes; with one, each launch after the first is given the same. Twelve handles are
our stderr, those of one launch with three pipes, a process and a thread, and what
the other needs to be let through at times and not at others; a handle that is
closed is given to the other at once. Two bits tell 0, an honest timeout and
`INFINITE` apart. A putback area of two with a buffer of three has reads shorter
than, as long as, and longer than the area, and kept characters that overlap those
they replace; five characters are two full reads of a buffer's end. Two files are
the fewest at which copying fails after the first. Three paths are a directory,
what is in it, and what is beside it. Two calls of two threads and three products
let a found product be followed by one that is not.

`CHECK_DEADLOCK FALSE` is given where the system may stop: all rows are
run, all objects destroyed, everything was read and written, the process is
dead, or, in `ChildProcess`, the destructor waits for a child that waits for the
destructor (in `child_ends`). `Permuter` has `Stopped` and `TestCase` has `Done`
instead, which let only a call or a test that is over stutter.

The comparison that finds no workspace (`ComparisonDies`) does not happen in
`tests`, whose list of hooks is ordered as the documentation asks; the proofs
about `Permuter` are for every list.

### Fairness

- `Permuter`: each thread of the team goes on, and the call returns when it can.
  OpenMP runs each thread of a team to the barrier; hooks and kernels are taken
  to end. `TestCase` adds that the checks go on, which are a plain loop. No run
  asks for a property that rests on it: that a bounded loop ends needs no model.
- `Workspace`: a row that has begun goes on. No row need ever be begun.
- `LibraryDirectory`: a thread in a call goes on, and lets go of the storage.
  Weak fairness is enough for the mutex since calls are bounded.
- `ChildProcess`: a call that has begun goes on, time passes, a stopped child is
  continued, and a child that can exit does so in the end (strong, as it may be
  stopped again and again). Nobody need ever destroy an object, and no signal
  need ever come. What the code does not guarantee is not assumed: a child that
  is `Endless` need not exit, a `Reader` can exit only when its input has ended, a
  `Writer` only when nobody can read what it writes. `DestructorEnds` excepts
  these three, and `DestructorHangs` says that of the last two it is certain.
  `TimedWaitEnds` excepts none.
- `ChildWindows`: a call that has begun goes on, and a child that is not
  `Endless` exits. In `windows_deadline` the child is endless, and the wait that
  does not end is one the code should have ended.

`Comparison` and `FdStreams` have no liveness property and no fairness.

### Properties with a premise

- `ComparisonHasWorkspace` is for lists of hooks with a workspace before, and
  none after, each comparison.
- `VerdictRight` and `FailuresTold` leave out one pair of codes on an STL that
  does not map `system_category`: the kernel returns a generic code and the
  table asks for the system code of the same number. The code's own clause
  helps only the other way round (`permute_parameters.hpp:186`).
- `AloneInWorkspace` is for processes with one thread.
- `CwdRestored` and `CwdExists` leave out a process whose `current_path()` failed
  for the last thread to leave its workspace (`stranded`). It stays there, also
  when the next row clears that directory away, until a row sets another.
- `ChildWired` on Windows allows for another's pipe as the stderr of a child where
  our own end of it is invalid.
- `NoLeakWhenGone` asks less of a launch whose second or third `pipe()` fails:
  the code has no guard yet (`posix/child_process.ipp:87-102`), the child's
  ends opened so far stay open, ours do not. `NothingLeft` on Windows leaves out
  launches that fail there.
- `NoChildWhenGone` leaves out objects whose destructor was ended by a stop or a
  signal (`cut`), which the code takes for an exit or an error.
- `StdinEnds` and `OutputEnds` leave out launches another thread has spawned
  into: `FD_CLOEXEC` is set after `pipe()`, and never on the child's ends; on
  Windows these are inheritable until the launch is over.
- `ChildWired`, `HandlesValid` and `StdinEnds` on POSIX are for processes in which
  no `FILE *` was asked for: `child_files` shows that descriptor 0 may be anything
  after that, the end of a third object's pipe included, which a child is then
  given as its input.
- The properties of `ChildWindows` are for objects that have `FILE *`s or
  streams but not both (`OneOwner`), which each would own, and close, the same
  handles. `KeepsContract` holds without that premise, as the contract then lets
  any wait end.
- `PutbackRight` is for streams of which no `underflow()` has failed:
  `streams_putback` shows what comes after. `GoodMeansWritten` is for programs
  that do not clear a failure.
- `AnswerIsMine` is for one of the two instantiations, as the hooks only use
  `library_directory<false>`. With both, one keeps the name of a product
  whose path the other has replaced.

## 4. Proofs

Each proof module proves `IInv` inductive (`InitIInv`, one lemma for an action
or a group of them, `NextIInv`), and each property from it. `IInv` is in the
module of the specification; TLC has found it invariant on the bounds of the
runs.

| theorem | states |
|---|---|
| `PermuterProofs!TypeCorrect` | `[]TypeOK` |
| `PermuterProofs!TeardownIsBalanced` | `[]TeardownBalanced` |
| `PermuterProofs!ReverseTeardown` | `TeardownInReverse` |
| `PermuterProofs!ResultsTellPhases` | `[]ResultTellsPhase` |
| `PermuterProofs!AllEngaged` | `[]EngagedAtReturn` |
| `PermuterProofs!KernelStaysInside` | `KernelInsideHooks` |
| `PermuterProofs!SettledStays` | `SettledFinal` |
| `PermuterProofs!WorkspaceFound` | `[]ComparisonHasWorkspace` |
| `PermuterProofs!ImplementsContract` | `KeepsContract`: `Permuter` implements `PermuteContract` |
| `PermuterProofs!CallCountsDown` | `CountsDown` |
| `PermuterProofs!SomebodyGoesOn` | `[]NobodyStuck` |
| `TestCaseProofs!VerdictIsRight` | `[]VerdictRight` |
| `TestCaseProofs!FailuresAreTold` | `[]FailuresTold` |
| `TestCaseProofs!ThrowingFails` | `[]ThrewFails` |
| `WorkspaceProofs!FreshWorkspace` | `[]WorkspaceFresh` |
| `WorkspaceProofs!BackAtStart` | `[]CwdRestored` |
| `WorkspaceProofs!WorkingDirectoryExists` | `[]CwdExists` |
| `WorkspaceProofs!NothingLeftBehind` | `[]WorkspaceGone` |
| `WorkspaceProofs!AloneIsInside` | `[]AloneInWorkspace` |
| `WorkspaceProofs!RowGoesOn` | `RowAdvances` |
| `ComparisonProofs!VerdictIsOfFiles` | `[]PassesWhenSameFiles` |
| `ComparisonProofs!DirectoriesArePassed` | `[]DirectoriesIgnored` |
| `ComparisonProofs!OddFilesOnly` | `[]FailureOnlyOfOddFiles` |
| `ComparisonProofs!UntouchedIsPassed` | `[]UntouchedPasses` |
| `LibraryProofs!AnswerIsRight` | `AnswerIsMine` |
| `LibraryProofs!StorageIsLetGo` | `[]HolderLetsGo` |
| `LibraryProofs!DeadlockStays` | `DeadlockIsCertain` |
| `ChildProcessProofs!NothingLeaks` | `[]NoLeakWhenGone` |
| `ChildProcessProofs!HandlesStayValid` | `[]HandlesValid` |
| `ChildProcessProofs!ChildrenAreWired` | `[]ChildWired` |
| `ChildProcessProofs!InputEndsWithParent` | `[]StdinEnds` |
| `ChildProcessProofs!OutputEndsWithChild` | `[]OutputEnds` |
| `ChildProcessProofs!NoChildIsLeft` | `[]NoChildWhenGone` |
| `ChildProcessProofs!OwnExitFirst` | `ForeignReapOnlyAfterOwn` |
| `ChildProcessProofs!ImplementsContract` | `KeepsContract`: `ChildProcess` implements `ChildContract` |
| `ChildProcessProofs!LateWaitGoesOn` | `LateWaitAdvances` |
| `ChildProcessProofs!DestructorStaysStuck` | `DestructorHangs` |
| `ChildWindowsProofs!OwnHandlesOnly` | `ClosesOnlyOwn` |
| `ChildWindowsProofs!NothingIsLeft` | `[]NothingLeft` |
| `ChildWindowsProofs!ChildrenAreWired` | `[]ChildWired` |
| `ChildWindowsProofs!OutputHasAnEnd` | `[]OutputEnds` |
| `ChildWindowsProofs!ImplementsContract` | `KeepsContract`: `ChildWindows` implements `ChildContract` |
| `FdStreamsProofs!NoneIsSkipped` | `[]NothingSkipped` |
| `FdStreamsProofs!PutbackIsRight` | `[]PutbackRight` |
| `FdStreamsProofs!RoomToPutBack` | `[]PutbackRoom` |
| `FdStreamsProofs!GoodHasWritten` | `[]GoodMeansWritten` |

The other modules but `TestCaseProofs`, whose variables are typed by its
invariant `TestInv`, also have a theorem `TypeCorrect`: `[]TypeOK` is proved and
not run, as a conjunct of the `IInv` that the other proofs rest on. All of these
hold for all values of the constants that satisfy the modules' named assumptions.
`CountsDown`, `NobodyStuck`, `RowAdvances`, `HolderLetsGo`, `DeadlockIsCertain`,
`LateWaitAdvances` and `DestructorHangs` are proved and named by no run: the first
two say what can be proved of the end of a call, the others what can be of the
liveness properties that the runs check.

**Permuter** (any finite team, any number of rows, any nonempty list of hooks,
any values and errors). None of the properties is inductive: that a settled row
is balanced depends on what was still active when its thread left it. `IInv`
says, for each phase of a thread, what its local variables say of its row: with
position `n` in `teardown`, the hooks `1 .. n` are active and exactly those above
`n` have run their second half, and `stage`, `exc`, `threw` and the result fit
each other (`SetupInv`, `BuiltInv`, `UnwindInv`, `TeardownInv`). Besides, no two
threads work on one row (`Exclusive`), a row not taken is untouched
(`UnclaimedInv`), one that was left is complete (`SettledInv`), and a call that
returned has left all (`ReturnInv`). When `n` reaches 0 the phase's part of
`IInv` is what `Complete` asks for, and the row may be settled. Most actions
touch one thread and its row only; `LocalStep` reduces those to what they do to
that thread, using `Exclusive` for the others. `WorkspaceFound` adds
`WorkdirInv` (a thread has a working directory from the first workspace begun to
the first destroyed), and `ImplementsContract` adds `SingleInv` (without OpenMP
only the caller works), from which `RunningBound` gets the bound on running
rows. The refinement maps `Claim` to `Start`, `CatchException` and `EndRow` to
`Settle`, the deaths to `Die`, `Return` to `Return`, all else to a stutter.
`Work` is the set of the steps that may still be taken: all of a row nobody has
taken, and of a row in hand the `Left(t)` its thread has yet to take at most. It
is finite, and each step takes at least its own out of it (`CountsDown`), since an
exception or a destructor moves a thread on only to where less is left. Besides,
some thread can always go on until the call is over (`NobodyStuck`), which needs
`InOrder`: without OpenMP the next row is the one after the last that was taken.

**Workspace** (any finite set of threads, templates, rows, retries, crashes).
`WhereInv` says that the process is in a workspace only while the thread it is
named after is inside, so that nothing can remove the working directory
(`CwdExists`) and the last to leave goes back (`CwdRestored`); or it was
stranded there, and its thread has not begun to clear it. It needs that
`starting_path()` is first evaluated when nobody is inside (`FirstStart`).
`ThreadInv` carries the directory through the steps of a row: absent or part of
the template before copying, what was copied and what is to be copied make up
the template during it, the template after it. A team of one is stated as
`team \subseteq {t}`, since steps of others are what has to be excluded.
`RowAdvances` compares a row before and after a step: by the attempts used, then
by how far it is (`Ahead`), then by the files this attempt has yet to copy.
Templates are taken to have finitely many files.

**Comparison** (any paths and sizes, any pair of trees, any order of reading).
`WalkInv`: what was visited was a leaf of both trees and the same in both, and
`after` is what the model holds besides. When the walk is over and `after` is
empty, that is `SameFiles`; when it ended early, the path that differed refutes
it (`CheckTells`). `UntouchedIsPassed` needs that `copy_level` of a tree without
odd files walks over the same leaves (`CopyIsTree`). Trees that differ in
directories only hold the same files, and so `DirectoriesArePassed` follows from
the verdict.

**LibraryDirectory** (any threads, products and directories). The cached path
belongs to the product that was noted, or was put there by an override while that
was noted (`IInv`), as long as one instantiation is in use; `PlaceFound` says
that a search that ends at the nearest hit returns what `PlaceOf` names.
`HolderLetsGo` says that the storage is held only by a thread that is inside or
waits for itself; `DeadlockIsCertain`, that in the second case neither is the
storage let go of, nor does any waiting call get on, nor does the process end,
which is the exception `CallsReturn` makes.

**FdStreams** (any sizes of buffer and putback area). `NothingSkipped`,
`PutbackRight` and `PutbackRoom` say what each cell of the window holds, from
`pos` alone; `Waiting` says what the cells hold while `read()` is waited for:
the characters to be kept lie before `pbSize` already, which is where `setg()`
puts the window's beginning. `GoodHasWritten` has an invariant of its own.

**TestCase** (any table, lists of hooks, errors and codes). When the checks
begin, `Permuter`'s `IInv` says that every row is settled, so that each result
exists and fits what was thrown. `TestInv` adds what the cursor has passed:
`allPassed` says whether a row before it did not match, and `failed` is what was
told of those (`Kept`, `Unmatched`). The rest is about outcomes: the code's
comparison of two codes, by the conditions they are equivalent to, is equality of
what they mean (`EquivalentMeaning`), and a deferred check, which compares with
another function than `check()` did, finds the same (`CompareMatches`).

**ChildProcess** (any number of objects, children and descriptors; any number of
calls). `EndsOwned` says that an end of a pipe is open only where the handle of
its object says, and then is close-on-exec or the object's `launch()` has not got
that far. It is inductive with `HandlesSet` (which handles are set in which
phase), also when a destructor closes what is not its own, and gives
`NoLeakWhenGone`. `TablesEnd` says the same of the ends children hold. `Reaping`
ties objects to children: the pid of an object is that of its child, or its exit
was reported to someone. `HandlesGood` is the converse of `EndsOwned`, a handle
refers to its end, and holds only while no `FILE *` was made; on it rests
`WhatAChildHolds`, that the moves and closes `posix_spawn()` is given, one pipe
after the other in one table, leave each end where it is wanted: no descriptor to
be moved is one of 0, 1, 2, nor equal to another. Calls that open and close
nothing are dealt with at once (`Quiet`, `ReapingFrame`, `TablesFrame`). The
refinement of `ChildContract` rests on `OwnIsOver`: when `waitid()` has something
to tell of the pid an object keeps, or no such child is there, the object's own
child has exited or was stopped. By `Reaping` either the pid is still that
child's, or its exit was reported before, and then it was an exit (`ContractInv`):
an exit that is another's, taken because the pid was given out again, comes too
late to break the promise. `DestructorHangs` is the other side: a destructor that
waits for a `Reader` or a `Writer` holds, by `HandlesGood`, the very end of the
pipe the child waits to see closed.

**ChildWindows** (any number of objects and handles, any `use_parent_errh`, any
clock). `Knows` says which handle an object knows each of its ends, its process
and its thread by, from phase to phase. `KnowsRight` is one direction (what it
knows is there) and `AllKnown` the other (what is there of it, it knows, or the
destructor has yet to close, or the failure before the guards forgot): the first
keeps others from being given a handle in use, the second makes `NothingLeft`
follow when nothing is known any more. `TodoGood` is `ClosesOnlyOwn` made
inductive: what is yet to be closed is there, of this object, and listed once.
`Made` and `MadeHis` are the ends there are of the pipes, and `NotMade` says that
only those of stderr may be invalid, ours until the object is destroyed, the
child's until `SetHandleInformation()`, which notices; so that where ours is
there, the child's is of the same pipe (`HisEnd`). `InheritGood` and
`InheritedGood` say whose ends are inheritable and inherited. All of it is under
`OneOwner`, which no step restores once it is lost. `Others` reduces each step to
its own object. `TypeOK` is proved by itself. As long as `OneOwner` holds,
`KnowsRight` says that `_processh` still refers to the process of the object's own
child, so that `Returns` is about its exit, and `ContractInv` that a wait without
a deadline has `INFINITE` for its timeout: on these rests the refinement of
`ChildContract`. When `OneOwner` is lost the step maps to `Disturb`, and from then
on the contract lets any wait end.

*Only model-checked:* the liveness properties (`RowEnds`, `CallsReturn`,
`TimedWaitEnds`, `DestructorEnds`). Liveness under fairness and `ENABLED` are out
of the prover's reach. What the fairness has to work on is proved where it is more
than a guard: the order in which a row advances (`RowAdvances`) for `RowEnds`, the
deadline that is not forgotten (`LateWaitAdvances`) for `TimedWaitEnds`, the
holder that lets go (`HolderLetsGo`) for `CallsReturn`; and that the exceptions
the last and `DestructorEnds` make are certain (`DeadlockIsCertain`,
`DestructorHangs`). What is left to TLC is that a step which stays possible is
taken, and for `DestructorEnds` that a child exits in the end. Of a call of
`operator()` no run asks that it ends; that each step lowers a number and that
some thread can take one (`CountsDown`, `NobodyStuck`) are proved by themselves.
Induction over recursive definitions is out of reach as well; no module declares a
`RECURSIVE` operator.

## 5. Not modelled

- Reparse points and other parts of the workspace and the comparison that are
  Windows' own.
- On Windows: `is_running()`, which reads an exit code and takes one of 259
  (`STILL_ACTIVE`) for a child that runs; and how likely the random name of the
  pipe, which may hold a NUL, is one that is in use.
- `cin()`, `cout()` and `cerr()` of one object over another's buffers: the three
  streams share nothing. `cerr()` with `use_parent_errh` dereferences the stream
  that `_initialise_streams()` does not make.
- Outcomes that hold an exception, tables of another length than the results
  (`check()` throws `invalid_argument`), and the build with status codes.
- `filesystem::exists` and the like failing half way through a comparison: an
  exception is a verdict of its own (`error`) only where the trees cause it.
- Contents and timestamps, which no hook instantiates.
- Printing, the messages of the error category, `current_process_path/env`, the
  programs under `test/` and the build: no state, or no logic of this library.

## 6. Plan

Done: `Permuter` with its contract and `TestCase` above it (what every test
depends on), `ChildProcess`, `ChildWindows`, `FdStreams`, `Workspace`,
`Comparison`, `LibraryDirectory`; proofs of all of them.

What is left:

- `Workspace` composed with `LibraryDirectory` and `KERNELTEST_TEST_KERNEL`:
  tests one after the other that set and clear `current_test_kernel` around
  `operator()`.
