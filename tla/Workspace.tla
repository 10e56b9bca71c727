------------------------------ MODULE Workspace ------------------------------
(***************************************************************************)
(* hooks::filesystem_setup (filesystem_workspace.hpp): each row of a       *)
(* permuter is run in a workspace, a copy of a template, that its hook     *)
(* makes and removes.                                                      *)
(*                                                                         *)
(* The directory of a workspace is named after the thread, the working     *)
(* directory is that of the process, and starting_path() is a static of    *)
(* the process.  st_permute runs all rows on the thread of the test,       *)
(* mt_permute runs them on a team.  The process may die, of the hook's own *)
(* std::terminate() or otherwise, and be run again in the same place.      *)
(***************************************************************************)
EXTENDS Naturals, FiniteSets

CONSTANTS
    Threads,      \* thread ids; a workspace is named after one
    Master,       \* the thread of KERNELTEST_TEST_KERNEL
    Templates,    \* the templates there are, each a set of files
    Start,        \* the directory the process is started in
    None,         \* no path; of cwd: a directory that was removed
    Rows,         \* bound: the rows of a process
    MaxTries,     \* bound: copies attempted within the five seconds
    MaxCrashes    \* bound: how often the process is run again

ASSUME WorkspaceAssumption ==
    /\ Master \in Threads /\ IsFiniteSet(Threads)
    /\ Start \notin Threads /\ None \notin Threads \cup {Start}
    /\ Rows \in Nat /\ MaxTries \in Nat /\ MaxCrashes \in Nat
    /\ \A f \in UNION Templates : f \notin {"absent", "written"}
    /\ \A s \in Templates : IsFiniteSet(s)

Absent  == {"absent"}
Written == "written"                 \* what a kernel adds to where it runs
Files   == UNION Templates
Sources == Templates \cup {Absent}

VARIABLES
    team,      \* the threads that run rows in this process
    known,     \* those with a current_test_kernel.product of their own
    throwing,  \* is_throwing
    starting,  \* the static in starting_path()
    cwd,       \* the working directory of the process
    told,      \* current_test_kernel.working_directory
    dir,       \* the content of each kerneltest_workspace_<tid>
    source,    \* the content of the template of the row
    todo,      \* what this attempt has yet to copy
    tries,     \* the attempts made
    pc,
    rows,      \* rows no thread has taken
    crashes,
    dirty,     \* history: whose workspace a failure may have left behind
    litter,    \* history: a kernel has written to the starting directory
    stranded   \* history: cwd is where a return to the start that failed left it

where  == <<starting, cwd, stranded>>
fixed  == <<team, known, throwing>>
row    == <<source, todo, tries>>
vars   == <<fixed, where, told, dir, row, pc, rows, crashes, dirty, litter>>

\* The permuter's threads: the test's alone, or a team in which the product is
\* known only to the test's thread unless a hook of the user has set it.
NewProcess(t, k) ==
    /\ t \in {{Master}, Threads}
    /\ k \in {{Master}, Threads}

Init ==
    /\ NewProcess(team, known)
    /\ throwing \in BOOLEAN
    /\ starting = None /\ cwd = Start
    /\ told = [t \in Threads |-> None]
    /\ dir = [t \in Threads |-> Absent]
    /\ source = [t \in Threads |-> Absent]
    /\ todo = [t \in Threads |-> {}]
    /\ tries = [t \in Threads |-> 0]
    /\ pc = [t \in Threads |-> "row"]
    /\ rows = Rows
    /\ crashes = 0 /\ dirty = {} /\ litter = FALSE /\ stranded = FALSE

At(t, l)   == pc[t] = l
Goto(t, l) == pc' = [pc EXCEPT ![t] = l]

\* The row of t is over.
EndRow(t) ==
    /\ Goto(t, "row")
    /\ source' = [source EXCEPT ![t] = Absent]
    /\ todo' = [todo EXCEPT ![t] = {}]
    /\ tries' = [tries EXCEPT ![t] = 0]

-----------------------------------------------------------------------------
\* Failures

\* The process is gone, and is run again as long as the bound allows.
Die ==
    /\ NewProcess(team', known')
    /\ crashes' = IF crashes < MaxCrashes THEN crashes + 1 ELSE crashes
    /\ rows' = IF crashes < MaxCrashes THEN Rows ELSE 0
    /\ starting' = None /\ cwd' = Start
    /\ told' = [t \in Threads |-> None]
    /\ todo' = [t \in Threads |-> {}]
    /\ source' = [t \in Threads |-> Absent]
    /\ tries' = [t \in Threads |-> 0]
    /\ pc' = [t \in Threads |-> "row"]
    /\ dirty' = {t \in Threads : dir[t] # Absent}
    /\ litter' = FALSE /\ stranded' = FALSE
    /\ UNCHANGED <<throwing, dir>>

\* An exception leaves the hook's constructor or destructor.
Throw(t) ==
    /\ EndRow(t)
    /\ dirty' = dirty \cup {t}
    /\ UNCHANGED <<fixed, cwd, told, dir, crashes, litter>>

\* fatalexit(), and the ends of the other functions: throw, or terminate.
Fatal(t) == IF throwing THEN Throw(t) /\ UNCHANGED <<starting, stranded, rows>>
            ELSE Die

-----------------------------------------------------------------------------
\* impl::impl()

Begins(t) == At(t, "row") /\ t \in team /\ rows > 0

\* Mutant: starting_path() is not a static.
LocateAnew(t) ==
    /\ Begins(t) /\ t \in known
    /\ starting' = cwd
    /\ \E s \in Sources : source' = [source EXCEPT ![t] = s]
    /\ rows' = rows - 1
    /\ Goto(t, "clear")
    /\ UNCHANGED <<fixed, cwd, stranded, told, dir, todo, tries, crashes, dirty,
                   litter>>

\* workspace_template_path() finds the template, or that there is none, and
\* starting_path() is called for the first time on the way.
StartingPath == IF starting = None THEN cwd ELSE starting

Locate(t) ==
    /\ Begins(t) /\ t \in known
    /\ starting' = StartingPath
    /\ \E s \in Sources : source' = [source EXCEPT ![t] = s]
    /\ rows' = rows - 1
    /\ Goto(t, "clear")
    /\ UNCHANGED <<fixed, cwd, stranded, told, dir, todo, tries, crashes, dirty,
                   litter>>

\* There is no such template.  library_directory() is always the one that
\* terminates, but workspace_template_path() may throw.
LocateFails(t) ==
    /\ Begins(t) /\ t \in known
    /\ \/ /\ throwing
          /\ EndRow(t)
          /\ starting' = StartingPath /\ rows' = rows - 1
          /\ UNCHANGED <<fixed, cwd, stranded, told, dir, crashes, dirty, litter>>
       \/ Die

\* library_directory() compares a product that is a null pointer, which no
\* build survives.
LocateUnknown(t) == Begins(t) /\ t \notin known /\ Die

\* remove_all(): a process that is in the directory is then nowhere, though a
\* directory of that name be made again.
Removed(t) ==
    /\ dir' = [dir EXCEPT ![t] = Absent]
    /\ cwd' = IF cwd = t THEN None ELSE cwd

\* Mutant: what is there stays.
ClearNothing(t) ==
    /\ At(t, "clear")
    /\ Goto(t, IF source[t] = Absent THEN "create" ELSE "mkdir")
    /\ UNCHANGED <<fixed, where, told, dir, row, rows, crashes, dirty, litter>>

\* _remove_workspace(): "Clear out any stale workspace".
Clear(t) ==
    /\ At(t, "clear")
    /\ Removed(t)
    /\ Goto(t, IF source[t] = Absent THEN "create" ELSE "mkdir")
    /\ UNCHANGED <<fixed, starting, stranded, told, row, rows, crashes, dirty,
                   litter>>

ClearFails(t) == At(t, "clear") /\ dir[t] # Absent /\ Fatal(t)

\* No template: an empty directory.
Create(t) ==
    /\ At(t, "create")
    /\ dir' = [dir EXCEPT ![t] = IF @ = Absent THEN {} ELSE @]
    /\ Goto(t, "chdir")
    /\ UNCHANGED <<fixed, where, told, row, rows, crashes, dirty, litter>>

CreateFails(t) == At(t, "create") /\ Fatal(t)

\* An attempt begins: the directory is created, unless it is there.
BeginCopy(t) ==
    /\ At(t, "mkdir")
    /\ dir' = [dir EXCEPT ![t] = IF @ = Absent THEN {} ELSE @]
    /\ todo' = [todo EXCEPT ![t] = source[t]]
    /\ Goto(t, "copy")
    /\ UNCHANGED <<fixed, where, told, source, tries, rows, crashes, dirty,
                   litter>>

\* copy_level(): files in any order.  copy_file() does not overwrite.
CopyOne(t) ==
    /\ At(t, "copy")
    /\ \E f \in todo[t] \ dir[t] :
         /\ dir' = [dir EXCEPT ![t] = @ \cup {f}]
         /\ todo' = [todo EXCEPT ![t] = @ \ {f}]
    /\ UNCHANGED <<fixed, where, told, source, tries, pc, rows, crashes, dirty,
                   litter>>

Copied(t) ==
    /\ At(t, "copy") /\ todo[t] = {}
    /\ Goto(t, "chdir")
    /\ UNCHANGED <<fixed, where, told, dir, row, rows, crashes, dirty, litter>>

\* Mutant: the clock is started anew each time.
RetryForever(t) ==
    /\ At(t, "copy") /\ todo[t] # {}
    /\ todo' = [todo EXCEPT ![t] = {}]
    /\ Goto(t, "mkdir")
    /\ UNCHANGED <<fixed, where, told, dir, source, tries, rows, crashes, dirty,
                   litter>>

\* A file that is there already, or any other error, ends the attempt; there
\* is another one unless five seconds have gone.
Retry(t) ==
    /\ At(t, "copy") /\ todo[t] # {} /\ tries[t] < MaxTries
    /\ tries' = [tries EXCEPT ![t] = @ + 1]
    /\ todo' = [todo EXCEPT ![t] = {}]
    /\ Goto(t, "mkdir")
    /\ UNCHANGED <<fixed, where, told, dir, source, rows, crashes, dirty, litter>>

GiveUp(t) == At(t, "copy") /\ todo[t] # {} /\ Fatal(t)

\* Mutant: the working directory is not set.
ChdirForgotten(t) ==
    /\ At(t, "chdir")
    /\ Goto(t, "tell")
    /\ UNCHANGED <<fixed, where, told, dir, row, rows, crashes, dirty, litter>>

Chdir(t) ==
    /\ At(t, "chdir")
    /\ cwd' = t /\ stranded' = FALSE
    /\ Goto(t, "tell")
    /\ UNCHANGED <<fixed, starting, told, dir, row, rows, crashes, dirty, litter>>

\* current_path() throws, whatever is_throwing says.
ChdirFails(t) ==
    At(t, "chdir") /\ Throw(t) /\ UNCHANGED <<starting, stranded, rows>>

Tell(t) ==
    /\ At(t, "tell")
    /\ told' = [told EXCEPT ![t] = t]
    /\ Goto(t, "kernel")
    /\ UNCHANGED <<fixed, where, dir, row, rows, crashes, dirty, litter>>

-----------------------------------------------------------------------------
\* The kernel writes to the working directory, if it is there (external).

KernelWrites(t) ==
    /\ At(t, "kernel") /\ cwd # None
    /\ IF cwd = Start THEN litter' = TRUE /\ UNCHANGED dir
       ELSE dir' = [dir EXCEPT ![cwd] = @ \cup {Written}] /\ UNCHANGED litter
    /\ UNCHANGED <<fixed, where, told, row, pc, rows, crashes, dirty>>

KernelEnds(t) ==
    /\ At(t, "kernel")
    /\ Goto(t, "untell")
    /\ UNCHANGED <<fixed, where, told, dir, row, rows, crashes, dirty, litter>>

-----------------------------------------------------------------------------
\* impl::~impl()

\* Mutant: the directory goes first.
UntellRemoving(t) ==
    /\ At(t, "untell")
    /\ told' = [told EXCEPT ![t] = None]
    /\ Removed(t)
    /\ Goto(t, "leave")
    /\ UNCHANGED <<fixed, starting, stranded, row, rows, crashes, dirty, litter>>

Untell(t) ==
    /\ At(t, "untell")
    /\ told' = [told EXCEPT ![t] = None]
    /\ Goto(t, "leave")
    /\ UNCHANGED <<fixed, where, dir, row, rows, crashes, dirty, litter>>

Leave(t) ==
    /\ At(t, "leave")
    /\ cwd' = starting /\ stranded' = FALSE
    /\ Goto(t, "remove")
    /\ UNCHANGED <<fixed, starting, told, dir, row, rows, crashes, dirty, litter>>

\* current_path() throws: out of a destructor that may, which does not get to
\* removing the workspace, or to std::terminate().
LeaveFails(t) ==
    /\ At(t, "leave")
    /\ \/ throwing /\ Throw(t) /\ stranded' = TRUE /\ UNCHANGED <<starting, rows>>
       \/ ~throwing /\ Die

\* Mutant: the workspace is kept.
RemoveNothing(t) ==
    /\ At(t, "remove")
    /\ EndRow(t)
    /\ dirty' = dirty \ {t}
    /\ UNCHANGED <<fixed, where, told, dir, rows, crashes, litter>>

Remove(t) ==
    /\ At(t, "remove")
    /\ Removed(t)
    /\ EndRow(t)
    /\ dirty' = dirty \ {t}
    /\ UNCHANGED <<fixed, starting, stranded, told, rows, crashes, litter>>

RemoveFails(t) == At(t, "remove") /\ Fatal(t)

-----------------------------------------------------------------------------
Setup(t) ==
    \/ Clear(t) \/ ClearFails(t) \/ Create(t) \/ CreateFails(t)
    \/ BeginCopy(t) \/ CopyOne(t) \/ Copied(t) \/ Retry(t) \/ GiveUp(t)
    \/ Chdir(t) \/ ChdirFails(t) \/ Tell(t)

Teardown(t) == \/ Untell(t) \/ Leave(t) \/ LeaveFails(t)
               \/ Remove(t) \/ RemoveFails(t)

Begin(t) == Locate(t) \/ LocateFails(t) \/ LocateUnknown(t)

Step(t) == Setup(t) \/ KernelEnds(t) \/ Teardown(t)

Killed == crashes < MaxCrashes /\ Die

Next == \/ \E t \in Threads : Begin(t) \/ Step(t) \/ KernelWrites(t)
        \/ Killed

\* A row that has begun goes on: kernels end, and so do system calls.
Spec == Init /\ [][Next]_vars /\ \A t \in Threads : WF_vars(Step(t))

-----------------------------------------------------------------------------
\* Properties

Labels == {"row", "clear", "create", "mkdir", "copy", "chdir", "tell",
           "kernel", "untell", "leave", "remove"}

\* The type invariant; `tries' stays within what five seconds allow.
TypeOK ==
    /\ team \subseteq Threads /\ known \subseteq Threads /\ throwing \in BOOLEAN
    /\ starting \in Threads \cup {Start, None}
    /\ cwd \in Threads \cup {Start, None}
    /\ told \in [Threads -> Threads \cup {None}]
    /\ dir \in [Threads -> {Absent} \cup SUBSET (Files \cup {Written})]
    /\ source \in [Threads -> Sources]
    /\ todo \in [Threads -> SUBSET Files]
    /\ tries \in [Threads -> 0 .. MaxTries]
    /\ pc \in [Threads -> Labels]
    /\ rows \in 0 .. Rows
    /\ crashes \in 0 .. MaxCrashes
    /\ dirty \subseteq Threads /\ litter \in BOOLEAN /\ stranded \in BOOLEAN

\* A workspace that has been set up is its template and nothing else, whatever
\* an earlier row, an earlier attempt, a process that died or the kernels of
\* other threads have left in a directory of that name.
WorkspaceFresh ==
    \A t \in Threads :
        At(t, "chdir") => dir[t] = IF source[t] = Absent THEN {} ELSE source[t]

Inside(t) == pc[t] \in {"tell", "kernel", "untell", "leave"}

\* When no thread is in its workspace the process is where it was started: the
\* last thread to leave has not gone back to the workspace of another.  Only if
\* current_path() failed for it is the process left where it was, and no longer
\* than until a thread enters or leaves its workspace again.
CwdRestored == (\A t \in Threads : ~Inside(t)) => cwd = Start \/ stranded

\* The working directory of the process exists, unless it was left in a
\* workspace in that way, which the next row of the thread clears away.
CwdExists == ~stranded => cwd # None /\ (cwd # Start => dir[cwd] # Absent)

\* Between rows a thread's workspace is gone, unless a failure left it.
WorkspaceGone ==
    \A t \in Threads : At(t, "row") /\ t \notin dirty => dir[t] = Absent

\* When only one thread runs rows, its kernel runs in its workspace, and
\* nothing is ever written where the process was started.
AloneInWorkspace ==
    Cardinality(team) = 1 =>
        /\ \A t \in Threads : At(t, "kernel") => cwd = t /\ told[t] = t
        /\ ~litter

\* The inductive invariant behind these: the process is in a workspace only
\* while its thread is inside, or stranded there and has not cleared it yet, and
\* each step of a row finds its directory as the step before has left it.
WhereInv ==
    /\ starting \in {None, Start}
    /\ stranded => starting = Start
    /\ cwd \in Threads => /\ dir[cwd] # Absent
                          /\ pc[cwd] \in {"row", "clear"} \/ Inside(cwd)
    /\ ~stranded => cwd = Start \/ (cwd \in Threads /\ Inside(cwd))
    /\ litter => \A t \in Threads : ~(team \subseteq {t})

ThreadInv(t) ==
    /\ ~At(t, "row") => starting = Start /\ t \in team
    /\ At(t, "row") /\ t \notin dirty => dir[t] = Absent
    /\ At(t, "create") => source[t] = Absent /\ dir[t] = Absent
    /\ At(t, "mkdir") => source[t] # Absent
                          /\ (dir[t] = Absent \/ dir[t] \subseteq source[t])
    /\ At(t, "copy") => source[t] # Absent /\ dir[t] \cup todo[t] = source[t]
    /\ At(t, "chdir") => dir[t] = IF source[t] = Absent THEN {} ELSE source[t]
    /\ Inside(t) => dir[t] # Absent /\ (team \subseteq {t} => cwd = t)
    /\ At(t, "kernel") => told[t] = t

IInv == TypeOK /\ WhereInv /\ \A t \in Threads : ThreadInv(t)

-----------------------------------------------------------------------------
\* Why a row ends: each step of its hook takes it further, or uses up one of the
\* attempts, after which it has to copy everything again.

Ahead == [row |-> 0, remove |-> 1, leave |-> 2, untell |-> 3, kernel |-> 4,
          tell |-> 5, chdir |-> 6, copy |-> 7, mkdir |-> 8, create |-> 8,
          clear |-> 9]

Further(t) ==
    \/ tries'[t] > tries[t]
    \/ /\ tries'[t] = tries[t]
       /\ \/ Ahead[pc'[t]] < Ahead[pc[t]]
          \/ /\ pc'[t] = pc[t]
             /\ Cardinality(todo'[t]) < Cardinality(todo[t])

\* No step takes a row that has begun back but for a new attempt, of which there
\* are at most MaxTries: neither its own, nor one of another thread, a crash
\* included.  A step of its hook never leaves it where it is.
RowAdvances ==
    [][\A t \in Threads : ~At(t, "row") =>
          \/ pc'[t] = "row"
          \/ Further(t)
          \/ ~Step(t) /\ UNCHANGED <<pc[t], tries[t], todo[t]>>]_vars

\* A row that has begun ends, though copying is tried again and again.
RowEnds == \A t \in Threads : ~At(t, "row") ~> At(t, "row")
=============================================================================
