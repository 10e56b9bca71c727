-------------------------- MODULE LibraryDirectory --------------------------
(***************************************************************************)
(* library_directory() and override_library_directory()                    *)
(* (filesystem_workspace.hpp): where the sources of a product are, looked  *)
(* up once and kept.                                                       *)
(*                                                                         *)
(* The path that is kept, and the mutex over it, belong to the process;    *)
(* the name of the product it was found for is a static of each of the two *)
(* instantiations of the template.                                         *)
(***************************************************************************)
EXTENDS Naturals, FiniteSets

CONSTANTS
    Threads,
    Products,
    InEnv,       \* the products with a KERNELTEST_product_HOME
    Length,      \* starting_path() and what is above it, up to the root: how
                 \* many characters the path of each has
    Holds,       \* what each of them holds of each product
    None,
    MaxCalls     \* bound: calls of each thread

Top    == Cardinality(DOMAIN Length) - 1
Levels == 0 .. Top
Content == {"nothing", "bare", "tests"}   \* no directory, one without
                                          \* test/tests, or one with it

ASSUME DirectoriesAssumption ==
    /\ Top \in Nat /\ DOMAIN Length = Levels
    /\ \A l \in Levels : Length[l] \in Nat
    /\ InEnv \subseteq Products
    /\ Holds \in [Products -> [Levels -> [plain : Content, boost : Content]]]
    /\ None \notin Threads \cup Products /\ MaxCalls \in Nat

NoPath == <<None, None, 0>>
Paths  == ({"env", "level", "override"} \X Products \X Levels) \cup {NoPath}

VARIABLES
    lock,     \* the thread that holds the storage
    path,     \* override_library_directory()'s `ret'
    product,  \* the `product' of library_directory<false> and of <true>
    pc,
    throwing, \* is_throwing of the call a thread is in
    asked,    \* its __product
    answer,   \* what it returned
    calls,
    dead,     \* the process has terminated
    used,     \* history: the instantiations that were called
    ordered   \* history: <<product, path>> as an override has set them

call == <<throwing, asked>>
vars == <<lock, path, product, pc, call, answer, calls, dead, used, ordered>>

Init ==
    /\ lock = None
    /\ path = NoPath
    /\ product = [b \in BOOLEAN |-> None]
    /\ pc = [t \in Threads |-> "idle"]
    /\ throwing = [t \in Threads |-> FALSE]
    /\ asked = [t \in Threads |-> None]
    /\ answer = [t \in Threads |-> NoPath]
    /\ calls = [t \in Threads |-> 0]
    /\ dead = FALSE
    /\ used = {} /\ ordered = {}

At(t, l)   == pc[t] = l /\ ~dead
Goto(t, l) == pc' = [pc EXCEPT ![t] = l]

-----------------------------------------------------------------------------
\* The search: starting_path(), then what is above it as long as the path has
\* more than three characters.  A directory of the product's name hides one
\* named boost.product, also when it has no test/tests.

Searched == {l \in Levels : \A k \in 0 .. l - 1 : Length[k] > 3}

HasTests(h) == IF h.plain # "nothing" THEN h.plain = "tests"
               ELSE h.boost = "tests"

Hits(p) == {l \in Searched : HasTests(Holds[p][l])}

PlaceOf(p) ==
    IF p \in InEnv THEN <<"env", p, 0>>
    ELSE IF Hits(p) = {} THEN NoPath
    ELSE <<"level", p, CHOOSE l \in Hits(p) : \A k \in Hits(p) : l <= k>>

-----------------------------------------------------------------------------
\* library_directory<b>(p)

Called(t) == calls[t] < MaxCalls /\ calls' = [calls EXCEPT ![t] = @ + 1]

\* A thread may call while it holds the storage itself.
Call(t) ==
    /\ pc[t] \in {"idle", "holding"} /\ ~dead /\ Called(t)
    /\ \E b \in BOOLEAN, p \in Products :
         /\ throwing' = [throwing EXCEPT ![t] = b]
         /\ asked' = [asked EXCEPT ![t] = p]
         /\ used' = used \cup {b}
    /\ answer' = [answer EXCEPT ![t] = NoPath]
    /\ Goto(t, "lock")
    /\ UNCHANGED <<lock, path, product, dead, ordered>>

\* auto ret = override_library_directory()
Lock(t) ==
    /\ At(t, "lock") /\ lock = None
    /\ lock' = t
    /\ Goto(t, "look")
    /\ UNCHANGED <<path, product, call, answer, calls, dead, used, ordered>>

Cached(t) == product[throwing[t]] = asked[t]

\* Mutant: the storage is not released.
HitHolding(t) ==
    /\ At(t, "look") /\ Cached(t)
    /\ answer' = [answer EXCEPT ![t] = path]
    /\ Goto(t, "idle")
    /\ UNCHANGED <<lock, path, product, call, calls, dead, used, ordered>>

\* The answer is copied before the storage is released.
Hit(t) ==
    /\ At(t, "look") /\ Cached(t)
    /\ answer' = [answer EXCEPT ![t] = path]
    /\ lock' = None
    /\ Goto(t, "idle")
    /\ UNCHANGED <<path, product, call, calls, dead, used, ordered>>

\* Mutant: the product is noted before it is found.
NoteThenFind(t) ==
    /\ At(t, "look") /\ ~Cached(t)
    /\ product' = [product EXCEPT ![throwing[t]] = asked[t]]
    /\ IF PlaceOf(asked[t]) = NoPath
       THEN UNCHANGED <<path, answer>>
       ELSE path' = PlaceOf(asked[t])
            /\ answer' = [answer EXCEPT ![t] = PlaceOf(asked[t])]
    /\ lock' = None
    /\ Goto(t, "idle")
    /\ UNCHANGED <<call, calls, dead, used, ordered>>

\* The first place is kept, and noted to be that of the product.
Find(t) ==
    /\ At(t, "look") /\ ~Cached(t) /\ PlaceOf(asked[t]) # NoPath
    /\ path' = PlaceOf(asked[t])
    /\ product' = [product EXCEPT ![throwing[t]] = asked[t]]
    /\ answer' = [answer EXCEPT ![t] = PlaceOf(asked[t])]
    /\ lock' = None
    /\ Goto(t, "idle")
    /\ UNCHANGED <<call, calls, dead, used, ordered>>

\* Nothing was found, or a call of the search to the file system threw, which
\* it may at any time: library_directory<true> throws, library_directory<false>
\* terminates.
SearchFails(t) ==
    /\ At(t, "look") /\ ~Cached(t) /\ asked[t] \notin InEnv
    /\ IF throwing[t]
       THEN lock' = None /\ Goto(t, "idle") /\ UNCHANGED dead
       ELSE dead' = TRUE /\ UNCHANGED <<lock, pc>>
    /\ UNCHANGED <<path, product, call, answer, calls, used, ordered>>

-----------------------------------------------------------------------------
\* override_library_directory(), and what its caller does with the storage.

Override(t) ==
    /\ At(t, "idle") /\ lock = None /\ Called(t)
    /\ lock' = t
    /\ Goto(t, "holding")
    /\ UNCHANGED <<path, product, call, answer, dead, used, ordered>>

\* The caller has looked up p before, as the documentation asks.
SetPath(t) ==
    /\ At(t, "holding")
    /\ \E p \in Products :
         /\ path' = <<"override", p, 0>>
         /\ ordered' = {<<product[b], path'>> : b \in BOOLEAN}
    /\ UNCHANGED <<lock, product, pc, call, answer, calls, dead, used>>

Release(t) ==
    /\ At(t, "holding")
    /\ lock' = None
    /\ Goto(t, "idle")
    /\ UNCHANGED <<path, product, call, answer, calls, dead, used, ordered>>

-----------------------------------------------------------------------------
Step(t) == Lock(t) \/ Hit(t) \/ Find(t) \/ SearchFails(t) \/ Release(t)

Next == \E t \in Threads : Step(t) \/ Call(t) \/ Override(t) \/ SetPath(t)

\* A thread goes on, and who holds the storage lets go of it.  The bound on
\* calls makes weak fairness enough for the mutex.
Spec == Init /\ [][Next]_vars /\ \A t \in Threads : WF_vars(Step(t))

-----------------------------------------------------------------------------
\* Properties

\* The type invariant; the storage has one holder.
TypeOK ==
    /\ lock \in Threads \cup {None}
    /\ path \in Paths
    /\ product \in [BOOLEAN -> Products \cup {None}]
    /\ pc \in [Threads -> {"idle", "lock", "look", "holding"}]
    /\ \A t \in Threads : pc[t] \in {"look", "holding"} => lock = t
    /\ throwing \in [Threads -> BOOLEAN]
    /\ asked \in [Threads -> Products \cup {None}]
    /\ answer \in [Threads -> Paths]
    /\ calls \in [Threads -> 0 .. MaxCalls]
    /\ dead \in BOOLEAN
    /\ used \subseteq BOOLEAN
    /\ ordered \subseteq (Products \cup {None}) \X Paths

\* Whoever asked for a product is given the place of that product, or what an
\* override has put there while it was the product looked up last: whatever
\* others ask for, find or fail to find meanwhile.  Only one of the two
\* instantiations is in use, as it is by the hooks.
AnswerIsMine ==
    [][Cardinality(used) = 1 =>
        \A t \in Threads : answer'[t] # answer[t] /\ answer'[t] # NoPath =>
            \/ answer'[t] = PlaceOf(asked[t])
            \/ <<asked[t], answer'[t]>> \in ordered]_vars

\* The inductive invariant behind these: who is in a call has called, and the
\* path that is kept belongs to the product that was noted, as long as no other
\* instantiation of library_directory() is in use.
IInv ==
    /\ TypeOK
    /\ \A t \in Threads : pc[t] \in {"lock", "look"} =>
         throwing[t] \in used /\ asked[t] \in Products
    /\ \A b \in BOOLEAN : used \subseteq {b} /\ product[b] # None =>
         path = PlaceOf(product[b]) \/ <<product[b], path>> \in ordered

\* Who holds the storage waits for it.
SelfDeadlock == lock # None /\ pc[lock] = "lock"

\* A call returns or ends the process, unless the storage is held by one who
\* calls in turn: "will therefore deadlock all other users until it is
\* destroyed".
CallsReturn ==
    \A t \in Threads : pc[t] \in {"lock", "look"} ~>
        pc[t] = "idle" \/ dead \/ SelfDeadlock

\* Whoever holds the storage is about to let go of it, or waits for himself: it
\* is not kept by a call that has returned or thrown.
HolderLetsGo == lock # None => pc[lock] \in {"look", "holding"} \/ SelfDeadlock

\* Nothing ends such a wait: neither the storage is let go of, nor does any call
\* that waits for it get on, nor does the process end.
DeadlockIsCertain ==
    [][SelfDeadlock =>
        /\ lock' = lock /\ dead' = dead
        /\ \A t \in Threads : pc[t] = "lock" => pc'[t] = "lock"]_vars
=============================================================================
