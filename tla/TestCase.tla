------------------------------- MODULE TestCase -------------------------------
(***************************************************************************)
(* A test as the tests of the repository are written: a permuter is called *)
(* and its results are given to check_results_with_boost_test(), that is   *)
(* to check(), which compares each with the row's outcome and calls one of *)
(* two callbacks, and then to Boost.Test (permute_parameters.hpp).         *)
(*                                                                         *)
(* operator() is the whole of Permuter; this module goes on where it       *)
(* returned, with the results it left.                                     *)
(***************************************************************************)
EXTENDS Permuter, Sequences

CONSTANTS
    Category, Number,  \* of each error code: its category and its value
    WantedErrors,      \* the error codes a table may ask for
    Any,               \* a value in a table of result<void>
    MapsSystem         \* does the STL give errno values of system_category a
                       \* condition of generic_category

Coded == Errors \cup WantedErrors
All   == NRows                   \* stands for BOOST_CHECK(all_passed)

ASSUME CodesAssumption ==
    /\ Category \in [Coded -> {"system", "generic", "own"}]
    /\ DOMAIN Number = Coded
    /\ MapsSystem \in BOOLEAN
    /\ Any \notin Outcomes \cup WantedErrors \cup {Unset}
    /\ WantedErrors \cap (Values \cup Codes \cup Verdicts \cup {Unset}) = {}

VARIABLES
    void,      \* is the outcome type of the table one of void
    shouldbe,  \* the outcome each row of the table asks for
    at,        \* where the test is
    cursor,    \* check(): idx
    allPassed, \* check(): ret
    checks,    \* the rows whose failure is told later
    failed     \* history: the BOOST_CHECK()s that failed, of a row or of all

test     == <<void, shouldbe, at, cursor, allPassed, checks, failed>>
testVars == <<vars, test>>

TestInit ==
    /\ Init
    /\ void \in BOOLEAN
    /\ shouldbe \in [Rows -> WantedErrors \cup (IF void THEN {Any} ELSE Values)]
    /\ at = "calling"
    /\ cursor = 0 /\ allPassed = TRUE
    /\ checks = << >> /\ failed = {}

-----------------------------------------------------------------------------
\* Error codes

\* A code of the permuter or of the comparison has the category of kerneltest,
\* which gives codes conditions of its own.
Code(e) == IF e \in Coded THEN <<Category[e], Number[e]>> ELSE <<"kerneltest", e>>

\* error_code::default_error_condition()
Condition(c) == IF c[1] = "system" /\ MapsSystem THEN <<"generic", c[2]>> ELSE c

\* operator==(error_condition, error_code)
Means(cond, c) == Condition(c) = cond \/ c = cond

HasError(x) == x \in Coded \cup Codes \cup Verdicts

\* Mutant: the clause for STLs that do not map system_category is missing.
EquivalentStrictly(got, want) == Means(Condition(Code(got)), Code(want))

Equivalent(got, want) ==
    \/ Means(Condition(Code(got)), Code(want))
    \/ /\ Code(got)[1] = "system" /\ Code(want)[1] = "generic"
       /\ Code(got)[2] = Code(want)[2]

\* detail::check_result(): with a table of void only errors are compared.
CheckResult(got, want) ==
    IF void
    THEN \/ want = Any /\ got \in Values
         \/ HasError(want) /\ HasError(got) /\ Equivalent(got, want)
    ELSE IF HasError(want) /\ HasError(got) THEN Code(got) = Code(want)
    ELSE got = want

\* detail::compare()
Compare(got, want) ==
    \/ void /\ want = Any /\ got \in Values
    \/ HasError(want) /\ HasError(got) /\ Code(got) = Code(want)
    \/ ~void /\ got = want

-----------------------------------------------------------------------------
\* check_results_with_boost_test()

Call ==
    /\ at = "calling"
    /\ (\E t \in Threads : Step(t)) \/ Return
    /\ UNCHANGED test

Checking == at = "checking" /\ cursor < NRows

\* Mutant: the last row is not checked.
CheckedButLast == at = "checking" /\ cursor = NRows - 1

Checked == at = "checking" /\ cursor = NRows

BeginCheck ==
    /\ at = "calling" /\ returned
    /\ at' = "checking"
    /\ UNCHANGED <<vars, void, shouldbe, cursor, allPassed, checks, failed>>

\* pretty_print_success returns true.
PassRow ==
    /\ Checking /\ CheckResult(results[cursor], shouldbe[cursor])
    /\ cursor' = cursor + 1
    /\ UNCHANGED <<vars, void, shouldbe, at, allPassed, checks, failed>>

\* Mutant: the callback returns true.
FailRowQuietly ==
    /\ Checking /\ ~CheckResult(results[cursor], shouldbe[cursor])
    /\ cursor' = cursor + 1
    /\ checks' = Append(checks, cursor)
    /\ UNCHANGED <<vars, void, shouldbe, at, allPassed, failed>>

\* pretty_print_failure keeps a check for later and returns false.
FailRow ==
    /\ Checking /\ ~CheckResult(results[cursor], shouldbe[cursor])
    /\ cursor' = cursor + 1
    /\ allPassed' = FALSE
    /\ checks' = Append(checks, cursor)
    /\ UNCHANGED <<vars, void, shouldbe, at, failed>>

\* BOOST_CHECK(all_passed)
TellAll ==
    /\ Checked
    /\ failed' = IF allPassed THEN failed ELSE failed \cup {All}
    /\ at' = "telling"
    /\ UNCHANGED <<vars, void, shouldbe, cursor, allPassed, checks>>

\* BOOST_CHECK(compare(*result, shouldbe)), of each row kept
TellRow ==
    /\ at = "telling" /\ checks # << >>
    /\ failed' = IF Compare(results[Head(checks)], shouldbe[Head(checks)])
                 THEN failed ELSE failed \cup {Head(checks)}
    /\ checks' = Tail(checks)
    /\ UNCHANGED <<vars, void, shouldbe, at, cursor, allPassed>>

TestEnds ==
    /\ at = "telling" /\ checks = << >>
    /\ at' = "over"
    /\ UNCHANGED <<vars, void, shouldbe, cursor, allPassed, checks, failed>>

Check == BeginCheck \/ PassRow \/ FailRow \/ TellAll \/ TellRow \/ TestEnds

Done == (at = "over" \/ death # "none") /\ UNCHANGED testVars

TestNext == Call \/ Check \/ Done

TestSpec == TestInit /\ [][TestNext]_testVars /\ WF_testVars(Call \/ Check)

-----------------------------------------------------------------------------
\* Properties

\* What a row of the table asks for: in one of void any value, or an error that
\* means the same errno, whichever of the two categories says so; otherwise
\* the very outcome.
Meaning(x) == IF Code(x)[1] \in {"system", "generic"}
              THEN <<"errno", Code(x)[2]>> ELSE Code(x)
Met(r) ==
    IF HasError(shouldbe[r])
    THEN /\ HasError(results[r])
         /\ IF void THEN Meaning(results[r]) = Meaning(shouldbe[r])
            ELSE Code(results[r]) = Code(shouldbe[r])
    ELSE results[r] \in Values /\ (void \/ results[r] = shouldbe[r])

\* An STL that gives errno values of system_category no generic condition does
\* not see that a generic code the kernel returned means a system code of the
\* table: the code helps it only the other way round.
Helped(r) ==
    MapsSystem \/ ~ /\ HasError(results[r]) /\ Code(results[r])[1] = "generic"
                    /\ HasError(shouldbe[r]) /\ Code(shouldbe[r])[1] = "system"

\* "True if all the results match": the test fails exactly if some row did not
\* end as its table asks for.
VerdictRight ==
    at = "over" /\ (\A r \in Rows : Helped(r)) =>
        (failed = {} <=> \A r \in Rows : Met(r))

\* Boost.Test is told of each row that did not end so, and of the whole: no row
\* hides another, though they are told after all were checked.
FailuresTold ==
    at = "over" /\ (\A r \in Rows : Helped(r)) /\ failed # {} =>
        failed = {All} \cup {r \in Rows : ~Met(r)}

\* A test whose table asks for values does not pass when a hook or a kernel
\* threw, or a workspace was not as its model: whichever row, phase and result
\* it was.
ThrewFails ==
    \A r \in Rows :
        /\ at = "over" /\ ~HasError(shouldbe[r])
        /\ threw[r] # "no" \/ results[r] \in Verdicts
        => failed # {}

\* The inductive invariant behind these: what is kept for later and what was
\* told are the rows that did not match, all of them and no others.
Matches(r) == CheckResult(results[r], shouldbe[r])
Kept == {checks[i] : i \in 1 .. Len(checks)}
Unmatched == {r \in Rows : ~Matches(r)}

TestTypeOK ==
    /\ void \in BOOLEAN
    /\ shouldbe \in [Rows -> WantedErrors \cup (IF void THEN {Any} ELSE Values)]
    /\ at \in {"calling", "checking", "telling", "over"}
    /\ cursor \in 0 .. NRows /\ allPassed \in BOOLEAN
    /\ checks \in Seq(Rows)

TestInv ==
    /\ IInv /\ TestTypeOK
    /\ at # "calling" => returned
    /\ at = "calling" => cursor = 0
    /\ at \in {"calling", "checking"} =>
        failed = {} /\ Kept = {r \in Unmatched : r < cursor}
    /\ at \in {"telling", "over"} =>
        cursor = NRows
        /\ failed \cup Kept = Unmatched \cup (IF allPassed THEN {} ELSE {All})
    /\ at = "over" => checks = << >>
    /\ allPassed <=> \A r \in Rows : r < cursor => Matches(r)
=============================================================================
