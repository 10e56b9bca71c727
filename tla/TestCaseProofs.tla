---------------------------- MODULE TestCaseProofs ----------------------------
(***************************************************************************)
(* Proofs about TestCase, for every table, kernel and list of hooks, any   *)
(* error codes and any numbers of them.                                    *)
(***************************************************************************)
EXTENDS TestCase, PermuterProofs

-----------------------------------------------------------------------------
\* Outcomes

LEMMA KindsOfOutcomes ==
    /\ \A v \in Values : ~HasError(v)
    /\ ~HasError(Any) /\ Any \notin Outcomes
    /\ \A e \in WantedErrors \cup Codes \cup Verdicts : HasError(e)
    /\ \A e \in Codes \cup Verdicts : e \notin Values
  BY OutcomesAssumption, CodesAssumption DEF HasError, Coded, Outcomes

\* An errno value has one of two categories and a number, another code has a
\* category that is neither.
LEMMA CodeFacts ==
    ASSUME NEW e, HasError(e)
    PROVE  /\ Code(e) = <<Code(e)[1], Code(e)[2]>>
           /\ Code(e)[1] \in {"system", "generic", "own", "kerneltest"}
  BY CodesAssumption DEF Code, Coded

\* Codes are equivalent if they mean the same.
LEMMA EquivalentMeaning ==
    ASSUME NEW got, NEW want, HasError(got), HasError(want),
           MapsSystem \/ ~ (Code(got)[1] = "generic" /\ Code(want)[1] = "system")
    PROVE  Equivalent(got, want) <=> Meaning(got) = Meaning(want)
<1> DEFINE c == Code(got)[1]
           k == Code(got)[2]
           d == Code(want)[1]
           l == Code(want)[2]
<1>1. Code(got) = <<c, k>> /\ c \in {"system", "generic", "own", "kerneltest"}
  BY CodeFacts
<1>2. Code(want) = <<d, l>> /\ d \in {"system", "generic", "own", "kerneltest"}
  BY CodeFacts
<1> HIDE DEF c, k, d, l
<1>3. Meaning(got) = IF c \in {"system", "generic"} THEN <<"errno", k>> ELSE <<c, k>>
  BY <1>1 DEF Meaning
<1>4. Meaning(want) = IF d \in {"system", "generic"} THEN <<"errno", l>> ELSE <<d, l>>
  BY <1>2 DEF Meaning
<1>5. Meaning(got) = Meaning(want) <=>
        k = l /\ (c = d \/ {c, d} = {"system", "generic"})
  BY <1>1, <1>2, <1>3, <1>4
<1>6. Equivalent(got, want) <=>
        k = l /\ (\/ c = d
                  \/ MapsSystem /\ {c, d} = {"system", "generic"}
                  \/ c = "system" /\ d = "generic")
  <2>1. Condition(Code(got)) = IF c = "system" /\ MapsSystem THEN <<"generic", k>> ELSE <<c, k>>
    BY <1>1 DEF Condition
  <2>2. Condition(Code(want)) = IF d = "system" /\ MapsSystem THEN <<"generic", l>> ELSE <<d, l>>
    BY <1>2 DEF Condition
  <2> QED BY <1>1, <1>2, <2>1, <2>2 DEF Equivalent, Means
<1>7. MapsSystem \/ ~ (c = "generic" /\ d = "system")
  BY DEF c, d
<1> QED BY <1>5, <1>6, <1>7

\* Of the outcomes there can be, those match that end the row as the table asks.
LEMMA MatchIsMet ==
    ASSUME TestTypeOK, NEW r \in Rows, results[r] \in Outcomes, Helped(r)
    PROVE  Matches(r) <=> Met(r)
<1> DEFINE got == results[r]
           want == shouldbe[r]
<1>1. want \in WantedErrors \cup (IF void THEN {Any} ELSE Values) /\ void \in BOOLEAN
  BY DEF TestTypeOK
<1>2. got \in Values \/ HasError(got)
  BY DEF Outcomes, HasError, Coded
<1>3. CASE HasError(want)
  <2>1. want # Any /\ want \notin Values
    BY <1>3, KindsOfOutcomes
  <2>2. CASE ~HasError(got)
    BY <1>1, <1>3, <2>1, <2>2 DEF Matches, CheckResult, Met
  <2>3. CASE HasError(got) /\ void
    <3>1. Equivalent(got, want) <=> Meaning(got) = Meaning(want)
      BY <1>3, <2>3, EquivalentMeaning DEF Helped
    <3> QED BY <1>3, <2>1, <2>3, <3>1 DEF Matches, CheckResult, Met
  <2>4. CASE HasError(got) /\ ~void
    BY <1>3, <2>1, <2>4 DEF Matches, CheckResult, Met
  <2> QED BY <1>1, <2>2, <2>3, <2>4
<1>4. CASE ~HasError(want)
  <2>1. IF void THEN want = Any ELSE want \in Values
    BY <1>1, <1>4, KindsOfOutcomes
  <2> QED BY <1>1, <1>2, <1>4, <2>1, KindsOfOutcomes DEF Matches, CheckResult, Met
<1> QED BY <1>3, <1>4

\* What the deferred check accepts was accepted before: compare() is no weaker
\* than check_result().
LEMMA CompareMatches ==
    ASSUME NEW got, NEW want, Compare(got, want)
    PROVE  CheckResult(got, want)
<1>1. CASE void /\ want = Any /\ got \in Values
  BY <1>1 DEF CheckResult
<1>2. CASE HasError(want) /\ HasError(got) /\ Code(got) = Code(want)
  <2>1. Equivalent(got, want)
    BY <1>2 DEF Equivalent, Means
  <2> QED BY <1>2, <2>1 DEF CheckResult
<1>3. CASE ~void /\ got = want
  BY <1>3 DEF CheckResult
<1> QED BY <1>1, <1>2, <1>3 DEF Compare

-----------------------------------------------------------------------------
\* The invariant

LEMMA NoneBefore ==
    /\ \A r \in Rows : ~(r < 0)
    /\ {r \in Unmatched : r < 0} = {}
  BY SizesAssumption DEF Rows, Unmatched

LEMMA InitTestInv == TestInit => TestInv
<1> SUFFICES ASSUME TestInit PROVE TestInv
  OBVIOUS
<1>1. IInv
  BY InitIInv DEF TestInit
<1>2. TestTypeOK /\ Kept = {}
  BY SizesAssumption DEF TestInit, TestTypeOK, Kept
<1> QED BY <1>1, <1>2, NoneBefore DEF TestInit, TestInv

LEMMA KeptIsRows == ASSUME TestTypeOK PROVE Kept \subseteq Rows
  BY DEF TestTypeOK, Kept

\* A step of operator(): what is checked later is not there yet.
LEMMA CallTestInv == ASSUME TestInv, Call PROVE TestInv'
<1>1. [Next]_vars
  BY DEF Call, Next
<1>2. IInv'
  BY <1>1, NextIInv DEF TestInv
<1>3. at = "calling" /\ cursor = 0 /\ UNCHANGED test
  BY DEF Call, TestInv
<1>4. Kept = {} /\ failed = {}
  BY <1>3, NoneBefore DEF TestInv
<1>5. allPassed
  BY <1>3, NoneBefore DEF TestInv
<1>6. TestTypeOK' /\ Kept' = {} /\ at' = "calling" /\ cursor' = 0 /\ failed' = {}
  BY <1>3, <1>4 DEF TestInv, test, TestTypeOK, Kept
<1>7. allPassed'
  BY <1>3, <1>5 DEF test
<1>8. {r \in Unmatched' : r < 0} = {} /\ \A r \in Rows : ~(r < 0)
  BY NoneBefore DEF Unmatched
<1> QED BY <1>2, <1>6, <1>7, <1>8 DEF TestInv

\* From there on the results stay as they are.
LEMMA StillIInv ==
    ASSUME TestInv, UNCHANGED <<vars, void, shouldbe>>
    PROVE  /\ IInv' /\ returned' = returned
           /\ Unmatched' = Unmatched
           /\ \A r \in Rows : Matches(r)' <=> Matches(r)
<1>1. [Next]_vars
  OBVIOUS
<1>2. IInv'
  BY <1>1, NextIInv DEF TestInv
<1>3. results' = results /\ void' = void /\ shouldbe' = shouldbe /\ returned' = returned
  BY DEF vars
<1>4. \A r \in Rows : Matches(r)' <=> Matches(r)
  BY <1>3 DEF Matches, CheckResult
<1> QED BY <1>2, <1>3, <1>4 DEF Unmatched

LEMMA BeginCheckTestInv == ASSUME TestInv, BeginCheck PROVE TestInv'
<1>1. UNCHANGED <<vars, void, shouldbe, cursor, allPassed, checks, failed>>
  BY DEF BeginCheck
<1>2. IInv' /\ Unmatched' = Unmatched /\ (\A r \in Rows : Matches(r)' <=> Matches(r))
      /\ returned' = returned
  BY <1>1, StillIInv
<1> QED BY <1>1, <1>2 DEF BeginCheck, TestInv, TestTypeOK, Kept

LEMMA PassRowTestInv == ASSUME TestInv, PassRow PROVE TestInv'
<1>1. IInv' /\ Unmatched' = Unmatched /\ (\A r \in Rows : Matches(r)' <=> Matches(r))
      /\ returned' = returned
  BY StillIInv DEF PassRow
<1>2. cursor \in Rows /\ Matches(cursor) /\ cursor' = cursor + 1 /\ cursor' \in 0 .. NRows
  BY SizesAssumption DEF PassRow, Checking, TestInv, TestTypeOK, Rows, Matches
<1>3. \A r \in Rows : r < cursor' <=> r < cursor \/ r = cursor
  BY <1>2, SizesAssumption DEF Rows
<1>4. {r \in Unmatched' : r < cursor'} = {r \in Unmatched : r < cursor}
  BY <1>1, <1>2, <1>3 DEF Unmatched
<1>5. TestTypeOK' /\ Kept' = Kept /\ at' = "checking" /\ at = "checking" /\ failed' = failed
      /\ allPassed' = allPassed
  BY <1>2 DEF PassRow, Checking, TestInv, TestTypeOK, Kept
<1>6. allPassed' <=> \A r \in Rows : r < cursor' => Matches(r)'
  BY <1>1, <1>2, <1>3, <1>5 DEF TestInv
<1> QED BY <1>1, <1>4, <1>5, <1>6 DEF TestInv

LEMMA FailRowTestInv == ASSUME TestInv, FailRow PROVE TestInv'
<1>1. IInv' /\ Unmatched' = Unmatched /\ (\A r \in Rows : Matches(r)' <=> Matches(r))
      /\ returned' = returned
  BY StillIInv DEF FailRow
<1>2. cursor \in Rows /\ ~Matches(cursor) /\ cursor' = cursor + 1 /\ cursor' \in 0 .. NRows
  BY SizesAssumption DEF FailRow, Checking, TestInv, TestTypeOK, Rows, Matches
<1>3. \A r \in Rows : r < cursor' <=> r < cursor \/ r = cursor
  BY <1>2, SizesAssumption DEF Rows
<1>4. {r \in Unmatched' : r < cursor'} = {r \in Unmatched : r < cursor} \cup {cursor}
  BY <1>1, <1>2, <1>3 DEF Unmatched
<1>5. checks \in Seq(Rows) /\ checks' = Append(checks, cursor)
  BY DEF FailRow, TestInv, TestTypeOK
<1>6. Kept' = Kept \cup {cursor}
  BY <1>2, <1>5 DEF Kept
<1>7. TestTypeOK' /\ at' = "checking" /\ at = "checking" /\ failed' = failed /\ ~allPassed'
  <2>1. checks' \in Seq(Rows)
    BY <1>2, <1>5
  <2>2. ~allPassed' /\ allPassed' \in BOOLEAN
    BY DEF FailRow
  <2> QED BY <1>2, <2>1, <2>2 DEF FailRow, Checking, TestInv, TestTypeOK
<1>8. allPassed' <=> \A r \in Rows : r < cursor' => Matches(r)'
  BY <1>1, <1>2, <1>3, <1>7
<1>9. failed = {} /\ Kept = {r \in Unmatched : r < cursor}
  BY <1>7 DEF TestInv
<1> QED BY <1>1, <1>4, <1>6, <1>7, <1>8, <1>9 DEF TestInv

LEMMA TellAllTestInv == ASSUME TestInv, TellAll PROVE TestInv'
<1>1. IInv' /\ Unmatched' = Unmatched /\ (\A r \in Rows : Matches(r)' <=> Matches(r))
      /\ returned' = returned
  BY StillIInv DEF TellAll
<1>2. cursor = NRows /\ at = "checking" /\ failed = {} /\ Kept = {r \in Unmatched : r < cursor}
  BY DEF TellAll, Checked, TestInv
<1>3. Kept = Unmatched
  BY <1>2, SizesAssumption DEF Unmatched, Rows
<1>4. Kept' = Kept /\ TestTypeOK' /\ at' = "telling" /\ cursor' = cursor /\ allPassed' = allPassed
  BY DEF TellAll, TestInv, TestTypeOK, Kept
<1>5. failed' = IF allPassed THEN {} ELSE {All}
  BY <1>2 DEF TellAll
<1>6. returned
  BY <1>2 DEF TestInv
<1>7. allPassed' <=> \A r \in Rows : r < cursor' => Matches(r)'
  BY <1>1, <1>4 DEF TestInv
<1> QED BY <1>1, <1>2, <1>3, <1>4, <1>5, <1>6, <1>7 DEF TestInv

LEMMA TellRowTestInv == ASSUME TestInv, TellRow PROVE TestInv'
<1>1. IInv' /\ Unmatched' = Unmatched /\ (\A r \in Rows : Matches(r)' <=> Matches(r))
      /\ returned' = returned
  BY StillIInv DEF TellRow
<1>2. checks \in Seq(Rows) /\ checks # << >> /\ checks' = Tail(checks) /\ at = "telling"
  BY DEF TellRow, TestInv, TestTypeOK
<1>3. Head(checks) \in Rows /\ Kept = Kept' \cup {Head(checks)} /\ Tail(checks) \in Seq(Rows)
  <2>1. Len(checks) \in Nat \ {0} /\ Head(checks) = checks[1] /\ Len(Tail(checks)) = Len(checks) - 1
        /\ \A i \in 1 .. Len(checks) - 1 : Tail(checks)[i] = checks[i + 1]
    BY <1>2
  <2>2. Kept' = {checks[i + 1] : i \in 1 .. Len(checks) - 1}
    BY <1>2, <2>1 DEF Kept
  <2>3. \A i \in 1 .. Len(checks) :
          i = 1 \/ (i - 1 \in 1 .. Len(checks) - 1 /\ i = (i - 1) + 1)
    BY <2>1
  <2>4. \A i \in 1 .. Len(checks) - 1 : i + 1 \in 1 .. Len(checks)
    BY <2>1
  <2>5. 1 \in 1 .. Len(checks)
    BY <2>1
  <2>6. ASSUME NEW i \in 1 .. Len(checks) PROVE checks[i] \in Kept' \cup {Head(checks)}
    BY <2>1, <2>2, <2>3
  <2>7. Kept' \cup {Head(checks)} \subseteq Kept
    BY <2>1, <2>2, <2>4, <2>5 DEF Kept
  <2> QED BY <1>2, <2>6, <2>7 DEF Kept
<1>4. All \notin Rows
  BY SizesAssumption DEF All, Rows
<1>5. failed \cup Kept = Unmatched \cup (IF allPassed THEN {} ELSE {All})
  BY <1>2 DEF TestInv
<1>6. ~Matches(Head(checks))
  BY <1>3, <1>4, <1>5 DEF Unmatched
<1>7. ~Compare(results[Head(checks)], shouldbe[Head(checks)])
  BY <1>6, CompareMatches DEF Matches
<1>8. failed' = failed \cup {Head(checks)}
  BY <1>7 DEF TellRow
<1>9. TestTypeOK' /\ at' = "telling" /\ cursor' = cursor /\ allPassed' = allPassed
  BY <1>2, <1>3 DEF TellRow, TestInv, TestTypeOK
<1>10. allPassed' <=> \A r \in Rows : r < cursor' => Matches(r)'
  BY <1>1, <1>9 DEF TestInv
<1>11. failed' \cup Kept' = Unmatched' \cup (IF allPassed' THEN {} ELSE {All})
  BY <1>1, <1>3, <1>5, <1>8, <1>9
<1>12. cursor = NRows /\ returned
  BY <1>2 DEF TestInv
<1> QED BY <1>1, <1>9, <1>10, <1>11, <1>12 DEF TestInv

LEMMA TestEndsTestInv == ASSUME TestInv, TestEnds PROVE TestInv'
<1>1. IInv' /\ Unmatched' = Unmatched /\ (\A r \in Rows : Matches(r)' <=> Matches(r))
      /\ returned' = returned
  BY StillIInv DEF TestEnds
<1> QED BY <1>1 DEF TestEnds, TestInv, TestTypeOK, Kept

LEMMA NextTestInv == ASSUME TestInv, [TestNext]_testVars PROVE TestInv'
<1>1. CASE UNCHANGED testVars
  <2>1. IInv' /\ Unmatched' = Unmatched /\ (\A r \in Rows : Matches(r)' <=> Matches(r))
        /\ returned' = returned
    BY <1>1, StillIInv DEF testVars, test
  <2> QED BY <1>1, <2>1 DEF testVars, test, TestInv, TestTypeOK, Kept
<1> QED
  BY <1>1, CallTestInv, BeginCheckTestInv, PassRowTestInv, FailRowTestInv,
     TellAllTestInv, TellRowTestInv, TestEndsTestInv
  DEF TestNext, Check, Done

LEMMA TestInvariance == TestSpec => []TestInv
  BY InitTestInv, NextTestInv, PTL DEF TestSpec

-----------------------------------------------------------------------------
\* The results that are checked

LEMMA CheckedOutcomes ==
    ASSUME TestInv, at # "calling", NEW r \in Rows
    PROVE  /\ results[r] \in Outcomes
           /\ threw[r] # "no" => results[r] \in Codes
<1>1. r \in claimed /\ ~Running(r)
  BY DEF TestInv, IInv, ReturnInv, Running
<1>2. Complete(r) /\ threw[r] \in {"no", "setup", "kernel", "teardown"}
  BY <1>1 DEF TestInv, IInv, SettledInv, TypeOK
<1> QED BY <1>2 DEF Complete, Unthrown, PhaseCode, Outcomes, Codes

\* When the test is over it has failed exactly for the rows that do not match.
LEMMA ToldWhenOver ==
    ASSUME TestInv, at = "over"
    PROVE  failed = Unmatched \cup (IF Unmatched = {} THEN {} ELSE {All})
<1>1. Kept = {} /\ cursor = NRows
  BY DEF TestInv, Kept
<1>2. allPassed <=> \A r \in Rows : Matches(r)
  BY <1>1, SizesAssumption DEF TestInv, Rows
<1>3. failed = Unmatched \cup (IF allPassed THEN {} ELSE {All})
  BY <1>1 DEF TestInv
<1> QED BY <1>2, <1>3 DEF Unmatched

LEMMA UnmatchedIsUnmet ==
    ASSUME TestInv, at = "over", \A r \in Rows : Helped(r)
    PROVE  Unmatched = {r \in Rows : ~Met(r)}
  BY CheckedOutcomes, MatchIsMet DEF TestInv, Unmatched

\* A test fails exactly if some row did not end as its table asks for: check(),
\* check_result() and the deferred checks together.
THEOREM VerdictIsRight == TestSpec => []VerdictRight
<1>1. TestInv => VerdictRight
  BY ToldWhenOver, UnmatchedIsUnmet DEF VerdictRight
<1> QED BY <1>1, TestInvariance, PTL

\* Each such row is told to Boost.Test, and no other.
THEOREM FailuresAreTold == TestSpec => []FailuresTold
<1>1. TestInv => FailuresTold
  BY ToldWhenOver, UnmatchedIsUnmet DEF FailuresTold
<1> QED BY <1>1, TestInvariance, PTL

\* No test whose table asks for values passes when a hook or kernel threw or a
\* workspace differed: from the permuter's results to the end of the test.
THEOREM ThrowingFails == TestSpec => []ThrewFails
<1>1. ASSUME TestInv, at = "over", NEW r \in Rows, ~HasError(shouldbe[r]),
             threw[r] # "no" \/ results[r] \in Verdicts
      PROVE  failed # {}
  <2>1. results[r] \in Codes \cup Verdicts
    BY <1>1, CheckedOutcomes
  <2>2. HasError(results[r]) /\ results[r] \notin Values
    BY <2>1, KindsOfOutcomes
  <2>3. ~Matches(r)
    BY <1>1, <2>2 DEF Matches, CheckResult
  <2> QED BY <1>1, <2>3, ToldWhenOver DEF Unmatched
<1>2. TestInv => ThrewFails
  BY <1>1 DEF ThrewFails
<1> QED BY <1>2, TestInvariance, PTL
=============================================================================
