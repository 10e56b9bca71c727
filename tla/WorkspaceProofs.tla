--------------------------- MODULE WorkspaceProofs ---------------------------
(***************************************************************************)
(* Proofs about Workspace, for any team, templates and number of rows,     *)
(* attempts and crashes.                                                   *)
(***************************************************************************)
EXTENDS Workspace, FiniteSetTheorems, TLAPS

\* What a process is born with, and what a dead one leaves, is as good.
LEMMA DieIInv == ASSUME IInv, Die PROVE IInv'
<1> USE WorkspaceAssumption
<1>1. crashes' \in 0 .. MaxCrashes /\ rows' \in 0 .. Rows
  BY DEF IInv, TypeOK, Die
<1>2. team' \subseteq Threads /\ known' \subseteq Threads
  BY DEF Die, NewProcess
<1>3. /\ told' \in [Threads -> Threads \cup {None}]
      /\ source' \in [Threads -> Sources]
      /\ todo' \in [Threads -> SUBSET Files]
      /\ tries' \in [Threads -> 0 .. MaxTries]
      /\ pc' \in [Threads -> Labels]
  BY DEF Die, Sources, Labels
<1>4. TypeOK'
  BY <1>1, <1>2, <1>3 DEF IInv, TypeOK, Die
<1>5. WhereInv'
  BY DEF Die, WhereInv
<1>6. ASSUME NEW t \in Threads PROVE ThreadInv(t)'
  BY DEF Die, ThreadInv, At, Inside
<1> QED BY <1>4, <1>5, <1>6 DEF IInv

\* A step of thread t that leaves the other threads, the process and what it
\* knows of itself alone.
Own(t) ==
    /\ \A u \in Threads \ {t} :
         /\ pc'[u] = pc[u] /\ source'[u] = source[u] /\ todo'[u] = todo[u]
         /\ told'[u] = told[u] /\ dir'[u] = dir[u]
         /\ u \in dirty' <=> u \in dirty
    /\ team' = team

\* Whoever runs besides t is in the team, so that no other thread has its
\* workspace to itself.
LEMMA Others ==
    ASSUME IInv, NEW t \in team, t \in Threads, Own(t),
           starting' = starting \/ starting' = Start
    PROVE  \A u \in Threads \ {t} : ThreadInv(u)'
<1> SUFFICES ASSUME NEW u \in Threads \ {t} PROVE ThreadInv(u)'
  OBVIOUS
<1>1. ThreadInv(u) /\ ~(team \subseteq {u})
  BY DEF IInv
<1> QED BY <1>1 DEF ThreadInv, Own, At, Inside

\* The process is in no workspace before its first row.
LEMMA FirstStart == ASSUME IInv PROVE StartingPath = Start
<1>1. CASE starting = None
  <2>1. \A u \in Threads : At(u, "row")
    BY <1>1, WorkspaceAssumption DEF IInv, ThreadInv
  <2>2. cwd = Start
    BY <1>1, <2>1, WorkspaceAssumption DEF IInv, WhereInv, Inside, At
  <2> QED BY <1>1, <2>2 DEF StartingPath
<1>2. CASE starting = Start
  BY <1>2, WorkspaceAssumption DEF StartingPath
<1> QED BY <1>1, <1>2 DEF IInv, WhereInv

-----------------------------------------------------------------------------
\* Each action that can end a row early: a thread that throws is not inside its
\* workspace, unless it fails to leave it.
LEMMA ThrowIInv ==
    ASSUME IInv, NEW t \in Threads, Throw(t), UNCHANGED <<starting, rows>>,
           ~At(t, "row"),
           stranded' = TRUE \/ (stranded' = stranded /\ ~Inside(t))
    PROVE  IInv'
<1> USE WorkspaceAssumption
<1>1. /\ pc' \in [Threads -> Labels] /\ source' \in [Threads -> Sources]
      /\ todo' \in [Threads -> SUBSET Files] /\ tries' \in [Threads -> 0 .. MaxTries]
      /\ dirty' \subseteq Threads
  BY DEF IInv, TypeOK, Throw, EndRow, Goto, Labels, Sources
<1>2. TypeOK'
  <2>1. stranded' \in BOOLEAN
    BY DEF IInv, TypeOK
  <2> QED BY <1>1, <2>1 DEF IInv, TypeOK, Throw, fixed
<1>3. pc'[t] = "row" /\ t \in dirty' /\ t \in team /\ Own(t) /\ starting = Start
  BY DEF IInv, TypeOK, ThreadInv, Throw, EndRow, Goto, Own, fixed
<1>4. \A u \in Threads \ {t} : ThreadInv(u)'
  BY <1>3, Others
<1>5. ThreadInv(t)'
  BY <1>3 DEF ThreadInv, At, Inside
<1>6. WhereInv'
  <2>1. /\ cwd' = cwd /\ dir' = dir /\ litter' = litter /\ team' = team
        /\ \A u \in Threads \ {t} : pc'[u] = pc[u]
    BY <1>3 DEF Throw, Own, fixed
  <2>2. cwd \in Threads =>
          dir[cwd] # Absent /\ (pc'[cwd] \in {"row", "clear"} \/ Inside(cwd)')
    BY <1>3, <2>1 DEF IInv, WhereInv, Inside
  <2>3. ~stranded' => cwd = Start \/ (cwd \in Threads /\ Inside(cwd)')
    BY <2>1 DEF IInv, WhereInv, Inside
  <2>4. (litter => \A u \in Threads : ~(team \subseteq {u})) /\ starting' = Start
    BY <1>3 DEF IInv, WhereInv
  <2> QED BY <2>1, <2>2, <2>3, <2>4 DEF WhereInv, Inside
<1> QED BY <1>2, <1>4, <1>5, <1>6 DEF IInv

LEMMA FatalIInv ==
    ASSUME IInv, NEW t \in Threads, Fatal(t), ~At(t, "row"), ~Inside(t)
    PROVE  IInv'
  BY ThrowIInv, DieIInv DEF Fatal

LEMMA FailuresIInv ==
    ASSUME IInv, NEW t \in Threads,
           \/ ClearFails(t) \/ CreateFails(t) \/ GiveUp(t) \/ ChdirFails(t)
           \/ RemoveFails(t) \/ LeaveFails(t)
    PROVE  IInv'
<1>0. CASE LeaveFails(t)
  BY <1>0, ThrowIInv, DieIInv DEF LeaveFails, At
<1>1. ~LeaveFails(t) => ~At(t, "row") /\ ~Inside(t)
  BY DEF ClearFails, CreateFails, GiveUp, ChdirFails, RemoveFails, At, Inside
<1>2. CASE ChdirFails(t)
  BY <1>2, ThrowIInv DEF ChdirFails, At, Inside
<1>3. CASE ~ChdirFails(t) /\ ~LeaveFails(t)
  BY <1>1, <1>3, FatalIInv DEF ClearFails, CreateFails, GiveUp, RemoveFails
<1> QED BY <1>0, <1>2, <1>3

-----------------------------------------------------------------------------
LEMMA BeginIInv ==
    ASSUME IInv, NEW t \in Threads, Begin(t) PROVE IInv'
<1> USE WorkspaceAssumption
<1>1. CASE Die
  BY <1>1, DieIInv
<1>2. CASE Locate(t)
  <2>1. starting' = Start /\ t \in team /\ Own(t) /\ pc'[t] = "clear"
    BY <1>2, FirstStart DEF IInv, TypeOK, Locate, Begins, Goto, Own, fixed
  <2>2. TypeOK'
    <3>1. rows' \in 0 .. Rows
      BY <1>2 DEF IInv, TypeOK, Locate, Begins
    <3>2. source' \in [Threads -> Sources] /\ pc' \in [Threads -> Labels]
      BY <1>2 DEF IInv, TypeOK, Locate, Goto, Labels
    <3> QED BY <1>2, <2>1, <3>1, <3>2 DEF IInv, TypeOK, Locate, fixed
  <2>3. \A u \in Threads \ {t} : ThreadInv(u)'
    BY <2>1, Others
  <2>4. ThreadInv(t)'
    BY <1>2, <2>1 DEF ThreadInv, At, Inside, Own
  <2>5. WhereInv'
    BY <1>2, <2>1 DEF IInv, WhereInv, Locate, Begins, Own, At, Inside
  <2> QED BY <2>2, <2>3, <2>4, <2>5 DEF IInv
<1>3. CASE LocateFails(t) /\ ~Die
  <2>1. /\ EndRow(t) /\ starting' = Start /\ rows' = rows - 1
        /\ UNCHANGED <<fixed, cwd, stranded, told, dir, crashes, dirty, litter>>
        /\ t \in team /\ At(t, "row") /\ rows > 0
    BY <1>3, FirstStart DEF LocateFails, Begins
  <2>2. Own(t) /\ pc'[t] = "row"
    BY <2>1 DEF IInv, TypeOK, EndRow, Goto, Own, fixed
  <2>3. TypeOK'
    <3>1. rows' \in 0 .. Rows
      BY <2>1 DEF IInv, TypeOK
    <3>2. /\ pc' \in [Threads -> Labels] /\ source' \in [Threads -> Sources]
          /\ todo' \in [Threads -> SUBSET Files]
          /\ tries' \in [Threads -> 0 .. MaxTries]
      BY <2>1 DEF IInv, TypeOK, EndRow, Goto, Labels, Sources
    <3> QED BY <2>1, <3>1, <3>2 DEF IInv, TypeOK, fixed
  <2>4. \A u \in Threads \ {t} : ThreadInv(u)'
    BY <2>1, <2>2, Others
  <2>5. ThreadInv(t)'
    BY <2>1, <2>2 DEF IInv, ThreadInv, At, Inside
  <2>6. WhereInv'
    BY <2>1, <2>2 DEF IInv, WhereInv, Own, At, Inside
  <2> QED BY <2>3, <2>4, <2>5, <2>6 DEF IInv
<1> QED BY <1>1, <1>2, <1>3 DEF Begin, LocateUnknown, LocateFails

-----------------------------------------------------------------------------
\* The constructor: only t and its directory change.
LEMMA SetupIInv ==
    ASSUME IInv, NEW t \in Threads,
           \/ Clear(t) \/ Create(t) \/ BeginCopy(t) \/ CopyOne(t) \/ Copied(t)
           \/ Retry(t) \/ Chdir(t) \/ Tell(t)
    PROVE  IInv'
<1> USE WorkspaceAssumption
<1>1. ThreadInv(t) /\ ~At(t, "row") /\ t \in team /\ starting = Start
  BY DEF IInv, ThreadInv, At, Clear, Create, BeginCopy, CopyOne, Copied, Retry,
         Chdir, Tell
<1>2. /\ Own(t) /\ dirty' = dirty /\ litter' = litter /\ starting' = starting
      /\ \A u \in Threads : Inside(u) => Inside(u)'
  BY DEF IInv, TypeOK, Own, Inside, At, Goto, Clear, Removed, Create, BeginCopy, CopyOne,
         Copied, Retry, Chdir, Tell, fixed, where, row
<1>3. \A u \in Threads \ {t} : ThreadInv(u)'
  BY <1>1, <1>2, Others
<1>4. WhereInv'
  <2>1. CASE Chdir(t)
    <3>1. dir'[t] # Absent /\ cwd' = t /\ ~stranded' /\ Inside(t)'
      BY <1>1, <2>1 DEF IInv, TypeOK, ThreadInv, Chdir, Inside, At, Goto, Sources,
                        Absent, Files
    <3> QED BY <1>1, <1>2, <3>1 DEF IInv, WhereInv, Own
  <2>2. CASE Clear(t)
    <3>1. /\ cwd' = IF cwd = t THEN None ELSE cwd
          /\ stranded' = stranded /\ pc[t] = "clear"
      BY <2>2 DEF Clear, Removed, At
    <3>2. cwd = t => stranded
      BY <3>1 DEF IInv, WhereInv, Inside
    <3>3. cwd' \in Threads => cwd' = cwd /\ cwd # t
      BY <3>1
    <3> QED BY <1>1, <1>2, <3>1, <3>2, <3>3 DEF IInv, WhereInv, Own, Inside
  <2>3. CASE ~Chdir(t) /\ ~Clear(t)
    <3>1. cwd' = cwd /\ stranded' = stranded /\ pc[t] # "clear" /\ pc[t] # "row"
      BY <2>3 DEF Create, BeginCopy, CopyOne, Copied, Retry, Tell, At, where
    <3>2. Inside(t) => dir'[t] = dir[t]
      BY <2>3 DEF Create, BeginCopy, CopyOne, Copied, Retry, Tell, At, Inside
    <3>3. cwd \in Threads =>
            /\ dir'[cwd] # Absent
            /\ pc'[cwd] \in {"row", "clear"} \/ Inside(cwd)'
      BY <1>2, <3>1, <3>2 DEF IInv, WhereInv, Own
    <3> QED BY <1>2, <3>1, <3>3 DEF IInv, WhereInv, Own
  <2> QED BY <2>1, <2>2, <2>3
<1>5. source[t] # Absent => source[t] \subseteq Files /\ "absent" \notin source[t]
  <2>1. source[t] # Absent => source[t] \in Templates
    BY DEF IInv, TypeOK, Sources
  <2>2. \A s \in Templates : s \subseteq Files
    BY DEF Files
  <2>3. "absent" \notin Files
    BY DEF Files
  <2> QED BY <2>1, <2>2, <2>3
<1>6. CASE Clear(t)
  <2>1. /\ pc' = [pc EXCEPT ![t] = IF source[t] = Absent THEN "create" ELSE "mkdir"]
        /\ dir' = [dir EXCEPT ![t] = Absent]
    BY <1>6 DEF Clear, Removed, Goto
  <2>2. TypeOK'
    <3>1. pc' \in [Threads -> Labels]
      BY <2>1 DEF IInv, TypeOK, Labels
    <3>2. dir' \in [Threads -> {Absent} \cup SUBSET (Files \cup {Written})]
      BY <2>1 DEF IInv, TypeOK
    <3>3. cwd' \in Threads \cup {Start, None}
      BY <1>6 DEF IInv, TypeOK, Clear, Removed
    <3> QED BY <1>6, <3>1, <3>2, <3>3 DEF IInv, TypeOK, Clear, fixed, row
  <2>3. ThreadInv(t)'
    BY <1>1, <1>2, <1>6, <2>1
    DEF IInv, TypeOK, ThreadInv, Clear, At, Inside, Own, row
  <2> QED BY <1>3, <1>4, <2>2, <2>3 DEF IInv
<1>7. CASE Create(t)
  <2>1. TypeOK'
    BY <1>7 DEF IInv, TypeOK, Create, Goto, Labels, fixed, where, row
  <2>2. ThreadInv(t)'
    BY <1>1, <1>2, <1>7
    DEF IInv, TypeOK, ThreadInv, Create, Goto, At, Inside, Own, row
  <2> QED BY <1>3, <1>4, <2>1, <2>2 DEF IInv
<1>8. CASE BeginCopy(t)
  <2>1. source[t] # Absent /\ source[t] \subseteq Files
        /\ (dir[t] = Absent \/ dir[t] \subseteq source[t])
    BY <1>1, <1>5, <1>8 DEF ThreadInv, BeginCopy, At
  <2>2. dir' = [dir EXCEPT ![t] = IF dir[t] = Absent THEN {} ELSE dir[t]]
    BY <1>8 DEF IInv, TypeOK, BeginCopy
  <2>3. TypeOK'
    BY <1>8, <2>1, <2>2 DEF IInv, TypeOK, BeginCopy, Goto, Labels, fixed, where
  <2>4. ThreadInv(t)'
    BY <1>1, <1>2, <1>8, <2>1, <2>2
    DEF IInv, TypeOK, ThreadInv, BeginCopy, Goto, At, Inside, Own
  <2> QED BY <1>3, <1>4, <2>3, <2>4 DEF IInv
<1>9. CASE CopyOne(t)
  <2>1. source[t] # Absent /\ dir[t] \cup todo[t] = source[t]
        /\ source[t] \subseteq Files /\ "absent" \notin source[t]
    BY <1>1, <1>5, <1>9 DEF ThreadInv, CopyOne, At
  <2>2. PICK f \in todo[t] \ dir[t] :
          /\ dir' = [dir EXCEPT ![t] = dir[t] \cup {f}]
          /\ todo' = [todo EXCEPT ![t] = todo[t] \ {f}]
    BY <1>9 DEF IInv, TypeOK, CopyOne
  <2>3. dir'[t] = dir[t] \cup {f} /\ todo'[t] = todo[t] \ {f}
        /\ dir'[t] \subseteq Files
    BY <2>1, <2>2 DEF IInv, TypeOK
  <2>4. TypeOK'
    BY <1>9, <2>1, <2>2, <2>3 DEF IInv, TypeOK, CopyOne, fixed, where
  <2>5. ThreadInv(t)'
    BY <1>1, <1>2, <1>9, <2>1, <2>3
    DEF ThreadInv, CopyOne, At, Inside, Own
  <2> QED BY <1>3, <1>4, <2>4, <2>5 DEF IInv
<1>10. CASE Copied(t)
  <2>1. TypeOK'
    BY <1>10 DEF IInv, TypeOK, Copied, Goto, Labels, fixed, where, row
  <2>2. ThreadInv(t)'
    BY <1>1, <1>2, <1>10
    DEF IInv, TypeOK, ThreadInv, Copied, Goto, At, Inside, Own, row
  <2> QED BY <1>3, <1>4, <2>1, <2>2 DEF IInv
<1>11. CASE Retry(t)
  <2>1. TypeOK'
    <3>1. tries' \in [Threads -> 0 .. MaxTries]
      BY <1>11 DEF IInv, TypeOK, Retry, At
    <3> QED BY <1>11, <3>1 DEF IInv, TypeOK, Retry, Goto, Labels, fixed, where
  <2>2. ThreadInv(t)'
    BY <1>1, <1>2, <1>11
    DEF IInv, TypeOK, ThreadInv, Retry, Goto, At, Inside, Own
  <2> QED BY <1>3, <1>4, <2>1, <2>2 DEF IInv
<1>12. CASE Chdir(t)
  <2>1. TypeOK'
    BY <1>12 DEF IInv, TypeOK, Chdir, Goto, Labels, fixed, row
  <2>2. dir[t] # Absent
    BY <1>1, <1>5, <1>12 DEF ThreadInv, Chdir, At, Absent
  <2>3. ThreadInv(t)'
    BY <1>1, <1>2, <1>12, <2>2
    DEF IInv, TypeOK, ThreadInv, Chdir, Goto, At, Inside, Own, row
  <2> QED BY <1>3, <1>4, <2>1, <2>3 DEF IInv
<1>13. CASE Tell(t)
  <2>1. TypeOK'
    BY <1>13 DEF IInv, TypeOK, Tell, Goto, Labels, fixed, where, row
  <2>2. ThreadInv(t)'
    BY <1>1, <1>2, <1>13
    DEF IInv, TypeOK, ThreadInv, Tell, Goto, At, Inside, Own, where, row
  <2> QED BY <1>3, <1>4, <2>1, <2>2 DEF IInv
<1> QED
  BY <1>6, <1>7, <1>8, <1>9, <1>10, <1>11, <1>12, <1>13

-----------------------------------------------------------------------------
\* What a kernel writes goes to a workspace whose thread is inside.
LEMMA KernelWritesIInv ==
    ASSUME IInv, NEW t \in Threads, KernelWrites(t) PROVE IInv'
<1> USE WorkspaceAssumption
<1>1. ThreadInv(t) /\ At(t, "kernel") /\ t \in team
  BY DEF IInv, ThreadInv, KernelWrites, At
<1>2. CASE cwd = Start
  <2>1. \A u \in Threads : ~(team \subseteq {u})
    BY <1>1, <1>2 DEF ThreadInv, Inside, At
  <2>2. litter' = TRUE /\ UNCHANGED <<fixed, where, told, row, pc, rows, crashes,
                                      dirty, dir>>
    BY <1>2 DEF KernelWrites
  <2>3. TypeOK'
    BY <2>2 DEF IInv, TypeOK, fixed, where, row
  <2>4. WhereInv'
    BY <2>1, <2>2 DEF IInv, WhereInv, Inside, fixed, where
  <2>5. ASSUME NEW u \in Threads PROVE ThreadInv(u)'
    BY <2>2 DEF IInv, ThreadInv, Inside, At, fixed, where, row
  <2> QED BY <2>3, <2>4, <2>5 DEF IInv
<1>3. CASE cwd # Start
  <2>1. /\ cwd \in Threads /\ (pc[cwd] \in {"row", "clear"} \/ Inside(cwd))
        /\ dir' = [dir EXCEPT ![cwd] = dir[cwd] \cup {Written}]
        /\ dir[cwd] # Absent /\ dir[cwd] \subseteq Files \cup {Written}
        /\ UNCHANGED <<fixed, where, told, row, pc, rows, crashes, dirty, litter>>
    <3>1. cwd \in Threads
      BY <1>3 DEF IInv, TypeOK, KernelWrites
    <3>2. dir[cwd] # Absent /\ (pc[cwd] \in {"row", "clear"} \/ Inside(cwd))
      BY <3>1 DEF IInv, WhereInv
    <3>3. dir[cwd] \subseteq Files \cup {Written}
      BY <3>1, <3>2 DEF IInv, TypeOK
    <3> QED BY <1>3, <3>1, <3>2, <3>3 DEF KernelWrites
  <2>2. /\ \A u \in Threads \ {cwd} : dir'[u] = dir[u]
        /\ dir'[cwd] = dir[cwd] \cup {Written} /\ dir'[cwd] # Absent
        /\ dir' \in [Threads -> {Absent} \cup SUBSET (Files \cup {Written})]
    BY <2>1 DEF IInv, TypeOK, Absent, Written
  <2>3. TypeOK'
    BY <2>1, <2>2 DEF IInv, TypeOK, fixed, where, row
  <2>4. WhereInv'
    BY <2>1, <2>2 DEF IInv, WhereInv, Inside, fixed, where
  <2>5. ASSUME NEW u \in Threads \ {cwd} PROVE ThreadInv(u)'
    BY <2>1, <2>2 DEF IInv, ThreadInv, Inside, At, fixed, where, row
  <2>6. ASSUME NEW u \in Threads, u = cwd PROVE ThreadInv(u)'
    <3>1. ThreadInv(u) /\ (pc[u] \in {"row", "clear"} \/ Inside(u))
      BY <2>1, <2>6 DEF IInv
    <3>2. /\ pc' = pc /\ cwd' = cwd /\ starting' = starting /\ team' = team
          /\ told' = told /\ dirty' = dirty
      BY <2>1 DEF fixed, where
    <3> QED BY <2>1, <2>2, <2>6, <3>1, <3>2 DEF ThreadInv, Inside, At
  <2> QED BY <2>3, <2>4, <2>5, <2>6 DEF IInv
<1> QED BY <1>2, <1>3

\* The end of the kernel and the destructor.
LEMMA TeardownIInv ==
    ASSUME IInv, NEW t \in Threads,
           KernelEnds(t) \/ Untell(t) \/ Leave(t) \/ Remove(t)
    PROVE  IInv'
<1> USE WorkspaceAssumption
<1>1. ThreadInv(t) /\ ~At(t, "row") /\ t \in team /\ starting = Start
  BY DEF IInv, ThreadInv, At, KernelEnds, Untell, Leave, Remove
<1>2. Own(t) /\ litter' = litter /\ starting' = starting
  BY DEF IInv, TypeOK, Own, EndRow, Goto, KernelEnds, Untell, Leave, Remove,
         Removed, fixed, where, row
<1>3. \A u \in Threads \ {t} : ThreadInv(u)'
  BY <1>1, <1>2, Others
<1>4. CASE KernelEnds(t) \/ Untell(t)
  <2>1. TypeOK'
    BY <1>4 DEF IInv, TypeOK, KernelEnds, Untell, Goto, Labels, fixed, where, row
  <2>2. Inside(t) /\ Inside(t)' /\ ~At(t, "kernel")' /\ cwd' = cwd
        /\ dir' = dir /\ stranded' = stranded
    BY <1>4 DEF IInv, TypeOK, KernelEnds, Untell, Goto, Inside, At, where
  <2>3. ThreadInv(t)'
    BY <1>1, <1>2, <2>2 DEF ThreadInv, Inside, At, Own
  <2>4. WhereInv'
    BY <1>2, <2>2 DEF IInv, WhereInv, Inside, Own
  <2> QED BY <1>3, <2>1, <2>3, <2>4 DEF IInv
<1>5. CASE Leave(t)
  <2>1. TypeOK'
    BY <1>1, <1>5 DEF IInv, TypeOK, Leave, Goto, Labels, fixed, row
  <2>2. pc'[t] = "remove" /\ cwd' = Start /\ ~stranded'
    BY <1>1, <1>5 DEF IInv, TypeOK, Leave, Goto
  <2>3. ThreadInv(t)'
    BY <1>1, <1>2, <2>2 DEF ThreadInv, Inside, At, Own
  <2>4. WhereInv'
    BY <1>2, <2>2 DEF IInv, WhereInv, Own
  <2> QED BY <1>3, <2>1, <2>3, <2>4 DEF IInv
<1>6. CASE Remove(t)
  <2>1. /\ pc' \in [Threads -> Labels] /\ source' \in [Threads -> Sources]
        /\ todo' \in [Threads -> SUBSET Files]
        /\ tries' \in [Threads -> 0 .. MaxTries]
    BY <1>6 DEF IInv, TypeOK, Remove, EndRow, Goto, Labels, Sources
  <2>0. /\ dirty' \subseteq Threads
        /\ dir' \in [Threads -> {Absent} \cup SUBSET (Files \cup {Written})]
    BY <1>6 DEF IInv, TypeOK, Remove, Removed
  <2>3. /\ pc[t] = "remove" /\ pc'[t] = "row" /\ dir'[t] = Absent
        /\ cwd' = cwd /\ cwd # t /\ stranded' = stranded
    <3>1. pc[t] = "remove" /\ cwd # t
      BY <1>6 DEF IInv, WhereInv, Remove, At, Inside
    <3> QED BY <1>6, <3>1 DEF IInv, TypeOK, Remove, Removed, EndRow, Goto
  <2>2. TypeOK'
    BY <1>6, <2>0, <2>1, <2>3 DEF IInv, TypeOK, Remove, fixed
  <2>4. ThreadInv(t)'
    BY <2>3 DEF ThreadInv, Inside, At
  <2>5. WhereInv'
    BY <1>2, <2>3 DEF IInv, WhereInv, Inside, Own
  <2> QED BY <1>3, <2>2, <2>4, <2>5 DEF IInv
<1> QED BY <1>4, <1>5, <1>6

-----------------------------------------------------------------------------
LEMMA InitIInv == Init => IInv
<1> SUFFICES ASSUME Init PROVE IInv
  OBVIOUS
<1> USE WorkspaceAssumption DEF Init
<1>1. crashes \in 0 .. MaxCrashes /\ rows \in 0 .. Rows
      /\ tries \in [Threads -> 0 .. MaxTries]
  OBVIOUS
<1>2. TypeOK
  <2>1. throwing \in BOOLEAN /\ litter \in BOOLEAN /\ stranded \in BOOLEAN
    BY Zenon
  <2>2. team \subseteq Threads /\ known \subseteq Threads
    BY DEF NewProcess
  <2>3. /\ told \in [Threads -> Threads \cup {None}]
        /\ dir \in [Threads -> {Absent} \cup SUBSET (Files \cup {Written})]
        /\ source \in [Threads -> Sources] /\ todo \in [Threads -> SUBSET Files]
        /\ pc \in [Threads -> Labels]
    BY DEF Sources, Labels
  <2>4. starting \in Threads \cup {Start, None} /\ cwd \in Threads \cup {Start, None}
    OBVIOUS
  <2> QED BY <1>1, <2>1, <2>2, <2>3, <2>4 DEF TypeOK
<1>3. WhereInv
  BY DEF WhereInv
<1>4. ASSUME NEW t \in Threads PROVE ThreadInv(t)
  BY DEF ThreadInv, At, Inside
<1> QED BY <1>2, <1>3, <1>4 DEF IInv

LEMMA NextIInv == ASSUME IInv, [Next]_vars PROVE IInv'
<1>1. ASSUME NEW t \in Threads, Begin(t) \/ Step(t) \/ KernelWrites(t)
      PROVE  IInv'
  BY <1>1, BeginIInv, SetupIInv, FailuresIInv, TeardownIInv, KernelWritesIInv
  DEF Step, Setup, Teardown
<1>2. CASE Killed
  BY <1>2, DieIInv DEF Killed
<1>3. CASE UNCHANGED vars
  <2>1. TypeOK'
    BY <1>3 DEF IInv, TypeOK, vars, fixed, where, row
  <2>2. WhereInv'
    BY <1>3 DEF IInv, WhereInv, Inside, vars, fixed, where
  <2>3. ASSUME NEW t \in Threads PROVE ThreadInv(t)'
    BY <1>3 DEF IInv, ThreadInv, Inside, At, vars, fixed, where, row
  <2> QED BY <2>1, <2>2, <2>3 DEF IInv
<1> QED BY <1>1, <1>2, <1>3 DEF Next

LEMMA Invariance == Spec => []IInv
  BY InitIInv, NextIInv, PTL DEF Spec

-----------------------------------------------------------------------------
\* The state of the rows, the process and the file system stays well typed.
THEOREM TypeCorrect == Spec => []TypeOK
  BY Invariance, PTL DEF IInv

\* A workspace that has been set up is its template and nothing else, whatever
\* other rows, threads and processes have left or write meanwhile.
THEOREM FreshWorkspace == Spec => []WorkspaceFresh
<1>1. IInv => WorkspaceFresh
  BY DEF IInv, ThreadInv, WorkspaceFresh
<1> QED BY <1>1, Invariance, PTL

\* The process is back where it was started when no thread is inside, unless
\* current_path() failed when the last one left.
THEOREM BackAtStart == Spec => []CwdRestored
<1>1. IInv => CwdRestored
  BY DEF IInv, WhereInv, CwdRestored
<1> QED BY <1>1, Invariance, PTL

\* No thread removes the directory the process works in, its own or another's,
\* unless going back to the start has failed.
THEOREM WorkingDirectoryExists == Spec => []CwdExists
<1>1. IInv => CwdExists
  BY WorkspaceAssumption DEF IInv, WhereInv, ThreadInv, CwdExists
<1> QED BY <1>1, Invariance, PTL

\* A row that ended without a failure has left no workspace.
THEOREM NothingLeftBehind == Spec => []WorkspaceGone
<1>1. IInv => WorkspaceGone
  BY DEF IInv, ThreadInv, WorkspaceGone
<1> QED BY <1>1, Invariance, PTL

\* A thread that is alone works in its workspace and nowhere else.
THEOREM AloneIsInside == Spec => []AloneInWorkspace
<1>1. IInv => AloneInWorkspace
  <2> SUFFICES ASSUME IInv, Cardinality(team) = 1
               PROVE  /\ \A t \in Threads : At(t, "kernel") => cwd = t /\ told[t] = t
                      /\ ~litter
    BY DEF AloneInWorkspace
  <2>1. PICK u : team = {u}
    <3>1. IsFiniteSet(team)
      BY WorkspaceAssumption, FS_Subset DEF IInv, TypeOK
    <3> QED BY <3>1, FS_Singleton
  <2>2. u \in Threads
    BY <2>1 DEF IInv, TypeOK
  <2>3. ~litter
    BY <2>1, <2>2 DEF IInv, WhereInv
  <2>4. ASSUME NEW t \in Threads, At(t, "kernel")
        PROVE  cwd = t /\ told[t] = t
    BY <2>1, <2>4 DEF IInv, ThreadInv, Inside, At
  <2> QED BY <2>3, <2>4
<1> QED BY <1>1, Invariance, PTL

-----------------------------------------------------------------------------
\* Why a row ends.

LEMMA StepGoesFurther ==
    ASSUME IInv, NEW t \in Threads, Step(t)
    PROVE  pc'[t] = "row" \/ Further(t)
<1>1. TypeOK
  BY DEF IInv
<1>2. CASE Die \/ Throw(t) \/ LeaveFails(t)
  BY <1>1, <1>2 DEF LeaveFails, Die, Throw, EndRow, Goto, TypeOK
<1>3. CASE ClearFails(t) \/ CreateFails(t) \/ GiveUp(t) \/ ChdirFails(t) \/ RemoveFails(t)
  BY <1>2, <1>3 DEF ClearFails, CreateFails, GiveUp, ChdirFails, RemoveFails, Fatal
<1>4. CASE Clear(t) \/ Create(t) \/ BeginCopy(t) \/ Copied(t) \/ Chdir(t) \/ Tell(t)
  BY <1>1, <1>4
  DEF Clear, Create, BeginCopy, Copied, Chdir, Tell, At, Goto, Further, Ahead,
      row, TypeOK
<1>5. CASE KernelEnds(t) \/ Untell(t) \/ Leave(t)
  BY <1>1, <1>5 DEF KernelEnds, Untell, Leave, At, Goto, Further, Ahead, row, TypeOK
<1>6. CASE Remove(t)
  BY <1>1, <1>6 DEF Remove, EndRow, Goto, TypeOK
<1>7. CASE Retry(t)
  BY <1>1, <1>7 DEF Retry, Further, TypeOK
<1>8. CASE CopyOne(t)
  <2>1. IsFiniteSet(todo[t])
    <3>1. source[t] \in Templates /\ todo[t] \subseteq source[t]
      BY <1>1, <1>8 DEF CopyOne, At, IInv, ThreadInv, TypeOK, Sources
    <3>2. IsFiniteSet(source[t])
      BY <3>1, WorkspaceAssumption
    <3> QED BY <3>1, <3>2, FS_Subset
  <2>2. PICK f \in todo[t] : todo'[t] = todo[t] \ {f}
    BY <1>1, <1>8 DEF CopyOne, TypeOK
  <2>3. Cardinality(todo'[t]) < Cardinality(todo[t])
    <3>1. Cardinality(todo[t]) \in Nat
      BY <2>1, FS_CardinalityType
    <3>2. Cardinality(todo'[t]) = Cardinality(todo[t]) - 1
      BY <2>1, <2>2, FS_RemoveElement
    <3> QED BY <3>1, <3>2
  <2> QED BY <1>8, <2>3 DEF CopyOne, Further
<1> QED BY <1>2, <1>3, <1>4, <1>5, <1>6, <1>7, <1>8 DEF Step, Setup, Teardown

\* Other threads leave a row alone, unless the process dies.
LEMMA OthersLeaveIt ==
    ASSUME IInv, NEW t \in Threads, NEW u \in Threads \ {t},
           Begin(u) \/ Step(u) \/ KernelWrites(u)
    PROVE  pc'[t] = "row" \/ UNCHANGED <<pc[t], tries[t], todo[t]>>
<1>1. TypeOK
  BY DEF IInv
<1>2. CASE Die
  BY <1>2 DEF Die
<1>3. CASE Throw(u)
  BY <1>1, <1>3 DEF Throw, EndRow, Goto, TypeOK
<1>4. CASE Begin(u) /\ ~Die
  BY <1>1, <1>4
  DEF Begin, Locate, LocateFails, LocateUnknown, EndRow, Goto, TypeOK
<1>5. CASE Setup(u) /\ ~Die /\ ~Throw(u)
  BY <1>1, <1>5
  DEF Setup, Clear, ClearFails, Create, CreateFails, BeginCopy, CopyOne, Copied,
      Retry, GiveUp, Chdir, ChdirFails, Tell, Fatal, Goto, row, TypeOK
<1>6. CASE (Teardown(u) \/ KernelEnds(u) \/ KernelWrites(u)) /\ ~Die /\ ~Throw(u)
  BY <1>1, <1>6
  DEF Teardown, Untell, Leave, LeaveFails, Remove, RemoveFails, KernelEnds, KernelWrites,
      EndRow, Fatal, Goto, row, TypeOK
<1> QED BY <1>2, <1>3, <1>4, <1>5, <1>6 DEF Step

\* A row that has begun is taken further by each step of its hook, and by nothing
\* back.
THEOREM RowGoesOn == Spec => RowAdvances
<1> DEFINE Advances == \A t \in Threads : ~At(t, "row") =>
          \/ pc'[t] = "row"
          \/ Further(t)
          \/ ~Step(t) /\ UNCHANGED <<pc[t], tries[t], todo[t]>>
<1>1. ASSUME IInv, [Next]_vars PROVE [Advances]_vars
  <2> SUFFICES ASSUME Next, NEW t \in Threads, ~At(t, "row"), ~Step(t)
               PROVE  pc'[t] = "row" \/ UNCHANGED <<pc[t], tries[t], todo[t]>>
    BY <1>1, StepGoesFurther
  <2>1. CASE Killed
    BY <2>1 DEF Killed, Die
  <2>2. CASE Begin(t)
    BY <2>2 DEF Begin, Locate, LocateFails, LocateUnknown, Begins, At
  <2>3. CASE KernelWrites(t)
    BY <2>3 DEF KernelWrites, row
  <2>4. CASE \E u \in Threads \ {t} : Begin(u) \/ Step(u) \/ KernelWrites(u)
    BY <1>1, <2>4, OthersLeaveIt
  <2> QED BY <2>1, <2>2, <2>3, <2>4 DEF Next
<1> QED BY <1>1, Invariance, PTL DEF Spec, RowAdvances
=============================================================================
