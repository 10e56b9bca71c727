---------------------------- MODULE PermuterProofs ----------------------------
(***************************************************************************)
(* Proofs about Permuter, for every team of threads, number of rows and    *)
(* list of hooks.                                                          *)
(***************************************************************************)
EXTENDS Permuter, FiniteSetTheorems, TLAPS

\* Everything a thread has but its position: nothing of it is shared.
SameThread(u) ==
    /\ pc'[u] = pc[u] /\ idx'[u] = idx[u] /\ stage'[u] = stage[u]
    /\ n'[u] = n[u] /\ temp'[u] = temp[u] /\ held'[u] = held[u]
    /\ exc'[u] = exc[u]

SameRow(r) ==
    /\ results'[r] = results[r] /\ begun'[r] = begun[r]
    /\ finished'[r] = finished[r] /\ called'[r] = called[r]
    /\ threw'[r] = threw[r]

\* A step of thread t that touches its own variables and its own row.
Local(t) ==
    /\ \A u \in Threads \ {t} : SameThread(u)
    /\ \A r \in Rows \ {idx[t]} : SameRow(r)
    /\ claimed' = claimed /\ returned' = returned

\* A thread that is not idle works on a row, and no other thread does.
LEMMA OwnRow ==
    ASSUME IInv, NEW t \in Threads, pc[t] # "idle"
    PROVE  /\ idx[t] \in Rows /\ idx[t] \in claimed
           /\ \A u \in Threads : u # t => idx[u] # idx[t]
<1>1. idx[t] \in claimed /\ claimed \subseteq Rows
  BY DEF IInv, TypeOK, ThreadInv
<1>2. NoRow \notin Rows
  BY SizesAssumption DEF NoRow, Rows
<1>3. ASSUME NEW u \in Threads, u # t PROVE idx[u] # idx[t]
  <2>1. CASE pc[u] = "idle"
    BY <2>1, <1>1, <1>2 DEF IInv, ThreadInv, IdleInv
  <2>2. CASE pc[u] # "idle"
    BY <2>2, <1>3 DEF IInv, Exclusive
  <2> QED BY <2>1, <2>2
<1> QED BY <1>1, <1>3

\* What the other threads and the other rows keep through a local step.
LEMMA LocalStep ==
    ASSUME IInv, NEW t \in Threads, pc[t] # "idle", Local(t), TypeOK',
           pc'[t] # "idle" => idx'[t] = idx[t],
           pc'[t] = "idle" => idx'[t] = NoRow,
           ~returned
    PROVE  /\ \A u \in Threads \ {t} : ThreadInv(u)'
           /\ Exclusive' /\ UnclaimedInv' /\ ReturnInv'
           /\ \A r \in claimed' \ {idx[t]} : ~Running(r)' => Complete(r)'
<1>0. /\ idx[t] \in Rows /\ idx[t] \in claimed
      /\ \A u \in Threads : u # t => idx[u] # idx[t]
  BY OwnRow
<1>1. ASSUME NEW u \in Threads \ {t} PROVE ThreadInv(u)'
  <2>1. SameThread(u) /\ claimed' = claimed /\ ThreadInv(u)
    BY DEF Local, IInv
  <2>2. CASE pc[u] = "idle"
    BY <2>1, <2>2 DEF SameThread, ThreadInv, IdleInv
  <2>3. CASE pc[u] # "idle"
    <3>1. idx[u] \in Rows /\ SameRow(idx[u])
      BY <2>3, OwnRow, <1>0 DEF Local
    <3>2. idx'[u] = idx[u] /\ pc'[u] = pc[u]
      BY <2>1 DEF SameThread
    <3>3. /\ (SetupInv(u) => SetupInv(u)') /\ (BuiltInv(u) => BuiltInv(u)')
          /\ (UnwindInv(u) => UnwindInv(u)')
          /\ (TeardownInv(u) => TeardownInv(u)')
      BY <2>1, <3>1, <3>2
      DEF SameThread, SameRow, SetupInv, BuiltInv, UnwindInv, TeardownInv,
          Fresh, Ran
    <3> QED BY <2>1, <2>3, <3>2, <3>3 DEF ThreadInv
  <2> QED BY <2>2, <2>3
<1>2. Exclusive'
  <2> SUFFICES ASSUME NEW u \in Threads, NEW v \in Threads, u # v,
                      pc'[u] # "idle", pc'[v] # "idle"
               PROVE  idx'[u] # idx'[v]
    BY DEF Exclusive
  <2>1. \A w \in Threads \ {t} : pc'[w] = pc[w] /\ idx'[w] = idx[w]
    BY DEF Local, SameThread
  <2> QED BY <2>1, <1>0 DEF IInv, Exclusive
<1>3. UnclaimedInv'
  <2> SUFFICES ASSUME NEW r \in Rows, r \notin claimed
               PROVE  (begun[r] = 0 /\ Fresh(r))'
    BY DEF UnclaimedInv, Local
  <2>1. SameRow(r)
    BY <1>0 DEF Local
  <2> QED BY <2>1 DEF SameRow, IInv, UnclaimedInv, Fresh, Ran
<1>4. ReturnInv'
  BY DEF Local, ReturnInv
<1>5. ASSUME NEW r \in claimed' \ {idx[t]}, ~Running(r)'
      PROVE  Complete(r)'
  <2>1. r \in claimed /\ r \in Rows
    BY DEF Local, IInv, TypeOK
  <2>2. ~Running(r)
    BY <1>5, <1>0 DEF Running, Local, SameThread
  <2>3. SameRow(r)
    BY <2>1 DEF Local
  <2> QED BY <2>1, <2>2, <2>3 DEF IInv, SettledInv, Complete, SameRow, Ran
<1> QED BY <1>1, <1>2, <1>3, <1>4, <1>5

\* A local step of a thread that stays on its row.
LEMMA InnerStep ==
    ASSUME IInv, NEW t \in Threads, pc[t] # "idle", Local(t), TypeOK',
           idx'[t] = idx[t], pc'[t] # "idle", ~returned, ThreadInv(t)'
    PROVE  IInv'
<1>1. /\ \A u \in Threads \ {t} : ThreadInv(u)'
      /\ Exclusive' /\ UnclaimedInv' /\ ReturnInv'
      /\ \A r \in claimed' \ {idx[t]} : ~Running(r)' => Complete(r)'
  BY LocalStep
<1>2. Running(idx[t])'
  BY DEF Running
<1>3. SettledInv'
  BY <1>1, <1>2 DEF SettledInv
<1> QED BY <1>1, <1>3 DEF IInv

\* A local step that ends the row of its thread.
LEMMA LeaveStep ==
    ASSUME IInv, NEW t \in Threads, pc[t] # "idle", Local(t), TypeOK',
           idx'[t] = NoRow, pc'[t] = "idle", ~returned, ThreadInv(t)',
           NEW r, r = idx[t], Complete(r)'
    PROVE  IInv'
<1>1. /\ \A u \in Threads \ {t} : ThreadInv(u)'
      /\ Exclusive' /\ UnclaimedInv' /\ ReturnInv'
      /\ \A q \in claimed' \ {idx[t]} : ~Running(q)' => Complete(q)'
  BY LocalStep
<1>2. SettledInv'
  BY <1>1 DEF SettledInv
<1> QED BY <1>1, <1>2 DEF IInv

-----------------------------------------------------------------------------
\* Type correctness is inductive by itself but for n and begun, whose bounds
\* rest on the guards.

LEMMA TypeStep ==
    ASSUME IInv, [Next]_vars
    PROVE  TypeOK'
<1> USE SizesAssumption DEF TypeOK
<1>1. TypeOK
  BY DEF IInv
<1>2. ASSUME NEW t \in Threads, Step(t) PROVE TypeOK'
  <2> USE <1>1
  <2>0. pc[t] # "idle" => idx[t] \in Rows
    BY OwnRow
  <2>1. CASE Claim(t)
    BY <2>1 DEF Claim, control, history, Phases
  <2>2. CASE BeginHook(t)
    <3>1. begun[idx[t]] = n[t] /\ idx[t] \in Rows
      BY <2>2, OwnRow DEF BeginHook, IInv, ThreadInv, SetupInv
    <3>2. n[t] + 1 \in 0 .. NHooks /\ n[t] + 1 \in Hooks
      BY <2>2 DEF BeginHook, Hooks
    <3> QED BY <2>2, <3>1, <3>2 DEF BeginHook
  <2>3. CASE BeginThrows(t)
    BY <2>3 DEF BeginThrows, Phases
  <2>4. CASE BeginDies(t)
    BY <2>4 DEF BeginDies, control, history
  <2>5. CASE MoveHooks(t)
    BY <2>5 DEF MoveHooks, history, Phases
  <2>6. CASE EnterKernel(t)
    BY <2>6 DEF EnterKernel, history, Phases
  <2>7. CASE KernelReturns(t)
    BY <2>0, <2>7 DEF KernelReturns, Phases, Outcomes, Hooks
  <2>8. CASE KernelThrows(t)
    BY <2>0, <2>8 DEF KernelThrows, Phases, Hooks
  <2>9. CASE DestroyInactive(t)
    BY <2>9 DEF DestroyInactive, Deactivate, AtVictim, history
  <2>10. CASE FinishHook(t)
    <3>1. idx[t] \in Rows /\ Victim(t) \in Hooks /\ n[t] - 1 \in 0 .. NHooks
      BY <2>0, <2>10 DEF FinishHook, AtVictim, Destroying, Victim, Hooks
    <3>2. finished' \in [Rows -> [Hooks -> Nat]]
      <4>1. finished' = [finished EXCEPT ![idx[t]][Victim(t)] = @ + 1]
        BY <2>10 DEF FinishHook
      <4> QED BY <3>1, <4>1
    <3>3. results' \in [Rows -> Outcomes \cup {Unset}]
      BY <2>10, <3>1 DEF FinishHook, Outcomes
    <3>4. workdir' \in [Threads -> BOOLEAN]
      <4>1. workdir' = [workdir EXCEPT ![t] = @ /\ ~IsSetup(Victim(t))]
        BY <2>10 DEF FinishHook
      <4> QED BY <4>1
    <3>5. /\ n' \in [Threads -> 0 .. NHooks] /\ temp' \in [Threads -> SUBSET Hooks]
          /\ held' \in [Threads -> SUBSET Hooks]
      BY <2>10, <3>1 DEF FinishHook, Deactivate
    <3> QED BY <2>10, <3>2, <3>3, <3>4, <3>5 DEF FinishHook
  <2>11. CASE FinishThrows(t)
    <3>1. idx[t] \in Rows /\ Victim(t) \in Hooks /\ n[t] - 1 \in 0 .. NHooks
      BY <2>0, <2>11 DEF FinishThrows, AtVictim, Destroying, Victim, Hooks
    <3> QED BY <2>11, <3>1 DEF FinishThrows, Deactivate
  <2>12. CASE FinishTerminates(t) \/ ComparisonDies(t)
    BY <2>12 DEF FinishTerminates, ComparisonDies, control, history
  <2>13. CASE CatchException(t)
    <3>1. idx[t] \in Rows /\ CodeOf(stage[t]) \in Outcomes
      BY <2>0, <2>13 DEF CatchException, CodeOf, Outcomes, Codes
    <3> QED BY <2>13, <3>1 DEF CatchException, LeaveRow, history, Phases
  <2>14. CASE EndRow(t)
    BY <2>14 DEF EndRow, LeaveRow, history, Phases
  <2> QED BY <1>2, <2>1, <2>2, <2>3, <2>4, <2>5, <2>6, <2>7, <2>8, <2>9,
             <2>10, <2>11, <2>12, <2>13, <2>14 DEF Step
<1>3. CASE Return
  BY <1>1, <1>3 DEF Return, control, history
<1>4. CASE UNCHANGED vars
  BY <1>1, <1>4 DEF vars, control, history
<1> QED BY <1>2, <1>3, <1>4 DEF Next, Stopped

-----------------------------------------------------------------------------
\* The inductive step, an action (or a few alike) at a time.

LEMMA ClaimStep ==
    ASSUME IInv, NEW t \in Threads, Claim(t), ~returned, TypeOK'
    PROVE  IInv'
<1>1. PICK r \in Rows : /\ r \notin claimed
                        /\ idx' = [idx EXCEPT ![t] = r]
                        /\ claimed' = claimed \cup {r}
  BY DEF Claim, MayTake
<1>2. /\ pc[t] = "idle" /\ pc' = [pc EXCEPT ![t] = "setup"]
      /\ stage' = [stage EXCEPT ![t] = 0] /\ n' = [n EXCEPT ![t] = 0]
      /\ UNCHANGED <<temp, held, exc, results, begun, finished, called, threw,
                     returned>>
  BY DEF Claim, history
<1>3. TypeOK /\ NoRow \notin Rows
  BY SizesAssumption DEF IInv, NoRow, Rows
<1>4. \A u \in Threads : idx[u] # r
  BY <1>1, <1>3 DEF IInv, ThreadInv, IdleInv
<1>5. ThreadInv(t)'
  <2>1. pc'[t] = "setup" /\ idx'[t] = r /\ stage'[t] = 0 /\ n'[t] = 0
    BY <1>1, <1>2, <1>3 DEF TypeOK
  <2>2. begun[r] = 0 /\ Fresh(r) /\ temp[t] = {} /\ held[t] = {} /\ ~exc[t]
    BY <1>1, <1>2 DEF IInv, UnclaimedInv, ThreadInv, IdleInv
  <2>3. SetupInv(t)'
    BY <1>2, <2>1, <2>2 DEF SetupInv, Fresh, Ran
  <2> QED BY <1>1, <2>1, <2>3 DEF ThreadInv
<1>6. ASSUME NEW u \in Threads \ {t} PROVE ThreadInv(u)'
  <2>1. SameThread(u) /\ ThreadInv(u)
    BY <1>1, <1>2, <1>3 DEF SameThread, IInv, TypeOK
  <2> QED BY <1>1, <1>2, <2>1
          DEF SameThread, ThreadInv, IdleInv, SetupInv, BuiltInv, UnwindInv,
              TeardownInv, Fresh, Ran
<1>7. Exclusive'
  BY <1>1, <1>2, <1>3, <1>4 DEF IInv, Exclusive, TypeOK
<1>8. UnclaimedInv'
  BY <1>1, <1>2 DEF IInv, UnclaimedInv, Fresh, Ran
<1>9. SettledInv'
  <2> SUFFICES ASSUME NEW q \in claimed', ~Running(q)'
               PROVE  Complete(q)'
    BY DEF SettledInv
  <2>1. q # r
    BY <1>1, <1>2, <1>3 DEF Running, TypeOK
  <2>2. q \in claimed /\ ~Running(q)
    BY <1>1, <1>2, <1>3, <2>1 DEF Running, TypeOK
  <2> QED BY <1>2, <2>2 DEF IInv, SettledInv, Complete, Ran
<1>10. ReturnInv'
  BY <1>2 DEF ReturnInv
<1> QED BY <1>5, <1>6, <1>7, <1>8, <1>9, <1>10 DEF IInv

LEMMA SetupStep ==
    ASSUME IInv, NEW t \in Threads, ~returned, TypeOK',
           BeginHook(t) \/ BeginThrows(t) \/ MoveHooks(t)
    PROVE  IInv'
<1>1. /\ pc[t] = "setup" /\ SetupInv(t) /\ TypeOK
      /\ idx[t] \in Rows /\ idx[t] \in claimed
  BY OwnRow DEF BeginHook, BeginThrows, MoveHooks, IInv, ThreadInv
<1>2. Local(t)
  BY <1>1 DEF BeginHook, BeginThrows, MoveHooks, Local, SameThread, SameRow,
              history, TypeOK
<1>3. CASE BeginHook(t)
  <2>1. /\ pc'[t] = "setup" /\ idx'[t] = idx[t] /\ n'[t] = n[t] + 1
        /\ temp'[t] = temp[t] \cup {n[t] + 1} /\ begun'[idx[t]] = n[t] + 1
        /\ UNCHANGED <<stage, exc, held, results, finished, called, threw,
                       claimed>>
    BY <1>1, <1>3 DEF BeginHook, SetupInv, TypeOK
  <2>2. temp'[t] = 1 .. n'[t]
    <3>1. n[t] \in Nat
      BY <1>1 DEF TypeOK
    <3> QED BY <1>1, <2>1, <3>1 DEF SetupInv
  <2>3. SetupInv(t)'
    BY <1>1, <2>1, <2>2 DEF SetupInv, Fresh, Ran
  <2>4. ThreadInv(t)'
    BY <1>1, <2>1, <2>3 DEF ThreadInv
  <2> QED BY <1>1, <1>2, <2>1, <2>4, InnerStep
<1>4. CASE BeginThrows(t)
  <2>1. /\ pc'[t] = "unwind" /\ idx'[t] = idx[t] /\ exc'[t]
        /\ threw'[idx[t]] = "setup"
        /\ UNCHANGED <<n, temp, stage, held, results, finished, called, begun,
                       claimed>>
    BY <1>1, <1>4 DEF BeginThrows, TypeOK
  <2>2. Ran(idx[t], n[t] + 1 .. begun[idx[t]]) /\ n[t] <= begun[idx[t]]
    BY <1>1, SizesAssumption DEF SetupInv, Fresh, Ran, TypeOK
  <2>3. UnwindInv(t)'
    BY <1>1, <2>1, <2>2 DEF SetupInv, UnwindInv, Fresh, Ran
  <2>4. ThreadInv(t)'
    BY <1>1, <2>1, <2>3 DEF ThreadInv
  <2> QED BY <1>1, <1>2, <2>1, <2>4, InnerStep
<1>5. CASE MoveHooks(t)
  <2>1. /\ pc'[t] = "drop" /\ idx'[t] = idx[t] /\ n[t] = NHooks
        /\ held'[t] = temp[t] /\ temp'[t] = {}
        /\ UNCHANGED <<n, stage, exc, results, finished, called, begun, threw,
                       claimed>>
    BY <1>1, <1>5 DEF MoveHooks, history, TypeOK
  <2>2. BuiltInv(t)'
    BY <1>1, <2>1 DEF SetupInv, BuiltInv, Fresh, Ran, Hooks
  <2>3. ThreadInv(t)'
    BY <1>1, <2>1, <2>2 DEF ThreadInv
  <2> QED BY <1>1, <1>2, <2>1, <2>3, InnerStep
<1> QED BY <1>3, <1>4, <1>5

LEMMA KernelStep ==
    ASSUME IInv, NEW t \in Threads, ~returned, TypeOK',
           EnterKernel(t) \/ KernelReturns(t) \/ KernelThrows(t)
    PROVE  IInv'
<1>1. /\ pc[t] \in {"drop", "kernel"} /\ BuiltInv(t) /\ TypeOK
      /\ idx[t] \in Rows /\ idx[t] \in claimed
  BY OwnRow DEF EnterKernel, KernelReturns, KernelThrows, IInv, ThreadInv
<1>2. Local(t)
  BY <1>1 DEF EnterKernel, KernelReturns, KernelThrows, Local, SameThread,
              SameRow, history, TypeOK
<1>3. CASE EnterKernel(t)
  <2>1. /\ pc'[t] = "kernel" /\ idx'[t] = idx[t] /\ stage'[t] = 1
        /\ UNCHANGED <<n, temp, held, exc, results, finished, called, begun,
                       threw, claimed>>
    BY <1>1, <1>3 DEF EnterKernel, history, TypeOK
  <2>2. BuiltInv(t)'
    BY <1>1, <2>1 DEF BuiltInv, Fresh, Ran
  <2>3. ThreadInv(t)'
    BY <1>1, <2>1, <2>2 DEF ThreadInv
  <2> QED BY <1>1, <1>2, <2>1, <2>3, InnerStep
<1>4. ASSUME KernelReturns(t) \/ KernelThrows(t) PROVE IInv'
  <2>1. /\ pc[t] = "kernel" /\ pc'[t] = "teardown" /\ idx'[t] = idx[t]
        /\ n'[t] = NHooks
        /\ UNCHANGED <<temp, held, begun, finished, claimed>>
    BY <1>1, <1>4, SizesAssumption DEF KernelReturns, KernelThrows, TypeOK
  <2>2. temp'[t] = {} /\ held'[t] = 1 .. n'[t] /\ begun'[idx[t]] = NHooks
    BY <1>1, <2>1 DEF BuiltInv, Hooks
  <2>3. Ran(idx[t], n'[t] + 1 .. NHooks)
    BY <1>1, <2>1, SizesAssumption DEF BuiltInv, Fresh, Ran, Hooks
  <2>4. \/ /\ stage'[t] = 1 /\ exc'[t]
           /\ results'[idx[t]] = Unset /\ threw'[idx[t]] = "kernel"
        \/ /\ stage'[t] = 2 /\ ~exc'[t]
           /\ results'[idx[t]] \in Values \cup Errors
           /\ threw'[idx[t]] = "no"
    <3>1. CASE KernelReturns(t)
      BY <1>1, <3>1 DEF KernelReturns, BuiltInv, Fresh, TypeOK
    <3>2. CASE KernelThrows(t)
      BY <1>1, <3>2 DEF KernelThrows, BuiltInv, Fresh, TypeOK
    <3> QED BY <1>4, <3>1, <3>2
  <2>5. TeardownInv(t)'
    BY <2>1, <2>2, <2>3, <2>4 DEF TeardownInv, Ran, Unthrown
  <2>6. ThreadInv(t)'
    BY <1>1, <2>1, <2>5 DEF ThreadInv
  <2> QED BY <1>1, <1>2, <2>1, <2>6, InnerStep
<1> QED BY <1>3, <1>4

\* The second halves that ran for a row grow by the victim, downwards.
LEMMA RanMore ==
    ASSUME NEW r \in Rows, NEW k \in Hooks, NEW m \in 0 .. NHooks, k <= m,
           finished \in [Rows -> [Hooks -> Nat]], Ran(r, k + 1 .. m),
           finished'[r] = [finished[r] EXCEPT ![k] = finished[r][k] + 1]
    PROVE  finished'[r] = [h \in Hooks |-> IF h \in k .. m THEN 1 ELSE 0]
<1>1. finished'[r] = [finished[r] EXCEPT ![k] = finished[r][k] + 1]
  OBVIOUS
<1>2. finished[r][k] = 0
  BY SizesAssumption DEF Ran, Hooks
<1>3. finished'[r] \in [Hooks -> Nat]
  BY <1>1
<1>4. ASSUME NEW h \in Hooks
      PROVE  finished'[r][h] = IF h \in k .. m THEN 1 ELSE 0
  <2>1. CASE h = k
    BY <1>1, <1>2, <2>1, SizesAssumption DEF Hooks
  <2>2. CASE h # k
    BY <1>1, <2>2, SizesAssumption DEF Hooks, Ran
  <2> QED BY <2>1, <2>2
<1> QED BY <1>3, <1>4

LEMMA DestroyStep ==
    ASSUME IInv, NEW t \in Threads, ~returned, TypeOK',
           DestroyInactive(t) \/ FinishHook(t) \/ FinishThrows(t)
    PROVE  IInv'
<1>1. /\ pc[t] \in Destroying /\ n[t] > 0 /\ n[t] \in Hooks
      /\ n[t] \in Nat /\ TypeOK /\ ThreadInv(t)
      /\ idx[t] \in Rows /\ idx[t] \in claimed /\ Victim(t) = n[t]
  <2>1. pc[t] \in Destroying /\ n[t] > 0 /\ pc[t] # "idle"
    BY DEF DestroyInactive, FinishHook, FinishThrows, AtVictim, Destroying
  <2>2. TypeOK /\ ThreadInv(t) /\ n[t] \in 0 .. NHooks
    BY DEF IInv, TypeOK
  <2> QED BY <2>1, <2>2, OwnRow, SizesAssumption DEF Hooks, Victim
<1>2. Local(t)
  <2>1. CASE DestroyInactive(t)
    BY <1>1, <2>1 DEF DestroyInactive, Deactivate, Local, SameThread, SameRow,
                      history, TypeOK
  <2>2. CASE FinishHook(t)
    BY <1>1, <2>2 DEF FinishHook, Deactivate, Local, SameThread, SameRow,
                      TypeOK
  <2>3. CASE FinishThrows(t)
    BY <1>1, <2>3 DEF FinishThrows, Deactivate, Local, SameThread, SameRow,
                      TypeOK
  <2> QED BY <2>1, <2>2, <2>3
<1>3. /\ pc' = pc /\ idx' = idx /\ claimed' = claimed /\ begun' = begun
      /\ stage' = stage /\ called' = called /\ n'[t] = n[t] - 1
  BY <1>1 DEF DestroyInactive, FinishHook, FinishThrows, Deactivate, history,
              TypeOK
<1>4. CASE pc[t] = "drop"
  <2>1. BuiltInv(t) /\ DestroyInactive(t)
    BY <1>1, <1>4 DEF ThreadInv, BuiltInv, FinishHook, FinishThrows, IsActive
  <2>2. BuiltInv(t)'
    BY <1>1, <1>3, <1>4, <2>1
    DEF BuiltInv, DestroyInactive, Deactivate, history, Fresh, Ran, TypeOK
  <2>3. ThreadInv(t)'
    BY <1>1, <1>3, <1>4, <2>2 DEF ThreadInv
  <2> QED BY <1>1, <1>2, <1>3, <1>4, <2>3, InnerStep
<1>5. CASE pc[t] = "unwind"
  <2>1. UnwindInv(t) /\ FinishHook(t)
    BY <1>1, <1>5 DEF ThreadInv, UnwindInv, FinishThrows, DestroyInactive,
                      IsActive
  <2>2. /\ temp'[t] = 1 .. n'[t] /\ held'[t] = {}
    BY <1>1, <1>3, <1>5, <2>1 DEF UnwindInv, FinishHook, Deactivate, TypeOK
  <2>3. finished'[idx[t]] = [h \in Hooks |->
              IF h \in n[t] .. begun[idx[t]] THEN 1 ELSE 0]
    <3>1. PICK m \in 0 .. NHooks : m = begun[idx[t]]
      BY <1>1 DEF TypeOK
    <3>2. finished'[idx[t]] = [finished[idx[t]] EXCEPT
                                 ![n[t]] = finished[idx[t]][n[t]] + 1]
      BY <1>1, <2>1 DEF FinishHook, TypeOK
    <3>3. n[t] <= m /\ Ran(idx[t], n[t] + 1 .. m)
      BY <2>1, <3>1 DEF UnwindInv
    <3>4. finished \in [Rows -> [Hooks -> Nat]]
      BY <1>1 DEF TypeOK
    <3>5. finished'[idx[t]] = [h \in Hooks |->
                IF h \in n[t] .. m THEN 1 ELSE 0]
      <4>1. /\ idx[t] \in Rows /\ n[t] \in Hooks /\ m \in 0 .. NHooks
        BY <1>1, <3>1
      <4> QED BY <3>2, <3>3, <3>4, <4>1, RanMore, ZenonT(30)
    <3> QED BY <3>1, <3>5
  <2>4. results'[idx[t]] = Unset /\ threw' = threw /\ exc' = exc
    BY <1>1, <2>1 DEF FinishHook, UnwindInv
  <2>5. UnwindInv(t)'
    <3>1. stage[t] = 0 /\ exc[t] /\ n[t] <= begun[idx[t]] /\ threw[idx[t]] = "setup"
      BY <2>1 DEF UnwindInv
    <3>2. n'[t] <= begun'[idx'[t]]
      BY <1>1, <1>3, <3>1 DEF TypeOK
    <3>3. n'[t] + 1 = n[t]
      BY <1>1, <1>3
    <3> QED BY <1>3, <2>2, <2>3, <2>4, <3>1, <3>2, <3>3 DEF UnwindInv, Ran
  <2>6. ThreadInv(t)'
    BY <1>1, <1>3, <1>5, <2>5 DEF ThreadInv
  <2> QED BY <1>1, <1>2, <1>3, <1>5, <2>6, InnerStep
<1>6. CASE pc[t] = "teardown"
  <2>1. TeardownInv(t) /\ (FinishHook(t) \/ FinishThrows(t))
    BY <1>1, <1>6 DEF ThreadInv, TeardownInv, DestroyInactive, IsActive
  <2>2. temp'[t] = {} /\ held'[t] = 1 .. n'[t]
    <3>1. temp' = temp /\ held' = [held EXCEPT ![t] = @ \ {n[t]}]
      BY <1>1, <1>6, <2>1 DEF FinishHook, FinishThrows, Deactivate
    <3>2. temp[t] = {} /\ held[t] = 1 .. n[t] /\ held \in [Threads -> SUBSET Hooks]
      BY <1>1, <2>1 DEF TeardownInv, TypeOK
    <3> QED BY <1>1, <1>3, <3>1, <3>2
  <2>3. finished'[idx[t]] = [h \in Hooks |->
              IF h \in n[t] .. NHooks THEN 1 ELSE 0]
    <3>1. finished'[idx[t]] = [finished[idx[t]] EXCEPT
                                 ![n[t]] = finished[idx[t]][n[t]] + 1]
      BY <1>1, <2>1 DEF FinishHook, FinishThrows, TypeOK
    <3>2. Ran(idx[t], n[t] + 1 .. NHooks) /\ finished \in [Rows -> [Hooks -> Nat]]
      BY <1>1, <2>1 DEF TeardownInv, TypeOK
    <3>3. NHooks \in 0 .. NHooks /\ n[t] <= NHooks
      BY <1>1, SizesAssumption DEF Hooks
    <3> QED BY <1>1, <3>1, <3>2, <3>3, RanMore
  <2>4. \/ /\ stage'[t] = 1 /\ exc'[t]
           /\ results'[idx[t]] = Unset /\ threw'[idx[t]] = "kernel"
        \/ /\ stage'[t] = 2
           /\ results'[idx[t]] \in Unthrown
           /\ threw'[idx[t]] = IF exc'[t] THEN "teardown" ELSE "no"
    <3>1. CASE FinishHook(t)
      <4>1. \/ results' = results
            \/ /\ IsCompare(Victim(t)) /\ results[idx[t]] # Unset
               /\ results'[idx[t]] \in Verdicts
        BY <1>1, <3>1 DEF FinishHook, TypeOK
      <4>2. Victim(t) \in Hooks
        BY <1>1 DEF Victim, Hooks
      <4>3. IsCompare(Victim(t)) => Verdicts \subseteq Unthrown
        BY <4>2 DEF Unthrown
      <4> QED
        BY <1>1, <1>3, <2>1, <3>1, <4>1, <4>3 DEF FinishHook, TeardownInv, TypeOK
    <3>2. CASE FinishThrows(t)
      BY <1>1, <1>3, <2>1, <3>2 DEF FinishThrows, TeardownInv, TypeOK
    <3> QED BY <2>1, <3>1, <3>2
  <2>5. TeardownInv(t)'
    BY <1>1, <1>3, <2>1, <2>2, <2>3, <2>4 DEF TeardownInv, Ran, TypeOK, Unthrown
  <2>6. ThreadInv(t)'
    BY <1>1, <1>3, <1>6, <2>5 DEF ThreadInv
  <2> QED BY <1>1, <1>2, <1>3, <1>6, <2>6, InnerStep
<1> QED BY <1>1, <1>4, <1>5, <1>6 DEF Destroying

LEMMA EndStep ==
    ASSUME IInv, NEW t \in Threads, ~returned, TypeOK',
           CatchException(t) \/ EndRow(t)
    PROVE  IInv'
<1>1. /\ pc[t] \in {"unwind", "teardown"} /\ n[t] = 0 /\ TypeOK
      /\ ThreadInv(t) /\ idx[t] \in Rows /\ idx[t] \in claimed
  BY OwnRow DEF CatchException, EndRow, IInv
<1>2. Local(t)
  BY <1>1 DEF CatchException, EndRow, LeaveRow, Local, SameThread, SameRow,
              history, TypeOK
<1>3. /\ pc'[t] = "idle" /\ idx'[t] = NoRow /\ ~exc'[t]
      /\ UNCHANGED <<temp, held, begun, finished, threw>>
  BY <1>1 DEF CatchException, EndRow, LeaveRow, history, TypeOK
<1>4. ThreadInv(t)'
  BY <1>1, <1>3 DEF ThreadInv, IdleInv, UnwindInv, TeardownInv
<1>5. PICK r \in Rows : r = idx[t]
  BY <1>1
<1>6. Complete(r)'
  <2>1. Ran(r, 1 .. begun[r])
    BY <1>1, <1>5 DEF ThreadInv, UnwindInv, TeardownInv
  <2>2. Ran(r, 1 .. begun[r])'
    BY <1>3, <2>1 DEF Ran
  <2>3. CASE CatchException(t)
    <3>1. results'[r] = CodeOf(stage[t])
      BY <1>1, <1>5, <2>3 DEF CatchException, TypeOK
    <3>2. threw[r] # "no" /\ CodeOf(stage[t]) = PhaseCode(threw[r])
      BY <1>1, <1>5, <2>3
      DEF CatchException, ThreadInv, UnwindInv, TeardownInv, CodeOf, PhaseCode
    <3> QED BY <1>3, <2>2, <3>1, <3>2 DEF Complete, PhaseCode
  <2>4. CASE EndRow(t)
    <3>1. /\ results' = results /\ threw[r] = "no"
          /\ results[r] \in Unthrown
      BY <1>1, <1>5, <2>4 DEF EndRow, ThreadInv, UnwindInv, TeardownInv
    <3> QED BY <1>3, <2>2, <3>1 DEF Complete, Unthrown
  <2> QED BY <2>3, <2>4
<1> QED BY <1>1, <1>2, <1>3, <1>4, <1>5, <1>6, LeaveStep

\* The steps that touch nothing but death or returned.
LEMMA LastStep ==
    ASSUME IInv, TypeOK', UNCHANGED <<control, results, claimed, history>>,
           returned' = returned \/ Return
    PROVE  IInv'
<1>1. ReturnInv'
  BY DEF IInv, ReturnInv, Return, control
<1>2. /\ \A t \in Threads : ThreadInv(t)'
      /\ Exclusive' /\ UnclaimedInv' /\ SettledInv'
  BY DEF IInv, control, history, ThreadInv, IdleInv, SetupInv, BuiltInv,
         UnwindInv, TeardownInv, Fresh, Ran, Exclusive, UnclaimedInv,
         SettledInv, Running, Complete
<1> QED BY <1>1, <1>2 DEF IInv

LEMMA InitIInv == Init => IInv
<1> SUFFICES ASSUME Init PROVE IInv
  OBVIOUS
<1>1. TypeOK
  <2>1. 0 \in 0 .. NHooks
    BY SizesAssumption
  <2>2. finished \in [Rows -> [Hooks -> Nat]]
    BY DEF Init
  <2>3. /\ pc \in [Threads -> Phases] /\ idx \in [Threads -> Rows \cup {NoRow}]
        /\ stage \in [Threads -> 0 .. 2] /\ n \in [Threads -> 0 .. NHooks]
        /\ temp \in [Threads -> SUBSET Hooks]
        /\ held \in [Threads -> SUBSET Hooks]
        /\ exc \in [Threads -> BOOLEAN] /\ workdir \in [Threads -> BOOLEAN]
    BY <2>1 DEF Init, Phases
  <2> QED BY <2>1, <2>2, <2>3 DEF Init, TypeOK
<1>2. \A t \in Threads : ThreadInv(t)
  BY DEF Init, ThreadInv, IdleInv
<1>3. UnclaimedInv
  BY DEF Init, UnclaimedInv, Fresh, Ran
<1> QED BY <1>1, <1>2, <1>3 DEF Init, IInv, Exclusive, SettledInv, ReturnInv

LEMMA NextIInv == IInv /\ [Next]_vars => IInv'
<1> SUFFICES ASSUME IInv, [Next]_vars PROVE IInv'
  OBVIOUS
<1>0. TypeOK'
  BY TypeStep
<1>1. ASSUME NEW t \in Threads, Step(t) PROVE IInv'
  <2>1. ~returned
    BY <1>1 DEF Step
  <2>2. CASE Claim(t)
    BY <1>0, <2>1, <2>2, ClaimStep
  <2>3. CASE BeginHook(t) \/ BeginThrows(t) \/ MoveHooks(t)
    BY <1>0, <2>1, <2>3, SetupStep
  <2>4. CASE EnterKernel(t) \/ KernelReturns(t) \/ KernelThrows(t)
    BY <1>0, <2>1, <2>4, KernelStep
  <2>5. CASE DestroyInactive(t) \/ FinishHook(t) \/ FinishThrows(t)
    BY <1>0, <2>1, <2>5, DestroyStep
  <2>6. CASE CatchException(t) \/ EndRow(t)
    BY <1>0, <2>1, <2>6, EndStep
  <2>7. CASE BeginDies(t) \/ FinishTerminates(t) \/ ComparisonDies(t)
    BY <1>0, <2>7, LastStep DEF BeginDies, FinishTerminates, ComparisonDies
  <2> QED BY <1>1, <2>2, <2>3, <2>4, <2>5, <2>6, <2>7 DEF Step
<1>2. CASE Return
  BY <1>0, <1>2, LastStep DEF Return
<1>3. CASE UNCHANGED vars
  BY <1>0, <1>3, LastStep DEF vars
<1> QED BY <1>1, <1>2, <1>3 DEF Next, Stopped

\* IInv holds in every state of operator().
THEOREM Invariance == Spec => []IInv
<1>1. Init => IInv
  BY InitIInv
<1>2. IInv /\ [Next]_vars => IInv'
  BY NextIInv
<1> QED BY <1>1, <1>2, PTL DEF Spec

\* Type correctness of the state of operator().
THEOREM TypeCorrect == Spec => []TypeOK
<1>1. IInv => TypeOK
  BY DEF IInv
<1> QED BY <1>1, Invariance, PTL

-----------------------------------------------------------------------------
\* The safety properties, from the invariant.

LEMMA RunningIffIdx ==
    ASSUME IInv, NEW r \in Rows
    PROVE  Running(r) <=> \E t \in Threads : idx[t] = r
  BY SizesAssumption DEF IInv, ThreadInv, IdleInv, Running, NoRow, Rows

\* Once a row is settled, each hook constructed for it has run its second half
\* exactly once, and no other hook has.
THEOREM TeardownIsBalanced == Spec => []TeardownBalanced
<1>1. ASSUME IInv, NEW r \in Rows, Settled(r), NEW h \in Hooks
      PROVE  finished[r][h] = IF h <= begun[r] THEN 1 ELSE 0
  <2>1. Ran(r, 1 .. begun[r]) /\ begun[r] \in Nat
    BY <1>1, SizesAssumption DEF IInv, SettledInv, Settled, Complete, TypeOK
  <2>2. h \in 1 .. begun[r] <=> h <= begun[r]
    BY <2>1, SizesAssumption DEF Hooks
  <2> QED BY <2>1, <2>2 DEF Ran
<1>2. IInv => TeardownBalanced
  BY <1>1 DEF TeardownBalanced
<1> QED BY <1>2, Invariance, PTL

\* The result of a settled row tells in which phase it failed.
THEOREM ResultsTellPhases == Spec => []ResultTellsPhase
<1>1. IInv => ResultTellsPhase
  BY DEF IInv, SettledInv, Settled, ResultTellsPhase, Complete
<1> QED BY <1>1, Invariance, PTL

\* When operator() returns all results are engaged.
THEOREM AllEngaged == Spec => []EngagedAtReturn
<1>1. ASSUME IInv PROVE EngagedAtReturn
  <2> SUFFICES ASSUME returned, NEW r \in Rows PROVE results[r] # Unset
    BY DEF EngagedAtReturn
  <2>1. r \in claimed /\ ~Running(r)
    BY <1>1 DEF IInv, ReturnInv, Running
  <2>2. Complete(r) /\ threw[r] \in {"no", "setup", "kernel", "teardown"}
    BY <1>1, <2>1 DEF IInv, SettledInv, TypeOK
  <2> QED
    BY <2>2, OutcomesAssumption DEF Complete, Unthrown, PhaseCode, Outcomes, Codes
<1> QED BY <1>1, Invariance, PTL

\* Second halves run in reverse order of construction, for every list of hooks.
THEOREM ReverseTeardown == Spec => TeardownInReverse
<1>1. ASSUME IInv, [Next]_vars, NEW r \in Rows, NEW h \in Hooks,
             finished'[r][h] # finished[r][h]
      PROVE  FinishesLast(r, h)
  <2>1. PICK t \in Threads : FinishHook(t) \/ FinishThrows(t)
    BY <1>1
    DEF Next, Step, Stopped, Return, vars, history, Claim, BeginHook,
        BeginThrows, BeginDies, MoveHooks, EnterKernel, KernelReturns,
        KernelThrows, DestroyInactive, FinishTerminates, ComparisonDies,
        CatchException, EndRow
  <2>2. /\ pc[t] \in Destroying /\ n[t] > 0 /\ IsActive(t)
        /\ finished' = [finished EXCEPT ![idx[t]][n[t]] = @ + 1]
    BY <2>1 DEF FinishHook, FinishThrows, AtVictim, Victim
  <2>3. TypeOK /\ ThreadInv(t) /\ idx[t] \in Rows
    BY <1>1, <2>2, OwnRow DEF IInv, Destroying
  <2>4. r = idx[t] /\ h = n[t]
    BY <1>1, <2>2, <2>3 DEF TypeOK
  <2>5. Ran(r, h + 1 .. begun[r])
    BY <2>2, <2>3, <2>4
    DEF ThreadInv, BuiltInv, UnwindInv, TeardownInv, IsActive, Destroying
  <2>6. begun[r] <= NHooks /\ begun[r] \in Nat /\ h \in Nat
    BY <2>3, SizesAssumption DEF TypeOK, Hooks
  <2> QED BY <2>5, <2>6, SizesAssumption DEF FinishesLast, Ran, Hooks
<1>2. IInv /\ [Next]_vars =>
        [\A r \in Rows, h \in Hooks :
           finished'[r][h] # finished[r][h] => FinishesLast(r, h)]_vars
  BY <1>1
<1> QED BY <1>2, Invariance, PTL DEF Spec, TeardownInReverse

\* The kernel is called once for a row, between the halves of all its hooks.
THEOREM KernelStaysInside == Spec => KernelInsideHooks
<1>1. ASSUME IInv, [Next]_vars, NEW r \in Rows, called'[r] # called[r]
      PROVE  called[r] = 0 /\ HooksStand(r)
  <2>1. PICK t \in Threads : KernelReturns(t) \/ KernelThrows(t)
    BY <1>1
    DEF Next, Step, Stopped, Return, vars, history, Claim, BeginHook,
        BeginThrows, BeginDies, MoveHooks, EnterKernel, FinishHook,
        FinishThrows, DestroyInactive, FinishTerminates, ComparisonDies,
        CatchException, EndRow
  <2>2. pc[t] = "kernel" /\ called' = [called EXCEPT ![idx[t]] = @ + 1]
    BY <2>1 DEF KernelReturns, KernelThrows
  <2>3. r = idx[t] /\ BuiltInv(t)
    BY <1>1, <2>2 DEF IInv, ThreadInv, TypeOK
  <2> QED BY <2>3 DEF BuiltInv, Fresh, Ran, HooksStand
<1>2. IInv /\ [Next]_vars =>
        [\A r \in Rows :
           called'[r] # called[r] => called[r] = 0 /\ HooksStand(r)]_vars
  BY <1>1
<1> QED BY <1>2, Invariance, PTL DEF Spec, KernelInsideHooks

\* No thread writes the result of a row that is settled.
THEOREM SettledStays == Spec => SettledFinal
<1>1. ASSUME IInv, [Next]_vars, NEW r \in Rows, Settled(r)
      PROVE  results'[r] = results[r]
  <2>1. CASE UNCHANGED results
    BY <2>1
  <2>2. CASE ~UNCHANGED results
    <3>1. PICK t \in Threads :
            /\ pc[t] # "idle"
            /\ \E v : results' = [results EXCEPT ![idx[t]] = v]
      BY <1>1, <2>2
      DEF Next, Step, Stopped, Return, vars, Claim, BeginHook, BeginThrows,
          BeginDies, MoveHooks, EnterKernel, KernelReturns, KernelThrows,
          FinishHook, FinishThrows, DestroyInactive, FinishTerminates,
          ComparisonDies, CatchException, EndRow, AtVictim, Destroying
    <3>2. r # idx[t]
      BY <1>1, <3>1 DEF Settled, Running
    <3> QED BY <1>1, <3>1, <3>2 DEF IInv, TypeOK
  <2> QED BY <2>1, <2>2
<1>2. IInv /\ [Next]_vars =>
        [\A r \in Rows : Settled(r) => results'[r] = results[r]]_vars
  BY <1>1
<1> QED BY <1>2, Invariance, PTL DEF Spec, SettledFinal

-----------------------------------------------------------------------------
\* A comparison finds its workspace.

\* What WorkdirInv says of one thread.
ThreadWorkdir(t) ==
    /\ pc[t] = "setup" =>
         ((\E s \in 1 .. n[t] : IsSetup(s)) => workdir[t])
    /\ pc[t] \in {"drop", "kernel"} =>
         ((\E s \in Hooks : IsSetup(s)) => workdir[t])
    /\ pc[t] \in {"unwind", "teardown"} =>
         ((/\ \E s \in 1 .. n[t] : IsSetup(s)
           /\ \A s \in n[t] + 1 .. NHooks : ~IsSetup(s)) => workdir[t])

LEMMA WorkdirStep ==
    ASSUME IInv, NEW t \in Threads, Step(t), ThreadWorkdir(t)
    PROVE  ThreadWorkdir(t)'
<1>1. TypeOK /\ ThreadInv(t) /\ n[t] \in Nat /\ n[t] <= NHooks
  BY SizesAssumption DEF IInv, TypeOK
<1>2. CASE Claim(t)
  BY <1>1, <1>2 DEF Claim, ThreadWorkdir, TypeOK
<1>3. CASE BeginHook(t)
  <2>1. /\ pc[t] = "setup" /\ pc'[t] = "setup" /\ n'[t] = n[t] + 1
        /\ workdir'[t] = (workdir[t] \/ IsSetup(n[t] + 1))
    BY <1>1, <1>3 DEF BeginHook, TypeOK
  <2>2. \A s \in 1 .. n'[t] : s \in 1 .. n[t] \/ s = n[t] + 1
    BY <1>1, <2>1
  <2>3. (\E s \in 1 .. n'[t] : IsSetup(s)) => workdir'[t]
    <3>1. ASSUME NEW s \in 1 .. n'[t], IsSetup(s) PROVE workdir'[t]
      <4>1. CASE s = n[t] + 1
        BY <2>1, <3>1, <4>1
      <4>2. CASE s \in 1 .. n[t]
        BY <2>1, <3>1, <4>2 DEF ThreadWorkdir
      <4> QED BY <2>2, <4>1, <4>2
    <3> QED BY <3>1
  <2> QED BY <2>1, <2>3 DEF ThreadWorkdir, IsSetup
<1>4. CASE BeginThrows(t)
  BY <1>1, <1>4 DEF BeginThrows, ThreadWorkdir, TypeOK, IsSetup
<1>5. CASE MoveHooks(t)
  BY <1>1, <1>5 DEF MoveHooks, ThreadWorkdir, TypeOK, IsSetup, Hooks
<1>6. CASE EnterKernel(t)
  BY <1>1, <1>6 DEF EnterKernel, ThreadWorkdir, TypeOK, IsSetup
<1>7. CASE KernelReturns(t) \/ KernelThrows(t)
  BY <1>1, <1>7, SizesAssumption
  DEF KernelReturns, KernelThrows, ThreadWorkdir, TypeOK, IsSetup, Hooks
<1>8. CASE DestroyInactive(t)
  <2>1. pc[t] = "drop" /\ pc' = pc /\ workdir' = workdir
    BY <1>1, <1>8 DEF DestroyInactive, AtVictim, Destroying, IsActive, Victim,
                      ThreadInv, UnwindInv, TeardownInv
  <2> QED BY <2>1 DEF ThreadWorkdir, IsSetup
<1>9. CASE FinishHook(t) \/ FinishThrows(t)
  <2>1. /\ pc[t] \in {"unwind", "teardown"} /\ pc' = pc
        /\ n[t] > 0 /\ n'[t] = n[t] - 1
        /\ ~IsSetup(n[t]) => workdir'[t] = workdir[t]
    BY <1>1, <1>9 DEF FinishHook, FinishThrows, AtVictim, Destroying, IsActive,
                      Victim, ThreadInv, BuiltInv, Deactivate, IsSetup, TypeOK
  <2>2. SUFFICES ASSUME \E s \in 1 .. n'[t] : IsSetup(s),
                        \A s \in n'[t] + 1 .. NHooks : ~IsSetup(s)
                 PROVE  workdir'[t]
    BY <2>1 DEF ThreadWorkdir, IsSetup
  <2>3. n[t] \in n'[t] + 1 .. NHooks
    BY <1>1, <2>1, SizesAssumption
  <2>4. /\ \E s \in 1 .. n[t] : IsSetup(s)
        /\ \A s \in n[t] + 1 .. NHooks : ~IsSetup(s)
    BY <1>1, <2>1, <2>2, SizesAssumption
  <2> QED BY <2>1, <2>2, <2>3, <2>4 DEF ThreadWorkdir
<1>10. CASE CatchException(t) \/ EndRow(t)
  BY <1>1, <1>10 DEF CatchException, EndRow, LeaveRow, ThreadWorkdir, TypeOK
<1>11. CASE BeginDies(t) \/ FinishTerminates(t) \/ ComparisonDies(t)
  BY <1>11 DEF BeginDies, FinishTerminates, ComparisonDies, control,
               ThreadWorkdir, IsSetup
<1> QED BY <1>2, <1>3, <1>4, <1>5, <1>6, <1>7, <1>8, <1>9, <1>10, <1>11
        DEF Step

\* In a list of hooks with a workspace before each comparison and none behind
\* it, no comparison ends the process for want of a workspace.
THEOREM WorkspaceFound == Spec => []ComparisonHasWorkspace
<1>1. Init => WorkdirInv
  BY DEF Init, WorkdirInv
<1>2. IInv /\ WorkdirInv /\ [Next]_vars => WorkdirInv'
  <2> SUFFICES ASSUME IInv, WorkdirInv, [Next]_vars PROVE WorkdirInv'
    OBVIOUS
  <2>1. ASSUME NEW t \in Threads, Step(t) PROVE WorkdirInv'
    <3>1. \A u \in Threads : ThreadWorkdir(u)
      BY DEF WorkdirInv, ThreadWorkdir
    <3>2. ThreadWorkdir(t)'
      BY <2>1, <3>1, WorkdirStep
    <3>3. ASSUME NEW u \in Threads \ {t} PROVE ThreadWorkdir(u)'
      <4>1. pc'[u] = pc[u] /\ n'[u] = n[u] /\ workdir'[u] = workdir[u]
        BY <2>1
        DEF Step, Claim, BeginHook, BeginThrows, BeginDies, MoveHooks,
            EnterKernel, KernelReturns, KernelThrows, DestroyInactive,
            FinishHook, FinishThrows, FinishTerminates, ComparisonDies,
            CatchException, EndRow, LeaveRow, Deactivate, control, IInv, TypeOK
      <4> QED BY <3>1, <4>1 DEF ThreadWorkdir, IsSetup
    <3>4. (WorkspaceOrdered => death # "no_workspace")'
      <4>1. CASE ComparisonDies(t)
        <5>1. /\ pc[t] \in {"unwind", "teardown"} /\ n[t] \in Hooks
              /\ IsCompare(n[t]) /\ ~workdir[t]
          BY <4>1, SizesAssumption
          DEF ComparisonDies, AtVictim, Destroying, IsActive, Victim, IInv,
              TypeOK, ThreadInv, BuiltInv, Hooks
        <5>2. ~WorkspaceOrdered
          <6> SUFFICES ASSUME WorkspaceOrdered PROVE FALSE
            OBVIOUS
          <6>1. /\ \E s \in 1 .. n[t] - 1 : IsSetup(s)
                /\ \A s \in n[t] + 1 .. NHooks : ~IsSetup(s)
            BY <5>1 DEF WorkspaceOrdered
          <6>2. \E s \in 1 .. n[t] : IsSetup(s)
            BY <5>1, <6>1 DEF Hooks
          <6> QED BY <3>1, <5>1, <6>1, <6>2 DEF ThreadWorkdir
        <5> QED BY <5>2 DEF WorkspaceOrdered, IsCompare, IsSetup
      <4>2. CASE ~ComparisonDies(t)
        <5>1. death' # death => death' # "no_workspace"
          BY <2>1, <4>2
          DEF Step, Claim, BeginHook, BeginThrows, BeginDies, MoveHooks,
              EnterKernel, KernelReturns, KernelThrows, DestroyInactive,
              FinishHook, FinishThrows, FinishTerminates, CatchException, EndRow
        <5> QED BY <5>1 DEF WorkdirInv, WorkspaceOrdered, IsCompare, IsSetup
      <4> QED BY <4>1, <4>2
    <3> QED BY <3>2, <3>3, <3>4 DEF WorkdirInv, ThreadWorkdir
  <2>2. CASE Return
    BY <2>2 DEF Return, control, WorkdirInv, WorkspaceOrdered, IsCompare, IsSetup
  <2>3. CASE UNCHANGED vars
    BY <2>3 DEF vars, control, WorkdirInv, WorkspaceOrdered, IsCompare, IsSetup
  <2> QED BY <2>1, <2>2, <2>3 DEF Next, Stopped
<1>3. WorkdirInv => ComparisonHasWorkspace
  BY DEF WorkdirInv, ComparisonHasWorkspace
<1> QED BY <1>1, <1>2, <1>3, Invariance, PTL DEF Spec

-----------------------------------------------------------------------------
\* The call ends, but for fairness: the work left shrinks, and somebody can go
\* on with it.

LEMMA LeftRange ==
    ASSUME TypeOK, NEW t \in Threads
    PROVE  Left(t) \in 0 .. MostLeft - 1 /\ (pc[t] # "idle" => Left(t) > 0)
<1>1. n[t] \in 0 .. NHooks /\ pc[t] \in Phases /\ NHooks \in Nat
  BY SizesAssumption DEF TypeOK
<1> QED BY <1>1 DEF Left, MostLeft, Phases

LEMMA WorkFinite ==
    /\ IsFiniteSet(Work) /\ Cardinality(Work) \in Nat
    /\ Cardinality(Work) <= NRows * MostLeft
<1>1. /\ IsFiniteSet(Rows) /\ Cardinality(Rows) = NRows
  BY SizesAssumption, FS_Interval DEF Rows
<1>2. MostLeft \in Nat
  BY SizesAssumption DEF MostLeft
<1>3. IsFiniteSet(1 .. MostLeft) /\ Cardinality(1 .. MostLeft) = MostLeft
  BY <1>2, FS_Interval
<1>4. /\ IsFiniteSet(Rows \X (1 .. MostLeft))
      /\ Cardinality(Rows \X (1 .. MostLeft)) = NRows * MostLeft
  BY <1>1, <1>3, FS_Product
<1>5. Work \in SUBSET (Rows \X (1 .. MostLeft))
  BY DEF Work
<1> QED BY <1>4, <1>5, FS_Subset, FS_CardinalityType

\* Where work is lost and none is added, less is left.
LEMMA LessWork ==
    ASSUME Work' \subseteq Work, NEW w \in Work, w \notin Work'
    PROVE  Cardinality(Work)' < Cardinality(Work)
<1>1. IsFiniteSet(Work) /\ Cardinality(Work) \in Nat
  BY WorkFinite
<1>2. Work' \in SUBSET Work /\ Work' # Work
  OBVIOUS
<1>3. /\ IsFiniteSet(Work') /\ Cardinality(Work') <= Cardinality(Work)
      /\ Cardinality(Work') # Cardinality(Work)
  BY <1>1, <1>2, FS_Subset
<1>4. Cardinality(Work') \in Nat
  BY <1>3, FS_CardinalityType
<1> QED BY <1>1, <1>3, <1>4

\* A step within the row of t, or out of it, that leaves t less to do.
LEMMA RowShrinks ==
    ASSUME IInv, NEW t \in Threads, pc[t] # "idle", claimed' = claimed,
           \A u \in Threads \ {t} : /\ pc'[u] = pc[u] /\ idx'[u] = idx[u]
                                    /\ n'[u] = n[u],
           pc'[t] # "idle" => /\ idx'[t] = idx[t]
                              /\ Left(t)' \in Nat /\ Left(t)' < Left(t)
    PROVE  Cardinality(Work)' < Cardinality(Work)
<1>1. /\ idx[t] \in Rows /\ idx[t] \in claimed
      /\ \A u \in Threads : u # t => idx[u] # idx[t]
  BY OwnRow
<1>2. Left(t) \in 1 .. MostLeft /\ MostLeft \in Nat
  BY LeftRange, SizesAssumption DEF IInv, MostLeft
<1>3. \A u \in Threads \ {t} : Left(u)' = Left(u)
  BY DEF Left
<1>4. ASSUME NEW w \in Work' PROVE w \in Work
  <2>1. w \in Rows \X (1 .. MostLeft)
    BY DEF Work
  <2>2. CASE w[1] \notin claimed
    BY <2>1, <2>2 DEF Work
  <2>3. CASE w[1] \in claimed
    <3>1. PICK u \in Threads : pc'[u] # "idle" /\ idx'[u] = w[1] /\ w[2] <= Left(u)'
      BY <2>3 DEF Work
    <3>2. pc[u] # "idle" /\ idx[u] = w[1] /\ w[2] <= Left(u)
      <4>1. CASE u = t
        BY <2>1, <3>1, <4>1, <1>2
      <4>2. CASE u # t
        BY <3>1, <4>2, <1>3
      <4> QED BY <4>1, <4>2
    <3> QED BY <2>1, <3>2 DEF Work
  <2> QED BY <2>2, <2>3
<1>5. PICK w : w = <<idx[t], Left(t)>>
  OBVIOUS
<1>6. w \in Work
  BY <1>1, <1>2, <1>5 DEF Work
<1>7. w \notin Work'
  <2> SUFFICES ASSUME NEW u \in Threads, pc'[u] # "idle", idx'[u] = idx[t],
                      Left(t) <= Left(u)'
               PROVE  FALSE
    BY <1>1, <1>5 DEF Work
  <2>1. u = t
    BY <1>1
  <2> QED BY <2>1, <1>2
<1> QED BY <1>4, <1>6, <1>7, LessWork

LEMMA ClaimShrinks ==
    ASSUME IInv, NEW t \in Threads, Claim(t)
    PROVE  Cardinality(Work)' < Cardinality(Work)
<1>1. PICK r \in Rows : /\ r \notin claimed /\ claimed' = claimed \cup {r}
                        /\ idx' = [idx EXCEPT ![t] = r]
  BY DEF Claim, MayTake
<1>2. /\ pc[t] = "idle" /\ pc' = [pc EXCEPT ![t] = "setup"]
      /\ n' = [n EXCEPT ![t] = 0] /\ TypeOK
  BY DEF Claim, IInv
<1>3. MostLeft \in Nat /\ MostLeft > 0 /\ Left(t)' = MostLeft - 1
  BY <1>2, SizesAssumption DEF MostLeft, Left, TypeOK
<1>4. ASSUME NEW u \in Threads \ {t}
      PROVE  pc'[u] = pc[u] /\ idx'[u] = idx[u] /\ Left(u)' = Left(u)
  BY <1>1, <1>2 DEF TypeOK, Left
<1>5. ASSUME NEW u \in Threads, pc[u] # "idle" PROVE idx[u] # r
  BY <1>1, <1>5, OwnRow
<1>6. idx'[t] = r
  BY <1>1, <1>2 DEF TypeOK
<1>7. ASSUME NEW w \in Work' PROVE w \in Work
  <2>1. w \in Rows \X (1 .. MostLeft)
    BY DEF Work
  <2>2. CASE w[1] \notin claimed
    BY <2>1, <2>2 DEF Work
  <2>3. CASE w[1] \in claimed
    <3>1. PICK u \in Threads : pc'[u] # "idle" /\ idx'[u] = w[1] /\ w[2] <= Left(u)'
      BY <2>3, <1>1 DEF Work
    <3>2. u # t
      BY <3>1, <2>3, <1>1, <1>6
    <3> QED BY <2>1, <3>1, <3>2, <1>4 DEF Work
  <2> QED BY <2>2, <2>3
<1>8. PICK w : w = <<r, MostLeft>>
  OBVIOUS
<1>9. w \in Work
  BY <1>1, <1>3, <1>8 DEF Work
<1>10. w \notin Work'
  <2> SUFFICES ASSUME NEW u \in Threads, pc'[u] # "idle", idx'[u] = r,
                      MostLeft <= Left(u)'
               PROVE  FALSE
    BY <1>1, <1>8 DEF Work
  <2>1. u = t
    BY <1>4, <1>5
  <2> QED BY <2>1, <1>3
<1> QED BY <1>7, <1>9, <1>10, LessWork

\* Each step of a row leaves its thread less to do.
LEMMA StepShrinks ==
    ASSUME IInv, NEW t \in Threads, Step(t), death' = "none"
    PROVE  Cardinality(Work)' < Cardinality(Work)
<1>0. /\ TypeOK /\ n[t] \in 0 .. NHooks /\ NHooks \in Nat
  BY SizesAssumption DEF IInv, TypeOK
<1>1. CASE Claim(t)
  BY <1>1, ClaimShrinks
<1>2. CASE ~Claim(t)
  <2>1. /\ pc[t] # "idle" /\ claimed' = claimed
        /\ \A u \in Threads \ {t} : /\ pc'[u] = pc[u] /\ idx'[u] = idx[u]
                                    /\ n'[u] = n[u]
    BY <1>0, <1>2
    DEF Step, BeginHook, BeginThrows, BeginDies, MoveHooks, EnterKernel,
        KernelReturns, KernelThrows, DestroyInactive, FinishHook,
        FinishThrows, FinishTerminates, ComparisonDies, CatchException,
        EndRow, LeaveRow, Deactivate, AtVictim, Destroying, TypeOK
  <2>2. CASE BeginHook(t) \/ BeginThrows(t) \/ MoveHooks(t)
    <3>1. /\ pc[t] = "setup" /\ idx'[t] = idx[t]
          /\ \/ pc'[t] = "setup" /\ n'[t] = n[t] + 1 /\ n[t] < NHooks
             \/ pc'[t] = "unwind" /\ n'[t] = n[t]
             \/ pc'[t] = "drop" /\ n'[t] = n[t] /\ n[t] = NHooks
      BY <1>0, <2>2 DEF BeginHook, BeginThrows, MoveHooks, TypeOK
    <3>2. Left(t)' \in Nat /\ Left(t)' < Left(t)
      BY <1>0, <3>1 DEF Left
    <3> QED BY <2>1, <3>1, <3>2, RowShrinks
  <2>3. CASE EnterKernel(t) \/ KernelReturns(t) \/ KernelThrows(t)
    <3>1. /\ idx'[t] = idx[t]
          /\ \/ pc[t] = "drop" /\ n[t] = 0 /\ pc'[t] = "kernel"
             \/ pc[t] = "kernel" /\ pc'[t] = "teardown" /\ n'[t] = NHooks
      BY <1>0, <2>3 DEF EnterKernel, KernelReturns, KernelThrows, TypeOK
    <3>2. Left(t)' \in Nat /\ Left(t)' < Left(t)
      BY <1>0, <3>1 DEF Left
    <3> QED BY <2>1, <3>1, <3>2, RowShrinks
  <2>4. CASE DestroyInactive(t) \/ FinishHook(t) \/ FinishThrows(t)
    <3>1. /\ idx'[t] = idx[t] /\ pc'[t] = pc[t]
          /\ pc[t] \in {"drop", "unwind", "teardown"}
          /\ n[t] > 0 /\ n'[t] = n[t] - 1
      BY <1>0, <2>4
      DEF DestroyInactive, FinishHook, FinishThrows, AtVictim, Destroying,
          Deactivate, TypeOK
    <3>2. Left(t)' \in Nat /\ Left(t)' < Left(t)
      BY <1>0, <3>1 DEF Left
    <3> QED BY <2>1, <3>1, <3>2, RowShrinks
  <2>5. CASE CatchException(t) \/ EndRow(t)
    <3>1. pc'[t] = "idle"
      BY <1>0, <2>5 DEF CatchException, EndRow, LeaveRow, TypeOK
    <3> QED BY <2>1, <3>1, RowShrinks
  <2>6. ~(BeginDies(t) \/ FinishTerminates(t) \/ ComparisonDies(t))
    BY DEF BeginDies, FinishTerminates, ComparisonDies
  <2> QED BY <1>2, <2>2, <2>3, <2>4, <2>5, <2>6 DEF Step
<1> QED BY <1>1, <1>2

\* The call is a number of steps that is known before: each leaves less work,
\* of which there is NRows * MostLeft at first (WorkFinite), until it is over.
THEOREM CallCountsDown == Spec => CountsDown
<1> DEFINE Less == ~Over' => Cardinality(Work)' < Cardinality(Work)
<1>1. IInv /\ [Next]_vars => [Less]_vars
  <2> SUFFICES ASSUME IInv, Next, ~Over', vars' # vars PROVE Less
    OBVIOUS
  <2>1. PICK t \in Threads : Step(t)
    BY DEF Next, Return, Stopped, Over
  <2> QED BY <2>1, StepShrinks DEF Over
<1> QED BY <1>1, Invariance, PTL DEF Spec, CountsDown

LEMMA RowsInOrder ==
    ASSUME IInv, InOrder, [Next]_vars
    PROVE  InOrder'
<1>1. CASE claimed' = claimed
  BY <1>1 DEF InOrder
<1>2. CASE claimed' # claimed
  <2>1. PICK t \in Threads : Claim(t)
    BY <1>2
    DEF Next, Step, BeginHook, BeginThrows, BeginDies, MoveHooks, EnterKernel,
        KernelReturns, KernelThrows, DestroyInactive, FinishHook, FinishThrows,
        FinishTerminates, ComparisonDies, CatchException, EndRow, Return,
        Stopped, vars
  <2>2. PICK r \in Rows : MayTake(t, r) /\ claimed' = claimed \cup {r}
    BY <2>1 DEF Claim
  <2>3. CASE MultiThreaded
    BY <2>3 DEF InOrder
  <2>4. CASE ~MultiThreaded
    <3>1. PICK k \in 0 .. NRows : claimed = 0 .. k - 1
      BY <2>4 DEF InOrder
    <3>2. r \in Rows /\ r \notin claimed /\ \A q \in Rows : q < r => q \in claimed
      BY <2>2, <2>4 DEF MayTake
    <3>3. r = k
      <4>1. r >= k
        BY <3>1, <3>2, SizesAssumption DEF Rows
      <4>2. ~(k < r)
        <5> SUFFICES ASSUME k < r PROVE FALSE
          OBVIOUS
        <5>1. k \in Rows /\ k \in claimed
          BY <3>1, <3>2, SizesAssumption DEF Rows
        <5> QED BY <3>1, <5>1, SizesAssumption
      <4> QED BY <3>1, <3>2, <4>1, <4>2, SizesAssumption DEF Rows
    <3>4. k + 1 \in 0 .. NRows /\ claimed' = 0 .. (k + 1) - 1
      BY <2>2, <3>1, <3>2, <3>3, SizesAssumption DEF Rows
    <3> QED BY <3>4 DEF InOrder
  <2> QED BY <2>3, <2>4
<1> QED BY <1>1, <1>2

\* The call is never stuck, whatever threw and however its rows were shared
\* out: until it is over some thread has a step to take, or it may return.
THEOREM SomebodyGoesOn == Spec => []NobodyStuck
<1>1. Init => InOrder
  <2> SUFFICES ASSUME Init PROVE claimed = 0 .. 0 - 1 /\ 0 \in 0 .. NRows
    BY DEF InOrder
  <2> QED BY SizesAssumption DEF Init
<1>2. IInv /\ InOrder /\ [Next]_vars => InOrder'
  BY RowsInOrder
<1>3. IInv /\ InOrder => NobodyStuck
  <2> SUFFICES ASSUME IInv, InOrder, ~Over, \A t \in Threads : ~CanGo(t)
               PROVE  claimed = Rows /\ \A t \in Threads : pc[t] = "idle"
    BY DEF NobodyStuck
  <2>1. ASSUME NEW t \in Threads PROVE pc[t] = "idle"
    <3>1. pc[t] \in {"idle", "unwind"} /\ (pc[t] = "unwind" => ~exc[t])
      BY DEF CanGo, IInv, TypeOK, Phases
    <3> QED BY <3>1 DEF IInv, ThreadInv, UnwindInv
  <2>2. claimed = Rows
    <3>1. \A r \in Rows : ~MayTake(Master, r)
      BY <2>1, ThreadsAssumption DEF CanGo
    <3>2. CASE MultiThreaded
      BY <3>1, <3>2 DEF MayTake, IInv, TypeOK
    <3>3. CASE ~MultiThreaded
      <4>1. PICK k \in 0 .. NRows : claimed = 0 .. k - 1
        BY <3>3 DEF InOrder
      <4>2. k \notin Rows
        BY <3>1, <4>1, SizesAssumption DEF MayTake, Rows
      <4> QED BY <4>1, <4>2, SizesAssumption DEF Rows
    <3> QED BY <3>2, <3>3
  <2> QED BY <2>1, <2>2
<1> QED BY <1>1, <1>2, <1>3, Invariance, PTL DEF Spec

-----------------------------------------------------------------------------
\* Permuter implements the safety part of PermuteContract.

LEMMA SingleStep == SingleInv /\ [Next]_vars => SingleInv'
<1> SUFFICES ASSUME SingleInv, [Next]_vars, NEW t \in Threads, pc'[t] # "idle"
             PROVE  MultiThreaded \/ t = Master
  BY DEF SingleInv
<1>1. CASE pc[t] # "idle"
  BY <1>1 DEF SingleInv
<1>2. CASE pc[t] = "idle"
  <2>1. PICK u \in Threads : Step(u) /\ pc' # pc
    BY <1>2 DEF Next, Return, Stopped, vars, control
  <2>2. CASE Claim(u)
    <3>1. MultiThreaded \/ u = Master
      BY <2>2 DEF Claim, MayTake
    <3>2. u = t
      BY <1>2, <2>2 DEF Claim
    <3> QED BY <3>1, <3>2
  <2>3. CASE ~Claim(u)
    <3>1. pc[u] # "idle" /\ \E x : pc' = [pc EXCEPT ![u] = x]
      BY <2>1, <2>3
      DEF Step, BeginHook, BeginThrows, BeginDies, MoveHooks, EnterKernel,
          KernelReturns, KernelThrows, DestroyInactive, FinishHook,
          FinishThrows, FinishTerminates, ComparisonDies, CatchException,
          EndRow, LeaveRow, control
    <3> QED BY <1>2, <3>1
  <2> QED BY <2>2, <2>3
<1> QED BY <1>1, <1>2

\* No more rows run at once than there are threads to run them.
LEMMA RunningBound ==
    ASSUME IInv, SingleInv, NEW t \in Threads, pc[t] = "idle",
           MultiThreaded \/ t = Master
    PROVE  Cardinality({q \in Rows : Running(q)}) < TeamSize
<1> DEFINE B == {u \in Threads : pc[u] # "idle"}
           R == {q \in Rows : Running(q)}
           f == [u \in B |-> idx[u]]
<1>1. f \in Surjection(B, R)
  <2>1. \A u \in B : idx[u] \in R
    BY OwnRow DEF Running
  <2>2. \A q \in R : \E u \in B : idx[u] = q
    BY DEF Running
  <2> QED BY <2>1, <2>2 DEF Surjection
<1>2. B \in SUBSET (Threads \ {t}) /\ IsFiniteSet(Threads \ {t})
      /\ Cardinality(Threads \ {t}) = Cardinality(Threads) - 1
  BY ThreadsAssumption, FS_RemoveElement
<1>3. IsFiniteSet(B) /\ Cardinality(B) <= Cardinality(Threads) - 1
  BY <1>2, FS_Subset
<1>4. IsFiniteSet(R) /\ Cardinality(R) <= Cardinality(B)
  BY <1>1, <1>3, FS_Surjection
<1>5. /\ Cardinality(B) \in Nat /\ Cardinality(R) \in Nat
      /\ Cardinality(Threads) \in Nat
  BY <1>3, <1>4, ThreadsAssumption, FS_CardinalityType
<1>6. CASE MultiThreaded
  <2>1. Cardinality(R) < Cardinality(Threads)
    BY <1>3, <1>4, <1>5
  <2> QED BY <1>6, <2>1 DEF TeamSize
<1>7. CASE ~MultiThreaded
  <2>1. B = {}
    BY <1>7 DEF SingleInv
  <2>2. Cardinality(B) = 0
    BY <2>1, FS_EmptySet
  <2>3. Cardinality(R) < 1
    BY <1>4, <1>5, <2>2
  <2> QED BY <1>7, <2>3 DEF TeamSize
<1> QED BY <1>6, <1>7

\* The values of the contract's variables.
Status == [r \in Rows |-> RowStatus(r)]
Out    == [r \in Rows |-> IF Settled(r) THEN results[r] ELSE Unset]
Phase  == IF death # "none" THEN "dead"
          ELSE IF returned THEN "returned" ELSE "running"

LEMMA ContractVars ==
    ASSUME Status' = Status, Out' = Out, Phase' = Phase
    PROVE  UNCHANGED Contract!vars
  BY DEF Contract!vars, Status, Out, Phase

\* A thread takes a row: the contract starts it.
LEMMA ClaimStarts ==
    ASSUME IInv, SingleInv, NEW t \in Threads, Claim(t), Phase = "running"
    PROVE  \E r \in Rows : Contract!Start(r)
<1>1. PICK r \in Rows : /\ MayTake(t, r)
                        /\ idx' = [idx EXCEPT ![t] = r]
                        /\ claimed' = claimed \cup {r}
  BY DEF Claim
<1>2. /\ pc[t] = "idle" /\ pc' = [pc EXCEPT ![t] = "setup"] /\ r \notin claimed
      /\ UNCHANGED <<results, death, returned>> /\ TypeOK
      /\ MultiThreaded \/ t = Master
  BY <1>1 DEF Claim, MayTake, IInv
<1>3. Running(r)' /\ \A q \in Rows \ {r} : Running(q)' <=> Running(q)
  BY <1>1, <1>2 DEF Running, TypeOK
<1>4. \A u \in Threads : pc[u] # "idle" => idx[u] # r
  BY <1>2, OwnRow
<1>5. Status' = [Status EXCEPT ![r] = "running"]
  <2>1. \A q \in Rows \ {r} : RowStatus(q)' = RowStatus(q)
    BY <1>1, <1>3 DEF RowStatus
  <2>2. RowStatus(r)' = "running"
    BY <1>1, <1>3 DEF RowStatus
  <2> QED BY <2>1, <2>2 DEF Status
<1>6. Out' = Out
  <2>1. \A q \in Rows : Settled(q)' <=> Settled(q)
    BY <1>1, <1>2, <1>3 DEF Settled
  <2> QED BY <1>2, <2>1 DEF Out
<1>7. Phase' = Phase
  BY <1>2 DEF Phase
<1>8. Contract!Busy = {q \in Rows : Running(q)}
  <2>1. \A q \in Rows : Running(q) => q \in claimed
    BY OwnRow DEF Running
  <2> QED BY <2>1 DEF Contract!Busy, Contract!Rows, Rows, RowStatus
<1>9. Cardinality(Contract!Busy) < TeamSize
  BY <1>2, <1>8, RunningBound
<1>10. Status[r] = "todo"
  BY <1>2 DEF Status, RowStatus
<1>11. Contract!Start(r)
  \* the contract's instance of FiniteSets has a Cardinality of its own
  <2>1. Contract!Cardinality(Contract!Busy) = Cardinality(Contract!Busy)
    BY Zenon DEF Cardinality, Contract!Cardinality
  <2>2. Contract!Cardinality(Contract!Busy) < TeamSize
    BY <1>9, <2>1
  <2> QED BY <1>5, <1>6, <1>7, <1>10, <2>2
          DEF Contract!Start, Status, Out, Phase
<1> QED BY <1>11

\* A row ends: the contract settles it.
LEMMA EndSettles ==
    ASSUME IInv, IInv', NEW t \in Threads, CatchException(t) \/ EndRow(t),
           Phase = "running"
    PROVE  \E r \in Rows : Contract!Settle(r)
<1>1. pc[t] # "idle" /\ TypeOK
  BY DEF CatchException, EndRow, IInv
<1>2. PICK r \in Rows : r = idx[t] /\ r \in claimed
  BY <1>1, OwnRow
<1>3. /\ pc' = [pc EXCEPT ![t] = "idle"] /\ idx' = [idx EXCEPT ![t] = NoRow]
      /\ UNCHANGED <<claimed, death, returned>>
      /\ \A q \in Rows \ {r} : results'[q] = results[q]
  BY <1>1, <1>2 DEF CatchException, EndRow, LeaveRow, TypeOK
<1>4. Running(r) /\ ~Running(r)'
  BY <1>1, <1>2, <1>3, OwnRow DEF Running, TypeOK
<1>5. \A q \in Rows \ {r} : Running(q)' <=> Running(q)
  BY <1>1, <1>2, <1>3 DEF Running, TypeOK
<1>6. Status' = [Status EXCEPT ![r] = "settled"]
  <2>1. \A q \in Rows \ {r} : RowStatus(q)' = RowStatus(q)
    BY <1>3, <1>5 DEF RowStatus
  <2>2. RowStatus(r)' = "settled"
    BY <1>2, <1>3, <1>4 DEF RowStatus
  <2> QED BY <2>1, <2>2 DEF Status
<1>7. Out' = [Out EXCEPT ![r] = results'[r]]
  <2>1. \A q \in Rows \ {r} : Settled(q)' <=> Settled(q)
    BY <1>3, <1>5 DEF Settled
  <2>2. Settled(r)'
    BY <1>2, <1>3, <1>4 DEF Settled
  <2> QED BY <1>3, <2>1, <2>2 DEF Out
<1>8. results'[r] \in Values \cup Errors \cup Codes \cup Verdicts
  <2>1. Complete(r)' /\ threw'[r] \in {"no", "setup", "kernel", "teardown"}
    BY <1>2, <1>3, <1>4 DEF IInv, SettledInv, TypeOK
  <2> QED BY <2>1 DEF Complete, Unthrown, PhaseCode, Codes
<1>9. Phase' = Phase
  BY <1>3 DEF Phase
<1>10. Status[r] = "running"
  BY <1>2, <1>4 DEF Status, RowStatus
<1>11. Contract!Settle(r)
  BY <1>6, <1>7, <1>8, <1>9, <1>10
  DEF Contract!Settle, Status, Out, Phase
<1> QED BY <1>11

\* Within a row nothing shows.
LEMMA InnerHidden ==
    ASSUME IInv, NEW t \in Threads, pc[t] # "idle", pc'[t] # "idle",
           Step(t), death' = death
    PROVE  UNCHANGED Contract!vars
<1>1. TypeOK /\ idx[t] \in Rows
  BY OwnRow DEF IInv
<1>2. /\ UNCHANGED <<idx, claimed, death, returned>>
      /\ \A u \in Threads : pc'[u] = "idle" <=> pc[u] = "idle"
      /\ \A q \in Rows \ {idx[t]} : results'[q] = results[q]
  BY <1>1
  DEF Step, Claim, BeginHook, BeginThrows, BeginDies, MoveHooks, EnterKernel,
      KernelReturns, KernelThrows, DestroyInactive, FinishHook, FinishThrows,
      FinishTerminates, ComparisonDies, CatchException, EndRow, LeaveRow,
      control, TypeOK
<1>3. \A q \in Rows : Running(q)' <=> Running(q)
  BY <1>2 DEF Running
<1>4. \A q \in Rows : (Settled(q)' <=> Settled(q)) /\ RowStatus(q)' = RowStatus(q)
  BY <1>2, <1>3 DEF Settled, RowStatus
<1>5. Running(idx[t])
  BY DEF Running
<1>6. Status' = Status
  BY <1>4 DEF Status
<1>7. Out' = Out
  BY <1>2, <1>4, <1>5 DEF Out, Settled
<1>8. Phase' = Phase
  BY <1>2 DEF Phase
<1> QED BY <1>6, <1>7, <1>8, ContractVars

\* A step that only ends the process, or the call.
LEMMA LastShows ==
    ASSUME UNCHANGED <<control, results, claimed>>
    PROVE  Status' = Status /\ Out' = Out
<1>1. \A q \in Rows : (Running(q)' <=> Running(q)) /\ (Settled(q)' <=> Settled(q))
  BY DEF control, Running, Settled
<1> QED BY <1>1 DEF Status, Out, RowStatus

\* Every step of Permuter is a step of the contract or changes nothing of it.
LEMMA ContractStep ==
    ASSUME IInv, IInv', SingleInv, [Next]_vars
    PROVE  [Contract!Next]_(Contract!vars)
<1>1. ASSUME NEW t \in Threads, Step(t) PROVE [Contract!Next]_(Contract!vars)
  <2>0. Phase = "running" /\ death = "none" /\ ~returned
    BY <1>1 DEF Step, Phase
  <2>1. CASE Claim(t)
    BY <2>0, <2>1, ClaimStarts DEF Contract!Next, Contract!Rows, Rows
  <2>2. CASE CatchException(t) \/ EndRow(t)
    BY <2>0, <2>2, EndSettles DEF Contract!Next, Contract!Rows, Rows
  <2>3. CASE BeginDies(t) \/ FinishTerminates(t) \/ ComparisonDies(t)
    <3>1. /\ UNCHANGED <<control, results, claimed>> /\ death' # "none"
      BY <2>3 DEF BeginDies, FinishTerminates, ComparisonDies
    <3>2. Phase' = "dead" /\ Status' = Status /\ Out' = Out
      BY <3>1, LastShows DEF Phase
    <3>3. Contract!Die
      BY <2>0, <3>2 DEF Contract!Die, Status, Out, Phase
    <3> QED BY <3>3 DEF Contract!Next
  <2>4. CASE ~(\/ Claim(t) \/ CatchException(t) \/ EndRow(t) \/ BeginDies(t)
              \/ FinishTerminates(t) \/ ComparisonDies(t))
    <3>1. pc[t] # "idle" /\ pc'[t] # "idle" /\ death' = death
      BY <1>1, <2>4
      DEF Step, BeginHook, BeginThrows, MoveHooks, EnterKernel, KernelReturns,
          KernelThrows, DestroyInactive, FinishHook, FinishThrows, AtVictim,
          Destroying, IInv, TypeOK
    <3> QED BY <1>1, <3>1, InnerHidden
  <2> QED BY <2>1, <2>2, <2>3, <2>4
<1>2. CASE Return
  <2>1. /\ UNCHANGED <<control, results, claimed>> /\ Phase = "running"
        /\ Phase' = "returned"
    BY <1>2 DEF Return, Phase
  <2>2. \A r \in Rows : Status[r] = "settled"
    BY <1>2 DEF Return, Status, RowStatus, Running
  <2>3. Contract!Return
    BY <2>1, <2>2, LastShows
    DEF Contract!Return, Contract!Rows, Rows, Status, Out, Phase
  <2> QED BY <2>3 DEF Contract!Next
<1>3. CASE UNCHANGED vars
  <2>1. Phase' = Phase
    BY <1>3 DEF vars, Phase
  <2> QED BY <1>3, <2>1, LastShows, ContractVars DEF vars
<1> QED BY <1>1, <1>2, <1>3 DEF Next, Stopped

\* Each behaviour of Permuter keeps the safety part of the contract: each row
\* is started once, by at most as many as there are threads at a time, settled
\* once with an outcome, and the call returns only when all rows are settled.
THEOREM ImplementsContract == Spec => KeepsContract
<1>1. Init => Contract!Init
  <2> SUFFICES ASSUME Init PROVE Contract!Init
    OBVIOUS
  <2>1. /\ \A r \in Rows : RowStatus(r) = "todo" /\ ~Settled(r)
        /\ death = "none" /\ ~returned
    BY DEF Init, RowStatus, Settled
  <2> QED BY <2>1 DEF Contract!Init, Contract!Rows, Rows
<1>2. Init => SingleInv
  BY DEF Init, SingleInv
<1>3. SingleInv /\ [Next]_vars => SingleInv'
  BY SingleStep
<1>4. IInv /\ IInv' /\ SingleInv /\ [Next]_vars => [Contract!Next]_(Contract!vars)
  BY ContractStep
<1> QED BY <1>1, <1>2, <1>3, <1>4, Invariance, PTL
        DEF Spec, KeepsContract, Contract!Spec
=============================================================================
