---------------------------- MODULE LibraryProofs ----------------------------
(***************************************************************************)
(* Proofs about LibraryDirectory, for any threads, products and            *)
(* directories.                                                            *)
(***************************************************************************)
EXTENDS LibraryDirectory, FiniteSetTheorems, NaturalsInduction, TLAPS

\* A set of levels that is not empty has one nearest to the starting path.
LEMMA Nearest ==
    ASSUME NEW S \in SUBSET Nat, S # {}
    PROVE  \E l \in S : \A k \in S : l <= k
<1>1. IsWellFoundedOn(OpToRel(<, Nat), Nat)
  BY NatLessThanWellFounded
<1>2. PICK l \in S : \A k \in S : <<k, l>> \notin OpToRel(<, Nat)
  BY <1>1, WFMin
<1>3. \A k \in S : ~(k < l)
  BY <1>2 DEF OpToRel
<1> QED BY <1>3

\* What the search finds is the place of the product, and never no path.
LEMMA PlaceFound ==
    ASSUME NEW p \in Products, PlaceOf(p) # NoPath
    PROVE  PlaceOf(p) \in Paths
<1>1. 0 \in Levels /\ Levels \subseteq Nat
  BY DirectoriesAssumption DEF Levels
<1>2. CASE p \in InEnv
  BY <1>1, <1>2 DEF PlaceOf, Paths
<1>3. CASE p \notin InEnv
  <2>1. Hits(p) # {} /\ Hits(p) \subseteq Levels
    BY <1>3 DEF PlaceOf, Hits, Searched
  <2>2. \E l \in Hits(p) : \A k \in Hits(p) : l <= k
    BY <1>1, <2>1, Nearest
  <2> DEFINE near == CHOOSE l \in Hits(p) : \A k \in Hits(p) : l <= k
  <2>3. near \in Levels
    BY <2>1, <2>2
  <2> QED BY <1>3, <2>1, <2>3 DEF PlaceOf, Paths
<1> QED BY <1>2, <1>3

\* Only one of two instantiations that were used is in use.
LEMMA OneUsed ==
    ASSUME IInv, NEW t \in Threads, pc[t] = "look", Cardinality(used) = 1
    PROVE  used \subseteq {throwing[t]}
<1>1. IsFiniteSet(used)
  <2>1. IsFiniteSet(BOOLEAN)
    <3>1. BOOLEAN = {TRUE} \cup {FALSE}
      OBVIOUS
    <3>2. IsFiniteSet({TRUE})
      BY FS_Singleton
    <3>3. IsFiniteSet({TRUE} \cup {FALSE})
      BY <3>2, FS_AddElement
    <3> QED BY <3>1, <3>3
  <2> QED BY <2>1, FS_Subset DEF IInv, TypeOK
<1>2. PICK b : used = {b}
  BY <1>1, FS_Singleton
<1> QED BY <1>2 DEF IInv

-----------------------------------------------------------------------------
LEMMA InitIInv == Init => IInv
<1> SUFFICES ASSUME Init PROVE IInv
  OBVIOUS
<1>1. TypeOK
  <2>1. calls \in [Threads -> 0 .. MaxCalls]
    BY DirectoriesAssumption DEF Init
  <2>2. dead \in BOOLEAN /\ throwing \in [Threads -> BOOLEAN]
    BY Zenon DEF Init
  <2> QED BY <2>1, <2>2 DEF Init, TypeOK, Paths
<1> QED BY <1>1 DEF Init, IInv

LEMMA CallIInv ==
    ASSUME IInv, NEW t \in Threads, Call(t) PROVE IInv'
<1>1. PICK b \in BOOLEAN, p \in Products :
        /\ throwing' = [throwing EXCEPT ![t] = b]
        /\ asked' = [asked EXCEPT ![t] = p]
        /\ used' = used \cup {b}
  BY DEF Call
<1>2. TypeOK'
  <2>1. calls' \in [Threads -> 0 .. MaxCalls]
    BY DirectoriesAssumption DEF IInv, TypeOK, Call, Called
  <2>2. answer' \in [Threads -> Paths]
    BY DEF IInv, TypeOK, Call, Paths
  <2>3. /\ pc' \in [Threads -> {"idle", "lock", "look", "holding"}]
        /\ \A u \in Threads : pc'[u] \in {"look", "holding"} => lock' = u
    BY DEF IInv, TypeOK, Call, Goto
  <2>4. /\ throwing' \in [Threads -> BOOLEAN]
        /\ asked' \in [Threads -> Products \cup {None}]
        /\ used' \subseteq BOOLEAN
    BY <1>1 DEF IInv, TypeOK
  <2> QED BY <2>1, <2>2, <2>3, <2>4 DEF IInv, TypeOK, Call
<1>3. \A u \in Threads : pc'[u] \in {"lock", "look"} =>
        throwing'[u] \in used' /\ asked'[u] \in Products
  BY <1>1 DEF IInv, TypeOK, Call, Goto
<1>4. \A c \in BOOLEAN : used' \subseteq {c} /\ product'[c] # None =>
        path' = PlaceOf(product'[c]) \/ <<product'[c], path'>> \in ordered'
  BY <1>1 DEF IInv, Call
<1> QED BY <1>2, <1>3, <1>4 DEF IInv

LEMMA LockIInv ==
    ASSUME IInv, NEW t \in Threads, Lock(t) \/ Override(t) PROVE IInv'
<1>1. calls' \in [Threads -> 0 .. MaxCalls]
  BY DirectoriesAssumption DEF IInv, TypeOK, Lock, Override, Called
<1>2. /\ pc' \in [Threads -> {"idle", "lock", "look", "holding"}]
      /\ \A u \in Threads : pc'[u] \in {"look", "holding"} => lock' = u
      /\ lock' \in Threads \cup {None}
  BY DirectoriesAssumption DEF IInv, TypeOK, Lock, Override, Goto, At
<1>3. TypeOK'
  BY <1>1, <1>2 DEF IInv, TypeOK, Lock, Override, call
<1> QED
  BY <1>3 DEF IInv, TypeOK, Lock, Override, Goto, At, call

\* Who looks is answered and lets go of the storage.
LEMMA AnswerIInv ==
    ASSUME IInv, NEW t \in Threads, Hit(t) \/ Find(t) PROVE IInv'
<1>1. /\ pc' \in [Threads -> {"idle", "lock", "look", "holding"}]
      /\ \A u \in Threads : pc'[u] \in {"look", "holding"} => lock' = u
      /\ lock' \in Threads \cup {None}
      /\ asked[t] \in Products /\ throwing[t] \in used
      /\ throwing[t] \in BOOLEAN
  BY DEF IInv, TypeOK, Hit, Find, Goto, At
<1>2. CASE Hit(t)
  <2>1. TypeOK'
    BY <1>1, <1>2 DEF IInv, TypeOK, Hit, call
  <2> QED BY <1>2, <2>1 DEF IInv, TypeOK, Hit, Goto, At, call
<1>3. CASE Find(t)
  <2>1. path' = PlaceOf(asked[t]) /\ path' \in Paths
    BY <1>1, <1>3, PlaceFound DEF Find
  <2>2. TypeOK'
    BY <1>1, <1>3, <2>1 DEF IInv, TypeOK, Find, call
  <2>3. \A b \in BOOLEAN : used' \subseteq {b} /\ product'[b] # None =>
          path' = PlaceOf(product'[b])
    BY <1>1, <1>3, <2>1 DEF IInv, TypeOK, Find
  <2> QED BY <1>3, <2>2, <2>3 DEF IInv, TypeOK, Find, Goto, At, call
<1> QED BY <1>2, <1>3

LEMMA SearchFailsIInv ==
    ASSUME IInv, NEW t \in Threads, SearchFails(t) PROVE IInv'
<1>1. /\ pc' \in [Threads -> {"idle", "lock", "look", "holding"}]
      /\ \A u \in Threads : pc'[u] \in {"look", "holding"} => lock' = u
      /\ lock' \in Threads \cup {None}
      /\ \A u \in Threads : pc'[u] \in {"lock", "look"} => pc'[u] = pc[u]
  BY DEF IInv, TypeOK, SearchFails, Goto, At
<1>2. dead' \in BOOLEAN
  BY DEF IInv, TypeOK, SearchFails
<1>3. TypeOK'
  BY <1>1, <1>2 DEF IInv, TypeOK, SearchFails, call
<1> QED BY <1>1, <1>3 DEF IInv, SearchFails, call

\* The storage is the holder's: what he sets is noted for who looks next.
LEMMA SetPathIInv ==
    ASSUME IInv, NEW t \in Threads, SetPath(t) PROVE IInv'
<1>1. PICK p \in Products :
        /\ path' = <<"override", p, 0>>
        /\ ordered' = {<<product[b], path'>> : b \in BOOLEAN}
  BY DEF SetPath
<1>2. path' \in Paths
  BY <1>1, DirectoriesAssumption DEF Paths, Levels
<1>3. ordered' \subseteq (Products \cup {None}) \X Paths
  BY <1>1, <1>2 DEF IInv, TypeOK
<1>4. TypeOK'
  BY <1>2, <1>3 DEF IInv, TypeOK, SetPath, call
<1> QED BY <1>1, <1>4 DEF IInv, SetPath, call

LEMMA ReleaseIInv ==
    ASSUME IInv, NEW t \in Threads, Release(t) PROVE IInv'
<1>1. /\ pc' \in [Threads -> {"idle", "lock", "look", "holding"}]
      /\ \A u \in Threads : pc'[u] \in {"look", "holding"} => lock' = u
      /\ \A u \in Threads : pc'[u] \in {"lock", "look"} => pc'[u] = pc[u]
      /\ lock' \in Threads \cup {None}
  BY DEF IInv, TypeOK, Release, Goto, At
<1>2. TypeOK'
  BY <1>1 DEF IInv, TypeOK, Release, call
<1> QED BY <1>1, <1>2 DEF IInv, Release, call

LEMMA NextIInv == ASSUME IInv, [Next]_vars PROVE IInv'
<1>1. CASE Next
  BY <1>1, CallIInv, LockIInv, AnswerIInv, SearchFailsIInv, SetPathIInv,
     ReleaseIInv DEF Next, Step
<1>2. CASE UNCHANGED vars
  BY <1>2 DEF IInv, TypeOK, vars, call
<1> QED BY <1>1, <1>2

LEMMA Invariance == Spec => []IInv
  BY InitIInv, NextIInv, PTL DEF Spec

-----------------------------------------------------------------------------
\* The storage has one holder at a time, whoever calls while he holds it.
THEOREM TypeCorrect == Spec => []TypeOK
  BY Invariance, PTL DEF IInv

\* With one instantiation in use, a call is answered with the place of the
\* product it asked for, or with what an override has put there for it.
THEOREM AnswerIsRight == Spec => AnswerIsMine
<1> DEFINE Mine == Cardinality(used) = 1 =>
              \A t \in Threads : answer'[t] # answer[t] /\ answer'[t] # NoPath =>
                  \/ answer'[t] = PlaceOf(asked[t])
                  \/ <<asked[t], answer'[t]>> \in ordered
<1>1. ASSUME IInv, [Next]_vars PROVE [Mine]_vars
  <2> SUFFICES ASSUME Next, Cardinality(used) = 1, NEW u \in Threads,
                      answer'[u] # answer[u], answer'[u] # NoPath
               PROVE  \/ answer'[u] = PlaceOf(asked[u])
                      \/ <<asked[u], answer'[u]>> \in ordered
    BY <1>1
  <2>1. PICK t \in Threads : Hit(t) \/ Find(t) \/ Call(t)
    BY DEF Next, Step, Lock, SearchFails, Release, Override, SetPath
  <2>2. CASE Call(t)
    BY <1>1, <2>2 DEF IInv, TypeOK, Call
  <2>3. CASE Find(t)
    BY <1>1, <2>3 DEF IInv, TypeOK, Find
  <2>4. CASE Hit(t)
    <3>1. /\ u = t /\ answer'[u] = path /\ pc[t] = "look"
          /\ product[throwing[t]] = asked[t]
      BY <1>1, <2>4 DEF IInv, TypeOK, Hit, Cached, At
    <3>2. /\ used \subseteq {throwing[t]} /\ throwing[t] \in BOOLEAN
          /\ asked[t] # None
      BY <1>1, <3>1, OneUsed, DirectoriesAssumption DEF IInv, TypeOK
    <3> QED BY <1>1, <3>1, <3>2 DEF IInv
  <2> QED BY <2>1, <2>2, <2>3, <2>4
<1> QED BY <1>1, Invariance, PTL DEF Spec, AnswerIsMine

-----------------------------------------------------------------------------
\* What CallsReturn rests on, and what it makes an exception of.

LEMMA HolderInit == Init => HolderLetsGo
  BY DEF Init, HolderLetsGo

LEMMA HolderStep ==
    ASSUME IInv, HolderLetsGo, [Next]_vars PROVE HolderLetsGo'
<1>1. CASE UNCHANGED vars
  BY <1>1 DEF HolderLetsGo, SelfDeadlock, vars
<1>2. CASE Next
  <2> USE DEF HolderLetsGo, SelfDeadlock, IInv, TypeOK
  <2>0. PICK t \in Threads : Step(t) \/ Call(t) \/ Override(t) \/ SetPath(t)
    BY <1>2 DEF Next
  <2>1. CASE Lock(t) \/ Override(t)
    BY <2>1 DEF Lock, Override, Goto, At
  <2>2. CASE Hit(t) \/ Find(t) \/ Release(t)
    BY <2>2 DEF Hit, Find, Release, Goto, At
  <2>3. CASE SearchFails(t)
    BY <2>3 DEF SearchFails, Goto, At
  <2>4. CASE Call(t) \/ SetPath(t)
    BY <2>4 DEF Call, SetPath, Goto, At
  <2> QED BY <2>0, <2>1, <2>2, <2>3, <2>4 DEF Step
<1> QED BY <1>1, <1>2

\* The storage is never kept by a call that is over, however it ended.
THEOREM StorageIsLetGo == Spec => []HolderLetsGo
<1>1. Init => IInv /\ HolderLetsGo
  BY InitIInv, HolderInit
<1>2. IInv /\ HolderLetsGo /\ [Next]_vars => IInv' /\ HolderLetsGo'
  BY NextIInv, HolderStep
<1> QED BY <1>1, <1>2, PTL DEF Spec

\* Who calls library_directory() while he holds the overriding storage waits for
\* ever, and every call with him.
THEOREM DeadlockStays == Spec => DeadlockIsCertain
<1> DEFINE Stays == SelfDeadlock =>
              /\ lock' = lock /\ dead' = dead
              /\ \A t \in Threads : pc[t] = "lock" => pc'[t] = "lock"
<1>1. ASSUME IInv, [Next]_vars PROVE [Stays]_vars
  <2> SUFFICES ASSUME Next, SelfDeadlock
               PROVE  /\ lock' = lock /\ dead' = dead
                      /\ \A t \in Threads : pc[t] = "lock" => pc'[t] = "lock"
    BY <1>1
  <2>1. PICK t \in Threads : Step(t) \/ Call(t) \/ Override(t) \/ SetPath(t)
    BY DEF Next
  <2>2. ~At(t, "look") /\ ~At(t, "holding") /\ lock # None
    BY <1>1 DEF SelfDeadlock, IInv, TypeOK, At
  <2>3. Call(t) /\ pc[t] = "idle"
    BY <1>1, <2>1, <2>2
    DEF Step, Lock, Hit, Find, SearchFails, Release, Override, SetPath, Call,
        At, IInv, TypeOK
  <2> QED BY <1>1, <2>3 DEF Call, Goto, IInv, TypeOK
<1> QED BY <1>1, Invariance, PTL DEF Spec, DeadlockIsCertain
=============================================================================
