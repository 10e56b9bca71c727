-------------------------- MODULE ComparisonProofs --------------------------
(***************************************************************************)
(* Proofs about Comparison, for any set of paths and sizes: the verdict is *)
(* the same in every order the directories may be read in.                 *)
(***************************************************************************)
EXTENDS Comparison, TLAPS

LEMMA NodeFacts ==
    ASSUME NEW n \in Nodes
    PROVE  /\ n.kind \in {"none", "dir", "dirlink", "dangling", "fifo", "file",
                          "link"}
           /\ n.kind = "none" <=> n = NoNode
           /\ n.kind = "dir" <=> n = Dir
           /\ n.kind \in {"file", "link"} => n.size \in Sizes
           /\ Status(n) = "regular" <=> n.kind \in {"file", "link"}
           /\ Status(n) = "directory" <=> n.kind \in {"dir", "dirlink"}
           /\ IsSymlink(n) <=> n.kind \in {"link", "dirlink", "dangling"}
<1>1. \/ n \in {NoNode, Dir, DirLink, Dangling, Fifo}
      \/ \E k \in Sizes : n = File(k) \/ n = Link(k)
  BY DEF Nodes
<1> QED
  BY <1>1
  DEF NoNode, Dir, DirLink, Dangling, Fifo, File, Link, Status, IsSymlink

LEMMA AbovePaths ==
    ASSUME NEW p \in Paths PROVE Above(p) \subseteq Paths
  BY PathsAssumption DEF Above

\* What the walk visits are the leaves of the tree.
LEMMA WalkedLeaves ==
    ASSUME NEW tree \in Trees, NEW p \in Paths
    PROVE  p \in Walked(tree) <=> Leaf(tree, p)
<1>1. tree \in [Paths -> Nodes]
  BY DEF Trees
<1>2. tree[p] # NoNode /\ Status(tree[p]) # "directory"
        <=> tree[p].kind \notin {"none", "dir", "dirlink"}
  BY <1>1, NodeFacts
<1>3. \A q \in Above(p) : tree[q] = Dir <=> tree[q].kind = "dir"
  BY <1>1, AbovePaths, NodeFacts
<1> QED BY <1>2, <1>3 DEF Walked, Leaf

\* The copy of a tree is one, without its links.
LEMMA CopyIsTree ==
    ASSUME NEW tree \in Trees PROVE CopyLevel(tree) \in Trees
<1> DEFINE copy == CopyLevel(tree)
<1>1. tree \in [Paths -> Nodes]
  BY DEF Trees
<1>2. ASSUME NEW n \in Nodes
      PROVE  /\ CopyOf(n) \in Nodes
             /\ n = NoNode => CopyOf(n) = NoNode
             /\ Status(n) = "directory" => Status(CopyOf(n)) = "directory"
  <2>1. CASE Status(n) = "regular"
    BY <2>1, NodeFacts DEF CopyOf, Nodes
  <2>2. CASE Status(n) = "directory"
    BY <2>2, NodeFacts DEF CopyOf, Nodes, Status, Dir
  <2>3. CASE Status(n) \notin {"regular", "directory"}
    BY <2>3 DEF CopyOf, Nodes
  <2>4. n = NoNode => CopyOf(n) = NoNode
    BY DEF CopyOf, Status, NoNode
  <2> QED BY <2>1, <2>2, <2>3, <2>4
<1>3. copy \in [Paths -> Nodes]
  BY <1>1, <1>2 DEF CopyLevel
<1>4. ASSUME NEW p \in Paths, copy[p] # NoNode, NEW q \in Above(p)
      PROVE  Status(copy[q]) = "directory"
  <2>1. q \in Paths /\ copy[q] = CopyOf(tree[q]) /\ copy[p] = CopyOf(tree[p])
    BY AbovePaths DEF CopyLevel
  <2>2. tree[p] # NoNode
    BY <1>1, <1>2, <1>4, <2>1
  <2>3. Status(tree[q]) = "directory"
    BY <2>2 DEF Trees
  <2> QED BY <1>1, <1>2, <2>1, <2>3
<1> QED BY <1>3, <1>4 DEF Trees

-----------------------------------------------------------------------------
\* An item that is still in `after' passes the check exactly if both hold the
\* same file there; one that is not never does.
LEMMA CheckTells ==
    ASSUME IInv, NEW p \in Walked(work)
    PROVE  /\ Check(p) = "same" <=> p \in after /\ SameLeaf(p)
           /\ Check(p) = "error" => work[p].kind \in {"fifo", "dangling"}
<1>1. /\ p \in Paths /\ work[p] \in Nodes /\ model[p] \in Nodes
      /\ work[p].kind \notin {"none", "dir", "dirlink"}
  BY WalkedLeaves DEF IInv, TypeOK, Trees, Walked, Leaf
<1>2. Regular(Status(work[p])) <=> work[p].kind \in {"file", "link"}
  BY <1>1, NodeFacts DEF Regular
<1>3. Regular(AfterStatus(p)) <=> p \in after /\ model[p].kind \in {"file", "link"}
  BY <1>1, NodeFacts DEF Regular, AfterStatus
<1>4. Check(p) = "error" => work[p].kind \in {"fifo", "dangling"}
  BY <1>1, <1>2, NodeFacts DEF Check
<1>5. ASSUME p \in after, SameLeaf(p) PROVE Check(p) = "same"
  <2>1. ~LinksDiffer(p)
    BY <1>1, <1>5, NodeFacts DEF LinksDiffer, SameLeaf
  <2> QED BY <1>2, <1>3, <1>5, <2>1 DEF Check, SameLeaf
<1>6. ASSUME Check(p) = "same" PROVE p \in after /\ SameLeaf(p)
  <2>1. /\ ~LinksDiffer(p) /\ work[p].kind \in {"file", "link"}
        /\ p \in after /\ model[p].kind \in {"file", "link"}
        /\ work[p].size = model[p].size
    BY <1>2, <1>3, <1>6 DEF Check
  <2>2. work[p].kind = "link" => work[p] = model[p]
    BY <1>1, <2>1, NodeFacts DEF LinksDiffer
  <2> QED BY <2>1, <2>2 DEF SameLeaf
<1> QED BY <1>4, <1>5, <1>6

\* In terms of the walk: two trees are equivalent if it visits the same in both.
LEMMA SameFilesWalk ==
    ASSUME TypeOK
    PROVE  SameFiles <=> /\ Walked(work) = Walked(model)
                         /\ \A p \in Walked(work) : SameLeaf(p)
<1>1. Walked(work) \subseteq Paths /\ Walked(model) \subseteq Paths
  BY DEF Walked
<1>2. \A p \in Paths : /\ p \in Walked(work) <=> Leaf(work, p)
                       /\ p \in Walked(model) <=> Leaf(model, p)
  BY WalkedLeaves DEF TypeOK
<1> QED BY <1>1, <1>2 DEF SameFiles

-----------------------------------------------------------------------------
LEMMA InitIInv == Init => IInv
<1> SUFFICES ASSUME Init PROVE IInv
  OBVIOUS
<1>1. work \in Trees
  BY CopyIsTree DEF Init
<1>2. touched \in BOOLEAN
  BY Zenon DEF Init
<1> QED
  BY <1>1, <1>2
  DEF Init, IInv, TypeOK, PassesWhenSameFiles, FailureOnlyOfOddFiles

LEMMA KernelIInv == ASSUME IInv, Kernel PROVE IInv'
<1>1. TypeOK'
  BY DEF IInv, TypeOK, Kernel
<1> QED
  BY <1>1 DEF IInv, Kernel, PassesWhenSameFiles, FailureOnlyOfOddFiles

LEMMA ListIInv == ASSUME IInv, List PROVE IInv'
<1>1. TypeOK'
  BY DEF IInv, TypeOK, List, Walked
<1>2. WalkInv'
  BY DEF IInv, List, WalkInv, Visited, Walked
<1> QED
  BY <1>1, <1>2 DEF IInv, List, PassesWhenSameFiles, FailureOnlyOfOddFiles

LEMMA VisitSameIInv == ASSUME IInv, VisitSame PROVE IInv'
<1>1. PICK p \in todo : /\ Check(p) = "same"
                        /\ todo' = todo \ {p} /\ after' = after \ {p}
  BY DEF VisitSame, First
<1>2. WalkInv /\ p \in Walked(work)
  BY <1>1 DEF IInv, VisitSame, WalkInv
<1>3. p \in after /\ SameLeaf(p)
  BY <1>1, <1>2, CheckTells
<1>4. /\ Walked(work)' = Walked(work) /\ Walked(model)' = Walked(model)
      /\ Visited' = Visited \cup {p}
      /\ \A q \in Paths : SameLeaf(q)' <=> SameLeaf(q)
  BY <1>1, <1>2 DEF VisitSame, Visited, Walked, SameLeaf
<1>5. WalkInv'
  BY <1>1, <1>2, <1>3, <1>4 DEF WalkInv, VisitSame, Visited, Walked
<1>6. TypeOK'
  BY <1>1 DEF IInv, TypeOK, VisitSame
<1> QED
  BY <1>5, <1>6
  DEF IInv, VisitSame, PassesWhenSameFiles, FailureOnlyOfOddFiles

LEMMA VisitOtherIInv == ASSUME IInv, VisitOther PROVE IInv'
<1>1. PICK p \in todo : Check(p) # "same" /\ testret' = OutcomeOf(Check(p))
  BY DEF VisitOther, First
<1>2. WalkInv /\ p \in Walked(work)
  BY <1>1 DEF IInv, VisitOther, WalkInv
<1>3. ~SameFiles
  <2>1. SUFFICES ASSUME SameFiles PROVE FALSE
    OBVIOUS
  <2>2. p \in Walked(model) /\ SameLeaf(p) /\ p \notin Visited
    BY <1>1, <1>2, <2>1, SameFilesWalk DEF IInv, Visited
  <2>3. p \in after
    BY <1>2, <2>2 DEF WalkInv
  <2> QED BY <1>1, <1>2, <2>2, <2>3, CheckTells
<1>4. /\ testret' \in {"comparison_failed", "internal_failure"}
      /\ testret' = "internal_failure" => Check(p) = "error"
  BY <1>1 DEF OutcomeOf
<1>5. PassesWhenSameFiles'
  BY <1>3, <1>4 DEF PassesWhenSameFiles, SameFiles, SameLeaf, Leaf, VisitOther
<1>6. FailureOnlyOfOddFiles'
  BY <1>2, <1>4, CheckTells DEF FailureOnlyOfOddFiles, VisitOther, Walked
<1>7. TypeOK'
  BY <1>4 DEF IInv, TypeOK, VisitOther
<1> QED BY <1>5, <1>6, <1>7 DEF IInv, VisitOther

LEMMA FinishIInv == ASSUME IInv, Finish PROVE IInv'
<1>1. /\ WalkInv /\ Visited = Walked(work)
      /\ after = Walked(model) \ Walked(work)
      /\ \A p \in Walked(work) : p \in Walked(model) /\ SameLeaf(p)
  BY DEF IInv, Finish, WalkInv, Visited
<1>2. after = {} <=> SameFiles
  BY <1>1, SameFilesWalk DEF IInv
<1>3. /\ testret' \in {"passed", "comparison_failed"}
      /\ testret' = "passed" <=> SameFiles
  BY <1>1, <1>2 DEF Finish, WalkInv
<1>4. PassesWhenSameFiles'
  BY <1>3 DEF PassesWhenSameFiles, SameFiles, SameLeaf, Leaf, Finish
<1>5. TypeOK' /\ FailureOnlyOfOddFiles'
  BY <1>3 DEF IInv, TypeOK, FailureOnlyOfOddFiles, Finish
<1> QED BY <1>4, <1>5 DEF IInv, Finish

LEMMA NextIInv == ASSUME IInv, [Next]_vars PROVE IInv'
<1>1. CASE Next
  BY <1>1, KernelIInv, ListIInv, VisitSameIInv, VisitOtherIInv, FinishIInv
  DEF Next
<1>2. CASE UNCHANGED vars
  BY <1>2
  DEF IInv, TypeOK, WalkInv, Visited, Walked, SameLeaf, Leaf, SameFiles,
      PassesWhenSameFiles, FailureOnlyOfOddFiles, vars
<1> QED BY <1>1, <1>2

LEMMA Invariance == Spec => []IInv
  BY InitIInv, NextIInv, PTL DEF Spec

-----------------------------------------------------------------------------
\* The state of a comparison stays well typed.
THEOREM TypeCorrect == Spec => []TypeOK
  BY Invariance, PTL DEF IInv

\* A test keeps its outcome exactly if workspace and model hold the same files in
\* the same directories, whatever the order the directories are read in.
THEOREM VerdictIsOfFiles == Spec => []PassesWhenSameFiles
  BY Invariance, PTL DEF IInv

\* Directories without files, and links to directories, are passed over.
THEOREM DirectoriesArePassed == Spec => []DirectoriesIgnored
<1>1. IInv => DirectoriesIgnored
  <2> SUFFICES ASSUME IInv, pc = "done", DifferInDirectories
               PROVE  testret = "passed"
    BY DEF DirectoriesIgnored
  <2>1. ASSUME NEW p \in Paths, Leaf(work, p) \/ Leaf(model, p)
        PROVE  work[p] = model[p] /\ work[p].kind \notin {"fifo", "dangling"}
    BY <2>1 DEF DifferInDirectories, Leaf
  <2>2. ASSUME NEW p \in Paths, Leaf(work, p) \/ Leaf(model, p),
               NEW q \in Above(p)
        PROVE  work[q] = model[q]
    BY <2>2, AbovePaths DEF DifferInDirectories
  <2>3. \A p \in Paths : Leaf(work, p) <=> Leaf(model, p)
    BY <2>1, <2>2 DEF Leaf
  <2>4. ASSUME NEW p \in Paths, Leaf(work, p) PROVE SameLeaf(p)
    <3>1. work[p] \in Nodes
      BY DEF IInv, TypeOK, Trees
    <3>2. work[p].kind \in {"file", "link"}
      BY <2>1, <2>4, <3>1, NodeFacts DEF Leaf
    <3> QED BY <2>1, <2>4, <3>2 DEF SameLeaf
  <2> QED BY <2>3, <2>4 DEF IInv, PassesWhenSameFiles, SameFiles
<1> QED BY <1>1, Invariance, PTL

\* The comparison fails of itself only where the workspace holds something odd.
THEOREM OddFilesOnly == Spec => []FailureOnlyOfOddFiles
  BY Invariance, PTL DEF IInv

\* A kernel that changes nothing passes, if each link of the template leads to
\* a file.
THEOREM UntouchedIsPassed == Spec => []UntouchedPasses
<1>1. IInv => UntouchedPasses
  <2> SUFFICES ASSUME IInv, pc = "done", ~touched,
                      \A p \in Paths : model[p].kind \in {"none", "dir", "file", "link"}
               PROVE  testret = "passed"
    BY DEF UntouchedPasses
  <2>1. work = CopyLevel(model) /\ model \in [Paths -> Nodes]
    BY DEF IInv, TypeOK, Trees
  <2>2. ASSUME NEW p \in Paths
        PROVE  /\ model[p].kind = "none" => work[p] = NoNode
               /\ model[p].kind = "dir" => work[p] = Dir
               /\ model[p].kind \in {"file", "link"}
                    => work[p] = File(model[p].size)
               /\ work[p] = CopyOf(model[p])
    BY <2>1, NodeFacts DEF CopyLevel, CopyOf, Status
  <2>3. ASSUME NEW p \in Paths
        PROVE  /\ work[p].kind = "dir" <=> model[p].kind = "dir"
               /\ work[p].kind \in {"none", "dir", "dirlink"}
                    <=> model[p].kind \in {"none", "dir", "dirlink"}
    <3>1. NoNode.kind = "none" /\ Dir.kind = "dir" /\ \A n : File(n).kind = "file"
      BY DEF NoNode, Dir, File
    <3>2. CASE model[p].kind = "none"
      BY <2>2, <3>1, <3>2
    <3>3. CASE model[p].kind = "dir"
      BY <2>2, <3>1, <3>3
    <3>4. CASE model[p].kind \in {"file", "link"}
      BY <2>2, <3>1, <3>4
    <3> QED BY <3>2, <3>3, <3>4
  <2>4. \A p \in Paths : Leaf(work, p) <=> Leaf(model, p)
    BY <2>3, AbovePaths DEF Leaf
  <2>5. ASSUME NEW p \in Paths, Leaf(work, p) PROVE SameLeaf(p)
    <3>1. model[p].kind \in {"file", "link"}
      BY <2>3, <2>5 DEF Leaf
    <3>2. work[p] = File(model[p].size)
      BY <2>2, <3>1
    <3>3. \A n : File(n).kind = "file" /\ File(n).size = n
      BY DEF File
    <3> QED BY <3>1, <3>2, <3>3 DEF SameLeaf
  <2> QED BY <2>4, <2>5 DEF IInv, PassesWhenSameFiles, SameFiles
<1> QED BY <1>1, Invariance, PTL
=============================================================================
