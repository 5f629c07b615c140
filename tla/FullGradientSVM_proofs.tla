----------------------- MODULE FullGradientSVM_proofs -----------------------
(***************************************************************************)
(* Proofs about FullGradientSVM for every number of threads and features,  *)
(* every partition of the training and test sets, every number of rounds  *)
(* and every penalty.                                                      *)
(*                                                                         *)
(* TypeOK is not inductive on its own: SyncRound increments every round   *)
(* counter, which stays in 0 .. Iters only because a thread waits at the  *)
(* sync after StartRound checked i < num_iter (RoundBound).  SnapshotFresh *)
(* is inductive relative to TypeOK: param only changes at SyncRound,       *)
(* which needs every thread at "wait", and sends them all to "loop".      *)
(***************************************************************************)
EXTENDS FullGradientSVM, SVMFacts, FiniteSetTheorems, TLAPS

(* A thread inside the round's list_execute is in a round that the loop   *)
(* test allowed.                                                           *)
RoundBound == \A w \in Workers : pc[w] \in {"grad", "wait"} => rnd[w] < Iters

IInv == TypeOK /\ RoundBound /\ SnapshotFresh

USE NumFeaturesAssumption, WorkersAssumption, DataAssumption, ItersAssumption,
    PenaltyAssumption, TotalAssumption

-----------------------------------------------------------------------------
(* A thread's training and test records are examples.                      *)
LEMMA RecordFacts ==
  ASSUME NEW w \in Workers
  PROVE  /\ Len(Data[w]) \in Nat /\ Len(TestData[w]) \in Nat
         /\ \A j \in 1 .. Len(Data[w]) : Data[w][j] \in Example
         /\ \A j \in 1 .. Len(TestData[w]) : TestData[w][j] \in Example
BY DEF Workers

(* Thread 0's decay of integer parameters is an integer vector.            *)
LEMMA FGDDecayType ==
  ASSUME NEW w \in Workers, NEW P \in [Idx -> Int]
  PROVE  FGDDecay(w, P) \in [Idx -> Int]
BY DEF FGDDecay, Zero

(* The unit change of a round of the loop is a positive natural.           *)
LEMMA ScalePositive ==
  ASSUME NEW i \in 0 .. Iters
  PROVE  Scale(i) \in Nat \ {0}
BY DEF Scale

-----------------------------------------------------------------------------
LEMMA InitIInv == Init => IInv
<1> SUFFICES ASSUME Init PROVE IInv
  OBVIOUS
<1>1. TypeOK
  BY DEF Init, TypeOK, Zero
<1>2. RoundBound
  BY DEF Init, RoundBound
<1>3. SnapshotFresh
  BY DEF Init, SnapshotFresh
<1>4. QED BY <1>1, <1>2, <1>3 DEF IInv

LEMMA NextIInv == IInv /\ [Next]_vars => IInv'
<1> SUFFICES ASSUME IInv, [Next]_vars PROVE IInv'
  OBVIOUS
<1>. USE DEF IInv
<1>1. ASSUME NEW w \in Workers, Count(w) PROVE IInv'
  BY <1>1 DEF Count, TypeOK, RoundBound, SnapshotFresh
<1>2. CASE SyncCount
  BY <1>2 DEF SyncCount, TypeOK, RoundBound, SnapshotFresh
<1>3. ASSUME NEW w \in Workers, StartRound(w) PROVE IInv'
  <2>1. FGDDecay(w, param) \in [Idx -> Int]
    BY FGDDecayType DEF TypeOK
  <2>2. TypeOK'
    BY <1>3, <2>1 DEF StartRound, TypeOK
  <2>3. RoundBound'
    BY <1>3 DEF StartRound, TypeOK, RoundBound
  <2>4. SnapshotFresh'
    BY <1>3 DEF StartRound, TypeOK, SnapshotFresh
  <2>5. QED BY <2>2, <2>3, <2>4
<1>4. ASSUME NEW w \in Workers, GradStep(w) PROVE IInv'
  <2>1. Data[w][k[w]] \in Example
    <3>1. k[w] \in 1 .. Len(Data[w])
      BY <1>4, RecordFacts DEF GradStep, TypeOK
    <3>2. QED BY <3>1, RecordFacts
  <2>2. SVMGrad(Data[w][k[w]], bw[w], den) \in [Idx -> Int]
    <3>1. bw[w] \in [Idx -> Int] /\ den \in Int
      BY DEF TypeOK
    <3>2. QED BY <2>1, <3>1, SVMGradType, Zenon
  <2>3. TypeOK'
    BY <1>4, <2>2 DEF GradStep, TypeOK
  <2>4. QED BY <1>4, <2>3 DEF GradStep, RoundBound, SnapshotFresh
<1>5. ASSUME NEW w \in Workers, Contribute(w) PROVE IInv'
  <2>1. TypeOK'
    BY <1>5 DEF Contribute, TypeOK, Plus, Zero
  <2>2. RoundBound'
    BY <1>5 DEF Contribute, TypeOK, RoundBound
  <2>3. SnapshotFresh'
    BY <1>5 DEF Contribute, TypeOK, SnapshotFresh
  <2>4. QED BY <2>1, <2>2, <2>3
<1>6. CASE SyncRound
  <2>1. 0 \in Workers /\ rnd[0] \in 0 .. Iters
    BY DEF Workers, TypeOK
  <2>2. Scale(rnd[0]) \in Nat \ {0}
    BY <2>1, ScalePositive
  <2>3. \A w \in Workers : rnd[w] < Iters
    BY <1>6 DEF SyncRound, RoundBound
  <2>4. TypeOK'
    BY <1>6, <2>2, <2>3 DEF SyncRound, TypeOK, Zero
  <2>5. RoundBound' /\ SnapshotFresh'
    BY <1>6 DEF SyncRound, RoundBound, SnapshotFresh
  <2>6. QED BY <2>4, <2>5
<1>7. ASSUME NEW w \in Workers, EndLoop(w) PROVE IInv'
  <2>1. TypeOK'
    BY <1>7 DEF EndLoop, TypeOK
  <2>2. RoundBound'
    BY <1>7 DEF EndLoop, TypeOK, RoundBound
  <2>3. SnapshotFresh'
    BY <1>7 DEF EndLoop, TypeOK, SnapshotFresh
  <2>4. QED BY <2>1, <2>2, <2>3
<1>8. ASSUME NEW w \in Workers, TestStep(w) PROVE IInv'
  <2>1. TestData[w][k[w]] \in Example
    <3>1. k[w] \in 1 .. Len(TestData[w])
      BY <1>8, RecordFacts DEF TestStep, TypeOK
    <3>2. QED BY <3>1, RecordFacts
  <2>2. DotWithIntcpt(bw[w], TestData[w][k[w]]) \in Int
    <3>1. bw[w] \in [Idx -> Int]
      BY DEF TypeOK
    <3>2. QED BY <2>1, <3>1, DotType, Zenon
  <2>3. TypeOK'
    BY <1>8, <2>2 DEF TestStep, TypeOK
  <2>4. QED BY <1>8, <2>3 DEF TestStep, RoundBound, SnapshotFresh
<1>9. ASSUME NEW w \in Workers, TestDone(w) PROVE IInv'
  BY <1>9 DEF TestDone, TypeOK, RoundBound, SnapshotFresh
<1>10. CASE SyncTest
  BY <1>10 DEF SyncTest, TypeOK, RoundBound, SnapshotFresh
<1>11. CASE UNCHANGED vars
  BY <1>11 DEF vars, TypeOK, RoundBound, SnapshotFresh
<1>12. QED
  BY <1>1, <1>2, <1>3, <1>4, <1>5, <1>6, <1>7, <1>8, <1>9, <1>10, <1>11
     DEF Next, Worker

-----------------------------------------------------------------------------
(* Every reachable state of svm_fgd's svm() is well typed; in particular  *)
(* the round counters stay within 0 .. n_iter and the denominator of the   *)
(* exact parameters stays positive.                                        *)
THEOREM TypeCorrect == Spec => []TypeOK
<1>1. Init => IInv
  BY InitIInv
<1>2. IInv /\ [Next]_vars => IInv'
  BY NextIInv
<1>3. IInv => TypeOK
  BY DEF IInv
<1>4. QED BY <1>1, <1>2, <1>3, PTL DEF Spec

(* Under every interleaving, a thread's bweight is the synced parameters  *)
(* whenever its gradient or test lambda reads it: no sync falls between    *)
(* get_all_param() and the end of the list_execute that uses it.          *)
THEOREM SnapshotCorrect == Spec => []SnapshotFresh
<1>1. Init => IInv
  BY InitIInv
<1>2. IInv /\ [Next]_vars => IInv'
  BY NextIInv
<1>3. IInv => SnapshotFresh
  BY DEF IInv
<1>4. QED BY <1>1, <1>2, <1>3, PTL DEF Spec
-----------------------------------------------------------------------------
(***************************************************************************)
(* What the test pass reports.  ReportedTestErrors only speaks at the end. *)
(* FInv says what the test channels hold at every moment: the count of    *)
(* the test records visited so far by threads in their test pass, and of  *)
(* those among them the synced parameters strictly misclassify.  It stays *)
(* true while other threads still train, because a thread in its test     *)
(* pass never returns to "wait", so the round sync that changes param      *)
(* cannot happen once a record has been visited; and the lambda's bweight *)
(* is param (SnapshotFresh).                                               *)
(***************************************************************************)
TestPhases == {"test", "twait", "done"}

(* The test records visited by threads in their test pass.                 *)
Visited == {r \in TestRecords : pc[r[1]] \in TestPhases /\ r[2] < k[r[1]]}

TestPlace(w) ==
  pc[w] \in TestPhases =>
    /\ k[w] \in 1 .. Len(TestData[w]) + 1
    /\ pc[w] # "test" => k[w] = Len(TestData[w]) + 1

FInv ==
  /\ IInv
  /\ \A w \in Workers : TestPlace(w)
  /\ IsFiniteSet(Visited)
  /\ errChan = Cardinality(StrictlyMisclassified(param) \cap Visited)
  /\ cntChan = Cardinality(Visited)
  /\ (\E w \in Workers : pc[w] = "done") =>
        /\ \A w \in Workers : pc[w] = "done"
        /\ testErr = errChan

USE DEF TestPhases

(* A test record is a thread and a position within its test records.      *)
LEMMA TestRecordsMem ==
  ASSUME NEW r
  PROVE  r \in TestRecords <=>
           \E w \in Workers : \E j \in 1 .. Len(TestData[w]) : r = <<w, j>>
BY DEF TestRecords

(* A step that changes neither the test pass of any thread nor the test  *)
(* channels, and changes param only when no thread is in its test pass.   *)
LEMMA QuietStep ==
  ASSUME FInv, IInv',
         \A w \in Workers : pc'[w] \in TestPhases <=> pc[w] \in TestPhases,
         \A w \in Workers : pc[w] \in TestPhases => pc'[w] = pc[w] /\ k'[w] = k[w],
         (\E w \in Workers : pc[w] \in TestPhases) => param' = param,
         UNCHANGED <<errChan, cntChan, testErr>>
  PROVE  FInv'
<1>1. pc \in [Workers -> {"count", "cwait", "loop", "grad", "wait", "test",
                          "twait", "done"}]
      /\ k \in [Workers -> Nat \ {0}]
  BY DEF FInv, IInv, TypeOK
<1>2. Visited' = Visited
  <2>1. ASSUME NEW r \in TestRecords
        PROVE  (pc'[r[1]] \in TestPhases /\ r[2] < k'[r[1]])
                 <=> (pc[r[1]] \in TestPhases /\ r[2] < k[r[1]])
    <3>1. r[1] \in Workers
      BY TestRecordsMem
    <3>2. QED BY <3>1
  <2>2. QED BY <2>1 DEF Visited
<1>3. StrictlyMisclassified(param') \cap Visited
        = StrictlyMisclassified(param) \cap Visited
  <2>1. CASE \E w \in Workers : pc[w] \in TestPhases
    BY <2>1
  <2>2. CASE \A w \in Workers : pc[w] \notin TestPhases
    <3>1. Visited = {}
      <4>1. SUFFICES ASSUME NEW r \in Visited PROVE FALSE
        OBVIOUS
      <4>2. r[1] \in Workers
        BY TestRecordsMem DEF Visited
      <4>3. QED BY <2>2, <4>2 DEF Visited
    <3>2. QED BY <3>1
  <2>3. QED BY <2>1, <2>2
<1>4. \A w \in Workers : TestPlace(w)'
  BY DEF FInv, TestPlace
<1>5. (\E w \in Workers : pc'[w] = "done") => \A w \in Workers : pc'[w] = "done"
  BY DEF FInv
<1>6. (\E w \in Workers : pc'[w] = "done") => testErr' = errChan'
  BY DEF FInv
<1>7. QED BY <1>2, <1>3, <1>4, <1>5, <1>6 DEF FInv

(* The loop ends: the thread starts its test pass at its first record.    *)
LEMMA EndLoopFInv ==
  ASSUME FInv, IInv', NEW u \in Workers, EndLoop(u)
  PROVE  FInv'
<1>1. /\ pc[u] = "loop" /\ pc' = [pc EXCEPT ![u] = "test"]
      /\ k' = [k EXCEPT ![u] = 1]
      /\ UNCHANGED <<param, errChan, cntChan, testErr>>
  BY DEF EndLoop
<1>2. pc \in [Workers -> {"count", "cwait", "loop", "grad", "wait", "test",
                          "twait", "done"}]
      /\ k \in [Workers -> Nat \ {0}]
  BY DEF FInv, IInv, TypeOK
<1>3. Visited' = Visited
  <2>1. ASSUME NEW r \in TestRecords
        PROVE  (pc'[r[1]] \in TestPhases /\ r[2] < k'[r[1]])
                 <=> (pc[r[1]] \in TestPhases /\ r[2] < k[r[1]])
    <3>1. PICK w \in Workers : \E j \in 1 .. Len(TestData[w]) : r = <<w, j>>
      BY TestRecordsMem
    <3>2. PICK j \in 1 .. Len(TestData[w]) : r = <<w, j>>
      BY <3>1
    <3>3. QED BY <1>1, <1>2, <3>2
  <2>2. QED BY <2>1 DEF Visited
<1>4. \A w \in Workers : TestPlace(w)'
  <2>1. Len(TestData[u]) \in Nat
    BY RecordFacts
  <2>2. QED BY <1>1, <1>2, <2>1 DEF FInv, TestPlace
<1>5. ~\E w \in Workers : pc'[w] = "done"
  <2>1. ~\E w \in Workers : pc[w] = "done"
    BY <1>1 DEF FInv
  <2>2. QED BY <1>1, <1>2, <2>1
<1>6. QED BY <1>1, <1>3, <1>4, <1>5 DEF FInv

(* The test lambda on the next local record: it reads bweight, which is  *)
(* param; a strictly misclassified record adds one to both counts, any    *)
(* other record to the record count only.                                  *)
LEMMA TestStepFInv ==
  ASSUME FInv, IInv', NEW u \in Workers, TestStep(u)
  PROVE  FInv'
<1>. DEFINE x == <<u, k[u]>>
            ex == TestData[u][k[u]]
            M == StrictlyMisclassified(param)
            err == IF ex.y * DotWithIntcpt(bw[u], ex) < 0 THEN 1 ELSE 0
<1>1. /\ pc[u] = "test" /\ k[u] \in 1 .. Len(TestData[u])
      /\ errChan' = errChan + err /\ cntChan' = cntChan + 1
      /\ k' = [k EXCEPT ![u] = k[u] + 1]
      /\ UNCHANGED <<pc, bw, param, testErr>>
  BY DEF TestStep, FInv, TestPlace
<1>2. /\ pc \in [Workers -> {"count", "cwait", "loop", "grad", "wait", "test",
                             "twait", "done"}]
      /\ k \in [Workers -> Nat \ {0}] /\ errChan \in Nat /\ cntChan \in Nat
      /\ bw[u] = param
  BY <1>1 DEF FInv, IInv, TypeOK, SnapshotFresh
<1>3. x \in TestRecords /\ x \notin Visited
  BY <1>1, TestRecordsMem DEF Visited
<1>4. Visited' = Visited \cup {x}
  <2>1. ASSUME NEW r \in TestRecords
        PROVE  (pc'[r[1]] \in TestPhases /\ r[2] < k'[r[1]])
                 <=> (pc[r[1]] \in TestPhases /\ r[2] < k[r[1]]) \/ r = x
    <3>1. PICK w \in Workers : \E j \in 1 .. Len(TestData[w]) : r = <<w, j>>
      BY TestRecordsMem
    <3>2. PICK j \in 1 .. Len(TestData[w]) : r = <<w, j>>
      BY <3>1
    <3>3. QED BY <1>1, <1>2, <3>2
  <2>2. QED BY <1>3, <2>1 DEF Visited
<1>5. IsFiniteSet(Visited) /\ IsFiniteSet(M \cap Visited)
  BY FS_Intersection DEF FInv
<1>6. IsFiniteSet(Visited') /\ cntChan' = Cardinality(Visited')
  BY <1>1, <1>3, <1>4, <1>5, FS_AddElement DEF FInv
<1>7. errChan' = Cardinality(StrictlyMisclassified(param') \cap Visited')
  <2>1. StrictlyMisclassified(param') = M
    BY <1>1
  <2>2. x \in M <=> err = 1
    BY <1>2, <1>3 DEF StrictlyMisclassified
  <2>3. CASE err = 1
    <3>1. M \cap Visited' = (M \cap Visited) \cup {x}
      BY <1>4, <2>2, <2>3
    <3>2. x \notin M \cap Visited
      BY <1>3
    <3>3. Cardinality((M \cap Visited) \cup {x}) = Cardinality(M \cap Visited) + 1
      BY <1>5, <3>2, FS_AddElement
    <3>4. errChan' = Cardinality(M \cap Visited) + 1
      BY <1>1, <2>3 DEF FInv
    <3>5. QED BY <2>1, <3>1, <3>3, <3>4
  <2>4. CASE err # 1
    <3>1. err = 0
      BY <2>4
    <3>2. M \cap Visited' = M \cap Visited
      BY <1>4, <2>2, <2>4
    <3>3. errChan' = Cardinality(M \cap Visited)
      BY <1>1, <1>2, <3>1 DEF FInv
    <3>4. QED BY <2>1, <3>2, <3>3
  <2>5. QED BY <2>3, <2>4
<1>8. \A w \in Workers : TestPlace(w)'
  <2>1. SUFFICES ASSUME NEW w \in Workers PROVE TestPlace(w)'
    OBVIOUS
  <2>2. TestPlace(w)
    BY DEF FInv
  <2>3. CASE w = u
    BY <1>1, <1>2, <2>3 DEF TestPlace
  <2>4. CASE w # u
    BY <1>1, <1>2, <2>2, <2>4 DEF TestPlace
  <2>5. QED BY <2>3, <2>4
<1>9. ~\E w \in Workers : pc'[w] = "done"
  BY <1>1 DEF FInv
<1>10. QED BY <1>6, <1>7, <1>8, <1>9 DEF FInv

(* A thread that has tested all its records waits at the test sync.       *)
LEMMA TestDoneFInv ==
  ASSUME FInv, IInv', NEW u \in Workers, TestDone(u)
  PROVE  FInv'
<1>1. /\ pc[u] = "test" /\ k[u] > Len(TestData[u])
      /\ pc' = [pc EXCEPT ![u] = "twait"]
      /\ UNCHANGED <<k, param, errChan, cntChan, testErr>>
  BY DEF TestDone
<1>2. pc \in [Workers -> {"count", "cwait", "loop", "grad", "wait", "test",
                          "twait", "done"}]
      /\ k[u] \in 1 .. Len(TestData[u]) + 1
  BY <1>1 DEF FInv, IInv, TypeOK, TestPlace
<1>3. Visited' = Visited
  BY <1>1, <1>2 DEF Visited
<1>4. \A w \in Workers : TestPlace(w)'
  BY <1>1, <1>2 DEF FInv, TestPlace
<1>5. ~\E w \in Workers : pc'[w] = "done"
  <2>1. ~\E w \in Workers : pc[w] = "done"
    BY <1>1 DEF FInv
  <2>2. QED BY <1>1, <1>2, <2>1
<1>6. QED BY <1>1, <1>3, <1>4, <1>5 DEF FInv

(* The test sync: every thread returns, with the channels' sums.          *)
LEMMA SyncTestFInv ==
  ASSUME FInv, IInv', SyncTest
  PROVE  FInv'
<1>1. /\ \A w \in Workers : pc[w] = "twait"
      /\ testErr' = errChan /\ pc' = [w \in Workers |-> "done"]
      /\ UNCHANGED <<k, param, errChan, cntChan>>
  BY DEF SyncTest
<1>2. Visited' = Visited
  BY <1>1 DEF Visited, TestRecords
<1>3. \A w \in Workers : TestPlace(w)'
  BY <1>1 DEF FInv, TestPlace
<1>4. QED BY <1>1, <1>2, <1>3 DEF FInv
(* A training step of one thread: it neither starts nor is in a test pass,*)
(* and leaves the other threads, param and the test channels alone.        *)
LEMMA TrainStepFInv ==
  ASSUME FInv, IInv', NEW u \in Workers,
         pc[u] \notin TestPhases, pc'[u] \notin TestPhases,
         \A w \in Workers \ {u} : pc'[w] = pc[w] /\ k'[w] = k[w],
         UNCHANGED <<param, errChan, cntChan, testErr>>
  PROVE  FInv'
BY QuietStep

LEMMA InitFInv == Init => FInv
<1> SUFFICES ASSUME Init PROVE FInv
  OBVIOUS
<1>1. IInv
  BY InitIInv
<1>2. Visited = {}
  <2>1. SUFFICES ASSUME NEW r \in Visited PROVE FALSE
    OBVIOUS
  <2>2. r[1] \in Workers
    BY TestRecordsMem DEF Visited
  <2>3. QED BY <2>2 DEF Init, Visited
<1>3. QED BY <1>1, <1>2, FS_EmptySet DEF Init, FInv, TestPlace

LEMMA NextFInv == FInv /\ [Next]_vars => FInv'
<1> SUFFICES ASSUME FInv, [Next]_vars PROVE FInv'
  OBVIOUS
<1>1. IInv'
  BY NextIInv DEF FInv
<1>2. pc \in [Workers -> {"count", "cwait", "loop", "grad", "wait", "test",
                          "twait", "done"}]
      /\ k \in [Workers -> Nat \ {0}]
  BY DEF FInv, IInv, TypeOK
<1>3. ASSUME NEW u \in Workers, Count(u) PROVE FInv'
  BY <1>1, <1>2, <1>3, TrainStepFInv DEF Count
<1>4. ASSUME NEW u \in Workers, StartRound(u) PROVE FInv'
  BY <1>1, <1>2, <1>4, TrainStepFInv DEF StartRound
<1>5. ASSUME NEW u \in Workers, GradStep(u) PROVE FInv'
  BY <1>1, <1>2, <1>5, TrainStepFInv DEF GradStep
<1>6. ASSUME NEW u \in Workers, Contribute(u) PROVE FInv'
  BY <1>1, <1>2, <1>6, TrainStepFInv DEF Contribute
<1>7. ASSUME NEW u \in Workers, EndLoop(u) PROVE FInv'
  BY <1>1, <1>7, EndLoopFInv
<1>8. ASSUME NEW u \in Workers, TestStep(u) PROVE FInv'
  BY <1>1, <1>8, TestStepFInv
<1>9. ASSUME NEW u \in Workers, TestDone(u) PROVE FInv'
  BY <1>1, <1>9, TestDoneFInv
<1>10. CASE SyncCount
  BY <1>1, <1>10, QuietStep DEF SyncCount
<1>11. CASE SyncRound
  BY <1>1, <1>11, QuietStep DEF SyncRound
<1>12. CASE SyncTest
  BY <1>1, <1>12, SyncTestFInv
<1>13. CASE UNCHANGED vars
  BY <1>1, <1>13, QuietStep DEF vars
<1>14. QED
  BY <1>3, <1>4, <1>5, <1>6, <1>7, <1>8, <1>9, <1>10, <1>11, <1>12, <1>13
     DEF Next, Worker

(* When svm() returns, under every interleaving of the threads' training  *)
(* and test passes, svm_fgd.cpp's test lambda has counted every test       *)
(* record exactly once, against the final parameters: the error count is *)
(* the number of records they strictly misclassify and the test count the  *)
(* number of test records.                                                 *)
THEOREM ReportedCorrect == Spec => []ReportedTestErrors
<1>1. Init => FInv
  BY InitFInv
<1>2. FInv /\ [Next]_vars => FInv'
  BY NextFInv
<1>3. FInv => ReportedTestErrors
  <2>1. SUFFICES ASSUME FInv, \A w \in Workers : pc[w] = "done"
                 PROVE  ReportedTestErrors
    BY DEF ReportedTestErrors
  <2>2. Visited = TestRecords
    <3>1. ASSUME NEW r \in TestRecords PROVE r \in Visited
      <4>1. PICK w \in Workers : \E j \in 1 .. Len(TestData[w]) : r = <<w, j>>
        BY <3>1, TestRecordsMem
      <4>2. PICK j \in 1 .. Len(TestData[w]) : r = <<w, j>>
        BY <4>1
      <4>3. k[w] = Len(TestData[w]) + 1
        BY <2>1 DEF FInv, TestPlace
      <4>4. QED BY <2>1, <3>1, <4>2, <4>3 DEF Visited
    <3>2. QED BY <3>1 DEF Visited
  <2>3. StrictlyMisclassified(param) \cap Visited = StrictlyMisclassified(param)
    BY <2>2 DEF StrictlyMisclassified
  <2>4. 0 \in Workers
    BY DEF Workers
  <2>5. QED BY <2>1, <2>2, <2>3, <2>4 DEF FInv, ReportedTestErrors
<1>4. QED BY <1>1, <1>2, <1>3, PTL DEF Spec
=============================================================================
