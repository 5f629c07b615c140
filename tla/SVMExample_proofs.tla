-------------------------- MODULE SVMExample_proofs --------------------------
(***************************************************************************)
(* Proofs about SVMExample for every number of threads, every partition   *)
(* of the training and the test set, every number of rounds, learning     *)
(* rate and decay.                                                         *)
(*                                                                         *)
(* TestErrorAsSpecified only speaks once every thread is at the end.  The *)
(* inductive invariant TInv says what the test channels hold at every      *)
(* moment: the count of the test records visited so far (those before tk) *)
(* and of those among them that the current parameters misclassify.  It   *)
(* stays true while training continues because a thread visits a record   *)
(* only after it returned from train, and from then on no sync can change *)
(* param (the round sync needs every thread, lemma FrozenStep).           *)
(***************************************************************************)
EXTENDS SVMExample, HuskySGD_proofs, FiniteSetTheorems

(* The test records avg_error's lambda has visited on their threads.      *)
Visited == {r \in TestRecords : r[2] < tk[r[1]]}

(* Where each thread is in its test pass.                                  *)
TestPlace(w) ==
  /\ dpc[w] \in {"test", "twait", "end"}
  /\ tk[w] \in 1 .. Len(TestData[w]) + 1
  /\ (dpc[w] # "test" \/ tk[w] # 1) => pc[w] = "done"
  /\ dpc[w] # "test" => tk[w] = Len(TestData[w]) + 1

(* The channels hold the counts of the visited records; the test sync     *)
(* ends every thread at once and hands them the channels' sums.           *)
TInv ==
  /\ IInv /\ ExampleTypeOK
  /\ \A w \in Workers : TestPlace(w)
  /\ IsFiniteSet(Visited)
  /\ errChan = Cardinality(Misclassified(param) \cap Visited)
  /\ cntChan = Cardinality(Visited)
  /\ (\E w \in Workers : dpc[w] = "end") =>
        /\ \A w \in Workers : dpc[w] = "end"
        /\ testErr = [num |-> errChan, den |-> cntChan]

USE TestDataAssumption

-----------------------------------------------------------------------------
(* A test record is a thread and a position within its test records.      *)
LEMMA TestRecordsMem ==
  ASSUME NEW r
  PROVE  r \in TestRecords <=>
           \E w \in Workers : \E j \in 1 .. Len(TestData[w]) : r = <<w, j>>
BY DEF TestRecords

(* A thread that has returned from SVM::train stays returned.             *)
LEMMA DoneStays ==
  ASSUME IInv, [Next]_vars, NEW w \in Workers, pc[w] = "done"
  PROVE  pc'[w] = "done"
<1>1. pc \in [Workers -> Phases]
  BY DEF IInv, TypeOK
<1>2. ~SyncCount /\ ~SyncRound /\ ~SyncReport
  BY DEF SyncCount, SyncRound, SyncReport
<1>3. ASSUME NEW u \in Workers, Worker(u) PROVE pc'[w] = "done"
  <2>1. CASE u = w
    BY <1>3, <2>1 DEF Worker, Count, StartRound, GradStep, Contribute,
                      ReportStep, ReportDone, Finish
  <2>2. CASE u # w
    BY <1>1, <1>3, <2>2 DEF Worker, Count, StartRound, GradStep, Contribute,
                            ReportStep, ReportDone, Finish
  <2>3. QED BY <2>1, <2>2
<1>4. QED BY <1>2, <1>3 DEF Next, vars
-----------------------------------------------------------------------------
LEMMA InitTInv == ExampleInit => TInv
<1> SUFFICES ASSUME ExampleInit PROVE TInv
  OBVIOUS
<1>1. IInv
  BY InitIInv DEF ExampleInit
<1>2. \A w \in Workers : TestPlace(w)
  <2>1. SUFFICES ASSUME NEW w \in Workers PROVE TestPlace(w)
    OBVIOUS
  <2>2. Len(TestData[w]) \in Nat
    OBVIOUS
  <2>3. QED BY <2>2 DEF ExampleInit, TestPlace
<1>3. Visited = {}
  <2>1. SUFFICES ASSUME NEW r \in TestRecords, r[2] < tk[r[1]] PROVE FALSE
    BY DEF Visited
  <2>2. PICK w \in Workers : \E j \in 1 .. Len(TestData[w]) : r = <<w, j>>
    BY TestRecordsMem
  <2>3. PICK j \in 1 .. Len(TestData[w]) : r = <<w, j>>
    BY <2>2
  <2>4. QED BY <2>1, <2>3 DEF ExampleInit
<1>4. /\ IsFiniteSet(Visited) /\ cntChan = Cardinality(Visited)
      /\ errChan = Cardinality(Misclassified(param) \cap Visited)
  BY <1>3, FS_EmptySet DEF ExampleInit
<1>6. ExampleTypeOK
  BY DEF ExampleInit, ExampleTypeOK
<1>5. QED BY <1>1, <1>2, <1>4, <1>6 DEF TInv, ExampleInit
(* A training step: the test state stands still, and param may move only  *)
(* while no thread has returned, when no test record has been visited.    *)
LEMMA TrainTInv == TInv /\ Train => TInv'
<1> SUFFICES ASSUME TInv, Train PROVE TInv'
  OBVIOUS
<1>1. IInv /\ [Next]_vars /\ UNCHANGED dvars
  BY DEF TInv, Train
<1>2. IInv'
  BY <1>1, NextIInv
<1>3. Visited' = Visited
  BY <1>1 DEF Visited, dvars
<1>4. \A w \in Workers : TestPlace(w)'
  <2>1. SUFFICES ASSUME NEW w \in Workers PROVE TestPlace(w)'
    OBVIOUS
  <2>2. TestPlace(w)
    BY DEF TInv
  <2>3. pc[w] = "done" => pc'[w] = "done"
    BY <1>1, DoneStays
  <2>4. QED BY <1>1, <2>2, <2>3 DEF TestPlace, dvars
<1>5. Misclassified(param') \cap Visited = Misclassified(param) \cap Visited
  <2>1. CASE \E u \in Workers : pc[u] = "done"
    <3>1. param' = param
      BY <1>1, <2>1, FrozenStep
    <3>2. QED BY <3>1 DEF Misclassified
  <2>2. CASE \A u \in Workers : pc[u] # "done"
    <3>1. \A u \in Workers : tk[u] = 1
      BY <2>2 DEF TInv, TestPlace
    <3>2. Visited = {}
      <4>1. SUFFICES ASSUME NEW r \in TestRecords, r[2] < tk[r[1]] PROVE FALSE
        BY DEF Visited
      <4>2. PICK u \in Workers : \E j \in 1 .. Len(TestData[u]) : r = <<u, j>>
        BY TestRecordsMem
      <4>3. PICK j \in 1 .. Len(TestData[u]) : r = <<u, j>>
        BY <4>2
      <4>4. QED BY <3>1, <4>1, <4>3
    <3>3. QED BY <3>2
  <2>3. QED BY <2>1, <2>2
<1>7. ExampleTypeOK'
  BY <1>1 DEF TInv, ExampleTypeOK, dvars
<1>6. QED BY <1>1, <1>2, <1>3, <1>4, <1>5, <1>7 DEF TInv, dvars
(* A record on the boundary or misclassified adds one to both counts, any *)
(* other record to the record count only.                                  *)
LEMMA TestStepTInv ==
  ASSUME TInv, NEW u \in Workers, TestStep(u)
  PROVE  TInv'
<1>. DEFINE x == <<u, tk[u]>>
            ex == TestData[u][tk[u]]
            M == Misclassified(param)
<1>1. /\ pc[u] = "done" /\ dpc[u] = "test" /\ tk[u] \in 1 .. Len(TestData[u])
      /\ errChan' = errChan + SVMError(ex, param) /\ cntChan' = cntChan + 1
      /\ tk' = [tk EXCEPT ![u] = tk[u] + 1]
      /\ UNCHANGED <<vars, dpc, testErr>>
  BY DEF TestStep, TInv, TestPlace
<1>2. tk \in [Workers -> Nat] /\ dpc \in [Workers -> {"test", "twait", "end"}]
      /\ errChan \in Nat /\ cntChan \in Nat
  BY DEF TInv, ExampleTypeOK
<1>3. x \in TestRecords /\ x \notin Visited
  BY <1>1, TestRecordsMem DEF Visited
<1>4. Visited' = Visited \cup {x}
  <2>1. ASSUME NEW r \in TestRecords PROVE r[2] < tk'[r[1]] <=> r[2] < tk[r[1]] \/ r = x
    <3>1. PICK w \in Workers : \E j \in 1 .. Len(TestData[w]) : r = <<w, j>>
      BY TestRecordsMem
    <3>2. PICK j \in 1 .. Len(TestData[w]) : r = <<w, j>>
      BY <3>1
    <3>3. QED BY <1>1, <1>2, <3>2
  <2>2. QED BY <1>3, <2>1 DEF Visited
<1>5. IsFiniteSet(Visited) /\ IsFiniteSet(M \cap Visited)
  BY FS_Intersection DEF TInv
<1>6. IsFiniteSet(Visited') /\ cntChan' = Cardinality(Visited')
  BY <1>1, <1>3, <1>4, <1>5, FS_AddElement DEF TInv
<1>7. errChan' = Cardinality(Misclassified(param') \cap Visited')
  <2>1. Misclassified(param') = M
    BY <1>1 DEF vars
  <2>2. ex \in Example /\ param \in [Idx -> Int]
    BY <1>1 DEF TInv, IInv, TypeOK
  <2>3. x \in M <=> SVMError(ex, param) = 1
    BY <1>3 DEF Misclassified
  <2>4. CASE SVMError(ex, param) = 1
    <3>1. M \cap Visited' = (M \cap Visited) \cup {x}
      BY <1>4, <2>3, <2>4
    <3>2. x \notin M \cap Visited
      BY <1>3
    <3>3. Cardinality((M \cap Visited) \cup {x}) = Cardinality(M \cap Visited) + 1
      BY <1>5, <3>2, FS_AddElement
    <3>4. errChan' = Cardinality(M \cap Visited) + 1
      BY <1>1, <2>4 DEF TInv
    <3>5. QED BY <2>1, <3>1, <3>3, <3>4
  <2>5. CASE SVMError(ex, param) # 1
    <3>1. SVMError(ex, param) = 0
      BY <2>5 DEF SVMError
    <3>2. M \cap Visited' = M \cap Visited
      BY <1>4, <2>3, <2>5
    <3>3. errChan' = Cardinality(M \cap Visited)
      BY <1>1, <1>2, <3>1 DEF TInv
    <3>4. QED BY <2>1, <3>2, <3>3
  <2>6. QED BY <2>4, <2>5
<1>8. \A w \in Workers : TestPlace(w)'
  <2>1. SUFFICES ASSUME NEW w \in Workers PROVE TestPlace(w)'
    OBVIOUS
  <2>2. TestPlace(w)
    BY DEF TInv
  <2>3. CASE w = u
    BY <1>1, <1>2, <2>3 DEF TestPlace, vars
  <2>4. CASE w # u
    BY <1>1, <1>2, <2>2, <2>4 DEF TestPlace, vars
  <2>5. QED BY <2>3, <2>4
<1>11. ExampleTypeOK'
  <2>1. SVMError(ex, param) \in {0, 1}
    BY DEF SVMError
  <2>2. QED BY <1>1, <1>2, <2>1 DEF ExampleTypeOK, TInv
<1>9. ~\E w \in Workers : dpc'[w] = "end"
  BY <1>1 DEF TInv
<1>12. IInv'
  <2>1. IInv /\ UNCHANGED vars
    BY <1>1 DEF TInv
  <2>2. QED BY <2>1, NextIInv
<1>10. QED BY <1>6, <1>7, <1>8, <1>9, <1>11, <1>12 DEF TInv
(* A thread that has visited all its test records waits at the sync.      *)
LEMMA TestDoneTInv ==
  ASSUME TInv, NEW u \in Workers, TestDone(u)
  PROVE  TInv'
<1>1. /\ pc[u] = "done" /\ dpc[u] = "test" /\ tk[u] > Len(TestData[u])
      /\ dpc' = [dpc EXCEPT ![u] = "twait"]
      /\ UNCHANGED <<vars, tk, errChan, cntChan, testErr>>
  BY DEF TestDone
<1>2. /\ tk \in [Workers -> Nat] /\ dpc \in [Workers -> {"test", "twait", "end"}]
      /\ tk[u] \in 1 .. Len(TestData[u]) + 1
  BY DEF TInv, ExampleTypeOK, TestPlace
<1>3. \A w \in Workers : TestPlace(w)'
  <2>1. SUFFICES ASSUME NEW w \in Workers PROVE TestPlace(w)'
    OBVIOUS
  <2>2. TestPlace(w)
    BY DEF TInv
  <2>3. CASE w = u
    BY <1>1, <1>2, <2>3 DEF TestPlace, vars
  <2>4. CASE w # u
    BY <1>1, <1>2, <2>2, <2>4 DEF TestPlace, vars
  <2>5. QED BY <2>3, <2>4
<1>4. ~\E w \in Workers : dpc'[w] = "end"
  <2>1. ~\E w \in Workers : dpc[w] = "end"
    BY <1>1 DEF TInv
  <2>2. QED BY <1>1, <1>2, <2>1
<1>5. IInv'
  <2>1. IInv /\ UNCHANGED vars
    BY <1>1 DEF TInv
  <2>2. QED BY <2>1, NextIInv
<1>6. ExampleTypeOK'
  BY <1>1, <1>2 DEF TInv, ExampleTypeOK
<1>7. Visited' = Visited /\ param' = param
  BY <1>1 DEF Visited, vars
<1>8. QED BY <1>1, <1>3, <1>4, <1>5, <1>6, <1>7 DEF TInv

(* The test sync: every thread has visited all its test records, and all  *)
(* of them return the channels' sums at once.                              *)
LEMMA SyncTestTInv == TInv /\ SyncTest => TInv'
<1> SUFFICES ASSUME TInv, SyncTest PROVE TInv'
  OBVIOUS
<1>1. /\ \A w \in Workers : dpc[w] = "twait"
      /\ testErr' = [num |-> errChan, den |-> cntChan]
      /\ dpc' = [w \in Workers |-> "end"]
      /\ UNCHANGED <<vars, tk, errChan, cntChan>>
  BY DEF SyncTest
<1>2. \A w \in Workers : TestPlace(w)'
  BY <1>1 DEF TInv, TestPlace, vars
<1>3. IInv'
  <2>1. IInv /\ UNCHANGED vars
    BY <1>1 DEF TInv
  <2>2. QED BY <2>1, NextIInv
<1>4. ExampleTypeOK'
  BY <1>1 DEF TInv, ExampleTypeOK
<1>5. Visited' = Visited /\ param' = param
  BY <1>1 DEF Visited, vars
<1>6. QED BY <1>1, <1>2, <1>3, <1>4, <1>5 DEF TInv

LEMMA NextTInv == TInv /\ [ExampleNext]_allvars => TInv'
<1> SUFFICES ASSUME TInv, [ExampleNext]_allvars PROVE TInv'
  OBVIOUS
<1>1. CASE Train
  BY <1>1, TrainTInv
<1>2. ASSUME NEW u \in Workers, TestStep(u) PROVE TInv'
  BY <1>2, TestStepTInv
<1>3. ASSUME NEW u \in Workers, TestDone(u) PROVE TInv'
  BY <1>3, TestDoneTInv
<1>4. CASE SyncTest
  BY <1>4, SyncTestTInv
<1>5. CASE UNCHANGED allvars
  <2>1. IInv'
    <3>1. IInv /\ UNCHANGED vars
      BY <1>5 DEF TInv, allvars
    <3>2. QED BY <3>1, NextIInv
  <2>2. QED BY <1>5, <2>1 DEF TInv, allvars, dvars, vars, Visited, TestPlace,
                              ExampleTypeOK
<1>6. QED BY <1>1, <1>2, <1>3, <1>4, <1>5 DEF ExampleNext, Tester

-----------------------------------------------------------------------------
(* Spec sections 4.2 and 8, for every instance: whatever the interleaving *)
(* of the threads' test passes with the others' last training steps, the  *)
(* error avg_error(test_set) returns in svm.cpp (model.hpp 76-88) counts   *)
(* exactly the test records the final parameters misclassify, the         *)
(* boundary included, over the number of test records.                    *)
THEOREM TestErrorCorrect == ExampleSpec => []TestErrorAsSpecified
<1>1. TInv => TestErrorAsSpecified
  <2>1. SUFFICES ASSUME TInv, \A w \in Workers : dpc[w] = "end"
                 PROVE  testErr = [num |-> SpecTestErrors(param), den |-> TestTotal]
    BY DEF TestErrorAsSpecified
  <2>2. \A w \in Workers : tk[w] = Len(TestData[w]) + 1
    BY <2>1 DEF TInv, TestPlace
  <2>3. Visited = TestRecords
    <3>1. ASSUME NEW r \in TestRecords PROVE r[2] < tk[r[1]]
      <4>1. PICK w \in Workers : \E j \in 1 .. Len(TestData[w]) : r = <<w, j>>
        BY TestRecordsMem
      <4>2. PICK j \in 1 .. Len(TestData[w]) : r = <<w, j>>
        BY <4>1
      <4>3. QED BY <2>2, <4>2
    <3>2. QED BY <3>1 DEF Visited
  <2>4. Misclassified(param) \cap Visited = Misclassified(param)
    BY <2>3 DEF Misclassified
  <2>5. testErr = [num |-> errChan, den |-> cntChan]
    <3>1. 0 \in Workers
      BY WorkersAssumption DEF Workers
    <3>2. QED BY <2>1, <3>1 DEF TInv
  <2>6. errChan = Cardinality(Misclassified(param)) /\ cntChan = Cardinality(TestRecords)
    <3>1. errChan = Cardinality(Misclassified(param) \cap Visited)
          /\ cntChan = Cardinality(Visited)
      BY <2>1 DEF TInv
    <3>2. QED BY <2>3, <2>4, <3>1
  <2>7. QED BY <2>5, <2>6 DEF SpecTestErrors, TestTotal
<1>2. QED BY <1>1, InitTInv, NextTInv, PTL DEF ExampleSpec
=============================================================================
