----------------------------- MODULE SVMExample -----------------------------
(***************************************************************************)
(* The SVM example driver (svm.cpp): every worker thread builds an SVM     *)
(* with report_per_round and the lambda of the job, trains it with         *)
(* SVM::train<SGD> (HuskySGD), and then calls avg_error(test_set) on the   *)
(* trained model; thread 0 logs the result.                                *)
(*                                                                         *)
(* The composition: the training steps of HuskySGD leave the driver's      *)
(* state alone; a thread's test steps start once its train call has        *)
(* returned (pc = "done"), while other threads may still be leaving the    *)
(* training loop.  avg_error's list_execute reads the synced parameters   *)
(* (param_list_) with SVM's error_func_ and ends in a channel sync.       *)
(***************************************************************************)
EXTENDS HuskySGD, FiniteSets

CONSTANT TestData \* TestData[w]: the records of test_set held by thread w

ASSUME TestDataAssumption == TestData \in [Workers -> Seq(Example)]

VARIABLES
  dpc,     \* dpc[w]: where thread w is in avg_error(test_set)
  tk,      \* tk[w]: the next local test record avg_error's lambda visits
  errChan, \* error_agg: the errors sent to the channel
  cntChan, \* num_samples_agg: the test records counted
  testErr  \* what avg_error returns: [num |-> global_error, den |-> num_samples]

dvars == <<dpc, tk, errChan, cntChan, testErr>>

allvars == <<vars, dvars>>

ExampleTypeOK ==
  /\ dpc \in [Workers -> {"test", "twait", "end"}]
  /\ tk \in [Workers -> Nat \ {0}]
  /\ errChan \in Nat /\ cntChan \in Nat
  /\ testErr \in [num : Nat, den : Nat]

ExampleInit ==
  /\ Init
  /\ dpc = [w \in Workers |-> "test"]
  /\ tk = [w \in Workers |-> 1]
  /\ errChan = 0 /\ cntChan = 0
  /\ testErr = [num |-> 0, den |-> 0]

(* model.template train<SGD>(train_set, num_iter, alpha): a step of the    *)
(* training job.                                                           *)
Train == Next /\ UNCHANGED dvars

(* Mutant: the error counted as svm_fgd.cpp does, y (w . x + b) < 0.      *)
TestStepStrict(w) ==
  /\ pc[w] = "done" /\ dpc[w] = "test"
  /\ tk[w] <= Len(TestData[w])
  /\ LET ex == TestData[w][tk[w]]
     IN  errChan' = errChan + (IF ex.y * DotWithIntcpt(param, ex) < 0 THEN 1 ELSE 0)
  /\ cntChan' = cntChan + 1
  /\ tk' = [tk EXCEPT ![w] = @ + 1]
  /\ UNCHANGED <<vars, dpc, testErr>>

(* avg_error's lambda on the next local test record:                       *)
(* error_agg.update(error_func_(this_obj, param_list_)) and                *)
(* num_samples_agg.update(1).  The thread has returned from train.         *)
TestStep(w) ==
  /\ pc[w] = "done" /\ dpc[w] = "test"
  /\ tk[w] <= Len(TestData[w])
  /\ errChan' = errChan + SVMError(TestData[w][tk[w]], param)
  /\ cntChan' = cntChan + 1
  /\ tk' = [tk EXCEPT ![w] = @ + 1]
  /\ UNCHANGED <<vars, dpc, testErr>>

(* Mutant: avg_error(test_set) called under svm.cpp's unbraced           *)
(* if (global_tid() == 0), so the other threads return without the test.  *)
TestDoneOnThreadZero(w) ==
  /\ pc[w] = "done" /\ dpc[w] = "test"
  /\ \/ w = 0 /\ tk[w] > Len(TestData[w]) /\ dpc' = [dpc EXCEPT ![w] = "twait"]
     \/ w # 0 /\ dpc' = [dpc EXCEPT ![w] = "end"]
  /\ UNCHANGED <<vars, tk, errChan, cntChan, testErr>>

(* avg_error's list_execute has visited every local test record.          *)
TestDone(w) ==
  /\ pc[w] = "done" /\ dpc[w] = "test"
  /\ tk[w] > Len(TestData[w])
  /\ dpc' = [dpc EXCEPT ![w] = "twait"]
  /\ UNCHANGED <<vars, tk, errChan, cntChan, testErr>>

(* The sync: every thread reads the global sums and returns                *)
(* global_error / num_samples, which thread 0 logs.                        *)
SyncTest ==
  /\ \A w \in Workers : dpc[w] = "twait"
  /\ testErr' = [num |-> errChan, den |-> cntChan]
  /\ dpc' = [w \in Workers |-> "end"]
  /\ UNCHANGED <<vars, tk, errChan, cntChan>>

Tester(w) == TestStep(w) \/ TestDone(w)

ExampleNext ==
  \/ Train
  \/ \E w \in Workers : Tester(w)
  \/ SyncTest

(* The training job's fairness, and each thread runs its test pass on and *)
(* the test sync completes once every thread arrives.                      *)
ExampleFairness ==
  /\ Fairness
  /\ \A w \in Workers : WF_allvars(Tester(w))
  /\ WF_allvars(SyncTest)

ExampleSpec == ExampleInit /\ [][ExampleNext]_allvars /\ ExampleFairness

-----------------------------------------------------------------------------
(***************************************************************************)
(* Properties.                                                             *)
(***************************************************************************)

(* The test records of every thread, as <<thread, position>> pairs.      *)
TestRecords == UNION {{w} \X (1 .. Len(TestData[w])) : w \in Workers}

(* The test records misclassified by parameters P, y (w . x + b) <= 0.    *)
Misclassified(P) ==
  {r \in TestRecords : SVMError(TestData[r[1]][r[2]], P) = 1}

(* How many test records parameters P misclassify.                         *)
SpecTestErrors(P) == Cardinality(Misclassified(P))

(* The global number of test records.                                      *)
TestTotal == Cardinality(TestRecords)

(* Spec sections 4.2 and 8: the error svm.cpp reports on the test set is   *)
(* the number of test records with y (w . x + b) <= 0 under the trained    *)
(* parameters (the boundary counted), over the global number of test       *)
(* records, although threads start their test pass while others are still *)
(* leaving the training loop.                                              *)
TestErrorAsSpecified ==
  (\A w \in Workers : dpc[w] = "end") =>
    testErr = [num |-> SpecTestErrors(param), den |-> TestTotal]

(* Every thread returns from svm().                                         *)
ExampleTermination == <>(\A w \in Workers : dpc[w] = "end")
=============================================================================
