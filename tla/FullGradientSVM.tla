--------------------------- MODULE FullGradientSVM ---------------------------
(***************************************************************************)
(* The SVM example trained by full gradient descent (svm_fgd.cpp), run by  *)
(* every worker thread over its partitions of train_set and test_set.     *)
(*                                                                         *)
(* Each round every thread snapshots the parameters (bweight); thread 0   *)
(* adds the decay -eta * w of the weights; every thread adds              *)
(* eta * C * y * x / N for each of its records within the margin of the   *)
(* snapshot.  All updates go to the ParameterBucket's per-thread          *)
(* aggregate (buf), which reaches the channel (chan) at the end of the    *)
(* list_execute; the channel sync applies their sum.  After the loop the   *)
(* threads count the test records misclassified by the final parameters.  *)
(*                                                                         *)
(* Values are exact, in the units of FGDRound: param / den, and the       *)
(* updates of round i in units of 1 / (den * (i + 1) * N).  The per-round *)
(* loss (loss_agg) only feeds a log line and is left out.                  *)
(***************************************************************************)
EXTENDS SVMFunctions, Sequences, Functions, FiniteSets

CONSTANTS
  NumWorkers, \* global threads
  Data,       \* Data[w]: the records of train_set held by thread w
  TestData,   \* TestData[w]: the records of test_set held by thread w
  Iters,      \* n_iter
  Penalty     \* C, the penalty

Workers == 0 .. NumWorkers - 1

(* num_samples: the global number of training records.                    *)
Total == SumFunction([w \in Workers |-> Len(Data[w])])

ASSUME WorkersAssumption == NumWorkers \in Nat \ {0}
ASSUME DataAssumption ==
  Data \in [Workers -> Seq(Example)] /\ TestData \in [Workers -> Seq(Example)]
ASSUME ItersAssumption == Iters \in Nat
ASSUME PenaltyAssumption == Penalty \in Int
(* The updates divide by num_samples.                                       *)
ASSUME TotalAssumption == Total \in Nat \ {0}

VARIABLES
  pc,      \* pc[w]: where thread w is in svm()
  rnd,     \* rnd[w]: the loop variable i
  k,       \* k[w]: the next local record list_execute visits
  bw,      \* bw[w]: bweight, thread w's snapshot of the parameters
  buf,     \* buf[w]: thread w's aggregate of param_list.update calls
  chan,    \* the aggregates sent to the channel, not yet synced
  param,   \* the synced parameters (numerators)
  den,     \* their common denominator
  errChan, \* error_agg: the test errors sent to the channel
  cntChan, \* num_test_agg: the test records counted
  testErr  \* the synced error_agg, which thread 0 logs

vars == <<pc, rnd, k, bw, buf, chan, param, den, errChan, cntChan, testErr>>

(* The unit change of round i: the step eta = 1 / (i + 1) and the 1 / N.   *)
Scale(i) == (i + 1) * Total

TypeOK ==
  /\ pc \in [Workers -> {"count", "cwait", "loop", "grad", "wait", "test",
                         "twait", "done"}]
  /\ rnd \in [Workers -> 0 .. Iters]
  /\ k \in [Workers -> Nat \ {0}]
  /\ bw \in [Workers -> [Idx -> Int]]
  /\ buf \in [Workers -> [Idx -> Int]]
  /\ chan \in [Idx -> Int] /\ param \in [Idx -> Int]
  /\ den \in Nat \ {0}
  /\ errChan \in Nat /\ cntChan \in Nat /\ testErr \in Nat

(* ParameterBucket<double> param_list(num_features + 1): all zero.         *)
Init ==
  /\ pc = [w \in Workers |-> "count"]
  /\ rnd = [w \in Workers |-> 0]
  /\ k = [w \in Workers |-> 1]
  /\ bw = [w \in Workers |-> Zero]
  /\ buf = [w \in Workers |-> Zero]
  /\ chan = Zero /\ param = Zero /\ den = 1
  /\ errChan = 0 /\ cntChan = 0 /\ testErr = 0

Plus(u, v) == [i \in Idx |-> u[i] + v[i]]

(* num_samples_agg.update(train_set.get_size()); AggregatorFactory::sync(). *)
Count(w) ==
  /\ pc[w] = "count"
  /\ pc' = [pc EXCEPT ![w] = "cwait"]
  /\ UNCHANGED <<rnd, k, bw, buf, chan, param, den, errChan, cntChan, testErr>>

SyncCount ==
  /\ \A w \in Workers : pc[w] = "cwait"
  /\ pc' = [w \in Workers |-> "loop"]
  /\ UNCHANGED <<rnd, k, bw, buf, chan, param, den, errChan, cntChan, testErr>>

(* Mutant: thread 0 decays the bias as well (idx <= num_features).        *)
FGDDecayBias(w, P) ==
  IF w = 0 THEN [i \in Idx |-> -(P[i] * Total)] ELSE Zero

(* Thread 0's loop over idx < num_features: update(idx, -eta * w) with w  *)
(* read from bweight, in the round's new units.                            *)
FGDDecay(w, P) ==
  IF w = 0 THEN [i \in Idx |-> IF i < NumFeatures THEN -(P[i] * Total) ELSE 0]
  ELSE Zero

(* Mutant: the loop test i <= num_iter runs one round too many.           *)
StartRoundPastEnd(w) ==
  /\ pc[w] = "loop"
  /\ rnd[w] <= Iters
  /\ bw' = [bw EXCEPT ![w] = param]
  /\ buf' = [buf EXCEPT ![w] = FGDDecay(w, param)]
  /\ k' = [k EXCEPT ![w] = 1]
  /\ pc' = [pc EXCEPT ![w] = "grad"]
  /\ UNCHANGED <<rnd, chan, param, den, errChan, cntChan, testErr>>

(* Mutant: bweight = get_all_param() hoisted out of the loop, so every    *)
(* round's gradients are taken against the parameters of round 0.         *)
StartRoundKeepSnapshot(w) ==
  /\ pc[w] = "loop"
  /\ rnd[w] < Iters
  /\ buf' = [buf EXCEPT ![w] = FGDDecay(w, bw[w])]
  /\ k' = [k EXCEPT ![w] = 1]
  /\ pc' = [pc EXCEPT ![w] = "grad"]
  /\ UNCHANGED <<rnd, bw, chan, param, den, errChan, cntChan, testErr>>

(* i < num_iter: bweight = get_all_param(), eta = 1 / (i + 1), the decay   *)
(* on thread 0; then the gradient list_execute starts.                     *)
StartRound(w) ==
  /\ pc[w] = "loop"
  /\ rnd[w] < Iters
  /\ bw' = [bw EXCEPT ![w] = param]
  /\ buf' = [buf EXCEPT ![w] = FGDDecay(w, param)]
  /\ k' = [k EXCEPT ![w] = 1]
  /\ pc' = [pc EXCEPT ![w] = "grad"]
  /\ UNCHANGED <<rnd, chan, param, den, errChan, cntChan, testErr>>

(* The gradient lambda on the next local record: if y (bweight . x + b)   *)
(* < 1, update(fea, eta * y * x / num_samples * C) for every feature and  *)
(* update(num_features, eta * y / num_samples * C) for the bias.           *)
GradStep(w) ==
  /\ pc[w] = "grad"
  /\ k[w] <= Len(Data[w])
  /\ LET g == SVMGrad(Data[w][k[w]], bw[w], den)
     IN  buf' = [buf EXCEPT ![w] = [i \in Idx |-> @[i] + Penalty * den * g[i]]]
  /\ k' = [k EXCEPT ![w] = @ + 1]
  /\ UNCHANGED <<pc, rnd, bw, chan, param, den, errChan, cntChan, testErr>>

(* The list_execute is over: the aggregate goes to the channel.            *)
Contribute(w) ==
  /\ pc[w] = "grad"
  /\ k[w] > Len(Data[w])
  /\ chan' = Plus(chan, buf[w])
  /\ buf' = [buf EXCEPT ![w] = Zero]
  /\ pc' = [pc EXCEPT ![w] = "wait"]
  /\ UNCHANGED <<rnd, k, bw, param, den, errChan, cntChan, testErr>>

(* The channel sync: the parameters, rescaled to the round's units, get   *)
(* the sum of all updates; every thread goes on to i + 1.                  *)
SyncRound ==
  /\ \A w \in Workers : pc[w] = "wait"
  /\ param' = [i \in Idx |-> param[i] * Scale(rnd[0]) + chan[i]]
  /\ den' = den * Scale(rnd[0])
  /\ chan' = Zero
  /\ rnd' = [w \in Workers |-> rnd[w] + 1]
  /\ pc' = [w \in Workers |-> "loop"]
  /\ UNCHANGED <<k, bw, buf, errChan, cntChan, testErr>>

(* Mutant: the test list_execute moved into the global_tid() == 0 block   *)
(* before it, so the other threads return from svm() without it.          *)
EndLoopTestOnThreadZero(w) ==
  /\ pc[w] = "loop"
  /\ rnd[w] >= Iters
  /\ pc' = [pc EXCEPT ![w] = IF w = 0 THEN "test" ELSE "done"]
  /\ k' = [k EXCEPT ![w] = 1]
  /\ bw' = [bw EXCEPT ![w] = param]
  /\ UNCHANGED <<rnd, buf, chan, param, den, errChan, cntChan, testErr>>

(* The loop ends; bweight = get_all_param() and the test list_execute     *)
(* starts.                                                                 *)
EndLoop(w) ==
  /\ pc[w] = "loop"
  /\ rnd[w] >= Iters
  /\ pc' = [pc EXCEPT ![w] = "test"]
  /\ k' = [k EXCEPT ![w] = 1]
  /\ bw' = [bw EXCEPT ![w] = param]
  /\ UNCHANGED <<rnd, buf, chan, param, den, errChan, cntChan, testErr>>

(* The test lambda: indicator = y (bweight . x + b); error_agg.update(1)   *)
(* if indicator < 0; num_test_agg.update(1).                               *)
TestStep(w) ==
  /\ pc[w] = "test"
  /\ k[w] <= Len(TestData[w])
  /\ LET ex == TestData[w][k[w]]
     IN  errChan' = errChan + (IF ex.y * DotWithIntcpt(bw[w], ex) < 0 THEN 1 ELSE 0)
  /\ cntChan' = cntChan + 1
  /\ k' = [k EXCEPT ![w] = @ + 1]
  /\ UNCHANGED <<pc, rnd, bw, buf, chan, param, den, testErr>>

(* Mutant: the test loop stops before the last local record.              *)
TestDoneEarly(w) ==
  /\ pc[w] = "test"
  /\ k[w] >= Len(TestData[w])
  /\ pc' = [pc EXCEPT ![w] = "twait"]
  /\ UNCHANGED <<rnd, k, bw, buf, chan, param, den, errChan, cntChan, testErr>>

TestDone(w) ==
  /\ pc[w] = "test"
  /\ k[w] > Len(TestData[w])
  /\ pc' = [pc EXCEPT ![w] = "twait"]
  /\ UNCHANGED <<rnd, k, bw, buf, chan, param, den, errChan, cntChan, testErr>>

(* The test sync: thread 0 logs error_agg / num_test_agg, and svm()        *)
(* returns.                                                                *)
SyncTest ==
  /\ \A w \in Workers : pc[w] = "twait"
  /\ testErr' = errChan
  /\ pc' = [w \in Workers |-> "done"]
  /\ UNCHANGED <<rnd, k, bw, buf, chan, param, den, errChan, cntChan>>

Worker(w) ==
  \/ Count(w) \/ StartRound(w) \/ GradStep(w) \/ Contribute(w) \/ EndLoop(w)
  \/ TestStep(w) \/ TestDone(w)

Next ==
  \/ \E w \in Workers : Worker(w)
  \/ SyncCount \/ SyncRound \/ SyncTest

(* Every thread runs on, and a sync completes once all threads arrive.    *)
Fairness ==
  /\ \A w \in Workers : WF_vars(Worker(w))
  /\ WF_vars(SyncCount) /\ WF_vars(SyncRound) /\ WF_vars(SyncTest)

Spec == Init /\ [][Next]_vars /\ Fairness

-----------------------------------------------------------------------------
(***************************************************************************)
(* Properties.                                                             *)
(***************************************************************************)

(* The number of test records misclassified by parameters P, counting a    *)
(* point on the boundary y (w . x + b) = 0 as an error (spec section 8,    *)
(* as SVM's error_func_ does).                                             *)
SpecTestErrors(P) ==
  SumFunction([w \in Workers |->
    SumFunction([j \in 1 .. Len(TestData[w]) |-> SVMError(TestData[w][j], P)])])

(* Spec section 8: the error rate svm() reports on the test set counts     *)
(* exactly the records with y (w . x + b) <= 0 under the trained           *)
(* parameters.                                                             *)
TestErrorAsSpecified ==
  (\A w \in Workers : pc[w] = "done") => testErr = SpecTestErrors(param)

(* The test records of every thread, as <<thread, position>> pairs.      *)
TestRecords == UNION {{w} \X (1 .. Len(TestData[w])) : w \in Workers}

(* The test records with y (w . x + b) < 0 under parameters P: the rule   *)
(* svm_fgd.cpp's test lambda applies (the boundary not counted).          *)
StrictlyMisclassified(P) ==
  {r \in TestRecords :
     TestData[r[1]][r[2]].y * DotWithIntcpt(P, TestData[r[1]][r[2]]) < 0}

(* What svm() reports, whatever the interleaving of the threads' test     *)
(* passes: the error count is the number of test records the final        *)
(* parameters strictly misclassify, each record tested once on its own    *)
(* thread against the parameters of the last sync, and the test count is  *)
(* the number of test records.  With TestErrorAsSpecified failing, this   *)
(* leaves the boundary rule as the only difference from spec section 8.  *)
ReportedTestErrors ==
  (\A w \in Workers : pc[w] = "done") =>
    /\ testErr = Cardinality(StrictlyMisclassified(param))
    /\ cntChan = Cardinality(TestRecords)

(* The bweight a thread reads, in the gradient lambda and in the test      *)
(* lambda, is the parameters as synced now: no other thread's sync has     *)
(* changed them since the thread's get_all_param(), although the threads   *)
(* step independently and a sync happens every round.                      *)
SnapshotFresh == \A w \in Workers : pc[w] \in {"grad", "test"} => bw[w] = param

(* Every thread returns from svm().                                        *)
Termination == <>(\A w \in Workers : pc[w] = "done")
=============================================================================
