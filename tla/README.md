# A TLA+ verification of Husky's machine-learning library

This directory models `src/lib/ml` of Husky and the SVM examples in `src/examples`.
It contains TLA+ modules, TLC configurations that check them on small instances, and
TLAPS proofs of the main invariants for every value of the constants.

## The system

Husky runs one job on many worker threads. Each thread holds one partition of an
`ObjList` of labelled points. The ML library trains a model with data-parallel,
bulk-synchronous gradient descent:

* `Model` (`model.hpp`) owns the parameter store, a `ParameterBucket`. It also owns
  the pluggable `gradient_func_` and `error_func_`, `avg_error`, `predict` and the
  `trained_` flag.
* `SVM` (`svm.hpp`) installs the hinge-loss subgradient and the 0/1 error indicator.
  `SVM::train<SGD>` does the following:
  1. counts the global samples with an aggregator sync;
  2. turns on L2 regularization on global thread 0 only;
  3. runs `num_iters` rounds of `optimizer.update_param`;
  4. with `report_per_round`, computes a per-round loss through one more aggregator
     sync.
* `SGD::update_param` (`sgd.hpp`) does the following on every worker:
  1. snapshots the synced parameters into `current_vec`;
  2. on the regularizing worker, adds `-param_at(i)*lr*lambda` for every `i`;
  3. runs `list_execute` over its local records. For each record it takes the
     gradient against `current_vec`, adds `delta` to `current_vec`, and adds
     `delta * n_local / N` to the parameter bucket.
* `Regression::train_test` (`regression.hpp`) trains with early stopping on a
  held-out set. `svm_fgd.cpp` is a full-gradient SVM written against the same
  aggregators.

The parameter bucket and the aggregators live in Husky's core, which is not in `src/`.
Their semantics are taken from the spec:

* `update` goes to a per-worker aggregate;
* `param_at` and `get_all_param` read the last synced value;
* the channel sync at the end of `list_execute` is a barrier that applies the sum of
  all aggregates.

## Modules

| module | models | state / content |
|---|---|---|
| `SVMFunctions` | `svm.hpp` 44-73, the report loss at 103-111, `svm_fgd.cpp`'s hinge loss | pure operators: `DotWithIntcpt`, `SVMGrad`, `SVMError`, `ReportLoss`, `HingeLoss` |
| `SGDConfig` | the constants of a job; `svm.hpp` 82-94, `sgd.hpp` 54-63, 83-88 | `Workers`, `Total` (= num_samples), `RegFlag` (thread 0 only), `L2Delta`, `Regularize` |
| `SGDRound` | the abstract round of spec section 4.3 | `params`, `rounds`; one atomic `Round` = `AvgStep` |
| `HuskySGD` | `SVM::train<SGD>` with `SGD::update_param`, per worker | `pc`, `rnd`, `k`, `cur` (current_vec), `buf` (local aggregate), `chan`, `param`, `lossChan`, `loss` |
| `MC_HuskySGD` | TLC instances; the refinement mapping; the checks that fail | data sets, `Abs == INSTANCE SGDRound` |
| `HuskySGD_proofs` | TLAPS proofs about `HuskySGD` | `RoundBound`, `IInv`, lemmas, theorems |
| `SVMExample` | the `svm.cpp` driver (lines 96-107): `HuskySGD` composed with `avg_error(test_set)` | HuskySGD's state plus `dpc`, `tk`, `errChan`, `cntChan`, `testErr` |
| `MC_SVMExample` | TLC instance of the driver | the `sgd_core` split plus test records |
| `SVMExample_proofs` | TLAPS proofs about `SVMExample` | `Visited`, `TestPlace`, `TInv`, lemmas, `TestErrorCorrect` |
| `RegressionTrain` | `Regression::train` (regression.hpp 49-91) | `pc`, `rnd`, `k`, `errs` (training-record errors), `statChan`/`stat` (error_stat), `updates` (update_param syncs) |
| `MC_RegressionTrain` / `RegressionTrain_proofs` | TLC instance; TLAPS proofs | `Counted`, `IInv`, `InReport`, `Pending`, `RInv` |
| `RegressionTrainTest` | `Regression::train_test` (regression.hpp 95-144) with `Model::avg_error` (model.hpp 76-88) | `pc`, `rnd`, `k`, `past` (each thread's pastError), `errs` (held-out errors under the synced parameters), `errChan`, `cntChan`, `cur` (avg_error's result), `hist` (history of held-out errors) |
| `MC_RegressionTrainTest` | TLC instances | held-out splits, one of them empty |
| `RegressionTrainTest_proofs` | TLAPS proofs about `RegressionTrainTest` | `LockPair`, `Lockstep`, `IInv`, theorems |
| `FGDRound` | the abstract full-gradient round of `svm_fgd.cpp` | `params`, `den`, `rounds`; `FullStep` on the whole training set |
| `FullGradientSVM_proofs` | TLAPS proofs about `FullGradientSVM` | `RoundBound`, `IInv`, `FInv`, theorems |
| `SVMFacts` | lemmas on `SVMFunctions` used by the proofs | `DotType`, `SVMGradType`, `ReportLossType` |
| `FullGradientSVM` | `svm()` of `svm_fgd.cpp` (lines 66-182) per thread | `pc`, `rnd`, `k`, `bw` (bweight), `buf`, `chan`, `param`/`den`, `errChan`, `cntChan`, `testErr` |
| `MC_FullGradientSVM` | TLC instances; the refinement mapping to `FGDRound` | training and test splits, one with a record on the boundary |

### Units

Parameters are exact integers in units of `1/Total`, where `Total` is the global
sample count. In these units:

* the bucket update `delta*n_local/N` becomes `LR*g*n_local`;
* `current_vec += delta` becomes `+ LR*g*Total`;
* the margin test `y(w.x+b) < 1` becomes `< Total`;
* the L2 decay is `-P[i]*RegLR`, where `RegLR` stands for `lr*lambda`.

Floating-point rounding is abstracted away. Labels are in {-1, 1} and features are
small integers.

### Actions of HuskySGD (one per step of the code)

| action | code |
|---|---|
| `Count(w)` / `SyncCount` | `num_samples_agg.update`, `AggregatorFactory::sync()` (svm.hpp 83-86) |
| `StartRound(w)` | loop test `round < num_iters`; `update_param`: snapshot, regularization (sgd.hpp 46-63) |
| `GradStep(w)` | the `list_execute` lambda on the next local record (sgd.hpp 65-72) |
| `Contribute(w)` | the end of that `list_execute`: the aggregate goes to the channel |
| `SyncRound` | the channel sync: `param += sum`, every worker leaves `update_param`, `++round` |
| `ReportStep(w)` / `ReportDone(w)` / `SyncReport` | the `report_per_round` `list_execute` and its sync (svm.hpp 102-116) |
| `Finish(w)` | the loop ends and `trained_ = true` (svm.hpp 100-126) |

A worker's steps interleave arbitrarily with the other workers' steps. Only the syncs
wait for everyone.

## Runs

All runs use 2 features plus a bias, `LR = RegLR = 1`, L2 on, and `report_per_round`
on. `CHECK_DEADLOCK FALSE` is set because the job really does stop: every worker ends
in `done`. `Termination` checks that it gets there.

* **sgd_core** (`MC_HuskySGD.cfg`, pass): 3 workers hold 2, 1 and 0 records, over 3
  rounds. The empty partition exercises `n_local = 0`. The uneven split makes the
  weights differ. Three rounds make the margin test flip between rounds. The run
  checks:
  * `TypeOK`;
  * `LocalContribution`;
  * `RoundRefinement`: the detailed spec implements `SGDRound` under
    `params <- param, rounds <- rnd[0]`;
  * `Termination`.
* **parallel_equivalence** (violation): one round on two equal halves is not one
  round on all the data. See the findings.
* **gradient_snapshot** (violation): gradients are not taken against the round
  snapshot.
* **reported_loss** (violation): the reported loss is not the hinge loss.

Each property of the passing run has a mutant in `PROJECT.json` that TLC finds
violated:

| mutant | what it changes | property it violates |
|---|---|---|
| `StartRoundPastEnd` | the loop runs one round too many | `TypeOK` |
| `GradStepUnweighted` | drops the `n_local` factor | `LocalContribution` |
| `RegFlagEveryWorker` | every thread regularizes | `RoundRefinement` |
| `SyncRoundReportOnThreadZero` | the report's `list_execute` moved into the `global_tid() == 0` block that logs the loss: thread 0 waits at the report sync forever | `Termination` |

### Regression::train_test

The gradient and error functions of `Regression` are installed by subclasses that
are not in `src/`. The model therefore keeps the control and abstracts the data:
after each `update_param` sync (`SyncUpdate`), every held-out record gets some error
in `ErrorValues`, chosen nondeterministically. `avg_error` is modelled step by step
(`EvalStep`, `EvalDone`, `SyncEval`). Its result is an exact fraction
`[num, den]`; `den = 0` is the NaN of `0.0 / 0`, and the comparisons `IsZero` and
`Greater` are false on NaN, as they are on doubles. `Decide(w)` is the
early-stopping test on thread `w`'s own `pastError`, followed either by `break` or
by `pastError = currentError; ++round`. `Finish(w)` is the loop's normal exit.

### svm.cpp, the SVM example driver

`SVMExample` extends `HuskySGD`. A training step is `Train == Next /\ UNCHANGED
dvars`, so it leaves the driver's state alone. A thread's test steps (`TestStep`,
`TestDone`) are enabled once its own `pc` is `done`: its `train` call has returned,
while other threads may still be taking their last `Finish` step. `TestStep` adds
`SVMError` (y(w.x+b) <= 0) of the next local test record, under the synced `param`
that `avg_error`'s `error_func_` reads. `SyncTest` is the channel sync. Its result
`[num, den]` is the global error over the global count. The fairness is `HuskySGD`'s
plus weak fairness of each thread's test steps and of the sync.

### Regression::train

`RegressionTrain` abstracts the data in the same way. `SyncUpdate` is the
`update_param` sync. With `report_per_round`, `ReportStep`, `ReportDone` and
`SyncReport` are the error `list_execute` into `error_stat`. `error_stat` is
declared once and marked `to_reset_each_iter`, so its sync yields only this round's
sum. `NextRound` is `round++`, and `Finish` is the loop exit.

### svm_fgd.cpp

Values are exact: the parameters are `param / den`. Round `i` has step
`eta = 1/(i+1)` and divides by `num_samples`, so its updates are in units of
`1/(den*(i+1)*Total)`, and `SyncRound` rescales `param` and `den` by
`Scale(i) = (i+1)*Total` before adding the channel. `StartRound` is the snapshot
`bweight = get_all_param()` plus thread 0's decay of the weights (not the bias);
`GradStep` is the margin update on one local record against `bweight`;
`TestStep` counts `indicator < 0`. The per-round loss only feeds a log line and is
left out.

## Runs of the other components

* **train_test_core** (`MC_RegressionTrainTest.cfg`, pass): 2 threads, one holding 2
  held-out records and one holding none, 3 rounds, error values {0, 1}. Every
  sequence of held-out errors occurs: zero, rising, falling, flat. It checks:
  * `TypeOK`;
  * `EarlyStopRule`: when a thread has left, the history of held-out errors stops at
    the first error that meets spec section 4.4's test, or runs all rounds;
  * `StopAgreement`: once a thread has left, every other thread is in the same round
    and leaves too (each decides on its own copy of `pastError`);
  * `Termination`.
* **train_core** (`MC_RegressionTrain.cfg`, pass): 2 threads holding 2 and 1
  training records, 2 rounds, errors {0, 1, 2}, `report_per_round` on. A record's
  error can be more than one unit. It checks:
  * `TypeOK`;
  * `RoundError`: the error reported after a round is that round's sum, even though
    `error_stat` is reused;
  * `RoundsRun`: a returned thread has seen exactly `iters` update syncs;
  * `Termination`.
* **svm_example** (`MC_SVMExample.cfg`, pass): the driver on `sgd_core`'s training
  split over 2 rounds. The trained parameters are w = (2,-2)/3 and b = 0. Thread 0
  tests ((1,1), +1), which lies on that boundary. Thread 1 tests ((1,0), -1), and
  thread 2 holds no test records. It checks:
  * `TestErrorAsSpecified`: the reported error counts exactly the records with
    y(w.x+b) <= 0 under the final parameters, over the global test count;
  * `ExampleTermination`.

  Unlike `svm_fgd` (finding 5), this driver counts the boundary as the spec says.
* **empty_heldout** (violation): with no held-out records, `avg_error` returns NaN.
* **fgd_core** (`MC_FullGradientSVM.cfg`, pass): 3 threads holding 2, 1 and 0
  training records, 2 rounds, penalty 1. It checks `TypeOK`, `Termination`,
  `SnapshotFresh` (the `bweight` a lambda reads is the synced parameters) and
  `FGDRefinement`: every interleaving implements `FGDRound`, one full-gradient step
  on all records, under `params <- param, rounds <- rnd[0]`. So unlike SGD, the
  full-gradient round does not depend on how the data is partitioned. It also checks
  `ReportedTestErrors`: when every thread has returned, the error count is the
  number of test records that the final parameters strictly misclassify, and the
  test count is the number of test records. The threads start their test passes
  at different times, while others are still leaving the loop.
* **fgd_boundary_error** (violation): a test record on the trained boundary is not
  counted as an error.

| mutant | what it changes | property it violates |
|---|---|---|
| `UpdatePastEnd` | `round <= iters` | `TypeOK` |
| `DecideAfterUpdate` | `pastError = currentError` before the test | `EarlyStopRule` |
| `DecidePastOnThreadZero` | only thread 0 updates `pastError` | `StopAgreement`, `Termination` |
| `UpdatePastEnd` (train) | `round <= iters` | `TypeOK` |
| `SyncReportNoReset` | `error_stat` without `to_reset_each_iter` | `RoundError` |
| `FinishEarly` | the loop is left one round early | `RoundsRun`, `Termination` |
| `TestStepStrict` | the driver counts `y(w.x+b) < 0`, as `svm_fgd` does | `TestErrorAsSpecified` (svm.cpp) |
| `TestDoneOnThreadZero` | `avg_error(test_set)` under `svm.cpp`'s unbraced `if (global_tid() == 0)`: the other threads skip the test sync, and thread 0 waits at it forever | `ExampleTermination` |
| `StartRoundPastEnd` (FGD) | `i <= num_iter` | `TypeOK` |
| `StartRoundKeepSnapshot` | `bweight` read once, before the loop | `SnapshotFresh` |
| `FGDDecayBias` | thread 0 decays the bias as well | `FGDRefinement` |
| `EndLoopTestOnThreadZero` | the test `list_execute` moved into the `global_tid() == 0` block before it: thread 0 waits at the test sync forever | `Termination` |
| `TestDoneEarly` | the test loop stops before the last record | `ReportedTestErrors` |

## Fairness

Each worker's step is weakly fair, and so is each sync. A worker thread runs its
loop to completion. A sync completes once every thread has arrived. Failures are not
modelled: a failed thread fails the whole Husky job.

## Findings

1. `sgd.hpp:71`: a round averages the workers' local SGD models, weighted by their
   data share. With k equal partitions, a round moves the parameters 1/k as far as a
   single worker would. Spec section 8 claims the two are equivalent.
2. `sgd.hpp:70`: `current_vec` moves within the round. Gradients are therefore
   sequential SGD per partition, not taken against the snapshot that spec sections
   4.3 and 5 describe.
3. `svm.hpp:106-110`: the reported loss adds `1 - (w.x+b)` without the label. For
   records with `y = -1` this is not the hinge loss. `svm_fgd.cpp` multiplies by `y`.
4. `model.hpp:86`: `avg_error` divides by the global count without a check. With an
   empty held-out set it returns NaN, where spec section 7 asks for 0 or an error.
   In `train_test` both stopping comparisons are then false, so early stopping never
   fires.
5. `svm_fgd.cpp:173`: the test phase counts an error only when `y(w.x+b) < 0`. Spec
   section 8 and `SVM`'s `error_func_` (svm.hpp:70) count `<= 0`. After two rounds
   on the `fgd_core` data, the record `((1,0), +1)` lies on the boundary: the code
   reports 2 errors where the spec gives 3.

## Proofs (`HuskySGD_proofs`, checked by `tlapm`)

* `TypeCorrect`: `Spec => []TypeOK`.
* `ContributionCorrect`: `Spec => []LocalContribution`.

The module also holds the lemma `FrozenStep`, which `SVMExample_proofs` uses:
once any thread is `"done"`, no step changes `param`. Only `SyncRound` writes
`param`, and it needs every thread at `"wait"`. The lemma follows from the shape
of the barrier alone, so it is not stated as a theorem of its own.

Both hold for every number of workers and features, every partition, every round
count, and every non-zero learning rate and integer decay. The only assumptions are
those the code asserts or needs: `lr != 0` and a non-empty training set, since values
are in units of `1/Total`.

`TypeOK` alone is not inductive. `SyncRound` increments every round counter, and it
stays within `0..Iters` only because a worker at the sync passed the loop test.
`RoundBound` records this fact.

The inductive invariant is `IInv == TypeOK /\ RoundBound /\ LocalContribution`.
`LocalContribution` is preserved for three reasons:

* `GradStep` adds `LR*g*n_local` to `buf` and `LR*g*Total` to `cur`, which keeps
  `Total*(buf - decay) = n_local*(cur - param)`;
* `StartRound` establishes it with `cur = param` and `buf = decay`;
* `param` changes only at `SyncRound`, when no worker is in `grad`.

The dot product is a recursive function. Its result passes through `AsInt`, the
identity on integers, so that the prover knows it is an integer without an
induction.

## Proofs (`RegressionTrainTest_proofs`)

* `TypeCorrect`: `Spec => []TypeOK`.
* `AgreementCorrect`: `Spec => []StopAgreement`.
* `EarlyStopCorrect`: `Spec => []EarlyStopRule`.

All three hold for every number of threads, held-out split, set of error values and
round count. `StopAgreement` is not inductive alone: it says nothing about states
where no thread has left. The strengthening `Lockstep` says that any two threads are
never more than one phase apart. Either both are in the same phase and round, or one
has passed a sync point that the other has yet to pass. Which pairs are possible
follows from the fact that every sync needs all threads. Two threads in the same phase have the same round and
the same `past` (`Same`). All threads read the same `cur`, so `Breaks` takes the same
value on two threads at `decide` (lemma `BreaksSame`). `IInv == TypeOK /\ RoundBound /\ Lockstep /\ StopAgreement` is proved
inductive with one case per action, and `Decide` is split on `Breaks`.

`EarlyStopRule` rests on a second invariant, `HistInv`, which relates each thread to
the history of held-out errors. While a thread is between two `avg_error` syncs, the
history has `rnd` entries and none of them meets the stopping test. A thread at
`decide` has `rnd + 1` entries and is deciding on the last one. A thread's
`pastError` is the entry of its round. Under `HistInv`, lemma `BreaksStop` shows
that a deciding thread's `Breaks` is exactly the stopping test on the last entry.
It holds because the code tests before it assigns `pastError` (regression.hpp
134-140). Lemma `AppendStop` shows that appending an error leaves the test on the
earlier entries as it was. `IInv /\ HistInv` is inductive.

## Proofs (`RegressionTrain_proofs`)

* `TypeCorrect`: `Spec => []TypeOK`.
* `RoundsCorrect`: `Spec => []RoundsRun`.

* `RoundErrorCorrect`: `Spec => []RoundError`.

These hold for every instance. The inductive invariant `Counted(w)` relates the
global count of update syncs to each thread's round. The count equals the round in
`loop`, `uwait` and `done`. It is one more than the round between the update sync
and `round++`. A thread past the loop test is in a round below `iters`, and a
finished thread is at round `iters` or beyond. Together with `TypeOK` this is
inductive, because each sync needs every thread.

For `RoundError`, the summed error is stated as a count, not as a fold. Errors are
naturals, so `ErrorSum(e)` is the number of units `<<record, m>>` with `m` at most
that record's error (`ErrorUnits`). Adding to it then uses only the proved
cardinality facts of `FiniteSetTheorems` (`FS_Union`, `FS_Product`), with no
induction. `RInv` says what `error_stat`'s channel holds at each moment:

* during the report (`InReport`), every thread is in the report. The channel holds
  the count of the units of the records visited so far (`Pending`, those before
  `k`), and that set is finite;
* outside the report, the channel is 0;
* while some thread is at `next`, `stat` is the error sum of the current `errs`.

`ReportStep` adds one record's units, which are disjoint from `Pending`
(`ChunkCard`, lemma `ReportStepRInv`). `SyncReport` needs every thread at `rwait`,
where `k` is past its last record, so `Pending` is then every unit. `SyncUpdate`
needs every thread at `uwait`, so none is left at `next` when `errs` changes, and
it starts the report with `k = 1`, where `Pending` is empty. Lemma `QuietStep`
covers the four steps taken outside the report.

## Proofs (`FullGradientSVM_proofs`)

* `TypeCorrect`: `Spec => []TypeOK`.
* `SnapshotCorrect`: `Spec => []SnapshotFresh`.
* `ReportedCorrect`: `Spec => []ReportedTestErrors`.

Both hold for every number of threads and features, every partition, every round
count and every penalty, given a non-empty training set. `TypeOK` needs
`RoundBound`, for the same reason as in `HuskySGD`. The denominator stays positive
because `Scale(i) = (i+1)*Total` is. `SnapshotFresh` holds because `param` changes
only at `SyncRound`. That sync needs every thread at `wait` and sends all of them to
`loop`, where `bweight` is not read. So `IInv == TypeOK /\ RoundBound /\
SnapshotFresh`. The lemmas on the SVM functions (`SVMFacts`) are shared with
`HuskySGD_proofs`.

`ReportedTestErrors` speaks only at the end, so it is proved from `FInv`. That
invariant says what the test channels hold at every moment, and it extends `IInv`
with the following:

* `TestPlace(w)`: a thread in its test pass is at a record in
  `1 .. Len(TestData[w]) + 1`, and it is past its last record once it has left
  `test`;
* `cntChan` is the number of `Visited` records (those before `k` on threads in
  their test pass). `errChan` is the number of those that the current `param`
  strictly misclassifies. `Visited` is finite;
* once one thread is `done`, all are, and `testErr = errChan`.

A training step of one thread leaves `Visited` alone (lemma `TrainStepFInv`, via
`QuietStep`). `SyncRound` is the one step that changes `param`. It needs every
thread at `wait`, so at that point `Visited` is empty. `TestStep` reads
`bweight`, which is `param` by `SnapshotFresh`, and adds one record to `Visited`
(`FS_AddElement`). At the end every record has been visited, and the counts are
the cardinalities in `ReportedTestErrors`.

Only TLC checks the following:

* liveness (`Termination`);
* the refinement (`RoundRefinement`), whose abstract round is a recursive fold over
  records;
* anything about what `DotWithIntcpt`, `LocalAcc` and `SumFunction` compute;
* `FGDRefinement`, whose abstract step is a sum over the
  records.

TLAPS cannot do induction over data or reason about `ENABLED`.

## Proofs (`SVMExample_proofs`)

* `TestErrorCorrect`: `ExampleSpec => []TestErrorAsSpecified`.

This holds for every number of threads, features and rounds, every training and
test split, and every learning rate and decay. `SVMError` is 0 or 1, so the
property counts sets: `SpecTestErrors(P)` is the cardinality of `Misclassified(P)`,
and `TestTotal` is the cardinality of `TestRecords`. The inductive invariant
`TInv` extends `HuskySGD_proofs`' `IInv` with the following:

* `ExampleTypeOK`;
* `TestPlace(w)`: a thread that has started its test pass has returned from
  `train`, and a thread past its pass has visited all its records;
* `errChan` and `cntChan` count the visited records (`Visited`, those before
  `tk`) and the ones among them that the current `param` misclassifies. `Visited`
  is finite;
* the test sync ends every thread at once, with the channels' sums.

A training step keeps `TInv` for one of two reasons. If some thread has returned,
`param` does not move (lemma `FrozenStep`). Otherwise no test record has been
visited, and both counts are of the empty set. A `TestStep` adds one record that
was not yet visited (`FS_AddElement`).

## Not modelled yet

* `Model::predict`: no model under `src/` installs `predict_func_`, and nothing calls
  `predict`. Its only effect would be to write labels that no modelled operation
  reads.
* `present_param`, which only writes the log.
* The L1 case, a TODO no-op that `SVM::train` never selects.
* `svm_fgd.cpp`'s per-round loss, which only feeds a log line.
* Data loading, argument parsing and logging, which are pure I/O.
