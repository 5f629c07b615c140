------------------------------ MODULE HuskySGD ------------------------------
(***************************************************************************)
(* SVM::train<SGD> (svm.hpp) with SGD::update_param (sgd.hpp), run by      *)
(* every worker thread of the job over its own partition of train_set.    *)
(*                                                                         *)
(* The parameter store is a ParameterBucket: an Aggregator whose global    *)
(* value (param) only changes when the aggregator channel synchronizes at  *)
(* the end of a list_execute.  update(i, d) adds d to the worker's local   *)
(* aggregate (buf); the worker's aggregate is sent to the channel (chan)   *)
(* when its list_execute ends; the channel sync is a barrier that adds     *)
(* the sum of all contributions to param and releases every worker.        *)
(*                                                                         *)
(* Values are in units of 1/Total (see SVMFunctions): the scaled update    *)
(* delta * num_local_samples / num_global_samples is delta * n_local, and  *)
(* current_vec[fea] += delta is current_vec[fea] + delta * Total.          *)
(***************************************************************************)
EXTENDS SGDConfig

VARIABLES
  pc,     \* pc[w]: where worker w is in SVM::train
  rnd,    \* rnd[w]: the loop variable round of worker w
  k,      \* k[w]: the next local record list_execute hands to the lambda
  cur,    \* cur[w]: current_vec, worker w's local copy of the parameters
  buf,    \* buf[w]: worker w's local aggregate of param_list.update calls
  chan,   \* sum of the aggregates sent to the channel, not yet synced
  param,  \* the globally synced parameter vector (get_all_param/param_at)
  lossChan, \* loss_agg: the per-record losses sent to the channel this round
  loss    \* the last synced value of loss_agg, which thread 0 logs

vars == <<pc, rnd, k, cur, buf, chan, param, lossChan, loss>>

Phases == {"count", "cwait", "loop", "grad", "wait", "report", "rwait", "done"}

TypeOK ==
  /\ pc \in [Workers -> Phases]
  /\ rnd \in [Workers -> 0 .. Iters]
  /\ k \in [Workers -> Nat \ {0}]
  /\ cur \in [Workers -> [Idx -> Int]]
  /\ buf \in [Workers -> [Idx -> Int]]
  /\ chan \in [Idx -> Int]
  /\ param \in [Idx -> Int]
  /\ lossChan \in Int
  /\ loss \in Int

(* ParameterBucket::init(num_param, 0.0): every parameter starts at 0.     *)
Init ==
  /\ pc = [w \in Workers |-> "count"]
  /\ rnd = [w \in Workers |-> 0]
  /\ k = [w \in Workers |-> 1]
  /\ cur = [w \in Workers |-> Zero]
  /\ buf = [w \in Workers |-> Zero]
  /\ chan = Zero
  /\ param = Zero
  /\ lossChan = 0
  /\ loss = 0

Plus(u, v) == [i \in Idx |-> u[i] + v[i]]

(* num_samples_agg.update(data.get_size()); AggregatorFactory::sync():     *)
(* the worker contributes its record count and waits for the sync.        *)
Count(w) ==
  /\ pc[w] = "count"
  /\ pc' = [pc EXCEPT ![w] = "cwait"]
  /\ UNCHANGED <<rnd, k, cur, buf, chan, param, lossChan, loss>>

(* The count sync completes once every worker has contributed; every      *)
(* worker reads num_samples = Total and enters the training loop.         *)
SyncCount ==
  /\ \A w \in Workers : pc[w] = "cwait"
  /\ pc' = [w \in Workers |-> "loop"]
  /\ UNCHANGED <<rnd, k, cur, buf, chan, param, lossChan, loss>>

(* Mutant: the loop test round <= num_iters runs one round too many.      *)
StartRoundPastEnd(w) ==
  /\ pc[w] = "loop"
  /\ rnd[w] <= Iters
  /\ cur' = [cur EXCEPT ![w] = param]
  /\ buf' = [buf EXCEPT ![w] = Regularize(w, param)]
  /\ k' = [k EXCEPT ![w] = 1]
  /\ pc' = [pc EXCEPT ![w] = "grad"]
  /\ UNCHANGED <<rnd, chan, param, lossChan, loss>>

(* round < num_iters: optimizer.update_param begins.  It copies the       *)
(* parameters into current_vec and, on the worker whose optimizer has     *)
(* regularization_flag_ with norm 2, runs l2_regularize, whose            *)
(* param_at(i) reads the synced value; then list_execute starts.          *)
StartRound(w) ==
  /\ pc[w] = "loop"
  /\ rnd[w] < Iters
  /\ cur' = [cur EXCEPT ![w] = param]
  /\ buf' = [buf EXCEPT ![w] = Regularize(w, param)]
  /\ k' = [k EXCEPT ![w] = 1]
  /\ pc' = [pc EXCEPT ![w] = "grad"]
  /\ UNCHANGED <<rnd, chan, param, lossChan, loss>>

(* Mutant: the global update drops the num_local_samples factor.          *)
GradStepUnweighted(w) ==
  /\ pc[w] = "grad"
  /\ k[w] <= Len(Data[w])
  /\ LET g == SVMGrad(Data[w][k[w]], cur[w], Total)
     IN  /\ cur' = [cur EXCEPT ![w] = [i \in Idx |-> @[i] + LR * g[i] * Total]]
         /\ buf' = [buf EXCEPT ![w] = [i \in Idx |-> @[i] + LR * g[i]]]
  /\ k' = [k EXCEPT ![w] = @ + 1]
  /\ UNCHANGED <<pc, rnd, chan, param, lossChan, loss>>

(* The list_execute lambda on the next local record: the gradient is      *)
(* taken against current_vec; for every gradient entry, delta =           *)
(* w.val * learning_rate_ is added to current_vec and                     *)
(* delta * num_local_samples / num_global_samples to the parameters.      *)
GradStep(w) ==
  /\ pc[w] = "grad"
  /\ k[w] <= Len(Data[w])
  /\ LET g == SVMGrad(Data[w][k[w]], cur[w], Total)
     IN  /\ cur' = [cur EXCEPT ![w] = [i \in Idx |-> @[i] + LR * g[i] * Total]]
         /\ buf' = [buf EXCEPT ![w] =
                      [i \in Idx |-> @[i] + LR * g[i] * Len(Data[w])]]
  /\ k' = [k EXCEPT ![w] = @ + 1]
  /\ UNCHANGED <<pc, rnd, chan, param, lossChan, loss>>

(* list_execute has visited every local record: the worker's aggregate    *)
(* goes to the channel and the worker waits at the channel sync.          *)
Contribute(w) ==
  /\ pc[w] = "grad"
  /\ k[w] > Len(Data[w])
  /\ chan' = Plus(chan, buf[w])
  /\ buf' = [buf EXCEPT ![w] = Zero]
  /\ pc' = [pc EXCEPT ![w] = "wait"]
  /\ UNCHANGED <<rnd, k, cur, param, lossChan, loss>>

(* Mutant: the report's list_execute moved into the global_tid() == 0     *)
(* block that logs the loss, so only thread 0 enters the report sync.     *)
SyncRoundReportOnThreadZero ==
  /\ \A w \in Workers : pc[w] = "wait"
  /\ param' = Plus(param, chan)
  /\ chan' = Zero
  /\ rnd' = [w \in Workers |-> rnd[w] + 1]
  /\ pc' = [w \in Workers |-> IF ReportPerRound /\ w = 0 THEN "report" ELSE "loop"]
  /\ k' = [w \in Workers |-> 1]
  /\ UNCHANGED <<cur, buf, lossChan, loss>>

(* The channel sync ends update_param on every worker: the summed         *)
(* contributions become the new global parameters.  rnd counts the        *)
(* completed update_param calls; with report_per_round every worker goes  *)
(* on to the report, otherwise back to the loop test.                     *)
SyncRound ==
  /\ \A w \in Workers : pc[w] = "wait"
  /\ param' = Plus(param, chan)
  /\ chan' = Zero
  /\ rnd' = [w \in Workers |-> rnd[w] + 1]
  /\ pc' = [w \in Workers |-> IF ReportPerRound THEN "report" ELSE "loop"]
  /\ k' = [w \in Workers |-> 1]
  /\ UNCHANGED <<cur, buf, lossChan, loss>>

(* The report's list_execute lambda on the next local record: prod =     *)
(* b + w . x from the synced parameters; 1 - prod goes to loss_agg if     *)
(* prod < 1.                                                               *)
ReportStep(w) ==
  /\ pc[w] = "report"
  /\ k[w] <= Len(Data[w])
  /\ lossChan' = lossChan + ReportLoss(Data[w][k[w]], param, Total)
  /\ k' = [k EXCEPT ![w] = @ + 1]
  /\ UNCHANGED <<pc, rnd, cur, buf, chan, param, loss>>

(* The report's list_execute has visited every local record: the worker  *)
(* waits at the channel sync.                                             *)
ReportDone(w) ==
  /\ pc[w] = "report"
  /\ k[w] > Len(Data[w])
  /\ pc' = [pc EXCEPT ![w] = "rwait"]
  /\ UNCHANGED <<rnd, k, cur, buf, chan, param, lossChan, loss>>

(* The report's channel sync: loss_agg (reset each iteration) now holds   *)
(* this round's summed loss, which thread 0 logs divided by num_samples.  *)
SyncReport ==
  /\ \A w \in Workers : pc[w] = "rwait"
  /\ loss' = lossChan
  /\ lossChan' = 0
  /\ pc' = [w \in Workers |-> "loop"]
  /\ UNCHANGED <<rnd, k, cur, buf, chan, param>>

(* round == num_iters: the loop ends and trained_ is set.                  *)
Finish(w) ==
  /\ pc[w] = "loop"
  /\ rnd[w] >= Iters
  /\ pc' = [pc EXCEPT ![w] = "done"]
  /\ UNCHANGED <<rnd, k, cur, buf, chan, param, lossChan, loss>>

Worker(w) ==
  \/ Count(w)
  \/ StartRound(w)
  \/ GradStep(w)
  \/ Contribute(w)
  \/ ReportStep(w)
  \/ ReportDone(w)
  \/ Finish(w)

Next ==
  \/ \E w \in Workers : Worker(w)
  \/ SyncCount
  \/ SyncRound
  \/ SyncReport

(* Each worker thread runs its loop to the end, and a channel sync        *)
(* completes once every worker has reached it: no failures are modelled,  *)
(* a failed worker fails the whole job.                                    *)
Fairness ==
  /\ \A w \in Workers : WF_vars(Worker(w))
  /\ WF_vars(SyncCount)
  /\ WF_vars(SyncRound)
  /\ WF_vars(SyncReport)

Spec == Init /\ [][Next]_vars /\ Fairness

-----------------------------------------------------------------------------
(***************************************************************************)
(* Properties.                                                             *)
(***************************************************************************)

(* What a worker sends to the channel is its local SGD displacement       *)
(* weighted by its share of the data, plus one L2 decay on worker 0 only: *)
(* while worker w runs list_execute, its aggregate times num_samples      *)
(* equals n_local times (current_vec - the synced parameters), after      *)
(* removing the decay.  This ties sgd.hpp's two updates of one gradient   *)
(* entry together and says that param has not moved since current_vec    *)
(* was copied from it, although other workers step and sync meanwhile.    *)
LocalContribution ==
  \A w \in Workers : pc[w] = "grad" =>
    \A i \in Idx :
      Total * (buf[w][i] - Regularize(w, param)[i])
        = Len(Data[w]) * (cur[w][i] - param[i])

(* The summed hinge loss max(0, 1 - y (w . x + b)) of the whole training  *)
(* set at parameters P, in units of 1/Total.                               *)
HingeSum(P) ==
  SumFunction([w \in Workers |->
    SumFunction([j \in 1 .. Len(Data[w]) |-> HingeLoss(Data[w][j], P, Total)])])

(* Spec section 4.3 step 5: with report_per_round, the loss SVM::train    *)
(* reports after a round is the hinge loss of the training set at the     *)
(* just-updated parameters (the quantity svm_fgd.cpp reports), i.e. once  *)
(* the report's sync is done, loss_agg holds HingeSum(param).             *)
ReportedHingeLoss ==
  (ReportPerRound /\ rnd[0] > 0 /\ pc[0] \notin {"report", "rwait"})
    => loss = HingeSum(param)

(* Every worker stops: SVM::train returns on all threads with trained_.    *)
Termination == <>(\A w \in Workers : pc[w] = "done")
=============================================================================
