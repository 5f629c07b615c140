------------------------------ MODULE SGDConfig ------------------------------
(***************************************************************************)
(* The configuration of one SVM::train<SGD> job (svm.hpp): the workers,    *)
(* the partitioned training set, the number of rounds, the learning rate   *)
(* and the L2 regularization of the single coordinator worker.            *)
(***************************************************************************)
EXTENDS SVMFunctions, Sequences, Functions

CONSTANTS
  NumWorkers,  \* global threads; Context::get_global_tid() ranges over Workers
  Data,        \* Data[w]: the records of train_set held by worker w, in list order
  Iters,       \* num_iters
  LR,          \* learning_rate of the optimizer
  RegLR,       \* learning_rate * lambda_, the L2 decay factor of l2_regularize
  RegOn,       \* whether SVM::train turns on set_regularization(2, lambda_)
  ReportPerRound \* Model::report_per_round

Workers == 0 .. NumWorkers - 1

(* num_samples: the global record count, summed over the workers.          *)
Total == SumFunction([w \in Workers |-> Len(Data[w])])

ASSUME WorkersAssumption == NumWorkers \in Nat \ {0}
ASSUME DataAssumption == Data \in [Workers -> Seq(Example)]
ASSUME ItersAssumption == Iters \in Nat
(* update_param asserts learning_rate_ != 0; the job aborts otherwise.     *)
ASSUME LRAssumption == LR \in Int \ {0}
ASSUME RegAssumption == RegLR \in Int /\ RegOn \in BOOLEAN
ASSUME ReportAssumption == ReportPerRound \in BOOLEAN
(* Values are kept in units of 1/Total, so the training set is non-empty. *)
ASSUME TotalAssumption == Total \in Nat \ {0}

(* Mutant: set_regularization called on every thread, not thread 0 only. *)
RegFlagEveryWorker(w) == RegOn

(* SVM::train calls optimizer.set_regularization(2, lambda_) on global     *)
(* thread 0 only, so only worker 0's optimizer has regularization_flag_.   *)
RegFlag(w) == RegOn /\ w = 0

(* l2_regularize: update(i, - param_at(i) * learning_rate_ * lambda_), in  *)
(* units of 1/Total, for every parameter index (the bias included).        *)
L2Delta(P) == [i \in Idx |-> - (P[i] * RegLR)]

(* What update_param's regularization block adds to worker w's aggregate: *)
(* case 2 runs l2_regularize; case 1 (L1) is a TODO and adds nothing.      *)
Regularize(w, P) == IF RegFlag(w) THEN L2Delta(P) ELSE Zero
=============================================================================
