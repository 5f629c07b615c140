--------------------------- MODULE RegressionTrain ---------------------------
(***************************************************************************)
(* Regression::train (regression.hpp), run by every worker thread: iters   *)
(* rounds of the optimizer's update_param, each followed, with             *)
(* report_per_round, by a list_execute that sums error_func_ over the      *)
(* training records into error_stat, which thread 0 logs.                  *)
(*                                                                         *)
(* As in RegressionTrainTest the gradient and error functions come from    *)
(* subclasses outside the repository: after each update_param sync every   *)
(* training record has some error in ErrorValues.  error_stat is          *)
(* declared once and reused in every round; to_reset_each_iter makes its   *)
(* channel sync start from 0 again.                                        *)
(***************************************************************************)
EXTENDS Integers, Sequences, FiniteSets

CONSTANTS
  NumWorkers,     \* global threads
  DataLen,        \* DataLen[w]: the number of training records of worker w
  ErrorValues,    \* the values error_func_ may return for a record
  Iters,          \* iters
  ReportPerRound  \* report_per_round

Workers == 0 .. NumWorkers - 1

ASSUME WorkersAssumption == NumWorkers \in Nat \ {0}
ASSUME DataLenAssumption == DataLen \in [Workers -> Nat]
ASSUME ErrorValuesAssumption == ErrorValues \subseteq Nat /\ ErrorValues # {}
ASSUME ItersAssumption == Iters \in Nat
ASSUME ReportAssumption == ReportPerRound \in BOOLEAN

(* The error values of the training records under some parameters.         *)
RoundErrors ==
  {e \in [Workers -> UNION {[1 .. DataLen[w] -> ErrorValues] : w \in Workers}] :
     \A w \in Workers : DOMAIN e[w] = 1 .. DataLen[w]}

VARIABLES
  pc,       \* pc[w]: where worker w is in train
  rnd,      \* rnd[w]: the loop variable round
  k,        \* k[w]: the next local record the report's lambda visits
  errs,     \* the error of every training record under the synced parameters
  statChan, \* error_stat: the errors sent to the channel, not yet synced
  stat,     \* error_stat.get_value() after the last sync
  updates   \* the update_param syncs so far

vars == <<pc, rnd, k, errs, statChan, stat, updates>>

TypeOK ==
  /\ pc \in [Workers -> {"count", "cwait", "loop", "uwait", "report", "rwait",
                         "next", "done"}]
  /\ rnd \in [Workers -> 0 .. Iters]
  /\ k \in [Workers -> Nat \ {0}]
  /\ errs \in RoundErrors
  /\ statChan \in Nat /\ stat \in Nat
  /\ updates \in 0 .. Iters

(* errs is not read before the first update.                               *)
Init ==
  /\ pc = [w \in Workers |-> "count"]
  /\ rnd = [w \in Workers |-> 0]
  /\ k = [w \in Workers |-> 1]
  /\ errs = CHOOSE e \in RoundErrors : TRUE
  /\ statChan = 0 /\ stat = 0
  /\ updates = 0

(* The list_execute counting the training records, up to its sync.        *)
Count(w) ==
  /\ pc[w] = "count"
  /\ pc' = [pc EXCEPT ![w] = "cwait"]
  /\ UNCHANGED <<rnd, k, errs, statChan, stat, updates>>

SyncCount ==
  /\ \A w \in Workers : pc[w] = "cwait"
  /\ pc' = [w \in Workers |-> "loop"]
  /\ UNCHANGED <<rnd, k, errs, statChan, stat, updates>>

(* Mutant: the loop test round <= iters runs one round too many.          *)
UpdatePastEnd(w) ==
  /\ pc[w] = "loop"
  /\ rnd[w] <= Iters
  /\ pc' = [pc EXCEPT ![w] = "uwait"]
  /\ UNCHANGED <<rnd, k, errs, statChan, stat, updates>>

(* round < iters: gd.update_param runs up to its channel sync.             *)
Update(w) ==
  /\ pc[w] = "loop"
  /\ rnd[w] < Iters
  /\ pc' = [pc EXCEPT ![w] = "uwait"]
  /\ UNCHANGED <<rnd, k, errs, statChan, stat, updates>>

(* Where a thread goes when update_param returns.                          *)
AfterUpdate == IF ReportPerRound THEN "report" ELSE "next"

(* The update_param sync: the parameters change, and with them the error  *)
(* of each training record.                                                *)
SyncUpdate ==
  /\ \A w \in Workers : pc[w] = "uwait"
  /\ errs' \in RoundErrors
  /\ updates' = updates + 1
  /\ pc' = [w \in Workers |-> AfterUpdate]
  /\ k' = [w \in Workers |-> 1]
  /\ UNCHANGED <<rnd, statChan, stat>>

(* The report's lambda on the next local record:                           *)
(* error_stat.update(error_func_(...)).                                    *)
ReportStep(w) ==
  /\ pc[w] = "report"
  /\ k[w] <= DataLen[w]
  /\ statChan' = statChan + errs[w][k[w]]
  /\ k' = [k EXCEPT ![w] = @ + 1]
  /\ UNCHANGED <<pc, rnd, errs, stat, updates>>

ReportDone(w) ==
  /\ pc[w] = "report"
  /\ k[w] > DataLen[w]
  /\ pc' = [pc EXCEPT ![w] = "rwait"]
  /\ UNCHANGED <<rnd, k, errs, statChan, stat, updates>>

(* Mutant: error_stat without to_reset_each_iter keeps the earlier rounds' *)
(* sums.                                                                   *)
SyncReportNoReset ==
  /\ \A w \in Workers : pc[w] = "rwait"
  /\ stat' = stat + statChan
  /\ statChan' = 0
  /\ pc' = [w \in Workers |-> "next"]
  /\ UNCHANGED <<rnd, k, errs, updates>>

(* The report's channel sync: error_stat, reset for this iteration, holds *)
(* the round's error sum, which thread 0 logs divided by num_samples.     *)
SyncReport ==
  /\ \A w \in Workers : pc[w] = "rwait"
  /\ stat' = statChan
  /\ statChan' = 0
  /\ pc' = [w \in Workers |-> "next"]
  /\ UNCHANGED <<rnd, k, errs, updates>>

(* The end of the loop body: round++.                                       *)
NextRound(w) ==
  /\ pc[w] = "next"
  /\ pc' = [pc EXCEPT ![w] = "loop"]
  /\ rnd' = [rnd EXCEPT ![w] = @ + 1]
  /\ UNCHANGED <<k, errs, statChan, stat, updates>>

(* Mutant: the loop test round < iters - 1 leaves one round early.         *)
FinishEarly(w) ==
  /\ pc[w] = "loop"
  /\ rnd[w] >= Iters - 1
  /\ pc' = [pc EXCEPT ![w] = "done"]
  /\ UNCHANGED <<rnd, k, errs, statChan, stat, updates>>

(* round == iters: the loop ends and trained_ is set.                      *)
Finish(w) ==
  /\ pc[w] = "loop"
  /\ rnd[w] >= Iters
  /\ pc' = [pc EXCEPT ![w] = "done"]
  /\ UNCHANGED <<rnd, k, errs, statChan, stat, updates>>

Worker(w) ==
  \/ Count(w) \/ Update(w) \/ ReportStep(w) \/ ReportDone(w) \/ NextRound(w)
  \/ Finish(w)

Next ==
  \/ \E w \in Workers : Worker(w)
  \/ SyncCount \/ SyncUpdate \/ SyncReport

(* Every thread runs on, and a sync completes once all threads arrive.    *)
Fairness ==
  /\ \A w \in Workers : WF_vars(Worker(w))
  /\ WF_vars(SyncCount) /\ WF_vars(SyncUpdate) /\ WF_vars(SyncReport)

Spec == Init /\ [][Next]_vars /\ Fairness

-----------------------------------------------------------------------------
(***************************************************************************)
(* Properties.                                                             *)
(***************************************************************************)

(* The training records, as <<thread, position>> pairs.                   *)
Records == UNION {{w} \X (1 .. DataLen[w]) : w \in Workers}

(* The errors are naturals: record r with error e[r[1]][r[2]] contributes *)
(* that many units <<r, 1>>, ..., <<r, e[r[1]][r[2]]>>.                    *)
ErrorUnits(e) == UNION {{r} \X (1 .. e[r[1]][r[2]]) : r \in Records}

(* The summed error of every training record under the synced parameters. *)
ErrorSum(e) == Cardinality(ErrorUnits(e))

(* Spec sections 4.3 step 5 and 6: the error thread 0 reports after a     *)
(* round is the error of the whole training set under that round's        *)
(* updated parameters, not mixed with earlier rounds' sums, although       *)
(* error_stat is one aggregator reused in every round.                     *)
RoundError == \A w \in Workers : (ReportPerRound /\ pc[w] = "next") => stat = ErrorSum(errs)

(* Spec section 4.4: train runs the round loop for exactly iters rounds:  *)
(* once a thread has returned, iters update_param syncs have happened.    *)
RoundsRun == (\E w \in Workers : pc[w] = "done") => updates = Iters

(* Every thread returns from train.                                         *)
Termination == <>(\A w \in Workers : pc[w] = "done")
=============================================================================
