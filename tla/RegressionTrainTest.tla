------------------------- MODULE RegressionTrainTest -------------------------
(***************************************************************************)
(* Regression::train_test (regression.hpp) with Model::avg_error           *)
(* (model.hpp), run by every worker thread: training rounds with early     *)
(* stopping on a held-out set.                                             *)
(*                                                                         *)
(* The gradient and error functions of Regression are installed by        *)
(* subclasses that are not part of the repository, so the parameters are   *)
(* abstracted to what avg_error sees of them: after each update_param sync *)
(* every held-out record has some error value in ErrorValues.  The         *)
(* control is kept: the sample count, update_param and avg_error          *)
(* list_executes with their channel syncs, and each thread's own early-    *)
(* stopping decision on its own copy of pastError.                         *)
(*                                                                         *)
(* A held-out error is a fraction [num |-> error sum, den |-> record       *)
(* count]; den = 0 is the NaN that 0.0 / 0 gives.                          *)
(***************************************************************************)
EXTENDS Integers, Sequences

CONSTANTS
  NumWorkers,  \* global threads
  TestLen,     \* TestLen[w]: the number of held-out records of worker w
  ErrorValues, \* the values error_func_ may return for a record
  Iters        \* iters

Workers == 0 .. NumWorkers - 1

ASSUME WorkersAssumption == NumWorkers \in Nat \ {0}
ASSUME TestLenAssumption == TestLen \in [Workers -> Nat]
ASSUME ErrorValuesAssumption == ErrorValues \subseteq Nat /\ ErrorValues # {}
ASSUME ItersAssumption == Iters \in Nat

(* The error values of the held-out records under some parameters.         *)
TestErrors ==
  {e \in [Workers -> UNION {[1 .. TestLen[w] -> ErrorValues] : w \in Workers}] :
     \A w \in Workers : DOMAIN e[w] = 1 .. TestLen[w]}

VARIABLES
  pc,      \* pc[w]: where worker w is in train_test
  rnd,     \* rnd[w]: the loop variable round
  k,       \* k[w]: the next local held-out record avg_error's lambda visits
  past,    \* past[w]: worker w's pastError
  errs,    \* the error of every held-out record under the synced parameters
  errChan, \* error_agg: the errors sent to the channel this evaluation
  cntChan, \* num_samples_agg of avg_error: the records counted this evaluation
  cur,     \* the value avg_error returns to every thread after the sync
  hist     \* history: the held-out error of every round, in order

vars == <<pc, rnd, k, past, errs, errChan, cntChan, cur, hist>>

Frac == [num : Nat, den : Nat]

TypeOK ==
  /\ pc \in [Workers -> {"count", "cwait", "loop", "uwait", "eval", "ewait",
                         "decide", "done"}]
  /\ rnd \in [Workers -> 0 .. Iters]
  /\ k \in [Workers -> Nat \ {0}]
  /\ past \in [Workers -> Frac]
  /\ errs \in TestErrors
  /\ errChan \in Nat /\ cntChan \in Nat
  /\ cur \in Frac
  /\ hist \in Seq(Frac)

(* currentError == 0.0: false for NaN.                                     *)
IsZero(e) == e.den > 0 /\ e.num = 0

(* currentError > pastError on doubles: false when either is NaN.          *)
Greater(a, b) == a.den > 0 /\ b.den > 0 /\ a.num * b.den > b.num * a.den

(* double pastError = 0.0.  errs is not read before the first update.    *)
Init ==
  /\ pc = [w \in Workers |-> "count"]
  /\ rnd = [w \in Workers |-> 0]
  /\ k = [w \in Workers |-> 1]
  /\ past = [w \in Workers |-> [num |-> 0, den |-> 1]]
  /\ errs = CHOOSE e \in TestErrors : TRUE
  /\ errChan = 0 /\ cntChan = 0
  /\ cur = [num |-> 0, den |-> 1]
  /\ hist = <<>>

(* The list_execute counting the training records, up to its sync.        *)
Count(w) ==
  /\ pc[w] = "count"
  /\ pc' = [pc EXCEPT ![w] = "cwait"]
  /\ UNCHANGED <<rnd, k, past, errs, errChan, cntChan, cur, hist>>

SyncCount ==
  /\ \A w \in Workers : pc[w] = "cwait"
  /\ pc' = [w \in Workers |-> "loop"]
  /\ UNCHANGED <<rnd, k, past, errs, errChan, cntChan, cur, hist>>

(* Mutant: the loop test round <= iters runs one round too many.          *)
UpdatePastEnd(w) ==
  /\ pc[w] = "loop"
  /\ rnd[w] <= Iters
  /\ pc' = [pc EXCEPT ![w] = "uwait"]
  /\ UNCHANGED <<rnd, k, past, errs, errChan, cntChan, cur, hist>>

(* round < iters: gd.update_param runs up to its channel sync.             *)
Update(w) ==
  /\ pc[w] = "loop"
  /\ rnd[w] < Iters
  /\ pc' = [pc EXCEPT ![w] = "uwait"]
  /\ UNCHANGED <<rnd, k, past, errs, errChan, cntChan, cur, hist>>

(* The update_param sync: the parameters change, and with them the error  *)
(* of each held-out record; then every thread calls avg_error(Test).      *)
SyncUpdate ==
  /\ \A w \in Workers : pc[w] = "uwait"
  /\ errs' \in TestErrors
  /\ pc' = [w \in Workers |-> "eval"]
  /\ k' = [w \in Workers |-> 1]
  /\ UNCHANGED <<rnd, past, errChan, cntChan, cur, hist>>

(* avg_error's lambda on the next local held-out record:                  *)
(* error_agg.update(error_func_(...)) and num_samples_agg.update(1).        *)
EvalStep(w) ==
  /\ pc[w] = "eval"
  /\ k[w] <= TestLen[w]
  /\ errChan' = errChan + errs[w][k[w]]
  /\ cntChan' = cntChan + 1
  /\ k' = [k EXCEPT ![w] = @ + 1]
  /\ UNCHANGED <<pc, rnd, past, errs, cur, hist>>

(* avg_error's list_execute has visited every local held-out record.       *)
EvalDone(w) ==
  /\ pc[w] = "eval"
  /\ k[w] > TestLen[w]
  /\ pc' = [pc EXCEPT ![w] = "ewait"]
  /\ UNCHANGED <<rnd, k, past, errs, errChan, cntChan, cur, hist>>

(* The avg_error sync: every thread reads the global sums and returns     *)
(* global_error / num_samples.  The aggregators are local to avg_error, so *)
(* the next call starts from 0 again.                                      *)
SyncEval ==
  /\ \A w \in Workers : pc[w] = "ewait"
  /\ cur' = [num |-> errChan, den |-> cntChan]
  /\ hist' = Append(hist, [num |-> errChan, den |-> cntChan])
  /\ errChan' = 0 /\ cntChan' = 0
  /\ pc' = [w \in Workers |-> "decide"]
  /\ UNCHANGED <<rnd, k, past, errs>>

(* The early-stopping test of thread w on the avg_error it just read:     *)
(* currentError == 0.0 || (round != 0 && currentError > pastError).        *)
Breaks(w) == IsZero(cur) \/ (rnd[w] # 0 /\ Greater(cur, past[w]))

(* Mutant: the pastError update moved before the early-stopping test.     *)
DecideAfterUpdate(w) ==
  /\ pc[w] = "decide"
  /\ past' = [past EXCEPT ![w] = cur]
  /\ IF IsZero(cur) \/ (rnd[w] # 0 /\ Greater(cur, cur))
     THEN /\ pc' = [pc EXCEPT ![w] = "done"]
          /\ rnd' = rnd
     ELSE /\ pc' = [pc EXCEPT ![w] = "loop"]
          /\ rnd' = [rnd EXCEPT ![w] = @ + 1]
  /\ UNCHANGED <<k, errs, errChan, cntChan, cur, hist>>

(* Mutant: pastError = currentError moved into the thread-0 logging block. *)
DecidePastOnThreadZero(w) ==
  /\ pc[w] = "decide"
  /\ IF Breaks(w)
     THEN /\ pc' = [pc EXCEPT ![w] = "done"]
          /\ UNCHANGED <<rnd, past>>
     ELSE /\ past' = IF w = 0 THEN [past EXCEPT ![w] = cur] ELSE past
          /\ pc' = [pc EXCEPT ![w] = "loop"]
          /\ rnd' = [rnd EXCEPT ![w] = @ + 1]
  /\ UNCHANGED <<k, errs, errChan, cntChan, cur, hist>>

(* If the test holds: break and set trained_; otherwise                   *)
(* pastError = currentError and ++round.                                   *)
Decide(w) ==
  /\ pc[w] = "decide"
  /\ IF Breaks(w)
     THEN /\ pc' = [pc EXCEPT ![w] = "done"]
          /\ UNCHANGED <<rnd, past>>
     ELSE /\ past' = [past EXCEPT ![w] = cur]
          /\ pc' = [pc EXCEPT ![w] = "loop"]
          /\ rnd' = [rnd EXCEPT ![w] = @ + 1]
  /\ UNCHANGED <<k, errs, errChan, cntChan, cur, hist>>

(* round == iters: the loop ends and trained_ is set.                      *)
Finish(w) ==
  /\ pc[w] = "loop"
  /\ rnd[w] >= Iters
  /\ pc' = [pc EXCEPT ![w] = "done"]
  /\ UNCHANGED <<rnd, k, past, errs, errChan, cntChan, cur, hist>>

Worker(w) ==
  \/ Count(w) \/ Update(w) \/ EvalStep(w) \/ EvalDone(w) \/ Decide(w)
  \/ Finish(w)

Next ==
  \/ \E w \in Workers : Worker(w)
  \/ SyncCount \/ SyncUpdate \/ SyncEval

(* Every thread runs on, and a sync completes once all threads arrive.    *)
Fairness ==
  /\ \A w \in Workers : WF_vars(Worker(w))
  /\ WF_vars(SyncCount) /\ WF_vars(SyncUpdate) /\ WF_vars(SyncEval)

Spec == Init /\ [][Next]_vars /\ Fairness

-----------------------------------------------------------------------------
(***************************************************************************)
(* Properties.                                                             *)
(***************************************************************************)

(* The stopping test of spec section 4.4 on the i-th held-out error of a   *)
(* history h: exactly zero, or (after the first round) above the previous. *)
StopCond(h, i) == IsZero(h[i]) \/ (i > 1 /\ Greater(h[i], h[i - 1]))

(* Spec section 4.4: a thread that has left train_test has applied as many *)
(* update_param rounds as there are held-out errors, the first error that  *)
(* meets the stopping test ended training, and training only ran all      *)
(* iters rounds if none did.  (E.g. errors 0.5, 0.3, 0.4 stop after 3.)    *)
(* It is about the order of the test and pastError = currentError.         *)
EarlyStopRule ==
  \A w \in Workers : pc[w] = "done" =>
    /\ \A i \in 1 .. Len(hist) - 1 : ~StopCond(hist, i)
    /\ Len(hist) = Iters \/ StopCond(hist, Len(hist))

(* Every thread leaves train_test in the same round, so none is left    *)
(* waiting at a sync the others never reach.  Each thread decides on its  *)
(* own copy of pastError; they agree because every thread reads the same  *)
(* synced avg_error and updates its copy every round.  Once thread v has  *)
(* left, every thread w is in the round v left in (or, if w has yet to    *)
(* decide, is about to be): the round of its decision plus 1 if it goes   *)
(* on.                                                                      *)
StopAgreement ==
  \A v, w \in Workers : pc[v] = "done" =>
    /\ pc[w] \in {"loop", "decide", "done"}
    /\ pc[w] \in {"loop", "done"} => rnd[w] = rnd[v]
    /\ pc[w] = "decide" => rnd[v] = rnd[w] + (IF Breaks(w) THEN 0 ELSE 1)

(* Spec section 7: the average error of an empty set is 0 (or an error),   *)
(* never the undefined 0.0 / 0 that avg_error computes: every held-out     *)
(* error train_test compares is a number.                                  *)
AvgErrorDefined == \A i \in 1 .. Len(hist) : hist[i].den > 0

(* Every thread returns from train_test.                                   *)
Termination == <>(\A w \in Workers : pc[w] = "done")
=============================================================================
