----------------------------- MODULE MC_HuskySGD -----------------------------
(***************************************************************************)
(* Model-checking instance of HuskySGD: three worker threads, two          *)
(* features plus the bias, two rounds, and a training set chosen so that   *)
(* records fall on both sides of the margin as the parameters move.       *)
(***************************************************************************)
EXTENDS HuskySGD, TLC

Ex(a, b, lab) == [x |-> (0 :> a @@ 1 :> b), y |-> lab]

(* Unequal partitions: worker 0 holds two records, worker 1 one, worker 2 *)
(* none (a worker with an empty partition still joins every sync).        *)
MCDataUneven ==
  (0 :> << Ex(1, 0, 1), Ex(0, 1, -1) >>
   @@ 1 :> << Ex(1, 1, -1) >>
   @@ 2 :> << >>)

(* Equal partitions of the same kind of records, two per worker.          *)
MCDataEven ==
  (0 :> << Ex(1, 0, 1), Ex(1, 0, 1) >>
   @@ 1 :> << Ex(0, 1, -1), Ex(1, 1, 1) >>)

(* The abstract round specification under the refinement mapping: the    *)
(* synced parameters are the abstract parameters, worker 0's loop counter *)
(* is the number of completed rounds.                                     *)
Abs == INSTANCE SGDRound WITH params <- param, rounds <- rnd[0]

(* The job implements the round specification: every channel sync moves  *)
(* the synced parameters by exactly one AvgStep (no contribution lost or  *)
(* applied twice, one decay per round, every gradient taken from the      *)
(* parameters of the round's start), and nothing else ever changes them.  *)
RoundRefinement == Abs!Spec

(* The whole training set in worker order, as one worker would hold it.   *)
AllData ==
  LET cat[j \in 0 .. NumWorkers] ==
        IF j = 0 THEN << >> ELSE cat[j - 1] \o Data[j - 1]
  IN  cat[NumWorkers]

(* Spec section 8, "scaling correctness": after one round over k equal    *)
(* partitions the parameters equal those of the same round run by a       *)
(* single worker holding all the data (update_param's scaling by          *)
(* num_local_samples / num_global_samples is meant to make them agree).   *)
ParallelEquivalence ==
  rnd[0] = 1 => param = Abs!AvgStep(Zero, 0 :> AllData)

(* Spec sections 4.3 and 5: every gradient of a round is evaluated        *)
(* against the snapshot taken at the start of the round, i.e. while a     *)
(* worker runs list_execute, the vector SGD::update_param passes to       *)
(* gradient_func_ is still the synced parameter vector.                   *)
GradientAgainstSnapshot ==
  \A w \in Workers : pc[w] = "grad" => cur[w] = param
=============================================================================
