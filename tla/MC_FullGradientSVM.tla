------------------------- MODULE MC_FullGradientSVM -------------------------
(* Instances of svm_fgd.cpp for TLC, and its refinement of FGDRound.       *)
EXTENDS FullGradientSVM, TLC

Ex(a, b, lab) == [x |-> (0 :> a @@ 1 :> b), y |-> lab]

(* Three training records split 2 / 1 / 0 over three threads.             *)
MCData == 0 :> <<Ex(1, 0, 1), Ex(0, 1, -1)>> @@ 1 :> <<Ex(1, 1, -1)>> @@ 2 :> <<>>

(* Test records, one per thread but the last.                              *)
MCTest == 0 :> <<Ex(1, 1, 1)>> @@ 1 :> <<Ex(1, -1, -1)>> @@ 2 :> <<>>

(* As MCTest, plus a record that the parameters trained on MCData in two  *)
(* rounds, w = (3, -6) / 18 and b = -3 / 18, put exactly on the boundary.  *)
MCTestBoundary == 0 :> <<Ex(1, 1, 1)>> @@ 1 :> <<Ex(1, -1, -1)>> @@ 2 :> <<Ex(1, 0, 1)>>

(* The training set in thread order.                                       *)
AllData ==
  LET cat[n \in 0 .. NumWorkers] ==
        IF n = 0 THEN <<>> ELSE cat[n - 1] \o Data[n - 1]
  IN  cat[NumWorkers]

Abs == INSTANCE FGDRound WITH Records <- AllData, params <- param, rounds <- rnd[0]

(* Whatever the partition and the interleaving of the threads, each round  *)
(* of svm_fgd's training loop is one full-gradient step over the whole     *)
(* training set (FGDRound): the per-thread updates, scaled by             *)
(* 1 / num_samples and taken against the round's bweight snapshot, and     *)
(* thread 0's decay of the weights add up to the single-pass step.         *)
FGDRefinement == Abs!Spec
=============================================================================
