------------------------------ MODULE FGDRound ------------------------------
(***************************************************************************)
(* What one round of svm_fgd.cpp's full gradient descent promises: the     *)
(* parameters move by one decaying step along the regularized hinge-loss   *)
(* subgradient of the WHOLE training set, whatever its partition.          *)
(*                                                                         *)
(* Values are exact: a parameter vector params stands for params / den.    *)
(* Round i (from 0) uses eta = 1 / (i + 1), and the new denominator is     *)
(* den * (i + 1) * N, where N is the number of records, so every term of   *)
(* the step is an integer in the new units:                                *)
(*   w - eta * w           ->  params * (i + 1) * N - params * N  (weights) *)
(*   eta * C * y * x / N   ->  C * den * y * x   (records within the margin) *)
(***************************************************************************)
EXTENDS SVMFunctions, Sequences, Functions

CONSTANTS
  Records, \* the training set, in any order
  Iters,   \* n_iter
  Penalty  \* C, the penalty

VARIABLES params, den, rounds

N == Len(Records)

(* The unit change of round i: the step eta = 1 / (i + 1) and the 1 / N.   *)
Scale(i) == (i + 1) * N

(* The decay -eta * w of the weights (not the bias), in the new units.     *)
Decay(P) == [i \in Idx |-> IF i < NumFeatures THEN -(P[i] * N) ELSE 0]

(* One round from parameters P / D in round i.                             *)
FullStep(P, D, i) ==
  [f \in Idx |->
     P[f] * Scale(i) + Decay(P)[f]
       + Penalty * D * SumFunction([j \in 1 .. N |-> SVMGrad(Records[j], P, D)[f]])]

Init == params = Zero /\ den = 1 /\ rounds = 0

Round ==
  /\ rounds < Iters
  /\ params' = FullStep(params, den, rounds)
  /\ den' = den * Scale(rounds)
  /\ rounds' = rounds + 1

Spec == Init /\ [][Round]_<<params, den, rounds>>
=============================================================================
