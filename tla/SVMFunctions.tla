---------------------------- MODULE SVMFunctions ----------------------------
(***************************************************************************)
(* The pluggable functions SVM<...> installs in its Model (svm.hpp): the   *)
(* hinge-loss subgradient gradient_func_ and the misclassification         *)
(* indicator error_func_.                                                  *)
(*                                                                         *)
(* Parameters are indexed 0 .. NumFeatures: 0 .. NumFeatures-1 are the     *)
(* weights w, NumFeatures is the bias b (SVM(n) builds a Model with n + 1  *)
(* parameters and dot_with_intcpt adds the last one as the intercept).     *)
(*                                                                         *)
(* Parameter values are exact integers in units of 1/Unit: a vector v     *)
(* stands for the real vector v / Unit.  Features and labels are real      *)
(* integers.  Floating-point rounding of the code is abstracted away.      *)
(***************************************************************************)
EXTENDS Integers

CONSTANT NumFeatures
ASSUME NumFeaturesAssumption == NumFeatures \in Nat

Idx == 0 .. NumFeatures          \* parameter indices
Bias == NumFeatures              \* index of the intercept b
Features == 0 .. NumFeatures - 1 \* indices of the weights w
Labels == {-1, 1}
Zero == [i \in Idx |-> 0]        \* Vector<FeatureT>(0) / a fresh aggregate

(* A labelled point: features x (only the weight block) and label y.       *)
Example == [x : [Features -> Int], y : Labels]

(* The identity on integers.  The sums below are integers; wrapping them   *)
(* in AsInt states so in a form the prover can use without an induction.  *)
AsInt(n) == IF n \in Int THEN n ELSE 0

(* param.dot_with_intcpt(X): w . x + b, in the units of v.                *)
DotWithIntcpt(v, ex) ==
  LET s[j \in 0 .. NumFeatures] ==
        IF j = 0 THEN v[Bias] ELSE s[j - 1] + v[j - 1] * ex.x[j - 1]
  IN  AsInt(s[NumFeatures])

(* gradient_func_ of SVM: if y (w . x + b) < 1 the point lies within the  *)
(* margin and the gradient is (y x, y); otherwise it is the zero vector.  *)
(* v is in units of 1/Unit, so "< 1" is "< Unit"; the result is in real   *)
(* units.                                                                  *)
SVMGrad(ex, v, Unit) ==
  IF ex.y * DotWithIntcpt(v, ex) < Unit
  THEN [i \in Idx |-> IF i = Bias THEN ex.y ELSE ex.y * ex.x[i]]
  ELSE Zero

(* The per-record loss SVM::train adds to loss_agg when report_per_round: *)
(* prod = b + w . x, and 1 - prod is added when prod < 1.  In units of    *)
(* 1/Unit like v.                                                          *)
ReportLoss(ex, v, Unit) ==
  LET prod == DotWithIntcpt(v, ex)
  IN  IF prod < Unit THEN Unit - prod ELSE 0

(* The hinge loss max(0, 1 - y (w . x + b)) of a record, as svm_fgd.cpp    *)
(* adds it to loss_agg (prod = y (w . x + b) there), in units of 1/Unit.   *)
HingeLoss(ex, v, Unit) ==
  LET prod == ex.y * DotWithIntcpt(v, ex)
  IN  IF prod < Unit THEN Unit - prod ELSE 0

(* error_func_ of SVM: 1 when y (w . x + b) <= 0, the boundary 0 included. *)
SVMError(ex, v) == IF ex.y * DotWithIntcpt(v, ex) <= 0 THEN 1 ELSE 0
=============================================================================
