------------------------------ MODULE SVMFacts ------------------------------
(***************************************************************************)
(* Facts about the SVM functions of svm.hpp and svm_fgd.cpp that the       *)
(* proofs of the training loops rest on: on integer parameters they give   *)
(* integers.                                                               *)
(***************************************************************************)
EXTENDS SVMFunctions, TLAPS

(* dot_with_intcpt of an integer vector is an integer.                     *)
LEMMA DotType ==
  ASSUME NEW ex \in Example, NEW v \in [Idx -> Int]
  PROVE  DotWithIntcpt(v, ex) \in Int
BY DEF DotWithIntcpt, AsInt

(* The SVM gradient of a record, against any integer vector, is an integer *)
(* vector over the parameter indices.                                      *)
LEMMA SVMGradType ==
  ASSUME NEW ex \in Example, NEW v \in [Idx -> Int], NEW U \in Int
  PROVE  SVMGrad(ex, v, U) \in [Idx -> Int]
<1>1. [i \in Idx |-> IF i = Bias THEN ex.y ELSE ex.y * ex.x[i]] \in [Idx -> Int]
  <2>1. ASSUME NEW i \in Idx, i # Bias PROVE i \in Features
    BY <2>1, NumFeaturesAssumption DEF Idx, Bias, Features
  <2>2. ex.y \in Int /\ ex.x \in [Features -> Int]
    BY DEF Example, Labels
  <2>3. QED BY <2>1, <2>2
<1>2. Zero \in [Idx -> Int]
  BY DEF Zero
<1>3. QED BY <1>1, <1>2 DEF SVMGrad

(* The loss SVM::train reports for a record is an integer.                 *)
LEMMA ReportLossType ==
  ASSUME NEW ex \in Example, NEW v \in [Idx -> Int], NEW U \in Int
  PROVE  ReportLoss(ex, v, U) \in Int
<1>1. DotWithIntcpt(v, ex) \in Int
  BY DotType
<1>2. QED BY <1>1 DEF ReportLoss
=============================================================================
