---------------------------- MODULE MC_SVMExample ----------------------------
(* Instances of the svm.cpp driver for TLC.                                 *)
EXTENDS SVMExample, MC_HuskySGD

(* Test records: after two rounds on MCDataUneven the parameters are       *)
(* w = (2, -2) / 3 and b = 0, so ((1, 1), +1) lies on the boundary and     *)
(* ((1, 0), -1) is misclassified; thread 2 holds none.                     *)
MCTest == 0 :> << Ex(1, 1, 1) >> @@ 1 :> << Ex(1, 0, -1) >> @@ 2 :> << >>
=============================================================================
