-------------------------- MODULE MC_RegressionTrain --------------------------
(* Instances of Regression::train for TLC.                                  *)
EXTENDS RegressionTrain, TLC

(* Two training records on thread 0 and one on thread 1.                   *)
MCDataLen == 0 :> 2 @@ 1 :> 1
=============================================================================
