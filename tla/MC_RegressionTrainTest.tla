----------------------- MODULE MC_RegressionTrainTest -----------------------
(* Instances of Regression::train_test for TLC.                            *)
EXTENDS RegressionTrainTest, TLC

(* One thread with two held-out records and one with none.               *)
MCTestLen == 0 :> 2 @@ 1 :> 0

(* No held-out records at all: avg_error divides 0.0 by 0.                *)
MCTestLenEmpty == 0 :> 0 @@ 1 :> 0
=============================================================================
