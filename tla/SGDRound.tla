------------------------------ MODULE SGDRound ------------------------------
(***************************************************************************)
(* What one SVM::train<SGD> job computes, round by round, with the         *)
(* workers and the aggregator abstracted away: each round replaces the    *)
(* parameters P by AvgStep(P, Data).  Every worker runs plain sequential  *)
(* SGD over its own records from P (its current_vec); the new parameters  *)
(* are P, minus one L2 decay, plus every worker's displacement weighted   *)
(* by its share n_local / num_samples of the data (model averaging).      *)
(***************************************************************************)
EXTENDS SGDConfig

VARIABLES params, rounds

(* Sequential SGD over the records s from P: the sum of learning_rate *    *)
(* gradient over s, each gradient taken at the parameters reached so far. *)
LocalAcc(P, s) ==
  LET run[j \in 0 .. Len(s)] ==
        IF j = 0 THEN [cur |-> P, acc |-> Zero]
        ELSE LET g == SVMGrad(s[j], run[j - 1].cur, Total)
             IN  [cur |-> [i \in Idx |-> run[j - 1].cur[i] + LR * g[i] * Total],
                  acc |-> [i \in Idx |-> run[j - 1].acc[i] + LR * g[i]]]
  IN  run[Len(s)].acc

(* One round under the partition part: the decay of the regularizing      *)
(* worker 0, then the weighted displacements of all workers, in units of  *)
(* 1/Total (LocalAcc * Total * n_local / Total).                          *)
AvgStep(P, part) ==
  LET reg == IF RegOn THEN L2Delta(P) ELSE Zero
  IN  [i \in Idx |->
         P[i] + reg[i]
         + SumFunction([w \in DOMAIN part |->
                          Len(part[w]) * LocalAcc(P, part[w])[i]])]

Init ==
  /\ params = Zero
  /\ rounds = 0

Round ==
  /\ rounds < Iters
  /\ params' = AvgStep(params, Data)
  /\ rounds' = rounds + 1

Spec == Init /\ [][Round]_<<params, rounds>>
=============================================================================
