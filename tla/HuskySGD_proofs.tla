--------------------------- MODULE HuskySGD_proofs ---------------------------
(***************************************************************************)
(* Proofs about HuskySGD for every number of workers and features, every  *)
(* partition of the training set, every number of rounds and every        *)
(* learning rate and decay.                                                *)
(*                                                                         *)
(* TypeOK is not inductive on its own: SyncRound increments every         *)
(* worker's round counter, which stays in 0 .. Iters only because a       *)
(* worker waits at the sync only after StartRound checked round <         *)
(* num_iters.  RoundBound records that; IInv conjoins it with TypeOK and  *)
(* LocalContribution, which is inductive relative to both.                *)
(***************************************************************************)
EXTENDS HuskySGD, SVMFacts, TLAPS

(* A worker inside update_param is in a round that the loop test allowed. *)
RoundBound == \A w \in Workers : pc[w] \in {"grad", "wait"} => rnd[w] < Iters

IInv == TypeOK /\ RoundBound /\ LocalContribution

USE NumFeaturesAssumption, WorkersAssumption, DataAssumption, ItersAssumption,
    LRAssumption, RegAssumption, ReportAssumption, TotalAssumption

-----------------------------------------------------------------------------
(* A worker's records are examples and its record count is a natural.     *)
LEMMA DataFacts ==
  ASSUME NEW w \in Workers
  PROVE  /\ Data[w] \in Seq(Example)
         /\ Len(Data[w]) \in Nat
         /\ \A j \in 1 .. Len(Data[w]) : Data[w][j] \in Example
BY DEF Workers

LEMMA RegularizeType ==
  ASSUME NEW w \in Workers, NEW P \in [Idx -> Int]
  PROVE  Regularize(w, P) \in [Idx -> Int]
BY DEF Regularize, L2Delta, Zero

LEMMA RegularizeEntry ==
  ASSUME NEW w \in Workers, NEW P \in [Idx -> Int], NEW i \in Idx
  PROVE  Regularize(w, P)[i] \in Int
BY RegularizeType

-----------------------------------------------------------------------------
LEMMA InitIInv == Init => IInv
<1> SUFFICES ASSUME Init PROVE IInv
  OBVIOUS
<1>1. TypeOK
  BY DEF Init, TypeOK, Phases, Zero
<1>2. RoundBound
  BY DEF Init, RoundBound
<1>3. LocalContribution
  BY DEF Init, LocalContribution
<1>4. QED BY <1>1, <1>2, <1>3 DEF IInv

LEMMA NextIInv == IInv /\ [Next]_vars => IInv'
<1> SUFFICES ASSUME IInv, [Next]_vars PROVE IInv'
  OBVIOUS
<1>. USE DEF IInv
<1>1. ASSUME NEW w \in Workers, Count(w) PROVE IInv'
  <2>1. TypeOK' BY <1>1 DEF Count, TypeOK, Phases
  <2>2. RoundBound' BY <1>1 DEF Count, RoundBound, TypeOK
  <2>3. LocalContribution' BY <1>1 DEF Count, LocalContribution, TypeOK
  <2>4. QED BY <2>1, <2>2, <2>3
<1>2. ASSUME NEW w \in Workers, StartRound(w) PROVE IInv'
  <2>1. TypeOK'
    BY <1>2, RegularizeType DEF StartRound, TypeOK, Phases
  <2>2. RoundBound'
    BY <1>2 DEF StartRound, RoundBound, TypeOK
  <2>3. LocalContribution'
    <3>1. SUFFICES ASSUME NEW v \in Workers, pc'[v] = "grad", NEW i \in Idx
                   PROVE  Total * (buf'[v][i] - Regularize(v, param')[i])
                            = Len(Data[v]) * (cur'[v][i] - param'[i])
      BY DEF LocalContribution
    <3>2. CASE v = w
      <4>1. cur'[w] = param /\ buf'[w] = Regularize(w, param) /\ param' = param
        BY <1>2 DEF StartRound, TypeOK
      <4>2. param \in [Idx -> Int]
        BY DEF TypeOK
      <4>3. param[i] \in Int /\ Regularize(w, param)[i] \in Int /\ Len(Data[w]) \in Nat
        BY <4>2, RegularizeEntry, DataFacts
      <4>4. QED BY <3>2, <4>1, <4>3
    <3>3. CASE v # w
      <4>1. /\ pc'[v] = pc[v] /\ buf'[v] = buf[v] /\ cur'[v] = cur[v]
            /\ param' = param
        BY <1>2, <3>3 DEF StartRound, TypeOK
      <4>2. QED BY <3>1, <4>1 DEF LocalContribution
    <3>4. QED BY <3>2, <3>3
  <2>4. QED BY <2>1, <2>2, <2>3
<1>3. ASSUME NEW w \in Workers, GradStep(w) PROVE IInv'
  <2>. DEFINE g == SVMGrad(Data[w][k[w]], cur[w], Total)
  <2>1. g \in [Idx -> Int]
    <3>1. k[w] \in 1 .. Len(Data[w])
      BY <1>3 DEF GradStep, TypeOK
    <3>2. Data[w][k[w]] \in Example
      BY <3>1, DataFacts
    <3>3. cur[w] \in [Idx -> Int] /\ Total \in Int
      BY DEF TypeOK
    <3>4. QED BY <3>2, <3>3, SVMGradType
  <2>2. /\ cur' = [cur EXCEPT ![w] = [i \in Idx |-> cur[w][i] + LR * g[i] * Total]]
        /\ buf' = [buf EXCEPT ![w] = [i \in Idx |-> buf[w][i] + LR * g[i] * Len(Data[w])]]
        /\ k' = [k EXCEPT ![w] = k[w] + 1]
        /\ UNCHANGED <<pc, rnd, chan, param, lossChan, loss>>
    BY <1>3 DEF GradStep, TypeOK
  <2>3. TypeOK'
    BY <2>1, <2>2, DataFacts DEF TypeOK
  <2>4. RoundBound'
    BY <2>2 DEF RoundBound
  <2>5. LocalContribution'
    <3>1. SUFFICES ASSUME NEW v \in Workers, pc'[v] = "grad", NEW i \in Idx
                   PROVE  Total * (buf'[v][i] - Regularize(v, param')[i])
                            = Len(Data[v]) * (cur'[v][i] - param'[i])
      BY DEF LocalContribution
    <3>2. CASE v = w
      <4>1. Total * (buf[w][i] - Regularize(w, param)[i])
              = Len(Data[w]) * (cur[w][i] - param[i])
        BY <2>2, <3>1, <3>2 DEF LocalContribution
      <4>2. /\ buf[w][i] \in Int /\ cur[w][i] \in Int /\ param \in [Idx -> Int]
            /\ g[i] \in Int /\ Len(Data[w]) \in Nat
        BY <2>1, DataFacts DEF TypeOK
      <4>3. /\ Total \in Int /\ Len(Data[w]) \in Int /\ buf[w][i] \in Int
            /\ cur[w][i] \in Int /\ param[i] \in Int
            /\ Regularize(w, param)[i] \in Int /\ LR * g[i] \in Int
        <5>1. param[i] \in Int /\ Regularize(w, param)[i] \in Int
          BY <4>2, RegularizeEntry
        <5>2. QED BY <4>2, <5>1
      <4>4. /\ buf'[w][i] = buf[w][i] + LR * g[i] * Len(Data[w])
            /\ cur'[w][i] = cur[w][i] + LR * g[i] * Total
            /\ param' = param
        BY <2>2 DEF TypeOK
      (* The arithmetic on fresh integers, without the function terms.    *)
      <4>5. PICK T0, n0, b0, c0, p0, D0, d0 \in Int :
              /\ T0 = Total /\ n0 = Len(Data[w])
              /\ b0 = buf[w][i] /\ c0 = cur[w][i] /\ p0 = param[i]
              /\ D0 = Regularize(w, param)[i] /\ d0 = LR * g[i]
        BY <4>3, Zenon
      <4>6. T0 * (b0 - D0) = n0 * (c0 - p0)
        BY <4>1, <4>5
      <4>7. T0 \in Int /\ n0 \in Int /\ b0 \in Int /\ c0 \in Int /\ p0 \in Int
            /\ D0 \in Int /\ d0 \in Int
        BY <4>5
      <4>8. T0 * ((b0 + d0 * n0) - D0) = n0 * ((c0 + d0 * T0) - p0)
        BY ONLY <4>6, <4>7
      <4>9. QED BY <3>2, <4>4, <4>5, <4>8
    <3>3. CASE v # w
      <4>1. /\ pc'[v] = pc[v] /\ buf'[v] = buf[v] /\ cur'[v] = cur[v]
            /\ param' = param
        BY <2>2, <3>3 DEF TypeOK
      <4>2. QED BY <3>1, <4>1 DEF LocalContribution
    <3>4. QED BY <3>2, <3>3
  <2>6. QED BY <2>3, <2>4, <2>5
<1>4. ASSUME NEW w \in Workers, Contribute(w) PROVE IInv'
  <2>1. TypeOK'
    BY <1>4 DEF Contribute, TypeOK, Phases, Plus, Zero
  <2>2. RoundBound'
    BY <1>4 DEF Contribute, RoundBound, TypeOK
  <2>3. LocalContribution'
    BY <1>4 DEF Contribute, LocalContribution, TypeOK
  <2>4. QED BY <2>1, <2>2, <2>3
<1>5. ASSUME NEW w \in Workers, Finish(w) PROVE IInv'
  <2>1. TypeOK' BY <1>5 DEF Finish, TypeOK, Phases
  <2>2. RoundBound' BY <1>5 DEF Finish, RoundBound, TypeOK
  <2>3. LocalContribution' BY <1>5 DEF Finish, LocalContribution, TypeOK
  <2>4. QED BY <2>1, <2>2, <2>3
<1>10. ASSUME NEW w \in Workers, ReportStep(w) PROVE IInv'
  <2>1. ReportLoss(Data[w][k[w]], param, Total) \in Int
    <3>1. k[w] \in 1 .. Len(Data[w])
      BY <1>10 DEF ReportStep, TypeOK
    <3>2. Data[w][k[w]] \in Example
      BY <3>1, DataFacts
    <3>3. param \in [Idx -> Int] /\ Total \in Int
      BY DEF TypeOK
    <3>4. QED BY <3>2, <3>3, ReportLossType, Zenon
  <2>2. TypeOK' BY <1>10, <2>1 DEF ReportStep, TypeOK
  <2>3. RoundBound' BY <1>10 DEF ReportStep, RoundBound, TypeOK
  <2>4. LocalContribution' BY <1>10 DEF ReportStep, LocalContribution, TypeOK
  <2>5. QED BY <2>2, <2>3, <2>4
<1>11. ASSUME NEW w \in Workers, ReportDone(w) PROVE IInv'
  <2>1. TypeOK' BY <1>11 DEF ReportDone, TypeOK, Phases
  <2>2. RoundBound' BY <1>11 DEF ReportDone, RoundBound, TypeOK
  <2>3. LocalContribution' BY <1>11 DEF ReportDone, LocalContribution, TypeOK
  <2>4. QED BY <2>1, <2>2, <2>3
<1>12. CASE SyncReport
  <2>1. TypeOK' BY <1>12 DEF SyncReport, TypeOK, Phases
  <2>2. RoundBound' BY <1>12 DEF SyncReport, RoundBound
  <2>3. LocalContribution' BY <1>12 DEF SyncReport, LocalContribution
  <2>4. QED BY <2>1, <2>2, <2>3
<1>6. CASE SyncCount
  <2>1. TypeOK' BY <1>6 DEF SyncCount, TypeOK, Phases
  <2>2. RoundBound' BY <1>6 DEF SyncCount, RoundBound
  <2>3. LocalContribution' BY <1>6 DEF SyncCount, LocalContribution
  <2>4. QED BY <2>1, <2>2, <2>3
<1>7. CASE SyncRound
  <2>1. \A w \in Workers : rnd[w] < Iters
    BY <1>7 DEF SyncRound, RoundBound
  <2>2. TypeOK'
    BY <1>7, <2>1 DEF SyncRound, TypeOK, Phases, Plus, Zero
  <2>3. RoundBound' BY <1>7 DEF SyncRound, RoundBound
  <2>4. LocalContribution' BY <1>7 DEF SyncRound, LocalContribution
  <2>5. QED BY <2>2, <2>3, <2>4
<1>8. CASE UNCHANGED vars
  BY <1>8 DEF vars, TypeOK, RoundBound, LocalContribution
<1>9. QED BY <1>1, <1>2, <1>3, <1>4, <1>5, <1>6, <1>7, <1>8, <1>10, <1>11,
              <1>12 DEF Next, Worker

-----------------------------------------------------------------------------
(* Once a thread has returned from SVM::train, the channel sync of a      *)
(* round, which needs every thread at the sync, cannot happen, and no     *)
(* other step of any thread changes param.                                 *)
LEMMA FrozenStep == [Next]_vars =>
                      ((\E w \in Workers : pc[w] = "done") => param' = param)
<1> SUFFICES ASSUME [Next]_vars, NEW u \in Workers, pc[u] = "done"
             PROVE  param' = param
  OBVIOUS
<1>1. ~SyncRound
  (* The sync needs u at "wait", but u has returned.                       *)
  BY DEF SyncRound
<1>2. QED BY <1>1 DEF Next, Worker, Count, SyncCount, StartRound, GradStep,
                      Contribute, ReportStep, ReportDone, SyncReport, Finish, vars

-----------------------------------------------------------------------------
(* Type correctness of every reachable state of SVM::train<SGD>.          *)
THEOREM TypeCorrect == Spec => []TypeOK
<1>1. IInv => TypeOK BY DEF IInv
<1>2. QED BY <1>1, InitIInv, NextIInv, PTL DEF Spec

(* The contribution a worker sends to the aggregator channel is always    *)
(* its local SGD displacement weighted by n_local / num_samples plus, on  *)
(* worker 0 only, one L2 decay of the synced parameters (sgd.hpp 46-74, *)
(* svm.hpp 91-94), whatever the interleaving of the workers.              *)
THEOREM ContributionCorrect == Spec => []LocalContribution
<1>1. IInv => LocalContribution BY DEF IInv
<1>2. QED BY <1>1, InitIInv, NextIInv, PTL DEF Spec
=============================================================================
