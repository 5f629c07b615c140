--------------------- MODULE RegressionTrainTest_proofs ---------------------
(***************************************************************************)
(* Proofs about RegressionTrainTest for every number of threads, every     *)
(* split of the held-out set, every set of error values and every number   *)
(* of rounds.                                                              *)
(*                                                                         *)
(* StopAgreement is not inductive: it speaks only of finished threads.     *)
(* Lockstep describes how the threads of one job stand relative to each    *)
(* other between two syncs: threads in the same phase have the same round  *)
(* and the same pastError; a thread that has decided to go on sits one     *)
(* round ahead of those still deciding, with pastError = the avg_error     *)
(* they are deciding on, and that avg_error does not stop them.  Together  *)
(* with RoundBound (a thread past the loop test is in a round < iters)     *)
(* and the type invariant it is inductive.                                 *)
(*                                                                         *)
(* EarlyStopRule rests on HistInv, which ties each thread's round and     *)
(* pastError to the history of held-out errors.                           *)
(***************************************************************************)
EXTENDS RegressionTrainTest, TLAPS

(* A thread past the loop test is in a round the loop test allowed.        *)
RoundBound ==
  \A w \in Workers : pc[w] \in {"uwait", "eval", "ewait", "decide"} => rnd[w] < Iters

Same(v, w) == rnd[v] = rnd[w] /\ past[v] = past[w]

LockPair(v, w) ==
    /\ pc[v] \in {"count", "cwait"} => pc[w] \in {"count", "cwait"} /\ Same(v, w)
    /\ pc[v] \in {"eval", "ewait"} => pc[w] \in {"eval", "ewait"} /\ Same(v, w)
    /\ pc[v] = "decide" /\ pc[w] = "decide" => Same(v, w)
    /\ pc[v] \in {"loop", "uwait"} /\ pc[w] \in {"loop", "uwait"} => Same(v, w)
    /\ pc[v] = "decide" /\ pc[w] \in {"loop", "uwait"} =>
         ~Breaks(v) /\ rnd[w] = rnd[v] + 1 /\ past[w] = cur
    /\ pc[v] = "done" /\ pc[w] = "loop" => rnd[w] >= Iters
    /\ pc[v] = "done" /\ pc[w] = "decide" /\ ~Breaks(w) => rnd[v] >= Iters

Lockstep == \A v, w \in Workers : LockPair(v, w)

IInv == TypeOK /\ RoundBound /\ Lockstep /\ StopAgreement

USE WorkersAssumption, TestLenAssumption, ErrorValuesAssumption, ItersAssumption

Phases == {"count", "cwait", "loop", "uwait", "eval", "ewait", "decide", "done"}

-----------------------------------------------------------------------------
(* A record's held-out error under any parameters is one of ErrorValues.  *)
LEMMA ErrsEntry ==
  ASSUME NEW e \in TestErrors, NEW w \in Workers, NEW j \in 1 .. TestLen[w]
  PROVE  e[w][j] \in ErrorValues
<1>1. PICK u \in Workers : e[w] \in [1 .. TestLen[u] -> ErrorValues]
  BY DEF TestErrors
<1>2. DOMAIN e[w] = 1 .. TestLen[w]
  BY DEF TestErrors
<1>3. QED BY <1>1, <1>2

(* Some held-out errors exist: Init's CHOOSE picks one.                   *)
LEMMA TestErrorsNonEmpty == (CHOOSE e \in TestErrors : TRUE) \in TestErrors
<1>. DEFINE x0 == CHOOSE x \in ErrorValues : TRUE
            e0 == [w \in Workers |-> [j \in 1 .. TestLen[w] |-> x0]]
<1>1. x0 \in ErrorValues
  OBVIOUS
<1>2. \A w \in Workers : e0[w] \in [1 .. TestLen[w] -> ErrorValues]
  BY <1>1
<1>3. e0 \in TestErrors
  BY <1>2 DEF TestErrors
<1>4. QED BY <1>3

(* Breaks(w) reads only the round and pastError of w and the shared       *)
(* avg_error.                                                              *)
LEMMA BreaksSame ==
  ASSUME NEW v \in Workers, NEW w \in Workers, Same(v, w)
  PROVE  Breaks(v) = Breaks(w)
BY DEF Same, Breaks

LEMMA BreaksUnchanged ==
  ASSUME NEW w \in Workers, cur' = cur, rnd'[w] = rnd[w], past'[w] = past[w]
  PROVE  Breaks(w)' = Breaks(w)
BY DEF Breaks

-----------------------------------------------------------------------------
LEMMA InitIInv == Init => IInv
<1> SUFFICES ASSUME Init PROVE IInv
  OBVIOUS
<1>1. TypeOK
  BY TestErrorsNonEmpty DEF Init, TypeOK, Frac
<1>2. RoundBound
  BY DEF Init, RoundBound
<1>3. Lockstep
  BY DEF Init, Lockstep, LockPair, Same
<1>4. StopAgreement
  BY DEF Init, StopAgreement
<1>5. QED BY <1>1, <1>2, <1>3, <1>4 DEF IInv

LEMMA NextIInv == IInv /\ [Next]_vars => IInv'
<1> SUFFICES ASSUME IInv, [Next]_vars PROVE IInv'
  OBVIOUS
<1>. USE DEF IInv
<1>1. ASSUME NEW u \in Workers, Count(u) PROVE IInv'
  <2>1. TypeOK' BY <1>1 DEF Count, TypeOK
  <2>2. RoundBound' BY <1>1 DEF Count, RoundBound, TypeOK
  <2>3. Lockstep' BY <1>1 DEF Count, Lockstep, LockPair, Same, TypeOK, Breaks
  <2>4. StopAgreement' BY <1>1 DEF Count, StopAgreement, Lockstep, LockPair, TypeOK, Breaks
  <2>5. QED BY <2>1, <2>2, <2>3, <2>4
<1>2. CASE SyncCount
  <2>1. TypeOK' BY <1>2 DEF SyncCount, TypeOK
  <2>2. RoundBound' BY <1>2 DEF SyncCount, RoundBound
  <2>3. Lockstep' BY <1>2 DEF SyncCount, Lockstep, LockPair, Same, TypeOK, Breaks
  <2>4. StopAgreement' BY <1>2 DEF SyncCount, StopAgreement, Breaks
  <2>5. QED BY <2>1, <2>2, <2>3, <2>4
<1>3. ASSUME NEW u \in Workers, Update(u) PROVE IInv'
  <2>1. TypeOK' BY <1>3 DEF Update, TypeOK
  <2>2. RoundBound' BY <1>3 DEF Update, RoundBound, TypeOK
  <2>3. Lockstep' BY <1>3 DEF Update, Lockstep, LockPair, Same, TypeOK, Breaks
  <2>4. StopAgreement' BY <1>3 DEF Update, StopAgreement, Lockstep, LockPair, TypeOK, Breaks
  <2>5. QED BY <2>1, <2>2, <2>3, <2>4
<1>4. CASE SyncUpdate
  <2>1. TypeOK' BY <1>4 DEF SyncUpdate, TypeOK
  <2>2. RoundBound' BY <1>4 DEF SyncUpdate, RoundBound
  <2>3. Lockstep' BY <1>4 DEF SyncUpdate, Lockstep, LockPair, Same, TypeOK, Breaks
  <2>4. StopAgreement' BY <1>4 DEF SyncUpdate, StopAgreement, Breaks
  <2>5. QED BY <2>1, <2>2, <2>3, <2>4
<1>5. ASSUME NEW u \in Workers, EvalStep(u) PROVE IInv'
  <2>1. errs[u][k[u]] \in Nat
    <3>1. k[u] \in 1 .. TestLen[u] /\ errs \in TestErrors
      BY <1>5 DEF EvalStep, TypeOK
    <3>2. errs[u][k[u]] \in ErrorValues
      BY <3>1, ErrsEntry
    <3>3. QED BY <3>2
  <2>2. TypeOK' BY <1>5, <2>1 DEF EvalStep, TypeOK
  <2>3. RoundBound' BY <1>5 DEF EvalStep, RoundBound
  <2>4. Lockstep' BY <1>5 DEF EvalStep, Lockstep, LockPair, Same, Breaks
  <2>5. StopAgreement' BY <1>5 DEF EvalStep, StopAgreement, Lockstep, LockPair, Breaks
  <2>6. QED BY <2>2, <2>3, <2>4, <2>5
<1>6. ASSUME NEW u \in Workers, EvalDone(u) PROVE IInv'
  <2>1. TypeOK' BY <1>6 DEF EvalDone, TypeOK
  <2>2. RoundBound' BY <1>6 DEF EvalDone, RoundBound, TypeOK
  <2>3. Lockstep' BY <1>6 DEF EvalDone, Lockstep, LockPair, Same, TypeOK, Breaks
  <2>4. StopAgreement' BY <1>6 DEF EvalDone, StopAgreement, Lockstep, LockPair, TypeOK, Breaks
  <2>5. QED BY <2>1, <2>2, <2>3, <2>4
<1>7. CASE SyncEval
  <2>1. TypeOK' BY <1>7 DEF SyncEval, TypeOK, Frac
  <2>2. RoundBound' BY <1>7 DEF SyncEval, RoundBound
  <2>3. Lockstep' BY <1>7 DEF SyncEval, Lockstep, LockPair, Same, TypeOK, Breaks
  <2>4. StopAgreement' BY <1>7 DEF SyncEval, StopAgreement, Breaks
  <2>5. QED BY <2>1, <2>2, <2>3, <2>4
<1>8. ASSUME NEW u \in Workers, Decide(u) PROVE IInv'
  <2>1. \A w \in Workers \ {u} : Breaks(w)' = Breaks(w)
    BY <1>8, BreaksUnchanged DEF Decide, TypeOK
  (* Every other thread is deciding on the same inputs, has gone on, or   *)
  (* has left.                                                            *)
  <2>2. \A w \in Workers \ {u} : pc[w] \in {"loop", "uwait", "decide", "done"}
    BY <1>8 DEF Decide, Lockstep, LockPair, TypeOK
  <2>3. \A w \in Workers : pc[w] = "decide" => Breaks(w) = Breaks(u)
    BY <1>8, BreaksSame DEF Decide, Lockstep, LockPair
  <2>4. rnd[u] < Iters
    BY <1>8 DEF Decide, RoundBound
  <2>5. CASE Breaks(u)
    <3>1. /\ pc' = [pc EXCEPT ![u] = "done"]
          /\ UNCHANGED <<rnd, past, k, errs, errChan, cntChan, cur, hist>>
      BY <1>8, <2>5 DEF Decide
    <3>2. \A w \in Workers : pc[w] \notin {"loop", "uwait"}
      BY <1>8, <2>5 DEF Decide, Lockstep, LockPair
    <3>3. TypeOK' BY <3>1 DEF TypeOK
    <3>4. RoundBound' BY <3>1 DEF RoundBound, TypeOK
    <3>5. Lockstep'
      <4> SUFFICES ASSUME NEW v \in Workers, NEW w \in Workers PROVE LockPair(v, w)'
        BY DEF Lockstep
      <4>1. LockPair(v, w) /\ LockPair(w, v) /\ LockPair(v, u) /\ LockPair(u, w)
        BY DEF Lockstep
      <4>2. CASE v # u /\ w # u
        BY <2>1, <3>1, <4>1, <4>2 DEF LockPair, Same, TypeOK
      <4>3. CASE v = u
        BY <1>8, <2>1, <2>3, <2>5, <3>1, <3>2, <4>3 DEF Decide, LockPair, TypeOK
      <4>4. CASE w = u /\ v # u
        BY <1>8, <3>1, <4>1, <4>4 DEF Decide, LockPair, Same, TypeOK
      <4>5. QED BY <4>2, <4>3, <4>4
    <3>6. StopAgreement'
      <4> SUFFICES ASSUME NEW v \in Workers, NEW w \in Workers, pc'[v] = "done"
                   PROVE  /\ pc'[w] \in {"loop", "decide", "done"}
                          /\ pc'[w] \in {"loop", "done"} => rnd'[w] = rnd'[v]
                          /\ pc'[w] = "decide" =>
                               rnd'[v] = rnd'[w] + (IF Breaks(w)' THEN 0 ELSE 1)
        BY DEF StopAgreement
      <4>1. CASE v = u
        <5>1. CASE w = u
          BY <3>1, <4>1, <5>1 DEF TypeOK
        <5>2. CASE w # u /\ pc[w] = "done"
          <6>1. rnd[w] = rnd[u]
            BY <1>8, <2>5, <5>2 DEF Decide, StopAgreement, TypeOK
          <6>2. QED BY <3>1, <4>1, <5>2, <6>1 DEF TypeOK
        <5>3. CASE w # u /\ pc[w] = "decide"
          <6>1. rnd[w] = rnd[u] /\ Breaks(w)' = Breaks(w) /\ Breaks(w)
            BY <1>8, <2>1, <2>3, <2>5, <5>3 DEF Decide, Lockstep, LockPair, Same
          <6>2. QED BY <3>1, <4>1, <5>3, <6>1 DEF TypeOK
        <5>4. QED BY <2>2, <3>2, <5>1, <5>2, <5>3
      <4>2. CASE v # u /\ w = u
        BY <1>8, <2>5, <3>1, <4>2 DEF Decide, StopAgreement, TypeOK
      <4>3. CASE v # u /\ w # u
        BY <2>1, <3>1, <4>3 DEF StopAgreement, TypeOK
      <4>4. QED BY <4>1, <4>2, <4>3
    <3>7. QED BY <3>3, <3>4, <3>5, <3>6
  <2>6. CASE ~Breaks(u)
    <3>1. /\ pc' = [pc EXCEPT ![u] = "loop"]
          /\ rnd' = [rnd EXCEPT ![u] = rnd[u] + 1]
          /\ past' = [past EXCEPT ![u] = cur]
          /\ UNCHANGED <<k, errs, errChan, cntChan, cur, hist>>
      BY <1>8, <2>6 DEF Decide, TypeOK
    <3>2. \A w \in Workers : pc[w] \in {"loop", "uwait"} =>
            rnd[w] = rnd[u] + 1 /\ past[w] = cur
      BY <1>8 DEF Decide, Lockstep, LockPair
    <3>3. \A w \in Workers : pc[w] = "decide" => Same(u, w)
      BY <1>8 DEF Decide, Lockstep, LockPair
    <3>4. \A v \in Workers : pc[v] = "done" => rnd[v] = rnd[u] + 1 /\ rnd[v] >= Iters
      BY <1>8, <2>6 DEF Decide, StopAgreement, Lockstep, LockPair
    <3>5. TypeOK' BY <2>4, <3>1 DEF TypeOK
    <3>6. RoundBound' BY <3>1 DEF RoundBound, TypeOK
    <3>7. Lockstep'
      BY <2>1, <2>2, <2>3, <2>6, <3>1, <3>2, <3>3, <3>4 DEF Lockstep, LockPair, Same, TypeOK
    <3>8. StopAgreement'
      BY <2>1, <2>2, <2>6, <3>1, <3>4 DEF StopAgreement, TypeOK
    <3>9. QED BY <3>5, <3>6, <3>7, <3>8
  <2>7. QED BY <2>5, <2>6
<1>9. ASSUME NEW u \in Workers, Finish(u) PROVE IInv'
  <2>1. /\ pc' = [pc EXCEPT ![u] = "done"]
        /\ UNCHANGED <<rnd, past, k, errs, errChan, cntChan, cur, hist>>
        /\ pc[u] = "loop" /\ rnd[u] >= Iters
    BY <1>9 DEF Finish
  <2>2. \A w \in Workers : Breaks(w)' = Breaks(w)
    BY <2>1, BreaksUnchanged
  <2>3. \A w \in Workers : pc[w] \in {"loop", "decide", "done"}
    BY <2>1 DEF Lockstep, LockPair, RoundBound, Same, TypeOK
  <2>4. \A w \in Workers : pc[w] \in {"loop", "done"} => rnd[w] = rnd[u]
    BY <2>1 DEF Lockstep, LockPair, StopAgreement, Same
  <2>5. \A w \in Workers : pc[w] = "decide" => ~Breaks(w) /\ rnd[u] = rnd[w] + 1
    BY <2>1 DEF Lockstep, LockPair
  <2>6. TypeOK' BY <2>1 DEF TypeOK
  <2>7. RoundBound' BY <2>1 DEF RoundBound, TypeOK
  <2>8. Lockstep' BY <2>1, <2>2, <2>4 DEF Lockstep, LockPair, Same, TypeOK
  <2>9. StopAgreement' BY <2>1, <2>2, <2>3, <2>4, <2>5 DEF StopAgreement, TypeOK
  <2>10. QED BY <2>6, <2>7, <2>8, <2>9
<1>10. CASE UNCHANGED vars
  BY <1>10 DEF vars, TypeOK, RoundBound, Lockstep, LockPair, StopAgreement, Same, Breaks
<1>11. QED BY <1>1, <1>2, <1>3, <1>4, <1>5, <1>6, <1>7, <1>8, <1>9, <1>10
           DEF Next, Worker

-----------------------------------------------------------------------------
(***************************************************************************)
(* The history of held-out errors.  Between two avg_error syncs every      *)
(* thread's round counts the errors in the history, and a thread at        *)
(* "decide" is deciding on the last one; a thread's pastError is the      *)
(* error of its round.  No error but the last that a thread decides on    *)
(* meets the stopping test, since a thread only goes on when its           *)
(* decision, Breaks, is false, and Breaks is the stopping test on the     *)
(* history.                                                                *)
(***************************************************************************)
Continuing == {"count", "cwait", "loop", "uwait", "eval", "ewait"}

NoStopBefore(n) == \A i \in 1 .. n : ~StopCond(hist, i)

HistPair(w) ==
  /\ pc[w] \in {"count", "cwait"} => rnd[w] = 0
  /\ pc[w] \in Continuing => Len(hist) = rnd[w] /\ NoStopBefore(Len(hist))
  /\ pc[w] = "decide" =>
       /\ Len(hist) = rnd[w] + 1
       /\ cur = hist[Len(hist)]
       /\ NoStopBefore(Len(hist) - 1)
  /\ pc[w] \in {"loop", "uwait", "eval", "ewait", "decide"} /\ rnd[w] # 0 =>
       past[w] = hist[rnd[w]]
  /\ pc[w] = "done" =>
       NoStopBefore(Len(hist) - 1) /\ (Len(hist) = Iters \/ StopCond(hist, Len(hist)))

HistInv == \A w \in Workers : HistPair(w)

(* Appending an error leaves the stopping test on the earlier ones as it  *)
(* was.                                                                    *)
LEMMA AppendStop ==
  ASSUME NEW h \in Seq(Frac), NEW x \in Frac, NEW i \in 1 .. Len(h)
  PROVE  StopCond(Append(h, x), i) = StopCond(h, i)
<1>1. Append(h, x)[i] = h[i]
  OBVIOUS
<1>2. i > 1 => Append(h, x)[i - 1] = h[i - 1]
  OBVIOUS
<1>3. QED BY <1>1, <1>2 DEF StopCond

(* A deciding thread's Breaks is the stopping test on the last error.     *)
LEMMA BreaksStop ==
  ASSUME TypeOK, NEW w \in Workers, HistPair(w), pc[w] = "decide"
  PROVE  Breaks(w) = StopCond(hist, Len(hist))
<1>1. Len(hist) = rnd[w] + 1 /\ cur = hist[Len(hist)]
  BY DEF HistPair
<1>2. CASE rnd[w] = 0
  BY <1>1, <1>2 DEF Breaks, StopCond
<1>3. CASE rnd[w] # 0
  <2>1. past[w] = hist[rnd[w]] /\ rnd[w] = Len(hist) - 1 /\ Len(hist) > 1
    BY <1>1, <1>3 DEF HistPair, TypeOK
  <2>2. QED BY <1>1, <1>3, <2>1 DEF Breaks, StopCond
<1>4. QED BY <1>2, <1>3

LEMMA InitHist == Init => HistInv
BY DEF Init, HistInv, HistPair, Continuing, NoStopBefore

LEMMA NextHist == IInv /\ HistInv /\ [Next]_vars => HistInv'
<1> SUFFICES ASSUME IInv, HistInv, [Next]_vars PROVE HistInv'
  OBVIOUS
<1>. USE DEF IInv
<1>1. ASSUME NEW u \in Workers, Count(u) PROVE HistInv'
  BY <1>1 DEF Count, HistInv, HistPair, Continuing, NoStopBefore, TypeOK
<1>2. CASE SyncCount
  BY <1>2 DEF SyncCount, HistInv, HistPair, Continuing, NoStopBefore
<1>3. ASSUME NEW u \in Workers, Update(u) PROVE HistInv'
  BY <1>3 DEF Update, HistInv, HistPair, Continuing, NoStopBefore, TypeOK
<1>4. CASE SyncUpdate
  BY <1>4 DEF SyncUpdate, HistInv, HistPair, Continuing, NoStopBefore
<1>5. ASSUME NEW u \in Workers, EvalStep(u) PROVE HistInv'
  BY <1>5 DEF EvalStep, HistInv, HistPair, Continuing, NoStopBefore
<1>6. ASSUME NEW u \in Workers, EvalDone(u) PROVE HistInv'
  BY <1>6 DEF EvalDone, HistInv, HistPair, Continuing, NoStopBefore, TypeOK
<1>7. CASE SyncEval
  <2> DEFINE e == [num |-> errChan, den |-> cntChan]
  <2>1. e \in Frac /\ hist \in Seq(Frac)
    BY DEF TypeOK, Frac
  <2>2. hist' = Append(hist, e) /\ cur' = e
    BY <1>7 DEF SyncEval
  <2>3. \A i \in 1 .. Len(hist) : StopCond(hist', i) = StopCond(hist, i)
    BY <2>1, <2>2, AppendStop
  <2> SUFFICES ASSUME NEW w \in Workers PROVE HistPair(w)'
    BY DEF HistInv
  <2>4. pc[w] = "ewait" /\ pc'[w] = "decide" /\ rnd'[w] = rnd[w] /\ past'[w] = past[w]
    BY <1>7 DEF SyncEval
  <2>5. Len(hist) = rnd[w] /\ NoStopBefore(Len(hist))
    BY <2>4 DEF HistInv, HistPair, Continuing
  <2>6. rnd[w] # 0 => past[w] = hist[rnd[w]]
    BY <2>4 DEF HistInv, HistPair
  <2>7. Len(hist') = rnd'[w] + 1 /\ cur' = hist'[Len(hist')]
    BY <2>1, <2>2, <2>4, <2>5
  <2>8. \A i \in 1 .. Len(hist) : ~StopCond(hist', i)
    BY <2>3, <2>5 DEF NoStopBefore
  <2>11. (NoStopBefore(Len(hist) - 1))'
    BY <2>1, <2>2, <2>8 DEF NoStopBefore, StopCond, IsZero, Greater
  <2>9. rnd'[w] # 0 => past'[w] = hist'[rnd'[w]]
    BY <2>1, <2>2, <2>4, <2>5, <2>6 DEF TypeOK
  <2>10. QED BY <2>4, <2>7, <2>11, <2>9 DEF HistPair, Continuing
<1>8. ASSUME NEW u \in Workers, Decide(u) PROVE HistInv'
  <2>1. HistPair(u) /\ pc[u] = "decide"
    BY <1>8 DEF Decide, HistInv
  <2>2. Breaks(u) = StopCond(hist, Len(hist))
    BY <2>1, BreaksStop
  <2>3. \A w \in Workers \ {u} : HistPair(w)'
    BY <1>8 DEF Decide, HistInv, HistPair, Continuing, NoStopBefore, TypeOK
  <2>4. CASE Breaks(u)
    <3>1. pc'[u] = "done" /\ UNCHANGED <<hist, cur>>
      BY <1>8, <2>4 DEF Decide, TypeOK
    <3>2. NoStopBefore(Len(hist) - 1) /\ StopCond(hist, Len(hist))
      BY <2>1, <2>2, <2>4 DEF HistPair
    <3>3. HistPair(u)'
      BY <3>1, <3>2 DEF HistPair, Continuing, NoStopBefore
    <3>4. QED BY <2>3, <3>3 DEF HistInv
  <2>5. CASE ~Breaks(u)
    <3>1. /\ pc'[u] = "loop" /\ rnd'[u] = rnd[u] + 1 /\ past'[u] = cur
          /\ UNCHANGED <<hist, cur>>
      BY <1>8, <2>5 DEF Decide, TypeOK
    <3>2. Len(hist) = rnd[u] + 1 /\ cur = hist[Len(hist)]
      BY <2>1 DEF HistPair
    <3>3. NoStopBefore(Len(hist))
      BY <2>1, <2>2, <2>5 DEF HistPair, NoStopBefore
    <3>4. HistPair(u)'
      BY <3>1, <3>2, <3>3 DEF HistPair, Continuing, NoStopBefore, TypeOK
    <3>5. QED BY <2>3, <3>4 DEF HistInv
  <2>6. QED BY <2>4, <2>5
<1>9. ASSUME NEW u \in Workers, Finish(u) PROVE HistInv'
  <2>1. pc[u] = "loop" /\ pc'[u] = "done" /\ rnd[u] >= Iters
        /\ UNCHANGED <<rnd, past, hist, cur>>
    BY <1>9 DEF Finish, TypeOK
  <2>2. Len(hist) = rnd[u] /\ NoStopBefore(Len(hist))
    BY <2>1 DEF HistInv, HistPair, Continuing
  <2>3. Len(hist) = Iters /\ NoStopBefore(Len(hist) - 1)
    BY <2>1, <2>2 DEF TypeOK, NoStopBefore
  <2>4. HistPair(u)'
    BY <2>1, <2>3 DEF HistPair, Continuing, NoStopBefore, StopCond, IsZero, Greater
  <2>5. \A w \in Workers \ {u} : HistPair(w)'
    BY <1>9 DEF Finish, HistInv, HistPair, Continuing, NoStopBefore, TypeOK
  <2>6. QED BY <2>4, <2>5 DEF HistInv
<1>10. CASE UNCHANGED vars
  BY <1>10 DEF vars, HistInv, HistPair, Continuing, NoStopBefore
<1>11. QED BY <1>1, <1>2, <1>3, <1>4, <1>5, <1>6, <1>7, <1>8, <1>9, <1>10
           DEF Next, Worker

-----------------------------------------------------------------------------
(* Type correctness of every reachable state of Regression::train_test.   *)
THEOREM TypeCorrect == Spec => []TypeOK
<1>1. IInv => TypeOK BY DEF IInv
<1>2. QED BY <1>1, InitIInv, NextIInv, PTL DEF Spec

(* However the threads of a job interleave, and whatever held-out errors   *)
(* each round produces (NaN included), the threads of train_test take the *)
(* same early-stopping decision in the same round (regression.hpp         *)
(* 119-141): none is left waiting at a sync of update_param or avg_error  *)
(* that the others have left the loop without reaching.                    *)
THEOREM AgreementCorrect == Spec => []StopAgreement
<1>1. IInv => StopAgreement BY DEF IInv
<1>2. QED BY <1>1, InitIInv, NextIInv, PTL DEF Spec

(* Spec section 4.4, for every number of threads, held-out split, set of  *)
(* error values and rounds: when a thread leaves train_test, the history  *)
(* of held-out errors ends at the first error that is zero or above the   *)
(* one before it, or runs all iters rounds if there is none.  It rests on *)
(* the order regression.hpp 134-140 keeps: the test on pastError, then    *)
(* pastError = currentError.                                               *)
THEOREM EarlyStopCorrect == Spec => []EarlyStopRule
<1>1. Init => IInv /\ HistInv
  BY InitIInv, InitHist
<1>2. IInv /\ HistInv /\ [Next]_vars => IInv' /\ HistInv'
  BY NextIInv, NextHist
<1>3. HistInv => EarlyStopRule
  BY DEF HistInv, HistPair, NoStopBefore, EarlyStopRule
<1>4. QED BY <1>1, <1>2, <1>3, PTL DEF Spec
=============================================================================
