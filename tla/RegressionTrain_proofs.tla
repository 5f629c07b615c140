------------------------ MODULE RegressionTrain_proofs ------------------------
(***************************************************************************)
(* Proofs about RegressionTrain for every number of threads, every         *)
(* partition of the training set, every set of error values, every number *)
(* of rounds and either value of report_per_round.                         *)
(*                                                                         *)
(* RoundsRun is not inductive: it says nothing until a thread is done.     *)
(* Counted holds the count of update_param syncs against each thread's    *)
(* own round: the round counts the syncs the thread has passed and left   *)
(* the loop body for, and every sync needs every thread.                   *)
(*                                                                         *)
(* RoundError is not inductive either: it says nothing during the report. *)
(* RInv says what error_stat's channel holds at every moment: during the  *)
(* report, the errors of the records visited so far (those before k),     *)
(* counted as units of ErrorUnits; outside it, nothing.  The report's     *)
(* sync needs every thread at the end of its records, so the channel then *)
(* holds every unit, and nothing changes errs until the next update sync, *)
(* which needs every thread past the report.                               *)
(***************************************************************************)
EXTENDS RegressionTrain, FiniteSetTheorems, TLAPS

Counted(w) ==
  /\ pc[w] \in {"count", "cwait"} => rnd[w] = 0 /\ updates = 0
  /\ pc[w] \in {"loop", "uwait", "done"} => updates = rnd[w]
  /\ pc[w] \in {"report", "rwait", "next"} => updates = rnd[w] + 1
  /\ pc[w] \in {"uwait", "report", "rwait", "next"} => rnd[w] < Iters
  /\ pc[w] = "done" => rnd[w] >= Iters

IInv == TypeOK /\ \A w \in Workers : Counted(w)

(* Some thread is in the report's list_execute or at its sync.            *)
InReport == \E w \in Workers : pc[w] \in {"report", "rwait"}

(* The error units of the records the report's lambda has visited.        *)
Pending == {x \in ErrorUnits(errs) : x[1][2] < k[x[1][1]]}

(* Where a thread is in the report's pass over its records.               *)
ReportPlace(w) ==
  /\ k[w] \in 1 .. DataLen[w] + 1
  /\ pc[w] = "rwait" => k[w] = DataLen[w] + 1

(* error_stat's channel holds the errors of the records visited in this   *)
(* round's report, and is empty outside the report; after the report's    *)
(* sync, error_stat holds the errors of all records until the next update. *)
RInv ==
  /\ IInv
  /\ \A w \in Workers : ReportPlace(w)
  /\ InReport => /\ \A w \in Workers : pc[w] \in {"report", "rwait"}
                 /\ IsFiniteSet(Pending)
                 /\ statChan = Cardinality(Pending)
  /\ ~InReport => statChan = 0
  /\ (ReportPerRound /\ \E w \in Workers : pc[w] = "next") => stat = ErrorSum(errs)

USE WorkersAssumption, DataLenAssumption, ErrorValuesAssumption, ItersAssumption,
    ReportAssumption

-----------------------------------------------------------------------------
(* A record's error under any parameters is one of ErrorValues.            *)
LEMMA ErrsEntry ==
  ASSUME NEW e \in RoundErrors, NEW w \in Workers, NEW j \in 1 .. DataLen[w]
  PROVE  e[w][j] \in ErrorValues
<1>1. PICK u \in Workers : e[w] \in [1 .. DataLen[u] -> ErrorValues]
  BY DEF RoundErrors
<1>2. DOMAIN e[w] = 1 .. DataLen[w]
  BY DEF RoundErrors
<1>3. QED BY <1>1, <1>2

(* Some record errors exist: Init's CHOOSE picks one.                      *)
LEMMA RoundErrorsNonEmpty == (CHOOSE e \in RoundErrors : TRUE) \in RoundErrors
<1>. DEFINE x0 == CHOOSE x \in ErrorValues : TRUE
            e0 == [w \in Workers |-> [j \in 1 .. DataLen[w] |-> x0]]
<1>1. x0 \in ErrorValues
  OBVIOUS
<1>2. \A w \in Workers : e0[w] \in [1 .. DataLen[w] -> ErrorValues]
  BY <1>1
<1>3. e0 \in RoundErrors
  BY <1>2 DEF RoundErrors
<1>4. QED BY <1>3

-----------------------------------------------------------------------------
LEMMA InitIInv == Init => IInv
<1> SUFFICES ASSUME Init PROVE IInv
  OBVIOUS
<1>1. TypeOK
  BY RoundErrorsNonEmpty DEF Init, TypeOK
<1>2. \A w \in Workers : Counted(w)
  BY DEF Init, Counted
<1>3. QED BY <1>1, <1>2 DEF IInv

LEMMA NextIInv == IInv /\ [Next]_vars => IInv'
<1> SUFFICES ASSUME IInv, [Next]_vars PROVE IInv'
  OBVIOUS
<1>. USE DEF IInv
<1>1. ASSUME NEW u \in Workers, Count(u) PROVE IInv'
  BY <1>1 DEF Count, TypeOK, Counted
<1>2. CASE SyncCount
  BY <1>2 DEF SyncCount, TypeOK, Counted
<1>3. ASSUME NEW u \in Workers, Update(u) PROVE IInv'
  BY <1>3 DEF Update, TypeOK, Counted
<1>4. CASE SyncUpdate
  <2>1. \A w \in Workers : pc[w] = "uwait" /\ updates = rnd[w] /\ rnd[w] < Iters
    BY <1>4 DEF SyncUpdate, Counted
  <2>2. AfterUpdate \in {"report", "next"}
    BY DEF AfterUpdate
  <2>3. updates' = updates + 1 /\ UNCHANGED rnd
        /\ pc' = [w \in Workers |-> AfterUpdate]
    BY <1>4 DEF SyncUpdate
  <2>4. TypeOK'
    <3>1. updates + 1 \in 0 .. Iters
      BY <2>1 DEF TypeOK, Workers
    <3>2. QED BY <1>4, <2>2, <2>3, <3>1 DEF SyncUpdate, TypeOK
  <2>5. \A w \in Workers : Counted(w)'
    BY <2>1, <2>2, <2>3 DEF Counted
  <2>6. QED BY <2>4, <2>5
<1>5. ASSUME NEW u \in Workers, ReportStep(u) PROVE IInv'
  <2>1. errs[u][k[u]] \in Nat
    <3>1. k[u] \in 1 .. DataLen[u] /\ errs \in RoundErrors
      BY <1>5 DEF ReportStep, TypeOK
    <3>2. errs[u][k[u]] \in ErrorValues
      BY <3>1, ErrsEntry
    <3>3. QED BY <3>2
  <2>2. QED BY <1>5, <2>1 DEF ReportStep, TypeOK, Counted
<1>6. ASSUME NEW u \in Workers, ReportDone(u) PROVE IInv'
  BY <1>6 DEF ReportDone, TypeOK, Counted
<1>7. CASE SyncReport
  BY <1>7 DEF SyncReport, TypeOK, Counted
<1>8. ASSUME NEW u \in Workers, NextRound(u) PROVE IInv'
  BY <1>8 DEF NextRound, TypeOK, Counted
<1>9. ASSUME NEW u \in Workers, Finish(u) PROVE IInv'
  BY <1>9 DEF Finish, TypeOK, Counted
<1>10. CASE UNCHANGED vars
  BY <1>10 DEF vars, TypeOK, Counted
<1>11. QED BY <1>1, <1>2, <1>3, <1>4, <1>5, <1>6, <1>7, <1>8, <1>9, <1>10
           DEF Next, Worker

-----------------------------------------------------------------------------
(* An error unit is a record of some thread and one unit of its error.    *)
LEMMA UnitsMem ==
  ASSUME NEW e, NEW x
  PROVE  x \in ErrorUnits(e) <=>
           \E w \in Workers : \E j \in 1 .. DataLen[w] :
             \E m \in 1 .. e[w][j] : x = <<<<w, j>>, m>>
BY DEF ErrorUnits, Records

(* The units of one record with error n are n of them.                     *)
LEMMA ChunkCard ==
  ASSUME NEW r, NEW n \in Nat
  PROVE  /\ IsFiniteSet({r} \X (1 .. n))
         /\ Cardinality({r} \X (1 .. n)) = n
<1>1. IsFiniteSet({r}) /\ Cardinality({r}) = 1
  BY FS_Singleton
<1>2. IsFiniteSet(1 .. n) /\ Cardinality(1 .. n) = n
  BY FS_Interval
<1>3. QED BY <1>1, <1>2, FS_Product

(* A step of one thread outside the report's list_execute: the report's  *)
(* state and the channel stand still.                                      *)
LEMMA QuietStep ==
  ASSUME RInv, IInv', NEW u \in Workers,
         NEW p \in {"cwait", "uwait", "loop", "done"},
         pc[u] \notin {"report", "rwait"}, pc' = [pc EXCEPT ![u] = p],
         UNCHANGED <<k, errs, statChan, stat>>
  PROVE  RInv'
<1>1. pc \in [Workers -> {"count", "cwait", "loop", "uwait", "report", "rwait",
                          "next", "done"}]
  BY DEF RInv, IInv, TypeOK
<1>2. ~InReport /\ ~InReport'
  <2>1. ~InReport
    BY DEF RInv, InReport
  <2>2. QED BY <1>1, <2>1 DEF InReport
<1>3. \A w \in Workers : ReportPlace(w)'
  BY <1>1 DEF RInv, ReportPlace
<1>4. (\E w \in Workers : pc'[w] = "next") => \E w \in Workers : pc[w] = "next"
  BY <1>1
<1>5. QED BY <1>2, <1>3, <1>4 DEF RInv

(* The report's lambda on a record adds its error to the channel and its  *)
(* units to the visited ones.                                              *)
LEMMA ReportStepRInv ==
  ASSUME RInv, IInv', NEW u \in Workers, ReportStep(u)
  PROVE  RInv'
<1>. DEFINE n == errs[u][k[u]]
            C == {<<u, k[u]>>} \X (1 .. n)
<1>1. /\ pc[u] = "report" /\ k[u] \in 1 .. DataLen[u]
      /\ statChan' = statChan + n
      /\ k' = [k EXCEPT ![u] = k[u] + 1]
      /\ UNCHANGED <<pc, rnd, errs, stat, updates>>
  BY DEF ReportStep, RInv, ReportPlace
<1>2. /\ k \in [Workers -> Nat \ {0}] /\ errs \in RoundErrors /\ statChan \in Nat
  BY DEF RInv, IInv, TypeOK
<1>3. n \in Nat
  BY <1>1, <1>2, ErrsEntry
<1>4. InReport /\ InReport'
  BY <1>1 DEF InReport
<1>5. IsFiniteSet(Pending) /\ statChan = Cardinality(Pending)
  BY <1>4 DEF RInv
<1>6. Pending' = Pending \cup C
  <2>1. ASSUME NEW x \in ErrorUnits(errs)
        PROVE  x[1][2] < k'[x[1][1]] <=> x[1][2] < k[x[1][1]] \/ x \in C
    <3>1. PICK w \in Workers : \E j \in 1 .. DataLen[w] :
                                 \E m \in 1 .. errs[w][j] : x = <<<<w, j>>, m>>
      BY UnitsMem
    <3>2. PICK j \in 1 .. DataLen[w] : \E m \in 1 .. errs[w][j] : x = <<<<w, j>>, m>>
      BY <3>1
    <3>3. PICK m \in 1 .. errs[w][j] : x = <<<<w, j>>, m>>
      BY <3>2
    <3>4. QED BY <1>1, <1>2, <3>3
  <2>2. C \subseteq ErrorUnits(errs)
    BY <1>1, UnitsMem
  <2>3. QED BY <1>1, <2>1, <2>2 DEF Pending
<1>7. Pending \cap C = {}
  <2>1. SUFFICES ASSUME NEW x \in Pending, x \in C PROVE FALSE
    OBVIOUS
  <2>2. PICK m \in 1 .. n : x = <<<<u, k[u]>>, m>>
    BY <2>1
  <2>3. QED BY <1>2, <2>1, <2>2 DEF Pending
<1>8. IsFiniteSet(C) /\ Cardinality(C) = n
  BY <1>3, ChunkCard
<1>9. IsFiniteSet(Pending') /\ Cardinality(Pending') = Cardinality(Pending) + n
  <2>1. IsFiniteSet(Pending \cup C)
        /\ Cardinality(Pending \cup C)
             = Cardinality(Pending) + Cardinality(C) - Cardinality(Pending \cap C)
    BY <1>5, <1>8, FS_Union
  <2>2. Cardinality(Pending \cap C) = 0
    BY <1>7, FS_EmptySet
  <2>3. Cardinality(Pending) \in Nat
    BY <1>5, FS_CardinalityType
  <2>4. Cardinality(Pending \cup C) = Cardinality(Pending) + n
    BY <1>3, <1>8, <2>1, <2>2, <2>3
  <2>5. QED BY <1>6, <2>1, <2>4
<1>10. \A w \in Workers : ReportPlace(w)'
  BY <1>1, <1>2 DEF RInv, ReportPlace
<1>11. \A w \in Workers : pc'[w] \in {"report", "rwait"}
  BY <1>1, <1>4 DEF RInv
<1>12. ((ReportPerRound /\ \E w \in Workers : pc[w] = "next") => stat = ErrorSum(errs))'
  BY <1>1, <1>11
<1>13. QED BY <1>1, <1>4, <1>5, <1>9, <1>10, <1>11, <1>12 DEF RInv

(* A thread that has visited all its records waits at the report's sync.  *)
LEMMA ReportDoneRInv ==
  ASSUME RInv, IInv', NEW u \in Workers, ReportDone(u)
  PROVE  RInv'
<1>1. /\ pc[u] = "report" /\ k[u] > DataLen[u]
      /\ pc' = [pc EXCEPT ![u] = "rwait"]
      /\ UNCHANGED <<rnd, k, errs, statChan, stat, updates>>
  BY DEF ReportDone
<1>2. pc \in [Workers -> {"count", "cwait", "loop", "uwait", "report", "rwait",
                          "next", "done"}]
  BY DEF RInv, IInv, TypeOK
<1>3. InReport /\ InReport' /\ Pending' = Pending
  BY <1>1, <1>2 DEF InReport, Pending
<1>4. \A w \in Workers : ReportPlace(w)'
  BY <1>1, <1>2 DEF RInv, ReportPlace
<1>5. \A w \in Workers : pc'[w] \in {"report", "rwait"}
  BY <1>1, <1>2, <1>3 DEF RInv
<1>6. QED BY <1>1, <1>3, <1>4, <1>5 DEF RInv

(* The report's sync: every thread has visited all its records, so the    *)
(* channel holds the errors of the whole training set.                     *)
LEMMA SyncReportRInv ==
  ASSUME RInv, IInv', SyncReport
  PROVE  RInv'
<1>1. /\ \A w \in Workers : pc[w] = "rwait"
      /\ stat' = statChan /\ statChan' = 0
      /\ pc' = [w \in Workers |-> "next"]
      /\ UNCHANGED <<rnd, k, errs, updates>>
  BY DEF SyncReport
<1>2. InReport /\ ~InReport'
  <2>1. 0 \in Workers
    BY WorkersAssumption DEF Workers
  <2>2. QED BY <1>1, <2>1 DEF InReport
<1>3. \A w \in Workers : k[w] = DataLen[w] + 1
  BY <1>1 DEF RInv, ReportPlace
<1>4. Pending = ErrorUnits(errs)
  <2>1. ASSUME NEW x \in ErrorUnits(errs) PROVE x[1][2] < k[x[1][1]]
    <3>1. PICK w \in Workers : \E j \in 1 .. DataLen[w] :
                                 \E m \in 1 .. errs[w][j] : x = <<<<w, j>>, m>>
      BY UnitsMem
    <3>2. PICK j \in 1 .. DataLen[w] : \E m \in 1 .. errs[w][j] : x = <<<<w, j>>, m>>
      BY <3>1
    <3>3. PICK m \in 1 .. errs[w][j] : x = <<<<w, j>>, m>>
      BY <3>2
    <3>4. QED BY <1>3, <3>3
  <2>2. QED BY <2>1 DEF Pending
<1>5. stat' = ErrorSum(errs')
  <2>1. statChan = Cardinality(Pending)
    BY <1>2 DEF RInv
  <2>2. QED BY <1>1, <1>4, <2>1 DEF ErrorSum
<1>6. \A w \in Workers : ReportPlace(w)'
  BY <1>1 DEF RInv, ReportPlace
<1>7. QED BY <1>1, <1>2, <1>5, <1>6 DEF RInv

(* The update's sync: the errors change with the parameters, and with     *)
(* report_per_round every thread starts the report with an empty channel. *)
LEMMA SyncUpdateRInv ==
  ASSUME RInv, IInv', SyncUpdate
  PROVE  RInv'
<1>1. /\ \A w \in Workers : pc[w] = "uwait"
      /\ pc' = [w \in Workers |-> AfterUpdate]
      /\ k' = [w \in Workers |-> 1]
      /\ UNCHANGED <<rnd, statChan, stat>>
  BY DEF SyncUpdate
<1>2. ~InReport /\ statChan = 0
  BY <1>1 DEF RInv, InReport
<1>3. Pending' = {}
  <2>1. ASSUME NEW x \in ErrorUnits(errs'), x[1][2] < k'[x[1][1]] PROVE FALSE
    <3>1. PICK w \in Workers : \E j \in 1 .. DataLen[w] :
                                 \E m \in 1 .. errs'[w][j] : x = <<<<w, j>>, m>>
      BY UnitsMem
    <3>2. PICK j \in 1 .. DataLen[w] : \E m \in 1 .. errs'[w][j] : x = <<<<w, j>>, m>>
      BY <3>1
    <3>3. PICK m \in 1 .. errs'[w][j] : x = <<<<w, j>>, m>>
      BY <3>2
    <3>4. QED BY <1>1, <2>1, <3>3
  <2>2. QED BY <2>1 DEF Pending
<1>4. \A w \in Workers : ReportPlace(w)'
  BY <1>1, DataLenAssumption DEF ReportPlace, AfterUpdate
<1>5. CASE ReportPerRound
  <2>1. \A w \in Workers : pc'[w] = "report"
    BY <1>1, <1>5 DEF AfterUpdate
  <2>2. IsFiniteSet(Pending') /\ statChan' = Cardinality(Pending')
    BY <1>1, <1>2, <1>3, FS_EmptySet
  <2>3. InReport'
    <3>1. 0 \in Workers
      BY WorkersAssumption DEF Workers
    <3>2. QED BY <2>1, <3>1 DEF InReport
  <2>4. QED BY <1>4, <2>1, <2>2, <2>3 DEF RInv
<1>6. CASE ~ReportPerRound
  <2>1. \A w \in Workers : pc'[w] = "next"
    BY <1>1, <1>6 DEF AfterUpdate
  <2>2. ~InReport' /\ statChan' = 0
    BY <1>1, <1>2, <2>1 DEF InReport
  <2>3. QED BY <1>4, <1>6, <2>2 DEF RInv
<1>7. QED BY <1>5, <1>6

LEMMA InitRInv == Init => RInv
<1> SUFFICES ASSUME Init PROVE RInv
  OBVIOUS
<1>1. ~InReport /\ ~\E w \in Workers : pc[w] = "next"
  BY DEF Init, InReport
<1>2. \A w \in Workers : ReportPlace(w)
  BY DEF Init, ReportPlace
<1>3. QED BY <1>1, <1>2, InitIInv DEF RInv, Init

LEMMA NextRInv == RInv /\ [Next]_vars => RInv'
<1> SUFFICES ASSUME RInv, [Next]_vars PROVE RInv'
  OBVIOUS
<1>1. IInv'
  BY NextIInv DEF RInv
<1>2. ASSUME NEW u \in Workers, Count(u) PROVE RInv'
  BY <1>1, <1>2, QuietStep DEF Count
<1>3. ASSUME NEW u \in Workers, Update(u) PROVE RInv'
  BY <1>1, <1>3, QuietStep DEF Update
<1>4. ASSUME NEW u \in Workers, NextRound(u) PROVE RInv'
  BY <1>1, <1>4, QuietStep DEF NextRound
<1>5. ASSUME NEW u \in Workers, Finish(u) PROVE RInv'
  BY <1>1, <1>5, QuietStep DEF Finish
<1>6. ASSUME NEW u \in Workers, ReportStep(u) PROVE RInv'
  BY <1>1, <1>6, ReportStepRInv
<1>7. ASSUME NEW u \in Workers, ReportDone(u) PROVE RInv'
  BY <1>1, <1>7, ReportDoneRInv
<1>8. CASE SyncCount
  <2>1. ~InReport /\ ~InReport' /\ ~\E w \in Workers : pc'[w] = "next"
    BY <1>8 DEF SyncCount, InReport
  <2>2. QED BY <1>1, <1>8, <2>1 DEF SyncCount, RInv, ReportPlace
<1>9. CASE SyncUpdate
  BY <1>1, <1>9, SyncUpdateRInv
<1>10. CASE SyncReport
  BY <1>1, <1>10, SyncReportRInv
<1>11. CASE UNCHANGED vars
  BY <1>1, <1>11 DEF vars, RInv, InReport, Pending, ReportPlace, ErrorSum
<1>12. QED BY <1>2, <1>3, <1>4, <1>5, <1>6, <1>7, <1>8, <1>9, <1>10, <1>11
           DEF Next, Worker

-----------------------------------------------------------------------------
(* Type correctness of every reachable state of Regression::train: the    *)
(* round counters and the count of update_param syncs stay within iters.  *)
THEOREM TypeCorrect == Spec => []TypeOK
<1>1. IInv => TypeOK BY DEF IInv
<1>2. QED BY <1>1, InitIInv, NextIInv, PTL DEF Spec

(* Spec section 4.4, for every instance: however the threads interleave,  *)
(* a thread returns from Regression::train only after exactly iters       *)
(* update_param syncs (regression.hpp 72-90).                               *)
THEOREM RoundsCorrect == Spec => []RoundsRun
<1>1. IInv => RoundsRun
  BY DEF IInv, Counted, RoundsRun, TypeOK
<1>2. QED BY <1>1, InitIInv, NextIInv, PTL DEF Spec

(* Spec sections 4.3 step 5 and 6, for every instance: with               *)
(* report_per_round, the error error_stat holds when a thread leaves a     *)
(* round's report (regression.hpp 77-86) is the summed error of every     *)
(* training record under that round's updated parameters, counted once   *)
(* each and without earlier rounds' sums, however the threads interleave. *)
THEOREM RoundErrorCorrect == Spec => []RoundError
<1>1. RInv => RoundError
  BY DEF RInv, RoundError
<1>2. QED BY <1>1, InitRInv, NextRInv, PTL DEF Spec
=============================================================================
