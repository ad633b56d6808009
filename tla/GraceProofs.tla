---------------------------- MODULE GraceProofs ----------------------------
(***************************************************************************)
(* That a grace longer than a call's deadline spares every call in flight, *)
(* for any two such delays.                                                *)
(***************************************************************************)
EXTENDS Grace, TLAPS

USE DelaysAssumption, BoundsAssumption

LEMMA NeverIsNoInstant == Never \in Nat /\ Never \notin 0..MaxNow
  BY DEF Never

LEMMA StepTypeOK == TypeOK /\ [Next]_vars => TypeOK'
<1> SUFFICES ASSUME TypeOK, [Next]_vars PROVE TypeOK'
  OBVIOUS
<1> USE NeverIsNoInstant DEF TypeOK, Regs, Never
<1>1. CASE Tick
  BY <1>1 DEF Tick
<1>2. CASE Swap
  BY <1>2 DEF Swap
<1>3. ASSUME NEW c \in Calls, CallStep(c) PROVE TypeOK'
  <2>1. CASE LoadRegistry(c)
    BY <2>1 DEF LoadRegistry
  <2>2. CASE StartTimer(c)
    BY <2>2 DEF StartTimer
  <2>3. CASE CallEnds(c)
    BY <2>3 DEF CallEnds
  <2> QED
    BY <1>3, <2>1, <2>2, <2>3 DEF CallStep
<1>4. ASSUME NEW r \in Regs, GraceClose(r) PROVE TypeOK'
  <2>1. pc' \in [Calls -> {"idle", "preparing", "calling", "ended", "cut"}]
    BY <1>4 DEF GraceClose, CutOff
  <2> QED
    BY <1>4, <2>1 DEF GraceClose
<1>5. CASE UNCHANGED vars
  BY <1>5 DEF vars
<1> QED
  BY <1>1, <1>2, <1>3, <1>4, <1>5 DEF Next

\* Every variable has its type, for any number of calls, registries and instants.
THEOREM TypeCorrect == Spec => []TypeOK
<1>1. Init => TypeOK
  BY NeverIsNoInstant DEF Init, TypeOK, Regs, Never
<1> QED
  BY <1>1, StepTypeOK, PTL DEF Spec

LEMMA StepNotOverdue == TypeOK /\ NotOverdue /\ [Next]_vars => NotOverdue'
<1> SUFFICES ASSUME TypeOK, NotOverdue, [Next]_vars, NEW d \in Calls, pc'[d] = "calling"
             PROVE  now' <= started'[d] + CallTimeout
  BY DEF NotOverdue
<1> USE DEF TypeOK, NotOverdue
<1>1. CASE Tick
  BY <1>1 DEF Tick, Expired
<1>2. CASE Swap
  BY <1>2 DEF Swap
<1>3. ASSUME NEW c \in Calls, CallStep(c) PROVE now' <= started'[d] + CallTimeout
  BY <1>3 DEF CallStep, LoadRegistry, StartTimer, CallEnds
<1>4. ASSUME NEW r \in Regs, GraceClose(r) PROVE now' <= started'[d] + CallTimeout
  <2>1. pc[d] = "calling"
    BY <1>4 DEF GraceClose, CutOff
  <2> QED
    BY <1>4, <2>1 DEF GraceClose
<1>5. CASE UNCHANGED vars
  BY <1>5 DEF vars
<1> QED
  BY <1>1, <1>2, <1>3, <1>4, <1>5 DEF Next

\* The model of a deadline: time does not pass an expired round trip.
LEMMA NeverOverdue == Spec => []NotOverdue
<1>1. Init => NotOverdue
  BY DEF Init, NotOverdue
<1> QED
  BY <1>1, StepNotOverdue, TypeCorrect, PTL DEF Spec

\* Only the closer of a call's registry cuts it off, not before the grace is over.
LEMMA CutOffInTime ==
  ASSUME TypeOK, NotOverdue, [Next]_vars, NEW c \in Calls, pc[c] = "calling", pc'[c] = "cut"
  PROVE  started[c] >= retired[reg[c]] + GraceDelay - CallTimeout
<1> USE DEF TypeOK
<1>1. PICK r \in Regs : GraceClose(r)
  <2>1. ~Tick /\ ~Swap /\ ~UNCHANGED vars
    BY DEF Tick, Swap, vars
  <2>2. ASSUME NEW b \in Calls PROVE ~CallStep(b)
    BY DEF CallStep, LoadRegistry, StartTimer, CallEnds
  <2> QED
    BY <2>1, <2>2 DEF Next
<1>2. reg[c] = r
  BY <1>1 DEF GraceClose, CutOff
<1>3. now >= retired[r] + GraceDelay /\ retired[r] \in Nat
  BY <1>1 DEF GraceClose, Never
<1>4. now <= started[c] + CallTimeout
  BY DEF NotOverdue
<1> QED
  BY <1>2, <1>3, <1>4

\* A call in flight when its registry is replaced ends on the old connection, if the grace
\* is longer than its deadline: only one whose timer was set later can be cut off.
THEOREM InFlightCallsFinish == Spec => InFlightFinishes
<1>1. TypeOK /\ NotOverdue /\ [Next]_vars =>
        [\A c \in Calls : pc[c] = "calling" /\ pc'[c] = "cut" =>
           started[c] >= retired[reg[c]] + GraceDelay - CallTimeout]_vars
  BY CutOffInTime
<1> QED
  BY <1>1, TypeCorrect, NeverOverdue, PTL DEF Spec, InFlightFinishes

\* What the comment promises follows for a call that set its timer before the swap.
THEOREM TimerBeforeSwapIsSafe ==
  ASSUME TypeOK, NotOverdue, [Next]_vars, NEW c \in Calls, pc[c] = "calling",
         started[c] <= retired[reg[c]]
  PROVE  pc'[c] # "cut"
<1> SUFFICES ASSUME pc'[c] = "cut" PROVE FALSE
  OBVIOUS
<1>1. started[c] >= retired[reg[c]] + GraceDelay - CallTimeout
  BY CutOffInTime
<1>2. started[c] \in Nat /\ retired[reg[c]] \in Nat
  BY DEF TypeOK, Never
<1> QED
  BY <1>1, <1>2
=============================================================================
