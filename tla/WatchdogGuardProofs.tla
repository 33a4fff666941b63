------------------------- MODULE WatchdogGuardProofs -------------------------
(***************************************************************************)
(* Proofs about WatchdogGuard, for every width of the counters, timeout,   *)
(* poll gap and length of the stall.                                       *)
(***************************************************************************)
EXTENDS WatchdogGuard, TLAPS

USE GuardAssumption, ClockModAssumption
-----------------------------------------------------------------------------
LEMMA InitIInv == Init => IInv
<1> SUFFICES ASSUME Init
             PROVE  IInv
  OBVIOUS
<1>1. lastKick = 0 /\ 0 \in Times /\ clock \in Times
  BY DEF Init, Times
<1>2. TypeOK
  <2>1. 0 \in 0 .. TripMod - 1 /\ 0 \in 0 .. PollGap
    OBVIOUS
  <2> QED
    BY <1>1, <2>1 DEF Init, TypeOK, Reasons
<1>3. NoFalseAlarm
  BY DEF Init, NoFalseAlarm
<1>4. DifferenceTrue
  BY DEF Init, DifferenceTrue
<1> QED
  BY <1>2, <1>3, <1>4 DEF IInv

\* What the invariant says of the test of line 44, made by a guard that has not
\* noticed anything yet: it is exact, or before the first kick a matter of the
\* counter alone.
LEMMA OverdueExact ==
    ASSUME IInv, timeout # 0, state = "ok"
    PROVE  /\ kicked => (Overdue <=> stall >= timeout)
           /\ ~ kicked => (Overdue <=> clock >= timeout)
<1>1. kicked => (Overdue <=> stall >= timeout)
  BY DEF IInv, DifferenceTrue, Overdue
<1>2. ~ kicked => (Overdue <=> clock >= timeout)
  <2>1. clock \in Times /\ (~ kicked => lastKick = 0)
    BY DEF IInv, TypeOK, DifferenceTrue
  <2>2. ModSub(clock, 0) = clock
    BY <2>1 DEF Times, ModSub
  <2> QED
    BY <2>1, <2>2 DEF Overdue
<1> QED
  BY <1>1, <1>2

LEMMA StepIInv == IInv /\ [Next]_vars => IInv'
<1> SUFFICES ASSUME IInv, [Next]_vars
             PROVE  IInv'
  OBVIOUS
<1>0. /\ TypeOK /\ NoFalseAlarm /\ DifferenceTrue
      /\ timeout \in Nat /\ timeout + PollGap < ClockMod
  BY DEF IInv, TypeOK
<1>1. CASE Kick
  <2>1. TypeOK'
    BY <1>0, <1>1 DEF Kick, TypeOK, Reasons
  <2>2. NoFalseAlarm'
    BY <1>1 DEF Kick, NoFalseAlarm
  <2>3. DifferenceTrue'
    <3>1. clock \in Int /\ clock' = clock /\ lastKick' = clock
          /\ stall' = 0 /\ quiet' = 0 /\ timeout' = timeout /\ kicked'
      BY <1>0, <1>1 DEF Kick, TypeOK, Times
    <3>2. ModSub(clock', lastKick') = 0
      BY <3>1 DEF ModSub
    <3> QED
      BY <1>0, <3>1, <3>2 DEF DifferenceTrue
  <2> QED
    BY <2>1, <2>2, <2>3 DEF IInv
<1>2. CASE Poll
  <2>1. TypeOK'
    <3>1. trips' \in 0 .. TripMod - 1 /\ state' \in {"ok", "expired"}
      BY <1>0, <1>2 DEF Poll, TypeOK, Trip
    <3> QED
      BY <1>0, <1>2, <3>1 DEF Poll, TypeOK
  <2>2. /\ timeout' = timeout /\ clock' = clock /\ lastKick' = lastKick
        /\ stall' = stall /\ quiet' = 0 /\ stall \in Nat /\ kicked' = kicked
        /\ quiet \in 0 .. PollGap /\ clock \in Nat
    BY <1>0, <1>2 DEF Poll, TypeOK, Times
  <2>3. CASE state = "expired"
    <3>1. /\ timeout # 0 /\ (kicked => stall >= timeout)
          /\ state' = "expired"
      BY <1>0, <1>2, <2>3 DEF Poll, NoFalseAlarm
    <3>2. NoFalseAlarm' /\ DifferenceTrue'
      BY <2>2, <3>1 DEF NoFalseAlarm, DifferenceTrue
    <3> QED
      BY <2>1, <3>2 DEF IInv
  <2>4. CASE state = "ok"
    <3>1. timeout # 0 => state' = IF Overdue THEN "expired" ELSE "ok"
      BY <1>2, <2>4 DEF Poll
    <3>2. timeout = 0 => state' = "ok"
      BY <1>2 DEF Poll
    <3>3. NoFalseAlarm'
      BY <2>2, <2>4, <3>1, <3>2, OverdueExact DEF NoFalseAlarm
    <3>4. DifferenceTrue'
      <4> SUFFICES ASSUME timeout # 0, ~ Overdue
                   PROVE  DifferenceTrue'
        BY <2>2, <3>1 DEF DifferenceTrue
      <4>1. CASE kicked
        <5>1. ModSub(clock, lastKick) = stall /\ stall < timeout
          BY <1>0, <2>2, <2>4, <4>1, OverdueExact DEF DifferenceTrue
        <5>2. ModSub(clock', lastKick') = ModSub(clock, lastKick)
          BY <2>2
        <5> QED
          BY <1>0, <2>2, <4>1, <5>1, <5>2 DEF DifferenceTrue
      <4>2. CASE ~ kicked
        <5>1. lastKick = 0 /\ clock < timeout /\ stall <= clock + PollGap
          BY <1>0, <2>2, <2>4, <4>2, OverdueExact DEF DifferenceTrue
        <5> QED
          BY <1>0, <2>2, <4>2, <5>1 DEF DifferenceTrue
      <4> QED
        BY <4>1, <4>2
    <3> QED
      BY <2>1, <3>3, <3>4 DEF IInv
  <2> QED
    BY <1>0, <2>3, <2>4 DEF TypeOK
<1>3. CASE Pass
  <2>1. /\ timeout' = timeout /\ lastKick' = lastKick /\ state' = state
        /\ stall' = stall + 1 /\ quiet' = quiet + 1 /\ quiet' \in 0 .. PollGap
        /\ kicked' = kicked
        /\ stall \in Nat /\ quiet \in Nat
        /\ clock \in Times /\ lastKick \in Times /\ clock' = ModAdd(clock, 1)
    BY <1>0, <1>3 DEF Pass, TypeOK
  <2>2. TypeOK'
    <3>1. clock' \in Times
      BY <2>1 DEF ModAdd, Times
    <3> QED
      BY <1>0, <1>3, <2>1, <3>1 DEF Pass, TypeOK
  <2>3. NoFalseAlarm'
    BY <1>0, <2>1 DEF NoFalseAlarm
  <2>4. DifferenceTrue'
    <3> SUFFICES ASSUME timeout # 0, state = "ok"
                 PROVE  DifferenceTrue'
      BY <2>1 DEF DifferenceTrue
    <3>1. CASE kicked
      <4>1. ModSub(clock, lastKick) = stall /\ stall - quiet < timeout
        BY <1>0, <3>1 DEF DifferenceTrue
      <4>2. stall + 1 < ClockMod
        BY <1>0, <2>1, <4>1
      <4>3. ModSub(ModAdd(clock, 1), lastKick) = stall + 1
        BY <2>1, <4>1, <4>2 DEF ModSub, ModAdd, Times
      <4>4. ModSub(clock', lastKick') = stall'
        BY <2>1, <4>3
      <4>5. stall' - quiet' < timeout'
        BY <1>0, <2>1, <4>1
      <4> QED
        BY <2>1, <3>1, <4>4, <4>5 DEF DifferenceTrue
    <3>2. CASE ~ kicked /\ stall = quiet
      <4>1. lastKick' = 0 /\ stall' = quiet'
        BY <1>0, <2>1, <3>2 DEF DifferenceTrue
      <4> QED
        BY <2>1, <3>2, <4>1 DEF DifferenceTrue
    <3>3. CASE ~ kicked /\ stall # quiet
      <4>1. /\ lastKick = 0 /\ 0 <= clock - quiet /\ clock - quiet < timeout
            /\ stall <= clock + PollGap
        BY <1>0, <3>3 DEF DifferenceTrue
      <4>2. clock' = clock + 1
        BY <1>0, <2>1, <4>1 DEF ModAdd, Times
      <4>3. /\ lastKick' = 0 /\ 0 <= clock' - quiet' /\ clock' - quiet' < timeout'
            /\ stall' <= clock' + PollGap
        BY <1>0, <2>1, <4>1, <4>2 DEF Times
      <4> QED
        BY <2>1, <3>3, <4>3 DEF DifferenceTrue
    <3> QED
      BY <3>1, <3>2, <3>3
  <2> QED
    BY <2>2, <2>3, <2>4 DEF IInv
<1>4. ASSUME NEW r \in Reasons, ForceReason(r)
      PROVE  IInv'
  <2>1. TypeOK'
    BY <1>0, <1>4 DEF ForceReason, TypeOK
  <2>2. NoFalseAlarm' /\ DifferenceTrue'
    BY <1>0, <1>4 DEF ForceReason, NoFalseAlarm, DifferenceTrue, ModSub
  <2> QED
    BY <2>1, <2>2 DEF IInv
<1>5. CASE UNCHANGED vars
  BY <1>5 DEF vars, IInv, TypeOK, NoFalseAlarm, DifferenceTrue, ModSub
<1> QED
  BY <1>1, <1>2, <1>3, <1>4, <1>5 DEF Next

LEMMA IInvImplies == IInv => StallNoticed
<1> SUFFICES ASSUME IInv, timeout # 0, state = "ok"
             PROVE  /\ stall < timeout + PollGap + Grace
                    /\ quiet = 0 => stall < timeout + Grace
  BY DEF StallNoticed
<1>1. timeout \in Nat /\ stall \in Nat /\ quiet \in 0 .. PollGap /\ clock \in Nat
  BY DEF IInv, TypeOK, Times
<1>2. CASE kicked
  <2>1. stall - quiet < timeout /\ Grace = 0
    BY <1>2 DEF IInv, DifferenceTrue, Grace
  <2> QED
    BY <1>1, <2>1
<1>3. CASE ~ kicked
  <2>1. /\ Grace = PollGap
        /\ \/ stall = quiet
           \/ clock - quiet < timeout /\ stall <= clock + PollGap
    BY <1>3 DEF IInv, DifferenceTrue, Grace
  <2> QED
    BY <1>1, <2>1
<1> QED
  BY <1>2, <1>3
-----------------------------------------------------------------------------
\* While nothing has been noticed, the difference line 44 computes is the time
\* that has really passed since the kick, and before the first kick short of it
\* by PollGap at most: the inductive invariant.
THEOREM GuardInvariance == Spec => []IInv
  BY InitIInv, StepIInv, PTL DEF Spec

\* An expired guard that has been kicked means a loop that has not kicked for
\* timeout_ms since.
THEOREM GuardNoFalseAlarm == Spec => []NoFalseAlarm
<1>1. IInv => NoFalseAlarm
  BY DEF IInv
<1> QED
  BY <1>1, GuardInvariance, PTL

\* A stall is noticed by the first poll after timeout_ms and is not forgotten
\* when the counter comes round.
THEOREM GuardStallNoticed == Spec => []StallNoticed
  BY IInvImplies, GuardInvariance, PTL

\* The guard's counters keep their widths.
THEOREM GuardTypeSafety == Spec => []TypeOK
<1>1. IInv => TypeOK
  BY DEF IInv
<1> QED
  BY <1>1, GuardInvariance, PTL
=============================================================================
