--------------------------- MODULE SchedulerProofs ---------------------------
(***************************************************************************)
(* Proofs about Scheduler, for every number of slots, every set of periods *)
(* and ids and every width of the counter, up to MaxUptime.                *)
(***************************************************************************)
EXTENDS Scheduler, TLAPS

USE SchedulerAssumption DEF NoId, Never
-----------------------------------------------------------------------------
\* Up to MaxUptime the next run is computed without a wrap.
LEMMA NextRunExact ==
    ASSUME NEW from \in 0 .. MaxUptime, NEW p \in Periods \cup {0}
    PROVE  NextRun(from, p) = from + p /\ NextRun(from, p) \in Times
<1>1. p \in Nat /\ from + p < TickMod
  OBVIOUS
<1> QED
  BY <1>1 DEF NextRun, Times

LEMMA TaskFields ==
    ASSUME NEW t \in Task
    PROVE  /\ t.next \in Nat /\ t.period \in Nat
           /\ t.period \in Periods \cup {0}
<1>1. t.next \in Times /\ t.period \in Periods \cup {0}
  BY DEF Task
<1>2. \A p \in Periods \cup {0} : p \in Nat
  OBVIOUS
<1>3. \A n \in Times : n \in Nat
  BY DEF Times
<1> QED
  BY <1>1, <1>2, <1>3

LEMMA InitIInv == Init => IInv
<1> SUFFICES ASSUME Init
             PROVE  IInv
  OBVIOUS
<1>1. Empty \in Task
  BY DEF Empty, Task, Times
<1>2. TypeOK
  BY <1>1 DEF Init, TypeOK, Slots
<1>3. \A s \in Slots : base[s] = Never /\ tasks[s].fn = FALSE
  BY DEF Init, Empty
<1>4. Spaced
  BY <1>3 DEF Spaced, Init
<1>5. Passed
  BY <1>3 DEF Passed
<1> QED
  BY <1>2, <1>4, <1>5 DEF IInv

\* Every step keeps the invariant.
LEMMA StepIInv == IInv /\ [Next]_vars => IInv'
<1> SUFFICES ASSUME IInv, [Next]_vars
             PROVE  IInv'
  OBVIOUS
<1>0. TypeOK /\ Spaced /\ Passed
  BY DEF IInv
<1>a. /\ now \in 0 .. MaxUptime /\ tickMs \in 0 .. MaxUptime
      /\ nowMs \in 0 .. MaxUptime /\ i \in 0 .. TaskCount
  BY <1>0 DEF TypeOK
<1>b. \A s \in Slots : /\ s \in Int /\ tasks[s] \in Task
                       /\ tasks[s].next \in Nat /\ tasks[s].period \in Nat
                       /\ tasks[s].period \in Periods \cup {0}
                       /\ base[s] \in 0 .. MaxUptime \cup {Never}
                       /\ base[s] <= nowMs
  <2>1. \A s \in Slots : s \in Int
    BY DEF Slots
  <2>2. \A s \in Slots : tasks[s] \in Task
                         /\ base[s] \in 0 .. MaxUptime \cup {Never}
    BY <1>0 DEF TypeOK
  <2>3. \A s \in Slots : base[s] <= nowMs
    BY <1>0 DEF Spaced
  <2> QED
    BY <2>1, <2>2, <2>3, TaskFields
<1>1. CASE Pass
  BY <1>0, <1>1 DEF Pass, IInv, TypeOK, Spaced, Passed, progress
<1>2. CASE StartTick
  <2>1. TypeOK'
    BY <1>0, <1>2 DEF StartTick, TypeOK
  <2>2. Spaced'
    <3>1. \A s \in Slots : base[s] \in Int /\ base[s] <= now
      BY <1>0, <1>a, <1>b DEF TypeOK
    <3> QED
      BY <1>0, <1>2, <3>1 DEF StartTick, Spaced
  <2>3. Passed'
    BY <1>b, <1>2 DEF StartTick, Passed, Slots
  <2> QED
    BY <2>1, <2>2, <2>3 DEF IInv
<1>3. CASE Skip
  <2>1. TypeOK'
    BY <1>0, <1>3 DEF Skip, TypeOK
  <2>2. Spaced'
    BY <1>0, <1>3 DEF Skip, Spaced
  <2>3. Passed'
    <3> SUFFICES ASSUME NEW s \in Slots \ woken, s < i + 1,
                        tasks[s].fn, tasks[s].enabled
                 PROVE  tasks[s].next > nowMs \/ tasks[s].period = 0
      BY <1>3 DEF Skip, Passed
    <3>1. CASE s = i
      BY <1>a, <1>b, <1>3, <3>1 DEF Skip, Due
    <3>2. CASE s # i
      <4>1. s < i
        BY <1>a, <1>b, <3>2
      <4> QED
        BY <1>0, <4>1 DEF Passed
    <3> QED
      BY <3>1, <3>2
  <2> QED
    BY <2>1, <2>2, <2>3 DEF IInv
<1>4. CASE Call
  <2>1. i \in Slots
    BY <1>a, <1>4 DEF Call, Slots
  <2>2. TypeOK'
    BY <1>0, <1>a, <1>4, <2>1 DEF Call, TypeOK
  <2>3. Spaced'
    BY <1>0, <1>a, <1>4 DEF Call, TypeOK, Spaced
  <2>4. Passed'
    BY <1>0, <1>4 DEF Call, Passed
  <2> QED
    BY <2>2, <2>3, <2>4 DEF IInv
<1>5. CASE Return
  <2> DEFINE n == NextRun(nowMs, tasks[i].period)
  <2>1. i \in Slots /\ pc = "fn" /\ pc' = "scan" /\ i' = i + 1
        /\ base' = base /\ nowMs' = nowMs /\ woken' = woken
    BY <1>0, <1>5 DEF Return, TypeOK
  <2>2. n = nowMs + tasks[i].period /\ n \in Times
    BY <1>a, <1>b, <2>1, NextRunExact
  <2> HIDE DEF n
  <2>3. tasks' = [tasks EXCEPT ![i].next = n]
    BY <1>5 DEF Return, n
  <2>4. \A s \in Slots :
          /\ tasks'[s].fn = tasks[s].fn /\ tasks'[s].enabled = tasks[s].enabled
          /\ tasks'[s].period = tasks[s].period
          /\ tasks'[s].next = IF s = i THEN n ELSE tasks[s].next
          /\ tasks'[s] \in Task
    BY <1>0, <1>b, <2>2, <2>3 DEF TypeOK, Task
  <2>5. TypeOK'
    <3>1. tasks' \in [Slots -> Task]
      BY <1>0, <2>3, <2>4 DEF TypeOK
    <3>2. i + 1 \in 0 .. TaskCount
      BY <2>1 DEF Slots
    <3> QED
      BY <1>0, <1>5, <2>1, <3>1, <3>2 DEF Return, TypeOK
  <2>6. Spaced'
    <3> SUFFICES ASSUME NEW s \in Slots, base[s] # Never
                 PROVE  tasks'[s].next >= base[s] + tasks'[s].period
      BY <1>b, <2>1 DEF Spaced
    <3>1. CASE s = i
      BY <1>a, <1>b, <2>1, <2>2, <2>4, <3>1
    <3>2. CASE s # i
      BY <1>0, <2>4, <3>2 DEF Spaced
    <3> QED
      BY <3>1, <3>2
  <2>7. Passed'
    <3> SUFFICES ASSUME NEW s \in Slots \ woken, s < i + 1,
                        tasks[s].fn, tasks[s].enabled
                 PROVE  tasks'[s].next > nowMs \/ tasks'[s].period = 0
      BY <2>1, <2>4 DEF Passed
    <3>1. CASE s = i
      BY <1>a, <1>b, <2>1, <2>2, <2>4, <3>1
    <3>2. CASE s # i
      <4>1. s < i
        BY <1>a, <1>b, <3>2
      <4> QED
        BY <1>0, <2>4, <3>2, <4>1 DEF Passed
    <3> QED
      BY <3>1, <3>2
  <2> QED
    BY <2>5, <2>6, <2>7 DEF IInv
<1>6. CASE EndTick
  <2>1. TypeOK' /\ Spaced'
    BY <1>0, <1>6 DEF EndTick, TypeOK, Spaced
  <2>2. \A s \in Slots : s < i
    BY <1>6 DEF EndTick, Slots
  <2>3. Passed'
    BY <1>0, <1>6, <2>2 DEF EndTick, Passed
  <2> QED
    BY <2>1, <2>3 DEF IInv
<1>7. ASSUME NEW s \in Slots, NEW fn \in BOOLEAN, NEW id \in Ids,
             NEW p \in Periods, NEW e \in BOOLEAN, Register(s, fn, id, p, e)
      PROVE  IInv'
  <2> DEFINE n == NextRun(tickMs, p)
             new == [fn |-> fn, period |-> p, next |-> n,
                     id |-> IF fn THEN id ELSE NoId, enabled |-> fn /\ e]
  <2>1. n = tickMs + p /\ n \in Times /\ p \in Nat
    BY <1>a, NextRunExact
  <2> HIDE DEF n
  <2>2. new \in Task
    BY <2>1 DEF Task
  <2>3. tasks' = [tasks EXCEPT ![s] = new]
    BY <1>7 DEF Register, n
  <2>4. new.next = n /\ new.period = p
    OBVIOUS
  <2> HIDE DEF new
  <2>5. /\ base' = [base EXCEPT ![s] = IF tickMs = nowMs THEN nowMs ELSE Never]
        /\ woken' = IF tickMs = nowMs /\ p # 0 THEN woken ELSE woken \cup {s}
        /\ pc' = pc /\ i' = i /\ nowMs' = nowMs /\ now' = now /\ tickMs' = tickMs
    BY <1>7 DEF Register, progress
  <2>6. /\ tasks'[s] = new
        /\ base'[s] = IF tickMs = nowMs THEN nowMs ELSE Never
        /\ \A t \in Slots \ {s} : tasks'[t] = tasks[t] /\ base'[t] = base[t]
    BY <1>0, <2>3, <2>5 DEF TypeOK
  <2>7. TypeOK'
    BY <1>0, <1>a, <2>2, <2>3, <2>5 DEF TypeOK
  <2>8. Spaced'
    <3> SUFFICES ASSUME NEW t \in Slots, base'[t] # Never,
                        ~ (pc = "fn" /\ t = i)
                 PROVE  tasks'[t].next >= base'[t] + tasks'[t].period
      <4>1. \A t \in Slots : base'[t] <= nowMs
        BY <1>a, <1>b, <2>6
      <4> QED
        BY <2>5, <4>1 DEF Spaced
    <3>1. CASE t = s
      BY <1>a, <2>1, <2>4, <2>6, <3>1
    <3>2. CASE t # s
      BY <1>0, <2>6, <3>2 DEF Spaced
    <3> QED
      BY <3>1, <3>2
  <2>9. Passed'
    <3> SUFFICES ASSUME NEW t \in Slots \ woken', pc = "idle" \/ t < i,
                        tasks'[t].fn, tasks'[t].enabled
                 PROVE  tasks'[t].next > nowMs \/ tasks'[t].period = 0
      BY <2>5 DEF Passed
    <3>1. CASE t = s
      <4>1. tickMs = nowMs /\ p # 0
        BY <2>5, <3>1
      <4> QED
        BY <1>a, <2>1, <2>4, <2>6, <3>1, <4>1
    <3>2. CASE t # s
      <4>1. t \in Slots \ woken
        BY <2>5
      <4> QED
        BY <1>0, <2>6, <3>2, <4>1 DEF Passed
    <3> QED
      BY <3>1, <3>2
  <2> QED
    BY <2>7, <2>8, <2>9 DEF IInv
<1>8. ASSUME NEW id \in Ids \cup {NoId}, NEW e \in BOOLEAN, Enable(id, e)
      PROVE  IInv'
  <2>1. PICK s \in Slots :
          /\ tasks' = [tasks EXCEPT ![s].enabled = e]
          /\ woken' = IF e THEN woken \cup {s} ELSE woken
    BY <1>8 DEF Enable
  <2>2. pc' = pc /\ i' = i /\ nowMs' = nowMs /\ now' = now
        /\ tickMs' = tickMs /\ base' = base
    BY <1>8 DEF Enable, progress
  <2>3. \A t \in Slots :
          /\ tasks'[t].fn = tasks[t].fn /\ tasks'[t].next = tasks[t].next
          /\ tasks'[t].period = tasks[t].period
          /\ tasks'[t].enabled = IF t = s THEN e ELSE tasks[t].enabled
          /\ tasks'[t] \in Task
    BY <1>0, <1>b, <2>1 DEF TypeOK, Task
  <2>4. TypeOK'
    <3>1. tasks' \in [Slots -> Task]
      BY <1>0, <2>1, <2>3 DEF TypeOK
    <3> QED
      BY <1>0, <2>1, <2>2, <3>1 DEF TypeOK
  <2>5. Spaced'
    BY <1>0, <2>2, <2>3 DEF Spaced
  <2>6. Passed'
    <3> SUFFICES ASSUME NEW t \in Slots \ woken', pc = "idle" \/ t < i,
                        tasks'[t].fn, tasks'[t].enabled
                 PROVE  tasks[t].next > nowMs \/ tasks[t].period = 0
      BY <2>2, <2>3 DEF Passed
    <3>1. t \in Slots \ woken /\ tasks[t].fn /\ tasks[t].enabled
      BY <2>1, <2>3
    <3> QED
      BY <1>0, <3>1 DEF Passed
  <2> QED
    BY <2>4, <2>5, <2>6 DEF IInv
<1>9. CASE Reset
  <2>0. /\ tickMs' = 0 /\ woken' = woken
        /\ pc' = pc /\ i' = i /\ nowMs' = nowMs /\ now' = now
    BY <1>9 DEF Reset, progress
  <2>1. /\ tasks' = [s \in Slots |->
                      [tasks[s] EXCEPT !.next = 0, !.enabled = FALSE]]
        /\ base' = [s \in Slots |-> Never]
    BY <1>9 DEF Reset
  <2>2. \A s \in Slots : /\ tasks'[s] \in Task /\ tasks'[s].enabled = FALSE
                         /\ base'[s] = Never
    <3> SUFFICES ASSUME NEW s \in Slots
                 PROVE  /\ tasks'[s] \in Task /\ tasks'[s].enabled = FALSE
                        /\ base'[s] = Never
      OBVIOUS
    <3>1. tasks'[s] = [tasks[s] EXCEPT !.next = 0, !.enabled = FALSE]
          /\ base'[s] = Never
      BY <2>1
    <3>2. tasks[s] \in Task /\ 0 \in Times
      BY <1>b DEF Times
    <3> QED
      BY <3>1, <3>2 DEF Task
  <2>3. TypeOK'
    <3>1. tasks' \in [Slots -> Task]
      BY <2>1, <2>2
    <3>2. base' \in [Slots -> 0 .. MaxUptime \cup {Never}]
      BY <2>1
    <3>3. tickMs' \in 0 .. now'
      BY <1>0, <2>0 DEF TypeOK
    <3> QED
      BY <1>0, <2>0, <3>1, <3>2, <3>3 DEF TypeOK
  <2>4. Spaced'
    BY <1>a, <2>0, <2>2 DEF Spaced
  <2>5. Passed'
    BY <2>2 DEF Passed
  <2> QED
    BY <2>3, <2>4, <2>5 DEF IInv
<1>10. CASE UNCHANGED vars
  BY <1>0, <1>10 DEF vars, IInv, TypeOK, Spaced, Passed
<1> QED
  BY <1>1, <1>2, <1>3, <1>4, <1>5, <1>6, <1>7, <1>8, <1>9, <1>10
  DEF Next, Requests
-----------------------------------------------------------------------------
\* The inductive invariant holds whatever task functions do to the table in
\* the middle of a tick.
THEOREM SchedulerInvariance == Spec => []IInv
  BY InitIInv, StepIInv, PTL DEF Spec

\* Nothing that was enabled before a tick is left behind by it.
THEOREM TickCompletes == Spec => []NothingLeftBehind
<1>1. IInv => NothingLeftBehind
  BY DEF IInv, Passed, NothingLeftBehind
<1> QED
  BY <1>1, SchedulerInvariance, PTL

\* Two runs of a slot's task are at least its period apart.
THEOREM RunsAreSpaced == Spec => SpacedRuns
<1>1. IInv /\ [Next]_vars =>
        [Call => base[i] = Never \/ nowMs - base[i] >= tasks[i].period]_vars
  <2> SUFFICES ASSUME IInv, Call, base[i] # Never
               PROVE  nowMs - base[i] >= tasks[i].period
    OBVIOUS
  <2>1. i \in Slots /\ pc = "scan" /\ tasks[i].next <= nowMs
    BY DEF Call, Due, IInv, TypeOK, Slots
  <2>2. /\ tasks[i].next \in Nat /\ tasks[i].period \in Nat
        /\ base[i] \in 0 .. MaxUptime /\ nowMs \in Nat
    <3>1. tasks[i] \in Task /\ base[i] \in 0 .. MaxUptime /\ nowMs \in Nat
      BY <2>1 DEF IInv, TypeOK
    <3> QED
      BY <3>1, TaskFields
  <2>3. tasks[i].next >= base[i] + tasks[i].period
    BY <2>1 DEF IInv, Spaced
  <2> QED
    BY <2>1, <2>2, <2>3
<1> QED
  BY <1>1, SchedulerInvariance, PTL DEF Spec, SpacedRuns

\* The table and the position of the tick in it keep their types, whatever is
\* registered in the middle of a tick.
THEOREM SchedulerTypeSafety == Spec => []TypeOK
<1>1. IInv => TypeOK
  BY DEF IInv
<1> QED
  BY <1>1, SchedulerInvariance, PTL
=============================================================================
