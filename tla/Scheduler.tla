------------------------------ MODULE Scheduler ------------------------------
(***************************************************************************)
(* The cooperative scheduler (firmware/src/scheduler.c): a table of slots, *)
(* each with a task function, its period and the time it runs next.        *)
(* scheduler_tick goes through the table once and calls what is due.       *)
(*                                                                         *)
(* Nothing calls the scheduler yet.  The environment is the one its        *)
(* interface allows: a loop that ticks with the millisecond counter, and   *)
(* register, enable and reset called by that loop or, in the middle of a   *)
(* tick, by a task function.  A task function does not tick.               *)
(*                                                                         *)
(* next_run_ms > now_ms (line 69) is not safe at the wrap of the counter.  *)
(* Up to there, MaxUptime, the model says what the scheduler promises.     *)
(***************************************************************************)
EXTENDS Integers

CONSTANTS
    TaskCount,     \* task_count
    Periods,       \* the period_ms that tasks are registered with
    Ids,           \* the task_id they are registered with
    TickMod,       \* values of the millisecond counter: 2^32 in the program
    MaxUptime      \* bound: the counter goes no further

NoId == 0          \* SCHEDULER_TASK_ID_NONE

ASSUME SchedulerAssumption ==
    /\ TaskCount \in Nat /\ TickMod \in Nat /\ MaxUptime \in Nat
    /\ Periods \subseteq Nat /\ Ids \subseteq Nat
    /\ MaxUptime < TickMod /\ \A p \in Periods : MaxUptime + p < TickMod

VARIABLES
    now,           \* the millisecond counter
    tasks,         \* the table
    tickMs,        \* tick_ms
    nowMs,         \* now_ms of the tick under way, or of the last one
    pc,            \* "idle", "scan" or, while a task function runs, "fn"
    i,             \* the slot the tick has come to
    base,          \* history: time from which a slot owes a period, or Never
    woken          \* history: slots made due by a call since the tick began

vars == <<now, tasks, tickMs, nowMs, pc, i, base, woken>>
progress == <<nowMs, pc, i>>

Slots == 0 .. TaskCount - 1
Times == 0 .. TickMod - 1
Never == -1
Task == [fn : BOOLEAN, period : Periods \cup {0}, next : Times,
         id : Ids \cup {NoId}, enabled : BOOLEAN]
Empty == [fn |-> FALSE, period |-> 0, next |-> 0, id |-> NoId,
          enabled |-> FALSE]

TypeOK ==
    /\ now \in 0 .. MaxUptime
    /\ tasks \in [Slots -> Task]
    /\ tickMs \in 0 .. now /\ nowMs \in 0 .. now
    /\ pc \in {"idle", "scan", "fn"}
    /\ i \in 0 .. TaskCount /\ (pc = "fn" => i \in Slots)
    /\ base \in [Slots -> 0 .. MaxUptime \cup {Never}]
    /\ woken \subseteq Slots
-----------------------------------------------------------------------------
\* state->tick_ms + task->period_ms, now_ms + task->period_ms: uint32_t.
NextRun(from, period) ==
    IF from + period < TickMod THEN from + period ELSE from + period - TickMod

\* Mutant: due only after its time.
DueLate(s) == tasks[s].fn /\ tasks[s].enabled /\ tasks[s].next < nowMs

\* The three tests before the call.
Due(s) == tasks[s].fn /\ tasks[s].enabled /\ tasks[s].next <= nowMs
-----------------------------------------------------------------------------
\* scheduler_init
Init ==
    /\ now = 0
    /\ tasks = [s \in Slots |-> Empty]
    /\ tickMs = 0 /\ nowMs = 0
    /\ pc = "idle" /\ i = 0
    /\ base = [s \in Slots |-> Never]
    /\ woken = {}

\* A millisecond passes: task functions take time, too.
Pass ==
    /\ now < MaxUptime
    /\ now' = now + 1
    /\ UNCHANGED <<tasks, tickMs, progress, base, woken>>

\* scheduler_tick: the time of the whole tick is sampled by its caller.
StartTick ==
    /\ pc = "idle"
    /\ nowMs' = now
    /\ tickMs' = now
    /\ pc' = "scan"
    /\ i' = 0
    /\ woken' = {}
    /\ UNCHANGED <<now, tasks, base>>

Skip ==
    /\ pc = "scan" /\ i < TaskCount
    /\ ~ Due(i)
    /\ i' = i + 1
    /\ UNCHANGED <<now, tasks, tickMs, nowMs, pc, base, woken>>

Call ==
    /\ pc = "scan" /\ i < TaskCount
    /\ Due(i)
    /\ pc' = "fn"
    /\ base' = [base EXCEPT ![i] = nowMs]
    /\ UNCHANGED <<now, tasks, tickMs, nowMs, i, woken>>

\* Mutant: the next run is counted from the last due time.
ReturnInStep ==
    /\ pc = "fn"
    /\ tasks' = [tasks EXCEPT ![i].next = NextRun(@, tasks[i].period)]
    /\ pc' = "scan"
    /\ i' = i + 1
    /\ UNCHANGED <<now, tickMs, nowMs, base, woken>>

\* The function returns.  The period is read again: the function may have
\* registered another task in its own slot.
Return ==
    /\ pc = "fn"
    /\ tasks' = [tasks EXCEPT ![i].next = NextRun(nowMs, tasks[i].period)]
    /\ pc' = "scan"
    /\ i' = i + 1
    /\ UNCHANGED <<now, tickMs, nowMs, base, woken>>

EndTick ==
    /\ pc = "scan" /\ i = TaskCount
    /\ pc' = "idle"
    /\ UNCHANGED <<now, tasks, tickMs, nowMs, i, base, woken>>

\* The loop, between ticks, or the task function that is running.
MayCall == pc \in {"idle", "fn"}

\* scheduler_register_task.  tick_ms is the time of the last tick, unless the
\* scheduler has been reset since.
Register(s, fn, id, period, enable) ==
    /\ MayCall
    /\ tasks' = [tasks EXCEPT ![s] =
                   [fn |-> fn, period |-> period,
                    next |-> NextRun(tickMs, period),
                    id |-> IF fn THEN id ELSE NoId,
                    enabled |-> fn /\ enable]]
    /\ base' = [base EXCEPT ![s] = IF tickMs = nowMs THEN nowMs ELSE Never]
    /\ woken' = IF tickMs = nowMs /\ period # 0 THEN woken ELSE woken \cup {s}
    /\ UNCHANGED <<now, tickMs, progress>>

\* scheduler_enable_task: the first slot with that id, be it an empty one.
Enable(id, enable) ==
    /\ MayCall
    /\ \E s \in Slots :
         /\ tasks[s].id = id /\ \A t \in 0 .. s - 1 : tasks[t].id # id
         /\ tasks' = [tasks EXCEPT ![s].enabled = enable]
         /\ woken' = IF enable THEN woken \cup {s} ELSE woken
    /\ UNCHANGED <<now, tickMs, progress, base>>

\* scheduler_reset
Reset ==
    /\ MayCall
    /\ tickMs' = 0
    /\ tasks' = [s \in Slots |->
                   [tasks[s] EXCEPT !.next = 0, !.enabled = FALSE]]
    /\ base' = [s \in Slots |-> Never]
    /\ UNCHANGED <<now, progress, woken>>

Requests ==
    \/ \E s \in Slots, fn \in BOOLEAN, id \in Ids, p \in Periods,
          e \in BOOLEAN : Register(s, fn, id, p, e)
    \/ \E id \in Ids \cup {NoId}, e \in BOOLEAN : Enable(id, e)
    \/ Reset

Next ==
    \/ Pass
    \/ StartTick \/ Skip \/ Call \/ Return \/ EndTick
    \/ Requests

Spec == Init /\ [][Next]_vars
-----------------------------------------------------------------------------
\* Between the ticks that run a slot's task there is at least its period,
\* counted from the run before or from the tick before it was registered,
\* whatever task functions have registered or enabled meanwhile (lines 69-74,
\* 85); a reset alone makes a task due at once.
SpacedRuns ==
    [][Call => base[i] = Never \/ nowMs - base[i] >= tasks[i].period]_vars

\* When a tick is over nothing is left behind: what is enabled is due later
\* than the tick's time, but for tasks without a period and for those that
\* were made due during the tick in a slot it had passed, or after it.
NothingLeftBehind ==
    pc = "idle" => \A s \in Slots \ woken :
        tasks[s].fn /\ tasks[s].enabled =>
            tasks[s].next > nowMs \/ tasks[s].period = 0

\* The inductive invariant.
Spaced == \A s \in Slots :
    /\ base[s] <= nowMs
    /\ base[s] # Never /\ ~ (pc = "fn" /\ s = i)
        => tasks[s].next >= base[s] + tasks[s].period
Passed == \A s \in Slots \ woken :
    (pc = "idle" \/ s < i) /\ tasks[s].fn /\ tasks[s].enabled
        => tasks[s].next > nowMs \/ tasks[s].period = 0
IInv == TypeOK /\ Spaced /\ Passed
=============================================================================
