-------------------------- MODULE IOManagerProofs --------------------------
(***************************************************************************)
(* Proofs about IOManager, for any workers, fibers, sockets and situations. *)
(*                                                                         *)
(* The inductive invariant counts the wake-ups of a fiber: what would      *)
(* schedule it lies in the queue, with a timer, at a socket or with a      *)
(* worker, and there is one of them exactly when the fiber has to be       *)
(* resumed (WakesInv).  So no two workers ever run one fiber (FibersInv),  *)
(* and the counts that tickle() and stopping() decide on are the numbers   *)
(* of workers and sockets they stand for (CountersInv).  For that nothing  *)
(* is assumed of the situations.  That a fiber is not scheduled while it   *)
(* still runs, that the scheduler stops with nothing left to do (StopInv), *)
(* and that no timer ends a call before its time (TimesInv), needs one     *)
(* worker or fibers that do not wait, and one reader for each socket       *)
(* (Situations).                                                           *)
(***************************************************************************)
EXTENDS IOManager, FiniteSetTheorems, SequenceTheorems, TLAPS

---------------------------------------------------------------------------
(* The invariants.                                                         *)

Busy == {"run", "fiber", "yield", "finish"}
OnFiber == {"fiber", "yield"}
Idle == {"stopping", "stopping2", "wait", "clock", "expire", "push", "leaveIdle"}
Waits == {"asleep", "waiting"}

\* Where a worker is, or goes on after tickle().
at == [w \in Worker |-> IF pc[w] = "tickle" THEN then[w] ELSE pc[w]]
AllTimers == timers_ \cup UNION {cbs[w] : w \in Worker}

Timed == [kind : {"wake", "timeout"}, fiber : Fiber, call : Nat]
Task == [kind : {"fiber"}, fiber : Fiber] \cup Timed
Timer == [kind : {"wake", "timeout"}, fiber : Fiber, call : Nat, next : Nat]

MainType ==
    /\ setup \in Setups
    /\ mainPc \in {"submit", "tickle", "stop", "join", "joined"}
    /\ toSubmit \subseteq Fiber /\ toTickle \in 0 .. Cardinality(Worker)
    /\ {isStopped_, pipe, tickled_, panicked} \subseteq BOOLEAN
PcType ==
    /\ pc \in [Worker -> Busy \cup Idle \cup {"off", "scan", "empty", "tickle", "exit"}]
    /\ then \in [Worker -> Busy \cup {"push"}]
TaskType ==
    /\ tasks_ \in Seq(Task) /\ task \in [Worker -> Task \cup {NoTask}]
    /\ idleTerm \in [Worker -> BOOLEAN]
TimerType ==
    /\ timers_ \in SUBSET Timer /\ IsFiniteSet(timers_)
    /\ cbs \in [Worker -> SUBSET Timer] /\ \A w \in Worker : IsFiniteSet(cbs[w])
    /\ nowMs \in [Worker -> Nat] /\ now \in Nat /\ previouseTime_ \in Nat
SocketType ==
    /\ got \in [Worker -> SUBSET Fd] /\ events \in [Fd -> Fiber \cup {None}]
    /\ data \in [Fd -> Nat] /\ closed \subseteq Fd
FiberType ==
    /\ state \in [Fiber -> {"READY", "RUNNING", "TERM"}]
    /\ phase \in [Fiber -> {"start", "asleep", "addEvent", "waiting"}]
    /\ call \in [Fiber -> Nat \ {0}] /\ cnacelled \in [Fiber -> BOOLEAN] /\ due \in [Fiber -> Nat]
TypeInv == MainType /\ PcType /\ TaskType /\ TimerType /\ SocketType /\ FiberType

\* The counts that tickle() and stopping() decide on are what they stand for.
Counted(P) == {w \in Worker : at[w] \in P}
Pending == {fd \in Fd : events[fd] # None}
WorkersCounted == idleThreadCnt_ = Cardinality(Counted(Idle)) /\ activeThreadCnt_ = Cardinality(Counted(Busy))
SocketsCounted == pendingEventCnt_ = Cardinality(Pending)
CountersInv == WorkersCounted /\ SocketsCounted

\* What a worker holds on to where it is.
WorkersInv ==
    /\ \A w \in Worker : w \notin setup.workers => at[w] = "off"
    /\ \A w \in Worker : w = setup.caller /\ mainPc \notin {"join", "joined"} => at[w] = "off"
    /\ \A w \in Worker : at[w] \in Busy <=> task[w] # NoTask
    /\ \A w \in Worker : at[w] # "push" => cbs[w] = {}
    /\ \A w \in Worker : at[w] \notin {"clock", "expire", "push"} => got[w] = {}
    /\ \A w \in Worker : at[w] = "run" /\ task[w].kind = "fiber" => state[task[w].fiber] = "READY"

\* A fiber that is RUNNING is run by one worker, and about to be woken only when
\* it is about to yield.
FibersInv ==
    /\ \A w \in Worker : at[w] \in OnFiber => task[w].kind = "fiber" /\ state[task[w].fiber] = "RUNNING"
    /\ \A w \in Worker : at[w] = "fiber" => phase[task[w].fiber] \notin Waits
    /\ \A w \in Worker : at[w] = "yield" => phase[task[w].fiber] \in Waits
    /\ \A v, w \in Worker : at[v] \in OnFiber /\ at[w] \in OnFiber /\ task[v].fiber = task[w].fiber => v = w
    /\ \A f \in Fiber : state[f] = "RUNNING" => \E w \in Worker : at[w] \in OnFiber /\ task[w].fiber = f
    /\ \A f \in toSubmit : state[f] = "READY" /\ phase[f] = "start"

\* The wake-ups of fiber f: in a queue q, from a set T of timers, from its socket,
\* and with the workers, which are at a and hold the tasks k.
Mine(t, f) == t.kind \in {"fiber", "wake"} /\ t.fiber = f
Queued(q, f) == {i \in DOMAIN q : Mine(q[i], f)}
Armed(T, f) == {t \in T : t.kind = "wake" /\ t.fiber = f}
Registered(E, f) == {fd \in Fd : E[fd] = f}
Held(a, k, f) == {w \in Worker : a[w] = "run" /\ Mine(k[w], f)}

WakeUps(f) ==
    Cardinality(Queued(tasks_, f)) + Cardinality(Armed(AllTimers, f))
    + Cardinality(Registered(events, f)) + Cardinality(Held(at, task, f))

\* A fiber that is to be handed over, has ended or runs is woken by nobody, and
\* the others, those that are about to yield too, by one thing.
Asked(f) ==
    IF \/ f \in toSubmit \/ state[f] = "TERM"
       \/ state[f] = "RUNNING" /\ phase[f] \notin Waits THEN 0 ELSE 1

\* A timer that wakes a fiber is at one place.
OnePlace ==
    \A w \in Worker : \A t \in cbs[w] :
        t.kind = "wake" => t \notin timers_ /\ \A v \in Worker \ {w} : t \notin cbs[v]

WakesInv == (\A f \in Fiber : WakeUps(f) = Asked(f)) /\ OnePlace

\* What a fiber waits for is what its program calls.
CallsTo(f, n, name) == n \in DOMAIN setup.program[f] /\ setup.program[f][n].call = name
Stamped(t) == t.kind # "fiber" => CallsTo(t.fiber, t.call, IF t.kind = "wake" THEN "sleep" ELSE "read")
FiberCalls ==
    /\ \A f \in Fiber : phase[f] = "asleep" => CallsTo(f, call[f], "sleep")
    /\ \A f \in Fiber : phase[f] \in {"addEvent", "waiting"} => CallsTo(f, call[f], "read")
    /\ \A fd \in Fd : events[fd] # None => phase[events[fd]] = "waiting" /\ CallOf(events[fd]).fd = fd
TaskCalls ==
    /\ \A t \in AllTimers : Stamped(t)
    /\ \A i \in DOMAIN tasks_ : Stamped(tasks_[i])
    /\ \A w \in Worker : at[w] \in Busy => Stamped(task[w])
CallsInv == FiberCalls /\ TaskCalls

IInv == TypeInv /\ CountersInv /\ WorkersInv /\ FibersInv /\ WakesInv /\ CallsInv

---------------------------------------------------------------------------
(* Where the workers go.                                                   *)

LEMMA GoToMoves ==
    ASSUME PcType, NEW w \in Worker, NEW l \in Busy \cup Idle \cup {"scan", "empty", "exit"}, GoTo(w, l)
    PROVE  at' = [at EXCEPT ![w] = l] /\ PcType'
<1>1. l # "tickle" BY DEF Busy, Idle
<1>. QED BY <1>1 DEF PcType, GoTo, at, Busy

LEMMA GoToTicklingMoves ==
    ASSUME PcType, NEW w \in Worker, NEW b \in BOOLEAN, NEW l \in Busy \cup {"push"}, GoToTickling(w, b, l)
    PROVE  at' = [at EXCEPT ![w] = l] /\ PcType'
<1>1. l # "tickle" BY DEF Busy
<1>. QED BY <1>1 DEF PcType, GoToTickling, at, Busy, Idle

LEMMA ScheduleMoves ==
    ASSUME PcType, NEW w \in Worker, NEW t, NEW l \in Busy \cup {"push"}, Schedule(w, t, l)
    PROVE  at' = [at EXCEPT ![w] = l] /\ PcType'
BY GoToTicklingMoves DEF Schedule

LEMMA StayMoves == ASSUME PcType, UNCHANGED <<pc, then>> PROVE at' = at /\ PcType'
BY DEF PcType, at

LEMMA AtType == ASSUME PcType PROVE at \in [Worker -> Busy \cup Idle \cup {"off", "scan", "empty", "exit"}]
BY DEF PcType, at, Busy, Idle

LEMMA AtPc == ASSUME PcType, NEW w \in Worker PROVE pc[w] # "tickle" => at[w] = pc[w]
BY DEF at

LEMMA TriggerMoves ==
    ASSUME PcType, NEW w \in Worker, NEW fd, NEW l \in Busy \cup {"push"}, Trigger(w, fd, l)
    PROVE  at' = [at EXCEPT ![w] = l] /\ PcType'
BY ScheduleMoves, GoToMoves DEF Trigger, Idle

LEMMA AddTimerMoves ==
    ASSUME PcType, NEW w \in Worker, NEW t, NEW l \in Busy \cup {"push"}, AddTimer(w, t, l)
    PROVE  at' = [at EXCEPT ![w] = l] /\ PcType'
BY GoToTicklingMoves DEF AddTimer

LEMMA WorkerTickleMoves == ASSUME PcType, NEW w \in Worker, WorkerTickle(w) PROVE at' = at /\ PcType'
<1>1. then[w] \in Busy \cup {"push"} /\ at[w] = then[w] BY DEF PcType, WorkerTickle, at
<1>2. at' = [at EXCEPT ![w] = then[w]] /\ PcType' BY <1>1, GoToMoves DEF WorkerTickle, Idle
<1>. QED BY <1>1, <1>2 DEF at

LEMMA ScanMoves ==
    ASSUME PcType, NEW w \in Worker, Scan(w)
    PROVE  /\ at[w] = "scan" /\ PcType'
           /\ \/ tasks_ = <<>> /\ at' = [at EXCEPT ![w] = "empty"]
              \/ tasks_ # <<>> /\ panicked' /\ at' = at
              \/ tasks_ # <<>> /\ at' = [at EXCEPT ![w] = "run"]
<1>1. at[w] = "scan" BY AtPc DEF Scan
<1>2. CASE tasks_ = <<>> BY <1>1, <1>2, GoToMoves DEF Scan
<1>3. CASE tasks_ # <<>>
  <2>1. CASE Head(tasks_).kind = "fiber" /\ state[Head(tasks_).fiber] # "READY"
    BY <1>1, <1>3, <2>1, StayMoves DEF Scan
  <2>2. CASE ~(Head(tasks_).kind = "fiber" /\ state[Head(tasks_).fiber] # "READY")
    BY <1>1, <1>3, <2>2, GoToTicklingMoves DEF Scan, Busy
  <2>. QED BY <2>1, <2>2
<1>. QED BY <1>2, <1>3

LEMMA FinishMoves ==
    ASSUME PcType, NEW w \in Worker, Finish(w)
    PROVE  at[w] = "finish" /\ at' = [at EXCEPT ![w] = "scan"] /\ PcType'
BY GoToMoves, AtPc DEF Finish, Busy, Idle

LEMMA GoIdleMoves ==
    ASSUME PcType, NEW w \in Worker, GoIdle(w)
    PROVE  at[w] = "empty" /\ at' = [at EXCEPT ![w] = IF idleTerm[w] THEN "exit" ELSE "stopping"] /\ PcType'
BY GoToMoves, AtPc DEF GoIdle, Busy, Idle

LEMMA RunWakeMoves ==
    ASSUME PcType, NEW w \in Worker, RunWake(w)
    PROVE  at[w] = "run" /\ at' = [at EXCEPT ![w] = "finish"] /\ PcType'
BY ScheduleMoves, AtPc DEF RunWake, Busy

LEMMA RunTimeoutMoves ==
    ASSUME PcType, NEW w \in Worker, RunTimeout(w)
    PROVE  at[w] = "run" /\ at' = [at EXCEPT ![w] = "finish"] /\ PcType'
BY TriggerMoves, GoToMoves, AtPc DEF RunTimeout, Busy

LEMMA ResumeMoves ==
    ASSUME PcType, NEW w \in Worker, Resume(w)
    PROVE  at[w] = "run" /\ at' = [at EXCEPT ![w] = "fiber"] /\ PcType'
BY GoToMoves, AtPc DEF Resume, Busy, Idle

LEMMA SleepMoves ==
    ASSUME PcType, NEW w \in Worker, Sleep(w)
    PROVE  at[w] = "fiber" /\ at' = [at EXCEPT ![w] = "yield"] /\ PcType'
BY AddTimerMoves, AtPc DEF Sleep, Calling, Busy

LEMMA ReadNowMoves ==
    ASSUME PcType, NEW w \in Worker, ReadNow(w)
    PROVE  at[w] = "fiber" /\ at' = at /\ PcType'
BY StayMoves, AtPc DEF ReadNow, Calling

LEMMA ReadAgainMoves ==
    ASSUME PcType, NEW w \in Worker, ReadAgain(w)
    PROVE  at[w] = "fiber" /\ at' = at /\ PcType'
<1>1. at[w] = "fiber" BY AtPc DEF ReadAgain, Calling
<1>2. CASE TimerMs(CallOf(task[w].fiber)) > 0
  <2>1. at' = [at EXCEPT ![w] = "fiber"] /\ PcType' BY <1>2, AddTimerMoves DEF ReadAgain, Busy
  <2>. QED BY <1>1, <2>1 DEF at
<1>3. CASE ~(TimerMs(CallOf(task[w].fiber)) > 0) BY <1>1, <1>3, StayMoves DEF ReadAgain
<1>. QED BY <1>2, <1>3

LEMMA AddEventMoves ==
    ASSUME PcType, NEW w \in Worker, AddEvent(w)
    PROVE  at[w] = "fiber" /\ (IF events[CallOf(task[w].fiber).fd] # None THEN at' = at ELSE at' = [at EXCEPT ![w] = "yield"]) /\ PcType'
BY GoToMoves, StayMoves, AtPc DEF AddEvent, Busy

LEMMA CloseMoves ==
    ASSUME PcType, NEW w \in Worker, Close(w)
    PROVE  at[w] = "fiber" /\ at' = at /\ PcType'
<1>1. at[w] = "fiber" BY AtPc DEF Close, Calling
<1>2. at' = [at EXCEPT ![w] = "fiber"] /\ PcType' BY TriggerMoves DEF Close, Busy
<1>. QED BY <1>1, <1>2 DEF at

LEMMA YieldMoves ==
    ASSUME PcType, NEW w \in Worker, Yield(w)
    PROVE  at[w] \in OnFiber /\ at' = [at EXCEPT ![w] = "finish"] /\ PcType'
BY GoToMoves, AtPc DEF Yield, Busy, OnFiber

LEMMA GetNextTimerMoves ==
    ASSUME PcType, NEW w \in Worker, GetNextTimer(w)
    PROVE  at[w] = "stopping" /\ at' = [at EXCEPT ![w] = IF timers_ = {} THEN "stopping2" ELSE "wait"] /\ PcType'
BY GoToMoves, AtPc DEF GetNextTimer, Busy, Idle

LEMMA StoppingMoves ==
    ASSUME PcType, NEW w \in Worker, Stopping(w)
    PROVE  at[w] = "stopping2" /\ at' = [at EXCEPT ![w] = IF CanStop THEN "leaveIdle" ELSE "wait"] /\ PcType'
BY GoToMoves, AtPc DEF Stopping, Busy, Idle

LEMMA EpollWaitMoves ==
    ASSUME PcType, NEW w \in Worker, EpollWait(w)
    PROVE  at[w] = "wait" /\ at' = [at EXCEPT ![w] = "clock"] /\ PcType'
BY GoToMoves, AtPc DEF EpollWait, Busy, Idle

LEMMA ReadClockMoves ==
    ASSUME PcType, NEW w \in Worker, ReadClock(w)
    PROVE  at[w] = "clock" /\ at' = [at EXCEPT ![w] = "expire"] /\ PcType'
BY GoToMoves, AtPc DEF ReadClock, Busy, Idle

LEMMA ListExpiredCbMoves ==
    ASSUME PcType, NEW w \in Worker, ListExpiredCb(w)
    PROVE  at[w] = "expire" /\ at' = [at EXCEPT ![w] = "push"] /\ PcType'
BY GoToMoves, AtPc DEF ListExpiredCb, Busy, Idle

LEMMA PushCbMoves ==
    ASSUME PcType, NEW w \in Worker, PushCb(w)
    PROVE  at[w] = "push" /\ at' = at /\ PcType'
<1>1. at[w] = "push" BY AtPc DEF PushCb
<1>2. at' = [at EXCEPT ![w] = "push"] /\ PcType' BY ScheduleMoves DEF PushCb
<1>. QED BY <1>1, <1>2 DEF at

LEMMA HandleEventMoves ==
    ASSUME PcType, NEW w \in Worker, HandleEvent(w)
    PROVE  at[w] = "push" /\ at' = at /\ PcType'
<1>1. at[w] = "push" BY AtPc DEF HandleEvent
<1>2. at' = [at EXCEPT ![w] = "push"] /\ PcType' BY TriggerMoves DEF HandleEvent
<1>. QED BY <1>1, <1>2 DEF at

LEMMA LeaveIdleMoves ==
    ASSUME PcType, NEW w \in Worker, LeaveIdle(w)
    PROVE  at[w] \in {"push", "leaveIdle"} /\ at' = [at EXCEPT ![w] = "scan"] /\ PcType'
BY GoToMoves, AtPc DEF LeaveIdle

LEMMA ResumeRootMoves ==
    ASSUME PcType, WorkersInv, ResumeRoot
    PROVE  at' = [w \in Worker |-> IF w = setup.caller THEN "scan" ELSE at[w]] /\ PcType'
<1>1. \A w \in Worker : w = setup.caller => at[w] = "off" BY DEF WorkersInv, ResumeRoot
<1>. QED BY <1>1 DEF ResumeRoot, PcType, at, Busy, Idle

---------------------------------------------------------------------------
(* What the values are.                                                    *)

LEMMA SetupFacts ==
    ASSUME setup \in Setups
    PROVE  /\ setup.workers \subseteq Worker /\ setup.workers # {} /\ setup.caller \in setup.workers \cup {None}
           /\ setup.program \in [Fiber -> Seq(Call)]
BY SetupsAssumption DEF Setup

LEMMA TaskFacts ==
    ASSUME NEW t \in Task
    PROVE  /\ t.kind \in {"fiber", "wake", "timeout"} /\ t.fiber \in Fiber /\ t # NoTask
           /\ t.kind # "fiber" => t \in Timed /\ t.call \in Nat
BY DEF Task, Timed, NoTask

LEMMA FiberTaskType == ASSUME NEW f \in Fiber PROVE FiberTask(f) \in Task
BY DEF FiberTask, Task

LEMMA TaskOf ==
    ASSUME TaskType, WorkersInv, NEW w \in Worker, at[w] \in Busy
    PROVE  task[w] \in Task
BY DEF TaskType, WorkersInv

LEMMA CallsToFacts ==
    ASSUME setup \in Setups, NEW f \in Fiber, NEW n, NEW name, CallsTo(f, n, name)
    PROVE  setup.program[f][n] \in Call /\ setup.program[f][n].fd \in Fd
<1>1. setup.program[f][n] \in Call BY SetupFacts DEF CallsTo
<1>. QED BY <1>1 DEF Call

LEMMA CallMs == ASSUME NEW c \in Call, c.call \in {"sleep", "read"} PROVE TimerMs(c) \in Nat
<1>1. CASE c.call = "sleep"
  <2>1. c.ticks \in Nat BY <1>1 DEF Call
  <2>2. MsLength \in Nat \ {0} BY ClockAssumption
  <2>3. c.ticks \div MsLength \in Nat BY <2>1, <2>2
  <2>. QED BY <1>1, <2>3 DEF TimerMs
<1>2. CASE c.call = "read"
  <2>1. c.ms \in Nat BY <1>2 DEF Call
  <2>. QED BY <1>2, <2>1 DEF TimerMs
<1>. QED BY <1>1, <1>2

\* The fiber that a worker runs.
LEMMA OnFiberFacts ==
    ASSUME IInv, NEW w \in Worker, at[w] \in OnFiber
    PROVE  /\ task[w] \in Task /\ task[w].kind = "fiber" /\ task[w].fiber \in Fiber
           /\ state[task[w].fiber] = "RUNNING"
BY TaskOf, TaskFacts DEF IInv, TypeInv, FibersInv, OnFiber, Busy

LEMMA CallingFacts ==
    ASSUME IInv, NEW w \in Worker, NEW name, Calling(w, name)
    PROVE  /\ at[w] = "fiber" /\ task[w].fiber \in Fiber /\ phase[task[w].fiber] = "start"
           /\ CallsTo(task[w].fiber, call[task[w].fiber], name)
           /\ CallOf(task[w].fiber) \in Call /\ CallOf(task[w].fiber).fd \in Fd
<1>1. at[w] = "fiber" /\ phase[task[w].fiber] = "start" BY AtPc DEF Calling, IInv, TypeInv
<1>2. task[w].fiber \in Fiber BY <1>1, OnFiberFacts DEF OnFiber
<1>3. setup.program[task[w].fiber] \in Seq(Call) BY <1>2, SetupFacts DEF IInv, TypeInv, MainType
<1>4. call[task[w].fiber] \in 1 .. Len(setup.program[task[w].fiber])
  BY <1>2, <1>3 DEF Calling, IInv, TypeInv, FiberType
<1>5. CallsTo(task[w].fiber, call[task[w].fiber], name) BY <1>3, <1>4 DEF CallsTo, Calling, CallOf
<1>. QED BY <1>1, <1>2, <1>5, CallsToFacts DEF IInv, TypeInv, MainType, CallOf

\* A call that waits for its event.
LEMMA AddEventFacts ==
    ASSUME IInv, NEW w \in Worker, AddEvent(w)
    PROVE  /\ at[w] = "fiber" /\ task[w].fiber \in Fiber /\ CallsTo(task[w].fiber, call[task[w].fiber], "read")
           /\ CallOf(task[w].fiber).fd \in Fd
<1>1. at[w] = "fiber" /\ task[w].fiber \in Fiber BY AtPc, OnFiberFacts DEF OnFiber, AddEvent, IInv, TypeInv
<1>2. CallsTo(task[w].fiber, call[task[w].fiber], "read") BY <1>1 DEF AddEvent, IInv, CallsInv, FiberCalls
<1>. QED BY <1>1, <1>2, CallsToFacts DEF IInv, TypeInv, MainType, CallOf

\* A read whose time is up.
LEMMA TimeoutFacts ==
    ASSUME IInv, NEW w \in Worker, RunTimeout(w)
    PROVE  /\ task[w] \in Task /\ task[w].fiber \in Fiber
           /\ call[task[w].fiber] = task[w].call =>
                CallsTo(task[w].fiber, call[task[w].fiber], "read") /\ CallOf(task[w].fiber).fd \in Fd
<1>1. at[w] = "run" /\ task[w].kind = "timeout" BY RunTimeoutMoves DEF RunTimeout, IInv, TypeInv
<1>2. task[w] \in Task /\ task[w].fiber \in Fiber /\ Stamped(task[w])
  BY <1>1, TaskOf, TaskFacts DEF IInv, TypeInv, CallsInv, TaskCalls, Busy
<1>3. CallsTo(task[w].fiber, task[w].call, "read") BY <1>1, <1>2 DEF Stamped
<1>. QED BY <1>2, <1>3, CallsToFacts DEF IInv, TypeInv, MainType, CallOf

---------------------------------------------------------------------------
(* Every step keeps the types.                                             *)

LEMMA AppendTask == ASSUME tasks_ \in Seq(Task), NEW t \in Task PROVE Append(tasks_, t) \in Seq(Task)
OBVIOUS

LEMMA MainStepTypes ==
    ASSUME IInv, \/ \E f \in Fiber : Submit(f)
                 \/ MainTickle \/ Stop \/ StopTickle \/ ResumeRoot \/ Join \/ Tick \/ \E fd \in Fd : Arrive(fd)
    PROVE  TypeInv'
<1>. USE StayMoves DEF mainVars, schedVars, runVars, idleVars, timerVars, ioVars, envVars, fiberVars
<1>1. ASSUME NEW f \in Fiber, Submit(f) PROVE TypeInv'
  BY <1>1, FiberTaskType, AppendTask DEF Submit, IInv, TypeInv, MainType, TaskType, TimerType, SocketType, FiberType
<1>2. CASE MainTickle BY <1>2 DEF MainTickle, Tickle, IInv, TypeInv, MainType, TaskType, TimerType, SocketType,
     FiberType
<1>3. CASE Stop
  <2>1. Cardinality(setup.workers) \in 0 .. Cardinality(Worker)
    BY SetupFacts, ThreadsAssumption, FS_Subset, FS_CardinalityType DEF IInv, TypeInv, MainType, TaskType,
       TimerType, SocketType, FiberType
  <2>. QED BY <1>3, <2>1 DEF Stop, IInv, TypeInv, MainType, TaskType, TimerType, SocketType, FiberType
<1>4. CASE StopTickle
  <2>1. toTickle - 1 \in 0 .. Cardinality(Worker)
    BY <1>4, ThreadsAssumption, FS_CardinalityType DEF StopTickle, IInv, TypeInv, MainType, TaskType, TimerType,
       SocketType, FiberType
  <2>. QED BY <1>4, <2>1 DEF StopTickle, Tickle, IInv, TypeInv, MainType, TaskType, TimerType, SocketType, FiberType
<1>5. CASE ResumeRoot BY <1>5, ResumeRootMoves DEF ResumeRoot, IInv, TypeInv, MainType, TaskType, TimerType,
     SocketType, FiberType
<1>6. CASE Join BY <1>6 DEF Join, IInv, TypeInv, MainType, TaskType, TimerType, SocketType, FiberType
<1>7. CASE Tick BY <1>7 DEF Tick, IInv, TypeInv, MainType, TaskType, TimerType, SocketType, FiberType
<1>8. ASSUME NEW fd \in Fd, Arrive(fd) PROVE TypeInv'
  <2>1. data[fd] + 1 \in Nat BY DEF IInv, TypeInv, MainType, TaskType, TimerType, SocketType, FiberType
  <2>. QED BY <1>8, <2>1 DEF Arrive, IInv, TypeInv, MainType, TaskType, TimerType, SocketType, FiberType
<1>. QED BY <1>1, <1>2, <1>3, <1>4, <1>5, <1>6, <1>7, <1>8

LEMMA WorkerTickleTypes == ASSUME IInv, NEW w \in Worker, WorkerTickle(w) PROVE TypeInv'
BY WorkerTickleMoves DEF WorkerTickle, mainVars, schedVars, runVars, idleVars, timerVars, ioVars, envVars,
   fiberVars, IInv, TypeInv, MainType, TaskType, TimerType, SocketType, FiberType, Tickle

LEMMA ScanTypes == ASSUME IInv, NEW w \in Worker, Scan(w) PROVE TypeInv'
<1>1. TaskType'
  <2>1. CASE tasks_ # <<>>
    <3>1. Head(tasks_) \in Task /\ Tail(tasks_) \in Seq(Task) BY <2>1 DEF IInv, TypeInv, TaskType
    <3>. QED BY <2>1, <3>1 DEF Scan, mainVars, schedVars, runVars, idleVars, timerVars, ioVars, envVars, fiberVars,
         IInv, TypeInv, TaskType
  <2>2. CASE tasks_ = <<>> BY <2>2 DEF Scan, mainVars, schedVars, runVars, idleVars, timerVars, ioVars, envVars,
       fiberVars, IInv, TypeInv, TaskType
  <2>. QED BY <2>1, <2>2
<1>2. panicked' \in BOOLEAN BY DEF Scan, IInv, TypeInv, MainType
<1>3. MainType' BY <1>2 DEF Scan, mainVars, schedVars, runVars, idleVars, timerVars, ioVars, envVars, fiberVars,
     IInv, TypeInv, MainType
<1>4. TimerType' /\ SocketType' /\ FiberType'
  BY DEF Scan, mainVars, schedVars, runVars, idleVars, timerVars, ioVars, envVars, fiberVars, IInv, TypeInv,
     TimerType, SocketType, FiberType
<1>. QED BY <1>1, <1>3, <1>4, ScanMoves DEF IInv, TypeInv

LEMMA GoIdleTypes == ASSUME IInv, NEW w \in Worker, GoIdle(w) PROVE TypeInv'
BY GoIdleMoves DEF GoIdle, mainVars, schedVars, runVars, idleVars, timerVars, ioVars, envVars, fiberVars, IInv,
   TypeInv, MainType, TaskType, TimerType, SocketType, FiberType

LEMMA FinishTypes == ASSUME IInv, NEW w \in Worker, Finish(w) PROVE TypeInv'
BY FinishMoves DEF Finish, mainVars, schedVars, runVars, idleVars, timerVars, ioVars, envVars, fiberVars, IInv,
   TypeInv, MainType, TaskType, TimerType, SocketType, FiberType

LEMMA RunWakeTypes == ASSUME IInv, NEW w \in Worker, RunWake(w) PROVE TypeInv'
<1>1. FiberTask(task[w].fiber) \in Task
  BY RunWakeMoves, TaskOf, TaskFacts, FiberTaskType DEF IInv, TypeInv, Busy
<1>. QED BY <1>1, RunWakeMoves, AppendTask DEF RunWake, Schedule, mainVars, schedVars, runVars, idleVars,
     timerVars, ioVars, envVars, fiberVars, IInv, TypeInv, MainType, TaskType, TimerType, SocketType, FiberType

LEMMA TriggerTypes ==
    ASSUME IInv, NEW w \in Worker, NEW fd \in Fd, NEW l, Trigger(w, fd, l)
    PROVE  tasks_' \in Seq(Task) /\ events' \in [Fd -> Fiber \cup {None}]
<1>1. CASE events[fd] = None BY <1>1 DEF Trigger, IInv, TypeInv, MainType, TaskType, TimerType, SocketType, FiberType
<1>2. CASE events[fd] # None
  <2>1. FiberTask(events[fd]) \in Task BY <1>2, FiberTaskType DEF IInv, TypeInv, MainType, TaskType, TimerType,
       SocketType, FiberType
  <2>. QED BY <1>2, <2>1, AppendTask DEF Trigger, Schedule, IInv, TypeInv, MainType, TaskType, TimerType,
       SocketType, FiberType
<1>. QED BY <1>1, <1>2

LEMMA RunTimeoutTypes == ASSUME IInv, NEW w \in Worker, RunTimeout(w) PROVE TypeInv'
<1>1. tasks_' \in Seq(Task) /\ events' \in [Fd -> Fiber \cup {None}]
      /\ cnacelled' \in [Fiber -> BOOLEAN]
  <2>1. CASE call[task[w].fiber] = task[w].call /\ ~cnacelled[task[w].fiber]
    BY <2>1, TimeoutFacts, TriggerTypes DEF RunTimeout, IInv, TypeInv, MainType, TaskType, TimerType, SocketType,
       FiberType
  <2>2. CASE ~(call[task[w].fiber] = task[w].call /\ ~cnacelled[task[w].fiber])
    BY <2>2 DEF RunTimeout, IInv, TypeInv, MainType, TaskType, TimerType, SocketType, FiberType
  <2>. QED BY <2>1, <2>2
<1>. QED BY <1>1, RunTimeoutMoves DEF RunTimeout, mainVars, schedVars, runVars, idleVars, timerVars, ioVars,
     envVars, fiberVars, IInv, TypeInv, MainType, TaskType, TimerType, SocketType, FiberType

LEMMA NextCallTypes ==
    ASSUME FiberType, NEW f \in Fiber, NextCall(f)
    PROVE  /\ phase' \in [Fiber -> {"start", "asleep", "addEvent", "waiting"}]
           /\ call' \in [Fiber -> Nat \ {0}] /\ cnacelled' \in [Fiber -> BOOLEAN]
BY DEF NextCall, FiberType

LEMMA ResumeTypes == ASSUME IInv, NEW w \in Worker, Resume(w) PROVE TypeInv'
<1>1. task[w].fiber \in Fiber BY ResumeMoves, TaskOf, TaskFacts DEF IInv, TypeInv, Busy
<1>2. FiberType'
  <2>1. CASE phase[task[w].fiber] = "asleep" \/ (phase[task[w].fiber] = "waiting" /\ cnacelled[task[w].fiber])
    BY <1>1, <2>1, NextCallTypes DEF Resume, IInv, TypeInv, FiberType
  <2>2. CASE ~(phase[task[w].fiber] = "asleep" \/ (phase[task[w].fiber] = "waiting" /\ cnacelled[task[w].fiber]))
    BY <1>1, <2>2 DEF Resume, IInv, TypeInv, FiberType
  <2>. QED BY <2>1, <2>2
<1>3. timers_' \subseteq timers_ BY DEF Resume
<1>4. TimerType' BY <1>3, FS_Subset DEF Resume, mainVars, schedVars, runVars, idleVars, timerVars, ioVars, envVars,
     fiberVars, IInv, TypeInv, TimerType
<1>. QED BY <1>2, <1>4, ResumeMoves DEF Resume, mainVars, schedVars, runVars, idleVars, timerVars, ioVars, envVars,
     fiberVars, IInv, TypeInv, MainType, TaskType, SocketType

LEMMA AddTimerTypes ==
    ASSUME IInv, NEW w \in Worker, NEW t \in Timer, NEW l, AddTimer(w, t, l)
    PROVE  /\ timers_' \in SUBSET Timer /\ IsFiniteSet(timers_') /\ tickled_' \in BOOLEAN
           /\ due' \in [Fiber -> Nat] /\ previouseTime_' = previouseTime_
<1>1. t.fiber \in Fiber /\ t.next \in Nat BY DEF Timer
<1>2. IsFiniteSet(timers_ \cup {t}) BY FS_AddElement DEF IInv, TypeInv, MainType, TaskType, TimerType, SocketType,
     FiberType
<1>3. tickled_' \in BOOLEAN BY DEF AddTimer, IInv, TypeInv, MainType, TaskType, TimerType, SocketType, FiberType
<1>. QED BY <1>1, <1>2, <1>3 DEF AddTimer, IInv, TypeInv, MainType, TaskType, TimerType, SocketType, FiberType

LEMMA NewTimerType ==
    ASSUME IInv, NEW k \in {"wake", "timeout"}, NEW f \in Fiber, CallOf(f) \in Call,
           CallOf(f).call \in {"sleep", "read"}
    PROVE  [kind |-> k, fiber |-> f, call |-> call[f], next |-> now + TimerMs(CallOf(f))] \in Timer
<1>1. TimerMs(CallOf(f)) \in Nat BY CallMs
<1>. QED BY <1>1 DEF Timer, IInv, TypeInv, MainType, TaskType, TimerType, SocketType, FiberType

LEMMA SleepTypes == ASSUME IInv, NEW w \in Worker, Sleep(w) PROVE TypeInv'
<1>1. task[w].fiber \in Fiber /\ CallOf(task[w].fiber) \in Call /\ CallOf(task[w].fiber).call = "sleep"
  BY CallingFacts DEF Sleep, Calling
<1>2. [kind |-> "wake", fiber |-> task[w].fiber, call |-> call[task[w].fiber],
       next |-> now + TimerMs(CallOf(task[w].fiber))] \in Timer BY <1>1, NewTimerType
<1>3. /\ timers_' \in SUBSET Timer /\ IsFiniteSet(timers_') /\ tickled_' \in BOOLEAN
      /\ due' \in [Fiber -> Nat] /\ previouseTime_' = previouseTime_
  BY <1>2, AddTimerTypes DEF Sleep
<1>. QED BY <1>1, <1>3, SleepMoves DEF Sleep, mainVars, schedVars, runVars, idleVars, timerVars, ioVars, envVars,
     fiberVars, IInv, TypeInv, MainType, TaskType, TimerType, SocketType, FiberType

LEMMA ReadNowTypes == ASSUME IInv, NEW w \in Worker, ReadNow(w) PROVE TypeInv'
<1>1. task[w].fiber \in Fiber /\ CallOf(task[w].fiber).fd \in Fd BY CallingFacts DEF ReadNow
<1>2. data' \in [Fd -> Nat] BY <1>1 DEF ReadNow, IInv, TypeInv, MainType, TaskType, TimerType, SocketType, FiberType
<1>3. FiberType' BY <1>1, NextCallTypes DEF ReadNow, IInv, TypeInv, FiberType
<1>. QED BY <1>2, <1>3, ReadNowMoves DEF ReadNow, mainVars, schedVars, runVars, idleVars, timerVars, ioVars,
     envVars, fiberVars, IInv, TypeInv, MainType, TaskType, TimerType, SocketType

LEMMA ReadAgainTypes == ASSUME IInv, NEW w \in Worker, ReadAgain(w) PROVE TypeInv'
<1>1. task[w].fiber \in Fiber /\ CallOf(task[w].fiber) \in Call /\ CallOf(task[w].fiber).call = "read"
  BY CallingFacts DEF ReadAgain, Calling
<1>2. [kind |-> "timeout", fiber |-> task[w].fiber, call |-> call[task[w].fiber],
       next |-> now + TimerMs(CallOf(task[w].fiber))] \in Timer BY <1>1, NewTimerType
<1>3. /\ timers_' \in SUBSET Timer /\ IsFiniteSet(timers_') /\ tickled_' \in BOOLEAN
      /\ due' \in [Fiber -> Nat] /\ previouseTime_' = previouseTime_
  <2>1. CASE TimerMs(CallOf(task[w].fiber)) > 0 BY <1>2, <2>1, AddTimerTypes DEF ReadAgain
  <2>2. CASE ~(TimerMs(CallOf(task[w].fiber)) > 0) BY <2>2 DEF ReadAgain, mainVars, schedVars, runVars, idleVars,
       timerVars, ioVars, envVars, fiberVars, IInv, TypeInv, MainType, TaskType, TimerType, SocketType, FiberType
  <2>. QED BY <2>1, <2>2
<1>. QED BY <1>1, <1>3, ReadAgainMoves DEF ReadAgain, mainVars, schedVars, runVars, idleVars, timerVars, ioVars,
     envVars, fiberVars, IInv, TypeInv, MainType, TaskType, TimerType, SocketType, FiberType

LEMMA AddEventTypes == ASSUME IInv, NEW w \in Worker, AddEvent(w) PROVE TypeInv'
<1>1. panicked' \in BOOLEAN BY DEF AddEvent, IInv, TypeInv, MainType, TaskType, TimerType, SocketType, FiberType
<1>2. PcType' BY AddEventMoves DEF IInv, TypeInv
<1>3. task[w].fiber \in Fiber /\ CallOf(task[w].fiber).fd \in Fd BY AddEventFacts
<1>4. /\ events' \in [Fd -> Fiber \cup {None}]
      /\ phase' \in [Fiber -> {"start", "asleep", "addEvent", "waiting"}]
  BY <1>3 DEF AddEvent, IInv, TypeInv, SocketType, FiberType
<1>5. UNCHANGED <<mainVars, schedVars, runVars, idleVars, pipe, timerVars, data, closed, envVars, state, call,
                  cnacelled, due>>
  BY DEF AddEvent
<1>. QED BY <1>1, <1>2, <1>4, <1>5 DEF mainVars, schedVars, runVars, idleVars, timerVars, envVars, IInv, TypeInv,
     MainType, TaskType, TimerType, SocketType, FiberType

LEMMA CloseTypes == ASSUME IInv, NEW w \in Worker, Close(w) PROVE TypeInv'
<1>1. task[w].fiber \in Fiber /\ CallOf(task[w].fiber).fd \in Fd BY CallingFacts DEF Close
<1>2. tasks_' \in Seq(Task) /\ events' \in [Fd -> Fiber \cup {None}] BY <1>1, TriggerTypes DEF Close
<1>3. FiberType' BY <1>1, NextCallTypes DEF Close, IInv, TypeInv, FiberType
<1>. QED BY <1>1, <1>2, <1>3, CloseMoves DEF Close, mainVars, schedVars, runVars, idleVars, timerVars, ioVars,
     envVars, fiberVars, IInv, TypeInv, MainType, TaskType, TimerType, SocketType

LEMMA YieldTypes == ASSUME IInv, NEW w \in Worker, Yield(w) PROVE TypeInv'
<1>1. state' \in [Fiber -> {"READY", "RUNNING", "TERM"}] BY DEF Yield, IInv, TypeInv, MainType, TaskType,
     TimerType, SocketType, FiberType
<1>. QED BY <1>1, YieldMoves DEF Yield, mainVars, schedVars, runVars, idleVars, timerVars, ioVars, envVars,
     fiberVars, IInv, TypeInv, MainType, TaskType, TimerType, SocketType, FiberType

LEMMA GetNextTimerTypes == ASSUME IInv, NEW w \in Worker, GetNextTimer(w) PROVE TypeInv'
BY GetNextTimerMoves DEF GetNextTimer, mainVars, schedVars, runVars, idleVars, timerVars, ioVars, envVars,
   fiberVars, IInv, TypeInv, MainType, TaskType, TimerType, SocketType, FiberType

LEMMA StoppingTypes == ASSUME IInv, NEW w \in Worker, Stopping(w) PROVE TypeInv'
BY StoppingMoves DEF Stopping, mainVars, schedVars, runVars, idleVars, timerVars, ioVars, envVars, fiberVars, IInv,
   TypeInv, MainType, TaskType, TimerType, SocketType, FiberType, CanStop

LEMMA EpollWaitTypes == ASSUME IInv, NEW w \in Worker, EpollWait(w) PROVE TypeInv'
BY EpollWaitMoves DEF EpollWait, mainVars, schedVars, runVars, idleVars, timerVars, ioVars, envVars, fiberVars,
   IInv, TypeInv, MainType, TaskType, TimerType, SocketType, FiberType, Ready

LEMMA ReadClockTypes == ASSUME IInv, NEW w \in Worker, ReadClock(w) PROVE TypeInv'
BY ReadClockMoves DEF ReadClock, mainVars, schedVars, runVars, idleVars, timerVars, ioVars, envVars, fiberVars,
   IInv, TypeInv, MainType, TaskType, TimerType, SocketType, FiberType

LEMMA ListExpiredCbTypes == ASSUME IInv, NEW w \in Worker, ListExpiredCb(w) PROVE TypeInv'
<1>1. Expired(nowMs[w]) \subseteq timers_ BY DEF Expired
<1>2. IsFiniteSet(timers_ \ Expired(nowMs[w])) /\ IsFiniteSet(Expired(nowMs[w])) BY <1>1, FS_Subset DEF IInv,
     TypeInv, MainType, TaskType, TimerType, SocketType, FiberType
<1>3. TimerType' BY <1>1, <1>2 DEF ListExpiredCb, mainVars, schedVars, runVars, idleVars, timerVars, ioVars,
     envVars, fiberVars, IInv, TypeInv, TimerType
<1>. QED BY <1>3, ListExpiredCbMoves DEF ListExpiredCb, mainVars, schedVars, runVars, idleVars, timerVars, ioVars,
     envVars, fiberVars, IInv, TypeInv, MainType, TaskType, SocketType, FiberType

LEMMA PushCbTypes == ASSUME IInv, NEW w \in Worker, PushCb(w) PROVE TypeInv'
<1>1. PICK t \in cbs[w] : /\ cbs' = [cbs EXCEPT ![w] = @ \ {t}]
                           /\ Schedule(w, [kind |-> t.kind, fiber |-> t.fiber, call |-> t.call], "push")
  BY DEF PushCb
<1>2. t \in Timer BY DEF IInv, TypeInv, MainType, TaskType, TimerType, SocketType, FiberType
<1>3. [kind |-> t.kind, fiber |-> t.fiber, call |-> t.call] \in Task BY <1>2 DEF Timer, Task, Timed
<1>4. tasks_' \in Seq(Task) BY <1>1, <1>3, AppendTask DEF Schedule, IInv, TypeInv, MainType, TaskType, TimerType,
     SocketType, FiberType
<1>5. IsFiniteSet(cbs[w] \ {t}) BY FS_Subset DEF IInv, TypeInv, MainType, TaskType, TimerType, SocketType, FiberType
<1>6. TimerType' BY <1>1, <1>5 DEF PushCb, mainVars, schedVars, runVars, idleVars, timerVars, ioVars, envVars,
     fiberVars, IInv, TypeInv, TimerType
<1>. QED BY <1>4, <1>6, PushCbMoves DEF PushCb, mainVars, schedVars, runVars, idleVars, timerVars, ioVars, envVars,
     fiberVars, IInv, TypeInv, MainType, TaskType, SocketType, FiberType

LEMMA HandleEventTypes == ASSUME IInv, NEW w \in Worker, HandleEvent(w) PROVE TypeInv'
<1>1. PICK fd \in got[w] : got' = [got EXCEPT ![w] = @ \ {fd}] /\ Trigger(w, fd, "push")
  BY DEF HandleEvent
<1>2. fd \in Fd BY DEF IInv, TypeInv, MainType, TaskType, TimerType, SocketType, FiberType
<1>3. tasks_' \in Seq(Task) /\ events' \in [Fd -> Fiber \cup {None}] BY <1>1, <1>2, TriggerTypes
<1>. QED BY <1>1, <1>3, HandleEventMoves DEF HandleEvent, mainVars, schedVars, runVars, idleVars, timerVars,
     ioVars, envVars, fiberVars, IInv, TypeInv, MainType, TaskType, TimerType, SocketType, FiberType

LEMMA LeaveIdleTypes == ASSUME IInv, NEW w \in Worker, LeaveIdle(w) PROVE TypeInv'
BY LeaveIdleMoves DEF LeaveIdle, mainVars, schedVars, runVars, idleVars, timerVars, ioVars, envVars, fiberVars,
   IInv, TypeInv, MainType, TaskType, TimerType, SocketType, FiberType

---------------------------------------------------------------------------
(* The counts stay what they stand for.                                    *)

LEMMA MoveCounts ==
    ASSUME PcType, NEW w \in Worker, NEW l, at' = [at EXCEPT ![w] = l], NEW P
    PROVE  /\ (at[w] \in P <=> l \in P) => Cardinality(Counted(P))' = Cardinality(Counted(P))
           /\ at[w] \notin P /\ l \in P => Cardinality(Counted(P))' = Cardinality(Counted(P)) + 1
           /\ at[w] \in P /\ l \notin P => Cardinality(Counted(P))' = Cardinality(Counted(P)) - 1
<1>1. \A v \in Worker : at'[v] = IF v = w THEN l ELSE at[v] BY AtType
<1>2. IsFiniteSet(Counted(P)) BY ThreadsAssumption, FS_Subset DEF Counted
<1>3. CASE at[w] \in P <=> l \in P
  <2>1. Counted(P)' = Counted(P) BY <1>1, <1>3 DEF Counted
  <2>. QED BY <1>3, <2>1
<1>4. CASE at[w] \notin P /\ l \in P
  <2>1. Counted(P)' = Counted(P) \cup {w} /\ w \notin Counted(P) BY <1>1, <1>4 DEF Counted
  <2>. QED BY <1>2, <1>4, <2>1, FS_AddElement
<1>5. CASE at[w] \in P /\ l \notin P
  <2>1. Counted(P)' = Counted(P) \ {w} /\ w \in Counted(P) BY <1>1, <1>5 DEF Counted
  <2>. QED BY <1>2, <1>5, <2>1, FS_RemoveElement
<1>. QED BY <1>3, <1>4, <1>5

LEMMA MoveKeepsCounts ==
    ASSUME PcType, WorkersCounted, NEW w \in Worker, NEW l, at' = [at EXCEPT ![w] = l],
           at[w] \in Idle <=> l \in Idle, at[w] \in Busy <=> l \in Busy,
           UNCHANGED <<idleThreadCnt_, activeThreadCnt_>>
    PROVE  WorkersCounted'
BY MoveCounts DEF WorkersCounted

LEMMA StayKeepsCounts ==
    ASSUME WorkersCounted, at' = at, UNCHANGED <<idleThreadCnt_, activeThreadCnt_>>
    PROVE  WorkersCounted'
BY DEF WorkersCounted, Counted

LEMMA EventCounts ==
    ASSUME SocketType, NEW fd \in Fd, NEW f \in Fiber \cup {None}, events' = [events EXCEPT ![fd] = f]
    PROVE  /\ events[fd] = None /\ f # None => Cardinality(Pending)' = Cardinality(Pending) + 1
           /\ events[fd] # None /\ f = None => Cardinality(Pending)' = Cardinality(Pending) - 1
<1>1. \A d \in Fd : events'[d] = IF d = fd THEN f ELSE events[d] BY DEF SocketType
<1>2. IsFiniteSet(Pending) BY ThreadsAssumption, FS_Subset DEF Pending
<1>3. CASE events[fd] = None /\ f # None
  <2>1. Pending' = Pending \cup {fd} /\ fd \notin Pending BY <1>1, <1>3 DEF Pending
  <2>. QED BY <1>2, <1>3, <2>1, FS_AddElement
<1>4. CASE events[fd] # None /\ f = None
  <2>1. Pending' = Pending \ {fd} /\ fd \in Pending BY <1>1, <1>4 DEF Pending
  <2>. QED BY <1>2, <1>4, <2>1, FS_RemoveElement
<1>. QED BY <1>3, <1>4

LEMMA TriggerCounts ==
    ASSUME SocketType, SocketsCounted, NEW w, NEW fd \in Fd, NEW l, Trigger(w, fd, l)
    PROVE  SocketsCounted'
<1>1. CASE events[fd] = None BY <1>1 DEF Trigger, SocketsCounted, Pending
<1>2. CASE events[fd] # None BY <1>2, EventCounts DEF Trigger, SocketsCounted
<1>. QED BY <1>1, <1>2

LEMMA MainStepCounts ==
    ASSUME IInv, \/ \E f \in Fiber : Submit(f)
                 \/ MainTickle \/ Stop \/ StopTickle \/ ResumeRoot \/ Join \/ Tick \/ \E fd \in Fd : Arrive(fd)
    PROVE  CountersInv'
<1>1. SocketsCounted'
  BY DEF Submit, MainTickle, Stop, StopTickle, ResumeRoot, Join, Tick, Arrive, ioVars,
     IInv, CountersInv, SocketsCounted, Pending
<1>2. CASE ResumeRoot
  <2>1. \A w \in Worker : w = setup.caller => at[w] = "off" BY <1>2 DEF IInv, WorkersInv, ResumeRoot
  <2>2. Counted(Idle)' = Counted(Idle) /\ Counted(Busy)' = Counted(Busy)
    BY <1>2, <2>1, ResumeRootMoves DEF IInv, TypeInv, Counted, Idle, Busy
  <2>3. WorkersCounted' BY <1>2, <2>2 DEF ResumeRoot, schedVars, IInv, CountersInv, WorkersCounted
  <2>. QED BY <1>1, <2>3 DEF CountersInv
<1>3. CASE ~ResumeRoot
  <2>1. UNCHANGED <<pc, then, idleThreadCnt_, activeThreadCnt_>>
    BY <1>3 DEF Submit, MainTickle, Stop, StopTickle, Join, Tick, Arrive, schedVars
  <2>2. WorkersCounted' BY <2>1, StayMoves, StayKeepsCounts DEF IInv, TypeInv, CountersInv
  <2>. QED BY <1>1, <2>2 DEF CountersInv
<1>. QED BY <1>2, <1>3

LEMMA WorkerStepCountsSockets == ASSUME IInv, NEW w \in Worker, WorkerStep(w) PROVE SocketsCounted'
<1>. USE DEF IInv, TypeInv, CountersInv
<1>1. CASE UNCHANGED <<events, pendingEventCnt_>> BY <1>1 DEF SocketsCounted, Pending
<1>2. CASE RunTimeout(w)
  <2>1. CASE call[task[w].fiber] = task[w].call /\ ~cnacelled[task[w].fiber]
    BY <1>2, <2>1, TimeoutFacts, TriggerCounts DEF RunTimeout
  <2>2. CASE ~(call[task[w].fiber] = task[w].call /\ ~cnacelled[task[w].fiber])
    BY <1>1, <1>2, <2>2 DEF RunTimeout
  <2>. QED BY <2>1, <2>2
<1>3. CASE Close(w)
  <2>1. CallOf(task[w].fiber).fd \in Fd BY <1>3, CallingFacts DEF Close
  <2>. QED BY <1>3, <2>1, TriggerCounts DEF Close
<1>4. CASE HandleEvent(w)
  <2>1. PICK fd \in got[w] : Trigger(w, fd, "push") BY <1>4 DEF HandleEvent
  <2>2. fd \in Fd BY DEF SocketType
  <2>. QED BY <2>1, <2>2, TriggerCounts
<1>5. CASE AddEvent(w)
  <2>1. CallOf(task[w].fiber).fd \in Fd /\ task[w].fiber \in Fiber /\ task[w].fiber # None
    BY <1>5, AddEventFacts, ThreadsAssumption
  <2>2. CASE events[CallOf(task[w].fiber).fd] = None
    BY <1>5, <2>1, <2>2, EventCounts DEF AddEvent, SocketsCounted
  <2>3. CASE events[CallOf(task[w].fiber).fd] # None BY <1>1, <1>5, <2>3 DEF AddEvent
  <2>. QED BY <2>2, <2>3
<1>6. CASE ~(RunTimeout(w) \/ Close(w) \/ HandleEvent(w) \/ AddEvent(w))
  <2>1. UNCHANGED <<events, pendingEventCnt_>>
    BY <1>6 DEF WorkerStep, RunStep, FiberStep, IdleStep, WorkerTickle, Scan, GoIdle, Finish, RunWake, Resume, Sleep,
       ReadNow, ReadAgain, Yield, GetNextTimer, Stopping, EpollWait, ReadClock, ListExpiredCb, PushCb, LeaveIdle,
       ioVars
  <2>. QED BY <1>1, <2>1
<1>. QED BY <1>2, <1>3, <1>4, <1>5, <1>6


LEMMA WorkerStepCounts == ASSUME IInv, NEW w \in Worker, WorkerStep(w) PROVE CountersInv'
<1>. USE DEF IInv, TypeInv, CountersInv
<1>. SUFFICES WorkersCounted' BY WorkerStepCountsSockets
<1>1. CASE WorkerTickle(w) BY <1>1, WorkerTickleMoves, StayKeepsCounts DEF WorkerTickle, Schedule, Trigger, schedVars
<1>2. CASE ReadNow(w) BY <1>2, ReadNowMoves, StayKeepsCounts DEF ReadNow, Schedule, Trigger, schedVars
<1>3. CASE ReadAgain(w) BY <1>3, ReadAgainMoves, StayKeepsCounts DEF ReadAgain, Schedule, Trigger, schedVars
<1>4. CASE Close(w) BY <1>4, CloseMoves, StayKeepsCounts DEF Close, Schedule, Trigger, schedVars
<1>5. CASE PushCb(w) BY <1>5, PushCbMoves, StayKeepsCounts DEF PushCb, Schedule, Trigger, schedVars
<1>6. CASE HandleEvent(w) BY <1>6, HandleEventMoves, StayKeepsCounts DEF HandleEvent, Schedule, Trigger, schedVars
<1>7. CASE RunWake(w) BY <1>7, RunWakeMoves, MoveKeepsCounts DEF RunWake, schedVars, Idle, Busy, OnFiber
<1>8. CASE RunTimeout(w) BY <1>8, RunTimeoutMoves, MoveKeepsCounts DEF RunTimeout, schedVars, Idle, Busy, OnFiber
<1>9. CASE Resume(w) BY <1>9, ResumeMoves, MoveKeepsCounts DEF Resume, schedVars, Idle, Busy, OnFiber
<1>10. CASE Sleep(w) BY <1>10, SleepMoves, MoveKeepsCounts DEF Sleep, schedVars, Idle, Busy, OnFiber
<1>11. CASE GetNextTimer(w) BY <1>11, GetNextTimerMoves, MoveKeepsCounts DEF GetNextTimer, schedVars, Idle, Busy,
     OnFiber
<1>12. CASE Stopping(w) BY <1>12, StoppingMoves, MoveKeepsCounts DEF Stopping, schedVars, Idle, Busy, OnFiber
<1>13. CASE EpollWait(w) BY <1>13, EpollWaitMoves, MoveKeepsCounts DEF EpollWait, schedVars, Idle, Busy, OnFiber
<1>14. CASE ReadClock(w) BY <1>14, ReadClockMoves, MoveKeepsCounts DEF ReadClock, schedVars, Idle, Busy, OnFiber
<1>15. CASE ListExpiredCb(w) BY <1>15, ListExpiredCbMoves, MoveKeepsCounts DEF ListExpiredCb, schedVars, Idle,
     Busy, OnFiber
<1>16. CASE Yield(w) BY <1>16, YieldMoves, MoveKeepsCounts DEF Yield, schedVars, Idle, Busy, OnFiber
<1>17. CASE AddEvent(w)
  <2>1. CASE events[CallOf(task[w].fiber).fd] # None
    BY <1>17, <2>1, AddEventMoves, StayKeepsCounts DEF AddEvent, schedVars
  <2>2. CASE events[CallOf(task[w].fiber).fd] = None
    BY <1>17, <2>2, AddEventMoves, MoveKeepsCounts DEF AddEvent, schedVars, Idle, Busy
  <2>. QED BY <2>1, <2>2
<1>18. CASE Scan(w)
  <2>1. CASE tasks_ = <<>> BY <1>18, <2>1, ScanMoves, MoveKeepsCounts DEF Scan, Idle, Busy
  <2>2. CASE tasks_ # <<>>
    <3>1. CASE Head(tasks_).kind = "fiber" /\ state[Head(tasks_).fiber] # "READY"
      <4>1. UNCHANGED <<pc, then, idleThreadCnt_, activeThreadCnt_>> BY <1>18, <2>2, <3>1 DEF Scan
      <4>. QED BY <4>1, StayMoves, StayKeepsCounts
    <3>2. CASE ~(Head(tasks_).kind = "fiber" /\ state[Head(tasks_).fiber] # "READY")
      <4>1. at[w] = "scan" /\ at' = [at EXCEPT ![w] = "run"]
        BY <1>18, <2>2, <3>2, ScanMoves, GoToTicklingMoves DEF Scan, Busy
      <4>2. activeThreadCnt_' = activeThreadCnt_ + 1 /\ idleThreadCnt_' = idleThreadCnt_
        BY <1>18, <2>2, <3>2 DEF Scan
      <4>3. at[w] \notin Busy /\ "run" \in Busy /\ (at[w] \in Idle <=> "run" \in Idle) BY <4>1 DEF Idle, Busy
      <4>. QED BY <4>1, <4>2, <4>3, MoveCounts DEF WorkersCounted
    <3>. QED BY <3>1, <3>2
  <2>. QED BY <2>1, <2>2
<1>19. CASE GoIdle(w)
  <2>1. CASE idleTerm[w] BY <1>19, <2>1, GoIdleMoves, MoveKeepsCounts DEF GoIdle, Idle, Busy
  <2>2. CASE ~idleTerm[w]
    <3>1. at[w] = "empty" /\ at' = [at EXCEPT ![w] = "stopping"] BY <1>19, <2>2, GoIdleMoves
    <3>2. idleThreadCnt_' = idleThreadCnt_ + 1 /\ activeThreadCnt_' = activeThreadCnt_ BY <1>19, <2>2 DEF GoIdle
    <3>3. at[w] \notin Idle /\ "stopping" \in Idle /\ (at[w] \in Busy <=> "stopping" \in Busy)
      BY <3>1 DEF Idle, Busy
    <3>. QED BY <3>1, <3>2, <3>3, MoveCounts DEF WorkersCounted
  <2>. QED BY <2>1, <2>2
<1>20. CASE Finish(w)
  <2>1. at[w] = "finish" /\ at' = [at EXCEPT ![w] = "scan"] BY <1>20, FinishMoves
  <2>2. activeThreadCnt_' = activeThreadCnt_ - 1 /\ idleThreadCnt_' = idleThreadCnt_ BY <1>20 DEF Finish
  <2>3. at[w] \in Busy /\ "scan" \notin Busy /\ (at[w] \in Idle <=> "scan" \in Idle) BY <2>1 DEF Idle, Busy
  <2>. QED BY <2>1, <2>2, <2>3, MoveCounts DEF WorkersCounted
<1>21. CASE LeaveIdle(w)
  <2>1. at[w] \in {"push", "leaveIdle"} /\ at' = [at EXCEPT ![w] = "scan"] BY <1>21, LeaveIdleMoves
  <2>2. idleThreadCnt_' = idleThreadCnt_ - 1 /\ activeThreadCnt_' = activeThreadCnt_ BY <1>21 DEF LeaveIdle
  <2>3. at[w] \in Idle /\ "scan" \notin Idle /\ (at[w] \in Busy <=> "scan" \in Busy) BY <2>1 DEF Idle, Busy
  <2>. QED BY <2>1, <2>2, <2>3, MoveCounts DEF WorkersCounted
<1>. QED BY <1>1, <1>2, <1>3, <1>4, <1>5, <1>6, <1>7, <1>8, <1>9, <1>10, <1>11, <1>12, <1>13, <1>14, <1>15, <1>16,
     <1>17, <1>18, <1>19, <1>20, <1>21 DEF WorkerStep, RunStep, FiberStep, IdleStep

---------------------------------------------------------------------------
(* Counting the wake-ups of a fiber.                                       *)

LEMMA QueuedAppend ==
    ASSUME NEW q \in Seq(Task), NEW t \in Task, NEW f
    PROVE  Cardinality(Queued(Append(q, t), f)) =
                IF Mine(t, f) THEN Cardinality(Queued(q, f)) + 1 ELSE Cardinality(Queued(q, f))
<1>1. DOMAIN q = 1 .. Len(q) /\ Len(q) \in Nat OBVIOUS
<1>2. DOMAIN Append(q, t) = 1 .. (Len(q) + 1) OBVIOUS
<1>3. \A i \in 1 .. Len(q) : Append(q, t)[i] = q[i] OBVIOUS
<1>4. Append(q, t)[Len(q) + 1] = t OBVIOUS
<1>5. IsFiniteSet(Queued(q, f))
  <2>1. IsFiniteSet(1 .. Len(q)) BY <1>1, FS_Interval
  <2>. QED BY <1>1, <2>1, FS_Subset DEF Queued
<1>6. CASE Mine(t, f)
  <2>1. Queued(Append(q, t), f) = Queued(q, f) \cup {Len(q) + 1} BY <1>1, <1>2, <1>3, <1>4, <1>6 DEF Queued
  <2>2. Len(q) + 1 \notin Queued(q, f) BY <1>1 DEF Queued
  <2>. QED BY <1>5, <1>6, <2>1, <2>2, FS_AddElement
<1>7. CASE ~Mine(t, f)
  <2>1. Queued(Append(q, t), f) = Queued(q, f) BY <1>1, <1>2, <1>3, <1>4, <1>7 DEF Queued
  <2>. QED BY <1>7, <2>1
<1>. QED BY <1>6, <1>7

LEMMA QueuedTail ==
    ASSUME NEW q \in Seq(Task), q # <<>>, NEW f
    PROVE  Cardinality(Queued(Tail(q), f)) =
                IF Mine(Head(q), f) THEN Cardinality(Queued(q, f)) - 1 ELSE Cardinality(Queued(q, f))
<1>1. DOMAIN q = 1 .. Len(q) /\ Len(q) \in Nat \ {0} /\ Head(q) = q[1] OBVIOUS
<1>2. DOMAIN Tail(q) = 1 .. (Len(q) - 1) OBVIOUS
<1>3. \A i \in 1 .. (Len(q) - 1) : Tail(q)[i] = q[i + 1] OBVIOUS
<1>4. IsFiniteSet(Queued(q, f))
  <2>1. IsFiniteSet(1 .. Len(q)) BY <1>1, FS_Interval
  <2>. QED BY <1>1, <2>1, FS_Subset DEF Queued
<1>5. IsFiniteSet(Queued(Tail(q), f))
  <2>1. IsFiniteSet(1 .. (Len(q) - 1)) BY <1>1, FS_Interval
  <2>. QED BY <1>2, <2>1, FS_Subset DEF Queued
<1>6. Cardinality(Queued(Tail(q), f)) = Cardinality(Queued(q, f) \ {1})
  <2>. DEFINE S == Queued(Tail(q), f)
             T == Queued(q, f) \ {1}
             b == [i \in S |-> i + 1]
  <2>1. \A i \in S : i \in Nat /\ i + 1 \in T BY <1>1, <1>2, <1>3 DEF Queued
  <2>2. \A j \in T : j - 1 \in S /\ (j - 1) + 1 = j BY <1>1, <1>2, <1>3 DEF Queued
  <2>. HIDE DEF S, T
  <2>3. b \in [S -> T] BY <2>1
  <2>4. b \in Injection(S, T) BY <2>1, <2>3 DEF Injection, IsInjective
  <2>5. b \in Surjection(S, T) BY <2>2, <2>3 DEF Surjection
  <2>6. IsFiniteSet(S) BY <1>5 DEF S
  <2>7. Cardinality(S) = Cardinality(T)
    <3>1. ExistsBijection(S, T) BY <2>4, <2>5 DEF ExistsBijection, Bijection
    <3>. QED BY <2>6, <3>1, FS_Bijection
  <2>. QED BY <2>7 DEF S, T
<1>7. 1 \in Queued(q, f) <=> Mine(Head(q), f) BY <1>1 DEF Queued
<1>. QED BY <1>4, <1>6, <1>7, FS_RemoveElement

LEMMA HeldChange ==
    ASSUME NEW w \in Worker, NEW f, \A v \in Worker \ {w} : at'[v] = at[v] /\ task'[v] = task[v]
    PROVE  LET before == at[w] = "run" /\ Mine(task[w], f)
               after == at'[w] = "run" /\ Mine(task'[w], f)
               n == Cardinality(Held(at, task, f))
           IN  Cardinality(Held(at', task', f)) =
                    IF before = after THEN n ELSE IF after THEN n + 1 ELSE n - 1
<1>1. IsFiniteSet(Held(at, task, f)) BY ThreadsAssumption, FS_Subset DEF Held
<1>. DEFINE before == at[w] = "run" /\ Mine(task[w], f)
            after == at'[w] = "run" /\ Mine(task'[w], f)
<1>2. w \in Held(at, task, f) <=> before BY DEF Held
<1>3. CASE before = after
  <2>1. Held(at', task', f) = Held(at, task, f) BY <1>3 DEF Held
  <2>. QED BY <1>3, <2>1
<1>4. CASE ~before /\ after
  <2>1. Held(at', task', f) = Held(at, task, f) \cup {w} BY <1>4 DEF Held
  <2>. QED BY <1>1, <1>2, <1>4, <2>1, FS_AddElement
<1>5. CASE before /\ ~after
  <2>1. Held(at', task', f) = Held(at, task, f) \ {w} BY <1>5 DEF Held
  <2>. QED BY <1>1, <1>2, <1>5, <2>1, FS_RemoveElement
<1>. QED BY <1>3, <1>4, <1>5

\* No worker takes a task or gives one back: what they hold stays the same.
LEMMA HeldStays ==
    ASSUME PcType, NEW w \in Worker, NEW l, at' = [at EXCEPT ![w] = l], at[w] # "run", l # "run",
           \A v \in Worker \ {w} : task'[v] = task[v], NEW f
    PROVE  Cardinality(Held(at', task', f)) = Cardinality(Held(at, task, f))
<1>1. at \in [Worker -> Busy \cup Idle \cup {"off", "scan", "empty", "exit"}] BY AtType
<1>2. at'[w] = l /\ \A v \in Worker \ {w} : at'[v] = at[v] BY <1>1
<1>3. ~(at[w] = "run" /\ Mine(task[w], f)) /\ ~(at'[w] = "run" /\ Mine(task'[w], f)) BY <1>2
<1>. QED BY <1>2, <1>3, HeldChange

\* What registering an event, and unregistering one, is to the events of a fiber.
LEMMA RegisteredMore ==
    ASSUME SocketType, NEW d \in Fd, NEW g, g # None, events[d] = None, events' = [events EXCEPT ![d] = g],
           NEW f, f # None
    PROVE  Cardinality(Registered(events', f)) =
                IF f = g THEN Cardinality(Registered(events, f)) + 1 ELSE Cardinality(Registered(events, f))
<1>1. \A fd \in Fd : events'[fd] = IF fd = d THEN g ELSE events[fd] BY DEF SocketType
<1>2. IsFiniteSet(Registered(events, f)) BY ThreadsAssumption, FS_Subset DEF Registered
<1>3. CASE f = g
  <2>1. Registered(events', f) = Registered(events, f) \cup {d} /\ d \notin Registered(events, f)
    BY <1>1, <1>3 DEF Registered
  <2>2. Cardinality(Registered(events, f) \cup {d}) = Cardinality(Registered(events, f)) + 1
    BY <1>2, <2>1, FS_AddElement
  <2>. QED BY <1>3, <2>1, <2>2
<1>4. CASE f # g
  <2>1. Registered(events', f) = Registered(events, f) BY <1>1, <1>4 DEF Registered
  <2>. QED BY <1>4, <2>1
<1>. QED BY <1>3, <1>4

LEMMA RegisteredLess ==
    ASSUME SocketType, NEW d \in Fd, events' = [events EXCEPT ![d] = None], NEW f, f # None
    PROVE  Cardinality(Registered(events', f)) =
                IF events[d] = f THEN Cardinality(Registered(events, f)) - 1 ELSE Cardinality(Registered(events, f))
<1>1. \A fd \in Fd : events'[fd] = IF fd = d THEN None ELSE events[fd] BY DEF SocketType
<1>2. IsFiniteSet(Registered(events, f)) BY ThreadsAssumption, FS_Subset DEF Registered
<1>3. CASE events[d] = f
  <2>1. Registered(events', f) = Registered(events, f) \ {d} /\ d \in Registered(events, f)
    BY <1>1, <1>3 DEF Registered
  <2>2. Cardinality(Registered(events, f) \ {d}) = Cardinality(Registered(events, f)) - 1
    BY <1>2, <2>1, FS_RemoveElement
  <2>. QED BY <1>3, <2>1, <2>2
<1>4. CASE events[d] # f
  <2>1. Registered(events', f) = Registered(events, f) BY <1>1, <1>4 DEF Registered
  <2>. QED BY <1>4, <2>1
<1>. QED BY <1>3, <1>4

LEMMA AllTimersFinite == ASSUME TimerType PROVE IsFiniteSet(AllTimers)
<1>1. cbs \in Surjection(Worker, {cbs[w] : w \in Worker}) BY DEF TimerType, Surjection
<1>2. IsFiniteSet({cbs[w] : w \in Worker}) BY <1>1, ThreadsAssumption, FS_Surjection
<1>3. \A T \in {cbs[w] : w \in Worker} : IsFiniteSet(T) BY DEF TimerType
<1>4. IsFiniteSet(UNION {cbs[w] : w \in Worker}) BY <1>2, <1>3, FS_UNION
<1>. QED BY <1>4, FS_Union DEF TimerType, AllTimers

\* A fiber has one wake-up at most, and which it is.
LEMMA WakeUpsType ==
    ASSUME IInv, NEW f \in Fiber
    PROVE  /\ IsFiniteSet(Queued(tasks_, f)) /\ IsFiniteSet(Armed(AllTimers, f))
           /\ IsFiniteSet(Registered(events, f)) /\ IsFiniteSet(Held(at, task, f))
           /\ Cardinality(Queued(tasks_, f)) \in Nat /\ Cardinality(Armed(AllTimers, f)) \in Nat
           /\ Cardinality(Registered(events, f)) \in Nat /\ Cardinality(Held(at, task, f)) \in Nat
           /\ WakeUps(f) = Asked(f) /\ Asked(f) \in {0, 1}
<1>1. IsFiniteSet(Queued(tasks_, f))
  <2>1. tasks_ \in Seq(Task) BY DEF IInv, TypeInv, TaskType
  <2>2. DOMAIN tasks_ = 1 .. Len(tasks_) /\ Len(tasks_) \in Nat BY <2>1
  <2>3. IsFiniteSet(1 .. Len(tasks_)) BY <2>2, FS_Interval
  <2>. QED BY <2>2, <2>3, FS_Subset DEF Queued
<1>2. IsFiniteSet(Armed(AllTimers, f)) BY AllTimersFinite, FS_Subset DEF Armed, IInv, TypeInv
<1>3. IsFiniteSet(Registered(events, f)) BY ThreadsAssumption, FS_Subset DEF Registered
<1>4. IsFiniteSet(Held(at, task, f)) BY ThreadsAssumption, FS_Subset DEF Held
<1>5. WakeUps(f) = Asked(f) /\ Asked(f) \in {0, 1} BY DEF IInv, WakesInv, Asked
<1>. QED BY <1>1, <1>2, <1>3, <1>4, <1>5, FS_CardinalityType

LEMMA NoneAsked ==
    ASSUME IInv, NEW f \in Fiber, Asked(f) = 0
    PROVE  /\ Queued(tasks_, f) = {} /\ Armed(AllTimers, f) = {}
           /\ Registered(events, f) = {} /\ Held(at, task, f) = {}
<1>1. /\ Cardinality(Queued(tasks_, f)) = 0 /\ Cardinality(Armed(AllTimers, f)) = 0
      /\ Cardinality(Registered(events, f)) = 0 /\ Cardinality(Held(at, task, f)) = 0
  BY WakeUpsType DEF WakeUps
<1>. QED BY <1>1, WakeUpsType, FS_EmptySet

LEMMA OneQueued ==
    ASSUME IInv, NEW f \in Fiber, Queued(tasks_, f) # {}
    PROVE  Asked(f) = 1 /\ Armed(AllTimers, f) = {} /\ Registered(events, f) = {} /\ Held(at, task, f) = {}
<1>1. Cardinality(Queued(tasks_, f)) # 0 BY WakeUpsType, FS_EmptySet
<1>2. /\ Asked(f) = 1 /\ Cardinality(Armed(AllTimers, f)) = 0
      /\ Cardinality(Registered(events, f)) = 0 /\ Cardinality(Held(at, task, f)) = 0
  BY <1>1, WakeUpsType DEF WakeUps
<1>. QED BY <1>2, WakeUpsType, FS_EmptySet

LEMMA OneRegistered ==
    ASSUME IInv, NEW f \in Fiber, Registered(events, f) # {}
    PROVE  Asked(f) = 1 /\ Armed(AllTimers, f) = {} /\ Queued(tasks_, f) = {} /\ Held(at, task, f) = {}
<1>1. Cardinality(Registered(events, f)) # 0 BY WakeUpsType, FS_EmptySet
<1>2. /\ Asked(f) = 1 /\ Cardinality(Armed(AllTimers, f)) = 0
      /\ Cardinality(Queued(tasks_, f)) = 0 /\ Cardinality(Held(at, task, f)) = 0
  BY <1>1, WakeUpsType DEF WakeUps
<1>. QED BY <1>2, WakeUpsType, FS_EmptySet

LEMMA OneHeld ==
    ASSUME IInv, NEW f \in Fiber, NEW w \in Held(at, task, f)
    PROVE  /\ Asked(f) = 1 /\ Armed(AllTimers, f) = {} /\ Queued(tasks_, f) = {} /\ Registered(events, f) = {}
           /\ \A v \in Held(at, task, f) : v = w
<1>1. Cardinality(Held(at, task, f)) # 0 BY WakeUpsType, FS_EmptySet
<1>2. /\ Asked(f) = 1 /\ Cardinality(Armed(AllTimers, f)) = 0 /\ Cardinality(Held(at, task, f)) = 1
      /\ Cardinality(Queued(tasks_, f)) = 0 /\ Cardinality(Registered(events, f)) = 0
  BY <1>1, WakeUpsType DEF WakeUps
<1>3. \E v : Held(at, task, f) = {v} BY <1>2, WakeUpsType, FS_Singleton
<1>. QED BY <1>2, <1>3, WakeUpsType, FS_EmptySet

---------------------------------------------------------------------------
(* What a worker holds on to.                                              *)

LEMMA MainStepWorkers ==
    ASSUME IInv, \/ \E f \in Fiber : Submit(f)
                 \/ MainTickle \/ Stop \/ StopTickle \/ ResumeRoot \/ Join \/ Tick \/ \E fd \in Fd : Arrive(fd)
    PROVE  WorkersInv'
<1>. USE AtType DEF mainVars, schedVars, runVars, idleVars, timerVars, ioVars, fiberVars
<1>1. CASE ResumeRoot
  <2>1. at' = [w \in Worker |-> IF w = setup.caller THEN "scan" ELSE at[w]]
    BY <1>1, ResumeRootMoves DEF IInv, TypeInv
  <2>2. \A w \in Worker : w = setup.caller => at[w] = "off" /\ w \in setup.workers
    BY <1>1, SetupFacts, ThreadsAssumption DEF IInv, TypeInv, MainType, WorkersInv, ResumeRoot
  <2>. QED BY <1>1, <2>1, <2>2 DEF ResumeRoot, IInv, WorkersInv, Busy
<1>2. CASE ~ResumeRoot
  <2>1. at' = at
    BY <1>2, StayMoves DEF Submit, MainTickle, Stop, StopTickle, Join, Tick, Arrive, IInv, TypeInv
  <2>2. UNCHANGED <<setup, task, cbs, got, state>>
    BY <1>2 DEF Submit, MainTickle, Stop, StopTickle, Join, Tick, Arrive
  <2>3. mainPc' \notin {"join", "joined"} => mainPc \notin {"join", "joined"}
    BY <1>2 DEF Submit, MainTickle, Stop, StopTickle, Join, Tick, Arrive
  <2>. QED BY <2>1, <2>2, <2>3 DEF IInv, WorkersInv
<1>. QED BY <1>1, <1>2

\* The steps of a worker that take no task and give none back, and change no fiber's state.
LEMMA QuietWorkers ==
    ASSUME IInv, NEW w \in Worker, NEW l, at' = [at EXCEPT ![w] = l], at[w] # "off", l # "run" \/ at[w] = "run",
           at[w] \in Busy <=> l \in Busy, UNCHANGED <<setup, mainPc, task, state>>,
           \A v \in Worker \ {w} : cbs'[v] = cbs[v] /\ got'[v] = got[v],
           l # "push" => cbs'[w] = {}, l \notin {"clock", "expire", "push"} => got'[w] = {}
    PROVE  WorkersInv'
<1>1. \A v \in Worker : at'[v] = IF v = w THEN l ELSE at[v] BY AtType DEF IInv, TypeInv
<1>. QED BY <1>1 DEF IInv, WorkersInv

LEMMA WorkerStepWorkers == ASSUME IInv, NEW w \in Worker, WorkerStep(w) PROVE WorkersInv'
<1>. USE AtType DEF mainVars, schedVars, runVars, idleVars, timerVars, ioVars, fiberVars, IInv, TypeInv
<1>1. CASE WorkerTickle(w) BY <1>1, WorkerTickleMoves DEF WorkerTickle, WorkersInv
<1>2. CASE Scan(w) 
  <2>1. CASE tasks_ = <<>>
    <3>1. at[w] = "scan" /\ at' = [at EXCEPT ![w] = "empty"] BY <1>2, <2>1, ScanMoves
    <3>2. UNCHANGED <<setup, mainPc, task, state, cbs, got>> BY <1>2, <2>1 DEF Scan
    <3>3. cbs[w] = {} /\ got[w] = {} BY <3>1 DEF WorkersInv
    <3>. QED BY <3>1, <3>2, <3>3, QuietWorkers DEF Busy
  <2>2. CASE tasks_ # <<>> /\ Head(tasks_).kind = "fiber" /\ state[Head(tasks_).fiber] # "READY"
    <3>1. UNCHANGED <<setup, mainPc, task, state, cbs, got, pc, then>> BY <1>2, <2>2 DEF Scan
    <3>. QED BY <3>1, StayMoves DEF WorkersInv
  <2>3. CASE tasks_ # <<>> /\ ~(Head(tasks_).kind = "fiber" /\ state[Head(tasks_).fiber] # "READY")
    <3>1. at[w] = "scan" /\ at' = [at EXCEPT ![w] = "run"]
      BY <1>2, <2>3, ScanMoves, GoToTicklingMoves DEF Scan, Busy
    <3>2. UNCHANGED <<setup, mainPc, state, cbs, got>> /\ task' = [task EXCEPT ![w] = Head(tasks_)]
      BY <1>2, <2>3 DEF Scan
    <3>3. Head(tasks_) \in Task BY <2>3 DEF TaskType
    <3>4. Head(tasks_) # NoTask BY <3>3, TaskFacts
    <3>5. \A v \in Worker : /\ at'[v] = IF v = w THEN "run" ELSE at[v]
                            /\ task'[v] = IF v = w THEN Head(tasks_) ELSE task[v]
      BY <3>1, <3>2 DEF TaskType
    <3>6. "run" \in Busy BY DEF Busy
    <3>. QED BY <2>3, <3>1, <3>2, <3>4, <3>5, <3>6 DEF WorkersInv
  <2>. QED BY <2>1, <2>2, <2>3
<1>3. CASE GoIdle(w)
  <2>1. at[w] = "empty" /\ cbs[w] = {} /\ got[w] = {} BY <1>3, GoIdleMoves DEF WorkersInv, OnFiber
  <2>. QED BY <1>3, <2>1, GoIdleMoves, QuietWorkers DEF GoIdle, Busy, TimerType, SocketType, OnFiber
<1>4. CASE Finish(w)
  <2>1. at[w] = "finish" /\ at' = [at EXCEPT ![w] = "scan"] BY <1>4, FinishMoves
  <2>2. UNCHANGED <<setup, mainPc, state, cbs, got>> /\ task' = [task EXCEPT ![w] = NoTask] BY <1>4 DEF Finish
  <2>3. \A v \in Worker : /\ at'[v] = IF v = w THEN "scan" ELSE at[v]
                          /\ task'[v] = IF v = w THEN NoTask ELSE task[v]
    BY <2>1, <2>2 DEF TaskType
  <2>4. "scan" \notin Busy BY DEF Busy
  <2>. QED BY <2>1, <2>2, <2>3, <2>4 DEF WorkersInv
<1>5. CASE RunWake(w)
  <2>1. at[w] = "run" /\ cbs[w] = {} /\ got[w] = {} BY <1>5, RunWakeMoves DEF WorkersInv, OnFiber
  <2>. QED BY <1>5, <2>1, RunWakeMoves, QuietWorkers DEF RunWake, Busy, TimerType, SocketType, OnFiber
<1>6. CASE RunTimeout(w)
  <2>1. at[w] = "run" /\ cbs[w] = {} /\ got[w] = {} BY <1>6, RunTimeoutMoves DEF WorkersInv, OnFiber
  <2>. QED BY <1>6, <2>1, RunTimeoutMoves, QuietWorkers DEF RunTimeout, Busy, TimerType, SocketType, OnFiber
<1>7. CASE Resume(w)
  <2>1. at[w] \in Busy /\ at' = [at EXCEPT ![w] = "fiber"] BY <1>7, ResumeMoves DEF Busy, OnFiber
  <2>2. UNCHANGED <<setup, mainPc, task, cbs, got>> BY <1>7 DEF Resume
  <2>3. \A v \in Worker : at'[v] = IF v = w THEN "fiber" ELSE at[v] BY <2>1
  <2>4. ASSUME NEW v \in Worker, v # w, at[v] = "run", task[v].kind = "fiber"
        PROVE  state'[task[v].fiber] = state[task[v].fiber]
    <3>1. task[w].fiber \in Fiber BY <2>1, TaskOf, TaskFacts
    <3>2. task[v].fiber # task[w].fiber
      <4>1. w \in Held(at, task, task[w].fiber) BY <1>7, ResumeMoves DEF Resume, Held, Mine
      <4>2. task[v].fiber = task[w].fiber => v \in Held(at, task, task[w].fiber) BY <2>4 DEF Held, Mine
      <4>. QED BY <2>4, <3>1, <4>1, <4>2, OneHeld
    <3>. QED BY <1>7, <3>1, <3>2 DEF Resume, FiberType
  <2>5. "fiber" \in Busy /\ "off" \notin Busy /\ "push" \notin Busy /\ "clock" \notin Busy /\ "expire" \notin Busy BY DEF Busy
  <2>. QED BY <2>1, <2>2, <2>3, <2>4, <2>5 DEF WorkersInv
<1>8. CASE Sleep(w)
  <2>1. at[w] = "fiber" /\ cbs[w] = {} /\ got[w] = {} BY <1>8, SleepMoves DEF WorkersInv, OnFiber
  <2>. QED BY <1>8, <2>1, SleepMoves, QuietWorkers DEF Sleep, Busy, TimerType, SocketType, OnFiber
<1>9. CASE ReadNow(w) BY <1>9, ReadNowMoves DEF ReadNow, WorkersInv
<1>10. CASE ReadAgain(w) BY <1>10, ReadAgainMoves DEF ReadAgain, WorkersInv
<1>11. CASE AddEvent(w)
  <2>1. CASE events[CallOf(task[w].fiber).fd] # None
    <3>1. at' = at BY <1>11, <2>1, AddEventMoves
    <3>2. UNCHANGED <<setup, mainPc, task, state, cbs, got>> BY <1>11, <2>1 DEF AddEvent
    <3>. QED BY <3>1, <3>2 DEF WorkersInv
  <2>2. CASE events[CallOf(task[w].fiber).fd] = None
    <3>1. at[w] = "fiber" /\ at' = [at EXCEPT ![w] = "yield"] BY <1>11, <2>2, AddEventMoves
    <3>2. UNCHANGED <<setup, mainPc, task, state, cbs, got>> BY <1>11 DEF AddEvent
    <3>3. cbs[w] = {} /\ got[w] = {} BY <3>1 DEF WorkersInv
    <3>. QED BY <3>1, <3>2, <3>3, QuietWorkers DEF Busy
  <2>. QED BY <2>1, <2>2
<1>12. CASE Close(w) BY <1>12, CloseMoves DEF Close, WorkersInv
<1>13. CASE Yield(w)
  <2>1. at[w] \in Busy /\ at' = [at EXCEPT ![w] = "finish"] BY <1>13, YieldMoves DEF Busy, OnFiber
  <2>2. UNCHANGED <<setup, mainPc, task, cbs, got>> BY <1>13 DEF Yield
  <2>3. \A v \in Worker : at'[v] = IF v = w THEN "finish" ELSE at[v] BY <2>1
  <2>4. ASSUME NEW v \in Worker, v # w, at[v] = "run", task[v].kind = "fiber"
        PROVE  state'[task[v].fiber] = state[task[v].fiber]
    <3>1. task[w].fiber \in Fiber /\ state[task[w].fiber] = "RUNNING" BY <1>13, YieldMoves, OnFiberFacts
    <3>2. state[task[v].fiber] = "READY" BY <2>4 DEF WorkersInv
    <3>. QED BY <1>13, <3>1, <3>2 DEF Yield, FiberType
  <2>5. "finish" \in Busy /\ "off" \notin Busy /\ "push" \notin Busy /\ "clock" \notin Busy /\ "expire" \notin Busy BY DEF Busy
  <2>. QED BY <2>1, <2>2, <2>3, <2>4, <2>5 DEF WorkersInv
<1>14. CASE GetNextTimer(w)
  <2>1. at[w] = "stopping" /\ cbs[w] = {} /\ got[w] = {} BY <1>14, GetNextTimerMoves DEF WorkersInv, OnFiber
  <2>. QED BY <1>14, <2>1, GetNextTimerMoves, QuietWorkers DEF GetNextTimer, Busy, TimerType, SocketType, OnFiber
<1>15. CASE Stopping(w)
  <2>1. at[w] = "stopping2" /\ cbs[w] = {} /\ got[w] = {} BY <1>15, StoppingMoves DEF WorkersInv, OnFiber
  <2>. QED BY <1>15, <2>1, StoppingMoves, QuietWorkers DEF Stopping, Busy, TimerType, SocketType, OnFiber
<1>16. CASE EpollWait(w)
  <2>1. at[w] = "wait" /\ cbs[w] = {} /\ got[w] = {} BY <1>16, EpollWaitMoves DEF WorkersInv, OnFiber
  <2>. QED BY <1>16, <2>1, EpollWaitMoves, QuietWorkers DEF EpollWait, Busy, TimerType, SocketType, OnFiber
<1>17. CASE ReadClock(w)
  <2>1. at[w] = "clock" /\ at' = [at EXCEPT ![w] = "expire"] BY <1>17, ReadClockMoves
  <2>2. UNCHANGED <<setup, mainPc, task, state, cbs, got>> BY <1>17 DEF ReadClock
  <2>3. cbs[w] = {} BY <2>1 DEF WorkersInv
  <2>. QED BY <2>1, <2>2, <2>3, QuietWorkers DEF Busy
<1>18. CASE ListExpiredCb(w)
  <2>1. at[w] = "expire" /\ at' = [at EXCEPT ![w] = "push"] BY <1>18, ListExpiredCbMoves
  <2>2. UNCHANGED <<setup, mainPc, task, state, got>> /\ \A v \in Worker \ {w} : cbs'[v] = cbs[v]
    BY <1>18 DEF ListExpiredCb, TimerType
  <2>. QED BY <2>1, <2>2, QuietWorkers DEF Busy
<1>19. CASE PushCb(w)
  <2>1. at[w] = "push" /\ at' = at BY <1>19, PushCbMoves
  <2>2. UNCHANGED <<setup, mainPc, task, state, got>> /\ \A v \in Worker \ {w} : cbs'[v] = cbs[v]
    BY <1>19 DEF PushCb, TimerType
  <2>. QED BY <2>1, <2>2 DEF WorkersInv
<1>20. CASE HandleEvent(w)
  <2>1. at[w] = "push" /\ at' = at BY <1>20, HandleEventMoves
  <2>2. UNCHANGED <<setup, mainPc, task, state, cbs>> /\ \A v \in Worker \ {w} : got'[v] = got[v]
    BY <1>20 DEF HandleEvent, SocketType
  <2>. QED BY <2>1, <2>2 DEF WorkersInv
<1>21. CASE LeaveIdle(w)
  <2>1. at[w] \in {"push", "leaveIdle"} /\ cbs[w] = {} /\ got[w] = {}
    BY <1>21, LeaveIdleMoves, AtPc DEF LeaveIdle, WorkersInv
  <2>. QED BY <1>21, <2>1, LeaveIdleMoves, QuietWorkers DEF LeaveIdle, Busy
<1>. QED BY <1>1, <1>2, <1>3, <1>4, <1>5, <1>6, <1>7, <1>8, <1>9, <1>10, <1>11, <1>12, <1>13, <1>14, <1>15, <1>16,
     <1>17, <1>18, <1>19, <1>20, <1>21 DEF WorkerStep, RunStep, FiberStep, IdleStep

---------------------------------------------------------------------------
(* A fiber is run by one worker.                                           *)

LEMMA MainStepFibers ==
    ASSUME IInv, \/ \E f \in Fiber : Submit(f)
                 \/ MainTickle \/ Stop \/ StopTickle \/ ResumeRoot \/ Join \/ Tick \/ \E fd \in Fd : Arrive(fd)
    PROVE  FibersInv'
<1>. USE AtType DEF mainVars, schedVars, runVars, idleVars, timerVars, ioVars, fiberVars
<1>1. CASE ResumeRoot
  <2>1. at' = [w \in Worker |-> IF w = setup.caller THEN "scan" ELSE at[w]]
    BY <1>1, ResumeRootMoves DEF IInv, TypeInv
  <2>2. \A w \in Worker : w = setup.caller => at[w] = "off" BY <1>1 DEF IInv, WorkersInv, ResumeRoot
  <2>3. \A w \in Worker : (at'[w] \in OnFiber \/ at[w] \in OnFiber) => at'[w] = at[w]
    BY <2>1, <2>2 DEF OnFiber
  <2>4. UNCHANGED <<task, state, phase, toSubmit>> BY <1>1 DEF ResumeRoot
  <2>5. "fiber" \in OnFiber /\ "yield" \in OnFiber BY DEF OnFiber
  <2>. QED BY <2>3, <2>4, <2>5 DEF IInv, FibersInv
<1>2. CASE ~ResumeRoot
  <2>1. at' = at
    BY <1>2, StayMoves DEF Submit, MainTickle, Stop, StopTickle, Join, Tick, Arrive, IInv, TypeInv
  <2>2. UNCHANGED <<task, state, phase>> /\ toSubmit' \subseteq toSubmit
    BY <1>2 DEF Submit, MainTickle, Stop, StopTickle, Join, Tick, Arrive
  <2>. QED BY <2>1, <2>2 DEF IInv, FibersInv
<1>. QED BY <1>1, <1>2

\* A worker that runs no fiber.
LEMMA QuietFibers ==
    ASSUME IInv, NEW w \in Worker, NEW l, at' = [at EXCEPT ![w] = l], at[w] \notin OnFiber, l \notin OnFiber,
           UNCHANGED <<state, phase, toSubmit>>, \A v \in Worker \ {w} : task'[v] = task[v]
    PROVE  FibersInv'
<1>1. \A v \in Worker : at'[v] = IF v = w THEN l ELSE at[v] BY AtType DEF IInv, TypeInv
<1>2. "fiber" \in OnFiber /\ "yield" \in OnFiber BY DEF OnFiber
<1>. QED BY <1>1, <1>2 DEF IInv, FibersInv

\* What a step that runs or resumes fiber f does to it, and to the others nothing.
RunsOn(w, f) ==
    /\ \A v \in Worker \ {w} : at'[v] = at[v]
    /\ UNCHANGED <<task, toSubmit>>
    /\ \A g \in Fiber \ {f} : state'[g] = state[g] /\ phase'[g] = phase[g]
    /\ \/ at'[w] = "fiber" /\ state'[f] = "RUNNING" /\ phase'[f] \notin Waits
       \/ at'[w] = "yield" /\ state'[f] = "RUNNING" /\ phase'[f] \in Waits
       \/ at'[w] = "finish" /\ state'[f] # "RUNNING"

LEMMA RunKeepsFibers ==
    ASSUME IInv, NEW w \in Worker, task[w] \in Task, task[w].kind = "fiber", task[w].fiber \notin toSubmit,
           \A v \in Worker \ {w} : at[v] \in OnFiber => task[v].fiber # task[w].fiber,
           RunsOn(w, task[w].fiber)
    PROVE  FibersInv'
<1>. DEFINE f == task[w].fiber
<1>1. f \in Fiber BY TaskFacts
<1>2. \A v \in Worker \ {w} : at'[v] = at[v] BY DEF RunsOn
<1>3. \A v \in Worker \ {w} : at[v] \in OnFiber => task[v] \in Task /\ task[v].fiber \in Fiber
  BY OnFiberFacts
<1>4. \A v \in Worker \ {w} : at[v] \in OnFiber =>
        state'[task[v].fiber] = state[task[v].fiber] /\ phase'[task[v].fiber] = phase[task[v].fiber]
  BY <1>1, <1>3 DEF RunsOn
<1>5. "fiber" \in OnFiber /\ "yield" \in OnFiber /\ "finish" \notin OnFiber BY DEF OnFiber
<1>6. task' = task /\ toSubmit' = toSubmit BY DEF RunsOn
<1>7. \A v \in Worker : at'[v] \in OnFiber => task'[v].kind = "fiber" /\ state'[task'[v].fiber] = "RUNNING"
  BY <1>2, <1>4, <1>5, <1>6 DEF IInv, FibersInv, RunsOn
<1>8. /\ \A v \in Worker : at'[v] = "fiber" => phase'[task'[v].fiber] \notin Waits
      /\ \A v \in Worker : at'[v] = "yield" => phase'[task'[v].fiber] \in Waits
  BY <1>2, <1>4, <1>5, <1>6 DEF IInv, FibersInv, RunsOn
<1>9. \A u, v \in Worker : at'[u] \in OnFiber /\ at'[v] \in OnFiber /\ task'[u].fiber = task'[v].fiber => u = v
  BY <1>2, <1>6 DEF IInv, FibersInv
<1>10. ASSUME NEW g \in Fiber, state'[g] = "RUNNING"
       PROVE  \E v \in Worker : at'[v] \in OnFiber /\ task'[v].fiber = g
  <2>1. CASE g = f BY <1>5, <1>6, <1>10, <2>1 DEF RunsOn
  <2>2. CASE g # f
    <3>1. state[g] = "RUNNING" BY <1>10, <2>2 DEF RunsOn
    <3>2. PICK v \in Worker : at[v] \in OnFiber /\ task[v].fiber = g BY <3>1 DEF IInv, FibersInv
    <3>. QED BY <1>2, <1>6, <2>2, <3>2
  <2>. QED BY <2>1, <2>2
<1>11. \A g \in toSubmit' : state'[g] = "READY" /\ phase'[g] = "start"
  BY <1>6 DEF IInv, TypeInv, MainType, FibersInv, RunsOn
<1>. QED BY <1>7, <1>8, <1>9, <1>10, <1>11 DEF FibersInv

LEMMA RunningFacts ==
    ASSUME IInv, NEW w \in Worker, at[w] \in OnFiber
    PROVE  /\ task[w] \in Task /\ task[w].kind = "fiber" /\ task[w].fiber \in Fiber
           /\ state[task[w].fiber] = "RUNNING" /\ task[w].fiber \notin toSubmit
           /\ \A v \in Worker \ {w} : at[v] \in OnFiber => task[v].fiber # task[w].fiber
BY OnFiberFacts DEF IInv, FibersInv

LEMMA ResumedFacts ==
    ASSUME IInv, NEW w \in Worker, Resume(w)
    PROVE  /\ task[w] \in Task /\ task[w].kind = "fiber" /\ task[w].fiber \in Fiber
           /\ state[task[w].fiber] = "READY" /\ task[w].fiber \notin toSubmit
           /\ w \in Held(at, task, task[w].fiber) /\ Asked(task[w].fiber) = 1
           /\ \A v \in Worker \ {w} : at[v] \in OnFiber => task[v].fiber # task[w].fiber
<1>1. at[w] = "run" /\ task[w].kind = "fiber" BY ResumeMoves DEF Resume, IInv, TypeInv
<1>2. task[w] \in Task /\ task[w].fiber \in Fiber BY <1>1, TaskOf, TaskFacts DEF IInv, TypeInv, Busy
<1>3. w \in Held(at, task, task[w].fiber) BY <1>1 DEF Held, Mine
<1>4. Asked(task[w].fiber) = 1 BY <1>2, <1>3, OneHeld
<1>5. state[task[w].fiber] = "READY" BY <1>1 DEF IInv, WorkersInv
<1>6. \A v \in Worker \ {w} : at[v] \in OnFiber => task[v].fiber # task[w].fiber
  BY <1>5 DEF IInv, FibersInv
<1>. QED BY <1>1, <1>2, <1>3, <1>4, <1>5, <1>6 DEF Asked

LEMMA WorkerStepFibers == ASSUME IInv, NEW w \in Worker, WorkerStep(w) PROVE FibersInv'
<1>. USE AtType DEF mainVars, schedVars, runVars, idleVars, timerVars, ioVars, fiberVars, IInv, TypeInv
<1>1. CASE WorkerTickle(w) BY <1>1, WorkerTickleMoves DEF WorkerTickle, FibersInv
<1>2. CASE PushCb(w)
  <2>1. at' = at BY <1>2, PushCbMoves
  <2>2. UNCHANGED <<task, state, phase, toSubmit>> BY <1>2 DEF PushCb
  <2>. QED BY <2>1, <2>2 DEF FibersInv
<1>3. CASE HandleEvent(w)
  <2>1. at' = at BY <1>3, HandleEventMoves
  <2>2. UNCHANGED <<task, state, phase, toSubmit>> BY <1>3 DEF HandleEvent
  <2>. QED BY <2>1, <2>2 DEF FibersInv
<1>4. CASE Scan(w)
  <2>1. at[w] = "scan" /\ UNCHANGED <<state, phase, toSubmit>> /\ \A v \in Worker \ {w} : task'[v] = task[v]
    BY <1>4, ScanMoves DEF Scan, TaskType
  <2>2. \/ at' = [at EXCEPT ![w] = "empty"] \/ at' = [at EXCEPT ![w] = "run"]
        \/ at' = [at EXCEPT ![w] = "scan"] BY <1>4, ScanMoves
  <2>. QED BY <2>1, <2>2, QuietFibers DEF OnFiber
<1>5. CASE GoIdle(w)
  <2>1. at[w] \notin OnFiber BY <1>5, GoIdleMoves DEF OnFiber
  <2>2. UNCHANGED <<state, phase, toSubmit>> /\ \A v \in Worker \ {w} : task'[v] = task[v]
    BY <1>5 DEF GoIdle, TaskType
  <2>. QED BY <1>5, <2>1, <2>2, GoIdleMoves, QuietFibers DEF OnFiber
<1>6. CASE Finish(w)
  <2>1. at[w] \notin OnFiber BY <1>6, FinishMoves DEF OnFiber
  <2>2. UNCHANGED <<state, phase, toSubmit>> /\ \A v \in Worker \ {w} : task'[v] = task[v]
    BY <1>6 DEF Finish, TaskType
  <2>. QED BY <1>6, <2>1, <2>2, FinishMoves, QuietFibers DEF OnFiber
<1>7. CASE RunWake(w)
  <2>1. at[w] \notin OnFiber BY <1>7, RunWakeMoves DEF OnFiber
  <2>2. UNCHANGED <<state, phase, toSubmit>> /\ \A v \in Worker \ {w} : task'[v] = task[v]
    BY <1>7 DEF RunWake, TaskType
  <2>. QED BY <1>7, <2>1, <2>2, RunWakeMoves, QuietFibers DEF OnFiber
<1>8. CASE RunTimeout(w)
  <2>1. at[w] \notin OnFiber BY <1>8, RunTimeoutMoves DEF OnFiber
  <2>2. UNCHANGED <<state, phase, toSubmit>> /\ \A v \in Worker \ {w} : task'[v] = task[v]
    BY <1>8 DEF RunTimeout, TaskType
  <2>. QED BY <1>8, <2>1, <2>2, RunTimeoutMoves, QuietFibers DEF OnFiber
<1>9. CASE GetNextTimer(w)
  <2>1. at[w] \notin OnFiber BY <1>9, GetNextTimerMoves DEF OnFiber
  <2>2. UNCHANGED <<state, phase, toSubmit>> /\ \A v \in Worker \ {w} : task'[v] = task[v]
    BY <1>9 DEF GetNextTimer, TaskType
  <2>. QED BY <1>9, <2>1, <2>2, GetNextTimerMoves, QuietFibers DEF OnFiber
<1>10. CASE Stopping(w)
  <2>1. at[w] \notin OnFiber BY <1>10, StoppingMoves DEF OnFiber
  <2>2. UNCHANGED <<state, phase, toSubmit>> /\ \A v \in Worker \ {w} : task'[v] = task[v]
    BY <1>10 DEF Stopping, TaskType
  <2>. QED BY <1>10, <2>1, <2>2, StoppingMoves, QuietFibers DEF OnFiber
<1>11. CASE EpollWait(w)
  <2>1. at[w] \notin OnFiber BY <1>11, EpollWaitMoves DEF OnFiber
  <2>2. UNCHANGED <<state, phase, toSubmit>> /\ \A v \in Worker \ {w} : task'[v] = task[v]
    BY <1>11 DEF EpollWait, TaskType
  <2>. QED BY <1>11, <2>1, <2>2, EpollWaitMoves, QuietFibers DEF OnFiber
<1>12. CASE ReadClock(w)
  <2>1. at[w] \notin OnFiber BY <1>12, ReadClockMoves DEF OnFiber
  <2>2. UNCHANGED <<state, phase, toSubmit>> /\ \A v \in Worker \ {w} : task'[v] = task[v]
    BY <1>12 DEF ReadClock, TaskType
  <2>. QED BY <1>12, <2>1, <2>2, ReadClockMoves, QuietFibers DEF OnFiber
<1>13. CASE ListExpiredCb(w)
  <2>1. at[w] \notin OnFiber BY <1>13, ListExpiredCbMoves DEF OnFiber
  <2>2. UNCHANGED <<state, phase, toSubmit>> /\ \A v \in Worker \ {w} : task'[v] = task[v]
    BY <1>13 DEF ListExpiredCb, TaskType
  <2>. QED BY <1>13, <2>1, <2>2, ListExpiredCbMoves, QuietFibers DEF OnFiber
<1>14. CASE LeaveIdle(w)
  <2>1. at[w] \notin OnFiber BY <1>14, LeaveIdleMoves DEF OnFiber
  <2>2. UNCHANGED <<state, phase, toSubmit>> /\ \A v \in Worker \ {w} : task'[v] = task[v]
    BY <1>14 DEF LeaveIdle, TaskType
  <2>. QED BY <1>14, <2>1, <2>2, LeaveIdleMoves, QuietFibers DEF OnFiber
<1>15. CASE Resume(w)
  <2>1. at'[w] = "fiber" /\ \A v \in Worker \ {w} : at'[v] = at[v] BY <1>15, ResumeMoves
  <2>2. task[w] \in Task /\ task[w].kind = "fiber" /\ task[w].fiber \in Fiber /\ task[w].fiber \notin toSubmit
        /\ \A v \in Worker \ {w} : at[v] \in OnFiber => task[v].fiber # task[w].fiber
    BY <1>15, ResumeMoves, ResumedFacts DEF OnFiber
  <2>3. UNCHANGED <<task, toSubmit>> /\ \A g \in Fiber \ {task[w].fiber} : state'[g] = state[g] /\ phase'[g] = phase[g]
    BY <1>15, <2>2 DEF Resume, NextCall, FiberType
  <2>4. state'[task[w].fiber] = "RUNNING" /\ phase'[task[w].fiber] \notin Waits
    BY <1>15, <2>2, ResumeMoves DEF Resume, NextCall, FiberType, Waits, OnFiber
  <2>. QED BY <2>1, <2>2, <2>3, <2>4, RunKeepsFibers DEF RunsOn
<1>16. CASE Sleep(w)
  <2>1. at'[w] = "yield" /\ \A v \in Worker \ {w} : at'[v] = at[v] BY <1>16, SleepMoves
  <2>2. task[w] \in Task /\ task[w].kind = "fiber" /\ task[w].fiber \in Fiber /\ task[w].fiber \notin toSubmit
        /\ \A v \in Worker \ {w} : at[v] \in OnFiber => task[v].fiber # task[w].fiber
    BY <1>16, SleepMoves, RunningFacts DEF OnFiber
  <2>3. UNCHANGED <<task, toSubmit>> /\ \A g \in Fiber \ {task[w].fiber} : state'[g] = state[g] /\ phase'[g] = phase[g]
    BY <1>16, <2>2 DEF Sleep, AddTimer, Calling, FiberType
  <2>4. state'[task[w].fiber] = "RUNNING" /\ phase'[task[w].fiber] \in Waits
    BY <1>16, <2>2, SleepMoves, RunningFacts DEF Sleep, AddTimer, Calling, FiberType, Waits, OnFiber
  <2>. QED BY <2>1, <2>2, <2>3, <2>4, RunKeepsFibers DEF RunsOn
<1>17. CASE ReadNow(w)
  <2>1. at'[w] = "fiber" /\ \A v \in Worker \ {w} : at'[v] = at[v] BY <1>17, ReadNowMoves
  <2>2. task[w] \in Task /\ task[w].kind = "fiber" /\ task[w].fiber \in Fiber /\ task[w].fiber \notin toSubmit
        /\ \A v \in Worker \ {w} : at[v] \in OnFiber => task[v].fiber # task[w].fiber
    BY <1>17, ReadNowMoves, RunningFacts DEF OnFiber
  <2>3. UNCHANGED <<task, toSubmit>> /\ \A g \in Fiber \ {task[w].fiber} : state'[g] = state[g] /\ phase'[g] = phase[g]
    BY <1>17, <2>2 DEF ReadNow, NextCall, Calling, FiberType
  <2>4. state'[task[w].fiber] = "RUNNING" /\ phase'[task[w].fiber] \notin Waits
    BY <1>17, <2>2, ReadNowMoves, RunningFacts DEF ReadNow, NextCall, Calling, FiberType, Waits, OnFiber
  <2>. QED BY <2>1, <2>2, <2>3, <2>4, RunKeepsFibers DEF RunsOn
<1>18. CASE ReadAgain(w)
  <2>1. at'[w] = "fiber" /\ \A v \in Worker \ {w} : at'[v] = at[v] BY <1>18, ReadAgainMoves
  <2>2. task[w] \in Task /\ task[w].kind = "fiber" /\ task[w].fiber \in Fiber /\ task[w].fiber \notin toSubmit
        /\ \A v \in Worker \ {w} : at[v] \in OnFiber => task[v].fiber # task[w].fiber
    BY <1>18, ReadAgainMoves, RunningFacts DEF OnFiber
  <2>3. UNCHANGED <<task, toSubmit>> /\ \A g \in Fiber \ {task[w].fiber} : state'[g] = state[g] /\ phase'[g] = phase[g]
    BY <1>18, <2>2 DEF ReadAgain, Calling, FiberType
  <2>4. state'[task[w].fiber] = "RUNNING" /\ phase'[task[w].fiber] \notin Waits
    BY <1>18, <2>2, ReadAgainMoves, RunningFacts DEF ReadAgain, Calling, FiberType, Waits, OnFiber
  <2>. QED BY <2>1, <2>2, <2>3, <2>4, RunKeepsFibers DEF RunsOn
<1>19. CASE Close(w)
  <2>1. at'[w] = "fiber" /\ \A v \in Worker \ {w} : at'[v] = at[v] BY <1>19, CloseMoves
  <2>2. task[w] \in Task /\ task[w].kind = "fiber" /\ task[w].fiber \in Fiber /\ task[w].fiber \notin toSubmit
        /\ \A v \in Worker \ {w} : at[v] \in OnFiber => task[v].fiber # task[w].fiber
    BY <1>19, CloseMoves, RunningFacts DEF OnFiber
  <2>3. UNCHANGED <<task, toSubmit>> /\ \A g \in Fiber \ {task[w].fiber} : state'[g] = state[g] /\ phase'[g] = phase[g]
    BY <1>19, <2>2 DEF Close, NextCall, Calling, FiberType
  <2>4. state'[task[w].fiber] = "RUNNING" /\ phase'[task[w].fiber] \notin Waits
    BY <1>19, <2>2, CloseMoves, RunningFacts DEF Close, NextCall, Calling, FiberType, Waits, OnFiber
  <2>. QED BY <2>1, <2>2, <2>3, <2>4, RunKeepsFibers DEF RunsOn
<1>20. CASE Yield(w)
  <2>1. at'[w] = "finish" /\ \A v \in Worker \ {w} : at'[v] = at[v] BY <1>20, YieldMoves
  <2>2. task[w] \in Task /\ task[w].kind = "fiber" /\ task[w].fiber \in Fiber /\ task[w].fiber \notin toSubmit
        /\ \A v \in Worker \ {w} : at[v] \in OnFiber => task[v].fiber # task[w].fiber
    BY <1>20, YieldMoves, RunningFacts DEF OnFiber
  <2>3. UNCHANGED <<task, toSubmit>> /\ \A g \in Fiber \ {task[w].fiber} : state'[g] = state[g] /\ phase'[g] = phase[g]
    BY <1>20, <2>2 DEF Yield, FiberType
  <2>4. state'[task[w].fiber] # "RUNNING"
    BY <1>20, <2>2, YieldMoves, RunningFacts DEF Yield, FiberType, Waits, OnFiber
  <2>. QED BY <2>1, <2>2, <2>3, <2>4, RunKeepsFibers DEF RunsOn
<1>21. CASE AddEvent(w)
  <2>1. CASE events[CallOf(task[w].fiber).fd] # None
    <3>1. at' = at BY <1>21, <2>1, AddEventMoves
    <3>2. UNCHANGED <<task, state, phase, toSubmit>> BY <1>21, <2>1 DEF AddEvent
    <3>. QED BY <3>1, <3>2 DEF FibersInv
  <2>2. CASE events[CallOf(task[w].fiber).fd] = None
    <3>1. at'[w] = "yield" /\ \A v \in Worker \ {w} : at'[v] = at[v] BY <1>21, <2>2, AddEventMoves
    <3>2. task[w] \in Task /\ task[w].kind = "fiber" /\ task[w].fiber \in Fiber /\ task[w].fiber \notin toSubmit
          /\ state[task[w].fiber] = "RUNNING"
          /\ \A v \in Worker \ {w} : at[v] \in OnFiber => task[v].fiber # task[w].fiber
      BY <1>21, AddEventMoves, RunningFacts DEF OnFiber
    <3>3. UNCHANGED <<task, toSubmit, state>> /\ phase' = [phase EXCEPT ![task[w].fiber] = "waiting"]
      BY <1>21, <2>2 DEF AddEvent
    <3>. QED BY <3>1, <3>2, <3>3, RunKeepsFibers DEF RunsOn, FiberType, Waits
  <2>. QED BY <2>1, <2>2
<1>. QED BY <1>1, <1>2, <1>3, <1>4, <1>5, <1>6, <1>7, <1>8, <1>9, <1>10, <1>11, <1>12, <1>13, <1>14, <1>15, <1>16,
     <1>17, <1>18, <1>19, <1>20, <1>21 DEF WorkerStep, RunStep, FiberStep, IdleStep

---------------------------------------------------------------------------
(* Every fiber keeps the wake-ups it needs.                                *)

Woken(f) == WakeUps(f) = Asked(f)

\* A step that leaves the queue, the timers and the sockets alone.
LEMMA SameWakeUps ==
    ASSUME IInv, UNCHANGED <<tasks_, events, timers_, cbs>>, NEW f \in Fiber,
           Cardinality(Held(at', task', f)) = Cardinality(Held(at, task, f)), Asked(f)' = Asked(f)
    PROVE  Woken(f)'
<1>1. AllTimers' = AllTimers BY DEF AllTimers
<1>. QED BY <1>1, WakeUpsType DEF Woken, WakeUps

LEMMA SameAsked ==
    ASSUME UNCHANGED toSubmit, NEW f \in Fiber, state'[f] = state[f], phase'[f] = phase[f]
    PROVE  Asked(f)' = Asked(f)
BY DEF Asked

LEMMA TypedTasks == ASSUME IInv PROVE tasks_ \in Seq(Task) /\ \A i \in DOMAIN tasks_ : tasks_[i] \in Task
BY DEF IInv, TypeInv, TaskType

LEMMA SubmitWakes ==
    ASSUME IInv, NEW g \in Fiber, Submit(g), NEW f \in Fiber
    PROVE  Woken(f)'
<1>1. /\ tasks_' = Append(tasks_, FiberTask(g)) /\ toSubmit' = toSubmit \ {g} /\ g \in toSubmit
      /\ UNCHANGED <<events, timers_, cbs, state, phase, task, at>>
  BY StayMoves DEF Submit, IInv, TypeInv, mainVars, schedVars, runVars, idleVars, timerVars, ioVars, fiberVars
<1>2. AllTimers' = AllTimers BY <1>1 DEF AllTimers
<1>3. Cardinality(Queued(tasks_', f)) =
        IF Mine(FiberTask(g), f) THEN Cardinality(Queued(tasks_, f)) + 1 ELSE Cardinality(Queued(tasks_, f))
  BY <1>1, QueuedAppend, FiberTaskType, TypedTasks
<1>4. Mine(FiberTask(g), f) <=> f = g BY DEF Mine, FiberTask
<1>5. CASE f = g
  <2>1. Asked(f) = 0 /\ Asked(f)' = 1 BY <1>1, <1>5 DEF Asked, IInv, FibersInv
  <2>. QED BY <1>1, <1>2, <1>3, <1>4, <1>5, <2>1, WakeUpsType DEF Woken, WakeUps
<1>6. CASE f # g
  <2>1. Asked(f)' = Asked(f) BY <1>1, <1>6 DEF Asked
  <2>. QED BY <1>1, <1>2, <1>3, <1>4, <1>6, <2>1, WakeUpsType DEF Woken, WakeUps
<1>. QED BY <1>5, <1>6

LEMMA MainStepWakes ==
    ASSUME IInv, \/ \E f \in Fiber : Submit(f)
                 \/ MainTickle \/ Stop \/ StopTickle \/ ResumeRoot \/ Join \/ Tick \/ \E fd \in Fd : Arrive(fd)
    PROVE  WakesInv'
<1>. USE DEF mainVars, schedVars, runVars, idleVars, timerVars, ioVars, fiberVars
<1>1. UNCHANGED <<timers_, cbs>>
  BY DEF Submit, MainTickle, Stop, StopTickle, ResumeRoot, Join, Tick, Arrive
<1>2. OnePlace' BY <1>1 DEF IInv, WakesInv, OnePlace
<1>3. ASSUME NEW f \in Fiber PROVE Woken(f)'
  <2>1. CASE \E g \in Fiber : Submit(g) BY <1>3, <2>1, SubmitWakes
  <2>2. CASE ResumeRoot
    <3>1. at' = [w \in Worker |-> IF w = setup.caller THEN "scan" ELSE at[w]]
      BY <2>2, ResumeRootMoves DEF IInv, TypeInv
    <3>2. \A w \in Worker : w = setup.caller => at[w] = "off" BY <2>2 DEF IInv, WorkersInv, ResumeRoot
    <3>3. UNCHANGED <<tasks_, events, task, state, phase, toSubmit>> BY <2>2 DEF ResumeRoot
    <3>4. Held(at', task', f) = Held(at, task, f) BY <3>1, <3>2, <3>3, AtType DEF Held, IInv, TypeInv
    <3>. QED BY <1>1, <1>3, <3>3, <3>4, SameAsked, SameWakeUps
  <2>3. CASE MainTickle \/ Stop \/ StopTickle \/ Join \/ Tick \/ \E fd \in Fd : Arrive(fd)
    <3>1. UNCHANGED <<tasks_, events, task, state, phase, toSubmit, pc, then>>
      BY <2>3 DEF MainTickle, Stop, StopTickle, Join, Tick, Arrive
    <3>2. at' = at BY <3>1, StayMoves DEF IInv, TypeInv
    <3>. QED BY <1>1, <1>3, <3>1, <3>2, SameAsked, SameWakeUps
  <2>. QED BY <2>1, <2>2, <2>3
<1>. QED BY <1>2, <1>3 DEF WakesInv, Woken

\* The steps that move a worker, but no task.
LEMMA StepWakes ==
    ASSUME IInv, NEW w \in Worker, UNCHANGED <<tasks_, events, timers_, cbs, toSubmit>>, NEW f \in Fiber,
           Asked(f)' = Asked(f), \A v \in Worker \ {w} : at'[v] = at[v] /\ task'[v] = task[v],
           at[w] = "run" /\ Mine(task[w], f) <=> at'[w] = "run" /\ Mine(task'[w], f)
    PROVE  Woken(f)'
<1>1. Cardinality(Held(at', task', f)) = Cardinality(Held(at, task, f)) BY HeldChange
<1>. QED BY <1>1, SameWakeUps

LEMMA ScanWakes == ASSUME IInv, NEW w \in Worker, Scan(w), NEW f \in Fiber PROVE Woken(f)'
<1>. USE DEF mainVars, schedVars, runVars, idleVars, timerVars, ioVars, fiberVars, IInv, TypeInv
<1>1. UNCHANGED <<events, timers_, cbs, toSubmit, state, phase>> /\ at[w] = "scan" BY ScanMoves DEF Scan
<1>2. Asked(f)' = Asked(f) BY <1>1, SameAsked
<1>3. CASE tasks_ = <<>>
  <2>1. at' = [at EXCEPT ![w] = "empty"] /\ UNCHANGED <<tasks_, task>> BY <1>3, ScanMoves DEF Scan
  <2>. QED BY <1>1, <1>2, <2>1, AtType, StepWakes
<1>4. CASE tasks_ # <<>> /\ Head(tasks_).kind = "fiber" /\ state[Head(tasks_).fiber] # "READY"
  <2>1. UNCHANGED <<tasks_, task, pc, then>> BY <1>4 DEF Scan
  <2>2. at' = at BY <2>1, StayMoves
  <2>. QED BY <1>1, <1>2, <2>1, <2>2, StepWakes
<1>5. CASE tasks_ # <<>> /\ ~(Head(tasks_).kind = "fiber" /\ state[Head(tasks_).fiber] # "READY")
  <2>1. at' = [at EXCEPT ![w] = "run"] BY <1>5, GoToTicklingMoves DEF Scan, Busy
  <2>2. task' = [task EXCEPT ![w] = Head(tasks_)] /\ tasks_' = Tail(tasks_) BY <1>5 DEF Scan
  <2>3. at'[w] = "run" /\ task'[w] = Head(tasks_) /\ \A v \in Worker \ {w} : at'[v] = at[v] /\ task'[v] = task[v]
    BY <2>1, <2>2, AtType DEF TaskType
  <2>4. Cardinality(Held(at', task', f)) =
            IF Mine(Head(tasks_), f) THEN Cardinality(Held(at, task, f)) + 1 ELSE Cardinality(Held(at, task, f))
    BY <1>1, <2>3, HeldChange
  <2>5. Cardinality(Queued(tasks_', f)) =
            IF Mine(Head(tasks_), f) THEN Cardinality(Queued(tasks_, f)) - 1 ELSE Cardinality(Queued(tasks_, f))
    BY <1>5, <2>2, QueuedTail, TypedTasks
  <2>6. AllTimers' = AllTimers BY <1>1 DEF AllTimers
  <2>. HIDE DEF IInv
  <2>. QED BY <1>1, <1>2, <2>4, <2>5, <2>6, WakeUpsType DEF Woken, WakeUps
<1>. QED BY <1>3, <1>4, <1>5

LEMMA RunWakeWakes == ASSUME IInv, NEW w \in Worker, RunWake(w), NEW f \in Fiber PROVE Woken(f)'
<1>. DEFINE g == task[w].fiber
<1>1. at[w] = "run" /\ at' = [at EXCEPT ![w] = "finish"] BY RunWakeMoves DEF IInv, TypeInv
<1>2. tasks_' = Append(tasks_, FiberTask(g)) /\ UNCHANGED <<events, timers_, cbs, toSubmit, state, phase, task>>
  BY DEF RunWake, Schedule, mainVars, schedVars, runVars, idleVars, timerVars, ioVars, fiberVars
<1>3. g \in Fiber BY <1>1, TaskOf, TaskFacts DEF IInv, TypeInv, Busy
<1>4. Mine(task[w], f) <=> f = g BY DEF Mine, RunWake
<1>5. Mine(FiberTask(g), f) <=> f = g BY DEF Mine, FiberTask
<1>6. at'[w] = "finish" /\ \A v \in Worker \ {w} : at'[v] = at[v] /\ task'[v] = task[v]
  BY <1>1, <1>2, AtType DEF IInv, TypeInv
<1>7. Cardinality(Held(at', task', f)) =
        IF f = g THEN Cardinality(Held(at, task, f)) - 1 ELSE Cardinality(Held(at, task, f))
  BY <1>1, <1>4, <1>6, HeldChange
<1>8. Cardinality(Queued(tasks_', f)) =
        IF f = g THEN Cardinality(Queued(tasks_, f)) + 1 ELSE Cardinality(Queued(tasks_, f))
  BY <1>2, <1>3, <1>5, QueuedAppend, FiberTaskType, TypedTasks
<1>9. AllTimers' = AllTimers /\ Asked(f)' = Asked(f) BY <1>2, SameAsked DEF AllTimers
<1>. QED BY <1>2, <1>7, <1>8, <1>9, WakeUpsType DEF Woken, WakeUps

\* An event that is triggered: its fiber goes to the queue.
LEMMA TriggerWakes ==
    ASSUME IInv, NEW w, NEW fd \in Fd, NEW l, Trigger(w, fd, l), NEW f \in Fiber
    PROVE  Cardinality(Queued(tasks_', f)) + Cardinality(Registered(events', f))
                = Cardinality(Queued(tasks_, f)) + Cardinality(Registered(events, f))
<1>1. CASE events[fd] = None BY <1>1 DEF Trigger
<1>2. CASE events[fd] # None
  <2>1. events[fd] \in Fiber BY <1>2 DEF IInv, TypeInv, SocketType
  <2>2. tasks_' = Append(tasks_, FiberTask(events[fd])) /\ events' = [events EXCEPT ![fd] = None]
    BY <1>2 DEF Trigger, Schedule
  <2>3. Mine(FiberTask(events[fd]), f) <=> events[fd] = f BY DEF Mine, FiberTask
  <2>4. Cardinality(Queued(tasks_', f)) =
            IF events[fd] = f THEN Cardinality(Queued(tasks_, f)) + 1 ELSE Cardinality(Queued(tasks_, f))
    BY <2>1, <2>2, <2>3, QueuedAppend, FiberTaskType, TypedTasks
  <2>5. None # f BY ThreadsAssumption
  <2>6. Cardinality(Registered(events', f)) =
            IF events[fd] = f THEN Cardinality(Registered(events, f)) - 1 ELSE Cardinality(Registered(events, f))
    <3>1. SocketType BY DEF IInv, TypeInv
    <3>. QED BY <2>2, <2>5, <3>1, RegisteredLess
  <2>. QED BY <2>4, <2>6, WakeUpsType
<1>. QED BY <1>1, <1>2

LEMMA NewCountsType ==
    ASSUME TypeInv', NEW f \in Fiber
    PROVE  Cardinality(Queued(tasks_', f)) \in Nat /\ Cardinality(Registered(events', f)) \in Nat
<1>1. DOMAIN tasks_' = 1 .. Len(tasks_') /\ Len(tasks_') \in Nat BY DEF TypeInv, TaskType
<1>2. IsFiniteSet(1 .. Len(tasks_')) BY <1>1, FS_Interval
<1>3. IsFiniteSet(Queued(tasks_', f)) BY <1>1, <1>2, FS_Subset DEF Queued
<1>4. IsFiniteSet(Registered(events', f)) BY ThreadsAssumption, FS_Subset DEF Registered
<1>. QED BY <1>3, <1>4, FS_CardinalityType

LEMMA TriggeredWakes ==
    ASSUME IInv, UNCHANGED <<timers_, cbs>>, TypeInv', NEW f \in Fiber, Asked(f)' = Asked(f),
           Cardinality(Held(at', task', f)) = Cardinality(Held(at, task, f)),
           Cardinality(Queued(tasks_', f)) + Cardinality(Registered(events', f))
                = Cardinality(Queued(tasks_, f)) + Cardinality(Registered(events, f))
    PROVE  Woken(f)'
<1>1. AllTimers' = AllTimers BY DEF AllTimers
<1>2. WakeUps(f)' = WakeUps(f)
  <2>1. IsFiniteSet(Queued(tasks_, f)) /\ IsFiniteSet(Registered(events, f)) BY WakeUpsType
  <2>. DEFINE a == Cardinality(Queued(tasks_', f))  b == Cardinality(Registered(events', f))
              c == Cardinality(Queued(tasks_, f))   d == Cardinality(Registered(events, f))
              m == Cardinality(Armed(AllTimers, f)) h == Cardinality(Held(at, task, f))
  <2>2. c \in Nat /\ d \in Nat /\ m \in Nat /\ h \in Nat BY WakeUpsType
  <2>3. a \in Nat /\ b \in Nat BY NewCountsType
  <2>4. a + b = c + d OBVIOUS
  <2>5. WakeUps(f)' = a + m + b + h BY <1>1 DEF WakeUps
  <2>6. WakeUps(f) = c + m + d + h BY DEF WakeUps
  <2>. HIDE DEF a, b, c, d, m, h
  <2>. QED BY <2>2, <2>3, <2>4, <2>5, <2>6
<1>. QED BY <1>2, WakeUpsType DEF Woken

LEMMA SleepWakes == ASSUME IInv, NEW w \in Worker, Sleep(w), NEW f \in Fiber PROVE Woken(f)'
<1>. DEFINE g == task[w].fiber
            t == [kind |-> "wake", fiber |-> g, call |-> call[g], next |-> now + TimerMs(CallOf(g))]
<1>1. at[w] = "fiber" /\ at' = [at EXCEPT ![w] = "yield"] BY SleepMoves DEF IInv, TypeInv
<1>2. /\ timers_' = timers_ \cup {t} /\ UNCHANGED <<tasks_, events, cbs, toSubmit, state, task>>
      /\ phase' = [phase EXCEPT ![g] = "asleep"]
  BY DEF Sleep, AddTimer, mainVars, schedVars, runVars, idleVars, timerVars, ioVars, fiberVars
<1>3. g \in Fiber /\ state[g] = "RUNNING" /\ g \notin toSubmit /\ phase[g] = "start"
  BY <1>1, RunningFacts, CallingFacts DEF OnFiber, Sleep
<1>4. AllTimers' = AllTimers \cup {t} BY <1>2 DEF AllTimers
<1>5. Cardinality(Held(at', task', f)) = Cardinality(Held(at, task, f))
  BY <1>1, <1>2, HeldStays DEF IInv, TypeInv
<1>6. CASE f = g
  <2>1. Asked(f) = 0 BY <1>3, <1>6 DEF Asked, Waits
  <2>2. Asked(f)' = 1 BY <1>2, <1>3, <1>6 DEF Asked, Waits, IInv, TypeInv, FiberType
  <2>3. Armed(AllTimers, f) = {} BY <2>1, NoneAsked
  <2>4. t.kind = "wake" /\ t.fiber = f BY <1>6
  <2>. HIDE DEF t
  <2>5. Armed(AllTimers', f) = {t} BY <1>4, <2>3, <2>4 DEF Armed
  <2>6. Cardinality(Armed(AllTimers', f)) = 1 /\ Cardinality(Armed(AllTimers, f)) = 0
    BY <2>3, <2>5, FS_Singleton, FS_EmptySet
  <2>. QED BY <1>2, <1>5, <2>1, <2>2, <2>6, WakeUpsType DEF Woken, WakeUps
<1>7. CASE f # g
  <2>1. Asked(f)' = Asked(f) BY <1>2, <1>7, SameAsked DEF IInv, TypeInv, FiberType
  <2>2. t.fiber # f BY <1>7
  <2>. HIDE DEF t
  <2>3. Armed(AllTimers', f) = Armed(AllTimers, f) BY <1>4, <2>2 DEF Armed
  <2>. QED BY <1>2, <1>5, <2>1, <2>3, WakeUpsType DEF Woken, WakeUps
<1>. QED BY <1>6, <1>7

LEMMA ReadAgainWakes == ASSUME IInv, NEW w \in Worker, ReadAgain(w), NEW f \in Fiber PROVE Woken(f)'
<1>. DEFINE g == task[w].fiber
<1>1. at[w] = "fiber" /\ at' = at BY ReadAgainMoves DEF IInv, TypeInv
<1>2. UNCHANGED <<tasks_, events, cbs, toSubmit, state, task>> /\ phase' = [phase EXCEPT ![g] = "addEvent"]
  BY DEF ReadAgain, mainVars, schedVars, runVars, idleVars, timerVars, ioVars, fiberVars
<1>3. g \in Fiber /\ phase[g] = "start" BY CallingFacts DEF ReadAgain
<1>4. Armed(AllTimers', f) = Armed(AllTimers, f)
  <2>. DEFINE t == [kind |-> "timeout", fiber |-> g, call |-> call[g], next |-> now + TimerMs(CallOf(g))]
  <2>1. timers_' = timers_ \/ timers_' = timers_ \cup {t} BY DEF ReadAgain, AddTimer, timerVars
  <2>2. t.kind # "wake" OBVIOUS
  <2>. HIDE DEF t
  <2>3. AllTimers' = AllTimers \/ AllTimers' = AllTimers \cup {t} BY <1>2, <2>1 DEF AllTimers
  <2>. QED BY <2>2, <2>3 DEF Armed
<1>5. Asked(f)' = Asked(f) BY <1>2, <1>3 DEF Asked, Waits, IInv, TypeInv, FiberType
<1>. QED BY <1>1, <1>2, <1>4, <1>5, WakeUpsType DEF Woken, WakeUps

LEMMA AddEventWakes == ASSUME IInv, NEW w \in Worker, AddEvent(w), NEW f \in Fiber PROVE Woken(f)'
<1>. DEFINE g == task[w].fiber
            fd == CallOf(g).fd
<1>1. at[w] = "fiber" /\ g \in Fiber /\ fd \in Fd /\ phase[g] = "addEvent"
  BY AddEventFacts DEF AddEvent
<1>2. UNCHANGED <<tasks_, timers_, cbs, toSubmit, state, task>> BY DEF AddEvent, mainVars, schedVars, runVars,
     idleVars, timerVars, ioVars, fiberVars
<1>3. state[g] = "RUNNING" /\ g \notin toSubmit BY <1>1, RunningFacts DEF OnFiber
<1>4. CASE events[fd] # None
  <2>1. UNCHANGED <<events, phase>> /\ at' = at BY <1>4, AddEventMoves DEF AddEvent, IInv, TypeInv
  <2>. QED BY <1>2, <2>1, SameAsked, SameWakeUps
<1>5. CASE events[fd] = None
  <2>1. /\ events' = [events EXCEPT ![fd] = g] /\ phase' = [phase EXCEPT ![g] = "waiting"]
        /\ at' = [at EXCEPT ![w] = "yield"]
    BY <1>5, AddEventMoves DEF AddEvent, IInv, TypeInv
  <2>2. Cardinality(Held(at', task', f)) = Cardinality(Held(at, task, f))
    BY <1>1, <1>2, <2>1, HeldStays DEF IInv, TypeInv
  <2>3. AllTimers' = AllTimers BY <1>2 DEF AllTimers
  <2>4. f # None BY ThreadsAssumption
  <2>5. Cardinality(Registered(events', f)) =
            IF f = g THEN Cardinality(Registered(events, f)) + 1 ELSE Cardinality(Registered(events, f))
    <3>1. SocketType /\ fd \in Fd BY <1>1 DEF IInv, TypeInv
    <3>2. g # None BY <1>1, ThreadsAssumption
    <3>. HIDE DEF g, fd
    <3>. QED BY <1>5, <2>1, <2>4, <3>1, <3>2, RegisteredMore
  <2>6. CASE f = g
    <3>1. Asked(f) = 0 BY <1>1, <1>3, <2>6 DEF Asked, Waits
    <3>2. Asked(f)' = 1 BY <1>2, <1>3, <2>1, <2>6 DEF Asked, Waits, IInv, TypeInv, FiberType
    <3>. QED BY <1>2, <2>2, <2>3, <2>5, <2>6, <3>1, <3>2, WakeUpsType DEF Woken, WakeUps
  <2>7. CASE f # g
    <3>1. Asked(f)' = Asked(f) BY <1>2, <2>1, <2>7, SameAsked DEF IInv, TypeInv, FiberType
    <3>. QED BY <1>2, <2>2, <2>3, <2>5, <2>7, <3>1, WakeUpsType DEF Woken, WakeUps
  <2>. QED BY <2>6, <2>7
<1>. QED BY <1>4, <1>5

LEMMA ResumeWakes == ASSUME IInv, NEW w \in Worker, Resume(w), NEW f \in Fiber PROVE Woken(f)'
<1>. DEFINE g == task[w].fiber
<1>1. at[w] = "run" /\ at' = [at EXCEPT ![w] = "fiber"] BY ResumeMoves DEF IInv, TypeInv
<1>2. /\ UNCHANGED <<tasks_, events, cbs, toSubmit, task>> /\ state' = [state EXCEPT ![g] = "RUNNING"]
      /\ timers_' = {t \in timers_ : phase[g] = "waiting" => t.fiber # g}
      /\ phase' = [phase EXCEPT ![g] = "start"]
  BY DEF Resume, NextCall, mainVars, schedVars, runVars, idleVars, timerVars, ioVars, fiberVars
<1>3. g \in Fiber /\ g \notin toSubmit /\ Asked(g) = 1 /\ w \in Held(at, task, g) BY ResumedFacts
<1>4. Mine(task[w], f) <=> f = g BY DEF Mine, Resume
<1>5. at'[w] = "fiber" /\ \A v \in Worker \ {w} : at'[v] = at[v] /\ task'[v] = task[v]
  BY <1>1, <1>2, AtType DEF IInv, TypeInv
<1>6. Cardinality(Held(at', task', f)) =
        IF f = g THEN Cardinality(Held(at, task, f)) - 1 ELSE Cardinality(Held(at, task, f))
  BY <1>1, <1>4, <1>5, HeldChange
<1>7. Armed(AllTimers', f) = Armed(AllTimers, f)
  <2>1. CASE f = g
    <3>1. Armed(AllTimers, f) = {} BY <1>3, <2>1, OneHeld
    <3>2. AllTimers' \subseteq AllTimers BY <1>2 DEF AllTimers
    <3>. QED BY <3>1, <3>2 DEF Armed
  <2>2. CASE f # g
    <3>1. \A t : t.fiber = f => (t \in AllTimers' <=> t \in AllTimers) BY <1>2, <2>2 DEF AllTimers
    <3>. QED BY <3>1 DEF Armed
  <2>. QED BY <2>1, <2>2
<1>8. Asked(f)' = IF f = g THEN 0 ELSE Asked(f)
  BY <1>2, <1>3 DEF Asked, Waits, IInv, TypeInv, FiberType
<1>. QED BY <1>2, <1>3, <1>6, <1>7, <1>8, WakeUpsType DEF Woken, WakeUps

LEMMA ListExpiredCbTimers ==
    ASSUME IInv, NEW w \in Worker, ListExpiredCb(w)
    PROVE  /\ AllTimers' = AllTimers /\ cbs[w] = {} /\ Expired(nowMs[w]) \subseteq timers_
           /\ timers_' = timers_ \ Expired(nowMs[w])
           /\ \A v \in Worker : cbs'[v] = IF v = w THEN Expired(nowMs[w]) ELSE cbs[v]
<1>1. cbs[w] = {} BY ListExpiredCbMoves DEF IInv, TypeInv, WorkersInv
<1>2. timers_' = timers_ \ Expired(nowMs[w]) /\ Expired(nowMs[w]) \subseteq timers_ BY DEF ListExpiredCb, Expired
<1>3. \A v \in Worker : cbs'[v] = IF v = w THEN Expired(nowMs[w]) ELSE cbs[v]
  BY DEF ListExpiredCb, IInv, TypeInv, TimerType
<1>4. \A t : t \in UNION {cbs[v] : v \in Worker} <=> \E v \in Worker : t \in cbs[v] OBVIOUS
<1>5. \A t : t \in UNION {cbs'[v] : v \in Worker} <=> \E v \in Worker : t \in cbs'[v] OBVIOUS
<1>6. \A t : t \in AllTimers' <=> t \in AllTimers BY <1>1, <1>2, <1>3, <1>4, <1>5 DEF AllTimers
<1>. QED BY <1>1, <1>2, <1>3, <1>6

LEMMA ListExpiredCbWakes == ASSUME IInv, NEW w \in Worker, ListExpiredCb(w), NEW f \in Fiber PROVE Woken(f)'
<1>1. at[w] = "expire" /\ at' = [at EXCEPT ![w] = "push"] BY ListExpiredCbMoves DEF IInv, TypeInv
<1>2. UNCHANGED <<tasks_, events, toSubmit, state, phase, task>> BY DEF ListExpiredCb, mainVars, schedVars,
     runVars, idleVars, timerVars, ioVars, fiberVars
<1>3. Cardinality(Held(at', task', f)) = Cardinality(Held(at, task, f))
  BY <1>1, <1>2, HeldStays DEF IInv, TypeInv
<1>4. AllTimers' = AllTimers BY ListExpiredCbTimers
<1>5. Asked(f)' = Asked(f) BY <1>2, SameAsked
<1>. QED BY <1>2, <1>3, <1>4, <1>5, WakeUpsType DEF Woken, WakeUps

\* A timer whose callback becomes a task.
LEMMA PushCbTimers ==
    ASSUME IInv, NEW w \in Worker, NEW t \in cbs[w], cbs' = [cbs EXCEPT ![w] = @ \ {t}], UNCHANGED timers_
    PROVE  /\ \A v \in Worker : cbs'[v] = IF v = w THEN cbs[w] \ {t} ELSE cbs[v]
           /\ t \in AllTimers /\ AllTimers' \subseteq AllTimers /\ AllTimers \ {t} \subseteq AllTimers'
           /\ t.kind = "wake" => t \notin AllTimers'
<1>1. \A v \in Worker : cbs'[v] = IF v = w THEN cbs[w] \ {t} ELSE cbs[v] BY DEF IInv, TypeInv, TimerType
<1>2. \A u : u \in UNION {cbs[v] : v \in Worker} <=> \E v \in Worker : u \in cbs[v] OBVIOUS
<1>3. \A u : u \in UNION {cbs'[v] : v \in Worker} <=> \E v \in Worker : u \in cbs'[v] OBVIOUS
<1>4. t \in AllTimers BY <1>2 DEF AllTimers
<1>5. \A u : u \in AllTimers' => u \in AllTimers BY <1>1, <1>2, <1>3 DEF AllTimers
<1>6. \A u : u # t /\ u \in AllTimers => u \in AllTimers' BY <1>1, <1>2, <1>3 DEF AllTimers
<1>7. ASSUME t.kind = "wake" PROVE t \notin AllTimers'
  <2>1. t \notin timers_ /\ \A v \in Worker \ {w} : t \notin cbs[v] BY <1>7 DEF IInv, WakesInv, OnePlace
  <2>. QED BY <1>1, <1>3, <2>1 DEF AllTimers
<1>. QED BY <1>1, <1>4, <1>5, <1>6, <1>7

LEMMA PushCbWakes == ASSUME IInv, NEW w \in Worker, PushCb(w), NEW f \in Fiber PROVE Woken(f)'
<1>1. at' = at BY PushCbMoves DEF IInv, TypeInv
<1>2. UNCHANGED <<timers_, events, toSubmit, state, phase, task>> BY DEF PushCb, mainVars, schedVars, runVars,
     idleVars, timerVars, ioVars, fiberVars
<1>3. PICK t \in cbs[w] : /\ cbs' = [cbs EXCEPT ![w] = @ \ {t}]
                           /\ tasks_' = Append(tasks_, [kind |-> t.kind, fiber |-> t.fiber, call |-> t.call])
  BY DEF PushCb, Schedule
<1>. DEFINE k == [kind |-> t.kind, fiber |-> t.fiber, call |-> t.call]
<1>4. t \in Timer BY DEF IInv, TypeInv, TimerType
<1>5. k \in Task /\ t.kind # "fiber" BY <1>4 DEF Timer, Task, Timed
<1>6. t \in AllTimers /\ AllTimers' \subseteq AllTimers /\ AllTimers \ {t} \subseteq AllTimers'
      /\ (t.kind = "wake" => t \notin AllTimers')
  BY <1>2, <1>3, PushCbTimers
<1>7. Armed(AllTimers', f) = Armed(AllTimers, f) \ {t} BY <1>6 DEF Armed
<1>8. t \in Armed(AllTimers, f) <=> Mine(k, f) BY <1>5, <1>6 DEF Armed, Mine
<1>9. Cardinality(Armed(AllTimers', f)) =
        IF Mine(k, f) THEN Cardinality(Armed(AllTimers, f)) - 1 ELSE Cardinality(Armed(AllTimers, f))
  BY <1>7, <1>8, WakeUpsType, FS_RemoveElement
<1>10. Cardinality(Queued(tasks_', f)) =
        IF Mine(k, f) THEN Cardinality(Queued(tasks_, f)) + 1 ELSE Cardinality(Queued(tasks_, f))
  BY <1>3, <1>5, QueuedAppend, TypedTasks
<1>11. Asked(f)' = Asked(f) BY <1>2, SameAsked
<1>. HIDE DEF k
<1>. QED BY <1>1, <1>2, <1>9, <1>10, <1>11, WakeUpsType DEF Woken, WakeUps

LEMMA YieldWakes == ASSUME IInv, NEW w \in Worker, Yield(w), NEW f \in Fiber PROVE Woken(f)'
<1>. DEFINE g == task[w].fiber
<1>1. at[w] \in OnFiber /\ at' = [at EXCEPT ![w] = "finish"] BY YieldMoves DEF IInv, TypeInv
<1>2. UNCHANGED <<tasks_, events, timers_, cbs, toSubmit, phase, task>> BY DEF Yield, mainVars, schedVars, runVars,
     idleVars, timerVars, ioVars, fiberVars
<1>3. g \in Fiber /\ state[g] = "RUNNING" /\ g \notin toSubmit BY <1>1, RunningFacts
<1>4. Cardinality(Held(at', task', f)) = Cardinality(Held(at, task, f))
  BY <1>1, <1>2, HeldStays DEF IInv, TypeInv, OnFiber
<1>5. CASE f # g
  <2>1. Asked(f)' = Asked(f) BY <1>2, <1>5, SameAsked DEF Yield, IInv, TypeInv, FiberType
  <2>. QED BY <1>2, <1>4, <2>1, SameWakeUps
<1>6. CASE f = g /\ pc[w] = "yield"
  <2>1. phase[g] \in Waits BY <1>6, AtPc DEF IInv, TypeInv, FibersInv
  <2>2. state'[g] = "READY" BY <1>3, <1>6 DEF Yield, IInv, TypeInv, FiberType
  <2>3. Asked(f) = 1 BY <1>3, <1>6, <2>1 DEF Asked
  <2>4. Asked(f)' = 1 BY <1>2, <1>3, <1>6, <2>2 DEF Asked
  <2>. QED BY <1>2, <1>4, <2>3, <2>4, SameWakeUps
<1>7. CASE f = g /\ pc[w] # "yield"
  <2>1. phase[g] \notin Waits /\ pc[w] = "fiber" BY <1>7, AtPc DEF Yield, IInv, TypeInv, FibersInv
  <2>2. state'[g] = "TERM" BY <1>3, <1>7, <2>1 DEF Yield, IInv, TypeInv, FiberType
  <2>3. Asked(f) = 0 BY <1>3, <1>7, <2>1 DEF Asked
  <2>4. Asked(f)' = 0 BY <1>2, <1>3, <1>7, <2>2 DEF Asked
  <2>. QED BY <1>2, <1>4, <2>3, <2>4, SameWakeUps
<1>. QED BY <1>5, <1>6, <1>7

LEMMA RunTimeoutWakes == ASSUME IInv, NEW w \in Worker, RunTimeout(w), NEW f \in Fiber PROVE Woken(f)'
<1>1. at[w] = "run" /\ at' = [at EXCEPT ![w] = "finish"] BY RunTimeoutMoves DEF IInv, TypeInv
<1>2. UNCHANGED <<timers_, cbs, toSubmit, state, phase, task>> BY DEF RunTimeout, mainVars, schedVars, runVars,
     idleVars, timerVars, ioVars, fiberVars
<1>3. at'[w] = "finish" /\ \A v \in Worker \ {w} : at'[v] = at[v] /\ task'[v] = task[v]
  BY <1>1, <1>2, AtType DEF IInv, TypeInv
<1>4. ~Mine(task[w], f) BY DEF Mine, RunTimeout
<1>5. Cardinality(Held(at', task', f)) = Cardinality(Held(at, task, f)) BY <1>1, <1>3, <1>4, HeldChange
<1>6. Asked(f)' = Asked(f) BY <1>2, SameAsked
<1>7. CASE call[task[w].fiber] = task[w].call /\ ~cnacelled[task[w].fiber]
  <2>1. Cardinality(Queued(tasks_', f)) + Cardinality(Registered(events', f))
            = Cardinality(Queued(tasks_, f)) + Cardinality(Registered(events, f))
    BY <1>7, TimeoutFacts, TriggerWakes DEF RunTimeout
  <2>. QED BY <1>2, <1>5, <1>6, <2>1, TriggeredWakes, RunTimeoutTypes
<1>8. CASE ~(call[task[w].fiber] = task[w].call /\ ~cnacelled[task[w].fiber])
  <2>1. UNCHANGED <<tasks_, events>> BY <1>8 DEF RunTimeout
  <2>. QED BY <1>2, <1>5, <1>6, <2>1, SameWakeUps
<1>. QED BY <1>7, <1>8

LEMMA CloseWakes == ASSUME IInv, NEW w \in Worker, Close(w), NEW f \in Fiber PROVE Woken(f)'
<1>1. at' = at /\ UNCHANGED <<timers_, cbs, toSubmit, state, task>> BY CloseMoves DEF Close, mainVars, schedVars,
     runVars, idleVars, timerVars, ioVars, fiberVars, IInv, TypeInv
<1>2. CallOf(task[w].fiber).fd \in Fd /\ task[w].fiber \in Fiber /\ phase[task[w].fiber] = "start"
  BY CallingFacts DEF Close
<1>3. phase' = phase BY <1>2 DEF Close, NextCall, IInv, TypeInv, FiberType
<1>4. Asked(f)' = Asked(f) BY <1>1, <1>3, SameAsked
<1>5. Cardinality(Queued(tasks_', f)) + Cardinality(Registered(events', f))
        = Cardinality(Queued(tasks_, f)) + Cardinality(Registered(events, f))
  BY <1>2, TriggerWakes DEF Close
<1>. QED BY <1>1, <1>4, <1>5, TriggeredWakes, CloseTypes

LEMMA HandleEventWakes == ASSUME IInv, NEW w \in Worker, HandleEvent(w), NEW f \in Fiber PROVE Woken(f)'
<1>1. at' = at /\ UNCHANGED <<timers_, cbs, toSubmit, state, phase, task>>
  BY HandleEventMoves DEF HandleEvent, mainVars, schedVars, runVars, idleVars, timerVars, ioVars, fiberVars, IInv,
     TypeInv
<1>2. PICK fd \in got[w] : Trigger(w, fd, "push") BY DEF HandleEvent
<1>3. fd \in Fd BY DEF IInv, TypeInv, SocketType
<1>4. Cardinality(Queued(tasks_', f)) + Cardinality(Registered(events', f))
        = Cardinality(Queued(tasks_, f)) + Cardinality(Registered(events, f))
  BY <1>2, <1>3, TriggerWakes
<1>5. Asked(f)' = Asked(f) BY <1>1, SameAsked
<1>. QED BY <1>1, <1>4, <1>5, TriggeredWakes, HandleEventTypes

LEMMA WorkerStepWakes == ASSUME IInv, NEW w \in Worker, WorkerStep(w), NEW f \in Fiber PROVE Woken(f)'
<1>1. CASE WorkerTickle(w) \/ ReadNow(w)
  <2>1. at' = at BY <1>1, WorkerTickleMoves, ReadNowMoves DEF IInv, TypeInv
  <2>2. UNCHANGED <<tasks_, events, timers_, cbs, toSubmit, task, state>>
    BY <1>1 DEF WorkerTickle, ReadNow, mainVars, schedVars, runVars, idleVars, timerVars, ioVars, fiberVars
  <2>3. phase' = phase
    <3>1. CASE WorkerTickle(w) BY <3>1 DEF WorkerTickle, fiberVars
    <3>2. CASE ReadNow(w)
      <4>1. task[w].fiber \in Fiber /\ phase[task[w].fiber] = "start" BY <3>2, CallingFacts DEF ReadNow
      <4>. QED BY <3>2, <4>1 DEF ReadNow, NextCall, IInv, TypeInv, FiberType
    <3>. QED BY <1>1, <3>1, <3>2
  <2>. QED BY <2>1, <2>2, <2>3, SameAsked, SameWakeUps
<1>2. CASE GoIdle(w) \/ Finish(w) \/ GetNextTimer(w) \/ Stopping(w) \/ EpollWait(w) \/ ReadClock(w) \/ LeaveIdle(w)
  <2>1. /\ UNCHANGED <<tasks_, events, timers_, cbs, toSubmit, state, phase>>
        /\ \A v \in Worker \ {w} : task'[v] = task[v]
    BY <1>2 DEF GoIdle, Finish, GetNextTimer, Stopping, EpollWait, ReadClock, LeaveIdle, mainVars, schedVars,
       runVars, idleVars, timerVars, ioVars, fiberVars, IInv, TypeInv, TaskType
  <2>2. at[w] # "run" /\ at'[w] # "run" /\ \A v \in Worker \ {w} : at'[v] = at[v]
    <3>. USE AtType DEF IInv, TypeInv
    <3>1. CASE GoIdle(w) BY <3>1, GoIdleMoves
    <3>2. CASE Finish(w) BY <3>2, FinishMoves
    <3>3. CASE GetNextTimer(w) BY <3>3, GetNextTimerMoves
    <3>4. CASE Stopping(w) BY <3>4, StoppingMoves
    <3>5. CASE EpollWait(w) BY <3>5, EpollWaitMoves
    <3>6. CASE ReadClock(w) BY <3>6, ReadClockMoves
    <3>7. CASE LeaveIdle(w) BY <3>7, LeaveIdleMoves
    <3>. QED BY <1>2, <3>1, <3>2, <3>3, <3>4, <3>5, <3>6, <3>7
  <2>3. Asked(f)' = Asked(f) BY <2>1, SameAsked
  <2>. QED BY <2>1, <2>2, <2>3, StepWakes
<1>. QED BY <1>1, <1>2, ScanWakes, RunWakeWakes, RunTimeoutWakes, ResumeWakes, SleepWakes, ReadAgainWakes,
        AddEventWakes, CloseWakes, YieldWakes, ListExpiredCbWakes, PushCbWakes, HandleEventWakes
     DEF WorkerStep, RunStep, FiberStep, IdleStep

LEMMA WorkerStepPlaces == ASSUME IInv, NEW w \in Worker, WorkerStep(w) PROVE OnePlace'
<1>. USE DEF mainVars, schedVars, runVars, idleVars, timerVars, ioVars, fiberVars
<1>1. CASE Resume(w)
  <2>1. timers_' \subseteq timers_ /\ UNCHANGED cbs BY <1>1 DEF Resume
  <2>. QED BY <2>1 DEF IInv, WakesInv, OnePlace
<1>2. CASE Sleep(w)
  <2>. DEFINE g == task[w].fiber
              t == [kind |-> "wake", fiber |-> g, call |-> call[g], next |-> now + TimerMs(CallOf(g))]
  <2>1. timers_' = timers_ \cup {t} /\ UNCHANGED cbs BY <1>2 DEF Sleep, AddTimer
  <2>2. g \in Fiber /\ state[g] = "RUNNING" /\ phase[g] = "start"
    BY <1>2, CallingFacts, RunningFacts DEF OnFiber, Sleep
  <2>3. Armed(AllTimers, g) = {} BY <2>2, NoneAsked DEF Asked, Waits
  <2>4. \A v \in Worker : t \notin cbs[v] BY <2>3 DEF Armed, AllTimers
  <2>. HIDE DEF t
  <2>. QED BY <2>1, <2>4 DEF IInv, WakesInv, OnePlace
<1>3. CASE ReadAgain(w)
  <2>. DEFINE g == task[w].fiber
              t == [kind |-> "timeout", fiber |-> g, call |-> call[g], next |-> now + TimerMs(CallOf(g))]
  <2>1. (timers_' = timers_ \/ timers_' = timers_ \cup {t}) /\ UNCHANGED cbs
    BY <1>3 DEF ReadAgain, AddTimer
  <2>2. t.kind # "wake" OBVIOUS
  <2>. HIDE DEF t
  <2>. QED BY <2>1, <2>2 DEF IInv, WakesInv, OnePlace
<1>4. CASE ListExpiredCb(w)
  <2>. DEFINE E == Expired(nowMs[w])
  <2>1. /\ E \subseteq timers_ /\ timers_' = timers_ \ E
        /\ \A v \in Worker : cbs'[v] = IF v = w THEN E ELSE cbs[v]
    BY <1>4, ListExpiredCbTimers
  <2>. HIDE DEF E
  <2>. QED BY <2>1 DEF IInv, WakesInv, OnePlace
<1>5. CASE PushCb(w)
  <2>1. PICK t \in cbs[w] : cbs' = [cbs EXCEPT ![w] = @ \ {t}] BY <1>5 DEF PushCb
  <2>2. timers_' = timers_ BY <1>5 DEF PushCb
  <2>3. \A v \in Worker : cbs'[v] \subseteq cbs[v] BY <2>1 DEF IInv, TypeInv, TimerType
  <2>. QED BY <2>2, <2>3 DEF IInv, WakesInv, OnePlace
<1>6. CASE ~(Resume(w) \/ Sleep(w) \/ ReadAgain(w) \/ ListExpiredCb(w) \/ PushCb(w))
  <2>1. UNCHANGED <<timers_, cbs>>
    BY <1>6 DEF WorkerStep, RunStep, FiberStep, IdleStep, WorkerTickle, Scan, GoIdle, Finish, RunWake, RunTimeout,
       ReadNow, AddEvent, Close, Yield, GetNextTimer, Stopping, EpollWait, ReadClock, HandleEvent, LeaveIdle
  <2>. QED BY <2>1 DEF IInv, WakesInv, OnePlace
<1>. QED BY <1>1, <1>2, <1>3, <1>4, <1>5, <1>6

---------------------------------------------------------------------------
(* What is waited for is what the programs call.                           *)

LEMMA SetupStays == ASSUME Next PROVE setup' = setup
<1>1. ASSUME NEW w \in Worker, RunStep(w) PROVE setup' = setup
  BY <1>1 DEF RunStep, WorkerTickle, Scan, GoIdle, Finish, RunWake, RunTimeout, mainVars
<1>2. ASSUME NEW w \in Worker, FiberStep(w) PROVE setup' = setup
  BY <1>2 DEF FiberStep, Resume, Sleep, ReadNow, ReadAgain, AddEvent, Close, Yield, mainVars
<1>3. ASSUME NEW w \in Worker, IdleStep(w) PROVE setup' = setup
  BY <1>3 DEF IdleStep, GetNextTimer, Stopping, EpollWait, ReadClock, ListExpiredCb, PushCb, HandleEvent,
     LeaveIdle, mainVars
<1>4. CASE MainStep \/ Tick \/ \E fd \in Fd : Arrive(fd)
  BY <1>4 DEF MainStep, Submit, MainTickle, Stop, StopTickle, ResumeRoot, Join, Tick, Arrive, mainVars
<1>. QED BY <1>1, <1>2, <1>3, <1>4 DEF Next, WorkerStep

LEMMA FiberTaskStamped == ASSUME NEW f PROVE Stamped(FiberTask(f))
BY DEF Stamped, FiberTask

LEMMA TaskCallsNext ==
    ASSUME setup' = setup, \A t \in AllTimers' : Stamped(t), \A i \in DOMAIN tasks_' : Stamped(tasks_'[i]),
           \A w \in Worker : at'[w] \in Busy => Stamped(task'[w])
    PROVE  TaskCalls'
BY DEF TaskCalls, Stamped, CallsTo

LEMMA MainStepCalls ==
    ASSUME IInv, \/ \E f \in Fiber : Submit(f)
                 \/ MainTickle \/ Stop \/ StopTickle \/ ResumeRoot \/ Join \/ Tick \/ \E fd \in Fd : Arrive(fd)
    PROVE  CallsInv'
<1>. USE DEF mainVars, schedVars, runVars, idleVars, timerVars, ioVars, fiberVars
<1>1. UNCHANGED <<setup, phase, call, events, timers_, cbs, task>>
  BY DEF Submit, MainTickle, Stop, StopTickle, ResumeRoot, Join, Tick, Arrive
<1>2. FiberCalls' BY <1>1 DEF IInv, CallsInv, FiberCalls, CallsTo, CallOf
<1>3. \A i \in DOMAIN tasks_' : Stamped(tasks_'[i])
  <2>1. CASE tasks_' = tasks_ BY <1>1, <2>1 DEF IInv, CallsInv, TaskCalls
  <2>2. ASSUME NEW f \in Fiber, Submit(f) PROVE \A i \in DOMAIN tasks_' : Stamped(tasks_'[i])
    <3>1. tasks_' = Append(tasks_, FiberTask(f)) BY <2>2 DEF Submit
    <3>2. \A i \in DOMAIN tasks_' : (i \in DOMAIN tasks_ /\ tasks_'[i] = tasks_[i]) \/ tasks_'[i] = FiberTask(f)
      BY <3>1, TypedTasks, FiberTaskType
    <3>. QED BY <3>2, FiberTaskStamped DEF IInv, CallsInv, TaskCalls
  <2>. QED BY <2>1, <2>2 DEF MainTickle, Stop, StopTickle, ResumeRoot, Join, Tick, Arrive
<1>4. \A w \in Worker : at'[w] \in Busy => Stamped(task'[w])
  <2>1. \A w \in Worker : at'[w] \in Busy => at[w] \in Busy
    <3>1. CASE ResumeRoot BY <3>1, ResumeRootMoves DEF IInv, TypeInv, Busy
    <3>2. CASE ~ResumeRoot
      BY <3>2, StayMoves DEF Submit, MainTickle, Stop, StopTickle, Join, Tick, Arrive, IInv, TypeInv
    <3>. QED BY <3>1, <3>2
  <2>. QED BY <1>1, <2>1 DEF IInv, CallsInv, TaskCalls
<1>5. AllTimers' = AllTimers BY <1>1 DEF AllTimers
<1>6. \A t \in AllTimers' : Stamped(t) BY <1>5 DEF IInv, CallsInv, TaskCalls
<1>. QED BY <1>1, <1>2, <1>3, <1>4, <1>6, TaskCallsNext DEF CallsInv

\* The timers, and the tasks that come from them, are those of calls that wait.
LEMMA AppendStamped ==
    ASSUME IInv, NEW t \in Task, Stamped(t), tasks_' = Append(tasks_, t)
    PROVE  \A i \in DOMAIN tasks_' : Stamped(tasks_'[i])
<1>1. \A i \in DOMAIN tasks_' : (i \in DOMAIN tasks_ /\ tasks_'[i] = tasks_[i]) \/ tasks_'[i] = t
  BY TypedTasks
<1>. QED BY <1>1 DEF IInv, CallsInv, TaskCalls

LEMMA TriggerStamped ==
    ASSUME IInv, NEW w, NEW fd \in Fd, NEW l, Trigger(w, fd, l)
    PROVE  \A i \in DOMAIN tasks_' : Stamped(tasks_'[i])
<1>1. CASE events[fd] = None BY <1>1 DEF Trigger, IInv, CallsInv, TaskCalls
<1>2. CASE events[fd] # None
  <2>1. events[fd] \in Fiber BY <1>2 DEF IInv, TypeInv, SocketType
  <2>. QED BY <1>2, <2>1, AppendStamped, FiberTaskType, FiberTaskStamped DEF Trigger, Schedule
<1>. QED BY <1>1, <1>2

LEMMA TasksStayStamped ==
    ASSUME IInv, NEW w \in Worker, WorkerStep(w)
    PROVE  \A i \in DOMAIN tasks_' : Stamped(tasks_'[i])
<1>. USE DEF mainVars, schedVars, runVars, idleVars, timerVars, ioVars, fiberVars
<1>1. CASE Scan(w)
  <2>1. CASE tasks_' = tasks_ BY <2>1 DEF IInv, CallsInv, TaskCalls
  <2>2. CASE tasks_ # <<>> /\ tasks_' = Tail(tasks_)
    <3>1. \A i \in DOMAIN tasks_' : i + 1 \in DOMAIN tasks_ /\ tasks_'[i] = tasks_[i + 1] BY <2>2, TypedTasks
    <3>. QED BY <3>1 DEF IInv, CallsInv, TaskCalls
  <2>. QED BY <1>1, <2>1, <2>2 DEF Scan
<1>2. CASE RunWake(w)
  <2>1. task[w].fiber \in Fiber BY <1>2, RunWakeMoves, TaskOf, TaskFacts DEF IInv, TypeInv, Busy
  <2>. QED BY <1>2, <2>1, AppendStamped, FiberTaskType, FiberTaskStamped DEF RunWake, Schedule
<1>3. CASE RunTimeout(w)
  <2>1. CASE call[task[w].fiber] = task[w].call /\ ~cnacelled[task[w].fiber]
    BY <1>3, <2>1, TimeoutFacts, TriggerStamped DEF RunTimeout
  <2>2. CASE ~(call[task[w].fiber] = task[w].call /\ ~cnacelled[task[w].fiber])
    BY <1>3, <2>2 DEF RunTimeout, IInv, CallsInv, TaskCalls
  <2>. QED BY <2>1, <2>2
<1>4. CASE Close(w)
  <2>1. CallOf(task[w].fiber).fd \in Fd BY <1>4, CallingFacts DEF Close
  <2>. QED BY <1>4, <2>1, TriggerStamped DEF Close
<1>5. CASE HandleEvent(w)
  <2>1. PICK fd \in got[w] : Trigger(w, fd, "push") BY <1>5 DEF HandleEvent
  <2>2. fd \in Fd BY DEF IInv, TypeInv, SocketType
  <2>. QED BY <2>1, <2>2, TriggerStamped
<1>6. CASE PushCb(w)
  <2>1. PICK t \in cbs[w] : tasks_' = Append(tasks_, [kind |-> t.kind, fiber |-> t.fiber, call |-> t.call])
    BY <1>6 DEF PushCb, Schedule
  <2>2. t \in Timer /\ t \in AllTimers BY DEF IInv, TypeInv, TimerType, AllTimers
  <2>3. [kind |-> t.kind, fiber |-> t.fiber, call |-> t.call] \in Task BY <2>2 DEF Timer, Task, Timed
  <2>4. Stamped(t) BY <2>2 DEF IInv, CallsInv, TaskCalls
  <2>5. Stamped([kind |-> t.kind, fiber |-> t.fiber, call |-> t.call]) BY <2>4 DEF Stamped
  <2>. QED BY <2>1, <2>3, <2>5, AppendStamped
<1>7. CASE ~(Scan(w) \/ RunWake(w) \/ RunTimeout(w) \/ Close(w) \/ HandleEvent(w) \/ PushCb(w))
  <2>1. UNCHANGED tasks_
    BY <1>7 DEF WorkerStep, RunStep, FiberStep, IdleStep, WorkerTickle, GoIdle, Finish, Resume, Sleep, ReadNow,
       ReadAgain, AddEvent, Yield, GetNextTimer, Stopping, EpollWait, ReadClock, ListExpiredCb, LeaveIdle
  <2>. QED BY <2>1 DEF IInv, CallsInv, TaskCalls
<1>. QED BY <1>1, <1>2, <1>3, <1>4, <1>5, <1>6, <1>7

LEMMA TimersStayStamped ==
    ASSUME IInv, NEW w \in Worker, WorkerStep(w), NEW t \in AllTimers'
    PROVE  Stamped(t)
<1>. USE DEF mainVars, schedVars, runVars, idleVars, timerVars, ioVars, fiberVars
<1>1. CASE t \in AllTimers BY <1>1 DEF IInv, CallsInv, TaskCalls
<1>2. CASE t \notin AllTimers
  <2>1. CASE Sleep(w)
    <3>. DEFINE g == task[w].fiber
                u == [kind |-> "wake", fiber |-> g, call |-> call[g], next |-> now + TimerMs(CallOf(g))]
    <3>1. timers_' = timers_ \cup {u} /\ UNCHANGED cbs BY <2>1 DEF Sleep, AddTimer
    <3>2. t = u
      <4>. HIDE DEF u
      <4>. QED BY <1>2, <3>1 DEF AllTimers
    <3>3. CallsTo(g, call[g], "sleep") BY <2>1, CallingFacts DEF Sleep
    <3>. QED BY <3>2, <3>3 DEF Stamped
  <2>2. CASE ReadAgain(w)
    <3>. DEFINE g == task[w].fiber
                u == [kind |-> "timeout", fiber |-> g, call |-> call[g], next |-> now + TimerMs(CallOf(g))]
    <3>1. (timers_' = timers_ \cup {u} \/ timers_' = timers_) /\ UNCHANGED cbs BY <2>2 DEF ReadAgain, AddTimer
    <3>2. t = u
      <4>. HIDE DEF u
      <4>. QED BY <1>2, <3>1 DEF AllTimers
    <3>3. CallsTo(g, call[g], "read") BY <2>2, CallingFacts DEF ReadAgain
    <3>. QED BY <3>2, <3>3 DEF Stamped
  <2>3. CASE ListExpiredCb(w) BY <1>2, <2>3, ListExpiredCbTimers
  <2>4. CASE PushCb(w)
    <3>1. PICK u \in cbs[w] : cbs' = [cbs EXCEPT ![w] = @ \ {u}] BY <2>4 DEF PushCb
    <3>2. UNCHANGED timers_ BY <2>4 DEF PushCb
    <3>. QED BY <1>2, <3>1, <3>2, PushCbTimers
  <2>5. CASE Resume(w)
    <3>1. timers_' \subseteq timers_ /\ UNCHANGED cbs BY <2>5 DEF Resume
    <3>. QED BY <1>2, <3>1 DEF AllTimers
  <2>6. CASE ~(Sleep(w) \/ ReadAgain(w) \/ ListExpiredCb(w) \/ PushCb(w) \/ Resume(w))
    <3>1. UNCHANGED <<timers_, cbs>>
      BY <2>6 DEF WorkerStep, RunStep, FiberStep, IdleStep, WorkerTickle, Scan, GoIdle, Finish, RunWake,
         RunTimeout, ReadNow, AddEvent, Close, Yield, GetNextTimer, Stopping, EpollWait, ReadClock, HandleEvent,
         LeaveIdle
    <3>. QED BY <1>2, <3>1 DEF AllTimers
  <2>. QED BY <2>1, <2>2, <2>3, <2>4, <2>5, <2>6
<1>. QED BY <1>1, <1>2

LEMMA OthersStay ==
    ASSUME PcType, NEW w \in Worker, WorkerStep(w), NEW v \in Worker \ {w}
    PROVE  at'[v] = at[v]
<1>. USE AtType
<1>1. CASE RunStep(w)
  BY <1>1, WorkerTickleMoves, ScanMoves, GoIdleMoves, FinishMoves, RunWakeMoves, RunTimeoutMoves DEF RunStep
<1>2. CASE FiberStep(w)
  BY <1>2, ResumeMoves, SleepMoves, ReadNowMoves, ReadAgainMoves, AddEventMoves, CloseMoves, YieldMoves
     DEF FiberStep
<1>3. CASE IdleStep(w)
  BY <1>3, GetNextTimerMoves, StoppingMoves, EpollWaitMoves, ReadClockMoves, ListExpiredCbMoves, PushCbMoves,
     HandleEventMoves, LeaveIdleMoves DEF IdleStep
<1>. QED BY <1>1, <1>2, <1>3 DEF WorkerStep

LEMMA ScanMovesOrNot ==
    ASSUME IInv, NEW w \in Worker, Scan(w), task' = task
    PROVE  at'[w] \in {"empty", "scan"}
<1>. USE AtType DEF IInv, TypeInv
<1>1. CASE tasks_ = <<>> BY <1>1, ScanMoves
<1>2. CASE tasks_ # <<>> /\ Head(tasks_).kind = "fiber" /\ state[Head(tasks_).fiber] # "READY"
  BY <1>2, ScanMoves, StayMoves DEF Scan
<1>3. CASE tasks_ # <<>> /\ ~(Head(tasks_).kind = "fiber" /\ state[Head(tasks_).fiber] # "READY")
  <2>1. task'[w] = Head(tasks_) BY <1>3 DEF Scan, TaskType
  <2>2. at[w] = "scan" BY ScanMoves
  <2>3. task[w] = NoTask BY <2>2 DEF WorkersInv, Busy
  <2>4. Head(tasks_) \in Task BY <1>3, TypedTasks
  <2>. QED BY <2>1, <2>3, <2>4, TaskFacts
<1>. QED BY <1>1, <1>2, <1>3

LEMMA HeldStayStamped ==
    ASSUME IInv, NEW w \in Worker, WorkerStep(w), NEW v \in Worker, at'[v] \in Busy
    PROVE  Stamped(task'[v])
<1>. USE AtType DEF mainVars, schedVars, runVars, idleVars, timerVars, ioVars, fiberVars, IInv, TypeInv
<1>1. CASE v # w
  <2>1. task'[v] = task[v]
    BY <1>1 DEF WorkerStep, RunStep, FiberStep, IdleStep, WorkerTickle, Scan, GoIdle, Finish, RunWake, RunTimeout,
       Resume, Sleep, ReadNow, ReadAgain, AddEvent, Close, Yield, GetNextTimer, Stopping, EpollWait, ReadClock,
       ListExpiredCb, PushCb, HandleEvent, LeaveIdle, TaskType
  <2>2. at'[v] = at[v] BY <1>1, OthersStay
  <2>. QED BY <2>1, <2>2 DEF CallsInv, TaskCalls
<1>2. CASE v = w
  <2>1. CASE Scan(w)
    <3>1. CASE task' = task
      <4>1. at'[w] = "empty" \/ at'[w] = "scan" BY <2>1, <3>1, ScanMovesOrNot
      <4>. QED BY <1>2, <4>1 DEF Busy
    <3>2. CASE tasks_ # <<>> /\ task' = [task EXCEPT ![w] = Head(tasks_)]
      <4>1. Head(tasks_) = tasks_[1] /\ 1 \in DOMAIN tasks_ BY <3>2, TypedTasks
      <4>. QED BY <1>2, <3>2, <4>1 DEF CallsInv, TaskCalls, TaskType
    <3>. QED BY <2>1, <3>1, <3>2 DEF Scan
  <2>2. CASE ~Scan(w)
    <3>1. at'[w] \in Busy => at[w] \in Busy /\ task'[w] = task[w]
      <4>1. CASE RunStep(w)
        BY <2>2, <4>1, WorkerTickleMoves, GoIdleMoves, FinishMoves, RunWakeMoves, RunTimeoutMoves
           DEF RunStep, WorkerTickle, GoIdle, Finish, RunWake, RunTimeout, Busy
      <4>2. CASE FiberStep(w)
        <5>1. at[w] \in Busy
          BY <4>2, ResumeMoves, SleepMoves, ReadNowMoves, ReadAgainMoves, AddEventMoves, CloseMoves, YieldMoves
             DEF FiberStep, Busy, OnFiber
        <5>. QED BY <4>2, <5>1 DEF FiberStep, Resume, Sleep, ReadNow, ReadAgain, AddEvent, Close, Yield
      <4>3. CASE IdleStep(w)
        BY <4>3, GetNextTimerMoves, StoppingMoves, EpollWaitMoves, ReadClockMoves, ListExpiredCbMoves, PushCbMoves,
           HandleEventMoves, LeaveIdleMoves DEF IdleStep, Busy
      <4>. QED BY <4>1, <4>2, <4>3 DEF WorkerStep
    <3>. QED BY <1>2, <3>1 DEF CallsInv, TaskCalls
  <2>. QED BY <2>1, <2>2
<1>. QED BY <1>1, <1>2

\* No socket gets an event, and no fiber but f another call.
LEMMA OtherCalls ==
    ASSUME IInv, setup' = setup, NEW f \in Fiber,
           \A g \in Fiber \ {f} : phase'[g] = phase[g] /\ call'[g] = call[g],
           \A fd \in Fd : events'[fd] # None => events'[fd] = events[fd] /\ events[fd] # f,
           phase'[f] = "asleep" => CallsTo(f, call'[f], "sleep"),
           phase'[f] \in {"addEvent", "waiting"} => CallsTo(f, call'[f], "read")
    PROVE  FiberCalls'
<1>1. \A g \in Fiber : phase'[g] = "asleep" => setup'.program[g] = setup.program[g] /\ CallsTo(g, call'[g], "sleep")
  BY DEF IInv, CallsInv, FiberCalls
<1>2. \A g \in Fiber : phase'[g] \in {"addEvent", "waiting"} => CallsTo(g, call'[g], "read")
  BY DEF IInv, CallsInv, FiberCalls
<1>3. ASSUME NEW fd \in Fd, events'[fd] # None
      PROVE  phase'[events'[fd]] = "waiting" /\ setup'.program[events'[fd]][call'[events'[fd]]].fd = fd
  <2>1. events[fd] \in Fiber \ {f} /\ events'[fd] = events[fd] BY <1>3 DEF IInv, TypeInv, SocketType
  <2>. QED BY <1>3, <2>1 DEF IInv, CallsInv, FiberCalls, CallOf
<1>. QED BY <1>1, <1>2, <1>3 DEF FiberCalls, CallsTo, CallOf

LEMMA SameCalls ==
    ASSUME IInv, UNCHANGED <<setup, phase, call>>,
           \A fd \in Fd : events'[fd] # None => events'[fd] = events[fd]
    PROVE  FiberCalls'
BY DEF IInv, CallsInv, FiberCalls, CallsTo, CallOf

LEMMA TriggerEvents ==
    ASSUME IInv, NEW w, NEW fd, NEW l, Trigger(w, fd, l)
    PROVE  \A d \in Fd : events'[d] # None => events'[d] = events[d]
BY DEF Trigger, IInv, TypeInv, SocketType

\* A fiber that starts a call is registered nowhere.
LEMMA StartedUnregistered ==
    ASSUME IInv, NEW f \in Fiber, phase[f] = "start", NEW fd \in Fd
    PROVE  events[fd] # f
BY ThreadsAssumption DEF IInv, CallsInv, FiberCalls

LEMMA WorkerStepFiberCalls == ASSUME IInv, NEW w \in Worker, WorkerStep(w), setup' = setup PROVE FiberCalls'
<1>. USE DEF mainVars, schedVars, runVars, idleVars, timerVars, ioVars, fiberVars
<1>. DEFINE f == task[w].fiber
<1>1. CASE RunTimeout(w)
  <2>1. UNCHANGED <<phase, call>> BY <1>1 DEF RunTimeout
  <2>2. \A d \in Fd : events'[d] # None => events'[d] = events[d] BY <1>1, TriggerEvents DEF RunTimeout
  <2>. QED BY <2>1, <2>2, SameCalls
<1>2. CASE HandleEvent(w)
  <2>1. UNCHANGED <<phase, call>> BY <1>2 DEF HandleEvent
  <2>2. PICK fd \in got[w] : Trigger(w, fd, "push") BY <1>2 DEF HandleEvent
  <2>3. \A d \in Fd : events'[d] # None => events'[d] = events[d] BY <2>2, TriggerEvents
  <2>. QED BY <2>1, <2>3, SameCalls
<1>3. CASE Resume(w)
  <2>1. f \in Fiber /\ w \in Held(at, task, f) BY <1>3, ResumedFacts
  <2>2. Registered(events, f) = {} BY <2>1, OneHeld
  <2>3. UNCHANGED events BY <1>3 DEF Resume
  <2>4. phase'[f] = "start" /\ \A g \in Fiber \ {f} : phase'[g] = phase[g] /\ call'[g] = call[g]
    BY <1>3, <2>1 DEF Resume, NextCall, IInv, TypeInv, FiberType
  <2>. HIDE DEF f
  <2>. QED BY <2>1, <2>2, <2>3, <2>4, OtherCalls DEF Registered
<1>4. CASE Sleep(w)
  <2>1. f \in Fiber /\ phase[f] = "start" /\ CallsTo(f, call[f], "sleep") BY <1>4, CallingFacts DEF Sleep
  <2>2. UNCHANGED <<events, call>> /\ phase' = [phase EXCEPT ![f] = "asleep"] BY <1>4 DEF Sleep
  <2>3. \A fd \in Fd : events[fd] # f BY <2>1, StartedUnregistered
  <2>. HIDE DEF f
  <2>. QED BY <2>1, <2>2, <2>3, OtherCalls DEF IInv, TypeInv, FiberType
<1>5. CASE ReadAgain(w)
  <2>1. f \in Fiber /\ phase[f] = "start" /\ CallsTo(f, call[f], "read") BY <1>5, CallingFacts DEF ReadAgain
  <2>2. UNCHANGED <<events, call>> /\ phase' = [phase EXCEPT ![f] = "addEvent"] BY <1>5 DEF ReadAgain
  <2>3. \A fd \in Fd : events[fd] # f BY <2>1, StartedUnregistered
  <2>. HIDE DEF f
  <2>. QED BY <2>1, <2>2, <2>3, OtherCalls DEF IInv, TypeInv, FiberType
<1>6. CASE ReadNow(w) \/ Close(w)
  <2>1. f \in Fiber /\ phase[f] = "start" BY <1>6, CallingFacts DEF ReadNow, Close
  <2>2. \A d \in Fd : events'[d] # None => events'[d] = events[d]
    BY <1>6, TriggerEvents DEF ReadNow, Close
  <2>3. \A fd \in Fd : events[fd] # f BY <2>1, StartedUnregistered
  <2>4. phase'[f] = "start" /\ \A g \in Fiber \ {f} : phase'[g] = phase[g] /\ call'[g] = call[g]
    BY <1>6, <2>1 DEF ReadNow, Close, NextCall, IInv, TypeInv, FiberType
  <2>. HIDE DEF f
  <2>. QED BY <2>1, <2>2, <2>3, <2>4, OtherCalls
<1>7. CASE AddEvent(w)
  <2>. DEFINE fd == CallOf(f).fd
  <2>1. f \in Fiber /\ CallsTo(f, call[f], "read") /\ fd \in Fd BY <1>7, AddEventFacts
  <2>2. UNCHANGED call BY <1>7 DEF AddEvent
  <2>3. CASE events[fd] # None BY <1>7, <2>2, <2>3, SameCalls DEF AddEvent
  <2>4. CASE events[fd] = None
    <3>1. events' = [events EXCEPT ![fd] = f] /\ phase' = [phase EXCEPT ![f] = "waiting"] BY <1>7, <2>4 DEF AddEvent
    <3>2. phase[f] = "addEvent" BY <1>7 DEF AddEvent
    <3>3. \A d \in Fd : events'[d] = IF d = fd THEN f ELSE events[d] BY <3>1 DEF IInv, TypeInv, SocketType
    <3>4. \A g \in Fiber : phase'[g] = IF g = f THEN "waiting" ELSE phase[g] BY <3>1 DEF IInv, TypeInv, FiberType
    <3>5. \A d \in Fd : events'[d] # None =>
            phase'[events'[d]] = "waiting" /\ setup.program[events'[d]][call[events'[d]]].fd = d
      <4>1. \A d \in Fd : events[d] # None => events[d] \in Fiber /\ events[d] # f
        BY <3>2 DEF IInv, TypeInv, SocketType, CallsInv, FiberCalls
      <4>2. setup.program[f][call[f]].fd = fd BY DEF CallOf
      <4>. HIDE DEF f, fd
      <4>. QED BY <2>1, <3>3, <3>4, <4>1, <4>2 DEF IInv, CallsInv, FiberCalls, CallOf
    <3>. HIDE DEF f, fd
    <3>. QED BY <2>1, <2>2, <3>4, <3>5 DEF IInv, CallsInv, FiberCalls, CallsTo, CallOf
  <2>. QED BY <2>3, <2>4
<1>8. CASE ~(RunTimeout(w) \/ HandleEvent(w) \/ Resume(w) \/ Sleep(w) \/ ReadAgain(w) \/ ReadNow(w) \/ Close(w) \/ AddEvent(w))
  <2>1. UNCHANGED <<events, phase, call>>
    BY <1>8 DEF WorkerStep, RunStep, FiberStep, IdleStep, WorkerTickle, Scan, GoIdle, Finish, RunWake, Yield,
       GetNextTimer, Stopping, EpollWait, ReadClock, ListExpiredCb, PushCb, LeaveIdle
  <2>. QED BY <2>1, SameCalls
<1>. QED BY <1>1, <1>2, <1>3, <1>4, <1>5, <1>6, <1>7, <1>8

LEMMA WorkerStepCalls == ASSUME IInv, NEW w \in Worker, WorkerStep(w), setup' = setup PROVE CallsInv'
<1>1. TaskCalls' BY TimersStayStamped, TasksStayStamped, HeldStayStamped, TaskCallsNext
<1>. QED BY <1>1, WorkerStepFiberCalls DEF CallsInv

---------------------------------------------------------------------------
(* The invariant.                                                          *)

LEMMA InitIInv == ASSUME Init PROVE IInv
<1>1. at = [w \in Worker |-> IF w \in setup.workers \ {setup.caller} THEN "scan" ELSE "off"] BY DEF Init, at
<1>2. AllTimers = {} BY DEF Init, AllTimers
<1>3. TypeInv
  <2>1. 0 \in 0 .. Cardinality(Worker) BY ThreadsAssumption, FS_CardinalityType
  <2>2. MainType BY <2>1 DEF Init, MainType
  <2>3. PcType BY DEF Init, PcType, Busy, Idle
  <2>4. TaskType BY DEF Init, TaskType, NoTask
  <2>5. TimerType BY FS_EmptySet DEF Init, TimerType
  <2>6. SocketType /\ FiberType BY DEF Init, SocketType, FiberType
  <2>. QED BY <2>2, <2>3, <2>4, <2>5, <2>6 DEF TypeInv
<1>4. CountersInv
  <2>1. Counted(Idle) = {} /\ Counted(Busy) = {} BY <1>1 DEF Counted, Idle, Busy
  <2>2. Pending = {} BY DEF Init, Pending
  <2>. QED BY <2>1, <2>2, FS_EmptySet DEF Init, CountersInv, WorkersCounted, SocketsCounted
<1>5. WorkersInv
  <2>1. \A w \in Worker : at[w] \in {"scan", "off"} /\ task[w] = NoTask /\ cbs[w] = {} /\ got[w] = {}
    BY <1>1 DEF Init
  <2>2. \A w \in Worker : w \notin setup.workers \/ w = setup.caller => at[w] = "off" BY <1>1
  <2>. QED BY <2>1, <2>2 DEF WorkersInv, Busy
<1>6. FibersInv BY <1>1 DEF Init, FibersInv, OnFiber
<1>7. WakesInv
  <2>1. ASSUME NEW f \in Fiber PROVE WakeUps(f) = Asked(f)
    <3>1. Queued(tasks_, f) = {} /\ Armed(AllTimers, f) = {} BY <1>2 DEF Init, Queued, Armed
    <3>2. Registered(events, f) = {} BY ThreadsAssumption DEF Init, Registered
    <3>3. Held(at, task, f) = {} BY <1>1 DEF Held
    <3>4. Asked(f) = 0 BY DEF Init, Asked
    <3>. QED BY <3>1, <3>2, <3>3, <3>4, FS_EmptySet DEF WakeUps
  <2>. QED BY <2>1 DEF WakesInv, OnePlace, Init
<1>8. CallsInv BY <1>1, <1>2 DEF Init, CallsInv, FiberCalls, TaskCalls, Busy
<1>. QED BY <1>3, <1>4, <1>5, <1>6, <1>7, <1>8 DEF IInv

LEMMA StepIInv == ASSUME IInv, [Next]_vars PROVE IInv'
<1>1. CASE UNCHANGED vars
  <2>1. /\ UNCHANGED <<setup, mainPc, toSubmit, toTickle, isStopped_, tasks_, idleThreadCnt_, activeThreadCnt_, pc, then>>
        /\ UNCHANGED <<task, idleTerm, deadline, got, nowMs, cbs, pipe, timers_, tickled_, previouseTime_>>
        /\ UNCHANGED <<events, pendingEventCnt_, data, closed, now, state, phase, call, cnacelled, due, panicked>>
    BY <1>1 DEF vars, envVars, mainVars, schedVars, runVars, idleVars, timerVars, ioVars, fiberVars
  <2>2. at' = at /\ PcType' BY <2>1, StayMoves DEF IInv, TypeInv
  <2>3. TypeInv'
    BY <2>1, <2>2 DEF IInv, TypeInv, MainType, TaskType, TimerType, SocketType, FiberType
  <2>4. CountersInv' /\ WorkersInv' /\ FibersInv'
    BY <2>1, <2>2
       DEF IInv, CountersInv, WorkersCounted, SocketsCounted, Counted, Pending, WorkersInv, FibersInv
  <2>5. AllTimers' = AllTimers BY <2>1 DEF AllTimers
  <2>6. \A f \in Fiber : Woken(f)' BY <2>1, <2>2, SameAsked, SameWakeUps
  <2>7. OnePlace' BY <2>1 DEF IInv, WakesInv, OnePlace
  <2>8. FiberCalls' BY <2>1, SameCalls
  <2>9. TaskCalls' BY <2>1, <2>2, <2>5, TaskCallsNext DEF IInv, CallsInv, TaskCalls
  <2>. QED BY <2>3, <2>4, <2>6, <2>7, <2>8, <2>9 DEF IInv, WakesInv, Woken, CallsInv
<1>2. CASE Next
  <2>1. CASE \/ \E f \in Fiber : Submit(f)
             \/ MainTickle \/ Stop \/ StopTickle \/ ResumeRoot \/ Join \/ Tick \/ \E fd \in Fd : Arrive(fd)
    BY <2>1, MainStepTypes, MainStepCounts, MainStepWorkers, MainStepFibers, MainStepWakes, MainStepCalls DEF IInv
  <2>2. ASSUME NEW w \in Worker, WorkerStep(w) PROVE IInv'
    <3>1. TypeInv'
      BY <2>2, WorkerTickleTypes, ScanTypes, GoIdleTypes, FinishTypes, RunWakeTypes, RunTimeoutTypes, ResumeTypes,
         SleepTypes, ReadNowTypes, ReadAgainTypes, AddEventTypes, CloseTypes, YieldTypes, GetNextTimerTypes,
         StoppingTypes, EpollWaitTypes, ReadClockTypes, ListExpiredCbTypes, PushCbTypes, HandleEventTypes,
         LeaveIdleTypes DEF WorkerStep, RunStep, FiberStep, IdleStep
    <3>2. CountersInv' /\ WorkersInv' /\ FibersInv'
      BY <2>2, WorkerStepCounts, WorkerStepWorkers, WorkerStepFibers
    <3>3. WakesInv' BY <2>2, WorkerStepWakes, WorkerStepPlaces DEF WakesInv, Woken
    <3>4. CallsInv' BY <1>2, <2>2, SetupStays, WorkerStepCalls
    <3>. QED BY <3>1, <3>2, <3>3, <3>4 DEF IInv
  <2>. QED BY <1>2, <2>1, <2>2 DEF Next, MainStep
<1>. QED BY <1>1, <1>2

\* The invariant holds in every situation, one worker or more.
THEOREM SpecIInv == Spec => []IInv
BY InitIInv, StepIInv, PTL DEF Spec

---------------------------------------------------------------------------
(* The time a call asks for, and the timer it gets: rounding takes less    *)
(* than a millisecond, and the clock it starts from has lost less.         *)

FractionType == fraction \in 0 .. MsLength - 1
WantedOf(f) == wanted[f] \in Nat /\ wanted[f] <= due[f] * MsLength + 2 * (MsLength - 1)
LengthInv == FractionType /\ wanted \in [Fiber -> Nat] /\ \A f \in Fiber : WantedOf(f)

LEMMA RoundedDown == ASSUME NEW n \in Nat, NEW m \in Nat \ {0} PROVE n \in Nat /\ n <= (n \div m) * m + (m - 1)
OBVIOUS

LEMMA Times == ASSUME NEW a \in Nat, NEW b \in Nat PROVE a * b \in Nat
OBVIOUS

LEMMA Distributes == ASSUME NEW a \in Nat, NEW b \in Nat, NEW m \in Nat PROVE (a + b) * m = a * m + b * m
OBVIOUS

LEMMA TimesOrder == ASSUME NEW a \in Nat, NEW b \in Nat, NEW m \in Nat, a <= b PROVE a * m <= b * m
<1>1. PICK d \in Nat : b = a + d
  <2>1. b - a \in Nat /\ b = a + (b - a) OBVIOUS
  <2>. QED BY <2>1
<1>2. b * m = a * m + d * m BY <1>1, Distributes
<1>3. a * m \in Nat /\ d * m \in Nat BY Times
<1>. QED BY <1>2, <1>3

\* A call asks for less than a millisecond more than its timer is for.
LEMMA AskedForBound ==
    ASSUME NEW c \in Call, c.call \in {"sleep", "read"}
    PROVE  AskedFor(c) \in Nat /\ AskedFor(c) <= TimerMs(c) * MsLength + (MsLength - 1)
<1>1. MsLength \in Nat \ {0} BY ClockAssumption
<1>2. CASE c.call = "sleep"
  <2>1. c.ticks \in Nat BY <1>2 DEF Call
  <2>. QED BY <1>1, <1>2, <2>1, RoundedDown DEF AskedFor, TimerMs
<1>3. CASE c.call = "read"
  <2>1. c.ms \in Nat BY <1>3 DEF Call
  <2>2. AskedFor(c) = c.ms * MsLength /\ TimerMs(c) = c.ms BY <1>3 DEF AskedFor, TimerMs
  <2>3. c.ms * MsLength \in Nat BY <1>1, <2>1, Times
  <2>. QED BY <1>1, <2>2, <2>3
<1>. QED BY <1>2, <1>3

\* A new timer and the time its call has to last until.
LEMMA AddTimerLength ==
    ASSUME IInv, LengthInv, NEW w \in Worker, NEW k, NEW f \in Fiber, NEW l,
           CallOf(f) \in Call, CallOf(f).call \in {"sleep", "read"}, NEW n,
           AddTimer(w, [kind |-> k, fiber |-> f, call |-> n, next |-> now + TimerMs(CallOf(f))], l)
    PROVE  wanted' \in [Fiber -> Nat] /\ \A g \in Fiber : WantedOf(g)'
<1>. DEFINE ms == TimerMs(CallOf(f))
            asked == AskedFor(CallOf(f))
<1>1. MsLength \in Nat \ {0} BY ClockAssumption
<1>2. ms \in Nat /\ asked \in Nat /\ asked <= ms * MsLength + (MsLength - 1) BY CallMs, AskedForBound
<1>3. now \in Nat /\ due \in [Fiber -> Nat] BY DEF IInv, TypeInv, TimerType, FiberType
<1>4. fraction \in 0 .. MsLength - 1 /\ wanted \in [Fiber -> Nat] BY DEF LengthInv, FractionType
<1>5. /\ due' = [due EXCEPT ![f] = now + ms]
      /\ wanted' = [wanted EXCEPT ![f] = Elapsed + asked]
  BY DEF AddTimer
<1>. HIDE DEF ms, asked
<1>6. now * MsLength \in Nat /\ ms * MsLength \in Nat BY <1>1, <1>2, <1>3, Times
<1>7. (now + ms) * MsLength = now * MsLength + ms * MsLength BY <1>1, <1>2, <1>3, Distributes
<1>8. Elapsed + asked \in Nat BY <1>1, <1>2, <1>4, <1>6 DEF Elapsed
<1>9. Elapsed + asked <= (now + ms) * MsLength + 2 * (MsLength - 1)
  BY <1>1, <1>2, <1>4, <1>6, <1>7 DEF Elapsed
<1>10. wanted' \in [Fiber -> Nat] BY <1>4, <1>5, <1>8
<1>11. WantedOf(f)' BY <1>3, <1>4, <1>5, <1>8, <1>9 DEF WantedOf
<1>12. ASSUME NEW g \in Fiber \ {f} PROVE WantedOf(g)'
  <2>1. due'[g] = due[g] /\ wanted'[g] = wanted[g] BY <1>3, <1>4, <1>5
  <2>. QED BY <2>1 DEF LengthInv, WantedOf
<1>. QED BY <1>10, <1>11, <1>12

LEMMA SameLength == ASSUME LengthInv, UNCHANGED <<due, wanted, fraction>> PROVE LengthInv'
BY DEF LengthInv, FractionType, WantedOf

LEMMA ResumeLength == ASSUME IInv, LengthInv, NEW w \in Worker, Resume(w) PROVE LengthInv'
<1>1. task[w].fiber \in Fiber BY ResumedFacts
<1>2. /\ due' = [due EXCEPT ![task[w].fiber] = 0] /\ wanted' = [wanted EXCEPT ![task[w].fiber] = 0]
      /\ fraction' = fraction
  BY DEF Resume, envVars
<1>3. due \in [Fiber -> Nat] /\ wanted \in [Fiber -> Nat] BY DEF IInv, TypeInv, FiberType, LengthInv
<1>4. MsLength \in Nat \ {0} BY ClockAssumption
<1>5. ASSUME NEW g \in Fiber PROVE WantedOf(g)'
  <2>1. CASE g = task[w].fiber
    <3>1. due'[g] = 0 /\ wanted'[g] = 0 BY <1>2, <1>3, <2>1
    <3>2. 0 <= 0 * MsLength + 2 * (MsLength - 1) BY <1>4
    <3>. QED BY <3>1, <3>2 DEF WantedOf
  <2>2. CASE g # task[w].fiber
    <3>1. due'[g] = due[g] /\ wanted'[g] = wanted[g] BY <1>2, <1>3, <2>2
    <3>. QED BY <3>1 DEF LengthInv, WantedOf
  <2>. QED BY <2>1, <2>2
<1>6. wanted' \in [Fiber -> Nat] BY <1>1, <1>2, <1>3
<1>7. FractionType' BY <1>2 DEF LengthInv, FractionType
<1>. QED BY <1>5, <1>6, <1>7 DEF LengthInv

LEMMA SleepLength == ASSUME IInv, LengthInv, NEW w \in Worker, Sleep(w) PROVE LengthInv'
<1>1. task[w].fiber \in Fiber /\ CallOf(task[w].fiber) \in Call /\ CallOf(task[w].fiber).call = "sleep"
  BY CallingFacts DEF Sleep, Calling
<1>2. wanted' \in [Fiber -> Nat] /\ \A g \in Fiber : WantedOf(g)' BY <1>1, AddTimerLength DEF Sleep
<1>3. FractionType' BY DEF Sleep, envVars, LengthInv, FractionType
<1>. QED BY <1>2, <1>3 DEF LengthInv

LEMMA ReadAgainLength == ASSUME IInv, LengthInv, NEW w \in Worker, ReadAgain(w) PROVE LengthInv'
<1>1. task[w].fiber \in Fiber /\ CallOf(task[w].fiber) \in Call /\ CallOf(task[w].fiber).call = "read"
  BY CallingFacts DEF ReadAgain, Calling
<1>2. FractionType' BY DEF ReadAgain, envVars, LengthInv, FractionType
<1>3. CASE TimerMs(CallOf(task[w].fiber)) > 0
  <2>1. wanted' \in [Fiber -> Nat] /\ \A g \in Fiber : WantedOf(g)' BY <1>1, <1>3, AddTimerLength DEF ReadAgain
  <2>. QED BY <1>2, <2>1 DEF LengthInv
<1>4. CASE ~(TimerMs(CallOf(task[w].fiber)) > 0)
  BY <1>4, SameLength DEF ReadAgain, envVars
<1>. QED BY <1>3, <1>4

LEMMA TickLength == ASSUME LengthInv, Tick PROVE LengthInv'
<1>1. MsLength \in Nat \ {0} BY ClockAssumption
<1>2. due' = due /\ wanted' = wanted BY DEF Tick, fiberVars
<1>3. FractionType'
  <2>1. CASE fraction + 1 = MsLength BY <1>1, <2>1 DEF Tick, FractionType
  <2>2. CASE fraction + 1 # MsLength BY <1>1, <2>2 DEF Tick, LengthInv, FractionType
  <2>. QED BY <2>1, <2>2
<1>. QED BY <1>2, <1>3 DEF LengthInv, WantedOf

LEMMA StepLength == ASSUME IInv, LengthInv, [Next]_vars PROVE LengthInv'
<1>1. CASE UNCHANGED vars BY <1>1, SameLength DEF vars, envVars, fiberVars
<1>2. CASE MainStep BY <1>2, SameLength DEF MainStep, Submit, MainTickle, Stop, StopTickle, ResumeRoot, Join,
     envVars, fiberVars
<1>3. CASE \E fd \in Fd : Arrive(fd) BY <1>3, SameLength DEF Arrive, fiberVars
<1>4. ASSUME NEW w \in Worker, RunStep(w) PROVE LengthInv'
  BY <1>4, SameLength DEF RunStep, WorkerTickle, Scan, GoIdle, Finish, RunWake, RunTimeout, envVars, fiberVars
<1>5. ASSUME NEW w \in Worker, IdleStep(w) PROVE LengthInv'
  BY <1>5, SameLength DEF IdleStep, GetNextTimer, Stopping, EpollWait, ReadClock, ListExpiredCb, PushCb, HandleEvent,
     LeaveIdle, envVars, fiberVars
<1>6. ASSUME NEW w \in Worker, ReadNow(w) \/ AddEvent(w) \/ Close(w) \/ Yield(w) PROVE LengthInv'
  BY <1>6, SameLength DEF ReadNow, AddEvent, Close, Yield, timerVars, envVars
<1>. QED BY <1>1, <1>2, <1>3, <1>4, <1>5, <1>6, ResumeLength, SleepLength, ReadAgainLength, TickLength
     DEF Next, WorkerStep, FiberStep

LEMMA InitLength == ASSUME Init PROVE LengthInv
<1>1. MsLength \in Nat \ {0} BY ClockAssumption
<1>2. FractionType /\ wanted \in [Fiber -> Nat] BY DEF Init, FractionType
<1>3. ASSUME NEW f \in Fiber PROVE WantedOf(f)
  <2>1. due[f] = 0 /\ wanted[f] = 0 BY DEF Init
  <2>2. 0 <= 0 * MsLength + 2 * (MsLength - 1) BY <1>1
  <2>. QED BY <2>1, <2>2 DEF WantedOf
<1>. QED BY <1>2, <1>3 DEF LengthInv

LEMMA SpecLengthInv == Spec => []LengthInv
<1>1. Init => LengthInv BY InitLength
<1>2. IInv /\ LengthInv /\ [Next]_vars => LengthInv' BY StepLength
<1>. QED BY <1>1, <1>2, SpecIInv, PTL DEF Spec

LEMMA CountBound == ASSUME NEW S, IsFiniteSet(S), NEW T \in SUBSET S PROVE Cardinality(T) \in 0 .. Cardinality(S)
BY FS_Subset, FS_CardinalityType

LEMMA IInvTypeOK == ASSUME IInv, LengthInv PROVE TypeOK
<1>. DEFINE I == {w \in Worker :
            pc[w] \in {"stopping", "stopping2", "wait", "clock", "expire", "push", "leaveIdle"}
            \/ (pc[w] = "tickle" /\ then[w] = "push")}
<1>1. I = Counted(Idle) BY DEF IInv, TypeInv, PcType, Counted, at, Idle, Busy
<1>2. idleThreadCnt_ = Cardinality(I) BY <1>1 DEF IInv, CountersInv, WorkersCounted
<1>3. idleThreadCnt_ \in 0 .. Cardinality(Worker) /\ activeThreadCnt_ \in 0 .. Cardinality(Worker)
  BY ThreadsAssumption, CountBound DEF IInv, CountersInv, WorkersCounted, Counted
<1>4. pendingEventCnt_ \in 0 .. Cardinality(Fd)
  BY ThreadsAssumption, CountBound DEF IInv, CountersInv, SocketsCounted, Pending
<1>5. \A w \in Worker : pc[w] = "fiber" => state[task[w].fiber] = "RUNNING"
  BY AtPc DEF IInv, TypeInv, FibersInv, OnFiber
<1>. HIDE DEF I
<1>6. /\ mainPc \in {"submit", "tickle", "stop", "join", "joined"}
      /\ toSubmit \subseteq Fiber /\ toTickle \in 0 .. Cardinality(Worker)
      /\ got \in [Worker -> SUBSET Fd] /\ events \in [Fd -> Fiber \cup {None}]
      /\ state \in [Fiber -> {"READY", "RUNNING", "TERM"}]
      /\ phase \in [Fiber -> {"start", "asleep", "addEvent", "waiting"}]
      /\ {isStopped_, pipe, tickled_, panicked} \subseteq BOOLEAN
  BY DEF IInv, TypeInv, MainType, SocketType, FiberType
<1>7. fraction \in 0 .. MsLength - 1 BY DEF LengthInv, FractionType
<1>. QED BY <1>2, <1>3, <1>4, <1>5, <1>6, <1>7 DEF TypeOK, I

\* Every variable keeps its type, and idleThreadCnt_ is the number of the workers in
\* IOManager::idle, at every step of any number of workers: tickle() writes to the
\* pipe exactly if one is there.
THEOREM TypeOKHolds == Spec => []TypeOK
BY SpecIInv, SpecLengthInv, IInvTypeOK, PTL

---------------------------------------------------------------------------
(* One wake-up, and no fiber resumed while it runs.                        *)

\* The count of Wakes, which looks at a worker's place and its tickle() apart.
LEMMA WakesAre == ASSUME IInv, NEW f \in Fiber PROVE Wakes(f) = WakeUps(f)
<1>. DEFINE R == {w \in Worker : pc[w] = "run" /\ task[w].kind \in {"fiber", "wake"} /\ task[w].fiber = f}
            T == \E w \in Worker : pc[w] = "tickle" /\ then[w] = "run"
                        /\ task[w].kind \in {"fiber", "wake"} /\ task[w].fiber = f
            n == IF T THEN 1 ELSE 0
<1>1. Wakes(f) = Cardinality(Queued(tasks_, f)) + Cardinality(Armed(AllTimers, f))
                    + Cardinality(Registered(events, f)) + Cardinality(R) + n
  BY DEF Wakes, Queued, Armed, Registered, AllTimers, Mine
<1>2. \A w \in Worker : w \in Held(at, task, f) <=>
            /\ pc[w] = "run" \/ (pc[w] = "tickle" /\ then[w] = "run")
            /\ task[w].kind \in {"fiber", "wake"} /\ task[w].fiber = f
  BY DEF Held, Mine, at
<1>3. Cardinality(R) + n = Cardinality(Held(at, task, f))
  <2>1. CASE Held(at, task, f) = {}
    <3>1. R = {} /\ ~T BY <1>2, <2>1
    <3>. QED BY <2>1, <3>1, FS_EmptySet
  <2>2. ASSUME NEW v \in Held(at, task, f) PROVE Cardinality(R) + n = Cardinality(Held(at, task, f))
    <3>1. \A u \in Held(at, task, f) : u = v BY OneHeld
    <3>2. Held(at, task, f) = {v} /\ v \in Worker BY <3>1 DEF Held
    <3>3. Cardinality(Held(at, task, f)) = 1 BY <3>2, FS_Singleton
    <3>4. CASE pc[v] = "run"
      <4>1. R = {v} /\ ~T BY <1>2, <3>2, <3>4
      <4>2. Cardinality({v}) = 1 BY FS_Singleton
      <4>3. Cardinality(R) = 1 /\ n = 0 BY <4>1, <4>2
      <4>. QED BY <3>3, <4>3
    <3>5. CASE pc[v] # "run"
      <4>1. R = {} /\ T BY <1>2, <3>2, <3>5
      <4>2. Cardinality(R) = 0 /\ n = 1 BY <4>1, FS_EmptySet
      <4>. QED BY <3>3, <4>2
    <3>. QED BY <3>4, <3>5
  <2>. QED BY <2>1, <2>2
<1>. HIDE DEF R, n
<1>4. Cardinality(R) \in Nat /\ n \in Nat
  <2>1. IsFiniteSet(R) BY ThreadsAssumption, FS_Subset DEF R
  <2>. QED BY <2>1, FS_CardinalityType DEF n
<1>. QED BY <1>1, <1>3, <1>4, WakeUpsType DEF WakeUps

\* With one worker, or fibers that do not wait, a fiber in the queue is READY.
LEMMA QueuedReady ==
    ASSUME IInv, OneAtATime(setup), NEW w \in Worker, at[w] = "scan", tasks_ # <<>>, Head(tasks_).kind = "fiber"
    PROVE  state[Head(tasks_).fiber] = "READY"
<1>. DEFINE f == Head(tasks_).fiber
<1>1. 1 \in DOMAIN tasks_ /\ Head(tasks_) = tasks_[1] BY TypedTasks
<1>2. f \in Fiber BY <1>1, TypedTasks, TaskFacts
<1>3. 1 \in Queued(tasks_, f) BY <1>1 DEF Queued, Mine
<1>4. Asked(f) = 1 BY <1>2, <1>3, OneQueued
<1>. SUFFICES ASSUME state[f] # "READY" PROVE FALSE OBVIOUS
<1>5. state[f] = "RUNNING" /\ phase[f] \in Waits BY <1>2, <1>4 DEF Asked, IInv, TypeInv, FiberType
<1>. HIDE DEF f
<1>6. PICK v \in Worker : at[v] \in OnFiber BY <1>2, <1>5 DEF IInv, FibersInv
<1>7. v # w BY <1>6 DEF OnFiber
<1>8. CASE \E u \in Worker : setup.workers = {u}
  BY <1>6, <1>7, <1>8 DEF IInv, WorkersInv, OnFiber
<1>9. CASE \A g \in Fiber : \A i \in DOMAIN setup.program[g] : setup.program[g][i].call = "close"
  BY <1>2, <1>5, <1>9 DEF IInv, CallsInv, FiberCalls, CallsTo, Waits
<1>. QED BY <1>8, <1>9 DEF OneAtATime

\* With one reader a socket, the event that a read adds is not there yet.
LEMMA EventFree ==
    ASSUME IInv, OneReader(setup), NEW w \in Worker, AddEvent(w)
    PROVE  events[CallOf(task[w].fiber).fd] = None
<1>. DEFINE f == task[w].fiber
            fd == CallOf(f).fd
            g == events[fd]
<1>1. f \in Fiber /\ CallsTo(f, call[f], "read") /\ fd \in Fd BY AddEventFacts
<1>2. Reads(setup, f, fd) BY <1>1 DEF Reads, CallsTo, CallOf
<1>. SUFFICES ASSUME g # None PROVE FALSE OBVIOUS
<1>3. g \in Fiber BY <1>1 DEF IInv, TypeInv, SocketType
<1>4. phase[g] = "waiting" /\ CallOf(g).fd = fd BY <1>1 DEF IInv, CallsInv, FiberCalls
<1>5. CallsTo(g, call[g], "read") BY <1>3, <1>4 DEF IInv, CallsInv, FiberCalls
<1>6. Reads(setup, g, fd) BY <1>4, <1>5 DEF Reads, CallsTo, CallOf
<1>7. phase[f] = "addEvent" BY DEF AddEvent
<1>. HIDE DEF f, fd, g
<1>8. f = g BY <1>1, <1>2, <1>3, <1>6 DEF OneReader
<1>. QED BY <1>4, <1>7, <1>8

LEMMA NoPanic ==
    ASSUME IInv, OneAtATime(setup), OneReader(setup), ~panicked, [Next]_vars
    PROVE  ~panicked'
<1>1. CASE UNCHANGED vars BY <1>1 DEF vars
<1>2. ASSUME NEW w \in Worker, Scan(w) PROVE ~panicked'
  <2>1. at[w] = "scan" BY <1>2, ScanMoves DEF IInv, TypeInv
  <2>2. CASE tasks_ = <<>> BY <1>2, <2>2 DEF Scan
  <2>3. CASE tasks_ # <<>>
    <3>1. ~(Head(tasks_).kind = "fiber" /\ state[Head(tasks_).fiber] # "READY") BY <2>1, <2>3, QueuedReady
    <3>. QED BY <1>2, <2>3, <3>1 DEF Scan
  <2>. QED BY <2>2, <2>3
<1>3. ASSUME NEW w \in Worker, AddEvent(w) PROVE ~panicked'
  <2>1. events[CallOf(task[w].fiber).fd] = None BY <1>3, EventFree
  <2>. QED BY <1>3, <2>1 DEF AddEvent
<1>4. ASSUME NEW w \in Worker, WorkerStep(w), ~Scan(w), ~AddEvent(w) PROVE ~panicked'
  BY <1>4 DEF WorkerStep, RunStep, FiberStep, IdleStep, WorkerTickle, GoIdle, Finish, RunWake, RunTimeout, Resume,
     Sleep, ReadNow, ReadAgain, Close, Yield, GetNextTimer, Stopping, EpollWait, ReadClock, ListExpiredCb, PushCb,
     HandleEvent, LeaveIdle
<1>5. CASE MainStep \/ Tick \/ \E fd \in Fd : Arrive(fd)
  BY <1>5 DEF MainStep, Submit, MainTickle, Stop, StopTickle, ResumeRoot, Join, Tick, Arrive
<1>. QED BY <1>1, <1>2, <1>3, <1>4, <1>5 DEF Next

LEMMA IInvWokenOnce == ASSUME IInv, ~panicked PROVE WokenOnce
<1>. SUFFICES ASSUME NEW f \in Fiber \ toSubmit
              PROVE  \/ Wakes(f) = (IF state[f] = "READY" THEN 1 ELSE 0)
                     \/ state[f] = "RUNNING" /\ phase[f] \in {"asleep", "waiting"} /\ Wakes(f) = 1
  BY DEF WokenOnce
<1>1. Wakes(f) = Asked(f) BY WakesAre, WakeUpsType
<1>2. state[f] \in {"READY", "RUNNING", "TERM"} BY DEF IInv, TypeInv, FiberType
<1>. QED BY <1>1, <1>2 DEF Asked, Waits

LEMMA SetupKept == ASSUME [Next]_vars PROVE setup' = setup
BY SetupStays DEF vars, mainVars

\* The situations that the properties are about: one thread runs fibers, or none of
\* them waits, and a socket has one reader.
Situations == \A s \in Setups : OneAtATime(s) /\ OneReader(s)
Safe == IInv /\ ~panicked

LEMMA SpecSafe == ASSUME Situations PROVE Spec => []Safe
<1>1. Init => Safe BY InitIInv DEF Safe, Init
<1>2. Safe /\ [Next]_vars => Safe'
  <2>. SUFFICES ASSUME Safe, [Next]_vars PROVE Safe' OBVIOUS
  <2>1. OneAtATime(setup) /\ OneReader(setup) BY DEF Situations, Safe, IInv, TypeInv, MainType
  <2>. QED BY <2>1, StepIInv, NoPanic DEF Safe
<1>. QED BY <1>1, <1>2, PTL DEF Spec

\* A fiber that waits has exactly one wake-up to come, from its timer, its event, a
\* cancellation or the queue, so that Scheduler::run never takes a fiber that is not
\* READY and addEvent never finds the event there: for any number of fibers, sockets and calls,
\* with FIBER_THREAD_NUM 1 or with fibers that do not wait.
THEOREM WokenOnceHolds == ASSUME Situations PROVE Spec => []WokenOnce
<1>1. Safe => WokenOnce BY IInvWokenOnce DEF Safe
<1>. QED BY <1>1, SpecSafe, PTL

---------------------------------------------------------------------------
(* When the scheduler stops.                                               *)

\* A worker that has found that it is to end leaves nothing undone.
NothingLeft ==
    /\ isStopped_ /\ tasks_ = <<>> /\ AllTimers = {}
    /\ \A w \in Worker : at[w] \notin Busy
    /\ \A fd \in Fd : events[fd] = None
    /\ \A f \in Fiber : state[f] = "TERM"

StopInv ==
    /\ isStopped_ => toSubmit = {}
    /\ isStopped_ <=> mainPc \in {"stop", "join", "joined"}
    /\ \A w \in Worker : idleTerm[w] => NothingLeft
    /\ \A w \in Worker : at[w] = "exit" => idleTerm[w]
    /\ \A w \in Worker : setup.workers = {w} /\ at[w] = "stopping2" => timers_ = {}
    /\ mainPc = "joined" => \A w \in setup.workers : at[w] = "exit"

\* Fibers that do not wait have no timers.
LEMMA NoTimers ==
    ASSUME IInv, \A f \in Fiber : \A i \in DOMAIN setup.program[f] : setup.program[f][i].call = "close"
    PROVE  AllTimers = {}
<1>. SUFFICES ASSUME NEW t \in AllTimers PROVE FALSE OBVIOUS
<1>1. t \in Timer BY DEF IInv, TypeInv, TimerType, AllTimers
<1>2. Stamped(t) BY DEF IInv, CallsInv, TaskCalls
<1>3. t.kind # "fiber" /\ t.fiber \in Fiber BY <1>1 DEF Timer
<1>4. CallsTo(t.fiber, t.call, "sleep") \/ CallsTo(t.fiber, t.call, "read") BY <1>2, <1>3 DEF Stamped
<1>. QED BY <1>3, <1>4 DEF CallsTo

LEMMA StoppingIsDone ==
    ASSUME IInv, StopInv, OneAtATime(setup), NEW w \in Worker, at[w] = "stopping2", CanStop
    PROVE  NothingLeft
<1>1. isStopped_ /\ tasks_ = <<>> BY DEF CanStop
<1>2. \A v \in Worker : at[v] \notin Busy
  <2>1. Cardinality(Counted(Busy)) = 0 BY DEF CanStop, IInv, CountersInv, WorkersCounted
  <2>2. Counted(Busy) = {} BY <2>1, ThreadsAssumption, FS_Subset, FS_EmptySet DEF Counted
  <2>. QED BY <2>2 DEF Counted
<1>3. \A fd \in Fd : events[fd] = None
  <2>1. Cardinality(Pending) = 0 BY DEF CanStop, IInv, CountersInv, SocketsCounted
  <2>2. Pending = {} BY <2>1, ThreadsAssumption, FS_Subset, FS_EmptySet DEF Pending
  <2>. QED BY <2>2 DEF Pending
<1>4. AllTimers = {}
  <2>1. ASSUME NEW u \in Worker, setup.workers = {u} PROVE AllTimers = {}
    <3>1. u = w BY <2>1 DEF IInv, WorkersInv
    <3>2. timers_ = {} BY <2>1, <3>1 DEF StopInv
    <3>3. \A v \in Worker : at[v] # "push" BY <2>1, <3>1 DEF IInv, WorkersInv
    <3>4. \A v \in Worker : cbs[v] = {} BY <3>3 DEF IInv, WorkersInv
    <3>. QED BY <3>2, <3>4 DEF AllTimers
  <2>. QED BY <2>1, NoTimers DEF OneAtATime
<1>5. ASSUME NEW f \in Fiber PROVE state[f] = "TERM"
  <2>1. Queued(tasks_, f) = {} BY <1>1 DEF Queued
  <2>2. Armed(AllTimers, f) = {} BY <1>4 DEF Armed
  <2>3. Registered(events, f) = {} BY <1>3, ThreadsAssumption DEF Registered
  <2>4. Held(at, task, f) = {} BY <1>2 DEF Held, Busy
  <2>5. Asked(f) = 0
    <3>1. /\ Cardinality(Queued(tasks_, f)) = 0 /\ Cardinality(Armed(AllTimers, f)) = 0
          /\ Cardinality(Registered(events, f)) = 0 /\ Cardinality(Held(at, task, f)) = 0
      BY <2>1, <2>2, <2>3, <2>4, FS_EmptySet
    <3>. QED BY <3>1, WakeUpsType DEF WakeUps
  <2>6. state[f] # "RUNNING" BY <1>2 DEF IInv, FibersInv, OnFiber, Busy
  <2>. QED BY <1>1, <2>5, <2>6 DEF Asked, StopInv
<1>. QED BY <1>1, <1>2, <1>3, <1>4, <1>5 DEF NothingLeft

LEMMA NothingLeftStays ==
    ASSUME IInv, StopInv, NothingLeft, Next
    PROVE  NothingLeft'
<1>. USE AtType DEF mainVars, schedVars, runVars, idleVars, timerVars, ioVars, fiberVars
<1>1. mainPc \in {"stop", "join", "joined"} BY DEF NothingLeft, StopInv
<1>2. CASE MainStep \/ Tick \/ \E fd \in Fd : Arrive(fd)
  <2>1. UNCHANGED <<isStopped_, tasks_, timers_, cbs, events, state>>
    BY <1>1, <1>2 DEF MainStep, Submit, MainTickle, Stop, StopTickle, ResumeRoot, Join, Tick, Arrive
  <2>2. AllTimers' = AllTimers BY <2>1 DEF AllTimers
  <2>3. \A w \in Worker : at'[w] \in Busy => at[w] \in Busy
    <3>1. CASE ResumeRoot BY <3>1, ResumeRootMoves DEF IInv, TypeInv, Busy
    <3>2. CASE ~ResumeRoot
      BY <1>2, <3>2, StayMoves DEF MainStep, Submit, MainTickle, Stop, StopTickle, Join, Tick, Arrive, IInv, TypeInv
    <3>. QED BY <3>1, <3>2
  <2>. QED BY <2>1, <2>2, <2>3 DEF NothingLeft
<1>3. ASSUME NEW w \in Worker, WorkerStep(w) PROVE NothingLeft'
  <2>. USE DEF IInv, TypeInv
  <2>1. at[w] \notin Busy /\ cbs[w] = {} BY DEF NothingLeft, AllTimers
  <2>2. ~FiberStep(w) /\ ~Finish(w) /\ ~RunWake(w) /\ ~RunTimeout(w)
    BY <2>1, FinishMoves, RunWakeMoves, RunTimeoutMoves, ResumeMoves, SleepMoves, ReadNowMoves, ReadAgainMoves,
       AddEventMoves, CloseMoves, YieldMoves DEF FiberStep, Busy, OnFiber
  <2>3. ~PushCb(w) BY <2>1 DEF PushCb
  <2>4. isStopped_' = isStopped_ /\ state' = state
    BY <1>3, <2>2, <2>3 DEF WorkerStep, RunStep, IdleStep, WorkerTickle, Scan, GoIdle, GetNextTimer, Stopping,
       EpollWait, ReadClock, ListExpiredCb, HandleEvent, LeaveIdle
  <2>5. tasks_' = tasks_ /\ events' = events
    <3>1. CASE HandleEvent(w)
      <4>1. PICK fd \in got[w] : Trigger(w, fd, "push") BY <3>1 DEF HandleEvent
      <4>2. events[fd] = None BY DEF NothingLeft, SocketType
      <4>. QED BY <4>1, <4>2 DEF Trigger
    <3>2. CASE Scan(w) BY <3>2 DEF Scan, NothingLeft
    <3>3. CASE ~HandleEvent(w) /\ ~Scan(w)
      BY <1>3, <2>2, <2>3, <3>3 DEF WorkerStep, RunStep, IdleStep, WorkerTickle, GoIdle, GetNextTimer, Stopping,
         EpollWait,
         ReadClock, ListExpiredCb, LeaveIdle
    <3>. QED BY <3>1, <3>2, <3>3
  <2>6. AllTimers' = AllTimers
    <3>1. CASE ListExpiredCb(w) BY <3>1, ListExpiredCbTimers
    <3>2. CASE ~ListExpiredCb(w)
      <4>1. UNCHANGED <<timers_, cbs>>
        BY <1>3, <2>2, <2>3, <3>2 DEF WorkerStep, RunStep, IdleStep, WorkerTickle, Scan, GoIdle, GetNextTimer,
           Stopping,
           EpollWait, ReadClock, HandleEvent, LeaveIdle
      <4>. QED BY <4>1 DEF AllTimers
    <3>. QED BY <3>1, <3>2
  <2>7. at'[w] \notin Busy
    <3>1. CASE Scan(w)
      <4>1. tasks_ = <<>> BY DEF NothingLeft
      <4>. QED BY <3>1, <4>1, ScanMoves DEF Busy
    <3>2. CASE WorkerTickle(w) BY <2>1, <3>2, WorkerTickleMoves
    <3>3. CASE GoIdle(w) BY <3>3, GoIdleMoves DEF Busy
    <3>4. CASE IdleStep(w)
      BY <3>4, GetNextTimerMoves, StoppingMoves, EpollWaitMoves, ReadClockMoves, ListExpiredCbMoves, PushCbMoves,
         HandleEventMoves, LeaveIdleMoves DEF IdleStep, Busy
    <3>. QED BY <1>3, <2>2, <3>1, <3>2, <3>3, <3>4 DEF WorkerStep, RunStep
  <2>8. \A v \in Worker : at'[v] \notin Busy
    <3>1. \A v \in Worker \ {w} : at'[v] = at[v] BY <1>3, OthersStay
    <3>. QED BY <2>7, <3>1 DEF NothingLeft
  <2>. QED BY <2>4, <2>5, <2>6, <2>8 DEF NothingLeft
<1>. QED BY <1>2, <1>3 DEF Next

LEMMA StepStopInv ==
    ASSUME IInv, StopInv, OneAtATime(setup), Next
    PROVE  StopInv'
<1>. USE AtType DEF mainVars, schedVars, runVars, idleVars, timerVars, ioVars, fiberVars, IInv, TypeInv
<1>1. setup' = setup BY SetupStays
<1>2. CASE MainStep \/ Tick \/ \E fd \in Fd : Arrive(fd)
  <2>1. /\ isStopped_' => toSubmit' = {}
        /\ isStopped_' <=> mainPc' \in {"stop", "join", "joined"}
    BY <1>2 DEF MainStep, Submit, MainTickle, Stop, StopTickle, ResumeRoot, Join, Tick, Arrive, StopInv
  <2>2. UNCHANGED <<idleTerm, timers_>>
    BY <1>2 DEF MainStep, Submit, MainTickle, Stop, StopTickle, ResumeRoot, Join, Tick, Arrive
  <2>3. \A w \in Worker : at'[w] = at[w] \/ (at[w] = "off" /\ at'[w] = "scan")
    <3>1. CASE ResumeRoot
      <4>1. \A w \in Worker : w = setup.caller => at[w] = "off" BY <3>1 DEF WorkersInv, ResumeRoot
      <4>. QED BY <3>1, <4>1, ResumeRootMoves
    <3>2. CASE ~ResumeRoot
      BY <1>2, <3>2, StayMoves DEF MainStep, Submit, MainTickle, Stop, StopTickle, Join, Tick, Arrive
    <3>. QED BY <3>1, <3>2
  <2>4. mainPc' = "joined" => \A w \in setup.workers : at'[w] = "exit"
    <3>1. CASE Join
      <4>1. \A w \in setup.workers : w \in Worker /\ at[w] = "exit"
        BY <3>1, AtPc, SetupFacts DEF Join, MainType
      <4>2. at' = at BY <3>1, StayMoves DEF Join
      <4>. QED BY <4>1, <4>2
    <3>2. CASE ~Join
      <4>1. mainPc' = "joined" => mainPc = "joined"
        BY <1>2, <3>2 DEF MainStep, Submit, MainTickle, Stop, StopTickle, ResumeRoot, Tick, Arrive, MainType
      <4>. QED BY <2>3, <4>1, SetupFacts DEF StopInv, MainType
    <3>. QED BY <3>1, <3>2
  <2>5. \A w \in Worker : idleTerm'[w] => NothingLeft' BY <2>2, NothingLeftStays DEF StopInv
  <2>. QED BY <1>1, <2>1, <2>2, <2>3, <2>4, <2>5 DEF StopInv
<1>3. ASSUME NEW w \in Worker, WorkerStep(w) PROVE StopInv'
  <2>1. UNCHANGED <<isStopped_, toSubmit, mainPc>> BY <1>3 DEF WorkerStep, RunStep, FiberStep, IdleStep,
       WorkerTickle, Scan, GoIdle, Finish, RunWake, RunTimeout, Resume, Sleep, ReadNow, ReadAgain, AddEvent, Close,
       Yield, GetNextTimer, Stopping, EpollWait, ReadClock, ListExpiredCb, PushCb, HandleEvent, LeaveIdle
  <2>2. \A v \in Worker \ {w} : at'[v] = at[v] BY <1>3, OthersStay
  <2>3. at[w] # "exit"
    <3>1. CASE RunStep(w)
      <4>1. CASE WorkerTickle(w)
        BY <4>1 DEF WorkerTickle, at, PcType, Busy
      <4>2. CASE ~WorkerTickle(w)
        BY <3>1, <4>2, ScanMoves, GoIdleMoves, FinishMoves, RunWakeMoves, RunTimeoutMoves DEF RunStep
      <4>. QED BY <4>1, <4>2
    <3>2. CASE FiberStep(w)
      BY <3>2, ResumeMoves, SleepMoves, ReadNowMoves, ReadAgainMoves, AddEventMoves, CloseMoves, YieldMoves
         DEF FiberStep, OnFiber
    <3>3. CASE IdleStep(w)
      BY <3>3, GetNextTimerMoves, StoppingMoves, EpollWaitMoves, ReadClockMoves, ListExpiredCbMoves, PushCbMoves,
         HandleEventMoves, LeaveIdleMoves DEF IdleStep
    <3>. QED BY <1>3, <3>1, <3>2, <3>3 DEF WorkerStep
  <2>4. \A v \in Worker : idleTerm'[v] => NothingLeft'
    <3>1. CASE Stopping(w)
      <4>1. at[w] = "stopping2" /\ \A v \in Worker : idleTerm'[v] = IF v = w THEN CanStop ELSE idleTerm[v]
        BY <3>1, StoppingMoves DEF Stopping, TaskType
      <4>2. CanStop => NothingLeft BY <4>1, StoppingIsDone
      <4>. QED BY <4>1, <4>2, NothingLeftStays DEF StopInv
    <3>2. CASE ~Stopping(w)
      <4>1. idleTerm' = idleTerm BY <1>3, <3>2 DEF WorkerStep, RunStep, FiberStep, IdleStep, WorkerTickle, Scan,
           GoIdle, Finish, RunWake, RunTimeout, Resume, Sleep, ReadNow, ReadAgain, AddEvent, Close, Yield,
           GetNextTimer, EpollWait, ReadClock, ListExpiredCb, PushCb, HandleEvent, LeaveIdle
      <4>. QED BY <4>1, NothingLeftStays DEF StopInv
    <3>. QED BY <3>1, <3>2
  <2>5. \A v \in Worker : idleTerm[v] => idleTerm'[v]
    <3>1. CASE Stopping(w)
      <4>1. idleTerm[w] => CanStop
        <5>1. SUFFICES ASSUME idleTerm[w] PROVE CanStop OBVIOUS
        <5>2. NothingLeft BY <5>1 DEF StopInv
        <5>3. Counted(Busy) = {} /\ Pending = {} BY <5>2 DEF NothingLeft, Counted, Pending
        <5>. QED BY <5>2, <5>3, FS_EmptySet DEF NothingLeft, CanStop, CountersInv, WorkersCounted, SocketsCounted
      <4>. QED BY <3>1, <4>1 DEF Stopping, TaskType
    <3>2. CASE ~Stopping(w) BY <1>3, <3>2 DEF WorkerStep, RunStep, FiberStep, IdleStep, WorkerTickle, Scan, GoIdle,
         Finish, RunWake, RunTimeout, Resume, Sleep, ReadNow, ReadAgain, AddEvent, Close, Yield, GetNextTimer,
         EpollWait, ReadClock, ListExpiredCb, PushCb, HandleEvent, LeaveIdle
    <3>. QED BY <3>1, <3>2
  <2>6. at'[w] = "exit" => idleTerm[w]
    <3>1. CASE RunStep(w)
      BY <2>3, <3>1, WorkerTickleMoves, ScanMoves, GoIdleMoves, FinishMoves, RunWakeMoves, RunTimeoutMoves DEF RunStep
    <3>2. CASE FiberStep(w)
      BY <2>3, <3>2, ResumeMoves, SleepMoves, ReadNowMoves, ReadAgainMoves, AddEventMoves, CloseMoves, YieldMoves
         DEF FiberStep
    <3>3. CASE IdleStep(w)
      BY <2>3, <3>3, GetNextTimerMoves, StoppingMoves, EpollWaitMoves, ReadClockMoves, ListExpiredCbMoves,
         PushCbMoves,
         HandleEventMoves, LeaveIdleMoves DEF IdleStep
    <3>. QED BY <1>3, <3>1, <3>2, <3>3 DEF WorkerStep
  <2>7. \A v \in Worker : at'[v] = "exit" => idleTerm'[v] BY <2>2, <2>5, <2>6 DEF StopInv
  <2>8. ASSUME NEW v \in Worker, setup.workers = {v}, at'[v] = "stopping2" PROVE timers_' = {}
    <3>1. v = w
      <4>1. at[w] # "off"
        <5>1. CASE WorkerTickle(w) BY <5>1 DEF WorkerTickle, at, PcType, Busy
        <5>2. CASE ~WorkerTickle(w)
          BY <1>3, <5>2, ScanMoves, GoIdleMoves, FinishMoves, RunWakeMoves, RunTimeoutMoves, ResumeMoves, SleepMoves,
             ReadNowMoves, ReadAgainMoves, AddEventMoves, CloseMoves, YieldMoves, GetNextTimerMoves, StoppingMoves,
             EpollWaitMoves, ReadClockMoves, ListExpiredCbMoves, PushCbMoves, HandleEventMoves, LeaveIdleMoves
             DEF WorkerStep, RunStep, FiberStep, IdleStep, OnFiber
        <5>. QED BY <5>1, <5>2
      <4>. QED BY <2>8, <4>1 DEF WorkersInv
    <3>2. CASE GetNextTimer(w) BY <2>8, <3>1, <3>2, GetNextTimerMoves DEF GetNextTimer
    <3>3. CASE WorkerTickle(w)
      BY <2>8, <3>1, <3>3 DEF WorkerTickle, GoTo, at, PcType, Busy
    <3>4. CASE ~GetNextTimer(w) /\ ~WorkerTickle(w)
      BY <1>3, <2>8, <3>1, <3>4, ScanMoves, GoIdleMoves, FinishMoves, RunWakeMoves, RunTimeoutMoves, ResumeMoves,
         SleepMoves,
         ReadNowMoves, ReadAgainMoves, AddEventMoves, CloseMoves, YieldMoves, StoppingMoves,
         EpollWaitMoves, ReadClockMoves, ListExpiredCbMoves, PushCbMoves, HandleEventMoves, LeaveIdleMoves
         DEF WorkerStep, RunStep, FiberStep, IdleStep
    <3>. QED BY <3>2, <3>3, <3>4
  <2>9. mainPc' = "joined" => \A v \in setup.workers : at'[v] = "exit"
    BY <2>1, <2>2, <2>3, SetupFacts DEF StopInv, MainType
  <2>. QED BY <1>1, <2>1, <2>4, <2>7, <2>8, <2>9 DEF StopInv
<1>. QED BY <1>2, <1>3 DEF Next

LEMMA InitStopInv == ASSUME Init PROVE StopInv
<1>1. \A w \in Worker : at[w] \in {"scan", "off"} BY DEF Init, at
<1>. QED BY <1>1 DEF Init, StopInv

LEMMA UnchangedStopInv == ASSUME StopInv, UNCHANGED vars PROVE StopInv'
BY DEF StopInv, NothingLeft, AllTimers, at, vars, envVars, mainVars, schedVars, runVars, idleVars, timerVars,
   ioVars, fiberVars

LEMMA SpecStopInv == ASSUME Situations PROVE Spec => [](IInv /\ StopInv)
<1>1. Init => IInv /\ StopInv BY InitIInv, InitStopInv
<1>2. IInv /\ StopInv /\ [Next]_vars => (IInv /\ StopInv)'
  <2>. SUFFICES ASSUME IInv, StopInv, [Next]_vars PROVE (IInv /\ StopInv)' OBVIOUS
  <2>1. OneAtATime(setup) BY DEF Situations, IInv, TypeInv, MainType
  <2>. QED BY <2>1, StepIInv, StepStopInv, UnchangedStopInv
<1>. QED BY <1>1, <1>2, PTL DEF Spec

\* When IOManager's stop() returns, the threads have left idle() with every fiber run to its end,
\* the queue empty, no timer armed and no event pending: no interleaving of the
\* counts and the queue that stopping() reads, nor of the timers it looks at first,
\* lets a worker end too early.
THEOREM StoppedIsDoneHolds == ASSUME Situations PROVE Spec => []StoppedIsDone
<1>1. IInv /\ StopInv => StoppedIsDone
  <2>. SUFFICES ASSUME IInv, StopInv, mainPc = "joined"
                PROVE  /\ tasks_ = <<>> /\ timers_ = {} /\ pendingEventCnt_ = 0 /\ activeThreadCnt_ = 0
                       /\ \A f \in Fiber : state[f] = "TERM"
    BY DEF StoppedIsDone
  <2>1. PICK w \in setup.workers : TRUE BY SetupFacts DEF IInv, TypeInv, MainType
  <2>2. w \in Worker /\ at[w] = "exit" BY SetupFacts DEF StopInv, IInv, TypeInv, MainType
  <2>3. NothingLeft BY <2>2 DEF StopInv
  <2>4. Counted(Busy) = {} /\ Pending = {} BY <2>3 DEF NothingLeft, Counted, Pending
  <2>5. activeThreadCnt_ = 0 /\ pendingEventCnt_ = 0
    BY <2>4, FS_EmptySet DEF IInv, CountersInv, WorkersCounted, SocketsCounted
  <2>. QED BY <2>3, <2>5 DEF NothingLeft, AllTimers
<1>. QED BY <1>1, SpecStopInv, PTL

---------------------------------------------------------------------------
(* Times, with one worker.                                                 *)

OneWorker == \E w \in Worker : setup.workers = {w}

\* The call of fiber f is a read that will not find nothing.
Granted(f) == CallsTo(f, call[f], "read") /\ (CallOf(f).fd \in closed \/ data[CallOf(f).fd] > 0)

\* Of a timer that has expired, and of the task made of it: it is due, if its call goes
\* on; a read that is no longer registered, and tries again, will not wait again.
Over(t) ==
    t.kind # "fiber" =>
        /\ t.call <= call[t.fiber]
        /\ t.call = call[t.fiber] /\ phase[t.fiber] # "start" => due[t.fiber] <= now
        /\ t.call = call[t.fiber] /\ phase[t.fiber] = "start" => state[t.fiber] = "RUNNING" /\ Granted(t.fiber)

ClockInv ==
    /\ previouseTime_ <= now
    /\ \A w \in Worker : at[w] = "expire" => previouseTime_ <= nowMs[w] /\ nowMs[w] <= now
GotInv == \A w \in Worker : \A fd \in got[w] : data[fd] > 0
\* A timer that is armed belongs to the call that its fiber is in, or to one that is over.
ArmedFor(t) ==
    /\ t.call <= call[t.fiber]
    /\ t.call = call[t.fiber] => phase[t.fiber] # "start" /\ t.next = due[t.fiber]
ArmedInv == \A t \in timers_ : ArmedFor(t)
OverInv ==
    /\ \A w \in Worker : \A t \in cbs[w] : Over(t)
    /\ \A w \in Worker : at[w] = "run" => Over(task[w])
    /\ \A i \in DOMAIN tasks_ : Over(tasks_[i])
\* Where a fiber is in its call, and what will let it go on.
PhaseInv(f) ==
    /\ phase[f] = "addEvent" => state[f] = "RUNNING"
    /\ phase[f] = "asleep" /\ due[f] > now => \E t \in timers_ : t.kind = "wake" /\ t.fiber = f /\ t.call = call[f]
    /\ cnacelled[f] => phase[f] = "waiting" /\ due[f] <= now
    /\ phase[f] = "waiting" => cnacelled[f] \/ Granted(f) \/ \E fd \in Fd : events[fd] = f
PhasesInv == \A f \in Fiber : PhaseInv(f)
TimesInv == ClockInv /\ GotInv /\ ArmedInv /\ OverInv /\ PhasesInv

LEMMA OthersOff ==
    ASSUME IInv, OneWorker, NEW w \in Worker, at[w] # "off", NEW v \in Worker \ {w}
    PROVE  at[v] = "off"
BY DEF OneWorker, IInv, WorkersInv

LEMMA SameReader ==
    ASSUME OneReader(setup), NEW f \in Fiber, NEW g \in Fiber, CallsTo(f, call[f], "read"), CallsTo(g, call[g], "read"),
           CallOf(f).fd \in Fd, CallOf(f).fd = CallOf(g).fd
    PROVE  f = g
<1>1. Reads(setup, f, CallOf(f).fd) /\ Reads(setup, g, CallOf(f).fd) BY DEF Reads, CallsTo, CallOf
<1>. QED BY <1>1 DEF OneReader

LEMMA ReadFd ==
    ASSUME IInv, NEW f \in Fiber, CallsTo(f, call[f], "read")
    PROVE  CallOf(f) \in Call /\ CallOf(f).fd \in Fd
BY CallsToFacts DEF IInv, TypeInv, MainType, CallOf

LEMMA ToldApart ==
    ASSUME NEW f, NEW n, CallsTo(f, n, "sleep") \/ CallsTo(f, n, "close") PROVE ~CallsTo(f, n, "read")
BY DEF CallsTo

\* What a read will find is still there after a step of another fiber.
LEMMA GrantedStays ==
    ASSUME setup' = setup, NEW f, call'[f] = call[f], Granted(f), closed \subseteq closed',
           data'[CallOf(f).fd] > 0 \/ data'[CallOf(f).fd] = data[CallOf(f).fd]
    PROVE  Granted(f)'
BY DEF Granted, CallsTo, CallOf

LEMMA SameOver ==
    ASSUME NEW t, now \in Nat, now' \in Nat, now <= now', due[t.fiber] \in Nat, Over(t),
           call'[t.fiber] = call[t.fiber], phase'[t.fiber] = phase[t.fiber],
           due'[t.fiber] = due[t.fiber], state'[t.fiber] = state[t.fiber], Granted(t.fiber) => Granted(t.fiber)'
    PROVE  Over(t)'
BY DEF Over

\* A step in which no fiber goes on and nothing is read.
LEMMA QuietOver ==
    ASSUME IInv, setup' = setup, now' \in Nat, now <= now', UNCHANGED <<call, phase, due, state>>, closed \subseteq closed',
           \A fd \in Fd : data'[fd] = data[fd] \/ data'[fd] > 0,
           NEW t \in Task \cup Timer, Over(t)
    PROVE  Over(t)'
<1>1. CASE t.kind = "fiber" BY <1>1 DEF Over
<1>2. CASE t.kind # "fiber"
  <2>1. t.fiber \in Fiber BY DEF Task, Timed, Timer
  <2>2. Granted(t.fiber) => CallOf(t.fiber).fd \in Fd BY <2>1, ReadFd DEF Granted
  <2>3. Granted(t.fiber) => Granted(t.fiber)' BY <2>2, GrantedStays
  <2>4. due[t.fiber] \in Nat /\ now \in Nat BY <2>1 DEF IInv, TypeInv, FiberType, TimerType
  <2>. QED BY <2>3, <2>4, SameOver
<1>. QED BY <1>1, <1>2

\* A step of fiber f leaves the others as they are.
LEMMA OtherOver ==
    ASSUME IInv, setup' = setup, NEW f, now' = now,
           \A g \in Fiber \ {f} : call'[g] = call[g] /\ phase'[g] = phase[g] /\ due'[g] = due[g] /\ state'[g] = state[g],
           \A g \in Fiber \ {f} : Granted(g) => Granted(g)',
           NEW t \in Task \cup Timer, Over(t), t.kind # "fiber" => t.fiber # f
    PROVE  Over(t)'
<1>1. CASE t.kind = "fiber" BY <1>1 DEF Over
<1>2. CASE t.kind # "fiber"
  <2>1. t.fiber \in Fiber \ {f} BY <1>2 DEF Task, Timed, Timer
  <2>2. due[t.fiber] \in Nat /\ now \in Nat BY <2>1 DEF IInv, TypeInv, FiberType, TimerType
  <2>. QED BY <2>1, <2>2, SameOver
<1>. QED BY <1>1, <1>2

LEMMA ResumeOver ==
    ASSUME IInv, PhasesInv, setup' = setup, NEW w \in Worker, Resume(w), NEW t \in Task \cup Timer, Over(t)
    PROVE  Over(t)'
<1>1. PICK f \in Fiber : f = task[w].fiber /\ state[f] = "READY" /\ w \in Held(at, task, f) BY ResumedFacts
<1>2. UNCHANGED <<now, closed, data>> BY DEF Resume, envVars, ioVars
<1>3. \A g \in Fiber \ {f} : call'[g] = call[g] /\ phase'[g] = phase[g] /\ due'[g] = due[g] /\ state'[g] = state[g]
  BY <1>1 DEF Resume, NextCall, IInv, TypeInv, FiberType
<1>4. \A g \in Fiber \ {f} : Granted(g) => Granted(g)' BY <1>2, <1>3, GrantedStays
<1>5. ASSUME t.kind # "fiber", t.fiber = f PROVE Over(t)'
  <2>1. t.call \in Nat /\ call[f] \in Nat BY <1>1, <1>5 DEF Task, Timed, Timer, IInv, TypeInv, FiberType
  <2>2. t.call <= call[f] /\ (t.call = call[f] => phase[f] # "start") BY <1>1, <1>5 DEF Over
  <2>3. CASE phase[f] = "asleep" \/ (phase[f] = "waiting" /\ cnacelled[f])
    <3>1. call'[f] = call[f] + 1 BY <1>1, <2>3 DEF Resume, NextCall, IInv, TypeInv, FiberType
    <3>2. t.call <= call'[f] /\ t.call # call'[f] BY <2>1, <2>2, <3>1
    <3>. QED BY <1>5, <3>2 DEF Over
  <2>4. CASE ~(phase[f] = "asleep" \/ (phase[f] = "waiting" /\ cnacelled[f]))
    <3>1. call'[f] = call[f] /\ phase'[f] = "start" /\ state'[f] = "RUNNING"
      BY <1>1, <2>4 DEF Resume, IInv, TypeInv, FiberType
    <3>2. CASE phase[f] = "start" BY <1>5, <2>2, <3>1, <3>2 DEF Over
    <3>3. CASE phase[f] = "waiting"
      <4>1. Registered(events, f) = {} BY <1>1, OneHeld
      <4>2. Granted(f) BY <1>1, <2>4, <3>3, <4>1 DEF PhasesInv, PhaseInv, Registered
      <4>3. Granted(f)' BY <1>2, <3>1, <4>2, GrantedStays
      <4>. QED BY <1>5, <2>2, <3>1, <4>3 DEF Over
    <3>4. phase[f] \in {"start", "waiting"} BY <1>1, <2>4 DEF PhasesInv, PhaseInv, IInv, TypeInv, FiberType
    <3>. QED BY <3>2, <3>3, <3>4
  <2>. QED BY <2>3, <2>4
<1>. QED BY <1>2, <1>3, <1>4, <1>5, OtherOver

LEMMA SleepOver ==
    ASSUME IInv, setup' = setup, NEW w \in Worker, Sleep(w), NEW t \in Task \cup Timer, Over(t)
    PROVE  Over(t)'
<1>. DEFINE f == task[w].fiber
<1>1. f \in Fiber /\ phase[f] = "start" /\ CallsTo(f, call[f], "sleep") BY CallingFacts DEF Sleep
<1>2. UNCHANGED <<now, closed, data, call, state>> BY DEF Sleep, envVars, ioVars
<1>3. \A g \in Fiber \ {f} : call'[g] = call[g] /\ phase'[g] = phase[g] /\ due'[g] = due[g] /\ state'[g] = state[g]
  BY <1>2 DEF Sleep, AddTimer, IInv, TypeInv, FiberType
<1>4. \A g \in Fiber \ {f} : Granted(g) => Granted(g)' BY <1>2, <1>3, GrantedStays
<1>5. ASSUME t.kind # "fiber", t.fiber = f PROVE Over(t)'
  <2>1. t.call <= call[f] /\ t.call # call[f] BY <1>1, <1>5, ToldApart DEF Over, Granted
  <2>. HIDE DEF f
  <2>. QED BY <1>2, <1>5, <2>1 DEF Over
<1>. HIDE DEF f
<1>. QED BY <1>2, <1>3, <1>4, <1>5, OtherOver

LEMMA ReadAgainOver ==
    ASSUME IInv, setup' = setup, NEW w \in Worker, ReadAgain(w), NEW t \in Task \cup Timer, Over(t)
    PROVE  Over(t)'
<1>. DEFINE f == task[w].fiber
<1>1. f \in Fiber /\ phase[f] = "start" /\ ~Granted(f)
  <2>1. f \in Fiber /\ phase[f] = "start" BY CallingFacts DEF ReadAgain
  <2>. QED BY <2>1 DEF ReadAgain, Granted
<1>2. UNCHANGED <<now, closed, data, call, state>> BY DEF ReadAgain, envVars, ioVars
<1>3. \A g \in Fiber \ {f} : call'[g] = call[g] /\ phase'[g] = phase[g] /\ due'[g] = due[g] /\ state'[g] = state[g]
  <2>1. \A g \in Fiber \ {f} : phase'[g] = phase[g] BY DEF ReadAgain, IInv, TypeInv, FiberType
  <2>2. \A g \in Fiber \ {f} : due'[g] = due[g]
    <3>1. CASE TimerMs(CallOf(f)) > 0 BY <3>1 DEF ReadAgain, AddTimer, IInv, TypeInv, FiberType
    <3>2. CASE ~(TimerMs(CallOf(f)) > 0) BY <3>2 DEF ReadAgain
    <3>. QED BY <3>1, <3>2
  <2>. QED BY <1>2, <2>1, <2>2
<1>4. \A g \in Fiber \ {f} : Granted(g) => Granted(g)' BY <1>2, <1>3, GrantedStays
<1>5. ASSUME t.kind # "fiber", t.fiber = f PROVE Over(t)'
  <2>1. t.call <= call[f] /\ t.call # call[f] BY <1>1, <1>5 DEF Over
  <2>. HIDE DEF f
  <2>. QED BY <1>2, <1>5, <2>1 DEF Over
<1>. HIDE DEF f
<1>. QED BY <1>2, <1>3, <1>4, <1>5, OtherOver

LEMMA AddEventOver ==
    ASSUME IInv, setup' = setup, NEW w \in Worker, AddEvent(w), NEW t \in Task \cup Timer, Over(t)
    PROVE  Over(t)'
<1>. DEFINE f == task[w].fiber
<1>1. f \in Fiber /\ phase[f] = "addEvent" BY AddEventFacts DEF AddEvent
<1>2. UNCHANGED <<now, closed, data, call, state, due>> BY DEF AddEvent, envVars
<1>3. phase'[f] # "start" /\ \A g \in Fiber \ {f} : phase'[g] = phase[g]
  <2>1. CASE events[CallOf(f).fd] # None BY <1>1, <2>1 DEF AddEvent
  <2>2. CASE ~(events[CallOf(f).fd] # None) BY <1>1, <2>2 DEF AddEvent, IInv, TypeInv, FiberType
  <2>. QED BY <2>1, <2>2
<1>4. \A g \in Fiber \ {f} : Granted(g) => Granted(g)' BY <1>2, GrantedStays
<1>5. ASSUME t.kind # "fiber", t.fiber = f PROVE Over(t)'
  <2>. HIDE DEF f
  <2>. QED BY <1>1, <1>2, <1>3, <1>5 DEF Over
<1>. HIDE DEF f
<1>. QED BY <1>2, <1>3, <1>4, <1>5, OtherOver

\* A fiber whose call is over.
LEMMA NextCallOver ==
    ASSUME IInv, NEW f \in Fiber, call' = [call EXCEPT ![f] = @ + 1],
           NEW t \in Task \cup Timer, Over(t), t.kind # "fiber" => t.fiber = f
    PROVE  Over(t)'
<1>1. CASE t.kind = "fiber" BY <1>1 DEF Over
<1>2. CASE t.kind # "fiber"
  <2>1. t.call \in Nat /\ call[f] \in Nat /\ call'[f] = call[f] + 1
    BY <1>2 DEF Task, Timed, Timer, IInv, TypeInv, FiberType
  <2>2. t.call <= call[f] BY <1>2 DEF Over
  <2>3. t.call <= call'[f] /\ t.call # call'[f] BY <2>1, <2>2
  <2>. QED BY <1>2, <2>3 DEF Over
<1>. QED BY <1>1, <1>2

LEMMA CloseOver ==
    ASSUME IInv, setup' = setup, NEW w \in Worker, Close(w), NEW t \in Task \cup Timer, Over(t)
    PROVE  Over(t)'
<1>. DEFINE f == task[w].fiber
<1>1. f \in Fiber BY CallingFacts DEF Close
<1>2. UNCHANGED <<now, data, state, due>> /\ closed \subseteq closed' BY DEF Close, envVars
<1>3. \A g \in Fiber \ {f} : call'[g] = call[g] /\ phase'[g] = phase[g] /\ due'[g] = due[g] /\ state'[g] = state[g]
  BY <1>2 DEF Close, NextCall, IInv, TypeInv, FiberType
<1>4. \A g \in Fiber \ {f} : Granted(g) => Granted(g)' BY <1>2, <1>3, GrantedStays
<1>5. call' = [call EXCEPT ![f] = @ + 1] BY DEF Close, NextCall
<1>. HIDE DEF f
<1>. QED BY <1>1, <1>2, <1>3, <1>4, <1>5, OtherOver, NextCallOver

\* One fiber reads from a socket, so that a read leaves the others what they will find.
LEMMA ReadNowGrants ==
    ASSUME IInv, OneReader(setup), setup' = setup, NEW w \in Worker, ReadNow(w),
           NEW g \in Fiber \ {task[w].fiber}, Granted(g)
    PROVE  Granted(g)'
<1>1. PICK f \in Fiber : f = task[w].fiber /\ CallsTo(f, call[f],
     "read") /\ CallOf(f).fd \in Fd BY CallingFacts DEF ReadNow
<1>2. call'[g] = call[g] /\ closed' = closed BY <1>1 DEF ReadNow, NextCall, IInv, TypeInv, FiberType
<1>3. CallsTo(g, call[g], "read") BY DEF Granted
<1>4. CallOf(f).fd # CallOf(g).fd BY <1>1, <1>3, SameReader
<1>5. data'[CallOf(g).fd] = data[CallOf(g).fd]
  <2>1. CallOf(g).fd \in Fd BY <1>3, ReadFd
  <2>. QED BY <1>1, <1>4, <2>1 DEF ReadNow, IInv, TypeInv, SocketType
<1>. QED BY <1>2, <1>5, GrantedStays

LEMMA ReadNowOver ==
    ASSUME IInv, OneReader(setup), setup' = setup, NEW w \in Worker, ReadNow(w), NEW t \in Task \cup Timer, Over(t)
    PROVE  Over(t)'
<1>. DEFINE f == task[w].fiber
<1>1. f \in Fiber BY CallingFacts DEF ReadNow
<1>2. UNCHANGED <<now, state, due>> BY DEF ReadNow, envVars
<1>3. \A g \in Fiber \ {f} : call'[g] = call[g] /\ phase'[g] = phase[g] /\ due'[g] = due[g] /\ state'[g] = state[g]
  BY <1>2 DEF ReadNow, NextCall, IInv, TypeInv, FiberType
<1>4. \A g \in Fiber \ {f} : Granted(g) => Granted(g)' BY ReadNowGrants
<1>5. call' = [call EXCEPT ![f] = @ + 1] BY DEF ReadNow, NextCall
<1>. HIDE DEF f
<1>. QED BY <1>1, <1>2, <1>3, <1>4, <1>5, OtherOver, NextCallOver

LEMMA YieldFacts ==
    ASSUME IInv, NEW w \in Worker, Yield(w)
    PROVE  /\ at[w] \in OnFiber /\ task[w].fiber \in Fiber /\ state[task[w].fiber] = "RUNNING"
           /\ \/ at[w] = "yield" /\ phase[task[w].fiber] \in Waits
              \/ /\ at[w] = "fiber" /\ phase[task[w].fiber] = "start"
                 /\ \A name : ~CallsTo(task[w].fiber, call[task[w].fiber], name)
<1>. DEFINE f == task[w].fiber
<1>1. at[w] \in OnFiber BY YieldMoves DEF IInv, TypeInv
<1>2. f \in Fiber /\ state[f] = "RUNNING" BY <1>1, OnFiberFacts
<1>3. CASE at[w] = "yield" BY <1>1, <1>2, <1>3 DEF IInv, FibersInv
<1>4. CASE at[w] = "fiber"
  <2>1. pc[w] = "fiber" BY <1>4, AtPc DEF Yield, IInv, TypeInv
  <2>2. ~(call[f] <= Len(setup.program[f]))
    <3>1. call[f] > Len(setup.program[f]) BY <2>1 DEF Yield
    <3>2. call[f] \in Nat /\ Len(setup.program[f]) \in Nat
      BY <1>2, SetupFacts DEF IInv, TypeInv, FiberType, MainType
    <3>. QED BY <3>1, <3>2
  <2>3. call[f] \notin DOMAIN setup.program[f] BY <1>2, <2>2, SetupFacts DEF IInv, TypeInv, MainType
  <2>4. \A name : ~CallsTo(f, call[f], name) BY <2>3 DEF CallsTo
  <2>5. phase[f] = "start"
    <3>1. phase[f] \notin Waits BY <1>4 DEF IInv, FibersInv
    <3>2. phase[f] # "addEvent" BY <1>2, <2>4 DEF IInv, CallsInv, FiberCalls
    <3>. QED BY <1>2, <3>1, <3>2 DEF IInv, TypeInv, FiberType, Waits
  <2>. QED BY <1>1, <1>2, <1>4, <2>4, <2>5
<1>. QED BY <1>1, <1>2, <1>3, <1>4 DEF OnFiber

LEMMA YieldOver ==
    ASSUME IInv, setup' = setup, NEW w \in Worker, Yield(w), NEW t \in Task \cup Timer, Over(t)
    PROVE  Over(t)'
<1>. DEFINE f == task[w].fiber
<1>1. f \in Fiber /\ (phase[f] = "start" => ~Granted(f)) BY YieldFacts DEF Granted, Waits
<1>2. UNCHANGED <<now, closed, data, call, phase, due>> BY DEF Yield, envVars, ioVars
<1>3. \A g \in Fiber \ {f} : state'[g] = state[g] BY DEF Yield, IInv, TypeInv, FiberType
<1>4. \A g \in Fiber \ {f} : Granted(g) => Granted(g)' BY <1>2, GrantedStays
<1>5. ASSUME t.kind # "fiber", t.fiber = f PROVE Over(t)'
  <2>. HIDE DEF f
  <2>. QED BY <1>1, <1>2, <1>5 DEF Over
<1>. HIDE DEF f
<1>. QED BY <1>2, <1>3, <1>4, <1>5, OtherOver

\* No step lets a timer that has expired count for a call that is not due.
LEMMA StepKeepsOver ==
    ASSUME IInv, PhasesInv, OneReader(setup), Next, NEW t \in Task \cup Timer, Over(t)
    PROVE  Over(t)'
<1>. USE DEF mainVars, schedVars, runVars, idleVars, timerVars, ioVars, fiberVars, envVars
<1>1. setup' = setup BY SetupStays
<1>2. now \in Nat BY DEF IInv, TypeInv, TimerType
<1>3. CASE Tick
  <2>1. now' \in Nat /\ now <= now' BY <1>2, <1>3 DEF Tick
  <2>2. UNCHANGED <<call, phase, due, state, data, closed>> BY <1>3 DEF Tick
  <2>. QED BY <1>1, <2>1, <2>2, QuietOver
<1>4. ASSUME NEW fd \in Fd, Arrive(fd) PROVE Over(t)'
  <2>1. UNCHANGED <<call, phase, due, state, now, closed>> BY <1>4 DEF Arrive
  <2>2. \A d \in Fd : data'[d] = data[d] \/ data'[d] > 0 BY <1>4 DEF Arrive, IInv, TypeInv, SocketType
  <2>. QED BY <1>1, <1>2, <2>1, <2>2, QuietOver
<1>5. CASE MainStep
  <2>1. UNCHANGED <<call, phase, due, state, now, data, closed>>
    BY <1>5 DEF MainStep, Submit, MainTickle, Stop, StopTickle, ResumeRoot, Join
  <2>. QED BY <1>1, <1>2, <2>1, QuietOver
<1>6. ASSUME NEW w \in Worker, FiberStep(w) PROVE Over(t)'
  BY <1>1, <1>6, ResumeOver, SleepOver, ReadNowOver, ReadAgainOver, AddEventOver, CloseOver, YieldOver DEF FiberStep
<1>7. ASSUME NEW w \in Worker, RunStep(w) \/ IdleStep(w) PROVE Over(t)'
  <2>1. UNCHANGED <<call, phase, due, state, now, data, closed>>
    BY <1>7 DEF RunStep, IdleStep, WorkerTickle, Scan, GoIdle, Finish, RunWake, RunTimeout, GetNextTimer, Stopping,
       EpollWait, ReadClock, ListExpiredCb, PushCb, HandleEvent, LeaveIdle
  <2>. QED BY <1>1, <1>2, <2>1, QuietOver
<1>. QED BY <1>3, <1>4, <1>5, <1>6, <1>7 DEF Next, WorkerStep

\* Without a rollover, the timers that listExpiredCb takes are due.
LEMMA ExpiredDue ==
    ASSUME IInv, ClockInv, NEW w \in Worker, at[w] = "expire", NEW t \in Expired(nowMs[w])
    PROVE  t \in timers_ /\ t \in Timer /\ t.next <= now
<1>1. t \in timers_ /\ t \in Timer BY DEF Expired, IInv, TypeInv, TimerType
<1>2. nowMs[w] \in Nat /\ previouseTime_ \in Nat /\ now \in Nat /\ t.next \in Nat
  BY <1>1 DEF IInv, TypeInv, TimerType, Timer
<1>3. previouseTime_ <= nowMs[w] /\ nowMs[w] <= now BY DEF ClockInv
<1>4. ~DetectClockRollover(nowMs[w]) BY <1>2, <1>3 DEF DetectClockRollover
<1>5. t.next <= nowMs[w] BY <1>4 DEF Expired
<1>. QED BY <1>1, <1>2, <1>3, <1>5

LEMMA ExpiredOver ==
    ASSUME IInv, ClockInv, ArmedInv, NEW w \in Worker, at[w] = "expire", NEW t \in Expired(nowMs[w])
    PROVE  Over(t)
<1>1. t \in timers_ /\ t.next <= now BY ExpiredDue
<1>. QED BY <1>1 DEF ArmedInv, ArmedFor, Over

LEMMA FiberTaskOver == ASSUME NEW f PROVE Over(FiberTask(f))
BY DEF Over, FiberTask

LEMMA AppendOver ==
    ASSUME IInv, OverInv, NEW t \in Task, Over(t), tasks_' = Append(tasks_, t)
    PROVE  \A i \in DOMAIN tasks_' : Over(tasks_'[i])
<1>1. \A i \in DOMAIN tasks_' : (i \in DOMAIN tasks_ /\ tasks_'[i] = tasks_[i]) \/ tasks_'[i] = t
  BY TypedTasks
<1>. QED BY <1>1 DEF OverInv

LEMMA TriggerTasksOver ==
    ASSUME IInv, OverInv, NEW w, NEW fd \in Fd, NEW l, Trigger(w, fd, l)
    PROVE  \A i \in DOMAIN tasks_' : Over(tasks_'[i])
<1>1. CASE events[fd] = None BY <1>1 DEF Trigger, OverInv
<1>2. CASE events[fd] # None
  <2>1. events[fd] \in Fiber BY <1>2 DEF IInv, TypeInv, SocketType
  <2>. QED BY <1>2, <2>1, AppendOver, FiberTaskType, FiberTaskOver DEF Trigger, Schedule
<1>. QED BY <1>1, <1>2

LEMMA TasksOver ==
    ASSUME IInv, OverInv, NEW w \in Worker, WorkerStep(w)
    PROVE  \A i \in DOMAIN tasks_' : Over(tasks_'[i])
<1>. USE DEF mainVars, schedVars, runVars, idleVars, timerVars, ioVars, fiberVars
<1>1. CASE Scan(w)
  <2>1. CASE tasks_' = tasks_ BY <2>1 DEF OverInv
  <2>2. CASE tasks_ # <<>> /\ tasks_' = Tail(tasks_)
    <3>1. \A i \in DOMAIN tasks_' : i + 1 \in DOMAIN tasks_ /\ tasks_'[i] = tasks_[i + 1] BY <2>2, TypedTasks
    <3>. QED BY <3>1 DEF OverInv
  <2>. QED BY <1>1, <2>1, <2>2 DEF Scan
<1>2. CASE RunWake(w)
  <2>1. task[w].fiber \in Fiber BY <1>2, RunWakeMoves, TaskOf, TaskFacts DEF IInv, TypeInv, Busy
  <2>. QED BY <1>2, <2>1, AppendOver, FiberTaskType, FiberTaskOver DEF RunWake, Schedule
<1>3. CASE RunTimeout(w)
  <2>1. CASE call[task[w].fiber] = task[w].call /\ ~cnacelled[task[w].fiber]
    BY <1>3, <2>1, TimeoutFacts, TriggerTasksOver DEF RunTimeout
  <2>2. CASE ~(call[task[w].fiber] = task[w].call /\ ~cnacelled[task[w].fiber])
    BY <1>3, <2>2 DEF RunTimeout, OverInv
  <2>. QED BY <2>1, <2>2
<1>4. CASE Close(w)
  <2>1. CallOf(task[w].fiber).fd \in Fd BY <1>4, CallingFacts DEF Close
  <2>. QED BY <1>4, <2>1, TriggerTasksOver DEF Close
<1>5. CASE HandleEvent(w)
  <2>1. PICK fd \in got[w] : Trigger(w, fd, "push") BY <1>5 DEF HandleEvent
  <2>2. fd \in Fd BY DEF IInv, TypeInv, SocketType
  <2>. QED BY <2>1, <2>2, TriggerTasksOver
<1>6. CASE PushCb(w)
  <2>1. PICK t \in cbs[w] : tasks_' = Append(tasks_, [kind |-> t.kind, fiber |-> t.fiber, call |-> t.call])
    BY <1>6 DEF PushCb, Schedule
  <2>2. t \in Timer BY DEF IInv, TypeInv, TimerType
  <2>3. [kind |-> t.kind, fiber |-> t.fiber, call |-> t.call] \in Task BY <2>2 DEF Timer, Task, Timed
  <2>4. Over(t) BY DEF OverInv
  <2>5. Over([kind |-> t.kind, fiber |-> t.fiber, call |-> t.call]) BY <2>4 DEF Over
  <2>. QED BY <2>1, <2>3, <2>5, AppendOver
<1>7. CASE ~(Scan(w) \/ RunWake(w) \/ RunTimeout(w) \/ Close(w) \/ HandleEvent(w) \/ PushCb(w))
  <2>1. UNCHANGED tasks_
    BY <1>7 DEF WorkerStep, RunStep, FiberStep, IdleStep, WorkerTickle, GoIdle, Finish, Resume, Sleep, ReadNow,
       ReadAgain, AddEvent, Yield, GetNextTimer, Stopping, EpollWait, ReadClock, ListExpiredCb, LeaveIdle
  <2>. QED BY <2>1 DEF OverInv
<1>. QED BY <1>1, <1>2, <1>3, <1>4, <1>5, <1>6, <1>7

LEMMA CbsOver ==
    ASSUME IInv, ClockInv, ArmedInv, OverInv, NEW w \in Worker, WorkerStep(w), NEW v \in Worker, NEW t \in cbs'[v]
    PROVE  Over(t)
<1>. USE DEF mainVars, schedVars, runVars, idleVars, timerVars, ioVars, fiberVars
<1>1. CASE ListExpiredCb(w)
  <2>1. at[w] = "expire" BY <1>1, ListExpiredCbMoves DEF IInv, TypeInv
  <2>2. cbs'[v] = IF v = w THEN Expired(nowMs[w]) ELSE cbs[v] BY <1>1, ListExpiredCbTimers
  <2>3. CASE v = w BY <2>1, <2>2, <2>3, ExpiredOver
  <2>4. CASE v # w BY <2>2, <2>4 DEF OverInv
  <2>. QED BY <2>3, <2>4
<1>2. CASE PushCb(w)
  <2>1. PICK u \in cbs[w] : cbs' = [cbs EXCEPT ![w] = @ \ {u}] BY <1>2 DEF PushCb
  <2>2. cbs'[v] \subseteq cbs[v] BY <2>1 DEF IInv, TypeInv, TimerType
  <2>. QED BY <2>2 DEF OverInv
<1>3. CASE ~ListExpiredCb(w) /\ ~PushCb(w)
  <2>1. UNCHANGED cbs
    BY <1>3 DEF WorkerStep, RunStep, FiberStep, IdleStep, WorkerTickle, Scan, GoIdle, Finish, RunWake, RunTimeout,
       Resume, Sleep, ReadNow, ReadAgain, AddEvent, Close, Yield, GetNextTimer, Stopping, EpollWait, ReadClock,
       HandleEvent, LeaveIdle
  <2>. QED BY <2>1 DEF OverInv
<1>. QED BY <1>1, <1>2, <1>3

\* A task about to run was so before the step, or is the first of the queue.
LEMMA HeldOver ==
    ASSUME IInv, OverInv, NEW w \in Worker, WorkerStep(w), NEW v \in Worker, at'[v] = "run"
    PROVE  Over(task'[v])
<1>. USE AtType DEF mainVars, schedVars, runVars, idleVars, timerVars, ioVars, fiberVars, IInv, TypeInv
<1>1. CASE v # w
  <2>1. task'[v] = task[v]
    BY <1>1 DEF WorkerStep, RunStep, FiberStep, IdleStep, WorkerTickle, Scan, GoIdle, Finish, RunWake, RunTimeout,
       Resume, Sleep, ReadNow, ReadAgain, AddEvent, Close, Yield, GetNextTimer, Stopping, EpollWait, ReadClock,
       ListExpiredCb, PushCb, HandleEvent, LeaveIdle, TaskType
  <2>2. at'[v] = at[v] BY <1>1, OthersStay
  <2>. QED BY <2>1, <2>2 DEF OverInv
<1>2. CASE v = w
  <2>1. CASE Scan(w)
    <3>1. CASE task' = task
      <4>1. at'[w] = "empty" \/ at'[w] = "scan" BY <2>1, <3>1, ScanMovesOrNot
      <4>. QED BY <1>2, <4>1
    <3>2. CASE tasks_ # <<>> /\ task' = [task EXCEPT ![w] = Head(tasks_)]
      <4>1. Head(tasks_) = tasks_[1] /\ 1 \in DOMAIN tasks_ BY <3>2, TypedTasks
      <4>2. task'[v] = tasks_[1] BY <1>2, <3>2, <4>1 DEF TaskType
      <4>. QED BY <4>1, <4>2 DEF OverInv
    <3>. QED BY <2>1, <3>1, <3>2 DEF Scan
  <2>2. CASE WorkerTickle(w)
    <3>1. at[v] = "run" BY <1>2, <2>2, WorkerTickleMoves
    <3>2. task' = task BY <2>2 DEF WorkerTickle
    <3>. QED BY <3>1, <3>2 DEF OverInv
  <2>3. CASE ~Scan(w) /\ ~WorkerTickle(w)
    <3>1. at'[w] # "run"
      <4>1. CASE RunStep(w)
        BY <2>3, <4>1, GoIdleMoves, FinishMoves, RunWakeMoves, RunTimeoutMoves DEF RunStep
      <4>2. CASE FiberStep(w)
        BY <4>2, ResumeMoves, SleepMoves, ReadNowMoves, ReadAgainMoves, AddEventMoves, CloseMoves, YieldMoves
           DEF FiberStep
      <4>3. CASE IdleStep(w)
        BY <4>3, GetNextTimerMoves, StoppingMoves, EpollWaitMoves, ReadClockMoves, ListExpiredCbMoves, PushCbMoves,
           HandleEventMoves, LeaveIdleMoves DEF IdleStep
      <4>. QED BY <4>1, <4>2, <4>3 DEF WorkerStep
    <3>. QED BY <1>2, <3>1
  <2>. QED BY <2>1, <2>2, <2>3
<1>. QED BY <1>1, <1>2

\* What was over before the step is so after it.
LEMMA OverNext ==
    ASSUME IInv, PhasesInv, OneReader(setup), Next, TypeInv',
           \A v \in Worker : \A t \in cbs'[v] : Over(t),
           \A v \in Worker : at'[v] = "run" => task'[v] \in Task /\ Over(task'[v]),
           \A i \in DOMAIN tasks_' : Over(tasks_'[i])
    PROVE  OverInv'
<1>1. ASSUME NEW v \in Worker, NEW t \in cbs'[v] PROVE Over(t)'
  <2>1. t \in Timer BY DEF TypeInv, TimerType
  <2>. QED BY <2>1, StepKeepsOver
<1>2. ASSUME NEW v \in Worker, at'[v] = "run" PROVE Over(task[v])'
  <2>1. PICK t \in Task : t = task'[v] /\ Over(t) BY <1>2
  <2>2. Over(t)' BY <2>1, StepKeepsOver
  <2>. QED BY <2>1, <2>2 DEF Over
<1>3. ASSUME NEW i \in DOMAIN tasks_' PROVE Over(tasks_[i])'
  <2>1. tasks_'[i] \in Task BY DEF TypeInv, TaskType
  <2>2. PICK t \in Task : t = tasks_'[i] /\ Over(t) BY <2>1
  <2>3. Over(t)' BY <2>2, StepKeepsOver
  <2>. QED BY <2>2, <2>3 DEF Over
<1>. QED BY <1>1, <1>2, <1>3 DEF OverInv

LEMMA StepOverInv ==
    ASSUME IInv, TimesInv, OneReader(setup), Next
    PROVE  OverInv'
<1>1. IInv' BY StepIInv
<1>2. \A v \in Worker : at'[v] = "run" => task'[v] \in Task
  BY <1>1, TaskOf DEF IInv, TypeInv, WorkersInv, TaskType, Busy
<1>3. CASE MainStep \/ Tick \/ \E fd \in Fd : Arrive(fd)
  <2>1. UNCHANGED <<cbs, task>>
    BY <1>3 DEF MainStep, Submit, MainTickle, Stop, StopTickle, ResumeRoot, Join, Tick, Arrive, idleVars, runVars
  <2>2. \A v \in Worker : at'[v] = "run" => at[v] = "run"
    <3>1. CASE ResumeRoot BY <3>1, ResumeRootMoves DEF IInv, TypeInv
    <3>2. CASE ~ResumeRoot
      BY <1>3, <3>2, StayMoves DEF MainStep, Submit, MainTickle, Stop, StopTickle, Join, Tick, Arrive, IInv, TypeInv
    <3>. QED BY <3>1, <3>2
  <2>3. \A i \in DOMAIN tasks_' : Over(tasks_'[i])
    <3>1. ASSUME NEW f \in Fiber, Submit(f) PROVE \A i \in DOMAIN tasks_' : Over(tasks_'[i])
      BY <3>1, AppendOver, FiberTaskType, FiberTaskOver DEF Submit, TimesInv
    <3>2. CASE tasks_' = tasks_ BY <3>2 DEF TimesInv, OverInv
    <3>. QED BY <1>3, <3>1, <3>2
         DEF MainStep, MainTickle, Stop, StopTickle, ResumeRoot, Join, Tick, Arrive, schedVars
  <2>4. /\ \A v \in Worker : \A t \in cbs'[v] : Over(t)
        /\ \A v \in Worker : at'[v] = "run" => Over(task'[v])
    BY <2>1, <2>2 DEF TimesInv, OverInv
  <2>. QED BY <1>1, <1>2, <2>3, <2>4, OverNext DEF TimesInv, IInv
<1>4. ASSUME NEW w \in Worker, WorkerStep(w) PROVE OverInv'
  <2>1. \A v \in Worker : \A t \in cbs'[v] : Over(t) BY <1>4, CbsOver DEF TimesInv
  <2>2. \A v \in Worker : at'[v] = "run" => Over(task'[v]) BY <1>4, HeldOver DEF TimesInv
  <2>3. \A i \in DOMAIN tasks_' : Over(tasks_'[i]) BY <1>4, TasksOver DEF TimesInv
  <2>. QED BY <1>1, <1>2, <2>1, <2>2, <2>3, OverNext DEF TimesInv, IInv
<1>. QED BY <1>3, <1>4 DEF Next

LEMMA StepClockInv ==
    ASSUME IInv, ClockInv, OneWorker, Next
    PROVE  ClockInv'
<1>. USE AtType DEF mainVars, schedVars, runVars, idleVars, timerVars, ioVars, fiberVars, envVars, IInv, TypeInv
<1>1. CASE MainStep \/ Tick \/ \E fd \in Fd : Arrive(fd)
  <2>1. UNCHANGED <<previouseTime_, nowMs>>
    BY <1>1 DEF MainStep, Submit, MainTickle, Stop, StopTickle, ResumeRoot, Join, Tick, Arrive
  <2>2. now' \in Nat /\ now <= now'
    BY <1>1 DEF MainStep, Submit, MainTickle, Stop, StopTickle, ResumeRoot, Join, Tick, Arrive, TimerType
  <2>3. \A w \in Worker : at'[w] = "expire" => at[w] = "expire"
    <3>1. CASE ResumeRoot BY <3>1, ResumeRootMoves
    <3>2. CASE ~ResumeRoot
      BY <1>1, <3>2, StayMoves DEF MainStep, Submit, MainTickle, Stop, StopTickle, Join, Tick, Arrive
    <3>. QED BY <3>1, <3>2
  <2>4. \A w \in Worker : nowMs[w] \in Nat BY DEF TimerType
  <2>5. previouseTime_ \in Nat /\ now \in Nat BY DEF TimerType
  <2>. QED BY <2>1, <2>2, <2>3, <2>4, <2>5 DEF ClockInv
<1>2. ASSUME NEW w \in Worker, WorkerStep(w) PROVE ClockInv'
  <2>1. now' = now BY <1>2 DEF WorkerStep, RunStep, FiberStep, IdleStep, WorkerTickle, Scan, GoIdle, Finish,
       RunWake, RunTimeout, Resume, Sleep, ReadNow, ReadAgain, AddEvent, Close, Yield, GetNextTimer, Stopping,
       EpollWait, ReadClock, ListExpiredCb, PushCb, HandleEvent, LeaveIdle
  <2>2. CASE ReadClock(w)
    <3>1. previouseTime_' = previouseTime_ /\ \A v \in Worker : nowMs'[v] = IF v = w THEN now ELSE nowMs[v]
      BY <2>2 DEF ReadClock, TimerType
    <3>2. \A v \in Worker \ {w} : at'[v] = at[v] BY <1>2, OthersStay
    <3>3. now \in Nat BY DEF TimerType
    <3>. QED BY <2>1, <3>1, <3>2, <3>3 DEF ClockInv
  <2>3. CASE ListExpiredCb(w)
    <3>1. at[w] = "expire" /\ at' = [at EXCEPT ![w] = "push"] BY <2>3, ListExpiredCbMoves
    <3>2. \A v \in Worker \ {w} : at'[v] = "off" BY <3>1, OthersOff
    <3>3. \A v \in Worker : at'[v] # "expire" BY <3>1, <3>2
    <3>4. previouseTime_' \in {previouseTime_, nowMs[w]} BY <2>3 DEF ListExpiredCb
    <3>. QED BY <2>1, <3>1, <3>3, <3>4 DEF ClockInv
  <2>4. CASE ~ReadClock(w) /\ ~ListExpiredCb(w)
    <3>1. UNCHANGED <<previouseTime_, nowMs>>
      <4>1. CASE RunStep(w) BY <4>1 DEF RunStep, WorkerTickle, Scan, GoIdle, Finish, RunWake, RunTimeout
      <4>2. CASE FiberStep(w) BY <4>2 DEF FiberStep, Resume, Sleep, ReadNow, ReadAgain, AddEvent, Close, Yield,
           AddTimer
      <4>3. CASE IdleStep(w)
        BY <2>4, <4>3 DEF IdleStep, GetNextTimer, Stopping, EpollWait, PushCb, HandleEvent, LeaveIdle
      <4>. QED BY <1>2, <4>1, <4>2, <4>3 DEF WorkerStep
    <3>2. at'[w] = "expire" => at[w] = "expire"
      <4>1. CASE RunStep(w)
        BY <4>1, WorkerTickleMoves, ScanMoves, GoIdleMoves, FinishMoves, RunWakeMoves, RunTimeoutMoves DEF RunStep
      <4>2. CASE FiberStep(w)
        BY <4>2, ResumeMoves, SleepMoves, ReadNowMoves, ReadAgainMoves, AddEventMoves, CloseMoves, YieldMoves
           DEF FiberStep
      <4>3. CASE IdleStep(w)
        BY <2>4, <4>3, GetNextTimerMoves, StoppingMoves, EpollWaitMoves, PushCbMoves, HandleEventMoves, LeaveIdleMoves
           DEF IdleStep
      <4>. QED BY <1>2, <4>1, <4>2, <4>3 DEF WorkerStep
    <3>3. \A v \in Worker : at'[v] = "expire" => at[v] = "expire" BY <1>2, <3>2, OthersStay
    <3>. QED BY <2>1, <3>1, <3>3 DEF ClockInv
  <2>. QED BY <2>2, <2>3, <2>4
<1>. QED BY <1>1, <1>2 DEF Next

LEMMA StepGotInv ==
    ASSUME IInv, GotInv, OneWorker, Next
    PROVE  GotInv'
<1>. USE AtType DEF mainVars, schedVars, runVars, idleVars, timerVars, ioVars, fiberVars, envVars, IInv, TypeInv
<1>1. ASSUME NEW fd \in Fd, Arrive(fd) PROVE GotInv'
  <2>1. got' = got /\ \A d \in Fd : data[d] > 0 => data'[d] > 0 BY <1>1 DEF Arrive, SocketType
  <2>2. \A w \in Worker : got[w] \subseteq Fd BY DEF SocketType
  <2>. QED BY <2>1, <2>2 DEF GotInv
<1>2. CASE MainStep \/ Tick
  <2>1. UNCHANGED <<got, data>>
    BY <1>2 DEF MainStep, Submit, MainTickle, Stop, StopTickle, ResumeRoot, Join, Tick
  <2>. QED BY <2>1 DEF GotInv
<1>3. ASSUME NEW w \in Worker, WorkerStep(w) PROVE GotInv'
  <2>1. CASE ReadNow(w)
    <3>1. at[w] = "fiber" /\ got' = got BY <2>1, ReadNowMoves DEF ReadNow
    <3>2. \A v \in Worker : at[v] \in {"fiber", "off"} BY <3>1, OthersOff
    <3>3. \A v \in Worker : got[v] = {} BY <3>2 DEF WorkersInv
    <3>. QED BY <3>1, <3>3 DEF GotInv
  <2>2. CASE EpollWait(w)
    <3>1. data' = data /\ \A v \in Worker : got'[v] = IF v = w THEN Ready ELSE got[v]
      BY <2>2 DEF EpollWait, SocketType
    <3>. QED BY <3>1 DEF GotInv, Ready
  <2>3. CASE HandleEvent(w)
    <3>1. PICK fd \in got[w] : got' = [got EXCEPT ![w] = @ \ {fd}] BY <2>3 DEF HandleEvent
    <3>2. data' = data BY <2>3 DEF HandleEvent
    <3>3. \A v \in Worker : got'[v] \subseteq got[v] BY <3>1 DEF SocketType
    <3>. QED BY <3>2, <3>3 DEF GotInv
  <2>4. CASE ~ReadNow(w) /\ ~EpollWait(w) /\ ~HandleEvent(w)
    <3>1. UNCHANGED <<got, data>> BY <1>3, <2>4 DEF WorkerStep, RunStep, FiberStep, IdleStep, WorkerTickle, Scan,
         GoIdle, Finish, RunWake, RunTimeout, Resume, Sleep, ReadAgain, AddEvent, Close, Yield, GetNextTimer,
         Stopping, ReadClock, ListExpiredCb, PushCb, LeaveIdle
    <3>. QED BY <3>1 DEF GotInv
  <2>. QED BY <2>1, <2>2, <2>3, <2>4
<1>. QED BY <1>1, <1>2, <1>3 DEF Next

LEMMA OtherArmed ==
    ASSUME NEW t, ArmedFor(t), call'[t.fiber] = call[t.fiber], phase'[t.fiber] = phase[t.fiber],
           due'[t.fiber] = due[t.fiber]
    PROVE  ArmedFor(t)'
BY DEF ArmedFor

LEMMA NextCallArmed ==
    ASSUME IInv, NEW t \in Timer, ArmedFor(t), call' = [call EXCEPT ![t.fiber] = @ + 1]
    PROVE  ArmedFor(t)'
<1>1. t.call \in Nat /\ call[t.fiber] \in Nat /\ call'[t.fiber] = call[t.fiber] + 1
  BY DEF Timer, IInv, TypeInv, FiberType
<1>2. t.call <= call[t.fiber] BY DEF ArmedFor
<1>3. t.call <= call'[t.fiber] /\ t.call # call'[t.fiber] BY <1>1, <1>2
<1>. QED BY <1>3 DEF ArmedFor

\* A timer of an earlier call stays one as long as its fiber's call goes on.
LEMMA StaleArmed ==
    ASSUME NEW t, ArmedFor(t), phase[t.fiber] = "start", call'[t.fiber] = call[t.fiber]
    PROVE  ArmedFor(t)'
BY DEF ArmedFor

LEMMA FiberStepArmed ==
    ASSUME IInv, PhasesInv, NEW w \in Worker, FiberStep(w), NEW t \in timers_, t \in timers_', ArmedFor(t)
    PROVE  ArmedFor(t)'
<1>. USE DEF IInv, TypeInv, FiberType
<1>0. t \in Timer /\ t.fiber \in Fiber BY DEF TimerType, Timer
<1>1. CASE Resume(w)
  <2>1. PICK f \in Fiber : f = task[w].fiber BY <1>1, ResumedFacts
  <2>2. CASE t.fiber # f
    <3>1. call'[t.fiber] = call[t.fiber] /\ phase'[t.fiber] = phase[t.fiber] /\ due'[t.fiber] = due[t.fiber]
      BY <1>0, <1>1, <2>1, <2>2 DEF Resume, NextCall
    <3>. QED BY <3>1, OtherArmed
  <2>3. CASE t.fiber = f
    <3>1. state[f] = "READY" /\ phase[f] # "waiting"
      <4>1. timers_' = {u \in timers_ : phase[f] = "waiting" => u.fiber # f} BY <1>1, <2>1 DEF Resume
      <4>2. state[f] = "READY" BY <1>1, <2>1, ResumedFacts
      <4>. QED BY <2>3, <4>1, <4>2
    <3>2. CASE phase[f] = "asleep"
      <4>1. call' = [call EXCEPT ![f] = @ + 1] BY <1>1, <2>1, <3>2 DEF Resume, NextCall
      <4>. QED BY <1>0, <2>3, <4>1, NextCallArmed
    <3>3. CASE phase[f] = "start"
      <4>1. call' = call BY <1>1, <2>1, <3>3 DEF Resume
      <4>. QED BY <2>3, <3>3, <4>1, StaleArmed
    <3>4. phase[f] \in {"asleep", "start"} BY <3>1 DEF PhasesInv, PhaseInv
    <3>. QED BY <3>2, <3>3, <3>4
  <2>. QED BY <2>2, <2>3
<1>2. CASE Sleep(w) \/ ReadAgain(w)
  <2>1. PICK f \in Fiber : f = task[w].fiber /\ phase[f] = "start" BY <1>2, CallingFacts DEF Sleep, ReadAgain
  <2>2. call' = call BY <1>2 DEF Sleep, ReadAgain
  <2>3. CASE t.fiber = f BY <2>1, <2>2, <2>3, StaleArmed
  <2>4. CASE t.fiber # f
    <3>1. phase'[t.fiber] = phase[t.fiber]
      <4>1. \E p : phase' = [phase EXCEPT ![f] = p] BY <1>2, <2>1 DEF Sleep, ReadAgain
      <4>. QED BY <1>0, <2>4, <4>1
    <3>2. due'[t.fiber] = due[t.fiber]
      <4>1. CASE due' = due BY <4>1
      <4>2. CASE due' # due
        <5>1. \E n : due' = [due EXCEPT ![f] = n] BY <1>2, <2>1, <4>2 DEF Sleep, ReadAgain, AddTimer
        <5>. QED BY <2>4, <5>1
      <4>. QED BY <4>1, <4>2
    <3>. QED BY <2>2, <3>1, <3>2, OtherArmed
  <2>. QED BY <2>3, <2>4
<1>3. CASE ReadNow(w) \/ Close(w)
  <2>1. PICK f \in Fiber : f = task[w].fiber BY <1>3, CallingFacts DEF ReadNow, Close
  <2>2. call' = [call EXCEPT ![f] = @ + 1] /\ phase' = [phase EXCEPT ![f] = "start"] /\ due' = due
    BY <1>3, <2>1 DEF ReadNow, Close, NextCall
  <2>3. CASE t.fiber = f BY <1>0, <2>2, <2>3, NextCallArmed
  <2>4. CASE t.fiber # f BY <2>2, <2>4, OtherArmed
  <2>. QED BY <2>3, <2>4
<1>4. CASE AddEvent(w)
  <2>1. PICK f \in Fiber : f = task[w].fiber /\ phase[f] = "addEvent" BY <1>4, AddEventFacts DEF AddEvent
  <2>2. call' = call /\ due' = due /\ (phase' = phase \/ phase' = [phase EXCEPT ![f] = "waiting"])
    BY <1>4, <2>1 DEF AddEvent
  <2>3. (phase[t.fiber] # "start" => phase'[t.fiber] # "start") BY <1>0, <2>1, <2>2
  <2>. QED BY <2>2, <2>3 DEF ArmedFor
<1>5. CASE Yield(w)
  <2>1. UNCHANGED <<call, phase, due>> BY <1>5 DEF Yield
  <2>. QED BY <2>1, OtherArmed
<1>. QED BY <1>1, <1>2, <1>3, <1>4, <1>5 DEF FiberStep

LEMMA NewTimerArmed ==
    ASSUME IInv, NEW w \in Worker, Sleep(w) \/ ReadAgain(w), NEW t \in timers_' \ timers_
    PROVE  ArmedFor(t)'
<1>1. PICK f \in Fiber : f = task[w].fiber BY CallingFacts DEF Sleep, ReadAgain
<1>2. call' = call /\ phase'[f] # "start"
  BY <1>1 DEF Sleep, ReadAgain, IInv, TypeInv, FiberType
<1>3. t.fiber = f /\ t.call = call[f] /\ due' = [due EXCEPT ![f] = t.next]
  <2>1. CASE Sleep(w)
    <3>1. PICK u : u = [kind |-> "wake", fiber |-> f, call |-> call[f], next |-> now + TimerMs(CallOf(f))] OBVIOUS
    <3>2. AddTimer(w, u, "yield") BY <1>1, <2>1, <3>1 DEF Sleep
    <3>3. timers_' = timers_ \cup {u} /\ due' = [due EXCEPT ![u.fiber] = u.next] BY <3>2 DEF AddTimer
    <3>4. t = u BY <3>3
    <3>5. u.fiber = f /\ u.call = call[f] BY <3>1
    <3>. QED BY <3>3, <3>4, <3>5
  <2>2. CASE ReadAgain(w)
    <3>1. TimerMs(CallOf(f)) > 0 BY <1>1, <2>2 DEF ReadAgain, timerVars
    <3>2. PICK u : u = [kind |-> "timeout", fiber |-> f, call |-> call[f], next |-> now + TimerMs(CallOf(f))] OBVIOUS
    <3>3. AddTimer(w, u, "fiber") BY <1>1, <2>2, <3>1, <3>2 DEF ReadAgain
    <3>4. timers_' = timers_ \cup {u} /\ due' = [due EXCEPT ![u.fiber] = u.next] BY <3>3 DEF AddTimer
    <3>5. t = u BY <3>4
    <3>6. u.fiber = f /\ u.call = call[f] BY <3>2
    <3>. QED BY <3>4, <3>5, <3>6
  <2>. QED BY <2>1, <2>2
<1>4. call[f] \in Nat /\ due'[f] = t.next BY <1>3 DEF IInv, TypeInv, FiberType
<1>. QED BY <1>2, <1>3, <1>4 DEF ArmedFor

LEMMA StepArmedInv ==
    ASSUME IInv, ArmedInv, PhasesInv, Next
    PROVE  ArmedInv'
<1>. USE DEF mainVars, schedVars, runVars, idleVars, timerVars, ioVars, fiberVars, envVars
<1>. SUFFICES ASSUME NEW t \in timers_' PROVE ArmedFor(t)' BY DEF ArmedInv, ArmedFor
<1>1. t \in timers_ => ArmedFor(t) BY DEF ArmedInv, ArmedFor
<1>2. ASSUME NEW w \in Worker, FiberStep(w) PROVE ArmedFor(t)'
  <2>1. CASE t \in timers_ BY <1>1, <1>2, <2>1, FiberStepArmed
  <2>2. CASE t \notin timers_
    <3>1. Sleep(w) \/ ReadAgain(w) BY <1>2, <2>2 DEF FiberStep, Resume, ReadNow, AddEvent, Close, Yield
    <3>. QED BY <2>2, <3>1, NewTimerArmed
  <2>. QED BY <2>1, <2>2
<1>3. ASSUME NEW w \in Worker, RunStep(w) \/ IdleStep(w) PROVE ArmedFor(t)'
  <2>1. timers_' \subseteq timers_ /\ UNCHANGED <<call, phase, due>>
    BY <1>3 DEF RunStep, IdleStep, WorkerTickle, Scan, GoIdle, Finish, RunWake, RunTimeout, GetNextTimer, Stopping,
       EpollWait, ReadClock, ListExpiredCb, PushCb, HandleEvent, LeaveIdle
  <2>. QED BY <1>1, <2>1, OtherArmed
<1>4. CASE MainStep \/ Tick \/ \E fd \in Fd : Arrive(fd)
  <2>1. UNCHANGED <<timers_, call, phase, due>>
    BY <1>4 DEF MainStep, Submit, MainTickle, Stop, StopTickle, ResumeRoot, Join, Tick, Arrive
  <2>. QED BY <1>1, <2>1, OtherArmed
<1>. QED BY <1>2, <1>3, <1>4 DEF Next, WorkerStep

\* A fiber that does not take part in the step: its timer goes only when it is due, its
\* event only when there is something to read.
LEMMA OtherPhase ==
    ASSUME IInv, NEW h \in Fiber, PhaseInv(h), now' \in Nat, now <= now',
           state'[h] = state[h], phase'[h] = phase[h], call'[h] = call[h], due'[h] = due[h], cnacelled'[h] = cnacelled[h],
           \A t \in timers_ : t.kind = "wake" /\ t.fiber = h /\ t.call = call[h] /\ due[h] > now' => t \in timers_',
           Granted(h) => Granted(h)',
           \A fd \in Fd : events[fd] = h => events'[fd] = h \/ Granted(h)'
    PROVE  PhaseInv(h)'
<1>1. now \in Nat /\ due[h] \in Nat BY DEF IInv, TypeInv, TimerType, FiberType
<1>2. phase'[h] = "asleep" /\ due'[h] > now' =>
        \E t \in timers_' : t.kind = "wake" /\ t.fiber = h /\ t.call = call'[h]
  <2>1. due[h] > now' => due[h] > now BY <1>1
  <2>. QED BY <2>1 DEF PhaseInv
<1>3. cnacelled'[h] => phase'[h] = "waiting" /\ due'[h] <= now' BY <1>1 DEF PhaseInv
<1>4. phase'[h] = "waiting" => cnacelled'[h] \/ Granted(h)' \/ \E fd \in Fd : events'[fd] = h BY DEF PhaseInv
<1>5. phase'[h] = "addEvent" => state'[h] = "RUNNING" BY DEF PhaseInv
<1>. QED BY <1>2, <1>3, <1>4, <1>5 DEF PhaseInv

\* The fiber that is registered for a socket reads from it.
LEMMA RegisteredReads ==
    ASSUME IInv, NEW h \in Fiber, NEW fd \in Fd, events[fd] = h
    PROVE  phase[h] = "waiting" /\ CallOf(h).fd = fd /\ CallsTo(h, call[h], "read")
<1>1. events[fd] # None BY ThreadsAssumption
<1>2. phase[h] = "waiting" /\ CallOf(h).fd = fd BY <1>1 DEF IInv, CallsInv, FiberCalls
<1>. QED BY <1>2 DEF IInv, CallsInv, FiberCalls

LEMMA TriggerKeeps ==
    ASSUME IInv, NEW w, NEW fd \in Fd, NEW l, Trigger(w, fd, l)
    PROVE  \A d \in Fd \ {fd} : events'[d] = events[d]
BY DEF Trigger, IInv, TypeInv, SocketType

\* A step in which no fiber goes on.
LEMMA QuietPhase ==
    ASSUME IInv, setup' = setup, NEW h \in Fiber, PhaseInv(h), now' \in Nat, now <= now',
           UNCHANGED <<state, phase, call, due, cnacelled, closed>>,
           \A t \in timers_ : t.kind = "wake" /\ t.fiber = h /\ t.call = call[h] /\ due[h] > now' => t \in timers_',
           \A fd \in Fd : data'[fd] = data[fd] \/ data'[fd] > 0,
           \A fd \in Fd : events[fd] = h => events'[fd] = h \/ Granted(h)
    PROVE  PhaseInv(h)'
<1>1. Granted(h) => CallOf(h).fd \in Fd BY ReadFd DEF Granted
<1>2. Granted(h) => Granted(h)' BY <1>1, GrantedStays
<1>. QED BY <1>2, OtherPhase

LEMMA IdlePhase ==
    ASSUME IInv, TimesInv, setup' = setup, NEW w \in Worker, IdleStep(w), NEW h \in Fiber
    PROVE  PhaseInv(h)'
<1>. USE DEF mainVars, schedVars, runVars, idleVars, timerVars, ioVars, fiberVars, envVars
<1>1. UNCHANGED <<state, phase, call, due, cnacelled, closed, data, now>>
  BY DEF IdleStep, GetNextTimer, Stopping, EpollWait, ReadClock, ListExpiredCb, PushCb, HandleEvent, LeaveIdle
<1>2. now \in Nat /\ PhaseInv(h) BY DEF PhasesInv, TimesInv, IInv, TypeInv, TimerType
<1>3. CASE ListExpiredCb(w)
  <2>1. at[w] = "expire" BY <1>3, ListExpiredCbMoves DEF IInv, TypeInv
  <2>2. events' = events /\ timers_' = timers_ \ Expired(nowMs[w]) BY <1>3 DEF ListExpiredCb
  <2>3. ASSUME NEW t \in timers_, t.fiber = h, t.call = call[h], due[h] > now PROVE t \in timers_'
    <3>1. t.next = due[h] BY <2>3 DEF TimesInv, ArmedInv, ArmedFor
    <3>2. ~(t.next <= now) BY <1>2, <2>3, <3>1 DEF IInv, TypeInv, FiberType
    <3>. QED BY <2>1, <2>2, <3>2, ExpiredDue DEF TimesInv
  <2>. QED BY <1>1, <1>2, <2>2, <2>3, QuietPhase
<1>4. CASE HandleEvent(w)
  <2>1. PICK fd \in got[w] : Trigger(w, fd, "push") BY <1>4 DEF HandleEvent
  <2>2. fd \in Fd /\ data[fd] > 0 BY DEF TimesInv, GotInv, IInv, TypeInv, SocketType
  <2>3. timers_' = timers_ BY <1>4 DEF HandleEvent
  <2>4. ASSUME NEW d \in Fd, events[d] = h PROVE events'[d] = h \/ Granted(h)
    <3>1. CASE d = fd BY <2>2, <2>4, <3>1, RegisteredReads DEF Granted
    <3>2. CASE d # fd BY <2>1, <2>2, <2>4, <3>2, TriggerKeeps
    <3>. QED BY <3>1, <3>2
  <2>. QED BY <1>1, <1>2, <2>3, <2>4, QuietPhase
<1>5. CASE ~ListExpiredCb(w) /\ ~HandleEvent(w)
  <2>1. UNCHANGED <<timers_, events>>
    BY <1>5 DEF IdleStep, GetNextTimer, Stopping, EpollWait, ReadClock, PushCb, LeaveIdle
  <2>. QED BY <1>1, <1>2, <2>1, QuietPhase
<1>. QED BY <1>3, <1>4, <1>5

\* With one worker no fiber is RUNNING while it runs a callback.
LEMMA NoneRuns ==
    ASSUME IInv, OneWorker, NEW w \in Worker, at[w] = "run", NEW f \in Fiber
    PROVE  state[f] # "RUNNING"
<1>1. \A v \in Worker : at[v] \in {"run", "off"} BY OthersOff
<1>. QED BY <1>1 DEF IInv, FibersInv, OnFiber

LEMMA TimeoutPhase ==
    ASSUME IInv, TimesInv, OneWorker, OneReader(setup), setup' = setup, NEW w \in Worker, RunTimeout(w), NEW h \in Fiber
    PROVE  PhaseInv(h)'
<1>. USE DEF mainVars, schedVars, runVars, idleVars, timerVars, ioVars, fiberVars, envVars
<1>1. UNCHANGED <<state, phase, call, due, closed, data, now, timers_>> BY DEF RunTimeout
<1>2. now \in Nat /\ PhaseInv(h) BY DEF PhasesInv, TimesInv, IInv, TypeInv, TimerType
<1>3. PICK f \in Fiber : f = task[w].fiber BY TimeoutFacts
<1>4. at[w] = "run" /\ task[w].kind = "timeout" BY RunTimeoutMoves DEF RunTimeout, IInv, TypeInv
<1>5. CASE ~(call[f] = task[w].call /\ ~cnacelled[f])
  <2>1. UNCHANGED <<events, cnacelled>> BY <1>3, <1>5 DEF RunTimeout
  <2>. QED BY <1>1, <1>2, <2>1, QuietPhase
<1>6. CASE call[f] = task[w].call /\ ~cnacelled[f]
  <2>1. CallsTo(f, call[f], "read") /\ CallOf(f).fd \in Fd BY <1>3, <1>6, TimeoutFacts
  <2>2. Trigger(w, CallOf(f).fd, "finish") /\ cnacelled' = [cnacelled EXCEPT ![f] = TRUE]
    BY <1>3, <1>6 DEF RunTimeout
  <2>3. CASE h # f
    <3>1. cnacelled'[h] = cnacelled[h] BY <2>2, <2>3
    <3>2. ASSUME NEW d \in Fd, events[d] = h PROVE events'[d] = h
      <4>1. d # CallOf(f).fd BY <2>1, <2>3, <3>2, RegisteredReads, SameReader
      <4>. QED BY <2>1, <2>2, <3>2, <4>1, TriggerKeeps
    <3>3. Granted(h) => Granted(h)' BY <1>1, GrantedStays
    <3>. QED BY <1>1, <1>2, <3>1, <3>2, <3>3, OtherPhase
  <2>4. CASE h = f
    <3>1. Over(task[w]) BY <1>4 DEF TimesInv, OverInv
    <3>2. state[f] # "RUNNING" BY <1>4, NoneRuns
    <3>3. phase[f] # "start" /\ due[f] <= now BY <1>3, <1>4, <1>6, <3>1, <3>2 DEF Over
    <3>4. phase[f] # "asleep" BY <2>1 DEF IInv, CallsInv, FiberCalls, CallsTo
    <3>5. phase[f] = "waiting" BY <1>2, <2>4, <3>2, <3>3, <3>4 DEF PhaseInv, IInv, TypeInv, FiberType
    <3>6. cnacelled'[f] BY <2>2 DEF IInv, TypeInv, FiberType
    <3>. QED BY <1>1, <2>4, <3>3, <3>5, <3>6 DEF PhaseInv
  <2>. QED BY <2>3, <2>4
<1>. QED BY <1>5, <1>6

LEMMA RunPhase ==
    ASSUME IInv, TimesInv, OneWorker, OneReader(setup), setup' = setup, NEW w \in Worker, RunStep(w), NEW h \in Fiber
    PROVE  PhaseInv(h)'
<1>. USE DEF mainVars, schedVars, runVars, idleVars, timerVars, ioVars, fiberVars, envVars
<1>1. CASE RunTimeout(w) BY <1>1, TimeoutPhase
<1>2. CASE ~RunTimeout(w)
  <2>1. UNCHANGED <<state, phase, call, due, cnacelled, closed, data, now, timers_, events>>
    BY <1>2 DEF RunStep, WorkerTickle, Scan, GoIdle, Finish, RunWake
  <2>2. now \in Nat /\ PhaseInv(h) BY DEF PhasesInv, TimesInv, IInv, TypeInv, TimerType
  <2>. QED BY <2>1, <2>2, QuietPhase
<1>. QED BY <1>1, <1>2

LEMMA MainPhase ==
    ASSUME IInv, TimesInv, setup' = setup, MainStep \/ Tick \/ \E fd \in Fd : Arrive(fd), NEW h \in Fiber
    PROVE  PhaseInv(h)'
<1>. USE DEF mainVars, schedVars, runVars, idleVars, timerVars, ioVars, fiberVars, envVars
<1>1. UNCHANGED <<state, phase, call, due, cnacelled, closed, timers_, events>>
  BY DEF MainStep, Submit, MainTickle, Stop, StopTickle, ResumeRoot, Join, Tick, Arrive
<1>2. now \in Nat /\ PhaseInv(h) BY DEF PhasesInv, TimesInv, IInv, TypeInv, TimerType
<1>3. now' \in Nat /\ now <= now'
  BY <1>2 DEF MainStep, Submit, MainTickle, Stop, StopTickle, ResumeRoot, Join, Tick, Arrive
<1>4. \A fd \in Fd : data'[fd] = data[fd] \/ data'[fd] > 0
  BY DEF MainStep, Submit, MainTickle, Stop, StopTickle, ResumeRoot, Join, Tick, Arrive, IInv, TypeInv, SocketType
<1>. QED BY <1>1, <1>2, <1>3, <1>4, QuietPhase

\* A fiber at the start of a call waits for nothing.
LEMMA StartPhase ==
    ASSUME NEW f, phase'[f] = "start", ~cnacelled'[f]
    PROVE  PhaseInv(f)'
BY DEF PhaseInv

LEMMA ResumePhase ==
    ASSUME IInv, TimesInv, setup' = setup, NEW w \in Worker, Resume(w), NEW h \in Fiber
    PROVE  PhaseInv(h)'
<1>. USE DEF IInv, TypeInv, FiberType
<1>1. PICK f \in Fiber : f = task[w].fiber /\ state[f] = "READY" BY ResumedFacts
<1>2. UNCHANGED <<now, closed, data, events>> BY DEF Resume, envVars, ioVars
<1>3. now \in Nat /\ PhaseInv(h) /\ PhaseInv(f) BY DEF PhasesInv, TimesInv, TimerType
<1>4. CASE h # f
  <2>1. /\ state'[h] = state[h] /\ phase'[h] = phase[h] /\ call'[h] = call[h]
        /\ due'[h] = due[h] /\ cnacelled'[h] = cnacelled[h]
    BY <1>1, <1>4 DEF Resume, NextCall
  <2>2. \A t \in timers_ : t.fiber = h => t \in timers_' BY <1>1, <1>4 DEF Resume
  <2>3. Granted(h) => Granted(h)' BY <1>2, <2>1, GrantedStays
  <2>. QED BY <1>2, <1>3, <2>1, <2>2, <2>3, OtherPhase
<1>5. CASE h = f
  <2>1. phase'[f] = "start" BY <1>1 DEF Resume, NextCall
  <2>2. ~cnacelled'[f]
    <3>1. CASE phase[f] = "asleep" \/ (phase[f] = "waiting" /\ cnacelled[f])
      BY <1>1, <3>1 DEF Resume, NextCall
    <3>2. CASE ~(phase[f] = "asleep" \/ (phase[f] = "waiting" /\ cnacelled[f]))
      <4>1. cnacelled' = cnacelled BY <1>1, <3>2 DEF Resume
      <4>. QED BY <1>3, <3>2, <4>1 DEF PhaseInv
    <3>. QED BY <3>1, <3>2
  <2>. QED BY <1>5, <2>1, <2>2, StartPhase
<1>. QED BY <1>4, <1>5

\* A fiber that begins to wait has its timer armed.
LEMMA WaitPhase ==
    ASSUME IInv, TimesInv, setup' = setup, NEW w \in Worker, Sleep(w) \/ ReadAgain(w), NEW h \in Fiber
    PROVE  PhaseInv(h)'
<1>. USE DEF IInv, TypeInv, FiberType
<1>1. PICK f \in Fiber : f = task[w].fiber /\ phase[f] = "start" /\ state[f] = "RUNNING"
  BY CallingFacts, OnFiberFacts DEF Sleep, ReadAgain, OnFiber
<1>2. UNCHANGED <<now, closed, data, events, call, cnacelled, state>>
  BY DEF Sleep, ReadAgain, envVars, ioVars
<1>3. now \in Nat /\ PhaseInv(h) /\ PhaseInv(f) BY DEF PhasesInv, TimesInv, TimerType
<1>4. ~cnacelled'[f] BY <1>1, <1>2, <1>3 DEF PhaseInv
<1>5. timers_ \subseteq timers_' BY DEF Sleep, ReadAgain, AddTimer, timerVars
<1>6. CASE h # f
  <2>1. phase'[h] = phase[h]
    <3>1. \E p : phase' = [phase EXCEPT ![f] = p] BY <1>1 DEF Sleep, ReadAgain
    <3>. QED BY <1>6, <3>1
  <2>2. due'[h] = due[h]
    <3>1. CASE due' = due BY <3>1
    <3>2. CASE due' # due
      <4>1. \E n : due' = [due EXCEPT ![f] = n] BY <1>1, <3>2 DEF Sleep, ReadAgain, AddTimer
      <4>. QED BY <1>6, <4>1
    <3>. QED BY <3>1, <3>2
  <2>3. Granted(h) => Granted(h)' BY <1>2, GrantedStays
  <2>. QED BY <1>2, <1>3, <1>5, <2>1, <2>2, <2>3, OtherPhase
<1>7. CASE h = f
  <2>1. CASE Sleep(w)
    <3>1. PICK u : u = [kind |-> "wake", fiber |-> f, call |-> call[f], next |-> now + TimerMs(CallOf(f))] OBVIOUS
    <3>2. AddTimer(w, u, "yield") BY <1>1, <2>1, <3>1 DEF Sleep
    <3>3. u \in timers_' BY <3>2 DEF AddTimer
    <3>4. u.kind = "wake" /\ u.fiber = f /\ u.call = call'[f] BY <1>2, <3>1
    <3>5. phase'[f] = "asleep" BY <1>1, <2>1 DEF Sleep
    <3>. QED BY <1>4, <1>7, <3>3, <3>4, <3>5 DEF PhaseInv
  <2>2. CASE ReadAgain(w)
    <3>1. phase'[f] = "addEvent" /\ state'[f] = "RUNNING" BY <1>1, <1>2, <2>2 DEF ReadAgain
    <3>. QED BY <1>4, <1>7, <3>1 DEF PhaseInv
  <2>. QED BY <2>1, <2>2
<1>. QED BY <1>6, <1>7

LEMMA AddEventPhase ==
    ASSUME IInv, TimesInv, setup' = setup, NEW w \in Worker, AddEvent(w), NEW h \in Fiber
    PROVE  PhaseInv(h)'
<1>. USE DEF IInv, TypeInv, FiberType
<1>1. PICK f \in Fiber : f = task[w].fiber /\ phase[f] = "addEvent" /\ CallOf(f).fd \in Fd
  BY AddEventFacts DEF AddEvent
<1>2. UNCHANGED <<now, closed, data, call, cnacelled, state, due, timers_>> BY DEF AddEvent, envVars, timerVars
<1>3. now \in Nat /\ PhaseInv(h) /\ PhaseInv(f) BY DEF PhasesInv, TimesInv, TimerType
<1>4. Granted(h) => Granted(h)' BY <1>2, GrantedStays
<1>5. CASE events[CallOf(f).fd] # None
  <2>1. UNCHANGED <<events, phase>> BY <1>1, <1>5 DEF AddEvent
  <2>. QED BY <1>2, <1>3, <1>4, <2>1, OtherPhase
<1>6. CASE events[CallOf(f).fd] = None
  <2>1. events' = [events EXCEPT ![CallOf(f).fd] = f] /\ phase' = [phase EXCEPT ![f] = "waiting"]
    BY <1>1, <1>6 DEF AddEvent
  <2>2. CASE h # f
    <3>1. \A fd \in Fd : events[fd] = h => events'[fd] = h
      BY <1>6, <2>1, ThreadsAssumption DEF SocketType
    <3>2. phase'[h] = phase[h] BY <2>1, <2>2
    <3>. QED BY <1>2, <1>3, <1>4, <3>1, <3>2, OtherPhase
  <2>3. CASE h = f
    <3>1. events'[CallOf(f).fd] = f BY <1>1, <2>1 DEF SocketType
    <3>2. \E fd \in Fd : events'[fd] = f BY <1>1, <3>1
    <3>3. phase'[f] = "waiting" BY <1>1, <2>1
    <3>4. ~cnacelled'[f] BY <1>1, <1>2, <1>3 DEF PhaseInv
    <3>. QED BY <2>3, <3>2, <3>3, <3>4 DEF PhaseInv
  <2>. QED BY <2>2, <2>3
<1>. QED BY <1>5, <1>6

\* The fibers that wait for a socket that is closed find that out.
LEMMA ClosePhase ==
    ASSUME IInv, TimesInv, setup' = setup, NEW w \in Worker, Close(w), NEW h \in Fiber
    PROVE  PhaseInv(h)'
<1>. USE DEF IInv, TypeInv, FiberType
<1>1. PICK f \in Fiber : f = task[w].fiber /\ CallOf(f).fd \in Fd BY CallingFacts DEF Close
<1>2. UNCHANGED <<now, data, state, due, timers_>> BY DEF Close, envVars, timerVars
<1>3. /\ phase' = [phase EXCEPT ![f] = "start"] /\ call' = [call EXCEPT ![f] = @ + 1]
      /\ cnacelled' = [cnacelled EXCEPT ![f] = FALSE] /\ closed' = closed \cup {CallOf(f).fd}
      /\ Trigger(w, CallOf(f).fd, "fiber")
  BY <1>1 DEF Close, NextCall
<1>4. now \in Nat /\ PhaseInv(h) BY DEF PhasesInv, TimesInv, TimerType
<1>5. CASE h = f
  <2>1. phase'[f] = "start" /\ ~cnacelled'[f] BY <1>3
  <2>. QED BY <1>5, <2>1, StartPhase
<1>6. CASE h # f
  <2>1. call'[h] = call[h] /\ phase'[h] = phase[h] /\ cnacelled'[h] = cnacelled[h] BY <1>3, <1>6
  <2>2. Granted(h) => Granted(h)' BY <1>2, <1>3, <2>1, GrantedStays
  <2>3. ASSUME NEW d \in Fd, events[d] = h PROVE events'[d] = h \/ Granted(h)'
    <3>1. CASE d = CallOf(f).fd
      <4>1. CallOf(h).fd \in closed' /\ CallsTo(h, call[h], "read") BY <1>3, <2>3, <3>1, RegisteredReads
      <4>. QED BY <2>1, <4>1 DEF Granted, CallsTo, CallOf
    <3>2. CASE d # CallOf(f).fd BY <1>1, <1>3, <2>3, <3>2, TriggerKeeps
    <3>. QED BY <3>1, <3>2
  <2>. QED BY <1>2, <1>4, <2>1, <2>2, <2>3, OtherPhase
<1>. QED BY <1>5, <1>6

LEMMA ReadNowPhase ==
    ASSUME IInv, TimesInv, OneReader(setup), setup' = setup, NEW w \in Worker, ReadNow(w), NEW h \in Fiber
    PROVE  PhaseInv(h)'
<1>. USE DEF IInv, TypeInv, FiberType
<1>1. PICK f \in Fiber : f = task[w].fiber BY CallingFacts DEF ReadNow
<1>2. UNCHANGED <<now, events, state, due, timers_>> BY DEF ReadNow, envVars, timerVars
<1>3. /\ phase' = [phase EXCEPT ![f] = "start"] /\ call' = [call EXCEPT ![f] = @ + 1]
      /\ cnacelled' = [cnacelled EXCEPT ![f] = FALSE]
  BY <1>1 DEF ReadNow, NextCall
<1>4. now \in Nat /\ PhaseInv(h) BY DEF PhasesInv, TimesInv, TimerType
<1>5. CASE h = f
  <2>1. phase'[f] = "start" /\ ~cnacelled'[f] BY <1>3
  <2>. QED BY <1>5, <2>1, StartPhase
<1>6. CASE h # f
  <2>1. call'[h] = call[h] /\ phase'[h] = phase[h] /\ cnacelled'[h] = cnacelled[h] BY <1>3, <1>6
  <2>2. Granted(h) => Granted(h)' BY <1>1, <1>6, ReadNowGrants
  <2>. QED BY <1>2, <1>4, <2>1, <2>2, OtherPhase
<1>. QED BY <1>5, <1>6

LEMMA YieldPhase ==
    ASSUME IInv, TimesInv, setup' = setup, NEW w \in Worker, Yield(w), NEW h \in Fiber
    PROVE  PhaseInv(h)'
<1>1. PICK f \in Fiber : f = task[w].fiber /\ phase[f] # "addEvent" BY YieldFacts DEF Waits
<1>2. UNCHANGED <<now, closed, data, events, phase, call, cnacelled, due, timers_>>
  BY DEF Yield, envVars, ioVars, timerVars
<1>3. now \in Nat /\ PhaseInv(h) BY DEF PhasesInv, TimesInv, IInv, TypeInv, TimerType
<1>4. Granted(h) => Granted(h)' BY <1>2, GrantedStays
<1>5. phase'[h] = "addEvent" => state'[h] = "RUNNING"
  BY <1>1, <1>2, <1>3 DEF PhaseInv, Yield, IInv, TypeInv, FiberType
<1>. QED BY <1>2, <1>3, <1>4, <1>5 DEF PhaseInv

LEMMA StepPhasesInv ==
    ASSUME IInv, TimesInv, OneWorker, OneReader(setup), Next
    PROVE  PhasesInv'
<1>1. setup' = setup BY SetupStays
<1>2. ASSUME NEW h \in Fiber PROVE PhaseInv(h)'
  <2>1. CASE MainStep \/ Tick \/ \E fd \in Fd : Arrive(fd) BY <1>1, <2>1, MainPhase
  <2>2. ASSUME NEW w \in Worker, FiberStep(w) PROVE PhaseInv(h)'
    BY <1>1, <2>2, ResumePhase, WaitPhase, AddEventPhase, ClosePhase, ReadNowPhase, YieldPhase DEF FiberStep
  <2>3. ASSUME NEW w \in Worker, RunStep(w) \/ IdleStep(w) PROVE PhaseInv(h)' BY <1>1, <2>3, RunPhase, IdlePhase
  <2>. QED BY <2>1, <2>2, <2>3 DEF Next, WorkerStep
<1>. QED BY <1>2 DEF PhasesInv, PhaseInv

LEMMA StepTimesInv ==
    ASSUME IInv, TimesInv, OneWorker, OneReader(setup), Next
    PROVE  TimesInv'
BY StepClockInv, StepGotInv, StepArmedInv, StepOverInv, StepPhasesInv DEF TimesInv

LEMMA InitTimesInv == ASSUME Init PROVE TimesInv
<1>1. \A w \in Worker : at[w] \in {"scan", "off"} BY DEF Init, at
<1>2. ClockInv /\ GotInv /\ ArmedInv BY <1>1 DEF Init, ClockInv, GotInv, ArmedInv, ArmedFor
<1>3. OverInv BY <1>1 DEF Init, OverInv
<1>4. PhasesInv BY DEF Init, PhasesInv, PhaseInv
<1>. QED BY <1>2, <1>3, <1>4 DEF TimesInv

LEMMA UnchangedTimesInv == ASSUME TimesInv, UNCHANGED vars PROVE TimesInv'
<1>. USE DEF vars, envVars, mainVars, schedVars, runVars, idleVars, timerVars, ioVars, fiberVars
<1>1. at' = at BY DEF at
<1>2. ClockInv' /\ GotInv' /\ ArmedInv' BY <1>1 DEF TimesInv, ClockInv, GotInv, ArmedInv, ArmedFor
<1>3. OverInv'
  <2>1. ASSUME NEW t PROVE Over(t)' = Over(t) BY DEF Over, Granted, CallsTo, CallOf
  <2>2. UNCHANGED <<cbs, tasks_, task>> OBVIOUS
  <2>. QED BY <1>1, <2>1, <2>2 DEF TimesInv, OverInv
<1>4. PhasesInv' BY DEF TimesInv, PhasesInv, PhaseInv, Granted, CallsTo, CallOf
<1>. QED BY <1>2, <1>3, <1>4 DEF TimesInv

TimelyInv == OneWorker => TimesInv

LEMMA SpecTimelyInv == ASSUME Situations PROVE Spec => [](IInv /\ TimelyInv)
<1>1. Init => IInv /\ TimelyInv BY InitIInv, InitTimesInv DEF TimelyInv
<1>2. IInv /\ TimelyInv /\ [Next]_vars => (IInv /\ TimelyInv)'
  <2>. SUFFICES ASSUME IInv, TimelyInv, [Next]_vars PROVE (IInv /\ TimelyInv)' OBVIOUS
  <2>1. OneReader(setup) BY DEF Situations, IInv, TypeInv, MainType
  <2>2. OneWorker' => OneWorker BY SetupKept DEF OneWorker
  <2>3. OneWorker => TimesInv' BY <2>1, StepTimesInv, UnchangedTimesInv DEF TimelyInv
  <2>. QED BY <2>2, <2>3, StepIInv DEF TimelyInv
<1>. QED BY <1>1, <1>2, PTL DEF Spec

\* A call that ends when its fiber is resumed is due.
LEMMA ResumedIsDue ==
    ASSUME IInv, TimelyInv, OneAtATime(setup), NEW w \in Worker, Resume(w), NEW f \in Fiber,
           state[f] = "READY", state'[f] = "RUNNING", call'[f] > call[f]
    PROVE  now >= due[f]
<1>. USE DEF IInv, TypeInv, FiberType
<1>1. f = task[w].fiber /\ w \in Held(at, task, f)
  <2>1. PICK g \in Fiber : g = task[w].fiber /\ w \in Held(at, task, g) BY ResumedFacts
  <2>2. state' = [state EXCEPT ![g] = "RUNNING"] BY <2>1 DEF Resume
  <2>. QED BY <2>1, <2>2
<1>2. phase[f] = "asleep" \/ (phase[f] = "waiting" /\ cnacelled[f])
  <2>. SUFFICES ASSUME ~(phase[f] = "asleep" \/ (phase[f] = "waiting" /\ cnacelled[f])) PROVE FALSE OBVIOUS
  <2>1. call' = call BY <1>1 DEF Resume
  <2>. QED BY <2>1
<1>3. now \in Nat /\ due[f] \in Nat BY DEF TimerType
<1>4. CASE OneWorker
  <2>1. PhaseInv(f) BY <1>4 DEF PhasesInv, PhaseInv, TimelyInv, TimesInv
  <2>2. Armed(AllTimers, f) = {} BY <1>1, OneHeld
  <2>3. ~(\E t \in timers_ : t.kind = "wake" /\ t.fiber = f /\ t.call = call[f]) BY <2>2 DEF Armed, AllTimers
  <2>4. phase[f] = "asleep" => ~(due[f] > now) BY <2>1, <2>3 DEF PhaseInv
  <2>5. cnacelled[f] => due[f] <= now BY <2>1 DEF PhaseInv
  <2>. QED BY <1>2, <1>3, <2>4, <2>5
<1>5. CASE \A g \in Fiber : \A i \in DOMAIN setup.program[g] : setup.program[g][i].call = "close"
  BY <1>2, <1>5 DEF CallsInv, FiberCalls, CallsTo
<1>. QED BY <1>4, <1>5 DEF OneAtATime, OneWorker

LEMMA StepNotEarly ==
    ASSUME IInv, TimelyInv, OneAtATime(setup), [Next]_vars, NEW f \in Fiber,
           state[f] = "READY", state'[f] = "RUNNING", call'[f] > call[f]
    PROVE  now >= due[f]
<1>. USE DEF mainVars, schedVars, runVars, idleVars, timerVars, ioVars, fiberVars, envVars
<1>1. \E w \in Worker : Resume(w)
  <2>. SUFFICES ASSUME \A w \in Worker : ~Resume(w) PROVE FALSE OBVIOUS
  <2>1. CASE state' = state BY <2>1
  <2>2. ASSUME NEW w \in Worker, Yield(w) PROVE FALSE
    <3>1. call' = call BY <2>2 DEF Yield
    <3>2. call[f] \in Nat BY DEF IInv, TypeInv, FiberType
    <3>. QED BY <3>1, <3>2
  <2>3. ASSUME NEW w \in Worker, WorkerStep(w), ~Yield(w) PROVE state' = state
    BY <2>3 DEF WorkerStep, RunStep, FiberStep, IdleStep, WorkerTickle, Scan, GoIdle, Finish, RunWake, RunTimeout,
       Sleep, ReadNow, ReadAgain, AddEvent, Close, GetNextTimer, Stopping, EpollWait, ReadClock, ListExpiredCb,
       PushCb, HandleEvent, LeaveIdle
  <2>4. CASE MainStep \/ Tick \/ \E fd \in Fd : Arrive(fd)
    BY <2>1, <2>4 DEF MainStep, Submit, MainTickle, Stop, StopTickle, ResumeRoot, Join, Tick, Arrive
  <2>5. CASE UNCHANGED vars BY <2>1, <2>5 DEF vars
  <2>. QED BY <2>1, <2>2, <2>3, <2>4, <2>5 DEF Next
<1>. QED BY <1>1, ResumedIsDue

LEMMA DueIsNotEarly ==
    ASSUME IInv, LengthInv, NEW f \in Fiber, now >= due[f]
    PROVE  Elapsed + 2 * (MsLength - 1) >= wanted[f]
<1>1. MsLength \in Nat /\ now \in Nat /\ due[f] \in Nat
  BY ClockAssumption DEF IInv, TypeInv, TimerType, FiberType
<1>2. due[f] * MsLength <= now * MsLength BY <1>1, TimesOrder
<1>3. due[f] * MsLength \in Nat /\ now * MsLength \in Nat BY <1>1, Times
<1>4. fraction \in 0 .. MsLength - 1 BY DEF LengthInv, FractionType
<1>5. wanted[f] \in Nat /\ wanted[f] <= due[f] * MsLength + 2 * (MsLength - 1) BY DEF LengthInv, WantedOf
<1>6. now * MsLength <= Elapsed /\ Elapsed \in Nat BY <1>1, <1>3, <1>4 DEF Elapsed
<1>. QED BY <1>1, <1>2, <1>3, <1>5, <1>6

\* A hooked sleep() does not return, and a hooked read() does not report ETIMEDOUT, before its time
\* but for the two roundings to milliseconds, of the time asked for and of the clock,
\* however long a millisecond is measured and however the expired timers, the events
\* and the closing of the sockets race: neither a timer of an earlier call of the
\* fiber nor the event of its socket ends the call that it is in.
THEOREM NotEarlyHolds == ASSUME Situations PROVE Spec => NotEarly
<1>1. IInv /\ TimelyInv /\ LengthInv /\ [Next]_vars =>
        [\A f \in Fiber : CallEnds(f) => Elapsed + 2 * (MsLength - 1) >= wanted[f]]_vars
  <2>. SUFFICES ASSUME IInv, TimelyInv, LengthInv, [Next]_vars, NEW f \in Fiber, CallEnds(f)
                PROVE  Elapsed + 2 * (MsLength - 1) >= wanted[f]
    OBVIOUS
  <2>1. OneAtATime(setup) BY DEF Situations, IInv, TypeInv, MainType
  <2>2. now >= due[f] BY <2>1, StepNotEarly DEF CallEnds
  <2>. QED BY <2>2, DueIsNotEarly
<1>. QED BY <1>1, SpecTimelyInv, SpecLengthInv, PTL DEF Spec, NotEarly

===========================================================================
