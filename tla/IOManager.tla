----------------------------- MODULE IOManager -----------------------------
(***************************************************************************)
(* The fiber library under the tickers of Raft: Scheduler::run with its    *)
(* queue of tasks, IOManager with its idle fiber (epoll, the tickle pipe,  *)
(* registered events), TimerManager, the fibers, and the hooked system     *)
(* calls sleep, read and close.                                            *)
(*                                                                         *)
(* A worker is a thread in Scheduler::run.  The main thread hands over the *)
(* fibers and then stops the scheduler.  Time passes in ticks, MsLength of *)
(* them a millisecond, and timers and the clock that is read know whole    *)
(* milliseconds only.  A wait of MAX_TIMEOUT, longer than any timer here,  *)
(* may end at any moment.                                                  *)
(***************************************************************************)
EXTENDS Integers, Sequences, FiniteSets

CONSTANTS
    Worker,         \* threads that may run fibers
    Fiber,
    Fd,             \* sockets
    None,
    MsLength,       \* ticks in a millisecond
    Setups          \* the situations to look at, see Setup

\* A sleep is asked for in ticks (usleep: microseconds, nanosleep: nanoseconds),
\* the time limit of a read is in milliseconds.
Call == [call : {"sleep"}, fd : Fd, ticks : Nat] \cup [call : {"read"}, fd : Fd, ms : Nat]
            \cup [call : {"close"}, fd : Fd]

\* A situation: the threads that run fibers, the one among them that is the
\* caller's (or None), the hooked calls each fiber makes (a read with ms = 0 has
\* no time limit), the number of messages that may arrive on the sockets, and whether
\* they are sure to.
Setup(s) ==
    /\ s.workers \in (SUBSET Worker) \ {{}} /\ s.caller \in s.workers \cup {None}
    /\ s.program \in [Fiber -> Seq(Call)]
    /\ s.arrivals \in Nat /\ s.peerSends \in BOOLEAN
ASSUME SetupsAssumption == \A s \in Setups : Setup(s)

ASSUME ClockAssumption == MsLength \in Nat \ {0}
ASSUME ThreadsAssumption ==
    IsFiniteSet(Worker) /\ IsFiniteSet(Fd) /\ None \notin Worker \cup Fiber

\* What the program keeps to, and most properties need: one thread runs fibers
\* (FIBER_THREAD_NUM of config.h is 1), or else none of them ever waits.
OneAtATime(s) ==
    \/ \E w \in Worker : s.workers = {w}
    \/ \A f \in Fiber : \A i \in DOMAIN s.program[f] : s.program[f][i].call = "close"

\* A socket has one event of a kind: one fiber reads from it.
Reads(s, f, fd) == \E i \in DOMAIN s.program[f] : s.program[f][i].call = "read" /\ s.program[f][i].fd = fd
OneReader(s) == \A fd \in Fd : \A f, g \in Fiber : Reads(s, f, fd) /\ Reads(s, g, fd) => f = g

VARIABLES
    setup,              \* the situation
    mainPc,             \* where the main thread is
    toSubmit,           \* fibers it has not handed over
    toTickle,           \* tickles of stop() still to come
    isStopped_,
    tasks_,             \* queue of tasks
    idleThreadCnt_,
    activeThreadCnt_,
    pc,                 \* where a worker is
    then,               \* where it goes on after tickle()
    task,               \* the task it has taken
    idleTerm,           \* its idle fiber has ended
    deadline,           \* time its epoll_wait ends, or Never
    got,                \* sockets its epoll_wait has returned
    nowMs,              \* clock it read in listExpiredCb
    cbs,                \* expired timers whose callbacks it has to schedule
    pipe,               \* epoll has the tickle pipe to report
    now,                \* clock: the milliseconds GetElapsedMS returns
    fraction,           \* ticks that have passed of the next one
    timers_,            \* armed timers
    tickled_,
    previouseTime_,
    events,             \* fiber registered for a socket's READ event, or None
    pendingEventCnt_,
    data,               \* messages that can be read from a socket
    closed,             \* sockets closed
    arrived,            \* messages that have arrived
    state,              \* of a fiber
    phase,              \* where a fiber is in its call
    call,               \* number of the call a fiber is in
    cnacelled,          \* timer_info of its call
    due,                \* history: when the timer of its call should fire
    wanted,             \* history: the time, in ticks, its call has to last until
    panicked            \* a CondPanic has failed and the process ended

mainVars == <<setup, mainPc, toSubmit, toTickle, isStopped_>>
schedVars == <<tasks_, idleThreadCnt_, activeThreadCnt_>>
runVars == <<task, idleTerm>>
idleVars == <<deadline, got, nowMs, cbs>>
timerVars == <<timers_, tickled_, previouseTime_>>
ioVars == <<events, pendingEventCnt_, data, closed>>
envVars == <<now, fraction, arrived>>
fiberVars == <<state, phase, call, cnacelled, due, wanted>>
vars == <<mainVars, schedVars, pc, then, runVars, idleVars, pipe, timerVars, ioVars, envVars, fiberVars, panicked>>

NoTask == [kind |-> "none"]
Never == -1

Init ==
    /\ setup \in Setups
    /\ mainPc = "submit" /\ toSubmit = Fiber /\ toTickle = 0 /\ isStopped_ = FALSE
    /\ tasks_ = <<>> /\ idleThreadCnt_ = 0 /\ activeThreadCnt_ = 0
    /\ pc = [w \in Worker |-> IF w \in setup.workers \ {setup.caller} THEN "scan" ELSE "off"]
    /\ then = [w \in Worker |-> "run"]
    /\ task = [w \in Worker |-> NoTask]
    /\ idleTerm = [w \in Worker |-> FALSE]
    /\ deadline = [w \in Worker |-> Never]
    /\ got = [w \in Worker |-> {}]
    /\ nowMs = [w \in Worker |-> 0]
    /\ cbs = [w \in Worker |-> {}]
    /\ pipe = FALSE
    /\ now = 0 /\ fraction \in 0 .. MsLength - 1 /\ timers_ = {} /\ tickled_ = FALSE /\ previouseTime_ = 0
    /\ events = [fd \in Fd |-> None] /\ pendingEventCnt_ = 0
    /\ data = [fd \in Fd |-> 0] /\ closed = {} /\ arrived = 0
    /\ state = [f \in Fiber |-> "READY"]
    /\ phase = [f \in Fiber |-> "start"]
    /\ call = [f \in Fiber |-> 1]
    /\ cnacelled = [f \in Fiber |-> FALSE]
    /\ due = [f \in Fiber |-> 0]
    /\ wanted = [f \in Fiber |-> 0]
    /\ panicked = FALSE

-----------------------------------------------------------------------------
(* Scheduling a task and waking an idle worker.                              *)

FiberTask(f) == [kind |-> "fiber", fiber |-> f]

\* IOManager::tickle writes to the pipe only if a worker is idle.
Tickle == pipe' = (pipe \/ idleThreadCnt_ > 0)

\* A worker goes on at l, tickling first if need be.
GoTo(w, l) == pc' = [pc EXCEPT ![w] = l] /\ then' = [then EXCEPT ![w] = "run"]
GoToTickling(w, tickle, l) ==
    /\ pc' = [pc EXCEPT ![w] = IF tickle THEN "tickle" ELSE l]
    /\ then' = [then EXCEPT ![w] = IF tickle THEN l ELSE "run"]

\* scheduler(): the task goes to the end of the queue, and tickle() is called
\* afterwards if the queue was empty.
Schedule(w, t, l) ==
    /\ tasks_' = Append(tasks_, t)
    /\ GoToTickling(w, tasks_ = <<>>, l)

WorkerTickle(w) ==
    /\ pc[w] = "tickle"
    /\ Tickle /\ GoTo(w, then[w])
    /\ UNCHANGED <<mainVars, schedVars, runVars, idleVars, timerVars, ioVars, envVars, fiberVars, panicked>>

-----------------------------------------------------------------------------
(* The main thread.                                                          *)

Submit(f) ==
    /\ mainPc = "submit" /\ f \in toSubmit
    /\ toSubmit' = toSubmit \ {f}
    /\ tasks_' = Append(tasks_, FiberTask(f))
    /\ mainPc' = IF tasks_ = <<>> THEN "tickle" ELSE "submit"
    /\ UNCHANGED <<setup, toTickle, isStopped_, idleThreadCnt_, activeThreadCnt_, pc, then, runVars, idleVars,
                   pipe, timerVars, ioVars, envVars, fiberVars, panicked>>

MainTickle ==
    /\ mainPc = "tickle"
    /\ Tickle /\ mainPc' = "submit"
    /\ UNCHANGED <<setup, toSubmit, toTickle, isStopped_, schedVars, pc, then, runVars, idleVars,
                   timerVars, ioVars, envVars, fiberVars, panicked>>

\* stop() asks stopping() first, which looks at the timers.
Stop ==
    /\ mainPc = "submit" /\ toSubmit = {}
    /\ tickled_' = FALSE
    /\ isStopped_' = TRUE
    /\ toTickle' = Cardinality(setup.workers)
    /\ mainPc' = "stop"
    /\ UNCHANGED <<setup, toSubmit, schedVars, pc, then, runVars, idleVars, pipe, timers_, previouseTime_,
                   ioVars, envVars, fiberVars, panicked>>

StopTickle ==
    /\ mainPc = "stop" /\ toTickle > 0
    /\ Tickle /\ toTickle' = toTickle - 1
    /\ UNCHANGED <<setup, mainPc, toSubmit, isStopped_, schedVars, pc, then, runVars, idleVars,
                   timerVars, ioVars, envVars, fiberVars, panicked>>

\* With use_caller the caller's thread is a worker from here on.
ResumeRoot ==
    /\ mainPc = "stop" /\ toTickle = 0
    /\ mainPc' = "join"
    /\ pc' = [w \in Worker |-> IF w = setup.caller THEN "scan" ELSE pc[w]]
    /\ UNCHANGED <<setup, toSubmit, toTickle, isStopped_, schedVars, then, runVars, idleVars, pipe,
                   timerVars, ioVars, envVars, fiberVars, panicked>>

Join ==
    /\ mainPc = "join" /\ \A w \in setup.workers : pc[w] = "exit"
    /\ mainPc' = "joined"
    /\ UNCHANGED <<setup, toSubmit, toTickle, isStopped_, schedVars, pc, then, runVars, idleVars, pipe,
                   timerVars, ioVars, envVars, fiberVars, panicked>>

-----------------------------------------------------------------------------
(* Scheduler::run.                                                           *)

\* The next task, taken under the lock: a fiber must be READY.
Scan(w) ==
    /\ pc[w] = "scan"
    /\ IF tasks_ = <<>>
       THEN GoTo(w, "empty") /\ UNCHANGED <<tasks_, activeThreadCnt_, task, panicked>>
       ELSE LET t == Head(tasks_)
            IN  IF t.kind = "fiber" /\ state[t.fiber] # "READY"
                THEN panicked' = TRUE /\ UNCHANGED <<tasks_, activeThreadCnt_, pc, then, task>>
                ELSE /\ task' = [task EXCEPT ![w] = t]
                     /\ tasks_' = Tail(tasks_)
                     /\ activeThreadCnt_' = activeThreadCnt_ + 1
                     /\ GoToTickling(w, Tail(tasks_) # <<>>, "run")
                     /\ UNCHANGED panicked
    /\ UNCHANGED <<mainVars, idleThreadCnt_, idleTerm, idleVars, pipe, timerVars, ioVars, envVars, fiberVars>>

\* Deliberately wrong: counts as idle before it finds that it is to end.
Faulty_GoIdle(w) ==
    /\ pc[w] = "empty"
    /\ GoTo(w, IF idleTerm[w] THEN "exit" ELSE "stopping")
    /\ idleThreadCnt_' = idleThreadCnt_ + 1
    /\ UNCHANGED <<mainVars, tasks_, activeThreadCnt_, runVars, idleVars, pipe, timerVars, ioVars, envVars,
                   fiberVars, panicked>>

\* Only now, after the lock, does the worker count as idle.
GoIdle(w) ==
    /\ pc[w] = "empty"
    /\ IF idleTerm[w]
       THEN GoTo(w, "exit") /\ UNCHANGED idleThreadCnt_
       ELSE GoTo(w, "stopping") /\ idleThreadCnt_' = idleThreadCnt_ + 1
    /\ UNCHANGED <<mainVars, tasks_, activeThreadCnt_, runVars, idleVars, pipe, timerVars, ioVars, envVars,
                   fiberVars, panicked>>

Finish(w) ==
    /\ pc[w] = "finish"
    /\ activeThreadCnt_' = activeThreadCnt_ - 1
    /\ task' = [task EXCEPT ![w] = NoTask]
    /\ GoTo(w, "scan")
    /\ UNCHANGED <<mainVars, tasks_, idleThreadCnt_, idleTerm, idleVars, pipe, timerVars, ioVars, envVars,
                   fiberVars, panicked>>

\* The callback of a sleep's timer: schedules the fiber.
RunWake(w) ==
    /\ pc[w] = "run" /\ task[w].kind = "wake"
    /\ Schedule(w, FiberTask(task[w].fiber), "finish")
    /\ UNCHANGED <<mainVars, idleThreadCnt_, activeThreadCnt_, runVars, idleVars, pipe, timerVars, ioVars,
                   envVars, fiberVars, panicked>>

CallOf(f) == setup.program[f][call[f]]

\* An event is unregistered and its fiber scheduled, if there is one.
Trigger(w, fd, l) ==
    IF events[fd] = None
    THEN GoTo(w, l) /\ UNCHANGED <<tasks_, events, pendingEventCnt_>>
    ELSE /\ Schedule(w, FiberTask(events[fd]), l)
         /\ events' = [events EXCEPT ![fd] = None]
         /\ pendingEventCnt_' = pendingEventCnt_ - 1

\* The callback of a read's timer: while that read goes on, it marks it and
\* cancels the event, which wakes the fiber if the event has not done so.
RunTimeout(w) ==
    LET f == task[w].fiber
    IN  /\ pc[w] = "run" /\ task[w].kind = "timeout"
        /\ IF call[f] = task[w].call /\ ~cnacelled[f]
           THEN /\ cnacelled' = [cnacelled EXCEPT ![f] = TRUE]
                /\ Trigger(w, CallOf(f).fd, "finish")
           ELSE GoTo(w, "finish") /\ UNCHANGED <<tasks_, events, pendingEventCnt_, cnacelled>>
        /\ UNCHANGED <<mainVars, idleThreadCnt_, activeThreadCnt_, runVars, idleVars, pipe, timerVars,
                       data, closed, envVars, state, phase, call, due, wanted, panicked>>

-----------------------------------------------------------------------------
(* A fiber runs.                                                             *)

NextCall(f) ==
    /\ phase' = [phase EXCEPT ![f] = "start"]
    /\ call' = [call EXCEPT ![f] = @ + 1]
    /\ cnacelled' = [cnacelled EXCEPT ![f] = FALSE]

\* Back from yield, sleep returns; a read cancels its timer (which fails, with
\* no effect, if the timer has expired), and returns ETIMEDOUT or tries again.
Resume(w) ==
    LET f == task[w].fiber
    IN  /\ pc[w] = "run" /\ task[w].kind = "fiber"
        /\ state' = [state EXCEPT ![f] = "RUNNING"]
        /\ GoTo(w, "fiber")
        /\ timers_' = {t \in timers_ : phase[f] = "waiting" => t.fiber # f}
        /\ due' = [due EXCEPT ![f] = 0] /\ wanted' = [wanted EXCEPT ![f] = 0]
        /\ IF phase[f] = "asleep" \/ (phase[f] = "waiting" /\ cnacelled[f])
           THEN NextCall(f)
           ELSE phase' = [phase EXCEPT ![f] = "start"] /\ UNCHANGED <<call, cnacelled>>
        /\ UNCHANGED <<mainVars, schedVars, runVars, idleVars, pipe, tickled_, previouseTime_, ioVars, envVars,
                       panicked>>

\* The fiber that worker w runs is about to make the named call.
Calling(w, name) ==
    LET f == task[w].fiber
    IN  /\ pc[w] = "fiber" /\ phase[f] = "start"
        /\ call[f] <= Len(setup.program[f]) /\ CallOf(f).call = name

\* What the hooked calls hand to addTimer: usec / 1000, and nanoseconds / 1000 /
\* 1000, are rounded down; sleep(seconds * 1000) and a read's limit are whole.
TimerMs(c) == IF c.call = "sleep" THEN c.ticks \div MsLength ELSE c.ms

Elapsed == now * MsLength + fraction
AskedFor(c) == IF c.call = "sleep" THEN c.ticks ELSE c.ms * MsLength

\* addTimer: a new first timer tickles, unless one did since getNextTimer last
\* looked.
AddTimer(w, timer, l) ==
    LET atFront == (\A t \in timers_ : timer.next <= t.next) /\ ~tickled_
    IN  /\ timers_' = timers_ \cup {timer}
        /\ tickled_' = (tickled_ \/ atFront)
        /\ due' = [due EXCEPT ![timer.fiber] = timer.next]
        /\ wanted' = [wanted EXCEPT ![timer.fiber] = Elapsed + AskedFor(CallOf(timer.fiber))]
        /\ GoToTickling(w, atFront, l)
        /\ UNCHANGED previouseTime_

Sleep(w) ==
    LET f == task[w].fiber
    IN  /\ Calling(w, "sleep")
        /\ AddTimer(w, [kind |-> "wake", fiber |-> f, call |-> call[f], next |-> now + TimerMs(CallOf(f))], "yield")
        /\ phase' = [phase EXCEPT ![f] = "asleep"]
        /\ UNCHANGED <<mainVars, schedVars, runVars, idleVars, pipe, ioVars, envVars, state, call, cnacelled,
                       panicked>>

\* read() itself succeeds, or fails as the socket is closed.
ReadNow(w) ==
    LET f == task[w].fiber
        fd == CallOf(f).fd
    IN  /\ Calling(w, "read") /\ (fd \in closed \/ data[fd] > 0)
        /\ data' = IF fd \in closed THEN data ELSE [data EXCEPT ![fd] = @ - 1]
        /\ NextCall(f)
        /\ UNCHANGED <<mainVars, schedVars, pc, then, runVars, idleVars, pipe, timerVars, events,
                       pendingEventCnt_, closed, envVars, state, due, wanted, panicked>>

\* read() has nothing yet: a timer, if there is a limit, then the event.
ReadAgain(w) ==
    LET f == task[w].fiber
    IN  /\ Calling(w, "read") /\ CallOf(f).fd \notin closed /\ data[CallOf(f).fd] = 0
        /\ phase' = [phase EXCEPT ![f] = "addEvent"]
        /\ IF TimerMs(CallOf(f)) > 0
           THEN AddTimer(w, [kind |-> "timeout", fiber |-> f, call |-> call[f],
                             next |-> now + TimerMs(CallOf(f))], "fiber")
           ELSE UNCHANGED <<timerVars, pc, then, due, wanted>>
        /\ UNCHANGED <<mainVars, schedVars, runVars, idleVars, pipe, ioVars, envVars, state, call, cnacelled,
                       panicked>>

AddEvent(w) ==
    LET f == task[w].fiber
        fd == CallOf(f).fd
    IN  /\ pc[w] = "fiber" /\ phase[f] = "addEvent"
        /\ IF events[fd] # None
           THEN panicked' = TRUE /\ UNCHANGED <<events, pendingEventCnt_, phase, pc, then>>
           ELSE /\ events' = [events EXCEPT ![fd] = f]
                /\ pendingEventCnt_' = pendingEventCnt_ + 1
                /\ phase' = [phase EXCEPT ![f] = "waiting"]
                /\ GoTo(w, "yield") /\ UNCHANGED panicked
        /\ UNCHANGED <<mainVars, schedVars, runVars, idleVars, pipe, timerVars, data, closed, envVars, state,
                       call, cnacelled, due, wanted>>

\* close(): cancelAll wakes the fiber that waits for the socket.
Close(w) ==
    LET f == task[w].fiber
        fd == CallOf(f).fd
    IN  /\ Calling(w, "close")
        /\ Trigger(w, fd, "fiber")
        /\ closed' = closed \cup {fd}
        /\ NextCall(f)
        /\ UNCHANGED <<mainVars, idleThreadCnt_, activeThreadCnt_, runVars, idleVars, pipe, timerVars, data,
                       envVars, state, due, wanted, panicked>>

Yield(w) ==
    LET f == task[w].fiber
        over == pc[w] = "fiber" /\ call[f] > Len(setup.program[f])
    IN  /\ pc[w] = "yield" \/ over
        /\ state' = [state EXCEPT ![f] = IF over THEN "TERM" ELSE "READY"]
        /\ GoTo(w, "finish")
        /\ UNCHANGED <<mainVars, schedVars, runVars, idleVars, pipe, timerVars, ioVars, envVars, phase, call,
                       cnacelled, due, wanted, panicked>>

-----------------------------------------------------------------------------
(* IOManager::idle.                                                          *)

\* stopping() looks at the timers first: with one armed it is too early to stop,
\* and epoll_wait lasts until the first of them.
GetNextTimer(w) ==
    /\ pc[w] = "stopping"
    /\ tickled_' = FALSE
    /\ deadline' = [deadline EXCEPT ![w] =
            IF timers_ = {} THEN Never
            ELSE (CHOOSE t \in timers_ : \A u \in timers_ : t.next <= u.next).next]
    /\ GoTo(w, IF timers_ = {} THEN "stopping2" ELSE "wait")
    /\ UNCHANGED <<mainVars, schedVars, runVars, got, nowMs, cbs, pipe, timers_, previouseTime_, ioVars,
                   envVars, fiberVars, panicked>>

\* Deliberately wrong: does not wait for the fibers that wait for an event.
Faulty_CanStop == isStopped_ /\ tasks_ = <<>> /\ activeThreadCnt_ = 0

CanStop == pendingEventCnt_ = 0 /\ isStopped_ /\ tasks_ = <<>> /\ activeThreadCnt_ = 0

Stopping(w) ==
    /\ pc[w] = "stopping2"
    /\ idleTerm' = [idleTerm EXCEPT ![w] = CanStop]
    /\ GoTo(w, IF CanStop THEN "leaveIdle" ELSE "wait")
    /\ UNCHANGED <<mainVars, schedVars, task, idleVars, pipe, timerVars, ioVars, envVars, fiberVars, panicked>>

Ready == {fd \in Fd : events[fd] # None /\ data[fd] > 0}

\* Deliberately wrong: without a timer, no time limit.
Faulty_WaitIsOver(w) == deadline[w] # Never /\ now >= deadline[w]

\* The time limit of epoll_wait: the next timer, and MAX_TIMEOUT at most.
WaitIsOver(w) == deadline[w] = Never \/ now >= deadline[w]

\* Each event is reported once, to one worker; the pipe is emptied with it (the
\* code reads it a little later, when it comes to that event of the list).
EpollWait(w) ==
    /\ pc[w] = "wait"
    /\ pipe \/ Ready # {} \/ WaitIsOver(w)
    /\ got' = [got EXCEPT ![w] = Ready]
    /\ deadline' = [deadline EXCEPT ![w] = Never]
    /\ pipe' = FALSE
    /\ GoTo(w, "clock")
    /\ UNCHANGED <<mainVars, schedVars, runVars, nowMs, cbs, timerVars, ioVars, envVars, fiberVars,
                   panicked>>

\* listExpiredCb reads the clock before it takes the lock.
ReadClock(w) ==
    /\ pc[w] = "clock"
    /\ nowMs' = [nowMs EXCEPT ![w] = now]
    /\ GoTo(w, "expire")
    /\ UNCHANGED <<mainVars, schedVars, runVars, deadline, got, cbs, pipe, timerVars, ioVars, envVars,
                   fiberVars, panicked>>

\* previouseTime_ - 60 * 60 * 1000 wraps around in the first hour after a boot:
\* there, any step back is one.
DetectClockRollover(ms) == ms < previouseTime_

\* Deliberately wrong: lets a timer expire a millisecond before its time.
Faulty_Expired(ms) == {t \in timers_ : t.next <= ms + 1}

Expired(ms) == {t \in timers_ : DetectClockRollover(ms) \/ t.next <= ms}

ListExpiredCb(w) ==
    /\ pc[w] = "expire"
    /\ timers_' = timers_ \ Expired(nowMs[w])
    /\ cbs' = [cbs EXCEPT ![w] = Expired(nowMs[w])]
    /\ previouseTime_' = IF timers_ = {} THEN previouseTime_ ELSE nowMs[w]
    /\ nowMs' = [nowMs EXCEPT ![w] = 0]
    /\ GoTo(w, "push")
    /\ UNCHANGED <<mainVars, schedVars, runVars, deadline, got, pipe, tickled_, ioVars, envVars,
                   fiberVars, panicked>>

\* Their callbacks become tasks, in the order of their times.
PushCb(w) ==
    /\ pc[w] = "push" /\ cbs[w] # {}
    /\ \E t \in cbs[w] :
          /\ \A u \in cbs[w] : t.next <= u.next
          /\ cbs' = [cbs EXCEPT ![w] = @ \ {t}]
          /\ Schedule(w, [kind |-> t.kind, fiber |-> t.fiber, call |-> t.call], "push")
    /\ UNCHANGED <<mainVars, idleThreadCnt_, activeThreadCnt_, runVars, deadline, got, nowMs, pipe, timerVars,
                   ioVars, envVars, fiberVars, panicked>>

\* Deliberately wrong: schedules the fiber and keeps the event.
Faulty_HandleEvent(w) ==
    /\ pc[w] = "push" /\ cbs[w] = {}
    /\ \E fd \in got[w] :
          /\ got' = [got EXCEPT ![w] = @ \ {fd}]
          /\ events[fd] # None
          /\ Schedule(w, FiberTask(events[fd]), "push")
    /\ UNCHANGED <<mainVars, idleThreadCnt_, activeThreadCnt_, runVars, deadline, nowMs, cbs, pipe, timerVars,
                   events, pendingEventCnt_, data, closed, envVars, fiberVars, panicked>>

HandleEvent(w) ==
    /\ pc[w] = "push" /\ cbs[w] = {}
    /\ \E fd \in got[w] :
          /\ got' = [got EXCEPT ![w] = @ \ {fd}]
          /\ Trigger(w, fd, "push")
    /\ UNCHANGED <<mainVars, idleThreadCnt_, activeThreadCnt_, runVars, deadline, nowMs, cbs, pipe, timerVars,
                   data, closed, envVars, fiberVars, panicked>>

LeaveIdle(w) ==
    /\ pc[w] = "leaveIdle" \/ (pc[w] = "push" /\ cbs[w] = {} /\ got[w] = {})
    /\ idleThreadCnt_' = idleThreadCnt_ - 1
    /\ GoTo(w, "scan")
    /\ UNCHANGED <<mainVars, tasks_, activeThreadCnt_, runVars, idleVars, pipe, timerVars, ioVars, envVars,
                   fiberVars, panicked>>

-----------------------------------------------------------------------------

\* Time passes while something waits for it.
Tick ==
    /\ \E t \in timers_ : t.next > now
    /\ IF fraction + 1 = MsLength
       THEN now' = now + 1 /\ fraction' = 0
       ELSE fraction' = fraction + 1 /\ UNCHANGED now
    /\ UNCHANGED <<mainVars, schedVars, pc, then, runVars, idleVars, pipe, timerVars, ioVars, arrived,
                   fiberVars, panicked>>

Arrive(fd) ==
    /\ arrived < setup.arrivals /\ fd \notin closed
    /\ arrived' = arrived + 1
    /\ data' = [data EXCEPT ![fd] = @ + 1]
    /\ UNCHANGED <<mainVars, schedVars, pc, then, runVars, idleVars, pipe, timerVars, events,
                   pendingEventCnt_, closed, now, fraction, fiberVars, panicked>>

MainStep == (\E f \in Fiber : Submit(f)) \/ MainTickle \/ Stop \/ StopTickle \/ ResumeRoot \/ Join

RunStep(w) == WorkerTickle(w) \/ Scan(w) \/ GoIdle(w) \/ Finish(w) \/ RunWake(w) \/ RunTimeout(w)
FiberStep(w) ==
    Resume(w) \/ Sleep(w) \/ ReadNow(w) \/ ReadAgain(w) \/ AddEvent(w) \/ Close(w) \/ Yield(w)
IdleStep(w) ==
    \/ GetNextTimer(w) \/ Stopping(w) \/ EpollWait(w) \/ ReadClock(w) \/ ListExpiredCb(w)
    \/ PushCb(w) \/ HandleEvent(w) \/ LeaveIdle(w)
WorkerStep(w) == RunStep(w) \/ FiberStep(w) \/ IdleStep(w)

Next ==
    /\ ~panicked
    /\ \/ MainStep \/ Tick
       \/ \E w \in Worker : WorkerStep(w)
       \/ \E fd \in Fd : Arrive(fd)

\* The threads run and the clock goes on; a peer sends only where the setup says so.
Spec ==
    /\ Init /\ [][Next]_vars
    /\ WF_vars(~panicked /\ MainStep) /\ WF_vars(~panicked /\ Tick)
    /\ \A w \in Worker : WF_vars(~panicked /\ WorkerStep(w))
    /\ WF_vars(~panicked /\ setup.peerSends /\ \E fd \in Fd : Arrive(fd))

-----------------------------------------------------------------------------
(* Properties.                                                               *)

\* Every variable keeps its type; the two counts of workers, on which tickle()
\* and stopping() decide, are the workers in idle() and never more than there are.
TypeOK ==
    /\ mainPc \in {"submit", "tickle", "stop", "join", "joined"}
    /\ toSubmit \subseteq Fiber /\ toTickle \in 0 .. Cardinality(Worker)
    /\ idleThreadCnt_ \in 0 .. Cardinality(Worker) /\ activeThreadCnt_ \in 0 .. Cardinality(Worker)
    /\ idleThreadCnt_ = Cardinality({w \in Worker :
            pc[w] \in {"stopping", "stopping2", "wait", "clock", "expire", "push", "leaveIdle"}
            \/ (pc[w] = "tickle" /\ then[w] = "push")})
    /\ \A w \in Worker : pc[w] = "fiber" => state[task[w].fiber] = "RUNNING"
    /\ got \in [Worker -> SUBSET Fd]
    /\ events \in [Fd -> Fiber \cup {None}] /\ pendingEventCnt_ \in 0 .. Cardinality(Fd)
    /\ state \in [Fiber -> {"READY", "RUNNING", "TERM"}]
    /\ phase \in [Fiber -> {"start", "asleep", "addEvent", "waiting"}]
    /\ {isStopped_, pipe, tickled_, panicked} \subseteq BOOLEAN
    /\ fraction \in 0 .. MsLength - 1

\* The places from which fiber f will be scheduled.
Wakes(f) ==
    Cardinality({i \in DOMAIN tasks_ : tasks_[i].kind \in {"fiber", "wake"} /\ tasks_[i].fiber = f})
    + Cardinality({t \in timers_ \cup UNION {cbs[w] : w \in Worker} : t.kind = "wake" /\ t.fiber = f})
    + Cardinality({fd \in Fd : events[fd] = f})
    + Cardinality({w \in Worker : pc[w] = "run" /\ task[w].kind \in {"fiber", "wake"} /\ task[w].fiber = f})
    + IF \E w \in Worker : pc[w] = "tickle" /\ then[w] = "run"
                /\ task[w].kind \in {"fiber", "wake"} /\ task[w].fiber = f THEN 1 ELSE 0

\* A fiber that was handed over and waits has exactly one wake-up to come, from
\* its timer, its event, its cancellation or the queue: with none it would sleep
\* for ever, with two it would be resumed while it runs and the process end.
\* One worker at a time may run waiting fibers for that: the setups of
\* MCIOManager, like FIBER_THREAD_NUM of config.h, give them one.
WokenOnce ==
    /\ ~panicked
    /\ \A f \in Fiber \ toSubmit : Wakes(f) = (IF state[f] = "READY" THEN 1 ELSE 0)
            \/ (state[f] = "RUNNING" /\ phase[f] \in {"asleep", "waiting"} /\ Wakes(f) = 1)

\* When stop() returns, every fiber has run to its end, no timer is armed and no
\* event is pending, whichever of them was waiting when it was called.
StoppedIsDone ==
    mainPc = "joined" =>
        /\ tasks_ = <<>> /\ timers_ = {} /\ pendingEventCnt_ = 0 /\ activeThreadCnt_ = 0
        /\ \A f \in Fiber : state[f] = "TERM"

CallEnds(f) == state[f] = "READY" /\ state'[f] = "RUNNING" /\ call'[f] > call[f]

\* sleep() does not return, and read() does not report ETIMEDOUT, before its time
\* but for two roundings, of the time asked for and of the clock at its start,
\* each of less than a millisecond: whatever else expires, arrives or is closed
\* meanwhile, and however often a timer is looked at, no wait is cut shorter.
NotEarly ==
    [][\A f \in Fiber : CallEnds(f) => Elapsed + 2 * (MsLength - 1) >= wanted[f]]_vars

\* stop() returns, although a task may be queued, or stop() called, just between a
\* worker's last look at the queue and its waiting, when tickle() wakes nobody.
StopReturns == <>(mainPc = "joined")
=============================================================================
