------------------------------ MODULE LThread -------------------------------
(***************************************************************************)
(* LThread of lthread.cpp, the class every thread of the crawler derives   *)
(* from: start makes a thread that executes run, terminate cancels it, and *)
(* wait waits for its end.                                                 *)
(*                                                                         *)
(* auto_lock_t(&d->mutex) in start, finish and terminate is a temporary:   *)
(* it locks the mutex and unlocks it in the same statement, so it only     *)
(* waits for whoever holds the mutex.  What follows it runs unprotected,   *)
(* one step at a time.  wait alone holds the mutex over its check.         *)
(*                                                                         *)
(* pthread_cond_wait and pthread_cond_timedwait may return although nobody *)
(* has broadcast (SpuriousWakeup).  Both calls stand outside any loop, so  *)
(* such a return is taken for the end of the run.                          *)
(*                                                                         *)
(* A thread is made joinable (pthread_create gets no attribute) and nobody *)
(* joins it, so its id stays good for pthread_cancel when it has ended.    *)
(***************************************************************************)
EXTENDS Naturals, FiniteSets

CONSTANTS
  Starter,       \* the thread that owns the LThread and starts it
  Terminator,    \* the thread that terminates it
  Waiters,       \* threads that wait for its end,
  TimedWaiters,  \* those of them that wait for a limited time
  Nobody,
  MaxStarts      \* bound on the times it is started

ASSUME ThreadAssumption ==
  /\ TimedWaiters \subseteq Waiters
  /\ {Starter, Terminator} \intersect Waiters = {} /\ Starter # Terminator
  /\ Nobody \notin Waiters \union {Starter, Terminator}
  /\ MaxStarts \in Nat \ {0}

Runs  == 1..MaxStarts
NoRun == 0

VARIABLES
  \* LThreadInstance
  finished, running,  \* flags
  thread_id,          \* the run whose thread it is, NoRun for 0
  mutex,              \* who holds it

  \* the callers
  pc,        \* where each of them is
  target,    \* the id terminate has read
  answer,    \* what wait has returned to a waiter

  \* the threads made
  run,       \* where each of them is
  canceled,  \* those that pthread_cancel has been called for

  \* history
  starts,    \* times start has set the flags
  heard,     \* starts, when wait returned to a waiter
  missed,    \* waiters that went to sleep after the last broadcast of the run
  roused     \* callers that have been woken without a broadcast

vars == <<finished, running, thread_id, mutex, pc, target, answer, run, canceled,
          starts, heard, missed, roused>>
instance == <<finished, running, thread_id>>
threads  == <<run, canceled>>
history  == <<starts, heard, missed, roused>>

Callers == Waiters \union {Starter, Terminator}

Goto(t, place) == pc' = [pc EXCEPT ![t] = place]
Free == mutex = Nobody

\* LThreadInstance::init
Init ==
  /\ finished = FALSE /\ running = FALSE /\ thread_id = NoRun
  /\ mutex = Nobody
  /\ pc = [t \in Callers |-> "idle"]
  /\ target = NoRun
  /\ answer = [w \in Waiters |-> "none"]
  /\ run = [r \in Runs |-> "none"]
  /\ canceled = {}
  /\ starts = 0 /\ heard = [w \in Waiters |-> 0] /\ missed = {} /\ roused = {}

(***************************************************************************)
(* start, by its owner.                                                    *)
(***************************************************************************)
StartEnter ==
  /\ pc[Starter] = "idle" /\ starts < MaxStarts
  /\ Free
  /\ Goto(Starter, "check")
  /\ UNCHANGED <<instance, mutex, target, answer, threads, history>>

\* pthread_cond_wait unlocks the mutex, whoever holds it: the temporary has let
\* it go long ago.
StartCheck_Ignores ==
  /\ pc[Starter] = "check"
  /\ Goto(Starter, "launch")
  /\ UNCHANGED <<instance, mutex, target, answer, threads, history>>

StartCheck ==
  /\ pc[Starter] = "check"
  /\ \/ running /\ Goto(Starter, "asleep") /\ mutex' = Nobody
     \/ ~running /\ Goto(Starter, "launch") /\ UNCHANGED mutex
  /\ UNCHANGED <<instance, target, answer, threads, history>>

\* Awake again, it gets the mutex, and nothing in start lets it go.
StartWake ==
  /\ pc[Starter] = "awake"
  /\ Free
  /\ mutex' = Starter
  /\ Goto(Starter, "launch")
  /\ UNCHANGED <<instance, target, answer, threads, history>>

StartLaunch ==
  /\ pc[Starter] = "launch"
  /\ running' = TRUE /\ finished' = FALSE
  /\ starts' = starts + 1
  /\ Goto(Starter, "create")
  /\ UNCHANGED <<thread_id, mutex, target, answer, threads, heard, missed, roused>>

\* pthread_create; its error is returned to callers that never look at it.
StartCreate ==
  /\ pc[Starter] = "create"
  /\ Goto(Starter, "idle")
  /\ \/ thread_id' = starts /\ run' = [run EXCEPT ![starts] = "body"]
     \/ UNCHANGED <<thread_id, run>>
  /\ UNCHANGED <<finished, running, mutex, target, answer, canceled, history>>

(***************************************************************************)
(* The thread made: LThreadInstance::start calls run, and finish when run  *)
(* returns or is cancelled.                                                *)
(***************************************************************************)
Step(r, from, to) == run[r] = from /\ run' = [run EXCEPT ![r] = to]

\* run may return at any time, a cancelled run ends at a cancellation point.
EndRun(r) ==
  /\ Step(r, "body", "finish")
  /\ UNCHANGED <<instance, mutex, pc, target, answer, canceled, history>>

FinishEnter(r) ==
  /\ Step(r, "finish", "unmark")
  /\ Free
  /\ UNCHANGED <<instance, mutex, pc, target, answer, canceled, history>>

FinishSetFinished(r) ==
  /\ Step(r, "unmark", "unrun")
  /\ finished' = TRUE
  /\ UNCHANGED <<running, thread_id, mutex, pc, target, answer, canceled, history>>

FinishSetNotRunning(r) ==
  /\ Step(r, "unrun", "unname")
  /\ running' = FALSE
  /\ UNCHANGED <<finished, thread_id, mutex, pc, target, answer, canceled, history>>

FinishForgetId(r) ==
  /\ Step(r, "unname", "broadcast")
  /\ thread_id' = NoRun
  /\ UNCHANGED <<finished, running, mutex, pc, target, answer, canceled, history>>

\* Everybody asleep wakes up.
FinishBroadcast_Signals(r) ==
  /\ Step(r, "broadcast", "over")
  /\ \/ \E t \in Callers : pc[t] = "asleep" /\ Goto(t, "awake")
     \/ \A t \in Callers : pc[t] # "asleep" /\ UNCHANGED pc
  /\ UNCHANGED <<instance, mutex, target, answer, canceled, history>>

FinishBroadcast(r) ==
  /\ Step(r, "broadcast", "over")
  /\ pc' = [t \in Callers |-> IF pc[t] = "asleep" THEN "awake" ELSE pc[t]]
  /\ UNCHANGED <<instance, mutex, target, answer, canceled, history>>

Finish(r) ==
  \/ FinishEnter(r) \/ FinishSetFinished(r) \/ FinishSetNotRunning(r)
  \/ FinishForgetId(r) \/ FinishBroadcast(r)

(***************************************************************************)
(* terminate.  It reads the id once.                                       *)
(***************************************************************************)
TerminateEnter ==
  /\ pc[Terminator] = "idle"
  /\ Free
  /\ Goto(Terminator, "check")
  /\ UNCHANGED <<instance, mutex, target, answer, threads, history>>

TerminateCheck ==
  /\ pc[Terminator] = "check"
  /\ Goto(Terminator, IF finished \/ ~running THEN "done" ELSE "read")
  /\ UNCHANGED <<instance, mutex, target, answer, threads, history>>

TerminateRead ==
  /\ pc[Terminator] = "read"
  /\ target' = thread_id
  /\ Goto(Terminator, IF thread_id = NoRun THEN "done" ELSE "cancel")
  /\ UNCHANGED <<instance, mutex, answer, threads, history>>

TerminateCancel ==
  /\ pc[Terminator] = "cancel"
  /\ canceled' = canceled \union {target}
  /\ Goto(Terminator, "done")
  /\ UNCHANGED <<instance, mutex, target, answer, run, history>>

Terminate == TerminateEnter \/ TerminateCheck \/ TerminateRead \/ TerminateCancel

(***************************************************************************)
(* wait.                                                                   *)
(***************************************************************************)
Return(w, value) ==
  /\ answer' = [answer EXCEPT ![w] = value]
  /\ heard' = [heard EXCEPT ![w] = starts]
  /\ mutex' = Nobody

WaitEnter(w) ==
  /\ pc[w] = "idle"
  /\ Free
  /\ mutex' = w
  /\ Goto(w, "check")
  /\ UNCHANGED <<instance, target, answer, threads, history>>

\* Nothing to wait for.  A waiter is none of the threads made, so the test of
\* thread_id against the caller fails.
WaitEnded(w) ==
  /\ pc[w] = "check"
  /\ finished \/ ~running
  /\ Return(w, "true")
  /\ Goto(w, "done")
  /\ UNCHANGED <<instance, target, threads, starts, missed, roused>>

\* The check has found a run; it may by now be over, broadcast and all.
WaitFound(w) ==
  /\ pc[w] = "check"
  /\ running /\ ~finished
  /\ Goto(w, "sleep")
  /\ UNCHANGED <<instance, mutex, target, answer, threads, history>>

WaitSleep(w) ==
  /\ pc[w] = "sleep"
  /\ mutex' = Nobody
  /\ Goto(w, "asleep")
  /\ missed' = IF run[starts] = "over" THEN missed \union {w} ELSE missed
  /\ UNCHANGED <<instance, target, answer, threads, starts, heard, roused>>

WaitTimeout(w) ==
  /\ w \in TimedWaiters /\ pc[w] = "asleep"
  /\ Goto(w, "late")
  /\ UNCHANGED <<instance, mutex, target, answer, threads, history>>

\* Awake, the waiter gets the mutex back and returns; it does not look again.
WaitReturn_LateIsTrue(w) ==
  /\ pc[w] \in {"awake", "late"}
  /\ Free
  /\ Return(w, "true")
  /\ Goto(w, "done")
  /\ UNCHANGED <<instance, target, threads, starts, missed, roused>>

WaitReturn(w) ==
  /\ pc[w] \in {"awake", "late"}
  /\ Free
  /\ Return(w, IF pc[w] = "awake" THEN "true" ELSE "false")
  /\ Goto(w, "done")
  /\ UNCHANGED <<instance, target, threads, starts, missed, roused>>

\* The wait of start or of wait returns for no reason.
SpuriousWakeup(t) ==
  /\ pc[t] = "asleep"
  /\ Goto(t, "awake")
  /\ roused' = roused \union {t}
  /\ UNCHANGED <<instance, mutex, target, answer, threads, starts, heard, missed>>

Wait(w) ==
  WaitEnter(w) \/ WaitEnded(w) \/ WaitFound(w) \/ WaitSleep(w) \/ WaitTimeout(w) \/ WaitReturn(w)

Start == StartEnter \/ StartCheck \/ StartWake \/ StartLaunch \/ StartCreate

Next ==
  \/ Start \/ Terminate
  \/ \E r \in Runs : EndRun(r) \/ Finish(r)
  \/ \E w \in Waiters : Wait(w)
  \/ \E t \in Waiters \union {Starter} : SpuriousWakeup(t)

\* Threads get on with what they have begun.  Nobody has to call anything, a run
\* has to end only if it is cancelled, and a mutex that is free again and again
\* is got in the end.
Fairness ==
  /\ WF_vars(StartCheck \/ StartLaunch \/ StartCreate) /\ SF_vars(StartWake)
  /\ WF_vars(TerminateCheck \/ TerminateRead \/ TerminateCancel)
  /\ \A r \in Runs :
       /\ WF_vars(r \in canceled /\ EndRun(r))
       /\ SF_vars(Finish(r))
  /\ \A w \in Waiters :
       /\ WF_vars(WaitEnded(w) \/ WaitFound(w) \/ WaitSleep(w) \/ WaitTimeout(w))
       /\ SF_vars(WaitReturn(w))

Spec == Init /\ [][Next]_vars /\ Fairness

(***************************************************************************)
(* Properties.                                                             *)
(***************************************************************************)
TypeOK ==
  /\ finished \in BOOLEAN /\ running \in BOOLEAN
  /\ thread_id \in Runs \union {NoRun} /\ target \in Runs \union {NoRun}
  /\ mutex \in Callers \union {Nobody}
  /\ pc \in [Callers -> {"idle", "check", "launch", "create", "read", "cancel", "sleep",
                         "asleep", "awake", "late", "done"}]
  /\ answer \in [Waiters -> {"none", "true", "false"}]
  /\ run \in [Runs -> {"none", "body", "finish", "unmark", "unrun", "unname", "broadcast", "over"}]
  /\ canceled \subseteq Runs
  /\ starts \in 0..MaxStarts /\ heard \in [Waiters -> 0..MaxStarts] /\ missed \subseteq Waiters
  /\ roused \subseteq Callers

HasEnded(r) == run[r] \notin {"none", "body"}

\* Started once more by its owner, an LThread never executes run twice at a time,
\* but for an owner whom nobody had woken.  (A third start may anyway: the first run,
\* on its way to its broadcast while the second is already running, then wakes the
\* owner who waits for the second.)
RunsNeverOverlap ==
  starts <= 2 /\ Starter \notin roused =>
    \A r, s \in Runs : run[r] = "body" /\ run[s] = "body" => r = s

\* What is left of the promise of wait, for an LThread that is started once: true
\* means that run has been left, in spite of the flags that change unprotected,
\* unless the waiter was woken by nobody.
TrueMeansEnded ==
  \A w \in Waiters \ roused : answer[w] = "true" /\ heard[w] = 1 => HasEnded(1)

\* What the header promises: without a time limit, wait lasts until the thread has
\* ended.  It does not, since a wakeup for no reason ends it.
UntimedWaitsToTheEnd ==
  \A w \in Waiters \ TimedWaiters : pc[w] = "done" /\ heard[w] = 1 => HasEnded(1)

\* Who may hold the mutex: a waiter until it sleeps or returns, and the owner who
\* has slept in a second or later start, from then on and for as long as he likes.
\* No other caller does, nor a waiter that has returned.
MutexHolders ==
  \A t \in Callers : mutex = t =>
    \/ t \in Waiters /\ pc[t] \in {"check", "sleep"}
    \/ t = Starter /\ starts + (IF pc[t] = "launch" THEN 1 ELSE 0) > 1

\* A wait returns once run has ended or has been cancelled, unless the broadcast
\* came when the waiter had looked and was not asleep yet.  One with a time limit
\* returns in any case.
WaitReturns ==
  [](starts <= 1) =>
    \A w \in Waiters :
      /\ pc[w] # "idle" /\ (HasEnded(1) \/ 1 \in canceled) ~> pc[w] = "done" \/ w \in missed
      /\ w \in TimedWaiters => (pc[w] = "asleep" ~> pc[w] = "done")
==============================================================================
