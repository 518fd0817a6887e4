---------------------------- MODULE LThreadProofs ---------------------------
(***************************************************************************)
(* Theorems about LThread for any callers and any number of starts.        *)
(*                                                                         *)
(* Of the first start the flags say more than the code that reads them     *)
(* assumes: while there has been but one, finished or ~running means that  *)
(* the run has been left, and so does being awake for somebody who was not *)
(* woken for no reason.  For such an owner a second start comes after the  *)
(* end of the first run.                                                   *)
(***************************************************************************)
EXTENDS LThread, TLAPS

USE ThreadAssumption

(***************************************************************************)
(* The inductive invariant.                                                *)
(***************************************************************************)
StarterPlaces == {"idle", "check", "asleep", "awake", "launch", "create"}
WaiterPlaces  == {"idle", "check", "sleep", "asleep", "awake", "late", "done"}
StopperPlaces == {"idle", "check", "read", "cancel", "done"}

\* Each caller is at a place of its own call, and the owner starts within the bound.
PlacesOK ==
  /\ pc[Starter] \in StarterPlaces /\ pc[Terminator] \in StopperPlaces
  /\ \A w \in Waiters : pc[w] \in WaiterPlaces
  /\ pc[Starter] \in {"check", "asleep", "awake", "launch"} => starts < MaxStarts
  /\ pc[Starter] \in {"asleep", "awake", "create"} => starts >= 1
  /\ pc[Terminator] = "cancel" => target # NoRun

\* Runs are made one after the other, the latest by the latest start.
MadeInOrder ==
  \A r \in Runs : run[r] # "none" => r <= starts /\ (pc[Starter] = "create" => r < starts)

\* The flags before the first start, and before the second.
FlagsOK ==
  /\ starts = 0 => ~finished /\ ~running
  /\ starts = 1 /\ (finished \/ ~running) => HasEnded(1)

\* Who is awake was woken by the end of a run, or by nobody.
AwakeOK ==
  \A t \in Callers : pc[t] = "awake" /\ t \notin roused => \E r \in Runs : HasEnded(r)

\* The second start is past its wait only when the first run has been left, or
\* nobody woke the owner.
SecondStart ==
  Starter \notin roused /\ (starts = 2 \/ (starts = 1 /\ pc[Starter] \in {"awake", "launch"})) =>
    HasEnded(1)

IInv ==
  /\ TypeOK /\ PlacesOK /\ MadeInOrder /\ FlagsOK /\ AwakeOK /\ SecondStart
  /\ TrueMeansEnded /\ MutexHolders

(***************************************************************************)
(* Lemmas.                                                                 *)
(***************************************************************************)
LEMMA OneIsARun == 1 \in Runs /\ MaxStarts \in Nat /\ MaxStarts >= 1
BY DEF Runs

\* The places of the three kinds of callers are those of pc.
LEMMA PlacesTyped ==
  ASSUME NEW f, f \in [Callers -> StarterPlaces \union WaiterPlaces \union StopperPlaces]
  PROVE  f \in [Callers -> {"idle", "check", "launch", "create", "read", "cancel", "sleep",
                            "asleep", "awake", "late", "done"}]
BY DEF StarterPlaces, WaiterPlaces, StopperPlaces

\* While there has been but one start, some run has ended only if the first has.
LEMMA OnlyTheFirst ==
  ASSUME MadeInOrder, starts = 1, NEW r \in Runs, HasEnded(r)
  PROVE  HasEnded(1)
<1>1. r <= 1 /\ r >= 1 /\ r \in Nat
  BY OneIsARun DEF MadeInOrder, HasEnded, Runs
<1>2. r = 1
  BY <1>1
<1> QED BY <1>2

LEMMA Initially == Init => IInv
<1> SUFFICES ASSUME Init PROVE IInv
  OBVIOUS
<1> USE OneIsARun DEF Init
<1>1. TypeOK
  <2>1. starts \in 0..MaxStarts /\ heard \in [Waiters -> 0..MaxStarts]
    OBVIOUS
  <2> QED BY <2>1 DEF TypeOK
<1>2. PlacesOK
  BY DEF PlacesOK, Callers, StarterPlaces, WaiterPlaces, StopperPlaces
<1>3. MadeInOrder /\ FlagsOK /\ AwakeOK /\ SecondStart
  BY DEF MadeInOrder, FlagsOK, AwakeOK, SecondStart, HasEnded, Callers
<1>4. TrueMeansEnded /\ MutexHolders
  BY DEF TrueMeansEnded, MutexHolders, Callers
<1> QED BY <1>1, <1>2, <1>3, <1>4 DEF IInv

LEMMA StartKeeps == IInv /\ Start => IInv'
<1> USE OneIsARun DEF Callers
<1>1. ASSUME IInv, StartEnter PROVE IInv'
  <2> USE <1>1 DEF IInv, StartEnter, Goto, instance, threads, history
  <2>1. TypeOK' BY DEF TypeOK
  <2>2. PlacesOK' BY DEF PlacesOK, TypeOK, StarterPlaces, WaiterPlaces, StopperPlaces
  <2>3. MadeInOrder' BY DEF MadeInOrder, TypeOK
  <2>4. FlagsOK' /\ TrueMeansEnded' BY DEF FlagsOK, TrueMeansEnded, HasEnded
  <2>5. AwakeOK' /\ SecondStart' BY DEF AwakeOK, SecondStart, HasEnded, TypeOK
  <2>6. MutexHolders' BY DEF MutexHolders, TypeOK, Free
  <2> QED BY <2>1, <2>2, <2>3, <2>4, <2>5, <2>6
<1>2. ASSUME IInv, StartCheck PROVE IInv'
  <2> USE <1>2 DEF IInv, StartCheck, Goto, instance, threads, history
  <2>1. TypeOK' BY DEF TypeOK
  <2>2. PlacesOK' BY DEF PlacesOK, FlagsOK, TypeOK, StarterPlaces, WaiterPlaces, StopperPlaces
  <2>3. MadeInOrder' BY DEF MadeInOrder, TypeOK
  <2>4. FlagsOK' /\ TrueMeansEnded' BY DEF FlagsOK, TrueMeansEnded, HasEnded
  <2>5. AwakeOK' BY DEF AwakeOK, HasEnded, TypeOK
  <2>6. SecondStart' BY DEF SecondStart, FlagsOK, HasEnded, TypeOK
  <2>7. MutexHolders' BY DEF MutexHolders, TypeOK, Free
  <2> QED BY <2>1, <2>2, <2>3, <2>4, <2>5, <2>6, <2>7
<1>3. ASSUME IInv, StartWake PROVE IInv'
  <2> USE <1>3 DEF IInv, StartWake, Goto, instance, threads, history
  <2>1. TypeOK' BY DEF TypeOK
  <2>2. PlacesOK' BY DEF PlacesOK, TypeOK, StarterPlaces, WaiterPlaces, StopperPlaces
  <2>3. MadeInOrder' BY DEF MadeInOrder, TypeOK
  <2>4. FlagsOK' /\ TrueMeansEnded' BY DEF FlagsOK, TrueMeansEnded, HasEnded
  <2>5. AwakeOK' BY DEF AwakeOK, HasEnded, TypeOK
  <2>6. SecondStart' BY DEF SecondStart, HasEnded, TypeOK
  <2>7. starts >= 1 BY DEF PlacesOK, TypeOK
  <2>8. MutexHolders' BY <2>7 DEF MutexHolders, TypeOK, Free
  <2> QED BY <2>1, <2>2, <2>3, <2>4, <2>5, <2>6, <2>8
<1>4. ASSUME IInv, StartLaunch PROVE IInv'
  <2> USE <1>4 DEF IInv, StartLaunch, Goto, threads
  <2>0. starts' \in 0..MaxStarts BY DEF TypeOK, PlacesOK
  <2>1. TypeOK' BY <2>0 DEF TypeOK
  <2>2. PlacesOK' BY DEF PlacesOK, TypeOK, StarterPlaces, WaiterPlaces, StopperPlaces
  <2>3. MadeInOrder' BY DEF MadeInOrder, TypeOK, Runs
  <2>4. FlagsOK' BY DEF FlagsOK, TypeOK
  <2>5. AwakeOK' /\ TrueMeansEnded' BY DEF AwakeOK, TrueMeansEnded, HasEnded, TypeOK
  <2>6. SecondStart' BY DEF SecondStart, HasEnded, TypeOK
  <2>7. MutexHolders' BY DEF MutexHolders, TypeOK
  <2> QED BY <2>1, <2>2, <2>3, <2>4, <2>5, <2>6, <2>7
<1>5. ASSUME IInv, StartCreate PROVE IInv'
  <2> USE <1>5 DEF IInv, StartCreate, Goto, history
  <2>1. TypeOK' BY DEF TypeOK, PlacesOK, Runs
  <2>2. PlacesOK' BY DEF PlacesOK, TypeOK, StarterPlaces, WaiterPlaces, StopperPlaces
  <2>3. MadeInOrder' BY DEF MadeInOrder, TypeOK, Runs
  <2>4. \A r \in Runs : HasEnded(r) => HasEnded(r)'
    BY DEF MadeInOrder, HasEnded, TypeOK
  <2>5. FlagsOK' /\ TrueMeansEnded' BY <2>4 DEF FlagsOK, TrueMeansEnded, TypeOK
  <2>6. AwakeOK' BY <2>4 DEF AwakeOK, TypeOK
  <2>7. SecondStart' BY <2>4 DEF SecondStart, TypeOK
  <2>8. MutexHolders' BY DEF MutexHolders, TypeOK
  <2> QED BY <2>1, <2>2, <2>3, <2>5, <2>6, <2>7, <2>8
<1> QED BY <1>1, <1>2, <1>3, <1>4, <1>5 DEF Start

\* A run that has been left stays so.

LEMMA RunKeeps == IInv /\ (\E r \in Runs : EndRun(r) \/ Finish(r)) => IInv'
<1> USE OneIsARun DEF Callers
<1> SUFFICES ASSUME IInv, NEW r \in Runs, EndRun(r) \/ Finish(r) PROVE IInv'
  OBVIOUS
<1> USE DEF IInv
<1>1. CASE EndRun(r)
  <2> USE <1>1 DEF EndRun, Step, instance, history
  <2>1. TypeOK' BY DEF TypeOK
  <2>2. PlacesOK' BY DEF PlacesOK
  <2>3. MadeInOrder' BY DEF MadeInOrder, TypeOK
  <2>4. \A s \in Runs : HasEnded(s) => HasEnded(s)'
    BY DEF HasEnded, TypeOK
  <2>5. FlagsOK' /\ TrueMeansEnded' BY <2>4 DEF FlagsOK, TrueMeansEnded
  <2>6. AwakeOK' /\ SecondStart' BY <2>4 DEF AwakeOK, SecondStart
  <2>7. MutexHolders' BY DEF MutexHolders
  <2> QED BY <2>1, <2>2, <2>3, <2>5, <2>6, <2>7
<1>2. CASE FinishEnter(r)
  <2> USE <1>2 DEF FinishEnter, Step, instance, history
  <2>1. TypeOK' BY DEF TypeOK
  <2>2. PlacesOK' BY DEF PlacesOK
  <2>3. MadeInOrder' BY DEF MadeInOrder, TypeOK
  <2>4. HasEnded(r) /\ \A s \in Runs : HasEnded(s) => HasEnded(s)'
    BY DEF HasEnded, TypeOK
  <2>5. starts >= 1 /\ (starts = 1 => HasEnded(1))
    BY <2>4, OnlyTheFirst DEF MadeInOrder, HasEnded, TypeOK, Runs
  <2>6. FlagsOK' /\ TrueMeansEnded' BY <2>4, <2>5 DEF FlagsOK, TrueMeansEnded
  <2>7. AwakeOK' /\ SecondStart' BY <2>4 DEF AwakeOK, SecondStart
  <2>8. MutexHolders' BY DEF MutexHolders
  <2> QED BY <2>1, <2>2, <2>3, <2>6, <2>7, <2>8
<1>3. CASE FinishSetFinished(r)
  <2> USE <1>3 DEF FinishSetFinished, Step, instance, history
  <2>1. TypeOK' BY DEF TypeOK
  <2>2. PlacesOK' BY DEF PlacesOK
  <2>3. MadeInOrder' BY DEF MadeInOrder, TypeOK
  <2>4. HasEnded(r) /\ \A s \in Runs : HasEnded(s) => HasEnded(s)'
    BY DEF HasEnded, TypeOK
  <2>5. starts >= 1 /\ (starts = 1 => HasEnded(1))
    BY <2>4, OnlyTheFirst DEF MadeInOrder, HasEnded, TypeOK, Runs
  <2>6. FlagsOK' /\ TrueMeansEnded' BY <2>4, <2>5 DEF FlagsOK, TrueMeansEnded
  <2>7. AwakeOK' /\ SecondStart' BY <2>4 DEF AwakeOK, SecondStart
  <2>8. MutexHolders' BY DEF MutexHolders
  <2> QED BY <2>1, <2>2, <2>3, <2>6, <2>7, <2>8
<1>4. CASE FinishSetNotRunning(r)
  <2> USE <1>4 DEF FinishSetNotRunning, Step, instance, history
  <2>1. TypeOK' BY DEF TypeOK
  <2>2. PlacesOK' BY DEF PlacesOK
  <2>3. MadeInOrder' BY DEF MadeInOrder, TypeOK
  <2>4. HasEnded(r) /\ \A s \in Runs : HasEnded(s) => HasEnded(s)'
    BY DEF HasEnded, TypeOK
  <2>5. starts >= 1 /\ (starts = 1 => HasEnded(1))
    BY <2>4, OnlyTheFirst DEF MadeInOrder, HasEnded, TypeOK, Runs
  <2>6. FlagsOK' /\ TrueMeansEnded' BY <2>4, <2>5 DEF FlagsOK, TrueMeansEnded
  <2>7. AwakeOK' /\ SecondStart' BY <2>4 DEF AwakeOK, SecondStart
  <2>8. MutexHolders' BY DEF MutexHolders
  <2> QED BY <2>1, <2>2, <2>3, <2>6, <2>7, <2>8
<1>5. CASE FinishForgetId(r)
  <2> USE <1>5 DEF FinishForgetId, Step, instance, history
  <2>1. TypeOK' BY DEF TypeOK
  <2>2. PlacesOK' BY DEF PlacesOK
  <2>3. MadeInOrder' BY DEF MadeInOrder, TypeOK
  <2>4. HasEnded(r) /\ \A s \in Runs : HasEnded(s) => HasEnded(s)'
    BY DEF HasEnded, TypeOK
  <2>5. starts >= 1 /\ (starts = 1 => HasEnded(1))
    BY <2>4, OnlyTheFirst DEF MadeInOrder, HasEnded, TypeOK, Runs
  <2>6. FlagsOK' /\ TrueMeansEnded' BY <2>4, <2>5 DEF FlagsOK, TrueMeansEnded
  <2>7. AwakeOK' /\ SecondStart' BY <2>4 DEF AwakeOK, SecondStart
  <2>8. MutexHolders' BY DEF MutexHolders
  <2> QED BY <2>1, <2>2, <2>3, <2>6, <2>7, <2>8
<1>6. CASE FinishBroadcast(r)
  <2> USE <1>6 DEF FinishBroadcast, Step, instance, history
  <2>1. TypeOK' BY DEF TypeOK
  <2>2. PlacesOK' BY DEF PlacesOK, TypeOK, StarterPlaces, WaiterPlaces, StopperPlaces
  <2>3. MadeInOrder' BY DEF MadeInOrder, TypeOK
  <2>4. HasEnded(r) /\ HasEnded(r)' /\ \A s \in Runs : HasEnded(s) => HasEnded(s)'
    BY DEF HasEnded, TypeOK
  <2>5. starts = 1 => HasEnded(1)
    BY <2>4, OnlyTheFirst
  <2>6. FlagsOK' /\ TrueMeansEnded' BY <2>4 DEF FlagsOK, TrueMeansEnded
  <2>7. AwakeOK' BY <2>4 DEF AwakeOK
  <2>8. SecondStart' BY <2>4, <2>5 DEF SecondStart
  <2>9. MutexHolders' BY DEF MutexHolders, TypeOK
  <2> QED BY <2>1, <2>2, <2>3, <2>6, <2>7, <2>8, <2>9
<1> QED BY <1>1, <1>2, <1>3, <1>4, <1>5, <1>6 DEF Finish

LEMMA TerminateKeeps == IInv /\ Terminate => IInv'
<1> USE OneIsARun DEF Callers
<1>1. ASSUME IInv, TerminateEnter PROVE IInv'
  <2> USE <1>1 DEF IInv, TerminateEnter, Goto, instance, threads, history
  <2>1. TypeOK' BY DEF TypeOK
  <2>2. PlacesOK' BY DEF PlacesOK, TypeOK, StarterPlaces, WaiterPlaces, StopperPlaces
  <2>3. MadeInOrder' BY DEF MadeInOrder, TypeOK
  <2>4. FlagsOK' /\ TrueMeansEnded' BY DEF FlagsOK, TrueMeansEnded, HasEnded
  <2>5. AwakeOK' /\ SecondStart' BY DEF AwakeOK, SecondStart, HasEnded, TypeOK
  <2>6. MutexHolders' BY DEF MutexHolders, TypeOK
  <2> QED BY <2>1, <2>2, <2>3, <2>4, <2>5, <2>6
<1>2. ASSUME IInv, TerminateCheck PROVE IInv'
  <2> USE <1>2 DEF IInv, TerminateCheck, Goto, instance, threads, history
  <2>1. TypeOK' BY DEF TypeOK
  <2>2. PlacesOK' BY DEF PlacesOK, TypeOK, StarterPlaces, WaiterPlaces, StopperPlaces
  <2>3. MadeInOrder' BY DEF MadeInOrder, TypeOK
  <2>4. FlagsOK' /\ TrueMeansEnded' BY DEF FlagsOK, TrueMeansEnded, HasEnded
  <2>5. AwakeOK' /\ SecondStart' BY DEF AwakeOK, SecondStart, HasEnded, TypeOK
  <2>6. MutexHolders' BY DEF MutexHolders, TypeOK
  <2> QED BY <2>1, <2>2, <2>3, <2>4, <2>5, <2>6
<1>3. ASSUME IInv, TerminateRead PROVE IInv'
  <2> USE <1>3 DEF IInv, TerminateRead, Goto, instance, threads, history
  <2>1. TypeOK' BY DEF TypeOK
  <2>2. PlacesOK' BY DEF PlacesOK, TypeOK, StarterPlaces, WaiterPlaces, StopperPlaces
  <2>3. MadeInOrder' BY DEF MadeInOrder, TypeOK
  <2>4. FlagsOK' /\ TrueMeansEnded' BY DEF FlagsOK, TrueMeansEnded, HasEnded
  <2>5. AwakeOK' /\ SecondStart' BY DEF AwakeOK, SecondStart, HasEnded, TypeOK
  <2>6. MutexHolders' BY DEF MutexHolders, TypeOK
  <2> QED BY <2>1, <2>2, <2>3, <2>4, <2>5, <2>6
<1>4. ASSUME IInv, TerminateCancel PROVE IInv'
  <2> USE <1>4 DEF IInv, TerminateCancel, Goto, instance, threads, history
  <2>1. TypeOK' BY DEF TypeOK, PlacesOK
  <2>2. PlacesOK' BY DEF PlacesOK, TypeOK, StarterPlaces, WaiterPlaces, StopperPlaces
  <2>3. MadeInOrder' BY DEF MadeInOrder, TypeOK
  <2>4. FlagsOK' /\ TrueMeansEnded' BY DEF FlagsOK, TrueMeansEnded, HasEnded
  <2>5. AwakeOK' /\ SecondStart' BY DEF AwakeOK, SecondStart, HasEnded, TypeOK
  <2>6. MutexHolders' BY DEF MutexHolders, TypeOK
  <2> QED BY <2>1, <2>2, <2>3, <2>4, <2>5, <2>6
<1> QED BY <1>1, <1>2, <1>3, <1>4 DEF Terminate

LEMMA WaitKeeps == IInv /\ (\E w \in Waiters : Wait(w)) => IInv'
<1> USE OneIsARun DEF Callers
<1> SUFFICES ASSUME IInv, NEW w \in Waiters, Wait(w) PROVE IInv'
  OBVIOUS
<1> USE DEF IInv
<1>1. CASE WaitEnter(w)
  <2> USE <1>1 DEF WaitEnter, Goto, instance, threads, history
  <2>1. TypeOK' BY DEF TypeOK
  <2>2. PlacesOK' BY DEF PlacesOK, TypeOK, StarterPlaces, WaiterPlaces, StopperPlaces
  <2>3. MadeInOrder' BY DEF MadeInOrder, TypeOK
  <2>4. FlagsOK' BY DEF FlagsOK, HasEnded
  <2>5. TrueMeansEnded' BY DEF TrueMeansEnded, HasEnded
  <2>6. AwakeOK' /\ SecondStart' BY DEF AwakeOK, SecondStart, HasEnded, TypeOK
  <2>7. MutexHolders' BY DEF MutexHolders, TypeOK, Free
  <2> QED BY <2>1, <2>2, <2>3, <2>4, <2>5, <2>6, <2>7
<1>2. CASE WaitEnded(w)
  <2> USE <1>2 DEF WaitEnded, Goto, instance, threads, history, Return
  <2>1. TypeOK' BY DEF TypeOK
  <2>2. PlacesOK' BY DEF PlacesOK, TypeOK, StarterPlaces, WaiterPlaces, StopperPlaces
  <2>3. MadeInOrder' BY DEF MadeInOrder, TypeOK
  <2>4. FlagsOK' BY DEF FlagsOK, HasEnded
  <2>5. TrueMeansEnded' BY DEF TrueMeansEnded, FlagsOK, HasEnded, TypeOK
  <2>6. AwakeOK' /\ SecondStart' BY DEF AwakeOK, SecondStart, HasEnded, TypeOK
  <2>7. MutexHolders' BY DEF MutexHolders, TypeOK, Free
  <2> QED BY <2>1, <2>2, <2>3, <2>4, <2>5, <2>6, <2>7
<1>3. CASE WaitFound(w)
  <2> USE <1>3 DEF WaitFound, Goto, instance, threads, history
  <2>1. TypeOK' BY DEF TypeOK
  <2>2. PlacesOK' BY DEF PlacesOK, TypeOK, StarterPlaces, WaiterPlaces, StopperPlaces
  <2>3. MadeInOrder' BY DEF MadeInOrder, TypeOK
  <2>4. FlagsOK' BY DEF FlagsOK, HasEnded
  <2>5. TrueMeansEnded' BY DEF TrueMeansEnded, HasEnded
  <2>6. AwakeOK' /\ SecondStart' BY DEF AwakeOK, SecondStart, HasEnded, TypeOK
  <2>7. MutexHolders' BY DEF MutexHolders, TypeOK, Free
  <2> QED BY <2>1, <2>2, <2>3, <2>4, <2>5, <2>6, <2>7
<1>4. CASE WaitSleep(w)
  <2> USE <1>4 DEF WaitSleep, Goto, instance, threads, history
  <2>1. TypeOK' BY DEF TypeOK
  <2>2. PlacesOK' BY DEF PlacesOK, TypeOK, StarterPlaces, WaiterPlaces, StopperPlaces
  <2>3. MadeInOrder' BY DEF MadeInOrder, TypeOK
  <2>4. FlagsOK' BY DEF FlagsOK, HasEnded
  <2>5. TrueMeansEnded' BY DEF TrueMeansEnded, HasEnded
  <2>6. AwakeOK' /\ SecondStart' BY DEF AwakeOK, SecondStart, HasEnded, TypeOK
  <2>7. MutexHolders' BY DEF MutexHolders, TypeOK, Free
  <2> QED BY <2>1, <2>2, <2>3, <2>4, <2>5, <2>6, <2>7
<1>5. CASE WaitTimeout(w)
  <2> USE <1>5 DEF WaitTimeout, Goto, instance, threads, history
  <2>1. TypeOK' BY DEF TypeOK
  <2>2. PlacesOK' BY DEF PlacesOK, TypeOK, StarterPlaces, WaiterPlaces, StopperPlaces
  <2>3. MadeInOrder' BY DEF MadeInOrder, TypeOK
  <2>4. FlagsOK' BY DEF FlagsOK, HasEnded
  <2>5. TrueMeansEnded' BY DEF TrueMeansEnded, HasEnded
  <2>6. AwakeOK' /\ SecondStart' BY DEF AwakeOK, SecondStart, HasEnded, TypeOK
  <2>7. MutexHolders' BY DEF MutexHolders, TypeOK, Free
  <2> QED BY <2>1, <2>2, <2>3, <2>4, <2>5, <2>6, <2>7
<1>6. CASE WaitReturn(w)
  <2> USE <1>6 DEF WaitReturn, Goto, instance, threads, history, Return
  <2>1. TypeOK' BY DEF TypeOK
  <2>2. PlacesOK' BY DEF PlacesOK, TypeOK, StarterPlaces, WaiterPlaces, StopperPlaces
  <2>3. MadeInOrder' BY DEF MadeInOrder, TypeOK
  <2>4. FlagsOK' BY DEF FlagsOK, HasEnded
  <2>5. TrueMeansEnded'
    <3>1. pc[w] = "awake" /\ w \notin roused /\ starts = 1 => HasEnded(1)
      BY OnlyTheFirst DEF AwakeOK
    <3> QED BY <3>1 DEF TrueMeansEnded, HasEnded, TypeOK
  <2>6. AwakeOK' /\ SecondStart' BY DEF AwakeOK, SecondStart, HasEnded, TypeOK
  <2>7. MutexHolders' BY DEF MutexHolders, TypeOK, Free
  <2> QED BY <2>1, <2>2, <2>3, <2>4, <2>5, <2>6, <2>7
<1> QED BY <1>1, <1>2, <1>3, <1>4, <1>5, <1>6 DEF Wait

LEMMA SpuriousKeeps == IInv /\ (\E t \in Waiters \union {Starter} : SpuriousWakeup(t)) => IInv'
<1> USE OneIsARun DEF Callers
<1> SUFFICES ASSUME IInv, NEW t \in Waiters \union {Starter}, SpuriousWakeup(t) PROVE IInv'
  OBVIOUS
<1> USE DEF IInv, SpuriousWakeup, Goto, instance, threads
<1>1. TypeOK' BY DEF TypeOK
<1>2. PlacesOK' BY DEF PlacesOK, TypeOK, StarterPlaces, WaiterPlaces, StopperPlaces
<1>3. MadeInOrder' BY DEF MadeInOrder, TypeOK
<1>4. FlagsOK' BY DEF FlagsOK, HasEnded
<1>5. TrueMeansEnded' BY DEF TrueMeansEnded, HasEnded
<1>6. AwakeOK' /\ SecondStart' BY DEF AwakeOK, SecondStart, HasEnded, TypeOK
<1>7. MutexHolders' BY DEF MutexHolders, TypeOK
<1> QED BY <1>1, <1>2, <1>3, <1>4, <1>5, <1>6, <1>7

LEMMA StutterKeeps == IInv /\ UNCHANGED vars => IInv'
BY DEF IInv, vars, TypeOK, PlacesOK, MadeInOrder, FlagsOK, AwakeOK, SecondStart, TrueMeansEnded,
       MutexHolders, HasEnded, Runs, Callers

(***************************************************************************)
(* Theorems.                                                               *)
(***************************************************************************)
\* The invariant holds in every state of an LThread.
THEOREM Invariance == Spec => []IInv
<1>1. IInv /\ [Next]_vars => IInv'
  BY StartKeeps, RunKeeps, TerminateKeeps, WaitKeeps, SpuriousKeeps, StutterKeeps DEF Next
<1> QED BY Initially, <1>1, PTL DEF Spec

\* Flags, ids and places keep their types.
THEOREM TypeCorrect == Spec => []TypeOK
<1>1. IInv => TypeOK
  BY DEF IInv
<1> QED BY Invariance, <1>1, PTL

\* The runs of the first two starts never overlap, unless the owner is woken by
\* nobody: the second start finds the first run still going and waits, or finds it left.
THEOREM NoOverlap == Spec => []RunsNeverOverlap
<1>1. IInv => RunsNeverOverlap
  <2> SUFFICES ASSUME IInv, starts <= 2, NEW r \in Runs, NEW s \in Runs,
                      Starter \notin roused, run[r] = "body", run[s] = "body"
               PROVE  r = s
    BY DEF RunsNeverOverlap
  <2>1. starts \in Nat /\ r \in 1..starts /\ s \in 1..starts
    BY OneIsARun DEF IInv, TypeOK, MadeInOrder, Runs
  <2>2. starts = 2 => r # 1 /\ s # 1
    BY DEF IInv, SecondStart, HasEnded
  <2> QED BY <2>1, <2>2
<1> QED BY Invariance, <1>1, PTL

\* If there was one start, a wait that no spurious wakeup ends returns true only
\* when run has been left.
THEOREM TrueAlwaysMeansEnded == Spec => []TrueMeansEnded
<1>1. IInv => TrueMeansEnded
  BY DEF IInv
<1> QED BY Invariance, <1>1, PTL

\* The mutex is held by nobody but a waiter inside wait and the owner who has slept
\* in a second or later start, who keeps it.
THEOREM MutexHeldBy == Spec => []MutexHolders
<1>1. IInv => MutexHolders
  BY DEF IInv
<1> QED BY Invariance, <1>1, PTL
=============================================================================
