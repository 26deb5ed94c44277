--------------------------- MODULE ShutdownProofs ---------------------------
(***************************************************************************)
(* What Shutdown promises for any number of threads, wakeups, callbacks,   *)
(* signals and loop slots: types, no lost stop, no lost notification, the  *)
(* callbacks' exactly-once run in reverse order, the reason of the stop,   *)
(* the loops' names, and that a released Registration is over.             *)
(*                                                                         *)
(* None of them is inductive alone.  Who holds m and regMutex is where its *)
(* holder is (MutexOK); the watcher's place tells whether stopping is set  *)
(* (StopOK); the vector, the Registrations and the calls of onStop under   *)
(* way fit together (RegOK); and the loop over the callbacks has a front   *)
(* that separates what ran from what has to run (RunOK).                   *)
(***************************************************************************)
EXTENDS Shutdown, SequenceTheorems, TLAPS

BeforeStop == {"off", "first", "arm", "publish"}
Waiting    == {"wait", "falling", "blocked", "woken", "expired"}
InOnStop   == {"push", "inline"}

TargetOK ==
    \A t \in Threads :
        /\ pc[t] \in InOnStop => target[t] \in Ids
        /\ pc[t] \in Waiting => target[t] \in Wakeups \cup {NoOne}

MutexOK ==
    /\ \A t \in Threads : m = t <=> pc[t] = "falling"
    /\ \A t \in Threads : regMutex = t <=> pc[t] = "push"
    /\ regMutex = Watcher <=> watcher \in LoopStates

StopOK ==
    /\ stopping <=> watcher \notin BeforeStop
    /\ main = "start" => watcher = "off"
    /\ first = "none" <=> watcher \in {"off", "first"}
    /\ watcher \notin {"off", "first", "arm"} => armed /\ reason = first
    /\ stopping => \A t \in Threads : pc[t] # "falling"
    /\ \A t \in Threads : pc[t] = "inline" => stopping
    /\ watcher \in AfterLoop => \A t \in Threads : pc[t] # "push"

RegOK ==
    /\ \A c \in Ids : c \in callbacks <=> reg[c] = "registered"
    /\ \A c \in Ids : reg[c] = "none" <=> c >= nextId
    /\ \A t \in Threads : pc[t] \in InOnStop => reg[target[t]] = "calling"
    /\ \A t, u \in Threads :
          pc[t] \in InOnStop /\ pc[u] \in InOnStop /\ target[t] = target[u] => t = u

RunOK ==
    /\ todo \subseteq callbacks
    /\ watcher \notin LoopStates => todo = {}
    /\ \A c \in Ids : runs[c] > 0 => stopping
    /\ \A c \in Ids : runs[c] <= 1
    /\ \A c \in Ids : reg[c] \in {"none", "calling"} => runs[c] = 0
    /\ \A c \in Ids : reg[c] = "inline" => runs[c] = 1
    /\ \A c \in callbacks :
          runs[c] = IF watcher \in LoopStates \cup AfterLoop /\ c \notin todo THEN 1 ELSE 0
    /\ \A c \in callbacks \ todo, d \in todo : d < c

\* The function that is being pushed is the newest.
PushIsNewest == \A t \in Threads : pc[t] = "push" => nextId = target[t] + 1

FallingOK ==
    \A t \in Threads :
        pc[t] = "falling" /\ target[t] \in Wakeups => ~woken[target[t]]

TypeInv == TypeOK /\ TargetOK
LockInv == MutexOK /\ StopOK
ListInv == RegOK /\ RunOK
WaitInv == FallingOK /\ NoLostStop /\ NoLostNotify
IInv    == TypeInv /\ LockInv /\ ListInv /\ PushIsNewest /\ WaitInv /\ LoopsAreNamed

-----------------------------------------------------------------------------
(* Types.                                                                  *)

\* Writing to the pipe keeps it a sequence of events within its capacity.
LEMMA WriteByteType ==
    ASSUME NEW e \in Events, WriteByte(e), pipe \in Seq(Events), Len(pipe) <= PipeCap,
           PipeCap \in Nat
    PROVE  pipe' \in Seq(Events) /\ Len(pipe') <= PipeCap
<1>1. CASE Len(pipe) < PipeCap
  <2>1. pipe' = Append(pipe, e)
    BY <1>1 DEF WriteByte
  <2>2. Append(pipe, e) \in Seq(Events) /\ Len(Append(pipe, e)) = Len(pipe) + 1
    BY AppendProperties
  <2>3. Len(pipe) \in Nat
    BY LenProperties
  <2>4. QED
    BY <1>1, <2>1, <2>2, <2>3
<1>2. CASE ~(Len(pipe) < PipeCap)
  BY <1>2 DEF WriteByte
<1>3. QED
  BY <1>1, <1>2

\* Reading the pipe keeps it a sequence of events within its capacity.
LEMMA ReadByteType ==
    ASSUME pipe \in Seq(Events), Len(pipe) <= PipeCap, PipeCap \in Nat, pipe # <<>>
    PROVE  /\ Head(pipe) \in Events
           /\ Tail(pipe) \in Seq(Events) /\ Len(Tail(pipe)) <= PipeCap
<1>1. /\ Head(pipe) \in Events /\ Tail(pipe) \in Seq(Events)
      /\ Len(Tail(pipe)) = Len(pipe) - 1
  BY HeadTailProperties
<1>2. Len(pipe) \in Nat
  BY LenProperties
<1>3. QED
  BY <1>1, <1>2

\* Delivering a signal changes the pipe, within its type, or ends the process.
LEMMA DeliverType ==
    ASSUME TypeOK, NEW s \in Signals, Deliver(s)
    PROVE  /\ pipe' \in Seq(Events) /\ Len(pipe') <= PipeCap
           /\ proc' \in {"alive", "exited", "forced", "alarm", "killed"}
<1>1. s \in Events /\ PipeCap \in Nat /\ pipe \in Seq(Events) /\ Len(pipe) <= PipeCap
  BY BoundAssumption DEF Events, TypeOK
<1>2. CASE WriteByte(s) /\ UNCHANGED proc
  BY <1>1, <1>2, WriteByteType DEF TypeOK
<1>3. CASE UNCHANGED pipe
  BY <1>1, <1>3 DEF Deliver, TypeOK
<1>4. QED
  BY <1>2, <1>3 DEF Deliver

\* The calls that choose a target, or read it, keep the types.
LEMMA BeginWaitType ==
    ASSUME TypeInv, NEW t \in Threads, BeginWait(t)
    PROVE  TypeInv'
<1> USE DEF TypeInv, TypeOK, TargetOK, Waiting, InOnStop, ThreadPcs, Goto
<1>1. PICK x \in Wakeups \cup {NoOne} : target' = [target EXCEPT ![t] = x]
  BY DEF BeginWait
<1>2. pc' = [pc EXCEPT ![t] = "wait"]
  BY DEF BeginWait
<1>3. TargetOK'
  BY <1>1, <1>2
<1>4. TypeOK'
  BY <1>1, <1>2 DEF BeginWait, procVars, signalVars, stopVars, cvVars, regVars,
                    watchVars, timeVars, loopVars
<1>5. QED
  BY <1>3, <1>4

\* Checking the predicate of a wait keeps the types.
LEMMA CheckWaitType ==
    ASSUME TypeInv, NEW t \in Threads, CheckWait(t)
    PROVE  TypeInv'
<1> USE DEF TypeInv, TypeOK, TargetOK, Waiting, InOnStop, ThreadPcs, Goto
<1>1. woken' \in [Wakeups -> BOOLEAN] /\ m' \in Threads \cup {NoOne}
  BY DEF CheckWait
<1>2. UNCHANGED <<procVars, signalVars, stopVars, regVars, watchVars, timeVars,
                   loopVars>>
  BY DEF CheckWait
<1>3. CASE /\ pc' = [pc EXCEPT ![t] = "idle"]
           /\ target' = [target EXCEPT ![t] = NoOne]
  <2>1. TargetOK'
    BY <1>3
  <2>2. TypeOK'
    BY <1>1, <1>2, <1>3 DEF procVars, signalVars, stopVars, cvVars, regVars,
                            watchVars, timeVars, loopVars
  <2>3. QED
    BY <2>1, <2>2
<1>4. CASE pc' = [pc EXCEPT ![t] = "falling"] /\ target' = target /\ pc[t] \in Waiting
  <2>1. TargetOK'
    BY <1>4
  <2>2. TypeOK'
    BY <1>1, <1>2, <1>4 DEF procVars, signalVars, stopVars, cvVars, regVars,
                            watchVars, timeVars, loopVars
  <2>3. QED
    BY <2>1, <2>2
<1>5. QED
  BY <1>3, <1>4 DEF CheckWait

\* onStop takes the next id, which is still within the bound.
LEMMA OnStopType ==
    ASSUME TypeInv, NEW t \in Threads, OnStop(t)
    PROVE  TypeInv'
<1> USE DEF TypeInv, TypeOK, TargetOK, Waiting, InOnStop, ThreadPcs, Goto
<1>1. nextId \in Ids /\ nextId' \in 1..MaxCallbacks + 1
  BY BoundAssumption DEF OnStop, Ids
<1>2. /\ target' = [target EXCEPT ![t] = nextId]
      /\ reg' = [reg EXCEPT ![nextId] = "calling"]
      /\ UNCHANGED <<procVars, signalVars, stopVars, cvVars, callbacks, runs,
                     watchVars, timeVars, loopVars>>
  BY DEF OnStop
<1>3. PICK to \in InOnStop : pc' = [pc EXCEPT ![t] = to]
  BY DEF OnStop
<1>4. regMutex' \in Threads \cup {Watcher, NoOne}
  BY DEF OnStop
<1>5. TargetOK'
  BY <1>1, <1>2, <1>3
<1>6. TypeOK'
  BY <1>1, <1>2, <1>3, <1>4 DEF procVars, signalVars, stopVars, cvVars, watchVars,
                               timeVars, loopVars
<1>7. QED
  BY <1>5, <1>6

\* Pushing the function onto the list keeps the types.
LEMMA PushType ==
    ASSUME TypeInv, NEW t \in Threads, Push(t)
    PROVE  TypeInv'
<1> USE DEF TypeInv, TypeOK, TargetOK, Waiting, InOnStop, ThreadPcs, Goto
<1>1. target[t] \in Ids
  BY DEF Push
<1>2. /\ target' = [target EXCEPT ![t] = NoOne]
      /\ pc' = [pc EXCEPT ![t] = "idle"]
      /\ reg' = [reg EXCEPT ![target[t]] = "registered"]
      /\ callbacks' = callbacks \cup {target[t]}
      /\ regMutex' = NoOne
      /\ UNCHANGED <<procVars, signalVars, stopVars, cvVars, nextId, runs,
                     watchVars, timeVars, loopVars>>
  BY DEF Push
<1>3. TargetOK'
  BY <1>2
<1>4. TypeOK'
  BY <1>1, <1>2 DEF procVars, signalVars, stopVars, cvVars, watchVars, timeVars, loopVars
<1>5. QED
  BY <1>3, <1>4

\* Running the function on its caller keeps the types.
LEMMA RunInlineType ==
    ASSUME TypeInv, NEW t \in Threads, RunInline(t)
    PROVE  TypeInv'
<1> USE DEF TypeInv, TypeOK, TargetOK, Waiting, InOnStop, ThreadPcs, Goto
<1>1. target[t] \in Ids /\ runs[target[t]] + 1 \in Nat
  BY DEF RunInline
<1>2. /\ target' = [target EXCEPT ![t] = NoOne]
      /\ pc' = [pc EXCEPT ![t] = "idle"]
      /\ runs' = [runs EXCEPT ![target[t]] = runs[target[t]] + 1]
      /\ reg' = [reg EXCEPT ![target[t]] = "inline"]
      /\ UNCHANGED <<procVars, signalVars, stopVars, cvVars, regMutex, callbacks,
                     nextId, watchVars, timeVars, loopVars>>
  BY DEF RunInline
<1>3. TargetOK'
  BY <1>2
<1>4. TypeOK'
  BY <1>1, <1>2 DEF procVars, signalVars, stopVars, cvVars, watchVars, timeVars, loopVars
<1>5. QED
  BY <1>3, <1>4

\* The probe of a Loop constructor stays within one slot past the last.
LEMMA ClaimSlotType ==
    ASSUME TypeInv, NEW t \in Threads, ClaimSlot(t)
    PROVE  TypeInv'
<1> USE DEF TypeInv, TypeOK, TargetOK, Waiting, InOnStop, ThreadPcs, Goto
<1>1. probe[t] \in 0..LoopSlotCount + 1 /\ LoopSlotCount \in Nat
  BY BoundAssumption
<1>2. slots' \in [1..LoopSlotCount -> Threads \cup {NoOne}]
  <2>1. CASE slots' = [slots EXCEPT ![probe[t]] = t]
    BY <2>1
  <2>2. QED
    BY <2>1 DEF ClaimSlot, loopVars
<1>3. probe' \in [Threads -> 0..LoopSlotCount + 1]
  <2>1. CASE probe[t] <= LoopSlotCount /\ probe' = [probe EXCEPT ![t] = probe[t] + 1]
    BY <1>1, <2>1
  <2>2. QED
    BY <2>1 DEF ClaimSlot, loopVars
<1>4. pc' = pc \/ pc' = [pc EXCEPT ![t] = "idle"]
  BY DEF ClaimSlot
<1>5. UNCHANGED <<procVars, signalVars, stopVars, cvVars, regVars, watchVars,
                   timeVars, target>>
  BY DEF ClaimSlot
<1>6. TargetOK'
  BY <1>4, <1>5
<1>7. pc' \in [Threads -> ThreadPcs]
  BY <1>4
<1>8. TypeOK'
  BY <1>2, <1>3, <1>5, <1>7 DEF procVars, signalVars, stopVars, cvVars, regVars,
                                watchVars, timeVars
<1>9. QED
  BY <1>6, <1>8

\* The steps of request keep the types: what it writes fits in the pipe.
LEMMA RequestType ==
    ASSUME TypeInv, NEW t \in Threads, Request(t) \/ RequestWrites(t) \/ RequestKills(t)
    PROVE  TypeInv'
<1> USE DEF TypeInv, TypeOK, TargetOK, Waiting, InOnStop, ThreadPcs, Goto
<1>1. PICK to \in {"idle", "requesting", "killing"} : pc' = pc \/ pc' = [pc EXCEPT ![t] = to]
  BY DEF Request, RequestWrites, RequestKills
<1>2. /\ pipe' \in Seq(Events) /\ Len(pipe') <= PipeCap
      /\ proc' \in {"alive", "exited", "forced", "alarm", "killed"}
  <2>1. CASE Request(t)
    BY <2>1 DEF Request, procVars, signalVars
  <2>2. CASE RequestWrites(t)
    BY <2>2, WriteByteType, BoundAssumption DEF RequestWrites, procVars, Events
  <2>3. CASE RequestKills(t)
    BY <2>3, DeliverType DEF RequestKills, Signals
  <2>4. QED
    BY <2>1, <2>2, <2>3
<1>3. UNCHANGED <<main, installed, quit, handler, warned, nSignals, stopVars, cvVars,
                   regVars, watchVars, timeVars, target, loopVars>>
  BY DEF Request, RequestWrites, RequestKills, procVars, signalVars
<1>4. TargetOK'
  BY <1>1, <1>3
<1>5. TypeOK'
  BY <1>1, <1>2, <1>3 DEF stopVars, cvVars, regVars, watchVars, timeVars, loopVars
<1>6. QED
  BY <1>4, <1>5

\* A signal from outside keeps the types.
LEMMA SignalType ==
    ASSUME TypeInv, NEW s \in Signals, Signal(s)
    PROVE  TypeInv'
<1> USE DEF TypeInv, TypeOK, TargetOK
<1>1. /\ pipe' \in Seq(Events) /\ Len(pipe') <= PipeCap
      /\ proc' \in {"alive", "exited", "forced", "alarm", "killed"}
  BY DeliverType DEF Signal
<1>2. nSignals' \in Nat
  BY DEF Signal
<1>3. UNCHANGED <<main, installed, quit, handler, warned, stopVars, cvVars,
                   regVars, watchVars, timeVars, threadVars, loopVars>>
  BY DEF Signal
<1>4. QED
  BY <1>1, <1>2, <1>3 DEF stopVars, cvVars, regVars, watchVars, timeVars, threadVars,
                          loopVars

\* checkHandlers warns about signals only.
LEMMA CheckHandlersType == TypeInv /\ CheckHandlers => TypeInv'
<1> SUFFICES ASSUME TypeInv, CheckHandlers PROVE TypeInv'
  OBVIOUS
<1>1. warned' \subseteq Signals
  BY DEF CheckHandlers, TypeInv, TypeOK
<1>2. QED
  BY <1>1 DEF CheckHandlers, TypeInv, TypeOK, TargetOK, procVars, signalVars, stopVars,
              cvVars, regVars, watchVars, timeVars, threadVars, loopVars

\* What a callback does keeps the types.
LEMMA CallbackBodyType == TypeInv /\ CallbackBody => TypeInv'
<1> SUFFICES ASSUME TypeInv, CallbackBody PROVE TypeInv'
  OBVIOUS
<1>1. woken' \in [Wakeups -> BOOLEAN] /\ watcher' \in WatcherPcs
  BY DEF CallbackBody, TypeInv, TypeOK, WatcherPcs
<1>2. QED
  BY <1>1 DEF CallbackBody, TypeInv, TypeOK, TargetOK, procVars, signalVars, stopVars,
              cvVars, regVars, watchVars, timeVars, threadVars, loopVars

\* Every step keeps the types.
LEMMA TypeKeeps ==
    ASSUME TypeInv, [Next]_vars
    PROVE  TypeInv'
<1> USE DEF procVars, signalVars, stopVars, cvVars, regVars, watchVars, timeVars,
            threadVars, loopVars
<1>1. CASE InstallPipe
  BY <1>1 DEF InstallPipe, TypeInv, TypeOK, TargetOK, WatcherPcs
<1>2. CASE \E s \in Signals : InstallHandler(s)
  BY <1>2 DEF InstallHandler, TypeInv, TypeOK, TargetOK, Events, Signals
<1>3. CASE InstallFlag
  BY <1>3 DEF InstallFlag, TypeInv, TypeOK, TargetOK
<1>4. CASE ExecReturns
  BY <1>4 DEF ExecReturns, TypeInv, TypeOK, TargetOK
<1>5. CASE Finish
  BY <1>5 DEF Finish, TypeInv, TypeOK, TargetOK
<1>6. CASE \E t \in Threads : Block(t)
  BY <1>6 DEF Block, Goto, TypeInv, TypeOK, TargetOK, Waiting, InOnStop, ThreadPcs
<1>7. CASE \E t \in Threads : WaitExpires(t)
  BY <1>7 DEF WaitExpires, Goto, TypeInv, TypeOK, TargetOK, Waiting, InOnStop, ThreadPcs
<1>8. CASE \E t \in Threads : Notify(t)
  BY <1>8 DEF Notify, Goto, May, TypeInv, TypeOK, TargetOK, Waiting, InOnStop, ThreadPcs
<1>9. CASE \E t \in Threads : NotifyWakes(t)
  BY <1>9 DEF NotifyWakes, Wake, TypeInv, TypeOK, TargetOK, Waiting, InOnStop, ThreadPcs
<1>10. CASE \E t \in Threads : Release(t)
  BY <1>10 DEF Release, May, TypeInv, TypeOK, TargetOK, Waiting, InOnStop, ThreadPcs
<1>11. CASE \E t \in Threads : BeginLoop(t)
  BY <1>11, BoundAssumption DEF BeginLoop, Goto, May, TypeInv, TypeOK, TargetOK,
                                Waiting, InOnStop, ThreadPcs
<1>12. CASE \E t \in Threads : Leave(t)
  BY <1>12, BoundAssumption DEF Leave, Goto, TypeInv, TypeOK, TargetOK, Waiting,
                                InOnStop, ThreadPcs
<1>13. CASE \E t \in Threads : Hang(t)
  BY <1>13 DEF Hang, Goto, May, TypeInv, TypeOK, TargetOK, Waiting, InOnStop, ThreadPcs
<1>14. CASE FirstEvent
  BY <1>14, ReadByteType, BoundAssumption DEF FirstEvent, TypeInv, TypeOK, TargetOK,
                                              WatcherPcs, Events, Signals
<1>15. CASE Arm
  BY <1>15 DEF Arm, TypeInv, TypeOK, TargetOK, WatcherPcs, Events, Signals
<1>16. CASE Publish
  BY <1>16 DEF Publish, TypeInv, TypeOK, TargetOK, WatcherPcs
<1>17. CASE WakeAll
  BY <1>17 DEF WakeAll, Wake, TypeInv, TypeOK, TargetOK, Waiting, InOnStop, ThreadPcs,
               WatcherPcs
<1>18. CASE LockRegistry
  BY <1>18 DEF LockRegistry, TypeInv, TypeOK, TargetOK, WatcherPcs
<1>19. CASE StartCallback
  BY <1>19 DEF StartCallback, TypeInv, TypeOK, TargetOK, WatcherPcs
<1>20. CASE CallbackNotifies
  BY <1>20 DEF CallbackNotifies, Wake, TypeInv, TypeOK, TargetOK, Waiting, InOnStop,
               ThreadPcs, WatcherPcs
<1>21. CASE UnlockRegistry
  BY <1>21 DEF UnlockRegistry, TypeInv, TypeOK, TargetOK, WatcherPcs
<1>22. CASE QueueQuit
  BY <1>22 DEF QueueQuit, TypeInv, TypeOK, TargetOK, WatcherPcs
<1>23. CASE NextEvent
  BY <1>23, ReadByteType, BoundAssumption DEF NextEvent, TypeInv, TypeOK, TargetOK,
                                              WatcherPcs, Events, Signals
<1>24. CASE DeadlineReached
  BY <1>24 DEF DeadlineReached, TypeInv, TypeOK, TargetOK, WatcherPcs
<1>25. CASE ForcedExit
  BY <1>25 DEF ForcedExit, TypeInv, TypeOK, TargetOK
<1>26. CASE DeadlinePasses
  BY <1>26 DEF DeadlinePasses, TypeInv, TypeOK, TargetOK
<1>27. CASE AlarmDue
  BY <1>27 DEF AlarmDue, TypeInv, TypeOK, TargetOK
<1>28. CASE AlarmKills
  BY <1>28 DEF AlarmKills, TypeInv, TypeOK, TargetOK
<1>29. CASE \E s \in Signals : ReplaceHandler(s)
  BY <1>29 DEF ReplaceHandler, TypeInv, TypeOK, TargetOK
<1>30. CASE UNCHANGED vars
  BY <1>30 DEF vars, TypeInv, TypeOK, TargetOK
<1>31. QED
  BY <1>1, <1>2, <1>3, <1>4, <1>5, <1>6, <1>7, <1>8, <1>9, <1>10, <1>11, <1>12, <1>13,
     <1>14, <1>15, <1>16, <1>17, <1>18, <1>19, <1>20, <1>21, <1>22, <1>23, <1>24, <1>25,
     <1>26, <1>27, <1>28, <1>29, <1>30,
     BeginWaitType, CheckWaitType, OnStopType, PushType, RunInlineType, RequestType,
     ClaimSlotType, SignalType, CheckHandlersType, CallbackBodyType
  DEF Next, MainStep, WatcherStep, TimeStep, Environment, WorkerStep, WaitStep, RegStep,
      OtherStep, Ended
-----------------------------------------------------------------------------
(* The kinds of steps, and what each leaves alone.                         *)

\* The steps of a worker that neither take nor release a mutex.
PlainStep(t) ==
    \/ BeginWait(t) \/ WaitExpires(t) \/ Notify(t) \/ NotifyWakes(t) \/ RunInline(t)
    \/ Release(t) \/ Request(t) \/ RequestWrites(t) \/ RequestKills(t)
    \/ BeginLoop(t) \/ ClaimSlot(t) \/ Leave(t) \/ Hang(t)

\* The watcher goes on, outside of its loop over the callbacks.
WatcherMove ==
    \/ InstallPipe \/ FirstEvent \/ Arm \/ Publish \/ QueueQuit \/ NextEvent
    \/ DeadlineReached

\* The steps that leave the workers and the watcher where they are.
FarStep ==
    \/ \E s \in Signals : InstallHandler(s) \/ Signal(s) \/ ReplaceHandler(s)
    \/ InstallFlag \/ ExecReturns \/ Finish \/ CheckHandlers \/ ForcedExit
    \/ DeadlinePasses \/ AlarmDue \/ AlarmKills \/ UNCHANGED vars

\* Every step is of one of these kinds.
LEMMA StepKinds ==
    ASSUME [Next]_vars
    PROVE  \/ FarStep \/ WatcherMove
           \/ \E t \in Threads :
                 PlainStep(t) \/ CheckWait(t) \/ Block(t) \/ OnStop(t) \/ Push(t)
           \/ WakeAll \/ LockRegistry \/ StartCallback \/ CallbackBody
           \/ CallbackNotifies \/ UnlockRegistry
BY DEF Next, MainStep, WatcherStep, TimeStep, Environment, WorkerStep, WaitStep, RegStep,
       OtherStep, Ended, FarStep, WatcherMove, PlainStep

\* A far step leaves alone what the other parts of the invariant speak of.
LEMMA FarFrame ==
    ASSUME FarStep
    PROVE  /\ UNCHANGED <<stopping, reason, m, woken, regMutex, callbacks, nextId, reg,
                          runs, watcher, todo, first, armed, pc, target, slots, probe>>
           /\ main' = "start" => main = "start"
<1> USE DEF procVars, stopVars, cvVars, regVars, watchVars, timeVars, threadVars, loopVars
<1>1. CASE \E s \in Signals : InstallHandler(s) \/ Signal(s) \/ ReplaceHandler(s)
  BY <1>1 DEF InstallHandler, Signal, ReplaceHandler, Signals
<1>2. CASE InstallFlag \/ ExecReturns \/ Finish \/ CheckHandlers \/ ForcedExit
  BY <1>2 DEF InstallFlag, ExecReturns, Finish, CheckHandlers, ForcedExit
<1>3. CASE DeadlinePasses \/ AlarmDue \/ AlarmKills \/ UNCHANGED vars
  BY <1>3 DEF DeadlinePasses, AlarmDue, AlarmKills, vars
<1>4. QED
  BY <1>1, <1>2, <1>3 DEF FarStep

\* A move of the watcher leaves the workers and the callbacks alone.
LEMMA MoveFrame ==
    ASSUME WatcherMove
    PROVE  /\ UNCHANGED <<m, woken, regMutex, callbacks, nextId, reg, runs, todo, pc,
                          target, slots, probe>>
           /\ watcher \notin LoopStates \/ main = "start"
           /\ watcher' \notin LoopStates \/ watcher' = watcher
BY DEF WatcherMove, InstallPipe, FirstEvent, Arm, Publish, QueueQuit, NextEvent,
       DeadlineReached, procVars, stopVars, cvVars, regVars, watchVars, timeVars,
       threadVars, loopVars, LoopStates

\* A plain step moves no worker into or out of the places where a mutex is held, and
\* blocks nobody.
LEMMA PlainFrame ==
    ASSUME TypeInv, NEW t \in Threads, PlainStep(t)
    PROVE  /\ \A u \in Threads :
                  \/ pc'[u] = pc[u]
                  \/ /\ pc[u] \notin {"falling", "push"}
                     /\ pc'[u] \notin {"falling", "blocked", "push", "inline"}
           /\ UNCHANGED <<main, m, regMutex, watcher, stopping, reason, first, armed,
                          todo, nextId>>
<1> USE DEF TypeInv, TypeOK, Goto, May, procVars, signalVars, stopVars, cvVars, regVars,
            watchVars, timeVars, threadVars, loopVars
<1>1. CASE BeginWait(t) \/ WaitExpires(t) \/ Notify(t) \/ NotifyWakes(t)
  BY <1>1 DEF BeginWait, WaitExpires, Notify, NotifyWakes, Wake
<1>2. CASE RunInline(t) \/ Release(t)
  BY <1>2 DEF RunInline, Release
<1>3. CASE Request(t) \/ RequestWrites(t) \/ RequestKills(t)
  BY <1>3 DEF Request, RequestWrites, RequestKills
<1>4. CASE BeginLoop(t) \/ ClaimSlot(t) \/ Leave(t) \/ Hang(t)
  BY <1>4 DEF BeginLoop, ClaimSlot, Leave, Hang
<1>5. QED
  BY <1>1, <1>2, <1>3, <1>4 DEF PlainStep

\* A notify_all moves blocked threads only.
LEMMA WakeFrame ==
    ASSUME TypeInv, pc' = Wake(pc)
    PROVE  \A u \in Threads :
               pc'[u] = IF pc[u] = "blocked" THEN "woken" ELSE pc[u]
BY DEF Wake, TypeInv, TypeOK

-----------------------------------------------------------------------------
(* The mutexes.                                                            *)

\* Each mutex is held by exactly the thread that is where it holds it.
LEMMA MutexKeeps ==
    ASSUME TypeInv, LockInv, [Next]_vars
    PROVE  MutexOK'
<1> USE DEF LockInv, MutexOK
<1>1. NoOne \notin Threads /\ NoOne # Watcher /\ Watcher \notin Threads
  BY ThreadAssumption
<1>2. m \in Threads \cup {NoOne} /\ pc \in [Threads -> ThreadPcs]
  BY DEF TypeInv, TypeOK
<1>3. CASE FarStep
  BY <1>3, FarFrame
<1>4. CASE WatcherMove
  BY <1>4, MoveFrame DEF StopOK, LoopStates
<1>5. CASE \E t \in Threads : PlainStep(t)
  BY <1>5, PlainFrame
<1>6. ASSUME NEW t \in Threads, CheckWait(t) PROVE MutexOK'
  BY <1>1, <1>2, <1>6 DEF CheckWait, Goto, regVars, watchVars
<1>7. ASSUME NEW t \in Threads, Block(t) PROVE MutexOK'
  BY <1>1, <1>2, <1>7 DEF Block, Goto, regVars, watchVars
<1>8. ASSUME NEW t \in Threads, OnStop(t) PROVE MutexOK'
  BY <1>1, <1>2, <1>8 DEF OnStop, May, Goto, cvVars, watchVars
<1>9. ASSUME NEW t \in Threads, Push(t) PROVE MutexOK'
  BY <1>1, <1>2, <1>9 DEF Push, Goto, cvVars, watchVars
<1>10. CASE WakeAll \/ CallbackNotifies
  BY <1>10, WakeFrame DEF WakeAll, CallbackNotifies, cvVars, regVars, LoopStates
<1>11. CASE LockRegistry
  BY <1>1, <1>11 DEF LockRegistry, cvVars, threadVars, LoopStates
<1>12. CASE StartCallback \/ CallbackBody
  BY <1>12 DEF StartCallback, CallbackBody, cvVars, regVars, threadVars, LoopStates
<1>13. CASE UnlockRegistry
  BY <1>1, <1>13 DEF UnlockRegistry, cvVars, threadVars, LoopStates
<1>14. QED
  BY <1>3, <1>4, <1>5, <1>6, <1>7, <1>8, <1>9, <1>10, <1>11, <1>12, <1>13, StepKinds

\* The watcher's place tells whether shutdown has started, and why; nobody is about to
\* block once it has.
LEMMA StopKeeps ==
    ASSUME TypeInv, LockInv, [Next]_vars
    PROVE  StopOK'
<1> USE DEF LockInv, StopOK, BeforeStop, AfterLoop
<1>1. NoOne \notin Threads /\ Watcher \notin Threads
  BY ThreadAssumption
<1>2. pc \in [Threads -> ThreadPcs] /\ first \in Events \cup {"none"} /\ "none" \notin Events
  BY DEF TypeInv, TypeOK, Events, Signals
<1>3. CASE FarStep
  BY <1>3, FarFrame
<1>4. CASE WatcherMove
  <2> USE MoveFrame DEF procVars, signalVars, stopVars, regVars, watchVars, timeVars
  <2>1. CASE InstallPipe
    BY <1>4, <2>1 DEF InstallPipe
  <2>2. CASE FirstEvent
    <3>1. Head(pipe) \in Events
      BY <2>2, HeadTailProperties DEF FirstEvent, TypeInv, TypeOK
    <3>2. QED
      BY <1>2, <1>4, <2>2, <3>1 DEF FirstEvent
  <2>3. CASE Arm
    BY <1>4, <2>3 DEF Arm
  <2>4. CASE Publish
    BY <1>1, <1>4, <2>4 DEF Publish, MutexOK
  <2>5. CASE QueueQuit \/ NextEvent \/ DeadlineReached
    BY <1>4, <2>5 DEF QueueQuit, NextEvent, DeadlineReached
  <2>6. QED
    BY <1>4, <2>1, <2>2, <2>3, <2>4, <2>5 DEF WatcherMove
<1>5. CASE \E t \in Threads : PlainStep(t)
  BY <1>5, PlainFrame
<1>6. ASSUME NEW t \in Threads, CheckWait(t) PROVE StopOK'
  BY <1>2, <1>6 DEF CheckWait, MustReturn, Goto, procVars, stopVars, watchVars, timeVars
<1>7. ASSUME NEW t \in Threads, Block(t) PROVE StopOK'
  BY <1>2, <1>7 DEF Block, Goto, procVars, stopVars, watchVars, timeVars
<1>8. ASSUME NEW t \in Threads, OnStop(t) PROVE StopOK'
  BY <1>2, <1>8 DEF OnStop, Goto, procVars, stopVars, watchVars, timeVars
<1>9. ASSUME NEW t \in Threads, Push(t) PROVE StopOK'
  BY <1>2, <1>9 DEF Push, Goto, procVars, stopVars, watchVars, timeVars
<1>10. CASE WakeAll \/ CallbackNotifies
  BY <1>10, WakeFrame DEF WakeAll, CallbackNotifies, procVars, stopVars, timeVars
<1>11. CASE LockRegistry \/ StartCallback \/ CallbackBody
  BY <1>11 DEF LockRegistry, StartCallback, CallbackBody, procVars, stopVars, timeVars,
               threadVars
<1>12. CASE UnlockRegistry
  BY <1>1, <1>12 DEF UnlockRegistry, MutexOK, LoopStates, procVars, stopVars, timeVars,
                     threadVars
<1>13. QED
  BY <1>3, <1>4, <1>5, <1>6, <1>7, <1>8, <1>9, <1>10, <1>11, <1>12, StepKinds

-----------------------------------------------------------------------------
(* The registrations and the callbacks.                                    *)

\* The vector holds exactly the registered functions; a call of onStop under way has a
\* function of its own, in neither.
LEMMA RegKeeps ==
    ASSUME TypeInv, RegOK, [Next]_vars
    PROVE  RegOK'
<1> USE DEF RegOK
<1>1. /\ pc \in [Threads -> ThreadPcs] /\ target \in [Threads -> Wakeups \cup Ids \cup {NoOne}]
      /\ reg \in [Ids -> {"none", "calling", "registered", "released", "inline"}]
      /\ nextId \in 1..MaxCallbacks + 1 /\ callbacks \subseteq Ids
      /\ MaxCallbacks \in Nat
      /\ \A t \in Threads : pc[t] \in InOnStop => target[t] \in Ids
  BY BoundAssumption DEF TypeInv, TypeOK, TargetOK
<1>2. CASE FarStep
  BY <1>2, FarFrame
<1>3. CASE WatcherMove
  BY <1>3, MoveFrame
<1>4. ASSUME NEW t \in Threads, BeginWait(t) \/ CheckWait(t) \/ Block(t) PROVE RegOK'
  <2>1. /\ UNCHANGED <<callbacks, reg, nextId>>
        /\ pc'[t] \notin InOnStop
        /\ \A u \in Threads : u # t => pc'[u] = pc[u] /\ target'[u] = target[u]
    BY <1>1, <1>4 DEF BeginWait, CheckWait, Block, Goto, regVars, InOnStop
  <2>2. QED
    BY <1>1, <2>1
<1>5. ASSUME NEW t \in Threads, OnStop(t) PROVE RegOK'
  <2>1. /\ nextId \in Ids /\ nextId' = nextId + 1
        /\ target' = [target EXCEPT ![t] = nextId]
        /\ reg' = [reg EXCEPT ![nextId] = "calling"]
        /\ UNCHANGED callbacks
        /\ \A u \in Threads : u # t => pc'[u] = pc[u]
        /\ pc[t] = "idle"
    BY <1>1, <1>5 DEF OnStop, May, Goto, Ids
  <2>2. reg[nextId] = "none" /\ nextId \notin callbacks
    BY <1>1, <2>1 DEF Ids
  <2>3. \A c \in Ids : (c \in callbacks' <=> reg'[c] = "registered")
                       /\ (reg'[c] = "none" <=> c >= nextId')
    BY <1>1, <2>1, <2>2 DEF Ids
  <2>4. /\ target'[t] = nextId /\ reg'[nextId] = "calling"
        /\ \A u \in Threads : u # t /\ pc'[u] \in InOnStop =>
              /\ target'[u] = target[u] /\ target[u] \in Ids /\ target[u] # nextId
              /\ reg'[target[u]] = "calling" /\ pc[u] \in InOnStop
    BY <1>1, <2>1, <2>2
  <2>5. QED
    BY <2>3, <2>4
<1>6. ASSUME NEW t \in Threads, Push(t) \/ RunInline(t) PROVE RegOK'
  <2>1. PICK to \in {"registered", "inline"} :
        /\ reg' = [reg EXCEPT ![target[t]] = to]
        /\ callbacks' = IF to = "registered" THEN callbacks \cup {target[t]} ELSE callbacks
        /\ UNCHANGED nextId
        /\ pc[t] \in InOnStop /\ pc' = [pc EXCEPT ![t] = "idle"]
        /\ target' = [target EXCEPT ![t] = NoOne]
    BY <1>1, <1>6 DEF Push, RunInline, Goto, InOnStop
  <2>2. target[t] \in Ids /\ reg[target[t]] = "calling"
    BY <1>1, <2>1
  <2>3. \A c \in Ids : (c \in callbacks' <=> reg'[c] = "registered")
                       /\ (reg'[c] = "none" <=> c >= nextId')
    BY <1>1, <2>1, <2>2
  <2>4. \A u \in Threads : pc'[u] \in InOnStop =>
           /\ u # t /\ pc[u] \in InOnStop /\ target'[u] = target[u]
           /\ target[u] # target[t]
    BY <1>1, <2>1 DEF InOnStop
  <2>5. QED
    BY <1>1, <2>1, <2>3, <2>4
<1>7. ASSUME NEW t \in Threads, Release(t) PROVE RegOK'
  <2>1. PICK c \in Ids : /\ reg[c] = "registered" /\ callbacks' = callbacks \ {c}
                         /\ reg' = [reg EXCEPT ![c] = "released"]
                         /\ UNCHANGED <<nextId, pc, target>>
    BY <1>7 DEF Release, threadVars
  <2>2. QED
    BY <1>1, <2>1
<1>8. ASSUME NEW t \in Threads,
             \/ WaitExpires(t) \/ Notify(t) \/ NotifyWakes(t) \/ Request(t)
             \/ RequestWrites(t) \/ RequestKills(t) \/ BeginLoop(t) \/ ClaimSlot(t)
             \/ Leave(t) \/ Hang(t)
      PROVE  RegOK'
  <2>1. UNCHANGED <<callbacks, reg, nextId, target>>
    BY <1>8 DEF WaitExpires, Notify, NotifyWakes, Request, RequestWrites, RequestKills,
                BeginLoop, ClaimSlot, Leave, Hang, regVars
  <2>2. \A u \in Threads : pc'[u] \in InOnStop => pc'[u] = pc[u]
    BY <1>8, PlainFrame DEF PlainStep, InOnStop
  <2>3. QED
    BY <1>1, <2>1, <2>2
<1>9. CASE WakeAll \/ CallbackNotifies
  BY <1>9, WakeFrame DEF WakeAll, CallbackNotifies, regVars, InOnStop
<1>10. CASE LockRegistry \/ StartCallback \/ CallbackBody \/ UnlockRegistry
  BY <1>10 DEF LockRegistry, StartCallback, CallbackBody, UnlockRegistry, regVars,
               threadVars
<1>11. QED
  BY <1>2, <1>3, <1>4, <1>5, <1>6, <1>7, <1>8, <1>9, <1>10, StepKinds DEF PlainStep

\* The loop over the callbacks: those it has passed ran once, those before it have not
\* run, and it goes from the newest to the oldest.
LEMMA RunKeeps ==
    ASSUME TypeInv, LockInv, ListInv, [Next]_vars
    PROVE  RunOK'
<1> USE DEF RunOK, ListInv
<1>1. /\ reg \in [Ids -> {"none", "calling", "registered", "released", "inline"}]
      /\ runs \in [Ids -> Nat] /\ callbacks \subseteq Ids /\ Ids \subseteq Nat
      /\ pc \in [Threads -> ThreadPcs] /\ nextId \in Nat
      /\ \A t \in Threads : pc[t] \in InOnStop => target[t] \in Ids
  BY BoundAssumption DEF TypeInv, TypeOK, TargetOK, Ids
<1>2. /\ Watcher \notin Threads /\ NoOne \notin Threads /\ NoOne # Watcher
      /\ \A t \in Threads : regMutex = t <=> pc[t] = "push"
      /\ regMutex = Watcher <=> watcher \in LoopStates
  BY ThreadAssumption DEF LockInv, MutexOK
<1>3. /\ stopping <=> watcher \notin BeforeStop
      /\ \A t \in Threads : pc[t] = "inline" => stopping
      /\ watcher \in AfterLoop => \A t \in Threads : pc[t] # "push"
      /\ main = "start" => watcher = "off"
  BY DEF LockInv, StopOK
<1>4. CASE FarStep
  BY <1>4, FarFrame
<1>5. CASE WatcherMove
  <2>1. UNCHANGED <<callbacks, reg, runs, todo>>
    BY <1>5, MoveFrame
  <2>2. watcher \notin LoopStates /\ watcher' \notin LoopStates /\ (stopping => stopping')
        /\ (watcher \in AfterLoop <=> watcher' \in AfterLoop)
    BY <1>3, <1>5 DEF WatcherMove, InstallPipe, FirstEvent, Arm, Publish, QueueQuit,
                      NextEvent, DeadlineReached, stopVars, LoopStates, AfterLoop
  <2>3. QED
    BY <2>1, <2>2
<1>6. ASSUME NEW t \in Threads, OnStop(t) PROVE RunOK'
  <2>1. /\ nextId \in Ids /\ reg' = [reg EXCEPT ![nextId] = "calling"]
        /\ UNCHANGED <<callbacks, runs, todo, watcher, stopping>>
    BY <1>1, <1>6 DEF OnStop, stopVars, watchVars, Ids, TypeInv, TypeOK
  <2>2. reg[nextId] = "none"
    BY <1>1, <2>1 DEF RegOK
  <2>3. QED
    BY <1>1, <2>1, <2>2
<1>7. ASSUME NEW t \in Threads, Push(t) PROVE RunOK'
  <2>1. /\ reg' = [reg EXCEPT ![target[t]] = "registered"]
        /\ callbacks' = callbacks \cup {target[t]}
        /\ UNCHANGED <<runs, todo, watcher, stopping>>
        /\ pc[t] = "push"
    BY <1>7 DEF Push, stopVars, watchVars
  <2>2. watcher \notin LoopStates \cup AfterLoop /\ todo = {}
    BY <1>2, <1>3, <2>1
  <2>3. target[t] \in Ids /\ runs[target[t]] = 0
    BY <1>1, <2>1 DEF RegOK, InOnStop
  <2>4. QED
    BY <1>1, <2>1, <2>2, <2>3
<1>8. ASSUME NEW t \in Threads, RunInline(t) PROVE RunOK'
  <2>1. /\ reg' = [reg EXCEPT ![target[t]] = "inline"]
        /\ runs' = [runs EXCEPT ![target[t]] = runs[target[t]] + 1]
        /\ UNCHANGED <<callbacks, todo, watcher, stopping>>
        /\ pc[t] = "inline"
    BY <1>8 DEF RunInline, stopVars, watchVars
  <2>2. /\ target[t] \in Ids /\ runs[target[t]] = 0 /\ stopping
        /\ target[t] \notin callbacks
    BY <1>1, <1>3, <2>1 DEF RegOK, InOnStop
  <2>3. QED
    BY <1>1, <2>1, <2>2
<1>9. ASSUME NEW t \in Threads, Release(t) PROVE RunOK'
  <2>1. PICK c \in Ids : /\ reg[c] = "registered" /\ callbacks' = callbacks \ {c}
                         /\ reg' = [reg EXCEPT ![c] = "released"]
                         /\ UNCHANGED <<runs, todo, watcher, stopping>>
    BY <1>9 DEF Release, stopVars, watchVars
  <2>2. watcher \notin LoopStates /\ todo = {}
    BY <1>2, <1>9 DEF Release
  <2>3. QED
    BY <1>1, <2>1, <2>2
<1>10. ASSUME NEW t \in Threads,
             \/ BeginWait(t) \/ CheckWait(t) \/ Block(t) \/ WaitExpires(t) \/ Notify(t)
             \/ NotifyWakes(t) \/ Request(t) \/ RequestWrites(t) \/ RequestKills(t)
             \/ BeginLoop(t) \/ ClaimSlot(t) \/ Leave(t) \/ Hang(t)
      PROVE  RunOK'
  BY <1>10 DEF BeginWait, CheckWait, Block, WaitExpires, Notify, NotifyWakes, Request,
               RequestWrites, RequestKills, BeginLoop, ClaimSlot, Leave, Hang, regVars,
               stopVars, watchVars
<1>11. CASE WakeAll \/ CallbackBody \/ CallbackNotifies
  BY <1>3, <1>11 DEF WakeAll, CallbackBody, CallbackNotifies, regVars, stopVars,
                     LoopStates,
                     AfterLoop
<1>12. CASE LockRegistry
  BY <1>12 DEF LockRegistry, stopVars, LoopStates, AfterLoop
<1>13. CASE StartCallback
  <2>1. PICK c \in todo : /\ IsLast(c, todo)
                          /\ runs' = [runs EXCEPT ![c] = runs[c] + 1]
                          /\ todo' = todo \ {c}
                          /\ watcher = "loop" /\ watcher' \in {"stuck", "callback"}
                          /\ UNCHANGED <<callbacks, reg, stopping>>
    BY <1>13 DEF StartCallback, stopVars
  <2>2. c \in callbacks /\ c \in Ids /\ runs[c] = 0 /\ stopping /\ reg[c] = "registered"
    BY <1>1, <1>3, <2>1 DEF RegOK, BeforeStop
  <2>3. \A d \in todo' : d \in Nat /\ d < c
    BY <1>1, <2>1 DEF IsLast
  <2>4. runs' \in [Ids -> Nat] /\ runs'[c] = 1 /\ \A d \in Ids : d # c => runs'[d] = runs[d]
    BY <1>1, <2>1, <2>2
  <2>5. \A d \in callbacks' \ todo', e \in todo' : e < d
    BY <1>1, <2>1, <2>3
  <2>6. \A d \in callbacks' : runs'[d] = IF d \notin todo' THEN 1 ELSE 0
    BY <1>1, <2>1, <2>2, <2>4 DEF LoopStates
  <2>7. QED
    BY <1>1, <2>1, <2>2, <2>4, <2>5, <2>6 DEF LoopStates
<1>14. CASE UnlockRegistry
  BY <1>14 DEF UnlockRegistry, stopVars, LoopStates, AfterLoop
<1>15. QED
  BY <1>4, <1>5, <1>6, <1>7, <1>8, <1>9, <1>10, <1>11, <1>12, <1>13, <1>14, StepKinds
  DEF PlainStep

\* Whoever pushes a function took the newest id: regMutex, held since, keeps every other
\* call of onStop out.
LEMMA NewestKeeps ==
    ASSUME TypeInv, LockInv, PushIsNewest, [Next]_vars
    PROVE  PushIsNewest'
<1>1. /\ pc \in [Threads -> ThreadPcs] /\ nextId \in Nat
      /\ target \in [Threads -> Wakeups \cup Ids \cup {NoOne}]
      /\ NoOne \notin Threads
      /\ \A t \in Threads : regMutex = t <=> pc[t] = "push"
  BY BoundAssumption, ThreadAssumption DEF TypeInv, TypeOK, LockInv, MutexOK
<1> SUFFICES ASSUME NEW u \in Threads, pc'[u] = "push"
             PROVE  nextId' = target'[u] + 1
  BY DEF PushIsNewest
<1>2. CASE FarStep \/ WatcherMove
  BY <1>2, FarFrame, MoveFrame DEF PushIsNewest
<1>3. ASSUME NEW t \in Threads, OnStop(t) PROVE nextId' = target'[u] + 1
  <2>1. /\ regMutex = NoOne /\ nextId' = nextId + 1
        /\ target' = [target EXCEPT ![t] = nextId]
        /\ \A x \in Threads : x # t => pc'[x] = pc[x]
    BY <1>1, <1>3 DEF OnStop, Goto
  <2>2. u = t
    BY <1>1, <2>1
  <2>3. QED
    BY <1>1, <2>1, <2>2
<1>4. ASSUME NEW t \in Threads, Push(t) \/ CheckWait(t) \/ Block(t) \/ PlainStep(t)
      PROVE  nextId' = target'[u] + 1
  <2>1. pc[u] = "push" /\ nextId' = nextId
    <3>1. CASE PlainStep(t)
      BY <3>1, PlainFrame
    <3>2. CASE Push(t) \/ CheckWait(t) \/ Block(t)
      BY <1>1, <3>2 DEF Push, CheckWait, Block, Goto, regVars
    <3>3. QED
      BY <1>4, <3>1, <3>2
  <2>2. target'[u] = target[u]
    <3>1. CASE BeginWait(t) \/ CheckWait(t) \/ Push(t) \/ RunInline(t)
      <4>1. u # t
        BY <1>1, <2>1, <3>1 DEF BeginWait, CheckWait, Push, RunInline, May, Goto
      <4>2. QED
        BY <1>1, <3>1, <4>1 DEF BeginWait, CheckWait, Push, RunInline
    <3>2. CASE \/ Block(t) \/ WaitExpires(t) \/ Notify(t) \/ NotifyWakes(t)
               \/ Release(t) \/ Request(t) \/ RequestWrites(t) \/ RequestKills(t)
               \/ BeginLoop(t) \/ ClaimSlot(t) \/ Leave(t) \/ Hang(t)
      BY <3>2 DEF Block, WaitExpires, Notify, NotifyWakes, Release, Request, RequestWrites,
                  RequestKills, BeginLoop, ClaimSlot, Leave, Hang, threadVars
    <3>3. QED
      BY <1>4, <3>1, <3>2 DEF PlainStep
  <2>3. QED
    BY <2>1, <2>2 DEF PushIsNewest
<1>5. CASE WakeAll \/ CallbackNotifies
  BY <1>1, <1>5 DEF WakeAll, CallbackNotifies, Wake, regVars, PushIsNewest
<1>6. CASE LockRegistry \/ StartCallback \/ CallbackBody \/ UnlockRegistry
  BY <1>6 DEF LockRegistry, StartCallback, CallbackBody, UnlockRegistry, regVars,
              threadVars, PushIsNewest
<1>7. QED
  BY <1>2, <1>3, <1>4, <1>5, <1>6, StepKinds

-----------------------------------------------------------------------------
(* The waits.                                                              *)

\* A thread about to block on a Wakeup has seen it not woken, and nobody can set it
\* before the thread has let go of m.
LEMMA FallingKeeps ==
    ASSUME TypeInv, LockInv, FallingOK, [Next]_vars
    PROVE  FallingOK'
<1> USE DEF FallingOK
<1>1. /\ pc \in [Threads -> ThreadPcs] /\ target \in [Threads -> Wakeups \cup Ids \cup {NoOne}]
      /\ woken \in [Wakeups -> BOOLEAN] /\ NoOne \notin Threads \cup Wakeups
      /\ \A t \in Threads : m = t <=> pc[t] = "falling"
  BY ThreadAssumption DEF TypeInv, TypeOK, LockInv, MutexOK
<1>2. CASE FarStep
  BY <1>2, FarFrame
<1>3. CASE WatcherMove
  BY <1>3, MoveFrame
<1>4. ASSUME NEW t \in Threads, CheckWait(t) PROVE FallingOK'
  <2>1. \A u \in Threads : pc[u] # "falling"
    BY <1>1, <1>4 DEF CheckWait
  <2>2. CASE pc' = [pc EXCEPT ![t] = "idle"]
    BY <1>1, <2>1, <2>2
  <2>3. CASE /\ pc' = [pc EXCEPT ![t] = "falling"] /\ UNCHANGED <<woken, target>>
             /\ ~MustReturn(t)
    BY <1>1, <2>1, <2>3 DEF MustReturn
  <2>4. QED
    BY <1>4, <2>2, <2>3 DEF CheckWait, Goto
<1>5. ASSUME NEW t \in Threads, Notify(t) PROVE FallingOK'
  <2>1. \A u \in Threads : pc[u] # "falling"
    BY <1>1, <1>5 DEF Notify
  <2>2. QED
    BY <1>1, <1>5, <2>1 DEF Notify, Goto
<1>6. ASSUME NEW t \in Threads, BeginWait(t) \/ OnStop(t) \/ Push(t) \/ RunInline(t)
      PROVE  FallingOK'
  <2>1. /\ UNCHANGED woken /\ pc'[t] # "falling"
        /\ \A u \in Threads : u # t => pc'[u] = pc[u] /\ target'[u] = target[u]
    BY <1>1, <1>6 DEF BeginWait, OnStop, Push, RunInline, Goto, cvVars
  <2>2. QED
    BY <2>1
<1>7. ASSUME NEW t \in Threads,
             \/ Block(t) \/ WaitExpires(t) \/ NotifyWakes(t) \/ Release(t) \/ Request(t)
             \/ RequestWrites(t) \/ RequestKills(t) \/ BeginLoop(t) \/ ClaimSlot(t)
             \/ Leave(t) \/ Hang(t)
      PROVE  FallingOK'
  <2>1. UNCHANGED <<woken, target>>
    BY <1>7 DEF Block, WaitExpires, NotifyWakes, Release, Request, RequestWrites,
                RequestKills, BeginLoop, ClaimSlot, Leave, Hang, cvVars, threadVars
  <2>2. \A u \in Threads : pc'[u] = "falling" => pc[u] = "falling"
    <3>1. CASE Block(t)
      BY <1>1, <3>1 DEF Block, Goto
    <3>2. QED
      BY <1>7, <3>1, PlainFrame DEF PlainStep
  <2>3. QED
    BY <2>1, <2>2
<1>8. CASE WakeAll \/ CallbackNotifies
  BY <1>8, WakeFrame DEF WakeAll, CallbackNotifies, cvVars
<1>9. CASE CallbackBody
  <2>1. UNCHANGED <<pc, target>> /\ (UNCHANGED woken \/ m = NoOne)
    BY <1>9 DEF CallbackBody, threadVars
  <2>2. QED
    BY <1>1, <2>1
<1>10. CASE LockRegistry \/ StartCallback \/ UnlockRegistry
  BY <1>10 DEF LockRegistry, StartCallback, UnlockRegistry, cvVars, threadVars
<1>11. QED
  BY <1>2, <1>3, <1>4, <1>5, <1>6, <1>7, <1>8, <1>9, <1>10, StepKinds DEF PlainStep

\* After the watcher's notify_all nobody is blocked, or about to be.
LEMMA NoLostStopKeeps ==
    ASSUME TypeInv, LockInv, NoLostStop, [Next]_vars
    PROVE  NoLostStop'
<1> USE DEF NoLostStop, AfterWake
<1>1. /\ pc \in [Threads -> ThreadPcs]
      /\ stopping <=> watcher \notin BeforeStop
      /\ stopping => \A t \in Threads : pc[t] # "falling"
      /\ main = "start" => watcher = "off"
  BY DEF TypeInv, TypeOK, LockInv, StopOK
<1>2. CASE FarStep
  BY <1>2, FarFrame
<1>3. CASE WatcherMove
  <2>1. AfterWake' => AfterWake
    BY <1>1, <1>3 DEF WatcherMove, InstallPipe, FirstEvent, Arm, Publish, QueueQuit,
                      NextEvent, DeadlineReached
  <2>2. QED
    BY <1>3, <2>1, MoveFrame
<1>4. CASE \E t \in Threads : PlainStep(t)
  BY <1>4, PlainFrame
<1>5. ASSUME NEW t \in Threads, CheckWait(t) \/ Block(t) \/ OnStop(t) \/ Push(t)
      PROVE  NoLostStop'
  BY <1>1, <1>5 DEF CheckWait, Block, OnStop, Push, MustReturn, Goto, watchVars,
                    BeforeStop
<1>6. CASE WakeAll
  BY <1>1, <1>6, WakeFrame DEF WakeAll, BeforeStop
<1>7. CASE CallbackNotifies
  BY <1>7, WakeFrame DEF CallbackNotifies
<1>8. CASE LockRegistry \/ StartCallback \/ CallbackBody \/ UnlockRegistry
  BY <1>8 DEF LockRegistry, StartCallback, CallbackBody, UnlockRegistry, threadVars
<1>9. QED
  BY <1>2, <1>3, <1>4, <1>5, <1>6, <1>7, <1>8, StepKinds

\* A thread blocked on a woken Wakeup has a notify_all coming.
LEMMA NoLostNotifyKeeps ==
    ASSUME TypeInv, LockInv, FallingOK, NoLostNotify, [Next]_vars
    PROVE  NoLostNotify'
<1> USE DEF NoLostNotify
<1>1. /\ pc \in [Threads -> ThreadPcs] /\ target \in [Threads -> Wakeups \cup Ids \cup {NoOne}]
      /\ woken \in [Wakeups -> BOOLEAN]
      /\ main = "start" => watcher = "off"
  BY DEF TypeInv, TypeOK, LockInv, StopOK
<1>2. CASE FarStep
  BY <1>2, FarFrame
<1>3. CASE WatcherMove
  <2>1. watcher \notin {"notify", "wake"}
    BY <1>1, <1>3 DEF WatcherMove, InstallPipe, FirstEvent, Arm, Publish, QueueQuit,
                      NextEvent, DeadlineReached
  <2>2. QED
    BY <1>3, <2>1, MoveFrame
<1>4. ASSUME NEW t \in Threads, CheckWait(t) PROVE NoLostNotify'
  <2>1. /\ \A x \in Wakeups : woken'[x] => woken[x]
        /\ pc'[t] \in {"idle", "falling"} /\ pc[t] # "notifying"
        /\ \A u \in Threads : u # t => pc'[u] = pc[u] /\ target'[u] = target[u]
        /\ UNCHANGED watcher
    BY <1>1, <1>4 DEF CheckWait, Goto, watchVars
  <2>2. QED
    BY <2>1
<1>5. ASSUME NEW t \in Threads, Block(t) PROVE NoLostNotify'
  <2>1. /\ UNCHANGED <<woken, target, watcher>>
        /\ pc[t] = "falling" /\ pc' = [pc EXCEPT ![t] = "blocked"]
    BY <1>5 DEF Block, Goto, watchVars
  <2>2. QED
    BY <1>1, <2>1 DEF FallingOK
<1>6. ASSUME NEW t \in Threads, Notify(t) PROVE NoLostNotify'
  <2>1. pc'[t] = "notifying"
    BY <1>1, <1>6 DEF Notify, Goto
  <2>2. QED
    BY <2>1
<1>7. ASSUME NEW t \in Threads, NotifyWakes(t) PROVE NoLostNotify'
  <2>1. \A u \in Threads : pc'[u] # "blocked"
    BY <1>1, <1>7 DEF NotifyWakes, Wake
  <2>2. QED
    BY <2>1
<1>8. ASSUME NEW t \in Threads,
             \/ BeginWait(t) \/ WaitExpires(t) \/ OnStop(t) \/ Push(t) \/ RunInline(t)
             \/ Release(t) \/ Request(t) \/ RequestWrites(t) \/ RequestKills(t)
             \/ BeginLoop(t) \/ ClaimSlot(t) \/ Leave(t) \/ Hang(t)
      PROVE  NoLostNotify'
  <2>1. /\ UNCHANGED <<woken, watcher>>
        /\ \A u \in Threads : u # t => pc'[u] = pc[u] /\ target'[u] = target[u]
        /\ pc[t] # "notifying"
        /\ pc'[t] # "blocked"
    <3>1. CASE BeginWait(t) \/ WaitExpires(t) \/ OnStop(t) \/ Push(t) \/ RunInline(t)
      BY <1>1, <3>1 DEF BeginWait, WaitExpires, OnStop, Push, RunInline, May, Goto,
                        cvVars,
                        watchVars
    <3>2. CASE Release(t) \/ Request(t) \/ RequestWrites(t) \/ RequestKills(t)
      BY <1>1, <3>2 DEF Release, Request, RequestWrites, RequestKills, May, Goto, cvVars,
                        watchVars, threadVars
    <3>3. CASE BeginLoop(t) \/ ClaimSlot(t) \/ Leave(t) \/ Hang(t)
      BY <1>1, <3>3 DEF BeginLoop, ClaimSlot, Leave, Hang, May, Goto, cvVars, watchVars
    <3>4. QED
      BY <1>8, <3>1, <3>2, <3>3
  <2>2. QED
    BY <2>1
<1>9. CASE WakeAll \/ CallbackNotifies
  <2>1. \A u \in Threads : pc'[u] # "blocked"
    BY <1>9, WakeFrame DEF WakeAll, CallbackNotifies
  <2>2. QED
    BY <2>1
<1>10. CASE CallbackBody
  BY <1>10 DEF CallbackBody, threadVars
<1>11. CASE LockRegistry \/ StartCallback \/ UnlockRegistry
  BY <1>11 DEF LockRegistry, StartCallback, UnlockRegistry, cvVars, threadVars
<1>12. QED
  BY <1>2, <1>3, <1>4, <1>5, <1>6, <1>7, <1>8, <1>9, <1>10, <1>11, StepKinds DEF PlainStep

-----------------------------------------------------------------------------
(* The loop guards.                                                        *)

\* Slots and probes name each other.
LEMMA LoopsKeep ==
    ASSUME TypeInv, LoopsAreNamed, [Next]_vars
    PROVE  LoopsAreNamed'
<1> USE DEF LoopsAreNamed
<1>1. /\ pc \in [Threads -> ThreadPcs] /\ NoOne \notin Threads
      /\ slots \in [1..LoopSlotCount -> Threads \cup {NoOne}]
      /\ probe \in [Threads -> 0..LoopSlotCount + 1]
      /\ LoopSlotCount \in Nat
  BY ThreadAssumption, BoundAssumption DEF TypeInv, TypeOK
<1>2. CASE FarStep
  BY <1>2, FarFrame
<1>3. CASE WatcherMove
  BY <1>3, MoveFrame
<1>4. ASSUME NEW t \in Threads, BeginLoop(t) PROVE LoopsAreNamed'
  BY <1>1, <1>4 DEF BeginLoop, May, Goto
<1>5. ASSUME NEW t \in Threads, ClaimSlot(t) PROVE LoopsAreNamed'
  <2>1. CASE probe[t] > LoopSlotCount /\ pc' = [pc EXCEPT ![t] = "idle"] /\ UNCHANGED loopVars
    BY <1>1, <2>1 DEF loopVars
  <2>2. CASE /\ probe[t] <= LoopSlotCount /\ slots[probe[t]] = NoOne
             /\ slots' = [slots EXCEPT ![probe[t]] = t]
             /\ pc' = [pc EXCEPT ![t] = "idle"] /\ UNCHANGED probe
    BY <1>1, <1>5, <2>2 DEF ClaimSlot
  <2>3. CASE probe' = [probe EXCEPT ![t] = probe[t] + 1] /\ UNCHANGED <<pc, slots>>
    BY <1>1, <1>5, <2>3 DEF ClaimSlot
  <2>4. QED
    BY <1>5, <2>1, <2>2, <2>3 DEF ClaimSlot, Goto
<1>6. ASSUME NEW t \in Threads, Leave(t) PROVE LoopsAreNamed'
  <2>1. /\ pc[t] = "idle" /\ pc' = [pc EXCEPT ![t] = "done"]
        /\ probe' = [probe EXCEPT ![t] = 0]
    BY <1>6 DEF Leave, Goto
  <2>2. CASE probe[t] \in 1..LoopSlotCount
    <3>1. slots' = [slots EXCEPT ![probe[t]] = NoOne]
      BY <1>6, <2>2 DEF Leave
    <3>2. QED
      BY <1>1, <2>1, <2>2, <3>1
  <2>3. CASE probe[t] \notin 1..LoopSlotCount
    <3>1. UNCHANGED slots
      BY <1>6, <2>3 DEF Leave
    <3>2. QED
      BY <1>1, <2>1, <2>3, <3>1
  <2>4. QED
    BY <2>2, <2>3
<1>7. ASSUME NEW t \in Threads,
             \/ BeginWait(t) \/ CheckWait(t) \/ Block(t) \/ WaitExpires(t) \/ Notify(t)
             \/ NotifyWakes(t) \/ OnStop(t) \/ Push(t) \/ RunInline(t) \/ Release(t)
             \/ Request(t) \/ RequestWrites(t) \/ RequestKills(t) \/ Hang(t)
      PROVE  LoopsAreNamed'
  <2>1. UNCHANGED <<slots, probe>>
    BY <1>7 DEF BeginWait, CheckWait, Block, WaitExpires, Notify, NotifyWakes, OnStop,
                Push,
                RunInline, Release, Request, RequestWrites, RequestKills, Hang, loopVars
  <2>2. \A u \in Threads : pc'[u] = "claiming" <=> pc[u] = "claiming"
    <3>1. CASE BeginWait(t) \/ CheckWait(t) \/ Block(t) \/ WaitExpires(t) \/ Notify(t)
               \/ NotifyWakes(t)
      BY <1>1, <3>1 DEF BeginWait, CheckWait, Block, WaitExpires, Notify, NotifyWakes,
                        Wake,
                        May, Goto
    <3>2. CASE OnStop(t) \/ Push(t) \/ RunInline(t) \/ Release(t)
      BY <1>1, <3>2 DEF OnStop, Push, RunInline, Release, May, Goto, threadVars
    <3>3. CASE Request(t) \/ RequestWrites(t) \/ RequestKills(t) \/ Hang(t)
      BY <1>1, <3>3 DEF Request, RequestWrites, RequestKills, Hang, May, Goto
    <3>4. QED
      BY <1>7, <3>1, <3>2, <3>3
  <2>3. QED
    BY <2>1, <2>2
<1>8. CASE WakeAll \/ CallbackNotifies
  BY <1>8, WakeFrame DEF WakeAll, CallbackNotifies, loopVars
<1>9. CASE LockRegistry \/ StartCallback \/ CallbackBody \/ UnlockRegistry
  BY <1>9 DEF LockRegistry, StartCallback, CallbackBody, UnlockRegistry, threadVars,
              loopVars
<1>10. QED
  BY <1>2, <1>3, <1>4, <1>5, <1>6, <1>7, <1>8, <1>9, StepKinds DEF PlainStep

-----------------------------------------------------------------------------
(* The theorems.                                                           *)

\* The inductive invariant holds at first.
LEMMA InitHolds == Init => IInv
<1> SUFFICES ASSUME Init PROVE IInv
  OBVIOUS
<1> USE DEF Init
<1>1. TypeInv
  <2>1. <<>> \in Seq(Events) /\ Len(<<>>) = 0
    BY EmptySeq
  <2>2. 0 \in 0..LoopSlotCount + 1 /\ 1 \in 1..MaxCallbacks + 1 /\ Len(pipe) <= PipeCap
    BY <2>1, BoundAssumption
  <2>3. /\ slots \in [1..LoopSlotCount -> Threads \cup {NoOne}]
        /\ probe \in [Threads -> 0..LoopSlotCount + 1]
    BY <2>2
  <2>4. /\ pipe \in Seq(Events) /\ handler \in [Signals -> {"default", "pipe", "other"}]
        /\ warned \subseteq Signals /\ nSignals \in Nat /\ nextId \in 1..MaxCallbacks + 1
    BY <2>1, <2>2
  <2>5. TypeOK
    BY <2>2, <2>3, <2>4 DEF TypeOK, ThreadPcs, WatcherPcs
  <2>6. QED
    BY <2>5 DEF TypeInv, TargetOK, Waiting, InOnStop
<1>2. LockInv
  BY ThreadAssumption DEF LockInv, MutexOK, StopOK, LoopStates, BeforeStop, AfterLoop
<1>3. ListInv
  BY DEF ListInv, RegOK, RunOK, InOnStop, LoopStates, AfterLoop, Ids
<1>4. WaitInv /\ PushIsNewest
  BY DEF WaitInv, FallingOK, NoLostStop, NoLostNotify, AfterWake, PushIsNewest
<1>5. LoopsAreNamed
  BY ThreadAssumption DEF LoopsAreNamed
<1>6. QED
  BY <1>1, <1>2, <1>3, <1>4, <1>5 DEF IInv

\* Every step keeps it.
LEMMA NextKeeps == IInv /\ [Next]_vars => IInv'
BY TypeKeeps, MutexKeeps, StopKeeps, RegKeeps, RunKeeps, NewestKeeps, FallingKeeps,
   NoLostStopKeeps, NoLostNotifyKeeps, LoopsKeep DEF IInv, LockInv, ListInv, WaitInv

\* The inductive invariant holds in every reachable state.
THEOREM Invariance == Spec => []IInv
BY InitHolds, NextKeeps, PTL DEF Spec

\* Types, for every number of threads and every bound.
THEOREM TypeCorrect == Spec => []TypeOK
<1>1. IInv => TypeOK
  BY DEF IInv, TypeInv
<1>2. QED
  BY <1>1, Invariance, PTL

\* No thread sleeps through the shutdown: whoever is about to sleep holds m, and stopping
\* is set under m.
THEOREM NoSignalIsLost == Spec => []NoLostStop
<1>1. IInv => NoLostStop
  BY DEF IInv, WaitInv
<1>2. QED
  BY <1>1, Invariance, PTL

\* No thread sleeps through a notification of its Wakeup, for any number of waiters that
\* share one.
THEOREM NoNotifyIsLost == Spec => []NoLostNotify
<1>1. IInv => NoLostNotify
  BY DEF IInv, WaitInv
<1>2. QED
  BY <1>1, Invariance, PTL

\* onStop runs each function at most once, and none that is registered is missed: the
\* race between the check of stopping and the watcher's loop is closed by regMutex.
THEOREM RunsOnce == Spec => []OnStopRunsOnce
<1>1. IInv => OnStopRunsOnce
  BY DEF IInv, ListInv, RegOK, RunOK, LoopStates, AfterLoop, OnStopRunsOnce
<1>2. QED
  BY <1>1, Invariance, PTL

\* The callbacks run from the newest to the oldest.
THEOREM RunsInReverse == Spec => []ReverseOrder
<1>1. ASSUME IInv PROVE ReverseOrder
  <2> SUFFICES ASSUME NEW c \in Ids, NEW d \in Ids, c \in callbacks, d \in callbacks, c < d,
                      runs[c] > 0
               PROVE  runs[d] > 0
    BY <1>1 DEF ReverseOrder, IInv, ListInv, RegOK
  <2>1. c \in Nat /\ d \in Nat
    BY DEF Ids
  <2>2. watcher \in LoopStates \cup AfterLoop /\ c \notin todo
    BY <1>1 DEF IInv, ListInv, RunOK
  <2>3. d \notin todo
    BY <1>1, <2>1, <2>2 DEF IInv, ListInv, RunOK
  <2>4. QED
    BY <1>1, <2>2, <2>3 DEF IInv, ListInv, RunOK
<1>2. QED
  BY <1>1, Invariance, PTL

\* Whoever is told to stop finds the reason of the first event, and the alarm armed.
THEOREM ReasonComesFirst == Spec => []StopIsExplained
<1>1. IInv => StopIsExplained
  BY DEF IInv, LockInv, StopOK, ListInv, RunOK, BeforeStop, StopIsExplained
<1>2. QED
  BY <1>1, Invariance, PTL

\* A forced exit names the tracked loops that are alive, and no others.
THEOREM LoopsNamed == Spec => []LoopsAreNamed
<1>1. IInv => LoopsAreNamed
  BY DEF IInv
<1>2. QED
  BY <1>1, Invariance, PTL

\* A step of the system starts no released callback, and releases none while the watcher
\* is in the middle of the callbacks.
LEMMA ReleaseIsFinal ==
    ASSUME IInv, [Next]_vars, NEW c \in Ids
    PROVE  /\ reg[c] = "released" => runs'[c] = runs[c]
           /\ reg[c] = "registered" /\ reg'[c] = "released" =>
                 watcher \notin {"callback", "notify", "stuck"}
<1>1. /\ runs \in [Ids -> Nat]
      /\ reg \in [Ids -> {"none", "calling", "registered", "released", "inline"}]
      /\ todo \subseteq callbacks /\ (c \in callbacks <=> reg[c] = "registered")
      /\ \A t \in Threads : pc[t] \in InOnStop => target[t] \in Ids /\ reg[target[t]] = "calling"
      /\ nextId \in Nat /\ (reg[c] = "none" <=> c >= nextId)
  BY BoundAssumption DEF IInv, TypeInv, TypeOK, TargetOK, ListInv, RegOK, RunOK
<1>2. CASE FarStep
  BY <1>2, FarFrame
<1>3. CASE WatcherMove
  BY <1>3, MoveFrame
<1>4. ASSUME NEW t \in Threads, RunInline(t)
      PROVE  \/ reg[c] # "released" /\ reg'[c] # "released"
             \/ reg'[c] = reg[c] /\ runs'[c] = runs[c]
  <2>1. /\ runs' = [runs EXCEPT ![target[t]] = runs[target[t]] + 1]
        /\ reg' = [reg EXCEPT ![target[t]] = "inline"]
        /\ pc[t] \in InOnStop
    BY <1>4 DEF RunInline, InOnStop
  <2>2. target[t] \in Ids /\ reg[target[t]] = "calling"
    BY <1>1, <2>1
  <2>3. CASE c = target[t]
    <3>1. reg[c] # "released" /\ reg'[c] # "released"
      BY <1>1, <2>1, <2>2, <2>3
    <3>2. QED
      BY <3>1
  <2>4. CASE c # target[t]
    BY <1>1, <2>1, <2>2, <2>4
  <2>5. QED
    BY <2>3, <2>4
<1>5. ASSUME NEW t \in Threads, Release(t)
      PROVE  UNCHANGED runs /\ watcher \notin {"callback", "notify", "stuck"}
  <2>1. regMutex = NoOne /\ UNCHANGED runs
    BY <1>5 DEF Release
  <2>2. QED
    BY <2>1, ThreadAssumption DEF IInv, LockInv, MutexOK, LoopStates
<1>6. ASSUME NEW t \in Threads, OnStop(t) \/ Push(t)
      PROVE  UNCHANGED runs /\ (reg'[c] = "released" => reg[c] = "released")
  BY <1>1, <1>6 DEF OnStop, Push
<1>7. ASSUME NEW t \in Threads,
             \/ BeginWait(t) \/ CheckWait(t) \/ Block(t) \/ WaitExpires(t) \/ Notify(t)
             \/ NotifyWakes(t) \/ Request(t) \/ RequestWrites(t) \/ RequestKills(t)
             \/ BeginLoop(t) \/ ClaimSlot(t) \/ Leave(t) \/ Hang(t)
      PROVE  UNCHANGED <<runs, reg>>
  BY <1>7 DEF BeginWait, CheckWait, Block, WaitExpires, Notify, NotifyWakes, Request,
              RequestWrites, RequestKills, BeginLoop, ClaimSlot, Leave, Hang, regVars
<1>8. CASE StartCallback
  <2>1. PICK d \in todo : runs' = [runs EXCEPT ![d] = @ + 1] /\ UNCHANGED reg
    BY <1>8 DEF StartCallback
  <2>2. QED
    BY <1>1, <2>1
<1>9. CASE WakeAll \/ LockRegistry \/ CallbackBody \/ CallbackNotifies \/ UnlockRegistry
  BY <1>9 DEF WakeAll, LockRegistry, CallbackBody, CallbackNotifies, UnlockRegistry,
              regVars
<1>10. CASE \E t \in Threads :
               PlainStep(t) \/ CheckWait(t) \/ Block(t) \/ OnStop(t) \/ Push(t)
  <2>1. PICK t \in Threads :
           PlainStep(t) \/ CheckWait(t) \/ Block(t) \/ OnStop(t) \/ Push(t)
    BY <1>10
  <2>2. CASE RunInline(t)
    BY <1>4, <2>2
  <2>3. CASE Release(t)
    BY <1>5, <2>3
  <2>4. CASE OnStop(t) \/ Push(t)
    BY <1>6, <2>4
  <2>5. CASE (PlainStep(t) /\ ~RunInline(t) /\ ~Release(t)) \/ CheckWait(t) \/ Block(t)
    BY <1>7, <2>5 DEF PlainStep
  <2>6. QED
    BY <2>1, <2>2, <2>3, <2>4, <2>5
<1>11. QED
  BY <1>2, <1>3, <1>8, <1>9, <1>10, StepKinds

\* A destroyed Registration is over: its callback never starts again, and reset waits
\* for the callbacks that are running.
THEOREM ReleaseIsOver == Spec => ReleasedIsOver
<1>1. IInv /\ [Next]_vars =>
         [\A c \in Ids :
            /\ reg[c] = "released" => runs'[c] = runs[c]
            /\ reg[c] = "registered" /\ reg'[c] = "released" =>
                  watcher \notin {"callback", "notify", "stuck"}]_vars
  BY ReleaseIsFinal
<1>2. QED
  BY <1>1, Invariance, PTL DEF Spec, ReleasedIsOver

-----------------------------------------------------------------------------
(* The promise of StopCalls.                                               *)

\* A step that changes no registration, no count and no phase is not seen by those who
\* registered.
LEMMA Unseen ==
    ASSUME \A c \in Ids : Fate(c)' = Fate(c), UNCHANGED runs, StopPhase' = StopPhase
    PROVE  UNCHANGED Promised!vars
BY DEF Promised!vars

\* The phase follows from where the watcher is.
LEMMA PhaseOfPlace ==
    ASSUME StopOK
    PROVE  StopPhase = IF watcher \in BeforeStop THEN "no"
                       ELSE IF watcher \in LoopStates THEN "calling"
                       ELSE IF watcher \in AfterLoop THEN "over" ELSE "asked"
BY DEF StopPhase, StopOK, BeforeStop, LoopStates, AfterLoop

\* A push is a registration before the calls begin, of the newest function.
LEMMA PushRegisters ==
    ASSUME IInv, NEW t \in Threads, Push(t)
    PROVE  Promised!Register(target[t])
<1>1. /\ reg \in [Ids -> {"none", "calling", "registered", "released", "inline"}]
      /\ target[t] \in Ids /\ Ids \subseteq Nat /\ nextId = target[t] + 1
      /\ reg[target[t]] = "calling"
      /\ \A c \in Ids : reg[c] = "none" <=> c >= nextId
  BY DEF IInv, TypeInv, TypeOK, TargetOK, ListInv, RegOK, PushIsNewest, InOnStop, Ids, Push
<1>2. /\ reg' = [reg EXCEPT ![target[t]] = "registered"]
      /\ UNCHANGED <<runs, watcher, stopping>>
  BY DEF Push, watchVars, stopVars
<1>3. watcher \notin LoopStates \cup AfterLoop
  BY ThreadAssumption DEF IInv, LockInv, MutexOK, StopOK, Push
<1>4. StopPhase \in {"no", "asked"} /\ StopPhase' = StopPhase
  BY <1>2, <1>3 DEF StopPhase
<1>5. \A c \in Ids : c >= target[t] => Fate(c) = "none"
  <2>1. \A c, d \in Nat : c >= d => c = d \/ c >= d + 1
    OBVIOUS
  <2>2. \A c \in Ids : c >= target[t] => c = target[t] \/ c >= nextId
    BY <1>1, <2>1
  <2>3. QED
    BY <1>1, <2>2 DEF Fate
<1>6. \A c \in Ids : Fate(c)' = IF c = target[t] THEN "registered" ELSE Fate(c)
  BY <1>1, <1>2 DEF Fate
<1>7. QED
  BY <1>1, <1>2, <1>4, <1>5, <1>6 DEF Promised!Register

\* A function that comes too late is called once, on its caller.
LEMMA InlineCallsLate ==
    ASSUME IInv, NEW t \in Threads, RunInline(t)
    PROVE  Promised!CallLate(target[t])
<1>1. /\ reg \in [Ids -> {"none", "calling", "registered", "released", "inline"}]
      /\ runs \in [Ids -> Nat]
      /\ target[t] \in Ids /\ reg[target[t]] = "calling" /\ runs[target[t]] = 0
  BY DEF IInv, TypeInv, TypeOK, TargetOK, ListInv, RegOK, RunOK, InOnStop, RunInline
<1>2. /\ reg' = [reg EXCEPT ![target[t]] = "inline"]
      /\ runs' = [runs EXCEPT ![target[t]] = 1]
      /\ UNCHANGED <<watcher, stopping>>
  BY <1>1 DEF RunInline, watchVars, stopVars
<1>3. StopPhase # "no" /\ StopPhase' = StopPhase
  BY <1>2 DEF StopPhase, IInv, LockInv, StopOK, RunInline
<1>4. \A c \in Ids : Fate(c)' = IF c = target[t] THEN "late" ELSE Fate(c)
  BY <1>1, <1>2 DEF Fate
<1>5. Fate(target[t]) = "none"
  BY <1>1 DEF Fate
<1>6. QED
  BY <1>1, <1>2, <1>3, <1>4, <1>5 DEF Promised!CallLate

\* reset releases, and never during the calls.
LEMMA ResetReleases ==
    ASSUME IInv, NEW t \in Threads, Release(t)
    PROVE  \E c \in Ids : Promised!Release(c)
<1>1. PICK c \in Ids : /\ reg[c] = "registered"
                       /\ reg' = [reg EXCEPT ![c] = "released"]
                       /\ UNCHANGED <<runs, watcher, stopping>>
  BY DEF Release, watchVars, stopVars
<1>2. watcher \notin LoopStates
  BY ThreadAssumption DEF IInv, LockInv, MutexOK, Release
<1>3. StopPhase # "calling" /\ StopPhase' = StopPhase
  BY <1>1, <1>2 DEF StopPhase
<1>4. reg \in [Ids -> {"none", "calling", "registered", "released", "inline"}]
  BY DEF IInv, TypeInv, TypeOK
<1>5. Fate(c) = "registered" /\ \A d \in Ids : Fate(d)' = IF d = c THEN "released" ELSE Fate(d)
  BY <1>1, <1>4 DEF Fate
<1>6. QED
  BY <1>1, <1>3, <1>5 DEF Promised!Release

\* What the watcher has still to visit is what is registered and was not called.
LEMMA TodoIsToCall ==
    ASSUME IInv, watcher \in LoopStates
    PROVE  Promised!ToCall = todo
<1>1. /\ todo \subseteq callbacks /\ callbacks \subseteq Ids
      /\ \A c \in Ids : c \in callbacks <=> reg[c] = "registered"
      /\ \A c \in callbacks : runs[c] = IF c \notin todo THEN 1 ELSE 0
  BY DEF IInv, TypeInv, TypeOK, ListInv, RegOK, RunOK
<1>2. \A c \in Ids : Fate(c) = "registered" <=> reg[c] = "registered"
  BY DEF Fate
<1>3. QED
  BY <1>1, <1>2 DEF Promised!ToCall

\* A turn of the watcher's loop calls the newest function that is left.
LEMMA LoopCalls ==
    ASSUME IInv, StartCallback
    PROVE  \E c \in Ids : Promised!Call(c)
<1>1. PICK c \in todo : /\ IsLast(c, todo)
                        /\ runs' = [runs EXCEPT ![c] = runs[c] + 1]
                        /\ watcher' \in LoopStates
                        /\ UNCHANGED reg
  BY DEF StartCallback, LoopStates
<1>2. watcher \in LoopStates
  BY DEF StartCallback, LoopStates
<1>3. Promised!ToCall = todo /\ c \in Ids
  BY <1>2, TodoIsToCall DEF Promised!ToCall
<1>4. runs[c] = 0
  BY <1>3 DEF Promised!ToCall
<1>5. StopPhase = "calling" /\ StopPhase' = "calling"
  BY <1>1, <1>2 DEF StopPhase
<1>6. \A d \in Ids : Fate(d)' = Fate(d)
  BY <1>1 DEF Fate
<1>7. runs' = [runs EXCEPT ![c] = 1]
  BY <1>1, <1>4
<1>8. Promised!Call(c)
  BY <1>1, <1>3, <1>5, <1>6, <1>7 DEF Promised!Call, IsLast
<1>9. QED
  BY <1>3, <1>8

\* The watcher's other moves are the stop, the begin and the end of the calls, or nothing
\* that is promised.
LEMMA WatcherPhases ==
    ASSUME IInv, \/ WatcherMove \/ WakeAll \/ LockRegistry \/ CallbackBody
                 \/ CallbackNotifies \/ UnlockRegistry
    PROVE  [Promised!Next]_(Promised!vars)
<1>1. StopOK /\ (watcher \in LoopStates <=> regMutex = Watcher)
  BY DEF IInv, LockInv, MutexOK
<1>2. UNCHANGED <<reg, runs>>
  BY MoveFrame DEF WakeAll, LockRegistry, CallbackBody, CallbackNotifies, UnlockRegistry,
                   regVars
<1>3. \A c \in Ids : Fate(c)' = Fate(c)
  BY <1>2 DEF Fate
<1>4. CASE Publish
  <2>1. StopPhase = "no" /\ StopPhase' = "asked"
    BY <1>1, <1>4 DEF StopPhase, StopOK, Publish, BeforeStop, LoopStates, AfterLoop
  <2>2. Promised!Stop
    BY <1>2, <1>3, <2>1 DEF Promised!Stop
  <2>3. QED
    BY <2>2 DEF Promised!Next
<1>5. CASE LockRegistry
  <2>1. StopPhase = "asked" /\ StopPhase' = "calling"
    BY <1>1, <1>5 DEF StopPhase, StopOK, LockRegistry, BeforeStop, LoopStates, AfterLoop
  <2>2. Promised!Begin
    BY <1>2, <1>3, <2>1 DEF Promised!Begin
  <2>3. QED
    BY <2>2 DEF Promised!Next
<1>6. CASE UnlockRegistry
  <2>1. StopPhase = "calling" /\ StopPhase' = "over" /\ todo = {}
    BY <1>6 DEF StopPhase, UnlockRegistry, LoopStates, AfterLoop
  <2>2. Promised!ToCall = {}
    BY <1>6, <2>1, TodoIsToCall DEF UnlockRegistry, LoopStates
  <2>3. Promised!End
    BY <1>2, <1>3, <2>1, <2>2 DEF Promised!End
  <2>4. QED
    BY <2>3 DEF Promised!Next
<1>7. CASE \/ InstallPipe \/ FirstEvent \/ Arm \/ QueueQuit \/ NextEvent
           \/ DeadlineReached \/ WakeAll \/ CallbackBody \/ CallbackNotifies
  <2>1. UNCHANGED stopping
    BY <1>7 DEF InstallPipe, FirstEvent, Arm, QueueQuit, NextEvent, DeadlineReached,
                WakeAll, CallbackBody, CallbackNotifies, stopVars
  <2>2. /\ watcher \in LoopStates <=> watcher' \in LoopStates
        /\ watcher \in AfterLoop <=> watcher' \in AfterLoop
    BY <1>1, <1>7 DEF InstallPipe, FirstEvent, Arm, QueueQuit, NextEvent,
                DeadlineReached, WakeAll, CallbackBody, CallbackNotifies, LoopStates,
                AfterLoop, StopOK
  <2>3. StopPhase' = StopPhase
    BY <2>1, <2>2 DEF StopPhase
  <2>4. QED
    BY <1>2, <1>3, <2>3, Unseen
<1>8. QED
  BY <1>4, <1>5, <1>6, <1>7 DEF WatcherMove

\* Every step is one of StopCalls, or none that it sees.
LEMMA StepAsPromised ==
    ASSUME IInv, [Next]_vars
    PROVE  [Promised!Next]_(Promised!vars)
<1>1. CASE FarStep
  BY <1>1, FarFrame, Unseen DEF Fate, StopPhase
<1>2. CASE \/ WatcherMove \/ WakeAll \/ LockRegistry \/ CallbackBody
           \/ CallbackNotifies \/ UnlockRegistry
  BY <1>2, WatcherPhases
<1>3. CASE StartCallback
  BY <1>3, LoopCalls DEF Promised!Next
<1>4. ASSUME NEW t \in Threads, Push(t) PROVE Promised!Next
  <2>1. target[t] \in Ids
    BY <1>4 DEF Push, IInv, TypeInv, TargetOK, InOnStop
  <2>2. QED
    BY <1>4, <2>1, PushRegisters DEF Promised!Next
<1>5. ASSUME NEW t \in Threads, RunInline(t) PROVE Promised!Next
  <2>1. target[t] \in Ids
    BY <1>5 DEF RunInline, IInv, TypeInv, TargetOK, InOnStop
  <2>2. QED
    BY <1>5, <2>1, InlineCallsLate DEF Promised!Next
<1>6. ASSUME NEW t \in Threads, Release(t) PROVE Promised!Next
  BY <1>6, ResetReleases DEF Promised!Next
<1>7. ASSUME NEW t \in Threads, OnStop(t) PROVE UNCHANGED Promised!vars
  <2>1. /\ nextId \in Ids /\ reg' = [reg EXCEPT ![nextId] = "calling"]
        /\ UNCHANGED <<runs, watcher, stopping>>
    BY <1>7, BoundAssumption
       DEF OnStop, watchVars, stopVars, Ids, IInv, TypeInv, TypeOK
  <2>2. /\ reg[nextId] = "none" /\ nextId \in Nat
        /\ reg \in [Ids -> {"none", "calling", "registered", "released", "inline"}]
    BY <2>1 DEF IInv, ListInv, RegOK, TypeInv, TypeOK, Ids
  <2>3. \A c \in Ids : Fate(c)' = Fate(c)
    BY <2>1, <2>2 DEF Fate
  <2>4. QED
    BY <2>1, <2>3, Unseen DEF StopPhase
<1>8. ASSUME NEW t \in Threads,
             \/ BeginWait(t) \/ CheckWait(t) \/ Block(t) \/ WaitExpires(t) \/ Notify(t)
             \/ NotifyWakes(t) \/ Request(t) \/ RequestWrites(t) \/ RequestKills(t)
             \/ BeginLoop(t) \/ ClaimSlot(t) \/ Leave(t) \/ Hang(t)
      PROVE  UNCHANGED Promised!vars
  <2>1. UNCHANGED <<reg, runs, watcher, stopping>>
    BY <1>8 DEF BeginWait, CheckWait, Block, WaitExpires, Notify, NotifyWakes, Request,
                RequestWrites, RequestKills, BeginLoop, ClaimSlot, Leave, Hang, regVars,
                watchVars, stopVars
  <2>2. QED
    BY <2>1, Unseen DEF Fate, StopPhase
<1>9. QED
  BY <1>1, <1>2, <1>3, <1>4, <1>5, <1>6, <1>7, <1>8, StepKinds DEF PlainStep

\* onStop, Registration and the watcher's loop implement StopCalls, for any number of
\* threads and functions: each function is called once, the last registered first, or at
\* once when it is too late, and none after its release.
THEOREM CallsArePromised == Spec => CallsAsPromised
<1>1. Init => Promised!Init
  BY DEF Init, Promised!Init, StopPhase, Fate, LoopStates, AfterLoop
<1>2. QED
  BY <1>1, StepAsPromised, Invariance, PTL DEF Spec, CallsAsPromised, Promised!Spec
=============================================================================
