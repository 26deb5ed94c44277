------------------------------ MODULE Shutdown ------------------------------
(***************************************************************************)
(* Graceful shutdown: thread/shutdown.h, thread/shutdown.cpp.              *)
(*                                                                         *)
(* Actors: the process's main thread (install, exec, join, finish), the    *)
(* watcher thread, the worker threads (sleepFor, Wakeup, onStop,           *)
(* Registration, request, Loop), and the environment (signals, time, code  *)
(* that takes a signal's handler away).                                    *)
(*                                                                         *)
(* A callback's identity is the number nextId gives it.  The vector of     *)
(* callbacks only grows at its end, with growing ids, so it is the set of  *)
(* the ids in it and its order is that of the ids.                         *)
(*                                                                         *)
(* Time is three phases: the watcher is counting ("counting"), the         *)
(* deadline has passed ("deadline"), the alarm 5 s later is due ("alarm"). *)
(***************************************************************************)
EXTENDS Naturals, FiniteSets, Sequences

CONSTANTS
    Threads,        \* worker threads
    Wakeups,        \* Wakeup objects
    Program,        \* Program[t]: the calls thread t may make
    MaxCallbacks,   \* bound: how many functions are passed to onStop
    MaxSignals,     \* bound: how many signals come from outside
    PipeCap,        \* capacity of the pipe, in bytes
    LoopSlotCount,  \* loopSlotCount
    Stuck,          \* ids of the callbacks that block for ever
    NoOne           \* no thread; also the target of sleepFor

Signals == {"sigint", "sigterm"}
Events  == Signals \cup {"request"}
Calls   == {"sleepFor", "waitFor", "notify", "onStop", "release", "request",
            "loop", "hang"}
Ids     == 1..MaxCallbacks
Watcher == "watcher"

ASSUME ThreadAssumption ==
    /\ IsFiniteSet(Threads)
    /\ Watcher \notin Threads
    /\ NoOne \notin Threads \cup Wakeups \cup {Watcher}
    /\ Program \in [Threads -> SUBSET Calls]
ASSUME BoundAssumption ==
    /\ MaxCallbacks \in Nat
    /\ MaxSignals \in Nat
    /\ PipeCap \in Nat \ {0}
    /\ LoopSlotCount \in Nat \ {0}
    /\ Stuck \subseteq Ids

VARIABLES
    proc,       \* "alive", or how the process ended
    main,       \* where the main thread is
    installed,  \* installedFlag
    handler,    \* who handles each signal: "default", "pipe", "other"
    warned,     \* the signals checkHandlers has warned about
    nSignals,   \* signals sent so far
    pipe,       \* the bytes in the pipe, as events
    stopping,   \* State::stopping
    reason,     \* State::reason
    m,          \* who holds State::m
    woken,      \* Wakeup::woken
    regMutex,   \* who holds State::regMutex
    callbacks,  \* the ids in State::callbacks
    nextId,     \* number of the next function passed to onStop: State::nextId, which
                \* in the code leaves out the functions that run at once
    reg,        \* what became of the function with that id
    runs,       \* how many times the function with that id was called
    watcher,    \* where the watcher is
    todo,       \* ids its callback loop has still to visit
    first,      \* the first event: exitSig
    quit,       \* QCoreApplication::quit is queued
    armed,      \* alarm() was called
    clock,      \* phase of time
    pc,         \* where each worker is
    target,     \* the Wakeup or id that worker's call is about
    slots,      \* loopSlots: the thread whose name is in each slot
    probe       \* the slot each Loop constructor looks at

procVars   == <<proc, main, installed, quit>>
signalVars == <<handler, warned, nSignals, pipe>>
stopVars   == <<stopping, reason>>
cvVars     == <<m, woken>>
regVars    == <<regMutex, callbacks, nextId, reg, runs>>
watchVars  == <<watcher, todo, first>>
timeVars   == <<armed, clock>>
threadVars == <<pc, target>>
loopVars   == <<slots, probe>>
vars == <<procVars, signalVars, stopVars, cvVars, regVars, watchVars, timeVars,
          threadVars, loopVars>>

ThreadPcs  == {"idle", "wait", "falling", "blocked", "woken", "expired",
               "notifying", "push", "inline", "requesting", "killing",
               "claiming", "stuck", "done"}
WatcherPcs == {"off", "first", "arm", "publish", "wake", "lock", "loop",
               "callback", "notify", "stuck", "quit", "final", "force"}

TypeOK ==
    /\ proc \in {"alive", "exited", "forced", "alarm", "killed"}
    /\ main \in {"start", "piped", "sigint", "sigterm", "exec", "join"}
    /\ installed \in BOOLEAN /\ quit \in BOOLEAN
    /\ handler \in [Signals -> {"default", "pipe", "other"}]
    /\ warned \subseteq Signals
    /\ nSignals \in Nat
    /\ pipe \in Seq(Events) /\ Len(pipe) <= PipeCap
    /\ stopping \in BOOLEAN
    /\ reason \in Events \cup {"none"}
    /\ m \in Threads \cup {NoOne}
    /\ woken \in [Wakeups -> BOOLEAN]
    /\ regMutex \in Threads \cup {Watcher, NoOne}
    /\ callbacks \subseteq Ids /\ todo \subseteq Ids
    /\ nextId \in 1..MaxCallbacks + 1
    /\ reg \in [Ids -> {"none", "calling", "registered", "released", "inline"}]
    /\ runs \in [Ids -> Nat]
    /\ watcher \in WatcherPcs
    /\ first \in Events \cup {"none"}
    /\ armed \in BOOLEAN
    /\ clock \in {"unset", "counting", "deadline", "alarm"}
    /\ pc \in [Threads -> ThreadPcs]
    /\ target \in [Threads -> Wakeups \cup Ids \cup {NoOne}]
    /\ slots \in [1..LoopSlotCount -> Threads \cup {NoOne}]
    /\ probe \in [Threads -> 0..LoopSlotCount + 1]

Init ==
    /\ proc = "alive" /\ main = "start" /\ installed = FALSE /\ quit = FALSE
    /\ handler = [s \in Signals |-> "default"] /\ warned = {} /\ nSignals = 0
    /\ pipe = <<>>
    /\ stopping = FALSE /\ reason = "none"
    /\ m = NoOne /\ woken = [x \in Wakeups |-> FALSE]
    /\ regMutex = NoOne /\ callbacks = {} /\ nextId = 1
    /\ reg = [c \in Ids |-> "none"] /\ runs = [c \in Ids |-> 0]
    /\ watcher = "off" /\ todo = {} /\ first = "none"
    /\ armed = FALSE /\ clock = "unset"
    /\ pc = [t \in Threads |-> "idle"] /\ target = [t \in Threads |-> NoOne]
    /\ slots = [i \in 1..LoopSlotCount |-> NoOne]
    /\ probe = [t \in Threads |-> 0]

-----------------------------------------------------------------------------
(* The pipe and the signals.                                               *)

\* A non-blocking write of one byte: lost when the pipe is full.
WriteByte(e) == pipe' = IF Len(pipe) < PipeCap THEN Append(pipe, e) ELSE pipe

\* A signal reaches the process: onSignal writes it to the pipe, other code
\* consumes it, or the default action ends the process.
Deliver(s) ==
    \/ /\ handler[s] = "pipe"
       /\ WriteByte(s)
       /\ UNCHANGED proc
    \/ /\ handler[s] = "other"
       /\ UNCHANGED <<pipe, proc>>
    \/ /\ handler[s] = "default"
       /\ proc' = "killed"
       /\ UNCHANGED pipe

Signal(s) ==
    /\ nSignals < MaxSignals
    /\ nSignals' = nSignals + 1
    /\ Deliver(s)
    /\ UNCHANGED <<main, installed, quit, handler, warned, stopVars, cvVars,
                   regVars, watchVars, timeVars, threadVars, loopVars>>

\* Code that sets its own handler after install (an asio signal_set).
ReplaceHandler(s) ==
    /\ main = "exec" /\ handler[s] = "pipe"
    /\ handler' = [handler EXCEPT ![s] = "other"]
    /\ UNCHANGED <<procVars, warned, nSignals, pipe, stopVars, cvVars, regVars,
                   watchVars, timeVars, threadVars, loopVars>>

-----------------------------------------------------------------------------
(* install(), and the end of main.                                         *)

\* pipe2, then the watcher thread starts; or pipe2 fails and nothing changes.
InstallPipe ==
    /\ main = "start"
    /\ \/ main' = "piped" /\ watcher' = "first"
       \/ main' = "exec"  /\ UNCHANGED watcher
    /\ UNCHANGED <<proc, installed, quit, signalVars, stopVars, cvVars, regVars,
                   todo, first, timeVars, threadVars, loopVars>>

InstallHandler(s) ==
    /\ main = (IF s = "sigint" THEN "piped" ELSE "sigint")
    /\ main' = s
    /\ handler' = [handler EXCEPT ![s] = "pipe"]
    /\ UNCHANGED <<proc, installed, quit, warned, nSignals, pipe, stopVars,
                   cvVars, regVars, watchVars, timeVars, threadVars, loopVars>>

InstallFlag ==
    /\ main = "sigterm"
    /\ main' = "exec" /\ installed' = TRUE
    /\ UNCHANGED <<proc, quit, signalVars, stopVars, cvVars, regVars, watchVars,
                   timeVars, threadVars, loopVars>>

\* The queued quit makes exec() return; main joins every thread; finish().
ExecReturns ==
    /\ main = "exec" /\ quit
    /\ main' = "join"
    /\ UNCHANGED <<proc, installed, quit, signalVars, stopVars, cvVars, regVars,
                   watchVars, timeVars, threadVars, loopVars>>

Finish ==
    /\ main = "join"
    /\ \A t \in Threads : pc[t] = "done"
    /\ proc' = "exited"
    /\ UNCHANGED <<main, installed, quit, signalVars, stopVars, cvVars, regVars,
                   watchVars, timeVars, threadVars, loopVars>>

-----------------------------------------------------------------------------
(* The condition variable: sleepFor, Wakeup::waitFor, Wakeup::notify.      *)

\* A worker may make any call of its program, before and after shutdown starts.
May(t, call) == pc[t] = "idle" /\ call \in Program[t]

\* notify_all, by a caller that is itself not blocked.
Wake(locations) == [t \in Threads |-> IF pc[t] = "blocked" THEN "woken" ELSE locations[t]]

Goto(t, to) == pc' = [pc EXCEPT ![t] = to]

\* sleepFor (target NoOne) or waitFor: the deadline of the wait is computed.
BeginWait(t) ==
    /\ \/ May(t, "sleepFor") /\ target' = [target EXCEPT ![t] = NoOne]
       \/ /\ May(t, "waitFor")
          /\ \E x \in Wakeups : target' = [target EXCEPT ![t] = x]
    /\ Goto(t, "wait")
    /\ UNCHANGED <<procVars, signalVars, stopVars, cvVars, regVars, watchVars,
                   timeVars, loopVars>>

\* The predicate of the wait.
MustReturn(t) == stopping \/ (target[t] # NoOne /\ woken[target[t]])

\* Under m: the wait returns (stopping wins over woken, which it leaves set),
\* or the thread is about to block, still holding m.
CheckWait(t) ==
    /\ pc[t] \in {"wait", "woken", "expired"}
    /\ m = NoOne
    /\ \/ /\ MustReturn(t) \/ pc[t] = "expired"
          /\ woken' = IF ~stopping /\ target[t] # NoOne
                      THEN [woken EXCEPT ![target[t]] = FALSE] ELSE woken
          /\ Goto(t, "idle")
          /\ target' = [target EXCEPT ![t] = NoOne]
          /\ UNCHANGED m
       \/ /\ ~MustReturn(t) /\ pc[t] # "expired"
          /\ Goto(t, "falling")
          /\ m' = t
          /\ UNCHANGED <<woken, target>>
    /\ UNCHANGED <<procVars, signalVars, stopVars, regVars, watchVars, timeVars,
                   loopVars>>

\* wait_until releases m and blocks in one step.
Block(t) ==
    /\ pc[t] = "falling"
    /\ Goto(t, "blocked")
    /\ m' = NoOne
    /\ UNCHANGED <<procVars, signalVars, stopVars, woken, regVars, watchVars,
                   timeVars, target, loopVars>>

WaitExpires(t) ==
    /\ pc[t] = "blocked"
    /\ Goto(t, "expired")
    /\ UNCHANGED <<procVars, signalVars, stopVars, cvVars, regVars, watchVars,
                   timeVars, target, loopVars>>

\* Mutant: woken is set without m.
NotifyUnlocked(t) ==
    /\ May(t, "notify")
    /\ \E x \in Wakeups : woken' = [woken EXCEPT ![x] = TRUE]
    /\ Goto(t, "notifying")
    /\ UNCHANGED <<procVars, signalVars, stopVars, m, regVars, watchVars,
                   timeVars, target, loopVars>>

\* Wakeup::notify: woken is set under m; the notify_all comes after.
Notify(t) ==
    /\ May(t, "notify")
    /\ m = NoOne
    /\ \E x \in Wakeups : woken' = [woken EXCEPT ![x] = TRUE]
    /\ Goto(t, "notifying")
    /\ UNCHANGED <<procVars, signalVars, stopVars, m, regVars, watchVars,
                   timeVars, target, loopVars>>

NotifyWakes(t) ==
    /\ pc[t] = "notifying"
    /\ pc' = Wake([pc EXCEPT ![t] = "idle"])
    /\ UNCHANGED <<procVars, signalVars, stopVars, cvVars, regVars, watchVars,
                   timeVars, target, loopVars>>

-----------------------------------------------------------------------------
(* onStop and Registration.                                                *)

\* Mutant: stopping is checked and regMutex is let go before the push.
OnStopChecksFirst(t) ==
    /\ May(t, "onStop")
    /\ nextId <= MaxCallbacks
    /\ regMutex = NoOne
    /\ nextId' = nextId + 1
    /\ target' = [target EXCEPT ![t] = nextId]
    /\ reg' = [reg EXCEPT ![nextId] = "calling"]
    /\ Goto(t, IF stopping THEN "inline" ELSE "push")
    /\ UNCHANGED <<procVars, signalVars, stopVars, cvVars, regMutex, callbacks, runs,
                   watchVars, timeVars, loopVars>>

\* onStop takes regMutex and reads stopping, which the watcher may set at any
\* time: stopping is not guarded by regMutex.
OnStop(t) ==
    /\ May(t, "onStop")
    /\ nextId <= MaxCallbacks
    /\ regMutex = NoOne
    /\ nextId' = nextId + 1
    /\ target' = [target EXCEPT ![t] = nextId]
    /\ reg' = [reg EXCEPT ![nextId] = "calling"]
    /\ \/ /\ stopping
          /\ Goto(t, "inline")
          /\ UNCHANGED regMutex
       \/ /\ ~stopping
          /\ Goto(t, "push")
          /\ regMutex' = t
    /\ UNCHANGED <<procVars, signalVars, stopVars, cvVars, callbacks, runs,
                   watchVars, timeVars, loopVars>>

Push(t) ==
    /\ pc[t] = "push"
    /\ callbacks' = callbacks \cup {target[t]}
    /\ reg' = [reg EXCEPT ![target[t]] = "registered"]
    /\ regMutex' = NoOne
    /\ Goto(t, "idle")
    /\ target' = [target EXCEPT ![t] = NoOne]
    /\ UNCHANGED <<procVars, signalVars, stopVars, cvVars, nextId, runs,
                   watchVars, timeVars, loopVars>>

\* Shutdown had started: the function runs on the caller's thread.
RunInline(t) ==
    /\ pc[t] = "inline"
    /\ runs' = [runs EXCEPT ![target[t]] = @ + 1]
    /\ reg' = [reg EXCEPT ![target[t]] = "inline"]
    /\ Goto(t, "idle")
    /\ target' = [target EXCEPT ![t] = NoOne]
    /\ UNCHANGED <<procVars, signalVars, stopVars, cvVars, regMutex, callbacks,
                   nextId, watchVars, timeVars, loopVars>>

\* Mutant: the callback is erased without regMutex.
ReleaseUnlocked(t) ==
    /\ May(t, "release")
    /\ \E c \in Ids :
          /\ reg[c] = "registered"
          /\ callbacks' = callbacks \ {c}
          /\ reg' = [reg EXCEPT ![c] = "released"]
    /\ UNCHANGED <<procVars, signalVars, stopVars, cvVars, regMutex, nextId, runs,
                   watchVars, timeVars, threadVars, loopVars>>

\* Registration::reset of a live Registration, under regMutex from end to end.
Release(t) ==
    /\ May(t, "release")
    /\ regMutex = NoOne
    /\ \E c \in Ids :
          /\ reg[c] = "registered"
          /\ callbacks' = callbacks \ {c}
          /\ reg' = [reg EXCEPT ![c] = "released"]
    /\ UNCHANGED <<procVars, signalVars, stopVars, cvVars, regMutex, nextId, runs,
                   watchVars, timeVars, threadVars, loopVars>>

-----------------------------------------------------------------------------
(* request().                                                              *)

\* installedFlag and stopping are read first ...
Request(t) ==
    /\ May(t, "request")
    /\ \/ installed /\ stopping /\ UNCHANGED pc
       \/ installed /\ ~stopping /\ Goto(t, "requesting")
       \/ ~installed /\ Goto(t, "killing")
    /\ UNCHANGED <<procVars, signalVars, stopVars, cvVars, regVars, watchVars,
                   timeVars, target, loopVars>>

\* ... then the byte is written; when the pipe is full, kill() is tried.
RequestWrites(t) ==
    /\ pc[t] = "requesting"
    /\ WriteByte("request")
    /\ Goto(t, IF Len(pipe) < PipeCap THEN "idle" ELSE "killing")
    /\ UNCHANGED <<procVars, handler, warned, nSignals, stopVars, cvVars, regVars,
                   watchVars, timeVars, target, loopVars>>

RequestKills(t) ==
    /\ pc[t] = "killing"
    /\ Deliver("sigterm")
    /\ Goto(t, "idle")
    /\ UNCHANGED <<main, installed, quit, handler, warned, nSignals, stopVars,
                   cvVars, regVars, watchVars, timeVars, target, loopVars>>

-----------------------------------------------------------------------------
(* Loop guards, and the end of a worker.                                   *)

BeginLoop(t) ==
    /\ May(t, "loop") /\ probe[t] = 0
    /\ probe' = [probe EXCEPT ![t] = 1]
    /\ Goto(t, "claiming")
    /\ UNCHANGED <<procVars, signalVars, stopVars, cvVars, regVars, watchVars,
                   timeVars, target, slots>>

\* Mutant: a store instead of the compare_exchange.
ClaimByStore(t) ==
    /\ pc[t] = "claiming"
    /\ slots' = [slots EXCEPT ![probe[t]] = t]
    /\ Goto(t, "idle")
    /\ UNCHANGED <<procVars, signalVars, stopVars, cvVars, regVars, watchVars,
                   timeVars, target, probe>>

\* One compare_exchange_strong; past the last slot the loop is not tracked.
ClaimSlot(t) ==
    /\ pc[t] = "claiming"
    /\ \/ /\ probe[t] > LoopSlotCount
          /\ Goto(t, "idle")
          /\ UNCHANGED loopVars
       \/ /\ probe[t] <= LoopSlotCount /\ slots[probe[t]] = NoOne
          /\ slots' = [slots EXCEPT ![probe[t]] = t]
          /\ Goto(t, "idle")
          /\ UNCHANGED probe
       \/ /\ probe[t] <= LoopSlotCount /\ slots[probe[t]] # NoOne
          /\ probe' = [probe EXCEPT ![t] = @ + 1]
          /\ UNCHANGED <<pc, slots>>
    /\ UNCHANGED <<procVars, signalVars, stopVars, cvVars, regVars, watchVars,
                   timeVars, target>>

\* The worker sees running() = false and returns; ~Loop frees its slot.
Leave(t) ==
    /\ pc[t] = "idle" /\ stopping
    /\ Goto(t, "done")
    /\ slots' = IF probe[t] \in 1..LoopSlotCount
                THEN [slots EXCEPT ![probe[t]] = NoOne] ELSE slots
    /\ probe' = [probe EXCEPT ![t] = 0]
    /\ UNCHANGED <<procVars, signalVars, stopVars, cvVars, regVars, watchVars,
                   timeVars, target>>

\* A worker that never looks at running() again.
Hang(t) ==
    /\ May(t, "hang")
    /\ Goto(t, "stuck")
    /\ UNCHANGED <<procVars, signalVars, stopVars, cvVars, regVars, watchVars,
                   timeVars, target, loopVars>>

-----------------------------------------------------------------------------
(* The watcher thread.                                                     *)

\* Mutant: one warned flag for both signals.
CheckHandlersOnce ==
    /\ watcher = "first" /\ pipe = <<>>
    /\ warned' = IF warned = {} THEN {s \in Signals : handler[s] # "pipe"} ELSE warned
    /\ UNCHANGED <<procVars, handler, nSignals, pipe, stopVars, cvVars, regVars,
                   watchVars, timeVars, threadVars, loopVars>>

\* readEvent timed out: checkHandlers warns once for each signal taken away.
CheckHandlers ==
    /\ watcher = "first" /\ pipe = <<>>
    /\ warned' = warned \cup {s \in Signals : handler[s] # "pipe"}
    /\ UNCHANGED <<procVars, handler, nSignals, pipe, stopVars, cvVars, regVars,
                   watchVars, timeVars, threadVars, loopVars>>

FirstEvent ==
    /\ watcher = "first" /\ pipe # <<>>
    /\ first' = Head(pipe) /\ pipe' = Tail(pipe)
    /\ clock' = "counting"
    /\ watcher' = "arm"
    /\ UNCHANGED <<procVars, handler, warned, nSignals, stopVars, cvVars, regVars,
                   todo, armed, threadVars, loopVars>>

\* Mutants: no alarm; the reason is left for later.
ArmNothing ==
    /\ watcher = "arm" /\ watcher' = "publish"
    /\ reason' = first
    /\ UNCHANGED <<procVars, signalVars, stopping, cvVars, regVars, todo, first,
                   timeVars, threadVars, loopVars>>

ArmWithoutReason ==
    /\ watcher = "arm" /\ watcher' = "publish"
    /\ armed' = TRUE
    /\ UNCHANGED <<procVars, signalVars, stopVars, cvVars, regVars, todo, first,
                   clock, threadVars, loopVars>>

\* alarm(deadline + 5), then the reason.
Arm ==
    /\ watcher = "arm"
    /\ armed' = TRUE
    /\ reason' = first
    /\ watcher' = "publish"
    /\ UNCHANGED <<procVars, signalVars, stopping, cvVars, regVars, todo, first,
                   clock, threadVars, loopVars>>

\* Mutant: stopping is set without m.
PublishUnlocked ==
    /\ watcher = "publish" /\ watcher' = "wake"
    /\ stopping' = TRUE
    /\ UNCHANGED <<procVars, signalVars, reason, cvVars, regVars, todo, first,
                   timeVars, threadVars, loopVars>>

\* stopping is set under m.
Publish ==
    /\ watcher = "publish"
    /\ m = NoOne
    /\ stopping' = TRUE
    /\ watcher' = "wake"
    /\ UNCHANGED <<procVars, signalVars, reason, cvVars, regVars, todo, first,
                   timeVars, threadVars, loopVars>>

WakeAll ==
    /\ watcher = "wake"
    /\ pc' = Wake(pc)
    /\ watcher' = "lock"
    /\ UNCHANGED <<procVars, signalVars, stopVars, cvVars, regVars, todo, first,
                   timeVars, target, loopVars>>

LockRegistry ==
    /\ watcher = "lock"
    /\ regMutex = NoOne
    /\ regMutex' = Watcher
    /\ todo' = callbacks
    /\ watcher' = "loop"
    /\ UNCHANGED <<procVars, signalVars, stopVars, cvVars, callbacks, nextId, reg,
                   runs, first, timeVars, threadVars, loopVars>>

\* Mutant: begin().
IsFirst(c, ids) == c \in ids /\ \A d \in ids : d >= c

\* rbegin() of what is left of the vector.
IsLast(c, ids) == c \in ids /\ \A d \in ids : d <= c

\* The next callback starts.  A callback that blocks never comes back.
StartCallback ==
    /\ watcher = "loop"
    /\ \E c \in todo :
          /\ IsLast(c, todo)
          /\ runs' = [runs EXCEPT ![c] = @ + 1]
          /\ todo' = todo \ {c}
          /\ watcher' = IF c \in Stuck THEN "stuck" ELSE "callback"
    /\ UNCHANGED <<procVars, signalVars, stopVars, cvVars, regMutex, callbacks,
                   nextId, reg, first, timeVars, threadVars, loopVars>>

\* What a callback may do: notify a Wakeup, or nothing the model tells apart
\* from an exception, which is caught and logged.
CallbackBody ==
    /\ watcher = "callback"
    /\ \/ /\ m = NoOne
          /\ \E x \in Wakeups : woken' = [woken EXCEPT ![x] = TRUE]
          /\ watcher' = "notify"
       \/ watcher' = "loop" /\ UNCHANGED woken
    /\ UNCHANGED <<procVars, signalVars, stopVars, m, regVars, todo, first,
                   timeVars, threadVars, loopVars>>

CallbackNotifies ==
    /\ watcher = "notify"
    /\ pc' = Wake(pc)
    /\ watcher' = "loop"
    /\ UNCHANGED <<procVars, signalVars, stopVars, cvVars, regVars, todo, first,
                   timeVars, target, loopVars>>

UnlockRegistry ==
    /\ watcher = "loop" /\ todo = {}
    /\ regMutex' = NoOne
    /\ watcher' = "quit"
    /\ UNCHANGED <<procVars, signalVars, stopVars, cvVars, callbacks, nextId, reg,
                   runs, todo, first, timeVars, threadVars, loopVars>>

QueueQuit ==
    /\ watcher = "quit"
    /\ quit' = TRUE
    /\ watcher' = "final"
    /\ UNCHANGED <<proc, main, installed, signalVars, stopVars, cvVars, regVars,
                   todo, first, timeVars, threadVars, loopVars>>

\* After the deadline the pipe is not read any more.
NextEvent ==
    /\ watcher = "final" /\ clock = "counting" /\ pipe # <<>>
    /\ pipe' = Tail(pipe)
    /\ watcher' = IF Head(pipe) = "request" THEN "final" ELSE "force"
    /\ UNCHANGED <<procVars, handler, warned, nSignals, stopVars, cvVars, regVars,
                   todo, first, timeVars, threadVars, loopVars>>

DeadlineReached ==
    /\ watcher = "final" /\ clock # "counting"
    /\ watcher' = "force"
    /\ UNCHANGED <<procVars, signalVars, stopVars, cvVars, regVars, todo, first,
                   timeVars, threadVars, loopVars>>

\* forcedExit.
ForcedExit ==
    /\ watcher = "force"
    /\ proc' = "forced"
    /\ UNCHANGED <<main, installed, quit, signalVars, stopVars, cvVars, regVars,
                   watchVars, timeVars, threadVars, loopVars>>

-----------------------------------------------------------------------------
(* Time.  The alarm is armed after the deadline began to count, and 5 s    *)
(* longer, so it comes second.                                             *)

DeadlinePasses ==
    /\ clock = "counting"
    /\ clock' = "deadline"
    /\ UNCHANGED <<procVars, signalVars, stopVars, cvVars, regVars, watchVars,
                   armed, threadVars, loopVars>>

AlarmDue ==
    /\ clock = "deadline" /\ armed
    /\ clock' = "alarm"
    /\ UNCHANGED <<procVars, signalVars, stopVars, cvVars, regVars, watchVars,
                   armed, threadVars, loopVars>>

\* SIGALRM has its default action.
AlarmKills ==
    /\ clock = "alarm"
    /\ proc' = "alarm"
    /\ UNCHANGED <<main, installed, quit, signalVars, stopVars, cvVars, regVars,
                   watchVars, timeVars, threadVars, loopVars>>

-----------------------------------------------------------------------------
MainStep == \/ InstallPipe \/ \E s \in Signals : InstallHandler(s)
            \/ InstallFlag \/ ExecReturns \/ Finish
WaitStep(t)  == BeginWait(t) \/ CheckWait(t) \/ Block(t) \/ WaitExpires(t)
                \/ Notify(t) \/ NotifyWakes(t)
RegStep(t)   == OnStop(t) \/ Push(t) \/ RunInline(t) \/ Release(t)
OtherStep(t) == Request(t) \/ RequestWrites(t) \/ RequestKills(t)
                \/ BeginLoop(t) \/ ClaimSlot(t) \/ Leave(t) \/ Hang(t)
WorkerStep(t) == WaitStep(t) \/ RegStep(t) \/ OtherStep(t)
WatcherStep == \/ CheckHandlers \/ FirstEvent \/ Arm \/ Publish \/ WakeAll
               \/ LockRegistry \/ StartCallback \/ CallbackBody
               \/ CallbackNotifies \/ UnlockRegistry \/ QueueQuit
               \/ NextEvent \/ DeadlineReached \/ ForcedExit
TimeStep == DeadlinePasses \/ AlarmDue \/ AlarmKills
Environment == \E s \in Signals : Signal(s) \/ ReplaceHandler(s)

\* Nothing happens in a process that has ended.
Ended == proc # "alive" /\ UNCHANGED vars

Next ==
    \/ /\ proc = "alive"
       /\ \/ MainStep \/ WatcherStep \/ TimeStep \/ Environment
          \/ \E t \in Threads : WorkerStep(t)
    \/ Ended

Spec == Init /\ [][Next]_vars

\* The scheduler runs the watcher, and time passes.  Nothing is assumed of the
\* workers, of main or of the environment.
FairSpec == Spec /\ WF_vars(proc = "alive" /\ WatcherStep)
                 /\ WF_vars(proc = "alive" /\ TimeStep)

-----------------------------------------------------------------------------
(* Properties.                                                             *)

AfterWake == watcher \notin {"off", "first", "arm", "publish", "wake"}

\* Nobody sleeps through the shutdown: once the watcher's notify_all is done, no
\* thread is blocked in sleepFor or waitFor, or about to block, however the
\* setting of stopping fell between its check of the predicate and its wait.
NoLostStop == AfterWake => \A t \in Threads : pc[t] \notin {"falling", "blocked"}

\* notify() is sticky: a thread blocked on a Wakeup that is woken has a
\* notify_all still coming to it, so the notification is not lost to it.
NoLostNotify ==
    \A t \in Threads :
        pc[t] = "blocked" /\ target[t] \in Wakeups /\ woken[target[t]] =>
            \/ watcher \in {"notify", "wake"}
            \/ \E u \in Threads : pc[u] = "notifying"

\* Every function passed to onStop runs at most once; one that is still
\* registered when the watcher leaves its loop has run, and one that came too
\* late has run on its caller.
OnStopRunsOnce ==
    \A c \in Ids :
        /\ runs[c] <= 1
        /\ reg[c] = "registered" /\ watcher \in {"quit", "final", "force"} =>
              runs[c] = 1
        /\ reg[c] = "inline" => runs[c] = 1

\* A destroyed Registration is over: its callback never starts again, and the
\* destructor does not return in the middle of the watcher's callbacks.
ReleasedIsOver ==
    [][\A c \in Ids :
          /\ reg[c] = "released" => runs'[c] = runs[c]
          /\ reg[c] = "registered" /\ reg'[c] = "released" =>
                watcher \notin {"callback", "notify", "stuck"}]_vars

\* Callbacks run in reverse order of registration: when one has run, those
\* registered after it and not destroyed have run too.
ReverseOrder ==
    \A c, d \in Ids :
        reg[c] = "registered" /\ reg[d] = "registered" /\ c < d /\ runs[c] > 0 =>
            runs[d] > 0

\* The onStop callbacks as those who register them see them: StopCalls.
LoopStates == {"loop", "callback", "notify", "stuck"}
AfterLoop  == {"quit", "final", "force"}

StopPhase == IF watcher \in LoopStates THEN "calling"
             ELSE IF watcher \in AfterLoop THEN "over"
             ELSE IF stopping THEN "asked" ELSE "no"

Fate(c) == IF reg[c] \in {"none", "calling"} THEN "none"
           ELSE IF reg[c] = "inline" THEN "late" ELSE reg[c]

Promised == INSTANCE StopCalls WITH
    Functions <- Ids, stop <- StopPhase, fate <- [c \in Ids |-> Fate(c)], calls <- runs

\* onStop and Registration keep the promise of StopCalls, whatever interleaves
\* between taking a function, registering it, releasing it and the watcher's loop:
\* each is called once, the last first, and none after its release.
CallsAsPromised == Promised!Spec

\* A thread that is told to stop, by running(), by a wait or by a callback, finds
\* the reason of the first event in reason(), and the alarm armed.
StopIsExplained ==
    stopping \/ (\E c \in Ids : runs[c] > 0) =>
        stopping /\ armed /\ reason = first /\ first # "none"

\* Every Loop guard that claimed a slot keeps it, alone, until it is destroyed:
\* a forced exit names the tracked loops that are still alive, and no others.
LoopsAreNamed ==
    \A i \in 1..LoopSlotCount, t \in Threads :
        slots[i] = t <=> probe[t] = i /\ pc[t] # "claiming"

\* Once the first event is read the process ends, whatever hangs: a worker, main,
\* or a callback with regMutex held.
ShutdownEnds == first # "none" ~> proc # "alive"

\* A signal whose handler was taken away while the watcher waits is reported,
\* unless shutdown starts first.
HandlerLossReported ==
    \A s \in Signals :
        handler[s] = "other" ~> s \in warned \/ first # "none" \/ proc # "alive"

\* "Ignored once shutdown has started": with no signal from outside, request()
\* never turns a graceful shutdown into a forced exit before the deadline.
LateRequestIsIgnored ==
    proc = "forced" => clock # "counting" \/ nSignals > 0
=============================================================================
