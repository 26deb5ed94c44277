------------------------------ MODULE Listener ------------------------------
(***************************************************************************)
(* Beast::listen (HTTP/beast.cpp), the count of free workers               *)
(* (thread/tmonitoring.cpp) and the end of a request in on_read.           *)
(*                                                                         *)
(* Actors: the thread in listen(), one thread per worker, each driving its *)
(* own io_context, and whoever stops the server: the watcher of            *)
(* rbk::Shutdown, through the callback listen() registered, or, when it is *)
(* not installed, the signal_set on the first context.                     *)
(*                                                                         *)
(* Of Shutdown (module Shutdown) only what listen() sees is here: stopping *)
(* is set, then the callbacks run under regMutex, and onStop and           *)
(* Registration::reset take regMutex.                                      *)
(***************************************************************************)
EXTENDS Integers, FiniteSets

CONSTANTS
    WorkerCount,    \* conf.worker
    MaxRequests,    \* bound: how many requests are read
    Wrap            \* how many values a size_t has

Workers == 1..WorkerCount

ASSUME ListenerAssumption ==
    /\ WorkerCount \in Nat \ {0}
    /\ MaxRequests \in Nat
    /\ Wrap \in Nat /\ Wrap > WorkerCount + MaxRequests

VARIABLES
    proc,       \* "alive", or how the process ended
    installed,  \* Shutdown::installed()
    main,       \* where listen() is
    next,       \* the worker whose thread it starts
    contexts,   \* the io_contexts exist
    stopped,    \* the contexts that were told to stop
    registered, \* stopAll holds a registration
    stopping,   \* Shutdown's stopping
    watcher,    \* where Shutdown's watcher is
    todo,       \* the contexts its call of the callback has still to stop
    signal,     \* the signal_set: "none", "pending", "caught"
    worker,     \* where each worker is
    nRequests,  \* requests read so far
    pool,       \* threadStatus.pool
    free        \* threadStatus.free

stopVars     == <<installed, registered, stopping, watcher, todo, signal>>
listenVars   == <<main, next, contexts>>
monitorVars  == <<pool, free>>
listenerVars == <<proc, listenVars, stopped, stopVars, worker, nRequests, monitorVars>>

MainPcs   == {"start", "hook", "thread", "record", "count", "wait", "reraise",
              "leave", "drop", "returned"}
WorkerPcs == {"none", "starting", "idle", "hook", "busy", "ended"}

ListenerTypeOK ==
    /\ proc \in {"alive", "exited", "killed"}
    /\ installed \in BOOLEAN
    /\ main \in MainPcs
    /\ next \in 1..WorkerCount + 1
    /\ contexts \in BOOLEAN
    /\ stopped \subseteq Workers /\ todo \subseteq Workers /\ pool \subseteq Workers
    /\ registered \in BOOLEAN /\ stopping \in BOOLEAN
    /\ watcher \in {"idle", "calling", "done"}
    /\ signal \in {"none", "pending", "caught"}
    /\ worker \in [Workers -> WorkerPcs]
    /\ nRequests \in 0..MaxRequests
    /\ free \in 0..Wrap - 1

ListenerInit ==
    /\ proc = "alive" /\ installed \in BOOLEAN
    /\ main = "start" /\ next = 1 /\ contexts = FALSE
    /\ stopped = {} /\ registered = FALSE /\ stopping = FALSE
    /\ watcher = "idle" /\ todo = {} /\ signal = "none"
    /\ worker = [w \in Workers |-> "none"] /\ nRequests = 0
    /\ pool = {} /\ free = 0

-----------------------------------------------------------------------------
(* The thread in listen().                                                 *)

\* The contexts and their acceptors; a port that cannot be bound ends the process.
CreateContexts ==
    /\ main = "start"
    /\ \/ contexts' = TRUE /\ main' = "hook" /\ UNCHANGED proc
       \/ proc' = "exited" /\ UNCHANGED <<contexts, main>>
    /\ UNCHANGED <<next, stopped, stopVars, worker, nRequests, monitorVars>>

\* Mutant: a shutdown that has already started does not run the callback.
HookStopLate ==
    /\ main = "hook" /\ main' = "thread"
    /\ installed => watcher # "calling"
    /\ registered' = installed
    /\ UNCHANGED <<proc, next, contexts, stopped, installed, stopping, watcher, todo,
                   signal, worker, nRequests, monitorVars>>

\* onStop, under regMutex: the callback runs at once when shutdown has started.
\* Without Shutdown the signal_set is armed instead.
HookStop ==
    /\ main = "hook" /\ main' = "thread"
    /\ \/ ~installed /\ UNCHANGED <<registered, stopped>>
       \/ /\ installed /\ stopping /\ watcher # "calling"
          /\ stopped' = Workers
          /\ UNCHANGED registered
       \/ /\ installed /\ ~stopping
          /\ registered' = TRUE
          /\ UNCHANGED stopped
    /\ UNCHANGED <<proc, next, contexts, installed, stopping, watcher, todo, signal,
                   worker, nRequests, monitorVars>>

\* The thread runs from here on, although it is not in the pool yet.
StartThread ==
    /\ main = "thread" /\ main' = "record"
    /\ worker' = [worker EXCEPT ![next] = "starting"]
    /\ UNCHANGED <<proc, next, contexts, stopped, stopVars, nRequests, monitorVars>>

RecordThread ==
    /\ main = "record"
    /\ pool' = pool \cup {next}
    /\ next' = next + 1
    /\ main' = IF next = WorkerCount THEN "count" ELSE "thread"
    /\ UNCHANGED <<proc, contexts, stopped, stopVars, worker, nRequests, free>>

CountFree ==
    /\ main = "count" /\ main' = "wait"
    /\ free' = Cardinality(pool)
    /\ UNCHANGED <<proc, next, contexts, stopped, stopVars, worker, nRequests, pool>>

\* threads.wait(); the ended workers leave the monitor.
JoinThreads ==
    /\ main = "wait"
    /\ \A w \in Workers : worker[w] = "ended"
    /\ pool' = {} /\ free' = 0
    /\ main' = IF signal = "caught" THEN "reraise" ELSE "leave"
    /\ UNCHANGED <<proc, next, contexts, stopped, stopVars, worker, nRequests>>

\* SIG_DFL, then raise.
Reraise ==
    /\ main = "reraise"
    /\ proc' = "killed"
    /\ UNCHANGED <<listenVars, stopped, stopVars, worker, nRequests, monitorVars>>

\* Mutant: stopAll declared before the contexts, which are destroyed first.
DropStopAllLast ==
    /\ main = "leave" /\ main' = "drop"
    /\ contexts' = FALSE
    /\ UNCHANGED <<proc, next, stopped, stopVars, worker, nRequests, monitorVars>>

\* ~Registration: waits for the callbacks when there is one to erase.
DropStopAll ==
    /\ main = "leave" /\ main' = "drop"
    /\ registered => watcher # "calling"
    /\ registered' = FALSE
    /\ UNCHANGED <<proc, next, contexts, stopped, installed, stopping, watcher, todo,
                   signal, worker, nRequests, monitorVars>>

DestroyContexts ==
    /\ main = "drop" /\ main' = "returned"
    /\ contexts' = FALSE
    /\ UNCHANGED <<proc, next, stopped, stopVars, worker, nRequests, monitorVars>>

ListenStep == \/ CreateContexts \/ HookStop \/ StartThread \/ RecordThread \/ CountFree
              \/ JoinThreads \/ Reraise \/ DropStopAll \/ DestroyContexts

-----------------------------------------------------------------------------
(* Who stops the server.                                                   *)

ShutdownStarts ==
    /\ installed /\ ~stopping
    /\ stopping' = TRUE
    /\ UNCHANGED <<proc, listenVars, stopped, installed, registered, watcher, todo,
                   signal, worker, nRequests, monitorVars>>

\* The watcher takes regMutex and calls what is registered.
CallStopAll ==
    /\ stopping /\ watcher = "idle"
    /\ watcher' = "calling"
    /\ todo' = IF registered THEN Workers ELSE {}
    /\ UNCHANGED <<proc, listenVars, stopped, installed, registered, stopping, signal,
                   worker, nRequests, monitorVars>>

\* ioc->stop() of the next context: the worker may see it before the call returns,
\* and after the last call regMutex is let go.
StopNext ==
    /\ watcher = "calling"
    /\ \/ \E w \in todo :
             /\ \A v \in todo : w <= v
             /\ \/ w \notin stopped /\ stopped' = stopped \cup {w} /\ UNCHANGED todo
                \/ w \in stopped /\ todo' = todo \ {w} /\ UNCHANGED stopped
             /\ UNCHANGED watcher
       \/ /\ todo = {}
          /\ watcher' = "done"
          /\ UNCHANGED <<stopped, todo>>
    /\ UNCHANGED <<proc, listenVars, installed, registered, stopping, signal, worker,
                   nRequests, monitorVars>>

\* SIGINT or SIGTERM: the default action, or a completion for the first context.
SignalArrives ==
    /\ ~installed /\ signal = "none" /\ main # "returned"
    /\ \/ /\ main \in {"start", "hook"}
          /\ proc' = "killed"
          /\ UNCHANGED signal
       \/ /\ main \notin {"start", "hook"}
          /\ signal' = "pending"
          /\ UNCHANGED proc
    /\ UNCHANGED <<listenVars, stopped, installed, registered, stopping, watcher, todo,
                   worker, nRequests, monitorVars>>

\* The handler runs on the first worker, between two of its requests.
SignalHandled ==
    /\ signal = "pending" /\ worker[1] = "idle" /\ 1 \notin stopped
    /\ signal' = "caught"
    /\ stopped' = Workers
    /\ UNCHANGED <<proc, listenVars, installed, registered, stopping, watcher, todo,
                   worker, nRequests, monitorVars>>

-----------------------------------------------------------------------------
(* The workers.                                                            *)

\* threadStatus.free-- and ++ of a size_t.
Decreased(n) == IF n = 0 THEN Wrap - 1 ELSE n - 1
Increased(n) == IF n = Wrap - 1 THEN 0 ELSE n + 1

\* A worker takes its next handler: stop() is seen between two handlers.
MayRead(w) == worker[w] = "idle" /\ w \notin stopped /\ nRequests < MaxRequests

Goes(w, to) == worker' = [worker EXCEPT ![w] = to]

\* onWorkerStart has returned.
EnterRun(w) ==
    /\ worker[w] = "starting" /\ Goes(w, "idle")
    /\ UNCHANGED <<proc, listenVars, stopped, stopVars, nRequests, monitorVars>>

\* run() returns, at once when the context was stopped before.
RunReturns(w) ==
    /\ worker[w] = "idle" /\ w \in stopped /\ Goes(w, "ended")
    /\ UNCHANGED <<proc, listenVars, stopped, stopVars, nRequests, monitorVars>>

\* handle_request up to requestBeging.
RequestBegins(w) ==
    /\ MayRead(w) /\ Goes(w, "busy")
    /\ nRequests' = nRequests + 1
    /\ free' = Decreased(free)
    /\ UNCHANGED <<proc, listenVars, stopped, stopVars, pool>>

\* Mutant: an exit of on_read that forgets requestEnd.
RequestEndsUncounted(w) ==
    /\ worker[w] = "busy" /\ Goes(w, "idle")
    /\ UNCHANGED <<proc, listenVars, stopped, stopVars, nRequests, monitorVars>>

RequestEnds(w) ==
    /\ worker[w] = "busy" /\ Goes(w, "idle")
    /\ free' = Increased(free)
    /\ UNCHANGED <<proc, listenVars, stopped, stopVars, nRequests, pool>>

\* websocketUpgrade is asked before requestBeging.
HookBegins(w) ==
    /\ MayRead(w) /\ Goes(w, "hook")
    /\ nRequests' = nRequests + 1
    /\ UNCHANGED <<proc, listenVars, stopped, stopVars, monitorVars>>

HookDeclines(w) ==
    /\ worker[w] = "hook" /\ Goes(w, "busy")
    /\ free' = Decreased(free)
    /\ UNCHANGED <<proc, listenVars, stopped, stopVars, nRequests, pool>>

\* The hook takes the connection, or throws: requestEnd without requestBeging.
HookEnds(w) ==
    /\ worker[w] = "hook" /\ Goes(w, "idle")
    /\ free' = Increased(free)
    /\ UNCHANGED <<proc, listenVars, stopped, stopVars, nRequests, pool>>

HandlerStep(w) == HookDeclines(w) \/ HookEnds(w) \/ RequestEnds(w)

-----------------------------------------------------------------------------
ServerStep == \/ ListenStep \/ ShutdownStarts \/ CallStopAll \/ StopNext
              \/ SignalArrives \/ SignalHandled
              \/ \E w \in Workers : EnterRun(w) \/ RunReturns(w)
ReadStep   == \E w \in Workers : RequestBegins(w) \/ HookBegins(w)

ListenerNext ==
    /\ proc = "alive"
    /\ ServerStep \/ ReadStep \/ \E w \in Workers : HandlerStep(w)

ListenerSpec == ListenerInit /\ [][ListenerNext]_listenerVars

-----------------------------------------------------------------------------
(* Properties.                                                             *)

Busy == {w \in Workers : worker[w] = "busy"}

\* The status page never shows fewer free workers than there are, whichever way
\* the requests ended; it may show more, since an upgrade and a request read while
\* the threads were being started are given back without having been taken.
FreeNeverUnderstates == main = "wait" => free >= WorkerCount - Cardinality(Busy)

\* "declared after contexts: destroyed first": the callback never stops a context
\* that listen() has already destroyed.
StopTouchesLive == watcher = "calling" /\ todo # {} => contexts

\* A stop is never missed: one that comes before a context exists, before its
\* thread runs it, or while a page is being computed, ends listen() or the process.
StopIsHeard ==
    stopping \/ signal = "pending" ~> main = "returned" \/ proc # "alive"
=============================================================================
