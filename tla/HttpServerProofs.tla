-------------------------- MODULE HttpServerProofs --------------------------
(***************************************************************************)
(* What Listener and HttpServer promise for any number of workers, of      *)
(* requests, of sessions and of users, and that HttpServer does to the     *)
(* server only what Listener allows.                                       *)
(***************************************************************************)
EXTENDS HttpServer, FiniteSetTheorems, TLAPS

-----------------------------------------------------------------------------
(* Listener: types, and how far the start has come.                        *)

\* The pool holds the threads that were started, but for the one just started.
StartFits ==
    /\ main \in {"start", "hook", "thread", "record"} =>
         next \in Workers /\ pool = 1..next - 1
    /\ main = "count" => pool = Workers

TypeInv == ListenerTypeOK /\ StartFits

\* Each step of the thread in listen() keeps the types.
LEMMA ListenStepType == TypeInv /\ ListenStep => TypeInv'
<1> SUFFICES ASSUME TypeInv, ListenStep PROVE TypeInv'
  OBVIOUS
<1> USE ListenerAssumption DEF TypeInv, StartFits, ListenerTypeOK, stopVars, listenVars, monitorVars, MainPcs, WorkerPcs, Workers
<1>1. CASE CreateContexts
  BY <1>1 DEF CreateContexts
<1>2. CASE HookStop
  BY <1>2 DEF HookStop
<1>3. CASE StartThread
  BY <1>3 DEF StartThread
<1>4. CASE RecordThread
  <2>1. next \in 1..WorkerCount /\ pool' = (1..next - 1) \cup {next} /\ next' = next + 1
    BY <1>4 DEF RecordThread
  <2>2. pool' = 1..next' - 1
    BY <2>1
  <2>3. CASE next = WorkerCount
    BY <1>4, <2>1, <2>2, <2>3 DEF RecordThread
  <2>4. CASE next # WorkerCount
    BY <1>4, <2>1, <2>2, <2>4 DEF RecordThread
  <2>5. QED
    BY <2>3, <2>4
<1>5. CASE CountFree
  <2>1. /\ IsFiniteSet(1..WorkerCount) /\ Cardinality(1..WorkerCount) = WorkerCount
    BY FS_Interval
  <2>2. Cardinality(pool) \in 0..WorkerCount
    <3>1. pool \in SUBSET (1..WorkerCount)
      OBVIOUS
    <3>2. IsFiniteSet(pool) /\ Cardinality(pool) <= WorkerCount
      BY <2>1, <3>1, FS_Subset, Zenon
    <3>3. QED
      BY <3>2, FS_CardinalityType
  <2>3. free' \in 0..Wrap - 1
    BY <1>5, <2>2 DEF CountFree
  <2>4. QED
    BY <1>5, <2>3 DEF CountFree
<1>6. CASE JoinThreads
  BY <1>6 DEF JoinThreads
<1>7. CASE Reraise
  BY <1>7 DEF Reraise
<1>8. CASE DropStopAll
  BY <1>8 DEF DropStopAll
<1>9. CASE DestroyContexts
  BY <1>9 DEF DestroyContexts
<1>10. QED
  BY <1>1, <1>2, <1>3, <1>4, <1>5, <1>6, <1>7, <1>8, <1>9 DEF ListenStep

\* What leaves listen() and the pool alone keeps StartFits.
LEMMA StartFrame == StartFits /\ UNCHANGED <<main, next, pool>> => StartFits'
BY DEF StartFits

\* So do the workers.
LEMMA WorkerType ==
    ASSUME TypeInv, NEW w \in Workers,
           \/ EnterRun(w) \/ RunReturns(w) \/ RequestBegins(w) \/ HookBegins(w)
           \/ HandlerStep(w)
    PROVE  TypeInv'
<1>1. StartFits'
  BY StartFrame DEF TypeInv, EnterRun, RunReturns, RequestBegins, HookBegins, HandlerStep,
     HookDeclines, HookEnds, RequestEnds, listenVars, monitorVars
<1>2. UNCHANGED <<proc, listenVars, stopped, stopVars, pool>>
  BY DEF EnterRun, RunReturns, RequestBegins, HookBegins, HandlerStep,
     HookDeclines, HookEnds, RequestEnds, listenVars, monitorVars, stopVars
<1>3. worker' \in [Workers -> WorkerPcs]
  BY DEF TypeInv, ListenerTypeOK, WorkerPcs, EnterRun, RunReturns, RequestBegins, HookBegins,
     HandlerStep, HookDeclines, HookEnds, RequestEnds, Goes
<1>4. free' \in 0..Wrap - 1
  BY ListenerAssumption DEF TypeInv, ListenerTypeOK, EnterRun, RunReturns, RequestBegins,
     HookBegins, HandlerStep, HookDeclines, HookEnds, RequestEnds, Decreased, Increased, monitorVars
<1>5. nRequests' \in 0..MaxRequests
  BY ListenerAssumption DEF TypeInv, ListenerTypeOK, EnterRun, RunReturns, RequestBegins,
     HookBegins, HandlerStep, HookDeclines, HookEnds, RequestEnds, MayRead
<1>6. QED
  BY <1>1, <1>2, <1>3, <1>4, <1>5 DEF TypeInv, ListenerTypeOK, listenVars, stopVars

\* So does whoever stops the server.
LEMMA StopType ==
    ASSUME TypeInv, ShutdownStarts \/ CallStopAll \/ StopNext \/ SignalArrives \/ SignalHandled
    PROVE  TypeInv'
<1>1. UNCHANGED <<listenVars, worker, nRequests, monitorVars>>
  BY DEF ShutdownStarts, CallStopAll, StopNext, SignalArrives, SignalHandled
<1>2. StartFits'
  BY <1>1, StartFrame DEF TypeInv, listenVars, monitorVars
<1>3. todo' \subseteq Workers /\ stopped' \subseteq Workers
  BY DEF TypeInv, ListenerTypeOK, ShutdownStarts, CallStopAll, StopNext, SignalArrives, SignalHandled
<1>4. /\ installed' \in BOOLEAN /\ registered' \in BOOLEAN /\ stopping' \in BOOLEAN
      /\ watcher' \in {"idle", "calling", "done"} /\ signal' \in {"none", "pending", "caught"}
      /\ proc' \in {"alive", "exited", "killed"}
  BY DEF TypeInv, ListenerTypeOK, ShutdownStarts, CallStopAll, StopNext, SignalArrives, SignalHandled
<1>5. QED
  BY <1>1, <1>2, <1>3, <1>4 DEF TypeInv, ListenerTypeOK, listenVars, monitorVars

\* Every step keeps the types.
LEMMA TypeStep == TypeInv /\ [ListenerNext]_listenerVars => TypeInv'
<1>1. TypeInv /\ UNCHANGED listenerVars => TypeInv'
  BY DEF TypeInv, StartFits, ListenerTypeOK, listenerVars, listenVars, stopVars, monitorVars
<1>2. QED
  BY <1>1, ListenStepType, StopType, WorkerType DEF ListenerNext, ServerStep, ReadStep

\* The initial states have the types.
LEMMA InitTypes == ListenerInit => TypeInv
<1> SUFFICES ASSUME ListenerInit PROVE TypeInv
  OBVIOUS
<1>1. StartFits
  <2>1. 1 \in 1..WorkerCount /\ 1..1 - 1 = {}
    BY ListenerAssumption DEF ListenerAssumption
  <2>2. QED
    BY <2>1 DEF ListenerInit, StartFits, Workers
<1>2. next \in 1..WorkerCount + 1 /\ free \in 0..Wrap - 1 /\ nRequests \in 0..MaxRequests
  BY ListenerAssumption DEF ListenerInit, ListenerAssumption
<1>3. QED
  BY <1>1, <1>2 DEF ListenerInit, TypeInv, ListenerTypeOK, MainPcs, WorkerPcs

\* Every variable of the server keeps its type; free never leaves a size_t.
THEOREM ListenerTypes == ListenerSpec => []ListenerTypeOK
<1>1. TypeInv => ListenerTypeOK
  BY DEF TypeInv
<1>2. QED
  BY <1>1, InitTypes, TypeStep, PTL DEF ListenerSpec

-----------------------------------------------------------------------------
(* Listener: who holds the contexts.                                       *)

\* A registered callback finds the contexts there, and the watcher calls nothing
\* that is not registered.
ContextsHeld ==
    /\ main \notin {"start", "returned"} => contexts
    /\ registered => main \notin {"start", "hook", "drop", "returned"}
    /\ watcher = "calling" /\ todo # {} => registered

\* Every step keeps it: DropStopAll waits for regMutex when it has something to erase.
LEMMA ContextsStep == ContextsHeld /\ [ListenerNext]_listenerVars => ContextsHeld'
<1> SUFFICES ASSUME ContextsHeld, [ListenerNext]_listenerVars PROVE ContextsHeld'
  OBVIOUS
<1> USE DEF ContextsHeld, listenVars, stopVars, monitorVars
<1>1. CASE ListenStep
  BY <1>1 DEF ListenStep, CreateContexts, HookStop, StartThread, RecordThread, CountFree,
     JoinThreads, Reraise, DropStopAll, DestroyContexts
<1>2. CASE ShutdownStarts \/ SignalArrives \/ SignalHandled
  BY <1>2 DEF ShutdownStarts, SignalArrives, SignalHandled
<1>3. CASE CallStopAll
  BY <1>3 DEF CallStopAll
<1>4. CASE StopNext
  BY <1>4 DEF StopNext
<1>5. ASSUME NEW w \in Workers,
             \/ EnterRun(w) \/ RunReturns(w) \/ RequestBegins(w) \/ HookBegins(w)
             \/ HandlerStep(w)
      PROVE  ContextsHeld'
  BY <1>5 DEF EnterRun, RunReturns, RequestBegins, HookBegins, HandlerStep, HookDeclines,
     HookEnds, RequestEnds
<1>6. CASE UNCHANGED listenerVars
  BY <1>6 DEF listenerVars
<1>7. QED
  BY <1>1, <1>2, <1>3, <1>4, <1>5, <1>6 DEF ListenerNext, ServerStep, ReadStep

\* The stop callback never touches a context that listen() has destroyed, at whatever
\* moment of the start or of the end the shutdown comes.
THEOREM CallbackFindsContexts == ListenerSpec => []StopTouchesLive
<1>1. ListenerInit => ContextsHeld
  BY DEF ListenerInit, ContextsHeld
<1>2. ContextsHeld => StopTouchesLive
  BY DEF ContextsHeld, StopTouchesLive
<1>3. QED
  BY <1>1, <1>2, ContextsStep, PTL DEF ListenerSpec

-----------------------------------------------------------------------------
(* Listener: the count of free workers.                                    *)

At(places) == {w \in Workers : worker[w] \in places}
Engaged    == At({"busy", "hook"})

\* Every request in work was read; once free is set, it differs from the number of
\* free workers by no more than the requests that are over.
FreeFits ==
    /\ Cardinality(Engaged) <= nRequests
    /\ main = "wait" => /\ free >= WorkerCount - Cardinality(Busy)
                        /\ free <= WorkerCount + nRequests - Cardinality(Engaged)

\* Sets of workers are finite; one that lacks a worker is smaller than all.
LEMMA WorkerSets ==
    ASSUME ListenerAssumption, NEW W \in SUBSET Workers
    PROVE  /\ IsFiniteSet(W) /\ Cardinality(W) \in 0..WorkerCount
           /\ \A w \in Workers \ W : Cardinality(W) < WorkerCount
<1>1. IsFiniteSet(Workers) /\ Cardinality(Workers) = WorkerCount
  BY FS_Interval DEF Workers, ListenerAssumption
<1>2. IsFiniteSet(W) /\ Cardinality(W) <= WorkerCount
  BY <1>1, FS_Subset, Zenon
<1>3. Cardinality(W) \in Nat
  BY <1>2, FS_CardinalityType
<1>4. ASSUME NEW w \in Workers \ W PROVE Cardinality(W) < WorkerCount
  <2>1. Cardinality(W) # WorkerCount
    BY <1>1, <1>4, FS_Subset, Zenon
  <2>2. QED
    BY <1>2, <1>3, <2>1 DEF ListenerAssumption
<1>5. QED
  BY <1>2, <1>3, <1>4 DEF ListenerAssumption

LEMMA BusyAt == Busy = At({"busy"})
BY DEF Busy, At

\* A worker that moves is counted where it goes and no longer where it was.
LEMMA OneMoves ==
    ASSUME ListenerAssumption, worker \in [Workers -> WorkerPcs], NEW w \in Workers,
           NEW to, Goes(w, to), NEW places
    PROVE  Cardinality(At(places)') = Cardinality(At(places))
                                      + (IF to \in places THEN 1 ELSE 0)
                                      - (IF worker[w] \in places THEN 1 ELSE 0)
<1> DEFINE A == At(places)
           B == At(places)'
<1>1. IsFiniteSet(A) /\ Cardinality(A) \in Nat
  BY WorkerSets DEF At
<1>2. worker'[w] = to /\ \A v \in Workers \ {w} : worker'[v] = worker[v]
  BY DEF Goes
<1>3. CASE to \in places /\ worker[w] \notin places
  <2>1. B = A \cup {w} /\ w \notin A
    BY <1>2, <1>3 DEF At
  <2>2. Cardinality(A \cup {w}) = Cardinality(A) + 1
    BY <1>1, <2>1, FS_AddElement, Zenon
  <2>3. QED
    BY <1>1, <1>3, <2>1, <2>2
<1>4. CASE to \notin places /\ worker[w] \in places
  <2>1. B = A \ {w} /\ w \in A
    BY <1>2, <1>4 DEF At
  <2>2. Cardinality(A \ {w}) = Cardinality(A) - 1
    BY <1>1, <2>1, FS_RemoveElement, Zenon
  <2>3. QED
    BY <1>1, <1>4, <2>1, <2>2
<1>5. CASE to \in places <=> worker[w] \in places
  <2>1. A = B
    BY <1>2, <1>5 DEF At
  <2>2. QED
    BY <1>1, <1>5, <2>1
<1>6. QED
  BY <1>3, <1>4, <1>5

\* Every step of a worker keeps FreeFits, and the counter does not wrap while the
\* threads are all counted.
LEMMA WorkerFree ==
    ASSUME TypeInv, FreeFits, NEW w \in Workers,
           \/ EnterRun(w) \/ RunReturns(w) \/ RequestBegins(w) \/ HookBegins(w)
           \/ HandlerStep(w)
    PROVE  FreeFits'
<1> USE ListenerAssumption
<1> DEFINE b == Cardinality(At({"busy"}))
           e == Cardinality(At({"busy", "hook"}))
<1>1. worker \in [Workers -> WorkerPcs] /\ nRequests \in Nat /\ free \in 0..Wrap - 1
  BY DEF TypeInv, ListenerTypeOK, ListenerAssumption
<1>2. b \in 0..WorkerCount /\ e \in 0..WorkerCount
  BY WorkerSets DEF At
<1>3. worker[w] # "busy" => b < WorkerCount
  <2>1. At({"busy"}) \in SUBSET Workers /\ (worker[w] # "busy" => w \in Workers \ At({"busy"}))
    BY DEF At
  <2>2. QED
    BY <2>1, WorkerSets
<1>4. UNCHANGED main
  BY DEF EnterRun, RunReturns, RequestBegins, HookBegins, HandlerStep, HookDeclines, HookEnds,
     RequestEnds, listenVars
<1>5. FreeFits <=> /\ e <= nRequests
                   /\ main = "wait" => /\ free >= WorkerCount - b
                                       /\ free <= WorkerCount + nRequests - e
  BY BusyAt DEF FreeFits, Engaged
<1>6. FreeFits' <=> /\ e' <= nRequests'
                    /\ main' = "wait" => /\ free' >= WorkerCount - b'
                                         /\ free' <= WorkerCount + nRequests' - e'
  BY DEF FreeFits, Engaged, Busy, At
<1>7. ASSUME NEW to, Goes(w, to)
      PROVE  /\ b' = b + (IF to = "busy" THEN 1 ELSE 0) - (IF worker[w] = "busy" THEN 1 ELSE 0)
             /\ e' = e + (IF to \in {"busy", "hook"} THEN 1 ELSE 0)
                       - (IF worker[w] \in {"busy", "hook"} THEN 1 ELSE 0)
  <2>1. Cardinality(At({"busy"})') = Cardinality(At({"busy"}))
          + (IF to \in {"busy"} THEN 1 ELSE 0) - (IF worker[w] \in {"busy"} THEN 1 ELSE 0)
    BY <1>1, <1>7, OneMoves
  <2>2. Cardinality(At({"busy", "hook"})') = Cardinality(At({"busy", "hook"}))
          + (IF to \in {"busy", "hook"} THEN 1 ELSE 0)
          - (IF worker[w] \in {"busy", "hook"} THEN 1 ELSE 0)
    BY <1>1, <1>7, OneMoves
  <2>3. QED
    BY <2>1, <2>2
<1> HIDE DEF b, e
<1>8. CASE EnterRun(w) \/ RunReturns(w)
  <2>1. b' = b /\ e' = e /\ UNCHANGED <<nRequests, free>>
    BY <1>2, <1>7, <1>8 DEF EnterRun, RunReturns, monitorVars
  <2>2. QED
    BY <1>4, <1>5, <1>6, <2>1
<1>9. CASE RequestBegins(w)
  <2>1. b' = b + 1 /\ e' = e + 1 /\ nRequests' = nRequests + 1 /\ b < WorkerCount
    BY <1>2, <1>3, <1>7, <1>9 DEF RequestBegins, MayRead
  <2>2. main = "wait" => free' = free - 1
    BY <1>1, <1>2, <1>5, <1>9, <2>1 DEF RequestBegins, Decreased, ListenerAssumption
  <2>3. QED
    BY <1>1, <1>2, <1>4, <1>5, <1>6, <2>1, <2>2 DEF ListenerAssumption
<1>10. CASE RequestEnds(w)
  <2>1. b' = b - 1 /\ e' = e - 1 /\ nRequests' = nRequests
    BY <1>2, <1>7, <1>10 DEF RequestEnds
  <2>2. e >= 1
    <3>1. At({"busy", "hook"}) \in SUBSET Workers /\ w \in At({"busy", "hook"})
      BY <1>10 DEF RequestEnds, At
    <3>2. Cardinality(At({"busy", "hook"})) # 0
      BY <3>1, WorkerSets, FS_EmptySet
    <3>3. QED
      BY <1>2, <3>2 DEF e
  <2>3. main = "wait" => free' = free + 1
    BY <1>1, <1>2, <1>5, <1>10, <2>2
       DEF RequestEnds, Increased, ListenerAssumption, TypeInv, ListenerTypeOK
  <2>4. QED
    BY <1>1, <1>2, <1>4, <1>5, <1>6, <2>1, <2>2, <2>3 DEF ListenerAssumption
<1>11. CASE HookBegins(w)
  <2>1. b' = b /\ e' = e + 1 /\ nRequests' = nRequests + 1 /\ free' = free
    BY <1>2, <1>7, <1>11 DEF HookBegins, MayRead, monitorVars
  <2>2. QED
    BY <1>1, <1>2, <1>4, <1>5, <1>6, <2>1 DEF ListenerAssumption
<1>12. CASE HookDeclines(w)
  <2>1. b' = b + 1 /\ e' = e /\ nRequests' = nRequests /\ b < WorkerCount
    BY <1>2, <1>3, <1>7, <1>12 DEF HookDeclines
  <2>2. main = "wait" => free' = free - 1
    BY <1>1, <1>2, <1>5, <1>12, <2>1 DEF HookDeclines, Decreased, ListenerAssumption
  <2>3. QED
    BY <1>1, <1>2, <1>4, <1>5, <1>6, <2>1, <2>2 DEF ListenerAssumption
<1>13. CASE HookEnds(w)
  <2>1. b' = b /\ e' = e - 1 /\ nRequests' = nRequests
    BY <1>2, <1>7, <1>13 DEF HookEnds
  <2>2. e >= 1
    <3>1. At({"busy", "hook"}) \in SUBSET Workers /\ w \in At({"busy", "hook"})
      BY <1>13 DEF HookEnds, At
    <3>2. Cardinality(At({"busy", "hook"})) # 0
      BY <3>1, WorkerSets, FS_EmptySet
    <3>3. QED
      BY <1>2, <3>2 DEF e
  <2>3. main = "wait" => free' = free + 1
    BY <1>1, <1>2, <1>5, <1>13, <2>2
       DEF HookEnds, Increased, ListenerAssumption, TypeInv, ListenerTypeOK
  <2>4. QED
    BY <1>1, <1>2, <1>4, <1>5, <1>6, <2>1, <2>2, <2>3 DEF ListenerAssumption
<1>14. QED
  BY <1>8, <1>9, <1>10, <1>11, <1>12, <1>13 DEF HandlerStep

\* So does every other step; CountFree finds every worker in the pool.
LEMMA FreeStep == TypeInv /\ FreeFits /\ [ListenerNext]_listenerVars => FreeFits'
<1> SUFFICES ASSUME TypeInv, FreeFits, [ListenerNext]_listenerVars PROVE FreeFits'
  OBVIOUS
<1>1. CASE CountFree
  <2>1. pool = Workers /\ nRequests \in Nat
    BY <1>1 DEF CountFree, TypeInv, StartFits, ListenerTypeOK
  <2>2. free' = WorkerCount /\ UNCHANGED <<worker, nRequests>>
    BY <1>1, <2>1, FS_Interval, ListenerAssumption DEF CountFree, Workers, ListenerAssumption
  <2>3. Cardinality(Busy) \in Nat /\ Cardinality(Engaged) \in Nat
    BY WorkerSets, ListenerAssumption DEF Busy, Engaged, At
  <2>4. Busy' = Busy /\ Engaged' = Engaged
    BY <2>2 DEF Busy, Engaged, At
  <2>5. QED
    BY <2>1, <2>2, <2>3, <2>4, ListenerAssumption DEF FreeFits, ListenerAssumption
<1>2. ASSUME UNCHANGED <<worker, nRequests>>, main' = "wait" => main = "wait" /\ UNCHANGED free
      PROVE  FreeFits'
  <2>1. Busy' = Busy /\ Engaged' = Engaged
    BY <1>2 DEF Busy, Engaged, At
  <2>2. QED
    BY <1>2, <2>1 DEF FreeFits
<1>3. CASE ListenStep /\ ~CountFree /\ ~StartThread
  BY <1>2, <1>3 DEF ListenStep, CreateContexts, HookStop, RecordThread, JoinThreads, Reraise,
     DropStopAll, DestroyContexts, listenVars, monitorVars
<1>4. CASE StartThread
  <2>1. next \in Workers /\ worker \in [Workers -> WorkerPcs]
    BY <1>4 DEF StartThread, TypeInv, StartFits, ListenerTypeOK
  <2>2. Goes(next, "starting") /\ nRequests' = nRequests /\ main' = "record"
    BY <1>4 DEF StartThread, Goes
  <2>3. Cardinality(Engaged') <= Cardinality(Engaged)
    <3>1. Cardinality(At({"busy", "hook"})) \in Nat
      BY WorkerSets, ListenerAssumption DEF At
    <3>2. QED
      BY <2>1, <2>2, <3>1, OneMoves, ListenerAssumption DEF Engaged
  <2>4. Cardinality(Engaged) \in Nat /\ Cardinality(Engaged') \in Nat /\ nRequests \in Nat
    <3>1. Engaged \in SUBSET Workers /\ Engaged' \in SUBSET Workers
      BY DEF Engaged, At
    <3>2. QED
      BY <3>1, WorkerSets, ListenerAssumption DEF TypeInv, ListenerTypeOK
  <2>5. QED
    BY <2>2, <2>3, <2>4 DEF FreeFits
<1>5. CASE ShutdownStarts \/ CallStopAll \/ StopNext \/ SignalArrives \/ SignalHandled
  BY <1>2, <1>5 DEF ShutdownStarts, CallStopAll, StopNext, SignalArrives, SignalHandled,
     listenVars, monitorVars
<1>6. CASE UNCHANGED listenerVars
  BY <1>2, <1>6 DEF listenerVars, listenVars, monitorVars
<1>7. QED
  BY <1>1, <1>3, <1>4, <1>5, <1>6, WorkerFree DEF ListenerNext, ServerStep, ReadStep, ListenStep

\* Once the threads are counted, free is never below the number of workers that are
\* not computing a page.
THEOREM FreeIsEnough == ListenerSpec => []FreeNeverUnderstates
<1>1. ListenerInit => TypeInv /\ FreeFits
  <2> SUFFICES ASSUME ListenerInit PROVE FreeFits
    BY InitTypes
  <2>1. Engaged = {}
    BY DEF ListenerInit, Engaged, At
  <2>2. QED
    BY <2>1, FS_EmptySet DEF ListenerInit, FreeFits
<1>2. FreeFits => FreeNeverUnderstates
  BY DEF FreeFits, FreeNeverUnderstates
<1>3. QED
  BY <1>1, <1>2, TypeStep, FreeStep, PTL DEF ListenerSpec

-----------------------------------------------------------------------------
(* HttpServer does to the server what Listener allows.                     *)

\* Each step of a worker is a handler's step of the Listener, or leaves it alone.
LEMMA WorkerMaps ==
    ASSUME NEW w \in Workers, WorkerStep(w)
    PROVE  HandlerStep(w) \/ UNCHANGED listenerVars
BY DEF WorkerStep, UpgradeStep, CheckWsUpgrade, UpgradeTaken, UpgradeDeclined, UpgradeThrows,
   Preflight, Passes, IsStopped, Immediate, NotServed, Deferred, Answer, HandlerStep

\* Every step of HttpServer is a step of Listener or leaves its variables alone.
LEMMA NextMaps == [Next]_vars => [ListenerNext]_listenerVars
<1> SUFFICES ASSUME [Next]_vars PROVE [ListenerNext]_listenerVars
  OBVIOUS
<1>1. CASE proc = "alive" /\ ServerStep
  BY <1>1 DEF ListenerNext
<1>2. ASSUME proc = "alive", NEW w \in Workers, Read(w) \/ ReadUpgrade(w)
      PROVE  ListenerNext
  BY <1>2 DEF Read, ReadUpgrade, ListenerNext, ReadStep
<1>3. ASSUME proc = "alive", NEW w \in Workers, WorkerStep(w)
      PROVE  [ListenerNext]_listenerVars
  BY <1>3, WorkerMaps DEF ListenerNext
<1>4. CASE UNCHANGED vars
  BY <1>4 DEF vars
<1>5. QED
  BY <1>1, <1>2, <1>3, <1>4 DEF Next

\* The requests, the sessions and the pages never make listen(), its workers or the
\* count of them do what Listener does not allow.
THEOREM KeepsListener == Spec => ListenerSpec
<1>1. Init => ListenerInit
  BY DEF Init
<1>2. QED
  BY <1>1, NextMaps, PTL DEF Spec, ListenerSpec

-----------------------------------------------------------------------------
(* HttpServer: types.                                                      *)

RequestTypeOK ==
    /\ request \in [Workers -> [path : Paths \cup {"none", "socket"}, cookie : Cookies]]
    /\ phase \in [Workers -> Phases]
    /\ reply \in [Workers -> Replies]
    /\ finished \in [Workers -> BOOLEAN]
    /\ gone \in [Workers -> SUBSET Sids]

AuthTypeOK ==
    /\ user \in [Workers -> Users \cup {Nobody, Anonymous}]
    /\ sessions \subseteq issued /\ issued \subseteq Sids

\* What a step of a worker does to its request, and to the users and sessions.
RequestStep(w) ==
    \/ \E p \in Phases, paths \in {Paths, {"socket"}} : Receive(w, p, paths)
    \/ \E r \in Replies, done \in BOOLEAN : Leave(w, r, done)
    \/ \E p \in Phases : Enter(w, p)
AuthStep(w) == UNCHANGED authVars \/ Resolved(w) \/ ResumeFails(w) \/ Page(w)

LEMMA StepForms ==
    ASSUME NEW w \in Workers, Read(w) \/ ReadUpgrade(w) \/ WorkerStep(w)
    PROVE  RequestStep(w) /\ AuthStep(w)
<1> USE DEF RequestStep, AuthStep, Phases, Replies
<1>1. CASE Read(w) \/ ReadUpgrade(w)
  BY <1>1 DEF Read, ReadUpgrade, Receive
<1>2. CASE UpgradeStep(w)
  BY <1>2 DEF UpgradeStep, CheckWsUpgrade, UpgradeTaken, UpgradeDeclined, UpgradeThrows
<1>3. CASE Preflight(w)
  BY <1>3 DEF Preflight, Passes, IsStopped, Answer
<1>4. CASE Immediate(w)
  BY <1>4 DEF Immediate, Answer
<1>5. CASE NotServed(w) \/ Deferred(w)
  BY <1>5 DEF NotServed, Deferred, Answer
<1>6. QED
  BY <1>1, <1>2, <1>3, <1>4, <1>5 DEF WorkerStep

\* Both keep the types.
LEMMA RequestStepType ==
    ASSUME RequestTypeOK, AuthTypeOK, NEW w \in Workers, RequestStep(w)
    PROVE  RequestTypeOK'
<1> USE DEF RequestTypeOK
<1>1. ASSUME NEW p \in Phases, NEW paths \in {Paths, {"socket"}}, Receive(w, p, paths)
      PROVE  RequestTypeOK'
  <2>1. gone' \in [Workers -> SUBSET Sids]
    BY <1>1 DEF Receive, AuthTypeOK
  <2>2. PICK path \in Paths \cup {"socket"}, cookie \in Cookies :
           request' = [request EXCEPT ![w] = [path |-> path, cookie |-> cookie]]
    BY <1>1 DEF Receive, AuthTypeOK, Cookies
  <2>3. request' \in [Workers -> [path : Paths \cup {"none", "socket"}, cookie : Cookies]]
    BY <2>2
  <2>4. QED
    BY <1>1, <2>1, <2>3 DEF Receive, Replies
<1>2. ASSUME NEW r \in Replies, NEW done \in BOOLEAN, Leave(w, r, done)
      PROVE  RequestTypeOK'
  <2>1. NoRequest \in [path : Paths \cup {"none", "socket"}, cookie : Cookies]
    BY DEF NoRequest, Cookies
  <2>2. QED
    BY <1>2, <2>1 DEF Leave, Phases
<1>3. ASSUME NEW p \in Phases, Enter(w, p)
      PROVE  RequestTypeOK'
  BY <1>3 DEF Enter
<1>4. QED
  BY <1>1, <1>2, <1>3 DEF RequestStep

LEMMA AuthStepType ==
    ASSUME RequestTypeOK, AuthTypeOK, NEW w \in Workers, AuthStep(w)
    PROVE  AuthTypeOK'
<1> USE DEF AuthTypeOK
<1>1. CASE UNCHANGED authVars
  BY <1>1 DEF authVars
<1>2. CASE ResumeOk(w) \/ ResumeFails(w)
  BY <1>2 DEF ResumeOk, ResumeFails, Store, Users
<1>3. CASE DevelLogin(w)
  BY <1>3 DEF DevelLogin, NewSession, Store, Users
<1>4. CASE Page(w)
  BY <1>4 DEF Page, NewSession, Store, authVars
<1>5. QED
  BY <1>1, <1>2, <1>3, <1>4 DEF AuthStep, Resolved

LEMMA ServerTypeStep ==
    RequestTypeOK /\ AuthTypeOK /\ [Next]_vars => RequestTypeOK' /\ AuthTypeOK'
<1> SUFFICES ASSUME RequestTypeOK, AuthTypeOK, [Next]_vars PROVE RequestTypeOK' /\ AuthTypeOK'
  OBVIOUS
<1>1. CASE UNCHANGED <<requestVars, authVars>>
  BY <1>1 DEF RequestTypeOK, AuthTypeOK, requestVars, authVars
<1>2. ASSUME NEW w \in Workers, Read(w) \/ ReadUpgrade(w) \/ WorkerStep(w)
      PROVE  RequestTypeOK' /\ AuthTypeOK'
  BY <1>2, StepForms, RequestStepType, AuthStepType
<1>3. QED
  BY <1>1, <1>2 DEF Next, vars

LEMMA ServerInitTypes == Init => RequestTypeOK /\ AuthTypeOK
BY ServerAssumption DEF Init, RequestTypeOK, AuthTypeOK, NoRequest, Cookies, Phases, Replies,
   ServerAssumption

\* Every variable of the server and of its requests keeps its type.
THEOREM TypeCorrect == Spec => []TypeOK
<1>1. ListenerTypeOK /\ RequestTypeOK /\ AuthTypeOK => TypeOK
  BY DEF TypeOK, RequestTypeOK, AuthTypeOK
<1>2. QED
  BY <1>1, KeepsListener, ListenerTypes, ServerInitTypes, ServerTypeStep, PTL DEF Spec

-----------------------------------------------------------------------------
(* HttpServer: whose request it is.                                        *)

\* A session that was over when a request was read stays over, and is not given out
\* again.
GoneStaysGone == \A w \in Workers : gone[w] \subseteq issued \ sessions

\* Past the preflight of a path that is not public, and with the socket of an upgrade,
\* the thread-local holds the user of a session that lived after the request was read.
Resolves(w) ==
    /\ user[w] \in OwnerOf(Cookie(w)) \cup {Devel}
    /\ user[w] # Devel => Cookie(w) \notin gone[w]
UserIsResolved ==
    \A w \in Workers :
        /\ phase[w] = "handler" /\ request[w].path \notin Public => Resolves(w)
        /\ phase[w] = "socket" => Resolves(w) /\ user[w] \in Admins

LEMMA GoneStep ==
    ASSUME RequestTypeOK, AuthTypeOK, GoneStaysGone, NEW w \in Workers,
           RequestStep(w), AuthStep(w)
    PROVE  GoneStaysGone'
<1>1. issued \subseteq issued' /\ (issued \ sessions) \subseteq issued' \ sessions'
  BY DEF AuthStep, Resolved, ResumeOk, DevelLogin, ResumeFails, Page, NewSession, authVars, AuthTypeOK
<1>2. \A v \in Workers : gone'[v] \subseteq gone[v] \cup (issued \ sessions)
  BY DEF RequestStep, Receive, Leave, Enter, RequestTypeOK
<1>3. QED
  BY <1>1, <1>2 DEF GoneStaysGone

\* The preflight lets through only whom a hook has resolved.
LEMMA ResolvedIsOwn ==
    ASSUME RequestTypeOK, AuthTypeOK, GoneStaysGone, ServerAssumption, NEW w \in Workers,
           Resolved(w), UNCHANGED <<request, gone>>
    PROVE  Resolves(w)'
<1>1. CASE ResumeOk(w)
  <2>1. Cookie(w) \in Sids /\ Cookie(w) # NoCookie /\ Cookie(w) \notin gone[w]
    BY <1>1 DEF ResumeOk, AuthTypeOK, GoneStaysGone, ServerAssumption
  <2>2. user'[w] = UserOf[Cookie(w)]
    BY <1>1 DEF ResumeOk, Store, AuthTypeOK
  <2>3. QED
    BY <2>1, <2>2 DEF Resolves, OwnerOf, Cookie
<1>2. CASE DevelLogin(w)
  BY <1>2 DEF DevelLogin, Store, Resolves, AuthTypeOK
<1>3. QED
  BY <1>1, <1>2 DEF Resolved

\* A step of one worker leaves the user and the request of the others alone.
LEMMA OthersStay ==
    ASSUME RequestTypeOK, AuthTypeOK, NEW w \in Workers, RequestStep(w), AuthStep(w),
           NEW v \in Workers \ {w}
    PROVE  /\ request'[v] = request[v] /\ phase'[v] = phase[v]
           /\ user'[v] = user[v] /\ gone'[v] = gone[v]
<1>1. request'[v] = request[v] /\ phase'[v] = phase[v] /\ gone'[v] = gone[v]
  BY DEF RequestStep, Receive, Leave, Enter, RequestTypeOK
<1>2. user'[v] = user[v]
  BY DEF AuthStep, Resolved, ResumeOk, DevelLogin, ResumeFails, Page, Store, authVars, AuthTypeOK
<1>3. QED
  BY <1>1, <1>2

\* What a step of a worker leaves of its own request.
LEMMA OwnStep ==
    ASSUME RequestTypeOK, AuthTypeOK, GoneStaysGone, ServerAssumption, NEW w \in Workers,
           Read(w) \/ ReadUpgrade(w) \/ WorkerStep(w)
    PROVE  /\ phase'[w] = "handler" /\ request'[w].path \notin Public => Resolves(w)'
           /\ phase'[w] = "socket" => Resolves(w)' /\ user'[w] \in Admins
<1> USE DEF RequestTypeOK
<1>1. CASE Read(w) \/ ReadUpgrade(w)
  BY <1>1 DEF Read, ReadUpgrade, Receive
<1>2. CASE CheckWsUpgrade(w)
  <2>1. CASE Resolved(w) /\ Enter(w, IF Level(user'[w]) THEN "socket" ELSE "declined")
    <3>1. Resolves(w)'
      BY <2>1, ResolvedIsOwn DEF Enter
    <3>2. QED
      BY <2>1, <3>1 DEF Enter, Level
  <2>2. CASE ResumeFails(w) /\ Enter(w, "declined")
    BY <2>2 DEF Enter
  <2>3. QED
    BY <1>2, <2>1, <2>2 DEF CheckWsUpgrade
<1>3. CASE Passes(w)
  <2>1. UNCHANGED <<request, gone>> /\ phase'[w] = "handler"
    BY <1>3 DEF Passes, Enter
  <2>2. request[w].path \notin Public => Resolves(w)'
    BY <1>3, <2>1, ResolvedIsOwn DEF Passes
  <2>3. QED
    BY <2>1, <2>2
<1>4. ASSUME NEW p \in Phases \ {"handler", "socket"}, Enter(w, p)
      PROVE  phase'[w] \notin {"handler", "socket"}
  BY <1>4 DEF Enter
<1>5. ASSUME NEW r, NEW done, Leave(w, r, done)
      PROVE  phase'[w] \notin {"handler", "socket"}
  BY <1>5 DEF Leave
<1>6. CASE UpgradeTaken(w) \/ UpgradeDeclined(w) \/ UpgradeThrows(w)
  BY <1>4, <1>5, <1>6 DEF UpgradeTaken, UpgradeDeclined, UpgradeThrows, Phases
<1>7. CASE IsStopped(w) \/ NotServed(w) \/ Deferred(w)
  BY <1>5, <1>7 DEF IsStopped, NotServed, Deferred, Answer
<1>8. CASE Immediate(w)
  BY <1>4, <1>5, <1>8 DEF Immediate, Answer, Phases
<1>9. QED
  BY <1>1, <1>2, <1>3, <1>6, <1>7, <1>8 DEF WorkerStep, UpgradeStep, Preflight

UserInv == RequestTypeOK /\ AuthTypeOK /\ GoneStaysGone /\ UserIsResolved

LEMMA UserStep == UserInv /\ [Next]_vars => UserInv'
<1> SUFFICES ASSUME UserInv, [Next]_vars PROVE UserInv'
  OBVIOUS
<1>1. RequestTypeOK' /\ AuthTypeOK'
  BY ServerTypeStep DEF UserInv
<1>2. CASE UNCHANGED <<requestVars, authVars>>
  BY <1>1, <1>2 DEF UserInv, GoneStaysGone, UserIsResolved, Resolves, Cookie, requestVars, authVars
<1>3. ASSUME NEW w \in Workers, Read(w) \/ ReadUpgrade(w) \/ WorkerStep(w)
      PROVE  UserInv'
  <2>1. RequestStep(w) /\ AuthStep(w)
    BY <1>3, StepForms
  <2>2. GoneStaysGone'
    BY <2>1, GoneStep DEF UserInv
  <2>3. ASSUME NEW v \in Workers \ {w}
        PROVE  /\ phase'[v] = "handler" /\ request'[v].path \notin Public => Resolves(v)'
               /\ phase'[v] = "socket" => Resolves(v)' /\ user'[v] \in Admins
    BY <2>1, <2>3, OthersStay DEF UserInv, UserIsResolved, Resolves, Cookie
  <2>4. /\ phase'[w] = "handler" /\ request'[w].path \notin Public => Resolves(w)'
        /\ phase'[w] = "socket" => Resolves(w)' /\ user'[w] \in Admins
    BY <1>3, OwnStep, ServerAssumption DEF UserInv
  <2>5. UserIsResolved'
    BY <2>3, <2>4 DEF UserIsResolved
  <2>6. QED
    BY <1>1, <2>2, <2>5 DEF UserInv
<1>4. QED
  BY <1>2, <1>3 DEF Next, vars

\* A guarded page and a websocket run as the user of the request's own session or of
\* develLogin, never as whom an earlier request left on the worker, and never for a
\* session that was over before the request was read.
THEOREM OwnUserOnly == Spec => []RunsAsItsUser
<1>1. Init => UserInv
  BY ServerInitTypes DEF Init, UserInv, GoneStaysGone, UserIsResolved
<1>2. UserInv => RunsAsItsUser
  BY DEF UserInv, UserIsResolved, RunsAsItsUser, Resolves, GuardLetsIn, Level, Public
<1>3. QED
  BY <1>1, <1>2, UserStep, PTL DEF Spec

-----------------------------------------------------------------------------
(* HttpServer: what a reply means.                                         *)

\* A worker whose last reply is the page asked for has come to the end of its
\* deferred work, too: no exit of handle_request sends the page otherwise.
THEOREM PageMeansDone == Spec => []OkMeansDone
<1> DEFINE Inv == RequestTypeOK /\ AuthTypeOK /\ OkMeansDone
<1>1. Init => Inv
  BY ServerInitTypes DEF Init, OkMeansDone
<1>2. Inv /\ [Next]_vars => Inv'
  <2> SUFFICES ASSUME Inv, [Next]_vars PROVE OkMeansDone'
    BY ServerTypeStep
  <2>1. CASE UNCHANGED <<requestVars, authVars>>
    BY <2>1 DEF OkMeansDone, requestVars
  <2>2. ASSUME NEW w \in Workers, NEW r \in {"none", "page", "other"}, NEW done \in BOOLEAN,
               Leave(w, r, done), r = "page" => done
        PROVE  OkMeansDone'
    BY <2>2 DEF Leave, OkMeansDone, RequestTypeOK
  <2>3. ASSUME NEW w \in Workers, NEW p, Enter(w, p)
        PROVE  OkMeansDone'
    BY <2>3 DEF Enter, OkMeansDone
  <2>4. ASSUME NEW w \in Workers, Read(w) \/ ReadUpgrade(w)
        PROVE  OkMeansDone'
    BY <2>4 DEF Read, ReadUpgrade, Receive, OkMeansDone, RequestTypeOK
  <2>5. ASSUME NEW w \in Workers, UpgradeStep(w) \/ Preflight(w)
        PROVE  OkMeansDone'
    BY <2>2, <2>3, <2>5 DEF UpgradeStep, CheckWsUpgrade, UpgradeTaken, UpgradeDeclined,
       UpgradeThrows, Preflight, Passes, IsStopped, Answer
  <2>6. ASSUME NEW w \in Workers, Immediate(w) \/ NotServed(w) \/ Deferred(w)
        PROVE  OkMeansDone'
    BY <2>2, <2>3, <2>6 DEF Immediate, NotServed, Deferred, Answer
  <2>7. QED
    BY <2>1, <2>4, <2>5, <2>6 DEF Next, WorkerStep, vars
<1>3. Inv => OkMeansDone
  OBVIOUS
<1>4. QED
  BY <1>1, <1>2, <1>3, PTL DEF Spec

\* What is proved of listen() and its workers holds of the whole server: free is never
\* below the number of free workers, and the stop callback finds the contexts.
THEOREM ServerKeepsPromises == Spec => []FreeNeverUnderstates /\ []StopTouchesLive
BY KeepsListener, FreeIsEnough, CallbackFindsContexts, PTL
=============================================================================
