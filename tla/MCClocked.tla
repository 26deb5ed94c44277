----------------------------- MODULE MCClocked ------------------------------
(***************************************************************************)
(* One instance for TLC of what works by the wall clock: the caches Apcu   *)
(* and QueryCache and the gates of CoolDown.  They share only the clock,   *)
(* so in a behaviour one of them works and the others rest.                *)
(***************************************************************************)
EXTENDS Apcu, CoolDown, QueryCache, TLC

CONSTANTS f1, f2

\* Each statement belongs to a connection with a cacheId of its own.
MCFolderOf == (f1 :> "a") @@ (f2 :> "b")

VARIABLE part

Init ==
    /\ ApcuInit /\ CoolDownInit /\ QueryCacheInit
    /\ part \in {"apcu", "coolDown", "queryCache"}
    /\ part # "apcu" => savesAtExit
    /\ part # "coolDown" => gate = "memory"
    /\ part # "queryCache" => apis = {"queryCacheV2"}

ApcuRests       == UNCHANGED <<processVars, rowVars, reader, gcVars, disk>>
CoolDownRests   == UNCHANGED <<gateVars, caller, calls, runs, blocked>>
QueryCacheRests == UNCHANGED <<apis, thread, folders, fraud, asks, writeVars>>

Next ==
    /\ UNCHANGED part
    /\ \/ part = "apcu" /\ ApcuNext /\ CoolDownRests /\ QueryCacheRests
       \/ part = "coolDown" /\ CoolDownNext /\ ApcuRests /\ QueryCacheRests
       \/ part = "queryCache" /\ QueryCacheNext /\ ApcuRests /\ CoolDownRests

clockedVars == <<apcuVars, coolDownVars, cacheVars, part>>

\* ApcuFairness, where the cache works.
Alone(A) == part = "apcu" /\ A /\ CoolDownRests /\ QueryCacheRests /\ UNCHANGED part
Spec == /\ Init /\ [][Next]_clockedVars
        /\ WF_clockedVars(Alone(GcStep)) /\ WF_clockedVars(Alone(ExitSave))
=============================================================================
