------------------------------ MODULE CoolDown ------------------------------
(***************************************************************************)
(* The two gates that say when a thing may run again: rbk::RunnableV2      *)
(* (misc/runnableV2.{h,cpp}), an entry in memory under a mutex, and        *)
(* Runnable (minMysql/runnable.cpp), rows in a table that several          *)
(* processes read and append to without a lock or a transaction.           *)
(*                                                                         *)
(* Both are seen for one key, asked always with the same cool-down; the    *)
(* keys do not touch each other.  Both read the clock before they look at  *)
(* their last run, so a caller may act on a second that has passed.  The   *)
(* clock is not set back here: that case is the first thing runnableV2.h   *)
(* documents, and what is left is the order of the callers.                *)
(***************************************************************************)
EXTENDS Clock, Sequences

CONSTANTS
    Callers,        \* threads of one process, or processes
    CoolDownSec,    \* the cool-down
    Multiplier,     \* Runnable's; 1 is the default
    MaxCalls        \* bound: calls of a gate

ASSUME CoolDownAssumption ==
    /\ CoolDownSec \in Nat \ {0} /\ Multiplier \in Nat \ {0}
    /\ MaxCalls \in Nat \ {0}

VARIABLES
    gate,       \* which of the two is asked
    caller,     \* the clock each caller read, 0 outside a call, and what it selected
    entry,      \* RunnableV2's entry
    table,      \* the rows of runnable.runnable in the order of their ids
    calls,      \* calls begun
    runs,       \* history: the calls that may run, in the order it was decided
    blocked     \* history: calls that may not, and how many of them were reported

gateVars     == <<gate, entry, table>>
coolDownVars == <<now, gateVars, caller, calls, runs, blocked>>

NoEntry == [lastRun |-> 0, suppressed |-> 0, firstSuppressed |-> 0]
Idle    == [at |-> "idle", now |-> 0, last |-> 0, seen |-> 0]

CoolDownTypeOK ==
    /\ now \in Times /\ gate \in {"memory", "table"}
    /\ caller \in [Callers -> [at : {"idle", "called", "selected"}, now : 0..MaxTime,
                               last : 0..MaxTime, seen : Nat]]
    /\ entry \in [lastRun : 0..MaxTime, suppressed : Nat, firstSuppressed : 0..MaxTime]
    /\ table \in Seq(Times)
    /\ calls \in 0..MaxCalls
    /\ runs \in Seq([now : Times, seen : Nat])
    /\ blocked \in [all : Nat, reported : Nat]

CoolDownInit ==
    /\ now = 1 /\ gate \in {"memory", "table"}
    /\ caller = [c \in Callers |-> Idle]
    /\ entry = NoEntry /\ table = <<>>
    /\ calls = 0 /\ runs = <<>> /\ blocked = [all |-> 0, reported |-> 0]

-----------------------------------------------------------------------------
\* The call begins, and reads the clock.
Call(c) ==
    /\ caller[c] = Idle /\ calls < MaxCalls
    /\ calls' = calls + 1
    /\ caller' = [caller EXCEPT ![c] = [Idle EXCEPT !.at = "called", !.now = now]]
    /\ UNCHANGED <<now, gateVars, runs, blocked>>

Grant(c) ==
    /\ caller' = [caller EXCEPT ![c] = Idle]
    /\ runs' = Append(runs, [now |-> caller[c].now, seen |-> caller[c].seen])

Deny(c) ==
    /\ caller' = [caller EXCEPT ![c] = Idle]
    /\ UNCHANGED runs

-----------------------------------------------------------------------------
(* RunnableV2::runnable, from the lock on.                                 *)

\* Mutant: a run with calls to report keeps the time of the run before.
StampFirstOnly(t) ==
    [NoEntry EXCEPT !.lastRun = IF entry.suppressed = 0 THEN t ELSE entry.lastRun]

\* The entry of a call that runs.
Stamp(t) == [NoEntry EXCEPT !.lastRun = t]

\* The entry of a call that does not.
Suppress(t) ==
    [entry EXCEPT !.suppressed = @ + 1, !.firstSuppressed = IF entry.suppressed = 0 THEN t ELSE @]

MayRunAt(t) == entry = NoEntry \/ t < entry.lastRun \/ t - entry.lastRun >= CoolDownSec

RunnableV2(c) ==
    LET t == caller[c].now
    IN  /\ gate = "memory" /\ caller[c].at = "called"
        /\ \/ /\ MayRunAt(t) /\ Grant(c)
              /\ entry' = Stamp(t)
              /\ blocked' = [blocked EXCEPT !.reported = @ + entry.suppressed]
           \/ /\ ~MayRunAt(t) /\ Deny(c)
              /\ entry' = Suppress(t)
              /\ blocked' = [blocked EXCEPT !.all = @ + 1]
        /\ UNCHANGED <<now, gate, table, calls>>

-----------------------------------------------------------------------------
(* Runnable::runnable.                                                     *)

\* Mutant: without ORDER BY the first row is found.
FirstRow == IF table = <<>> THEN 0 ELSE table[1]

\* ORDER BY lastRun DESC LIMIT 1; no row is 0.
LastRow == IF table = <<>> THEN 0
           ELSE CHOOSE t \in {table[i] : i \in DOMAIN table} : \A i \in DOMAIN table : table[i] <= t

Select(c) ==
    /\ gate = "table" /\ caller[c].at = "called"
    /\ caller' = [caller EXCEPT ![c] = [@ EXCEPT !.at = "selected", !.last = LastRow,
                                                 !.seen = Len(table)]]
    /\ UNCHANGED <<now, gateVars, calls, runs, blocked>>

\* The stored cool-down is the argument, so the multiplier does not build up.
Scaled == CoolDownSec * Multiplier

Runnable(c) ==
    LET last == caller[c].last
    IN  /\ caller[c].at = "selected"
        /\ \/ /\ last = 0 \/ last + Scaled <= caller[c].now
              /\ table' = Append(table, caller[c].now)
              /\ Grant(c)
           \/ /\ last # 0 /\ last + Scaled > caller[c].now
              /\ Deny(c) /\ UNCHANGED table
        /\ UNCHANGED <<now, gate, entry, calls, blocked>>

-----------------------------------------------------------------------------
CoolDownTick == Tick /\ UNCHANGED <<gateVars, caller, calls, runs, blocked>>

CoolDownNext == CoolDownTick \/ \E c \in Callers : Call(c) \/ RunnableV2(c) \/ Select(c) \/ Runnable(c)
CoolDownSpec == CoolDownInit /\ [][CoolDownNext]_coolDownVars

-----------------------------------------------------------------------------
(* Properties.                                                             *)

\* A run whose caller came to the mutex with an older second than the run before.
Overtaken == \E i \in DOMAIN runs : i > 1 /\ runs[i].now < runs[i - 1].now

\* "min seconds between two runs": any two runs RunnableV2 grants are CoolDownSec apart,
\* until a caller that was overtaken between the clock and the mutex is taken for a
\* clock that went back.
RunsAreSpaced ==
    gate = "memory" /\ ~Overtaken =>
        \A i, j \in DOMAIN runs : i < j => runs[j].now - runs[i].now >= CoolDownSec

\* Every blocked call is reported to exactly one run, or waits for the next.
SuppressedAreReported == blocked.all = blocked.reported + entry.suppressed

\* Two runs of Runnable within the cool-down come from callers that worked at the same
\* time: neither found the row of the other, in whatever order the rows came.
ClashesOverlap ==
    gate = "table" =>
        \A i, j \in DOMAIN runs :
            i < j /\ runs[j].now < runs[i].now + Scaled => runs[j].seen < i
=============================================================================
