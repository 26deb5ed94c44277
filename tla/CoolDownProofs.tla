--------------------------- MODULE CoolDownProofs ---------------------------
(***************************************************************************)
(* What the two gates promise for any number of callers, any cool-down and *)
(* any multiplier.                                                         *)
(***************************************************************************)
EXTENDS CoolDown, SequenceTheorems, WellFoundedInduction, TLAPS

-----------------------------------------------------------------------------
(* Types.                                                                  *)

\* The latest row is a row, and none is later; it is 0 only without rows.
LEMMA LastRowIsLatest ==
    ASSUME table \in Seq(Times)
    PROVE  /\ LastRow \in 0..MaxTime
           /\ LastRow = 0 <=> table = << >>
           /\ \A i \in DOMAIN table : table[i] <= LastRow
<1> DEFINE Rows == {table[i] : i \in DOMAIN table}
<1>1. CASE table = << >>
  BY <1>1, ClockAssumption DEF LastRow, ClockAssumption
<1>2. CASE table # << >>
  <2>1. Rows \subseteq Times /\ Rows # {}
    <3>1. 1 \in DOMAIN table
      BY <1>2
    <3>2. QED
      BY <3>1
  <2>2. PICK t \in Rows : \A s \in Rows : s <= t
    <3> DEFINE Gap == {MaxTime - s : s \in Rows}
    <3>1. Gap \subseteq Nat /\ Gap # {}
      BY <2>1, ClockAssumption DEF Times, ClockAssumption
    <3> HIDE DEF Gap
    <3>2. PICK g \in Gap : \A h \in Gap : <<h, g>> \notin OpToRel(<, Nat)
      BY <3>1, NatLessThanWellFounded, WFMin, Zenon
    <3>3. \A h \in Gap : g <= h
      <4>1. \A h \in Gap : ~(h < g)
        BY <3>1, <3>2, Zenon DEF OpToRel
      <4>2. QED
        BY <3>1, <4>1
    <3>4. PICK s \in Rows : g = MaxTime - s
      BY DEF Gap
    <3>5. ASSUME NEW r \in Rows PROVE r <= s
      <4>1. MaxTime - r \in Gap
        BY DEF Gap
      <4>2. MaxTime - s <= MaxTime - r
        BY <3>3, <3>4, <4>1
      <4>3. QED
        BY <2>1, <4>2, ClockAssumption DEF Times, ClockAssumption
    <3>6. QED
      BY <3>5
  <2>3. LastRow \in Rows /\ \A i \in DOMAIN table : table[i] <= LastRow
    BY <1>2, <2>2 DEF LastRow
  <2>4. QED
    BY <1>2, <2>1, <2>3, ClockAssumption DEF Times, ClockAssumption
<1>3. QED
  BY <1>1, <1>2

\* The cool-down in the table is a number.
LEMMA ScaledIsNat == Scaled \in Nat /\ Scaled > 0
  BY CoolDownAssumption DEF Scaled, CoolDownAssumption

Callee == [at : {"idle", "called", "selected"}, now : 0..MaxTime, last : 0..MaxTime, seen : Nat]
Entry  == [lastRun : 0..MaxTime, suppressed : Nat, firstSuppressed : 0..MaxTime]
Run    == [now : Times, seen : Nat]

\* A call has read the clock, and only a call of Runnable has selected.
CallersWork ==
    \A c \in Callers : /\ caller[c].at # "idle" => caller[c].now \in Times
                       /\ caller[c].at = "selected" => gate = "table"

Typed == CoolDownTypeOK /\ CallersWork

LEMMA TimesAreStamps == Times \subseteq 0..MaxTime /\ 0 \in 0..MaxTime /\ Idle \in Callee
  BY ClockAssumption DEF Times, ClockAssumption, Idle, Callee

LEMMA TypeStep ==
    ASSUME Typed, [CoolDownNext]_coolDownVars
    PROVE  Typed'
<1> USE DEF Typed, CoolDownTypeOK, CallersWork
<1>t. /\ caller \in [Callers -> Callee] /\ entry \in Entry /\ runs \in Seq(Run)
      /\ blocked \in [all : Nat, reported : Nat]
  BY DEF Callee, Entry, Run
<1>q. ASSUME /\ now' \in Times /\ gate' = gate
             /\ caller' \in [Callers -> Callee] /\ entry' \in Entry /\ table' \in Seq(Times)
             /\ calls' \in 0..MaxCalls /\ runs' \in Seq(Run)
             /\ blocked' \in [all : Nat, reported : Nat]
             /\ CallersWork'
      PROVE  Typed'
  BY <1>q DEF Callee, Entry, Run
<1>1. CASE CoolDownTick
  <2>1. now' \in Times
    BY <1>1, ClockAssumption DEF CoolDownTick, Tick, Times, ClockAssumption
  <2>2. QED
    BY <1>1, <1>t, <1>q, <2>1 DEF CoolDownTick, gateVars
<1>2. ASSUME NEW c \in Callers, Call(c) PROVE Typed'
  <2>1. caller' \in [Callers -> Callee]
    BY <1>2, <1>t, TimesAreStamps DEF Call, Idle, Callee
  <2>2. calls' \in 0..MaxCalls
    BY <1>2, CoolDownAssumption DEF Call, CoolDownAssumption
  <2>3. CallersWork'
    BY <1>2, <1>t DEF Call, gateVars, Idle, Callee
  <2>4. QED
    BY <1>2, <1>t, <1>q, <2>1, <2>2, <2>3 DEF Call, gateVars
<1>3. ASSUME NEW c \in Callers, Grant(c), caller[c].at # "idle", gate' = gate
      PROVE  caller' \in [Callers -> Callee] /\ runs' \in Seq(Run) /\ CallersWork'
  <2>1. caller' \in [Callers -> Callee] /\ CallersWork'
    BY <1>3, <1>t, TimesAreStamps DEF Grant, Idle
  <2>2. [now |-> caller[c].now, seen |-> caller[c].seen] \in Run
    BY <1>3, <1>t DEF Run, Callee
  <2>3. QED
    BY <1>3, <1>t, <2>1, <2>2, AppendProperties DEF Grant
<1>4. ASSUME NEW c \in Callers, Deny(c), gate' = gate
      PROVE  caller' \in [Callers -> Callee] /\ runs' \in Seq(Run) /\ CallersWork'
  BY <1>4, <1>t, TimesAreStamps DEF Deny, Idle
<1>5. ASSUME NEW c \in Callers, RunnableV2(c) PROVE Typed'
  <2> DEFINE t == caller[c].now
  <2>1. t \in Times /\ t \in 0..MaxTime
    BY <1>5, TimesAreStamps DEF RunnableV2
  <2>2. entry' \in Entry
    <3> HIDE DEF t
    <3>1. Stamp(t) \in Entry
      BY <2>1, TimesAreStamps DEF Stamp, Entry, NoEntry
    <3>2. Suppress(t) \in Entry
      <4>1. entry.suppressed + 1 \in Nat /\ entry.firstSuppressed \in 0..MaxTime
        BY <1>t DEF Entry
      <4>2. QED
        BY <1>t, <2>1, <4>1 DEF Suppress, Entry
    <3>3. QED
      BY <1>5, <3>1, <3>2 DEF RunnableV2, t
  <2>3. blocked' \in [all : Nat, reported : Nat]
    <3>1. entry.suppressed \in Nat
      BY <1>t DEF Entry
    <3>2. blocked.all + 1 \in Nat /\ blocked.reported + entry.suppressed \in Nat
      BY <1>t, <3>1
    <3>3. CASE blocked' = [blocked EXCEPT !.all = @ + 1]
      BY <1>t, <3>2, <3>3
    <3>4. CASE blocked' = [blocked EXCEPT !.reported = @ + entry.suppressed]
      BY <1>t, <3>2, <3>4
    <3>5. QED
      BY <1>5, <3>3, <3>4 DEF RunnableV2
  <2>4. gate' = gate /\ now' = now /\ table' = table /\ calls' = calls
    BY <1>5 DEF RunnableV2
  <2>5. caller' \in [Callers -> Callee] /\ runs' \in Seq(Run) /\ CallersWork'
    BY <1>5, <1>3, <1>4, <2>4 DEF RunnableV2
  <2>6. QED
    BY <1>q, <2>2, <2>3, <2>4, <2>5
<1>6. ASSUME NEW c \in Callers, Select(c) PROVE Typed'
  <2>1. caller' \in [Callers -> Callee]
    <3>1. LastRow \in 0..MaxTime /\ Len(table) \in Nat
      BY LastRowIsLatest, LenProperties
    <3>2. [caller[c] EXCEPT !.at = "selected", !.last = LastRow, !.seen = Len(table)] \in Callee
      BY <1>t, <3>1 DEF Callee
    <3>3. QED
      BY <1>6, <1>t, <3>2 DEF Select
  <2>2. CallersWork'
    BY <1>6, <1>t DEF Select, gateVars, Callee
  <2>3. QED
    BY <1>6, <1>t, <1>q, <2>1, <2>2 DEF Select, gateVars
<1>7. ASSUME NEW c \in Callers, Runnable(c) PROVE Typed'
  <2>1. gate' = gate /\ now' = now /\ entry' = entry /\ calls' = calls /\ blocked' = blocked
    BY <1>7 DEF Runnable
  <2>2. caller' \in [Callers -> Callee] /\ runs' \in Seq(Run) /\ CallersWork'
    BY <1>7, <1>3, <1>4, <2>1 DEF Runnable
  <2>3. table' \in Seq(Times)
    <3>1. caller[c].now \in Times /\ table \in Seq(Times)
      BY <1>7 DEF Runnable
    <3>2. Append(table, caller[c].now) \in Seq(Times)
      BY <3>1, AppendProperties
    <3>3. QED
      BY <1>7, <3>1, <3>2 DEF Runnable
  <2>4. QED
    BY <1>t, <1>q, <2>1, <2>2, <2>3
<1>8. CASE UNCHANGED coolDownVars
  BY <1>8 DEF coolDownVars, gateVars
<1>9. QED
  BY <1>1, <1>2, <1>5, <1>6, <1>7, <1>8 DEF CoolDownNext

\* Types, for any callers and any constants.
LEMMA GatesAreTyped == CoolDownSpec => []Typed
<1>1. CoolDownInit => Typed
  BY TimesAreStamps, ClockAssumption, CoolDownAssumption
  DEF CoolDownInit, Typed, CoolDownTypeOK, CallersWork, Idle, NoEntry, Times,
      ClockAssumption, CoolDownAssumption
<1>2. QED
  BY <1>1, TypeStep, PTL DEF CoolDownSpec

-----------------------------------------------------------------------------
(* RunnableV2.                                                             *)

\* Every call RunnableV2 blocks is counted once: it was reported to a run, or it waits
\* in the entry.
THEOREM BlockedAreReported == CoolDownSpec => []SuppressedAreReported
<1>1. CoolDownInit => SuppressedAreReported
  BY DEF CoolDownInit, SuppressedAreReported, NoEntry
<1>2. ASSUME Typed, SuppressedAreReported, [CoolDownNext]_coolDownVars
      PROVE  SuppressedAreReported'
  <2>t. /\ blocked \in [all : Nat, reported : Nat] /\ entry \in Entry
        /\ blocked.all \in Nat /\ blocked.reported \in Nat /\ entry.suppressed \in Nat
    BY <1>2 DEF Typed, CoolDownTypeOK, Entry
  <2>1. ASSUME NEW c \in Callers, RunnableV2(c) PROVE SuppressedAreReported'
    <3>1. CASE /\ entry' = Stamp(caller[c].now)
               /\ blocked' = [blocked EXCEPT !.reported = @ + entry.suppressed]
      <4>1. entry'.suppressed = 0
        BY <3>1 DEF Stamp, NoEntry
      <4>2. blocked'.all = blocked.all /\ blocked'.reported = blocked.reported + entry.suppressed
        BY <3>1, <2>t
      <4>3. QED
        BY <1>2, <2>t, <4>1, <4>2 DEF SuppressedAreReported
    <3>2. CASE /\ entry' = Suppress(caller[c].now)
               /\ blocked' = [blocked EXCEPT !.all = @ + 1]
      <4>1. entry'.suppressed = entry.suppressed + 1
        BY <3>2, <2>t DEF Suppress, Entry
      <4>2. blocked'.all = blocked.all + 1 /\ blocked'.reported = blocked.reported
        BY <3>2, <2>t
      <4>3. QED
        BY <1>2, <2>t, <4>1, <4>2 DEF SuppressedAreReported
    <3>3. QED
      BY <2>1, <3>1, <3>2 DEF RunnableV2
  <2>2. CASE UNCHANGED <<entry, blocked>>
    BY <1>2, <2>2 DEF SuppressedAreReported
  <2>3. QED
    BY <1>2, <2>1, <2>2
    DEF CoolDownNext, coolDownVars, gateVars, CoolDownTick, Call, Select, Runnable
<1>3. QED
  BY <1>1, <1>2, GatesAreTyped, PTL DEF CoolDownSpec

\* The entry is the last run's: there is none before the first run.
EntryIsLastRun ==
    gate = "memory" =>
        /\ runs = << >> => entry = NoEntry
        /\ runs # << >> => entry.lastRun = runs[Len(runs)].now

Spaced == EntryIsLastRun /\ RunsAreSpaced

LEMMA SpacedStep ==
    ASSUME Typed, Spaced, [CoolDownNext]_coolDownVars
    PROVE  Spaced'
<1>t. runs \in Seq(Run) /\ entry \in Entry
  BY DEF Typed, CoolDownTypeOK, Entry, Run
<1>1. ASSUME NEW c \in Callers, gate = "memory", gate' = "memory", caller[c].now \in Times,
             MayRunAt(caller[c].now), Grant(c), entry' = Stamp(caller[c].now)
      PROVE  Spaced'
  <2> DEFINE t == caller[c].now
             n == Len(runs)
             last == [now |-> t, seen |-> caller[c].seen]
  <2>0. n \in Nat /\ t \in Nat /\ CoolDownSec \in Nat \ {0}
    BY <1>1, <1>t, LenProperties, CoolDownAssumption DEF Times, CoolDownAssumption
  <2>1. /\ DOMAIN runs = 1..n /\ runs' = Append(runs, last)
        /\ Len(runs') = n + 1 /\ DOMAIN runs' = 1..(n + 1)
        /\ \A i \in 1..n : runs'[i] = runs[i]
        /\ runs'[n + 1] = last
    BY <1>1, <1>t, AppendProperties, LenProperties DEF Grant
  <2>2. \A i \in 1..n : runs[i].now \in Nat /\ runs[i].now > 0
    <3>1. \A i \in 1..n : runs[i] \in Run
      BY <1>t, <2>1, ElementOfSeq
    <3>2. QED
      BY <3>1 DEF Run, Times
  <2>3. entry'.lastRun = t
    BY <1>1 DEF Stamp, NoEntry
  <2>4. EntryIsLastRun'
    BY <1>1, <2>0, <2>1, <2>3 DEF EntryIsLastRun
  <2>5. ASSUME ~Overtaken'
        PROVE  \A i, j \in DOMAIN runs' : i < j => runs'[j].now - runs'[i].now >= CoolDownSec
    <3>1. ~Overtaken
      BY <2>0, <2>1, <2>5 DEF Overtaken
    <3>2. \A i, j \in 1..n : i < j => runs[j].now - runs[i].now >= CoolDownSec
      BY <1>1, <2>1, <3>1 DEF Spaced, RunsAreSpaced
    <3>3. n > 0 => t - runs[n].now >= CoolDownSec
      <4> SUFFICES ASSUME n > 0 PROVE t - runs[n].now >= CoolDownSec
        OBVIOUS
      <4>1. t >= runs[n].now
        <5>1. n + 1 \in DOMAIN runs' /\ n + 1 > 1 /\ (n + 1) - 1 = n /\ n \in 1..n
          BY <2>0, <2>1
        <5>2. ~(runs'[n + 1].now < runs'[n].now)
          BY <2>5, <5>1 DEF Overtaken
        <5>3. runs'[n + 1].now = t /\ runs'[n] = runs[n]
          BY <2>1, <5>1
        <5>4. QED
          BY <2>0, <2>2, <5>1, <5>2, <5>3
      <4>2. entry.lastRun = runs[n].now
        BY <1>1, <1>t, <2>0 DEF Spaced, EntryIsLastRun
      <4>3. entry # NoEntry
        BY <2>0, <2>2, <4>2 DEF NoEntry
      <4>4. QED
        BY <1>1, <2>0, <2>2, <4>1, <4>2, <4>3 DEF MayRunAt
    <3>4. ASSUME NEW i \in 1..n PROVE t - runs[i].now >= CoolDownSec
      <4>1. i = n \/ i < n
        BY <2>0
      <4>2. i < n => runs[n].now - runs[i].now >= CoolDownSec
        BY <2>0, <3>2
      <4>3. QED
        BY <2>0, <2>2, <3>3, <4>1, <4>2
    <3>5. QED
      BY <2>0, <2>1, <3>2, <3>4
  <2>6. QED
    BY <2>4, <2>5 DEF Spaced, RunsAreSpaced
<1>2. ASSUME NEW c \in Callers, RunnableV2(c) PROVE Spaced'
  <2>1. gate = "memory" /\ gate' = gate /\ caller[c].now \in Times
    BY <1>2 DEF RunnableV2, Typed, CallersWork
  <2>2. CASE MayRunAt(caller[c].now) /\ Grant(c) /\ entry' = Stamp(caller[c].now)
    BY <1>1, <2>1, <2>2
  <2>3. CASE ~MayRunAt(caller[c].now) /\ Deny(c) /\ entry' = Suppress(caller[c].now)
    <3>1. runs' = runs /\ entry # NoEntry
      BY <2>3 DEF Deny, MayRunAt
    <3>2. entry'.lastRun = entry.lastRun
      BY <1>t, <2>3 DEF Suppress, Entry
    <3>3. EntryIsLastRun'
      BY <2>1, <3>1, <3>2 DEF Spaced, EntryIsLastRun
    <3>4. RunsAreSpaced'
      BY <2>1, <3>1 DEF Spaced, RunsAreSpaced, Overtaken
    <3>5. QED
      BY <3>3, <3>4 DEF Spaced
  <2>4. QED
    BY <1>2, <2>2, <2>3 DEF RunnableV2
<1>3. CASE gate' = gate /\ UNCHANGED <<entry, runs>>
  BY <1>3 DEF Spaced, EntryIsLastRun, RunsAreSpaced, Overtaken
<1>4. ASSUME NEW c \in Callers, Runnable(c) PROVE Spaced'
  <2>1. gate' # "memory"
    BY <1>4 DEF Runnable, Typed, CallersWork
  <2>2. QED
    BY <2>1 DEF Spaced, EntryIsLastRun, RunsAreSpaced
<1>5. QED
  BY <1>2, <1>3, <1>4 DEF CoolDownNext, coolDownVars, gateVars, CoolDownTick, Call, Select

\* Two runs RunnableV2 grants are the cool-down apart, unless a caller that was
\* overtaken on its way to the mutex has been taken for a clock that went back.
THEOREM GateSpacesRuns == CoolDownSpec => []RunsAreSpaced
<1>1. CoolDownInit => Spaced
  BY DEF CoolDownInit, Spaced, EntryIsLastRun, RunsAreSpaced
<1>2. Spaced => RunsAreSpaced
  BY DEF Spaced
<1>3. QED
  BY <1>1, <1>2, SpacedStep, GatesAreTyped, PTL DEF CoolDownSpec

-----------------------------------------------------------------------------
(* Runnable.                                                               *)

\* The rows are the runs, and who has selected knows the latest of what it saw.
RowsAreRuns ==
    gate = "table" =>
        /\ Len(runs) = Len(table)
        /\ \A i \in DOMAIN table : runs[i].now = table[i]

SelectedKnowLatest ==
    \A c \in Callers : caller[c].at = "selected" =>
        /\ caller[c].seen <= Len(table)
        /\ \A i \in DOMAIN table : i <= caller[c].seen => table[i] <= caller[c].last
        /\ caller[c].last = 0 => caller[c].seen = 0

Explained == RowsAreRuns /\ SelectedKnowLatest /\ ClashesOverlap

LEMMA ExplainedStep ==
    ASSUME Typed, Explained, [CoolDownNext]_coolDownVars
    PROVE  Explained'
<1>t. /\ runs \in Seq(Run) /\ table \in Seq(Times) /\ caller \in [Callers -> Callee]
      /\ \A i \in DOMAIN table : table[i] \in Nat /\ table[i] > 0
  <2>1. /\ runs \in Seq(Run) /\ table \in Seq(Times) /\ caller \in [Callers -> Callee]
    BY DEF Typed, CoolDownTypeOK, Run, Callee
  <2>2. \A i \in DOMAIN table : table[i] \in Times
    BY <2>1
  <2>3. QED
    BY <2>1, <2>2 DEF Times
<1>n. Len(table) \in Nat /\ DOMAIN table = 1..Len(table) /\ DOMAIN runs = 1..Len(runs)
  BY <1>t, LenProperties
<1>1. CASE UNCHANGED <<gate, caller, table, runs>>
  BY <1>1 DEF Explained, RowsAreRuns, SelectedKnowLatest, ClashesOverlap
<1>2. ASSUME NEW c \in Callers, UNCHANGED <<gate, table, runs>>,
             caller' = [caller EXCEPT ![c] = caller'[c]], caller'[c].at # "selected"
      PROVE  Explained'
  <2>1. SelectedKnowLatest'
    BY <1>2, <1>t DEF Explained, SelectedKnowLatest
  <2>2. QED
    BY <1>2, <2>1 DEF Explained, RowsAreRuns, ClashesOverlap
<1>3. ASSUME NEW c \in Callers, Call(c) PROVE Explained'
  <2>1. caller' = [caller EXCEPT ![c] = caller'[c]] /\ caller'[c].at # "selected"
    BY <1>3, <1>t DEF Call, Idle
  <2>2. QED
    BY <1>2, <1>3, <2>1 DEF Call, gateVars
<1>4. ASSUME NEW c \in Callers, Deny(c), UNCHANGED <<gate, table>> PROVE Explained'
  <2>1. caller' = [caller EXCEPT ![c] = caller'[c]] /\ caller'[c].at # "selected"
    BY <1>4, <1>t DEF Deny, Idle
  <2>2. QED
    BY <1>2, <1>4, <2>1 DEF Deny
<1>5. ASSUME NEW c \in Callers, RunnableV2(c) PROVE Explained'
  <2>1. gate' # "table" /\ UNCHANGED <<gate, table>>
    BY <1>5 DEF RunnableV2
  <2>2. CASE Grant(c)
    <3>1. SelectedKnowLatest'
      BY <1>t, <2>1, <2>2 DEF Grant, Idle, Explained, SelectedKnowLatest
    <3>2. QED
      BY <2>1, <3>1 DEF Explained, RowsAreRuns, ClashesOverlap
  <2>3. QED
    BY <1>4, <1>5, <2>1, <2>2 DEF RunnableV2
<1>6. ASSUME NEW c \in Callers, Select(c) PROVE Explained'
  <2>1. /\ gate' = gate /\ table' = table /\ runs' = runs
        /\ caller' = [caller EXCEPT ![c] = caller'[c]]
        /\ caller'[c].last = LastRow /\ caller'[c].seen = Len(table)
    BY <1>6, <1>t DEF Select, gateVars, Callee
  <2>2. LastRow = 0 => Len(table) = 0
    BY <1>t, LastRowIsLatest
  <2>3. \A i \in DOMAIN table : table[i] <= LastRow
    BY <1>t, LastRowIsLatest
  <2>4. SelectedKnowLatest'
    BY <1>n, <1>t, <2>1, <2>2, <2>3 DEF Explained, SelectedKnowLatest
  <2>5. QED
    BY <2>1, <2>4 DEF Explained, RowsAreRuns, ClashesOverlap
<1>7. ASSUME NEW c \in Callers, Runnable(c) PROVE Explained'
  <2> DEFINE t    == caller[c].now
             n    == Len(table)
             last == caller[c].last
             seen == caller[c].seen
             run  == [now |-> t, seen |-> seen]
  <2>1. /\ gate = "table" /\ gate' = gate /\ caller[c].at = "selected"
        /\ t \in Nat /\ last \in Nat /\ seen \in Nat /\ t \in Times
    BY <1>7, <1>t, ClockAssumption
    DEF Runnable, Typed, CallersWork, Callee, Times, ClockAssumption
  <2>2. /\ Len(runs) = n /\ \A i \in 1..n : runs[i].now = table[i]
        /\ \A i \in 1..n : i <= seen => table[i] <= last
        /\ seen <= n /\ (last = 0 => seen = 0)
    BY <1>n, <2>1 DEF Explained, RowsAreRuns, SelectedKnowLatest
  <2>3. CASE /\ last = 0 \/ last + Scaled <= t
             /\ table' = Append(table, t) /\ Grant(c)
    <3>1. /\ DOMAIN table' = 1..(n + 1) /\ Len(table') = n + 1
          /\ \A i \in 1..n : table'[i] = table[i]
          /\ table'[n + 1] = t
      BY <1>t, <1>n, <2>1, <2>3, AppendProperties
    <3>2. /\ DOMAIN runs' = 1..(n + 1) /\ Len(runs') = n + 1
          /\ \A i \in 1..n : runs'[i] = runs[i]
          /\ runs'[n + 1] = run
      <4>1. runs' = Append(runs, run)
        BY <2>3 DEF Grant
      <4>2. run \in Run
        BY <2>1 DEF Run
      <4>3. QED
        BY <1>t, <1>n, <2>2, <4>1, <4>2, AppendProperties
    <3>3. RowsAreRuns'
      BY <1>n, <2>2, <3>1, <3>2 DEF RowsAreRuns
    <3>4. SelectedKnowLatest'
      <4>1. ASSUME NEW d \in Callers, caller'[d].at = "selected"
            PROVE  d # c /\ caller'[d] = caller[d]
        BY <1>t, <2>3, <4>1 DEF Grant, Idle
      <4>2. QED
        <5>1. SUFFICES ASSUME NEW d \in Callers, caller[d].at = "selected",
                              caller'[d] = caller[d]
                       PROVE  /\ caller[d].seen <= n + 1
                              /\ \A i \in 1..(n + 1) : i <= caller[d].seen => table'[i] <= caller[d].last
                              /\ caller[d].last = 0 => caller[d].seen = 0
          BY <3>1, <4>1 DEF SelectedKnowLatest
        <5>2. /\ caller[d].seen \in Nat /\ caller[d].seen <= n
              /\ \A i \in 1..n : i <= caller[d].seen => table[i] <= caller[d].last
              /\ caller[d].last = 0 => caller[d].seen = 0
          BY <1>n, <1>t, <5>1 DEF Explained, SelectedKnowLatest, Callee
        <5>3. QED
          BY <1>n, <3>1, <5>2
    <3>5. ClashesOverlap'
      <4>1. SUFFICES ASSUME NEW i \in 1..(n + 1), NEW j \in 1..(n + 1), i < j,
                            runs'[j].now < runs'[i].now + Scaled
                     PROVE  runs'[j].seen < i
        BY <3>2, ScaledIsNat DEF ClashesOverlap, Scaled
      <4>2. CASE j <= n
        <5>1. i \in 1..n /\ j \in 1..n
          BY <1>n, <4>1, <4>2
        <5>2. runs[j].now < runs[i].now + Scaled
          BY <3>2, <4>1, <5>1
        <5>3. runs[j].seen < i
          BY <1>n, <2>1, <2>2, <4>1, <5>1, <5>2 DEF Explained, ClashesOverlap
        <5>4. QED
          BY <3>2, <5>1, <5>3
      <4>3. CASE j = n + 1
        <5>1. i \in 1..n /\ t < table[i] + Scaled /\ table[i] \in Nat
          BY <1>n, <1>t, <2>2, <3>2, <4>1, <4>3
        <5>2. ASSUME i <= seen PROVE FALSE
          <6>1. table[i] <= last /\ last # 0
            BY <2>1, <2>2, <5>1, <5>2
          <6>2. last + Scaled <= t
            BY <2>3, <6>1
          <6>3. QED
            BY <2>1, <5>1, <6>1, <6>2, ScaledIsNat
        <5>3. QED
          BY <2>1, <3>2, <4>3, <5>1, <5>2
      <4>4. QED
        BY <1>n, <4>2, <4>3
    <3>6. QED
      BY <3>3, <3>4, <3>5 DEF Explained
  <2>4. QED
    BY <1>4, <1>7, <2>3 DEF Runnable
<1>8. QED
  BY <1>1, <1>3, <1>5, <1>6, <1>7 DEF CoolDownNext, coolDownVars, gateVars, CoolDownTick

\* Two runs of Runnable within the cool-down, multiplier included, overlap: the later
\* row was written by a caller that had looked before the earlier one was there.
THEOREM ClashNeedsOverlap == CoolDownSpec => []ClashesOverlap
<1>1. CoolDownInit => Explained
  BY DEF CoolDownInit, Explained, RowsAreRuns, SelectedKnowLatest, ClashesOverlap, Idle
<1>2. Explained => ClashesOverlap
  BY DEF Explained
<1>3. QED
  BY <1>1, <1>2, ExplainedStep, GatesAreTyped, PTL DEF CoolDownSpec
=============================================================================
