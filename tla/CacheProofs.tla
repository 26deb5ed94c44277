----------------------------- MODULE CacheProofs -----------------------------
(***************************************************************************)
(* What the two caches promise: Apcu for any keys, readers and ttls,       *)
(* however often the process stores, crashes and starts; QueryCache for    *)
(* any threads, statements, folders and times to live.                     *)
(***************************************************************************)
EXTENDS Apcu, QueryCache, TLAPS

-----------------------------------------------------------------------------
(* Apcu: types.                                                            *)

Hold    == [key : Keys \cup {"none"}, alive : BOOLEAN, parsed : Values]
GcState == {"none", "start", "test", "sleep", "sweep", "sync"}

\* A pointer that is alive points to the row of a key, and the collector does not
\* outlive the process.
PointersHaveRows == \A r \in Readers : reader[r].alive => reader[r].key \in Keys
GcEnds           == process = "down" => gc = "none"

\* What is to be saved is a value.
DurableHasValue == \A k \in Keys : rows[k].persistent => rows[k].value # 0

ApcuTyped == /\ ApcuTypeOK /\ PointersHaveRows /\ GcEnds
         /\ DurableHasValue /\ TypedRowsAreObjects

RowsTyped == /\ rows \in [Keys -> Row] /\ stores \in Values
             /\ DurableHasValue /\ TypedRowsAreObjects

ReadersTyped == reader \in [Readers -> Hold] /\ PointersHaveRows

CollectorTyped == /\ gc \in GcState /\ GcEnds /\ gcNow \in Nat /\ lastSync \in Nat
                  /\ running \in BOOLEAN /\ stop \in BOOLEAN

ProcessTyped == /\ process \in {"down", "up", "exiting"} /\ starts \in 0..MaxStarts
                /\ savesAtExit \in BOOLEAN
                /\ atExit = Unclean \/ atExit \subseteq Keys \X Values \X Nat

\* ApcuTyped is these parts.
LEMMA TypedParts ==
    ApcuTyped <=> /\ now \in Times /\ ProcessTyped /\ RowsTyped /\ ReadersTyped
              /\ CollectorTyped /\ disk \in [Keys -> DiskRow]
  BY DEF ApcuTyped, ApcuTypeOK, ProcessTyped, RowsTyped, ReadersTyped, CollectorTyped, Hold, GcState

LEMMA NoneIsTyped == 0 \in Values /\ NoRow \in Row /\ NoHold \in Hold
<1>1. 0 \in Values
  BY ApcuAssumption DEF Values, ApcuAssumption
<1>2. NoRow \in Row
  BY <1>1 DEF NoRow, Row
<1>3. NoHold \in Hold
  BY <1>1 DEF NoHold, Hold
<1>4. QED
  BY <1>1, <1>2, <1>3

LEMMA LoadIsTyped ==
    ASSUME disk \in [Keys -> DiskRow]
    PROVE  /\ DiskLoad \in [Keys -> Row]
           /\ \A k \in Keys : /\ DiskLoad[k].type = 0
                              /\ DiskLoad[k].persistent <=> disk[k].value # 0
                              /\ DiskLoad[k].persistent =>
                                    /\ DiskLoad[k].value = disk[k].value
                                    /\ DiskLoad[k].exp = disk[k].exp
<1>1. ASSUME NEW k \in Keys, disk[k].value = 0
      PROVE  /\ DiskLoad[k] \in Row /\ DiskLoad[k].type = 0 /\ ~DiskLoad[k].persistent
  BY <1>1, NoneIsTyped DEF DiskLoad, NoRow
<1>2. ASSUME NEW k \in Keys, disk[k].value # 0
      PROVE  /\ DiskLoad[k] \in Row /\ DiskLoad[k].type = 0 /\ DiskLoad[k].persistent
             /\ DiskLoad[k].value = disk[k].value /\ DiskLoad[k].exp = disk[k].exp
  <2>1. disk[k].value \in Values /\ disk[k].exp \in Nat
    BY DEF DiskRow
  <2>2. DiskLoad[k] = [value |-> disk[k].value, exp |-> disk[k].exp,
                       persistent |-> TRUE, type |-> 0, form |-> "bytes"]
    BY <1>2 DEF DiskLoad
  <2>3. QED
    BY <2>1, <2>2 DEF Row
<1>3. DiskLoad = [k \in Keys |-> DiskLoad[k]]
  BY DEF DiskLoad
<1>4. QED
  BY <1>1, <1>2, <1>3

LEMMA SavedIsTyped ==
    ASSUME RowsTyped
    PROVE  /\ Saved \in [Keys -> DiskRow]
           /\ \A k \in Keys : /\ Saved[k].value # 0 <=> rows[k].persistent
                              /\ rows[k].persistent => /\ Saved[k].value = rows[k].value
                                                       /\ Saved[k].exp = rows[k].exp
<1>1. ASSUME NEW k \in Keys, rows[k].persistent
      PROVE  /\ Saved[k] \in DiskRow /\ Saved[k].value # 0
             /\ Saved[k].value = rows[k].value /\ Saved[k].exp = rows[k].exp
  <2>1. rows[k].value \in Values /\ rows[k].exp \in Nat /\ rows[k].value # 0
    BY <1>1 DEF RowsTyped, Row, DurableHasValue
  <2>2. Saved[k] = [value |-> rows[k].value, exp |-> rows[k].exp]
    BY <1>1 DEF Saved
  <2>3. QED
    BY <2>1, <2>2 DEF DiskRow
<1>2. ASSUME NEW k \in Keys, ~rows[k].persistent
      PROVE  Saved[k] \in DiskRow /\ Saved[k].value = 0
  BY <1>2, NoneIsTyped DEF Saved, DiskRow
<1>3. Saved = [k \in Keys |-> Saved[k]]
  BY DEF Saved
<1>4. QED
  BY <1>1, <1>2, <1>3

\* The rows a clean exit has to save are triples of a key, a value and an expiry.
LEMMA DurableIsTyped ==
    ASSUME RowsTyped
    PROVE  Durable \subseteq Keys \X Values \X Nat
<1>1. \A k \in Keys : rows[k].value \in Values /\ rows[k].exp \in Nat
  BY DEF RowsTyped, Row
<1>2. QED
  BY <1>1 DEF Durable

\* One row is written.
LEMMA RowWritten ==
    ASSUME RowsTyped, NEW k \in Keys, NEW row \in Row,
           row.persistent => row.value # 0, row.type # 0 => row.form = "object",
           rows' = [rows EXCEPT ![k] = row], stores' \in Values
    PROVE  RowsTyped'
  BY DEF RowsTyped, DurableHasValue, TypedRowsAreObjects

\* One row becomes an object of a value.
LEMMA RowRewritten ==
    ASSUME RowsTyped, NEW k \in Keys, NEW v \in Values, v # 0,
           rows' = [rows EXCEPT ![k] = [@ EXCEPT !.value = v, !.form = "object"]],
           stores' = stores
    PROVE  RowsTyped'
<1> DEFINE row == [rows[k] EXCEPT !.value = v, !.form = "object"]
<1>1. row \in Row /\ row.value = v /\ row.form = "object"
  BY DEF RowsTyped, Row
<1>2. rows' = [rows EXCEPT ![k] = row] /\ stores' \in Values
  BY DEF RowsTyped
<1> HIDE DEF row
<1>3. QED
  BY <1>1, <1>2, RowWritten

\* Rows go.
LEMMA RowsErased ==
    ASSUME RowsTyped, ReadersTyped, NEW ks, Erase(ks), stores' = stores
    PROVE  RowsTyped' /\ ReadersTyped'
<1>1. RowsTyped'
  BY NoneIsTyped DEF Erase, RowsTyped, DurableHasValue, TypedRowsAreObjects, NoRow
<1>2. ASSUME NEW r \in Readers
      PROVE  reader'[r] \in Hold /\ (reader'[r].alive => reader'[r].key \in Keys)
  <2>1. reader'[r] = reader[r] \/ reader'[r] = [reader[r] EXCEPT !.alive = FALSE]
    BY DEF Erase
  <2>2. QED
    BY <2>1 DEF ReadersTyped, PointersHaveRows, Hold
<1>3. reader' = [r \in Readers |-> reader'[r]]
  BY DEF Erase
<1>4. QED
  BY <1>1, <1>2, <1>3 DEF ReadersTyped, PointersHaveRows

\* One reader goes on.
LEMMA ReaderSet ==
    ASSUME ReadersTyped, NEW r \in Readers, NEW hold \in Hold, hold.alive => hold.key \in Keys,
           reader' = [reader EXCEPT ![r] = hold]
    PROVE  ReadersTyped'
  BY DEF ReadersTyped, PointersHaveRows

\* The end of the process leaves nothing behind.
LEMMA EndIsTyped ==
    ASSUME RowsTyped, ProcessEnds
    PROVE  RowsTyped' /\ ReadersTyped' /\ CollectorTyped'
<1>1. RowsTyped'
  BY NoneIsTyped DEF ProcessEnds, RowsTyped, DurableHasValue, TypedRowsAreObjects, NoRow
<1>2. ReadersTyped'
  BY NoneIsTyped DEF ProcessEnds, ReadersTyped, PointersHaveRows, NoHold
<1>3. CollectorTyped'
  BY DEF ProcessEnds, CollectorTyped, GcEnds, GcState
<1>4. QED
  BY <1>1, <1>2, <1>3

LEMMA ProcessStepTyped ==
    ASSUME ApcuTyped, Start \/ Crash \/ Exit \/ ExitSave
    PROVE  ApcuTyped'
<1> DEFINE Parts == /\ now \in Times /\ ProcessTyped /\ RowsTyped /\ ReadersTyped
                    /\ CollectorTyped /\ disk \in [Keys -> DiskRow]
<1>p. Parts
  BY TypedParts
<1>q. Parts' => ApcuTyped'
  BY DEF ApcuTyped, ApcuTypeOK, ProcessTyped, RowsTyped, ReadersTyped, CollectorTyped, Hold, GcState
<1>d. Saved \in [Keys -> DiskRow] /\ Durable \subseteq Keys \X Values \X Nat
  BY <1>p, SavedIsTyped, DurableIsTyped
<1>1. CASE Start
  <2>1. RowsTyped'
    BY <1>1, <1>p, LoadIsTyped
    DEF Start, RowsTyped, DurableHasValue, TypedRowsAreObjects
  <2>2. ReadersTyped'
    BY <1>1, <1>p DEF Start, ReadersTyped, PointersHaveRows
  <2>3. CollectorTyped'
    BY <1>1 DEF Start, CollectorTyped, GcEnds, GcState
  <2>4. ProcessTyped'
    BY <1>1, <1>p, ApcuAssumption DEF Start, ProcessTyped, ApcuAssumption
  <2>5. QED
    BY <1>1, <1>p, <1>q, <2>1, <2>2, <2>3, <2>4 DEF Start
<1>2. ASSUME ProcessEnds, atExit' = Unclean \/ atExit' = Durable,
             disk' = disk \/ disk' = Saved
      PROVE  ApcuTyped'
  <2>1. RowsTyped' /\ ReadersTyped' /\ CollectorTyped'
    BY <1>2, <1>p, EndIsTyped
  <2>2. ProcessTyped' /\ now' = now
    <3>1. atExit' = Unclean \/ atExit' \subseteq Keys \X Values \X Nat
      BY <1>2, <1>d
    <3>2. Unclean' = Unclean /\ Values' = Values
      BY DEF Unclean, Values
    <3>3. QED
      BY <1>2, <1>p, <3>1, <3>2 DEF ProcessEnds, ProcessTyped
  <2>3. QED
    BY <1>2, <1>p, <1>q, <1>d, <2>1, <2>2
<1>3. CASE Crash
  BY <1>2, <1>3 DEF Crash
<1>4. CASE Exit
  <2>1. CASE ~savesAtExit
    BY <1>2, <1>4, <2>1 DEF Exit
  <2>2. CASE savesAtExit
    <3>1. /\ process' = "exiting" /\ stop' = TRUE
          /\ UNCHANGED <<now, starts, savesAtExit, atExit, rows, stores, reader, gc, gcNow,
                         running, lastSync, disk>>
      BY <1>4, <2>2 DEF Exit, rowVars
    <3>2. ProcessTyped' /\ CollectorTyped'
      BY <1>p, <3>1 DEF ProcessTyped, CollectorTyped, GcEnds
    <3>3. RowsTyped' /\ ReadersTyped'
      BY <1>p, <3>1 DEF RowsTyped, ReadersTyped, DurableHasValue, TypedRowsAreObjects, PointersHaveRows
    <3>4. QED
      BY <1>p, <1>q, <3>1, <3>2, <3>3
  <2>3. QED
    BY <2>1, <2>2
<1>5. CASE ExitSave
  BY <1>2, <1>5 DEF ExitSave
<1>6. QED
  BY <1>1, <1>3, <1>4, <1>5

LEMMA ThreadStepTyped ==
    ASSUME ApcuTyped, ThreadStep
    PROVE  ApcuTyped'
<1> DEFINE Parts == /\ now \in Times /\ ProcessTyped /\ RowsTyped /\ ReadersTyped
                    /\ CollectorTyped /\ disk \in [Keys -> DiskRow]
<1>p. Parts
  BY TypedParts
<1>q. ASSUME UNCHANGED <<now, processVars, gcVars, disk>>, RowsTyped', ReadersTyped'
      PROVE  ApcuTyped'
  <2>1. ProcessTyped' /\ CollectorTyped'
    BY <1>p, <1>q DEF ProcessTyped, CollectorTyped, GcEnds, processVars, gcVars
  <2>2. QED
    BY <1>p, <1>q, <2>1
    DEF ApcuTyped, ApcuTypeOK, ProcessTyped, RowsTyped, ReadersTyped, CollectorTyped, Hold, GcState
<1>r. UNCHANGED rowVars => RowsTyped'
  BY <1>p DEF RowsTyped, DurableHasValue, TypedRowsAreObjects, rowVars
<1>h. UNCHANGED reader => ReadersTyped'
  BY <1>p DEF ReadersTyped, PointersHaveRows
<1>v. ASSUME stores < MaxStores PROVE stores + 1 \in Values /\ stores + 1 # 0
  BY <1>p, <1>v, ApcuAssumption DEF RowsTyped, Values, ApcuAssumption
<1>n. now \in Nat /\ \A ttl \in Ttls : now + ttl \in Nat
  BY <1>p, ApcuAssumption DEF Times, ApcuAssumption
<1>1. ASSUME NEW k \in Keys, NEW row \in Row, Put(k, row), row.value = stores + 1,
             row.type # 0 => row.form = "object"
      PROVE  ApcuTyped'
  <2>1. RowsTyped'
    BY <1>1, <1>p, <1>v, RowWritten DEF Put
  <2>2. QED
    BY <1>1, <1>h, <1>q, <2>1 DEF Put
<1>2. ASSUME NEW k \in Keys, StorePOD(k) PROVE ApcuTyped'
  <2>1. PICK ttl \in Ttls, persistent \in BOOLEAN :
          Put(k, [value |-> stores + 1, exp |-> now + ttl, persistent |-> persistent,
                  type |-> 0, form |-> "bytes"])
    BY <1>2 DEF StorePOD
  <2>2. stores + 1 \in Values /\ now + ttl \in Nat
    BY <1>n, <1>v, <2>1 DEF Put
  <2>3. [value |-> stores + 1, exp |-> now + ttl, persistent |-> persistent,
         type |-> 0, form |-> "bytes"] \in Row
    BY <2>2 DEF Row
  <2>4. QED
    BY <1>1, <2>1, <2>3
<1>3. ASSUME NEW k \in Keys, StoreObject(k) PROVE ApcuTyped'
  <2>1. PICK e \in Nat, persistent \in BOOLEAN :
          Put(k, [value |-> stores + 1, exp |-> e, persistent |-> persistent,
                  type |-> 1, form |-> "object"])
    BY <1>3, <1>n DEF StoreObject
  <2>2. stores + 1 \in Values
    BY <1>v, <2>1 DEF Put
  <2>3. [value |-> stores + 1, exp |-> e, persistent |-> persistent,
         type |-> 1, form |-> "object"] \in Row
    BY <2>2 DEF Row
  <2>4. QED
    BY <1>1, <2>1, <2>3
<1>4. ASSUME NEW k \in Keys, Remove(k) PROVE ApcuTyped'
  BY <1>4, <1>p, <1>q, RowsErased DEF Remove
<1>5. ASSUME NEW r \in Readers, NEW k \in Keys, FetchInner(r, k) PROVE ApcuTyped'
  <2>1. [key |-> k, alive |-> TRUE, parsed |-> 0] \in Hold
    BY NoneIsTyped DEF Hold
  <2>2. ReadersTyped'
    BY <1>5, <1>p, <2>1, ReaderSet DEF FetchInner
  <2>3. QED
    BY <1>5, <1>q, <1>r, <2>2 DEF FetchInner
<1>o. ASSUME NEW r \in Readers, reader' = [reader EXCEPT ![r] = NoHold] PROVE ReadersTyped'
  BY <1>o, <1>p, NoneIsTyped, ReaderSet DEF NoHold
<1>6. ASSUME NEW r \in Readers, Deserialize(r) PROVE ApcuTyped'
  <2> DEFINE row  == rows[reader[r].key]
             hold == [reader[r] EXCEPT !.parsed = row.value]
  <2>1. reader[r] \in Hold /\ reader[r].key \in Keys
    BY <1>6, <1>p DEF Deserialize, ReadersTyped, PointersHaveRows
  <2>2. row.value \in Values
    BY <1>p, <2>1 DEF RowsTyped, Row
  <2>3. hold \in Hold /\ hold.key = reader[r].key
    BY <2>1, <2>2 DEF Hold
  <2>4. \/ reader' = [reader EXCEPT ![r] = hold] \/ reader' = [reader EXCEPT ![r] = NoHold]
    BY <1>6 DEF Deserialize
  <2> HIDE DEF hold, row
  <2>5. ReadersTyped'
    BY <1>o, <1>p, <2>1, <2>3, <2>4, ReaderSet
  <2>6. QED
    BY <1>6, <1>q, <1>r, <2>5 DEF Deserialize
<1>7. ASSUME NEW r \in Readers, WriteBack(r) PROVE ApcuTyped'
  <2>1. reader[r].key \in Keys /\ reader[r].parsed \in Values
    BY <1>7, <1>p DEF WriteBack, ReadersTyped, PointersHaveRows, Hold
  <2>2. RowsTyped'
    BY <1>7, <1>p, <2>1, RowRewritten DEF WriteBack
  <2>3. QED
    BY <1>7, <1>o, <1>q, <2>2 DEF WriteBack
<1>8. ASSUME NEW r \in Readers, DanglingUse(r) PROVE ApcuTyped'
  <2>1. reader[r].parsed \in Values
    BY <1>p DEF ReadersTyped, Hold
  <2>2. RowsTyped'
    BY <1>8, <1>p, <1>r, <2>1, RowRewritten DEF DanglingUse, rowVars
  <2>3. QED
    BY <1>8, <1>o, <1>q, <2>2 DEF DanglingUse
<1>9. QED
  BY <1>2, <1>3, <1>4, <1>5, <1>6, <1>7, <1>8 DEF ThreadStep

LEMMA GcStepTyped ==
    ASSUME ApcuTyped, GcStep
    PROVE  ApcuTyped'
<1> DEFINE Parts == /\ now \in Times /\ ProcessTyped /\ RowsTyped /\ ReadersTyped
                    /\ CollectorTyped /\ disk \in [Keys -> DiskRow]
<1>p. Parts
  BY TypedParts
<1>q. ASSUME UNCHANGED <<now, processVars, stores>>, RowsTyped', ReadersTyped', CollectorTyped',
             disk' \in [Keys -> DiskRow]
      PROVE  ApcuTyped'
  <2>1. ProcessTyped'
    BY <1>p, <1>q DEF ProcessTyped, processVars
  <2>2. QED
    BY <1>p, <1>q, <2>1
    DEF ApcuTyped, ApcuTypeOK, ProcessTyped, RowsTyped, ReadersTyped, CollectorTyped, Hold, GcState
<1>u. UNCHANGED <<now, processVars, stores>> /\ process' = process
  BY DEF GcStep, processVars
<1>r. UNCHANGED <<rows, reader>> => RowsTyped' /\ ReadersTyped'
  BY <1>p, <1>u DEF RowsTyped, DurableHasValue, TypedRowsAreObjects, ReadersTyped, PointersHaveRows
<1>c. ASSUME gc # "none", gc' \in GcState, gcNow' \in Nat, lastSync' \in Nat,
             running' \in BOOLEAN, stop' = stop
      PROVE  CollectorTyped'
  BY <1>c, <1>p, <1>u DEF CollectorTyped, GcEnds
<1>n. now \in Nat /\ gcNow \in Nat /\ lastSync \in Nat /\ running \in BOOLEAN
  BY <1>p DEF Times, CollectorTyped
<1>1. CASE GcStart \/ GcTest
  <2>1. CollectorTyped'
    BY <1>1, <1>c, <1>n DEF GcStart, GcTest, GcAt, GcBreaks, GcState
  <2>2. QED
    BY <1>1, <1>p, <1>q, <1>r, <1>u, <2>1 DEF GcStart, GcTest
<1>2. CASE GcWake
  <2>1. CollectorTyped'
    BY <1>2, <1>c, <1>n DEF GcWake, GcBreaks, GcState
  <2>2. QED
    BY <1>2, <1>p, <1>q, <1>r, <1>u, <2>1 DEF GcWake
<1>3. CASE GcSweep
  <2>1. CollectorTyped'
    BY <1>3, <1>c, <1>n DEF GcSweep, GcState
  <2>2. RowsTyped' /\ ReadersTyped'
    BY <1>3, <1>p, <1>u, RowsErased DEF GcSweep
  <2>3. QED
    BY <1>3, <1>p, <1>q, <1>u, <2>1, <2>2 DEF GcSweep
<1>4. CASE GcSync
  <2>1. CollectorTyped'
    BY <1>4, <1>c, <1>n DEF GcSync, GcAt, GcState
  <2>2. disk' \in [Keys -> DiskRow]
    BY <1>4, <1>p, SavedIsTyped DEF GcSync, DiskSyncP2
  <2>3. QED
    BY <1>4, <1>q, <1>r, <1>u, <2>1, <2>2 DEF GcSync
<1>5. QED
  BY <1>1, <1>2, <1>3, <1>4 DEF GcStep

LEMMA ApcuTypeStep ==
    ASSUME ApcuTyped, [ApcuNext]_apcuVars
    PROVE  ApcuTyped'
<1>1. CASE ApcuTick
  <2>1. now' \in Times
    BY <1>1, ClockAssumption
    DEF ApcuTick, Tick, ApcuTyped, ApcuTypeOK, Times, ClockAssumption
  <2>2. QED
    BY <1>1, <2>1
    DEF ApcuTick, processVars, rowVars, gcVars, ApcuTyped, ApcuTypeOK, PointersHaveRows, GcEnds,
        DurableHasValue, TypedRowsAreObjects
<1>2. CASE UNCHANGED apcuVars
  BY <1>2
  DEF apcuVars, processVars, rowVars, gcVars, ApcuTyped, ApcuTypeOK, PointersHaveRows, GcEnds,
      DurableHasValue, TypedRowsAreObjects
<1>3. QED
  BY <1>1, <1>2, ProcessStepTyped, ThreadStepTyped, GcStepTyped DEF ApcuNext

LEMMA ApcuIsTyped == ApcuSpec => []ApcuTyped
<1>1. ASSUME ApcuInit PROVE ApcuTyped
  <2>1. RowsTyped /\ ReadersTyped
    BY <1>1, NoneIsTyped
    DEF ApcuInit, RowsTyped, ReadersTyped, DurableHasValue, TypedRowsAreObjects, PointersHaveRows,
        NoRow, NoHold
  <2>2. disk \in [Keys -> DiskRow]
    BY <1>1, NoneIsTyped DEF ApcuInit, NoFile, DiskRow
  <2>3. now \in Times /\ ProcessTyped /\ CollectorTyped
    <3>1. now \in Times /\ starts \in 0..MaxStarts
      BY <1>1, ClockAssumption, ApcuAssumption
      DEF ApcuInit, Times, ClockAssumption, ApcuAssumption
    <3>2. ProcessTyped
      BY <1>1, <3>1 DEF ApcuInit, ProcessTyped
    <3>3. CollectorTyped
      BY <1>1 DEF ApcuInit, CollectorTyped, GcEnds, GcState
    <3>4. QED
      BY <3>1, <3>2, <3>3
  <2>4. QED
    BY <2>1, <2>2, <2>3, TypedParts
<1>2. QED
  BY <1>1, ApcuTypeStep, PTL DEF ApcuSpec

\* getAllByType<T> finds an object in every row whose type is known, whatever threads
\* stored, loaded, deserialized or erased in between.
THEOREM TypesAreOfObjects == ApcuSpec => []TypedRowsAreObjects
<1>1. ApcuTyped => TypedRowsAreObjects
  BY DEF ApcuTyped
<1>2. QED
  BY <1>1, ApcuIsTyped, PTL

-----------------------------------------------------------------------------
(* The restart.                                                            *)

\* What the file has to give back.
OnDisk == {<<k, disk[k].value, disk[k].exp>> : k \in {i \in Keys : disk[i].value # 0}}

FileIsWhole == process = "down" /\ atExit # Unclean => OnDisk = atExit

LEMMA RestartStep ==
    ASSUME ApcuTyped, FileIsWhole, [ApcuNext]_apcuVars
    PROVE  /\ FileIsWhole'
           /\ process = "down" /\ process' = "up" /\ atExit # Unclean => Durable' = atExit
<1>p. RowsTyped /\ disk \in [Keys -> DiskRow] /\ (process = "down" => gc = "none")
  BY TypedParts DEF CollectorTyped, GcEnds
<1>u. Unclean' = Unclean
  BY DEF Unclean
<1>1. CASE Start
  <2>1. Durable' = OnDisk
    <3>1. \A k \in Keys : /\ rows'[k].persistent <=> disk[k].value # 0
                          /\ rows'[k].persistent =>
                                /\ rows'[k].value = disk[k].value
                                /\ rows'[k].exp = disk[k].exp
      BY <1>1, <1>p, LoadIsTyped DEF Start
    <3>2. QED
      BY <3>1 DEF Durable, OnDisk
  <2>2. process' = "up" /\ process = "down"
    BY <1>1 DEF Start
  <2>3. QED
    BY <2>1, <2>2 DEF FileIsWhole
<1>2. CASE Crash
  BY <1>2, <1>u DEF Crash, ProcessEnds, FileIsWhole
<1>3. CASE Exit
  BY <1>3, <1>u DEF Exit, ProcessEnds, FileIsWhole
<1>4. CASE ExitSave
  <2>1. process = "exiting" /\ process' = "down"
    BY <1>4 DEF ExitSave, ProcessEnds
  <2>2. CASE disk' = Saved /\ atExit' = Durable
    <3>1. OnDisk' = Durable
      BY <1>p, <2>2, SavedIsTyped DEF OnDisk, Durable
    <3>2. QED
      BY <2>1, <2>2, <3>1 DEF FileIsWhole
  <2>3. CASE atExit' = Unclean
    BY <1>u, <2>1, <2>3 DEF FileIsWhole
  <2>4. QED
    BY <1>4, <2>2, <2>3 DEF ExitSave
<1>5. CASE UNCHANGED <<process, atExit, disk>>
  BY <1>5, <1>u DEF FileIsWhole, OnDisk
<1>6. CASE ThreadStep
  BY <1>5, <1>6
  DEF ThreadStep, StorePOD, StoreObject, Put, Remove, Deserialize, WriteBack, DanglingUse,
      FetchInner, processVars
<1>7. CASE GcStep
  <2>1. process # "down" /\ process' = process
    BY <1>7, <1>p DEF GcStep, GcStart, GcTest, GcWake, GcSweep, GcSync, GcAt, processVars
  <2>2. QED
    BY <2>1 DEF FileIsWhole
<1>8. QED
  BY <1>1, <1>2, <1>3, <1>4, <1>5, <1>6, <1>7
  DEF ApcuNext, ApcuTick, apcuVars, processVars

\* After an exit that saved, the next start has exactly the persistent rows of the
\* moment it saved, with their expiry.
THEOREM RestartIsWhole == ApcuSpec => CleanRestartKeepsRows
<1>1. ApcuInit => FileIsWhole
  BY DEF ApcuInit, FileIsWhole
<1>2. ApcuTyped /\ FileIsWhole /\ [ApcuNext]_apcuVars => FileIsWhole'
  BY RestartStep
<1>3. ApcuTyped /\ FileIsWhole /\ [ApcuNext]_apcuVars =>
      [process = "down" /\ process' = "up" /\ atExit # Unclean => Durable' = atExit]_apcuVars
  BY RestartStep
<1>4. QED
  BY <1>1, <1>2, <1>3, ApcuIsTyped, PTL DEF ApcuSpec, CleanRestartKeepsRows

-----------------------------------------------------------------------------
(* QueryCache: types.                                                      *)

CallTtls    == TtlValues \cup {Forever, 0}
Results == [asked : Stamps, ctime : Stamps]
Calls   == [at : At, file : Files \cup {Nothing}, ttl : CallTtls, api : (UNION Apis) \cup {"none"},
            required : BOOLEAN, got : Results, swapped : BOOLEAN, answer : Answers]

\* A call in progress has a file.
CallsHaveFiles == \A t \in Threads : thread[t].at # "idle" => thread[t].file \in Files

CacheTyped == QueryCacheTypeOK /\ CallsHaveFiles

LEMMA NoCallIsCall == NoResult \in Results /\ NoCall \in Calls /\ Times \subseteq Stamps
<1>1. 0 \in Stamps /\ Times \subseteq Stamps
  BY ClockAssumption DEF Stamps, Times, ClockAssumption
<1>2. NoResult \in Results
  BY <1>1 DEF NoResult, Results
<1>3. NoCall \in Calls
  <2>1. "idle" \in At /\ "none" \in Answers /\ 0 \in CallTtls
    BY DEF At, Answers, CallTtls
  <2>2. QED
    BY <1>2, <2>1 DEF NoCall, Calls
<1>4. QED
  BY <1>1, <1>2, <1>3

\* What a finished call leaves is a call that is idle.
LEMMA AnsweredIsCall ==
    ASSUME NEW what \in Answers, NEW got \in Results
    PROVE  /\ Answered(what, got) \in Calls
           /\ Answered(what, got).at = "idle"
           /\ Answered(what, got).answer = what
           /\ Answered(what, got).got = got
  BY NoCallIsCall DEF Answered, Calls, NoCall, At

\* A step of one thread that leaves the others alone.
LEMMA SetIsTyped ==
    ASSUME thread \in [Threads -> Calls], CallsHaveFiles, NEW t \in Threads, NEW call \in Calls,
           call.at # "idle" => call.file \in Files,
           Set(t, call)
    PROVE  thread' \in [Threads -> Calls] /\ CallsHaveFiles'
  BY DEF Set, CallsHaveFiles

\* What a call begins with.
LEMMA CallBegins ==
    ASSUME CacheTyped, NEW t \in Threads, Ask(t)
    PROVE  \E c \in Calls :
              /\ Set(t, c) /\ c.file \in Files /\ c.at \in {"query", "opened"}
              /\ c.answer = "none"
              /\ c.at = "opened" => c.got = file[c.file]
<1>1. PICK f \in Files, ttl \in TtlValues \cup {Forever}, api \in apis, required \in BOOLEAN :
        LET call == [NoCall EXCEPT !.file = f, !.ttl = ttl, !.api = api,
                                   !.required = required]
        IN  \/ ttl = 0 /\ Set(t, [call EXCEPT !.at = "query"])
            \/ Set(t, [call EXCEPT !.at = IF file[f] = NoResult THEN "query" ELSE "opened",
                                   !.got = file[f]])
  BY DEF Ask
<1> DEFINE call == [NoCall EXCEPT !.file = f, !.ttl = ttl, !.api = api, !.required = required]
<1>2. api \in UNION Apis /\ file[f] \in Results
  BY <1>1 DEF CacheTyped, QueryCacheTypeOK, Results
<1>3. call \in Calls /\ call.file = f /\ call.answer = "none"
  BY <1>2, NoCallIsCall DEF NoCall, Calls, CallTtls
<1> HIDE DEF call
<1>4. CASE Set(t, [call EXCEPT !.at = "query"])
  <2> DEFINE c == [call EXCEPT !.at = "query"]
  <2>1. c \in Calls /\ c.file = f /\ c.at = "query" /\ c.answer = "none"
    BY <1>3 DEF Calls, At
  <2>2. QED
    BY <1>4, <2>1
<1>5. ASSUME NEW at \in {"query", "opened"}, Set(t, [call EXCEPT !.at = at, !.got = file[f]])
      PROVE  \E c \in Calls :
                /\ Set(t, c) /\ c.file \in Files /\ c.at \in {"query", "opened"}
                /\ c.answer = "none"
                /\ c.at = "opened" => c.got = file[c.file]
  <2> DEFINE c == [call EXCEPT !.at = at, !.got = file[f]]
  <2>1. c \in Calls /\ c.file = f /\ c.at = at /\ c.answer = "none" /\ c.got = file[f]
    BY <1>2, <1>3 DEF Calls, At
  <2>2. QED
    BY <1>5, <2>1
<1>6. QED
  BY <1>1, <1>4, <1>5 DEF call

LEMMA CacheTypeStep ==
    ASSUME CacheTyped, [QueryCacheNext]_cacheVars
    PROVE  CacheTyped'
<1>t. /\ thread \in [Threads -> Calls] /\ file \in [Files -> Results]
      /\ now \in Stamps /\ CallsHaveFiles
  BY NoCallIsCall DEF CacheTyped, QueryCacheTypeOK, Calls, Results, CallTtls
<1>q. ASSUME now' = now, apis' = apis, thread' \in [Threads -> Calls], CallsHaveFiles',
             file' \in [Files -> Results],
             folders' \subseteq {FolderOf[f] : f \in Files}, fraud' \in BOOLEAN,
             currentFile' \in Files \cup {Nothing}, failed' \in Files \cup {Nothing},
             lock' \in Threads \cup {Nothing}, asks' \in 0..MaxAsks
      PROVE  CacheTyped'
  BY <1>q DEF CacheTyped, QueryCacheTypeOK, Calls, Results, CallTtls
<1>s. ASSUME UNCHANGED <<now, apis, folders, fraud, asks, writeVars>>,
             NEW t \in Threads, NEW call \in Calls, call.at # "idle" => call.file \in Files,
             Set(t, call)
      PROVE  CacheTyped'
  <2>1. thread' \in [Threads -> Calls] /\ CallsHaveFiles'
    BY <1>s, <1>t, SetIsTyped
  <2>2. QED
    BY <1>s, <1>t, <1>q, <2>1 DEF CacheTyped, QueryCacheTypeOK, writeVars, Results
<1>a. ASSUME UNCHANGED <<now, apis, folders, fraud, asks, writeVars>>,
             NEW t \in Threads, NEW what \in Answers, NEW got \in Results,
             Answer(t, what, got)
      PROVE  CacheTyped'
  BY <1>a, <1>s, AnsweredIsCall DEF Answer
<1>g. ASSUME UNCHANGED <<now, apis, folders, fraud, asks, writeVars>>,
             NEW t \in Threads, NEW to \in At, thread[t].at # "idle", Goes(t, to)
      PROVE  CacheTyped'
  <2>1. [thread[t] EXCEPT !.at = to] \in Calls /\ [thread[t] EXCEPT !.at = to].file = thread[t].file
    BY <1>g, <1>t DEF Calls
  <2>2. QED
    BY <1>g, <1>s, <1>t, <2>1 DEF Goes, CallsHaveFiles
<1>1. CASE QueryCacheTick
  <2>1. now' \in Times
    BY <1>1, ClockAssumption DEF QueryCacheTick, Tick, CacheTyped, QueryCacheTypeOK, Times, ClockAssumption
  <2>2. QED
    BY <1>1, <2>1
    DEF QueryCacheTick, writeVars, CacheTyped, QueryCacheTypeOK, CallsHaveFiles
<1>2. ASSUME NEW t \in Threads, Ask(t) PROVE CacheTyped'
  <2>4. PICK c \in Calls : c.file \in Files /\ Set(t, c)
    BY <1>2, CallBegins
  <2>5. thread' \in [Threads -> Calls] /\ CallsHaveFiles'
    BY <1>t, <2>4, SetIsTyped
  <2>6. folders' \subseteq {FolderOf[g] : g \in Files} /\ fraud' \in BOOLEAN
    BY <1>2 DEF Ask, CacheTyped, QueryCacheTypeOK
  <2>7. asks' \in 0..MaxAsks
    BY <1>2, QueryCacheAssumption DEF Ask, CacheTyped, QueryCacheTypeOK, QueryCacheAssumption
  <2>8. QED
    BY <1>2, <1>t, <1>q, <2>5, <2>6, <2>7 DEF Ask, writeVars, CacheTyped, QueryCacheTypeOK
<1>3. ASSUME NEW t \in Threads, Check(t) PROVE CacheTyped'
  <2>1. thread[t].got \in Results /\ thread[t].at # "idle"
    BY <1>3, <1>t DEF Check, Calls
  <2>2. "cached" \in Answers /\ "query" \in At
    BY DEF Answers, At
  <2>3. QED
    BY <1>3, <1>a, <1>g, <2>1, <2>2 DEF Check
<1>4. ASSUME NEW t \in Threads, CacheOnly(t) PROVE CacheTyped'
  BY <1>4, <1>a, NoCallIsCall DEF CacheOnly, Answers
<1>5. ASSUME NEW t \in Threads, Query(t) PROVE CacheTyped'
  <2> DEFINE got == [asked |-> now, ctime |-> now]
  <2>1. got \in Results /\ thread[t].at # "idle" /\ thread[t].file \in Files
    BY <1>5, <1>t DEF Query, Results, CallsHaveFiles
  <2> HIDE DEF got
  <2>2. [thread[t] EXCEPT !.at = "save", !.got = got] \in Calls
    BY <1>t, <2>1 DEF Calls, At
  <2>3. [thread[t] EXCEPT !.at = "save", !.got = got].file \in Files
    BY <1>t, <2>1 DEF Calls
  <2>4. "fresh" \in Answers /\ "thrown" \in Answers /\ "failed" \in At
    BY DEF Answers, At
  <2>5. UNCHANGED <<now, apis, folders, fraud, asks, writeVars>>
    BY <1>5 DEF Query
  <2>6. CASE Answer(t, "fresh", got)
    BY <1>a, <2>1, <2>4, <2>5, <2>6
  <2>7. CASE Set(t, [thread[t] EXCEPT !.at = "save", !.got = got])
    BY <1>s, <2>2, <2>3, <2>5, <2>7
  <2>8. CASE QueryFails(t)
    BY <1>a, <1>g, <2>1, <2>4, <2>5, <2>8, NoCallIsCall DEF QueryFails
  <2>9. QED
    BY <1>5, <2>6, <2>7, <2>8 DEF Query, got
<1>6. ASSUME NEW t \in Threads, Fallback(t) PROVE CacheTyped'
  <2>1. file[thread[t].file] \in Results
    BY <1>6, <1>t DEF Fallback, CallsHaveFiles
  <2>2. {"fallback", "thrown", "empty"} \subseteq Answers
    BY DEF Answers
  <2>3. QED
    BY <1>6, <1>a, <2>1, <2>2, NoCallIsCall DEF Fallback
<1>7. ASSUME NEW t \in Threads, CheckCurrent(t) PROVE CacheTyped'
  <2>1. thread[t].got \in Results /\ thread[t].at # "idle"
    BY <1>7, <1>t DEF CheckCurrent, Calls
  <2>2. "fresh" \in Answers /\ "lock" \in At
    BY DEF Answers, At
  <2>3. QED
    BY <1>7, <1>a, <1>g, <2>1, <2>2 DEF CheckCurrent
<1>8. ASSUME NEW t \in Threads, Lock(t) PROVE CacheTyped'
  <2>1. /\ [thread[t] EXCEPT !.at = "write"] \in Calls
        /\ [thread[t] EXCEPT !.at = "write"].file = thread[t].file
        /\ thread[t].file \in Files
    BY <1>8, <1>t DEF Lock, Calls, At, CallsHaveFiles
  <2>2. thread' \in [Threads -> Calls] /\ CallsHaveFiles'
    BY <1>8, <1>t, <2>1, SetIsTyped DEF Lock, Goes
  <2>3. QED
    BY <1>8, <1>t, <1>q, <2>1, <2>2 DEF Lock, CacheTyped, QueryCacheTypeOK
<1>9. ASSUME NEW t \in Threads, Write(t) PROVE CacheTyped'
  <2>1. thread[t].got \in Results /\ thread[t].file \in Files /\ "fresh" \in Answers
    BY <1>9, <1>t DEF Write, Calls, CallsHaveFiles, Answers
  <2>2. Answered("fresh", thread[t].got) \in Calls /\ Answered("fresh", thread[t].got).at = "idle"
    BY <2>1, AnsweredIsCall
  <2>3. CASE Commit(t, thread[t].file)
    <3>1. ASSUME NEW u \in Threads
          PROVE  thread'[u] \in Calls /\ (thread'[u].at # "idle" => thread'[u].file \in Files)
      <4>1. CASE u = t
        BY <2>2, <2>3, <4>1 DEF Commit, Swap
      <4>2. CASE u # t
        <5>1. thread'[u] = thread[u] \/ thread'[u] = [thread[u] EXCEPT !.swapped = TRUE]
          BY <2>3, <4>2 DEF Commit, Swap
        <5>2. QED
          BY <1>t, <5>1 DEF Calls, CallsHaveFiles
      <4>3. QED
        BY <4>1, <4>2
    <3>2. thread' \in [Threads -> Calls] /\ CallsHaveFiles'
      <4>1. thread' = [u \in Threads |-> thread'[u]]
        BY <2>3 DEF Commit, Swap
      <4>2. QED
        BY <3>1, <4>1 DEF CallsHaveFiles
    <3>3. file' \in [Files -> Results]
      BY <1>t, <2>1, <2>3 DEF Commit, Results
    <3>4. QED
      BY <1>9, <1>t, <1>q, <2>3, <3>2, <3>3 DEF Write, Commit, CacheTyped, QueryCacheTypeOK
  <2>4. CASE WriteFails(t, thread[t].file)
    <3>1. thread' \in [Threads -> Calls] /\ CallsHaveFiles'
      BY <1>t, <2>2, <2>4, SetIsTyped DEF WriteFails, Answer
    <3>2. QED
      BY <1>9, <1>t, <1>q, <2>1, <2>4, <3>1 DEF Write, WriteFails, CacheTyped, QueryCacheTypeOK
  <2>5. QED
    BY <1>9, <2>3, <2>4 DEF Write
<1>10. CASE UNCHANGED cacheVars
  BY <1>10 DEF cacheVars, CacheTyped, QueryCacheTypeOK, CallsHaveFiles
<1>11. QED
  BY <1>1, <1>2, <1>3, <1>4, <1>5, <1>6, <1>7, <1>8, <1>9, <1>10 DEF QueryCacheNext

LEMMA CacheIsTyped == QueryCacheSpec => []CacheTyped
<1>1. ASSUME QueryCacheInit PROVE CacheTyped
  <2>1. thread \in [Threads -> Calls] /\ file \in [Files -> Results]
    BY <1>1, NoCallIsCall DEF QueryCacheInit
  <2>2. CallsHaveFiles
    BY <1>1 DEF QueryCacheInit, CallsHaveFiles, NoCall
  <2>3. now \in Times /\ asks \in 0..MaxAsks
    BY <1>1, ClockAssumption, QueryCacheAssumption
    DEF QueryCacheInit, Times, ClockAssumption, QueryCacheAssumption
  <2>4. QED
    BY <1>1, <2>1, <2>2, <2>3
    DEF QueryCacheInit, CacheTyped, QueryCacheTypeOK, Calls, Results, CallTtls
<1>2. QED
  BY <1>1, CacheTypeStep, PTL DEF QueryCacheSpec

-----------------------------------------------------------------------------
(* The file that is being written.                                         *)

\* The mutex is held by the one thread that writes, and currentFile is its file.
WriterHasLock ==
    /\ \A t \in Threads : thread[t].at = "write" => lock = t
    /\ lock # Nothing => thread[lock].at = "write" /\ thread[lock].file = currentFile

Covered == WriterHasLock /\ SkippedIsCovered

\* Steps that neither begin nor end a write.
LEMMA CoveredApart ==
    ASSUME CacheTyped, Covered, NEW t \in Threads, thread[t].at # "write",
           NEW call, call.at # "write", Set(t, call), UNCHANGED writeVars
    PROVE  Covered'
<1>1. lock # Nothing => lock # t
  BY DEF Covered, WriterHasLock
<1>2. /\ thread' = [thread EXCEPT ![t] = call]
      /\ thread \in [Threads -> Calls] /\ lock \in Threads \cup {Nothing}
      /\ lock' = lock /\ currentFile' = currentFile /\ failed' = failed
  BY DEF Set, CacheTyped, QueryCacheTypeOK, Calls, Results, CallTtls, writeVars
<1>3. lock # Nothing => thread'[lock] = thread[lock]
  BY <1>1, <1>2
<1>4. WriterHasLock'
  BY <1>2, <1>3 DEF Covered, WriterHasLock
<1>5. SkippedIsCovered'
  BY <1>2, <1>3 DEF Covered, SkippedIsCovered
<1>6. QED
  BY <1>4, <1>5 DEF Covered

LEMMA CoveredStep ==
    ASSUME CacheTyped, Covered, [QueryCacheNext]_cacheVars
    PROVE  Covered'
<1>t. thread \in [Threads -> Calls] /\ lock \in Threads \cup {Nothing} /\ Nothing \notin Threads
  BY QueryCacheAssumption DEF CacheTyped, QueryCacheTypeOK, Calls, Results, CallTtls, QueryCacheAssumption
<1>a. ASSUME NEW t \in Threads, thread[t].at # "write", NEW what, NEW got,
             Answer(t, what, got), UNCHANGED writeVars
      PROVE  Covered'
  <2>1. Answered(what, got).at # "write"
    BY DEF Answered, NoCall
  <2>2. QED
    BY <1>a, <2>1, CoveredApart DEF Answer
<1>g. ASSUME NEW t \in Threads, thread[t].at # "write", NEW to, to # "write",
             Goes(t, to), UNCHANGED writeVars
      PROVE  Covered'
  <2>1. [thread[t] EXCEPT !.at = to].at # "write"
    BY <1>g, <1>t DEF Calls
  <2>2. QED
    BY <1>g, <2>1, CoveredApart DEF Goes
<1>1. ASSUME UNCHANGED <<thread, lock, currentFile, failed>> PROVE Covered'
  BY <1>1 DEF Covered, WriterHasLock, SkippedIsCovered
<1>2. ASSUME NEW t \in Threads, Ask(t) PROVE Covered'
  <2>1. PICK call : Set(t, call) /\ call.at # "write"
    BY <1>2, CallBegins
  <2>2. QED
    BY <1>2, <2>1, CoveredApart DEF Ask
<1>3. ASSUME NEW t \in Threads, Check(t) PROVE Covered'
  BY <1>3, <1>a, <1>g DEF Check
<1>4. ASSUME NEW t \in Threads, CacheOnly(t) PROVE Covered'
  BY <1>4, <1>a DEF CacheOnly
<1>5. ASSUME NEW t \in Threads, Query(t) PROVE Covered'
  <2> DEFINE got == [asked |-> now, ctime |-> now]
             call == [thread[t] EXCEPT !.at = "save", !.got = got]
  <2>1. call.at # "write" /\ thread[t].at # "write" /\ UNCHANGED writeVars
    BY <1>5, <1>t DEF Query, Calls
  <2>2. \/ Answer(t, "fresh", got) \/ Set(t, call)
        \/ Goes(t, "failed") \/ Answer(t, "thrown", NoResult)
    BY <1>5 DEF Query, QueryFails
  <2> HIDE DEF call, got
  <2>3. QED
    BY <1>a, <1>g, <2>1, <2>2, CoveredApart
<1>6. ASSUME NEW t \in Threads, Fallback(t) PROVE Covered'
  BY <1>6, <1>a DEF Fallback
<1>7. ASSUME NEW t \in Threads, CheckCurrent(t) PROVE Covered'
  BY <1>7, <1>a, <1>g DEF CheckCurrent
<1>8. ASSUME NEW t \in Threads, Lock(t) PROVE Covered'
  <2>1. /\ thread' = [thread EXCEPT ![t] = thread'[t]]
        /\ thread'[t].at = "write" /\ thread'[t].file = thread[t].file
        /\ lock = Nothing /\ lock' = t /\ currentFile' = thread[t].file
    BY <1>8, <1>t DEF Lock, Goes, Set, Calls
  <2>2. \A u \in Threads : u # t => thread'[u].at # "write"
    BY <1>t, <2>1 DEF Covered, WriterHasLock
  <2>3. QED
    BY <1>t, <2>1, <2>2 DEF Covered, WriterHasLock, SkippedIsCovered
<1>9. ASSUME NEW t \in Threads, Write(t) PROVE Covered'
  <2>1. lock = t /\ lock' = Nothing /\ currentFile = thread[t].file
    BY <1>9, <1>t DEF Write, Covered, WriterHasLock
  <2>2. \A u \in Threads : u # t => thread[u].at # "write"
    BY <2>1 DEF Covered, WriterHasLock
  <2>3. CASE Commit(t, thread[t].file)
    <3>1. ASSUME NEW u \in Threads PROVE thread'[u].at # "write"
      <4>1. CASE u = t
        BY <2>3, <4>1 DEF Commit, Swap, Answered, NoCall
      <4>2. CASE u # t
        <5>1. thread'[u] = thread[u] \/ thread'[u] = [thread[u] EXCEPT !.swapped = TRUE]
          BY <2>3, <4>2 DEF Commit, Swap
        <5>2. QED
          BY <1>t, <2>2, <4>2, <5>1 DEF Calls
      <4>3. QED
        BY <4>1, <4>2
    <3>2. currentFile' = Nothing
      BY <2>3 DEF Commit
    <3>3. QED
      BY <2>1, <3>1, <3>2 DEF Covered, WriterHasLock, SkippedIsCovered
  <2>4. CASE WriteFails(t, thread[t].file)
    <3>1. /\ thread' = [thread EXCEPT ![t] = thread'[t]] /\ thread'[t].at # "write"
          /\ failed' = thread[t].file /\ currentFile' = currentFile
      BY <1>t, <2>4 DEF WriteFails, Answer, Set, Answered, NoCall
    <3>2. \A u \in Threads : thread'[u].at # "write"
      BY <1>t, <2>2, <3>1
    <3>3. QED
      BY <2>1, <3>1, <3>2 DEF Covered, WriterHasLock, SkippedIsCovered
  <2>5. QED
    BY <1>9, <2>3, <2>4 DEF Write
<1>10. QED
  BY <1>1, <1>2, <1>3, <1>4, <1>5, <1>6, <1>7, <1>8, <1>9
  DEF QueryCacheNext, QueryCacheTick, cacheVars, writeVars

\* A result is left unwritten because its file is being written, or because the last
\* write failed on this very file; never for a writer that is gone.
THEOREM SkipsAreCovered == QueryCacheSpec => []SkippedIsCovered
<1>1. QueryCacheInit => Covered
  BY DEF QueryCacheInit, Covered, WriterHasLock, SkippedIsCovered, NoCall
<1>2. Covered => SkippedIsCovered
  BY DEF Covered
<1>3. QED
  BY <1>1, <1>2, CoveredStep, CacheIsTyped, PTL DEF QueryCacheSpec

-----------------------------------------------------------------------------
(* Old answers.                                                            *)

\* A reader holds the file that is there, unless it was replaced, and has no answer
\* while it works.
ReaderHoldsFile ==
    \A t \in Threads :
        /\ thread[t].at = "opened" => thread[t].got = file[thread[t].file] \/ thread[t].swapped
        /\ thread[t].at # "idle" => thread[t].answer = "none"

\* One thread goes on; it holds a file only if it was opened just now.
LEMMA ReaderApart ==
    ASSUME CacheTyped, ReaderHoldsFile, NEW t \in Threads, NEW call, Set(t, call), UNCHANGED file,
           call.at # "idle" => call.answer = "none",
           call.at = "opened" => call.got = file[call.file]
    PROVE  ReaderHoldsFile'
<1>1. thread \in [Threads -> Calls] /\ thread' = [thread EXCEPT ![t] = call] /\ file' = file
  BY DEF Set, CacheTyped, QueryCacheTypeOK, Calls, Results, CallTtls
<1>2. QED
  BY <1>1 DEF ReaderHoldsFile

\* The other threads keep their answers.
LEMMA OthersKeep ==
    ASSUME CacheTyped, NEW t \in Threads, NEW call, Set(t, call), NEW u \in Threads, u # t
    PROVE  thread'[u] = thread[u]
  BY DEF Set, CacheTyped, QueryCacheTypeOK

Explained(t) ==
    /\ thread[t].at # "idle" /\ thread'[t].answer = "cached"
    /\ thread'[t].got.ctime < now - thread[t].ttl
    => thread[t].swapped

LEMMA ReaderStep ==
    ASSUME CacheTyped, ReaderHoldsFile, [QueryCacheNext]_cacheVars
    PROVE  ReaderHoldsFile' /\ \A u \in Threads : Explained(u)
<1> DEFINE Goal == ReaderHoldsFile' /\ \A u \in Threads : Explained(u)
<1>t. thread \in [Threads -> Calls] /\ file \in [Files -> Results] /\ CallsHaveFiles
  BY DEF CacheTyped, QueryCacheTypeOK, Calls, Results, CallTtls
<1>s. ASSUME NEW t \in Threads, NEW call, Set(t, call), UNCHANGED file,
             call.at # "idle" => call.answer = "none",
             call.at = "opened" => call.got = file[call.file],
             thread[t].at = "idle" \/ call.answer # "cached"
      PROVE  Goal
  <2>1. ReaderHoldsFile'
    BY <1>s, ReaderApart
  <2>2. ASSUME NEW u \in Threads PROVE Explained(u)
    <3>1. CASE u = t
      <4>1. thread'[t] = call
        BY <1>s, <1>t DEF Set
      <4>2. QED
        BY <1>s, <3>1, <4>1 DEF Explained
    <3>2. CASE u # t
      BY <1>s, <3>2, OthersKeep DEF Explained, ReaderHoldsFile
    <3>3. QED
      BY <3>1, <3>2
  <2>3. QED
    BY <2>1, <2>2
<1>a. ASSUME NEW t \in Threads, NEW what, what # "cached", NEW got, Answer(t, what, got),
             UNCHANGED file
      PROVE  Goal
  <2>1. /\ Answered(what, got).at = "idle"
        /\ Answered(what, got).answer = what
    BY DEF Answered, NoCall
  <2>2. QED
    BY <1>a, <1>s, <2>1 DEF Answer
<1>g. ASSUME NEW t \in Threads, thread[t].at # "idle", NEW to, to # "opened", Goes(t, to),
             UNCHANGED file
      PROVE  Goal
  <2>1. /\ [thread[t] EXCEPT !.at = to].at = to
        /\ [thread[t] EXCEPT !.at = to].answer = "none"
    BY <1>g, <1>t DEF Calls, ReaderHoldsFile
  <2>2. QED
    BY <1>g, <1>s, <2>1 DEF Goes
<1>1. ASSUME UNCHANGED <<thread, file>> PROVE Goal
  BY <1>1 DEF ReaderHoldsFile, Explained
<1>2. ASSUME NEW t \in Threads, Ask(t) PROVE Goal
  <2>1. PICK c \in Calls : /\ Set(t, c) /\ c.answer = "none"
                           /\ c.at = "opened" => c.got = file[c.file]
    BY <1>2, CallBegins
  <2>2. thread[t].at = "idle" /\ UNCHANGED file
    BY <1>2 DEF Ask, writeVars
  <2>3. QED
    BY <1>s, <2>1, <2>2
<1>3. ASSUME NEW t \in Threads, Check(t) PROVE Goal
  <2> DEFINE c == thread[t]
  <2>1. c.at = "opened" /\ UNCHANGED file /\ c.file \in Files
    BY <1>3, <1>t DEF Check, writeVars, CallsHaveFiles
  <2>2. CASE Fresh(c.file, c.ttl) /\ Answer(t, "cached", c.got)
    <3>1. /\ Answered("cached", c.got).at = "idle"
          /\ Answered("cached", c.got).got = c.got
      BY DEF Answered, NoCall
    <3>2. ReaderHoldsFile'
      BY <2>1, <2>2, <3>1, ReaderApart DEF Answer
    <3>3. Explained(t)
      <4>1. thread'[t].got = c.got
        BY <1>t, <2>2, <3>1 DEF Answer, Set
      <4>2. c.got = file[c.file] \/ c.swapped
        BY <2>1 DEF ReaderHoldsFile
      <4>3. file[c.file].ctime >= now - c.ttl
        BY <2>2 DEF Fresh
      <4>4. file[c.file].ctime \in Nat /\ now \in Nat /\ c.ttl \in Nat
        <5>1. file[c.file] \in Results /\ c \in Calls /\ now \in Times
          BY <1>t, <2>1 DEF CacheTyped, QueryCacheTypeOK
        <5>2. file[c.file].ctime \in Stamps /\ c.ttl \in CallTtls
          BY <5>1 DEF Results, Calls
        <5>3. Stamps \subseteq Nat /\ Times \subseteq Nat
          BY DEF Stamps, Times
        <5>4. CallTtls \subseteq Nat
          BY QueryCacheAssumption DEF CallTtls, QueryCacheAssumption
        <5>5. QED
          BY <5>1, <5>2, <5>3, <5>4
      <4>5. QED
        BY <4>1, <4>2, <4>3, <4>4 DEF Explained
    <3>4. ASSUME NEW u \in Threads, u # t PROVE Explained(u)
      BY <2>2, <3>4, OthersKeep DEF Answer, Explained, ReaderHoldsFile
    <3>5. QED
      BY <3>2, <3>3, <3>4
  <2>3. QED
    BY <1>3, <1>g, <2>1, <2>2 DEF Check
<1>4. ASSUME NEW t \in Threads, CacheOnly(t) PROVE Goal
  BY <1>4, <1>a DEF CacheOnly, writeVars
<1>5. ASSUME NEW t \in Threads, Query(t) PROVE Goal
  <2> DEFINE got == [asked |-> now, ctime |-> now]
             call == [thread[t] EXCEPT !.at = "save", !.got = got]
  <2>1. /\ call.at = "save" /\ call.answer = "none" /\ thread[t].at # "idle" /\ UNCHANGED file
    BY <1>5, <1>t DEF Query, Calls, writeVars, ReaderHoldsFile
  <2>2. \/ Answer(t, "fresh", got) \/ Set(t, call)
        \/ Goes(t, "failed") \/ Answer(t, "thrown", NoResult)
    BY <1>5 DEF Query, QueryFails
  <2> HIDE DEF call, got
  <2>3. QED
    BY <1>a, <1>g, <1>s, <2>1, <2>2
<1>6. ASSUME NEW t \in Threads, Fallback(t) PROVE Goal
  BY <1>6, <1>a DEF Fallback, writeVars
<1>7. ASSUME NEW t \in Threads, CheckCurrent(t) PROVE Goal
  BY <1>7, <1>a, <1>g DEF CheckCurrent, writeVars
<1>8. ASSUME NEW t \in Threads, Lock(t) PROVE Goal
  BY <1>8, <1>g DEF Lock
<1>9. ASSUME NEW t \in Threads, Write(t) PROVE Goal
  <2>1. CASE Commit(t, thread[t].file)
    <3> DEFINE f == thread[t].file
    <3>1. /\ thread'[t].at = "idle" /\ thread'[t].answer = "fresh"
          /\ \A u \in Threads : u # t =>
                \/ thread'[u] = [thread[u] EXCEPT !.swapped = TRUE]
                \/ thread'[u] = thread[u] /\ ~(thread[u].at = "opened" /\ thread[u].file = f)
      BY <2>1 DEF Commit, Swap, Answered, NoCall
    <3>2. \A g \in Files : g # f => file'[g] = file[g]
      BY <1>t, <2>1 DEF Commit
    <3>3. ReaderHoldsFile'
      <4>1. ASSUME NEW u \in Threads, u # t
            PROVE  /\ thread'[u].at = "opened" =>
                        thread'[u].got = file'[thread'[u].file] \/ thread'[u].swapped
                   /\ thread'[u].at # "idle" => thread'[u].answer = "none"
        <5>1. CASE thread'[u] = [thread[u] EXCEPT !.swapped = TRUE]
          BY <1>t, <5>1 DEF Calls, ReaderHoldsFile
        <5>2. CASE thread'[u] = thread[u] /\ ~(thread[u].at = "opened" /\ thread[u].file = f)
          BY <1>t, <3>2, <5>2 DEF CallsHaveFiles, ReaderHoldsFile
        <5>3. QED
          BY <3>1, <4>1, <5>1, <5>2
      <4>2. QED
        BY <3>1, <4>1 DEF ReaderHoldsFile
    <3>4. ASSUME NEW u \in Threads PROVE Explained(u)
      <4>1. thread[u].at # "idle" => thread'[u].answer # "cached"
        BY <1>t, <3>1 DEF Calls, ReaderHoldsFile
      <4>2. QED
        BY <4>1 DEF Explained
    <3>5. QED
      BY <3>3, <3>4
  <2>2. CASE WriteFails(t, thread[t].file)
    BY <1>a, <2>2 DEF WriteFails
  <2>3. QED
    BY <1>9, <2>1, <2>2 DEF Write
<1>10. QED
  BY <1>1, <1>2, <1>3, <1>4, <1>5, <1>6, <1>7, <1>8, <1>9
  DEF QueryCacheNext, QueryCacheTick, cacheVars, writeVars

\* A thread gets a result older than its ttl from the file only when another thread
\* replaced the file while it had the old one open, the fallback apart.
THEOREM OldAnswersAreSwapped == QueryCacheSpec => OldAnswerIsExplained
<1>1. QueryCacheInit => ReaderHoldsFile
  BY DEF QueryCacheInit, ReaderHoldsFile, NoCall
<1>2. (\A u \in Threads : Explained(u)) <=>
      \A t \in Threads :
          /\ thread[t].at # "idle" /\ thread'[t].answer = "cached"
          /\ thread'[t].got.ctime < now - thread[t].ttl
          => thread[t].swapped
  BY DEF Explained
<1>3. CacheTyped /\ ReaderHoldsFile /\ [QueryCacheNext]_cacheVars => ReaderHoldsFile'
  BY ReaderStep
<1>4. CacheTyped /\ ReaderHoldsFile /\ [QueryCacheNext]_cacheVars =>
      [\A t \in Threads :
          /\ thread[t].at # "idle" /\ thread'[t].answer = "cached"
          /\ thread'[t].got.ctime < now - thread[t].ttl
          => thread[t].swapped]_cacheVars
  BY <1>2, ReaderStep
<1>5. QED
  BY <1>1, <1>3, <1>4, CacheIsTyped, PTL DEF QueryCacheSpec, OldAnswerIsExplained
=============================================================================
