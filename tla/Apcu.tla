-------------------------------- MODULE Apcu ---------------------------------
(***************************************************************************)
(* The process-wide cache caching/apcu2.{h,cpp}: rows with an expiry in a  *)
(* multi_index under one shared_mutex, a detached collector thread, the    *)
(* file apcu.dat, and a process that exits, crashes and starts again.      *)
(*                                                                         *)
(* A row that was stored as an object (setValue) holds a pointer to it and *)
(* the hash of its type; a POD row and a row read back from the file hold  *)
(* bytes and no hash.  The first fetch<T> of such a row puts an object in  *)
(* its place, through a pointer that fetchInner returned, without a lock.  *)
(*                                                                         *)
(* Every call is one step, since innerLock is held through it, but for the *)
(* fetch, which works on after the lock, and the collector, which reads    *)
(* the clock before it.  Each store has a value of its own.                *)
(***************************************************************************)
EXTENDS Clock

CONSTANTS
    Keys,
    Readers,        \* threads in fetch<T>
    Ttls,           \* the ttl arguments in use
    DiskSaveTime,   \* APCU::diskSaveTime
    MaxStores,      \* bound: values stored
    MaxStarts       \* bound: times the process starts

ASSUME ApcuAssumption ==
    /\ Ttls \subseteq Nat /\ DiskSaveTime \in Nat
    /\ MaxStores \in Nat /\ MaxStarts \in Nat \ {0}

VARIABLES
    process,    \* "down", "up", or "exiting": in the atexit handler
    starts,     \* times it started
    savesAtExit,\* ~doNotSaveAtExit
    rows,       \* the cache
    stores,     \* values stored so far
    reader,     \* what each reader holds
    gc,         \* where the collector is
    gcNow,      \* the clock it read
    running,    \* garbageCollectorRunning
    stop,       \* requestGarbageCollectorStop
    lastSync,   \* its static of that name
    disk,       \* the rows in apcu.dat
    atExit      \* history: the rows a clean exit had to save, or Unclean

processVars == <<process, starts, savesAtExit, atExit>>
rowVars     == <<rows, stores>>
gcVars      == <<gc, gcNow, running, stop, lastSync>>
apcuVars    == <<now, processVars, rowVars, reader, gcVars, disk>>

NoRow   == [value |-> 0, exp |-> 0, persistent |-> FALSE, type |-> 0, form |-> "none"]
Unclean == {<<>>}
NoHold  == [key |-> "none", alive |-> FALSE, parsed |-> 0]

Values  == 0..MaxStores
Row     == [value : Values, exp : Nat, persistent : BOOLEAN, type : 0..1,
            form : {"none", "bytes", "object"}]
DiskRow == [value : Values, exp : Nat]

Present(k) == rows[k] # NoRow

ApcuTypeOK ==
    /\ now \in Times
    /\ process \in {"down", "up", "exiting"}
    /\ starts \in 0..MaxStarts /\ savesAtExit \in BOOLEAN
    /\ rows \in [Keys -> Row] /\ stores \in Values
    /\ reader \in [Readers -> [key : Keys \cup {"none"}, alive : BOOLEAN, parsed : Values]]
    /\ gc \in {"none", "start", "test", "sleep", "sweep", "sync"}
    /\ gcNow \in Nat /\ lastSync \in Nat
    /\ running \in BOOLEAN /\ stop \in BOOLEAN
    /\ disk \in [Keys -> DiskRow]
    /\ atExit = Unclean \/ atExit \subseteq Keys \X Values \X Nat

NoFile == [k \in Keys |-> [value |-> 0, exp |-> 0]]

ApcuInit ==
    /\ now = 1 /\ process = "down" /\ starts = 0 /\ savesAtExit \in BOOLEAN
    /\ rows = [k \in Keys |-> NoRow] /\ stores = 0
    /\ reader = [r \in Readers |-> NoHold]
    /\ gc = "none" /\ gcNow = 0 /\ running = FALSE /\ stop = FALSE /\ lastSync = 0
    /\ disk = NoFile /\ atExit = Unclean

-----------------------------------------------------------------------------
(* The process.                                                            *)

\* Mutants: a loaded row keeps its type, or is not persistent.
DiskLoadTyped ==
    [k \in Keys |-> IF disk[k].value = 0 THEN NoRow
                    ELSE [value |-> disk[k].value, exp |-> disk[k].exp,
                          persistent |-> TRUE, type |-> 1, form |-> "bytes"]]

DiskLoadOnce ==
    [k \in Keys |-> IF disk[k].value = 0 THEN NoRow
                    ELSE [value |-> disk[k].value, exp |-> disk[k].exp,
                          persistent |-> FALSE, type |-> 0, form |-> "bytes"]]

\* diskLoad: typeHashCode is not in the file.
DiskLoad ==
    [k \in Keys |-> IF disk[k].value = 0 THEN NoRow
                    ELSE [value |-> disk[k].value, exp |-> disk[k].exp,
                          persistent |-> TRUE, type |-> 0, form |-> "bytes"]]

\* The first getInstance: load, start the collector, register diskSync.
Start ==
    /\ process = "down" /\ starts < MaxStarts
    /\ process' = "up" /\ starts' = starts + 1
    /\ rows' = DiskLoad
    /\ gc' = "start" /\ running' = FALSE /\ stop' = FALSE /\ gcNow' = 0 /\ lastSync' = 0
    /\ UNCHANGED <<now, savesAtExit, atExit, stores, reader, disk>>

\* What diskSyncP2 writes: every persistent row, as bytes.
Saved == [k \in Keys |-> IF rows[k].persistent
                         THEN [value |-> rows[k].value, exp |-> rows[k].exp]
                         ELSE [value |-> 0, exp |-> 0]]

\* History: what a restart has to bring back.
Durable == {<<k, rows[k].value, rows[k].exp>> : k \in {i \in Keys : rows[i].persistent}}

\* The file is replaced as a whole, or it is not: an error is only logged.
DiskSyncP2 == disk' = Saved \/ UNCHANGED disk

ProcessEnds ==
    /\ process' = "down"
    /\ rows' = [k \in Keys |-> NoRow]
    /\ reader' = [r \in Readers |-> NoHold]
    /\ gc' = "none" /\ gcNow' = 0 /\ running' = FALSE /\ stop' = FALSE /\ lastSync' = 0
    /\ UNCHANGED <<now, starts, savesAtExit, stores>>

Crash == process # "down" /\ ProcessEnds /\ atExit' = Unclean /\ UNCHANGED disk

\* exit(): diskSync asks the collector to stop, if it was registered at all.
Exit ==
    /\ process = "up"
    /\ \/ /\ savesAtExit
          /\ process' = "exiting" /\ stop' = TRUE
          /\ UNCHANGED <<now, starts, savesAtExit, atExit, rowVars, reader, gc, gcNow,
                         running, lastSync, disk>>
       \/ ~savesAtExit /\ ProcessEnds /\ atExit' = Unclean /\ UNCHANGED disk

\* It waits until the collector does not run, or does not run yet, and saves.
ExitSave ==
    /\ process = "exiting" /\ ~running
    /\ ProcessEnds
    /\ \/ disk' = Saved /\ atExit' = Durable
       \/ UNCHANGED disk /\ atExit' = Unclean

-----------------------------------------------------------------------------
(* The calls of the program's threads.                                     *)

Up == process # "down"

Put(k, row) ==
    /\ Up /\ stores < MaxStores
    /\ stores' = stores + 1
    /\ rows' = [rows EXCEPT ![k] = row]
    /\ UNCHANGED <<now, processVars, reader, gcVars, disk>>

\* storePOD: a ttl of 0 expires at once.
StorePOD(k) ==
    \E ttl \in Ttls, persistent \in BOOLEAN :
        Put(k, [value |-> stores + 1, exp |-> now + ttl, persistent |-> persistent,
                type |-> 0, form |-> "bytes"])

\* storeInner<T>: a ttl of 0 never expires; only with overwrite_ is a row replaced.
StoreObject(k) ==
    \E ttl \in Ttls, persistent \in BOOLEAN, overwrite_ \in BOOLEAN :
        /\ Present(k) => overwrite_
        /\ Put(k, [value |-> stores + 1, exp |-> IF ttl = 0 THEN 0 ELSE now + ttl,
                   persistent |-> persistent, type |-> 1, form |-> "object"])

\* A row that goes leaves the readers that point to it with freed memory; one that
\* is replaced stays where it is.
Erase(ks) ==
    /\ rows' = [k \in Keys |-> IF k \in ks THEN NoRow ELSE rows[k]]
    /\ reader' = [r \in Readers |-> IF reader[r].key \in ks
                                    THEN [reader[r] EXCEPT !.alive = FALSE] ELSE reader[r]]

Remove(k) ==
    /\ Up /\ Present(k) /\ Erase({k})
    /\ UNCHANGED <<now, processVars, stores, gcVars, disk>>

\* fetchInner: a row is a hit whether it has expired or not.
FetchInner(r, k) ==
    /\ Up /\ reader[r] = NoHold /\ Present(k)
    /\ reader' = [reader EXCEPT ![r] = [key |-> k, alive |-> TRUE, parsed |-> 0]]
    /\ UNCHANGED <<now, processVars, rowVars, gcVars, disk>>

\* fetch<T>: an object is only copied; bytes are deserialized, and then ...
Deserialize(r) ==
    LET row == rows[reader[r].key]
    IN  /\ reader[r].alive /\ reader[r].parsed = 0
        /\ reader' = [reader EXCEPT ![r] = IF row.form = "bytes"
                                           THEN [@ EXCEPT !.parsed = row.value] ELSE NoHold]
        /\ UNCHANGED <<now, processVars, rowVars, gcVars, disk>>

\* ... the object is written where the pointer goes, over whatever is there now.
WriteBack(r) ==
    /\ reader[r].alive /\ reader[r].parsed # 0
    /\ rows' = [rows EXCEPT ![reader[r].key] =
                    [@ EXCEPT !.value = reader[r].parsed, !.form = "object"]]
    /\ reader' = [reader EXCEPT ![r] = NoHold]
    /\ UNCHANGED <<now, processVars, stores, gcVars, disk>>

\* The row was erased under the pointer, whose memory may belong to another row by
\* now: undefined, here a use without effect, or one that hits a row of any key.
DanglingUse(r) ==
    /\ reader[r] # NoHold /\ ~reader[r].alive
    /\ \/ UNCHANGED rows
       \/ \E k \in Keys : /\ Present(k) /\ reader[r].parsed # 0
                          /\ rows' = [rows EXCEPT ![k] = [@ EXCEPT !.value = reader[r].parsed,
                                                                  !.form = "object"]]
    /\ reader' = [reader EXCEPT ![r] = NoHold]
    /\ UNCHANGED <<now, processVars, stores, gcVars, disk>>

ThreadStep ==
    \/ \E k \in Keys : StorePOD(k) \/ StoreObject(k) \/ Remove(k)
    \/ \E r \in Readers : \/ Deserialize(r) \/ WriteBack(r) \/ DanglingUse(r)
                          \/ \E k \in Keys : FetchInner(r, k)

-----------------------------------------------------------------------------
(* garbageCollector_F2.                                                    *)

GcAt(from, to) == gc = from /\ gc' = to

\* Mutant: the flag stays set.
GcBreaksSilently == gc' = "none" /\ UNCHANGED running

\* break; the flag is cleared, and whoever waits for it is notified.
GcBreaks == gc' = "none" /\ running' = FALSE

GcStart ==
    /\ GcAt("start", "test") /\ running' = TRUE
    /\ UNCHANGED <<gcNow, stop, lastSync, reader, disk, rows>>

GcTest ==
    /\ gc = "test"
    /\ (stop /\ GcBreaks) \/ (~stop /\ gc' = "sleep" /\ UNCHANGED running)
    /\ UNCHANGED <<gcNow, stop, lastSync, reader, disk, rows>>

\* After the sleep: the flag again, and the clock, before innerLock.
GcWake ==
    /\ gc = "sleep"
    /\ \/ stop /\ GcBreaks /\ UNCHANGED gcNow
       \/ ~stop /\ gc' = "sweep" /\ gcNow' = now /\ UNCHANGED running
    /\ UNCHANGED <<stop, lastSync, reader, disk, rows>>

\* Mutant: what is to be saved is not collected.
SweptButPersistent ==
    {k \in Keys : Present(k) /\ rows[k].exp \in 1..gcNow /\ ~rows[k].persistent}

Swept == {k \in Keys : Present(k) /\ rows[k].exp \in 1..gcNow}

GcSweep ==
    /\ gc = "sweep" /\ Erase(Swept)
    /\ gc' = IF DiskSaveTime > 0 /\ gcNow > lastSync + DiskSaveTime THEN "sync" ELSE "test"
    /\ UNCHANGED <<gcNow, running, stop, lastSync, disk>>

GcSync ==
    /\ GcAt("sync", "test")
    /\ DiskSyncP2 /\ lastSync' = gcNow
    /\ UNCHANGED <<gcNow, running, stop, reader, rows>>

GcStep ==
    /\ GcStart \/ GcTest \/ GcWake \/ GcSweep \/ GcSync
    /\ UNCHANGED <<now, processVars, stores>>

-----------------------------------------------------------------------------
ApcuTick == Tick /\ UNCHANGED <<processVars, rowVars, reader, gcVars, disk>>

ApcuNext == Start \/ Crash \/ Exit \/ ExitSave \/ ThreadStep \/ GcStep \/ ApcuTick
ApcuSpec == ApcuInit /\ [][ApcuNext]_apcuVars

\* The collector is scheduled, and so is the thread that exits.
ApcuFairness == WF_apcuVars(GcStep) /\ WF_apcuVars(ExitSave)
ApcuFairSpec == ApcuSpec /\ ApcuFairness

-----------------------------------------------------------------------------
(* Properties.                                                             *)

\* getAllByType<T> casts every row it finds by its type to an object, and throws on
\* bytes: no row, however it was stored, loaded or written back, has the hash of a
\* type and holds bytes.
TypedRowsAreObjects == \A k \in Keys : rows[k].type # 0 => rows[k].form = "object"

Expired(k) == Present(k) /\ rows[k].exp # 0 /\ now > rows[k].exp

\* A row past its expiry, loaded from the file or not, persistent or not, does not
\* stay for as long as the process runs.
ExpiredGoes == \A k \in Keys : Expired(k) ~> ~Expired(k)

\* After an exit whose save succeeded, the next start finds the persistent rows that
\* there were, with their expiry, and still persistent; none is lost and none that
\* was removed comes back, whatever the collector saved before.
CleanRestartKeepsRows ==
    [][process = "down" /\ process' = "up" /\ atExit # Unclean => Durable' = atExit]_apcuVars

\* The exit never waits for ever for a collector that has not started, that sleeps,
\* or that is about to end.
ExitEnds == process = "exiting" ~> process = "down"
=============================================================================
