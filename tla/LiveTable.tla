----------------------------- MODULE LiveTable -----------------------------
(***************************************************************************)
(* The in-memory copy of a table (liveTable/liveTable.h): loadAll, refresh *)
(* and reconcile, the owner's writes, and the table itself as other        *)
(* processes change it.                                                    *)
(*                                                                         *)
(* A row has an id, a name under a unique index of the map and of the      *)
(* table, the time of the statement that wrote it (updatedAt) and a        *)
(* revision, which stands for its other columns.  A statement is seen by   *)
(* others only when its transaction commits.  A method holds writeGate     *)
(* from its first statement to its change of the map; the change itself is *)
(* under map.uniqueLock() and is one step.  admitNew and adopt are not     *)
(* set, and aliveWhere selects what alive() accepts.                       *)
(***************************************************************************)
EXTENDS Integers, FiniteSets, SequencesExt

CONSTANTS
    Ids, Names,
    NoName,          \* of a row that holds no name
    InitialIds,      \* rows of the table before the program starts
    overlapSeconds,
    MaxTime,         \* bound: ticks of the server's clock
    MaxWrites        \* bound: statements that change the table

(* The unique index holds of the table the program finds.                 *)
ASSUME LiveTableAssumption ==
    /\ IsFiniteSet(Ids) /\ InitialIds \subseteq Ids /\ NoName \notin Names
    /\ \E f \in [InitialIds -> Names] : IsInjective(f)
    /\ overlapSeconds \in Nat /\ MaxTime \in Nat /\ MaxWrites \in Nat

VARIABLES
    now,         \* the server's clock
    db,          \* committed rows
    pending,     \* rows of open transactions
    writes,      \* statements so far; each is a revision
    map,         \* id -> [name, rev]
    lastTs,      \* the cursor
    gate,        \* who holds writeGate: a method, "owner", or "free"
    nextTs,      \* the NOW(3) of the method that holds it
    snapshot,    \* the table as its SELECT saw it
    ownerRow,    \* the row the owner has written and not yet put in the map
    rejected     \* history: ids whose last upsert a unique index refused

dbVars  == <<now, db, pending, writes>>
mapVars == <<map, lastTs, rejected>>
jobVars == <<gate, nextTs, snapshot, ownerRow>>
vars == <<dbVars, mapVars, jobVars>>

Methods == {"loadAll", "refresh", "reconcile"}
NoTs       == -1
NoSnapshot == << >>

(* state: "none" never inserted, "live", "dead" by the soft flag, "gone"   *)
(* by a DELETE.  slow: the transaction stayed open longer than the overlap.*)
Rows == [state : {"none", "live", "dead", "gone"}, name : Names \cup {NoName},
         rev : 0..MaxWrites, at : 0..MaxTime, slow : BOOLEAN]
NoRow == [state |-> "none", name |-> NoName, rev |-> 0, at |-> 0, slow |-> FALSE]
NoOwnerRow == 0

(* What the map may hold: names are under its unique index.               *)
Maps    == {m \in UNION {[ids -> [name : Names, rev : 0..MaxWrites]] : ids \in SUBSET Ids} :
              \A i, j \in DOMAIN m : m[i].name = m[j].name => i = j}
NoRows  == [id \in {} |-> id]

Exists(row) == row.state \in {"live", "dead"}
Alive(row)  == row.state = "live"

TypeOK ==
    /\ now \in 0..MaxTime /\ writes \in 0..MaxWrites
    /\ db \in [Ids -> Rows] /\ pending \in [Ids -> Rows]
    /\ map \in Maps
    /\ lastTs \in {NoTs} \cup 0..MaxTime /\ nextTs \in {NoTs} \cup 0..MaxTime
    /\ gate \in Methods \cup {"owner", "free"}
    /\ snapshot \in {NoSnapshot} \cup [Ids -> Rows]
    /\ ownerRow \in {NoOwnerRow} \cup Ids
    /\ rejected \subseteq Ids

(* Which row has which name does not matter: any assignment will do.       *)
InitialName == CHOOSE f \in [InitialIds -> Names] : IsInjective(f)

Init ==
    /\ now = 0 /\ writes = 0
    /\ db = [id \in Ids |-> IF id \in InitialIds
                            THEN [NoRow EXCEPT !.state = "live", !.name = InitialName[id]]
                            ELSE NoRow]
    /\ pending = [id \in Ids |-> NoRow]
    /\ map = NoRows /\ lastTs = NoTs /\ rejected = {}
    /\ gate = "free" /\ nextTs = NoTs /\ snapshot = NoSnapshot
    /\ ownerRow = NoOwnerRow

-----------------------------------------------------------------------------
(* The table.                                                              *)

(* A statement may change a row no open transaction has changed, to a name *)
(* no other row holds or is about to hold.                                 *)
MayWrite(id, row) ==
    /\ writes < MaxWrites
    /\ pending[id].state = "none" /\ db[id].state # "gone"
    /\ db[id].state = "none" => row.state = "live"
    /\ \A other \in Ids \ {id} : row.name \notin {db[other].name, pending[other].name}

Written(name, state) ==
    [state |-> state, name |-> name, rev |-> writes + 1, at |-> now, slow |-> FALSE]

Write(id, row) ==
    /\ MayWrite(id, row)
    /\ pending' = [pending EXCEPT ![id] = row]
    /\ writes' = writes + 1
    /\ UNCHANGED <<now, db, mapVars, jobVars>>

Commit(id) ==
    /\ Exists(pending[id])
    /\ db' = [db EXCEPT ![id] =
                [pending[id] EXCEPT !.slow = now > pending[id].at + overlapSeconds]]
    /\ pending' = [pending EXCEPT ![id] = NoRow]
    /\ UNCHANGED <<now, writes, mapVars, jobVars>>

Rollback(id) ==
    /\ Exists(pending[id])
    /\ pending' = [pending EXCEPT ![id] = NoRow]
    /\ UNCHANGED <<now, db, writes, mapVars, jobVars>>

Delete(id) ==
    /\ writes < MaxWrites
    /\ Exists(db[id]) /\ ~Exists(pending[id])
    /\ db' = [db EXCEPT ![id] = [NoRow EXCEPT !.state = "gone"]]
    /\ writes' = writes + 1
    /\ UNCHANGED <<now, pending, mapVars, jobVars>>

Tick ==
    /\ now < MaxTime
    /\ now' = now + 1
    /\ UNCHANGED <<db, pending, writes, mapVars, jobVars>>

-----------------------------------------------------------------------------
(* The map.                                                                *)

(* The unique index refuses a row whose name another row has.             *)
Refuses(m, id, row) == \E other \in DOMAIN m \ {id} : m[other].name = row.name

(* upsertLocked: boost leaves the container as it was when it refuses.    *)
UpsertLocked(m, id, row) ==
    IF Refuses(m, id, row)
    THEN m
    ELSE [i \in DOMAIN m \cup {id} |->
            IF i = id THEN [name |-> row.name, rev |-> row.rev] ELSE m[i]]

EraseLocked(m, id) == Restrict(m, DOMAIN m \ {id})

Shows(m, id, row) ==
    IF Alive(row) THEN id \in DOMAIN m /\ m[id] = [name |-> row.name, rev |-> row.rev]
                  ELSE id \notin DOMAIN m

(* One turn of the loop over the rows: the map, and the ids refused.      *)
ApplyRow(acc, rows, id) ==
    [map     |-> IF Alive(rows[id]) THEN UpsertLocked(acc.map, id, rows[id])
                                    ELSE EraseLocked(acc.map, id),
     refused |-> {i \in acc.refused \cup {id} :
                    i = id => Alive(rows[id]) /\ Refuses(acc.map, id, rows[id])}]

ApplyRows(m, rows, order) ==
    LET after[n \in 0..Len(order)] ==
            IF n = 0 THEN [map |-> m, refused |-> {}]
                     ELSE ApplyRow(after[n - 1], rows, order[n])
    IN  after[Len(order)]

(* MUTANT: the delta starts at the cursor itself.                          *)
DeltaNoOverlap == {id \in Ids : Exists(snapshot[id]) /\ snapshot[id].at >= lastTs}

(* The ids a method goes through.  The delta takes what was written after  *)
(* the cursor, less the overlap, dead rows included.                       *)
Delta == {id \in Ids : Exists(snapshot[id]) /\ snapshot[id].at >= lastTs - overlapSeconds}
Full  == {id \in Ids : Alive(snapshot[id])}

-----------------------------------------------------------------------------
(* The methods: gate and NOW(3), SELECT, and the change of the map.        *)

Start(method) ==
    /\ gate = "free" /\ gate' = method
    /\ method = "refresh" => lastTs # NoTs
    /\ nextTs' = IF method = "reconcile" THEN NoTs ELSE now
    /\ UNCHANGED <<dbVars, mapVars, snapshot, ownerRow>>

Select ==
    /\ gate \in Methods /\ snapshot = NoSnapshot
    /\ snapshot' = db
    /\ UNCHANGED <<dbVars, mapVars, gate, nextTs, ownerRow>>

(* A statement throws: the gate is released and nothing has changed.       *)
Fail ==
    /\ gate \in Methods /\ snapshot = NoSnapshot
    /\ gate' = "free" /\ nextTs' = NoTs
    /\ UNCHANGED <<dbVars, mapVars, snapshot, ownerRow>>

Release ==
    gate' = "free" /\ nextTs' = NoTs /\ snapshot' = NoSnapshot /\ ownerRow' = NoOwnerRow

(* MUTANT: the map is not cleared first.                                   *)
LoadAllOverOld ==
    /\ gate = "loadAll" /\ snapshot # NoSnapshot
    /\ \E order \in SetToSeqs(Full) :
         LET loaded == ApplyRows(map, snapshot, order)
         IN  map' = loaded.map /\ rejected' = loaded.refused
    /\ lastTs' = nextTs
    /\ Release
    /\ UNCHANGED dbVars

LoadAll ==
    /\ gate = "loadAll" /\ snapshot # NoSnapshot
    /\ \E order \in SetToSeqs(Full) :
         LET loaded == ApplyRows(NoRows, snapshot, order)
         IN  map' = loaded.map /\ rejected' = loaded.refused
    /\ lastTs' = nextTs
    /\ Release
    /\ UNCHANGED dbVars

Refresh ==
    /\ gate = "refresh" /\ snapshot # NoSnapshot
    /\ \E order \in SetToSeqs(Delta) :
         LET refreshed == ApplyRows(map, snapshot, order)
         IN  map' = refreshed.map /\ rejected' = (rejected \ Delta) \cup refreshed.refused
    /\ lastTs' = nextTs
    /\ Release
    /\ UNCHANGED dbVars

(* MUTANT: ids that are not in the result stay.                            *)
ReconcileKeepsGone ==
    /\ gate = "reconcile" /\ snapshot # NoSnapshot
    /\ \E order \in SetToSeqs(Full) :
         LET upserted == ApplyRows(map, snapshot, order)
         IN  map' = upserted.map /\ rejected' = upserted.refused
    /\ Release
    /\ UNCHANGED <<dbVars, lastTs>>

(* The rows that are no longer in the table go after the others came in.   *)
Reconcile ==
    /\ gate = "reconcile" /\ snapshot # NoSnapshot
    /\ \E order \in SetToSeqs(Full) :
         LET upserted == ApplyRows(map, snapshot, order)
         IN  /\ map' = Restrict(upserted.map, DOMAIN upserted.map \cap Full)
             /\ rejected' = upserted.refused
    /\ Release
    /\ UNCHANGED <<dbVars, lastTs>>

(* MUTANT: the owner does not take writeGate.                              *)
OwnerWriteUngated(id, row) ==
    /\ MayWrite(id, row)
    /\ db' = [db EXCEPT ![id] = row] /\ writes' = writes + 1
    /\ map' = ApplyRow([map |-> map, refused |-> {}], db', id).map
    /\ UNCHANGED <<now, pending, lastTs, rejected, jobVars>>

(* The owner: its statement, in autocommit, and then the map, under the    *)
(* gate.                                                                   *)
OwnerWrite(id, row) ==
    /\ gate = "free" /\ gate' = "owner"
    /\ MayWrite(id, row)
    /\ db' = [db EXCEPT ![id] = row] /\ writes' = writes + 1
    /\ ownerRow' = id
    /\ snapshot' = db'
    /\ UNCHANGED <<now, pending, mapVars, nextTs>>

OwnerApply ==
    /\ gate = "owner"
    /\ LET applied == ApplyRow([map |-> map, refused |-> rejected], snapshot, ownerRow)
       IN  map' = applied.map /\ rejected' = applied.refused
    /\ Release
    /\ UNCHANGED <<dbVars, lastTs>>

-----------------------------------------------------------------------------
Next == \/ \E id \in Ids : \/ \E name \in Names, state \in {"live", "dead"} :
                                \/ Write(id, Written(name, state))
                                \/ OwnerWrite(id, Written(name, state))
                           \/ Commit(id) \/ Rollback(id) \/ Delete(id)
        \/ Tick
        \/ \E method \in Methods : Start(method)
        \/ Select \/ Fail \/ LoadAll \/ Refresh \/ Reconcile
        \/ OwnerApply

Spec == Init /\ [][Next]_vars

(* The application calls reconcile again and again, whatever else uses the *)
(* gate, and the database does not fail it for ever.                       *)
Fairness ==
    /\ SF_vars(Start("reconcile")) /\ SF_vars(gate = "reconcile" /\ Select)
    /\ WF_vars(Select \/ LoadAll \/ Refresh \/ Reconcile \/ OwnerApply)

FairSpec == Spec /\ Fairness

-----------------------------------------------------------------------------
(* Properties.                                                             *)

(* A method leaves in the map what the table held when its SELECT ran.  A  *)
(* refresh may have missed, and only it, a row whose transaction stayed    *)
(* open longer than the overlap and a row that was hard-deleted; any       *)
(* method a row that a unique index refused.                               *)
MethodEnds == gate \in Methods /\ snapshot # NoSnapshot /\ gate' = "free"

NothingMissed ==
    [][MethodEnds => \A id \in Ids :
         \/ Shows(map', id, snapshot[id])
         \/ id \in rejected'
         \/ gate = "refresh" /\ (snapshot[id].slow \/ snapshot[id].state = "gone")]_vars

(* loadAll is refused no row: it leaves exactly the table its SELECT saw,  *)
(* whatever the map showed before.                                         *)
LoadAllRepairs ==
    [][gate = "loadAll" /\ MethodEnds => \A id \in Ids : Shows(map', id, snapshot[id])]_vars

(* No step puts an older revision of a row over a newer one: not a SELECT  *)
(* that ran before the owner's statement, nor the owner's row.             *)
NeverBackwards ==
    [][\A id \in DOMAIN map \cap DOMAIN map' : map'[id].rev >= map[id].rev]_vars

(* The map shows every row as the table has it, but for those refused.    *)
InStep == \A id \in Ids : Shows(map, id, db[id]) \/ id \in rejected

(* When the table stops changing, the map comes to equal it, but for the   *)
(* rows a unique index refuses, and stays so.                              *)
Converges == <>[]InStep

(* A row that a unique index refuses is retried until it is in: the        *)
(* message of upsertLocked.                                                *)
RejectedIsRetried == \A id \in Ids : id \in rejected ~> id \notin rejected
=============================================================================
