---------------------------- MODULE SqlBuffering ----------------------------
(***************************************************************************)
(* The buffer of SQL statements (minMysql/sqlbuffering.{h,cpp}) over the   *)
(* parts of DB it calls: query, pingCheck, queryDeadlockRepeater           *)
(* (minMysql/min_mysql.cpp), and the session the server keeps for it.      *)
(*                                                                         *)
(* One thread drives the buffer; the connection is its own.  The           *)
(* nondeterminism is the server's: which statement of a packet fails and   *)
(* how, and when a session dies.  Row n is the n-th statement passed to    *)
(* append; a packet is cut after PacketSize rows, which stands for the     *)
(* limit in bytes.                                                         *)
(***************************************************************************)
EXTENDS Naturals, Sequences, Functions

CONSTANTS
    bufferSize,   \* 0 disables the flush by append
    PacketSize,   \* rows in a full packet
    maxTry,       \* of queryDeadlockRepeater
    Faults,       \* what the server may do: see FaultKinds
    MaxRows,      \* bound: rows appended
    MaxFaults     \* bound: faults in a behaviour

\* Error 1205; error 1213; any error that is not retried; a lost session.
FaultKinds == {"lockWait", "deadlock", "other", "lost"}

ASSUME SqlAssumption ==
    /\ bufferSize \in Nat
    /\ PacketSize \in Nat \ {0} /\ maxTry \in Nat \ {0}
    /\ Faults \subseteq FaultKinds
    /\ MaxRows \in Nat /\ MaxFaults \in Nat

VARIABLES
    pc,          \* where flush is; "idle" outside, "closed" after ~SQLBuffering
    useTRX,
    buffer,      \* SQLBuffering::buffer
    rest,        \* rows of the current flush that are in no packet yet
    packet,      \* the packet queryDeadlockRepeater is trying
    tryNum,
    appending,   \* the row append adds after its flush; 0 if none
    closing,     \* the flush is the destructor's
    inTrx,       \* the session has an open transaction
    trx,         \* rows executed in it
    committed,   \* rows the database keeps, in order
    nextRow,     \* rows appended so far, plus one
    given,       \* history: the rows the latest flush began with
    failed,      \* history: it ended by an exception
    rolledBack,  \* history: the server rolled a transaction back since it began
    suspect,     \* history: rows of failed flushes and of attempts run again
    nFaults

bufferVars == <<useTRX, buffer, closing>>
flushVars  == <<pc, rest, packet, tryNum, appending>>
serverVars == <<inTrx, trx, committed, rolledBack, nFaults>>
histVars   == <<nextRow, given, failed, suspect>>
vars == <<bufferVars, flushVars, serverVars, histVars>>

Rows == 1..MaxRows

TypeOK ==
    /\ pc \in {"idle", "begin", "cut", "send", "commit", "closed"}
    /\ useTRX \in BOOLEAN
    /\ buffer \in Seq(Rows) /\ rest \in Seq(Rows) /\ packet \in Seq(Rows)
    /\ tryNum \in 0..maxTry - 1
    /\ appending \in 0..MaxRows
    /\ closing \in BOOLEAN /\ inTrx \in BOOLEAN
    /\ trx \in Seq(Rows) /\ committed \in Seq(Rows)
    /\ nextRow \in 1..MaxRows + 1
    /\ given \in Seq(Rows)
    /\ failed \in BOOLEAN /\ rolledBack \in BOOLEAN
    /\ suspect \subseteq Rows
    /\ nFaults \in 0..MaxFaults

Init ==
    /\ pc = "idle"
    /\ useTRX \in BOOLEAN
    /\ buffer = <<>> /\ rest = <<>> /\ packet = <<>>
    /\ tryNum = 0 /\ appending = 0 /\ closing = FALSE
    /\ inTrx = FALSE /\ trx = <<>> /\ committed = <<>>
    /\ nextRow = 1
    /\ given = <<>> /\ failed = FALSE /\ rolledBack = FALSE
    /\ suspect = {}
    /\ nFaults = 0

-----------------------------------------------------------------------------
(* The server's session.                                                   *)

\* Rows run: in the open transaction, or each one on its own.
Execute(rows) ==
    /\ trx'       = IF inTrx THEN trx \o rows ELSE trx
    /\ committed' = IF inTrx THEN committed ELSE committed \o rows
    /\ UNCHANGED <<inTrx, rolledBack>>

\* The session's transaction is gone; rows that ran on their own stay.
RollBack(rows) ==
    /\ inTrx' = FALSE /\ trx' = <<>>
    /\ rolledBack' = (rolledBack \/ inTrx)
    /\ committed' = IF inTrx THEN committed ELSE committed \o rows

Fault(kind) == kind \in Faults /\ nFaults < MaxFaults /\ nFaults' = nFaults + 1

-----------------------------------------------------------------------------
(* Leaving flush.                                                          *)

Leave == /\ pc' = IF closing THEN "closed" ELSE "idle"
         /\ rest' = <<>> /\ packet' = <<>> /\ tryNum' = 0 /\ appending' = 0

\* An exception: the caller sees it, the destructor logs it.  The row append was
\* called with is not added, and nothing rolls the transaction back.
Throw == /\ Leave
         /\ failed' = TRUE
         /\ suspect' = suspect \cup Range(given)
         /\ UNCHANGED <<bufferVars, nextRow, given>>

\* flush returns with an empty buffer; append goes on to add its row.
Return == /\ Leave
          /\ buffer' = IF appending = 0 THEN <<>> ELSE <<appending>>
          /\ UNCHANGED <<useTRX, closing, histVars>>

-----------------------------------------------------------------------------
(* The calls.                                                              *)

StartFlush(row) ==
    /\ pc' = IF useTRX THEN "begin" ELSE "cut"
    /\ rest' = buffer
    /\ given' = buffer
    /\ appending' = row
    /\ failed' = FALSE /\ rolledBack' = FALSE
    /\ UNCHANGED <<buffer, packet, tryNum, inTrx, trx, committed, nFaults, suspect>>

\* append, which flushes a full buffer first.
AppendRow ==
    /\ pc = "idle" /\ nextRow <= MaxRows
    /\ nextRow' = nextRow + 1
    /\ UNCHANGED <<useTRX, closing>>
    /\ \/ /\ bufferSize > 0 /\ Len(buffer) >= bufferSize
          /\ StartFlush(nextRow)
       \/ /\ bufferSize = 0 \/ Len(buffer) < bufferSize
          /\ buffer' = Append(buffer, nextRow)
          /\ UNCHANGED <<flushVars, serverVars, given, failed, suspect>>

Flush ==
    /\ pc = "idle" /\ buffer # <<>>
    /\ StartFlush(0)
    /\ UNCHANGED <<useTRX, closing, nextRow>>

\* ~SQLBuffering
Close ==
    /\ pc = "idle"
    /\ closing' = TRUE
    /\ UNCHANGED <<useTRX, nextRow>>
    /\ \/ buffer # <<>> /\ StartFlush(0)
       \/ /\ buffer = <<>> /\ pc' = "closed"
          /\ UNCHANGED <<buffer, rest, packet, tryNum, appending, serverVars, given,
                         failed, suspect>>

SetUseTRX ==
    /\ pc = "idle"
    /\ useTRX' = ~useTRX
    /\ UNCHANGED <<buffer, closing, flushVars, serverVars, histVars>>

Clear ==
    /\ pc = "idle"
    /\ buffer' = <<>>
    /\ UNCHANGED <<useTRX, closing, flushVars, serverVars, histVars>>

-----------------------------------------------------------------------------
(* flush.                                                                  *)

\* START TRANSACTION commits a transaction that is still open.
Begin ==
    /\ pc = "begin" /\ pc' = "cut"
    /\ inTrx' = TRUE /\ trx' = <<>> /\ committed' = committed \o trx
    /\ UNCHANGED <<bufferVars, rest, packet, tryNum, appending, rolledBack, nFaults,
                   histVars>>

\* Mutant: packets are taken from the end of the buffer.
CutFromTheEnd ==
    /\ pc = "cut" /\ rest # <<>>
    /\ pc' = "send"
    /\ LET kept == IF Len(rest) > PacketSize THEN Len(rest) - PacketSize ELSE 0
       IN  packet' = SubSeq(rest, kept + 1, Len(rest)) /\ rest' = SubSeq(rest, 1, kept)
    /\ UNCHANGED <<bufferVars, tryNum, appending, serverVars, histVars>>

\* A full packet, cut inside the loop; or, after the loop has cleared the buffer,
\* the partial one that is left.
CutPacket ==
    /\ pc = "cut" /\ rest # <<>>
    /\ pc' = "send"
    /\ \/ /\ Len(rest) >= PacketSize
          /\ packet' = SubSeq(rest, 1, PacketSize)
          /\ rest' = SubSeq(rest, PacketSize + 1, Len(rest))
          /\ UNCHANGED buffer
       \/ /\ Len(rest) < PacketSize
          /\ packet' = rest /\ rest' = <<>> /\ buffer' = <<>>
    /\ UNCHANGED <<useTRX, closing, tryNum, appending, serverVars, histVars>>

\* Mutant: the flush of the last packet returns without COMMIT.
NoMorePacketsNoCommit ==
    /\ pc = "cut" /\ rest = <<>>
    /\ Return
    /\ UNCHANGED serverVars

NoMorePackets ==
    /\ pc = "cut" /\ rest = <<>>
    /\ \/ /\ useTRX
          /\ pc' = "commit" /\ buffer' = <<>>
          /\ UNCHANGED <<useTRX, closing, rest, packet, tryNum, appending, histVars>>
       \/ ~useTRX /\ Return
    /\ UNCHANGED serverVars

PacketRuns ==
    /\ pc = "send" /\ pc' = "cut"
    /\ Execute(packet)
    /\ packet' = <<>> /\ tryNum' = 0
    /\ UNCHANGED <<bufferVars, rest, appending, nFaults, histVars>>

Commit ==
    /\ pc = "commit"
    /\ committed' = committed \o trx
    /\ inTrx' = FALSE /\ trx' = <<>>
    /\ Return
    /\ UNCHANGED <<rolledBack, nFaults>>

-----------------------------------------------------------------------------
(* What the server does wrong.                                             *)

TryAgain(rows) ==
    /\ tryNum + 1 < maxTry
    /\ tryNum' = tryNum + 1
    /\ suspect' = suspect \cup Range(rows)
    /\ UNCHANGED <<bufferVars, pc, rest, packet, appending, nextRow, given, failed>>

\* Mutant: a lock wait timeout drops the connection too.
RetryableErrorCloses(kind) ==
    /\ pc = "send"
    /\ Fault(kind)
    /\ TryAgain(<<>>)
    /\ inTrx' = FALSE /\ trx' = <<>>
    /\ UNCHANGED <<committed, rolledBack>>

\* The k-th row fails with an error the repeater retries.  A lock wait timeout
\* undoes that row only; a deadlock rolls the transaction back.  The exception
\* leaves flush after the last try, or when listing the running statements over
\* another connection throws; that happens for an error of the first row.
RetryableError(kind) ==
    /\ pc = "send"
    /\ Fault(kind)
    /\ \E k \in 1..Len(packet) :
          LET before == SubSeq(packet, 1, k - 1)
          IN  /\ IF kind = "deadlock" THEN RollBack(before) ELSE Execute(before)
              /\ \/ TryAgain(before)
                 \/ (tryNum + 1 = maxTry \/ k = 1) /\ Throw

\* An error that is not retried, and may come after rows that ran.
OtherError ==
    /\ pc = "send"
    /\ Fault("other")
    /\ \E k \in 1..Len(packet) : Execute(SubSeq(packet, 1, k - 1))
    /\ Throw

\* The session is lost in a query, or none can be opened for it.  The server did
\* all, a part or nothing of what it was asked for.
LostDuringPacket ==
    /\ pc = "send"
    /\ Fault("lost")
    /\ \E k \in 0..Len(packet) : RollBack(SubSeq(packet, 1, k))
    /\ Throw

LostDuringControl ==
    /\ pc \in {"begin", "commit"}
    /\ Fault("lost")
    /\ inTrx' = FALSE /\ trx' = <<>> /\ rolledBack' = TRUE
    /\ committed' \in {committed, committed \o trx}
    /\ Throw

\* The session dies between two queries: pingCheck, before the next one, opens
\* another and reports nothing.
SessionDies ==
    /\ pc # "closed"
    /\ Fault("lost")
    /\ RollBack(<<>>)
    /\ UNCHANGED <<bufferVars, flushVars, histVars>>

-----------------------------------------------------------------------------
Closed == pc = "closed" /\ UNCHANGED vars

Next == \/ AppendRow \/ Flush \/ Close \/ SetUseTRX \/ Clear
        \/ Begin \/ CutPacket \/ NoMorePackets \/ PacketRuns \/ Commit
        \/ RetryableError("lockWait") \/ RetryableError("deadlock")
        \/ OtherError \/ LostDuringPacket \/ LostDuringControl \/ SessionDies
        \/ Closed

Spec == Init /\ [][Next]_vars

-----------------------------------------------------------------------------
(* Properties.                                                             *)

Quiet == pc \in {"idle", "closed"}
Stored(rows) == rows \subseteq Range(committed)

\* No retry and no error path of flush loses a row: when a flush returns without
\* an exception, its rows are in the database (or, without useTRX, in the
\* transaction it ran inside), unless the server rolled a transaction back.
LossIsTheServers ==
    Quiet /\ ~failed /\ ~rolledBack
        => Range(given) \subseteq Range(committed \o trx)

\* The statements of the buffer take effect in the order append was given them,
\* each once, whatever failed, was retried or was lost on the way.  Only two kinds
\* may be out of place or doubled: those of a flush that threw, and those of a
\* packet that ran before it was tried again.
InAppendOrder ==
    LET db == committed \o trx
    IN  \A i, j \in 1..Len(db) :
            i < j /\ db[i] \notin suspect /\ db[j] \notin suspect => db[i] < db[j]

\* A flush leaves its transaction open only by an exception: as long as none has
\* failed, the session that other queries share has no transaction between
\* flushes, whatever was retried or lost on the way.
OpenTransactionIsSuspect ==
    Quiet /\ inTrx => suspect # {}

\* sqlbuffering.h:25 and min_mysql.cpp:269 take a flush for a unit: when it
\* returns, all of its rows are in the database.
FlushedIsCommitted == Quiet /\ ~failed => Stored(Range(given))
=============================================================================
