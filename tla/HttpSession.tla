---------------------------- MODULE HttpSession ----------------------------
(***************************************************************************)
(* One HTTP connection: http_session of HTTP/beast.cpp, with the part of   *)
(* handle_request that decides what is answered.                           *)
(*                                                                         *)
(* One thread runs the io_context, so a completion handler is one step.    *)
(* What interleaves are the operations it has started: the read of the     *)
(* next request, the write of the front of response_queue_, the two timers *)
(* of the stream and the client.  An operation completes in one step and   *)
(* its handler runs in a later one: in between the client already has the  *)
(* reply that is still the front of the queue.                             *)
(*                                                                         *)
(* The session lives while an operation holds its shared_from_this(): when *)
(* both read and write are "idle" it is destroyed and the socket with it.  *)
(***************************************************************************)
EXTENDS Naturals, Sequences

CONSTANTS
    QueueLimit,    \* queue_limit
    Kinds,         \* what clients ask for: see RequestKinds
    MaxRequests    \* bound: requests of one connection

(* A request that keeps the connection, or asks to close it; an upgrade    *)
(* the hook takes, refuses or throws on; bytes the parser rejects.  A page *)
(* that throws is none of these: handle_request turns it into a reply.     *)
RequestKinds == {"keep", "close", "taken", "refused", "throws", "malformed"}

ASSUME HttpAssumption ==
    /\ QueueLimit \in Nat /\ QueueLimit >= 2
    /\ Kinds \subseteq RequestKinds
    /\ MaxRequests \in Nat

VARIABLES
    sent,         \* kinds of the requests the client has sent, in order
    finished,     \* the client has shut down its side
    parsed,       \* requests the parser has read
    read,         \* the async_read: "idle", "pending", or how it completed
    write,        \* the async_write of the front of queue: likewise
    queue,        \* response_queue_: the requests whose replies it holds
    readTimer,    \* the two timers of the stream: TRUE with an expiry,
    writeTimer,   \* FALSE for "never"
    sock,         \* "open"; "shut" by do_close; "broken" by a timer or the
                  \* network; "handed" to the websocket hook
    handled,      \* history: the requests that were executed
    delivered     \* history: those whose reply was written

clientVars == <<sent, finished>>
readVars   == <<parsed, read, readTimer>>
writeVars  == <<write, writeTimer, queue>>
vars == <<clientVars, readVars, writeVars, sock, handled, delivered>>

Alive == read # "idle" \/ write # "idle"

(* MUTANT: on_write closes when the latest request asked for it.           *)
KeepAliveOfLatest(r) == sent[parsed] # "close"
KeepAlive(r) == sent[r] # "close"

TypeOK ==
    /\ sent \in Seq(Kinds) /\ Len(sent) <= MaxRequests
    /\ finished \in BOOLEAN
    /\ parsed \in 0..Len(sent)
    /\ read \in {"idle", "pending", "request", "eof", "failed"}
    /\ write \in {"idle", "pending", "done", "failed"}
    /\ queue \in Seq(1..parsed)
    /\ readTimer \in BOOLEAN /\ writeTimer \in BOOLEAN
    /\ sock \in {"open", "shut", "broken", "handed"}
    /\ handled \in Seq(1..parsed) /\ delivered \in Seq(1..parsed)

(* run: the first do_read, on a stream with no operation pending.          *)
Init ==
    /\ sent = << >> /\ finished = FALSE /\ parsed = 0
    /\ read = "pending" /\ readTimer = TRUE
    /\ write = "idle" /\ writeTimer = TRUE
    /\ queue = << >> /\ sock = "open"
    /\ handled = << >> /\ delivered = << >>

-----------------------------------------------------------------------------
(* The client, the network and the operations.                             *)

Send(kind) ==
    /\ Alive /\ sock # "broken"
    /\ ~finished /\ Len(sent) < MaxRequests
    /\ sent' = Append(sent, kind)
    /\ UNCHANGED <<finished, readVars, writeVars, sock, handled, delivered>>

Finish ==
    /\ Alive /\ sock # "broken"
    /\ ~finished /\ finished' = TRUE
    /\ UNCHANGED <<sent, readVars, writeVars, sock, handled, delivered>>

ReadCompletes ==
    /\ read = "pending"
    /\ IF parsed < Len(sent)
       THEN /\ parsed' = parsed + 1
            /\ read' = IF sent[parsed'] = "malformed" THEN "failed" ELSE "request"
       ELSE finished /\ read' = "eof" /\ UNCHANGED parsed
    /\ UNCHANGED <<clientVars, readTimer, writeVars, sock, handled, delivered>>

(* The kernel has taken the last byte of the front reply.                  *)
WriteCompletes ==
    /\ write = "pending"
    /\ write' = "done"
    /\ delivered' = Append(delivered, Head(queue))
    /\ UNCHANGED <<clientVars, readVars, writeTimer, queue, sock, handled>>

Breaks ==
    /\ sock' = "broken"
    /\ read' = IF read = "pending" THEN "failed" ELSE read
    /\ write' = IF write = "pending" THEN "failed" ELSE write
    /\ UNCHANGED <<clientVars, parsed, readTimer, writeTimer, queue, handled, delivered>>

ConnectionLost == Alive /\ sock \in {"open", "shut"} /\ Breaks

(* The 30 seconds of one of the timers are over: the stream closes the     *)
(* socket.  A handler or a client may take that long at any point.         *)
Timeout ==
    /\ \/ read = "pending" /\ readTimer
       \/ write = "pending" /\ writeTimer
    /\ Breaks

-----------------------------------------------------------------------------
(* What the completion handlers are made of.                               *)

(* MUTANT: do_read does not call expires_after: expires_never stays.       *)
DoReadUnarmed(wTimer) ==
    /\ read' = IF sock = "broken" THEN "failed" ELSE "pending"
    /\ readTimer' = (readTimer /\ wTimer)
    /\ writeTimer' = (writeTimer /\ wTimer)

(* do_read.  expires_after sets the timer of each direction in which no    *)
(* operation is pending: wTimer is the expiry that leaves to writes.       *)
DoRead(wTimer) ==
    /\ read' = IF sock = "broken" THEN "failed" ELSE "pending"
    /\ readTimer' = TRUE
    /\ writeTimer' = wTimer

NoRead(rTimer, wTimer) ==
    read' = "idle" /\ readTimer' = rTimer /\ writeTimer' = wTimer

(* do_write, on a queue q.                                                 *)
AfterDoWrite(q) ==
    IF q = << >> THEN "idle" ELSE IF sock = "open" THEN "pending" ELSE "failed"

(* queue_write: the write starts only when the queue was empty.            *)
QueueWrite(r) ==
    /\ queue' = Append(queue, r)
    /\ write' = IF queue = << >> THEN AfterDoWrite(queue') ELSE write

(* handle_request executes the request and has a reply for it whatever the *)
(* page does: the reply of a page that throws is an error page.            *)
HandleRequest(r) == handled' = Append(handled, r)

(* do_close: TCP shutdown of the sending side.  It fails on a socket that  *)
(* is gone, and the result is not looked at.                               *)
DoClose == sock' = IF sock = "open" THEN "shut" ELSE sock

-----------------------------------------------------------------------------
(* on_read.                                                                *)

OnReadEof ==
    /\ read = "eof"
    /\ DoClose
    /\ NoRead(readTimer, writeTimer)
    /\ write' = IF write = "pending" THEN "failed" ELSE write
    /\ UNCHANGED <<clientVars, parsed, queue, handled, delivered>>

OnReadFailed ==
    /\ read = "failed"
    /\ NoRead(readTimer, writeTimer)
    /\ UNCHANGED <<clientVars, parsed, write, queue, sock, handled, delivered>>

(* MUTANT: the hook is asked whatever is queued.                           *)
HookIsAskedAlways == sent[parsed] \in {"taken", "refused", "throws"}

(* The hook is asked only when no reply is queued: expires_never has then  *)
(* taken both timers away.                                                 *)
HookIsAsked ==
    sent[parsed] \in {"taken", "refused", "throws"} /\ queue = << >>

OnUpgradeTaken ==
    /\ read = "request" /\ HookIsAsked /\ sent[parsed] = "taken"
    /\ sock' = "handed"
    /\ NoRead(FALSE, FALSE)
    /\ UNCHANGED <<clientVars, parsed, write, queue, handled, delivered>>

(* The exception leaves on_read through its catch: a reply, and no do_read.*)
OnUpgradeThrows ==
    /\ read = "request" /\ HookIsAsked /\ sent[parsed] = "throws"
    /\ handled' = Append(handled, parsed)
    /\ QueueWrite(parsed)
    /\ NoRead(FALSE, FALSE)
    /\ UNCHANGED <<clientVars, parsed, sock, delivered>>

(* handle_request, then queue_write; the next read starts while there is   *)
(* room.  The write just started, or already on its way, keeps do_read     *)
(* from giving the write timer a new expiry.                               *)
OnRequest ==
    /\ read = "request"
    /\ ~(HookIsAsked /\ sent[parsed] \in {"taken", "throws"})
    /\ HandleRequest(parsed)
    /\ QueueWrite(parsed)
    /\ LET wTimer == writeTimer /\ ~HookIsAsked
       IN  IF Len(queue') < QueueLimit
           THEN DoRead(wTimer)
           ELSE NoRead(readTimer /\ ~HookIsAsked, wTimer)
    /\ UNCHANGED <<clientVars, parsed, sock, delivered>>

-----------------------------------------------------------------------------
(* on_write.                                                               *)

OnWriteFailed ==
    /\ write = "failed"
    /\ write' = "idle"
    /\ UNCHANGED <<clientVars, readVars, writeTimer, queue, sock, handled, delivered>>

(* A reply that asked for "Connection: close" stays at the front.          *)
OnLastWrite ==
    /\ write = "done" /\ ~KeepAlive(Head(queue))
    /\ DoClose
    /\ write' = "idle"
    /\ UNCHANGED <<clientVars, readVars, writeTimer, queue, handled, delivered>>

(* MUTANT: the queue is popped before its size is looked at.               *)
OnWritePopsFirst ==
    /\ write = "done" /\ KeepAlive(Head(queue))
    /\ queue' = Tail(queue)
    /\ IF Len(queue') = QueueLimit
       THEN DoRead(TRUE)
       ELSE UNCHANGED <<read, readTimer, writeTimer>>
    /\ write' = AfterDoWrite(queue')
    /\ UNCHANGED <<clientVars, parsed, sock, handled, delivered>>

(* MUTANT: on_write does not start the next write.                         *)
OnWriteStops ==
    /\ write = "done" /\ KeepAlive(Head(queue))
    /\ IF Len(queue) = QueueLimit
       THEN DoRead(TRUE)
       ELSE UNCHANGED <<read, readTimer, writeTimer>>
    /\ queue' = Tail(queue)
    /\ write' = "idle"
    /\ UNCHANGED <<clientVars, parsed, sock, handled, delivered>>

(* MUTANT: the reply just written stays at the front.                      *)
OnWriteKeepsFront ==
    /\ write = "done" /\ KeepAlive(Head(queue))
    /\ IF Len(queue) = QueueLimit
       THEN DoRead(TRUE)
       ELSE UNCHANGED <<read, readTimer, writeTimer>>
    /\ write' = AfterDoWrite(queue)
    /\ UNCHANGED <<clientVars, parsed, queue, sock, handled, delivered>>

(* A full queue had stopped the reads: they start again before the pop.    *)
OnWrite ==
    /\ write = "done" /\ KeepAlive(Head(queue))
    /\ IF Len(queue) = QueueLimit
       THEN DoRead(TRUE)
       ELSE UNCHANGED <<read, readTimer, writeTimer>>
    /\ queue' = Tail(queue)
    /\ write' = AfterDoWrite(queue')
    /\ UNCHANGED <<clientVars, parsed, sock, handled, delivered>>

-----------------------------------------------------------------------------
Handlers == \/ OnReadEof \/ OnReadFailed
            \/ OnUpgradeTaken \/ OnUpgradeThrows \/ OnRequest
            \/ OnWriteFailed \/ OnLastWrite \/ OnWrite

Next == \/ \E kind \in Kinds : Send(kind)
        \/ Finish \/ ConnectionLost
        \/ ReadCompletes \/ WriteCompletes \/ Timeout
        \/ Handlers

Spec == Init /\ [][Next]_vars

(* The io_context runs every handler that is due, and the timers are its   *)
(* own.  Nothing is asked of the client: it may never send, never read.    *)
FairSpec == Spec /\ WF_vars(Handlers) /\ WF_vars(Timeout)

-----------------------------------------------------------------------------
(* Properties.                                                             *)

(* Replies reach the client in the order of its requests, one for each,    *)
(* and none after the connection has ended: response_queue_ and its two    *)
(* users, on_read and on_write, implement PipelinedReplies.                *)
Replies == INSTANCE PipelinedReplies WITH
    Requests <- 1..MaxRequests, Window <- QueueLimit,
    taken <- handled, answered <- delivered, open <- (sock = "open")
RepliesInOrder == Replies!Spec

(* While the connection is open a queued reply is always on its way: the   *)
(* write started by queue_write and those started by on_write hand the     *)
(* queue to one another without a gap and without two writes at once.      *)
HeadIsBeingWritten == sock = "open" => (write = "idle" <=> queue = << >>)

(* The queue never exceeds its limit, nothing is read while it is full,    *)
(* and a session on an open connection that does not read has a reason: a  *)
(* full queue, whose next on_write reads again, or a request that ended    *)
(* the reading.                                                            *)
Backpressure ==
    /\ Len(queue) <= QueueLimit
    /\ read # "idle" => Len(queue) < QueueLimit
    /\ Alive /\ sock = "open" /\ read = "idle" =>
         Len(queue) = QueueLimit \/ sent[parsed] \in {"malformed", "throws"}

(* The reply to "Connection: close" is the last one written, and a session *)
(* that ends on an intact connection has answered all it executed: what is *)
(* executed and never answered was cut off by a timer, by the network, by  *)
(* the client's own end of stream, or came behind a "Connection: close".   *)
UnansweredIsExplained ==
    /\ \A i \in DOMAIN delivered : ~KeepAlive(delivered[i]) => i = Len(delivered)
    /\ ~Alive /\ sock \in {"open", "handed"} => delivered = handled
    /\ sock = "shut" /\ ~finished =>
         delivered # << >> /\ ~KeepAlive(delivered[Len(delivered)])

(* The socket that moves to the websocket hook has no write of this        *)
(* session under way, and every earlier request has its reply.             *)
HandoverIsClean ==
    sock = "handed" => write = "idle" /\ queue = << >> /\ delivered = handled

(* A write that no timer limits, with no read whose timer would end it:    *)
(* expires_never was called for an upgrade that was not taken, and do_read *)
(* has not found the write side free since.                                *)
Unguarded == write = "pending" /\ ~writeTimer /\ read = "idle"

(* A client that neither sends nor reads cannot hold a session: it ends,   *)
(* but for the one hole above.                                             *)
SilentPeerIsDropped == <>[](~Alive \/ Unguarded)
=============================================================================
