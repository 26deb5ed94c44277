------------------------- MODULE HttpSessionProofs -------------------------
(***************************************************************************)
(* What HttpSession promises for every queue limit, number of requests and *)
(* mix of their kinds: its safety properties, and that it implements       *)
(* PipelinedReplies.                                                       *)
(*                                                                         *)
(* The inductive invariant says how the three sequences fit together       *)
(* (RepliesFit): handled is what left the queue, followed by the queue;    *)
(* delivered is the same, and one reply more between the completion of a   *)
(* write and its handler, or when the last reply stays at the front.       *)
(***************************************************************************)
EXTENDS HttpSession, SequenceTheorems, TLAPS

\* Requests executed whose reply has left the queue.
Popped == Len(handled) - Len(queue)

ReadInv ==
    /\ read = "request" => parsed >= 1 /\ \A i \in DOMAIN handled : handled[i] < parsed
    /\ read = "eof" => finished
    /\ read = "failed" /\ sock = "open" => parsed >= 1 /\ sent[parsed] = "malformed"
    /\ read = "idle" /\ sock = "open" => parsed >= 1
    /\ sock = "handed" => read = "idle"

WriteInv ==
    /\ write = "pending" => sock = "open"
    /\ write = "failed" => sock # "open"
    /\ write # "idle" => queue # << >>
    /\ sock = "handed" => queue = << >>

RepliesFit ==
    /\ Popped \in Nat
    /\ Len(delivered) \in {Popped, Popped + 1}
    /\ queue = << >> \/ write = "pending" => Len(delivered) = Popped
    /\ write = "done" => Len(delivered) = Popped + 1
    /\ \A i \in 1..Len(queue) : queue[i] = handled[Popped + i]
    /\ \A i \in 1..Len(delivered) : delivered[i] = handled[i]

LastIsLast ==
    /\ \A i \in 1..Popped : KeepAlive(delivered[i])
    /\ sock = "shut" /\ ~finished =>
         delivered # << >> /\ ~KeepAlive(delivered[Len(delivered)])

IInv == /\ TypeOK /\ ReadInv /\ WriteInv /\ RepliesFit /\ LastIsLast
        /\ HeadIsBeingWritten /\ Backpressure
-----------------------------------------------------------------------------
(* Types.                                                                  *)

\* What the handlers do with the queue and the write keeps their types.
LEMMA QueueWriteType ==
    ASSUME TypeOK, NEW r \in 1..parsed, QueueWrite(r)
    PROVE  /\ queue' \in Seq(1..parsed) /\ queue' # << >>
           /\ Len(queue') = Len(queue) + 1
           /\ write' \in {"idle", "pending", "done", "failed"}
<1>1. queue \in Seq(1..parsed)
  BY DEF TypeOK
<1>2. /\ queue' \in Seq(1..parsed) /\ Len(queue') = Len(queue) + 1
      /\ queue' # << >>
  BY <1>1, AppendProperties DEF QueueWrite
<1>3. QED
  BY <1>2 DEF QueueWrite, AfterDoWrite, TypeOK

\* The handlers that answer a request keep the types.
LEMMA AnswerType ==
    ASSUME TypeOK, ReadInv, read = "request", QueueWrite(parsed),
           handled' = Append(handled, parsed), UNCHANGED <<clientVars, parsed, sock, delivered>>,
           read' \in {"idle", "pending", "failed"},
           readTimer' \in BOOLEAN, writeTimer' \in BOOLEAN
    PROVE  TypeOK'
<1>1. parsed \in 1..parsed
  BY DEF TypeOK, ReadInv
<1>2. handled' \in Seq(1..parsed)
  BY <1>1, AppendProperties DEF TypeOK
<1>3. QED
  BY <1>1, <1>2, QueueWriteType DEF TypeOK, clientVars

\* Every step keeps the types.
LEMMA TypeStep ==
    ASSUME TypeOK, ReadInv, WriteInv, Next
    PROVE  TypeOK'
<1> USE HttpAssumption
<1>1. ASSUME NEW kind \in Kinds, Send(kind) PROVE TypeOK'
  <2>1. sent' \in Seq(Kinds) /\ Len(sent') = Len(sent) + 1 /\ Len(sent) \in Nat
    BY <1>1, AppendProperties, LenProperties DEF Send, TypeOK
  <2>2. QED
    BY <1>1, <2>1 DEF Send, TypeOK, readVars, writeVars
<1>2. ASSUME Finish PROVE TypeOK'
  BY <1>2 DEF Finish, TypeOK, readVars, writeVars
<1>3. ASSUME Breaks PROVE TypeOK'
  BY <1>3 DEF Breaks, TypeOK, clientVars
<1>4. ASSUME ReadCompletes PROVE TypeOK'
  <2>1. CASE parsed < Len(sent)
    <3>1. Len(sent) \in Nat
      BY LenProperties DEF TypeOK
    <3>2. parsed' \in 0..Len(sent) /\ 1..parsed \subseteq 1..parsed'
      BY <1>4, <2>1, <3>1 DEF ReadCompletes, TypeOK
    <3>3. /\ queue \in Seq(1..parsed') /\ handled \in Seq(1..parsed')
          /\ delivered \in Seq(1..parsed')
      BY <3>2, SeqMonotonic DEF TypeOK
    <3>4. QED
      BY <1>4, <2>1, <3>2, <3>3 DEF ReadCompletes, TypeOK, clientVars, writeVars
  <2>2. CASE ~(parsed < Len(sent))
    BY <1>4, <2>2 DEF ReadCompletes, TypeOK, clientVars, writeVars
  <2>3. QED
    BY <2>1, <2>2
<1>5. ASSUME WriteCompletes PROVE TypeOK'
  <2>1. Head(queue) \in 1..parsed
    BY <1>5, HeadTailProperties DEF WriteCompletes, WriteInv, TypeOK
  <2>2. delivered' \in Seq(1..parsed)
    BY <1>5, <2>1, AppendProperties DEF WriteCompletes, TypeOK
  <2>3. QED
    BY <1>5, <2>2 DEF WriteCompletes, TypeOK, clientVars, readVars
<1>6. ASSUME OnReadEof \/ OnReadFailed \/ OnUpgradeTaken PROVE TypeOK'
  BY <1>6 DEF OnReadEof, OnReadFailed, OnUpgradeTaken, DoClose, NoRead, TypeOK, clientVars
<1>7. ASSUME OnUpgradeThrows PROVE TypeOK'
  BY <1>7, AnswerType DEF OnUpgradeThrows, NoRead, TypeOK
<1>8. ASSUME OnRequest PROVE TypeOK'
  <2>1. HookIsAsked \in BOOLEAN /\ readTimer \in BOOLEAN /\ writeTimer \in BOOLEAN
    BY DEF TypeOK, HookIsAsked
  <2>2. (writeTimer /\ ~HookIsAsked) \in BOOLEAN /\ (readTimer /\ ~HookIsAsked) \in BOOLEAN
    BY <2>1
  <2>3. /\ read' \in {"idle", "pending", "failed"}
        /\ readTimer' \in BOOLEAN /\ writeTimer' \in BOOLEAN
    BY <1>8, <2>2 DEF OnRequest, DoRead, NoRead
  <2>4. QED
    BY <1>8, <2>3, AnswerType DEF OnRequest, HandleRequest
<1>9. ASSUME OnWriteFailed \/ OnLastWrite PROVE TypeOK'
  BY <1>9 DEF OnWriteFailed, OnLastWrite, DoClose, TypeOK, clientVars, readVars
<1>10. ASSUME OnWrite PROVE TypeOK'
  <2>1. queue # << >>
    BY <1>10 DEF OnWrite, WriteInv
  <2>2. queue' \in Seq(1..parsed)
    BY <1>10, <2>1, HeadTailProperties DEF OnWrite, TypeOK
  <2>3. /\ read' \in {"idle", "pending", "request", "eof", "failed"}
        /\ readTimer' \in BOOLEAN /\ writeTimer' \in BOOLEAN
    BY <1>10 DEF OnWrite, DoRead, TypeOK
  <2>4. write' \in {"idle", "pending", "failed"}
    BY <1>10 DEF OnWrite, AfterDoWrite
  <2>5. QED
    BY <1>10, <2>2, <2>3, <2>4 DEF OnWrite, TypeOK, clientVars
<1>11. QED
  BY <1>1, <1>2, <1>3, <1>4, <1>5, <1>6, <1>7, <1>8, <1>9, <1>10
     DEF Next, Handlers, ConnectionLost, Timeout
-----------------------------------------------------------------------------
(* The handlers' parts.                                                    *)

\* do_write starts a write on an open connection and fails on another.
LEMMA DoWriteCases ==
    ASSUME NEW q
    PROVE  /\ q = << >> => AfterDoWrite(q) = "idle"
           /\ q # << >> /\ sock = "open" => AfterDoWrite(q) = "pending"
           /\ q # << >> /\ sock # "open" => AfterDoWrite(q) = "failed"
BY DEF AfterDoWrite

\* What the client sends does not change what it has sent.
LEMMA SentStays ==
    ASSUME TypeOK, Next
    PROVE  \A r \in 1..parsed : sent'[r] = sent[r]
<1>1. ASSUME NEW kind \in Kinds, Send(kind) PROVE \A r \in 1..parsed : sent'[r] = sent[r]
  <2>1. sent' = Append(sent, kind) /\ Len(sent) \in Nat /\ parsed \in 0..Len(sent)
    BY <1>1, LenProperties DEF Send, TypeOK
  <2>2. \A r \in 1..Len(sent) : Append(sent, kind)[r] = sent[r]
    BY <1>1, AppendProperties DEF TypeOK
  <2>3. QED
    BY <2>1, <2>2
<1>2. CASE UNCHANGED sent
  BY <1>2
<1>3. QED
  BY <1>1, <1>2
     DEF Next, Handlers, Finish, ConnectionLost, Timeout, Breaks, ReadCompletes,
         WriteCompletes, OnReadEof, OnReadFailed, OnUpgradeTaken, OnUpgradeThrows,
         OnRequest, OnWriteFailed, OnLastWrite, OnWrite, clientVars

\* A handler that answers appends to the queue and starts a write for an empty one.
LEMMA QueueWriteFacts ==
    ASSUME TypeOK, WriteInv, QueueWrite(parsed), parsed >= 1
    PROVE  /\ queue' # << >> /\ Len(queue') = Len(queue) + 1 /\ Len(queue) \in Nat
           /\ \A i \in 1..Len(queue) : queue'[i] = queue[i]
           /\ queue'[Len(queue) + 1] = parsed
           /\ queue = << >> /\ sock = "open" => write' = "pending"
           /\ queue = << >> /\ sock # "open" => write' = "failed"
           /\ queue # << >> => write' = write
<1>1. queue \in Seq(1..parsed) /\ parsed \in 1..parsed
  BY DEF TypeOK
<1>2. /\ Len(queue') = Len(queue) + 1 /\ Len(queue) \in Nat
      /\ \A i \in 1..Len(queue) : queue'[i] = queue[i]
      /\ queue'[Len(queue) + 1] = parsed
  BY <1>1, AppendProperties, LenProperties DEF QueueWrite
<1>3. queue' # << >>
  BY <1>1, QueueWriteType
<1>4. QED
  <2>1. write' = IF queue = << >> THEN AfterDoWrite(queue') ELSE write
    BY DEF QueueWrite
  <2>2. QED
    BY <1>2, <1>3, <2>1, DoWriteCases

-----------------------------------------------------------------------------
(* The read.                                                               *)

\* A step keeps what is known of the read: on_read's exits and do_read.
LEMMA ReadStep ==
    ASSUME IInv, Next
    PROVE  ReadInv'
<1> USE DEF IInv
<1>1. ASSUME NEW kind \in Kinds, Send(kind) PROVE ReadInv'
  <2>1. parsed >= 1 => parsed \in 1..parsed
    BY LenProperties DEF TypeOK
  <2>2. parsed >= 1 => sent'[parsed] = sent[parsed]
    BY <2>1, SentStays
  <2>3. QED
    BY <1>1, <2>2 DEF Send, ReadInv, readVars, writeVars
<1>2. ASSUME Finish PROVE ReadInv'
  BY <1>2 DEF Finish, ReadInv, readVars, writeVars
<1>3. ASSUME Breaks PROVE ReadInv'
  BY <1>3 DEF Breaks, ReadInv, clientVars
<1>4. ASSUME ReadCompletes PROVE ReadInv'
  <2>1. sock # "handed" /\ UNCHANGED <<sent, finished, sock, handled>>
    BY <1>4 DEF ReadCompletes, ReadInv, clientVars, writeVars
  <2>2. CASE parsed < Len(sent)
    <3>1. parsed \in Nat /\ parsed' = parsed + 1
      BY <1>4, <2>2 DEF ReadCompletes, TypeOK
    <3>2. \A i \in DOMAIN handled : handled[i] \in 1..parsed
      BY LenProperties, ElementOfSeq DEF TypeOK
    <3>3. \A i \in DOMAIN handled : handled[i] < parsed'
      BY <3>1, <3>2
    <3>4. /\ read' \in {"failed", "request"}
          /\ read' = "failed" => sent[parsed'] = "malformed"
      BY <1>4, <2>2 DEF ReadCompletes
    <3>5. QED
      BY <2>1, <3>1, <3>3, <3>4 DEF ReadInv
  <2>3. CASE ~(parsed < Len(sent))
    BY <1>4, <2>1, <2>3 DEF ReadCompletes, ReadInv
  <2>4. QED
    BY <2>2, <2>3
<1>5. ASSUME WriteCompletes PROVE ReadInv'
  BY <1>5 DEF WriteCompletes, ReadInv, clientVars, readVars
<1>6. ASSUME OnReadEof PROVE ReadInv'
  BY <1>6 DEF OnReadEof, DoClose, NoRead, ReadInv, clientVars
<1>7. ASSUME OnReadFailed PROVE ReadInv'
  BY <1>7 DEF OnReadFailed, NoRead, ReadInv, clientVars
<1>8. ASSUME OnUpgradeTaken PROVE ReadInv'
  BY <1>8 DEF OnUpgradeTaken, NoRead, ReadInv, clientVars
<1>9. ASSUME OnUpgradeThrows PROVE ReadInv'
  BY <1>9 DEF OnUpgradeThrows, NoRead, ReadInv, clientVars
<1>10. ASSUME OnRequest PROVE ReadInv'
  <2>1. /\ read' \in {"idle", "pending", "failed"}
        /\ read' = "failed" => sock = "broken"
    BY <1>10 DEF OnRequest, DoRead, NoRead
  <2>2. UNCHANGED <<parsed, sock>> /\ read = "request"
    BY <1>10 DEF OnRequest
  <2>3. QED
    BY <2>1, <2>2 DEF ReadInv
<1>11. ASSUME OnWriteFailed PROVE ReadInv'
  BY <1>11 DEF OnWriteFailed, ReadInv, clientVars, readVars
<1>12. ASSUME OnLastWrite PROVE ReadInv'
  BY <1>12 DEF OnLastWrite, DoClose, ReadInv, clientVars, readVars
<1>13. ASSUME OnWrite PROVE ReadInv'
  <2>1. sock # "handed"
    BY <1>13 DEF OnWrite, WriteInv
  <2>2. \/ read' = read
        \/ read' = "pending"
        \/ read' = "failed" /\ sock = "broken"
    BY <1>13 DEF OnWrite, DoRead
  <2>3. UNCHANGED <<sent, finished, parsed, sock, handled>>
    BY <1>13 DEF OnWrite, clientVars
  <2>4. QED
    BY <2>1, <2>2, <2>3 DEF ReadInv
<1>14. QED
  BY <1>1, <1>2, <1>3, <1>4, <1>5, <1>6, <1>7, <1>8, <1>9, <1>10, <1>11, <1>12, <1>13
     DEF Next, Handlers, ConnectionLost, Timeout

-----------------------------------------------------------------------------
(* The write.                                                              *)

\* A step keeps what is known of the write, and that the head is being written.
LEMMA WriteStep ==
    ASSUME IInv, Next
    PROVE  WriteInv' /\ HeadIsBeingWritten'
<1> USE DEF IInv, WriteInv, HeadIsBeingWritten
<1>1. CASE UNCHANGED <<write, queue, sock>>
  BY <1>1
<1>2. ASSUME Breaks PROVE WriteInv' /\ HeadIsBeingWritten'
  BY <1>2 DEF Breaks
<1>3. ASSUME WriteCompletes PROVE WriteInv' /\ HeadIsBeingWritten'
  BY <1>3 DEF WriteCompletes
<1>4. ASSUME OnReadEof PROVE WriteInv' /\ HeadIsBeingWritten'
  BY <1>4 DEF OnReadEof, DoClose
<1>5. ASSUME OnUpgradeTaken PROVE WriteInv' /\ HeadIsBeingWritten'
  BY <1>5 DEF OnUpgradeTaken, HookIsAsked
<1>6. ASSUME OnUpgradeThrows \/ OnRequest PROVE WriteInv' /\ HeadIsBeingWritten'
  <2>1. /\ parsed >= 1 /\ sock # "handed"
        /\ QueueWrite(parsed) /\ UNCHANGED sock
    BY <1>6 DEF OnUpgradeThrows, OnRequest, ReadInv
  <2>2. QED
    BY <2>1, QueueWriteFacts
<1>7. ASSUME OnWriteFailed PROVE WriteInv' /\ HeadIsBeingWritten'
  BY <1>7 DEF OnWriteFailed
<1>8. ASSUME OnLastWrite PROVE WriteInv' /\ HeadIsBeingWritten'
  BY <1>8 DEF OnLastWrite, DoClose
<1>9. ASSUME OnWrite PROVE WriteInv' /\ HeadIsBeingWritten'
  <2>1. sock # "handed" /\ UNCHANGED sock /\ write' = AfterDoWrite(queue')
    BY <1>9 DEF OnWrite
  <2>2. QED
    BY <2>1, DoWriteCases
<1>10. QED
  BY <1>1, <1>2, <1>3, <1>4, <1>5, <1>6, <1>7, <1>8, <1>9
     DEF Next, Handlers, Send, Finish, ConnectionLost, Timeout, ReadCompletes,
         OnReadFailed, readVars, writeVars
-----------------------------------------------------------------------------
(* The queue and its limit.                                                *)

\* A step keeps the limit of the queue and the reason for not reading.
LEMMA BackpressureStep ==
    ASSUME IInv, Next
    PROVE  Backpressure'
<1> USE HttpAssumption DEF IInv
<1>1. ASSUME NEW kind \in Kinds, Send(kind) PROVE Backpressure'
  <2>1. parsed >= 1 => parsed \in 1..parsed
    BY LenProperties DEF TypeOK
  <2>2. /\ UNCHANGED <<parsed, read, write, queue, sock>>
        /\ parsed >= 1 => sent'[parsed] = sent[parsed]
    BY <1>1, <2>1, SentStays DEF Send, readVars, writeVars
  <2>3. QED
    BY <2>2 DEF Backpressure, Alive, ReadInv
<1>2. ASSUME Finish PROVE Backpressure'
  BY <1>2 DEF Finish, Backpressure, Alive, readVars, writeVars
<1>3. ASSUME Breaks PROVE Backpressure'
  BY <1>3 DEF Breaks, Backpressure, Alive
<1>4. ASSUME ReadCompletes PROVE Backpressure'
  <2>1. UNCHANGED queue /\ read = "pending" /\ read' # "idle"
    BY <1>4 DEF ReadCompletes, writeVars
  <2>2. QED
    BY <2>1 DEF Backpressure
<1>5. ASSUME WriteCompletes PROVE Backpressure'
  BY <1>5 DEF WriteCompletes, Backpressure, Alive, clientVars, readVars
<1>6. ASSUME OnReadEof \/ OnUpgradeTaken PROVE Backpressure'
  BY <1>6 DEF OnReadEof, OnUpgradeTaken, DoClose, NoRead, Backpressure, Alive
<1>7. ASSUME OnReadFailed PROVE Backpressure'
  BY <1>7 DEF OnReadFailed, NoRead, Backpressure, Alive, ReadInv, clientVars
<1>8. ASSUME OnUpgradeThrows PROVE Backpressure'
  <2>1. /\ parsed >= 1 /\ read = "request" /\ sent[parsed] = "throws" /\ read' = "idle"
        /\ QueueWrite(parsed) /\ UNCHANGED <<sent, parsed>>
    BY <1>8 DEF OnUpgradeThrows, NoRead, ReadInv, clientVars
  <2>2. Len(queue') = Len(queue) + 1 /\ Len(queue) \in Nat
    BY <2>1, QueueWriteFacts
  <2>3. QED
    BY <2>1, <2>2 DEF Backpressure
<1>9. ASSUME OnRequest PROVE Backpressure'
  <2>1. /\ parsed >= 1 /\ read = "request" /\ QueueWrite(parsed)
        /\ Len(queue') < QueueLimit \/ read' = "idle"
        /\ read' = "idle" => ~(Len(queue') < QueueLimit)
    BY <1>9 DEF OnRequest, DoRead, NoRead, ReadInv
  <2>2. Len(queue') = Len(queue) + 1 /\ Len(queue) \in Nat
    BY <2>1, QueueWriteFacts
  <2>3. QED
    BY <2>1, <2>2 DEF Backpressure
<1>10. ASSUME OnWriteFailed PROVE Backpressure'
  BY <1>10 DEF OnWriteFailed, WriteInv, Backpressure, Alive, clientVars, readVars
<1>11. ASSUME OnLastWrite PROVE Backpressure'
  BY <1>11 DEF OnLastWrite, DoClose, Backpressure, Alive, clientVars, readVars
<1>12. ASSUME OnWrite PROVE Backpressure'
  <2>1. /\ write = "done" /\ queue # << >> /\ queue' = Tail(queue)
        /\ UNCHANGED <<sent, parsed, sock>>
        /\ Len(queue) = QueueLimit => read' # "idle"
        /\ Len(queue) # QueueLimit => read' = read
    BY <1>12 DEF OnWrite, DoRead, WriteInv, clientVars
  <2>2. Len(queue') = Len(queue) - 1 /\ Len(queue) \in Nat /\ Len(queue) <= QueueLimit
    BY <2>1, HeadTailProperties, LenProperties DEF TypeOK, Backpressure
  <2>3. Len(queue') < QueueLimit
    BY <2>2
  <2>4. sock' = "open" /\ read' = "idle" => sent'[parsed'] \in {"malformed", "throws"}
    BY <2>1 DEF Backpressure, Alive
  <2>5. QED
    BY <2>2, <2>3, <2>4 DEF Backpressure
<1>13. QED
  BY <1>1, <1>2, <1>3, <1>4, <1>5, <1>6, <1>7, <1>8, <1>9, <1>10, <1>11, <1>12
     DEF Next, Handlers, ConnectionLost, Timeout

-----------------------------------------------------------------------------
(* What was executed, what is queued and what was delivered.               *)

\* A handler that answers adds the request to both ends that the queue separates.
LEMMA AnswerFits ==
    ASSUME IInv, parsed >= 1, QueueWrite(parsed), handled' = Append(handled, parsed),
           UNCHANGED <<delivered, sock>>
    PROVE  RepliesFit' /\ Popped' = Popped
<1> USE DEF IInv
<1>1. /\ Len(handled') = Len(handled) + 1 /\ Len(handled) \in Nat
      /\ \A i \in 1..Len(handled) : handled'[i] = handled[i]
      /\ handled'[Len(handled) + 1] = parsed
  <2>1. handled \in Seq(1..parsed) /\ parsed \in 1..parsed
    BY DEF TypeOK
  <2>2. QED
    BY <2>1, AppendProperties, LenProperties
<1>2. /\ queue' # << >> /\ Len(queue') = Len(queue) + 1 /\ Len(queue) \in Nat
      /\ \A i \in 1..Len(queue) : queue'[i] = queue[i]
      /\ queue'[Len(queue) + 1] = parsed
      /\ queue = << >> => write' \in {"pending", "failed"}
      /\ queue # << >> => write' = write
  BY QueueWriteFacts
<1>3. Popped' = Popped /\ Popped \in Nat
  BY <1>1, <1>2 DEF Popped, RepliesFit
<1>4. Len(delivered) \in Nat /\ Len(delivered) <= Len(handled)
  <2>1. Len(delivered) \in Nat
    BY LenProperties DEF TypeOK
  <2>2. Len(delivered) = Popped + 1 => queue # << >>
    BY <1>3 DEF RepliesFit
  <2>3. queue # << >> => Len(queue) >= 1
    BY <1>2, EmptySeq DEF TypeOK
  <2>4. Len(delivered) \in {Popped, Popped + 1} /\ Popped + Len(queue) = Len(handled)
    BY <1>1, <1>2 DEF RepliesFit, Popped
  <2>5. QED
    BY <1>1, <1>2, <1>3, <2>1, <2>2, <2>3, <2>4
<1>5. \A i \in 1..Len(queue') : queue'[i] = handled'[Popped + i]
  <2>1. TAKE i \in 1..Len(queue')
  <2>2. CASE i \in 1..Len(queue)
    <3>1. Popped + i \in 1..Len(handled)
      BY <1>1, <1>2, <1>3, <2>2 DEF Popped
    <3>2. QED
      BY <1>1, <1>2, <2>2, <3>1 DEF RepliesFit
  <2>3. CASE i = Len(queue) + 1
    <3>1. Popped + i = Len(handled) + 1
      BY <1>1, <1>2, <2>3 DEF Popped
    <3>2. queue'[i] = parsed /\ handled'[Popped + i] = parsed
      BY <1>1, <1>2, <2>3, <3>1
    <3>3. QED
      BY <3>2
  <2>4. i \in 1..Len(queue) \/ i = Len(queue) + 1
    BY <1>2
  <2>5. QED
    BY <2>2, <2>3, <2>4
<1>6. \A i \in 1..Len(delivered) : delivered[i] = handled'[i]
  BY <1>1, <1>4 DEF RepliesFit
<1>7. /\ write' = "pending" => Len(delivered) = Popped
      /\ write' = "done" => Len(delivered) = Popped + 1
  BY <1>2 DEF RepliesFit
<1>8. QED
  BY <1>2, <1>3, <1>5, <1>6, <1>7 DEF RepliesFit

\* The write that completes delivers the request that follows those delivered.
LEMMA WriteFits ==
    ASSUME IInv, WriteCompletes
    PROVE  /\ RepliesFit' /\ Popped' = Popped /\ Len(delivered) = Popped
           /\ Len(delivered) + 1 \in 1..Len(handled)
           /\ delivered' = Append(delivered, handled[Len(delivered) + 1])
           /\ Len(delivered') = Popped + 1
           /\ \A i \in 1..Popped : delivered'[i] = delivered[i]
<1> USE DEF IInv
<1>1. /\ write = "pending" /\ write' = "done" /\ queue # << >>
      /\ UNCHANGED <<handled, queue>> /\ delivered' = Append(delivered, Head(queue))
  BY DEF WriteCompletes, WriteInv
<1>2. /\ queue \in Seq(1..parsed) /\ Len(queue) \in Nat /\ Len(queue) >= 1
      /\ Head(queue) = queue[1] /\ Head(queue) \in 1..parsed
  BY <1>1, HeadTailProperties, EmptySeq DEF TypeOK
<1>3. Len(handled) \in Nat /\ Popped \in Nat /\ Len(delivered) = Popped /\ Popped' = Popped
  BY <1>1, LenProperties DEF TypeOK, RepliesFit, Popped
<1>4. Head(queue) = handled[Popped + 1] /\ Popped + 1 \in 1..Len(handled)
  BY <1>2, <1>3 DEF RepliesFit, Popped
<1>5. /\ Len(delivered') = Popped + 1
      /\ \A i \in 1..Popped : delivered'[i] = delivered[i]
      /\ delivered'[Popped + 1] = handled[Popped + 1]
  BY <1>1, <1>2, <1>3, <1>4, AppendProperties DEF TypeOK
<1>6. \A i \in 1..Len(delivered') : delivered'[i] = handled'[i]
  BY <1>1, <1>3, <1>5 DEF RepliesFit
<1>7. QED
  BY <1>1, <1>3, <1>4, <1>5, <1>6 DEF RepliesFit

\* A reply that leaves the queue has been delivered.
LEMMA PopFits ==
    ASSUME IInv, OnWrite
    PROVE  /\ RepliesFit' /\ Popped' = Popped + 1
           /\ Len(delivered) = Popped + 1 /\ KeepAlive(delivered[Popped + 1])
<1> USE DEF IInv
<1>1. /\ write = "done" /\ queue # << >> /\ queue' = Tail(queue)
      /\ UNCHANGED <<sent, sock, handled, delivered>> /\ write' = AfterDoWrite(queue')
      /\ KeepAlive(Head(queue))
  BY DEF OnWrite, WriteInv, clientVars
<1>2. /\ queue \in Seq(1..parsed) /\ Len(queue) \in Nat /\ Len(queue) >= 1
      /\ Len(queue') = Len(queue) - 1 /\ Head(queue) = queue[1]
      /\ \A i \in 1..Len(queue') : queue'[i] = queue[i + 1]
  BY <1>1, HeadTailProperties, EmptySeq DEF TypeOK
<1>3. /\ Len(handled) \in Nat /\ Popped \in Nat /\ Popped' = Popped + 1
      /\ Len(delivered) = Popped + 1
  BY <1>1, <1>2, LenProperties DEF TypeOK, RepliesFit, Popped
<1>4. delivered[Popped + 1] = Head(queue)
  BY <1>2, <1>3 DEF RepliesFit
<1>5. \A i \in 1..Len(queue') : queue'[i] = handled[Popped' + i]
  <2>1. TAKE i \in 1..Len(queue')
  <2>2. i + 1 \in 1..Len(queue) /\ Popped + (i + 1) = Popped' + i
    BY <1>2, <1>3
  <2>3. QED
    BY <1>2, <2>2 DEF RepliesFit
<1>6. write' # "done"
  BY <1>1, DoWriteCases
<1>7. QED
  BY <1>1, <1>3, <1>4, <1>5, <1>6 DEF RepliesFit
\* A step keeps the three sequences fitting together.
LEMMA RepliesStep ==
    ASSUME IInv, Next
    PROVE  RepliesFit'
<1> USE DEF IInv
<1>1. ASSUME UNCHANGED <<handled, queue, delivered>>, write' \in {"idle", "failed", write}
      PROVE  RepliesFit'
  BY <1>1 DEF RepliesFit, Popped
<1>2. ASSUME \/ Breaks \/ OnReadEof \/ OnReadFailed \/ OnUpgradeTaken
             \/ OnWriteFailed \/ OnLastWrite
      PROVE  RepliesFit'
  <2>1. UNCHANGED <<handled, queue, delivered>> /\ write' \in {"idle", "failed", write}
    BY <1>2 DEF Breaks, OnReadEof, OnReadFailed, OnUpgradeTaken, OnWriteFailed, OnLastWrite
  <2>2. QED
    BY <1>1, <2>1
<1>3. ASSUME OnUpgradeThrows \/ OnRequest PROVE RepliesFit'
  <2>1. /\ parsed >= 1 /\ QueueWrite(parsed) /\ handled' = Append(handled, parsed)
        /\ UNCHANGED <<delivered, sock>>
    BY <1>3 DEF OnUpgradeThrows, OnRequest, HandleRequest, ReadInv
  <2>2. QED
    BY <2>1, AnswerFits
<1>4. CASE WriteCompletes
  BY <1>4, WriteFits
<1>5. CASE OnWrite
  BY <1>5, PopFits
<1>6. QED
  BY <1>1, <1>2, <1>3, <1>4, <1>5
     DEF Next, Handlers, Send, Finish, ConnectionLost, Timeout, ReadCompletes,
         readVars, writeVars
\* A step that delivers nothing and takes nothing off the queue.
LEMMA QuietStep ==
    ASSUME IInv, Next, ~WriteCompletes, ~OnWrite
    PROVE  delivered' = delivered /\ Popped' = Popped
<1>1. ASSUME OnUpgradeThrows \/ OnRequest PROVE delivered' = delivered /\ Popped' = Popped
  <2>1. /\ parsed >= 1 /\ QueueWrite(parsed) /\ handled' = Append(handled, parsed)
        /\ UNCHANGED <<delivered, sock>>
    BY <1>1 DEF OnUpgradeThrows, OnRequest, HandleRequest, ReadInv, IInv
  <2>2. QED
    BY <2>1, AnswerFits
<1>2. CASE UNCHANGED <<handled, queue, delivered>>
  BY <1>2 DEF Popped
<1>3. QED
  BY <1>1, <1>2
     DEF Next, Handlers, Send, Finish, ConnectionLost, Timeout, Breaks, ReadCompletes,
         OnReadEof, OnReadFailed, OnUpgradeTaken, OnWriteFailed, OnLastWrite,
         readVars, writeVars

\* A step keeps the reply to "Connection: close" the last one.
LEMMA LastStep ==
    ASSUME IInv, Next
    PROVE  LastIsLast'
<1> USE DEF IInv
<1>1. \A i \in 1..Len(delivered) : sent'[delivered[i]] = sent[delivered[i]]
  <2>1. TAKE i \in 1..Len(delivered)
  <2>2. delivered[i] \in 1..parsed
    BY ElementOfSeq DEF TypeOK
  <2>3. QED
    BY <2>2, SentStays
<1>2. Popped \in Nat /\ Popped <= Len(delivered) /\ Len(delivered) \in Nat
  BY DEF RepliesFit
<1>3. \A i \in 1..Popped : sent'[delivered[i]] # "close"
  BY <1>1, <1>2 DEF LastIsLast, KeepAlive
<1>4. \A i \in 1..Popped' : sent'[delivered'[i]] # "close"
  <2>1. CASE WriteCompletes
    BY <1>3, <2>1, WriteFits
  <2>2. CASE OnWrite
    <3>1. /\ Popped' = Popped + 1 /\ Len(delivered) = Popped + 1
          /\ sent[delivered[Popped + 1]] # "close" /\ delivered' = delivered
      BY <2>2, PopFits DEF KeepAlive, OnWrite
    <3>2. sent'[delivered[Popped + 1]] # "close"
      BY <1>1, <1>2, <3>1
    <3>3. QED
      BY <1>2, <1>3, <3>1, <3>2
  <2>3. CASE ~WriteCompletes /\ ~OnWrite
    BY <1>3, <2>3, QuietStep
  <2>4. QED
    BY <2>1, <2>2, <2>3
<1>5. ASSUME sock' = "shut", ~finished'
      PROVE  delivered' # << >> /\ sent'[delivered'[Len(delivered')]] = "close"
  <2>1. delivered' = delivered
    <3>1. ~WriteCompletes
      BY <1>5 DEF WriteCompletes, WriteInv
    <3>2. OnWrite => delivered' = delivered
      BY DEF OnWrite
    <3>3. QED
      BY <3>1, <3>2, QuietStep
  <2>2. delivered # << >> /\ sent[delivered[Len(delivered)]] = "close"
    <3>1. CASE sock = "shut" /\ ~finished
      BY <3>1 DEF LastIsLast, KeepAlive
    <3>2. CASE OnLastWrite
      <4>1. /\ write = "done" /\ queue # << >> /\ sent[Head(queue)] = "close"
        BY <3>2 DEF OnLastWrite, KeepAlive, WriteInv
      <4>2. Head(queue) = queue[1] /\ Len(queue) \in Nat /\ Len(queue) >= 1
        BY <4>1, HeadTailProperties, EmptySeq DEF TypeOK
      <4>3. Len(delivered) = Popped + 1 /\ delivered[Popped + 1] = Head(queue)
        BY <1>2, <4>1, <4>2 DEF RepliesFit
      <4>4. delivered # << >>
        BY <1>2, <4>3, EmptySeq
      <4>5. QED
        BY <4>1, <4>3, <4>4
    <3>3. CASE OnReadEof
      BY <1>5, <3>3 DEF OnReadEof, ReadInv, clientVars
    <3>4. CASE ~(sock = "shut" /\ ~finished) /\ ~OnLastWrite /\ ~OnReadEof
      <4>1. finished => finished'
        BY DEF Next, Handlers, Send, Finish, ConnectionLost, Timeout, Breaks,
               ReadCompletes, WriteCompletes, OnReadEof, OnReadFailed, OnUpgradeTaken,
               OnUpgradeThrows, OnRequest, OnWriteFailed, OnLastWrite, OnWrite, clientVars
      <4>2. sock' = sock \/ sock' # "shut"
        BY <3>4
           DEF Next, Handlers, Send, Finish, ConnectionLost, Timeout, Breaks,
               ReadCompletes, WriteCompletes, OnReadFailed, OnUpgradeTaken,
               OnUpgradeThrows, OnRequest, OnWriteFailed, OnWrite
      <4>3. QED
        BY <1>5, <3>4, <4>1, <4>2
    <3>5. QED
      BY <3>1, <3>2, <3>3, <3>4
  <2>3. Len(delivered) \in 1..Len(delivered)
    BY <1>2, <2>2, EmptySeq DEF TypeOK
  <2>4. QED
    BY <1>1, <2>1, <2>2, <2>3
<1>6. QED
  BY <1>4, <1>5 DEF LastIsLast, KeepAlive
-----------------------------------------------------------------------------
(* The invariant.                                                          *)

\* A session that run() has just started satisfies the invariant.
LEMMA InitInv ==
    ASSUME Init
    PROVE  IInv
<1>1. << >> \in Seq(Kinds) /\ << >> \in Seq(1..parsed) /\ Len(<< >>) = 0
  BY EmptySeq
<1>2. Len(sent) = 0 /\ Len(queue) = 0 /\ Len(handled) = 0 /\ Len(delivered) = 0
  BY <1>1 DEF Init
<1>3. TypeOK
  <2>1. sent \in Seq(Kinds) /\ Len(sent) <= MaxRequests /\ parsed \in 0..Len(sent)
    BY HttpAssumption, <1>1, <1>2 DEF Init
  <2>2. /\ queue \in Seq(1..parsed)
        /\ handled \in Seq(1..parsed) /\ delivered \in Seq(1..parsed)
    BY Zenon, <1>1 DEF Init
  <2>3. QED
    BY <2>1, <2>2 DEF Init, TypeOK
<1>4. ReadInv /\ WriteInv /\ HeadIsBeingWritten
  BY DEF Init, ReadInv, WriteInv, HeadIsBeingWritten
<1>5. Popped = 0
  BY <1>2 DEF Popped
<1>6. RepliesFit /\ LastIsLast
  BY <1>2, <1>5 DEF Init, RepliesFit, LastIsLast
<1>7. Backpressure
  BY <1>2, HttpAssumption DEF Init, Backpressure
<1>8. QED
  BY <1>3, <1>4, <1>6, <1>7 DEF IInv

\* The invariant is inductive.
LEMMA StepInv ==
    ASSUME IInv, [Next]_vars
    PROVE  IInv'
<1>1. CASE Next
  <2>1. TypeOK /\ ReadInv /\ WriteInv
    BY DEF IInv
  <2>2. QED
    BY <1>1, <2>1, TypeStep, ReadStep, WriteStep, RepliesStep, LastStep, BackpressureStep
       DEF IInv
<1>2. CASE UNCHANGED vars
  BY <1>2
     DEF vars, clientVars, readVars, writeVars, IInv, TypeOK, ReadInv, WriteInv,
         RepliesFit, Popped, LastIsLast, KeepAlive, HeadIsBeingWritten, Backpressure, Alive
<1>3. QED
  BY <1>1, <1>2

\* Every reachable state of http_session satisfies the invariant.
THEOREM Invariance == Spec => []IInv
<1>1. Init => IInv
  BY InitInv
<1>2. IInv /\ [Next]_vars => IInv'
  BY StepInv
<1>3. QED
  BY <1>1, <1>2, PTL DEF Spec

-----------------------------------------------------------------------------
(* What follows.                                                           *)

\* Without a queue everything executed has been delivered.
LEMMA EmptyQueueAnswersAll ==
    ASSUME IInv, queue = << >>
    PROVE  delivered = handled
<1>1. delivered \in Seq(1..parsed) /\ handled \in Seq(1..parsed)
  BY DEF IInv, TypeOK
<1>2. Len(handled) \in Nat /\ Len(queue) = 0
  BY <1>1, LenProperties, EmptySeq
<1>3. /\ Len(delivered) = Len(handled)
      /\ \A i \in 1..Len(delivered) : delivered[i] = handled[i]
  BY <1>2 DEF IInv, RepliesFit, Popped
<1>4. QED
  BY <1>1, <1>3, SeqEqual

\* The variables keep their types.
THEOREM TypeCorrect == Spec => []TypeOK
<1>1. IInv => TypeOK
  BY DEF IInv
<1>2. QED
  BY <1>1, Invariance, PTL

\* On an open connection a queued reply is always on its way: queue_write and
\* on_write start every write that is due.
THEOREM QueueNeverStalls == Spec => []HeadIsBeingWritten
<1>1. IInv => HeadIsBeingWritten
  BY DEF IInv
<1>2. QED
  BY <1>1, Invariance, PTL

\* on_read stops reading at the limit of the queue, and on_write resumes it.
THEOREM QueueIsBounded == Spec => []Backpressure
<1>1. IInv => Backpressure
  BY DEF IInv
<1>2. QED
  BY <1>1, Invariance, PTL

\* The websocket hook gets a socket no write of the session is using.
THEOREM HandoverAfterReplies == Spec => []HandoverIsClean
<1>1. IInv => HandoverIsClean
  BY EmptyQueueAnswersAll DEF IInv, WriteInv, HandoverIsClean
<1>2. QED
  BY <1>1, Invariance, PTL

\* A request that on_read executed and that has no reply has an explanation.
THEOREM NothingUnexplained == Spec => []UnansweredIsExplained
<1>1. ASSUME IInv PROVE UnansweredIsExplained
  <2>1. DOMAIN delivered = 1..Len(delivered)
    BY <1>1, LenProperties DEF IInv, TypeOK
  <2>2. \A i \in DOMAIN delivered : ~KeepAlive(delivered[i]) => i = Len(delivered)
    <3>1. TAKE i \in DOMAIN delivered
    <3>2. i \in 1..Len(delivered)
      BY Zenon, <2>1
    <3>3. i \in 1..Popped \/ i = Len(delivered)
      <4>1. Popped \in Nat /\ (Len(delivered) = Popped \/ Len(delivered) = Popped + 1)
        BY <1>1 DEF IInv, RepliesFit
      <4>2. QED
        BY <3>2, <4>1
    <3>4. i \in 1..Popped => KeepAlive(delivered[i])
      BY <1>1 DEF IInv, LastIsLast
    <3>5. QED
      BY <3>3, <3>4
  <2>3. ~Alive /\ sock \in {"open", "handed"} => delivered = handled
    BY <1>1, EmptyQueueAnswersAll DEF IInv, Alive, WriteInv, HeadIsBeingWritten
  <2>4. QED
    BY <1>1, <2>2, <2>3 DEF IInv, LastIsLast, UnansweredIsExplained
<1>2. QED
  BY <1>1, Invariance, PTL

-----------------------------------------------------------------------------
(* The refinement.                                                         *)

\* A handler that answers is Take.
LEMMA AnswerTakes ==
    ASSUME IInv, OnUpgradeThrows \/ OnRequest
    PROVE  \E request \in 1..MaxRequests : Replies!Take(request)
<1>1. /\ read = "request" /\ parsed >= 1 /\ handled' = Append(handled, parsed)
      /\ UNCHANGED <<delivered, sock>> /\ \A i \in DOMAIN handled : handled[i] < parsed
  BY DEF IInv, ReadInv, OnUpgradeThrows, OnRequest, HandleRequest
<1>2. parsed \in 1..MaxRequests
  <2>1. Len(sent) \in Nat /\ Len(sent) <= MaxRequests /\ parsed \in 0..Len(sent)
    BY LenProperties DEF IInv, TypeOK
  <2>2. QED
    BY <1>1, <2>1, HttpAssumption
<1>3. Len(handled) - Len(delivered) < QueueLimit
  <2>1. Len(queue) < QueueLimit /\ Len(queue) \in Nat /\ Len(handled) \in Nat
    BY <1>1, LenProperties DEF IInv, Backpressure, TypeOK
  <2>2. Len(delivered) \in {Popped, Popped + 1} /\ Popped = Len(handled) - Len(queue)
    BY DEF IInv, RepliesFit, Popped
  <2>3. QED
    BY <2>1, <2>2, HttpAssumption
<1>4. Replies!Take(parsed)
  BY <1>1, <1>3 DEF Replies!Take
<1>5. QED
  BY <1>2, <1>4

\* The completion of a write is Answer.
LEMMA WriteAnswers ==
    ASSUME IInv, WriteCompletes
    PROVE  Replies!Answer
<1>1. /\ sock = "open" /\ UNCHANGED <<handled, sock>>
  BY DEF IInv, WriteInv, WriteCompletes
<1>2. /\ Len(delivered) + 1 \in 1..Len(handled)
      /\ delivered' = Append(delivered, handled[Len(delivered) + 1])
  BY WriteFits
<1>3. Len(delivered) < Len(handled)
  <2>1. Len(delivered) \in Nat /\ Len(handled) \in Nat
    BY LenProperties DEF IInv, TypeOK
  <2>2. QED
    BY <1>2, <2>1
<1>4. QED
  BY <1>1, <1>2, <1>3 DEF Replies!Answer

\* http_session answers its requests as PipelinedReplies promises: in their order, once
\* each, at most queue_limit ahead of the client, and none after the end.
THEOREM Implements == Spec => RepliesInOrder
<1>1. Init => Replies!Init
  BY DEF Init, Replies!Init
<1>2. ASSUME IInv, [Next]_vars PROVE [Replies!Next]_(Replies!vars)
  <2>1. CASE OnUpgradeThrows \/ OnRequest
    BY <1>2, <2>1, AnswerTakes DEF Replies!Next
  <2>2. CASE WriteCompletes
    BY <1>2, <2>2, WriteAnswers DEF Replies!Next
  <2>3. ASSUME UNCHANGED <<handled, delivered>>, sock' = sock \/ sock' # "open"
        PROVE  [Replies!Next]_(Replies!vars)
    <3>1. CASE (sock = "open") = (sock' = "open")
      BY <2>3, <3>1 DEF Replies!vars
    <3>2. CASE ~((sock = "open") = (sock' = "open"))
      <4>1. Replies!Close
        BY <2>3, <3>2 DEF Replies!Close
      <4>2. QED
        BY <4>1 DEF Replies!Next
    <3>3. QED
      BY <3>1, <3>2
  <2>4. QED
    BY <1>2, <2>1, <2>2, <2>3
       DEF Next, Handlers, Send, Finish, ConnectionLost, Timeout, Breaks, ReadCompletes,
           OnReadEof, OnReadFailed, OnUpgradeTaken, OnWriteFailed, OnLastWrite, OnWrite,
           DoClose, readVars, writeVars, vars
<1>3. QED
  BY <1>1, <1>2, Invariance, PTL DEF Spec, RepliesInOrder, Replies!Spec
=============================================================================
