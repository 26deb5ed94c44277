------------------------- MODULE SqlBufferingProofs -------------------------
(***************************************************************************)
(* What becomes of the rows of a buffer, for any size of the buffer and of *)
(* a packet, any number of rows, and any faults of the server.             *)
(*                                                                         *)
(* A row is followed through the five sequences it may be in: the buffer,  *)
(* the rows a flush has not cut yet, the packet it tries, the transaction  *)
(* and the table.                                                          *)
(***************************************************************************)
EXTENDS SqlBuffering, SequenceTheorems, TLAPS

-----------------------------------------------------------------------------
(* Sequences whose rows are in the order of append, but for a set X of     *)
(* rows that may be anywhere.                                              *)

Fits(a, b, X)  == a < b \/ a \in X \/ b \in X
Ordered(s, X)  == \A i, j \in DOMAIN s : i < j => Fits(s[i], s[j], X)
Ahead(A, B, X) == \A a \in A, b \in B : Fits(a, b, X)

\* A table, and a transaction that comes after it.
Lined(table, open, X) ==
    Ordered(table, X) /\ Ordered(open, X) /\ Ahead(Range(table), Range(open), X)

\* More rows may be anywhere, and those that may be are in no order.
LEMMA OrderLoosens ==
    ASSUME NEW X, NEW Y, X \subseteq Y
    PROVE  /\ \A s : Ordered(s, X) => Ordered(s, Y)
           /\ \A A, B : Ahead(A, B, X) => Ahead(A, B, Y)
  BY DEF Fits, Ordered, Ahead

LEMMA LooseRows ==
    ASSUME NEW X, NEW A, NEW B, A \subseteq X
    PROVE  Ahead(A, B, X) /\ Ahead(B, A, X) /\ \A s : Range(s) \subseteq X => Ordered(s, X)
  BY DEF Fits, Ordered, Ahead, Range

LEMMA NothingInEmpty ==
    Range(<< >>) = {} /\ \A X : Ordered(<< >>, X) /\ \A A : Ahead(A, {}, X) /\ Ahead({}, A, X)
  BY DEF Range, Ordered, Ahead

LEMMA RangeOfConcat ==
    ASSUME NEW S, NEW s \in Seq(S), NEW t \in Seq(S)
    PROVE  s \o t \in Seq(S) /\ Range(s \o t) = Range(s) \cup Range(t)
<1>l. Len(s) \in Nat /\ Len(t) \in Nat /\ DOMAIN s = 1..Len(s) /\ DOMAIN t = 1..Len(t)
  BY LenProperties
<1>1. /\ s \o t \in Seq(S) /\ DOMAIN (s \o t) = 1..(Len(s) + Len(t))
      /\ \A i \in 1..(Len(s) + Len(t)) :
            (s \o t)[i] = IF i <= Len(s) THEN s[i] ELSE t[i - Len(s)]
  BY ConcatProperties, LenProperties
<1> DEFINE u == s \o t
<1> HIDE DEF u
<1>2. ASSUME NEW x \in Range(u) PROVE x \in Range(s) \cup Range(t)
  <2>1. PICK i \in 1..(Len(s) + Len(t)) : x = u[i]
    BY <1>1, <1>2 DEF Range, u
  <2>2. CASE i <= Len(s)
    BY <1>l, <1>1, <2>1, <2>2 DEF Range, u
  <2>3. CASE i > Len(s)
    <3>1. i - Len(s) \in 1..Len(t) /\ x = t[i - Len(s)]
      BY <1>l, <1>1, <2>1, <2>3 DEF u
    <3>2. QED
      BY <1>l, <3>1 DEF Range
  <2>4. QED
    BY <1>l, <2>2, <2>3
<1>3. ASSUME NEW x \in Range(s) PROVE x \in Range(u)
  <2>1. PICK i \in 1..Len(s) : x = s[i]
    BY <1>l, <1>3 DEF Range
  <2>2. i \in 1..(Len(s) + Len(t)) /\ u[i] = s[i]
    BY <1>l, <1>1 DEF u
  <2>3. QED
    BY <1>1, <2>1, <2>2 DEF Range, u
<1>4. ASSUME NEW x \in Range(t) PROVE x \in Range(u)
  <2>1. PICK i \in 1..Len(t) : x = t[i]
    BY <1>l, <1>4 DEF Range
  <2>2. Len(s) + i \in 1..(Len(s) + Len(t)) /\ u[Len(s) + i] = t[i]
    <3>1. Len(s) + i \in 1..(Len(s) + Len(t)) /\ ~(Len(s) + i <= Len(s)) /\ (Len(s) + i) - Len(s) = i
      BY <1>l
    <3>2. QED
      BY <1>1, <3>1 DEF u
  <2>3. QED
    BY <1>1, <2>1, <2>2 DEF Range, u
<1>5. QED
  BY <1>1, <1>2, <1>3, <1>4 DEF u

LEMMA OrderOfConcat ==
    ASSUME NEW S, NEW s \in Seq(S), NEW t \in Seq(S), NEW X,
           Ordered(s, X), Ordered(t, X), Ahead(Range(s), Range(t), X)
    PROVE  Ordered(s \o t, X)
<1>l. Len(s) \in Nat /\ Len(t) \in Nat /\ DOMAIN s = 1..Len(s) /\ DOMAIN t = 1..Len(t)
  BY LenProperties
<1>1. /\ DOMAIN (s \o t) = 1..(Len(s) + Len(t))
      /\ \A i \in 1..(Len(s) + Len(t)) :
            (s \o t)[i] = IF i <= Len(s) THEN s[i] ELSE t[i - Len(s)]
  BY ConcatProperties, LenProperties
<1> DEFINE u == s \o t
<1> HIDE DEF u
<1>2. ASSUME NEW i \in DOMAIN u
      PROVE  \/ i <= Len(s) /\ i \in DOMAIN s /\ u[i] = s[i] /\ u[i] \in Range(s)
             \/ /\ i > Len(s) /\ i - Len(s) \in DOMAIN t
                /\ u[i] = t[i - Len(s)] /\ u[i] \in Range(t)
  <2>1. CASE i <= Len(s)
    BY <1>l, <1>1, <1>2, <2>1 DEF Range, u
  <2>2. CASE i > Len(s)
    <3>1. i - Len(s) \in 1..Len(t) /\ u[i] = t[i - Len(s)]
      BY <1>l, <1>1, <1>2, <2>2 DEF u
    <3>2. QED
      BY <1>l, <2>2, <3>1 DEF Range
  <2>3. QED
    BY <1>l, <1>1, <2>1, <2>2 DEF u
<1>3. ASSUME NEW i \in DOMAIN u, NEW j \in DOMAIN u, i < j PROVE Fits(u[i], u[j], X)
  <2>0. i \in Nat /\ j \in Nat
    BY <1>l, <1>1 DEF u
  <2>1. CASE j <= Len(s)
    <3>1. i \in DOMAIN s /\ j \in DOMAIN s /\ u[i] = s[i] /\ u[j] = s[j]
      BY <1>l, <1>2, <1>3, <2>0, <2>1
    <3>2. QED
      BY <1>3, <3>1 DEF Ordered
  <2>2. CASE i > Len(s)
    <3>1. /\ i - Len(s) \in DOMAIN t /\ j - Len(s) \in DOMAIN t /\ i - Len(s) < j - Len(s)
          /\ u[i] = t[i - Len(s)] /\ u[j] = t[j - Len(s)]
      BY <1>l, <1>2, <1>3, <2>0, <2>2
    <3>2. QED
      BY <3>1 DEF Ordered
  <2>3. CASE i <= Len(s) /\ j > Len(s)
    <3>1. u[i] \in Range(s) /\ u[j] \in Range(t)
      BY <1>l, <1>2, <2>0, <2>3
    <3>2. QED
      BY <3>1 DEF Ahead
  <2>4. QED
    BY <1>l, <2>0, <2>1, <2>2, <2>3
<1>4. QED
  BY <1>3 DEF Ordered, u

\* A sequence cut in two.
LEMMA CutInTwo ==
    ASSUME NEW S, NEW s \in Seq(S), NEW n \in 0..Len(s)
    PROVE  LET front == SubSeq(s, 1, n)
               back  == SubSeq(s, n + 1, Len(s))
           IN  /\ front \in Seq(S) /\ back \in Seq(S)
               /\ Range(s) = Range(front) \cup Range(back)
               /\ \A X : Ordered(s, X) => /\ Ordered(front, X) /\ Ordered(back, X)
                                          /\ Ahead(Range(front), Range(back), X)
<1> DEFINE front == SubSeq(s, 1, n)
           back  == SubSeq(s, n + 1, Len(s))
<1>l. Len(s) \in Nat /\ DOMAIN s = 1..Len(s) /\ \A i \in 1..Len(s) : s[i] \in S
  BY LenProperties
<1>f. /\ front \in Seq(S) /\ DOMAIN front = 1..n
      /\ \A i \in 1..n : front[i] = s[i]
  <2>1. \A i \in 1..n : s[i] \in S
    BY <1>l
  <2>2. /\ front \in Seq(S) /\ Len(front) = (IF 1 <= n THEN n - 1 + 1 ELSE 0)
        /\ \A i \in 1..(n - 1 + 1) : front[i] = s[1 + i - 1]
    BY <2>1, SubSeqProperties
  <2>3. Len(front) = n /\ n - 1 + 1 = n /\ \A i \in 1..n : 1 + i - 1 = i
    BY <2>2
  <2> HIDE DEF front
  <2>4. QED
    BY <2>2, <2>3, LenProperties
<1>b. /\ back \in Seq(S) /\ DOMAIN back = 1..(Len(s) - n)
      /\ \A i \in 1..(Len(s) - n) : back[i] = s[n + i]
  <2>1. \A i \in (n + 1)..Len(s) : s[i] \in S
    BY <1>l
  <2>2. /\ back \in Seq(S)
        /\ Len(back) = (IF n + 1 <= Len(s) THEN Len(s) - (n + 1) + 1 ELSE 0)
        /\ \A i \in 1..(Len(s) - (n + 1) + 1) : back[i] = s[n + 1 + i - 1]
    BY <1>l, <2>1, SubSeqProperties
  <2>3. /\ Len(back) = Len(s) - n /\ Len(s) - (n + 1) + 1 = Len(s) - n
        /\ \A i \in 1..(Len(s) - n) : n + 1 + i - 1 = n + i
    <3> HIDE DEF back
    <3>1. n \in Nat /\ n <= Len(s)
      BY <1>l
    <3>2. Len(s) - (n + 1) + 1 = Len(s) - n /\ \A i \in 1..(Len(s) - n) : n + 1 + i - 1 = n + i
      BY <1>l, <3>1
    <3>3. Len(back) = Len(s) - n
      <4>1. Len(back) = (IF n + 1 <= Len(s) THEN Len(s) - (n + 1) + 1 ELSE 0)
        BY <2>2
      <4>2. CASE n + 1 <= Len(s)
        BY <3>1, <3>2, <4>1, <4>2
      <4>3. CASE ~(n + 1 <= Len(s))
        <5>1. \A i, j \in Nat : i <= j /\ ~(i + 1 <= j) => j - i = 0
          OBVIOUS
        <5>2. QED
          BY <1>l, <3>1, <4>1, <4>3, <5>1
      <4>4. QED
        BY <4>2, <4>3
    <3>4. QED
      BY <3>2, <3>3
  <2> HIDE DEF back
  <2>4. QED
    BY <2>2, <2>3, LenProperties
<1> HIDE DEF front, back
<1>1. Range(front) \subseteq Range(s)
  BY <1>l, <1>f DEF Range
<1>2. ASSUME NEW x \in Range(back) PROVE \E i \in 1..(Len(s) - n) : x = s[n + i]
  BY <1>b, <1>2 DEF Range
<1>3. \A i \in 1..(Len(s) - n) : n + i \in DOMAIN s
  BY <1>l
<1>4. Range(back) \subseteq Range(s)
  BY <1>2, <1>3 DEF Range
<1>5. ASSUME NEW x \in Range(s) PROVE x \in Range(front) \cup Range(back)
  <2>1. PICK i \in 1..Len(s) : x = s[i]
    BY <1>l, <1>5 DEF Range
  <2>2. CASE i <= n
    BY <1>f, <2>1, <2>2 DEF Range
  <2>3. CASE i > n
    <3>1. i - n \in 1..(Len(s) - n) /\ n + (i - n) = i
      BY <1>l, <2>3
    <3>2. QED
      BY <1>b, <2>1, <3>1 DEF Range
  <2>4. QED
    BY <1>l, <2>2, <2>3
<1>6. ASSUME NEW X, Ordered(s, X)
      PROVE  Ordered(front, X) /\ Ordered(back, X) /\ Ahead(Range(front), Range(back), X)
  <2>1. Ordered(front, X)
    BY <1>l, <1>f, <1>6 DEF Ordered
  <2>2. ASSUME NEW i \in DOMAIN back, NEW j \in DOMAIN back, i < j
        PROVE  Fits(back[i], back[j], X)
    <3>1. n + i \in DOMAIN s /\ n + j \in DOMAIN s /\ back[i] = s[n + i] /\ back[j] = s[n + j]
      BY <1>b, <1>3
    <3>2. n + i < n + j
      BY <1>b, <1>l, <2>2
    <3>3. QED
      BY <1>6, <3>1, <3>2 DEF Ordered
  <2>3. ASSUME NEW a \in Range(front), NEW b \in Range(back) PROVE Fits(a, b, X)
    <3>1. PICK i \in 1..n : a = s[i]
      BY <1>f, <2>3 DEF Range
    <3>2. PICK j \in 1..(Len(s) - n) : b = s[n + j]
      BY <1>2, <2>3
    <3>3. i \in DOMAIN s /\ n + j \in DOMAIN s /\ i < n + j
      BY <1>l, <1>3
    <3>4. QED
      BY <1>6, <3>1, <3>2, <3>3 DEF Ordered
  <2>4. QED
    BY <2>1, <2>2, <2>3 DEF Ordered, Ahead
<1>7. QED
  BY <1>f, <1>b, <1>1, <1>4, <1>5, <1>6 DEF front, back

LEMMA OneRow ==
    ASSUME NEW x
    PROVE  Range(<<x>>) = {x} /\ \A X : Ordered(<<x>>, X)
  BY DEF Range, Ordered

LEMMA AppendedLast ==
    ASSUME NEW S, NEW s \in Seq(S), NEW x \in S
    PROVE  /\ Append(s, x) \in Seq(S)
           /\ Range(Append(s, x)) = Range(s) \cup {x}
           /\ \A X : Ordered(s, X) /\ Ahead(Range(s), {x}, X) => Ordered(Append(s, x), X)
<1>1. <<x>> \in Seq(S) /\ Append(s, x) = s \o <<x>>
  OBVIOUS
<1> DEFINE t == <<x>>
<1>2. Range(t) = {x} /\ \A X : Ordered(t, X)
  BY OneRow
<1> HIDE DEF t
<1>3. t \in Seq(S) /\ Append(s, x) = s \o t
  BY <1>1 DEF t
<1>4. s \o t \in Seq(S) /\ Range(s \o t) = Range(s) \cup {x}
  BY <1>2, <1>3, RangeOfConcat
<1>5. ASSUME NEW X, Ordered(s, X), Ahead(Range(s), {x}, X)
      PROVE  Ordered(s \o t, X)
  BY <1>2, <1>3, <1>5, OrderOfConcat
<1>6. QED
  BY <1>3, <1>4, <1>5

-----------------------------------------------------------------------------
(* Types.                                                                  *)

ServerTyped ==
    /\ inTrx \in BOOLEAN /\ rolledBack \in BOOLEAN
    /\ trx \in Seq(Rows) /\ committed \in Seq(Rows)

FlushTyped ==
    /\ pc \in {"idle", "begin", "cut", "send", "commit", "closed"}
    /\ rest \in Seq(Rows) /\ packet \in Seq(Rows)
    /\ tryNum \in 0..maxTry - 1 /\ appending \in 0..MaxRows

BufferTyped == useTRX \in BOOLEAN /\ closing \in BOOLEAN /\ buffer \in Seq(Rows)

HistoryTyped ==
    /\ nextRow \in 1..MaxRows + 1 /\ given \in Seq(Rows)
    /\ failed \in BOOLEAN /\ suspect \subseteq Rows

LEMMA TypeParts ==
    TypeOK <=> /\ ServerTyped /\ FlushTyped /\ BufferTyped /\ HistoryTyped
               /\ nFaults \in 0..MaxFaults
  BY DEF TypeOK, ServerTyped, FlushTyped, BufferTyped, HistoryTyped

LEMMA ServerKeepsTypes ==
    ASSUME ServerTyped, NEW rows \in Seq(Rows),
           \/ Execute(rows) \/ RollBack(rows)
           \/ /\ committed' \in {committed, committed \o trx} /\ trx' = << >>
              /\ inTrx' \in BOOLEAN /\ rolledBack' \in BOOLEAN
    PROVE  ServerTyped'
<1>1. /\ << >> \in Seq(Rows) /\ committed \o rows \in Seq(Rows)
      /\ trx \o rows \in Seq(Rows) /\ committed \o trx \in Seq(Rows)
  BY ConcatProperties DEF ServerTyped
<1>2. QED
  BY <1>1 DEF Execute, RollBack, ServerTyped, Rows

LEMMA LeaveIsTyped ==
    ASSUME Leave, closing \in BOOLEAN
    PROVE  FlushTyped'
  BY SqlAssumption DEF Leave, FlushTyped, SqlAssumption, Rows

LEMMA RangeIsRows ==
    ASSUME NEW S, NEW s \in Seq(S)
    PROVE  Range(s) \subseteq S
  BY DEF Range

LEMMA ThrowIsTyped ==
    ASSUME TypeOK, Throw
    PROVE  FlushTyped' /\ BufferTyped' /\ HistoryTyped'
<1>1. Range(given) \subseteq Rows
  BY RangeIsRows DEF TypeOK
<1>2. QED
  BY <1>1, LeaveIsTyped DEF Throw, TypeOK, BufferTyped, HistoryTyped, bufferVars, Rows

LEMMA TryAgainIsTyped ==
    ASSUME TypeOK, NEW rows \in Seq(Rows), TryAgain(rows)
    PROVE  FlushTyped' /\ BufferTyped' /\ HistoryTyped'
<1>1. Range(rows) \subseteq Rows
  BY RangeIsRows
<1>2. tryNum' \in 0..maxTry - 1
  BY SqlAssumption DEF TryAgain, TypeOK, SqlAssumption
<1>3. QED
  BY <1>1, <1>2 DEF TryAgain, TypeOK, FlushTyped, BufferTyped, HistoryTyped, bufferVars, Rows

LEMMA ReturnIsTyped ==
    ASSUME TypeOK, Return
    PROVE  FlushTyped' /\ BufferTyped' /\ HistoryTyped'
<1>1. buffer' \in Seq(Rows)
  <2>1. CASE appending = 0
    BY <2>1 DEF Return
  <2>2. CASE appending # 0
    <3>1. appending \in Rows
      BY <2>2, SqlAssumption DEF TypeOK, Rows, SqlAssumption
    <3>2. buffer' = <<appending>>
      BY <2>2 DEF Return
    <3>3. QED
      BY <3>1, <3>2
  <2>3. QED
    BY <2>1, <2>2
<1>2. QED
  BY <1>1, LeaveIsTyped DEF Return, TypeOK, BufferTyped, HistoryTyped, histVars, Rows

LEMMA StartIsTyped ==
    ASSUME TypeOK, NEW row \in 0..MaxRows, StartFlush(row)
    PROVE  /\ FlushTyped' /\ ServerTyped' /\ nFaults' \in 0..MaxFaults
           /\ buffer' \in Seq(Rows) /\ given' \in Seq(Rows) /\ failed' \in BOOLEAN
           /\ suspect' \subseteq Rows
  BY DEF StartFlush, TypeOK, FlushTyped, ServerTyped, Rows

LEMMA FaultIsTyped ==
    ASSUME nFaults \in 0..MaxFaults, NEW kind, Fault(kind)
    PROVE  nFaults' \in 0..MaxFaults
  BY SqlAssumption DEF Fault, SqlAssumption

LEMMA BeforeIsTyped ==
    ASSUME NEW s \in Seq(Rows), NEW k \in 0..Len(s)
    PROVE  SubSeq(s, 1, k) \in Seq(Rows) /\ Range(SubSeq(s, 1, k)) \subseteq Range(s)
  BY CutInTwo

LEMMA TypeStep ==
    ASSUME TypeOK, [Next]_vars
    PROVE  TypeOK'
<1>p. /\ ServerTyped /\ FlushTyped /\ BufferTyped /\ HistoryTyped
      /\ nFaults \in 0..MaxFaults
  BY TypeParts
<1>q. ASSUME ServerTyped', FlushTyped', BufferTyped', HistoryTyped', nFaults' \in 0..MaxFaults
      PROVE  TypeOK'
  BY <1>q DEF TypeOK, ServerTyped, FlushTyped, BufferTyped, HistoryTyped
<1>s. UNCHANGED serverVars => ServerTyped' /\ nFaults' \in 0..MaxFaults
  BY <1>p DEF serverVars, ServerTyped
<1>f. UNCHANGED flushVars => FlushTyped'
  BY <1>p DEF flushVars, FlushTyped
<1>h. UNCHANGED histVars => HistoryTyped'
  BY <1>p DEF histVars, HistoryTyped
<1>e. << >> \in Seq(Rows) /\ MaxRows \in Nat
  BY SqlAssumption DEF SqlAssumption
<1>1. CASE AppendRow
  <2>1. nextRow \in Rows /\ nextRow \in 0..MaxRows /\ nextRow' \in 1..MaxRows + 1
    BY <1>1, <1>e DEF AppendRow, TypeOK, Rows
  <2>2. CASE StartFlush(nextRow)
    BY <1>1, <1>p, <1>q, <2>1, <2>2, StartIsTyped
    DEF AppendRow, BufferTyped, HistoryTyped
  <2>3. CASE /\ buffer' = Append(buffer, nextRow)
             /\ UNCHANGED <<flushVars, serverVars, given, failed, suspect>>
    <3>1. buffer' \in Seq(Rows)
      BY <1>p, <2>1, <2>3, AppendProperties DEF BufferTyped
    <3>2. QED
      BY <1>1, <1>p, <1>q, <1>s, <1>f, <2>1, <2>3, <3>1
      DEF AppendRow, BufferTyped, HistoryTyped
  <2>4. QED
    BY <1>1, <2>2, <2>3 DEF AppendRow
<1>2. CASE Flush
  <2>1. 0 \in 0..MaxRows /\ StartFlush(0)
    BY <1>2, <1>e DEF Flush
  <2>2. QED
    BY <1>2, <1>p, <1>q, <2>1, StartIsTyped DEF Flush, BufferTyped, HistoryTyped
<1>3. CASE Close
  <2>1. CASE StartFlush(0)
    BY <1>3, <1>e, <1>p, <1>q, <2>1, StartIsTyped DEF Close, BufferTyped, HistoryTyped
  <2>2. CASE /\ pc' = "closed"
             /\ UNCHANGED <<buffer, rest, packet, tryNum, appending, serverVars, given,
                            failed, suspect>>
    BY <1>3, <1>p, <1>q, <1>s, <2>2 DEF Close, BufferTyped, HistoryTyped, FlushTyped
  <2>3. QED
    BY <1>3, <2>1, <2>2 DEF Close
<1>4. CASE SetUseTRX \/ Clear
  <2>1. BufferTyped'
    BY <1>4, <1>e, <1>p DEF SetUseTRX, Clear, BufferTyped
  <2>2. QED
    BY <1>4, <1>q, <1>s, <1>f, <1>h, <2>1 DEF SetUseTRX, Clear
<1>5. CASE Begin
  <2>1. ServerTyped'
    BY <1>5, <1>e, <1>p, ServerKeepsTypes DEF Begin, ServerTyped
  <2>2. QED
    BY <1>5, <1>h, <1>p, <1>q, <2>1 DEF Begin, bufferVars, FlushTyped, BufferTyped
<1>6. CASE CutPacket
  <2>1. packet' \in Seq(Rows) /\ rest' \in Seq(Rows) /\ buffer' \in Seq(Rows)
    <3>n. Len(rest) \in Nat /\ PacketSize \in Nat
      BY <1>p, SqlAssumption, LenProperties DEF FlushTyped, SqlAssumption
    <3>1. CASE packet' = rest /\ rest' = << >> /\ buffer' = << >>
      BY <1>e, <1>p, <3>1 DEF FlushTyped
    <3>2. CASE /\ Len(rest) >= PacketSize
               /\ packet' = SubSeq(rest, 1, PacketSize)
               /\ rest' = SubSeq(rest, PacketSize + 1, Len(rest))
               /\ buffer' = buffer
      <4>1. PacketSize \in 0..Len(rest) /\ rest \in Seq(Rows) /\ buffer \in Seq(Rows)
        BY <1>p, <3>n, <3>2 DEF FlushTyped, BufferTyped
      <4>2. /\ SubSeq(rest, 1, PacketSize) \in Seq(Rows)
            /\ SubSeq(rest, PacketSize + 1, Len(rest)) \in Seq(Rows)
        BY <4>1, CutInTwo
      <4>3. QED
        BY <3>2, <4>1, <4>2, Zenon
    <3>3. QED
      BY <1>6, <3>1, <3>2 DEF CutPacket
  <2>2. QED
    BY <1>6, <1>h, <1>p, <1>q, <1>s, <2>1 DEF CutPacket, FlushTyped, BufferTyped
<1>7. CASE NoMorePackets
  <2>1. CASE Return
    BY <1>7, <1>q, <1>s, <2>1, ReturnIsTyped DEF NoMorePackets
  <2>2. CASE ~Return
    BY <1>7, <1>e, <1>h, <1>p, <1>q, <1>s, <2>2 DEF NoMorePackets, FlushTyped, BufferTyped
  <2>3. QED
    BY <2>1, <2>2
<1>8. CASE PacketRuns
  <2>1. ServerTyped'
    BY <1>8, <1>p, ServerKeepsTypes DEF PacketRuns, FlushTyped
  <2>2. FlushTyped'
    BY <1>8, <1>e, <1>p, SqlAssumption DEF PacketRuns, FlushTyped, SqlAssumption
  <2>3. QED
    BY <1>8, <1>h, <1>p, <1>q, <2>1, <2>2 DEF PacketRuns, bufferVars, BufferTyped
<1>9. CASE Commit
  <2>1. ServerTyped'
    BY <1>9, <1>e, <1>p, ServerKeepsTypes DEF Commit, ServerTyped
  <2>2. QED
    BY <1>9, <1>p, <1>q, <2>1, ReturnIsTyped DEF Commit
<1>10. ASSUME NEW kind, RetryableError(kind) PROVE TypeOK'
  <2>1. PICK k \in 1..Len(packet) :
          LET before == SubSeq(packet, 1, k - 1)
          IN  /\ IF kind = "deadlock" THEN RollBack(before) ELSE Execute(before)
              /\ \/ TryAgain(before)
                 \/ (tryNum + 1 = maxTry \/ k = 1) /\ Throw
    BY <1>10 DEF RetryableError
  <2> DEFINE before == SubSeq(packet, 1, k - 1)
  <2>2. k - 1 \in 0..Len(packet) /\ packet \in Seq(Rows)
    BY <1>p, LenProperties DEF FlushTyped
  <2>3. before \in Seq(Rows)
    BY <2>2, BeforeIsTyped
  <2> HIDE DEF before
  <2>4. ServerTyped'
    BY <1>p, <2>1, <2>3, ServerKeepsTypes DEF before
  <2>5. FlushTyped' /\ BufferTyped' /\ HistoryTyped'
    BY <2>1, <2>3, TryAgainIsTyped, ThrowIsTyped DEF before
  <2>6. QED
    BY <1>10, <1>p, <1>q, <2>4, <2>5, FaultIsTyped DEF RetryableError
<1>11. CASE OtherError
  <2>1. PICK k \in 1..Len(packet) : Execute(SubSeq(packet, 1, k - 1))
    BY <1>11 DEF OtherError
  <2>2. k - 1 \in 0..Len(packet) /\ packet \in Seq(Rows)
    BY <1>p, LenProperties DEF FlushTyped
  <2>3. ServerTyped'
    BY <1>p, <2>1, <2>2, BeforeIsTyped, ServerKeepsTypes
  <2>4. QED
    BY <1>11, <1>p, <1>q, <2>3, ThrowIsTyped, FaultIsTyped DEF OtherError
<1>12. CASE LostDuringPacket
  <2>1. PICK k \in 0..Len(packet) : RollBack(SubSeq(packet, 1, k))
    BY <1>12 DEF LostDuringPacket
  <2>2. ServerTyped'
    BY <1>p, <2>1, BeforeIsTyped, ServerKeepsTypes DEF FlushTyped
  <2>3. QED
    BY <1>12, <1>p, <1>q, <2>2, ThrowIsTyped, FaultIsTyped DEF LostDuringPacket
<1>13. CASE LostDuringControl
  <2>1. ServerTyped'
    BY <1>13, <1>e, <1>p, ServerKeepsTypes DEF LostDuringControl
  <2>2. QED
    BY <1>13, <1>p, <1>q, <2>1, ThrowIsTyped, FaultIsTyped DEF LostDuringControl
<1>14. CASE SessionDies
  <2>1. ServerTyped'
    BY <1>14, <1>e, <1>p, ServerKeepsTypes DEF SessionDies
  <2>2. QED
    BY <1>14, <1>f, <1>h, <1>p, <1>q, <2>1, FaultIsTyped
    DEF SessionDies, bufferVars, BufferTyped
<1>15. CASE Closed \/ UNCHANGED vars
  <2>1. UNCHANGED <<bufferVars, flushVars, serverVars, histVars>>
    BY <1>15 DEF Closed, vars
  <2>2. QED
    BY <1>f, <1>h, <1>p, <1>q, <1>s, <2>1 DEF bufferVars, BufferTyped
<1>16. QED
  BY <1>1, <1>2, <1>3, <1>4, <1>5, <1>6, <1>7, <1>8, <1>9, <1>10, <1>11, <1>12, <1>13,
     <1>14, <1>15 DEF Next

\* Every variable keeps its type.
THEOREM TypeCorrect == Spec => []TypeOK
<1>1. ASSUME Init PROVE TypeOK
  <2>1. /\ << >> \in Seq(Rows) /\ 0 \in 0..maxTry - 1 /\ 0 \in 0..MaxRows
        /\ 1 \in 1..MaxRows + 1 /\ 0 \in 0..MaxFaults
    BY SqlAssumption DEF SqlAssumption
  <2>2. QED
    BY <1>1, <2>1 DEF Init, TypeOK
<1>2. QED
  BY <1>1, TypeStep, PTL DEF Spec

-----------------------------------------------------------------------------
(* The open transaction.                                                   *)

Flushing == ~Quiet

\* A flush has rows, which stay in the buffer until it is cleared, and only a flush
\* has a rest, a packet, and a row that append will add.
FlushHasRows ==
    /\ Flushing => given # << >> /\ (buffer = given \/ buffer = << >>) /\ ~failed
    /\ Quiet => rest = << >> /\ packet = << >> /\ appending = 0
    /\ pc # "send" => packet = << >>
    /\ pc = "commit" => rest = << >>
    /\ Range(packet) \subseteq Range(given) /\ Range(rest) \subseteq Range(given)
    /\ ~inTrx => trx = << >>

\* A transaction is open because a flush runs in it, or because one has failed.
FlushIsOpen ==
    /\ inTrx /\ suspect = {} => pc \in {"cut", "send", "commit"} /\ useTRX
    /\ pc = "begin" => useTRX

\* The rows of the database.
InDb == Range(committed) \cup Range(trx)

LEMMA TrxEndsIn ==
    ASSUME ServerTyped
    PROVE  /\ Range(committed \o trx) = InDb
           /\ \A X : Lined(committed, trx, X) => Ordered(committed \o trx, X)
  BY RangeOfConcat, OrderOfConcat DEF ServerTyped, InDb, Lined

\* A transaction that is committed keeps its rows; one that is lost adds none.
LEMMA TrxEnds ==
    ASSUME ServerTyped, trx' = << >>, committed' \in {committed, committed \o trx}
    PROVE  /\ InDb' \subseteq InDb
           /\ committed' = committed \o trx => InDb' = InDb
           /\ \A X : Lined(committed, trx, X) => Lined(committed', trx', X)
<1>1. Range(trx') = {} /\ \A X : Ordered(trx', X) /\ Ahead(Range(committed'), Range(trx'), X)
  BY NothingInEmpty
<1>2. CASE committed' = committed
  <2>1. InDb' = Range(committed)
    BY <1>1, <1>2 DEF InDb
  <2>2. \A X : Lined(committed, trx, X) => Lined(committed', trx', X)
    BY <1>1, <1>2 DEF Lined
  <2>3. committed' = committed \o trx => InDb' = InDb
    BY <2>1, <1>2, TrxEndsIn
  <2>4. QED
    BY <2>1, <2>2, <2>3 DEF InDb
<1>3. CASE committed' = committed \o trx
  <2>1. InDb' = InDb
    BY <1>1, <1>3, TrxEndsIn DEF InDb
  <2>2. \A X : Lined(committed, trx, X) => Lined(committed', trx', X)
    BY <1>1, <1>3, TrxEndsIn DEF Lined
  <2>3. QED
    BY <2>1, <2>2
<1>4. QED
  BY <1>2, <1>3

\* Rows that are run come after those of the database.
Adds(rows) ==
    \A X : Lined(committed, trx, X) /\ Ordered(rows, X) /\ Ahead(InDb, Range(rows), X)
           => Lined(committed', trx', X)

LEMMA RowsRun ==
    ASSUME ServerTyped, NEW rows \in Seq(Rows), Execute(rows), ~inTrx => trx = << >>
    PROVE  /\ InDb' = InDb \cup Range(rows) /\ Adds(rows)
           /\ rolledBack' = rolledBack /\ inTrx' = inTrx /\ (~inTrx' => trx' = << >>)
<1>t. committed \in Seq(Rows) /\ trx \in Seq(Rows)
  BY DEF ServerTyped
<1>a. ASSUME NEW X, Ahead(InDb, Range(rows), X)
      PROVE  Ahead(Range(committed), Range(rows), X) /\ Ahead(Range(trx), Range(rows), X)
  BY <1>a DEF Ahead, InDb
<1>1. CASE inTrx
  <2>1. trx' = trx \o rows /\ committed' = committed /\ inTrx' = inTrx /\ rolledBack' = rolledBack
    BY <1>1 DEF Execute
  <2>2. Range(trx') = Range(trx) \cup Range(rows)
    BY <1>t, <2>1, RangeOfConcat
  <2>3. ASSUME NEW X, Lined(committed, trx, X), Ordered(rows, X), Ahead(InDb, Range(rows), X)
        PROVE  Lined(committed', trx', X)
    <3>1. Ordered(trx', X)
      BY <1>a, <1>t, <2>1, <2>3, OrderOfConcat DEF Lined
    <3>2. Ahead(Range(committed'), Range(trx'), X)
      BY <1>a, <2>1, <2>2, <2>3 DEF Ahead, Lined
    <3>3. QED
      BY <2>1, <2>3, <3>1, <3>2 DEF Lined
  <2>4. QED
    BY <1>1, <2>1, <2>2, <2>3 DEF InDb, Adds
<1>2. CASE ~inTrx
  <2>1. trx' = trx /\ trx = << >> /\ committed' = committed \o rows /\ inTrx' = inTrx
        /\ rolledBack' = rolledBack
    BY <1>2 DEF Execute
  <2>2. Range(committed') = Range(committed) \cup Range(rows) /\ Range(trx) = {}
    BY <1>t, <2>1, RangeOfConcat, NothingInEmpty
  <2>3. ASSUME NEW X, Lined(committed, trx, X), Ordered(rows, X), Ahead(InDb, Range(rows), X)
        PROVE  Lined(committed', trx', X)
    BY <1>a, <1>t, <2>1, <2>2, <2>3, OrderOfConcat, NothingInEmpty DEF Lined
  <2>4. QED
    BY <1>2, <2>1, <2>2, <2>3 DEF InDb, Adds
<1>3. QED
  BY <1>1, <1>2 DEF ServerTyped

LEMMA RowsRolledBack ==
    ASSUME ServerTyped, NEW rows \in Seq(Rows), RollBack(rows), ~inTrx => trx = << >>
    PROVE  /\ InDb' \subseteq InDb \cup Range(rows) /\ Adds(rows)
           /\ ~rolledBack' => ~rolledBack /\ InDb' = InDb \cup Range(rows)
           /\ ~inTrx' /\ trx' = << >>
<1>t. /\ committed \in Seq(Rows) /\ trx' = << >> /\ ~inTrx' /\ Range(trx') = {}
      /\ \A X : Ordered(trx', X) /\ Ahead(Range(committed'), Range(trx'), X)
  BY NothingInEmpty DEF ServerTyped, RollBack
<1>1. CASE inTrx
  <2>1. committed' = committed /\ rolledBack'
    BY <1>1 DEF RollBack
  <2>2. QED
    BY <1>t, <2>1 DEF InDb, Lined, Adds
<1>2. CASE ~inTrx
  <2>1. trx = << >> /\ committed' = committed \o rows /\ rolledBack' = rolledBack
    BY <1>2 DEF RollBack, ServerTyped
  <2>2. Range(committed') = Range(committed) \cup Range(rows) /\ Range(trx) = {}
    BY <1>t, <2>1, RangeOfConcat, NothingInEmpty
  <2>3. ASSUME NEW X, Lined(committed, trx, X), Ordered(rows, X), Ahead(InDb, Range(rows), X)
        PROVE  Lined(committed', trx', X)
    <3>1. Ahead(Range(committed), Range(rows), X)
      BY <2>3 DEF Ahead, InDb
    <3>2. QED
      BY <1>t, <2>1, <2>3, <3>1, OrderOfConcat DEF Lined
  <2>4. QED
    BY <1>t, <2>1, <2>2, <2>3 DEF InDb, Adds
<1>3. QED
  BY <1>1, <1>2 DEF ServerTyped

-----------------------------------------------------------------------------
(* The rows.                                                               *)

\* The rows so far; the one append will add is the latest, and it is nowhere yet.
Known == InDb \cup Range(given) \cup Range(buffer)

RowsAreOld ==
    /\ Known \subseteq 1..nextRow - 1
    /\ appending # 0 => appending = nextRow - 1 /\ appending \notin Known

\* Rows go from one end to the other of a line: the buffer between flushes, what is
\* left of a flush, its packet, the transaction, the table.
RowsInLine ==
    /\ Lined(committed, trx, suspect)
    /\ Ordered(packet, suspect) /\ Ordered(rest, suspect) /\ Ordered(buffer, suspect)
    /\ Ahead(InDb, Range(packet), suspect) /\ Ahead(InDb, Range(rest), suspect)
    /\ Ahead(Range(packet), Range(rest), suspect)
    /\ Quiet => Ahead(InDb, Range(buffer), suspect)

\* The rows of the flush are in the database or still to come.
AllThere ==
    ~rolledBack /\ ~failed => Range(given) \subseteq InDb \cup Range(packet) \cup Range(rest)

Inv == FlushHasRows /\ FlushIsOpen /\ RowsAreOld /\ AllThere /\ RowsInLine

\* The row append will add comes after all the others.
LEMMA LatestIsLast ==
    ASSUME TypeOK, Inv, appending # 0
    PROVE  Ahead(InDb, {appending}, suspect)
<1>1. ASSUME NEW a \in InDb PROVE a < appending
  <2>1. /\ nextRow \in Nat /\ a \in 1..nextRow - 1
        /\ appending = nextRow - 1 /\ appending # a
    BY SqlAssumption DEF TypeOK, Inv, RowsAreOld, Known, SqlAssumption
  <2>2. QED
    BY <2>1
<1>2. QED
  BY <1>1 DEF Ahead, Fits

LEMMA SomeRow ==
    ASSUME NEW S, NEW s \in Seq(S), s # << >>
    PROVE  Range(s) # {}
<1>1. 1 \in DOMAIN s
  OBVIOUS
<1>2. QED
  BY <1>1 DEF Range

\* A flush that ends by an exception.
LEMMA FlushThrows ==
    ASSUME TypeOK, Inv, Flushing, Throw,
           InDb' \subseteq InDb \cup Range(packet),
           \A X : Range(packet) \subseteq X /\ Lined(committed, trx, X)
                  => Lined(committed', trx', X),
           ~inTrx' => trx' = << >>
    PROVE  Inv'
<1>e. Range(<< >>) = {} /\ \A X : Ordered(<< >>, X) /\ \A A : Ahead(A, {}, X) /\ Ahead({}, A, X)
  BY NothingInEmpty
<1>1. /\ pc' \in {"idle", "closed"} /\ rest' = << >> /\ packet' = << >> /\ appending' = 0
      /\ failed' = TRUE /\ suspect' = suspect \cup Range(given)
      /\ buffer' = buffer /\ nextRow' = nextRow /\ given' = given /\ useTRX' = useTRX
  BY DEF Throw, Leave, bufferVars
<1>2. FlushHasRows'
  BY <1>e, <1>1 DEF FlushHasRows, Flushing, Quiet
<1>3. FlushIsOpen'
  <2>1. Range(given) # {}
    BY SomeRow DEF Inv, FlushHasRows, TypeOK
  <2>2. QED
    BY <1>1, <2>1 DEF FlushIsOpen
<1>4. RowsAreOld'
  <2>1. Known' \subseteq Known
    BY <1>1 DEF Known, Inv, FlushHasRows
  <2>2. QED
    BY <1>1, <2>1 DEF Inv, RowsAreOld
<1>5. AllThere'
  BY <1>1 DEF AllThere
<1>6. RowsInLine'
  <2>1. /\ suspect \subseteq suspect' /\ Range(packet) \subseteq suspect'
        /\ Range(buffer) \subseteq suspect'
    BY <1>1, <1>e DEF Inv, FlushHasRows
  <2>2. Lined(committed', trx', suspect')
    <3>1. Lined(committed, trx, suspect')
      BY <2>1, OrderLoosens DEF Inv, RowsInLine, Lined
    <3>2. QED
      BY <2>1, <3>1
  <2>3. Ordered(buffer', suspect') /\ Ahead(InDb', Range(buffer'), suspect')
    BY <1>1, <2>1, LooseRows
  <2>4. QED
    BY <1>e, <1>1, <2>2, <2>3 DEF RowsInLine
<1>7. QED
  BY <1>2, <1>3, <1>4, <1>5, <1>6 DEF Inv

\* A flush that returns.
LEMMA FlushReturns ==
    ASSUME TypeOK, Inv, Return, pc \in {"cut", "commit"}, rest = << >>,
           InDb' = InDb, \A X : Lined(committed, trx, X) => Lined(committed', trx', X),
           rolledBack' = rolledBack, ~inTrx' => trx' = << >>, inTrx' => suspect # {}
    PROVE  Inv'
<1>e. Range(<< >>) = {} /\ \A X : Ordered(<< >>, X) /\ \A A : Ahead(A, {}, X) /\ Ahead({}, A, X)
  BY NothingInEmpty
<1>1. /\ pc' \in {"idle", "closed"} /\ rest' = << >> /\ packet' = << >> /\ appending' = 0
      /\ failed' = failed /\ suspect' = suspect /\ nextRow' = nextRow /\ given' = given
      /\ buffer' = IF appending = 0 THEN << >> ELSE <<appending>>
  BY DEF Return, Leave, histVars
<1>2. packet = << >>
  BY DEF Inv, FlushHasRows
<1>b. \/ buffer' = << >>
      \/ /\ appending # 0 /\ Range(buffer') = {appending}
         /\ \A X : Ordered(buffer', X)
  BY <1>1, OneRow
<1>3. FlushHasRows'
  BY <1>e, <1>1 DEF FlushHasRows, Flushing, Quiet
<1>4. FlushIsOpen'
  BY <1>1 DEF FlushIsOpen
<1>5. RowsAreOld'
  <2>1. Range(buffer') \subseteq 1..nextRow - 1
    <3>1. appending # 0 => appending \in 1..nextRow - 1
      BY DEF TypeOK, Inv, RowsAreOld
    <3>2. QED
      BY <1>b, <1>e, <3>1
  <2>2. QED
    BY <1>1, <2>1 DEF Inv, RowsAreOld, Known
<1>6. AllThere'
  BY <1>1, <1>2 DEF Inv, AllThere
<1>7. RowsInLine'
  <2>1. Ordered(buffer', suspect)
    BY <1>b, <1>e
  <2>2. Ahead(InDb, Range(buffer'), suspect)
    <3>1. CASE appending # 0 /\ Range(buffer') = {appending}
      BY <3>1, LatestIsLast
    <3>2. QED
      BY <1>b, <1>e, <3>1
  <2>3. Lined(committed', trx', suspect)
    BY DEF Inv, RowsInLine
  <2>4. QED
    BY <1>e, <1>1, <2>1, <2>2, <2>3 DEF RowsInLine
<1>8. QED
  BY <1>3, <1>4, <1>5, <1>6, <1>7 DEF Inv

\* An attempt that is made again.
LEMMA FlushTriesAgain ==
    ASSUME TypeOK, Inv, pc = "send", NEW rows, TryAgain(rows),
           Range(rows) \subseteq Range(packet),
           InDb' \subseteq InDb \cup Range(rows),
           \A X : Range(rows) \subseteq X /\ Lined(committed, trx, X) => Lined(committed', trx', X),
           ~rolledBack' => ~rolledBack /\ InDb \subseteq InDb',
           ~inTrx' => trx' = << >>, inTrx' => inTrx
    PROVE  Inv'
<1>1. /\ pc' = pc /\ rest' = rest /\ packet' = packet /\ appending' = appending
      /\ failed' = failed /\ suspect' = suspect \cup Range(rows)
      /\ buffer' = buffer /\ nextRow' = nextRow /\ given' = given /\ useTRX' = useTRX
  BY DEF TryAgain, bufferVars
<1>2. FlushHasRows'
  BY <1>1 DEF Inv, FlushHasRows, Flushing, Quiet
<1>3. FlushIsOpen'
  BY <1>1 DEF Inv, FlushIsOpen
<1>4. Known' \subseteq Known
  BY <1>1 DEF Known, Inv, FlushHasRows
<1>5. RowsAreOld'
  BY <1>1, <1>4 DEF Inv, RowsAreOld
<1>6. AllThere'
  BY <1>1 DEF Inv, AllThere
<1>7. RowsInLine'
  <2>1. suspect \subseteq suspect' /\ Range(rows) \subseteq suspect'
    BY <1>1
  <2>2. Lined(committed', trx', suspect')
    <3>1. Lined(committed, trx, suspect')
      BY <2>1, OrderLoosens DEF Inv, RowsInLine, Lined
    <3>2. QED
      BY <2>1, <3>1
  <2>3. ASSUME NEW B, Ahead(InDb, B, suspect) PROVE Ahead(InDb', B, suspect')
    BY <2>1, <2>3 DEF Ahead, Fits
  <2>4. /\ Ordered(packet', suspect') /\ Ordered(rest', suspect') /\ Ordered(buffer', suspect')
        /\ Ahead(Range(packet'), Range(rest'), suspect')
    BY <1>1, <2>1, OrderLoosens DEF Inv, RowsInLine
  <2>5. Ahead(InDb', Range(packet'), suspect') /\ Ahead(InDb', Range(rest'), suspect')
    BY <1>1, <2>3 DEF Inv, RowsInLine
  <2>6. QED
    BY <1>1, <2>2, <2>4, <2>5 DEF RowsInLine, Quiet
<1>8. QED
  BY <1>2, <1>3, <1>5, <1>6, <1>7 DEF Inv

\* A flush that begins, alone or for a row of append.
LEMMA FlushStarts ==
    ASSUME TypeOK, Inv, Quiet, buffer # << >>, NEW row, StartFlush(row), useTRX' = useTRX,
           \/ row = 0 /\ nextRow' = nextRow
           \/ row = nextRow /\ nextRow' = nextRow + 1
    PROVE  Inv'
<1>e. Range(<< >>) = {} /\ \A X : Ordered(<< >>, X) /\ \A A : Ahead(A, {}, X) /\ Ahead({}, A, X)
  BY NothingInEmpty
<1>1. /\ pc' \in {"begin", "cut"} /\ rest' = buffer /\ given' = buffer /\ appending' = row
      /\ failed' = FALSE /\ buffer' = buffer /\ packet' = packet /\ packet = << >>
      /\ inTrx' = inTrx /\ trx' = trx /\ committed' = committed /\ suspect' = suspect
      /\ pc' = "begin" => useTRX'
  BY DEF StartFlush, Inv, FlushHasRows
<1>2. FlushHasRows'
  BY <1>e, <1>1 DEF Inv, FlushHasRows, Flushing, Quiet
<1>3. FlushIsOpen'
  BY <1>1 DEF Inv, FlushIsOpen, Quiet
<1>4. Known' \subseteq Known
  BY <1>1 DEF Known, InDb
<1>5. RowsAreOld'
  <2>1. nextRow \in Nat \ {0} /\ Known \subseteq 1..nextRow - 1
    BY SqlAssumption DEF TypeOK, Inv, RowsAreOld, SqlAssumption
  <2>2. Known' \subseteq 1..nextRow' - 1
    BY <1>4, <2>1
  <2>3. row # 0 => row = nextRow' - 1 /\ row \notin Known'
    BY <1>4, <2>1
  <2>4. QED
    BY <1>1, <2>2, <2>3 DEF RowsAreOld
<1>6. AllThere'
  BY <1>1 DEF AllThere
<1>7. RowsInLine'
  BY <1>1, <1>e DEF Inv, RowsInLine, Quiet, InDb
<1>8. QED
  BY <1>2, <1>3, <1>5, <1>6, <1>7 DEF Inv

\* Faults in a packet: the part of it that ran.
LEMMA PacketFails ==
    ASSUME TypeOK, Inv, pc = "send", NEW rows \in Seq(Rows), Range(rows) \subseteq Range(packet),
           Execute(rows) \/ RollBack(rows), Throw \/ TryAgain(rows)
    PROVE  Inv'
<1>s. ServerTyped /\ (~inTrx => trx = << >>) /\ inTrx \in BOOLEAN
  BY TypeParts DEF Inv, FlushHasRows, ServerTyped
<1>1. /\ InDb' \subseteq InDb \cup Range(rows) /\ Adds(rows)
      /\ ~rolledBack' => ~rolledBack /\ InDb \subseteq InDb'
      /\ ~inTrx' => trx' = << >>
      /\ inTrx' => inTrx
  <2>1. CASE Execute(rows)
    BY <1>s, <2>1, RowsRun
  <2>2. CASE RollBack(rows)
    BY <1>s, <2>2, RowsRolledBack
  <2>3. QED
    BY <2>1, <2>2
<1>2. ASSUME NEW X, Range(rows) \subseteq X, Lined(committed, trx, X)
      PROVE  Lined(committed', trx', X)
  BY <1>1, <1>2, LooseRows DEF Adds
<1>3. CASE Throw
  <2>1. InDb' \subseteq InDb \cup Range(packet)
    BY <1>1
  <2>2. \A X : Range(packet) \subseteq X /\ Lined(committed, trx, X) => Lined(committed', trx', X)
    BY <1>2
  <2>3. QED
    BY <1>1, <1>3, <2>1, <2>2, FlushThrows DEF Flushing, Quiet
<1>4. CASE TryAgain(rows)
  BY <1>1, <1>2, <1>4, FlushTriesAgain
<1>5. QED
  BY <1>3, <1>4

LEMMA InvStep ==
    ASSUME TypeOK, Inv, [Next]_vars
    PROVE  Inv'
<1>e. /\ Range(<< >>) = {} /\ \A X : Ordered(<< >>, X) /\ \A A : Ahead(A, {}, X) /\ Ahead({}, A, X)
      /\ << >> \in Seq(Rows)
  BY NothingInEmpty
<1>p. ServerTyped /\ packet \in Seq(Rows) /\ rest \in Seq(Rows) /\ buffer \in Seq(Rows)
  BY TypeParts DEF FlushTyped, BufferTyped
<1>s. ASSUME UNCHANGED <<inTrx, trx, committed>>
      PROVE  InDb' = InDb
  BY <1>s DEF InDb
<1>1. CASE AppendRow
  <2>1. nextRow' = nextRow + 1 /\ Quiet
    BY <1>1 DEF AppendRow, Quiet
  <2>2. CASE StartFlush(nextRow) /\ bufferSize > 0 /\ Len(buffer) >= bufferSize
    <3>1. buffer # << >>
      BY <1>p, <2>2, SqlAssumption DEF SqlAssumption
    <3>2. QED
      BY <1>1, <2>1, <2>2, <3>1, FlushStarts DEF AppendRow
  <2>3. CASE /\ buffer' = Append(buffer, nextRow)
             /\ UNCHANGED <<flushVars, serverVars, given, failed, suspect>>
    <3>1. nextRow \in Rows /\ nextRow \in Nat \ {0} /\ Known \subseteq 1..nextRow - 1
      BY <1>1, SqlAssumption DEF AppendRow, TypeOK, Rows, SqlAssumption, Inv, RowsAreOld
    <3>2. buffer' = Append(buffer, nextRow)
      BY <2>3
    <3>3. /\ Range(buffer') = Range(buffer) \cup {nextRow}
          /\ \A X : Ordered(buffer, X) /\ Ahead(Range(buffer), {nextRow}, X) => Ordered(buffer', X)
      <4>1. buffer \in Seq(Rows) /\ nextRow \in Rows
        BY <1>p, <3>1
      <4>2. QED
        BY <3>2, <4>1, AppendedLast, Zenon
    <3>4. /\ pc' = pc /\ rest' = rest /\ packet' = packet /\ appending' = appending
          /\ given' = given /\ failed' = failed /\ suspect' = suspect /\ rolledBack' = rolledBack
          /\ useTRX' = useTRX /\ UNCHANGED <<inTrx, trx, committed>>
      BY <1>1, <2>3 DEF AppendRow, flushVars, serverVars
    <3>5. FlushHasRows'
      BY <2>1, <3>4 DEF Inv, FlushHasRows, Flushing, Quiet
    <3>6. FlushIsOpen' /\ AllThere'
      BY <1>s, <3>4 DEF Inv, FlushIsOpen, AllThere
    <3>7. RowsAreOld'
      <4>1. Known' = Known \cup {nextRow}
        BY <1>s, <3>3, <3>4 DEF Known
      <4>2. Known' \subseteq 1..nextRow' - 1
        BY <2>1, <3>1, <4>1
      <4>3. appending' = 0
        BY <2>1, <3>4 DEF Inv, FlushHasRows
      <4>4. QED
        BY <4>2, <4>3 DEF RowsAreOld
    <3>8. RowsInLine'
      <4>1. \A a \in Known : a < nextRow
        BY <3>1
      <4>2. Ahead(InDb, {nextRow}, suspect) /\ Ahead(Range(buffer), {nextRow}, suspect)
        BY <4>1 DEF Ahead, Fits, Known
      <4>3. Ordered(buffer', suspect)
        BY <3>3, <4>2 DEF Inv, RowsInLine
      <4>4. Ahead(InDb, Range(buffer'), suspect)
        BY <2>1, <3>3, <4>2 DEF Inv, RowsInLine, Ahead
      <4>5. QED
        BY <1>s, <3>4, <4>3, <4>4 DEF Inv, RowsInLine
    <3>9. QED
      BY <3>5, <3>6, <3>7, <3>8 DEF Inv
  <2>4. QED
    BY <1>1, <2>2, <2>3 DEF AppendRow
<1>2. CASE Flush
  BY <1>2, FlushStarts DEF Flush, Quiet
<1>3. ASSUME UNCHANGED <<rest, packet, appending, inTrx, trx, committed, rolledBack, given,
                         failed, suspect, nextRow>>,
             Quiet, Quiet', buffer' = buffer \/ buffer' = << >>
      PROVE  Inv'
  <2>1. FlushHasRows'
    BY <1>3 DEF Inv, FlushHasRows, Flushing, Quiet
  <2>2. FlushIsOpen' /\ AllThere'
    BY <1>s, <1>3 DEF Inv, FlushIsOpen, AllThere, Quiet
  <2>3. RowsAreOld'
    <3>1. Known' \subseteq Known
      BY <1>e, <1>s, <1>3 DEF Known
    <3>2. QED
      BY <1>3, <3>1 DEF Inv, RowsAreOld
  <2>4. RowsInLine'
    BY <1>e, <1>s, <1>3 DEF Inv, RowsInLine
  <2>5. QED
    BY <2>1, <2>2, <2>3, <2>4 DEF Inv
<1>4. CASE Close
  <2>1. CASE StartFlush(0) /\ buffer # << >>
    BY <1>4, <2>1, FlushStarts DEF Close, Quiet
  <2>2. CASE /\ pc' = "closed"
             /\ UNCHANGED <<buffer, rest, packet, tryNum, appending, serverVars, given,
                            failed, suspect>>
    BY <1>3, <1>4, <2>2 DEF Close, Quiet, serverVars
  <2>3. QED
    BY <1>4, <2>1, <2>2 DEF Close
<1>5. CASE SetUseTRX \/ Clear
  BY <1>3, <1>5 DEF SetUseTRX, Clear, flushVars, serverVars, histVars, Quiet
<1>6. CASE Begin
  <2>1. /\ pc = "begin" /\ pc' = "cut" /\ inTrx' = TRUE /\ trx' = << >> /\ committed' = committed \o trx
        /\ UNCHANGED <<useTRX, buffer, rest, packet, appending, rolledBack, given, failed,
                       suspect, nextRow>>
    BY <1>6 DEF Begin, bufferVars, histVars
  <2>2. InDb' = InDb /\ \A X : Lined(committed, trx, X) => Lined(committed', trx', X)
    BY <1>p, <2>1, TrxEnds
  <2>3. FlushHasRows'
    BY <2>1 DEF Inv, FlushHasRows, Flushing, Quiet
  <2>4. FlushIsOpen'
    BY <2>1 DEF Inv, FlushIsOpen
  <2>5. RowsAreOld' /\ AllThere'
    BY <2>1, <2>2 DEF Inv, RowsAreOld, Known, AllThere
  <2>6. RowsInLine'
    BY <2>1, <2>2 DEF Inv, RowsInLine, Quiet
  <2>7. QED
    BY <2>3, <2>4, <2>5, <2>6 DEF Inv
<1>7. CASE CutPacket
  <2>1. /\ pc = "cut" /\ pc' = "send" /\ rest # << >>
        /\ UNCHANGED <<useTRX, inTrx, trx, committed, rolledBack, appending, given, failed,
                       suspect, nextRow>>
    BY <1>7 DEF CutPacket, serverVars, histVars
  <2>2. packet = << >> /\ given # << >> /\ (buffer = given \/ buffer = << >>) /\ ~failed
    BY <2>1 DEF Inv, FlushHasRows, Flushing, Quiet
  <2>3. /\ Range(rest) = Range(packet') \cup Range(rest')
        /\ \A X : Ordered(rest, X) => /\ Ordered(packet', X) /\ Ordered(rest', X)
                                      /\ Ahead(Range(packet'), Range(rest'), X)
        /\ buffer' = buffer \/ buffer' = << >>
    <3>1. CASE packet' = rest /\ rest' = << >> /\ buffer' = << >>
      BY <1>e, <3>1
    <3>2. CASE /\ Len(rest) >= PacketSize
               /\ packet' = SubSeq(rest, 1, PacketSize)
               /\ rest' = SubSeq(rest, PacketSize + 1, Len(rest))
               /\ buffer' = buffer
      <4>1. PacketSize \in 0..Len(rest)
        BY <1>p, <3>2, SqlAssumption, LenProperties DEF SqlAssumption
      <4>2. LET front == SubSeq(rest, 1, PacketSize)
                back  == SubSeq(rest, PacketSize + 1, Len(rest))
            IN  /\ Range(rest) = Range(front) \cup Range(back)
                /\ \A X : Ordered(rest, X) => /\ Ordered(front, X) /\ Ordered(back, X)
                                              /\ Ahead(Range(front), Range(back), X)
        BY <1>p, <4>1, CutInTwo
      <4>3. QED
        BY <3>2, <4>2, Zenon
    <3>3. QED
      BY <1>7, <3>1, <3>2 DEF CutPacket
  <2>4. FlushHasRows'
    BY <2>1, <2>2, <2>3 DEF Inv, FlushHasRows, Flushing, Quiet
  <2>5. FlushIsOpen'
    BY <2>1 DEF Inv, FlushIsOpen
  <2>6. RowsAreOld' /\ AllThere'
    <3>1. Known' \subseteq Known
      BY <1>e, <1>s, <2>1, <2>3 DEF Known
    <3>2. AllThere'
      BY <1>e, <1>s, <2>1, <2>2, <2>3 DEF Inv, AllThere
    <3>3. QED
      BY <2>1, <3>1, <3>2 DEF Inv, RowsAreOld
  <2>7. RowsInLine'
    <3>1. Ahead(InDb, Range(packet'), suspect) /\ Ahead(InDb, Range(rest'), suspect)
      BY <2>3 DEF Inv, RowsInLine, Ahead
    <3>2. QED
      BY <1>e, <1>s, <2>1, <2>3, <3>1 DEF Inv, RowsInLine, Quiet
  <2>8. QED
    BY <2>4, <2>5, <2>6, <2>7 DEF Inv
<1>8. CASE NoMorePackets
  <2>1. /\ pc = "cut" /\ rest = << >>
        /\ UNCHANGED <<inTrx, trx, committed, rolledBack>>
    BY <1>8 DEF NoMorePackets, serverVars
  <2>2. CASE ~useTRX /\ Return
    <3>1. inTrx' => suspect # {}
      BY <2>1, <2>2 DEF Inv, FlushIsOpen
    <3>2. ~inTrx' => trx' = << >>
      BY <2>1 DEF Inv, FlushHasRows
    <3>3. QED
      BY <1>s, <2>1, <2>2, <3>1, <3>2, FlushReturns
  <2>3. CASE /\ useTRX /\ pc' = "commit" /\ buffer' = << >>
             /\ UNCHANGED <<useTRX, closing, rest, packet, tryNum, appending, histVars>>
    <3>1. UNCHANGED <<given, failed, suspect, nextRow>>
      BY <2>3 DEF histVars
    <3>2. FlushHasRows' /\ FlushIsOpen'
      BY <2>1, <2>3, <3>1 DEF Inv, FlushHasRows, FlushIsOpen, Flushing, Quiet
    <3>3. RowsAreOld' /\ AllThere'
      BY <1>e, <1>s, <2>1, <2>3, <3>1 DEF Inv, RowsAreOld, Known, AllThere
    <3>4. RowsInLine'
      BY <1>e, <1>s, <2>1, <2>3, <3>1 DEF Inv, RowsInLine, Quiet
    <3>5. QED
      BY <3>2, <3>3, <3>4 DEF Inv
  <2>4. QED
    BY <1>8, <2>2, <2>3 DEF NoMorePackets
<1>9. CASE PacketRuns
  <2>1. /\ pc = "send" /\ pc' = "cut" /\ Execute(packet) /\ packet' = << >>
        /\ UNCHANGED <<useTRX, buffer, rest, appending, given, failed, suspect, nextRow>>
    BY <1>9 DEF PacketRuns, bufferVars, histVars
  <2>2. /\ InDb' = InDb \cup Range(packet) /\ Adds(packet)
        /\ rolledBack' = rolledBack /\ inTrx' = inTrx /\ (~inTrx' => trx' = << >>)
    BY <1>p, <2>1, RowsRun DEF Inv, FlushHasRows
  <2>3. FlushHasRows'
    BY <1>e, <2>1, <2>2 DEF Inv, FlushHasRows, Flushing, Quiet
  <2>4. FlushIsOpen'
    BY <2>1, <2>2 DEF Inv, FlushIsOpen
  <2>5. RowsAreOld'
    <3>1. Known' = Known
      BY <2>1, <2>2 DEF Inv, FlushHasRows, Known
    <3>2. QED
      BY <2>1, <3>1 DEF Inv, RowsAreOld
  <2>6. AllThere'
    BY <1>e, <2>1, <2>2 DEF Inv, AllThere
  <2>7. RowsInLine'
    <3>1. Lined(committed', trx', suspect)
      BY <2>2 DEF Inv, RowsInLine, Adds
    <3>2. Ahead(InDb', Range(rest), suspect)
      BY <2>2 DEF Inv, RowsInLine, Ahead
    <3>3. QED
      BY <1>e, <2>1, <3>1, <3>2 DEF Inv, RowsInLine, Quiet
  <2>8. QED
    BY <2>3, <2>4, <2>5, <2>6, <2>7 DEF Inv
<1>10. CASE Commit
  <2>1. /\ pc = "commit" /\ committed' = committed \o trx /\ trx' = << >> /\ ~inTrx'
        /\ rolledBack' = rolledBack /\ Return
    BY <1>10 DEF Commit
  <2>2. InDb' = InDb /\ \A X : Lined(committed, trx, X) => Lined(committed', trx', X)
    BY <1>p, <2>1, TrxEnds
  <2>3. rest = << >>
    BY <2>1 DEF Inv, FlushHasRows
  <2>4. QED
    BY <2>1, <2>2, <2>3, FlushReturns
<1>11. ASSUME NEW kind, RetryableError(kind) PROVE Inv'
  <2>1. PICK k \in 1..Len(packet) :
          LET before == SubSeq(packet, 1, k - 1)
          IN  /\ IF kind = "deadlock" THEN RollBack(before) ELSE Execute(before)
              /\ \/ TryAgain(before)
                 \/ (tryNum + 1 = maxTry \/ k = 1) /\ Throw
    BY <1>11 DEF RetryableError
  <2> DEFINE before == SubSeq(packet, 1, k - 1)
  <2>2. k - 1 \in 0..Len(packet)
    BY <1>p, LenProperties
  <2>3. before \in Seq(Rows) /\ Range(before) \subseteq Range(packet)
    BY <1>p, <2>2, BeforeIsTyped
  <2>4. (Execute(before) \/ RollBack(before)) /\ (Throw \/ TryAgain(before))
    BY <2>1
  <2> HIDE DEF before
  <2>5. QED
    BY <1>11, <2>3, <2>4, PacketFails DEF RetryableError
<1>12. CASE OtherError
  <2>1. PICK k \in 1..Len(packet) : Execute(SubSeq(packet, 1, k - 1))
    BY <1>12 DEF OtherError
  <2>2. k - 1 \in 0..Len(packet)
    BY <1>p, LenProperties
  <2>3. QED
    BY <1>12, <1>p, <2>1, <2>2, BeforeIsTyped, PacketFails DEF OtherError
<1>13. CASE LostDuringPacket
  <2>1. PICK k \in 0..Len(packet) : RollBack(SubSeq(packet, 1, k))
    BY <1>13 DEF LostDuringPacket
  <2>2. QED
    BY <1>13, <1>p, <2>1, BeforeIsTyped, PacketFails DEF LostDuringPacket
<1>14. CASE LostDuringControl
  <2>1. Flushing /\ Throw /\ trx' = << >> /\ committed' \in {committed, committed \o trx}
    BY <1>14 DEF LostDuringControl, Flushing, Quiet
  <2>2. InDb' \subseteq InDb /\ \A X : Lined(committed, trx, X) => Lined(committed', trx', X)
    BY <1>p, <2>1, TrxEnds
  <2>3. QED
    BY <2>1, <2>2, FlushThrows
<1>15. CASE SessionDies
  <2>1. /\ RollBack(<< >>)
        /\ UNCHANGED <<pc, useTRX, buffer, rest, packet, appending, given, failed, suspect,
                       nextRow>>
    BY <1>15 DEF SessionDies, bufferVars, flushVars, histVars
  <2>2. /\ InDb' \subseteq InDb
        /\ \A X : Lined(committed, trx, X) => Lined(committed', trx', X)
        /\ ~rolledBack' => ~rolledBack /\ InDb' = InDb
        /\ ~inTrx' /\ trx' = << >>
    BY <1>e, <1>p, <2>1, RowsRolledBack DEF Adds, Inv, FlushHasRows
  <2>3. FlushHasRows' /\ FlushIsOpen'
    BY <2>1, <2>2 DEF Inv, FlushHasRows, FlushIsOpen, Flushing, Quiet
  <2>4. RowsAreOld' /\ AllThere'
    BY <2>1, <2>2 DEF Inv, RowsAreOld, Known, AllThere
  <2>5. RowsInLine'
    <3>1. \A B : Ahead(InDb, B, suspect) => Ahead(InDb', B, suspect)
      BY <2>2 DEF Ahead
    <3>2. QED
      BY <2>1, <2>2, <3>1 DEF Inv, RowsInLine, Quiet
  <2>6. QED
    BY <2>3, <2>4, <2>5 DEF Inv
<1>16. CASE Closed \/ UNCHANGED vars
  <2>1. UNCHANGED <<pc, useTRX, buffer, rest, packet, appending, inTrx, trx, committed,
                    rolledBack, given, failed, suspect, nextRow>>
    BY <1>16 DEF Closed, vars, bufferVars, flushVars, serverVars, histVars
  <2>2. FlushHasRows' /\ FlushIsOpen'
    BY <2>1 DEF Inv, FlushHasRows, FlushIsOpen, Flushing, Quiet
  <2>3. RowsAreOld' /\ AllThere'
    BY <1>s, <2>1 DEF Inv, RowsAreOld, Known, AllThere
  <2>4. RowsInLine'
    BY <1>s, <2>1 DEF Inv, RowsInLine, Quiet
  <2>5. QED
    BY <2>2, <2>3, <2>4 DEF Inv
<1>17. QED
  BY <1>1, <1>2, <1>4, <1>5, <1>6, <1>7, <1>8, <1>9, <1>10, <1>11, <1>12, <1>13, <1>14,
     <1>15, <1>16 DEF Next

LEMMA RowsAreFollowed == Spec => []Inv
<1>1. ASSUME Init PROVE Inv
  <2>1. Range(<< >>) = {} /\ \A X : Ordered(<< >>, X) /\ \A A : Ahead(A, {}, X) /\ Ahead({}, A, X)
    BY NothingInEmpty
  <2>2. Range(committed) = {} /\ Range(trx) = {} /\ Range(given) = {} /\ Range(buffer) = {}
    BY <1>1, <2>1 DEF Init
  <2>3. QED
    BY <1>1, <2>1, <2>2
    DEF Init, Inv, FlushHasRows, FlushIsOpen, RowsAreOld, AllThere, RowsInLine, Lined, Flushing, Quiet,
        Known, InDb
<1>2. QED
  BY <1>1, InvStep, TypeCorrect, PTL DEF Spec

\* A flush that returns loses a row only when the server rolled its transaction back.
THEOREM NoRowLost == Spec => []LossIsTheServers
<1>1. ASSUME TypeOK, Inv PROVE LossIsTheServers
  <2>1. Range(committed \o trx) = InDb
    BY <1>1, TrxEndsIn, TypeParts
  <2>2. Quiet => packet = << >> /\ rest = << >>
    BY <1>1 DEF Inv, FlushHasRows
  <2>3. QED
    BY <1>1, <2>1, <2>2, NothingInEmpty DEF Inv, AllThere, LossIsTheServers
<1>2. QED
  BY <1>1, RowsAreFollowed, TypeCorrect, PTL

\* Statements that no exception and no retry has touched are in the database in the
\* order of append, each of them once.
THEOREM RowsKeepTheirOrder == Spec => []InAppendOrder
<1>1. ASSUME TypeOK, Inv PROVE InAppendOrder
  <2> DEFINE db == committed \o trx
  <2>1. db \in Seq(Rows) /\ Ordered(db, suspect)
    BY <1>1, TypeParts, TrxEndsIn, ConcatProperties DEF ServerTyped, Inv, RowsInLine
  <2> HIDE DEF db
  <2>2. DOMAIN db = 1..Len(db)
    BY <2>1, LenProperties
  <2>3. \A i, j \in 1..Len(db) :
           i < j /\ db[i] \notin suspect /\ db[j] \notin suspect => db[i] < db[j]
    BY <2>1, <2>2 DEF Ordered, Fits
  <2>4. QED
    BY <2>3 DEF InAppendOrder, db
<1>2. QED
  BY <1>1, RowsAreFollowed, TypeCorrect, PTL

\* Between flushes a transaction is open only after a failure or a retry.
THEOREM NoTransactionLeaks == Spec => []OpenTransactionIsSuspect
<1>1. Inv => OpenTransactionIsSuspect
  BY DEF Inv, FlushIsOpen, OpenTransactionIsSuspect, Quiet
<1>2. QED
  BY <1>1, RowsAreFollowed, PTL
=============================================================================
