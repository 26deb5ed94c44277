-------------------------- MODULE LiveTableProofs ---------------------------
(***************************************************************************)
(* What the map shows of the table, for any rows, any names, any overlap   *)
(* and any interleaving of the methods with the writers of the table.      *)
(*                                                                         *)
(* The loop of a method goes through rows in any order.  What it computes  *)
(* is found by induction over the turns of the loop, which is done here    *)
(* without a parameter for the induction hypothesis: the turns that        *)
(* satisfy it are a set, and a set of numbers that is not empty has a      *)
(* smallest element.                                                       *)
(***************************************************************************)
EXTENDS LiveTable, FiniteSetTheorems, WellFoundedInduction, TLAPS

-----------------------------------------------------------------------------
(* The loop over the rows.                                                 *)

\* Induction up to n, for the numbers of a set.
LEMMA ClimbTo ==
    ASSUME NEW n \in Nat, NEW S,
           0 \in S,
           \A k \in 1..n : k - 1 \in S => k \in S
    PROVE  \A k \in 0..n : k \in S
<1> SUFFICES ASSUME {k \in 0..n : k \notin S} # {}
             PROVE  FALSE
  OBVIOUS
<1> DEFINE Out == {k \in 0..n : k \notin S}
<1>1. Out \subseteq Nat /\ Out # {}
  OBVIOUS
<1> HIDE DEF Out
<1>2. PICK k \in Out : \A j \in Out : <<j, k>> \notin OpToRel(<, Nat)
  BY <1>1, NatLessThanWellFounded, WFMin, Zenon
<1>3. \A j \in Out : ~(j < k)
  BY <1>1, <1>2, Zenon DEF OpToRel
<1>4. k \in 0..n /\ k \notin S /\ \A j \in 0..n : j < k => j \in S
  BY <1>3 DEF Out
<1>5. k \in 1..n /\ k - 1 \in 0..n /\ k - 1 < k
  BY <1>4
<1>6. QED
  BY <1>4, <1>5

\* The sequence of what the turns of the loop leave.
IsLoop(f, n, m, rows, order) ==
    f = [k \in 0..n |-> IF k = 0 THEN [map |-> m, refused |-> {}]
                                 ELSE ApplyRow(f[k - 1], rows, order[k])]

\* There is such a sequence.
LEMMA LoopExists ==
    ASSUME NEW n \in Nat, NEW m, NEW rows, NEW order
    PROVE  \E f : IsLoop(f, n, m, rows, order)
<1> DEFINE S == {k \in 0..n : \E f : IsLoop(f, k, m, rows, order)}
<1>1. 0 \in S
  <2> DEFINE f == [k \in 0..0 |-> [map |-> m, refused |-> {}]]
  <2>1. IsLoop(f, 0, m, rows, order)
    BY DEF IsLoop
  <2>2. QED
    BY <2>1
<1>2. ASSUME NEW k \in 1..n, k - 1 \in S PROVE k \in S
  <2>1. PICK f : IsLoop(f, k - 1, m, rows, order)
    BY <1>2
  <2> DEFINE turn(g, i) == IF i = 0 THEN [map |-> m, refused |-> {}]
                                    ELSE ApplyRow(g[i - 1], rows, order[i])
             g == [i \in 0..k |-> IF i = k THEN ApplyRow(f[k - 1], rows, order[k]) ELSE f[i]]
  <2>2. \A i \in 0..k - 1 : f[i] = turn(f, i)
    BY <2>1 DEF IsLoop
  <2>3. ASSUME NEW i \in 0..k PROVE g[i] = turn(g, i)
    <3>1. CASE i = k
      <4>1. g[k - 1] = f[k - 1] /\ g[k] = ApplyRow(f[k - 1], rows, order[k])
        OBVIOUS
      <4>2. QED
        BY <3>1, <4>1
    <3>2. CASE i # k
      <4>1. i \in 0..k - 1 /\ g[i] = f[i] /\ (i # 0 => g[i - 1] = f[i - 1])
        BY <3>2
      <4>2. QED
        BY <2>2, <4>1
    <3>3. QED
      BY <3>1, <3>2
  <2>4. g = [i \in 0..k |-> turn(g, i)]
    <3>1. g = [i \in 0..k |-> g[i]]
      OBVIOUS
    <3> HIDE DEF g, turn
    <3>2. QED
      BY <2>3, <3>1
  <2>5. IsLoop(g, k, m, rows, order)
    BY <2>4 DEF IsLoop
  <2>6. QED
    BY <2>5
<1>3. n \in S
  <2> HIDE DEF S
  <2>1. QED
    BY <1>1, <1>2, ClimbTo
<1>4. QED
  BY <1>3

\* The loop starts from the map, and each turn goes on from the last.
LEMMA LoopTurns ==
    ASSUME NEW m, NEW rows, NEW order, Len(order) \in Nat
    PROVE  \E after : /\ after[0] = [map |-> m, refused |-> {}]
                      /\ \A k \in 1..Len(order) :
                            after[k] = ApplyRow(after[k - 1], rows, order[k])
                      /\ ApplyRows(m, rows, order) = after[Len(order)]
<1> DEFINE after == CHOOSE f : IsLoop(f, Len(order), m, rows, order)
<1>1. IsLoop(after, Len(order), m, rows, order)
  BY LoopExists
<1>2. ApplyRows(m, rows, order) = after[Len(order)]
  BY Zenon DEF ApplyRows, IsLoop
<1> HIDE DEF after
<1>3. after[0] = [map |-> m, refused |-> {}]
  BY <1>1 DEF IsLoop
<1>4. ASSUME NEW k \in 1..Len(order) PROVE after[k] = ApplyRow(after[k - 1], rows, order[k])
  <2>1. k \in 0..Len(order) /\ k # 0
    OBVIOUS
  <2>2. QED
    BY <1>1, <2>1 DEF IsLoop
<1>5. QED
  BY <1>2, <1>3, <1>4

-----------------------------------------------------------------------------
(* One turn.                                                               *)

\* Rows that exist have names.
Fits(rows) == rows \in [Ids -> Rows] /\ \A id \in Ids : Exists(rows[id]) => rows[id].name \in Names

\* Two maps agree about an id.
SameAt(m, n, id) == /\ id \in DOMAIN m <=> id \in DOMAIN n
                    /\ id \in DOMAIN m => m[id] = n[id]

\* What it takes to be a map: an id has a name and a revision, and no other id its name.
LEMMA MapsAre ==
    ASSUME NEW m
    PROVE  m \in Maps <=>
             /\ m = [id \in DOMAIN m |-> m[id]] /\ DOMAIN m \subseteq Ids
             /\ \A id \in DOMAIN m : m[id] \in [name : Names, rev : 0..MaxWrites]
             /\ \A i, j \in DOMAIN m : m[i].name = m[j].name => i = j
<1> DEFINE Cell == [name : Names, rev : 0..MaxWrites]
<1>1. ASSUME m \in Maps
      PROVE  /\ m = [id \in DOMAIN m |-> m[id]] /\ DOMAIN m \subseteq Ids
             /\ \A id \in DOMAIN m : m[id] \in Cell
             /\ \A i, j \in DOMAIN m : m[i].name = m[j].name => i = j
  <2>1. PICK ids \in SUBSET Ids : m \in [ids -> Cell]
    BY <1>1 DEF Maps
  <2> HIDE DEF Cell
  <2>2. QED
    BY <1>1, <2>1 DEF Maps
<1>2. ASSUME m = [id \in DOMAIN m |-> m[id]], DOMAIN m \subseteq Ids,
             \A id \in DOMAIN m : m[id] \in Cell,
             \A i, j \in DOMAIN m : m[i].name = m[j].name => i = j
      PROVE  m \in Maps
  <2> HIDE DEF Cell
  <2>1. m \in [DOMAIN m -> Cell]
    BY <1>2
  <2>2. m \in UNION {[ids -> Cell] : ids \in SUBSET Ids}
    BY <1>2, <2>1
  <2>3. QED
    BY <1>2, <2>2 DEF Maps, Cell
<1>3. QED
  BY <1>1, <1>2

\* The empty map is one.
LEMMA NoRowsIsMap == NoRows \in Maps /\ DOMAIN NoRows = {}
<1>1. DOMAIN NoRows = {} /\ NoRows = [id \in DOMAIN NoRows |-> NoRows[id]]
  BY DEF NoRows
<1>2. QED
  BY <1>1, MapsAre

\* Erasing leaves a map without the id, and with all the others as they were.
LEMMA EraseFits ==
    ASSUME NEW m \in Maps, NEW id \in Ids
    PROVE  /\ EraseLocked(m, id) \in Maps
           /\ id \notin DOMAIN EraseLocked(m, id)
           /\ \A other \in Ids \ {id} : SameAt(EraseLocked(m, id), m, other)
<1> DEFINE e == EraseLocked(m, id)
<1>1. /\ e = [i \in DOMAIN e |-> e[i]]
      /\ DOMAIN e = DOMAIN m \ {id} /\ \A i \in DOMAIN e : e[i] = m[i]
  BY DEF EraseLocked, Restrict
<1> HIDE DEF e
<1>2. e \in Maps
  BY <1>1, MapsAre
<1>3. QED
  BY <1>1, <1>2 DEF SameAt, e

\* So does an upsert that is not refused, with the row in it.
LEMMA UpsertFits ==
    ASSUME NEW m \in Maps, NEW id \in Ids, NEW row \in Rows,
           row.name \in Names, ~Refuses(m, id, row), Alive(row)
    PROVE  /\ UpsertLocked(m, id, row) \in Maps
           /\ Shows(UpsertLocked(m, id, row), id, row)
           /\ \A other \in Ids \ {id} : SameAt(UpsertLocked(m, id, row), m, other)
<1> DEFINE u == UpsertLocked(m, id, row)
           cell == [name |-> row.name, rev |-> row.rev]
<1>1. cell \in [name : Names, rev : 0..MaxWrites] /\ cell.name = row.name
  BY DEF Rows
<1>2. u = [i \in DOMAIN m \cup {id} |-> IF i = id THEN cell ELSE m[i]]
  BY DEF UpsertLocked
<1> HIDE DEF u, cell
<1>3. /\ u = [i \in DOMAIN u |-> u[i]] /\ DOMAIN u = DOMAIN m \cup {id}
      /\ u[id] = cell /\ \A i \in DOMAIN m \ {id} : u[i] = m[i]
  BY <1>2
<1>4. \A i \in DOMAIN m \ {id} : m[i].name # row.name
  BY DEF Refuses
<1>5. \A i, j \in DOMAIN u : u[i].name = u[j].name => i = j
  BY <1>1, <1>3, <1>4, MapsAre
<1>6. \A i \in DOMAIN u : u[i] \in [name : Names, rev : 0..MaxWrites]
  BY <1>1, <1>3, MapsAre
<1>7. u \in Maps
  <2>1. DOMAIN m \subseteq Ids
    BY MapsAre
  <2>2. QED
    BY <1>3, <1>5, <1>6, <2>1, MapsAre
<1>8. Shows(u, id, row)
  BY <1>3 DEF Shows, cell
<1>9. QED
  BY <1>3, <1>7, <1>8 DEF SameAt, u

\* A turn puts a row in, takes it out, or is refused it, and then the map keeps
\* what it had for that id; it touches no other id.
LEMMA TurnSettles ==
    ASSUME NEW acc, acc.map \in Maps, NEW rows, Fits(rows), NEW id \in Ids
    PROVE  LET turn == ApplyRow(acc, rows, id)
           IN  /\ turn.map \in Maps
               /\ \A other \in Ids \ {id} : SameAt(turn.map, acc.map, other)
               /\ turn.refused \ {id} = acc.refused \ {id}
               /\ id \in turn.refused => /\ Alive(rows[id]) /\ turn.map = acc.map
                                         /\ Refuses(acc.map, id, rows[id])
               /\ id \notin turn.refused => Shows(turn.map, id, rows[id])
<1> DEFINE turn == ApplyRow(acc, rows, id)
<1>1. /\ turn.map = IF Alive(rows[id]) THEN UpsertLocked(acc.map, id, rows[id])
                                       ELSE EraseLocked(acc.map, id)
      /\ turn.refused = {i \in acc.refused \cup {id} :
                           i = id => Alive(rows[id]) /\ Refuses(acc.map, id, rows[id])}
  BY DEF ApplyRow
<1> HIDE DEF turn
<1>2. /\ turn.refused \ {id} = acc.refused \ {id}
      /\ id \in turn.refused <=> Alive(rows[id]) /\ Refuses(acc.map, id, rows[id])
  BY <1>1
<1>3. rows[id] \in Rows /\ (Exists(rows[id]) => rows[id].name \in Names)
  BY DEF Fits
<1>4. CASE ~Alive(rows[id])
  <2>1. turn.map = EraseLocked(acc.map, id)
    BY <1>1, <1>4
  <2>2. QED
    BY <1>2, <1>4, <2>1, EraseFits DEF Shows, turn
<1>5. CASE Alive(rows[id]) /\ ~Refuses(acc.map, id, rows[id])
  <2>1. turn.map = UpsertLocked(acc.map, id, rows[id])
    BY <1>1, <1>5
  <2>2. rows[id].name \in Names
    BY <1>3, <1>5 DEF Exists, Alive
  <2>3. QED
    BY <1>2, <1>3, <1>5, <2>1, <2>2, UpsertFits DEF turn
<1>6. CASE Alive(rows[id]) /\ Refuses(acc.map, id, rows[id])
  <2>1. turn.map = acc.map
    BY <1>1, <1>6 DEF UpsertLocked
  <2>2. QED
    BY <1>2, <1>6, <2>1 DEF SameAt, turn
<1>7. QED
  BY <1>4, <1>5, <1>6

-----------------------------------------------------------------------------
(* The whole loop.                                                         *)

\* Any order of a set of ids goes through each of them once.
LEMMA OrderCovers ==
    ASSUME NEW T, T \subseteq Ids, NEW order \in SetToSeqs(T)
    PROVE  /\ Len(order) \in Nat
           /\ \A k \in 1..Len(order) : order[k] \in T
           /\ \A j, k \in 1..Len(order) : j # k => order[j] # order[k]
           /\ T = {order[k] : k \in 1..Len(order)}
<1> DEFINE D == 1..Cardinality(T)
<1>1. IsFiniteSet(T) /\ Cardinality(T) \in Nat
  BY LiveTableAssumption, FS_Subset, FS_CardinalityType DEF LiveTableAssumption
<1>2. order \in [D -> T] /\ \A j, k \in D : j # k => order[j] # order[k]
  BY DEF SetToSeqs
<1>3. order \in Seq(T) /\ Len(order) = Cardinality(T)
  BY <1>1, <1>2
<1>4. IsFiniteSet(D) /\ Cardinality(D) = Cardinality(T)
  BY <1>1, FS_Interval
<1>5. order \in Injection(D, T)
  BY <1>2 DEF Injection, IsInjective
<1>6. order \in Surjection(D, T)
  BY <1>1, <1>4, <1>5, FS_Injection
<1>7. \A id \in T : \E k \in D : order[k] = id
  BY <1>6 DEF Surjection
<1>8. QED
  BY <1>1, <1>2, <1>3, <1>7

\* Where the loop is after some ids: each of them is shown, or was refused and
\* is as it was; the others are as they were.
SoFar(acc, m, rows, done) ==
    /\ acc.map \in Maps
    /\ acc.refused \subseteq done
    /\ \A id \in Ids \ done : SameAt(acc.map, m, id)
    /\ \A id \in acc.refused : Alive(rows[id]) /\ SameAt(acc.map, m, id)
    /\ \A id \in done \ acc.refused : Shows(acc.map, id, rows[id])

\* Maps that agree about an id show the same of it.
LEMMA ShowsIsLocal ==
    ASSUME NEW m, NEW n, NEW id, SameAt(m, n, id), NEW row
    PROVE  Shows(m, id, row) <=> Shows(n, id, row)
BY DEF SameAt, Shows

\* A turn for one more id takes the loop from there to there.
LEMMA TurnGoesOn ==
    ASSUME NEW acc, NEW m, NEW rows, Fits(rows), NEW done \in SUBSET Ids,
           NEW id \in Ids \ done, SoFar(acc, m, rows, done)
    PROVE  SoFar(ApplyRow(acc, rows, id), m, rows, done \cup {id})
<1> DEFINE turn == ApplyRow(acc, rows, id)
<1>1. /\ turn.map \in Maps
      /\ \A other \in Ids \ {id} : SameAt(turn.map, acc.map, other)
      /\ turn.refused \ {id} = acc.refused \ {id}
      /\ id \in turn.refused => Alive(rows[id]) /\ turn.map = acc.map
      /\ id \notin turn.refused => Shows(turn.map, id, rows[id])
  BY TurnSettles DEF SoFar
<1> HIDE DEF turn
<1>2. turn.refused \subseteq done \cup {id} /\ id \notin acc.refused
  BY <1>1 DEF SoFar
<1>3. ASSUME NEW other \in Ids \ (done \cup {id}) PROVE SameAt(turn.map, m, other)
  BY <1>1 DEF SoFar, SameAt
<1>4. ASSUME NEW other \in turn.refused
      PROVE  Alive(rows[other]) /\ SameAt(turn.map, m, other)
  <2>1. CASE other = id
    BY <1>1, <1>4, <2>1 DEF SoFar
  <2>2. CASE other # id
    <3>1. other \in acc.refused /\ other \in Ids
      BY <1>1, <1>4, <2>2 DEF SoFar
    <3>2. QED
      BY <1>1, <2>2, <3>1 DEF SoFar, SameAt
  <2>3. QED
    BY <2>1, <2>2
<1>5. ASSUME NEW other \in (done \cup {id}) \ turn.refused
      PROVE  Shows(turn.map, other, rows[other])
  <2>1. CASE other = id
    BY <1>1, <1>5, <2>1
  <2>2. CASE other # id
    <3>1. other \in done \ acc.refused
      BY <1>1, <1>5, <2>2
    <3>2. QED
      BY <1>1, <2>2, <3>1, ShowsIsLocal DEF SoFar
  <2>3. QED
    BY <2>1, <2>2
<1>6. QED
  BY <1>1, <1>2, <1>3, <1>4, <1>5 DEF SoFar, turn

Before(order, n) == {order[k] : k \in 1..n}

\* Every turn of the loop gets there.
LEMMA LoopGoesOn ==
    ASSUME NEW m \in Maps, NEW rows, Fits(rows), NEW T, T \subseteq Ids,
           NEW order \in SetToSeqs(T)
    PROVE  \E after : /\ after[0] = [map |-> m, refused |-> {}]
                      /\ \A n \in 1..Len(order) :
                            after[n] = ApplyRow(after[n - 1], rows, order[n])
                      /\ ApplyRows(m, rows, order) = after[Len(order)]
                      /\ \A n \in 0..Len(order) :
                            SoFar(after[n], m, rows, Before(order, n))
<1>1. PICK after : /\ after[0] = [map |-> m, refused |-> {}]
                   /\ \A k \in 1..Len(order) :
                         after[k] = ApplyRow(after[k - 1], rows, order[k])
                   /\ ApplyRows(m, rows, order) = after[Len(order)]
  BY OrderCovers, LoopTurns
<1> DEFINE S == {n \in 0..Len(order) : SoFar(after[n], m, rows, Before(order, n))}
<1>2. Len(order) \in Nat /\ 0 \in 0..Len(order)
  BY OrderCovers
<1>3. 0 \in S
  <2>1. Before(order, 0) = {}
    BY DEF Before
  <2>2. after[0].map = m /\ after[0].refused = {}
    BY <1>1
  <2>3. SoFar(after[0], m, rows, {})
    BY <2>2 DEF SoFar, SameAt
  <2>4. QED
    BY <1>2, <2>1, <2>3
<1>4. ASSUME NEW n \in 1..Len(order), n - 1 \in S PROVE n \in S
  <2>1. n \in Nat /\ n - 1 \in 0..Len(order) /\ 1..n = 1..(n - 1) \cup {n}
    BY <1>2
  <2>2. Before(order, n) = Before(order, n - 1) \cup {order[n]}
    BY <2>1 DEF Before
  <2>3. Before(order, n - 1) \in SUBSET Ids /\ order[n] \in Ids \ Before(order, n - 1)
    <3>1. \A k \in 1..n - 1 : k \in 1..Len(order) /\ k # n
      BY <2>1
    <3>2. QED
      BY <3>1, OrderCovers DEF Before
  <2>4. SoFar(after[n - 1], m, rows, Before(order, n - 1))
    BY <1>4
  <2>5. SoFar(after[n], m, rows, Before(order, n))
    BY <1>1, <2>2, <2>3, <2>4, TurnGoesOn
  <2>6. QED
    BY <1>2, <2>5
<1> HIDE DEF S
<1>5. \A n \in 0..Len(order) : n \in S
  BY <1>2, <1>3, <1>4, ClimbTo
<1>6. QED
  BY <1>1, <1>5 DEF S

\* What the loop leaves, whatever the order.
LEMMA LoopSettles ==
    ASSUME NEW m \in Maps, NEW rows, Fits(rows), NEW T, T \subseteq Ids,
           NEW order \in SetToSeqs(T)
    PROVE  SoFar(ApplyRows(m, rows, order), m, rows, T)
<1>1. Len(order) \in 0..Len(order) /\ Before(order, Len(order)) = T
  BY OrderCovers DEF Before
<1>2. QED
  BY <1>1, LoopGoesOn

\* The rows of a table, of which no two have one name.
Apart(rows) == \A i, j \in Ids : Exists(rows[i]) /\ rows[i].name = rows[j].name => i = j

\* A loop that starts from the empty map is refused no row of a table.
LEMMA NoneRefused ==
    ASSUME NEW rows, Fits(rows), Apart(rows), NEW T, T \subseteq Ids,
           NEW order \in SetToSeqs(T)
    PROVE  ApplyRows(NoRows, rows, order).refused = {}
<1>1. PICK after : /\ after[0] = [map |-> NoRows, refused |-> {}]
                   /\ \A n \in 1..Len(order) :
                         after[n] = ApplyRow(after[n - 1], rows, order[n])
                   /\ ApplyRows(NoRows, rows, order) = after[Len(order)]
                   /\ \A n \in 0..Len(order) :
                         SoFar(after[n], NoRows, rows, Before(order, n))
  BY LoopGoesOn, NoRowsIsMap
<1> DEFINE S == {n \in 0..Len(order) : after[n].refused = {}}
<1>2. Len(order) \in Nat /\ 0 \in S
  BY <1>1, OrderCovers
<1>3. ASSUME NEW n \in 1..Len(order), n - 1 \in S PROVE n \in S
  <2> DEFINE acc == after[n - 1]
             id == order[n]
  <2>1. n - 1 \in 0..Len(order) /\ acc.refused = {} /\ id \in Ids
    BY <1>2, <1>3, OrderCovers
  <2>2. SoFar(acc, NoRows, rows, Before(order, n - 1))
    BY <1>1, <2>1
  <2>3. after[n] = ApplyRow(acc, rows, id)
    BY <1>1
  <2> HIDE DEF acc, id
  <2>4. /\ after[n].refused \subseteq {id}
        /\ id \in after[n].refused => Alive(rows[id]) /\ Refuses(acc.map, id, rows[id])
    BY <2>1, <2>2, <2>3, TurnSettles DEF SoFar
  <2>5. ASSUME Alive(rows[id]), Refuses(acc.map, id, rows[id]) PROVE FALSE
    <3>1. PICK other \in DOMAIN acc.map \ {id} : acc.map[other].name = rows[id].name
      BY <2>5 DEF Refuses
    <3>2. other \in Ids
      BY <2>2, <3>1, MapsAre DEF SoFar
    <3>3. other \in Before(order, n - 1)
      BY <2>2, <3>1, <3>2, NoRowsIsMap DEF SoFar, SameAt
    <3>4. Shows(acc.map, other, rows[other])
      BY <2>1, <2>2, <3>3 DEF SoFar
    <3>5. rows[other].name = rows[id].name
      BY <3>1, <3>4 DEF Shows
    <3>6. QED
      BY <2>1, <2>5, <3>1, <3>2, <3>5 DEF Apart, Exists, Alive
  <2>6. QED
    BY <1>2, <2>4, <2>5
<1> HIDE DEF S
<1>4. \A n \in 0..Len(order) : n \in S
  BY <1>2, <1>3, ClimbTo
<1>5. QED
  BY <1>1, <1>2, <1>4 DEF S

-----------------------------------------------------------------------------
(* Types, and the table.                                                   *)

\* A row that exists has a name and was written, and only such a row has one.
RowFits(row) ==
    /\ Exists(row) => row.name \in Names /\ row.at <= now /\ row.rev <= writes
    /\ ~Exists(row) => row.name = NoName /\ row.rev = 0

\* The unique index of the table, which sees open transactions too.
NamesHold ==
    \A i, j \in Ids : i # j =>
        /\ Exists(db[i])      => db[i].name \notin {db[j].name, pending[j].name}
        /\ Exists(pending[i]) => pending[i].name \notin {db[j].name, pending[j].name}

TableOK ==
    /\ \A id \in Ids : RowFits(db[id]) /\ RowFits(pending[id]) /\ pending[id].state # "gone"
    /\ NamesHold
    /\ \A id \in Ids : Exists(pending[id]) =>
          db[id].state # "gone" /\ db[id].rev < pending[id].rev

\* Who holds the gate has read the clock, and who holds it free has nothing.
GateOK ==
    /\ gate = "free" => snapshot = NoSnapshot
    /\ gate = "owner" => ownerRow \in Ids /\ snapshot \in [Ids -> Rows]
    /\ gate = "refresh" => lastTs # NoTs
    /\ gate \in {"loadAll", "refresh"} <=> nextTs # NoTs
    /\ lastTs <= now /\ nextTs <= now
    /\ snapshot # NoSnapshot => Fits(snapshot) /\ Apart(snapshot)

Base == TypeOK /\ TableOK /\ GateOK

TableWrite ==
    \E id \in Ids : \/ \E name \in Names, state \in {"live", "dead"} : Write(id, Written(name, state))
                    \/ Commit(id) \/ Rollback(id) \/ Delete(id)

Applying == LoadAll \/ Refresh \/ Reconcile \/ OwnerApply

\* What a statement, a commit or a delete may do to a row.
RowMoves(id) ==
    \/ db'[id] = db[id]
    \/ db'[id].state = "gone"
    \/ /\ db[id].state # "gone" /\ Exists(db'[id]) /\ db[id].rev < db'[id].rev
       /\ db'[id].slow \/ now <= db'[id].at + overlapSeconds

\* The bounds are numbers.
LEMMA BoundsAreNat ==
    overlapSeconds \in Nat /\ MaxTime \in Nat /\ MaxWrites \in Nat /\ NoName \notin Names
BY LiveTableAssumption DEF LiveTableAssumption

\* The row of an id that was never inserted.
LEMMA NoRowIsRow ==
    /\ NoRow \in Rows /\ ~Exists(NoRow)
    /\ NoRow.name = NoName /\ NoRow.rev = 0 /\ NoRow.at = 0 /\ NoRow.state = "none"
BY BoundsAreNat DEF NoRow, Rows, Exists

\* The row of an id that was deleted.
LEMMA GoneIsRow ==
    LET gone == [NoRow EXCEPT !.state = "gone"]
    IN  gone \in Rows /\ ~Exists(gone) /\ gone.name = NoName /\ gone.rev = 0 /\ gone.state = "gone"
BY NoRowIsRow DEF Rows, Exists

\* A row that the program finds in the table.
LEMMA FirstIsRow ==
    ASSUME NEW name \in Names
    PROVE  LET row == [NoRow EXCEPT !.state = "live", !.name = name]
           IN  row \in Rows /\ Exists(row) /\ row.rev = 0 /\ row.at = 0 /\ row.name = name
BY NoRowIsRow DEF Rows, Exists

\* A row that a statement writes.
LEMMA WrittenIsRow ==
    ASSUME TypeOK, writes < MaxWrites, NEW name \in Names, NEW state \in {"live", "dead"}
    PROVE  /\ Written(name, state) \in Rows /\ Exists(Written(name, state))
           /\ Written(name, state).name = name /\ Written(name, state).at = now
           /\ Written(name, state).rev = writes + 1 /\ ~Written(name, state).slow
BY BoundsAreNat DEF Written, Rows, Exists, TypeOK

\* The table, the map and the gate are as they should be at first.
LEMMA InitBase == Init => Base
<1> SUFFICES ASSUME Init PROVE Base
  OBVIOUS
<1>1. InitialName \in [InitialIds -> Names] /\ IsInjective(InitialName)
  BY LiveTableAssumption DEF LiveTableAssumption, InitialName
<1>2. InitialIds \subseteq Ids
  BY LiveTableAssumption DEF LiveTableAssumption
<1>3. /\ db = [id \in Ids |-> IF id \in InitialIds
                              THEN [NoRow EXCEPT !.state = "live", !.name = InitialName[id]]
                              ELSE NoRow]
      /\ pending = [id \in Ids |-> NoRow]
  BY DEF Init
<1>4. /\ now = 0 /\ writes = 0 /\ map = NoRows /\ lastTs = NoTs /\ rejected = {}
      /\ gate = "free" /\ nextTs = NoTs /\ snapshot = NoSnapshot /\ ownerRow = NoOwnerRow
  BY DEF Init
<1>5. ASSUME NEW id \in InitialIds
      PROVE  /\ db[id] \in Rows /\ Exists(db[id]) /\ db[id].rev = 0 /\ db[id].at = 0
             /\ db[id].name = InitialName[id] /\ db[id].name \in Names
  <2>1. db[id] = [NoRow EXCEPT !.state = "live", !.name = InitialName[id]]
    BY <1>2, <1>3
  <2>2. InitialName[id] \in Names
    BY <1>1
  <2>3. QED
    BY <2>1, <2>2, FirstIsRow
<1>6. \A id \in Ids \ InitialIds : db[id] = NoRow
  BY <1>3
<1>7. \A id \in Ids : pending[id] = NoRow
  BY <1>3
<1>8. NoRow \in Rows /\ ~Exists(NoRow) /\ NoRow.name = NoName /\ NoRow.rev = 0 /\ NoRow.state = "none"
  BY NoRowIsRow
<1>9. db \in [Ids -> Rows] /\ pending \in [Ids -> Rows]
  <2>1. \A id \in Ids : db[id] \in Rows
    BY <1>5, <1>6, <1>8
  <2>2. QED
    BY <1>3, <1>7, <1>8, <2>1
<1>10. TypeOK
  BY <1>4, <1>9, NoRowsIsMap, BoundsAreNat DEF TypeOK
<1>11. TableOK
  <2>1. ASSUME NEW id \in Ids PROVE RowFits(db[id])
    BY <1>4, <1>5, <1>6, <1>8 DEF RowFits
  <2>2. \A id \in Ids : RowFits(pending[id]) /\ pending[id].state # "gone"
    BY <1>7, <1>8 DEF RowFits
  <2>3. ASSUME NEW i \in Ids, NEW j \in Ids, i # j, Exists(db[i])
        PROVE  db[i].name \notin {db[j].name, pending[j].name}
    <3>1. i \in InitialIds /\ db[i].name \in Names /\ db[i].name # NoName
      BY <1>5, <1>6, <1>8, <2>3, BoundsAreNat
    <3>2. pending[j].name = NoName
      BY <1>7, <1>8
    <3>3. j \in InitialIds => InitialName[j] # InitialName[i]
      BY <1>1, <2>3, <3>1 DEF IsInjective
    <3>4. QED
      BY <1>5, <1>6, <1>8, <3>1, <3>2, <3>3
  <2>4. NamesHold
    BY <1>7, <1>8, <2>3 DEF NamesHold
  <2>5. QED
    BY <1>7, <1>8, <2>1, <2>2, <2>4 DEF TableOK
<1>12. GateOK
  BY <1>4 DEF GateOK, NoTs
<1>13. QED
  BY <1>10, <1>11, <1>12 DEF Base

\* Facts about a row, at a time and after some statements.
FitsAt(row, time, statements) ==
    /\ row \in Rows
    /\ Exists(row) => row.name \in Names /\ row.at <= time /\ row.rev <= statements
    /\ ~Exists(row) => row.name = NoName /\ row.rev = 0

NameIsFree(row, id) ==
    Exists(row) => \A other \in Ids \ {id} : row.name \notin {db[other].name, pending[other].name}

\* The committed row of an id and its open one become others.
LEMMA RowChange ==
    ASSUME TypeOK, TableOK, NEW id \in Ids, NEW row, NEW open,
           db' = [db EXCEPT ![id] = row], pending' = [pending EXCEPT ![id] = open],
           now' = now, writes' \in Nat, writes <= writes',
           FitsAt(row, now, writes'), FitsAt(open, now, writes'), open.state # "gone",
           NameIsFree(row, id), NameIsFree(open, id),
           Exists(open) => row.state # "gone" /\ row.rev < open.rev
    PROVE  db' \in [Ids -> Rows] /\ pending' \in [Ids -> Rows] /\ TableOK'
<1>1. /\ db \in [Ids -> Rows] /\ pending \in [Ids -> Rows] /\ writes \in Nat
      /\ row \in Rows /\ open \in Rows
  BY BoundsAreNat DEF TypeOK, FitsAt
<1>2. db' \in [Ids -> Rows] /\ pending' \in [Ids -> Rows]
  BY <1>1
<1>3. /\ db'[id] = row /\ pending'[id] = open
      /\ \A other \in Ids \ {id} : db'[other] = db[other] /\ pending'[other] = pending[other]
  BY <1>1
<1>4. ASSUME NEW other \in Ids
      PROVE  RowFits(db[other])' /\ RowFits(pending[other])' /\ pending'[other].state # "gone"
  <2>1. CASE other = id
    BY <1>3, <2>1 DEF RowFits, FitsAt
  <2>2. CASE other # id
    <3>1. /\ RowFits(db[other]) /\ RowFits(pending[other]) /\ pending[other].state # "gone"
          /\ db'[other] = db[other] /\ pending'[other] = pending[other]
      BY <1>3, <2>2 DEF TableOK
    <3>2. db[other].rev \in Nat /\ pending[other].rev \in Nat
      BY <1>1, BoundsAreNat DEF Rows
    <3>3. QED
      BY <1>1, <3>1, <3>2 DEF RowFits
  <2>3. QED
    BY <2>1, <2>2
<1>5. \A other \in Ids : Exists(pending'[other]) =>
         db'[other].state # "gone" /\ db'[other].rev < pending'[other].rev
  BY <1>3 DEF TableOK
<1>6. NamesHold'
  <2>1. \A i \in Ids : /\ Exists(db[i]) => db[i].name \in Names
                       /\ Exists(pending[i]) => pending[i].name \in Names
    BY DEF TableOK, RowFits
  <2>2. /\ Exists(row) \/ row.name = NoName
        /\ Exists(open) \/ open.name = NoName
    BY DEF FitsAt
  <2>3. ASSUME NEW i \in Ids, NEW j \in Ids, i # j, Exists(db'[i])
        PROVE  db'[i].name \notin {db'[j].name, pending'[j].name}
    BY <1>3, <2>1, <2>2, <2>3, BoundsAreNat DEF TableOK, NamesHold, NameIsFree
  <2>4. ASSUME NEW i \in Ids, NEW j \in Ids, i # j, Exists(pending'[i])
        PROVE  pending'[i].name \notin {db'[j].name, pending'[j].name}
    BY <1>3, <2>1, <2>2, <2>4, BoundsAreNat DEF TableOK, NamesHold, NameIsFree
  <2>5. QED
    BY <2>3, <2>4 DEF NamesHold
<1>7. QED
  BY <1>2, <1>4, <1>5, <1>6 DEF TableOK

\* What is in the table already is as it should be.
LEMMA RowsFit ==
    ASSUME TypeOK, TableOK, NEW id \in Ids
    PROVE  /\ FitsAt(db[id], now, writes) /\ FitsAt(pending[id], now, writes)
           /\ NameIsFree(db[id], id) /\ NameIsFree(pending[id], id)
           /\ now \in Nat /\ writes \in Nat
           /\ db[id].rev \in Nat /\ pending[id].rev \in Nat
<1>1. db[id] \in Rows /\ pending[id] \in Rows /\ now \in Nat /\ writes \in Nat
  BY BoundsAreNat DEF TypeOK
<1>2. RowFits(db[id]) /\ RowFits(pending[id])
  BY DEF TableOK
<1>3. FitsAt(db[id], now, writes) /\ FitsAt(pending[id], now, writes)
  BY <1>1, <1>2 DEF FitsAt, RowFits
<1>4. NameIsFree(db[id], id) /\ NameIsFree(pending[id], id)
  BY DEF TableOK, NamesHold, NameIsFree
<1>5. QED
  BY <1>1, <1>3, <1>4, BoundsAreNat DEF Rows

\* One statement later it still fits.
LEMMA LaterFits ==
    ASSUME NEW row, NEW time \in Nat, NEW statements \in Nat, FitsAt(row, time, statements)
    PROVE  FitsAt(row, time, statements + 1)
<1>1. row.rev \in Nat
  BY BoundsAreNat DEF FitsAt, Rows
<1>2. QED
  BY <1>1 DEF FitsAt

\* No row at all fits, at any time.
LEMMA NoRowFits ==
    /\ \A time, statements : FitsAt(NoRow, time, statements)
    /\ \A id : NameIsFree(NoRow, id)
    /\ ~Exists(NoRow) /\ NoRow.state # "gone"
BY NoRowIsRow DEF FitsAt, NameIsFree

\* The mark of a slow transaction changes nothing else.
LEMMA MarkIsRow ==
    ASSUME NEW row \in Rows, NEW late \in BOOLEAN
    PROVE  LET marked == [row EXCEPT !.slow = late]
           IN  /\ marked \in Rows /\ marked.slow = late
               /\ marked.state = row.state /\ marked.name = row.name
               /\ marked.rev = row.rev /\ marked.at = row.at
BY DEF Rows

\* Others' statements, commits and deletes.
LEMMA TableWriteKeeps ==
    ASSUME TypeOK, TableOK, TableWrite
    PROVE  /\ db' \in [Ids -> Rows] /\ pending' \in [Ids -> Rows]
           /\ writes' \in 0..MaxWrites /\ TableOK'
           /\ UNCHANGED <<now, mapVars, jobVars>>
           /\ \A id \in Ids : RowMoves(id)
<1>t. db \in [Ids -> Rows] /\ pending \in [Ids -> Rows] /\ writes \in 0..MaxWrites
  BY DEF TypeOK
<1>1. ASSUME NEW id \in Ids, NEW name \in Names, NEW state \in {"live", "dead"},
             Write(id, Written(name, state))
      PROVE  /\ writes' \in 0..MaxWrites /\ TableOK' /\ db' = db
             /\ pending' \in [Ids -> Rows]
             /\ UNCHANGED <<now, mapVars, jobVars>>
  <2> DEFINE row == Written(name, state)
  <2>1. /\ MayWrite(id, row) /\ pending' = [pending EXCEPT ![id] = row]
        /\ writes' = writes + 1 /\ UNCHANGED <<now, db, mapVars, jobVars>>
    BY <1>1 DEF Write
  <2>2. writes < MaxWrites /\ db[id].state # "gone"
    BY <2>1 DEF MayWrite
  <2>3. /\ row \in Rows /\ Exists(row) /\ row.name = name /\ row.at = now /\ row.rev = writes + 1
    BY <2>2, WrittenIsRow
  <2> HIDE DEF row
  <2>4. FitsAt(row, now, writes') /\ row.state # "gone"
    BY <1>t, <2>1, <2>3, BoundsAreNat DEF FitsAt, Exists, TypeOK
  <2>5. NameIsFree(row, id)
    BY <2>1 DEF MayWrite, NameIsFree
  <2>6. FitsAt(db[id], now, writes') /\ NameIsFree(db[id], id) /\ db[id].rev < row.rev
    <3>1. db[id].rev <= writes
      BY RowsFit DEF FitsAt
    <3>2. QED
      BY <2>1, <2>3, <3>1, RowsFit, LaterFits
  <2>7. db' = [db EXCEPT ![id] = db[id]]
    BY <1>t, <2>1
  <2>8. writes' \in Nat /\ writes <= writes' /\ writes' \in 0..MaxWrites
    BY <1>t, <2>1, <2>2, BoundsAreNat
  <2>9. TableOK' /\ pending' \in [Ids -> Rows]
    BY <2>1, <2>2, <2>4, <2>5, <2>6, <2>7, <2>8, RowChange
  <2>10. QED
    BY <2>1, <2>8, <2>9
<1>2. ASSUME NEW id \in Ids, Commit(id)
      PROVE  /\ writes' = writes /\ TableOK' /\ db' \in [Ids -> Rows]
             /\ pending' \in [Ids -> Rows]
             /\ UNCHANGED <<now, mapVars, jobVars>>
             /\ \A other \in Ids : RowMoves(other)
  <2> DEFINE late == now > pending[id].at + overlapSeconds
             row == [pending[id] EXCEPT !.slow = late]
  <2>1. /\ Exists(pending[id]) /\ db' = [db EXCEPT ![id] = row]
        /\ pending' = [pending EXCEPT ![id] = NoRow]
        /\ UNCHANGED <<now, writes, mapVars, jobVars>>
    BY <1>2 DEF Commit
  <2>2. pending[id] \in Rows /\ late \in BOOLEAN
    BY <1>t
  <2>3. late \/ now <= pending[id].at + overlapSeconds
    <3>1. pending[id].at \in Nat /\ now \in Nat
      BY <2>2, RowsFit, BoundsAreNat DEF Rows
    <3>2. QED
      BY <3>1, BoundsAreNat
  <2> HIDE DEF late
  <2>4. /\ row \in Rows /\ row.slow = late
        /\ row.state = pending[id].state /\ row.name = pending[id].name
        /\ row.rev = pending[id].rev /\ row.at = pending[id].at
    BY <2>2, MarkIsRow
  <2> HIDE DEF row
  <2>5. Exists(row) /\ FitsAt(row, now, writes) /\ NameIsFree(row, id)
    BY <2>1, <2>4, RowsFit DEF FitsAt, NameIsFree, Exists
  <2>6. writes' \in Nat /\ writes <= writes'
    BY <2>1, RowsFit
  <2>7. TableOK' /\ db' \in [Ids -> Rows] /\ pending' \in [Ids -> Rows]
    BY <2>1, <2>5, <2>6, NoRowFits, RowChange
  <2>8. /\ db'[id] = row /\ db[id].state # "gone" /\ db[id].rev < row.rev
        /\ row.slow \/ now <= row.at + overlapSeconds
    <3>1. db[id].state # "gone" /\ db[id].rev < pending[id].rev
      BY <2>1 DEF TableOK
    <3>2. row.slow \/ now <= row.at + overlapSeconds
      BY <2>3, <2>4, Zenon
    <3>3. QED
      BY <1>t, <2>1, <2>4, <3>1, <3>2
  <2>9. \A other \in Ids : RowMoves(other)
    BY <1>t, <2>1, <2>5, <2>8 DEF RowMoves
  <2>10. QED
    BY <2>1, <2>7, <2>9
<1>3. ASSUME NEW id \in Ids, Rollback(id)
      PROVE  /\ writes' = writes /\ TableOK' /\ db' = db /\ pending' \in [Ids -> Rows]
             /\ UNCHANGED <<now, mapVars, jobVars>>
  <2>1. /\ pending' = [pending EXCEPT ![id] = NoRow]
        /\ UNCHANGED <<now, db, writes, mapVars, jobVars>>
    BY <1>3 DEF Rollback
  <2>2. db' = [db EXCEPT ![id] = db[id]] /\ writes' \in Nat /\ writes <= writes'
    BY <1>t, <2>1, RowsFit
  <2>3. TableOK' /\ pending' \in [Ids -> Rows]
    BY <2>1, <2>2, RowsFit, NoRowFits, RowChange
  <2>4. QED
    BY <2>1, <2>3
<1>4. ASSUME NEW id \in Ids, Delete(id)
      PROVE  /\ writes' \in 0..MaxWrites /\ TableOK' /\ db' \in [Ids -> Rows]
             /\ pending' = pending
             /\ UNCHANGED <<now, mapVars, jobVars>>
             /\ \A other \in Ids : RowMoves(other)
  <2> DEFINE gone == [NoRow EXCEPT !.state = "gone"]
  <2>1. /\ writes < MaxWrites /\ ~Exists(pending[id])
        /\ db' = [db EXCEPT ![id] = gone] /\ writes' = writes + 1
        /\ UNCHANGED <<now, pending, mapVars, jobVars>>
    BY <1>4 DEF Delete
  <2>2. gone \in Rows /\ ~Exists(gone) /\ gone.name = NoName /\ gone.rev = 0 /\ gone.state = "gone"
    BY GoneIsRow
  <2> HIDE DEF gone
  <2>3. FitsAt(gone, now, writes') /\ NameIsFree(gone, id)
    BY <2>2 DEF FitsAt, NameIsFree
  <2>4. writes' \in Nat /\ writes <= writes' /\ writes' \in 0..MaxWrites
    BY <1>t, <2>1, BoundsAreNat
  <2>5. FitsAt(pending[id], now, writes') /\ NameIsFree(pending[id], id) /\ pending[id].state # "gone"
    BY <2>1, RowsFit, LaterFits DEF TableOK
  <2>6. pending' = [pending EXCEPT ![id] = pending[id]]
    BY <1>t, <2>1
  <2>7. TableOK' /\ db' \in [Ids -> Rows]
    BY <2>1, <2>3, <2>4, <2>5, <2>6, RowChange
  <2>8. \A other \in Ids : RowMoves(other)
    BY <1>t, <2>1, <2>2 DEF RowMoves
  <2>9. QED
    BY <2>1, <2>4, <2>7, <2>8
<1>5. ASSUME db' = db PROVE \A id \in Ids : RowMoves(id)
  BY <1>5 DEF RowMoves
<1>6. QED
  BY <1>t, <1>1, <1>2, <1>3, <1>4, <1>5 DEF TableWrite

\* The owner's statement.
LEMMA OwnerWriteKeeps ==
    ASSUME TypeOK, TableOK, NEW id \in Ids, NEW name \in Names, NEW state \in {"live", "dead"},
           OwnerWrite(id, Written(name, state))
    PROVE  /\ db' \in [Ids -> Rows] /\ writes' \in 0..MaxWrites /\ TableOK'
           /\ gate = "free" /\ gate' = "owner" /\ ownerRow' = id /\ snapshot' = db'
           /\ UNCHANGED <<now, pending, mapVars, nextTs>>
           /\ \A other \in Ids : RowMoves(other)
           /\ Exists(db'[id]) /\ db'[id].at = now
<1> DEFINE row == Written(name, state)
<1>t. db \in [Ids -> Rows] /\ pending \in [Ids -> Rows] /\ writes \in 0..MaxWrites
  BY DEF TypeOK
<1>1. /\ MayWrite(id, row) /\ db' = [db EXCEPT ![id] = row] /\ writes' = writes + 1
      /\ gate = "free" /\ gate' = "owner" /\ ownerRow' = id /\ snapshot' = db'
      /\ UNCHANGED <<now, pending, mapVars, nextTs>>
  BY DEF OwnerWrite
<1>2. writes < MaxWrites /\ db[id].state # "gone" /\ ~Exists(pending[id])
  BY <1>1 DEF MayWrite, Exists
<1>3. /\ row \in Rows /\ Exists(row) /\ row.name = name /\ row.at = now /\ row.rev = writes + 1
  BY <1>2, WrittenIsRow
<1> HIDE DEF row
<1>4. writes' \in Nat /\ writes <= writes' /\ writes' \in 0..MaxWrites
  BY <1>t, <1>1, <1>2, BoundsAreNat
<1>5. FitsAt(row, now, writes')
  BY <1>t, <1>1, <1>3, BoundsAreNat DEF FitsAt, Exists, TypeOK
<1>6. NameIsFree(row, id)
  BY <1>1 DEF MayWrite, NameIsFree
<1>7. FitsAt(pending[id], now, writes') /\ NameIsFree(pending[id], id) /\ pending[id].state # "gone"
  BY <1>1, RowsFit, LaterFits DEF TableOK
<1>8. pending' = [pending EXCEPT ![id] = pending[id]]
  BY <1>t, <1>1
<1>9. TableOK' /\ db' \in [Ids -> Rows]
  BY <1>1, <1>2, <1>4, <1>5, <1>6, <1>7, <1>8, RowChange
<1>10. db'[id] = row /\ \A other \in Ids \ {id} : db'[other] = db[other]
  BY <1>t, <1>1
<1>11. db[id].rev < row.rev /\ now <= row.at + overlapSeconds
  <2>1. db[id].rev <= writes /\ now \in Nat
    BY RowsFit DEF FitsAt
  <2>2. QED
    BY <1>3, <2>1, RowsFit, BoundsAreNat
<1>12. \A other \in Ids : RowMoves(other)
  BY <1>2, <1>3, <1>10, <1>11 DEF RowMoves
<1>13. QED
  BY <1>1, <1>3, <1>4, <1>9, <1>10, <1>12

\* A SELECT sees rows that fit, and no name twice.
LEMMA TableFits ==
    ASSUME db \in [Ids -> Rows], TableOK
    PROVE  Fits(db) /\ Apart(db)
<1>1. Fits(db)
  BY DEF Fits, TableOK, RowFits
<1>2. ASSUME NEW i \in Ids, NEW j \in Ids, Exists(db[i]), db[i].name = db[j].name PROVE i = j
  BY <1>2 DEF TableOK, NamesHold
<1>3. QED
  BY <1>1, <1>2 DEF Apart

-----------------------------------------------------------------------------
(* What the end of a method leaves in the map.                             *)

\* The ids it has gone through.
Through == CASE gate = "refresh" -> Delta
             [] gate = "owner"   -> {ownerRow}
             [] OTHER            -> Ids

\* Those are shown as it saw them, or were refused and are as they were; the
\* others are as they were.
Settles ==
    /\ map' \in Maps /\ rejected' \subseteq Ids
    /\ Through \subseteq Ids
    /\ \A id \in Through :
          \/ id \notin rejected' /\ Shows(map', id, snapshot[id])
          \/ id \in rejected' /\ Alive(snapshot[id]) /\ SameAt(map', map, id)
    /\ \A id \in Ids \ Through : SameAt(map', map, id) /\ (id \in rejected' <=> id \in rejected)

\* loadAll goes through every id.
LEMMA LoadAllSettles ==
    ASSUME TypeOK, GateOK, LoadAll
    PROVE  Settles /\ rejected' = {} /\ \A id \in Ids : Shows(map', id, snapshot[id])
<1>1. gate = "loadAll" /\ snapshot # NoSnapshot
  BY DEF LoadAll
<1>2. Fits(snapshot) /\ Apart(snapshot)
  BY <1>1 DEF GateOK
<1>3. PICK order \in SetToSeqs(Full) : /\ map' = ApplyRows(NoRows, snapshot, order).map
                                       /\ rejected' = ApplyRows(NoRows, snapshot, order).refused
  BY DEF LoadAll
<1>4. Full \subseteq Ids
  BY DEF Full
<1>5. rejected' = {}
  BY <1>2, <1>3, <1>4, NoneRefused
<1>6. SoFar(ApplyRows(NoRows, snapshot, order), NoRows, snapshot, Full)
  BY <1>2, <1>4, LoopSettles, NoRowsIsMap
<1>7. map' \in Maps
  BY <1>3, <1>6 DEF SoFar
<1>8. ASSUME NEW id \in Ids PROVE Shows(map', id, snapshot[id])
  <2>1. CASE id \in Full
    BY <1>3, <1>5, <1>6, <2>1 DEF SoFar
  <2>2. CASE id \notin Full
    BY <1>3, <1>6, <2>2, NoRowsIsMap DEF SoFar, SameAt, Shows, Full
  <2>3. QED
    BY <2>1, <2>2
<1>9. Through = Ids
  BY <1>1 DEF Through
<1>10. QED
  BY <1>5, <1>7, <1>8, <1>9 DEF Settles

\* A refresh goes through its delta.
LEMMA RefreshSettles ==
    ASSUME TypeOK, GateOK, Refresh
    PROVE  Settles
<1>1. gate = "refresh" /\ snapshot # NoSnapshot
  BY DEF Refresh
<1>2. Fits(snapshot) /\ map \in Maps /\ rejected \subseteq Ids
  BY <1>1 DEF GateOK, TypeOK
<1>3. PICK order \in SetToSeqs(Delta) :
         /\ map' = ApplyRows(map, snapshot, order).map
         /\ rejected' = (rejected \ Delta) \cup ApplyRows(map, snapshot, order).refused
  BY DEF Refresh
<1>4. Delta \subseteq Ids
  BY DEF Delta
<1>5. SoFar(ApplyRows(map, snapshot, order), map, snapshot, Delta)
  BY <1>2, <1>4, LoopSettles
<1>6. Through = Delta
  BY <1>1 DEF Through
<1>7. QED
  BY <1>2, <1>3, <1>4, <1>5, <1>6 DEF Settles, SoFar

\* reconcile goes through every id: those that are gone it erases.
LEMMA ReconcileSettles ==
    ASSUME TypeOK, GateOK, Reconcile
    PROVE  Settles
<1>1. gate = "reconcile" /\ snapshot # NoSnapshot
  BY DEF Reconcile
<1>2. Fits(snapshot) /\ map \in Maps
  BY <1>1 DEF GateOK, TypeOK
<1> DEFINE upserted(order) == ApplyRows(map, snapshot, order)
<1>3. PICK order \in SetToSeqs(Full) :
         /\ map' = Restrict(upserted(order).map, DOMAIN upserted(order).map \cap Full)
         /\ rejected' = upserted(order).refused
  BY DEF Reconcile
<1> DEFINE u == upserted(order)
<1>4. Full \subseteq Ids
  BY DEF Full
<1>5. SoFar(u, map, snapshot, Full)
  BY <1>2, <1>4, LoopSettles
<1> HIDE DEF u
<1>6. /\ map' = [id \in DOMAIN map' |-> map'[id]]
      /\ DOMAIN map' = DOMAIN u.map \cap Full
      /\ \A id \in DOMAIN map' : map'[id] = u.map[id]
      /\ rejected' = u.refused
  BY <1>3 DEF Restrict, u
<1>7. map' \in Maps
  BY <1>5, <1>6, MapsAre DEF SoFar
<1>8. \A id \in Full : SameAt(map', u.map, id)
  BY <1>6 DEF SameAt
<1>9. \A id \in Ids \ Full : ~Alive(snapshot[id]) /\ id \notin DOMAIN map' /\ id \notin rejected'
  BY <1>5, <1>6 DEF Full, SoFar
<1>10. ASSUME NEW id \in Full
       PROVE  \/ id \notin rejected' /\ Shows(map', id, snapshot[id])
              \/ id \in rejected' /\ Alive(snapshot[id]) /\ SameAt(map', map, id)
  <2>1. CASE id \in u.refused
    BY <1>5, <1>6, <1>8, <2>1 DEF SoFar, SameAt
  <2>2. CASE id \notin u.refused
    BY <1>5, <1>6, <1>8, <2>2, ShowsIsLocal DEF SoFar
  <2>3. QED
    BY <2>1, <2>2
<1>11. \A id \in Ids \ Full : Shows(map', id, snapshot[id])
  BY <1>9 DEF Shows
<1>12. Through = Ids
  BY <1>1 DEF Through
<1>13. rejected' \subseteq Ids
  BY <1>4, <1>5, <1>6 DEF SoFar
<1>14. QED
  BY <1>4, <1>7, <1>9, <1>10, <1>11, <1>12, <1>13 DEF Settles

\* The owner has its row.
LEMMA OwnerHasSnapshot ==
    ASSUME GateOK, gate = "owner"
    PROVE  snapshot # NoSnapshot
<1>1. DOMAIN snapshot = Ids /\ Ids # {}
  BY DEF GateOK
<1>2. DOMAIN NoSnapshot = {}
  BY DEF NoSnapshot
<1>3. QED
  BY <1>1, <1>2

\* The owner goes through its row.
LEMMA OwnerApplySettles ==
    ASSUME TypeOK, GateOK, OwnerApply
    PROVE  Settles
<1>1. gate = "owner"
  BY DEF OwnerApply
<1>2. ownerRow \in Ids /\ map \in Maps /\ rejected \subseteq Ids /\ snapshot \in [Ids -> Rows]
  BY <1>1 DEF GateOK, TypeOK
<1>3. Fits(snapshot)
  BY <1>1, OwnerHasSnapshot DEF GateOK
<1> DEFINE acc == [map |-> map, refused |-> rejected]
           turn == ApplyRow(acc, snapshot, ownerRow)
<1>4. acc.map = map /\ acc.refused = rejected /\ map' = turn.map /\ rejected' = turn.refused
  BY DEF OwnerApply
<1> HIDE DEF acc
<1>5. /\ turn.map \in Maps
      /\ \A other \in Ids \ {ownerRow} : SameAt(turn.map, map, other)
      /\ turn.refused \ {ownerRow} = rejected \ {ownerRow}
      /\ ownerRow \in turn.refused => Alive(snapshot[ownerRow]) /\ turn.map = map
      /\ ownerRow \notin turn.refused => Shows(turn.map, ownerRow, snapshot[ownerRow])
  BY <1>2, <1>3, <1>4, TurnSettles
<1>6. Through = {ownerRow}
  BY <1>1 DEF Through
<1> HIDE DEF turn
<1>7. QED
  BY <1>2, <1>4, <1>5, <1>6 DEF Settles, SameAt

\* The end of a method or of the owner's write.
LEMMA ApplyingSettles ==
    ASSUME TypeOK, GateOK, Applying
    PROVE  /\ Settles /\ Release /\ UNCHANGED dbVars
           /\ gate \in Methods \cup {"owner"}
           /\ snapshot # NoSnapshot
           /\ lastTs' = IF gate \in {"loadAll", "refresh"} THEN nextTs ELSE lastTs
<1>1. CASE LoadAll
  BY <1>1, LoadAllSettles DEF LoadAll, Methods
<1>2. CASE Refresh
  BY <1>2, RefreshSettles DEF Refresh, Methods
<1>3. CASE Reconcile
  BY <1>3, ReconcileSettles DEF Reconcile, Methods
<1>4. CASE OwnerApply
  BY <1>4, OwnerApplySettles, OwnerHasSnapshot DEF OwnerApply
<1>5. QED
  BY <1>1, <1>2, <1>3, <1>4 DEF Applying

\* The start, the SELECT and the failure of a method.
Beginning == (\E method \in Methods : Start(method)) \/ Select \/ Fail

OwnerWriting ==
    \E id \in Ids, name \in Names, state \in {"live", "dead"} : OwnerWrite(id, Written(name, state))

\* Every step is of one of these kinds.
LEMMA StepsAre ==
    [Next]_vars => \/ TableWrite \/ OwnerWriting \/ Tick \/ Beginning \/ Applying
                   \/ UNCHANGED vars
BY DEF Next, TableWrite, OwnerWriting, Beginning, Applying

\* Every step keeps the types, the table and the gate as they should be.
LEMMA BaseStep ==
    ASSUME Base, [Next]_vars
    PROVE  Base'
<1> USE DEF Base
<1>t. /\ db \in [Ids -> Rows] /\ pending \in [Ids -> Rows] /\ writes \in 0..MaxWrites
      /\ now \in 0..MaxTime /\ lastTs \in {NoTs} \cup 0..MaxTime /\ nextTs \in {NoTs} \cup 0..MaxTime
  BY DEF TypeOK
<1>1. CASE TableWrite
  <2>1. /\ db' \in [Ids -> Rows] /\ pending' \in [Ids -> Rows]
        /\ writes' \in 0..MaxWrites /\ TableOK'
        /\ UNCHANGED <<now, mapVars, jobVars>>
    BY <1>1, TableWriteKeeps
  <2>2. TypeOK'
    BY <2>1 DEF TypeOK, mapVars, jobVars
  <2>3. GateOK'
    BY <2>1 DEF GateOK, mapVars, jobVars, Fits, Apart
  <2>4. QED
    BY <2>1, <2>2, <2>3
<1>2. CASE OwnerWriting
  <2>1. PICK id \in Ids, name \in Names, state \in {"live", "dead"} :
           OwnerWrite(id, Written(name, state))
    BY <1>2 DEF OwnerWriting
  <2>2. /\ db' \in [Ids -> Rows] /\ writes' \in 0..MaxWrites /\ TableOK'
        /\ gate = "free" /\ gate' = "owner" /\ ownerRow' = id /\ snapshot' = db'
        /\ UNCHANGED <<now, pending, mapVars, nextTs>>
    BY <2>1, OwnerWriteKeeps
  <2>3. TypeOK'
    BY <2>2 DEF TypeOK, mapVars
  <2>4. (Fits(db) /\ Apart(db))'
    <3>1. Fits(db')
      BY <2>2 DEF Fits, TableOK, RowFits
    <3>2. Apart(db')
      BY <2>2 DEF Apart, TableOK, NamesHold
    <3>3. QED
      BY <3>1, <3>2 DEF Fits, Apart
  <2>5. GateOK'
    BY <2>2, <2>4 DEF GateOK, mapVars, Fits, Apart
  <2>6. QED
    BY <2>2, <2>3, <2>5
<1>3. CASE Tick
  <2>1. now < MaxTime /\ now' = now + 1 /\ UNCHANGED <<db, pending, writes, mapVars, jobVars>>
    BY <1>3 DEF Tick
  <2>2. now' \in 0..MaxTime /\ now <= now'
    BY <1>t, <2>1, BoundsAreNat
  <2>3. TypeOK'
    BY <2>1, <2>2 DEF TypeOK, mapVars, jobVars
  <2>4. TableOK'
    <3>1. ASSUME NEW id \in Ids PROVE RowFits(db[id])' /\ RowFits(pending[id])'
      <4>1. RowFits(db[id]) /\ RowFits(pending[id]) /\ db[id].at \in Nat /\ pending[id].at \in Nat
        BY <1>t, BoundsAreNat DEF TableOK, Rows
      <4>2. QED
        BY <1>t, <2>1, <2>2, <4>1 DEF RowFits
    <3>2. QED
      BY <2>1, <3>1 DEF TableOK, NamesHold
  <2>5. GateOK'
    BY <1>t, <2>1, <2>2, BoundsAreNat DEF GateOK, mapVars, jobVars, NoTs, Fits, Apart
  <2>6. QED
    BY <2>3, <2>4, <2>5
<1>4. CASE Beginning
  <2>1. CASE \E method \in Methods : Start(method)
    <3>1. PICK method \in Methods : Start(method)
      BY <2>1
    <3>2. /\ gate = "free" /\ gate' = method /\ (method = "refresh" => lastTs # NoTs)
          /\ nextTs' = (IF method = "reconcile" THEN NoTs ELSE now)
          /\ UNCHANGED <<dbVars, mapVars, snapshot, ownerRow>>
      BY <3>1 DEF Start
    <3>3. TypeOK'
      BY <1>t, <3>2 DEF TypeOK, dbVars, mapVars
    <3>4. TableOK'
      BY <3>2 DEF TableOK, NamesHold, RowFits, dbVars
    <3>5. GateOK'
      BY <1>t, <3>2, BoundsAreNat DEF GateOK, dbVars, mapVars, NoTs, Methods, Fits, Apart
    <3>6. QED
      BY <3>3, <3>4, <3>5
  <2>2. CASE Select
    <3>1. /\ gate \in Methods /\ snapshot' = db
          /\ UNCHANGED <<dbVars, mapVars, gate, nextTs, ownerRow>>
      BY <2>2 DEF Select
    <3>2. TypeOK'
      BY <1>t, <3>1 DEF TypeOK, dbVars, mapVars
    <3>3. TableOK'
      BY <3>1 DEF TableOK, NamesHold, RowFits, dbVars
    <3>4. GateOK'
      BY <1>t, <3>1, TableFits DEF GateOK, dbVars, mapVars, Methods, Fits, Apart
    <3>5. QED
      BY <3>2, <3>3, <3>4
  <2>3. CASE Fail
    <3>1. /\ gate' = "free" /\ nextTs' = NoTs /\ snapshot = NoSnapshot
          /\ UNCHANGED <<dbVars, mapVars, snapshot, ownerRow>>
      BY <2>3 DEF Fail
    <3>2. TypeOK'
      BY <1>t, <3>1 DEF TypeOK, dbVars, mapVars
    <3>3. TableOK'
      BY <3>1 DEF TableOK, NamesHold, RowFits, dbVars
    <3>4. GateOK'
      BY <1>t, <3>1, BoundsAreNat DEF GateOK, dbVars, mapVars, NoTs
    <3>5. QED
      BY <3>2, <3>3, <3>4
  <2>4. QED
    BY <1>4, <2>1, <2>2, <2>3 DEF Beginning
<1>5. CASE Applying
  <2>1. /\ Settles /\ Release /\ UNCHANGED dbVars
        /\ lastTs' = IF gate \in {"loadAll", "refresh"} THEN nextTs ELSE lastTs
    BY <1>5, ApplyingSettles
  <2>2. TypeOK'
    BY <1>t, <2>1 DEF TypeOK, Settles, Release, dbVars
  <2>3. TableOK'
    BY <2>1 DEF TableOK, NamesHold, RowFits, dbVars
  <2>4. GateOK'
    BY <1>t, <2>1, BoundsAreNat DEF GateOK, Release, dbVars, NoTs
  <2>5. QED
    BY <2>2, <2>3, <2>4
<1>6. CASE UNCHANGED vars
  BY <1>6 DEF vars, dbVars, mapVars, jobVars, TypeOK, TableOK, NamesHold, RowFits, GateOK, Fits, Apart
<1>7. QED
  BY <1>1, <1>2, <1>3, <1>4, <1>5, <1>6, StepsAre

\* Every variable keeps its type, for any rows, names and bounds; the table's own
\* unique index holds with it.
THEOREM TypeCorrect == Spec => []TypeOK
<1>1. Init => Base
  BY InitBase
<1>2. Base /\ [Next]_vars => Base'
  BY BaseStep
<1>3. Base => TypeOK
  BY DEF Base
<1>4. QED
  BY <1>1, <1>2, <1>3, PTL DEF Spec

-----------------------------------------------------------------------------
(* Revisions.                                                              *)

\* A row of the map, or of a SELECT, is not newer than the row it came from.
NotNewer(rev, row) == row.state = "gone" \/ (Exists(row) /\ rev <= row.rev)

RevisionsOK ==
    /\ \A id \in DOMAIN map : NotNewer(map[id].rev, db[id])
    /\ snapshot # NoSnapshot =>
         /\ \A id \in DOMAIN map : NotNewer(map[id].rev, snapshot[id])
         /\ \A id \in Ids : Exists(snapshot[id]) => NotNewer(snapshot[id].rev, db[id])

\* A row that moves moves on.
LEMMA MoveIsNewer ==
    ASSUME TypeOK, NEW id \in Ids, RowMoves(id), db'[id] \in Rows,
           NEW rev \in Nat, NotNewer(rev, db[id])
    PROVE  NotNewer(rev, db'[id])
<1>1. db[id].rev \in Nat /\ db'[id].rev \in Nat
  BY BoundsAreNat DEF TypeOK, Rows
<1>2. QED
  BY <1>1 DEF RowMoves, NotNewer

\* No step takes a row of the table back.
LEMMA RowsMove ==
    ASSUME Base, [Next]_vars
    PROVE  \A id \in Ids : RowMoves(id)
<1>1. CASE db' = db
  BY <1>1 DEF RowMoves
<1>2. CASE TableWrite
  BY <1>2, TableWriteKeeps DEF Base
<1>3. CASE OwnerWriting
  BY <1>3, OwnerWriteKeeps DEF Base, OwnerWriting
<1>4. Tick \/ Beginning \/ Applying \/ UNCHANGED vars => db' = db
  BY ApplyingSettles DEF Base, Tick, Beginning, Start, Select, Fail, vars, dbVars
<1>5. QED
  BY <1>1, <1>2, <1>3, <1>4, StepsAre

\* Revisions are numbers.
LEMMA RevisionsAreNat ==
    ASSUME TypeOK
    PROVE  /\ \A id \in DOMAIN map : id \in Ids /\ map[id].rev \in Nat
           /\ \A id \in Ids : db[id] \in Rows /\ db[id].rev \in Nat
<1>1. \A id \in DOMAIN map : id \in Ids /\ map[id] \in [name : Names, rev : 0..MaxWrites]
  BY MapsAre DEF TypeOK
<1>2. QED
  BY <1>1, BoundsAreNat DEF TypeOK, Rows

\* No step makes the map, or a SELECT, newer than the table.
LEMMA RevisionsStep ==
    ASSUME Base, Base', RevisionsOK, [Next]_vars
    PROVE  RevisionsOK'
<1>t. TypeOK /\ TypeOK' /\ GateOK
  BY DEF Base
<1>1. \A id \in Ids : db'[id] \in Rows
  BY <1>t DEF TypeOK
<1>2. ASSUME NEW id \in Ids, NEW rev \in Nat, NotNewer(rev, db[id]) PROVE NotNewer(rev, db'[id])
  BY <1>t, <1>1, <1>2, RowsMove, MoveIsNewer
<1>3. \A id \in DOMAIN map : NotNewer(map[id].rev, db'[id])
  BY <1>t, <1>2, RevisionsAreNat DEF RevisionsOK
<1>4. ASSUME snapshot # NoSnapshot, NEW id \in Ids, Exists(snapshot[id])
      PROVE  NotNewer(snapshot[id].rev, db'[id])
  <2>1. snapshot[id].rev \in Nat
    BY <1>t, <1>4, BoundsAreNat DEF GateOK, Fits, Rows
  <2>2. QED
    BY <1>2, <1>4, <2>1 DEF RevisionsOK
<1>5. \A id \in Ids : Exists(db'[id]) => NotNewer(db'[id].rev, db'[id])
  BY <1>1, BoundsAreNat DEF NotNewer, Rows
<1>6. CASE UNCHANGED <<map, snapshot>>
  BY <1>3, <1>4, <1>6 DEF RevisionsOK
<1>7. CASE map' = map /\ snapshot' = db'
  BY <1>3, <1>5, <1>7 DEF RevisionsOK
<1>8. CASE map' = map /\ snapshot' = NoSnapshot
  BY <1>3, <1>8 DEF RevisionsOK
<1>9. CASE Applying
  <2>1. Settles /\ snapshot' = NoSnapshot /\ Through \subseteq Ids
    BY <1>t, <1>9, ApplyingSettles DEF Release, Settles
  <2>2. snapshot # NoSnapshot
    BY <1>t, <1>9, ApplyingSettles
  <2>3. ASSUME NEW id \in DOMAIN map' PROVE NotNewer(map'[id].rev, db'[id])
    <3>1. id \in Ids
      BY <2>1, MapsAre DEF Settles
    <3>2. CASE SameAt(map', map, id)
      BY <1>3, <2>3, <3>2 DEF SameAt
    <3>3. CASE id \in Through /\ Shows(map', id, snapshot[id])
      <4>1. Alive(snapshot[id]) /\ map'[id].rev = snapshot[id].rev
        BY <2>3, <3>3 DEF Shows
      <4>2. QED
        BY <1>4, <2>2, <3>1, <4>1 DEF Exists, Alive
    <3>4. QED
      BY <2>1, <3>1, <3>2, <3>3 DEF Settles
  <2>4. QED
    BY <2>1, <2>3 DEF RevisionsOK
<1>10. TableWrite \/ Tick \/ UNCHANGED vars => UNCHANGED <<map, snapshot>>
  BY <1>t, TableWriteKeeps DEF Base, Tick, vars, mapVars, jobVars
<1>11. OwnerWriting => map' = map /\ snapshot' = db'
  BY OwnerWriteKeeps DEF Base, OwnerWriting, mapVars
<1>12. Beginning => UNCHANGED <<map, snapshot>> \/ (map' = map /\ snapshot' = db')
  BY DEF Beginning, Start, Select, Fail, mapVars, dbVars
<1>13. QED
  BY <1>6, <1>7, <1>9, <1>10, <1>11, <1>12, StepsAre

LEMMA RevisionsInvariant == Spec => [](Base /\ RevisionsOK)
<1>1. Init => Base /\ RevisionsOK
  BY InitBase, NoRowsIsMap DEF Init, RevisionsOK
<1>2. Base /\ RevisionsOK /\ [Next]_vars => (Base /\ RevisionsOK)'
  BY BaseStep, RevisionsStep
<1>3. QED
  BY <1>1, <1>2, PTL DEF Spec

\* No step puts an older revision of a row over a newer one, whatever the owner and
\* the other writers do between a SELECT and the change of the map.
THEOREM MapGoesForward == Spec => NeverBackwards
<1>1. ASSUME Base, RevisionsOK, [Next]_vars
      PROVE  \A id \in DOMAIN map \cap DOMAIN map' : map'[id].rev >= map[id].rev
  <2>t. TypeOK /\ GateOK
    BY <1>1 DEF Base
  <2>1. CASE map' = map
    BY <2>t, <2>1, RevisionsAreNat
  <2>2. CASE Applying
    <3>1. Settles
      BY <2>2, <2>t, ApplyingSettles
    <3>2. ASSUME NEW id \in DOMAIN map \cap DOMAIN map' PROVE map'[id].rev >= map[id].rev
      <4>1. id \in Ids /\ map[id].rev \in Nat
        BY <2>t, RevisionsAreNat
      <4>2. CASE SameAt(map', map, id)
        BY <3>2, <4>1, <4>2 DEF SameAt
      <4>3. CASE Shows(map', id, snapshot[id])
        <5>1. Alive(snapshot[id]) /\ map'[id].rev = snapshot[id].rev
          BY <3>2, <4>3 DEF Shows
        <5>2. snapshot # NoSnapshot
          BY <2>2, <2>t, ApplyingSettles
        <5>3. NotNewer(map[id].rev, snapshot[id]) /\ snapshot[id].rev \in Nat
          BY <1>1, <2>t, <3>2, <4>1, <5>2, BoundsAreNat DEF RevisionsOK, GateOK, Fits, Rows
        <5>4. QED
          BY <4>1, <5>1, <5>3 DEF NotNewer, Alive
      <4>4. QED
        BY <3>1, <4>1, <4>2, <4>3 DEF Settles
    <3>3. QED
      BY <3>2
  <2>3. TableWrite \/ OwnerWriting \/ Tick \/ Beginning \/ UNCHANGED vars => map' = map
    BY <1>1, TableWriteKeeps, OwnerWriteKeeps
    DEF Base, OwnerWriting, Tick, Beginning, Start, Select, Fail, vars, mapVars
  <2>4. QED
    BY <1>1, <2>1, <2>2, <2>3, StepsAre
<1>2. QED
  BY <1>1, RevisionsInvariant, PTL DEF NeverBackwards, Spec

-----------------------------------------------------------------------------
(* What the map may have missed.                                           *)

\* The next refresh sees the row, or is one of the two kinds it may miss.
Recent(row, ts) ==
    \/ row.state = "gone"
    \/ Exists(row) /\ (row.slow \/ ts <= row.at + overlapSeconds)

\* The map shows a row, could not take it, or has its next refresh to see it.
Seen(id, row) == Shows(map, id, row) \/ id \in rejected \/ Recent(row, lastTs)

\* Every row was seen or is recent; who holds a snapshot will have seen what it
\* holds, and what changed since is recent by the old cursor and by the next.
CoverOK ==
    /\ lastTs # NoTs => \A id \in Ids : Seen(id, db[id])
    /\ snapshot # NoSnapshot => \A id \in Ids :
          /\ lastTs # NoTs => Seen(id, snapshot[id])
          /\ db[id] = snapshot[id] \/ (Recent(db[id], lastTs) /\ Recent(db[id], nextTs))
    /\ gate = "owner" => Recent(snapshot[ownerRow], lastTs)

Times == {NoTs} \cup 0..MaxTime

\* Cursors and times are numbers.
LEMMA TimesAreInt == Times \subseteq Int /\ \A row \in Rows : row.at \in Nat
BY BoundsAreNat DEF Times, NoTs, Rows

\* A row that changes is recent, by any cursor that is not after the clock.
LEMMA ChangeIsRecent ==
    ASSUME TypeOK, NEW id \in Ids, RowMoves(id), db'[id] # db[id], db'[id] \in Rows,
           NEW ts \in Times, ts <= now
    PROVE  Recent(db'[id], ts)
<1>1. ts \in Int /\ now \in Nat /\ db'[id].at \in Nat
  BY TimesAreInt, BoundsAreNat DEF TypeOK
<1>2. QED
  BY <1>1, BoundsAreNat DEF RowMoves, Recent

\* What a method goes through is shown or refused.
LEMMA SettledIsSeen ==
    ASSUME Settles, NEW id \in Through
    PROVE  Shows(map', id, snapshot[id]) \/ id \in rejected'
BY DEF Settles

\* What a refresh does not go through it need not.
LEMMA DeltaIsEnough ==
    ASSUME TypeOK, GateOK, CoverOK, Settles, gate = "refresh", snapshot # NoSnapshot,
           NEW id \in Ids
    PROVE  \/ Shows(map', id, snapshot[id])
           \/ id \in rejected'
           \/ Exists(snapshot[id]) /\ snapshot[id].slow
           \/ snapshot[id].state = "gone"
<1>1. Through = Delta
  BY DEF Through
<1>2. CASE id \in Delta
  BY <1>1, <1>2, SettledIsSeen
<1>3. CASE id \notin Delta
  <2>1. SameAt(map', map, id) /\ (id \in rejected' <=> id \in rejected)
    BY <1>1, <1>3 DEF Settles
  <2>2. Seen(id, snapshot[id])
    BY DEF CoverOK, GateOK
  <2>3. CASE Shows(map, id, snapshot[id])
    BY <2>1, <2>3, ShowsIsLocal
  <2>4. CASE id \in rejected
    BY <2>1, <2>4
  <2>5. CASE Recent(snapshot[id], lastTs)
    <3>1. snapshot[id].at \in Nat /\ lastTs \in Int /\ overlapSeconds \in Nat
      BY TimesAreInt, BoundsAreNat DEF GateOK, Fits, TypeOK, Times
    <3>2. ~(Exists(snapshot[id]) /\ lastTs <= snapshot[id].at + overlapSeconds)
      BY <1>3, <3>1 DEF Delta
    <3>3. QED
      BY <2>5, <3>2 DEF Recent
  <2>6. QED
    BY <2>2, <2>3, <2>4, <2>5 DEF Seen
<1>4. QED
  BY <1>2, <1>3

\* Every step keeps the map covered.
LEMMA CoverStep ==
    ASSUME Base, Base', CoverOK, [Next]_vars
    PROVE  CoverOK'
<1>t. /\ TypeOK /\ TypeOK' /\ GateOK /\ lastTs \in Times /\ nextTs \in Times
      /\ lastTs <= now /\ nextTs <= now
  BY DEF Base, TypeOK, GateOK, Times
<1>1. ASSUME NEW id \in Ids, db'[id] # db[id], NEW ts \in Times, ts <= now
      PROVE  Recent(db'[id], ts)
  <2>1. db'[id] \in Rows
    BY <1>t DEF TypeOK
  <2>2. QED
    BY <1>t, <1>1, <2>1, RowsMove, ChangeIsRecent
<1>2. CASE UNCHANGED <<mapVars, jobVars>>
  <2>1. ASSUME lastTs # NoTs, NEW id \in Ids PROVE Seen(id, db[id])'
    BY <1>t, <1>1, <1>2, <2>1 DEF CoverOK, Seen, mapVars
  <2>2. ASSUME snapshot # NoSnapshot, NEW id \in Ids
        PROVE  db'[id] = snapshot[id] \/ (Recent(db'[id], lastTs) /\ Recent(db'[id], nextTs))
    BY <1>t, <1>1, <2>2 DEF CoverOK
  <2>3. QED
    BY <1>2, <2>1, <2>2 DEF CoverOK, Seen, mapVars, jobVars
<1>3. CASE OwnerWriting
  <2>1. PICK id \in Ids : /\ gate = "free" /\ gate' = "owner" /\ ownerRow' = id /\ snapshot' = db'
                          /\ UNCHANGED <<now, pending, mapVars, nextTs>>
                          /\ Exists(db'[id]) /\ db'[id].at = now
    BY <1>3, OwnerWriteKeeps DEF Base, OwnerWriting
  <2>2. ASSUME lastTs # NoTs, NEW other \in Ids PROVE Seen(other, db[other])'
    BY <1>t, <1>1, <2>1, <2>2 DEF CoverOK, Seen, mapVars
  <2>3. Recent(db'[id], lastTs)
    <3>1. now \in Nat /\ lastTs \in Int /\ now <= now + overlapSeconds
      BY <1>t, TimesAreInt, BoundsAreNat DEF TypeOK
    <3>2. QED
      BY <1>t, <2>1, <3>1, BoundsAreNat DEF Recent
  <2>4. QED
    BY <2>1, <2>2, <2>3 DEF CoverOK, Seen, mapVars
<1>4. CASE Beginning
  <2>1. CASE UNCHANGED <<db, mapVars, snapshot, ownerRow>> /\ snapshot = NoSnapshot /\ gate' # "owner"
    BY <2>1 DEF CoverOK, Seen, mapVars
  <2>2. CASE Select
    BY <2>2 DEF Select, CoverOK, Seen, mapVars, dbVars, Methods
  <2>3. (\E method \in Methods : Start(method)) \/ Fail =>
           UNCHANGED <<db, mapVars, snapshot, ownerRow>> /\ snapshot = NoSnapshot /\ gate' # "owner"
    BY <1>t DEF Start, Fail, GateOK, dbVars, Methods
  <2>4. QED
    BY <1>4, <2>1, <2>2, <2>3 DEF Beginning
<1>5. CASE Applying
  <2>1. /\ Settles /\ gate' = "free" /\ snapshot' = NoSnapshot /\ db' = db
        /\ gate \in Methods \cup {"owner"} /\ snapshot # NoSnapshot
        /\ lastTs' = IF gate \in {"loadAll", "refresh"} THEN nextTs ELSE lastTs
    BY <1>5, <1>t, ApplyingSettles DEF Release, dbVars
  <2>2. ASSUME NEW id \in Ids, lastTs' # NoTs PROVE Seen(id, db[id])'
    <3>1. \/ Shows(map', id, snapshot[id]) \/ id \in rejected'
          \/ Recent(snapshot[id], lastTs')
          \/ gate = "owner" /\ id # ownerRow
      <4>1. CASE gate = "refresh"
        BY <1>t, <2>1, <4>1, DeltaIsEnough DEF Recent
      <4>2. CASE gate \in {"loadAll", "reconcile"}
        <5>1. Through = Ids
          BY <4>2 DEF Through
        <5>2. QED
          BY <2>1, <5>1, SettledIsSeen
      <4>3. CASE gate = "owner"
        <5>1. ownerRow \in Through
          BY <4>3 DEF Through
        <5>2. QED
          BY <2>1, <4>3, <5>1, SettledIsSeen
      <4>4. QED
        BY <2>1, <4>1, <4>2, <4>3 DEF Methods
    <3>2. db[id] = snapshot[id] \/ Recent(db[id], lastTs')
      BY <2>1 DEF CoverOK
    <3>3. CASE gate = "owner" /\ id # ownerRow
      <4>1. SameAt(map', map, id) /\ (id \in rejected' <=> id \in rejected)
        BY <2>1, <3>3 DEF Settles, Through
      <4>2. Seen(id, db[id]) /\ lastTs' = lastTs
        BY <2>1, <2>2, <3>3 DEF CoverOK
      <4>3. QED
        BY <2>1, <4>1, <4>2, ShowsIsLocal DEF Seen
    <3>4. QED
      BY <2>1, <3>1, <3>2, <3>3 DEF Seen
  <2>3. QED
    BY <2>1, <2>2 DEF CoverOK
<1>6. TableWrite \/ Tick \/ UNCHANGED vars => UNCHANGED <<mapVars, jobVars>>
  BY <1>t, TableWriteKeeps DEF Base, Tick, vars
<1>7. QED
  BY <1>2, <1>3, <1>4, <1>5, <1>6, StepsAre

LEMMA CoverInvariant == Spec => [](Base /\ CoverOK)
<1>1. Init => Base /\ CoverOK
  BY InitBase DEF Init, CoverOK
<1>2. Base /\ CoverOK /\ [Next]_vars => (Base /\ CoverOK)'
  BY BaseStep, CoverStep
<1>3. QED
  BY <1>1, <1>2, PTL DEF Spec

\* Only a loop ends a method that has a SELECT.
LEMMA EndsByApplying ==
    ASSUME Base, [Next]_vars, MethodEnds
    PROVE  Applying
<1>1. ~UNCHANGED gate
  BY DEF MethodEnds, Methods
<1>2. TableWrite \/ Tick \/ UNCHANGED vars => UNCHANGED gate
  BY TableWriteKeeps DEF Base, Tick, vars, jobVars
<1>3. OwnerWriting \/ Beginning => ~MethodEnds
  BY OwnerWriteKeeps DEF Base, OwnerWriting, Beginning, Start, Select, Fail, MethodEnds, Methods
<1>4. QED
  BY <1>1, <1>2, <1>3, StepsAre

\* A method leaves in the map what its SELECT saw, but for the rows a unique index
\* refused, and in a refresh those that were deleted or committed too late.
THEOREM NothingIsMissed == Spec => NothingMissed
<1>1. ASSUME Base, CoverOK, [Next]_vars, MethodEnds, NEW id \in Ids
      PROVE  \/ Shows(map', id, snapshot[id])
             \/ id \in rejected'
             \/ gate = "refresh" /\ (snapshot[id].slow \/ snapshot[id].state = "gone")
  <2>1. TypeOK /\ GateOK /\ Settles /\ snapshot # NoSnapshot /\ gate \in Methods
    BY <1>1, EndsByApplying, ApplyingSettles DEF Base, MethodEnds
  <2>2. CASE gate = "refresh"
    BY <1>1, <2>1, <2>2, DeltaIsEnough
  <2>3. CASE gate # "refresh"
    <3>1. Through = Ids
      BY <2>1, <2>3 DEF Through, Methods
    <3>2. QED
      BY <2>1, <3>1, SettledIsSeen
  <2>4. QED
    BY <2>2, <2>3
<1>2. Base /\ CoverOK /\ [Next]_vars =>
         [MethodEnds => \A id \in Ids :
            \/ Shows(map', id, snapshot[id])
            \/ id \in rejected'
            \/ gate = "refresh" /\ (snapshot[id].slow \/ snapshot[id].state = "gone")]_vars
  BY <1>1
<1>3. QED
  BY <1>2, CoverInvariant, PTL DEF NothingMissed, Spec

\* loadAll is refused no row, whatever the map showed: it repairs what refresh and
\* reconcile cannot.
THEOREM LoadIsWhole == Spec => LoadAllRepairs
<1>1. ASSUME Base, [Next]_vars, gate = "loadAll", MethodEnds
      PROVE  \A id \in Ids : Shows(map', id, snapshot[id])
  <2>1. LoadAll
    BY <1>1, EndsByApplying DEF Applying, Refresh, Reconcile, OwnerApply
  <2>2. QED
    BY <1>1, <2>1, LoadAllSettles DEF Base
<1>2. Spec => []Base
  BY RevisionsInvariant, PTL
<1>3. QED
  BY <1>1, <1>2, PTL DEF LoadAllRepairs, Spec
=============================================================================
