------------------------- MODULE LoginLimiterProofs -------------------------
(***************************************************************************)
(* What LoginLimiter promises for every number of requests, addresses and  *)
(* emails, and every limit and window: types, the count of the hashes, one *)
(* hash per key, the failure windows, the history, and Retry-After.        *)
(*                                                                         *)
(* WindowsHold is not inductive: a failure is added by a request that      *)
(* looked at the window several steps earlier.  What keeps the room it saw *)
(* is the guard: no other request with that address or email can be        *)
(* between its check and its recording.  RoomIsKept says so, and needs     *)
(* OneHashPerKey and GuardsAreCounted.                                     *)
(*                                                                         *)
(* The history is followed by LogInv: whatever is pruned was out of the    *)
(* window by then (OnlyOldArePruned), so that the room seen in the vector  *)
(* is room among all failures ever recorded (RoomInLog).                   *)
(***************************************************************************)
EXTENDS LoginLimiter, FiniteSetTheorems, TLAPS

\* Requests that may still record a failure.
Recorders == {r \in Requests : pc[r] \in {"login", "succeeded", "failed"}}

FailsAreFinite ==
    /\ \A i \in Ips : IsFiniteSet(failsByIp[i])
    /\ \A k \in Keys : IsFiniteSet(failsByEmail[k])

RoomIsKept ==
    \A r \in Recorders :
        /\ Cardinality(failsByIp[Ip(r)]) < kIpFailMax
        /\ Cardinality(failsByEmail[Key(r)]) < kEmailFailMax

GuardInv  == TypeOK /\ GuardsAreCounted /\ OneHashPerKey
WindowInv == FailsAreFinite /\ WindowsHold /\ RoomIsKept
IInv      == GuardInv /\ WindowInv

-----------------------------------------------------------------------------
(* The helpers.                                                            *)

\* Pruning only forgets: what is left is a finite part of what was there.
LEMMA PruneShrinks ==
    ASSUME NEW fails, IsFiniteSet(fails), NEW t, NEW window
    PROVE  /\ Prune(fails, t, window) \subseteq fails
           /\ IsFiniteSet(Prune(fails, t, window))
           /\ Cardinality(Prune(fails, t, window)) <= Cardinality(fails)
           /\ Cardinality(Prune(fails, t, window)) \in Nat
           /\ Cardinality(fails) \in Nat
<1>1. Prune(fails, t, window) \in SUBSET fails
  BY DEF Prune
<1>2. QED
  BY <1>1, FS_Subset, FS_CardinalityType

\* One push_back adds at most one failure.
LEMMA PushAddsOne ==
    ASSUME NEW fails, IsFiniteSet(fails), NEW f
    PROVE  /\ IsFiniteSet(fails \cup {f})
           /\ Cardinality(fails \cup {f}) <= Cardinality(fails) + 1
<1>1. Cardinality(fails) \in Nat
  BY FS_CardinalityType
<1>2. /\ IsFiniteSet(fails \cup {f})
      /\ Cardinality(fails \cup {f}) =
            IF f \in fails THEN Cardinality(fails) ELSE Cardinality(fails) + 1
  BY FS_AddElement
<1>3. QED
  BY <1>1, <1>2

\* The first failure of a vector that is not empty is one of its failures.
LEMMA FrontIsThere ==
    ASSUME NEW fails \in SUBSET Failures, fails # {}
    PROVE  Front(fails) \in fails
<1> DEFINE numbers == {f.n : f \in fails}
           below   == {0..n : n \in numbers}
<1>1. numbers \subseteq Nat /\ below # {}
  BY DEF Failures
<1>2. \A n \in numbers : 0..n \in FiniteSubsetsOf(Nat)
  <2>1. TAKE n \in numbers
  <2>2. n \in Nat /\ 0 \in Int /\ n \in Int
    BY <1>1
  <2>3. IsFiniteSet(0..n)
    BY <2>2, FS_Interval
  <2>4. 0..n \in SUBSET Nat
    BY <2>2
  <2>5. QED
    BY <2>3, <2>4 DEF FiniteSubsetsOf
<1>3. below \subseteq FiniteSubsetsOf(Nat)
  BY <1>2
<1>4. PICK least \in below : \A s \in below : ~(<<s, least>> \in StrictSubsetOrdering(Nat))
  BY <1>1, <1>3, FS_StrictSubsetOrderingWellFounded, WFMin
<1>5. PICK f \in fails : least = 0..f.n
  BY <1>4
<1>6. ASSUME NEW g \in fails PROVE f.n <= g.n
  <2>1. f.n \in Nat /\ g.n \in Nat
    BY DEF Failures
  <2>2. ~(<<0..g.n, 0..f.n>> \in StrictSubsetOrdering(Nat))
    BY <1>4, <1>5
  <2>3. ASSUME g.n < f.n PROVE FALSE
    <3>1. 0..g.n \in SUBSET Nat /\ 0..f.n \in SUBSET Nat
      BY <2>1
    <3>2. 0..g.n \subseteq 0..f.n /\ f.n \in 0..f.n /\ f.n \notin 0..g.n
      BY <2>1, <2>3
    <3>3. QED
      BY <2>2, <3>1, <3>2 DEF StrictSubsetOrdering
  <2>4. QED
    BY <2>1, <2>3
<1>7. QED
  BY <1>5, <1>6 DEF Front

\* Retry-After is a positive number of seconds.
LEMMA RemainingSecType ==
    ASSUME NEW fails \in SUBSET Failures, fails # {}, NEW t \in Nat, NEW window \in Nat
    PROVE  RemainingSec(fails, t, window) \in Nat \ {0}
<1>1. Front(fails).at \in Nat
  BY FrontIsThere DEF Failures
<1>2. TicksPerSec \in Nat \ {0}
  BY LimitsAssumption
<1>3. (Front(fails).at + window - t) \div TicksPerSec \in Int
  BY <1>1, <1>2
<1>4. QED
  BY <1>3 DEF RemainingSec

\* A full window is not empty.
LEMMA FullIsNotEmpty ==
    ASSUME NEW fails, IsFiniteSet(fails), NEW max \in Nat \ {0}, Throttled(fails, max)
    PROVE  fails # {}
BY FS_EmptySet, FS_CardinalityType DEF Throttled

-----------------------------------------------------------------------------
(* The initial states.                                                     *)

\* The inductive invariant holds at the start.
LEMMA InitHolds == Init => IInv
<1> SUFFICES ASSUME Init PROVE IInv
  OBVIOUS
<1>1. Holders = {} /\ Recorders = {}
  BY DEF Init, Holders, Recorders
<1>2. TypeOK
  BY DEF Init, TypeOK, NoReply, Admits
<1>3. GuardsAreCounted /\ OneHashPerKey
  BY <1>1, FS_EmptySet, LimitsAssumption DEF Init, GuardsAreCounted, OneHashPerKey
<1>4. FailsAreFinite /\ WindowsHold
  BY FS_EmptySet, LimitsAssumption DEF Init, FailsAreFinite, WindowsHold
<1>5. QED
  BY <1>1, <1>2, <1>3, <1>4 DEF IInv, GuardInv, WindowInv, RoomIsKept

-----------------------------------------------------------------------------
(* The actions.                                                            *)

\* Reading the clock keeps the inductive invariant.
LEMMA PostKeeps ==
    ASSUME IInv, NEW r \in Requests, Post(r)
    PROVE  IInv'
<1> USE DEF IInv, GuardInv, WindowInv
<1>1. PICK i \in Ips, e \in Emails :
          client' = [client EXCEPT ![r] = [ip |-> i, key |-> Normalize[e]]]
  BY DEF Post
<1>2. [ip |-> i, key |-> Normalize[e]] \in Clients
  BY SetsAssumption DEF Clients
<1>3. TypeOK'
  BY <1>1, <1>2 DEF Post, TypeOK, NoReply, Admits, limiterVars
<1>4. Holders' = Holders /\ Recorders' = Recorders /\ r \notin Holders /\ r \notin Recorders
  BY DEF Post, TypeOK, Holders, Recorders
<1>5. \A s \in Requests : s # r => Ip(s)' = Ip(s) /\ Key(s)' = Key(s)
  BY <1>1 DEF TypeOK, Ip, Key
<1>6. GuardsAreCounted'
  <2>1. UNCHANGED <<argon2Live, inflightIp, inflightEmail>>
    BY DEF Post, limiterVars
  <2>2. {Ip(s) : s \in Holders}' = {Ip(s) : s \in Holders}
    BY <1>4, <1>5 DEF Holders
  <2>3. {Key(s) : s \in Holders}' = {Key(s) : s \in Holders}
    BY <1>4, <1>5 DEF Holders
  <2>4. QED
    BY <1>4, <2>1, <2>2, <2>3 DEF GuardsAreCounted
<1>7. OneHashPerKey'
  BY <1>4, <1>5 DEF OneHashPerKey, Holders
<1>8. WindowInv'
  BY <1>4, <1>5 DEF Post, limiterVars, FailsAreFinite, WindowsHold, RoomIsKept, Recorders
<1>9. QED
  BY <1>3, <1>6, <1>7, <1>8

\* tryBegin: the request is refused, or takes keys nobody holds.
LEMMA TryBeginKeeps ==
    ASSUME IInv, NEW r \in Requests, TryBegin(r)
    PROVE  IInv'
<1> USE DEF IInv, GuardInv, WindowInv
<1> DEFINE ipFails    == Prune(failsByIp[Ip(r)], time[r], kIpWindow)
           emailFails == Prune(failsByEmail[Key(r)], time[r], kEmailWindow)
<1>1. /\ pc[r] = "begin"
      /\ failsByIp' = [failsByIp EXCEPT ![Ip(r)] = ipFails]
      /\ failsByEmail' = [failsByEmail EXCEPT ![Key(r)] = emailFails]
      /\ UNCHANGED <<now, nFails, log>>
  BY DEF TryBegin
<1>2. Ip(r) \in Ips /\ Key(r) \in Keys
  BY <1>1 DEF TypeOK, Clients, Ip, Key
<1>3. /\ ipFails \subseteq failsByIp[Ip(r)] /\ emailFails \subseteq failsByEmail[Key(r)]
      /\ IsFiniteSet(ipFails) /\ IsFiniteSet(emailFails)
      /\ Cardinality(ipFails) <= Cardinality(failsByIp[Ip(r)])
      /\ Cardinality(emailFails) <= Cardinality(failsByEmail[Key(r)])
      /\ Cardinality(ipFails) \in Nat /\ Cardinality(emailFails) \in Nat
      /\ Cardinality(failsByIp[Ip(r)]) \in Nat
      /\ Cardinality(failsByEmail[Key(r)]) \in Nat
  BY <1>2, PruneShrinks DEF FailsAreFinite
<1>4. /\ ipFails \in SUBSET Failures /\ emailFails \in SUBSET Failures
      /\ failsByIp' \in [Ips -> SUBSET Failures]
      /\ failsByEmail' \in [Keys -> SUBSET Failures]
  BY <1>1, <1>2, <1>3 DEF TypeOK
<1>5. FailsAreFinite'
  BY <1>1, <1>2, <1>3 DEF FailsAreFinite, TypeOK
<1>6. WindowsHold'
  BY <1>1, <1>2, <1>3, LimitsAssumption DEF WindowsHold, TypeOK
\* Whoever holds the keys still has the room it saw.
<1>7. ASSUME NEW s \in Recorders
      PROVE  /\ Cardinality(failsByIp'[Ip(s)]) < kIpFailMax
             /\ Cardinality(failsByEmail'[Key(s)]) < kEmailFailMax
  <2>1. Ip(s) \in Ips /\ Key(s) \in Keys
    BY DEF TypeOK, Clients, Ip, Key, Recorders
  <2>2. Cardinality(failsByIp'[Ip(s)]) < kIpFailMax
    BY <1>1, <1>2, <1>3, <2>1, LimitsAssumption DEF RoomIsKept, TypeOK
  <2>3. Cardinality(failsByEmail'[Key(s)]) < kEmailFailMax
    BY <1>1, <1>2, <1>3, <2>1, LimitsAssumption DEF RoomIsKept, TypeOK
  <2>4. QED
    BY <2>2, <2>3
<1>8. r \notin Holders /\ r \notin Recorders
  BY <1>1 DEF Holders, Recorders
<1>9. ASSUME NEW why \in {"throttled", "inflight", "busy"}, NEW sec \in Nat,
             Refuse(r, why, sec)
      PROVE  IInv'
  <2>1. TypeOK'
    BY <1>1, <1>4, <1>9 DEF Refuse, Answered, TypeOK, Admits
  <2>2. Holders' = Holders /\ Recorders' = Recorders
    BY <1>8, <1>9 DEF Refuse, Answered, TypeOK, Holders, Recorders
  <2>3. \A s \in Requests : s # r => Ip(s)' = Ip(s) /\ Key(s)' = Key(s)
    BY <1>9 DEF Refuse, Answered, TypeOK, Ip, Key
  <2>4. UNCHANGED <<argon2Live, inflightIp, inflightEmail>>
    BY <1>9 DEF Refuse
  <2>5. /\ {Ip(s) : s \in Holders}' = {Ip(s) : s \in Holders}
        /\ {Key(s) : s \in Holders}' = {Key(s) : s \in Holders}
    BY <1>8, <2>2, <2>3 DEF Holders
  <2>6. GuardsAreCounted'
    BY <2>2, <2>4, <2>5 DEF GuardsAreCounted
  <2>7. OneHashPerKey'
    BY <1>8, <2>2, <2>3 DEF OneHashPerKey, Holders
  <2>8. RoomIsKept'
    BY <1>7, <1>8, <2>2, <2>3 DEF RoomIsKept, Recorders
  <2>9. QED
    BY <1>5, <1>6, <2>1, <2>6, <2>7, <2>8
<1>10. ASSUME ~Throttled(ipFails, kIpFailMax), ~Throttled(emailFails, kEmailFailMax),
              ~(Ip(r) \in inflightIp \/ Key(r) \in inflightEmail),
              argon2Live < kMaxArgon2, Admit(r)
       PROVE  IInv'
  <2>1. TypeOK'
    BY <1>1, <1>2, <1>4, <1>10 DEF Admit, TypeOK, Admits
  <2>2. Holders' = Holders \cup {r} /\ Recorders' = Recorders \cup {r}
    BY <1>10 DEF Admit, TypeOK, Holders, Recorders
  <2>3. \A s \in Requests : Ip(s)' = Ip(s) /\ Key(s)' = Key(s)
    BY <1>10 DEF Admit, Ip, Key
  <2>4. IsFiniteSet(Holders)
    BY SetsAssumption, FS_Subset DEF Holders
  <2>5. argon2Live' = Cardinality(Holders') /\ argon2Live' <= kMaxArgon2
    <3>1. Cardinality(Holders \cup {r}) = Cardinality(Holders) + 1
      BY <1>8, <2>4, FS_AddElement
    <3>2. argon2Live' = argon2Live + 1 /\ argon2Live \in Nat
      BY <1>10 DEF Admit, TypeOK
    <3>3. QED
      BY <1>10, <2>2, <3>1, <3>2, LimitsAssumption DEF GuardsAreCounted
  <2>6. /\ inflightIp' = {Ip(s) : s \in Holders}'
        /\ inflightEmail' = {Key(s) : s \in Holders}'
    BY <1>10, <2>2, <2>3 DEF Admit, GuardsAreCounted, Holders
  <2>7. OneHashPerKey'
    BY <1>10, <2>2, <2>3 DEF OneHashPerKey, GuardsAreCounted, Holders
  <2>8. /\ Cardinality(failsByIp'[Ip(r)]) < kIpFailMax
        /\ Cardinality(failsByEmail'[Key(r)]) < kEmailFailMax
    BY <1>1, <1>2, <1>3, <1>10, LimitsAssumption DEF Throttled, TypeOK
  <2>9. RoomIsKept'
    BY <1>7, <2>2, <2>3, <2>8 DEF RoomIsKept, Recorders
  <2>10. QED
    BY <1>5, <1>6, <2>1, <2>5, <2>6, <2>7, <2>9 DEF GuardsAreCounted
<1>11. CASE Throttled(ipFails, kIpFailMax)
  <2>1. ipFails # {}
    BY <1>3, <1>11, FullIsNotEmpty, LimitsAssumption
  <2>2. RemainingSec(ipFails, time[r], kIpWindow) \in Nat
    BY <1>4, <2>1, RemainingSecType, LimitsAssumption DEF TypeOK
  <2>3. Refuse(r, "throttled", RemainingSec(ipFails, time[r], kIpWindow))
    BY <1>11 DEF TryBegin
  <2>4. QED
    BY <1>9, <2>2, <2>3
<1>12. CASE ~Throttled(ipFails, kIpFailMax) /\ Throttled(emailFails, kEmailFailMax)
  <2>1. emailFails # {}
    BY <1>3, <1>12, FullIsNotEmpty, LimitsAssumption
  <2>2. RemainingSec(emailFails, time[r], kEmailWindow) \in Nat
    BY <1>4, <2>1, RemainingSecType, LimitsAssumption DEF TypeOK
  <2>3. Refuse(r, "throttled", RemainingSec(emailFails, time[r], kEmailWindow))
    BY <1>12 DEF TryBegin
  <2>4. QED
    BY <1>9, <2>2, <2>3
<1>13. CASE ~Throttled(ipFails, kIpFailMax) /\ ~Throttled(emailFails, kEmailFailMax)
  <2>1. \/ Refuse(r, "inflight", kInflightRetryAfterSec)
        \/ Refuse(r, "busy", kInflightRetryAfterSec)
        \/ /\ ~(Ip(r) \in inflightIp \/ Key(r) \in inflightEmail)
           /\ argon2Live < kMaxArgon2
           /\ Admit(r)
    BY <1>13 DEF TryBegin
  <2>2. kInflightRetryAfterSec \in Nat
    BY LimitsAssumption
  <2>3. QED
    BY <1>9, <1>10, <1>13, <2>1, <2>2
<1>14. QED
  BY <1>11, <1>12, <1>13

\* Login: the keys and the windows stay; only who may still record changes.
LEMMA LoginKeeps ==
    ASSUME IInv, NEW r \in Requests, Login(r)
    PROVE  IInv'
<1> USE DEF IInv, GuardInv, WindowInv
<1>1. UNCHANGED <<client, reply, limiterVars, now>> /\ pc[r] = "login"
  BY DEF Login
<1>2. Holders' = Holders /\ Recorders' \subseteq Recorders
  BY <1>1 DEF Login, TypeOK, Holders, Recorders
<1>3. \A s \in Requests : Ip(s)' = Ip(s) /\ Key(s)' = Key(s)
  BY <1>1 DEF Ip, Key
<1>4. TypeOK'
  BY <1>1 DEF Login, TypeOK, limiterVars
<1>5. GuardsAreCounted' /\ OneHashPerKey'
  BY <1>1, <1>2, <1>3 DEF GuardsAreCounted, OneHashPerKey, Holders, limiterVars
<1>6. WindowInv'
  BY <1>1, <1>2, <1>3 DEF FailsAreFinite, WindowsHold, RoomIsKept, Recorders, limiterVars
<1>7. QED
  BY <1>4, <1>5, <1>6

\* recordFailure: the room seen by tryBegin takes the new failure, and nobody
\* else who may still record shares the keys.
LEMMA RecordFailureKeeps ==
    ASSUME IInv, NEW r \in Requests, RecordFailure(r)
    PROVE  IInv'
<1> USE DEF IInv, GuardInv, WindowInv
<1> DEFINE f     == [n |-> nFails + 1, ip |-> Ip(r), key |-> Key(r), at |-> time[r]]
           moreI == failsByIp[Ip(r)] \cup {f}
           moreE == failsByEmail[Key(r)] \cup {f}
           keptI == Prune(moreI, time[r], kIpWindow)
           keptE == Prune(moreE, time[r], kEmailWindow)
<1>1. /\ pc[r] = "failed" /\ pc' = [pc EXCEPT ![r] = "release"]
      /\ failsByIp' = [failsByIp EXCEPT ![Ip(r)] = keptI]
      /\ failsByEmail' = [failsByEmail EXCEPT ![Key(r)] = keptE]
      /\ nFails' = nFails + 1 /\ log' = log \cup {f}
      /\ UNCHANGED <<now, requestVars, inflightIp, inflightEmail, argon2Live>>
  BY DEF RecordFailure
<1>2. Ip(r) \in Ips /\ Key(r) \in Keys /\ f \in Failures
  BY <1>1 DEF TypeOK, Clients, Ip, Key, Failures
<1>3. /\ IsFiniteSet(moreI) /\ IsFiniteSet(moreE)
      /\ Cardinality(moreI) <= Cardinality(failsByIp[Ip(r)]) + 1
      /\ Cardinality(moreE) <= Cardinality(failsByEmail[Key(r)]) + 1
      /\ Cardinality(failsByIp[Ip(r)]) \in Nat
      /\ Cardinality(failsByEmail[Key(r)]) \in Nat
  <2>1. IsFiniteSet(failsByIp[Ip(r)]) /\ IsFiniteSet(failsByEmail[Key(r)])
    BY <1>2 DEF FailsAreFinite
  <2>2. /\ Cardinality(failsByIp[Ip(r)]) \in Nat
        /\ Cardinality(failsByEmail[Key(r)]) \in Nat
    BY <2>1, FS_CardinalityType
  <2>3. /\ IsFiniteSet(moreI)
        /\ Cardinality(moreI) <= Cardinality(failsByIp[Ip(r)]) + 1
    BY <2>1, PushAddsOne
  <2>4. /\ IsFiniteSet(moreE)
        /\ Cardinality(moreE) <= Cardinality(failsByEmail[Key(r)]) + 1
    BY <2>1, PushAddsOne
  <2>5. QED
    BY <2>2, <2>3, <2>4
<1>4. /\ keptI \subseteq moreI /\ keptE \subseteq moreE
      /\ IsFiniteSet(keptI) /\ IsFiniteSet(keptE)
      /\ Cardinality(keptI) <= Cardinality(moreI) /\ Cardinality(keptE) <= Cardinality(moreE)
      /\ Cardinality(keptI) \in Nat /\ Cardinality(keptE) \in Nat
      /\ Cardinality(moreI) \in Nat /\ Cardinality(moreE) \in Nat
  BY <1>3, PruneShrinks
<1>5. r \in Recorders /\ r \in Holders
  BY <1>1 DEF Recorders, Holders
<1>6. Cardinality(keptI) <= kIpFailMax /\ Cardinality(keptE) <= kEmailFailMax
  <2>1. /\ Cardinality(failsByIp[Ip(r)]) < kIpFailMax
        /\ Cardinality(failsByEmail[Key(r)]) < kEmailFailMax
    BY <1>5 DEF RoomIsKept
  <2>2. QED
    BY <1>3, <1>4, <2>1, LimitsAssumption
<1>7. TypeOK'
  <2>1. failsByIp' \in [Ips -> SUBSET Failures]
    <3>1. keptI \in SUBSET Failures
      BY <1>2, <1>4 DEF TypeOK
    <3>2. QED
      BY <1>1, <3>1 DEF TypeOK
  <2>2. failsByEmail' \in [Keys -> SUBSET Failures]
    <3>1. keptE \in SUBSET Failures
      BY <1>2, <1>4 DEF TypeOK
    <3>2. QED
      BY <1>1, <3>1 DEF TypeOK
  <2>3. nFails' \in Nat /\ log' \subseteq Failures
    BY <1>1, <1>2 DEF TypeOK
  <2>4. /\ pc' \in [Requests -> {"idle", "begin", "login", "succeeded", "failed", "release"}]
        /\ \A s \in Requests : pc'[s] # "idle" => client'[s] \in Clients
    BY <1>1 DEF TypeOK, requestVars
  <2>5. QED
    BY <1>1, <2>1, <2>2, <2>3, <2>4 DEF TypeOK, requestVars
<1>8. Holders' = Holders /\ Recorders' = Recorders \ {r}
  BY <1>1 DEF TypeOK, Holders, Recorders
<1>9. \A s \in Requests : Ip(s)' = Ip(s) /\ Key(s)' = Key(s)
  BY <1>1 DEF Ip, Key, requestVars
<1>10. GuardsAreCounted' /\ OneHashPerKey'
  BY <1>1, <1>8, <1>9 DEF GuardsAreCounted, OneHashPerKey, Holders
<1>11. FailsAreFinite'
  BY <1>1, <1>2, <1>4 DEF FailsAreFinite, TypeOK
<1>12. WindowsHold'
  BY <1>1, <1>2, <1>6 DEF WindowsHold, TypeOK
<1>13. RoomIsKept'
  <2>1. ASSUME NEW s \in Recorders, s # r
        PROVE  /\ Cardinality(failsByIp'[Ip(s)]) < kIpFailMax
               /\ Cardinality(failsByEmail'[Key(s)]) < kEmailFailMax
    <3>1. Ip(s) # Ip(r) /\ Key(s) # Key(r)
      BY <1>5, <2>1 DEF OneHashPerKey, Holders, Recorders
    <3>2. Ip(s) \in Ips /\ Key(s) \in Keys
      BY DEF TypeOK, Clients, Ip, Key, Recorders
    <3>3. QED
      BY <1>1, <1>2, <3>1, <3>2 DEF RoomIsKept, TypeOK
  <2>2. QED
    BY <1>8, <1>9, <2>1 DEF RoomIsKept, Recorders
<1>14. QED
  BY <1>7, <1>10, <1>11, <1>12, <1>13

\* Forgetting the failures of an address keeps the inductive invariant.
LEMMA RecordSuccessKeeps ==
    ASSUME IInv, NEW r \in Requests, RecordSuccess(r)
    PROVE  IInv'
<1> USE DEF IInv, GuardInv, WindowInv
<1>1. /\ pc[r] = "succeeded" /\ pc' = [pc EXCEPT ![r] = "release"]
      /\ failsByEmail' = [failsByEmail EXCEPT ![Key(r)] = {}]
      /\ UNCHANGED <<now, requestVars, inflightIp, inflightEmail, argon2Live,
                     failsByIp, nFails, log>>
  BY DEF RecordSuccess
<1>2. Key(r) \in Keys
  BY <1>1 DEF TypeOK, Clients, Key
<1>3. TypeOK'
  BY <1>1, <1>2 DEF TypeOK, requestVars
<1>4. Holders' = Holders /\ Recorders' \subseteq Recorders
  BY <1>1 DEF TypeOK, Holders, Recorders
<1>5. \A s \in Requests : Ip(s)' = Ip(s) /\ Key(s)' = Key(s)
  BY <1>1 DEF Ip, Key, requestVars
<1>6. GuardsAreCounted' /\ OneHashPerKey'
  BY <1>1, <1>4, <1>5 DEF GuardsAreCounted, OneHashPerKey, Holders
<1>7. /\ IsFiniteSet({}) /\ Cardinality({}) = 0
      /\ 0 < kEmailFailMax /\ 0 <= kEmailFailMax
  BY FS_EmptySet, LimitsAssumption
<1>8. FailsAreFinite' /\ WindowsHold'
  BY <1>1, <1>2, <1>7 DEF FailsAreFinite, WindowsHold, TypeOK
<1>9. RoomIsKept'
  <2>1. ASSUME NEW s \in Recorders
        PROVE  Cardinality(failsByEmail'[Key(s)]) < kEmailFailMax
    <3>1. Key(s) \in Keys
      BY DEF TypeOK, Clients, Key, Recorders
    <3>2. QED
      BY <1>1, <1>2, <1>7, <3>1 DEF RoomIsKept, TypeOK
  <2>2. QED
    BY <1>1, <1>4, <1>5, <2>1 DEF RoomIsKept, Recorders
<1>10. QED
  BY <1>3, <1>6, <1>8, <1>9

\* ~Guard gives back exactly what its request took.
LEMMA ReleaseKeeps ==
    ASSUME IInv, NEW r \in Requests, Release(r)
    PROVE  IInv'
<1> USE DEF IInv, GuardInv, WindowInv
<1>1. /\ pc[r] = "release" /\ pc' = [pc EXCEPT ![r] = "idle"]
      /\ client' = [client EXCEPT ![r] = Nobody]
      /\ time' = [time EXCEPT ![r] = 0]
      /\ inflightIp' = inflightIp \ {Ip(r)}
      /\ inflightEmail' = inflightEmail \ {Key(r)}
      /\ argon2Live' = IF argon2Live > 0 THEN argon2Live - 1 ELSE argon2Live
      /\ UNCHANGED <<now, reply, failsByIp, failsByEmail, nFails, log>>
  BY DEF Release, Answered
<1>2. Holders' = Holders \ {r} /\ Recorders' = Recorders /\ r \in Holders
  BY <1>1 DEF TypeOK, Holders, Recorders
<1>3. r \notin Recorders
  BY <1>1 DEF Recorders
<1>4. \A s \in Requests : s # r => Ip(s)' = Ip(s) /\ Key(s)' = Key(s)
  BY <1>1 DEF TypeOK, Ip, Key
<1>5. IsFiniteSet(Holders)
  BY SetsAssumption, FS_Subset DEF Holders
<1>6. argon2Live' = Cardinality(Holders') /\ argon2Live' <= kMaxArgon2
  <2>1. Cardinality(Holders) \in Nat /\ Cardinality(Holders) # 0
    BY <1>2, <1>5, FS_CardinalityType, FS_EmptySet
  <2>2. Cardinality(Holders \ {r}) = Cardinality(Holders) - 1
    BY <1>2, <1>5, FS_RemoveElement
  <2>3. QED
    BY <1>1, <1>2, <2>1, <2>2, LimitsAssumption DEF GuardsAreCounted
<1>7. TypeOK'
  BY <1>1 DEF TypeOK
<1>8. /\ inflightIp' = {Ip(s) : s \in Holders}'
      /\ inflightEmail' = {Key(s) : s \in Holders}'
  <2>1. \A s \in Holders \ {r} : Ip(s) # Ip(r) /\ Key(s) # Key(r)
    BY <1>2 DEF OneHashPerKey
  <2>2. /\ {Ip(s) : s \in Holders} \ {Ip(r)} = {Ip(s) : s \in Holders \ {r}}
        /\ {Key(s) : s \in Holders} \ {Key(r)} = {Key(s) : s \in Holders \ {r}}
    BY <1>2, <2>1
  <2>3. /\ {Ip(s) : s \in Holders}' = {Ip(s) : s \in Holders \ {r}}
        /\ {Key(s) : s \in Holders}' = {Key(s) : s \in Holders \ {r}}
    BY <1>2, <1>4 DEF Holders
  <2>4. QED
    BY <1>1, <2>2, <2>3 DEF GuardsAreCounted
<1>9. OneHashPerKey'
  BY <1>2, <1>4 DEF OneHashPerKey, Holders
<1>10. WindowInv'
  BY <1>1, <1>2, <1>3, <1>4 DEF FailsAreFinite, WindowsHold, RoomIsKept, Recorders
<1>11. QED
  BY <1>6, <1>7, <1>8, <1>9, <1>10 DEF GuardsAreCounted

\* A step that touches neither the requests nor the limiter.
LEMMA QuietKeeps ==
    ASSUME IInv, UNCHANGED <<pc, requestVars, limiterVars>>, now' \in Nat
    PROVE  IInv'
<1> USE DEF IInv, GuardInv, WindowInv, requestVars, limiterVars
<1>1. Holders' = Holders /\ Recorders' = Recorders
  BY DEF Holders, Recorders
<1>2. \A s \in Requests : Ip(s)' = Ip(s) /\ Key(s)' = Key(s)
  BY DEF Ip, Key
<1>3. TypeOK'
  BY DEF TypeOK
<1>4. GuardsAreCounted' /\ OneHashPerKey'
  BY <1>1, <1>2 DEF GuardsAreCounted, OneHashPerKey, Holders
<1>5. WindowInv'
  BY <1>1, <1>2 DEF FailsAreFinite, WindowsHold, RoomIsKept, Recorders
<1>6. QED
  BY <1>3, <1>4, <1>5

\* Every step keeps the inductive invariant.
LEMMA NextKeeps == IInv /\ [Next]_vars => IInv'
<1> SUFFICES ASSUME IInv, [Next]_vars PROVE IInv'
  OBVIOUS
<1>1. CASE Tick
  <2>1. now' \in Nat
    BY <1>1 DEF Tick, IInv, GuardInv, TypeOK
  <2>2. QED
    BY <1>1, <2>1, QuietKeeps DEF Tick
<1>2. ASSUME NEW r \in Requests, Post(r) \/ RequestStep(r)
      PROVE  IInv'
  BY <1>2, PostKeeps, TryBeginKeeps, LoginKeeps, RecordFailureKeeps,
     RecordSuccessKeeps, ReleaseKeeps DEF RequestStep
<1>3. CASE UNCHANGED vars
  <2>1. now' \in Nat
    BY <1>3 DEF vars, IInv, GuardInv, TypeOK
  <2>2. QED
    BY <1>3, <2>1, QuietKeeps DEF vars
<1>4. QED
  BY <1>1, <1>2, <1>3 DEF Next

-----------------------------------------------------------------------------
(* The theorems.                                                           *)

\* The inductive invariant holds in every state of the specification.
LEMMA Invariance == Spec => []IInv
  BY InitHolds, NextKeeps, PTL DEF Spec

\* Every variable of the limiter keeps its type.
THEOREM TypeCorrect == Spec => []TypeOK
<1>1. IInv => TypeOK
  BY DEF IInv, GuardInv
<1>2. QED
  BY <1>1, Invariance, PTL

\* The count of running hashes is exact and never over kMaxArgon2, and the keys
\* in flight are those of the requests that hash.
THEOREM CountIsExact == Spec => []GuardsAreCounted
<1>1. IInv => GuardsAreCounted
  BY DEF IInv, GuardInv
<1>2. QED
  BY <1>1, Invariance, PTL

\* No two requests hash at once for one address or one email.
THEOREM KeysAreExclusive == Spec => []OneHashPerKey
<1>1. IInv => OneHashPerKey
  BY DEF IInv, GuardInv
<1>2. QED
  BY <1>1, Invariance, PTL

\* No window ever holds more failures than its limit, for any number of requests
\* racing for the same address or email.
THEOREM WindowsAreCapped == Spec => []WindowsHold
<1>1. IInv => WindowsHold
  BY DEF IInv, WindowInv
<1>2. QED
  BY <1>1, Invariance, PTL
-----------------------------------------------------------------------------
(* The history: what all the failures ever recorded have in common.        *)

LateOf(i, t) == {f \in log : f.ip = i /\ f.at >= t - kIpWindow}

LogIsPast ==
    /\ IsFiniteSet(log)
    /\ \A f \in log : f.at <= now /\ f.n <= nFails
    /\ \A r \in Requests : time[r] <= now

StoredAreLogged ==
    /\ \A i \in Ips : \A f \in failsByIp[i] : f \in log /\ f.ip = i
    /\ \A k \in Keys : \A f \in failsByEmail[k] : f \in log /\ f.key = k

LogIsSorted ==
    \A f, g \in log : (f.ip = g.ip \/ f.key = g.key) /\ f.n < g.n => f.at <= g.at

\* A failure on its way to recordFailure is the latest of its keys.
WaitingIsLater ==
    \A r \in Requests : pc[r] = "failed" =>
        \A f \in log : f.ip = Ip(r) \/ f.key = Key(r) => f.at <= time[r]

OnlyOldArePruned ==
    \A f \in log : f \notin failsByIp[f.ip] => f.at < now - kIpWindow

RoomInLog ==
    \A r \in Requests : pc[r] = "failed" =>
        Cardinality(LateOf(Ip(r), time[r])) < kIpFailMax

InSpan(i, start) == {f \in log : f.ip = i /\ f.at \in start..start + kIpWindow}

LogIsCapped ==
    \A i \in Ips : \A start \in Nat : Cardinality(InSpan(i, start)) <= kIpFailMax

LogInv == /\ LogIsPast /\ StoredAreLogged /\ LogIsSorted /\ WaitingIsLater
          /\ OnlyOldArePruned /\ RoomInLog /\ LogIsCapped

\* A step that records nothing and only forgets what is out of the window.
LEMMA NothingLogged ==
    ASSUME IInv, LogInv, TypeOK', UNCHANGED <<log, nFails>>, now <= now',
           \A i \in Ips : failsByIp'[i] \subseteq failsByIp[i],
           \A k \in Keys : failsByEmail'[k] \subseteq failsByEmail[k],
           \A f \in log : f \in failsByIp[f.ip] /\ f \notin failsByIp'[f.ip]
                             => f.at < now - kIpWindow,
           \A r \in Requests : time'[r] <= now',
           \A r \in Requests : pc'[r] = "failed" =>
               \/ pc[r] = "failed" /\ client'[r] = client[r] /\ time'[r] = time[r]
               \/ pc[r] = "login" /\ client'[r] = client[r] /\ time'[r] = now
    PROVE  LogInv'
<1> USE DEF IInv, GuardInv, LogInv
<1>1. log \subseteq Failures /\ now \in Nat /\ now' \in Nat /\ kIpWindow \in Nat
  BY LimitsAssumption DEF TypeOK
<1>2. LogIsPast'
  BY <1>1 DEF LogIsPast, Failures
<1>3. StoredAreLogged'
  BY DEF StoredAreLogged
<1>4. LogIsSorted'
  BY DEF LogIsSorted
<1>5. WaitingIsLater'
  BY DEF WaitingIsLater, LogIsPast, Ip, Key
<1>6. OnlyOldArePruned'
  BY <1>1 DEF OnlyOldArePruned, Failures
<1>7. ASSUME NEW r \in Requests, pc'[r] = "failed"
      PROVE  Cardinality(LateOf(Ip(r), time[r])') < kIpFailMax
  <2>1. CASE pc[r] = "failed" /\ client'[r] = client[r] /\ time'[r] = time[r]
    BY <2>1 DEF RoomInLog, LateOf, Ip
  <2>2. CASE pc[r] = "login" /\ client'[r] = client[r] /\ time'[r] = now
    <3>1. r \in Recorders /\ Ip(r) \in Ips
      BY <2>2 DEF Recorders, TypeOK, Clients, Ip
    <3>2. LateOf(Ip(r), time[r])' \in SUBSET failsByIp[Ip(r)]
      BY <1>1, <2>2, <3>1 DEF LateOf, OnlyOldArePruned, Ip, Failures
    <3>3. IsFiniteSet(failsByIp[Ip(r)]) /\ Cardinality(failsByIp[Ip(r)]) < kIpFailMax
      BY <3>1 DEF WindowInv, FailsAreFinite, RoomIsKept
    <3>4. /\ Cardinality(LateOf(Ip(r), time[r])') <= Cardinality(failsByIp[Ip(r)])
          /\ Cardinality(failsByIp[Ip(r)]) \in Nat
          /\ Cardinality(LateOf(Ip(r), time[r])') \in Nat
      BY <3>2, <3>3, FS_Subset, FS_CardinalityType
    <3>5. QED
      BY <3>3, <3>4, LimitsAssumption
  <2>3. QED
    BY <1>7, <2>1, <2>2
<1>8. RoomInLog'
  BY <1>7 DEF RoomInLog
<1>9. LogIsCapped'
  BY DEF LogIsCapped, InSpan
<1>10. QED
  BY <1>2, <1>3, <1>4, <1>5, <1>6, <1>8, <1>9

\* recordFailure: the new failure is the latest of its keys, and the room the request
\* saw is the room in the history.
LEMMA RecordFailureLogs ==
    ASSUME IInv, LogInv, NEW r \in Requests, RecordFailure(r)
    PROVE  LogInv'
<1> USE DEF IInv, GuardInv, LogInv
<1> DEFINE f == [n |-> nFails + 1, ip |-> Ip(r), key |-> Key(r), at |-> time[r]]
<1>1. /\ pc[r] = "failed" /\ pc' = [pc EXCEPT ![r] = "release"]
      /\ failsByIp' = [failsByIp EXCEPT
             ![Ip(r)] = Prune(failsByIp[Ip(r)] \cup {f}, time[r], kIpWindow)]
      /\ failsByEmail' = [failsByEmail EXCEPT
             ![Key(r)] = Prune(failsByEmail[Key(r)] \cup {f}, time[r], kEmailWindow)]
      /\ nFails' = nFails + 1 /\ log' = log \cup {f}
      /\ UNCHANGED <<now, client, time>>
  BY DEF RecordFailure, requestVars
<1>2. Ip(r) \in Ips /\ Key(r) \in Keys /\ f \in Failures /\ r \in Holders
  BY <1>1 DEF TypeOK, Clients, Ip, Key, Failures, Holders
<1>3. /\ log \subseteq Failures /\ now \in Nat /\ nFails \in Nat /\ kIpWindow \in Nat
      /\ time \in [Requests -> Nat]
  BY LimitsAssumption DEF TypeOK
<1>4. f.n = nFails + 1 /\ f.ip = Ip(r) /\ f.key = Key(r) /\ f.at = time[r]
  OBVIOUS
<1> HIDE DEF f
<1>5. ASSUME NEW s \in Requests, pc'[s] = "failed"
      PROVE  s # r /\ pc[s] = "failed" /\ Ip(s) # Ip(r) /\ Key(s) # Key(r)
  BY <1>1, <1>2, <1>5 DEF TypeOK, OneHashPerKey, Holders
<1>6. LogIsPast'
  <2>1. IsFiniteSet(log')
    BY <1>1, FS_AddElement DEF LogIsPast
  <2>2. QED
    BY <1>1, <1>3, <1>4, <2>1 DEF LogIsPast, Failures
<1>7. StoredAreLogged'
  BY <1>1, <1>2, <1>4 DEF StoredAreLogged, Prune, TypeOK
<1>8. LogIsSorted'
  <2>1. ASSUME NEW g \in log, g.ip = f.ip \/ g.key = f.key
        PROVE  g.n < f.n /\ g.at <= f.at
    BY <1>1, <1>3, <1>4, <2>1 DEF LogIsPast, WaitingIsLater, Failures
  <2>2. ASSUME NEW g \in log', NEW h \in log', g.ip = h.ip \/ g.key = h.key, g.n < h.n
        PROVE  g.at <= h.at
    <3>1. CASE g \in log /\ h \in log
      BY <2>2, <3>1 DEF LogIsSorted
    <3>2. CASE g \in log /\ h = f
      BY <2>1, <2>2, <3>2
    <3>3. CASE g = f
      <4>1. h # f
        BY <1>2, <2>2, <3>3 DEF Failures
      <4>2. h \in log
        BY <1>1, <4>1
      <4>3. h.n < f.n
        BY <2>1, <2>2, <3>3, <4>2
      <4>4. QED
        BY <1>2, <1>3, <2>2, <3>3, <4>2, <4>3 DEF Failures
    <3>4. QED
      BY <1>1, <3>1, <3>2, <3>3
  <2>3. QED
    BY <2>2 DEF LogIsSorted
<1>9. WaitingIsLater'
  BY <1>1, <1>4, <1>5 DEF WaitingIsLater, Ip, Key
<1>10. OnlyOldArePruned'
  <2>1. ASSUME NEW g \in log', g \notin failsByIp'[g.ip] PROVE g.at < now - kIpWindow
    <3>1. g \in Failures /\ g.ip \in Ips
      BY <1>1, <1>2, <1>3 DEF Failures
    <3>2. CASE g.ip # Ip(r)
      BY <1>1, <1>4, <2>1, <3>1, <3>2 DEF OnlyOldArePruned, TypeOK
    <3>3. CASE g.ip = Ip(r)
      <4>1. g \notin Prune(failsByIp[Ip(r)] \cup {f}, time[r], kIpWindow)
        BY <1>1, <1>2, <2>1, <3>3 DEF TypeOK
      <4>2. g \notin failsByIp[Ip(r)] \cup {f} \/ g.at < time[r] - kIpWindow
        BY <1>3, <3>1, <4>1 DEF Prune, Failures
      <4>3. time[r] <= now
        BY DEF LogIsPast
      <4>4. QED
        BY <1>1, <1>3, <3>1, <3>3, <4>2, <4>3 DEF OnlyOldArePruned, Failures
    <3>4. QED
      BY <3>2, <3>3
  <2>2. QED
    BY <1>1, <2>1 DEF OnlyOldArePruned
<1>11. RoomInLog'
  <2>1. ASSUME NEW s \in Requests, pc'[s] = "failed"
        PROVE  Cardinality(LateOf(Ip(s), time[s])') < kIpFailMax
    <3>1. pc[s] = "failed" /\ Ip(s) # Ip(r) /\ Ip(s)' = Ip(s) /\ time'[s] = time[s]
      BY <1>1, <1>5, <2>1 DEF Ip
    <3>2. LateOf(Ip(s), time[s])' = LateOf(Ip(s), time[s])
      BY <1>1, <1>4, <3>1 DEF LateOf
    <3>3. QED
      BY <3>1, <3>2 DEF RoomInLog
  <2>2. QED
    BY <2>1 DEF RoomInLog
<1>12. LogIsCapped'
  <2>1. ASSUME NEW i \in Ips, NEW start \in Nat
        PROVE  Cardinality(InSpan(i, start)') <= kIpFailMax
    <3>1. CASE ~(i = Ip(r) /\ time[r] \in start..start + kIpWindow)
      <4>1. InSpan(i, start)' = InSpan(i, start)
        BY <1>1, <1>4, <3>1 DEF InSpan
      <4>2. QED
        BY <4>1 DEF LogIsCapped
    <3>2. CASE i = Ip(r) /\ time[r] \in start..start + kIpWindow
      <4> DEFINE late == LateOf(Ip(r), time[r])
      <4>1. InSpan(i, start)' \in SUBSET (late \cup {f})
        BY <1>1, <1>3, <3>2 DEF InSpan, LateOf, Failures
      <4>2. IsFiniteSet(late)
        <5>1. late \in SUBSET log
          BY DEF LateOf
        <5>2. QED
          BY <5>1, FS_Subset DEF LogIsPast
      <4>3. Cardinality(late) < kIpFailMax /\ Cardinality(late) \in Nat
        BY <1>1, <4>2, FS_CardinalityType DEF RoomInLog
      <4>4. /\ IsFiniteSet(late \cup {f})
            /\ Cardinality(late \cup {f}) <= Cardinality(late) + 1
        BY <4>2, PushAddsOne
      <4>5. /\ Cardinality(InSpan(i, start)') <= Cardinality(late \cup {f})
            /\ Cardinality(late \cup {f}) \in Nat
            /\ Cardinality(InSpan(i, start)') \in Nat
        BY <4>1, <4>4, FS_Subset, FS_CardinalityType
      <4>6. QED
        BY <4>3, <4>4, <4>5, LimitsAssumption
    <3>3. QED
      BY <3>1, <3>2
  <2>2. QED
    BY <2>1 DEF LogIsCapped
<1>13. QED
  BY <1>6, <1>7, <1>8, <1>9, <1>10, <1>11, <1>12

\* Every step keeps what is known of the history.
LEMMA LogStep == IInv /\ IInv' /\ LogInv /\ [Next]_vars => LogInv'
<1> SUFFICES ASSUME IInv, IInv', LogInv, [Next]_vars PROVE LogInv'
  OBVIOUS
<1>1. TypeOK /\ TypeOK' /\ LogIsPast
  BY DEF IInv, GuardInv, LogInv
<1>2. CASE Tick
  BY <1>1, <1>2, NothingLogged DEF Tick, requestVars, limiterVars, TypeOK, LogIsPast
<1>3. ASSUME NEW r \in Requests, Post(r) PROVE LogInv'
  BY <1>1, <1>3, NothingLogged DEF Post, limiterVars, TypeOK, LogIsPast
<1>4. ASSUME NEW r \in Requests, TryBegin(r) PROVE LogInv'
  <2>1. /\ pc[r] = "begin" /\ UNCHANGED <<now, nFails, log>>
        /\ failsByIp' = [failsByIp EXCEPT
               ![Ip(r)] = Prune(failsByIp[Ip(r)], time[r], kIpWindow)]
        /\ failsByEmail' = [failsByEmail EXCEPT
               ![Key(r)] = Prune(failsByEmail[Key(r)], time[r], kEmailWindow)]
    BY <1>4 DEF TryBegin
  <2>3. /\ pc'[r] # "failed"
        /\ time'[r] \in {0, time[r]}
        /\ \A s \in Requests : s # r => /\ pc'[s] = pc[s] /\ client'[s] = client[s]
                                        /\ time'[s] = time[s]
    BY <1>1, <1>4 DEF TryBegin, Refuse, Answered, Admit, TypeOK
  <2>4. \A i \in Ips : failsByIp'[i] \subseteq failsByIp[i]
    BY <1>1, <2>1 DEF Prune, TypeOK
  <2>5. \A k \in Keys : failsByEmail'[k] \subseteq failsByEmail[k]
    BY <1>1, <2>1 DEF Prune, TypeOK
  <2>6. ASSUME NEW f \in log, f \in failsByIp[f.ip], f \notin failsByIp'[f.ip]
        PROVE  f.at < now - kIpWindow
    <3>1. /\ f \in Failures /\ f.at \in Nat /\ time[r] \in Nat /\ now \in Nat
          /\ kIpWindow \in Nat /\ time[r] <= now
      BY <1>1, LimitsAssumption DEF TypeOK, Failures, LogIsPast
    <3>2. f.ip = Ip(r) /\ f \notin Prune(failsByIp[Ip(r)], time[r], kIpWindow)
      BY <1>1, <2>1, <2>6, <3>1 DEF TypeOK, Failures
    <3>3. f.at < time[r] - kIpWindow
      BY <2>6, <3>1, <3>2 DEF Prune
    <3>4. QED
      BY <3>1, <3>3
  <2>7. \A s \in Requests : time'[s] <= now'
    BY <1>1, <2>1, <2>3 DEF LogIsPast, TypeOK
  <2>8. QED
    BY <1>1, <2>1, <2>3, <2>4, <2>5, <2>6, <2>7, NothingLogged DEF TypeOK
<1>5. ASSUME NEW r \in Requests, Login(r) PROVE LogInv'
  BY <1>1, <1>5, NothingLogged DEF Login, limiterVars, TypeOK, LogIsPast
<1>6. ASSUME NEW r \in Requests, RecordFailure(r) PROVE LogInv'
  BY <1>6, RecordFailureLogs
<1>7. ASSUME NEW r \in Requests, RecordSuccess(r) PROVE LogInv'
  BY <1>1, <1>7, NothingLogged DEF RecordSuccess, requestVars, TypeOK, LogIsPast
<1>8. ASSUME NEW r \in Requests, Release(r) PROVE LogInv'
  BY <1>1, <1>8, NothingLogged DEF Release, Answered, TypeOK, LogIsPast
<1>9. CASE UNCHANGED vars
  BY <1>1, <1>9, NothingLogged DEF vars, requestVars, limiterVars, TypeOK, LogIsPast
<1>10. QED
  BY <1>2, <1>3, <1>4, <1>5, <1>6, <1>7, <1>8, <1>9 DEF Next, RequestStep

\* What is known of the history holds in every state.
LEMMA History == Spec => []LogInv
<1>1. Init => LogInv
  <2> SUFFICES ASSUME Init PROVE LogInv
    OBVIOUS
  <2>1. log = {} /\ IsFiniteSet({}) /\ Cardinality({}) = 0
    BY FS_EmptySet DEF Init
  <2>2. \A i \in Ips : \A start \in Nat : InSpan(i, start) = {}
    BY <2>1 DEF InSpan
  <2>3. LogIsCapped
    BY <2>1, <2>2, LimitsAssumption DEF LogIsCapped
  <2>4. QED
    BY <2>1, <2>3 DEF Init, LogInv, LogIsPast, StoredAreLogged, LogIsSorted, WaitingIsLater,
       OnlyOldArePruned, RoomInLog
<1>2. QED
  BY <1>1, LogStep, Invariance, PTL DEF Spec

\* The stamps of a key are sorted, although each was read before mu_ was taken: the key
\* in flight orders the readings too.
THEOREM FrontIsOldest == Spec => []StampsAreSorted
<1>1. LogInv => StampsAreSorted
  BY DEF LogInv, StoredAreLogged, LogIsSorted, StampsAreSorted
<1>2. QED
  BY <1>1, History, PTL

\* No span of one window, wherever it starts, holds more failures of an address than
\* the limit, counted over all that were ever recorded.
THEOREM GuessesStayFew == Spec => []GuessesAreCapped
<1>1. TypeOK /\ LogInv => GuessesAreCapped
  BY DEF TypeOK, LogInv, LogIsCapped, InSpan, GuessesAreCapped
<1>2. QED
  BY <1>1, History, TypeCorrect, PTL

-----------------------------------------------------------------------------
(* Retry-After.                                                            *)

\* What is left of a division is smaller than the divisor.
LEMMA RoundedDown ==
    ASSUME NEW a \in Int, NEW d \in Nat \ {0}
    PROVE  a \div d \in Int /\ a < (a \div d + 1) * d
OBVIOUS

\* One second more than RemainingSec takes the front of the window out of it.
LEMMA FrontIsOut ==
    ASSUME NEW fails \in SUBSET Failures, fails # {}, NEW t \in Nat, NEW window \in Nat
    PROVE  Front(fails).at
              < (t + (RemainingSec(fails, t, window) + 1) * TicksPerSec) - window
<1> DEFINE d == TicksPerSec
           a == Front(fails).at + window - t
           q == a \div d
<1>1. Front(fails).at \in Nat /\ d \in Nat \ {0}
  BY FrontIsThere, LimitsAssumption DEF Failures
<1>2. a \in Int
  BY <1>1
<1>3. q \in Int /\ a < (q + 1) * d
  BY <1>1, <1>2, RoundedDown
<1>4. RemainingSec(fails, t, window) = IF q < 1 THEN 1 ELSE q
  BY DEF RemainingSec
<1> HIDE DEF q
<1>5. CASE q < 1
  <2>1. (q + 1) * d <= (1 + 1) * d
    BY <1>1, <1>3, <1>5
  <2>2. QED
    BY <1>1, <1>2, <1>3, <1>4, <1>5, <2>1
<1>6. CASE ~(q < 1)
  BY <1>1, <1>2, <1>3, <1>4, <1>6
<1>7. QED
  BY <1>5, <1>6

\* A full window that does not exceed its limit has room once its front is out of it.
LEMMA RoomLater ==
    ASSUME NEW fails \in SUBSET Failures, IsFiniteSet(fails), NEW max \in Nat \ {0},
           Throttled(fails, max), Cardinality(fails) <= max,
           NEW t \in Nat, NEW window \in Nat
    PROVE  Left(fails, t + (RemainingSec(fails, t, window) + 1) * TicksPerSec, window) < max
<1> DEFINE later == t + (RemainingSec(fails, t, window) + 1) * TicksPerSec
           left  == {f \in fails : f.at >= later - window}
<1>1. fails # {}
  BY FullIsNotEmpty
<1>2. Front(fails) \in fails
  BY <1>1, FrontIsThere
<1>3. Front(fails).at < later - window
  BY <1>1, FrontIsOut
<1>4. later \in Int
  BY <1>1, RemainingSecType, LimitsAssumption
<1> HIDE DEF later
<1>5. Front(fails) \notin left
  BY <1>2, <1>3, <1>4 DEF Failures
<1>6. left \in SUBSET (fails \ {Front(fails)})
  BY <1>5
<1>7. /\ IsFiniteSet(fails \ {Front(fails)})
      /\ Cardinality(fails \ {Front(fails)}) = Cardinality(fails) - 1
  BY <1>2, FS_RemoveElement
<1>8. /\ Cardinality(left) <= Cardinality(fails \ {Front(fails)})
      /\ Cardinality(left) \in Nat /\ Cardinality(fails) \in Nat
  BY <1>6, <1>7, FS_Subset, FS_CardinalityType
<1>9. Cardinality(left) < max
  BY <1>7, <1>8
<1>10. QED
  BY <1>9 DEF Left, later

\* A request that is about to call tryBegin has no answer yet.
NoAnswerYet == \A r \in Requests : pc[r] = "begin" => reply[r].admit = "none"

LEMMA AnswersAreNew == TypeOK /\ NoAnswerYet /\ [Next]_vars => NoAnswerYet'
<1> SUFFICES ASSUME TypeOK, NoAnswerYet, [Next]_vars PROVE NoAnswerYet'
  OBVIOUS
<1>1. CASE Tick \/ UNCHANGED vars
  BY <1>1 DEF Tick, vars, requestVars, NoAnswerYet
<1>2. ASSUME NEW r \in Requests, Post(r) PROVE NoAnswerYet'
  BY <1>2 DEF Post, NoReply, TypeOK, NoAnswerYet
<1>3. ASSUME NEW r \in Requests, TryBegin(r) PROVE NoAnswerYet'
  BY <1>3 DEF TryBegin, Refuse, Answered, Admit, TypeOK, NoAnswerYet
<1>4. ASSUME NEW r \in Requests,
             Login(r) \/ RecordFailure(r) \/ RecordSuccess(r) \/ Release(r)
      PROVE  NoAnswerYet'
  BY <1>4 DEF Login, RecordFailure, RecordSuccess, Release, Answered, requestVars, TypeOK,
     NoAnswerYet
<1>5. QED
  BY <1>1, <1>2, <1>3, <1>4 DEF Next, RequestStep

\* Only tryBegin says "throttled", with what RemainingSec is of the full window.
LEMMA ThrottledBy ==
    ASSUME TypeOK, NoAnswerYet, [Next]_vars, NEW r \in Requests, pc[r] = "begin",
           reply'[r].admit = "throttled"
    PROVE  /\ Ip(r) \in Ips /\ Key(r) \in Keys
           /\ \/ /\ Throttled(failsByIp'[Ip(r)], kIpFailMax)
                 /\ reply'[r].retry = RemainingSec(failsByIp'[Ip(r)], time[r], kIpWindow)
              \/ /\ ~Throttled(failsByIp'[Ip(r)], kIpFailMax)
                 /\ Throttled(failsByEmail'[Key(r)], kEmailFailMax)
                 /\ reply'[r].retry
                        = RemainingSec(failsByEmail'[Key(r)], time[r], kEmailWindow)
<1>1. Ip(r) \in Ips /\ Key(r) \in Keys
  BY DEF TypeOK, Clients, Ip, Key
<1>2. reply'[r] # reply[r]
  BY DEF NoAnswerYet
<1>3. ~(Tick \/ UNCHANGED vars)
  BY <1>2 DEF Tick, vars, requestVars
<1>4. ASSUME NEW s \in Requests, s # r \/ ~TryBegin(s) PROVE ~(Post(s) \/ RequestStep(s))
  <2>1. ASSUME Post(s) PROVE FALSE
    BY <1>2, <2>1 DEF Post, TypeOK
  <2>2. ASSUME TryBegin(s) PROVE FALSE
    BY <1>2, <1>4, <2>2 DEF TryBegin, Refuse, Admit, TypeOK
  <2>3. ASSUME Login(s) \/ RecordFailure(s) \/ RecordSuccess(s) \/ Release(s) PROVE FALSE
    BY <1>2, <2>3 DEF Login, RecordFailure, RecordSuccess, Release, requestVars
  <2>4. QED
    BY <2>1, <2>2, <2>3 DEF RequestStep
<1>5. TryBegin(r)
  BY <1>3, <1>4 DEF Next
<1> DEFINE ipFails    == Prune(failsByIp[Ip(r)], time[r], kIpWindow)
           emailFails == Prune(failsByEmail[Key(r)], time[r], kEmailWindow)
<1>6. failsByIp'[Ip(r)] = ipFails /\ failsByEmail'[Key(r)] = emailFails
  BY <1>1, <1>5 DEF TryBegin, TypeOK
<1>7. \/ Throttled(ipFails, kIpFailMax)
         /\ Refuse(r, "throttled", RemainingSec(ipFails, time[r], kIpWindow))
      \/ ~Throttled(ipFails, kIpFailMax) /\ Throttled(emailFails, kEmailFailMax)
         /\ Refuse(r, "throttled", RemainingSec(emailFails, time[r], kEmailWindow))
      \/ Refuse(r, "inflight", kInflightRetryAfterSec)
      \/ Refuse(r, "busy", kInflightRetryAfterSec)
      \/ Admit(r)
  BY <1>5 DEF TryBegin
<1>8. ASSUME NEW why, NEW sec, Refuse(r, why, sec)
      PROVE  reply'[r].admit = why /\ reply'[r].retry = sec
  BY <1>8 DEF Refuse, TypeOK
<1>9. ~Admit(r)
  BY DEF Admit, TypeOK
<1>10. QED
  BY <1>1, <1>6, <1>7, <1>8, <1>9

\* A client refused by a window finds room in it one second after Retry-After, whatever
\* the limits, the windows and the ticks of the clock.
THEOREM RetryIsEnough == Spec => RetryAfterIsEnough
<1> DEFINE enough == \A r \in Requests :
              pc[r] = "begin" /\ reply'[r].admit = "throttled" =>
                  LET later == time[r] + (reply'[r].retry + 1) * TicksPerSec
                  IN  IF Throttled(failsByIp'[Ip(r)], kIpFailMax)
                      THEN Left(failsByIp'[Ip(r)], later, kIpWindow) < kIpFailMax
                      ELSE Left(failsByEmail'[Key(r)], later, kEmailWindow) < kEmailFailMax
<1>1. IInv /\ IInv' /\ NoAnswerYet /\ [Next]_vars => enough
  <2> SUFFICES ASSUME IInv, IInv', NoAnswerYet, [Next]_vars,
                      NEW r \in Requests, pc[r] = "begin", reply'[r].admit = "throttled"
               PROVE  LET later == time[r] + (reply'[r].retry + 1) * TicksPerSec
                      IN  IF Throttled(failsByIp'[Ip(r)], kIpFailMax)
                          THEN Left(failsByIp'[Ip(r)], later, kIpWindow) < kIpFailMax
                          ELSE Left(failsByEmail'[Key(r)], later, kEmailWindow)
                                  < kEmailFailMax
    OBVIOUS
  <2>1. TypeOK /\ TypeOK' /\ FailsAreFinite' /\ WindowsHold'
    BY DEF IInv, GuardInv, WindowInv
  <2>2. /\ Ip(r) \in Ips /\ Key(r) \in Keys
        /\ \/ /\ Throttled(failsByIp'[Ip(r)], kIpFailMax)
              /\ reply'[r].retry = RemainingSec(failsByIp'[Ip(r)], time[r], kIpWindow)
           \/ /\ ~Throttled(failsByIp'[Ip(r)], kIpFailMax)
              /\ Throttled(failsByEmail'[Key(r)], kEmailFailMax)
              /\ reply'[r].retry
                     = RemainingSec(failsByEmail'[Key(r)], time[r], kEmailWindow)
    BY <2>1, ThrottledBy
  <2>3. /\ failsByIp'[Ip(r)] \in SUBSET Failures /\ failsByEmail'[Key(r)] \in SUBSET Failures
        /\ IsFiniteSet(failsByIp'[Ip(r)]) /\ IsFiniteSet(failsByEmail'[Key(r)])
        /\ Cardinality(failsByIp'[Ip(r)]) <= kIpFailMax
        /\ Cardinality(failsByEmail'[Key(r)]) <= kEmailFailMax
        /\ time[r] \in Nat
    BY <2>1, <2>2 DEF TypeOK, FailsAreFinite, WindowsHold
  <2>4. QED
    BY <2>2, <2>3, RoomLater, LimitsAssumption
<1>2. Init => NoAnswerYet
  BY DEF Init, NoReply, NoAnswerYet
<1>3. IInv => TypeOK
  BY DEF IInv, GuardInv
<1>4. QED
  BY <1>1, <1>2, <1>3, AnswersAreNew, Invariance, PTL DEF Spec, RetryAfterIsEnough
=============================================================================
