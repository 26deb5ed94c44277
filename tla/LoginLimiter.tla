---------------------------- MODULE LoginLimiter ----------------------------
(***************************************************************************)
(* The gate in front of the slow password hash: HTTP/loginLimiter.{h,cpp}, *)
(* and the part of loginPage (HTTP/authHandler.cpp) that drives it.        *)
(*                                                                         *)
(* Actors: the requests that POST /login, each on a thread of its own, and *)
(* the clock.  Every operation of the limiter holds mu_ from end to end;   *)
(* the clock is read before mu_ is taken, so a request may work with a     *)
(* time that is already old.                                               *)
(*                                                                         *)
(* A vector of failure stamps is the set of the failures it holds; the     *)
(* number n of a failure is its place in the order of all the push_backs.  *)
(***************************************************************************)
EXTENDS Integers, FiniteSets

CONSTANTS
    Requests,       \* concurrent POST /login
    Ips,            \* client addresses
    Emails,         \* addresses as the client wrote them
    Keys,           \* normalized addresses
    Nobody,         \* no client: the request has been answered
    Normalize,      \* normalizeEmail
    kMaxArgon2, kIpFailMax, kEmailFailMax,
    kIpWindow, kEmailWindow,    \* in ticks of the clock
    kInflightRetryAfterSec,
    TicksPerSec,    \* ticks of steady_clock in a second
    MaxTime         \* bound: the last tick the clock reaches

ASSUME SetsAssumption ==
    /\ IsFiniteSet(Requests)
    /\ Normalize \in [Emails -> Keys]
    /\ Nobody \notin [ip : Ips, key : Keys]
ASSUME LimitsAssumption ==
    /\ kMaxArgon2 \in Nat \ {0}
    /\ kIpFailMax \in Nat \ {0} /\ kEmailFailMax \in Nat \ {0}
    /\ kIpWindow \in Nat /\ kEmailWindow \in Nat
    /\ kInflightRetryAfterSec \in Nat \ {0}
    /\ TicksPerSec \in Nat \ {0}
    /\ MaxTime \in Nat

VARIABLES
    now,            \* the clock
    pc,             \* where each request is
    client,         \* the address and the normalized email it came with
    time,           \* the time it last read
    reply,          \* what tryBegin last answered it
    inflightIp,     \* inflightIp_
    inflightEmail,  \* inflightEmail_
    argon2Live,     \* argon2Live_
    failsByIp,      \* failsByIp_
    failsByEmail,   \* failsByEmail_
    nFails,         \* failures recorded so far
    log             \* history: every failure ever recorded

limiterVars == <<inflightIp, inflightEmail, argon2Live, failsByIp, failsByEmail,
                 nFails, log>>
requestVars == <<client, time, reply>>
vars == <<now, pc, requestVars, limiterVars>>

Failures == [n : Nat, ip : Ips, key : Keys, at : Nat]
Admits   == {"none", "ok", "inflight", "busy", "throttled"}
Clients  == [ip : Ips, key : Keys]
Ip(r)    == client[r].ip
Key(r)   == client[r].key

TypeOK ==
    /\ now \in Nat
    /\ pc \in [Requests -> {"idle", "begin", "login", "succeeded", "failed", "release"}]
    /\ client \in [Requests -> Clients \cup {Nobody}]
    /\ \A r \in Requests : pc[r] # "idle" => client[r] \in Clients
    /\ time \in [Requests -> Nat]
    /\ reply \in [Requests -> [admit : Admits, retry : Nat]]
    /\ inflightIp \subseteq Ips /\ inflightEmail \subseteq Keys
    /\ argon2Live \in Nat
    /\ failsByIp \in [Ips -> SUBSET Failures]
    /\ failsByEmail \in [Keys -> SUBSET Failures]
    /\ nFails \in Nat
    /\ log \subseteq Failures

NoReply == [admit |-> "none", retry |-> 0]

Init ==
    /\ now = 0
    /\ pc = [r \in Requests |-> "idle"]
    /\ client = [r \in Requests |-> Nobody]
    /\ time = [r \in Requests |-> 0]
    /\ reply = [r \in Requests |-> NoReply]
    /\ inflightIp = {} /\ inflightEmail = {}
    /\ argon2Live = 0
    /\ failsByIp = [i \in Ips |-> {}]
    /\ failsByEmail = [k \in Keys |-> {}]
    /\ nFails = 0
    /\ log = {}

-----------------------------------------------------------------------------
(* Helpers of the limiter.                                                 *)

\* Mutant: remove_if with t <= cutoff.
PruneOneMore(fails, t, window) == {f \in fails : f.at > t - window}

\* remove_if with t < cutoff: a stamp exactly one window old stays.
Prune(fails, t, window) == {f \in fails : f.at >= t - window}

\* stamps.front()
Front(fails) == CHOOSE f \in fails : \A g \in fails : f.n <= g.n

\* Mutant: the answer of an empty window.
RemainingUnknown(fails, t, window) == kInflightRetryAfterSec

\* Whole seconds, rounded down, but at least one.
RemainingSec(fails, t, window) ==
    LET sec == (Front(fails).at + window - t) \div TicksPerSec
    IN  IF sec < 1 THEN 1 ELSE sec

\* Mutant: one failure too many.
ThrottledLate(fails, max) == Cardinality(fails) > max

Throttled(fails, max) == Cardinality(fails) >= max

\* The request is over: its stack is gone.
Answered(r) ==
    /\ pc' = [pc EXCEPT ![r] = "idle"]
    /\ client' = [client EXCEPT ![r] = Nobody]
    /\ time' = [time EXCEPT ![r] = 0]

Refuse(r, why, sec) ==
    /\ reply' = [reply EXCEPT ![r] = [admit |-> why, retry |-> sec]]
    /\ Answered(r)
    /\ UNCHANGED <<inflightIp, inflightEmail, argon2Live>>

\* Mutant: the email is not put in flight.
AdmitIpOnly(r) ==
    /\ inflightIp' = inflightIp \cup {Ip(r)}
    /\ argon2Live' = argon2Live + 1
    /\ reply' = [reply EXCEPT ![r] = [admit |-> "ok", retry |-> 0]]
    /\ pc' = [pc EXCEPT ![r] = "login"]
    /\ UNCHANGED <<client, time, inflightEmail>>

\* The Guard is made: the ip, the email and one hash are taken.
Admit(r) ==
    /\ inflightIp' = inflightIp \cup {Ip(r)}
    /\ inflightEmail' = inflightEmail \cup {Key(r)}
    /\ argon2Live' = argon2Live + 1
    /\ reply' = [reply EXCEPT ![r] = [admit |-> "ok", retry |-> 0]]
    /\ pc' = [pc EXCEPT ![r] = "login"]
    /\ UNCHANGED <<client, time>>

-----------------------------------------------------------------------------
(* The requests.                                                           *)

\* loginPage with an email; tryBegin reads the clock.
Post(r) ==
    /\ pc[r] = "idle"
    /\ \E i \in Ips, e \in Emails :
          client' = [client EXCEPT ![r] = [ip |-> i, key |-> Normalize[e]]]
    /\ time' = [time EXCEPT ![r] = now]
    /\ reply' = [reply EXCEPT ![r] = NoReply]
    /\ pc' = [pc EXCEPT ![r] = "begin"]
    /\ UNCHANGED <<now, limiterVars>>

\* tryBegin under mu_.  Every exit has pruned both keys.
TryBegin(r) ==
    LET ipFails    == Prune(failsByIp[Ip(r)], time[r], kIpWindow)
        emailFails == Prune(failsByEmail[Key(r)], time[r], kEmailWindow)
        ipFull     == Throttled(ipFails, kIpFailMax)
        emailFull  == Throttled(emailFails, kEmailFailMax)
        inflight   == Ip(r) \in inflightIp \/ Key(r) \in inflightEmail
    IN  /\ pc[r] = "begin"
        /\ failsByIp' = [failsByIp EXCEPT ![Ip(r)] = ipFails]
        /\ failsByEmail' = [failsByEmail EXCEPT ![Key(r)] = emailFails]
        /\ \/ /\ ipFull
              /\ Refuse(r, "throttled", RemainingSec(ipFails, time[r], kIpWindow))
           \/ /\ ~ipFull /\ emailFull
              /\ Refuse(r, "throttled", RemainingSec(emailFails, time[r], kEmailWindow))
           \/ /\ ~ipFull /\ ~emailFull /\ inflight
              /\ Refuse(r, "inflight", kInflightRetryAfterSec)
           \/ /\ ~ipFull /\ ~emailFull /\ ~inflight /\ argon2Live >= kMaxArgon2
              /\ Refuse(r, "busy", kInflightRetryAfterSec)
           \/ /\ ~ipFull /\ ~emailFull /\ ~inflight /\ argon2Live < kMaxArgon2
              /\ Admit(r)
        /\ UNCHANGED <<now, nFails, log>>

\* Mutant: an exception leaves without the guard's destructor.
LoginLeaks(r) ==
    /\ pc[r] = "login"
    /\ \/ /\ \E to \in {"succeeded", "failed"} : pc' = [pc EXCEPT ![r] = to]
          /\ time' = [time EXCEPT ![r] = now]
          /\ UNCHANGED client
       \/ Answered(r)
    /\ UNCHANGED <<now, reply, limiterVars>>

\* conf().login returns, or throws.  A refusal of its own and an exception
\* record nothing.  recordFailure reads the clock before it takes mu_.
Login(r) ==
    /\ pc[r] = "login"
    /\ \/ /\ pc' = [pc EXCEPT ![r] = "succeeded"]
          /\ UNCHANGED time
       \/ /\ pc' = [pc EXCEPT ![r] = "failed"]
          /\ time' = [time EXCEPT ![r] = now]
       \/ /\ pc' = [pc EXCEPT ![r] = "release"]
          /\ UNCHANGED time
    /\ UNCHANGED <<now, client, reply, limiterVars>>

RecordFailure(r) ==
    LET f == [n |-> nFails + 1, ip |-> Ip(r), key |-> Key(r), at |-> time[r]]
    IN  /\ pc[r] = "failed"
        /\ failsByIp' = [failsByIp EXCEPT ![Ip(r)] = Prune(@ \cup {f}, time[r], kIpWindow)]
        /\ failsByEmail' =
              [failsByEmail EXCEPT ![Key(r)] = Prune(@ \cup {f}, time[r], kEmailWindow)]
        /\ nFails' = nFails + 1
        /\ log' = log \cup {f}
        /\ pc' = [pc EXCEPT ![r] = "release"]
        /\ UNCHANGED <<now, requestVars, inflightIp, inflightEmail, argon2Live>>

RecordSuccess(r) ==
    /\ pc[r] = "succeeded"
    /\ failsByEmail' = [failsByEmail EXCEPT ![Key(r)] = {}]
    /\ pc' = [pc EXCEPT ![r] = "release"]
    /\ UNCHANGED <<now, requestVars, inflightIp, inflightEmail, argon2Live,
                   failsByIp, nFails, log>>

\* Mutant: the hash is not given back.
ReleaseKeys(r) ==
    /\ pc[r] = "release"
    /\ inflightIp' = inflightIp \ {Ip(r)}
    /\ inflightEmail' = inflightEmail \ {Key(r)}
    /\ Answered(r)
    /\ UNCHANGED <<now, reply, argon2Live, failsByIp, failsByEmail, nFails, log>>

\* ~Guard, at the end of loginPage or while an exception leaves it.
Release(r) ==
    /\ pc[r] = "release"
    /\ inflightIp' = inflightIp \ {Ip(r)}
    /\ inflightEmail' = inflightEmail \ {Key(r)}
    /\ argon2Live' = IF argon2Live > 0 THEN argon2Live - 1 ELSE argon2Live
    /\ Answered(r)
    /\ UNCHANGED <<now, reply, failsByIp, failsByEmail, nFails, log>>

Tick ==
    /\ now < MaxTime
    /\ now' = now + 1
    /\ UNCHANGED <<pc, requestVars, limiterVars>>

RequestStep(r) == TryBegin(r) \/ Login(r) \/ RecordFailure(r) \/ RecordSuccess(r)
                  \/ Release(r)

Next == Tick \/ \E r \in Requests : Post(r) \/ RequestStep(r)

Spec == Init /\ [][Next]_vars

\* The thread of a request is scheduled until it has answered, and the
\* application's login function returns or throws.
FairSpec == Spec /\ \A r \in Requests : WF_vars(RequestStep(r))

-----------------------------------------------------------------------------
(* Properties.                                                             *)

Holders == {r \in Requests : pc[r] \in {"login", "succeeded", "failed", "release"}}

\* The hashes counted are the hashes running, no more than kMaxArgon2, and the
\* keys in flight are the keys of the requests that hash, whichever way earlier
\* requests ended.
GuardsAreCounted ==
    /\ argon2Live = Cardinality(Holders)
    /\ argon2Live <= kMaxArgon2
    /\ inflightIp = {Ip(r) : r \in Holders}
    /\ inflightEmail = {Key(r) : r \in Holders}

\* Two requests that hash share neither the address nor the email, spelled
\* differently or not.
OneHashPerKey ==
    \A r, s \in Holders : r # s => Ip(r) # Ip(s) /\ Key(r) # Key(s)

\* No key ever stores more failures than its limit: nothing passes between the
\* check of the window and the recording of the failure.
WindowsHold ==
    /\ \A i \in Ips : Cardinality(failsByIp[i]) <= kIpFailMax
    /\ \A k \in Keys : Cardinality(failsByEmail[k]) <= kEmailFailMax

\* "Serial guessing is capped by short failure windows": of all the failures
\* ever recorded for one address, no window of time holds more than the limit.
GuessesAreCapped ==
    \A i \in Ips : \A start \in 0..now :
        Cardinality({f \in log : f.ip = i /\ f.at \in start..start + kIpWindow})
            <= kIpFailMax

\* push_back keeps the stamps of a key sorted, although each stamp was read
\* before mu_ was taken: remainingSec may take front() for the oldest.
StampsAreSorted ==
    \A fails \in {failsByIp[i] : i \in Ips} \cup {failsByEmail[k] : k \in Keys} :
        \A f, g \in fails : f.n < g.n => f.at <= g.at

\* A client refused by a window may come back after Retry-After and the second
\* it was rounded down by: fewer failures than the limit will be left of those
\* that refused it.
Left(fails, t, window) == Cardinality({f \in fails : f.at >= t - window})

RetryAfterIsEnough ==
    [][\A r \in Requests :
          pc[r] = "begin" /\ reply'[r].admit = "throttled" =>
              LET later == time[r] + (reply'[r].retry + 1) * TicksPerSec
              IN  IF Throttled(failsByIp'[Ip(r)], kIpFailMax)
                  THEN Left(failsByIp'[Ip(r)], later, kIpWindow) < kIpFailMax
                  ELSE Left(failsByEmail'[Key(r)], later, kEmailWindow)
                          < kEmailFailMax]_vars

\* A guard always comes back, after an exception too: neither an address nor an
\* email stays locked.
NothingStaysLocked ==
    /\ \A i \in Ips : i \in inflightIp ~> i \notin inflightIp
    /\ \A k \in Keys : k \in inflightEmail ~> k \notin inflightEmail
=============================================================================
