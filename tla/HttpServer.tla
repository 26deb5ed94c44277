----------------------------- MODULE HttpServer -----------------------------
(***************************************************************************)
(* What the workers of a Listener do with a request: on_read and           *)
(* handle_request (HTTP/beast.cpp), Router (HTTP/router.cpp) and the       *)
(* session preflight of HTTP/authHandler.{h,cpp}.                          *)
(*                                                                         *)
(* The project keeps its user in a thread-local, as authHandler.h allows,  *)
(* so what one request leaves there is what the next request on the same   *)
(* worker finds.  The sessions are shared by all workers: another request  *)
(* may log a session out between any two steps of this one.  Steps that    *)
(* touch neither are taken together.                                       *)
(***************************************************************************)
EXTENDS Listener

CONSTANTS
    Sids,           \* session ids
    UserOf,         \* whose session each is
    OldSids,        \* ids given out before the server started ...
    LiveSids,       \* ... and those of them that still are sessions
    Admins,         \* users with the level the guarded route asks for
    Devel,          \* the user of develLogin
    Nobody,         \* nothing was ever stored in the thread-local
    Anonymous       \* a user object that is not logged

NoCookie  == "no cookie"
Users     == {UserOf[s] : s \in Sids}
Public    == {"login", "logout"}
Paths     == Public \cup {"guarded", "page", "unknown"}
Cookies   == Sids \cup {NoCookie}
NoRequest == [path |-> "none", cookie |-> NoCookie]

ASSUME ServerAssumption ==
    /\ NoCookie \notin Sids
    /\ LiveSids \subseteq OldSids /\ OldSids \subseteq Sids
    /\ Admins \subseteq Users
    /\ {Nobody, Anonymous} \cap Users = {}

VARIABLES
    request,    \* what each worker is busy with
    phase,      \* where it is in it
    user,       \* its thread-local user
    reply,      \* its last reply: the page asked for, or any other
    finished,   \* history: deferred() of its last request returned
    sessions,   \* the live sessions
    issued,     \* history: session ids ever given out
    gone        \* history: the sessions that were over when it read its request

requestVars == <<request, phase, reply, finished, gone>>
authVars    == <<user, sessions, issued>>
vars        == <<listenerVars, requestVars, authVars>>

Phases  == {"none", "hook", "socket", "declined", "preflight", "handler", "deferred"}
Replies == {"none", "page", "other"}

TypeOK ==
    /\ ListenerTypeOK
    /\ request \in [Workers -> [path : Paths \cup {"none", "socket"}, cookie : Cookies]]
    /\ phase \in [Workers -> Phases]
    /\ user \in [Workers -> Users \cup {Nobody, Anonymous}]
    /\ reply \in [Workers -> Replies]
    /\ finished \in [Workers -> BOOLEAN]
    /\ sessions \subseteq issued /\ issued \subseteq Sids
    /\ gone \in [Workers -> SUBSET Sids]

Init ==
    /\ ListenerInit
    /\ request = [w \in Workers |-> NoRequest]
    /\ phase = [w \in Workers |-> "none"]
    /\ user = [w \in Workers |-> Nobody]
    /\ reply = [w \in Workers |-> "none"]
    /\ finished = [w \in Workers |-> FALSE]
    /\ sessions = LiveSids /\ issued = OldSids
    /\ gone = [w \in Workers |-> {}]

-----------------------------------------------------------------------------
(* A request comes and goes.                                               *)

Cookie(w) == request[w].cookie
Enter(w, p) == phase' = [phase EXCEPT ![w] = p] /\ UNCHANGED <<request, reply, finished, gone>>

Receive(w, p, paths) ==
    /\ \E path \in paths, cookie \in issued \cup {NoCookie} :
          request' = [request EXCEPT ![w] = [path |-> path, cookie |-> cookie]]
    /\ phase' = [phase EXCEPT ![w] = p]
    /\ gone' = [gone EXCEPT ![w] = issued \ sessions]
    /\ reply' = [reply EXCEPT ![w] = "none"]
    /\ finished' = [finished EXCEPT ![w] = FALSE]
    /\ UNCHANGED authVars

Leave(w, r, done) ==
    /\ phase' = [phase EXCEPT ![w] = "none"]
    /\ request' = [request EXCEPT ![w] = NoRequest]
    /\ gone' = [gone EXCEPT ![w] = {}]
    /\ reply' = [reply EXCEPT ![w] = r]
    /\ finished' = [finished EXCEPT ![w] = done]

\* handle_request begins, after requestBeging.
Read(w) == RequestBegins(w) /\ Receive(w, "preflight", Paths)

\* A websocket upgrade with no reply in the queue goes to the hook first.
ReadUpgrade(w) == HookBegins(w) /\ Receive(w, "hook", {"socket"})

\* queue_write and requestEnd.
Answer(w, r, done) == RequestEnds(w) /\ Leave(w, r, done)

-----------------------------------------------------------------------------
(* Who is asking.                                                          *)

Store(w, u) == user' = [user EXCEPT ![w] = u]

\* The hook resumeSession stores the user of a live session, and says ok, or
\* notLogged; of an unknown session it stores nothing, and says invalid.
ResumeOk(w) ==
    Cookie(w) \in sessions /\ Store(w, UserOf[Cookie(w)]) /\ UNCHANGED <<sessions, issued>>

ResumeFails(w) ==
    /\ \/ Cookie(w) \in sessions /\ Store(w, Anonymous)
       \/ Cookie(w) \notin sessions /\ UNCHANGED user
    /\ UNCHANGED <<sessions, issued>>

NewSession(sid) ==
    /\ sid \notin issued
    /\ issued' = issued \cup {sid}
    /\ sessions' = sessions \cup {sid}

\* tryDevelLogin: the hook logs its user in, or answers with an empty session id.
DevelLogin(w) ==
    \E sid \in Sids : UserOf[sid] = Devel /\ NewSession(sid) /\ Store(w, Devel)

\* Mutant: a session that is not there is not turned away.
ResolvedUnchecked(w) == ResumeOk(w) \/ DevelLogin(w) \/ ResumeFails(w)

\* The switch of loginManager and of checkWsUpgrade, where it lets the request pass.
Resolved(w) == ResumeOk(w) \/ DevelLogin(w)

Level(u) == u \in Admins

\* The websocketUpgrade hook with checkWsUpgrade: it takes the connection, declines
\* it, or throws.
CheckWsUpgrade(w) ==
    /\ phase[w] = "hook"
    /\ \/ Resolved(w) /\ Enter(w, IF Level(user'[w]) THEN "socket" ELSE "declined")
       \/ ResumeFails(w) /\ Enter(w, "declined")
    /\ UNCHANGED listenerVars

UpgradeTaken(w) == phase[w] = "socket" /\ HookEnds(w) /\ Leave(w, "none", FALSE)

UpgradeDeclined(w) == phase[w] = "declined" /\ HookDeclines(w) /\ Enter(w, "preflight")

\* on_read answers the exception itself.
UpgradeThrows(w) == phase[w] = "hook" /\ HookEnds(w) /\ Leave(w, "other", FALSE)

UpgradeStep(w) ==
    \/ CheckWsUpgrade(w)
    \/ (UpgradeTaken(w) \/ UpgradeDeclined(w) \/ UpgradeThrows(w)) /\ UNCHANGED authVars

-----------------------------------------------------------------------------
(* handle_request.                                                         *)

\* prePhase1, loginManager, postLogin and common1 let a request pass: a public path
\* with whatever user the thread-local holds, another one with its own.
Passes(w) ==
    /\ Enter(w, "handler")
    /\ \/ request[w].path \in Public /\ UNCHANGED authVars
       \/ request[w].path \notin Public /\ Resolved(w)
    /\ UNCHANGED listenerVars

\* OPTIONS is answered before any hook; a hook may refuse or throw, after the user
\* was resolved or before; loginManager denies a request without a user.
IsStopped(w) ==
    /\ Answer(w, "other", FALSE)
    /\ \/ UNCHANGED authVars
       \/ request[w].path \notin Public /\ (Resolved(w) \/ ResumeFails(w))

Preflight(w) == phase[w] = "preflight" /\ (Passes(w) \/ IsStopped(w))

\* What the routed page does: loginPage makes the user anonymous first, and a good
\* password gives a new session; logout ends one.
Page(w) ==
    \/ /\ request[w].path = "login" /\ Store(w, Anonymous)
       /\ UNCHANGED <<sessions, issued>> \/ \E sid \in Sids : NewSession(sid)
    \/ /\ request[w].path = "logout"
       /\ sessions' = sessions \ {Cookie(w)}
       /\ UNCHANGED <<user, issued>>
    \/ request[w].path = "guarded" /\ UNCHANGED authVars

\* guard<level, handler> runs the handler; no other route asks.
GuardLetsIn(w) == request[w].path = "guarded" => user[w] \in Users /\ Level(user[w])

\* Router::immediate: the routed function returns, and its reply is sent at once
\* when it has no deferred(); or it throws, after what it did or before.
Immediate(w) ==
    /\ phase[w] = "handler" /\ GuardLetsIn(w)
    /\ \/ Page(w) /\ (Answer(w, "page", TRUE) \/ Answer(w, "other", FALSE))
       \/ /\ request[w].path = "page"
          /\ Enter(w, "deferred") /\ UNCHANGED <<listenerVars, authVars>>
       \/ Answer(w, "other", FALSE) /\ UNCHANGED authVars

\* denyRoute, or no such route.
NotServed(w) ==
    /\ phase[w] = "handler"
    /\ request[w].path \in {"unknown", "socket"} \/ ~GuardLetsIn(w)
    /\ Answer(w, "other", FALSE) /\ UNCHANGED authVars

\* Mutant: the reply that was built is sent although deferred() threw.
DeferredKeepsReply(w) ==
    /\ phase[w] = "deferred"
    /\ \E done \in BOOLEAN : Answer(w, "page", done)
    /\ UNCHANGED authVars

\* deferred() runs between the building of the reply and its sending; when it
\* throws, an error page replaces the reply.
Deferred(w) ==
    /\ phase[w] = "deferred"
    /\ Answer(w, "page", TRUE) \/ Answer(w, "other", FALSE)
    /\ UNCHANGED authVars

-----------------------------------------------------------------------------
WorkerStep(w) == UpgradeStep(w) \/ Preflight(w) \/ Immediate(w) \/ NotServed(w) \/ Deferred(w)

Next ==
    /\ proc = "alive"
    /\ \/ ServerStep /\ UNCHANGED <<requestVars, authVars>>
       \/ \E w \in Workers : Read(w) \/ ReadUpgrade(w) \/ WorkerStep(w)

Spec == Init /\ [][Next]_vars

\* Every thread of the server is scheduled, and hooks and pages come back.  Nobody
\* has to stop the server or to send a request.
Alone(A) == proc = "alive" /\ A /\ UNCHANGED <<requestVars, authVars>>
FairSpec ==
    /\ Spec
    /\ WF_vars(Alone(ListenStep)) /\ WF_vars(Alone(SignalHandled))
    /\ WF_vars(Alone(CallStopAll)) /\ WF_vars(Alone(StopNext))
    /\ \A w \in Workers : /\ WF_vars(Alone(EnterRun(w) \/ RunReturns(w)))
                          /\ WF_vars(proc = "alive" /\ WorkerStep(w))

-----------------------------------------------------------------------------
(* Properties.                                                             *)

OwnerOf(cookie) == IF cookie = NoCookie THEN {} ELSE {UserOf[cookie]}

\* A guarded page and a websocket run as the user of the request's own session or
\* of develLogin, with the level, never as whom an earlier request left in the
\* worker's thread-local, and never for a session that was logged out, on any
\* worker, before the request was read.
RunsAsItsUser ==
    \A w \in Workers :
        \/ phase[w] = "socket"
        \/ phase[w] = "handler" /\ request[w].path = "guarded" /\ GuardLetsIn(w)
        => /\ user[w] \in Admins
           /\ user[w] \in OwnerOf(Cookie(w)) \cup {Devel}
           /\ user[w] # Devel => Cookie(w) \notin gone[w]

\* A client that is sent the page knows that its deferred work, too, came to an end.
OkMeansDone == \A w \in Workers : reply[w] = "page" => finished[w]
=============================================================================
