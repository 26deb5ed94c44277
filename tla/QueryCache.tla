----------------------------- MODULE QueryCache ------------------------------
(***************************************************************************)
(* The cache of query results in files: DB::queryCache2, queryCacheV2 and  *)
(* queryORcache (minMysql/min_mysql.cpp) over fileSerialize and            *)
(* fileUnSerialize (serialization/serialize.h).                            *)
(*                                                                         *)
(* One process, several threads, a few statements, each with its file; the *)
(* folder of a file is made only for the first connection that uses the    *)
(* cache.  A result is the version of the server's data it was read from.  *)
(* A file is replaced as a whole.  currentFile is read without its mutex:  *)
(* here the read gives the value of that moment.  queryCacheV2 has files   *)
(* and statics of its own, so a behaviour has calls of it, or of the other *)
(* two.                                                                    *)
(***************************************************************************)
EXTENDS Clock

CONSTANTS
    Threads,
    Files,      \* the statements
    FolderOf,   \* the cachedSQL_ folder of each
    TtlValues,  \* the ttl arguments in use
    Forever,    \* numeric_limits<uint>::max()
    MaxAsks     \* bound: calls

Nothing == "nothing"

ASSUME QueryCacheAssumption ==
    /\ TtlValues \subseteq Nat /\ Forever \in Nat /\ Forever > MaxTime
    /\ MaxAsks \in Nat /\ Nothing \notin Files \cup Threads

VARIABLES
    apis,       \* the functions in use
    thread,     \* the call of each thread
    file,       \* when each file's result was read from the server, and its ctime
    folders,    \* the folders that exist
    fraud,      \* the static that makes the folder has been initialised
    currentFile,\* fileSerialize's static
    lock,       \* who holds its mutex
    asks,       \* calls begun
    failed      \* history: the file of the last write, when it failed

cacheVars == <<now, apis, thread, file, folders, fraud, currentFile, lock, asks, failed>>

NoResult == [asked |-> 0, ctime |-> 0]
NoCall == [at |-> "idle", file |-> Nothing, ttl |-> 0, api |-> "none", required |-> FALSE,
           got |-> NoResult, swapped |-> FALSE, answer |-> "none"]

Stamps  == 0..MaxTime
Apis    == {{"queryCacheV2"}, {"queryCache2", "queryORcache"}}
Answers == {"none", "fresh", "cached", "fallback", "empty", "thrown"}
At      == {"idle", "opened", "query", "failed", "save", "lock", "write"}

QueryCacheTypeOK ==
    /\ now \in Times /\ apis \in Apis
    /\ thread \in [Threads -> [at : At, file : Files \cup {Nothing}, ttl : TtlValues \cup {Forever, 0},
                               api : (UNION Apis) \cup {"none"}, required : BOOLEAN,
                               got : [asked : Stamps, ctime : Stamps],
                               swapped : BOOLEAN, answer : Answers]]
    /\ file \in [Files -> [asked : Stamps, ctime : Stamps]]
    /\ folders \subseteq {FolderOf[f] : f \in Files} /\ fraud \in BOOLEAN
    /\ currentFile \in Files \cup {Nothing} /\ failed \in Files \cup {Nothing}
    /\ lock \in Threads \cup {Nothing}
    /\ asks \in 0..MaxAsks

QueryCacheInit ==
    /\ now = 1 /\ apis \in Apis
    /\ thread = [t \in Threads |-> NoCall]
    /\ file = [f \in Files |-> NoResult]
    /\ folders = {} /\ fraud = FALSE
    /\ currentFile = Nothing /\ lock = Nothing /\ asks = 0 /\ failed = Nothing

-----------------------------------------------------------------------------
Set(t, call) == thread' = [thread EXCEPT ![t] = call]
Goes(t, to) == Set(t, [thread[t] EXCEPT !.at = to])

\* The call is over; got is what its answer came from.
Answered(what, got) == [NoCall EXCEPT !.answer = what, !.got = got]
Answer(t, what, got) == Set(t, Answered(what, got))

writeVars == <<file, currentFile, lock, failed>>

\* The call; the first that may use the cache makes the folder, its own.
Ask(t) ==
    /\ thread[t].at = "idle" /\ asks < MaxAsks
    /\ asks' = asks + 1
    /\ \E f \in Files, ttl \in TtlValues \cup {Forever}, api \in apis, required \in BOOLEAN :
          LET call == [NoCall EXCEPT !.file = f, !.ttl = ttl, !.api = api,
                                     !.required = required]
          IN  \/ ttl = 0 /\ Set(t, [call EXCEPT !.at = "query"]) /\ UNCHANGED <<folders, fraud>>
              \/ /\ ttl > 0
                 /\ Set(t, [call EXCEPT !.at = IF file[f] = NoResult THEN "query" ELSE "opened",
                                        !.got = file[f]])
                 /\ folders' = IF fraud THEN folders ELSE folders \cup {FolderOf[f]}
                 /\ fraud' = TRUE
    /\ UNCHANGED <<now, apis, writeVars>>

\* Mutant: a file of just the ttl before the limit is taken too.
FreshOrOlder(f, ttl) == file[f].ctime >= now - ttl - 1

\* The age is asked of the path; the result is read from the file that was opened.
Fresh(f, ttl) == file[f].ctime >= now - ttl

Check(t) ==
    /\ thread[t].at = "opened"
    /\ LET c == thread[t]
       IN  \/ Fresh(c.file, c.ttl) /\ Answer(t, "cached", c.got)
           \/ ~Fresh(c.file, c.ttl) /\ Goes(t, "query")
    /\ UNCHANGED <<now, apis, folders, fraud, asks, writeVars>>

\* No file and a ttl without end: the server is not asked.  queryORcache has passed
\* required = false, whatever it was given.
CacheOnly(t) ==
    /\ thread[t].at = "query" /\ thread[t].ttl = Forever /\ thread[t].api # "queryCacheV2"
    /\ Answer(t, IF thread[t].required /\ thread[t].api = "queryCache2" THEN "thrown" ELSE "empty",
              NoResult)
    /\ UNCHANGED <<now, apis, folders, fraud, asks, writeVars>>

\* Only queryORcache goes on, and only after a Connection error.
QueryFails(t) ==
    \/ thread[t].api = "queryORcache" /\ Goes(t, "failed")
    \/ Answer(t, "thrown", NoResult)

\* query(): the result is written unless there is no ttl, or it is empty and
\* noCacheOnEmpty is set.
Query(t) ==
    /\ thread[t].at = "query"
    /\ thread[t].ttl = Forever => thread[t].api = "queryCacheV2"
    /\ LET got == [asked |-> now, ctime |-> now]
       IN  \/ Answer(t, "fresh", got)
           \/ thread[t].ttl > 0 /\ Set(t, [thread[t] EXCEPT !.at = "save", !.got = got])
           \/ QueryFails(t)
    /\ UNCHANGED <<now, apis, folders, fraud, asks, writeVars>>

\* The file of any age, or nothing.
Fallback(t) ==
    /\ thread[t].at = "failed"
    /\ LET c == thread[t]
       IN  \/ file[c.file] # NoResult /\ Answer(t, "fallback", file[c.file])
           \/ /\ file[c.file] = NoResult
              /\ Answer(t, IF c.required THEN "thrown" ELSE "empty", NoResult)
    /\ UNCHANGED <<now, apis, folders, fraud, asks, writeVars>>

-----------------------------------------------------------------------------
(* fileSerialize.                                                          *)

\* Somebody writes this file: do not.
CheckCurrent(t) ==
    /\ thread[t].at = "save"
    /\ \/ currentFile = thread[t].file /\ Answer(t, "fresh", thread[t].got)
       \/ currentFile # thread[t].file /\ Goes(t, "lock")
    /\ UNCHANGED <<now, apis, folders, fraud, asks, writeVars>>

Lock(t) ==
    /\ thread[t].at = "lock" /\ lock = Nothing
    /\ lock' = t /\ currentFile' = thread[t].file
    /\ Goes(t, "write")
    /\ UNCHANGED <<now, apis, folders, fraud, asks, file, failed>>

\* Every reader that has the file open keeps the old one.
Swap(t, f) ==
    thread' = [u \in Threads |->
                 CASE u = t -> Answered("fresh", thread[t].got)
                   [] u # t /\ thread[u].at = "opened" /\ thread[u].file = f
                        -> [thread[u] EXCEPT !.swapped = TRUE]
                   [] OTHER -> thread[u]]

Commit(t, f) ==
    /\ Swap(t, f)
    /\ file' = [file EXCEPT ![f] = [asked |-> thread[t].got.asked, ctime |-> now]]
    /\ failed' = Nothing /\ currentFile' = Nothing

\* open, or commit, fails: currentFile keeps the name.
WriteFails(t, f) ==
    /\ Answer(t, "fresh", thread[t].got)
    /\ failed' = f
    /\ UNCHANGED <<file, currentFile>>

Write(t) ==
    /\ thread[t].at = "write"
    /\ \/ FolderOf[thread[t].file] \in folders /\ Commit(t, thread[t].file)
       \/ WriteFails(t, thread[t].file)
    /\ lock' = Nothing
    /\ UNCHANGED <<now, apis, folders, fraud, asks>>

-----------------------------------------------------------------------------
QueryCacheTick ==
    Tick /\ UNCHANGED <<apis, thread, folders, fraud, asks, writeVars>>

QueryCacheNext ==
    \/ QueryCacheTick
    \/ \E t \in Threads : \/ Ask(t) \/ Check(t) \/ CacheOnly(t) \/ Query(t) \/ Fallback(t)
                          \/ CheckCurrent(t) \/ Lock(t) \/ Write(t)
QueryCacheSpec == QueryCacheInit /\ [][QueryCacheNext]_cacheVars

-----------------------------------------------------------------------------
(* Properties.                                                             *)

\* A call is answered with a file older than its ttl only by the fallback of
\* queryORcache, or when another thread replaced the file between open and the
\* question how old it is.
OldAnswerIsExplained ==
    [][\A t \in Threads :
          /\ thread[t].at # "idle" /\ thread'[t].answer = "cached"
          /\ thread'[t].got.ctime < now - thread[t].ttl
          => thread[t].swapped]_cacheVars

\* A result is left unwritten only because its file is being written right now, or
\* because the last write there was failed on this very file.
SkippedIsCovered ==
    currentFile # Nothing =>
        \/ lock # Nothing /\ thread[lock].file = currentFile
        \/ failed = currentFile
=============================================================================
