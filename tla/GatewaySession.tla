--------------------------- MODULE GatewaySession ---------------------------
(***************************************************************************)
(* The life of gateway sessions in one server process: what every          *)
(* WebSocket task (handle_connection, with handle_identify and             *)
(* handle_resume) does to the in-memory registry (SessionManager), to the  *)
(* Redis keys gateway_session:<id> that make a session resumable, and to   *)
(* the presence the rest of the system is told.                            *)
(*                                                                         *)
(* One task runs per connection, on a multi-threaded runtime: an action is *)
(* one access to shared state (one DashMap call, one Redis command, one    *)
(* publish), so the tasks interleave between any two of them, inside       *)
(* register() and remove() too.  Events and sequence numbers are the       *)
(* subject of GatewayDispatch.                                             *)
(***************************************************************************)
EXTENDS Naturals, FiniteSets

CONSTANTS
    Conns,        \* WebSocket connections, each used once
    Users,        \* accounts holding a valid access token
    SessionIds,   \* the nanoid!(32) values the process can draw
    None,         \* absent: no session, no map entry, no Redis key
    MaxResumes,   \* bound on the Resume requests that find their session
    MaxFailures,  \* bound on failed Redis, PostgreSQL and NATS calls
    MaxCrashes    \* bound on crashes of the process

(* GatewaySession { session_id, user_id, sender }: the sender is the       *)
(* outbound channel of the connection that built the object.               *)
Session == [id : SessionIds, user : Users, conn : Conns]

ASSUME ConstantsAssumption ==
    /\ None \notin Users
    /\ None \notin Session
    /\ \A ids \in SUBSET SessionIds : None # ids
    /\ MaxResumes \in Nat
    /\ MaxFailures \in Nat
    /\ MaxCrashes \in Nat

VARIABLES
    pc,             \* pc[c]: where the task of connection c stands
    session,        \* session[c]: the local `session` of handle_connection
    pending,        \* pending[c]: the session handle_identify or handle_resume builds
    sessions,       \* SessionManager.sessions: session id -> Session
    user_sessions,  \* SessionManager.user_sessions: user -> ids, None without entry
    stored,         \* Redis gateway_session:<id> -> user_id
    announced,      \* the last presence published for each user
    origin,         \* history: the session an Identify created under the id
    resumed,        \* history: ids some Resume has consumed
    abandoned,      \* history: ids whose task dropped its handle without remove()
    erased,         \* history: ids that were in an index entry when remove() erased it
    resumes, failures, crashes  \* how much of each bound is used

registry == <<sessions, user_sessions>>
history  == <<origin, resumed, abandoned, erased>>
counters == <<resumes, failures, crashes>>
vars == <<pc, session, pending, registry, stored, announced, history, counters>>

Registering == {"identify_push", "identify_ready",
                "resume_del", "resume_insert", "resume_push", "resume_finish"}
Cleaning    == {"store", "remove", "retain", "erase", "timer", "offline"}
PcValues    == {"new", "loop", "gone"} \cup Registering \cup Cleaning

-----------------------------------------------------------------------------
(* Helpers.                                                                *)

Goto(c, label) == pc' = [pc EXCEPT ![c] = label]

(* An await on Redis, PostgreSQL or NATS that ends in Err.                 *)
MayFail == failures < MaxFailures /\ failures' = failures + 1

(* publish(user.<id>.presence): fire and forget, `let _ =`.                *)
Publish(u, status) ==
    \/ announced' = [announced EXCEPT ![u] = status] /\ UNCHANGED failures
    \/ MayFail /\ UNCHANGED announced

(* entry(user_id).or_default().push(id), the second half of register().    *)
PushId(u, s) ==
    user_sessions' = [user_sessions EXCEPT
        ![u] = (IF @ = None THEN {} ELSE @) \cup {s}]

Init ==
    /\ pc = [c \in Conns |-> "new"]
    /\ session = [c \in Conns |-> None]
    /\ pending = [c \in Conns |-> None]
    /\ sessions = [s \in SessionIds |-> None]
    /\ user_sessions = [u \in Users |-> None]
    /\ stored = [s \in SessionIds |-> None]
    /\ announced = [u \in Users |-> "offline"]
    /\ origin = [s \in SessionIds |-> None]
    /\ resumed = {}
    /\ abandoned = {}
    /\ erased = {}
    /\ resumes = 0 /\ failures = 0 /\ crashes = 0

-----------------------------------------------------------------------------
(* Deviations: what a plausible slip in the code would make of the         *)
(* definition each is named after.  Nothing below uses them; they show     *)
(* that the properties depend on what the code does.                       *)

(* Cleanup not conditional on `if let Some(ref s) = session`.              *)
AfterLoop_Unconditional(c) == "store"

(* Cleanup skipped when the loop breaks.                                   *)
AfterLoop_NoCleanup(c) == "gone"

(* The key made resumable at Identify rather than at cleanup.              *)
IdentifyReady_Stores(c) ==
    /\ pc[c] = "identify_ready"
    /\ Publish(pending[c].user, "online")
    /\ stored' = [stored EXCEPT ![pending[c].id] = pending[c].user]
    /\ session' = [session EXCEPT ![c] = pending[c]]
    /\ pending' = [pending EXCEPT ![c] = None]
    /\ Goto(c, "loop")
    /\ UNCHANGED <<registry, history, resumes, crashes>>

(* No comparison of the stored user with the one of the token.             *)
ResumeGet_AnyUser(c, u, s) ==
    /\ pc[c] = "loop"
    /\ stored[s] # None
    /\ resumes < MaxResumes
    /\ resumes' = resumes + 1
    /\ pending' = [pending EXCEPT ![c] = [id |-> s, user |-> u, conn |-> c]]
    /\ Goto(c, "resume_del")
    /\ UNCHANGED <<session, registry, stored, announced, history, failures, crashes>>

(* The entry of a user left behind with no session in it.                  *)
RemoveRetain_KeepsEmpty(c) ==
    /\ pc[c] = "retain"
    /\ user_sessions' = [user_sessions EXCEPT ![session[c].user] =
           IF @ = None THEN None ELSE @ \ {session[c].id}]
    /\ Goto(c, "timer")
    /\ UNCHANGED <<session, pending, sessions, stored, announced, history, counters>>

-----------------------------------------------------------------------------
(* Leaving the receive loop: only a task that holds a session cleans up.   *)
AfterLoop(c) == IF session[c] = None THEN "gone" ELSE "store"

(* handle_connection: upgrade and receive loop.                            *)

Connect(c) ==
    /\ pc[c] = "new"
    /\ Goto(c, "loop")
    /\ UNCHANGED <<session, pending, registry, stored, announced, history, counters>>

(* Every break of the loop: close frame, stream error, heartbeat timeout,  *)
(* rate limit, unparsable frame, second Identify, handler returning Err.   *)
Leave(c) ==
    /\ pc[c] = "loop"
    /\ Goto(c, AfterLoop(c))
    /\ UNCHANGED <<session, pending, registry, stored, announced, history, counters>>

(* A status other than "invisible" is published as it is; all of them mean *)
(* "not offline" to the other users.  The presence:<user> key, which only  *)
(* other components read, is left out.                                     *)
PresenceUpdate(c) ==
    /\ pc[c] = "loop"
    /\ session[c] # None
    /\ Publish(session[c].user, "online")
    /\ UNCHANGED <<pc, session, pending, registry, stored, history, resumes, crashes>>

-----------------------------------------------------------------------------
(* handle_identify: every check precedes register(), so nothing fails past *)
(* it; the id is fresh.                                                    *)

Identify(c, u, s) ==
    /\ pc[c] = "loop"
    /\ session[c] = None
    /\ origin[s] = None
    /\ LET new == [id |-> s, user |-> u, conn |-> c]
       IN  /\ sessions' = [sessions EXCEPT ![s] = new]
           /\ pending' = [pending EXCEPT ![c] = new]
           /\ origin' = [origin EXCEPT ![s] = new]
    /\ Goto(c, "identify_push")
    /\ UNCHANGED <<session, user_sessions, stored, announced, resumed, abandoned, erased, counters>>

(* The remaining half of register(), for Identify and Resume alike.        *)
RegisterPush(c) ==
    /\ \/ pc[c] = "identify_push" /\ Goto(c, "identify_ready")
       \/ pc[c] = "resume_push" /\ Goto(c, "resume_finish")
    /\ PushId(pending[c].user, pending[c].id)
    /\ UNCHANGED <<session, pending, sessions, stored, announced, history, counters>>

(* READY, the subscriptions and the "online" broadcast; the handler        *)
(* returns and the loop keeps the session.                                 *)
IdentifyReady(c) ==
    /\ pc[c] = "identify_ready"
    /\ Publish(pending[c].user, "online")
    /\ session' = [session EXCEPT ![c] = pending[c]]
    /\ pending' = [pending EXCEPT ![c] = None]
    /\ Goto(c, "loop")
    /\ UNCHANGED <<registry, stored, history, resumes, crashes>>

-----------------------------------------------------------------------------
(* handle_resume, allowed on any connection, with or without a session.    *)

(* GET gateway_session:<id>, and the comparison of the stored user.        *)
ResumeGet(c, u, s) ==
    /\ pc[c] = "loop"
    /\ stored[s] = u
    /\ resumes < MaxResumes
    /\ resumes' = resumes + 1
    /\ pending' = [pending EXCEPT ![c] = [id |-> s, user |-> u, conn |-> c]]
    /\ Goto(c, "resume_del")
    /\ UNCHANGED <<session, registry, stored, announced, history, failures, crashes>>

(* DEL gateway_session:<id>; on Err the loop breaks, whether or not the    *)
(* command reached Redis.                                                  *)
ResumeDel(c) ==
    /\ pc[c] = "resume_del"
    /\ \/ /\ stored' = [stored EXCEPT ![pending[c].id] = None]
          /\ resumed' = resumed \cup {pending[c].id}
          /\ Goto(c, "resume_insert")
          /\ UNCHANGED <<pending, failures>>
       \/ /\ MayFail
          /\ \/ UNCHANGED stored
             \/ stored' = [stored EXCEPT ![pending[c].id] = None]
          /\ pending' = [pending EXCEPT ![c] = None]
          /\ Goto(c, AfterLoop(c))
          /\ UNCHANGED resumed
    /\ UNCHANGED <<session, registry, announced, origin, abandoned, erased, resumes, crashes>>

(* sessions.insert of register(): it replaces an entry of the same id.     *)
ResumeInsert(c) ==
    /\ pc[c] = "resume_insert"
    /\ sessions' = [sessions EXCEPT ![pending[c].id] = pending[c]]
    /\ Goto(c, "resume_push")
    /\ UNCHANGED <<session, pending, user_sessions, stored, announced, history, counters>>

(* Replay and RESUMED, then two PostgreSQL queries.  If they succeed the   *)
(* loop takes the new session, and a session it held before is dropped     *)
(* unremoved; if one fails the loop breaks with its old session, and the   *)
(* registered one is dropped.  Nothing is published in either case.        *)
ResumeFinish(c) ==
    /\ pc[c] = "resume_finish"
    /\ \/ /\ session' = [session EXCEPT ![c] = pending[c]]
          /\ abandoned' = abandoned \cup
                 (IF session[c] = None THEN {} ELSE {session[c].id})
          /\ Goto(c, "loop")
          /\ UNCHANGED failures
       \/ /\ MayFail
          /\ abandoned' = abandoned \cup {pending[c].id}
          /\ Goto(c, AfterLoop(c))
          /\ UNCHANGED session
    /\ pending' = [pending EXCEPT ![c] = None]
    /\ UNCHANGED <<registry, stored, announced, origin, resumed, erased, resumes, crashes>>

-----------------------------------------------------------------------------
(* Cleanup after the loop.                                                 *)

(* SET gateway_session:<id> EX 300, its result ignored.                    *)
CleanupStore(c) ==
    /\ pc[c] = "store"
    /\ \/ /\ stored' = [stored EXCEPT ![session[c].id] = session[c].user]
          /\ UNCHANGED failures
       \/ MayFail /\ UNCHANGED stored
    /\ Goto(c, "remove")
    /\ UNCHANGED <<session, pending, registry, announced, history, resumes, crashes>>

(* remove(), first access: sessions.remove(id).  Whatever entry the id has *)
(* goes, whichever connection inserted it.                                 *)
RemoveSession(c) ==
    /\ pc[c] = "remove"
    /\ sessions' = [sessions EXCEPT ![session[c].id] = None]
    /\ Goto(c, IF sessions[session[c].id] = None THEN "timer" ELSE "retain")
    /\ UNCHANGED <<session, pending, user_sessions, stored, announced, history, counters>>

(* remove(), second access: get_mut(user), retain, is_empty, under the     *)
(* lock of the shard.  The user is the one of the removed entry, which     *)
(* SessionsBelongToOwner makes the task's own.                             *)
RemoveRetain(c) ==
    /\ pc[c] = "retain"
    /\ LET u    == session[c].user
           left == user_sessions[u] \ {session[c].id}
       IN  IF user_sessions[u] = None
           THEN Goto(c, "timer") /\ UNCHANGED user_sessions
           ELSE /\ user_sessions' = [user_sessions EXCEPT ![u] = left]
                /\ Goto(c, IF left = {} THEN "erase" ELSE "timer")
    /\ UNCHANGED <<session, pending, sessions, stored, announced, history, counters>>

(* remove(), third access, after drop(sessions) has released the lock: the *)
(* entry goes, even if a register() has pushed an id meanwhile.            *)
RemoveEntry(c) ==
    /\ pc[c] = "erase"
    /\ LET u == session[c].user
       IN  /\ user_sessions' = [user_sessions EXCEPT ![u] = None]
           /\ erased' = erased \cup (IF user_sessions[u] = None THEN {} ELSE user_sessions[u])
    /\ Goto(c, "timer")
    /\ UNCHANGED <<session, pending, sessions, stored, announced, origin, resumed, abandoned, counters>>

(* The task spawned at the end of cleanup, after its sleep of ten seconds: *)
(* "Check if user has reconnected before broadcasting offline".            *)
OfflineTimer(c) ==
    /\ pc[c] = "timer"
    /\ IF user_sessions[session[c].user] = None
       THEN Goto(c, "offline") /\ UNCHANGED session
       ELSE Goto(c, "gone") /\ session' = [session EXCEPT ![c] = None]
    /\ UNCHANGED <<pending, registry, stored, announced, history, counters>>

(* The broadcast of that task.                                             *)
OfflineBroadcast(c) ==
    /\ pc[c] = "offline"
    /\ Publish(session[c].user, "offline")
    /\ session' = [session EXCEPT ![c] = None]
    /\ Goto(c, "gone")
    /\ UNCHANGED <<pending, registry, stored, history, resumes, crashes>>

-----------------------------------------------------------------------------
(* The environment.                                                        *)

(* The five minutes of EX pass.                                            *)
ExpireSession(s) ==
    /\ stored[s] # None
    /\ stored' = [stored EXCEPT ![s] = None]
    /\ UNCHANGED <<pc, session, pending, registry, announced, history, counters>>

(* The process dies and restarts: tasks, timers and registry are lost;     *)
(* Redis and what was published stay.                                      *)
Crash ==
    /\ crashes < MaxCrashes
    /\ crashes' = crashes + 1
    /\ pc' = [c \in Conns |-> IF pc[c] = "new" THEN "new" ELSE "gone"]
    /\ session' = [c \in Conns |-> None]
    /\ pending' = [c \in Conns |-> None]
    /\ sessions' = [s \in SessionIds |-> None]
    /\ user_sessions' = [u \in Users |-> None]
    /\ UNCHANGED <<stored, announced, history, resumes, failures>>

(* What a task does by itself once started, under its runtime.             *)
Proceed(c) ==
    \/ RegisterPush(c) \/ IdentifyReady(c)
    \/ ResumeDel(c) \/ ResumeInsert(c) \/ ResumeFinish(c)
    \/ CleanupStore(c) \/ RemoveSession(c) \/ RemoveRetain(c) \/ RemoveEntry(c)
    \/ OfflineTimer(c) \/ OfflineBroadcast(c)

(* What a client asks for.                                                 *)
Request(c) ==
    \/ Connect(c) \/ Leave(c) \/ PresenceUpdate(c)
    \/ \E u \in Users, s \in SessionIds : Identify(c, u, s) \/ ResumeGet(c, u, s)

Next ==
    \/ \E c \in Conns : Proceed(c) \/ Request(c)
    \/ \E s \in SessionIds : ExpireSession(s)
    \/ Crash

Spec == Init /\ [][Next]_vars
-----------------------------------------------------------------------------
(* Properties.                                                             *)

(* Types, and what each program point knows of its locals.                 *)
TypeOK ==
    /\ pc \in [Conns -> PcValues]
    /\ session \in [Conns -> Session \cup {None}]
    /\ pending \in [Conns -> Session \cup {None}]
    /\ sessions \in [SessionIds -> Session \cup {None}]
    /\ user_sessions \in [Users -> (SUBSET SessionIds) \cup {None}]
    /\ stored \in [SessionIds -> Users \cup {None}]
    /\ announced \in [Users -> {"online", "offline"}]
    /\ origin \in [SessionIds -> Session \cup {None}]
    /\ resumed \subseteq SessionIds
    /\ abandoned \subseteq SessionIds /\ erased \subseteq SessionIds
    /\ resumes \in Nat /\ failures \in Nat /\ crashes \in Nat
    /\ \A c \in Conns :
          /\ pc[c] \in Registering <=> pending[c] # None
          /\ pc[c] \in Cleaning => session[c] # None

BelongsToOwner(x) ==
    origin[x.id] # None /\ x.user = origin[x.id].user

(* A session id stands for the user that identified, wherever it appears:  *)
(* in the registry, in the index of a user, in Redis, in a task.  This is  *)
(* what the user comparison of handle_resume is for: whatever ids clients  *)
(* present, no session changes hands.                                      *)
SessionsBelongToOwner ==
    /\ \A s \in SessionIds :
          /\ sessions[s] # None => sessions[s].id = s /\ BelongsToOwner(sessions[s])
          /\ stored[s] # None => origin[s] # None /\ stored[s] = origin[s].user
    /\ \A c \in Conns :
          /\ session[c] # None => BelongsToOwner(session[c])
          /\ pending[c] # None => BelongsToOwner(pending[c])
    /\ \A u \in Users : user_sessions[u] # None =>
          \A s \in user_sessions[u] : origin[s] # None /\ origin[s].user = u

(* Until the connection that identified has written its resume key, its    *)
(* session is its own: not resumable, in nobody else's hands, and found in *)
(* the registry under its id.  The first half of "all active gateway       *)
(* sessions" (session.rs) holds for sessions nobody has resumed.           *)
ExclusiveUntilCleanup ==
    \A s \in SessionIds :
        (origin[s] # None /\ pc[origin[s].conn] \notin {"remove", "retain", "erase", "timer", "offline", "gone"})
        => /\ sessions[s] = origin[s]
           /\ stored[s] = None
           /\ s \notin resumed
           /\ \A d \in Conns :
                 /\ session[d] # None /\ session[d].id = s => session[d] = origin[s]
                 /\ pending[d] # None /\ pending[d].id = s =>
                        pending[d] = origin[s] /\ pc[d] \in {"identify_push", "identify_ready"}

(* A task that has been through sessions.remove() and its successors.      *)
Departed == {"retain", "erase", "timer", "offline", "gone"}

Holds(c, x) ==
    \/ pending[c] = x
    \/ session[c] = x /\ pc[c] \notin Departed

Listed(x) == user_sessions[x.user] # None /\ x.id \in user_sessions[x.user]

(* The registry keeps nothing dead and misses nothing live.  No entry      *)
(* outlives its connection, but for the two ways a task drops a registered *)
(* session without remove(): a Resume on a connection that has a session,  *)
(* and a query that fails after register().  The index of a user lists no  *)
(* dead session: an id nobody has resumed is in the registry, or its own   *)
(* connection is just removing it.  And a session its connection has, that *)
(* nobody has resumed, is listed, unless a remove() that had found the     *)
(* entry empty erased it with the id in it (session.rs, after drop).       *)
RegistryMatchesTasks ==
    /\ \A s \in SessionIds : sessions[s] # None =>
          s \in abandoned \/ \E c \in Conns : Holds(c, sessions[s])
    /\ \A u \in Users : user_sessions[u] # None =>
          \A s \in user_sessions[u] \ resumed :
              \/ sessions[s] = origin[s]
              \/ \E c \in Conns : pc[c] = "retain" /\ session[c].id = s
    /\ \A c \in Conns : session[c] # None /\ pc[c] \notin Departed =>
          session[c].id \in resumed \cup erased \/ Listed(session[c])

(* Some task still works for the user: identifying, resuming or connected. *)
Present(u) ==
    \E c \in Conns :
        /\ pc[c] \in Registering \cup {"loop"}
        /\ \/ pending[c] # None /\ pending[c].user = u
           \/ session[c] # None /\ session[c].user = u

Undisturbed == resumes = 0 /\ failures = 0 /\ crashes = 0

(* The delayed broadcast at the end of cleanup does its work: a user told  *)
(* to be online has a connection, or one whose cleanup is under way, until *)
(* he is told to be offline; so long as no Resume, no failed call and no   *)
(* crash has interfered.  Several connections of one user may clean up at  *)
(* once, and a timer that finds the user's entry leaves the broadcast to   *)
(* the others: the last one to look must find it gone.                     *)
OfflineSettles ==
    Undisturbed => \A u \in Users :
        announced[u] = "online" =>
            Present(u) \/ \E c \in Conns : pc[c] \in Cleaning /\ session[c].user = u
=============================================================================
