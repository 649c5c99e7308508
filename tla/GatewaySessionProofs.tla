------------------------ MODULE GatewaySessionProofs ------------------------
(***************************************************************************)
(* Proofs about GatewaySession, for any number of connections, users and   *)
(* session ids, any interleaving of their tasks, and any number of         *)
(* resumes, failed calls and crashes.                                      *)
(***************************************************************************)
EXTENDS GatewaySession, TLAPS

-----------------------------------------------------------------------------
(* Type correctness.                                                       *)

(* An entry of the registry is never the mark of an absent one.            *)
LEMMA SessionIsNotNone ==
    ASSUME NEW s \in SessionIds, NEW u \in Users, NEW c \in Conns
    PROVE  /\ [id |-> s, user |-> u, conn |-> c] \in Session
           /\ [id |-> s, user |-> u, conn |-> c] # None
           /\ u # None
<1>1. [id |-> s, user |-> u, conn |-> c] \in Session
    BY DEF Session
<1> QED BY <1>1, ConstantsAssumption

(* Nor is a list of ids the mark of a user without one.                    *)
LEMMA NoneIsNoIndex == \A ids \in SUBSET SessionIds : ids # None
BY ConstantsAssumption

(* SessionManager::new: empty maps, no task.                               *)
LEMMA InitTypeOK == Init => TypeOK
BY ConstantsAssumption DEF Init, TypeOK, PcValues, Registering, Cleaning

(* publish() of a presence, failed or not, leaves presences in their range. *)
LEMMA PublishTypes ==
    ASSUME TypeOK, NEW u \in Users, NEW status \in {"online", "offline"}, Publish(u, status)
    PROVE  announced' \in [Users -> {"online", "offline"}] /\ failures' \in Nat
BY DEF Publish, MayFail, TypeOK

(* Every step keeps the types, and a task that registers or cleans up      *)
(* keeps the session it works on.                                          *)
LEMMA NextTypeOK == TypeOK /\ [Next]_vars => TypeOK'
<1> SUFFICES ASSUME TypeOK, [Next]_vars
             PROVE  TypeOK'
    OBVIOUS
<1> USE DEF Goto, PcValues, Registering, Cleaning, registry, history, counters
<1>1. CASE UNCHANGED vars
    BY <1>1 DEF vars, TypeOK
<1>2. ASSUME NEW c \in Conns, Connect(c) PROVE TypeOK'
    BY <1>2 DEF Connect, TypeOK
<1>3. ASSUME NEW c \in Conns, Leave(c) PROVE TypeOK'
    BY <1>3 DEF Leave, AfterLoop, TypeOK
<1>4. ASSUME NEW c \in Conns, PresenceUpdate(c) PROVE TypeOK'
    <2>1. session[c].user \in Users
        BY <1>4 DEF PresenceUpdate, TypeOK, Session
    <2> QED BY <1>4, <2>1, PublishTypes DEF PresenceUpdate, TypeOK
<1>5. ASSUME NEW c \in Conns, NEW u \in Users, NEW s \in SessionIds, Identify(c, u, s)
      PROVE  TypeOK'
    BY <1>5, SessionIsNotNone DEF Identify, TypeOK
<1>6. ASSUME NEW c \in Conns, RegisterPush(c) PROVE TypeOK'
    <2>1. pending[c] \in Session
        BY <1>6 DEF RegisterPush, TypeOK
    <2>2. user_sessions' \in [Users -> (SUBSET SessionIds) \cup {None}]
        BY <1>6, <2>1 DEF RegisterPush, PushId, Session, TypeOK
    <2> QED BY <1>6, <2>2 DEF RegisterPush, TypeOK
<1>7. ASSUME NEW c \in Conns, IdentifyReady(c) PROVE TypeOK'
    <2>1. pending[c] \in Session /\ pending[c].user \in Users
        BY <1>7 DEF IdentifyReady, TypeOK, Session
    <2> QED BY <1>7, <2>1, PublishTypes, ConstantsAssumption DEF IdentifyReady, TypeOK
<1>8. ASSUME NEW c \in Conns, NEW u \in Users, NEW s \in SessionIds, ResumeGet(c, u, s)
      PROVE  TypeOK'
    BY <1>8, SessionIsNotNone DEF ResumeGet, TypeOK
<1>9. ASSUME NEW c \in Conns, ResumeDel(c) PROVE TypeOK'
    <2>1. pending[c] \in Session /\ pending[c].id \in SessionIds
        BY <1>9 DEF ResumeDel, TypeOK, Session
    <2> QED BY <1>9, <2>1 DEF ResumeDel, MayFail, AfterLoop, TypeOK
<1>10. ASSUME NEW c \in Conns, ResumeInsert(c) PROVE TypeOK'
    BY <1>10 DEF ResumeInsert, TypeOK
<1>11. ASSUME NEW c \in Conns, ResumeFinish(c) PROVE TypeOK'
    <2>1. pending[c] \in Session /\ pending[c].id \in SessionIds
        BY <1>11 DEF ResumeFinish, TypeOK, Session
    <2>2. session[c] # None => session[c].id \in SessionIds
        BY DEF TypeOK, Session
    <2> QED BY <1>11, <2>1, <2>2, ConstantsAssumption DEF ResumeFinish, MayFail, AfterLoop, TypeOK
<1>12. ASSUME NEW c \in Conns, CleanupStore(c) PROVE TypeOK'
    <2>1. session[c] \in Session /\ session[c].user \in Users
        BY <1>12 DEF CleanupStore, TypeOK, Session
    <2> QED BY <1>12, <2>1 DEF CleanupStore, MayFail, TypeOK
<1>13. ASSUME NEW c \in Conns, RemoveSession(c) PROVE TypeOK'
    BY <1>13 DEF RemoveSession, TypeOK
<1>14. ASSUME NEW c \in Conns, RemoveRetain(c) PROVE TypeOK'
    BY <1>14 DEF RemoveRetain, TypeOK
<1>15. ASSUME NEW c \in Conns, RemoveEntry(c) PROVE TypeOK'
    <2>1. session[c].user \in Users
        BY <1>15 DEF RemoveEntry, TypeOK, Session
    <2> QED BY <1>15, <2>1 DEF RemoveEntry, TypeOK
<1>16. ASSUME NEW c \in Conns, OfflineTimer(c) PROVE TypeOK'
    BY <1>16 DEF OfflineTimer, TypeOK
<1>17. ASSUME NEW c \in Conns, OfflineBroadcast(c) PROVE TypeOK'
    <2>1. session[c].user \in Users
        BY <1>17 DEF OfflineBroadcast, TypeOK, Session
    <2>2. announced' \in [Users -> {"online", "offline"}] /\ failures' \in Nat
        BY <1>17, <2>1, PublishTypes DEF OfflineBroadcast, TypeOK
    <2> QED BY <1>17, <2>2 DEF OfflineBroadcast, TypeOK
<1>18. ASSUME NEW s \in SessionIds, ExpireSession(s) PROVE TypeOK'
    BY <1>18 DEF ExpireSession, TypeOK
<1>19. CASE Crash
    BY <1>19 DEF Crash, TypeOK
<1> QED BY <1>1, <1>2, <1>3, <1>4, <1>5, <1>6, <1>7, <1>8, <1>9, <1>10, <1>11, <1>12,
           <1>13, <1>14, <1>15, <1>16, <1>17, <1>18, <1>19 DEF Next, Proceed, Request

(* The types hold in every reachable state: in particular a task reaches   *)
(* the cleanup of handle_connection with a session, and builds one exactly *)
(* while it identifies or resumes.                                         *)
THEOREM TypeCorrect == Spec => []TypeOK
BY InitTypeOK, NextTypeOK, PTL DEF Spec

-----------------------------------------------------------------------------
(* Whose session it is.                                                    *)

(* What BelongsToOwner says of a session stays true: an id, once drawn,    *)
(* keeps its origin.                                                       *)
OriginKept == \A s \in SessionIds : origin[s] # None => origin'[s] = origin[s]

(* No handler touches the record of who identified, but handle_identify    *)
(* for a fresh id.                                                         *)
LEMMA OriginKeptByNext == TypeOK /\ [Next]_vars => OriginKept
<1> SUFFICES ASSUME TypeOK, [Next]_vars
             PROVE  OriginKept
    OBVIOUS
<1>1. ASSUME NEW c \in Conns, NEW u \in Users, NEW s \in SessionIds, Identify(c, u, s)
      PROVE  OriginKept
    BY <1>1 DEF Identify, OriginKept, TypeOK
<1>2. ASSUME NEW c \in Conns, Proceed(c)
      PROVE  UNCHANGED origin
    BY <1>2 DEF Proceed, RegisterPush, IdentifyReady, ResumeDel, ResumeInsert, ResumeFinish,
                CleanupStore, RemoveSession, RemoveRetain, RemoveEntry, OfflineTimer, OfflineBroadcast, history
<1>3. ASSUME NEW c \in Conns, Connect(c) \/ Leave(c) \/ PresenceUpdate(c)
      PROVE  UNCHANGED origin
    BY <1>3 DEF Connect, Leave, PresenceUpdate, history
<1>4. ASSUME NEW c \in Conns, NEW u \in Users, NEW s \in SessionIds, ResumeGet(c, u, s)
      PROVE  UNCHANGED origin
    BY <1>4 DEF ResumeGet, history
<1>5. ASSUME NEW s \in SessionIds, ExpireSession(s) PROVE UNCHANGED origin
    BY <1>5 DEF ExpireSession, history
<1>6. CASE Crash
    BY <1>6 DEF Crash, history, OriginKept
<1>7. CASE UNCHANGED vars
    BY <1>7 DEF vars, history, OriginKept
<1> QED BY <1>1, <1>2, <1>3, <1>4, <1>5, <1>6, <1>7 DEF Next, Request, OriginKept

(* The parts of SessionsBelongToOwner, by the variable they speak of.      *)
RegistryOwned ==
    \A s \in SessionIds :
        sessions[s] # None => sessions[s].id = s /\ BelongsToOwner(sessions[s])
StoredOwned ==
    \A s \in SessionIds :
        stored[s] # None => origin[s] # None /\ stored[s] = origin[s].user
SessionOwned == \A c \in Conns : session[c] # None => BelongsToOwner(session[c])
PendingOwned == \A c \in Conns : pending[c] # None => BelongsToOwner(pending[c])
IndexOwned ==
    \A u \in Users : user_sessions[u] # None =>
        \A s \in user_sessions[u] : origin[s] # None /\ origin[s].user = u

(* SessionsBelongToOwner, taken apart by the state it speaks of.           *)
LEMMA OwnerParts ==
    /\ SessionsBelongToOwner =>
           RegistryOwned /\ StoredOwned /\ SessionOwned /\ PendingOwned /\ IndexOwned
    /\ (RegistryOwned /\ StoredOwned /\ SessionOwned /\ PendingOwned /\ IndexOwned)'
           => SessionsBelongToOwner'
BY DEF SessionsBelongToOwner, RegistryOwned, StoredOwned, SessionOwned, PendingOwned, IndexOwned,
       BelongsToOwner

(* A part whose variable a step leaves alone survives the step.            *)
LEMMA OwnershipKept ==
    ASSUME TypeOK, OriginKept
    PROVE  /\ RegistryOwned /\ UNCHANGED sessions => RegistryOwned'
           /\ StoredOwned /\ UNCHANGED stored => StoredOwned'
           /\ SessionOwned /\ UNCHANGED session => SessionOwned'
           /\ PendingOwned /\ UNCHANGED pending => PendingOwned'
           /\ IndexOwned /\ UNCHANGED user_sessions => IndexOwned'
<1>1. ASSUME NEW x \in Session, BelongsToOwner(x)
      PROVE  /\ x.id \in SessionIds
             /\ origin'[x.id] # None /\ x.user = origin'[x.id].user
    BY <1>1 DEF OriginKept, BelongsToOwner, Session
<1>2. RegistryOwned /\ UNCHANGED sessions => RegistryOwned'
    BY <1>1 DEF RegistryOwned, BelongsToOwner, TypeOK
<1>3. StoredOwned /\ UNCHANGED stored => StoredOwned'
    BY DEF StoredOwned, OriginKept
<1>4. SessionOwned /\ UNCHANGED session => SessionOwned'
    BY <1>1 DEF SessionOwned, BelongsToOwner, TypeOK
<1>5. PendingOwned /\ UNCHANGED pending => PendingOwned'
    BY <1>1 DEF PendingOwned, BelongsToOwner, TypeOK
<1>6. IndexOwned /\ UNCHANGED user_sessions => IndexOwned'
    <2> SUFFICES ASSUME IndexOwned, UNCHANGED user_sessions,
                        NEW u \in Users, user_sessions[u] # None, NEW s \in user_sessions[u]
                 PROVE  origin'[s] # None /\ origin'[s].user = u
        BY DEF IndexOwned
    <2>1. s \in SessionIds /\ origin[s] # None /\ origin[s].user = u
        BY DEF IndexOwned, TypeOK
    <2> QED BY <2>1 DEF OriginKept
<1> QED BY <1>2, <1>3, <1>4, <1>5, <1>6

(* Every handler and the cleanup keep a session with its user: Resume by   *)
(* the comparison of the stored user, register() and remove() by the       *)
(* session they are given.                                                 *)
LEMMA NextOwned == TypeOK /\ SessionsBelongToOwner /\ [Next]_vars => SessionsBelongToOwner'
<1> SUFFICES ASSUME TypeOK, SessionsBelongToOwner, [Next]_vars
             PROVE  SessionsBelongToOwner'
    OBVIOUS
<1> DEFINE Owned == RegistryOwned /\ StoredOwned /\ SessionOwned /\ PendingOwned /\ IndexOwned
<1>a. Owned
    BY OwnerParts
<1>b. SUFFICES Owned'
    BY OwnerParts
<1>c. OriginKept
    BY OriginKeptByNext
<1>d. /\ UNCHANGED sessions => RegistryOwned'
      /\ UNCHANGED stored => StoredOwned'
      /\ UNCHANGED session => SessionOwned'
      /\ UNCHANGED pending => PendingOwned'
      /\ UNCHANGED user_sessions => IndexOwned'
    BY <1>a, <1>c, OwnershipKept
<1>e. ASSUME NEW c \in Conns, pending[c] # None
      PROVE  pending[c] \in Session /\ BelongsToOwner(pending[c])
    BY <1>a, <1>e DEF PendingOwned, BelongsToOwner, TypeOK
<1> USE DEF registry, history, counters
<1>1. CASE UNCHANGED vars
    BY <1>d, <1>1 DEF vars
<1>2. ASSUME NEW c \in Conns, Connect(c) \/ Leave(c) \/ PresenceUpdate(c) PROVE Owned'
    BY <1>d, <1>2 DEF Connect, Leave, PresenceUpdate
<1>3. ASSUME NEW c \in Conns, NEW u \in Users, NEW s \in SessionIds, Identify(c, u, s)
      PROVE  Owned'
    <2> DEFINE new == [id |-> s, user |-> u, conn |-> c]
    <2>1. /\ new \in Session /\ new # None /\ new.id = s /\ new.user = u
          /\ origin'[s] = new /\ origin'[s] # None
        BY <1>3, SessionIsNotNone DEF Identify, TypeOK
    <2> HIDE DEF new
    <2>2. /\ sessions' = [sessions EXCEPT ![s] = new]
          /\ pending' = [pending EXCEPT ![c] = new]
          /\ UNCHANGED <<session, user_sessions, stored>>
        BY <1>3 DEF Identify, new
    <2>3. \A x \in Session : BelongsToOwner(x) => BelongsToOwner(x)'
        BY <1>c DEF BelongsToOwner, OriginKept, Session
    <2>4. RegistryOwned'
        BY <1>a, <2>1, <2>2, <2>3 DEF RegistryOwned, BelongsToOwner, TypeOK
    <2>5. PendingOwned'
        BY <1>a, <2>1, <2>2, <2>3 DEF PendingOwned, BelongsToOwner, TypeOK
    <2> QED BY <1>d, <2>2, <2>4, <2>5
<1>4. ASSUME NEW c \in Conns, RegisterPush(c) PROVE Owned'
    <2>1. pending[c] # None
        BY <1>4 DEF RegisterPush, Registering, TypeOK
    <2>2. UNCHANGED <<sessions, stored, session, pending, origin>>
        BY <1>4 DEF RegisterPush
    <2>3. IndexOwned'
        BY <1>a, <1>4, <1>e, <2>1, <2>2
           DEF RegisterPush, PushId, IndexOwned, BelongsToOwner, Session, TypeOK
    <2> QED BY <1>d, <2>2, <2>3
<1>5. ASSUME NEW c \in Conns, IdentifyReady(c) PROVE Owned'
    <2>1. pending[c] # None
        BY <1>5 DEF IdentifyReady, Registering, TypeOK
    <2>2. /\ UNCHANGED <<sessions, user_sessions, stored, origin>>
          /\ session' = [session EXCEPT ![c] = pending[c]]
          /\ pending' = [pending EXCEPT ![c] = None]
        BY <1>5 DEF IdentifyReady
    <2>3. SessionOwned' /\ PendingOwned'
        BY <1>a, <1>e, <2>1, <2>2 DEF SessionOwned, PendingOwned, BelongsToOwner, TypeOK
    <2> QED BY <1>d, <2>2, <2>3
<1>6. ASSUME NEW c \in Conns, NEW u \in Users, NEW s \in SessionIds, ResumeGet(c, u, s)
      PROVE  Owned'
    <2>1. UNCHANGED <<sessions, user_sessions, stored, session, origin>>
        BY <1>6 DEF ResumeGet
    <2>2. origin[s] # None /\ u = origin[s].user
        BY <1>a, <1>6, SessionIsNotNone DEF ResumeGet, StoredOwned
    <2>3. PendingOwned'
        BY <1>a, <1>6, <2>1, <2>2 DEF ResumeGet, PendingOwned, BelongsToOwner, TypeOK
    <2> QED BY <1>d, <2>1, <2>3
<1>7. ASSUME NEW c \in Conns, ResumeDel(c) PROVE Owned'
    <2>1. UNCHANGED <<sessions, user_sessions, session, origin>>
        BY <1>7 DEF ResumeDel
    <2>2. pending' = pending \/ pending' = [pending EXCEPT ![c] = None]
        BY <1>7 DEF ResumeDel
    <2>3. stored' = stored \/ stored' = [stored EXCEPT ![pending[c].id] = None]
        BY <1>7 DEF ResumeDel
    <2>4. PendingOwned'
        BY <1>a, <2>1, <2>2 DEF PendingOwned, BelongsToOwner, TypeOK
    <2>5. StoredOwned'
        BY <1>a, <2>1, <2>3 DEF StoredOwned, TypeOK
    <2> QED BY <1>d, <2>1, <2>4, <2>5
<1>8. ASSUME NEW c \in Conns, ResumeInsert(c) PROVE Owned'
    <2>1. pending[c] # None
        BY <1>8 DEF ResumeInsert, Registering, TypeOK
    <2>2. /\ UNCHANGED <<user_sessions, stored, session, pending, origin>>
          /\ sessions' = [sessions EXCEPT ![pending[c].id] = pending[c]]
        BY <1>8 DEF ResumeInsert
    <2>3. RegistryOwned'
        BY <1>a, <1>e, <2>1, <2>2 DEF RegistryOwned, BelongsToOwner, Session, TypeOK
    <2> QED BY <1>d, <2>2, <2>3
<1>9. ASSUME NEW c \in Conns, ResumeFinish(c) PROVE Owned'
    <2>1. pending[c] # None
        BY <1>9 DEF ResumeFinish, Registering, TypeOK
    <2>2. /\ UNCHANGED <<sessions, user_sessions, stored, origin>>
          /\ session' = session \/ session' = [session EXCEPT ![c] = pending[c]]
          /\ pending' = [pending EXCEPT ![c] = None]
        BY <1>9 DEF ResumeFinish
    <2>3. SessionOwned' /\ PendingOwned'
        BY <1>a, <1>e, <2>1, <2>2 DEF SessionOwned, PendingOwned, BelongsToOwner, TypeOK
    <2> QED BY <1>d, <2>2, <2>3
<1>10. ASSUME NEW c \in Conns, CleanupStore(c) PROVE Owned'
    <2>1. session[c] \in Session /\ session[c] # None
        BY <1>10 DEF CleanupStore, Cleaning, TypeOK
    <2>2. /\ UNCHANGED <<sessions, user_sessions, session, pending, origin>>
          /\ stored' = stored \/ stored' = [stored EXCEPT ![session[c].id] = session[c].user]
        BY <1>10 DEF CleanupStore
    <2>3. StoredOwned'
        BY <1>a, <2>1, <2>2 DEF StoredOwned, SessionOwned, BelongsToOwner, Session, TypeOK
    <2> QED BY <1>d, <2>2, <2>3
<1>11. ASSUME NEW c \in Conns, RemoveSession(c) PROVE Owned'
    <2>1. /\ UNCHANGED <<user_sessions, stored, session, pending, origin>>
          /\ sessions' = [sessions EXCEPT ![session[c].id] = None]
        BY <1>11 DEF RemoveSession
    <2>2. RegistryOwned'
        BY <1>a, <2>1 DEF RegistryOwned, BelongsToOwner, TypeOK
    <2> QED BY <1>d, <2>1, <2>2
<1>12. ASSUME NEW c \in Conns, RemoveRetain(c) PROVE Owned'
    <2>1. UNCHANGED <<sessions, stored, session, pending, origin>>
        BY <1>12 DEF RemoveRetain
    <2>2. IndexOwned'
        <3> SUFFICES ASSUME NEW u \in Users, user_sessions'[u] # None, NEW s \in user_sessions'[u]
                     PROVE  origin[s] # None /\ origin[s].user = u
            BY <2>1 DEF IndexOwned
        <3>1. user_sessions[u] # None /\ s \in user_sessions[u]
            BY <1>12 DEF RemoveRetain, TypeOK
        <3> QED BY <1>a, <3>1 DEF IndexOwned
    <2> QED BY <1>d, <2>1, <2>2
<1>13. ASSUME NEW c \in Conns, RemoveEntry(c) PROVE Owned'
    <2>1. /\ UNCHANGED <<sessions, stored, session, pending, origin>>
          /\ user_sessions' = [user_sessions EXCEPT ![session[c].user] = None]
        BY <1>13 DEF RemoveEntry
    <2>2. IndexOwned'
        BY <1>a, <2>1 DEF IndexOwned, TypeOK
    <2> QED BY <1>d, <2>1, <2>2
<1>14. ASSUME NEW c \in Conns, OfflineTimer(c) \/ OfflineBroadcast(c) PROVE Owned'
    <2>1. /\ UNCHANGED <<sessions, user_sessions, stored, pending, origin>>
          /\ session' = session \/ session' = [session EXCEPT ![c] = None]
        BY <1>14 DEF OfflineTimer, OfflineBroadcast
    <2>2. SessionOwned'
        BY <1>a, <2>1 DEF SessionOwned, BelongsToOwner, TypeOK
    <2> QED BY <1>d, <2>1, <2>2
<1>15. ASSUME NEW s \in SessionIds, ExpireSession(s) PROVE Owned'
    <2>1. /\ UNCHANGED <<sessions, user_sessions, session, pending, origin>>
          /\ stored' = [stored EXCEPT ![s] = None]
        BY <1>15 DEF ExpireSession
    <2>2. StoredOwned'
        BY <1>a, <2>1 DEF StoredOwned, TypeOK
    <2> QED BY <1>d, <2>1, <2>2
<1>16. CASE Crash
    <2>1. UNCHANGED <<stored, origin>>
        BY <1>16 DEF Crash
    <2>2. RegistryOwned' /\ SessionOwned' /\ PendingOwned' /\ IndexOwned'
        BY <1>16 DEF Crash, RegistryOwned, SessionOwned, PendingOwned, IndexOwned
    <2> QED BY <1>d, <2>1, <2>2
<1> QED BY <1>1, <1>2, <1>3, <1>4, <1>5, <1>6, <1>7, <1>8, <1>9, <1>10, <1>11, <1>12,
           <1>13, <1>14, <1>15, <1>16 DEF Next, Proceed, Request

(* No session changes hands, whatever ids clients present to Resume and    *)
(* however their tasks interleave: what the registry, the index, Redis and *)
(* the tasks hold under an id is the session of the user who identified.   *)
THEOREM OwnershipHolds == Spec => []SessionsBelongToOwner
<1>1. Init => SessionsBelongToOwner
    BY DEF Init, SessionsBelongToOwner
<1> QED BY <1>1, NextOwned, TypeCorrect, PTL DEF Spec

-----------------------------------------------------------------------------
(* Until its own connection cleans up.                                     *)

Closed == {"remove", "retain", "erase", "timer", "offline", "gone"}

(* What ExclusiveUntilCleanup needs besides: tasks hold sessions they have *)
(* built, an id has an origin only once its connection has started, and    *)
(* only ids that have one are resumed.                                     *)
Anchored ==
    /\ \A c \in Conns : session[c] # None => session[c].conn = c
    /\ \A c \in Conns : pending[c] # None => pending[c].conn = c
    /\ \A s \in SessionIds : origin[s] # None => pc[origin[s].conn] # "new"
    /\ \A s \in resumed : origin[s] # None

(* A task past its resume key never comes back into the loop.              *)
LEMMA ClosedStays ==
    ASSUME TypeOK, [Next]_vars, NEW d \in Conns, pc[d] \in Closed
    PROVE  pc'[d] \in Closed
<1> USE DEF Goto, Closed
<1>1. CASE UNCHANGED vars
    BY <1>1 DEF vars
<1>2. ASSUME NEW c \in Conns, Proceed(c) PROVE pc'[d] \in Closed
    BY <1>2 DEF Proceed, RegisterPush, IdentifyReady, ResumeDel, ResumeInsert, ResumeFinish,
                CleanupStore, RemoveSession, RemoveRetain, RemoveEntry, OfflineTimer, OfflineBroadcast, TypeOK
<1>3. ASSUME NEW c \in Conns, Connect(c) \/ Leave(c) \/ PresenceUpdate(c)
      PROVE  pc'[d] \in Closed
    BY <1>3 DEF Connect, Leave, PresenceUpdate, TypeOK
<1>4. ASSUME NEW c \in Conns, NEW u \in Users, NEW s \in SessionIds,
             Identify(c, u, s) \/ ResumeGet(c, u, s)
      PROVE  pc'[d] \in Closed
    BY <1>4 DEF Identify, ResumeGet, TypeOK
<1>5. ASSUME NEW s \in SessionIds, ExpireSession(s) PROVE pc'[d] \in Closed
    BY <1>5 DEF ExpireSession
<1>6. CASE Crash
    BY <1>6 DEF Crash
<1> QED BY <1>1, <1>2, <1>3, <1>4, <1>5, <1>6 DEF Next, Request

(* An id whose session nobody made is nowhere; a connection that made one  *)
(* has started.                                                            *)
LEMMA NextAnchored ==
    TypeOK /\ SessionsBelongToOwner /\ Anchored /\ [Next]_vars => Anchored'
<1> SUFFICES ASSUME TypeOK, SessionsBelongToOwner, Anchored, [Next]_vars
             PROVE  Anchored'
    OBVIOUS
<1> USE DEF Goto, registry, history, counters
<1>1. CASE UNCHANGED vars
    BY <1>1 DEF vars, Anchored
<1>2. ASSUME NEW c \in Conns, Connect(c) \/ Leave(c) \/ PresenceUpdate(c) PROVE Anchored'
    <2>1. UNCHANGED <<origin, resumed, session, pending>>
        BY <1>2 DEF Connect, Leave, PresenceUpdate
    <2>2. pc' = pc \/ \E label : label # "new" /\ pc' = [pc EXCEPT ![c] = label]
        BY <1>2 DEF Connect, Leave, PresenceUpdate, AfterLoop
    <2> QED BY <2>1, <2>2 DEF Anchored, Session, TypeOK
<1>3. ASSUME NEW c \in Conns, NEW u \in Users, NEW s \in SessionIds, Identify(c, u, s)
      PROVE  Anchored'
    BY <1>3, SessionIsNotNone DEF Identify, Anchored, Session, TypeOK
<1>4. ASSUME NEW c \in Conns, NEW u \in Users, NEW s \in SessionIds, ResumeGet(c, u, s)
      PROVE  Anchored'
    BY <1>4, SessionIsNotNone DEF ResumeGet, Anchored, Session, TypeOK
<1>5. ASSUME NEW c \in Conns, IdentifyReady(c) \/ ResumeFinish(c) PROVE Anchored'
    <2>1. /\ UNCHANGED <<origin, resumed>>
          /\ session' = session \/ session' = [session EXCEPT ![c] = pending[c]]
          /\ pending' = [pending EXCEPT ![c] = None]
          /\ pc' = [pc EXCEPT ![c] = "loop"] \/ pc' = [pc EXCEPT ![c] = AfterLoop(c)]
        BY <1>5 DEF IdentifyReady, ResumeFinish
    <2>2. AfterLoop(c) # "new"
        BY DEF AfterLoop
    <2>3. (\A s \in SessionIds : origin[s] # None => pc[origin[s].conn] # "new")'
        BY <2>1, <2>2 DEF Anchored, Session, TypeOK
    <2> QED BY <2>1, <2>3 DEF Anchored, TypeOK
<1>6. ASSUME NEW c \in Conns, ResumeDel(c) PROVE Anchored'
    <2>1. /\ UNCHANGED <<origin, session>>
          /\ pending' = pending \/ pending' = [pending EXCEPT ![c] = None]
          /\ resumed' \subseteq resumed \cup {pending[c].id}
          /\ pc' = [pc EXCEPT ![c] = "resume_insert"] \/ pc' = [pc EXCEPT ![c] = AfterLoop(c)]
        BY <1>6 DEF ResumeDel
    <2>2. AfterLoop(c) # "new"
        BY DEF AfterLoop
    <2>3. (\A s \in SessionIds : origin[s] # None => pc[origin[s].conn] # "new")'
        BY <2>1, <2>2 DEF Anchored, Session, TypeOK
    <2>4. pending[c] # None
        BY <1>6 DEF ResumeDel, Registering, TypeOK
    <2>5. origin[pending[c].id] # None
        BY <2>4 DEF SessionsBelongToOwner, BelongsToOwner
    <2> QED BY <2>1, <2>3, <2>5 DEF Anchored, TypeOK
<1>7. ASSUME NEW c \in Conns, RegisterPush(c) \/ ResumeInsert(c) \/ CleanupStore(c)
                              \/ RemoveSession(c) \/ RemoveRetain(c) \/ RemoveEntry(c)
      PROVE  Anchored'
    <2>1. UNCHANGED <<origin, session, pending, resumed>>
        BY <1>7 DEF RegisterPush, ResumeInsert, CleanupStore, RemoveSession, RemoveRetain, RemoveEntry
    <2>2. PICK label : label # "new" /\ pc' = [pc EXCEPT ![c] = label]
        BY <1>7 DEF RegisterPush, ResumeInsert, CleanupStore, RemoveSession, RemoveRetain, RemoveEntry
    <2> QED BY <2>1, <2>2 DEF Anchored, Session, TypeOK
<1>8. ASSUME NEW c \in Conns, OfflineTimer(c) \/ OfflineBroadcast(c) PROVE Anchored'
    BY <1>8 DEF OfflineTimer, OfflineBroadcast, Anchored, Session, TypeOK
<1>9. ASSUME NEW s \in SessionIds, ExpireSession(s) PROVE Anchored'
    BY <1>9 DEF ExpireSession, Anchored
<1>10. CASE Crash
    <2>1. UNCHANGED <<origin, resumed>> /\ \A c \in Conns : pc[c] # "new" => pc'[c] # "new"
        BY <1>10 DEF Crash
    <2>2. \A c \in Conns : session'[c] = None /\ pending'[c] = None
        BY <1>10 DEF Crash
    <2>3. \A s \in SessionIds : origin[s] # None => origin[s].conn \in Conns
        BY DEF Session, TypeOK
    <2> QED BY <2>1, <2>2, <2>3 DEF Anchored
<1> QED BY <1>1, <1>2, <1>3, <1>4, <1>5, <1>6, <1>7, <1>8, <1>9, <1>10
        DEF Next, Proceed, Request

Sheltered(s) == origin[s] # None /\ pc[origin[s].conn] \notin Closed

Exclusive(s) ==
    /\ sessions[s] = origin[s]
    /\ stored[s] = None
    /\ s \notin resumed
    /\ \A d \in Conns :
          /\ session[d] # None /\ session[d].id = s => session[d] = origin[s]
          /\ pending[d] # None /\ pending[d].id = s =>
                 pending[d] = origin[s] /\ pc[d] \in {"identify_push", "identify_ready"}

(* ExclusiveUntilCleanup, said of one session at a time.                   *)
LEMMA ExclusiveParts ==
    /\ ExclusiveUntilCleanup => \A s \in SessionIds : Sheltered(s) => Exclusive(s)
    /\ (\A s \in SessionIds : Sheltered(s) => Exclusive(s))' => ExclusiveUntilCleanup'
BY DEF ExclusiveUntilCleanup, Sheltered, Exclusive, Closed

(* A task in the middle of Resume, or past its resume key, works on a      *)
(* session that is no longer sheltered.                                    *)
LEMMA WorksUnsheltered ==
    ASSUME TypeOK, Anchored, NEW s \in SessionIds, Sheltered(s), Exclusive(s), NEW c \in Conns
    PROVE  /\ pc[c] \in {"resume_del", "resume_insert", "resume_push", "resume_finish"}
                 => pending[c] # None /\ pending[c].id # s
           /\ pc[c] \in Closed /\ session[c] # None => session[c].id # s
           /\ session[c] # None /\ session[c].id = s => origin[s].conn = c
<1>1. pc[c] \in {"resume_del", "resume_insert", "resume_push", "resume_finish"}
          => pending[c] # None /\ pending[c].id # s
    BY DEF Exclusive, Registering, TypeOK
<1>2. session[c] # None /\ session[c].id = s => origin[s].conn = c
    BY DEF Exclusive, Anchored
<1>3. pc[c] \in Closed /\ session[c] # None => session[c].id # s
    BY <1>2 DEF Sheltered
<1> QED BY <1>1, <1>2, <1>3

(* Every step of handle_connection leaves a session with the connection    *)
(* that identified, until that connection writes the resume key.           *)
LEMMA NextExclusive ==
    TypeOK /\ SessionsBelongToOwner /\ Anchored /\ ExclusiveUntilCleanup /\ [Next]_vars
        => ExclusiveUntilCleanup'
<1> SUFFICES ASSUME TypeOK, SessionsBelongToOwner, Anchored, ExclusiveUntilCleanup, [Next]_vars,
                    NEW s \in SessionIds, Sheltered(s)'
             PROVE  Exclusive(s)'
    BY ExclusiveParts
<1> USE DEF Goto, registry, history, counters
<1>a. Sheltered(s) => Exclusive(s)
    BY ExclusiveParts
<1>b. UNCHANGED origin => Sheltered(s)
    BY ClosedStays DEF Sheltered, Session, TypeOK
<1>1. CASE UNCHANGED vars
    BY <1>a, <1>b, <1>1 DEF vars, Exclusive
<1>2. ASSUME NEW c \in Conns, Connect(c) \/ Leave(c) \/ PresenceUpdate(c)
      PROVE  Exclusive(s)'
    <2>1. UNCHANGED <<origin, sessions, stored, resumed, session, pending>> /\ Exclusive(s)
        BY <1>a, <1>b, <1>2 DEF Connect, Leave, PresenceUpdate
    <2>2. pc[c] \notin Registering
        BY <1>2 DEF Connect, Leave, PresenceUpdate, Registering
    <2>3. pending[c] = None
        BY <2>2 DEF TypeOK
    <2>4. \A d \in Conns : d # c => pc'[d] = pc[d]
        BY <1>2 DEF Connect, Leave, PresenceUpdate, TypeOK
    <2> QED BY <2>1, <2>3, <2>4 DEF Exclusive
<1>3. ASSUME NEW c \in Conns, NEW u \in Users, NEW x \in SessionIds, Identify(c, u, x)
      PROVE  Exclusive(s)'
    <2> DEFINE new == [id |-> x, user |-> u, conn |-> c]
    <2>1. new \in Session /\ new # None /\ new.id = x /\ new.conn = c
        BY SessionIsNotNone
    <2> HIDE DEF new
    <2>2. /\ sessions' = [sessions EXCEPT ![x] = new]
          /\ pending' = [pending EXCEPT ![c] = new]
          /\ origin' = [origin EXCEPT ![x] = new]
          /\ pc' = [pc EXCEPT ![c] = "identify_push"]
          /\ UNCHANGED <<session, stored, resumed>>
          /\ origin[x] = None /\ pc[c] = "loop"
        BY <1>3 DEF Identify, new
    <2>3. CASE s = x
        <3>1. stored[s] = None /\ s \notin resumed
            BY <2>2, <2>3 DEF SessionsBelongToOwner, Anchored
        <3>2. \A d \in Conns : /\ session[d] # None => session[d].id # s
                               /\ pending[d] # None => pending[d].id # s
            BY <2>2, <2>3 DEF SessionsBelongToOwner, BelongsToOwner
        <3> QED BY <2>1, <2>2, <2>3, <3>1, <3>2 DEF Exclusive, TypeOK
    <2>4. CASE s # x
        <3>1. Sheltered(s)
            BY <2>2, <2>4, ClosedStays DEF Sheltered, Session, TypeOK
        <3>2. Exclusive(s)
            BY <1>a, <3>1
        <3> QED BY <2>1, <2>2, <2>4, <3>2 DEF Exclusive, TypeOK
    <2> QED BY <2>3, <2>4
<1>4. ASSUME NEW c \in Conns, RegisterPush(c) PROVE Exclusive(s)'
    <2>1. UNCHANGED <<origin, sessions, stored, resumed, session, pending>>
        BY <1>4 DEF RegisterPush
    <2>2. Sheltered(s) /\ Exclusive(s)
        BY <1>a, <1>b, <2>1
    <2>3. \/ pc[c] = "resume_push" /\ pc' = [pc EXCEPT ![c] = "resume_finish"]
          \/ pc' = [pc EXCEPT ![c] = "identify_ready"]
        BY <1>4 DEF RegisterPush
    <2> QED BY <2>1, <2>2, <2>3, WorksUnsheltered DEF Exclusive, TypeOK
<1>5. ASSUME NEW c \in Conns, IdentifyReady(c) PROVE Exclusive(s)'
    <2>1. /\ UNCHANGED <<origin, sessions, stored, resumed>>
          /\ session' = [session EXCEPT ![c] = pending[c]]
          /\ pending' = [pending EXCEPT ![c] = None]
          /\ pc' = [pc EXCEPT ![c] = "loop"]
        BY <1>5 DEF IdentifyReady
    <2> QED BY <1>a, <1>b, <2>1 DEF Exclusive, TypeOK
<1>6. ASSUME NEW c \in Conns, NEW u \in Users, NEW x \in SessionIds, ResumeGet(c, u, x)
      PROVE  Exclusive(s)'
    <2>1. /\ UNCHANGED <<origin, sessions, stored, resumed, session>>
          /\ pending' = [pending EXCEPT ![c] = [id |-> x, user |-> u, conn |-> c]]
          /\ pc' = [pc EXCEPT ![c] = "resume_del"]
          /\ stored[x] # None
        BY <1>6, SessionIsNotNone DEF ResumeGet
    <2>2. Exclusive(s) /\ x # s
        BY <1>a, <1>b, <2>1 DEF Exclusive
    <2> QED BY <2>1, <2>2 DEF Exclusive, TypeOK
<1>7. ASSUME NEW c \in Conns, ResumeDel(c) PROVE Exclusive(s)'
    <2>1. /\ UNCHANGED <<origin, sessions, session>>
          /\ stored' = stored \/ stored' = [stored EXCEPT ![pending[c].id] = None]
          /\ resumed' \subseteq resumed \cup {pending[c].id}
          /\ \/ pending' = pending
             \/ pending' = [pending EXCEPT ![c] = None]
          /\ pc[c] = "resume_del" /\ \A d \in Conns : d # c => pc'[d] = pc[d]
        BY <1>7 DEF ResumeDel, TypeOK
    <2>2. Exclusive(s) /\ pending[c].id # s
        BY <1>a, <1>b, <2>1, WorksUnsheltered
    <2> QED BY <2>1, <2>2 DEF Exclusive, TypeOK
<1>8. ASSUME NEW c \in Conns, ResumeInsert(c) PROVE Exclusive(s)'
    <2>1. /\ UNCHANGED <<origin, session, pending, stored, resumed>>
          /\ sessions' = [sessions EXCEPT ![pending[c].id] = pending[c]]
          /\ pc[c] = "resume_insert" /\ \A d \in Conns : d # c => pc'[d] = pc[d]
        BY <1>8 DEF ResumeInsert, TypeOK
    <2>2. Exclusive(s) /\ pending[c].id # s
        BY <1>a, <1>b, <2>1, WorksUnsheltered
    <2> QED BY <2>1, <2>2 DEF Exclusive, TypeOK
<1>9. ASSUME NEW c \in Conns, ResumeFinish(c) PROVE Exclusive(s)'
    <2>1. /\ UNCHANGED <<origin, sessions, stored, resumed>>
          /\ session' = session \/ session' = [session EXCEPT ![c] = pending[c]]
          /\ pending' = [pending EXCEPT ![c] = None]
          /\ pc[c] = "resume_finish" /\ \A d \in Conns : d # c => pc'[d] = pc[d]
        BY <1>9 DEF ResumeFinish, TypeOK
    <2>2. Exclusive(s) /\ pending[c].id # s
        BY <1>a, <1>b, <2>1, WorksUnsheltered
    <2> QED BY <2>1, <2>2 DEF Exclusive, TypeOK
<1>10. ASSUME NEW c \in Conns, CleanupStore(c) PROVE Exclusive(s)'
    <2>1. /\ UNCHANGED <<origin, sessions, resumed, session, pending>>
          /\ stored' = stored \/ stored' = [stored EXCEPT ![session[c].id] = session[c].user]
          /\ pc[c] = "store" /\ pc' = [pc EXCEPT ![c] = "remove"]
        BY <1>10 DEF CleanupStore
    <2>2. Sheltered(s) /\ Exclusive(s) /\ pending[c] = None /\ session[c] # None
        BY <1>a, <1>b, <2>1 DEF Registering, Cleaning, TypeOK
    <2>3. origin[s].conn # c
        BY <2>1, <2>2 DEF Sheltered, Closed, TypeOK
    <2>4. session[c].id # s
        BY <2>2, <2>3, WorksUnsheltered
    <2> QED BY <2>1, <2>2, <2>4 DEF Exclusive, TypeOK
<1>11. ASSUME NEW c \in Conns, RemoveSession(c) PROVE Exclusive(s)'
    <2>1. /\ UNCHANGED <<origin, stored, resumed, session, pending>>
          /\ sessions' = [sessions EXCEPT ![session[c].id] = None]
          /\ pc[c] = "remove" /\ \A d \in Conns : d # c => pc'[d] = pc[d]
        BY <1>11 DEF RemoveSession, TypeOK
    <2>2. Sheltered(s) /\ Exclusive(s) /\ pending[c] = None /\ session[c] # None
        BY <1>a, <1>b, <2>1 DEF Registering, Cleaning, TypeOK
    <2>3. session[c].id # s
        BY <2>1, <2>2, WorksUnsheltered DEF Closed
    <2> QED BY <2>1, <2>2, <2>3 DEF Exclusive, TypeOK
<1>12. ASSUME NEW c \in Conns, RemoveRetain(c) \/ RemoveEntry(c) \/ OfflineTimer(c) \/ OfflineBroadcast(c)
       PROVE  Exclusive(s)'
    <2>1. /\ UNCHANGED <<origin, sessions, stored, resumed, pending>>
          /\ session' = session \/ session' = [session EXCEPT ![c] = None]
          /\ pc[c] \in Cleaning /\ \A d \in Conns : d # c => pc'[d] = pc[d]
        BY <1>12 DEF RemoveRetain, RemoveEntry, OfflineTimer, OfflineBroadcast, Cleaning, TypeOK
    <2>2. Exclusive(s) /\ pending[c] = None
        BY <1>a, <1>b, <2>1 DEF Registering, Cleaning, TypeOK
    <2> QED BY <2>1, <2>2 DEF Exclusive, TypeOK
<1>13. ASSUME NEW x \in SessionIds, ExpireSession(x) PROVE Exclusive(s)'
    <2>1. /\ UNCHANGED <<origin, pc, sessions, resumed, session, pending>>
          /\ stored' = [stored EXCEPT ![x] = None]
        BY <1>13 DEF ExpireSession
    <2> QED BY <1>a, <1>b, <2>1 DEF Exclusive, TypeOK
<1>14. CASE Crash
    <2>1. UNCHANGED origin /\ \A c \in Conns : pc'[c] = "new" \/ pc'[c] = "gone"
        BY <1>14 DEF Crash
    <2>2. origin[s] # None /\ origin[s].conn \in Conns
        BY <2>1 DEF Sheltered, Session, TypeOK
    <2>3. pc[origin[s].conn] # "new"
        BY <2>2 DEF Anchored
    <2>4. pc'[origin[s].conn] = "gone"
        BY <1>14, <2>2, <2>3 DEF Crash
    <2> QED BY <2>1, <2>4 DEF Sheltered, Closed
<1> QED BY <1>1, <1>2, <1>3, <1>4, <1>5, <1>6, <1>7, <1>8, <1>9, <1>10, <1>11, <1>12,
           <1>13, <1>14 DEF Next, Proceed, Request

(* A session belongs to the connection that identified, alone, until that  *)
(* connection has written the key that makes it resumable; up to then it   *)
(* is in the registry (session.rs, "Manages all active gateway sessions"). *)
THEOREM ExclusiveHolds == Spec => []ExclusiveUntilCleanup
<1>1. Init => Anchored /\ ExclusiveUntilCleanup
    BY DEF Init, Anchored, ExclusiveUntilCleanup
<1> QED BY <1>1, NextAnchored, NextExclusive, TypeCorrect, OwnershipHolds, PTL DEF Spec

-----------------------------------------------------------------------------
(* What the registry keeps.                                                *)

Identifying == {"identify_push", "identify_ready"}
Inserted    == Identifying \cup {"resume_push", "resume_finish"}

(* A task past sessions.insert holds what it inserted, until it leaves it  *)
(* abandoned or comes to sessions.remove.                                  *)
HoldsEntry(c, x) ==
    \/ pending[c] = x /\ pc[c] \in Inserted
    \/ session[c] = x /\ pc[c] \notin Departed

EntriesHeld ==
    \A s \in SessionIds : sessions[s] # None =>
        s \in abandoned \/ \E c \in Conns : HoldsEntry(c, sessions[s])

(* What a task that registers knows of its id.                             *)
IdsKnown ==
    \A c \in Conns :
        /\ pc[c] \in {"resume_insert", "resume_push", "resume_finish"} => pending[c].id \in resumed
        /\ pc[c] \in Identifying =>
              session[c] = None /\ pending[c] # None /\ pending[c] = origin[pending[c].id]

(* The index of a user lists the registered, and those being removed.      *)
IndexAlive ==
    \A u \in Users : user_sessions[u] # None =>
        \A s \in user_sessions[u] \ resumed :
            \/ sessions[s] = origin[s]
            \/ \E c \in Conns : pc[c] = "retain" /\ session[c].id = s

(* A session a connection has is one it identified or one it resumed.      *)
SessionsKnown ==
    \A c \in Conns : session[c] # None =>
        session[c].id \in resumed \/ session[c] = origin[session[c].id]

Indexed(x) == x.id \in resumed \cup erased \/ Listed(x)

(* Whom register() has indexed stays so, until his task has removed it.    *)
HeldIndexed ==
    \A c \in Conns :
        /\ pc[c] = "identify_ready" => Indexed(pending[c])
        /\ session[c] # None /\ pc[c] \notin Departed => Indexed(session[c])

(* The holder that is inductive is a holder.                               *)
LEMMA EntriesParts == EntriesHeld /\ IndexAlive /\ HeldIndexed => RegistryMatchesTasks
<1> SUFFICES ASSUME EntriesHeld, IndexAlive, HeldIndexed
             PROVE  RegistryMatchesTasks
    OBVIOUS
<1>1. \A s \in SessionIds : sessions[s] # None =>
          s \in abandoned \/ \E c \in Conns : Holds(c, sessions[s])
    BY DEF EntriesHeld, HoldsEntry, Holds, Departed
<1>2. \A c \in Conns : session[c] # None /\ pc[c] \notin Departed =>
          session[c].id \in resumed \cup erased \/ Listed(session[c])
    BY DEF HeldIndexed, Indexed
<1> QED BY <1>1, <1>2 DEF IndexAlive, RegistryMatchesTasks

(* A step of one task that leaves the registry alone, and of which the     *)
(* holder either stays one or abandons what it held.                       *)
LEMMA QuietForEntries ==
    ASSUME TypeOK, EntriesHeld, NEW c \in Conns, UNCHANGED sessions,
           abandoned \subseteq abandoned',
           \A d \in Conns \ {c} : UNCHANGED <<pc[d], pending[d], session[d]>>,
           \A s \in SessionIds : sessions[s] # None /\ s \notin abandoned' /\ HoldsEntry(c, sessions[s])
              => HoldsEntry(c, sessions[s])'
    PROVE  EntriesHeld'
<1> SUFFICES ASSUME NEW s \in SessionIds, sessions[s] # None, s \notin abandoned'
             PROVE  \E d \in Conns : HoldsEntry(d, sessions[s])'
    BY DEF EntriesHeld
<1>1. PICK d \in Conns : HoldsEntry(d, sessions[s])
    BY DEF EntriesHeld
<1>2. HoldsEntry(d, sessions[s])'
    BY <1>1 DEF HoldsEntry
<1> QED BY <1>2

(* Every step keeps its entry held: Identify and Resume hold what they     *)
(* insert, and only the cleanup of the holder lets go of it, after removal.*)
LEMMA NextEntriesHeld ==
    TypeOK /\ SessionsBelongToOwner /\ IdsKnown /\ EntriesHeld /\ [Next]_vars => EntriesHeld'
<1> SUFFICES ASSUME TypeOK, SessionsBelongToOwner, IdsKnown, EntriesHeld, [Next]_vars
             PROVE  EntriesHeld'
    OBVIOUS
<1> USE DEF Goto, registry, history, counters
<1>a. \A s \in SessionIds : sessions[s] # None => sessions[s].id = s
    BY DEF SessionsBelongToOwner
<1>1. CASE UNCHANGED vars
    BY <1>1 DEF vars, EntriesHeld, HoldsEntry
<1>2. ASSUME NEW c \in Conns, Connect(c) \/ Leave(c) \/ PresenceUpdate(c)
      PROVE  EntriesHeld'
    <2>1. /\ UNCHANGED <<sessions, abandoned, session, pending>>
          /\ \A d \in Conns \ {c} : UNCHANGED <<pc[d], pending[d], session[d]>>
        BY <1>2 DEF Connect, Leave, PresenceUpdate, TypeOK
    <2>2. /\ pc[c] \notin Registering
          /\ session[c] # None => pc'[c] \notin Departed
        BY <1>2 DEF Connect, Leave, PresenceUpdate, AfterLoop, Departed, Registering, TypeOK
    <2>3. \A s \in SessionIds : sessions[s] # None /\ HoldsEntry(c, sessions[s])
              => HoldsEntry(c, sessions[s])'
        BY <2>1, <2>2 DEF HoldsEntry, Inserted, Identifying, Registering
    <2> QED BY <2>1, <2>3, QuietForEntries
<1>3. ASSUME NEW c \in Conns, NEW u \in Users, NEW x \in SessionIds, Identify(c, u, x)
      PROVE  EntriesHeld'
    <2> DEFINE new == [id |-> x, user |-> u, conn |-> c]
    <2>1. /\ sessions' = [sessions EXCEPT ![x] = new]
          /\ pending' = [pending EXCEPT ![c] = new]
          /\ pc' = [pc EXCEPT ![c] = "identify_push"]
          /\ UNCHANGED <<session, abandoned>> /\ pc[c] = "loop" /\ session[c] = None
        BY <1>3 DEF Identify
    <2> HIDE DEF new
    <2>2. HoldsEntry(c, new)' /\ sessions'[x] = new
        BY <2>1 DEF HoldsEntry, Inserted, Identifying, TypeOK
    <2>3. ASSUME NEW s \in SessionIds \ {x}, sessions[s] # None, s \notin abandoned
          PROVE  \E d \in Conns : HoldsEntry(d, sessions[s])'
        <3>1. PICK d \in Conns : HoldsEntry(d, sessions[s])
            BY <2>3 DEF EntriesHeld
        <3>2. d # c
            BY <2>1, <2>3, <3>1 DEF HoldsEntry, Inserted, Identifying
        <3> QED BY <2>1, <3>1, <3>2 DEF HoldsEntry, TypeOK
    <2>4. \A s \in SessionIds \ {x} : sessions'[s] = sessions[s]
        BY <2>1 DEF TypeOK
    <2> QED BY <2>1, <2>2, <2>3, <2>4 DEF EntriesHeld
<1>4. ASSUME NEW c \in Conns, RegisterPush(c)
      PROVE  EntriesHeld'
    <2>1. /\ UNCHANGED <<sessions, abandoned, session, pending>>
          /\ pc[c] \in Inserted /\ pc'[c] \in Inserted
          /\ \A d \in Conns \ {c} : UNCHANGED <<pc[d], pending[d], session[d]>>
        BY <1>4 DEF RegisterPush, Inserted, Identifying, TypeOK
    <2>2. \A s \in SessionIds : HoldsEntry(c, sessions[s]) => HoldsEntry(c, sessions[s])'
        BY <2>1 DEF HoldsEntry, Inserted, Identifying, Departed
    <2> QED BY <2>1, <2>2, QuietForEntries
<1>5. ASSUME NEW c \in Conns, IdentifyReady(c)
      PROVE  EntriesHeld'
    <2>1. /\ UNCHANGED <<sessions, abandoned>> /\ session'[c] = pending[c] /\ pc'[c] = "loop"
          /\ \A d \in Conns \ {c} : UNCHANGED <<pc[d], pending[d], session[d]>>
          /\ pc[c] = "identify_ready"
        BY <1>5 DEF IdentifyReady, TypeOK
    <2>2. session[c] = None
        BY <2>1 DEF IdsKnown, Identifying
    <2>3. \A s \in SessionIds : sessions[s] # None /\ HoldsEntry(c, sessions[s])
              => HoldsEntry(c, sessions[s])'
        BY <2>1, <2>2 DEF HoldsEntry, Departed
    <2> QED BY <2>1, <2>3, QuietForEntries
<1>6. ASSUME NEW c \in Conns, NEW u \in Users, NEW x \in SessionIds, ResumeGet(c, u, x)
      PROVE  EntriesHeld'
    <2>1. /\ UNCHANGED <<sessions, abandoned, session>> /\ pc[c] = "loop" /\ pc'[c] = "resume_del"
          /\ \A d \in Conns \ {c} : UNCHANGED <<pc[d], pending[d], session[d]>>
        BY <1>6 DEF ResumeGet, TypeOK
    <2>2. \A s \in SessionIds : HoldsEntry(c, sessions[s]) => HoldsEntry(c, sessions[s])'
        BY <2>1 DEF HoldsEntry, Inserted, Identifying, Departed
    <2> QED BY <2>1, <2>2, QuietForEntries
<1>7. ASSUME NEW c \in Conns, ResumeDel(c)
      PROVE  EntriesHeld'
    <2>1. /\ UNCHANGED <<sessions, abandoned, session>> /\ pc[c] = "resume_del"
          /\ pc'[c] \in {"resume_insert", AfterLoop(c)}
          /\ \A d \in Conns \ {c} : UNCHANGED <<pc[d], pending[d], session[d]>>
        BY <1>7 DEF ResumeDel, TypeOK
    <2>2. \A s \in SessionIds : sessions[s] # None /\ HoldsEntry(c, sessions[s])
              => HoldsEntry(c, sessions[s])'
        BY <2>1 DEF HoldsEntry, AfterLoop, Inserted, Identifying, Departed
    <2> QED BY <2>1, <2>2, QuietForEntries
<1>8. ASSUME NEW c \in Conns, ResumeInsert(c)
      PROVE  EntriesHeld'
    <2> DEFINE x == pending[c].id
    <2>1. /\ sessions' = [sessions EXCEPT ![x] = pending[c]]
          /\ pc' = [pc EXCEPT ![c] = "resume_push"]
          /\ UNCHANGED <<session, pending, abandoned>> /\ pc[c] = "resume_insert"
        BY <1>8 DEF ResumeInsert
    <2> HIDE DEF x
    <2>2. HoldsEntry(c, pending[c])'
        BY <2>1 DEF HoldsEntry, Inserted, TypeOK
    <2>3. \A s \in SessionIds :
              sessions'[s] = sessions[s] \/ (s = x /\ sessions'[s] = pending[c])
        BY <2>1 DEF TypeOK
    <2>4. \A s \in SessionIds, d \in Conns :
              HoldsEntry(d, sessions[s]) /\ sessions'[s] = sessions[s] => HoldsEntry(d, sessions[s])'
        BY <2>1 DEF HoldsEntry, Inserted, Identifying, Departed, TypeOK
    <2> QED BY <2>1, <2>2, <2>3, <2>4 DEF EntriesHeld
<1>9. ASSUME NEW c \in Conns, ResumeFinish(c)
      PROVE  EntriesHeld'
    <2>1. /\ UNCHANGED sessions /\ abandoned \subseteq abandoned' /\ pc[c] = "resume_finish"
          /\ \A d \in Conns \ {c} : UNCHANGED <<pc[d], pending[d], session[d]>>
        BY <1>9 DEF ResumeFinish, TypeOK
    <2>2. \/ /\ session'[c] = pending[c] /\ pc'[c] = "loop"
             /\ session[c] # None => session[c].id \in abandoned'
          \/ /\ UNCHANGED session /\ pc'[c] = AfterLoop(c)
             /\ pending[c].id \in abandoned'
        BY <1>9 DEF ResumeFinish, TypeOK
    <2>3. ASSUME NEW s \in SessionIds, sessions[s] # None, s \notin abandoned',
                 HoldsEntry(c, sessions[s])
          PROVE  HoldsEntry(c, sessions[s])'
        <3>1. sessions[s].id = s
            BY <1>a, <2>3
        <3> QED BY <2>1, <2>2, <2>3, <3>1 DEF HoldsEntry, AfterLoop, Departed
    <2> QED BY <2>1, <2>3, QuietForEntries
<1>10. ASSUME NEW c \in Conns, CleanupStore(c) \/ RemoveRetain(c) \/ RemoveEntry(c) \/ OfflineTimer(c) \/ OfflineBroadcast(c)
       PROVE  EntriesHeld'
    <2>1. /\ UNCHANGED <<sessions, abandoned, pending>>
          /\ \A d \in Conns \ {c} : UNCHANGED <<pc[d], pending[d], session[d]>>
          /\ \/ pc[c] = "store" /\ pc'[c] = "remove" /\ session' = session
             \/ pc[c] \in {"retain", "erase", "timer", "offline"}
        BY <1>10 DEF CleanupStore, RemoveRetain, RemoveEntry, OfflineTimer, OfflineBroadcast, TypeOK
    <2>2. \A s \in SessionIds : HoldsEntry(c, sessions[s]) => HoldsEntry(c, sessions[s])'
        BY <2>1 DEF HoldsEntry, Inserted, Identifying, Departed
    <2> QED BY <2>1, <2>2, QuietForEntries
<1>11. ASSUME NEW c \in Conns, RemoveSession(c)
       PROVE  EntriesHeld'
    <2>1. /\ sessions' = [sessions EXCEPT ![session[c].id] = None]
          /\ UNCHANGED <<session, pending, abandoned>>
          /\ pc[c] = "remove" /\ \A d \in Conns \ {c} : pc'[d] = pc[d]
        BY <1>11 DEF RemoveSession, TypeOK
    <2>2. ASSUME NEW s \in SessionIds, sessions'[s] # None, s \notin abandoned
          PROVE  \E d \in Conns : HoldsEntry(d, sessions[s])'
        <3>1. sessions'[s] = sessions[s] /\ s # session[c].id
            BY <2>1, <2>2 DEF TypeOK
        <3>2. PICK d \in Conns : HoldsEntry(d, sessions[s])
            BY <2>2, <3>1 DEF EntriesHeld
        <3>3. d # c
            BY <1>a, <2>1, <2>2, <3>1, <3>2 DEF HoldsEntry, Inserted, Identifying
        <3> QED BY <2>1, <3>1, <3>2, <3>3 DEF HoldsEntry
    <2> QED BY <2>1, <2>2 DEF EntriesHeld
<1>12. ASSUME NEW s \in SessionIds, ExpireSession(s)
       PROVE  EntriesHeld'
    BY <1>12 DEF ExpireSession, EntriesHeld, HoldsEntry
<1>13. CASE Crash
    BY <1>13 DEF Crash, EntriesHeld
<1> QED BY <1>1, <1>2, <1>3, <1>4, <1>5, <1>6, <1>7, <1>8, <1>9, <1>10, <1>11, <1>12, <1>13
        DEF Next, Proceed, Request

(* A step of one task that comes to no such point, or knows what it needs. *)
LEMMA QuietForIds ==
    ASSUME IdsKnown, NEW c \in Conns, UNCHANGED origin, resumed \subseteq resumed',
           \A d \in Conns \ {c} : UNCHANGED <<pc[d], pending[d], session[d]>>,
           \/ pc'[c] \notin {"resume_insert", "resume_push", "resume_finish"} \cup Identifying
           \/ /\ UNCHANGED <<pending[c], session[c]>>
              /\ pc[c] \in Identifying /\ pc'[c] \in Identifying
           \/ /\ UNCHANGED pending[c] /\ pending[c].id \in resumed'
              /\ pc'[c] \in {"resume_insert", "resume_push", "resume_finish"}
    PROVE  IdsKnown'
<1> SUFFICES ASSUME NEW d \in Conns
             PROVE  /\ pc'[d] \in {"resume_insert", "resume_push", "resume_finish"}
                          => pending'[d].id \in resumed'
                    /\ pc'[d] \in Identifying =>
                          session'[d] = None /\ pending'[d] # None
                             /\ pending'[d] = origin[pending'[d].id]
    BY DEF IdsKnown
<1>1. CASE d = c
    BY <1>1 DEF IdsKnown, Identifying
<1>2. CASE d # c
    BY <1>2 DEF IdsKnown
<1> QED BY <1>1, <1>2

(* Identify is for a connection without a session and an id of its own;    *)
(* Resume registers after its DEL.                                         *)
LEMMA NextIdsKnown ==
    TypeOK /\ SessionsBelongToOwner /\ IdsKnown /\ [Next]_vars => IdsKnown'
<1> SUFFICES ASSUME TypeOK, SessionsBelongToOwner, IdsKnown, [Next]_vars
             PROVE  IdsKnown'
    OBVIOUS
<1> USE DEF Goto, registry, history, counters
<1>1. CASE UNCHANGED vars
    BY <1>1 DEF vars, IdsKnown
<1>2. ASSUME NEW c \in Conns, Connect(c) \/ Leave(c) \/ PresenceUpdate(c)
      PROVE  IdsKnown'
    <2>1. /\ UNCHANGED <<origin, resumed>>
          /\ \A d \in Conns \ {c} : UNCHANGED <<pc[d], pending[d], session[d]>>
          /\ pc'[c] \notin {"resume_insert", "resume_push", "resume_finish"} \cup Identifying
        BY <1>2 DEF Connect, Leave, PresenceUpdate, AfterLoop, Identifying, TypeOK
    <2> QED BY <2>1, QuietForIds
<1>3. ASSUME NEW c \in Conns, NEW u \in Users, NEW x \in SessionIds, Identify(c, u, x)
      PROVE  IdsKnown'
    <2> DEFINE new == [id |-> x, user |-> u, conn |-> c]
    <2>1. new \in Session /\ new # None /\ new.id = x
        BY SessionIsNotNone
    <2> HIDE DEF new
    <2>2. /\ pending' = [pending EXCEPT ![c] = new]
          /\ origin' = [origin EXCEPT ![x] = new]
          /\ pc' = [pc EXCEPT ![c] = "identify_push"]
          /\ UNCHANGED <<session, resumed>> /\ origin[x] = None /\ session[c] = None
        BY <1>3 DEF Identify, new
    <2>3. /\ pending'[c] = new /\ origin'[x] = new /\ pc'[c] = "identify_push"
          /\ \A d \in Conns \ {c} : pending'[d] = pending[d] /\ pc'[d] = pc[d]
          /\ \A s \in SessionIds \ {x} : origin'[s] = origin[s]
        BY <2>2 DEF TypeOK
    <2>4. \A d \in Conns : pending[d] # None => pending[d].id \in SessionIds \ {x}
        BY <2>2 DEF SessionsBelongToOwner, BelongsToOwner, Session, TypeOK
    <2>5. \A d \in Conns \ {c} :
             /\ pc'[d] \in {"resume_insert", "resume_push", "resume_finish"}
                   => pending'[d].id \in resumed'
             /\ pc'[d] \in Identifying =>
                   session'[d] = None /\ pending'[d] # None
                      /\ pending'[d] = origin'[pending'[d].id]
        BY <2>2, <2>3, <2>4 DEF IdsKnown
    <2> QED BY <2>1, <2>2, <2>3, <2>5 DEF IdsKnown
<1>4. ASSUME NEW c \in Conns, RegisterPush(c)
      PROVE  IdsKnown'
    <2>1. /\ UNCHANGED <<origin, resumed, pending, session>>
          /\ \A d \in Conns \ {c} : UNCHANGED <<pc[d], pending[d], session[d]>>
          /\ \/ pc[c] = "identify_push" /\ pc'[c] = "identify_ready"
             \/ pc[c] = "resume_push" /\ pc'[c] = "resume_finish"
        BY <1>4 DEF RegisterPush, TypeOK
    <2>2. pc[c] = "resume_push" => pending[c].id \in resumed
        BY DEF IdsKnown
    <2> QED BY <2>1, <2>2, QuietForIds DEF Identifying
<1>5. ASSUME NEW c \in Conns, ResumeDel(c)
      PROVE  IdsKnown'
    <2>1. /\ UNCHANGED origin /\ resumed \subseteq resumed'
          /\ \A d \in Conns \ {c} : UNCHANGED <<pc[d], pending[d], session[d]>>
          /\ \/ /\ pc'[c] = "resume_insert" /\ UNCHANGED pending
                /\ pending[c].id \in resumed'
             \/ pc'[c] = AfterLoop(c)
        BY <1>5 DEF ResumeDel, TypeOK
    <2> QED BY <2>1, QuietForIds DEF AfterLoop, Identifying
<1>6. ASSUME NEW c \in Conns, ResumeInsert(c)
      PROVE  IdsKnown'
    <2>1. /\ UNCHANGED <<origin, resumed, pending>>
          /\ \A d \in Conns \ {c} : UNCHANGED <<pc[d], pending[d], session[d]>>
          /\ pc[c] = "resume_insert" /\ pc'[c] = "resume_push"
        BY <1>6 DEF ResumeInsert, TypeOK
    <2>2. pending[c].id \in resumed
        BY <2>1 DEF IdsKnown
    <2> QED BY <2>1, <2>2, QuietForIds
<1>7. ASSUME NEW c \in Conns,
             \/ IdentifyReady(c) \/ ResumeFinish(c) \/ CleanupStore(c) \/ RemoveSession(c)
             \/ RemoveRetain(c) \/ RemoveEntry(c) \/ OfflineTimer(c) \/ OfflineBroadcast(c)
      PROVE  IdsKnown'
    <2>1. /\ UNCHANGED <<origin, resumed>>
          /\ \A d \in Conns \ {c} : UNCHANGED <<pc[d], pending[d], session[d]>>
        BY <1>7 DEF IdentifyReady, ResumeFinish, CleanupStore, RemoveSession, RemoveRetain,
                    RemoveEntry, OfflineTimer, OfflineBroadcast, TypeOK
    <2>2. pc'[c] \notin {"resume_insert", "resume_push", "resume_finish"} \cup Identifying
        BY <1>7 DEF IdentifyReady, ResumeFinish, CleanupStore, RemoveSession, RemoveRetain,
                    RemoveEntry, OfflineTimer, OfflineBroadcast, AfterLoop, Identifying, TypeOK
    <2> QED BY <2>1, <2>2, QuietForIds
<1>8. ASSUME NEW c \in Conns, NEW u \in Users, NEW x \in SessionIds, ResumeGet(c, u, x)
      PROVE  IdsKnown'
    <2>1. /\ UNCHANGED <<origin, resumed>>
          /\ \A d \in Conns \ {c} : UNCHANGED <<pc[d], pending[d], session[d]>>
          /\ pc'[c] = "resume_del"
        BY <1>8 DEF ResumeGet, TypeOK
    <2> QED BY <2>1, QuietForIds DEF Identifying
<1>9. ASSUME NEW s \in SessionIds, ExpireSession(s)
      PROVE  IdsKnown'
    BY <1>9 DEF ExpireSession, IdsKnown
<1>10. CASE Crash
    BY <1>10 DEF Crash, IdsKnown, Identifying
<1> QED BY <1>1, <1>2, <1>3, <1>4, <1>5, <1>6, <1>7, <1>8, <1>9, <1>10 DEF Next, Proceed, Request

Alive(s) ==
    \/ sessions[s] = origin[s]
    \/ \E c \in Conns : pc[c] = "retain" /\ session[c].id = s

(* A step that adds no id to an index, and lets no id die.                 *)
LEMMA QuietForIndex ==
    ASSUME IndexAlive, resumed \subseteq resumed',
           \A u \in Users : user_sessions'[u] # None =>
              user_sessions[u] # None /\ user_sessions'[u] \subseteq user_sessions[u],
           \A u \in Users : user_sessions'[u] # None =>
              \A s \in user_sessions'[u] \ resumed' : Alive(s) => Alive(s)'
    PROVE  IndexAlive'
BY DEF IndexAlive, Alive

(* No index keeps a dead id: register() inserts before it pushes, and      *)
(* remove() takes the id from the index of its user after it has taken the *)
(* entry.                                                                  *)
LEMMA NextIndexAlive ==
    TypeOK /\ SessionsBelongToOwner /\ Anchored /\ ExclusiveUntilCleanup /\ IdsKnown
        /\ IndexAlive /\ [Next]_vars => IndexAlive'
<1> SUFFICES ASSUME TypeOK, SessionsBelongToOwner, Anchored, ExclusiveUntilCleanup, IdsKnown,
                    IndexAlive, [Next]_vars
             PROVE  IndexAlive'
    OBVIOUS
<1> USE DEF Goto, registry, history, counters
<1>a. \A u \in Users : user_sessions[u] # None =>
          \A s \in user_sessions[u] : s \in SessionIds /\ origin[s] # None /\ origin[s].user = u
    BY DEF SessionsBelongToOwner, TypeOK
<1>1. CASE UNCHANGED vars
    BY <1>1, QuietForIndex DEF vars, Alive
<1>2. ASSUME NEW c \in Conns,
             \/ Connect(c) \/ Leave(c) \/ PresenceUpdate(c) \/ IdentifyReady(c) \/ ResumeDel(c)
             \/ ResumeFinish(c) \/ CleanupStore(c) \/ OfflineTimer(c) \/ OfflineBroadcast(c)
      PROVE  IndexAlive'
    <2>1. /\ UNCHANGED <<sessions, origin, user_sessions>> /\ resumed \subseteq resumed'
          /\ pc[c] # "retain"
        BY <1>2 DEF Connect, Leave, PresenceUpdate, IdentifyReady, ResumeDel, ResumeFinish,
                    CleanupStore, OfflineTimer, OfflineBroadcast
    <2>2. \A d \in Conns \ {c} : UNCHANGED <<pc[d], session[d]>>
        BY <1>2 DEF Connect, Leave, PresenceUpdate, IdentifyReady, ResumeDel, ResumeFinish,
                    CleanupStore, OfflineTimer, OfflineBroadcast, TypeOK
    <2>3. \A s : Alive(s) => Alive(s)'
        BY <2>1, <2>2 DEF Alive
    <2> QED BY <2>1, <2>3, QuietForIndex
<1>3. ASSUME NEW c \in Conns, NEW u \in Users, NEW x \in SessionIds, Identify(c, u, x)
      PROVE  IndexAlive'
    <2>1. /\ UNCHANGED <<session, user_sessions, resumed>> /\ origin[x] = None
          /\ pc[c] # "retain" /\ \A d \in Conns \ {c} : pc'[d] = pc[d]
          /\ \A s \in SessionIds \ {x} : sessions'[s] = sessions[s] /\ origin'[s] = origin[s]
        BY <1>3 DEF Identify, TypeOK
    <2>2. \A s \in SessionIds \ {x} : Alive(s) => Alive(s)'
        BY <2>1 DEF Alive
    <2> QED BY <1>a, <2>1, <2>2, QuietForIndex
<1>4. ASSUME NEW c \in Conns, RegisterPush(c)
      PROVE  IndexAlive'
    <2> DEFINE x == pending[c].id
    <2>1. /\ UNCHANGED <<sessions, origin, session, resumed>>
          /\ pc[c] # "retain" /\ \A d \in Conns \ {c} : pc'[d] = pc[d]
          /\ pc[c] \in {"identify_push", "resume_push"}
          /\ PushId(pending[c].user, x)
        BY <1>4 DEF RegisterPush, TypeOK
    <2>2. \A s : Alive(s) => Alive(s)'
        BY <2>1 DEF Alive
    <2>3. x \in resumed \/ sessions[x] = origin[x]
        <3>1. CASE pc[c] = "resume_push"
            BY <3>1 DEF IdsKnown
        <3>2. CASE pc[c] = "identify_push"
            <4>1. pending[c] # None /\ pending[c] = origin[x] /\ pending[c].conn = c
                BY <3>2 DEF IdsKnown, Identifying, Anchored
            <4>2. x \in SessionIds
                BY <4>1 DEF Session, TypeOK
            <4>3. origin[x] # None /\ pc[origin[x].conn] = "identify_push"
                BY <3>2, <4>1
            <4> QED BY <4>2, <4>3 DEF ExclusiveUntilCleanup
        <3> QED BY <2>1, <3>1, <3>2
    <2>4. \A u \in Users : user_sessions'[u] # None =>
              \A s \in user_sessions'[u] : s = x \/ (user_sessions[u] # None /\ s \in user_sessions[u])
        BY <2>1 DEF PushId, TypeOK
    <2> HIDE DEF x
    <2>5. ASSUME NEW u \in Users, user_sessions'[u] # None, NEW s \in user_sessions'[u] \ resumed
          PROVE  Alive(s)
        BY <2>3, <2>4, <2>5 DEF IndexAlive, Alive
    <2> QED BY <2>1, <2>2, <2>5 DEF IndexAlive, Alive
<1>5. ASSUME NEW c \in Conns, NEW u \in Users, NEW x \in SessionIds, ResumeGet(c, u, x)
      PROVE  IndexAlive'
    <2>1. /\ UNCHANGED <<sessions, origin, user_sessions, resumed, session>>
          /\ pc[c] # "retain" /\ \A d \in Conns \ {c} : pc'[d] = pc[d]
        BY <1>5 DEF ResumeGet, TypeOK
    <2>2. \A s : Alive(s) => Alive(s)'
        BY <2>1 DEF Alive
    <2> QED BY <2>1, <2>2, QuietForIndex
<1>6. ASSUME NEW c \in Conns, ResumeInsert(c)
      PROVE  IndexAlive'
    <2>1. /\ UNCHANGED <<origin, user_sessions, resumed, session>>
          /\ pc[c] = "resume_insert" /\ \A d \in Conns \ {c} : pc'[d] = pc[d]
          /\ sessions' = [sessions EXCEPT ![pending[c].id] = pending[c]]
        BY <1>6 DEF ResumeInsert, TypeOK
    <2>2. pending[c].id \in resumed
        BY <2>1 DEF IdsKnown
    <2>3. \A s \in SessionIds \ resumed : sessions'[s] = sessions[s]
        BY <2>1, <2>2 DEF TypeOK
    <2>4. \A s \in SessionIds \ resumed : Alive(s) => Alive(s)'
        BY <2>1, <2>3 DEF Alive
    <2> QED BY <1>a, <2>1, <2>4, QuietForIndex
<1>7. ASSUME NEW c \in Conns, RemoveSession(c)
      PROVE  IndexAlive'
    <2> DEFINE x == session[c].id
    <2>1. /\ UNCHANGED <<origin, user_sessions, resumed, session>>
          /\ pc[c] = "remove" /\ \A d \in Conns \ {c} : pc'[d] = pc[d]
          /\ sessions' = [sessions EXCEPT ![x] = None]
          /\ pc'[c] = IF sessions[x] = None THEN "timer" ELSE "retain"
        BY <1>7 DEF RemoveSession, TypeOK
    <2>2. ASSUME NEW s \in SessionIds, origin[s] # None, Alive(s)
          PROVE  Alive(s)'
        <3>1. CASE \E d \in Conns : pc[d] = "retain" /\ session[d].id = s
            BY <2>1, <3>1 DEF Alive
        <3>2. CASE sessions[s] = origin[s] /\ s # x
            BY <2>1, <3>2 DEF Alive, TypeOK
        <3>3. CASE sessions[s] = origin[s] /\ s = x
            BY <2>1, <2>2, <3>3 DEF Alive
        <3> QED BY <2>2, <3>1, <3>2, <3>3 DEF Alive
    <2> QED BY <1>a, <2>1, <2>2, QuietForIndex
<1>8. ASSUME NEW c \in Conns, RemoveRetain(c)
      PROVE  IndexAlive'
    <2> DEFINE x == session[c].id
               v == session[c].user
    <2>1. /\ UNCHANGED <<sessions, origin, resumed, session>>
          /\ pc[c] = "retain" /\ \A d \in Conns \ {c} : pc'[d] = pc[d]
        BY <1>8 DEF RemoveRetain, TypeOK
    <2>2. \/ /\ user_sessions[v] = None
             /\ user_sessions' = user_sessions
          \/ /\ user_sessions[v] # None
             /\ user_sessions' = [user_sessions EXCEPT ![v] = user_sessions[v] \ {x}]
        BY <1>8 DEF RemoveRetain
    <2>3. v \in Users /\ origin[x].user = v
        BY <2>1 DEF Cleaning, SessionsBelongToOwner, BelongsToOwner, Session, TypeOK
    <2>4. \A u \in Users : user_sessions'[u] # None =>
              /\ user_sessions[u] # None /\ user_sessions'[u] \subseteq user_sessions[u]
              /\ u = v => x \notin user_sessions'[u]
        <3> HIDE DEF x, v
        <3> user_sessions \in [Users -> (SUBSET SessionIds) \cup {None}]
            BY DEF TypeOK
        <3>1. CASE user_sessions[v] = None /\ user_sessions' = user_sessions
            BY <3>1
        <3>2. ASSUME user_sessions[v] # None,
                     user_sessions' = [user_sessions EXCEPT ![v] = user_sessions[v] \ {x}]
              PROVE  \A u \in Users : user_sessions'[u] # None =>
                         /\ user_sessions[u] # None
                         /\ user_sessions'[u] \subseteq user_sessions[u]
                         /\ u = v => x \notin user_sessions'[u]
            <4>1. user_sessions'[v] = user_sessions[v] \ {x}
                BY <2>3, <3>2
            <4>2. \A u \in Users \ {v} : user_sessions'[u] = user_sessions[u]
                BY <3>2
            <4> QED BY <2>3, <3>2, <4>1, <4>2
        <3> QED BY <2>2, <3>1, <3>2
    <2>5. \A u \in Users : user_sessions'[u] # None => x \notin user_sessions'[u]
        BY <1>a, <2>3, <2>4
    <2>6. \A s : s # x /\ Alive(s) => Alive(s)'
        BY <2>1 DEF Alive
    <2> QED BY <2>1, <2>4, <2>5, <2>6, QuietForIndex
<1>9. ASSUME NEW c \in Conns, RemoveEntry(c)
      PROVE  IndexAlive'
    <2>1. /\ UNCHANGED <<sessions, origin, resumed, session>>
          /\ pc[c] # "retain" /\ \A d \in Conns \ {c} : pc'[d] = pc[d]
          /\ \A u \in Users : user_sessions'[u] # None => user_sessions'[u] = user_sessions[u]
        BY <1>9 DEF RemoveEntry, TypeOK
    <2>2. \A s : Alive(s) => Alive(s)'
        BY <2>1 DEF Alive
    <2> QED BY <2>1, <2>2, QuietForIndex
<1>10. ASSUME NEW s \in SessionIds, ExpireSession(s)
       PROVE  IndexAlive'
    BY <1>10, QuietForIndex DEF ExpireSession, Alive
<1>11. CASE Crash
    BY <1>11 DEF Crash, IndexAlive
<1> QED BY <1>1, <1>2, <1>3, <1>4, <1>5, <1>6, <1>7, <1>8, <1>9, <1>10, <1>11
        DEF Next, Proceed, Request

(* Identify and Resume alone hand a task its session, the one with its id  *)
(* as it was drawn, the other after its DEL.                               *)
LEMMA NextSessionsKnown ==
    TypeOK /\ SessionsBelongToOwner /\ IdsKnown /\ SessionsKnown /\ [Next]_vars => SessionsKnown'
<1> SUFFICES ASSUME TypeOK, SessionsBelongToOwner, IdsKnown, SessionsKnown, [Next]_vars,
                    NEW c \in Conns, session'[c] # None
             PROVE  session'[c].id \in resumed' \/ session'[c] = origin'[session'[c].id]
    BY DEF SessionsKnown
<1>1. resumed \subseteq resumed'
    <2>1. CASE UNCHANGED vars
        BY <2>1 DEF vars, history
    <2>2. ASSUME NEW d \in Conns, Proceed(d) PROVE resumed \subseteq resumed'
        BY <2>2 DEF Proceed, RegisterPush, IdentifyReady, ResumeDel, ResumeInsert, ResumeFinish,
                    CleanupStore, RemoveSession, RemoveRetain, RemoveEntry, OfflineTimer,
                    OfflineBroadcast, history
    <2>3. ASSUME NEW d \in Conns, Request(d) PROVE resumed \subseteq resumed'
        BY <2>3 DEF Request, Connect, Leave, PresenceUpdate, Identify, ResumeGet, history
    <2>4. ASSUME NEW s \in SessionIds, ExpireSession(s) PROVE resumed \subseteq resumed'
        BY <2>4 DEF ExpireSession, history
    <2>5. CASE Crash
        BY <2>5 DEF Crash, history
    <2> QED BY <2>1, <2>2, <2>3, <2>4, <2>5 DEF Next
<1>2. OriginKept
    BY OriginKeptByNext
<1>3. ASSUME session'[c] = session[c]
      PROVE  session'[c].id \in resumed' \/ session'[c] = origin'[session'[c].id]
    <2>1. origin[session[c].id] # None /\ session[c].id \in SessionIds
        BY <1>3 DEF SessionsBelongToOwner, BelongsToOwner, Session, TypeOK
    <2> QED BY <1>1, <1>2, <1>3, <2>1 DEF SessionsKnown, OriginKept
<1>4. ASSUME session'[c] # session[c]
      PROVE  IdentifyReady(c) \/ ResumeFinish(c)
    <2>1. ASSUME NEW d \in Conns, Proceed(d)
          PROVE  IdentifyReady(c) \/ ResumeFinish(c)
        <3>1. CASE d = c
            BY <1>4, <2>1, <3>1 DEF Proceed, RegisterPush, ResumeDel, ResumeInsert, CleanupStore,
                    RemoveSession, RemoveRetain, RemoveEntry, OfflineTimer, OfflineBroadcast, TypeOK
        <3>2. CASE d # c
            BY <1>4, <2>1, <3>2 DEF Proceed, RegisterPush, IdentifyReady, ResumeDel, ResumeInsert,
                    ResumeFinish, CleanupStore, RemoveSession, RemoveRetain, RemoveEntry,
                    OfflineTimer, OfflineBroadcast, TypeOK
        <3> QED BY <3>1, <3>2
    <2>2. ASSUME NEW d \in Conns, Request(d) PROVE FALSE
        BY <1>4, <2>2 DEF Request, Connect, Leave, PresenceUpdate, Identify, ResumeGet
    <2>3. ASSUME NEW s \in SessionIds, ExpireSession(s) PROVE FALSE
        BY <1>4, <2>3 DEF ExpireSession
    <2>4. CASE Crash
        BY <1>4, <2>4 DEF Crash
    <2>5. CASE UNCHANGED vars
        BY <1>4, <2>5 DEF vars
    <2> QED BY <2>1, <2>2, <2>3, <2>4, <2>5 DEF Next
<1>5. ASSUME IdentifyReady(c)
      PROVE  session'[c] = origin'[session'[c].id]
    BY <1>5 DEF IdentifyReady, IdsKnown, Identifying, history, TypeOK
<1>6. ASSUME ResumeFinish(c), session'[c] # session[c]
      PROVE  session'[c].id \in resumed'
    BY <1>6 DEF ResumeFinish, IdsKnown, TypeOK
<1> QED BY <1>3, <1>4, <1>5, <1>6

(* A step that takes no id from an index, and hands no task a session but  *)
(* one that is indexed.                                                    *)
LEMMA QuietForIndexed ==
    ASSUME TypeOK, HeldIndexed, NEW c \in Conns,
           resumed \subseteq resumed', erased \subseteq erased',
           \A x \in Session : Listed(x) => Listed(x)' \/ x.id \in resumed' \cup erased',
           \A d \in Conns \ {c} : UNCHANGED <<pc[d], pending[d], session[d]>>,
           pc'[c] = "identify_ready" => Indexed(pending[c])' /\ UNCHANGED pending[c],
           \/ session'[c] = None
           \/ pc'[c] \in Departed
           \/ UNCHANGED session[c] /\ pc[c] \notin Departed
           \/ session'[c] = pending[c] /\ Indexed(pending[c])
    PROVE  HeldIndexed'
<1>1. \A d \in Conns : pending[d] \in Session \cup {None} /\ session[d] \in Session \cup {None}
    BY DEF TypeOK
<1>2. \A x \in Session : Indexed(x) => Indexed(x)'
    BY DEF Indexed
<1>3. \A d \in Conns : pc[d] = "identify_ready" => pending[d] \in Session
    BY <1>1 DEF Registering, TypeOK
<1>4. ASSUME NEW d \in Conns, pc'[d] = "identify_ready"
      PROVE  Indexed(pending[d])' /\ (d # c => pending'[d] = pending[d])
    <2>1. CASE d = c
        BY <1>4, <2>1
    <2>2. CASE d # c
        <3>1. pc[d] = "identify_ready" /\ pending'[d] = pending[d] /\ pending[d] \in Session
            BY <1>3, <1>4, <2>2
        <3> QED BY <1>2, <3>1, <2>2 DEF HeldIndexed, Indexed, Listed
    <2> QED BY <2>1, <2>2
<1>5. ASSUME NEW d \in Conns, session'[d] # None, pc'[d] \notin Departed
      PROVE  Indexed(session[d])'
    <2>1. CASE d # c \/ (UNCHANGED session[c] /\ pc[c] \notin Departed)
        <3>1. session'[d] = session[d] /\ pc[d] \notin Departed /\ session[d] \in Session
            BY <1>1, <1>5, <2>1
        <3>2. Indexed(session[d])
            BY <1>5, <3>1 DEF HeldIndexed
        <3> QED BY <1>2, <3>1, <3>2 DEF Indexed, Listed
    <2>2. CASE d = c /\ session'[c] = pending[c] /\ Indexed(pending[c])
        <3>1. pending[c] \in Session
            BY <1>1, <1>5, <2>2
        <3> QED BY <1>2, <2>2, <3>1 DEF Indexed, Listed
    <2> QED BY <1>5, <2>1, <2>2
<1> QED BY <1>4, <1>5 DEF HeldIndexed

(* register() indexes before it returns, and before a task removes its     *)
(* session the id leaves the index only with the whole entry, in the third *)
(* access of some remove().                                                *)
LEMMA NextHeldIndexed ==
    TypeOK /\ SessionsBelongToOwner /\ Anchored /\ IdsKnown /\ SessionsKnown /\ HeldIndexed
        /\ [Next]_vars => HeldIndexed'
<1> SUFFICES ASSUME TypeOK, SessionsBelongToOwner, Anchored, IdsKnown, SessionsKnown, HeldIndexed,
                    [Next]_vars
             PROVE  HeldIndexed'
    OBVIOUS
<1> USE DEF Goto, registry, history, counters
<1>1. CASE UNCHANGED vars
    BY <1>1 DEF vars, HeldIndexed, Indexed, Listed
<1>2. ASSUME NEW c \in Conns,
             \/ Connect(c) \/ Leave(c) \/ PresenceUpdate(c) \/ ResumeDel(c) \/ ResumeInsert(c)
             \/ CleanupStore(c) \/ RemoveSession(c) \/ OfflineTimer(c) \/ OfflineBroadcast(c)
      PROVE  HeldIndexed'
    <2>1. /\ UNCHANGED <<user_sessions, erased>> /\ resumed \subseteq resumed'
          /\ \A d \in Conns \ {c} : UNCHANGED <<pc[d], pending[d], session[d]>>
          /\ pc'[c] # "identify_ready"
          /\ UNCHANGED session[c] \/ session'[c] = None
          /\ pc[c] \in Departed => pc'[c] \in Departed
        BY <1>2 DEF Connect, Leave, PresenceUpdate, ResumeDel, ResumeInsert, CleanupStore,
                    RemoveSession, OfflineTimer, OfflineBroadcast, AfterLoop, Departed, TypeOK
    <2>2. \A x \in Session : Listed(x) => Listed(x)'
        BY <2>1 DEF Listed
    <2> QED BY <2>1, <2>2, QuietForIndexed
<1>3. ASSUME NEW c \in Conns, NEW u \in Users, NEW s \in SessionIds,
             Identify(c, u, s) \/ ResumeGet(c, u, s)
      PROVE  HeldIndexed'
    <2>1. /\ UNCHANGED <<user_sessions, erased, resumed, session>>
          /\ \A d \in Conns \ {c} : UNCHANGED <<pc[d], pending[d], session[d]>>
          /\ pc'[c] # "identify_ready" /\ pc[c] = "loop"
        BY <1>3 DEF Identify, ResumeGet, TypeOK
    <2>2. \A x \in Session : Listed(x) => Listed(x)'
        BY <2>1 DEF Listed
    <2> QED BY <2>1, <2>2, QuietForIndexed DEF Departed
<1>4. ASSUME NEW c \in Conns, RegisterPush(c)
      PROVE  HeldIndexed'
    <2>1. /\ UNCHANGED <<pending, session, resumed, erased>>
          /\ \A d \in Conns \ {c} : UNCHANGED <<pc[d], pending[d], session[d]>>
          /\ pc[c] \in {"identify_push", "resume_push"}
          /\ PushId(pending[c].user, pending[c].id)
        BY <1>4 DEF RegisterPush, TypeOK
    <2>2. pending[c] \in Session /\ pending[c].user \in Users
        BY <2>1 DEF Registering, Session, TypeOK
    <2>3. user_sessions'[pending[c].user]
              = (IF user_sessions[pending[c].user] = None THEN {} ELSE user_sessions[pending[c].user])
                    \cup {pending[c].id}
        BY <2>1, <2>2 DEF PushId, TypeOK
    <2>4. user_sessions'[pending[c].user] # None
        BY <2>2, <2>3, NoneIsNoIndex DEF TypeOK, Session
    <2>5. \A u \in Users \ {pending[c].user} : user_sessions'[u] = user_sessions[u]
        BY <2>1 DEF PushId, TypeOK
    <2>6. \A x \in Session : Listed(x) => Listed(x)'
        BY <2>3, <2>4, <2>5 DEF Listed, Session
    <2>7. Listed(pending[c])' /\ Indexed(pending[c])'
        BY <2>1, <2>3, <2>4 DEF Listed, Indexed
    <2> QED BY <2>1, <2>6, <2>7, QuietForIndexed DEF Departed
<1>5. ASSUME NEW c \in Conns, IdentifyReady(c) \/ ResumeFinish(c)
      PROVE  HeldIndexed'
    <2>1. /\ UNCHANGED <<user_sessions, erased, resumed>>
          /\ \A d \in Conns \ {c} : UNCHANGED <<pc[d], pending[d], session[d]>>
          /\ pc[c] \in {"identify_ready", "resume_finish"} /\ pc'[c] # "identify_ready"
          /\ session'[c] = session[c] \/ session'[c] = pending[c]
        BY <1>5 DEF IdentifyReady, ResumeFinish, AfterLoop, TypeOK
    <2>2. Indexed(pending[c])
        BY <2>1 DEF HeldIndexed, IdsKnown, Indexed
    <2>3. \A x \in Session : Listed(x) => Listed(x)'
        BY <2>1 DEF Listed
    <2> QED BY <2>1, <2>2, <2>3, QuietForIndexed DEF Departed
<1>6. ASSUME NEW c \in Conns, RemoveRetain(c)
      PROVE  HeldIndexed'
    <2> DEFINE x == session[c]
    <2>1. /\ UNCHANGED <<pending, session, resumed, erased, origin>>
          /\ \A d \in Conns \ {c} : UNCHANGED <<pc[d], pending[d], session[d]>>
          /\ pc[c] = "retain" /\ pc'[c] \in Departed /\ pc'[c] # "identify_ready"
          /\ \/ user_sessions' = user_sessions
             \/ /\ user_sessions[x.user] # None
                /\ user_sessions' = [user_sessions EXCEPT ![x.user] = user_sessions[x.user] \ {x.id}]
        BY <1>6 DEF RemoveRetain, Departed, TypeOK
    <2>2. x \in Session /\ x # None
        BY <2>1 DEF Cleaning, TypeOK
    <2>3. \A u \in Users : user_sessions[u] # None =>
              user_sessions'[u] # None /\ user_sessions[u] \ {x.id} \subseteq user_sessions'[u]
        <3>1. user_sessions[x.user] # None => user_sessions[x.user] \ {x.id} # None
            BY <2>2, NoneIsNoIndex DEF Session, TypeOK
        <3> QED BY <2>1, <2>2, <3>1 DEF Session, TypeOK
    <2>4. \A y \in Session : y.id # x.id /\ Indexed(y) => Indexed(y)'
        BY <2>1, <2>3 DEF Indexed, Listed, Session
    <2>5. x.id \in resumed \/ (x = origin[x.id] /\ x.conn = c)
        BY <2>2 DEF SessionsKnown, Anchored
    <2>6. ASSUME NEW d \in Conns \ {c}, pc[d] = "identify_ready"
          PROVE  Indexed(pending[d])'
        <3>1. pending[d] \in Session /\ pending[d] = origin[pending[d].id] /\ pending[d].conn = d
            BY <2>6 DEF IdsKnown, Identifying, Anchored, TypeOK
        <3>2. pending[d].id # x.id \/ x.id \in resumed
            BY <2>5, <3>1
        <3>3. Indexed(pending[d])
            BY <2>6 DEF HeldIndexed
        <3>4. x.id = pending[d].id => pending[d].id \in resumed'
            BY <2>1, <3>2
        <3>5. pending'[d] = pending[d]
            BY <2>1
        <3> QED BY <2>4, <3>1, <3>3, <3>4, <3>5 DEF Indexed, Listed
    <2>7. ASSUME NEW d \in Conns \ {c}, session[d] # None, pc[d] \notin Departed
          PROVE  Indexed(session[d])'
        <3>1. session[d] \in Session /\ session[d].conn = d
              /\ (session[d].id \in resumed \/ session[d] = origin[session[d].id])
            BY <2>7 DEF SessionsKnown, Anchored, TypeOK
        <3>2. session[d].id = x.id => session[d].id \in resumed'
            BY <2>1, <2>5, <3>1
        <3>3. Indexed(session[d])
            BY <2>7 DEF HeldIndexed
        <3>4. session'[d] = session[d]
            BY <2>1
        <3> QED BY <2>4, <3>1, <3>2, <3>3, <3>4 DEF Indexed, Listed
    <2> QED BY <2>1, <2>6, <2>7 DEF HeldIndexed
<1>7. ASSUME NEW c \in Conns, RemoveEntry(c)
      PROVE  HeldIndexed'
    <2> DEFINE v == session[c].user
    <2>1. /\ UNCHANGED <<pending, session, resumed>>
          /\ \A d \in Conns \ {c} : UNCHANGED <<pc[d], pending[d], session[d]>>
          /\ pc'[c] = "timer"
          /\ user_sessions' = [user_sessions EXCEPT ![v] = None]
          /\ erased' = erased \cup (IF user_sessions[v] = None THEN {} ELSE user_sessions[v])
        BY <1>7 DEF RemoveEntry, TypeOK
    <2>2. \A x \in Session : Listed(x) => Listed(x)' \/ x.id \in erased'
        BY <2>1 DEF Listed, Session, TypeOK
    <2> QED BY <2>1, <2>2, QuietForIndexed DEF Departed
<1>8. ASSUME NEW s \in SessionIds, ExpireSession(s)
      PROVE  HeldIndexed'
    BY <1>8 DEF ExpireSession, HeldIndexed, Indexed, Listed
<1>9. CASE Crash
    BY <1>9 DEF Crash, HeldIndexed
<1> QED BY <1>1, <1>2, <1>3, <1>4, <1>5, <1>6, <1>7, <1>8, <1>9 DEF Next, Proceed, Request

(* The registry keeps nothing dead: an entry has a task that holds it, or  *)
(* is one a Resume has replaced or a failed query has dropped; the index   *)
(* of a user lists, but for resumed ids, what is registered or just being  *)
(* removed, however register() and remove() of several tasks interleave.   *)
(* And the index misses none of the sessions connections have, unless an   *)
(* erasure after the drop of the shard's lock took it.                     *)
THEOREM RegistryAlive == Spec => []RegistryMatchesTasks
<1>1. Init => IdsKnown /\ EntriesHeld /\ IndexAlive /\ SessionsKnown /\ HeldIndexed
    BY DEF Init, IdsKnown, EntriesHeld, IndexAlive, Identifying, SessionsKnown, HeldIndexed
<1>2. TypeOK /\ SessionsBelongToOwner /\ Anchored /\ ExclusiveUntilCleanup
          /\ IdsKnown /\ EntriesHeld /\ IndexAlive /\ SessionsKnown /\ HeldIndexed /\ [Next]_vars
      => IdsKnown' /\ EntriesHeld' /\ IndexAlive' /\ SessionsKnown' /\ HeldIndexed'
    BY NextIdsKnown, NextEntriesHeld, NextIndexAlive, NextSessionsKnown, NextHeldIndexed
<1>3. Init => Anchored
    BY DEF Init, Anchored
<1> QED BY <1>1, <1>2, <1>3, NextAnchored, TypeCorrect, OwnershipHolds, ExclusiveHolds,
           EntriesParts, PTL DEF Spec

-----------------------------------------------------------------------------
(* Nobody is left online.                                                  *)

Resuming == {"resume_del", "resume_insert", "resume_push", "resume_finish"}

(* Before the first Resume there is no trace of one.                       *)
ResumesCounted ==
    resumes = 0 => /\ resumed = {} /\ abandoned = {}
                   /\ \A c \in Conns : pc[c] \notin Resuming

(* Until its Identify is through, a task has no session to lose.           *)
NotYet == \A c \in Conns : pc[c] \in {"new", "identify_push", "identify_ready"} => session[c] = None

(* An entry retain() has left empty is about to be removed.                *)
EmptyErased ==
    \A u \in Users : user_sessions[u] = {} => \E c \in Conns : pc[c] = "erase" /\ session[c].user = u

(* What keeps a user from being announced offline.                         *)
Serving(c, u) ==
    \/ /\ pc[c] \in Registering \cup {"loop"}
       /\ \/ pending[c] # None /\ pending[c].user = u
          \/ session[c] # None /\ session[c].user = u
    \/ pc[c] \in Cleaning /\ session[c].user = u

(* ResumeGet counts, and the other steps of a Resume come after it.        *)
LEMMA NextResumesCounted == TypeOK /\ ResumesCounted /\ [Next]_vars => ResumesCounted'
<1> SUFFICES ASSUME TypeOK, ResumesCounted, [Next]_vars
             PROVE  ResumesCounted'
    OBVIOUS
<1> USE DEF Goto, registry, history, counters
<1>1. CASE UNCHANGED vars
    BY <1>1 DEF vars, ResumesCounted
<1>2. ASSUME NEW c \in Conns,
             \/ Connect(c) \/ Leave(c) \/ PresenceUpdate(c) \/ RegisterPush(c) \/ IdentifyReady(c)
             \/ CleanupStore(c) \/ RemoveSession(c) \/ RemoveRetain(c) \/ RemoveEntry(c)
             \/ OfflineTimer(c) \/ OfflineBroadcast(c)
      PROVE  ResumesCounted'
    <2>1. /\ UNCHANGED <<resumes, resumed, abandoned>>
          /\ \A d \in Conns \ {c} : pc'[d] = pc[d]
          /\ pc[c] \notin Resuming => pc'[c] \notin Resuming
        BY <1>2 DEF Connect, Leave, PresenceUpdate, RegisterPush, IdentifyReady, CleanupStore,
                    RemoveSession, RemoveRetain, RemoveEntry, OfflineTimer, OfflineBroadcast,
                    AfterLoop, Resuming, TypeOK
    <2> QED BY <2>1 DEF ResumesCounted
<1>3. ASSUME NEW c \in Conns, NEW u \in Users, NEW s \in SessionIds, Identify(c, u, s)
      PROVE  ResumesCounted'
    BY <1>3 DEF Identify, ResumesCounted, Resuming, TypeOK
<1>4. ASSUME NEW c \in Conns, NEW u \in Users, NEW s \in SessionIds, ResumeGet(c, u, s)
      PROVE  ResumesCounted'
    BY <1>4 DEF ResumeGet, ResumesCounted, TypeOK
<1>5. ASSUME NEW c \in Conns, ResumeDel(c) \/ ResumeInsert(c) \/ ResumeFinish(c)
      PROVE  ResumesCounted'
    <2>1. pc[c] \in Resuming /\ resumes' = resumes
        BY <1>5 DEF ResumeDel, ResumeInsert, ResumeFinish, Resuming
    <2> QED BY <2>1 DEF ResumesCounted
<1>6. ASSUME NEW s \in SessionIds, ExpireSession(s) PROVE ResumesCounted'
    BY <1>6 DEF ExpireSession, ResumesCounted
<1>7. CASE Crash
    BY <1>7 DEF Crash, ResumesCounted, Resuming
<1> QED BY <1>1, <1>2, <1>3, <1>4, <1>5, <1>6, <1>7 DEF Next, Proceed, Request

(* Identify asks that there be no session, and hands over its own last.    *)
LEMMA NextNotYet == TypeOK /\ NotYet /\ [Next]_vars => NotYet'
<1> SUFFICES ASSUME TypeOK, NotYet, [Next]_vars
             PROVE  NotYet'
    OBVIOUS
<1> USE DEF Goto, registry, history, counters
<1>1. CASE UNCHANGED vars
    BY <1>1 DEF vars, NotYet
<1>2. ASSUME NEW c \in Conns, Proceed(c)
      PROVE  NotYet'
    <2>1. \A d \in Conns \ {c} : pc'[d] = pc[d] /\ session'[d] = session[d]
        BY <1>2 DEF Proceed, RegisterPush, IdentifyReady, ResumeDel, ResumeInsert, ResumeFinish,
                    CleanupStore, RemoveSession, RemoveRetain, RemoveEntry, OfflineTimer,
                    OfflineBroadcast, TypeOK
    <2>2. pc'[c] \in {"new", "identify_push", "identify_ready"}
              => pc[c] = "identify_push" /\ session'[c] = session[c]
        BY <1>2 DEF Proceed, RegisterPush, IdentifyReady, ResumeDel, ResumeInsert, ResumeFinish,
                    CleanupStore, RemoveSession, RemoveRetain, RemoveEntry, OfflineTimer,
                    OfflineBroadcast, AfterLoop, TypeOK
    <2> QED BY <2>1, <2>2 DEF NotYet
<1>3. ASSUME NEW c \in Conns, Request(c)
      PROVE  NotYet'
    BY <1>3 DEF Request, Connect, Leave, PresenceUpdate, Identify, ResumeGet, AfterLoop, NotYet, TypeOK
<1>4. ASSUME NEW s \in SessionIds, ExpireSession(s) PROVE NotYet'
    BY <1>4 DEF ExpireSession, NotYet
<1>5. CASE Crash
    BY <1>5 DEF Crash, NotYet
<1> QED BY <1>1, <1>2, <1>3, <1>4, <1>5 DEF Next

(* Of the accesses of remove(), the second empties an entry on the way to  *)
(* the third; register() fills it again.                                   *)
LEMMA NextEmptyErased == TypeOK /\ EmptyErased /\ [Next]_vars => EmptyErased'
<1> SUFFICES ASSUME TypeOK, EmptyErased, [Next]_vars
             PROVE  EmptyErased'
    OBVIOUS
<1> USE DEF Goto, registry, history, counters
<1>1. CASE UNCHANGED vars
    BY <1>1 DEF vars, EmptyErased
<1>2. ASSUME NEW c \in Conns, Proceed(c) \/ Request(c), pc[c] # "erase", UNCHANGED user_sessions
      PROVE  EmptyErased'
    <2>1. \A d \in Conns \ {c} : pc'[d] = pc[d] /\ session'[d] = session[d]
        BY <1>2 DEF Proceed, RegisterPush, IdentifyReady, ResumeDel, ResumeInsert, ResumeFinish,
                    CleanupStore, RemoveSession, RemoveRetain, RemoveEntry, OfflineTimer,
                    OfflineBroadcast, Request, Connect, Leave, PresenceUpdate, Identify, ResumeGet, TypeOK
    <2> QED BY <1>2, <2>1 DEF EmptyErased
<1>3. ASSUME NEW c \in Conns, RegisterPush(c)
      PROVE  EmptyErased'
    <2> DEFINE x == pending[c]
    <2>1. /\ UNCHANGED session /\ pc[c] # "erase"
          /\ \A d \in Conns \ {c} : pc'[d] = pc[d]
          /\ PushId(x.user, x.id) /\ x \in Session
        BY <1>3 DEF RegisterPush, Registering, TypeOK
    <2>2. user_sessions'[x.user] # {} /\ \A u \in Users \ {x.user} : user_sessions'[u] = user_sessions[u]
        BY <2>1 DEF PushId, Session, TypeOK
    <2> QED BY <2>1, <2>2 DEF EmptyErased
<1>4. ASSUME NEW c \in Conns, RemoveRetain(c), ~ UNCHANGED user_sessions
      PROVE  EmptyErased'
    <2> DEFINE v == session[c].user
               left == user_sessions[v] \ {session[c].id}
    <2>1. /\ UNCHANGED session /\ pc[c] = "retain" /\ v \in Users
          /\ \A d \in Conns \ {c} : pc'[d] = pc[d]
          /\ user_sessions' = [user_sessions EXCEPT ![v] = left]
          /\ left = {} => pc'[c] = "erase"
        BY <1>4 DEF RemoveRetain, Cleaning, Session, TypeOK
    <2> QED BY <2>1 DEF EmptyErased, TypeOK
<1>5. ASSUME NEW c \in Conns, RemoveEntry(c)
      PROVE  EmptyErased'
    <2>1. /\ UNCHANGED session /\ session[c].user \in Users
          /\ \A d \in Conns \ {c} : pc'[d] = pc[d]
          /\ user_sessions' = [user_sessions EXCEPT ![session[c].user] = None]
          /\ None # {}
        BY <1>5, NoneIsNoIndex DEF RemoveEntry, Cleaning, Session, TypeOK
    <2> QED BY <2>1 DEF EmptyErased, TypeOK
<1>6. ASSUME NEW s \in SessionIds, ExpireSession(s) PROVE EmptyErased'
    BY <1>6 DEF ExpireSession, EmptyErased
<1>7. CASE Crash
    BY <1>7, NoneIsNoIndex DEF Crash, EmptyErased
<1>8. ASSUME NEW c \in Conns, Proceed(c) \/ Request(c), ~ RegisterPush(c), ~ RemoveEntry(c)
      PROVE  pc[c] # "erase" /\ (UNCHANGED user_sessions \/ RemoveRetain(c))
    BY <1>8 DEF Proceed, IdentifyReady, ResumeDel, ResumeInsert, ResumeFinish, CleanupStore,
                RemoveSession, RemoveRetain, OfflineTimer, OfflineBroadcast, Request, Connect, Leave,
                PresenceUpdate, Identify, ResumeGet
<1> QED BY <1>1, <1>2, <1>3, <1>4, <1>5, <1>6, <1>7, <1>8 DEF Next

(* OfflineSettles, told with Serving.                                      *)
LEMMA SettlesByServing ==
    OfflineSettles <=> (Undisturbed => \A u \in Users :
        announced[u] = "online" => \E c \in Conns : Serving(c, u))
BY DEF OfflineSettles, Present, Serving

(* A step of one task that goes on serving those it served.                *)
LEMMA QuietForServing ==
    ASSUME OfflineSettles, Undisturbed, NEW c \in Conns, UNCHANGED announced,
           \A d \in Conns \ {c} : UNCHANGED <<pc[d], pending[d], session[d]>>,
           \A u \in Users : Serving(c, u) => Serving(c, u)'
    PROVE  OfflineSettles'
<1>1. ASSUME NEW u \in Users, announced'[u] = "online"
      PROVE  \E d \in Conns : Serving(d, u)'
    <2>1. PICK d \in Conns : Serving(d, u)
        BY <1>1, SettlesByServing
    <2>2. CASE d = c
        BY <2>1, <2>2
    <2>3. CASE d # c
        BY <2>1, <2>3 DEF Serving
    <2> QED BY <2>2, <2>3
<1>2. OfflineSettles' <=> (Undisturbed' => \A u \in Users :
          announced'[u] = "online" => \E d \in Conns : Serving(d, u)')
    BY DEF OfflineSettles, Present, Serving
<1> QED BY <1>1, <1>2

(* A timer that finds the user's entry leaves the broadcast to another     *)
(* task: the one that is to remove the empty entry, or one whose id is     *)
(* still in it.                                                            *)
LEMMA AnotherServes ==
    ASSUME TypeOK, SessionsBelongToOwner, RegistryMatchesTasks, ResumesCounted, NotYet, EmptyErased,
           Undisturbed, NEW c \in Conns, pc[c] = "timer", NEW u \in Users, user_sessions[u] # None
    PROVE  \E d \in Conns \ {c} : Serving(d, u)
<1>1. resumed = {} /\ abandoned = {}
    BY DEF ResumesCounted, Undisturbed
<1>2. CASE user_sessions[u] = {}
    BY <1>2 DEF EmptyErased, Serving, Cleaning
<1>3. ASSUME NEW s \in user_sessions[u]
      PROVE  \E d \in Conns \ {c} : Serving(d, u)
    <2>1. s \in SessionIds /\ origin[s] # None /\ origin[s].user = u
        BY DEF SessionsBelongToOwner, TypeOK
    <2>2. sessions[s] = origin[s] \/ \E d \in Conns : pc[d] = "retain" /\ session[d].id = s
        BY <1>1 DEF RegistryMatchesTasks
    <2>3. ASSUME NEW d \in Conns, pc[d] = "retain", session[d].id = s
          PROVE  Serving(d, u) /\ d # c
        <3>1. session[d] # None /\ session[d].user = u
            BY <2>1, <2>3 DEF SessionsBelongToOwner, BelongsToOwner, Cleaning, TypeOK
        <3> QED BY <2>3, <3>1 DEF Serving, Cleaning
    <2>4. ASSUME sessions[s] = origin[s]
          PROVE  \E d \in Conns \ {c} : Serving(d, u)
        <3>1. PICK d \in Conns : Holds(d, sessions[s])
            BY <1>1, <2>1, <2>4 DEF RegistryMatchesTasks
        <3>2. CASE pending[d] = sessions[s]
            <4>1. pending[d] # None /\ pending[d].user = u /\ pc[d] \in Registering
                BY <2>1, <2>4, <3>2 DEF TypeOK
            <4>2. d # c
                BY <4>1 DEF Registering
            <4> QED BY <4>1, <4>2 DEF Serving
        <3>3. CASE session[d] = sessions[s] /\ pc[d] \notin Departed
            <4>1. session[d] # None /\ session[d].user = u /\ d # c
                BY <2>1, <2>4, <3>3 DEF Departed
            <4>2. pc[d] # "new" /\ pc[d] \in PcValues
                BY <4>1 DEF NotYet, TypeOK
            <4>3. pc[d] \in Registering \cup {"loop"} \/ pc[d] \in Cleaning
                BY <3>3, <4>2 DEF PcValues, Departed
            <4> QED BY <4>1, <4>3 DEF Serving
        <3> QED BY <3>1, <3>2, <3>3 DEF Holds
    <2> QED BY <2>2, <2>3, <2>4
<1> QED BY <1>2, <1>3

(* A user goes on being served until the last of his timers has found his  *)
(* entry gone and his offline broadcast is out.                            *)
LEMMA NextOfflineSettles ==
    TypeOK /\ SessionsBelongToOwner /\ RegistryMatchesTasks /\ ResumesCounted /\ NotYet
        /\ EmptyErased /\ OfflineSettles /\ [Next]_vars => OfflineSettles'
<1> SUFFICES ASSUME TypeOK, SessionsBelongToOwner, RegistryMatchesTasks, ResumesCounted, NotYet,
                    EmptyErased, OfflineSettles, [Next]_vars
             PROVE  OfflineSettles'
    OBVIOUS
<1> USE DEF Goto, registry, history, counters
<1>1. CASE UNCHANGED vars
    BY <1>1 DEF vars, OfflineSettles, Undisturbed, Present
<1>2. OfflineSettles' <=> (Undisturbed' => \A u \in Users :
          announced'[u] = "online" => \E d \in Conns : Serving(d, u)')
    BY DEF OfflineSettles, Present, Serving
<1>3. ASSUME NEW c \in Conns, Proceed(c) \/ Request(c)
      PROVE  \A d \in Conns \ {c} : UNCHANGED <<pc[d], pending[d], session[d]>>
    BY <1>3 DEF Proceed, RegisterPush, IdentifyReady, ResumeDel, ResumeInsert, ResumeFinish,
                CleanupStore, RemoveSession, RemoveRetain, RemoveEntry, OfflineTimer,
                OfflineBroadcast, Request, Connect, Leave, PresenceUpdate, Identify, ResumeGet, TypeOK
<1>4. ASSUME Undisturbed'
      PROVE  Undisturbed
    <2>1. resumes \in Nat /\ failures \in Nat /\ crashes \in Nat
        BY DEF TypeOK
    <2>2. CASE UNCHANGED vars
        BY <1>4, <2>2 DEF vars, Undisturbed
    <2>3. ASSUME NEW c \in Conns, Proceed(c)
          PROVE  UNCHANGED <<resumes, crashes>> /\ (UNCHANGED failures \/ failures' = failures + 1)
        BY <2>3 DEF Proceed, RegisterPush, IdentifyReady, ResumeDel, ResumeInsert, ResumeFinish,
                    CleanupStore, RemoveSession, RemoveRetain, RemoveEntry, OfflineTimer,
                    OfflineBroadcast, Publish, MayFail
    <2>4. ASSUME NEW c \in Conns, Request(c)
          PROVE  /\ UNCHANGED crashes
                 /\ UNCHANGED resumes \/ resumes' = resumes + 1
                 /\ UNCHANGED failures \/ failures' = failures + 1
        BY <2>4 DEF Request, Connect, Leave, PresenceUpdate, Identify, ResumeGet, Publish, MayFail
    <2>5. ASSUME NEW s \in SessionIds, ExpireSession(s)
          PROVE  UNCHANGED <<resumes, failures, crashes>>
        BY <2>5 DEF ExpireSession
    <2>6. CASE Crash
        BY <1>4, <2>1, <2>6 DEF Crash, Undisturbed
    <2> QED BY <1>4, <2>1, <2>2, <2>3, <2>4, <2>5, <2>6 DEF Next, Undisturbed
<1>5. SUFFICES ASSUME Undisturbed', Undisturbed
               PROVE  OfflineSettles'
    BY <1>2, <1>4
<1>6. ASSUME NEW c \in Conns,
             \/ Connect(c) \/ Leave(c) \/ RegisterPush(c) \/ CleanupStore(c)
             \/ RemoveSession(c) \/ RemoveRetain(c) \/ RemoveEntry(c)
      PROVE  OfflineSettles'
    <2>1. UNCHANGED <<announced, pending, session>>
        BY <1>6 DEF Connect, Leave, RegisterPush, CleanupStore, RemoveSession, RemoveRetain,
                    RemoveEntry
    <2>2. ASSUME NEW u \in Users, Serving(c, u)
          PROVE  Serving(c, u)'
        <3>1. \/ pc[c] \in Registering /\ pc'[c] \in Registering
              \/ pc[c] \in Cleaning /\ pc'[c] \in Cleaning
              \/ pc[c] = "loop" /\ pc'[c] = "store"
              \/ pc[c] = "loop" /\ session[c] = None
              \/ pc[c] = "new"
            BY <1>6 DEF Connect, Leave, RegisterPush, CleanupStore, RemoveSession, RemoveRetain,
                        RemoveEntry, AfterLoop, Registering, Cleaning, TypeOK
        <3>2. pc[c] = "loop" => pending[c] = None
            BY DEF Registering, TypeOK
        <3> QED BY <2>1, <2>2, <3>1, <3>2 DEF Serving, Registering, Cleaning
    <2>3. \A d \in Conns \ {c} : UNCHANGED <<pc[d], pending[d], session[d]>>
        BY <1>3, <1>6 DEF Proceed, Request
    <2> QED BY <1>5, <2>1, <2>2, <2>3, QuietForServing
<1>7. ASSUME NEW c \in Conns, NEW v \in Users, NEW s \in SessionIds, Identify(c, v, s)
      PROVE  OfflineSettles'
    <2>1. UNCHANGED announced /\ pc[c] = "loop" /\ session[c] = None /\ pending[c] = None
        BY <1>7 DEF Identify, Registering, TypeOK
    <2>2. \A u \in Users : ~ Serving(c, u)
        BY <2>1 DEF Serving, Cleaning
    <2>3. Request(c)
        BY <1>7 DEF Request
    <2> QED BY <1>3, <1>5, <2>1, <2>2, <2>3, QuietForServing
<1>8. ASSUME NEW c \in Conns, PresenceUpdate(c)
      PROVE  OfflineSettles'
    <2>0. PICK v \in Users : v = session[c].user
        BY <1>8 DEF PresenceUpdate, Session, TypeOK
    <2>1. /\ UNCHANGED <<pc, pending, session>>
          /\ pc[c] = "loop" /\ session[c] # None /\ UNCHANGED failures
          /\ \A u \in Users \ {v} : announced'[u] = announced[u]
        BY <1>5, <1>8, <2>0 DEF PresenceUpdate, Publish, MayFail, Undisturbed, TypeOK
    <2>2. Serving(c, v)'
        BY <2>0, <2>1 DEF Serving
    <2>3. ASSUME NEW u \in Users \ {v}, announced'[u] = "online"
          PROVE  \E d \in Conns : Serving(d, u)'
        <3>1. PICK d \in Conns : Serving(d, u)
            BY <1>5, <2>1, <2>3, SettlesByServing
        <3> QED BY <2>1, <3>1 DEF Serving
    <2> QED BY <1>2, <2>2, <2>3
<1>9. ASSUME NEW c \in Conns, IdentifyReady(c)
      PROVE  OfflineSettles'
    <2>0. /\ pc[c] = "identify_ready" /\ pending[c] \in Session /\ pending[c] # None
          /\ session[c] = None
        BY <1>9 DEF IdentifyReady, Registering, NotYet, TypeOK
    <2>1. PICK v \in Users : v = pending[c].user
        BY <2>0 DEF Session
    <2>2. /\ session'[c] = pending[c] /\ pc'[c] = "loop"
          /\ \A u \in Users \ {v} : announced'[u] = announced[u]
        BY <1>5, <1>9, <2>0, <2>1 DEF IdentifyReady, Publish, MayFail, Undisturbed, TypeOK
    <2>3. Serving(c, v)'
        BY <2>0, <2>1, <2>2 DEF Serving
    <2>4. ASSUME NEW u \in Users \ {v}, announced'[u] = "online"
          PROVE  \E d \in Conns : Serving(d, u)'
        <3>1. PICK d \in Conns : Serving(d, u)
            BY <1>5, <2>2, <2>4, SettlesByServing
        <3>2. d # c
            BY <2>0, <2>1, <2>4, <3>1 DEF Serving, Cleaning
        <3>3. UNCHANGED <<pc[d], pending[d], session[d]>>
            BY <1>3, <1>9, <3>2 DEF Proceed
        <3> QED BY <3>1, <3>3 DEF Serving
    <2> QED BY <1>2, <2>3, <2>4
<1>10. ASSUME NEW c \in Conns, OfflineTimer(c)
       PROVE  OfflineSettles'
    <2> DEFINE v == session[c].user
    <2>1. UNCHANGED <<announced, pending>> /\ pc[c] = "timer" /\ v \in Users
        BY <1>10 DEF OfflineTimer, Cleaning, Session, TypeOK
    <2>2. \A d \in Conns \ {c} : UNCHANGED <<pc[d], pending[d], session[d]>>
        BY <1>3, <1>10 DEF Proceed
    <2>3. CASE user_sessions[v] = None
        <3>1. UNCHANGED session /\ pc'[c] = "offline"
            BY <1>10, <2>3 DEF OfflineTimer, TypeOK
        <3>2. \A u \in Users : Serving(c, u) => Serving(c, u)'
            BY <2>1, <3>1 DEF Serving, Registering, Cleaning
        <3> QED BY <1>5, <2>1, <2>2, <3>2, QuietForServing
    <2>4. CASE user_sessions[v] # None
        <3>1. ASSUME NEW u \in Users, announced'[u] = "online"
              PROVE  \E d \in Conns \ {c} : Serving(d, u)
            <4>1. PICK d \in Conns : Serving(d, u)
                BY <1>5, <2>1, <3>1, SettlesByServing
            <4>2. d = c => u = v
                BY <2>1, <4>1 DEF Serving, Registering
            <4>3. \E e \in Conns \ {c} : Serving(e, v)
                BY <1>5, <2>1, <2>4, AnotherServes
            <4> QED BY <4>1, <4>2, <4>3
        <3>2. \A u \in Users : \A d \in Conns \ {c} : Serving(d, u) => Serving(d, u)'
            BY <2>2 DEF Serving
        <3> QED BY <1>2, <3>1, <3>2
    <2> QED BY <2>3, <2>4
<1>11. ASSUME NEW c \in Conns, OfflineBroadcast(c)
       PROVE  OfflineSettles'
    <2> DEFINE v == session[c].user
    <2>1. /\ announced' = [announced EXCEPT ![v] = "offline"]
          /\ pc[c] = "offline" /\ v \in Users
        BY <1>5, <1>11 DEF OfflineBroadcast, Publish, MayFail, Undisturbed, Cleaning, Session, TypeOK
    <2>2. \A d \in Conns \ {c} : UNCHANGED <<pc[d], pending[d], session[d]>>
        BY <1>3, <1>11 DEF Proceed
    <2>3. ASSUME NEW u \in Users, announced'[u] = "online"
          PROVE  \E d \in Conns : Serving(d, u)'
        <3>1. u # v /\ announced[u] = "online"
            BY <2>1, <2>3 DEF TypeOK
        <3>2. PICK d \in Conns : Serving(d, u)
            BY <1>5, <3>1, SettlesByServing
        <3>3. d # c
            BY <2>1, <3>1, <3>2 DEF Serving, Registering
        <3> QED BY <2>2, <3>2, <3>3 DEF Serving
    <2> QED BY <1>2, <2>3
<1>12. ASSUME NEW c \in Conns, ResumeDel(c) \/ ResumeInsert(c) \/ ResumeFinish(c)
       PROVE  FALSE
    BY <1>5, <1>12 DEF ResumeDel, ResumeInsert, ResumeFinish, ResumesCounted, Resuming, Undisturbed
<1>13. ASSUME NEW c \in Conns, NEW u \in Users, NEW s \in SessionIds, ResumeGet(c, u, s)
       PROVE  FALSE
    BY <1>5, <1>13 DEF ResumeGet, Undisturbed
<1>14. ASSUME NEW s \in SessionIds, ExpireSession(s) PROVE OfflineSettles'
    BY <1>14 DEF ExpireSession, OfflineSettles, Undisturbed, Present
<1>15. CASE Crash
    BY <1>5, <1>15 DEF Crash, Undisturbed
<1> QED BY <1>1, <1>6, <1>7, <1>8, <1>9, <1>10, <1>11, <1>12, <1>13, <1>14, <1>15
        DEF Next, Proceed, Request

(* Whoever was announced online has a connection, or a cleanup under way   *)
(* that tells the others: however many devices of however many users come  *)
(* and go, while no Resume, failure or crash has interfered.               *)
THEOREM OfflineTold == Spec => []OfflineSettles
<1>1. Init => ResumesCounted /\ NotYet /\ EmptyErased /\ OfflineSettles
    BY NoneIsNoIndex DEF Init, ResumesCounted, Resuming, NotYet, EmptyErased, OfflineSettles
<1> QED BY <1>1, NextResumesCounted, NextNotYet, NextEmptyErased, NextOfflineSettles,
           TypeCorrect, OwnershipHolds, RegistryAlive, PTL DEF Spec
=============================================================================
