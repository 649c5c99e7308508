----------------------------- MODULE Membership -----------------------------
(***************************************************************************)
(* Who belongs to a server: members, moderators, bans, invites, the owner  *)
(* and the member count, as the handlers of routes/servers.rs change them  *)
(* in PostgreSQL.                                                          *)
(*                                                                         *)
(* A handler is a sequence of SQL statements, given by the function named  *)
(* after it; a statement is an action.  Only use_invite opens a            *)
(* transaction; every other statement commits by itself, so requests       *)
(* interleave between any two.  The isolation level is PostgreSQL's        *)
(* default, READ COMMITTED: a statement reads what is committed when it    *)
(* begins, writers of one row wait for one another, and a writer that has  *)
(* waited goes on with the values it has read.  Row locks are not state of *)
(* their own: who holds one follows from where the requests stand.         *)
(*                                                                         *)
(* One server.  Of the roles it keeps whether a member is a moderator:     *)
(* holds one that is higher than @everyone and grants what the handlers    *)
(* ask for.                                                                *)
(***************************************************************************)
EXTENDS Naturals, FiniteSets

CONSTANTS
    Slots,        \* places for requests being served at once
    Users,
    Invites,      \* the nanoid!(8) codes the process can draw
    None,         \* absent: no request, no row, no owner since the server is gone
    UseLimits,    \* values of max_uses, 0 for no limit
    MaxRequests,  \* bound on the requests started
    MaxFailures   \* bound on statements that end in an error

ASSUME ConstantsAssumption ==
    /\ IsFiniteSet(Users)
    /\ None \notin Users
    /\ UseLimits \subseteq Nat
    /\ MaxRequests \in Nat
    /\ MaxFailures \in Nat

VARIABLES
    owner,         \* servers.owner_id, None once the server is deleted
    members,       \* server_members
    moderators,    \* members with a moderator's role in member_roles
    bans,          \* bans
    member_count,  \* servers.member_count
    invites,       \* invites[i]: a row of invites, or None
    request,       \* request[p]: the request served in slot p, or None
    counted,       \* counted[p]: what COUNT returned to the UPDATE in p
    races,         \* history: the kinds of race that have happened, see below
    started, failures  \* how much of each bound is used

rows     == <<owner, members, moderators, bans, member_count, invites>>
counters == <<started, failures>>
vars == <<rows, request, counted, races, counters>>

-----------------------------------------------------------------------------
(* Deviations: what a plausible slip in the code would make of the         *)
(* definition each is named after.  Nothing below uses them; they show     *)
(* that the properties depend on what the code does.                       *)

(* SELECT without FOR UPDATE.                                              *)
LockInvite_NoWait(p) ==
    /\ request[p] # None /\ request[p].at = "lock_invite"
    /\ invites[request[p].arg] # None
    /\ LET row == invites[request[p].arg]
       IN  row.limit > 0 => row.uses < row.limit
    /\ request' = [request EXCEPT ![p].at = "not_member"]
    /\ UNCHANGED <<rows, counted, races, counters>>

(* member_roles without ON DELETE CASCADE.                                 *)
Remove_KeepsRoles(u) == members' = members \ {u} /\ UNCHANGED moderators

(* The owner is not asked about before leaving.                            *)
leave_server_Unchecked ==
    [start         |-> "delete_member",
     delete_member |-> "count",
     count         |-> "set_count",
     set_count     |-> "end"]

(* A ban that does not remove the member.                                  *)
create_ban_KeepsMember ==
    [start            |-> "authorize",
     authorize        |-> "target_not_owner",
     target_not_owner |-> "hierarchy",
     hierarchy        |-> "insert_ban",
     insert_ban       |-> "count",
     count            |-> "set_count",
     set_count        |-> "end"]

(* A kick that does not set the count.                                     *)
kick_member_NoCount ==
    [start            |-> "authorize",
     authorize        |-> "target_not_owner",
     target_not_owner |-> "hierarchy",
     hierarchy        |-> "delete_member",
     delete_member    |-> "end"]

-----------------------------------------------------------------------------
(* The handlers: from each statement to the one after it.                  *)

kick_member ==
    [start            |-> "authorize",
     authorize        |-> "target_not_owner",
     target_not_owner |-> "hierarchy",
     hierarchy        |-> "delete_member",
     delete_member    |-> "count",
     count            |-> "set_count",
     set_count        |-> "end"]

leave_server ==
    [start            |-> "target_not_owner",
     target_not_owner |-> "delete_member",
     delete_member    |-> "count",
     count            |-> "set_count",
     set_count        |-> "end"]

create_ban ==
    [start            |-> "authorize",
     authorize        |-> "target_not_owner",
     target_not_owner |-> "hierarchy",
     hierarchy        |-> "remove_if_member",
     remove_if_member |-> "insert_ban",
     insert_ban       |-> "count",
     count            |-> "set_count",
     set_count        |-> "end"]

remove_ban ==
    [start      |-> "authorize",
     authorize  |-> "delete_ban",
     delete_ban |-> "end"]

(* The part of update_server that hands the server over.                   *)
transfer ==
    [start            |-> "actor_is_owner",
     actor_is_owner   |-> "target_is_member",
     target_is_member |-> "set_owner",
     set_owner        |-> "end"]

(* The part of update_member that replaces the roles: a moderator's role   *)
(* is taken, and given again if the request asks for it.                   *)
demote ==
    [start          |-> "require_member",
     require_member |-> "hierarchy",
     hierarchy      |-> "may_manage",
     may_manage     |-> "clear_roles",
     clear_roles    |-> "end"]

promote ==
    [start          |-> "require_member",
     require_member |-> "hierarchy",
     hierarchy      |-> "may_manage",
     may_manage     |-> "clear_roles",
     clear_roles    |-> "add_role",
     add_role       |-> "end"]

create_invite ==
    [start          |-> "require_member",
     require_member |-> "insert_invite",
     insert_invite  |-> "end"]

use_invite ==
    [start         |-> "lock_invite",
     lock_invite   |-> "not_member",
     not_member    |-> "not_banned",
     not_banned    |-> "insert_member",
     insert_member |-> "add_count",
     add_count     |-> "commit",
     commit        |-> "end"]

delete_invite ==
    [start         |-> "may_delete",
     may_delete    |-> "delete_invite",
     delete_invite |-> "end"]

delete_server ==
    [start          |-> "actor_is_owner",
     actor_is_owner |-> "delete_row",
     delete_row     |-> "cascade",
     cascade        |-> "end"]

-----------------------------------------------------------------------------
Handler ==
    [kick_member   |-> kick_member,   leave_server  |-> leave_server,
     create_ban    |-> create_ban,    remove_ban    |-> remove_ban,
     transfer      |-> transfer,      demote        |-> demote,
     promote       |-> promote,       create_invite |-> create_invite,
     use_invite    |-> use_invite,    delete_invite |-> delete_invite,
     delete_server |-> delete_server]

(* What the path and the body of each request name: a user, or an invite.  *)
Arguments(op) ==
    CASE op \in {"use_invite", "delete_invite"} -> Invites
      [] op \in {"create_invite", "delete_server"} -> {None}
      [] OTHER -> Users

Statements(op) == {Handler[op][s] : s \in DOMAIN Handler[op]} \ {"end"}

Request ==
    [op : DOMAIN Handler, actor : Users, arg : Users \cup Invites \cup {None},
     at : UNION {Statements(op) : op \in DOMAIN Handler}]

ASSUME NoneAssumption == None \notin Request

At(p, statement) == request[p] # None /\ request[p].at = statement

AtOneOf(p, statements) == request[p] # None /\ request[p].at \in statements

Actor(p)  == request[p].actor
Target(p) == request[p].arg

(* The statement has succeeded: on to the next one, or the response.       *)
Proceed(p) ==
    LET next == Handler[request[p].op][request[p].at]
    IN  request' = [request EXCEPT ![p] =
            IF next = "end" THEN None ELSE [@ EXCEPT !.at = next]]

(* An early return with an error; what a transaction has done is undone.   *)
Refuse(p) == request' = [request EXCEPT ![p] = None]

(* A statement that only reads, and the test of what it returns.           *)
Check(p, statement, passes) ==
    /\ At(p, statement)
    /\ IF passes THEN Proceed(p) ELSE Refuse(p)
    /\ UNCHANGED <<rows, counted, races, counters>>

(* Row locks.  A joiner locks the invite; with its uncommitted member it   *)
(* keeps the row of servers from being deleted (FOR KEY SHARE, by the      *)
(* foreign key); past its UPDATE of servers it keeps others from updating  *)
(* it.  A deleter of the server locks the row against all of them.         *)
HoldsInvite(p, i) ==
    AtOneOf(p, {"not_member", "not_banned", "insert_member", "add_count", "commit"})
        /\ Target(p) = i
HasInserted(p)   == AtOneOf(p, {"add_count", "commit"})
HoldsCount(p)    == At(p, "commit")
DeletesServer(p) == At(p, "cascade")

CanUpdateServer(p) == \A q \in Slots \ {p} : ~HoldsCount(q) /\ ~DeletesServer(q)
CanReferServer(p)  == \A q \in Slots \ {p} : ~DeletesServer(q)

(* DELETE FROM server_members, with ON DELETE CASCADE to member_roles.     *)
Remove(u) ==
    /\ members' = members \ {u}
    /\ moderators' = moderators \ {u}

(* The races the rows are exposed to.  "count": the members change while   *)
(* an UPDATE holds a COUNT it has not written.  "ban": a ban and a join *)
(* of one user, each past the other's check.  "transfer": a removal of a   *)
(* user and a transfer to that user, each past its check.                  *)
CountsStale(p) == \E q \in Slots \ {p} : At(q, "set_count")
JoinInFlight(u) ==
    \E q \in Slots : AtOneOf(q, {"insert_member", "add_count", "commit"}) /\ Actor(q) = u
BanInFlight(u) == \E q \in Slots : At(q, "insert_ban") /\ Target(q) = u
RemovalInFlight(u) ==
    \E q \in Slots :
        /\ AtOneOf(q, {"hierarchy", "delete_member", "remove_if_member"})
        /\ request[q].op \in {"kick_member", "leave_server", "create_ban"}
        /\ Target(q) = u
TransferInFlight(u) == \E q \in Slots : At(q, "set_owner") /\ Target(q) = u

Race(kind, happens) == IF happens THEN {kind} ELSE {}

RacesOfRemoval(p, u) ==
    Race("count", CountsStale(p)) \cup Race("transfer", TransferInFlight(u))

(* create_server has committed, and earlier requests have been served one  *)
(* at a time: the owner is a member, the count is right.                   *)
Init ==
    /\ owner \in Users
    /\ members \in {M \in SUBSET Users : owner \in M}
    /\ moderators \in SUBSET members
    /\ bans \in SUBSET (Users \ members)
    /\ member_count = Cardinality(members)
    /\ invites \in [Invites -> {None} \cup
           [inviter : {owner}, limit : UseLimits, uses : {0}]]
    /\ request = [p \in Slots |-> None]
    /\ counted = [p \in Slots |-> 0]
    /\ races = {}
    /\ started = 0 /\ failures = 0

-----------------------------------------------------------------------------
(* Checks.  require_permissions and check_role_hierarchy are a few reads   *)
(* each, of rows about the same two users: one step.                       *)

HasPermissions(u) == u = owner \/ u \in moderators

IsAuthorized(u) == u \in members /\ HasPermissions(u)

IsAbove(u, v) == u = owner \/ (u \in moderators /\ v \notin moderators)

Authorize(p)      == Check(p, "authorize", IsAuthorized(Actor(p)))
RequireMember(p)  == Check(p, "require_member", Actor(p) \in members)
TargetNotOwner(p) == Check(p, "target_not_owner", Target(p) # owner)
Hierarchy(p)      == Check(p, "hierarchy", IsAbove(Actor(p), Target(p)))
MayManage(p)      == Check(p, "may_manage", HasPermissions(Actor(p)))
ActorIsOwner(p)   == Check(p, "actor_is_owner", Actor(p) = owner)
TargetIsMember(p) == Check(p, "target_is_member", Target(p) \in members)
NotMember(p)      == Check(p, "not_member", Actor(p) \notin members)
NotBanned(p)      == Check(p, "not_banned", Actor(p) \notin bans)

MayDelete(p) ==
    Check(p, "may_delete",
          /\ invites[Target(p)] # None
          /\ Actor(p) = invites[Target(p)].inviter \/ IsAuthorized(Actor(p)))

Checks(p) ==
    \/ Authorize(p) \/ RequireMember(p) \/ TargetNotOwner(p) \/ Hierarchy(p)
    \/ MayManage(p) \/ ActorIsOwner(p) \/ TargetIsMember(p) \/ NotMember(p)
    \/ NotBanned(p) \/ MayDelete(p)

-----------------------------------------------------------------------------
(* Statements that write, of handlers without a transaction.               *)

(* kick_member and leave_server return 404 when no row was deleted.        *)
DeleteMember(p) ==
    /\ At(p, "delete_member")
    /\ IF Target(p) \in members
       THEN Proceed(p) /\ races' = races \cup RacesOfRemoval(p, Target(p))
       ELSE Refuse(p) /\ UNCHANGED races
    /\ Remove(Target(p))
    /\ UNCHANGED <<owner, bans, member_count, invites, counted, counters>>

(* create_ban does not look at the number of rows.                         *)
RemoveIfMember(p) ==
    /\ At(p, "remove_if_member")
    /\ Remove(Target(p))
    /\ races' = races \cup
           (IF Target(p) \in members THEN RacesOfRemoval(p, Target(p)) ELSE {})
    /\ Proceed(p)
    /\ UNCHANGED <<owner, bans, member_count, invites, counted, counters>>

(* The foreign key refuses a ban of a deleted server.                      *)
InsertBan(p) ==
    /\ At(p, "insert_ban")
    /\ CanReferServer(p)
    /\ IF owner = None
       THEN Refuse(p) /\ UNCHANGED <<bans, races>>
       ELSE /\ bans' = bans \cup {Target(p)}
            /\ races' = races \cup Race("ban", JoinInFlight(Target(p)))
            /\ Proceed(p)
    /\ UNCHANGED <<owner, members, moderators, member_count, invites, counted, counters>>

DeleteBan(p) ==
    /\ At(p, "delete_ban")
    /\ bans' = bans \ {Target(p)}
    /\ Proceed(p)
    /\ UNCHANGED <<owner, members, moderators, member_count, invites, counted, races, counters>>

(* UPDATE servers SET member_count = (SELECT COUNT ...): the count is      *)
(* of the members committed when the statement begins ...                  *)
Count(p) ==
    /\ At(p, "count")
    /\ counted' = [counted EXCEPT ![p] = Cardinality(members)]
    /\ Proceed(p)
    /\ UNCHANGED <<rows, races, counters>>

(* ... and is written once the row of servers is free.                     *)
SetCount(p) ==
    /\ At(p, "set_count")
    /\ CanUpdateServer(p)
    /\ member_count' = IF owner = None THEN member_count ELSE counted[p]
    /\ counted' = [counted EXCEPT ![p] = 0]
    /\ Proceed(p)
    /\ UNCHANGED <<owner, members, moderators, bans, invites, races, counters>>

SetOwner(p) ==
    /\ At(p, "set_owner")
    /\ CanUpdateServer(p)
    /\ owner' = IF owner = None THEN None ELSE Target(p)
    /\ races' = races \cup Race("transfer", RemovalInFlight(Target(p)))
    /\ Proceed(p)
    /\ UNCHANGED <<members, moderators, bans, member_count, invites, counted, counters>>

ClearRoles(p) ==
    /\ At(p, "clear_roles")
    /\ moderators' = moderators \ {Target(p)}
    /\ Proceed(p)
    /\ UNCHANGED <<owner, members, bans, member_count, invites, counted, races, counters>>

(* The foreign key refuses a role of a user who is no member.              *)
AddRole(p) ==
    /\ At(p, "add_role")
    /\ IF Target(p) \in members
       THEN moderators' = moderators \cup {Target(p)} /\ Proceed(p)
       ELSE UNCHANGED moderators /\ Refuse(p)
    /\ UNCHANGED <<owner, members, bans, member_count, invites, counted, races, counters>>

(* A fresh code.                                                           *)
InsertInvite(p) ==
    /\ At(p, "insert_invite")
    /\ CanReferServer(p)
    /\ IF owner = None
       THEN Refuse(p) /\ UNCHANGED invites
       ELSE \E i \in Invites, limit \in UseLimits :
               /\ invites[i] = None
               /\ \A q \in Slots : request[q] # None => request[q].arg # i
               /\ invites' = [invites EXCEPT
                      ![i] = [inviter |-> Actor(p), limit |-> limit, uses |-> 0]]
               /\ Proceed(p)
    /\ UNCHANGED <<owner, members, moderators, bans, member_count, counted, races, counters>>

DeleteInvite(p) ==
    /\ At(p, "delete_invite")
    /\ \A q \in Slots : ~HoldsInvite(q, Target(p))
    /\ invites' = [invites EXCEPT ![Target(p)] = None]
    /\ Proceed(p)
    /\ UNCHANGED <<owner, members, moderators, bans, member_count, counted, races, counters>>

Writes(p) ==
    \/ DeleteMember(p) \/ RemoveIfMember(p) \/ InsertBan(p) \/ DeleteBan(p)
    \/ Count(p) \/ SetCount(p) \/ SetOwner(p) \/ ClearRoles(p) \/ AddRole(p)
    \/ InsertInvite(p) \/ DeleteInvite(p)

-----------------------------------------------------------------------------
(* use_invite: one transaction.                                            *)

(* SELECT ... FOR UPDATE, and the tests of the row it returns.  The invite *)
(* may also have expired.                                                  *)
LockInvite(p) ==
    LET row == invites[Target(p)]
    IN  /\ At(p, "lock_invite")
        /\ \A q \in Slots \ {p} : ~HoldsInvite(q, Target(p))
        /\ \/ row # None /\ (row.limit > 0 => row.uses < row.limit) /\ Proceed(p)
           \/ Refuse(p)
        /\ UNCHANGED <<rows, counted, races, counters>>

(* INSERT INTO server_members: an uncommitted row with the same key is     *)
(* waited for, a committed one is an error, which rolls back.              *)
InsertMember(p) ==
    /\ At(p, "insert_member")
    /\ CanReferServer(p)
    /\ \A q \in Slots \ {p} : ~(HasInserted(q) /\ Actor(q) = Actor(p))
    /\ IF Actor(p) \in members THEN Refuse(p) ELSE Proceed(p)
    /\ UNCHANGED <<rows, counted, races, counters>>

(* UPDATE servers SET member_count = member_count + 1.                     *)
AddCount(p) ==
    /\ At(p, "add_count")
    /\ CanUpdateServer(p)
    /\ Proceed(p)
    /\ UNCHANGED <<rows, counted, races, counters>>

(* UPDATE invites, and COMMIT: member, count and use appear together.      *)
Commit(p) ==
    /\ At(p, "commit")
    /\ members' = members \cup {Actor(p)}
    /\ member_count' = member_count + 1
    /\ invites' = [invites EXCEPT ![Target(p)].uses = @ + 1]
    /\ races' = races \cup Race("count", CountsStale(p))
                      \cup Race("ban", BanInFlight(Actor(p)))
    /\ Proceed(p)
    /\ UNCHANGED <<owner, moderators, bans, counted, counters>>

Joins(p) == LockInvite(p) \/ InsertMember(p) \/ AddCount(p) \/ Commit(p)

-----------------------------------------------------------------------------
(* delete_server: one DELETE, whose cascade comes to the invites after the *)
(* row of servers is locked.                                               *)

DeleteRow(p) ==
    /\ At(p, "delete_row")
    /\ CanUpdateServer(p)
    /\ \A q \in Slots : ~HasInserted(q)
    /\ Proceed(p)
    /\ UNCHANGED <<rows, counted, races, counters>>

Cascade(p) ==
    /\ At(p, "cascade")
    /\ \A q \in Slots, i \in Invites : ~HoldsInvite(q, i)
    /\ owner' = None
    /\ members' = {} /\ moderators' = {} /\ bans' = {}
    /\ member_count' = 0
    /\ invites' = [i \in Invites |-> None]
    /\ Proceed(p)
    /\ UNCHANGED <<counted, races, counters>>

(* A joiner that holds its invite waits for the row of servers, the        *)
(* deleter for the invite: PostgreSQL aborts one of them.                  *)
BreakDeadlock(p, q) ==
    /\ DeletesServer(p)
    /\ At(q, "insert_member")
    /\ Refuse(p) \/ Refuse(q)
    /\ UNCHANGED <<rows, counted, races, counters>>

-----------------------------------------------------------------------------
(* A request arrives: leave_server is about its own sender.                *)
Start(p) ==
    /\ request[p] = None
    /\ started < MaxRequests
    /\ started' = started + 1
    /\ \E op \in DOMAIN Handler, u \in Users, arg \in Users \cup Invites \cup {None} :
          /\ arg \in Arguments(op)
          /\ op = "leave_server" => arg = u
          /\ request' = [request EXCEPT ![p] =
                [op |-> op, actor |-> u, arg |-> arg, at |-> Handler[op].start]]
    /\ UNCHANGED <<rows, counted, races, failures>>

(* A statement fails, or the connection is lost: the handler returns.      *)
Fail(p) ==
    /\ request[p] # None
    /\ failures < MaxFailures
    /\ failures' = failures + 1
    /\ counted' = [counted EXCEPT ![p] = 0]
    /\ Refuse(p)
    /\ UNCHANGED <<rows, races, started>>

Next ==
    \/ \E p \in Slots : Start(p) \/ Checks(p) \/ Writes(p) \/ Joins(p)
                           \/ DeleteRow(p) \/ Cascade(p) \/ Fail(p)
    \/ \E p, q \in Slots : BreakDeadlock(p, q)

Spec == Init /\ [][Next]_vars
-----------------------------------------------------------------------------
(* Properties.                                                             *)

Row == [inviter : Users, limit : UseLimits, uses : Nat]

(* Types; a moderator is a member, which the cascades and the foreign key  *)
(* of member_roles keep.                                                   *)
TypeOK ==
    /\ owner \in Users \cup {None}
    /\ members \subseteq Users
    /\ moderators \subseteq members
    /\ bans \subseteq Users
    /\ member_count \in Nat
    /\ invites \in [Invites -> Row \cup {None}]
    /\ counted \in [Slots -> Nat]
    /\ races \subseteq {"count", "ban", "transfer"}
    /\ started \in Nat /\ failures \in Nat
    /\ request \in [Slots -> Request \cup {None}]
    /\ \A p \in Slots : request[p] # None =>
          /\ request[p].arg \in Arguments(request[p].op)
          /\ request[p].at \in Statements(request[p].op)

(* "Wrap use_invite in a transaction with SELECT ... FOR UPDATE": however  *)
(* many users redeem an invite at once, no more join than it allows.       *)
UseLimitKept ==
    \A i \in Invites : invites[i] # None /\ invites[i].limit > 0
        => invites[i].uses <= invites[i].limit

(* The owner is a member: "Owner cannot leave", "Cannot kick the server    *)
(* owner", "Cannot ban the server owner", and a transfer goes to a member. *)
(* Each of them reads first and writes later; the only way around them is  *)
(* a transfer to the very user being removed, between read and write.      *)
OwnerIsMember ==
    owner # None /\ "transfer" \notin races => owner \in members

(* A ban lasts: a banned user is no member, unless the ban was set while   *)
(* that user's join was past its check, or the join committed between the  *)
(* two statements of create_ban.                                           *)
BannedAreOut ==
    "ban" \notin races => members \cap bans = {}

AllServed == \A p \in Slots : request[p] = None

(* Once all requests are served, the member count of a server is right, if *)
(* no handler failed half-way and no COUNT was overtaken by a change of    *)
(* members before it was written.                                          *)
CountSettles ==
    AllServed /\ owner # None /\ failures = 0 /\ "count" \notin races
        => member_count = Cardinality(members)
=============================================================================
