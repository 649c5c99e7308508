-------------------------- MODULE MembershipProofs --------------------------
(***************************************************************************)
(* Proofs about Membership, for any number of concurrent requests, users   *)
(* and invites: an invite admits no more users than it allows, and the     *)
(* owner of a server is one of its members.                                *)
(***************************************************************************)
EXTENDS Membership, FiniteSetTheorems, TLAPS

-----------------------------------------------------------------------------
(* Where a request can stand.                                              *)

HoldingStatements == {"not_member", "not_banned", "insert_member", "add_count", "commit"}
JoiningStatements == {"insert_member", "add_count", "commit"}
RemovingStatements == {"hierarchy", "delete_member", "remove_if_member"}
Removers == {"kick_member", "leave_server", "create_ban"}

(* What a handler's statement s and the one after it, n, tell about it.    *)
Placed(op, s, n) ==
    /\ n = "end" \/ n \in Statements(op)
    /\ n # "lock_invite"
    /\ s \in HoldingStatements \cup {"lock_invite", "delete_invite", "may_delete"}
           => op \in {"use_invite", "delete_invite"}
    /\ s \in {"set_owner", "insert_ban", "add_role"}
           => op \in {"transfer", "create_ban", "promote"}
    /\ n \in HoldingStatements => s \in HoldingStatements \cup {"lock_invite"}
    /\ s = "commit" => n = "end"
    /\ s \in {"delete_member", "remove_if_member"} => op \in Removers
    /\ op \in Removers /\ n \in RemovingStatements
           => s \in {"target_not_owner"} \cup RemovingStatements
    /\ n \in JoiningStatements => s \in {"not_banned", "insert_member", "add_count"}
    /\ n = "insert_ban" => s = "remove_if_member"
    /\ s = "insert_ban" => n # "insert_ban"
    /\ n = "set_owner" => s = "target_is_member"
    /\ s = "set_owner" => op = "transfer" /\ n = "end"

(* Every handler is placed so at each of its statements.                   *)
LEMMA HandlersPlaced ==
    ASSUME NEW op \in DOMAIN Handler, NEW s \in Statements(op)
    PROVE  Placed(op, s, Handler[op][s])
<1> USE DEF Placed, Statements, HoldingStatements, JoiningStatements, RemovingStatements,
            Removers, Handler
<1>1. CASE op = "kick_member"
    BY <1>1 DEF kick_member
<1>2. CASE op = "leave_server"
    BY <1>2 DEF leave_server
<1>3. CASE op = "create_ban"
    BY <1>3 DEF create_ban
<1>4. CASE op = "remove_ban"
    BY <1>4 DEF remove_ban
<1>5. CASE op = "transfer"
    BY <1>5 DEF transfer
<1>6. CASE op = "demote"
    BY <1>6 DEF demote
<1>7. CASE op = "promote"
    BY <1>7 DEF promote
<1>8. CASE op = "create_invite"
    BY <1>8 DEF create_invite
<1>9. CASE op = "use_invite"
    BY <1>9 DEF use_invite
<1>10. CASE op = "delete_invite"
    BY <1>10 DEF delete_invite
<1>11. CASE op = "delete_server"
    BY <1>11 DEF delete_server
<1>12. DOMAIN Handler = {"kick_member", "leave_server", "create_ban", "remove_ban",
                         "transfer", "demote", "promote", "create_invite",
                         "use_invite", "delete_invite", "delete_server"}
    OBVIOUS
<1> QED BY ONLY <1>1, <1>2, <1>3, <1>4, <1>5, <1>6, <1>7, <1>8, <1>9, <1>10, <1>11, <1>12,
             op \in DOMAIN Handler

(* The request in p leaves its statement: for the next one, or for good.   *)
Moves(p) == request[p] # None /\ (Proceed(p) \/ Refuse(p))

(* The part of TypeOK about requests.                                      *)
RequestsOK ==
    /\ request \in [Slots -> Request \cup {None}]
    /\ \A p \in Slots : request[p] # None =>
          /\ request[p].arg \in Arguments(request[p].op)
          /\ request[p].at \in Statements(request[p].op)

(* The request in p after a move, if it goes on: the same, placed next.    *)
GoesOn(p) ==
    /\ request[p] # None
    /\ request'[p].op = request[p].op
    /\ request'[p].actor = request[p].actor
    /\ request'[p].arg = request[p].arg
    /\ Placed(request[p].op, request[p].at, request'[p].at)
    /\ Proceed(p)

(* A move changes one slot, and keeps requests what they are.              *)
LEMMA MoveEffect ==
    ASSUME RequestsOK, NEW p \in Slots, Moves(p)
    PROVE  /\ RequestsOK'
           /\ \A q \in Slots \ {p} : request'[q] = request[q]
           /\ request'[p] # None => GoesOn(p)
<1> DEFINE r == request[p]
           n == Handler[r.op][r.at]
<1>1. r \in Request /\ r.at \in Statements(r.op) /\ r.arg \in Arguments(r.op)
    BY DEF RequestsOK, Moves
<1>2. Placed(r.op, r.at, n)
    BY <1>1, HandlersPlaced DEF Request
<1>3. CASE Refuse(p)
    <2>1. request' \in [Slots -> Request \cup {None}]
        BY <1>3 DEF RequestsOK, Refuse
    <2>2. \A q \in Slots \ {p} : request'[q] = request[q]
        BY <1>3 DEF RequestsOK, Refuse
    <2>3. request'[p] = None
        BY <1>3 DEF RequestsOK, Refuse
    <2> QED BY <2>1, <2>2, <2>3 DEF RequestsOK
<1>4. CASE Proceed(p) /\ n = "end"
    <2>1. request' = [request EXCEPT ![p] = None]
        BY <1>4 DEF Proceed
    <2> QED BY <2>1, <1>3 DEF Refuse
<1>5. CASE Proceed(p) /\ n # "end"
    <2> DEFINE moved == [r EXCEPT !.at = n]
    <2>1. request' = [request EXCEPT ![p] = moved]
        BY <1>5 DEF Proceed
    <2>2. n \in Statements(r.op)
        BY <1>2, <1>5 DEF Placed
    <2>3. n \in UNION {Statements(op) : op \in DOMAIN Handler}
        BY <1>1, <2>2 DEF Request
    <2>4. /\ moved \in Request /\ moved.at = n
          /\ moved.op = r.op /\ moved.actor = r.actor /\ moved.arg = r.arg
        BY <1>1, <2>3 DEF Request
    <2>5. /\ request' \in [Slots -> Request \cup {None}]
          /\ request'[p] = moved
          /\ \A q \in Slots \ {p} : request'[q] = request[q]
        BY <2>1, <2>4 DEF RequestsOK
    <2>6. RequestsOK'
        <3> SUFFICES ASSUME NEW q \in Slots, request'[q] # None
                     PROVE  /\ request'[q].arg \in Arguments(request'[q].op)
                            /\ request'[q].at \in Statements(request'[q].op)
            BY <2>5 DEF RequestsOK
        <3>1. CASE q = p
            BY <3>1, <1>1, <2>2, <2>4, <2>5
        <3>2. CASE q # p
            BY <3>2, <2>5 DEF RequestsOK
        <3> QED BY <3>1, <3>2
    <2> QED BY <1>1, <1>2, <1>5, <2>4, <2>5, <2>6 DEF GoesOn, Moves
<1> QED BY <1>3, <1>4, <1>5 DEF Moves
(* Every handler starts with a check, or by locking an invite.             *)
LEMMA FirstStatements ==
    ASSUME NEW op \in DOMAIN Handler
    PROVE  /\ Handler[op].start \in Statements(op)
           /\ Handler[op].start \notin
                 HoldingStatements \cup RemovingStatements \cup {"set_owner", "insert_ban", "set_count"}
<1> USE DEF Statements, HoldingStatements, RemovingStatements, Handler
<1>1. DOMAIN Handler = {"kick_member", "leave_server", "create_ban", "remove_ban",
                        "transfer", "demote", "promote", "create_invite",
                        "use_invite", "delete_invite", "delete_server"}
    OBVIOUS
<1>2. CASE op \in {"kick_member", "leave_server", "create_ban", "remove_ban"}
    BY <1>2 DEF kick_member, leave_server, create_ban, remove_ban
<1>3. CASE op \in {"transfer", "demote", "promote", "create_invite"}
    BY <1>3 DEF transfer, demote, promote, create_invite
<1>4. CASE op \in {"use_invite", "delete_invite", "delete_server"}
    BY <1>4 DEF use_invite, delete_invite, delete_server
<1> QED BY <1>1, <1>2, <1>3, <1>4

(* An arrival changes one free slot.                                       *)
LEMMA StartEffect ==
    ASSUME RequestsOK, NEW p \in Slots, Start(p)
    PROVE  /\ RequestsOK'
           /\ \A q \in Slots \ {p} : request'[q] = request[q]
           /\ request'[p].at
                 \notin HoldingStatements \cup RemovingStatements \cup {"set_owner", "insert_ban", "set_count"}
<1>1. PICK op \in DOMAIN Handler, u \in Users, arg \in Users \cup Invites \cup {None} :
          /\ arg \in Arguments(op)
          /\ request' = [request EXCEPT ![p] =
                [op |-> op, actor |-> u, arg |-> arg, at |-> Handler[op].start]]
    BY DEF Start
<1> DEFINE r == [op |-> op, actor |-> u, arg |-> arg, at |-> Handler[op].start]
<1>2. /\ Handler[op].start \in Statements(op)
      /\ Handler[op].start \notin
             HoldingStatements \cup RemovingStatements \cup {"set_owner", "insert_ban", "set_count"}
    BY FirstStatements
<1>3. Handler[op].start \in UNION {Statements(o) : o \in DOMAIN Handler}
    BY <1>2
<1>4. r \in Request
    BY <1>3 DEF Request
<1>5. /\ request' \in [Slots -> Request \cup {None}]
      /\ request'[p] = r
      /\ \A q \in Slots \ {p} : request'[q] = request[q]
    BY <1>1, <1>4 DEF RequestsOK
<1>6. RequestsOK'
    <2> SUFFICES ASSUME NEW q \in Slots, request'[q] # None
                 PROVE  /\ request'[q].arg \in Arguments(request'[q].op)
                        /\ request'[q].at \in Statements(request'[q].op)
        BY <1>5 DEF RequestsOK
    <2>1. CASE q = p
        BY <2>1, <1>1, <1>2, <1>5
    <2>2. CASE q # p
        BY <2>2, <1>5 DEF RequestsOK
    <2> QED BY <2>1, <2>2
<1> QED BY <1>2, <1>5, <1>6

(* Each other step moves one request.                                      *)
LEMMA StepsMove ==
    ASSUME Next
    PROVE  \E p \in Slots : Start(p) \/ Moves(p)
<1>1. ASSUME NEW p \in Slots, Checks(p)
      PROVE  Moves(p)
    BY <1>1 DEF Checks, Authorize, RequireMember, TargetNotOwner, Hierarchy, MayManage,
                ActorIsOwner, TargetIsMember, NotMember, NotBanned, MayDelete, Check, At, Moves
<1>2. ASSUME NEW p \in Slots, Writes(p)
      PROVE  Moves(p)
    BY <1>2 DEF Writes, DeleteMember, RemoveIfMember, InsertBan, DeleteBan, Count, SetCount,
                SetOwner, ClearRoles, AddRole, InsertInvite, DeleteInvite, At, Moves
<1>3. ASSUME NEW p \in Slots, Joins(p)
      PROVE  Moves(p)
    BY <1>3 DEF Joins, LockInvite, InsertMember, AddCount, Commit, At, Moves
<1>4. ASSUME NEW p \in Slots, DeleteRow(p) \/ Cascade(p) \/ Fail(p)
      PROVE  Moves(p)
    BY <1>4 DEF DeleteRow, Cascade, Fail, At, Moves
<1>5. ASSUME NEW p \in Slots, NEW q \in Slots, BreakDeadlock(p, q)
      PROVE  Moves(p) \/ Moves(q)
    BY <1>5 DEF BreakDeadlock, DeletesServer, At, Moves
<1> QED BY <1>1, <1>2, <1>3, <1>4, <1>5 DEF Next

(* Every step keeps the requests of their types.                           *)
LEMMA RequestsInvariant ==
    ASSUME RequestsOK, [Next]_vars
    PROVE  RequestsOK'
<1>1. CASE Next
    BY <1>1, StepsMove, StartEffect, MoveEffect
<1>2. CASE UNCHANGED vars
    BY <1>2 DEF vars, RequestsOK
<1> QED BY <1>1, <1>2

-----------------------------------------------------------------------------
(* The types of the rows.                                                  *)

RowsOK ==
    /\ owner \in Users \cup {None}
    /\ members \subseteq Users
    /\ moderators \subseteq members
    /\ bans \subseteq Users
    /\ member_count \in Nat
    /\ invites \in [Invites -> Row \cup {None}]
    /\ counted \in [Slots -> Nat]
    /\ races \subseteq {"count", "ban", "transfer"}
    /\ started \in Nat /\ failures \in Nat

(* TypeOK is the types of the rows and of the requests.                    *)
LEMMA TypeParts == TypeOK <=> RowsOK /\ RequestsOK
BY DEF TypeOK, RowsOK, RequestsOK

(* The number of a server's members is a natural number.                   *)
LEMMA MembersCounted ==
    ASSUME NEW M, M \subseteq Users
    PROVE  Cardinality(M) \in Nat
BY ConstantsAssumption, FS_Subset, FS_CardinalityType

(* What the request of a statement names.                                  *)
LEMMA Operands ==
    ASSUME RequestsOK, NEW p \in Slots, request[p] # None
    PROVE  /\ Actor(p) \in Users
           /\ request[p].op \in DOMAIN Handler
           /\ AtOneOf(p, HoldingStatements \cup {"lock_invite", "delete_invite", "may_delete"})
                 => Target(p) \in Invites
           /\ AtOneOf(p, {"set_owner", "insert_ban", "add_role"}) => Target(p) \in Users
<1>1. request[p] \in Request /\ request[p].arg \in Arguments(request[p].op)
      /\ request[p].at \in Statements(request[p].op)
    BY DEF RequestsOK
<1>2. Placed(request[p].op, request[p].at, Handler[request[p].op][request[p].at])
    BY <1>1, HandlersPlaced DEF Request
<1> QED BY <1>1, <1>2 DEF Request, Placed, Actor, Target, AtOneOf, Arguments
(* The lock of an invite's row: one request at a time is between the lock  *)
(* and the end of its transaction ...                                      *)
OneHolder ==
    \A p, q \in Slots, i \in Invites : HoldsInvite(p, i) /\ HoldsInvite(q, i) => p = q

(* ... and what it has read of the row is still so: one use is left.       *)
HeldAdmits ==
    \A p \in Slots, i \in Invites : HoldsInvite(p, i) =>
        invites[i] # None /\ (invites[i].limit > 0 => invites[i].uses < invites[i].limit)

(* Each step keeps the types of the rows; COMMIT, as the invite is there.  *)
LEMMA RowsInvariant ==
    ASSUME RowsOK, RequestsOK, HeldAdmits, Next
    PROVE  RowsOK'
<1> USE DEF RowsOK
<1>1. ASSUME NEW p \in Slots, Start(p)
      PROVE  RowsOK'
    BY <1>1 DEF Start, rows
<1>2. ASSUME NEW p \in Slots, Checks(p)
      PROVE  RowsOK'
    BY <1>2 DEF Checks, Authorize, RequireMember, TargetNotOwner, Hierarchy, MayManage,
                ActorIsOwner, TargetIsMember, NotMember, NotBanned, MayDelete, Check,
                rows, counters
<1>3. ASSUME NEW p \in Slots, Writes(p)
      PROVE  RowsOK'
    <2> USE DEF At, AtOneOf, counters
    <2>1. CASE DeleteMember(p)
        BY <2>1 DEF DeleteMember, Remove, RacesOfRemoval, Race
    <2>2. CASE RemoveIfMember(p)
        BY <2>2 DEF RemoveIfMember, Remove, RacesOfRemoval, Race
    <2>3. CASE InsertBan(p)
        BY <2>3, Operands DEF InsertBan, Race
    <2>4. CASE DeleteBan(p)
        BY <2>4 DEF DeleteBan
    <2>5. CASE Count(p)
        <3>1. Cardinality(members) \in Nat
            BY MembersCounted
        <3> QED BY <2>5, <3>1 DEF Count, rows
    <2>6. CASE SetCount(p)
        BY <2>6 DEF SetCount
    <2>7. CASE SetOwner(p)
        BY <2>7, Operands DEF SetOwner, Race
    <2>8. CASE ClearRoles(p)
        BY <2>8 DEF ClearRoles
    <2>9. CASE AddRole(p)
        BY <2>9 DEF AddRole
    <2>10. CASE InsertInvite(p)
        <3>1. CASE owner = None
            BY <2>10, <3>1 DEF InsertInvite
        <3>2. CASE owner # None
            <4>1. PICK i \in Invites, limit \in UseLimits :
                      invites' = [invites EXCEPT
                          ![i] = [inviter |-> Actor(p), limit |-> limit, uses |-> 0]]
                BY <2>10, <3>2 DEF InsertInvite
            <4>2. [inviter |-> Actor(p), limit |-> limit, uses |-> 0] \in Row
                BY <2>10, Operands DEF InsertInvite, Row
            <4>3. invites' \in [Invites -> Row \cup {None}]
                BY <4>1, <4>2
            <4> QED BY <2>10, <4>3 DEF InsertInvite
        <3> QED BY <3>1, <3>2
    <2>11. CASE DeleteInvite(p)
        BY <2>11 DEF DeleteInvite
    <2> QED BY <1>3, <2>1, <2>2, <2>3, <2>4, <2>5, <2>6, <2>7, <2>8, <2>9, <2>10, <2>11
            DEF Writes
<1>4. ASSUME NEW p \in Slots, Joins(p)
      PROVE  RowsOK'
    <2>1. CASE LockInvite(p) \/ InsertMember(p) \/ AddCount(p)
        BY <2>1 DEF LockInvite, InsertMember, AddCount, rows, counters
    <2>2. CASE Commit(p)
        <3>1. Actor(p) \in Users
            BY <2>2, Operands DEF Commit, At
        <3> DEFINE i == Target(p)
        <3>2. i \in Invites /\ invites[i] \in Row
            BY <2>2, Operands DEF Commit, At, AtOneOf, HoldingStatements, HeldAdmits, HoldsInvite
        <3>3. [invites[i] EXCEPT !.uses = @ + 1] \in Row
            BY <3>2 DEF Row
        <3>4. invites' \in [Invites -> Row \cup {None}]
            BY <2>2, <3>3 DEF Commit
        <3> QED BY <2>2, <3>1, <3>4 DEF Commit, Race, counters
    <2> QED BY <1>4, <2>1, <2>2 DEF Joins
<1>5. ASSUME NEW p \in Slots, DeleteRow(p) \/ Cascade(p) \/ Fail(p)
      PROVE  RowsOK'
    <2>1. CASE DeleteRow(p)
        BY <2>1 DEF DeleteRow, rows, counters
    <2>3. CASE Fail(p)
        BY <2>3 DEF Fail, rows
    <2>2. CASE Cascade(p)
        <3>1. invites' \in [Invites -> Row \cup {None}]
            BY <2>2 DEF Cascade
        <3> QED BY <2>2, <3>1 DEF Cascade, counters
    <2> QED BY <1>5, <2>1, <2>2, <2>3
<1>6. ASSUME NEW p \in Slots, NEW q \in Slots, BreakDeadlock(p, q)
      PROVE  RowsOK'
    BY <1>6 DEF BreakDeadlock, rows, counters
<1> QED BY <1>1, <1>2, <1>3, <1>4, <1>5, <1>6 DEF Next
-----------------------------------------------------------------------------
(* The invites.                                                            *)

InvitesInv == OneHolder /\ HeldAdmits /\ UseLimitKept

(* Only use_invite holds invites: past a move its request does so if it    *)
(* did before, or has just locked one.                                     *)
LEMMA HoldersMove ==
    ASSUME RequestsOK, NEW p \in Slots, Moves(p)
    PROVE  \A q \in Slots, i \in Invites : HoldsInvite(q, i)' =>
               HoldsInvite(q, i) \/ (q = p /\ At(p, "lock_invite") /\ Target(p) = i /\ Proceed(p))
BY MoveEffect DEF GoesOn, Placed, HoldsInvite, HoldingStatements, AtOneOf, At, Target

(* With the invites as they were and no lock taken, nothing can change.    *)
LEMMA QuietForInvites ==
    ASSUME RequestsOK, InvitesInv, NEW p \in Slots, Moves(p), UNCHANGED invites,
           ~At(p, "lock_invite") \/ Refuse(p)
    PROVE  InvitesInv'
<1>1. \A q \in Slots, i \in Invites : HoldsInvite(q, i)' => HoldsInvite(q, i)
    <2>1. CASE ~At(p, "lock_invite")
        BY <2>1, HoldersMove
    <2>2. CASE Refuse(p)
        BY <2>2 DEF Refuse, RequestsOK, HoldsInvite, AtOneOf, Target
    <2> QED BY <2>1, <2>2
<1> QED BY <1>1 DEF InvitesInv, OneHolder, HeldAdmits, UseLimitKept
(* Each step keeps the invites' invariant.                                 *)
LEMMA InvitesInvariant ==
    ASSUME RowsOK, RequestsOK, InvitesInv, Next
    PROVE  InvitesInv'
<1>1. ASSUME NEW p \in Slots, Start(p)
      PROVE  InvitesInv'
    <2>1. \A q \in Slots, i \in Invites : HoldsInvite(q, i)' => HoldsInvite(q, i)
        BY <1>1, StartEffect DEF HoldsInvite, HoldingStatements, AtOneOf, Target
    <2>2. UNCHANGED invites
        BY <1>1 DEF Start, rows
    <2> QED BY <2>1, <2>2 DEF InvitesInv, OneHolder, HeldAdmits, UseLimitKept
<1>2. ASSUME NEW p \in Slots, Checks(p)
      PROVE  InvitesInv'
    <2>1. Moves(p) /\ UNCHANGED invites /\ ~At(p, "lock_invite")
        BY <1>2 DEF Checks, Authorize, RequireMember, TargetNotOwner, Hierarchy, MayManage,
                    ActorIsOwner, TargetIsMember, NotMember, NotBanned, MayDelete, Check,
                    rows, At, Moves
    <2> QED BY <2>1, QuietForInvites
<1>3. ASSUME NEW p \in Slots, Writes(p)
      PROVE  InvitesInv'
    <2>0. Moves(p) /\ ~At(p, "lock_invite")
        BY <1>3 DEF Writes, DeleteMember, RemoveIfMember, InsertBan, DeleteBan, Count,
                    SetCount, SetOwner, ClearRoles, AddRole, InsertInvite, DeleteInvite,
                    At, Moves
    <2>1. CASE UNCHANGED invites
        BY <2>0, <2>1, QuietForInvites
    <2>2. \A q \in Slots, i \in Invites : HoldsInvite(q, i)' => HoldsInvite(q, i)
        BY <2>0, HoldersMove
    <2>3. CASE InsertInvite(p) /\ owner # None
        <3>1. PICK i \in Invites, limit \in UseLimits :
                  /\ invites[i] = None
                  /\ invites' = [invites EXCEPT
                         ![i] = [inviter |-> Actor(p), limit |-> limit, uses |-> 0]]
            BY <2>3 DEF InsertInvite
        <3> DEFINE row == [inviter |-> Actor(p), limit |-> limit, uses |-> 0]
        <3>2. /\ invites'[i] = row
              /\ \A j \in Invites \ {i} : invites'[j] = invites[j]
            BY <3>1 DEF RowsOK
        <3>3. row.uses <= row.limit
            BY ConstantsAssumption
        <3>4. \A q \in Slots : ~HoldsInvite(q, i)'
            BY <2>2, <3>1 DEF InvitesInv, HeldAdmits
        <3>5. OneHolder' /\ HeldAdmits'
            BY <2>2, <3>2, <3>4 DEF InvitesInv, OneHolder, HeldAdmits
        <3>6. UseLimitKept'
            BY <3>2, <3>3 DEF InvitesInv, UseLimitKept
        <3> QED BY <3>5, <3>6 DEF InvitesInv
    <2>4. CASE DeleteInvite(p)
        <3>1. Target(p) \in Invites
            BY <2>4, Operands DEF DeleteInvite, At, AtOneOf
        <3>2. /\ invites'[Target(p)] = None
              /\ \A j \in Invites \ {Target(p)} : invites'[j] = invites[j]
            BY <2>4, <3>1 DEF DeleteInvite, RowsOK
        <3>3. \A q \in Slots : ~HoldsInvite(q, Target(p))
            BY <2>4 DEF DeleteInvite
        <3>4. OneHolder' /\ HeldAdmits'
            BY <2>2, <3>2, <3>3 DEF InvitesInv, OneHolder, HeldAdmits
        <3>5. UseLimitKept'
            BY <3>2 DEF InvitesInv, UseLimitKept
        <3> QED BY <3>4, <3>5 DEF InvitesInv
    <2> QED BY <1>3, <2>1, <2>3, <2>4
            DEF Writes, DeleteMember, RemoveIfMember, InsertBan, DeleteBan, Count, SetCount,
                SetOwner, ClearRoles, AddRole, InsertInvite, rows
<1>4. ASSUME NEW p \in Slots, Joins(p)
      PROVE  InvitesInv'
    <2>0. Moves(p)
        BY <1>4 DEF Joins, LockInvite, InsertMember, AddCount, Commit, At, Moves
    <2>1. CASE InsertMember(p) \/ AddCount(p)
        <3>1. UNCHANGED invites /\ ~At(p, "lock_invite")
            BY <2>1 DEF InsertMember, AddCount, rows, At
        <3> QED BY <2>0, <3>1, QuietForInvites
    <2>2. CASE LockInvite(p) /\ Refuse(p)
        BY <2>0, <2>2, QuietForInvites DEF LockInvite, rows
    <2>3. CASE LockInvite(p) /\ Proceed(p)
        <3> DEFINE i == Target(p)
        <3>1. UNCHANGED invites
            BY <2>3 DEF LockInvite, rows
        <3>2. \A q \in Slots \ {p} : ~HoldsInvite(q, i)
            BY <2>3 DEF LockInvite
        <3>3. Refuse(p) \/ (invites[i] # None
                            /\ (invites[i].limit > 0 => invites[i].uses < invites[i].limit))
            BY <2>3 DEF LockInvite
        <3>4. CASE Refuse(p)
            BY <2>0, <3>1, <3>4, QuietForInvites
        <3>5. CASE invites[i] # None
                   /\ (invites[i].limit > 0 => invites[i].uses < invites[i].limit)
            <4>1. \A q \in Slots, j \in Invites :
                      HoldsInvite(q, j)' => HoldsInvite(q, j) \/ (q = p /\ j = i)
                BY <2>0, HoldersMove
            <4>2. ~HoldsInvite(p, i)
                BY <2>3 DEF LockInvite, HoldsInvite, At, AtOneOf
            <4>3. \A j \in Invites : ~HoldsInvite(p, j)
                BY <2>3 DEF LockInvite, HoldsInvite, At, AtOneOf
            <4>4. OneHolder'
                BY <3>2, <4>1, <4>3 DEF InvitesInv, OneHolder
            <4>5. HeldAdmits' /\ UseLimitKept'
                BY <3>1, <3>5, <4>1 DEF InvitesInv, HeldAdmits, UseLimitKept
            <4> QED BY <4>4, <4>5 DEF InvitesInv
        <3> QED BY <3>3, <3>4, <3>5
    <2>4. CASE Commit(p)
        <3> DEFINE i == Target(p)
        <3>1. i \in Invites /\ HoldsInvite(p, i)
            BY <2>4, Operands DEF Commit, At, AtOneOf, HoldingStatements, HoldsInvite
        <3>2. invites[i] \in Row /\ (invites[i].limit > 0 => invites[i].uses < invites[i].limit)
            BY <3>1 DEF InvitesInv, HeldAdmits, RowsOK
        <3>3. /\ invites'[i] = [invites[i] EXCEPT !.uses = @ + 1]
              /\ \A j \in Invites \ {i} : invites'[j] = invites[j]
            BY <2>4, <3>1 DEF Commit, RowsOK
        <3>4. \A j \in Invites : ~HoldsInvite(p, j)'
            BY <2>0, <2>4, MoveEffect
            DEF Commit, GoesOn, Placed, HoldsInvite, At, AtOneOf, Statements
        <3>5. \A q \in Slots, j \in Invites :
                  HoldsInvite(q, j)' => q # p /\ j # i /\ HoldsInvite(q, j)
            BY <2>0, <2>4, <3>1, <3>4, HoldersMove DEF Commit, At, InvitesInv, OneHolder
        <3>6. OneHolder' /\ HeldAdmits'
            BY <3>3, <3>5 DEF InvitesInv, OneHolder, HeldAdmits
        <3>7. invites'[i].limit > 0 => invites'[i].uses <= invites'[i].limit
            BY <3>2, <3>3, ConstantsAssumption DEF Row
        <3>8. UseLimitKept'
            BY <3>3, <3>7 DEF InvitesInv, UseLimitKept
        <3> QED BY <3>6, <3>8 DEF InvitesInv
    <2> QED BY <1>4, <2>1, <2>2, <2>3, <2>4 DEF Joins, LockInvite
<1>5. ASSUME NEW p \in Slots, DeleteRow(p) \/ Fail(p)
      PROVE  InvitesInv'
    <2>1. Moves(p) /\ UNCHANGED invites /\ (~At(p, "lock_invite") \/ Refuse(p))
        BY <1>5 DEF DeleteRow, Fail, rows, At, Moves
    <2> QED BY <2>1, QuietForInvites
<1>6. ASSUME NEW p \in Slots, Cascade(p)
      PROVE  InvitesInv'
    <2>1. Moves(p) /\ ~At(p, "lock_invite")
        BY <1>6 DEF Cascade, At, Moves
    <2>2. \A q \in Slots, i \in Invites : ~HoldsInvite(q, i)'
        BY <1>6, <2>1, HoldersMove DEF Cascade
    <2>3. \A i \in Invites : invites'[i] = None
        BY <1>6 DEF Cascade
    <2> QED BY <2>2, <2>3 DEF InvitesInv, OneHolder, HeldAdmits, UseLimitKept
<1>7. ASSUME NEW p \in Slots, NEW q \in Slots, BreakDeadlock(p, q)
      PROVE  InvitesInv'
    <2>1. /\ UNCHANGED invites
          /\ (Moves(p) /\ Refuse(p)) \/ (Moves(q) /\ Refuse(q))
        BY <1>7 DEF BreakDeadlock, DeletesServer, rows, At, Moves
    <2> QED BY <2>1, QuietForInvites
<1> QED BY <1>1, <1>2, <1>3, <1>4, <1>5, <1>6, <1>7 DEF Next
-----------------------------------------------------------------------------
(* The owner.                                                              *)

(* Past its check, a transfer's target stays a member, or there is a race. *)
TransferFits ==
    \A p \in Slots : At(p, "set_owner") /\ owner # None => Target(p) \in members

(* Past its check, a removal's target is not made owner, or there is one.  *)
RemovalSparesOwner ==
    \A p \in Slots :
        AtOneOf(p, RemovingStatements) /\ request[p].op \in Removers => Target(p) # owner

OwnerInv ==
    "transfer" \in races \/ owner = None
        \/ (owner \in members /\ TransferFits /\ RemovalSparesOwner)

(* The owner's invariant implies what is wanted of it.                     *)
LEMMA OwnerInvSuffices == OwnerInv => OwnerIsMember
BY DEF OwnerInv, OwnerIsMember

(* Who comes to the statements that need a check, and from where.          *)
LEMMA CheckedMove ==
    ASSUME RequestsOK, NEW p \in Slots, Moves(p)
    PROVE  \A q \in Slots :
              /\ At(q, "set_owner")' =>
                    \/ q # p /\ At(q, "set_owner") /\ Target(q)' = Target(q)
                    \/ q = p /\ At(p, "target_is_member") /\ Proceed(p) /\ Target(p)' = Target(p)
              /\ (AtOneOf(q, RemovingStatements) /\ request[q].op \in Removers)' =>
                    \/ AtOneOf(q, RemovingStatements) /\ request[q].op \in Removers
                          /\ Target(q)' = Target(q)
                    \/ q = p /\ At(p, "target_not_owner") /\ Proceed(p)
                          /\ Target(p)' = Target(p)
BY MoveEffect DEF GoesOn, Placed, AtOneOf, At, Target, RemovingStatements

(* A step that leaves the owner, and takes no member, is harmless, if the  *)
(* checks it passes are those of the code.                                 *)
LEMMA QuietForOwner ==
    ASSUME RequestsOK, OwnerInv, NEW p \in Slots, Moves(p), UNCHANGED owner,
           members \subseteq members', races \subseteq races',
           At(p, "target_is_member") /\ Proceed(p) => Target(p) \in members,
           At(p, "target_not_owner") /\ Proceed(p) => Target(p) # owner
    PROVE  OwnerInv'
<1>1. CASE "transfer" \in races \/ owner = None
    BY <1>1 DEF OwnerInv
<1>2. CASE owner \in members /\ TransferFits /\ RemovalSparesOwner /\ owner # None
    <2>1. TransferFits'
        BY <1>2, CheckedMove DEF TransferFits
    <2>2. RemovalSparesOwner'
        BY <1>2, CheckedMove DEF RemovalSparesOwner
    <2> QED BY <1>2, <2>1, <2>2 DEF OwnerInv
<1> QED BY <1>1, <1>2 DEF OwnerInv

(* An error on the way takes a request from the invariant.                 *)
LEMMA RefusalKeepsOwner ==
    ASSUME RequestsOK, OwnerInv, NEW p \in Slots, request[p] # None, Refuse(p),
           UNCHANGED <<owner, members, races>>
    PROVE  OwnerInv'
<1>1. \A q \in Slots : request'[q] # None => request'[q] = request[q]
    BY DEF Refuse, RequestsOK
<1> QED BY <1>1 DEF OwnerInv, TransferFits, RemovalSparesOwner, At, AtOneOf, Target

(* The removal of a user past the check, by p: there is a race, or the     *)
(* user is neither the owner nor about to become it.                       *)
LEMMA RemovalKeepsOwner ==
    ASSUME RequestsOK, OwnerInv, NEW p \in Slots, Moves(p), UNCHANGED owner,
           AtOneOf(p, {"delete_member", "remove_if_member"}),
           members' = members \ {Target(p)},
           \/ Target(p) \notin members /\ races' = races
           \/ races' = races \cup RacesOfRemoval(p, Target(p))
    PROVE  OwnerInv'
<1>1. request[p].op \in Removers /\ AtOneOf(p, RemovingStatements)
      /\ ~At(p, "target_is_member") /\ ~At(p, "target_not_owner")
    <2>1. Placed(request[p].op, request[p].at, Handler[request[p].op][request[p].at])
        BY HandlersPlaced DEF RequestsOK, Request, Moves
    <2> QED BY <2>1 DEF Placed, AtOneOf, At, RemovingStatements
<1>2. races \subseteq races'
    OBVIOUS
<1>3. CASE Target(p) \notin members
    <2>1. members \subseteq members'
        BY <1>3
    <2> QED BY <1>1, <1>2, <2>1, QuietForOwner
<1>4. CASE "transfer" \in races \/ owner = None
    BY <1>2, <1>4 DEF OwnerInv
<1>5. CASE /\ Target(p) \in members /\ owner # None
           /\ owner \in members /\ TransferFits /\ RemovalSparesOwner
    <2>1. owner \in members'
        BY <1>1, <1>5 DEF RemovalSparesOwner
    <2>2. RemovalSparesOwner'
        BY <1>1, <1>5, CheckedMove DEF RemovalSparesOwner
    <2>3. CASE TransferInFlight(Target(p))
        BY <1>5, <2>3 DEF OwnerInv, RacesOfRemoval, Race
    <2>4. CASE ~TransferInFlight(Target(p))
        <3>1. TransferFits'
            BY <1>1, <1>5, <2>4, CheckedMove DEF TransferFits, TransferInFlight
        <3> QED BY <2>1, <2>2, <3>1 DEF OwnerInv
    <2> QED BY <2>3, <2>4
<1> QED BY <1>3, <1>4, <1>5 DEF OwnerInv
(* Each step keeps the owner's invariant.                                  *)
LEMMA OwnerInvariant ==
    ASSUME RowsOK, RequestsOK, OwnerInv, Next
    PROVE  OwnerInv'
<1>1. ASSUME NEW p \in Slots, Start(p)
      PROVE  OwnerInv'
    <2>1. \A q \in Slots :
             /\ At(q, "set_owner")' => At(q, "set_owner") /\ Target(q)' = Target(q)
             /\ AtOneOf(q, RemovingStatements)' =>
                    AtOneOf(q, RemovingStatements) /\ request'[q] = request[q]
        BY <1>1, StartEffect DEF At, AtOneOf, Target
    <2>2. UNCHANGED <<owner, members, races>>
        BY <1>1 DEF Start, rows
    <2> QED BY <2>1, <2>2 DEF OwnerInv, TransferFits, RemovalSparesOwner, Target
<1>2. ASSUME NEW p \in Slots, Checks(p)
      PROVE  OwnerInv'
    <2>1. Moves(p) /\ UNCHANGED <<owner, members, races>>
        BY <1>2 DEF Checks, Authorize, RequireMember, TargetNotOwner, Hierarchy, MayManage,
                    ActorIsOwner, TargetIsMember, NotMember, NotBanned, MayDelete, Check,
                    rows, At, Moves
    <2>2. CASE Refuse(p)
        BY <2>1, <2>2, RefusalKeepsOwner DEF Moves
    <2>3. CASE ~At(p, "target_is_member") /\ ~At(p, "target_not_owner")
        BY <2>1, <2>3, QuietForOwner
    <2>4. CASE TargetNotOwner(p) /\ Target(p) # owner
        BY <2>1, <2>4, QuietForOwner DEF TargetNotOwner, Check, At
    <2>5. CASE TargetIsMember(p) /\ Target(p) \in members
        BY <2>1, <2>5, QuietForOwner DEF TargetIsMember, Check, At
    <2> QED BY <1>2, <2>2, <2>3, <2>4, <2>5
            DEF Checks, Authorize, RequireMember, TargetNotOwner, Hierarchy, MayManage,
                ActorIsOwner, TargetIsMember, NotMember, NotBanned, MayDelete, Check, At
<1>3. ASSUME NEW p \in Slots, Writes(p)
      PROVE  OwnerInv'
    <2>0. Moves(p) /\ ~At(p, "target_is_member") /\ ~At(p, "target_not_owner")
        BY <1>3 DEF Writes, DeleteMember, RemoveIfMember, InsertBan, DeleteBan, Count,
                    SetCount, SetOwner, ClearRoles, AddRole, InsertInvite, DeleteInvite,
                    At, Moves
    <2>1. CASE DeleteMember(p)
        BY <2>0, <2>1, RemovalKeepsOwner DEF DeleteMember, Remove, At, AtOneOf
    <2>2. CASE RemoveIfMember(p)
        BY <2>0, <2>2, RemovalKeepsOwner DEF RemoveIfMember, Remove, At, AtOneOf
    <2>3. CASE SetOwner(p)
        <3>1. CASE "transfer" \in races \/ owner = None
            BY <2>3, <3>1 DEF SetOwner, OwnerInv
        <3>2. CASE RemovalInFlight(Target(p))
            BY <2>3, <3>2 DEF SetOwner, OwnerInv, Race
        <3>3. CASE /\ owner # None /\ ~RemovalInFlight(Target(p))
                   /\ owner \in members /\ TransferFits /\ RemovalSparesOwner
            <4>1. owner' = Target(p) /\ members' = members
                BY <2>3, <3>3 DEF SetOwner
            <4>2. owner' \in members' /\ TransferFits'
                BY <2>0, <2>3, <3>3, <4>1, CheckedMove DEF TransferFits, SetOwner
            <4>3. RemovalSparesOwner'
                BY <2>0, <3>3, <4>1, CheckedMove
                DEF RemovalSparesOwner, RemovalInFlight, AtOneOf, RemovingStatements, Removers
            <4> QED BY <4>2, <4>3 DEF OwnerInv
        <3> QED BY <3>1, <3>2, <3>3 DEF OwnerInv
    <2>4. CASE UNCHANGED <<owner, members>> /\ races \subseteq races'
        BY <2>0, <2>4, QuietForOwner
    <2> QED BY <1>3, <2>1, <2>2, <2>3, <2>4
            DEF Writes, InsertBan, DeleteBan, Count, SetCount, ClearRoles, AddRole,
                InsertInvite, DeleteInvite, rows
<1>4. ASSUME NEW p \in Slots, Joins(p)
      PROVE  OwnerInv'
    <2>1. /\ Moves(p) /\ ~At(p, "target_is_member") /\ ~At(p, "target_not_owner")
          /\ UNCHANGED owner /\ members \subseteq members' /\ races \subseteq races'
        BY <1>4 DEF Joins, LockInvite, InsertMember, AddCount, Commit, At, Moves, rows
    <2> QED BY <2>1, QuietForOwner
<1>5. ASSUME NEW p \in Slots, DeleteRow(p)
      PROVE  OwnerInv'
    <2>1. /\ Moves(p) /\ ~At(p, "target_is_member") /\ ~At(p, "target_not_owner")
          /\ UNCHANGED <<owner, members, races>>
        BY <1>5 DEF DeleteRow, At, Moves, rows
    <2> QED BY <2>1, QuietForOwner
<1>6. ASSUME NEW p \in Slots, Cascade(p)
      PROVE  OwnerInv'
    BY <1>6 DEF Cascade, OwnerInv
<1>7. ASSUME NEW p \in Slots, Fail(p)
      PROVE  OwnerInv'
    BY <1>7, RefusalKeepsOwner DEF Fail, rows
<1>8. ASSUME NEW p \in Slots, NEW q \in Slots, BreakDeadlock(p, q)
      PROVE  OwnerInv'
    BY <1>8, RefusalKeepsOwner DEF BreakDeadlock, DeletesServer, At, rows
<1> QED BY <1>1, <1>2, <1>3, <1>4, <1>5, <1>6, <1>7, <1>8 DEF Next
-----------------------------------------------------------------------------
(* The bans.                                                               *)

(* Past its check, a joiner stays unbanned, or there is a race.            *)
JoinersAllowed ==
    \A p \in Slots : AtOneOf(p, JoiningStatements) => Actor(p) \notin bans

(* Past the removal, a ban's target stays out, or there is a race.         *)
BanTargetsOut ==
    \A p \in Slots : At(p, "insert_ban") => Target(p) \notin members

BanInv ==
    "ban" \in races \/ (members \cap bans = {} /\ JoinersAllowed /\ BanTargetsOut)

(* Who comes to the statements that join or ban, and from where.           *)
LEMMA BanMove ==
    ASSUME RequestsOK, NEW p \in Slots, Moves(p)
    PROVE  \A q \in Slots :
              /\ AtOneOf(q, JoiningStatements)' =>
                    \/ AtOneOf(q, JoiningStatements) /\ Actor(q)' = Actor(q)
                    \/ q = p /\ At(p, "not_banned") /\ Proceed(p) /\ Actor(p)' = Actor(p)
              /\ At(q, "insert_ban")' =>
                    \/ q # p /\ At(q, "insert_ban") /\ Target(q)' = Target(q)
                    \/ q = p /\ At(p, "remove_if_member") /\ Target(p)' = Target(p)
BY MoveEffect DEF GoesOn, Placed, AtOneOf, At, Actor, Target, JoiningStatements

(* A step that takes no member in and bans nobody is harmless, if what it  *)
(* goes on past is so.                                                     *)
LEMMA QuietForBans ==
    ASSUME RequestsOK, BanInv, NEW p \in Slots, Moves(p),
           members' \subseteq members, bans' \subseteq bans, races \subseteq races',
           At(p, "not_banned") /\ Proceed(p) => Actor(p) \notin bans,
           At(p, "remove_if_member") /\ Proceed(p) => Target(p) \notin members'
    PROVE  BanInv'
<1>1. CASE "ban" \in races
    BY <1>1 DEF BanInv
<1>2. CASE members \cap bans = {} /\ JoinersAllowed /\ BanTargetsOut
    <2>1. JoinersAllowed'
        BY <1>2, BanMove DEF JoinersAllowed
    <2>2. BanTargetsOut'
        BY <1>2, BanMove, MoveEffect DEF BanTargetsOut, GoesOn, At
    <2> QED BY <1>2, <2>1, <2>2 DEF BanInv
<1> QED BY <1>1, <1>2 DEF BanInv

(* Each step keeps the bans' invariant.                                    *)
LEMMA BansInvariant ==
    ASSUME RequestsOK, BanInv, Next
    PROVE  BanInv'
<1>1. ASSUME NEW p \in Slots, Start(p)
      PROVE  BanInv'
    <2>1. \A q \in Slots :
             /\ AtOneOf(q, JoiningStatements)' =>
                    AtOneOf(q, JoiningStatements) /\ Actor(q)' = Actor(q)
             /\ At(q, "insert_ban")' => At(q, "insert_ban") /\ Target(q)' = Target(q)
        BY <1>1, StartEffect
        DEF At, AtOneOf, Actor, Target, JoiningStatements, HoldingStatements
    <2>2. UNCHANGED <<members, bans, races>>
        BY <1>1 DEF Start, rows
    <2> QED BY <2>1, <2>2 DEF BanInv, JoinersAllowed, BanTargetsOut
<1>2. ASSUME NEW p \in Slots, Checks(p)
      PROVE  BanInv'
    <2>1. Moves(p) /\ UNCHANGED <<members, bans, races>> /\ ~At(p, "remove_if_member")
        BY <1>2 DEF Checks, Authorize, RequireMember, TargetNotOwner, Hierarchy, MayManage,
                    ActorIsOwner, TargetIsMember, NotMember, NotBanned, MayDelete, Check,
                    rows, At, Moves
    <2>2. CASE ~At(p, "not_banned")
        BY <2>1, <2>2, QuietForBans
    <2>3. CASE NotBanned(p) /\ Actor(p) \notin bans
        BY <2>1, <2>3, QuietForBans
    <2>4. CASE NotBanned(p) /\ Actor(p) \in bans
        <3>1. Refuse(p)
            BY <2>4 DEF NotBanned, Check
        <3>2. request'[p] = None
            BY <3>1 DEF Refuse, RequestsOK
        <3>3. ~AtOneOf(p, JoiningStatements) /\ \A q \in Slots \ {p} : request'[q] = request[q]
            BY <2>4, <3>1 DEF NotBanned, Check, At, AtOneOf, JoiningStatements, Refuse, RequestsOK
        <3> QED BY <2>1, <3>2, <3>3
                DEF BanInv, JoinersAllowed, BanTargetsOut, At, AtOneOf, Actor, Target
    <2> QED BY <1>2, <2>2, <2>3, <2>4
            DEF Checks, Authorize, RequireMember, TargetNotOwner, Hierarchy, MayManage,
                ActorIsOwner, TargetIsMember, NotMember, NotBanned, MayDelete, Check, At
<1>3. ASSUME NEW p \in Slots, Writes(p)
      PROVE  BanInv'
    <2>0. Moves(p) /\ ~At(p, "not_banned")
        BY <1>3 DEF Writes, DeleteMember, RemoveIfMember, InsertBan, DeleteBan, Count,
                    SetCount, SetOwner, ClearRoles, AddRole, InsertInvite, DeleteInvite,
                    At, Moves
    <2>1. CASE RemoveIfMember(p)
        BY <2>0, <2>1, QuietForBans DEF RemoveIfMember, Remove
    <2>2. CASE InsertBan(p) /\ owner # None
        <3> DEFINE u == Target(p)
        <3>1. /\ bans' = bans \cup {u} /\ UNCHANGED members
              /\ races' = races \cup Race("ban", JoinInFlight(u))
            BY <2>2 DEF InsertBan
        <3>2. CASE "ban" \in races \/ JoinInFlight(u)
            BY <3>1, <3>2 DEF BanInv, Race
        <3>3. CASE /\ ~JoinInFlight(u)
                   /\ members \cap bans = {} /\ JoinersAllowed /\ BanTargetsOut
            <4>1. members' \cap bans' = {}
                BY <2>2, <3>1, <3>3 DEF BanTargetsOut, InsertBan
            <4>2. JoinersAllowed'
                <5>1. ~At(p, "not_banned")
                    BY <2>0
                <5>2. \A q \in Slots : AtOneOf(q, JoiningStatements) =>
                          Actor(q) \notin bans /\ Actor(q) # u
                    BY <3>3 DEF JoinersAllowed, JoinInFlight, JoiningStatements
                <5> QED BY <2>0, <3>1, <5>2, BanMove DEF JoinersAllowed
            <4>3. BanTargetsOut'
                BY <2>0, <2>2, <3>1, <3>3, BanMove DEF BanTargetsOut, InsertBan, At
            <4> QED BY <4>1, <4>2, <4>3 DEF BanInv
        <3> QED BY <3>2, <3>3 DEF BanInv
    <2>3. CASE /\ ~At(p, "remove_if_member")
               /\ members' \subseteq members /\ bans' \subseteq bans /\ races \subseteq races'
        BY <2>0, <2>3, QuietForBans
    <2> QED BY <1>3, <2>1, <2>2, <2>3
            DEF Writes, DeleteMember, Remove, InsertBan, DeleteBan, Count, SetCount, SetOwner,
                ClearRoles, AddRole, InsertInvite, DeleteInvite, rows, At
<1>4. ASSUME NEW p \in Slots, Joins(p)
      PROVE  BanInv'
    <2>0. Moves(p) /\ ~At(p, "not_banned") /\ ~At(p, "remove_if_member")
        BY <1>4 DEF Joins, LockInvite, InsertMember, AddCount, Commit, At, Moves
    <2>1. CASE Commit(p)
        <3> DEFINE u == Actor(p)
        <3>1. /\ members' = members \cup {u} /\ UNCHANGED bans
              /\ races' = races \cup Race("count", CountsStale(p))
                                \cup Race("ban", BanInFlight(u))
            BY <2>1 DEF Commit
        <3>2. CASE "ban" \in races \/ BanInFlight(u)
            BY <3>1, <3>2 DEF BanInv, Race
        <3>3. CASE /\ ~BanInFlight(u)
                   /\ members \cap bans = {} /\ JoinersAllowed /\ BanTargetsOut
            <4>1. members' \cap bans' = {}
                BY <2>1, <3>1, <3>3 DEF JoinersAllowed, Commit, At, AtOneOf, JoiningStatements
            <4>2. JoinersAllowed'
                BY <2>0, <3>1, <3>3, BanMove DEF JoinersAllowed
            <4>3. BanTargetsOut'
                BY <2>0, <3>1, <3>3, BanMove DEF BanTargetsOut, BanInFlight
            <4> QED BY <4>1, <4>2, <4>3 DEF BanInv
        <3> QED BY <3>2, <3>3 DEF BanInv
    <2>2. CASE LockInvite(p) \/ InsertMember(p) \/ AddCount(p)
        <3>1. UNCHANGED <<members, bans, races>>
            BY <2>2 DEF LockInvite, InsertMember, AddCount, rows
        <3> QED BY <2>0, <3>1, QuietForBans
    <2> QED BY <1>4, <2>1, <2>2 DEF Joins
<1>5. ASSUME NEW p \in Slots, DeleteRow(p) \/ Cascade(p)
      PROVE  BanInv'
    <2>1. /\ Moves(p) /\ ~At(p, "not_banned") /\ ~At(p, "remove_if_member")
          /\ members' \subseteq members /\ bans' \subseteq bans /\ UNCHANGED races
        BY <1>5 DEF DeleteRow, Cascade, At, Moves, rows
    <2> QED BY <2>1, QuietForBans
<1>6. ASSUME NEW p \in Slots, request[p] # None, Refuse(p), UNCHANGED <<members, bans, races>>
      PROVE  BanInv'
    <2>1. \A q \in Slots : request'[q] # None => request'[q] = request[q]
        BY <1>6 DEF Refuse, RequestsOK
    <2> QED BY <1>6, <2>1
            DEF BanInv, JoinersAllowed, BanTargetsOut, At, AtOneOf, Actor, Target
<1>7. ASSUME NEW p \in Slots, Fail(p)
      PROVE  BanInv'
    BY <1>6, <1>7 DEF Fail, rows
<1>8. ASSUME NEW p \in Slots, NEW q \in Slots, BreakDeadlock(p, q)
      PROVE  BanInv'
    BY <1>6, <1>8 DEF BreakDeadlock, DeletesServer, At, rows
<1> QED BY <1>1, <1>2, <1>3, <1>4, <1>5, <1>7, <1>8 DEF Next

-----------------------------------------------------------------------------
(* The member count.                                                       *)

(* The request in p has yet to write the count of the members.             *)
ToCount(p) == AtOneOf(p, {"insert_ban", "count", "set_count"})

(* A transaction adds a user who is no member, and no other adds the same. *)
JoinersNew ==
    \A p \in Slots : HasInserted(p) =>
        /\ Actor(p) \notin members
        /\ \A q \in Slots \ {p} : HasInserted(q) => Actor(q) # Actor(p)

(* What COUNT returned is still so, and the count is right or somebody is  *)
(* about to correct it.                                                    *)
Recounted ==
    failures = 0 /\ owner # None /\ "count" \notin races =>
        /\ \A p \in Slots : At(p, "set_count") => counted[p] = Cardinality(members)
        /\ member_count = Cardinality(members) \/ \E p \in Slots : ToCount(p)

CountInv == JoinersNew /\ Recounted

(* How the statements about the count follow each other.                   *)
CountPlaced(s, n) ==
    /\ n = "set_count" => s = "count"
    /\ s \in {"delete_member", "remove_if_member", "insert_ban"} => n \in {"insert_ban", "count"}
    /\ s = "count" => n = "set_count"
    /\ n \in {"add_count", "commit"} => s \in {"insert_member", "add_count"}

(* A removal is followed by a recount in every handler.                    *)
LEMMA CountsPlaced ==
    ASSUME NEW op \in DOMAIN Handler, NEW s \in Statements(op)
    PROVE  CountPlaced(s, Handler[op][s])
<1> USE DEF CountPlaced, Statements, Handler
<1>1. CASE op \in {"kick_member", "leave_server"}
    BY <1>1 DEF kick_member, leave_server
<1>2. CASE op \in {"create_ban", "remove_ban"}
    BY <1>2 DEF create_ban, remove_ban
<1>3. CASE op \in {"transfer", "demote", "promote"}
    BY <1>3 DEF transfer, demote, promote
<1>4. CASE op \in {"create_invite", "delete_invite", "delete_server"}
    BY <1>4 DEF create_invite, delete_invite, delete_server
<1>5. CASE op = "use_invite"
    BY <1>5 DEF use_invite
<1>6. DOMAIN Handler = {"kick_member", "leave_server", "create_ban", "remove_ban",
                        "transfer", "demote", "promote", "create_invite",
                        "use_invite", "delete_invite", "delete_server"}
    OBVIOUS
<1> QED BY <1>1, <1>2, <1>3, <1>4, <1>5, <1>6

(* Who comes to the statements about the count, and who goes on to them.   *)
LEMMA CountMove ==
    ASSUME RequestsOK, NEW p \in Slots, Moves(p)
    PROVE  /\ \A q \in Slots :
                 /\ At(q, "set_count")' => (q # p /\ At(q, "set_count")) \/ (q = p /\ At(p, "count"))
                 /\ HasInserted(q)' =>
                       \/ HasInserted(q) /\ Actor(q)' = Actor(q)
                       \/ q = p /\ At(p, "insert_member") /\ Proceed(p) /\ Actor(p)' = Actor(p)
                 /\ q # p /\ ToCount(q) => ToCount(q)'
           /\ AtOneOf(p, {"delete_member", "remove_if_member", "insert_ban", "count"})
                 /\ Proceed(p) => ToCount(p)'
           /\ At(p, "count") /\ Proceed(p) => At(p, "set_count")'
<1> DEFINE s == request[p].at
           n == Handler[request[p].op][request[p].at]
<1>1. request[p] \in Request /\ CountPlaced(s, n)
    BY CountsPlaced DEF RequestsOK, Moves, Request
<1>2. \A q \in Slots \ {p} : request'[q] = request[q]
    BY MoveEffect
<1>3. request'[p] # None =>
          /\ request'[p].actor = request[p].actor /\ request'[p].at = n /\ Proceed(p)
    <2> SUFFICES ASSUME request'[p] # None
                 PROVE  request'[p].actor = request[p].actor /\ request'[p].at = n /\ Proceed(p)
        OBVIOUS
    <2>1. GoesOn(p)
        BY MoveEffect
    <2>2. request' = [request EXCEPT ![p] = IF n = "end" THEN None ELSE [request[p] EXCEPT !.at = n]]
        BY <2>1 DEF GoesOn, Proceed
    <2>3. request'[p] = [request[p] EXCEPT !.at = n]
        BY <2>2 DEF RequestsOK
    <2> QED BY <1>1, <2>1, <2>3 DEF GoesOn, Request
<1>4. Proceed(p) /\ n # "end" => request'[p] # None /\ request'[p].at = n
    <2> SUFFICES ASSUME Proceed(p), n # "end"
                 PROVE  request'[p] # None /\ request'[p].at = n
        OBVIOUS
    <2>1. request'[p] = [request[p] EXCEPT !.at = n]
        BY DEF Proceed, RequestsOK
    <2>2. [request[p] EXCEPT !.at = n].at = n
        BY <1>1 DEF Request
    <2>3. n \in UNION {Statements(op) : op \in DOMAIN Handler}
        BY <1>1, HandlersPlaced DEF RequestsOK, Moves, Placed, Request
    <2>4. [request[p] EXCEPT !.at = n] \in Request
        BY <1>1, <2>3 DEF Request
    <2> QED BY <2>1, <2>2, <2>4, NoneAssumption
<1> HIDE DEF n, s
<1>5. \A q \in Slots :
          At(q, "set_count")' => (q # p /\ At(q, "set_count")) \/ (q = p /\ At(p, "count"))
    BY <1>1, <1>2, <1>3 DEF At, CountPlaced, Moves, s
<1>6. \A q \in Slots : HasInserted(q)' =>
          \/ HasInserted(q) /\ Actor(q)' = Actor(q)
          \/ q = p /\ At(p, "insert_member") /\ Proceed(p) /\ Actor(p)' = Actor(p)
    BY <1>1, <1>2, <1>3 DEF HasInserted, AtOneOf, At, Actor, CountPlaced, Moves, s
<1>7. \A q \in Slots : q # p /\ ToCount(q) => ToCount(q)'
    BY <1>2 DEF ToCount, AtOneOf
<1>8. AtOneOf(p, {"delete_member", "remove_if_member", "insert_ban", "count"})
          /\ Proceed(p) => ToCount(p)'
    BY <1>1, <1>4 DEF ToCount, AtOneOf, CountPlaced, s
<1>9. At(p, "count") /\ Proceed(p) => At(p, "set_count")'
    BY <1>1, <1>4 DEF At, CountPlaced, s
<1> QED BY <1>5, <1>6, <1>7, <1>8, <1>9

(* A step that leaves the members and the count, and overtakes nobody.     *)
LEMMA QuietForCount ==
    ASSUME RequestsOK, CountInv, NEW p \in Slots, Moves(p),
           UNCHANGED <<members, member_count, failures>>,
           owner = None => owner' = None,
           races \subseteq races',
           \A q \in Slots : At(q, "set_count") => counted'[q] = counted[q],
           ~At(p, "count"), ~At(p, "insert_member") \/ Refuse(p),
           owner' = None \/ ~ToCount(p) \/ ToCount(p)'
    PROVE  CountInv'
<1>1. \A q \in Slots :
          /\ At(q, "set_count")' => At(q, "set_count")
          /\ q # p /\ ToCount(q) => ToCount(q)'
    BY CountMove
<1>2. \A q \in Slots : HasInserted(q)' => HasInserted(q) /\ Actor(q)' = Actor(q)
    <2>1. Refuse(p) => ~HasInserted(p)'
        BY DEF Refuse, HasInserted, AtOneOf, RequestsOK
    <2> QED BY <2>1, CountMove
<1>3. JoinersNew'
    BY <1>2 DEF CountInv, JoinersNew
<1>4. Recounted'
    BY <1>1 DEF CountInv, Recounted
<1> QED BY <1>3, <1>4 DEF CountInv

(* A removal, which goes on to a recount: no count is overtaken, or there  *)
(* is a race.                                                              *)
LEMMA RemovalIsRecounted ==
    ASSUME RequestsOK, CountInv, NEW p \in Slots, Proceed(p),
           AtOneOf(p, {"delete_member", "remove_if_member"}),
           members' = members \ {Target(p)},
           UNCHANGED <<owner, counted, failures>>,
           \/ Target(p) \notin members /\ races \subseteq races'
           \/ races' = races \cup RacesOfRemoval(p, Target(p))
    PROVE  CountInv'
<1>1. Moves(p) /\ ~At(p, "count") /\ ~At(p, "insert_member")
    BY DEF Moves, AtOneOf, At
<1>2. /\ \A q \in Slots :
            /\ At(q, "set_count")' => q # p /\ At(q, "set_count")
            /\ HasInserted(q)' => HasInserted(q) /\ Actor(q)' = Actor(q)
      /\ ToCount(p)'
    BY <1>1, CountMove DEF AtOneOf
<1>3. JoinersNew'
    BY <1>2 DEF CountInv, JoinersNew
<1>4. Recounted'
    <2>1. CASE Target(p) \notin members
        <3>1. members' = members /\ races \subseteq races'
            BY <2>1
        <3> QED BY <1>2, <3>1 DEF CountInv, Recounted
    <2>2. CASE races' = races \cup RacesOfRemoval(p, Target(p))
        <3>1. "count" \notin races' => \A q \in Slots \ {p} : ~At(q, "set_count")
            BY <2>2 DEF RacesOfRemoval, Race, CountsStale
        <3> QED BY <1>2, <3>1 DEF Recounted
    <2> QED BY <2>1, <2>2
<1> QED BY <1>3, <1>4 DEF CountInv

(* Each step keeps the count's invariant.                                  *)
LEMMA CountsInvariant ==
    ASSUME RowsOK, RequestsOK, CountInv, Next
    PROVE  CountInv'
<1>1. ASSUME NEW p \in Slots, Start(p)
      PROVE  CountInv'
    <2>1. \A q \in Slots :
             /\ At(q, "set_count")' => At(q, "set_count")
             /\ HasInserted(q)' => HasInserted(q) /\ Actor(q)' = Actor(q)
             /\ ToCount(q) => ToCount(q)'
        BY <1>1, StartEffect
        DEF Start, At, AtOneOf, HasInserted, ToCount, Actor, HoldingStatements
    <2>2. UNCHANGED <<owner, members, member_count, counted, races, failures>>
        BY <1>1 DEF Start, rows
    <2> QED BY <2>1, <2>2 DEF CountInv, JoinersNew, Recounted
<1>2. ASSUME NEW p \in Slots, Checks(p)
      PROVE  CountInv'
    <2>1. /\ Moves(p) /\ UNCHANGED <<owner, members, member_count, counted, races, failures>>
          /\ ~At(p, "count") /\ ~At(p, "insert_member") /\ ~ToCount(p)
        BY <1>2 DEF Checks, Authorize, RequireMember, TargetNotOwner, Hierarchy, MayManage,
                    ActorIsOwner, TargetIsMember, NotMember, NotBanned, MayDelete, Check,
                    rows, counters, At, AtOneOf, ToCount, Moves
    <2> QED BY <2>1, QuietForCount
<1>3. ASSUME NEW p \in Slots, Writes(p)
      PROVE  CountInv'
    <2>0. Moves(p) /\ ~At(p, "insert_member")
        BY <1>3 DEF Writes, DeleteMember, RemoveIfMember, InsertBan, DeleteBan, Count,
                    SetCount, SetOwner, ClearRoles, AddRole, InsertInvite, DeleteInvite,
                    At, Moves
    <2>1. CASE DeleteMember(p)
        <3>1. CASE Target(p) \in members
            BY <2>1, <3>1, RemovalIsRecounted DEF DeleteMember, Remove, At, AtOneOf, counters
        <3>2. CASE Target(p) \notin members
            <4>1. members' = members /\ ~At(p, "count") /\ ~ToCount(p)
                BY <2>1, <3>2 DEF DeleteMember, Remove, At, AtOneOf, ToCount
            <4>2. UNCHANGED <<owner, member_count, counted, races, failures>>
                BY <2>1, <3>2 DEF DeleteMember, counters
            <4> QED BY <2>0, <4>1, <4>2, QuietForCount
        <3> QED BY <3>1, <3>2
    <2>2. CASE RemoveIfMember(p)
        <3>1. /\ Proceed(p) /\ AtOneOf(p, {"delete_member", "remove_if_member"})
              /\ members' = members \ {Target(p)} /\ UNCHANGED <<owner, counted, failures>>
            BY <2>2 DEF RemoveIfMember, Remove, At, AtOneOf, counters
        <3>2. \/ Target(p) \notin members /\ races \subseteq races'
              \/ races' = races \cup RacesOfRemoval(p, Target(p))
            BY <2>2 DEF RemoveIfMember
        <3> QED BY <3>1, <3>2, RemovalIsRecounted
    <2>3. CASE InsertBan(p)
        <3>1. /\ UNCHANGED <<owner, members, member_count, counted, failures>>
              /\ races \subseteq races' /\ ~At(p, "count")
            BY <2>3 DEF InsertBan, At, counters
        <3>2. owner = None \/ ToCount(p)'
            BY <2>0, <2>3, CountMove DEF InsertBan, At, AtOneOf
        <3> QED BY <2>0, <3>1, <3>2, QuietForCount
    <2>4. CASE Count(p)
        <3>1. /\ UNCHANGED <<owner, members, member_count, races, failures>>
              /\ At(p, "count") /\ Proceed(p)
              /\ counted' = [counted EXCEPT ![p] = Cardinality(members)]
            BY <2>4 DEF Count, rows, counters
        <3>2. \A q \in Slots :
                 /\ At(q, "set_count")' => q = p \/ At(q, "set_count")
                 /\ HasInserted(q)' => HasInserted(q) /\ Actor(q)' = Actor(q)
            BY <2>0, CountMove
        <3>3. ToCount(p)'
            BY <2>0, <3>1, CountMove DEF At, AtOneOf
        <3>4. /\ counted'[p] = Cardinality(members)
              /\ \A q \in Slots \ {p} : counted'[q] = counted[q]
            BY <3>1 DEF RowsOK
        <3>5. JoinersNew'
            BY <3>1, <3>2 DEF CountInv, JoinersNew
        <3>6. Recounted'
            BY <3>1, <3>2, <3>3, <3>4 DEF CountInv, Recounted
        <3> QED BY <3>5, <3>6 DEF CountInv
    <2>5. CASE SetCount(p)
        <3>1. /\ UNCHANGED <<owner, members, races, failures>>
              /\ At(p, "set_count") /\ ~At(p, "count")
              /\ member_count' = IF owner = None THEN member_count ELSE counted[p]
              /\ counted' = [counted EXCEPT ![p] = 0]
            BY <2>5 DEF SetCount, At, counters
        <3>2. \A q \in Slots :
                 /\ At(q, "set_count")' => q # p /\ At(q, "set_count")
                 /\ HasInserted(q)' => HasInserted(q) /\ Actor(q)' = Actor(q)
            BY <2>0, <3>1, CountMove
        <3>3. \A q \in Slots \ {p} : counted'[q] = counted[q]
            BY <3>1 DEF RowsOK
        <3>4. JoinersNew'
            BY <3>1, <3>2 DEF CountInv, JoinersNew
        <3>5. Recounted'
            BY <3>1, <3>2, <3>3 DEF CountInv, Recounted
        <3> QED BY <3>4, <3>5 DEF CountInv
    <2>6. CASE SetOwner(p) \/ DeleteBan(p) \/ ClearRoles(p) \/ AddRole(p)
               \/ InsertInvite(p) \/ DeleteInvite(p)
        <3>1. /\ UNCHANGED <<members, member_count, counted, failures>>
              /\ races \subseteq races' /\ (owner = None => owner' = None)
            BY <2>6 DEF SetOwner, DeleteBan, ClearRoles, AddRole, InsertInvite, DeleteInvite,
                        counters
        <3>2. ~At(p, "count") /\ ~ToCount(p)
            BY <2>6 DEF SetOwner, DeleteBan, ClearRoles, AddRole, InsertInvite, DeleteInvite,
                        At, AtOneOf, ToCount
        <3> QED BY <2>0, <3>1, <3>2, QuietForCount
    <2> QED BY <1>3, <2>1, <2>2, <2>3, <2>4, <2>5, <2>6 DEF Writes
<1>4. ASSUME NEW p \in Slots, LockInvite(p) \/ AddCount(p) \/ DeleteRow(p)
      PROVE  CountInv'
    <2>1. /\ Moves(p) /\ UNCHANGED <<owner, members, member_count, counted, races, failures>>
          /\ ~At(p, "count") /\ ~At(p, "insert_member") /\ ~ToCount(p)
        BY <1>4 DEF LockInvite, AddCount, DeleteRow, rows, counters, At, AtOneOf, ToCount, Moves
    <2> QED BY <2>1, QuietForCount
<1>5. ASSUME NEW p \in Slots, InsertMember(p)
      PROVE  CountInv'
    <2>1. /\ Moves(p) /\ UNCHANGED <<owner, members, member_count, counted, races, failures>>
          /\ ~At(p, "count") /\ ~ToCount(p)
          /\ \A q \in Slots \ {p} : HasInserted(q) => Actor(q) # Actor(p)
        BY <1>5 DEF InsertMember, rows, counters, At, AtOneOf, ToCount, Moves
    <2>2. CASE Actor(p) \in members
        BY <1>5, <2>1, <2>2, QuietForCount DEF InsertMember
    <2>3. CASE Actor(p) \notin members
        <3>1. \A q \in Slots :
                 /\ HasInserted(q)' => (HasInserted(q) \/ q = p) /\ Actor(q)' = Actor(q)
                 /\ At(q, "set_count")' => At(q, "set_count")
                 /\ q # p /\ ToCount(q) => ToCount(q)'
            BY <2>1, CountMove
        <3>2. JoinersNew'
            BY <2>1, <2>3, <3>1 DEF CountInv, JoinersNew
        <3>3. Recounted'
            BY <2>1, <3>1 DEF CountInv, Recounted
        <3> QED BY <3>2, <3>3 DEF CountInv
    <2> QED BY <2>2, <2>3
<1>6. ASSUME NEW p \in Slots, Commit(p)
      PROVE  CountInv'
    <2> DEFINE u == Actor(p)
    <2>1. /\ Moves(p) /\ UNCHANGED <<owner, counted, failures>>
          /\ members' = members \cup {u} /\ member_count' = member_count + 1
          /\ races' = races \cup Race("count", CountsStale(p))
                            \cup Race("ban", BanInFlight(u))
          /\ HasInserted(p) /\ ~At(p, "count") /\ ~At(p, "insert_member") /\ ~ToCount(p)
        BY <1>6 DEF Commit, counters, At, AtOneOf, HasInserted, ToCount, Moves
    <2>2. \A q \in Slots :
             /\ At(q, "set_count")' => q # p /\ At(q, "set_count")
             /\ HasInserted(q)' => HasInserted(q) /\ Actor(q)' = Actor(q)
             /\ ToCount(q) => ToCount(q)'
        BY <2>1, CountMove
    <2>3. ~HasInserted(p)'
        BY <1>6, MoveEffect, <2>1 DEF Commit, At, HasInserted, AtOneOf, GoesOn, Placed
    <2>4. u \notin members
        BY <2>1 DEF CountInv, JoinersNew
    <2>5. Cardinality(members') = Cardinality(members) + 1
        BY <2>1, <2>4, ConstantsAssumption, FS_Subset, FS_AddElement DEF RowsOK
    <2> HIDE DEF u
    <2>6. JoinersNew'
        BY <2>1, <2>2, <2>3 DEF CountInv, JoinersNew, u
    <2>7. Recounted'
        <3>1. "count" \notin races' => "count" \notin races /\ \A q \in Slots : ~At(q, "set_count")'
            BY <2>1, <2>2 DEF Race, CountsStale
        <3> QED BY <2>1, <2>2, <2>5, <3>1 DEF CountInv, Recounted
    <2> QED BY <2>6, <2>7 DEF CountInv
<1>7. ASSUME NEW p \in Slots, Cascade(p)
      PROVE  CountInv'
    <2>1. owner' = None /\ members' = {} /\ Moves(p) /\ ~At(p, "insert_member")
        BY <1>7 DEF Cascade, At, Moves
    <2>2. \A q \in Slots : HasInserted(q)' => HasInserted(q) /\ Actor(q)' = Actor(q)
        BY <2>1, CountMove
    <2>3. JoinersNew'
        BY <2>1, <2>2 DEF CountInv, JoinersNew
    <2> QED BY <2>1, <2>3 DEF CountInv, Recounted
<1>8. ASSUME NEW p \in Slots, Fail(p)
      PROVE  CountInv'
    <2>1. failures' # 0 /\ members' = members /\ Refuse(p)
        BY <1>8 DEF Fail, RowsOK, rows
    <2>2. \A q \in Slots : HasInserted(q)' => HasInserted(q) /\ Actor(q)' = Actor(q)
        BY <2>1 DEF Refuse, RequestsOK, HasInserted, AtOneOf, Actor
    <2>3. JoinersNew'
        BY <2>1, <2>2 DEF CountInv, JoinersNew
    <2> QED BY <2>1, <2>3 DEF CountInv, Recounted
<1>9. ASSUME NEW p \in Slots, NEW q \in Slots, BreakDeadlock(p, q)
      PROVE  CountInv'
    <2>1. /\ UNCHANGED <<owner, members, member_count, counted, races, failures>>
          /\ Refuse(p) \/ Refuse(q)
        BY <1>9 DEF BreakDeadlock, rows, counters
    <2>2. /\ Moves(p) \/ ~Refuse(p)
          /\ Moves(q) \/ ~Refuse(q)
          /\ \A x \in {p, q} : ~At(x, "count") /\ ~ToCount(x)
          /\ ~At(p, "insert_member")
        BY <1>9 DEF BreakDeadlock, DeletesServer, At, AtOneOf, ToCount, Moves
    <2> QED BY <2>1, <2>2, QuietForCount
<1> QED BY <1>1, <1>2, <1>3, <1>4, <1>5, <1>6, <1>7, <1>8, <1>9 DEF Next, Joins

-----------------------------------------------------------------------------
(* The inductive invariant.                                                *)

IInv == RowsOK /\ RequestsOK /\ InvitesInv /\ OwnerInv /\ BanInv /\ CountInv

(* The inductive invariant holds at first ...                              *)
LEMMA InitIInv == Init => IInv
<1> SUFFICES ASSUME Init
             PROVE  IInv
    OBVIOUS
<1>1. request \in [Slots -> Request \cup {None}] /\ \A p \in Slots : request[p] = None
    BY DEF Init
<1>2. RequestsOK
    BY <1>1 DEF RequestsOK
<1>3. invites \in [Invites -> Row \cup {None}]
    BY DEF Init, Row
<1>4. RowsOK
    <2>1. member_count \in Nat
        BY MembersCounted DEF Init
    <2> QED BY <1>3, <2>1 DEF Init, RowsOK
<1>5. InvitesInv
    <2>1. \A i \in Invites : invites[i] # None => invites[i].uses = 0 /\ invites[i].limit \in Nat
        BY ConstantsAssumption DEF Init
    <2> QED BY <1>1, <2>1 DEF InvitesInv, OneHolder, HeldAdmits, UseLimitKept, HoldsInvite, AtOneOf
<1>6. OwnerInv
    BY <1>1 DEF Init, OwnerInv, TransferFits, RemovalSparesOwner, At, AtOneOf
<1>7. BanInv
    BY <1>1 DEF Init, BanInv, JoinersAllowed, BanTargetsOut, At, AtOneOf
<1>8. CountInv
    BY <1>1 DEF Init, CountInv, JoinersNew, Recounted, HasInserted, At, AtOneOf
<1> QED BY <1>2, <1>4, <1>5, <1>6, <1>7, <1>8 DEF IInv

(* ... and every step keeps it ...                                         *)
LEMMA NextIInv == IInv /\ [Next]_vars => IInv'
<1> SUFFICES ASSUME IInv, [Next]_vars
             PROVE  IInv'
    OBVIOUS
<1>1. CASE Next
    <2>1. RequestsOK'
        BY <1>1, RequestsInvariant DEF IInv
    <2>2. RowsOK'
        BY <1>1, RowsInvariant DEF IInv, InvitesInv
    <2>3. InvitesInv'
        BY <1>1, InvitesInvariant DEF IInv
    <2>4. OwnerInv'
        BY <1>1, OwnerInvariant DEF IInv
    <2>5. BanInv'
        BY <1>1, BansInvariant DEF IInv
    <2>6. CountInv'
        BY <1>1, CountsInvariant DEF IInv
    <2> QED BY <2>1, <2>2, <2>3, <2>4, <2>5, <2>6 DEF IInv
<1>2. CASE UNCHANGED vars
    BY <1>2 DEF vars, rows, counters, IInv, RowsOK, RequestsOK, InvitesInv, OneHolder,
                HeldAdmits, UseLimitKept, HoldsInvite, OwnerInv, TransferFits,
                RemovalSparesOwner, BanInv, JoinersAllowed, BanTargetsOut, CountInv,
                JoinersNew, Recounted, HasInserted, ToCount, At, AtOneOf, Actor, Target
<1> QED BY <1>1, <1>2

(* ... so it always holds.                                                 *)
LEMMA Invariance == Spec => []IInv
BY InitIInv, NextIInv, PTL DEF Spec

(* Every row and every request has its type, and a moderator is a member,  *)
(* whatever the handlers interleave.                                       *)
THEOREM TypeCorrect == Spec => []TypeOK
<1>1. IInv => TypeOK
    BY TypeParts DEF IInv
<1> QED BY <1>1, Invariance, PTL

(* use_invite never admits more users than the invite allows, however many *)
(* redeem it at once: the row stays locked from the test of its uses to    *)
(* the COMMIT that adds one.                                               *)
THEOREM InviteLimit == Spec => []UseLimitKept
<1>1. IInv => UseLimitKept
    BY DEF IInv, InvitesInv
<1> QED BY <1>1, Invariance, PTL

(* The owner stays a member of the server, unless a transfer and a removal *)
(* of the same user have passed each other's check.                        *)
THEOREM OwnerBelongs == Spec => []OwnerIsMember
<1>1. IInv => OwnerIsMember
    BY OwnerInvSuffices DEF IInv
<1> QED BY <1>1, Invariance, PTL

(* A banned user is no member, unless a join and a ban of the same user    *)
(* have passed each other's check: create_ban removes before it bans, and  *)
(* use_invite asks for a ban before it inserts.                            *)
THEOREM BanLasts == Spec => []BannedAreOut
<1>1. IInv => BannedAreOut
    BY DEF IInv, BanInv, BannedAreOut
<1> QED BY <1>1, Invariance, PTL

(* The member count is right when no request is under way, unless a COUNT  *)
(* was overtaken by a change of the members before it was written, or a    *)
(* handler failed between its removal and its count: every removal is      *)
(* followed by a recount, and a join adds one for a user who was no member.*)
THEOREM CountIsRight == Spec => []CountSettles
<1>1. IInv => CountSettles
    BY DEF IInv, CountInv, Recounted, CountSettles, AllServed, ToCount, AtOneOf
<1> QED BY <1>1, Invariance, PTL
=============================================================================
