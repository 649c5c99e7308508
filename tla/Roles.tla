-------------------------------- MODULE Roles --------------------------------
(***************************************************************************)
(* The roles of one server, who holds them and what they permit, as the    *)
(* handlers of routes/roles.rs and update_member of routes/servers.rs      *)
(* change them in PostgreSQL; and compute_permissions of the permissions   *)
(* crate, which works on the same roles.                                   *)
(*                                                                         *)
(* A handler is a sequence of SQL statements, given by the function named  *)
(* after it; a statement that writes is an action and commits by itself,   *)
(* and the statements one check reads with are an action together.  The    *)
(* owner is fixed and members stay members: module Membership has these    *)
(* change.  Of a role only its position and its permissions are kept, and  *)
(* these are a set of bits.  What a body names are roles of this server.   *)
(* Nothing checks the position a body asks for: it is any i32.             *)
(***************************************************************************)
EXTENDS Integers, Sequences, FiniteSets, FiniteSetsExt

CONSTANTS
    Slots,          \* places for requests being served at once
    Users,          \* members of the server
    Owner,          \* the one who owns it
    Roles,          \* ids for roles
    Everyone,       \* the role @everyone, whose id is that of the server
    Bits,           \* permissions
    ADMINISTRATOR,  \* the one that stands for all of them
    MANAGE_ROLES,   \* the one the handlers ask for
    None,           \* absent: no request, no row, no field in a body
    MinPosition,    \* the least position, i32::MIN
    MaxPosition,    \* the greatest, i32::MAX
    MaxRequests     \* bound on the requests started

ASSUME ConstantsAssumption ==
    /\ IsFiniteSet(Slots) /\ IsFiniteSet(Roles)
    /\ Owner \in Users
    /\ Everyone \in Roles
    /\ {ADMINISTRATOR, MANAGE_ROLES} \subseteq Bits
    /\ MinPosition \in Int /\ MinPosition <= 0
    /\ MaxPosition \in Nat \ {0, 1} /\ MaxRequests \in Nat
    /\ None \notin Users \cup Roles
    /\ None \notin [position : MinPosition .. MaxPosition, permissions : SUBSET Bits]

VARIABLES
    roles,      \* roles[r]: position and permissions of role r, or None
    held,       \* held[u]: roles of member_roles, @everyone among them
    request,    \* request[p]: the request served in slot p, or None
    granted,    \* history: permissions that were there at first, or that the
                \* owner has put on a role since
    trespasses, \* history: how members came to change or delete roles that
                \* were not below them
    started

rows    == <<roles, held>>
history == <<granted, trespasses>>
vars == <<rows, request, history, started>>

-----------------------------------------------------------------------------
(* Deviations: what a plausible slip in the code would make of the         *)
(* definition each is named after.  Nothing below uses them; they show     *)
(* that the properties depend on what the code does.                       *)

(* member_roles without ON DELETE CASCADE.                                 *)
StillHeld_ByAll(r) == held

(* update_role without the check for escalation.                           *)
update_role_Unchecked ==
    [start |-> "permitted", permitted |-> "highest", highest |-> "below",
     below |-> "write", may_grant |-> "write", write |-> "end"]

(* role_position > actor_highest.                                          *)
IsBelow_OrLevel(position, actor_highest) == position <= actor_highest

-----------------------------------------------------------------------------
(* What the permissions crate and get_user_permissions compute.            *)

WithAdministrator(permissions) ==
    IF ADMINISTRATOR \in permissions THEN Bits ELSE permissions

Overridden(permissions, allow, deny) == (permissions \ deny) \cup allow

(* Steps 2 to 4 for one who is not the owner.  base_of[r] is what role r   *)
(* permits; an override is a record of what it allows and denies, one that *)
(* is not there does neither; None stands for no channel.                  *)
compute_permissions(is_owner, member_roles, base_of, role_override, member_override) ==
    LET base == base_of[Everyone] \cup UNION {base_of[r] : r \in member_roles}
    IN  IF is_owner THEN Bits
        ELSE IF ADMINISTRATOR \in base THEN Bits
        ELSE IF role_override = None THEN base
        ELSE LET everyone   == Overridden(base, role_override[Everyone].allow,
                                                role_override[Everyone].deny)
                 role_allow == UNION {role_override[r].allow : r \in member_roles}
                 role_deny  == UNION {role_override[r].deny : r \in member_roles}
             IN  Overridden(Overridden(everyone, role_allow, role_deny),
                            member_override.allow, member_override.deny)

Positions == MinPosition .. MaxPosition

Existing == {r \in Roles : roles[r] # None}

get_user_permissions(u) ==
    IF u = Owner THEN Bits
    ELSE WithAdministrator(
            UNION {roles[r].permissions : r \in {s \in Existing : s = Everyone \/ s \in held[u]}})

(* MAX(position) over the roles of a member, 0 for none.                   *)
Highest(u) ==
    LET positions == {roles[r].position : r \in held[u] \cap Existing}
    IN  IF positions = {} THEN 0 ELSE Max(positions)

-----------------------------------------------------------------------------
(* The handlers: from each statement to the one after it.                  *)

create_role ==
    [start        |-> "permitted",
     permitted    |-> "max_position",
     max_position |-> "may_grant",
     may_grant    |-> "insert",
     insert       |-> "end"]

update_role ==
    [start     |-> "permitted",
     permitted |-> "highest",
     highest   |-> "below",
     below     |-> "may_grant",
     may_grant |-> "write",
     write     |-> "end"]

delete_role ==
    [start      |-> "permitted",
     permitted  |-> "is_default",
     is_default |-> "highest",
     highest    |-> "below",
     below      |-> "delete",
     delete     |-> "end"]

reorder_roles ==
    [start     |-> "permitted",
     permitted |-> "highest",
     highest   |-> "below",
     below     |-> "move_each",
     move_each |-> "end"]

(* The roles of the body of update_member.                                 *)
update_member ==
    [start       |-> "hierarchy",
     hierarchy   |-> "permitted",
     permitted   |-> "clear_roles",
     clear_roles |-> "add_roles",
     add_roles   |-> "end"]

Handler ==
    [create_role |-> create_role, update_role |-> update_role, delete_role |-> delete_role,
     reorder_roles |-> reorder_roles, update_member |-> update_member]

At(p, statement) == request[p] # None /\ request[p].at = statement

Actor(p) == request[p].actor

After(r) ==
    LET next == Handler[r.op][r.at]
    IN  IF next = "end" THEN None ELSE [r EXCEPT !.at = next]

Refuse(p) == request' = [request EXCEPT ![p] = None]

(* A statement that only reads, and the test of what it returns.           *)
Check(p, statement, passes) ==
    /\ At(p, statement)
    /\ request' = [request EXCEPT ![p] = IF passes THEN After(@) ELSE None]
    /\ UNCHANGED <<rows, history, started>>

(* A write that others rely on: whoever has read the positions before it   *)
(* has read what is no longer so.                                          *)
Overtaken(p, r) ==
    [q \in Slots |->
        IF q = p THEN r
        ELSE IF request[q] = None THEN None ELSE [request[q] EXCEPT !.overtaken = TRUE]]

(* A server with @everyone and two roles at most, as create_role places    *)
(* them, one of them of those who manage roles.                            *)
Init ==
    /\ \E low, high \in Roles \ {Everyone}, permissions \in SUBSET Bits :
          \E there \in {{Everyone, low}, {Everyone, low, high}} :
             /\ low # high
             /\ roles = [r \in Roles |->
                    IF r \notin there THEN None
                    ELSE CASE r = Everyone -> [position |-> 0, permissions |-> {}]
                           [] r = low      -> [position |-> 1, permissions |-> permissions]
                           [] OTHER        -> [position |-> 2, permissions |-> {MANAGE_ROLES}]]
             /\ \E h \in [Users -> SUBSET (there \ {Everyone})] :
                    held = [u \in Users |-> IF u = Owner THEN {Everyone} ELSE h[u] \cup {Everyone}]
             /\ granted = UNION {roles[r].permissions : r \in there}
    /\ trespasses = {}
    /\ request = [p \in Slots |-> None]
    /\ started = 0

-----------------------------------------------------------------------------
(* The checks.                                                             *)

(* require_permissions(MANAGE_ROLES).                                      *)
Permitted(p) == Check(p, "permitted", MANAGE_ROLES \in get_user_permissions(Actor(p)))

(* check_role_hierarchy.                                                   *)
Hierarchy(p) ==
    Check(p, "hierarchy",
          Actor(p) = Owner \/ Highest(Actor(p)) > Highest(request[p].member))

IsDefault(p) ==
    Check(p, "is_default", request[p].role \in Existing \ {Everyone})

(* get_actor_highest_position: it is kept while the handler goes on.  That *)
(* of the owner is i32::MAX.                                               *)
ReadHighest(p) ==
    /\ At(p, "highest")
    /\ request' = [request EXCEPT ![p] =
           After([@ EXCEPT !.highest = IF Actor(p) = Owner THEN MaxPosition ELSE Highest(Actor(p)),
                           !.overtaken = FALSE])]
    /\ UNCHANGED <<rows, history, started>>

IsBelow(position, actor_highest) == position < actor_highest

(* The roles a request is about to change.                                 *)
Subjects(r) ==
    IF r.op = "reorder_roles" THEN {r.moves[i].role : i \in DOMAIN r.moves} ELSE {r.role}

(* The positions of the roles are compared with it.  Whoever has i32::MAX  *)
(* is let off, as the owner has, but for a role that is not there;         *)
(* reorder_roles does not even look.                                       *)
Below(p) ==
    Check(p, "below",
          \/ /\ request[p].highest = MaxPosition
             /\ request[p].op = "reorder_roles" \/ request[p].role \in Existing
          \/ \A r \in Subjects(request[p]) :
                 r \in Existing /\ IsBelow(roles[r].position, request[p].highest))

(* "Cannot grant permissions you don't have"; looked up only for a body    *)
(* that has permissions.                                                   *)
MayGrant(p) ==
    Check(p, "may_grant",
          \/ request[p].permissions \in {None, {}}
          \/ request[p].permissions \subseteq get_user_permissions(Actor(p)))

(* The highest position of the server, and one more: above i32::MAX a      *)
(* build with overflow checks panics, which ends the request, and a        *)
(* release build wraps around.                                             *)
ReadMaxPosition(p) ==
    LET next == Max({roles[r].position : r \in Existing}) + 1
    IN  /\ At(p, "max_position")
        /\ \/ request' = [request EXCEPT ![p] =
                  After([@ EXCEPT !.position = IF next > MaxPosition THEN MinPosition ELSE next])]
           \/ next > MaxPosition /\ Refuse(p)
        /\ UNCHANGED <<rows, history, started>>

-----------------------------------------------------------------------------
(* The writes.                                                             *)

Granted(p, permissions) ==
    granted' = IF Actor(p) = Owner THEN granted \cup permissions ELSE granted

Bitset(permissions) == IF permissions = None THEN {} ELSE permissions

Insert(p) ==
    /\ At(p, "insert")
    /\ \E r \in Roles \ Existing :
          /\ \A q \in Slots \ {p} : request[q] # None => r \notin Subjects(request[q]) \cup request[q].list
          /\ roles' = [roles EXCEPT ![r] =
                 [position |-> request[p].position, permissions |-> Bitset(request[p].permissions)]]
    /\ Granted(p, Bitset(request[p].permissions))
    /\ request' = Overtaken(p, After(request[p]))
    /\ UNCHANGED <<held, trespasses, started>>

(* The role is not below the one who is about to change it, although no    *)
(* other request has written since the comparison: he was let off, the     *)
(* body has moved it before, or it was not compared.                       *)
Trespasses(p, r) ==
    /\ Actor(p) # Owner /\ ~request[p].overtaken
    /\ r \in Existing /\ roles[r].position >= Highest(Actor(p))

Cause(body, r) ==
    IF body.highest = MaxPosition THEN "let_off"
    ELSE IF r \in body.moved THEN "named_twice" ELSE "not_compared"

Trespass(p, r) ==
    trespasses' = IF Trespasses(p, r) THEN trespasses \cup {Cause(request[p], r)} ELSE trespasses

(* One UPDATE of the fields the body has.                                  *)
Write(p) ==
    LET r    == request[p].role
        body == request[p]
        row  == [position    |-> IF body.position = None THEN roles[r].position ELSE body.position,
                 permissions |-> IF body.permissions = None THEN roles[r].permissions
                                 ELSE body.permissions]
    IN  /\ At(p, "write")
        /\ IF r \in Existing
           THEN /\ roles' = [roles EXCEPT ![r] = row]
                /\ Granted(p, Bitset(body.permissions))
                /\ request' = Overtaken(p, After(body))
           ELSE request' = [request EXCEPT ![p] = After(@)] /\ UNCHANGED <<roles, granted>>
        /\ Trespass(p, r)
        /\ UNCHANGED <<held, started>>

StillHeld(r) == [u \in Users |-> held[u] \ {r}]

Delete(p) ==
    LET r == request[p].role
    IN  /\ At(p, "delete")
        /\ roles' = [roles EXCEPT ![r] = None]
        /\ held' = StillHeld(r)
        /\ Trespass(p, r)
        /\ request' = Overtaken(p, After(request[p]))
        /\ UNCHANGED <<granted, started>>

(* One UPDATE per entry of the body in turn, in no transaction; a role may *)
(* be in several.                                                          *)
MoveEach(p) ==
    /\ At(p, "move_each")
    /\ LET entry == Head(request[p].moves)
           r     == entry.role
           left  == [request[p] EXCEPT !.moves = Tail(@), !.moved = @ \cup {r}]
       IN  /\ roles' = IF r \in Existing
                       THEN [roles EXCEPT ![r].position = entry.position] ELSE roles
           /\ Trespass(p, r)
           /\ request' = Overtaken(p, IF left.moves = <<>> THEN After(request[p]) ELSE left)
    /\ UNCHANGED <<held, granted, started>>

(* All but @everyone.                                                      *)
ClearRoles(p) ==
    /\ At(p, "clear_roles")
    /\ held' = [held EXCEPT ![request[p].member] = @ \cap {Everyone}]
    /\ request' = Overtaken(p, After(request[p]))
    /\ UNCHANGED <<roles, history, started>>

(* One INSERT per role; the foreign key refuses one that is gone.          *)
AddRoles(p) ==
    /\ At(p, "add_roles")
    /\ IF request[p].list = {}
       THEN request' = [request EXCEPT ![p] = After(@)] /\ UNCHANGED held
       ELSE \E r \in request[p].list :
               IF r \in Existing
               THEN /\ held' = [held EXCEPT ![request[p].member] = @ \cup {r}]
                    /\ request' = Overtaken(p, [request[p] EXCEPT !.list = @ \ {r}])
               ELSE Refuse(p) /\ UNCHANGED held
    /\ UNCHANGED <<roles, history, started>>

-----------------------------------------------------------------------------
(* A request arrives.  A body that updates has permissions or a position,  *)
(* one that reorders has two entries, of two roles or of one; both move    *)
(* roles all the way down or up.                                           *)
Arrivals(op, actor) ==
    LET Body(role, position, permissions, moves, member, list) ==
            [op : {op}, at : {Handler[op].start}, actor : {actor}, role : role,
             position : position, permissions : permissions, moves : moves, moved : {{}},
             member : member, list : list, highest : {0}, overtaken : {FALSE}]
        none    == {None}
        still   == {<<>>}
        extreme == {MinPosition, MaxPosition}
        entries == [role : Existing, position : extreme]
    IN  CASE op = "create_role" ->
               Body(none, none, none \cup SUBSET Bits, still, none, {{}})
          [] op = "update_role" ->
               Body(Existing, none, SUBSET Bits, still, none, {{}})
                   \cup Body(Existing, extreme, none, still, none, {{}})
          [] op = "delete_role" -> Body(Existing, none, none, still, none, {{}})
          [] op = "reorder_roles" ->
               Body(none, none, none, [1 .. 2 -> entries], none, {{}})
          [] OTHER -> Body(none, none, none, still, Users, SUBSET Existing)

Start(p) ==
    /\ request[p] = None
    /\ started < MaxRequests
    /\ started' = started + 1
    /\ \E op \in DOMAIN Handler, u \in Users : \E arrival \in Arrivals(op, u) :
          request' = [request EXCEPT ![p] = arrival]
    /\ UNCHANGED <<rows, history>>

(* A statement fails, or the client goes away and the handler is dropped.  *)
Fail(p) ==
    /\ request[p] # None
    /\ Refuse(p)
    /\ UNCHANGED <<rows, history, started>>

Next ==
    \E p \in Slots :
        \/ Start(p) \/ Fail(p)
        \/ Permitted(p) \/ Hierarchy(p) \/ IsDefault(p) \/ ReadHighest(p) \/ Below(p)
        \/ MayGrant(p) \/ ReadMaxPosition(p)
        \/ Insert(p) \/ Write(p) \/ Delete(p) \/ MoveEach(p) \/ ClearRoles(p) \/ AddRoles(p)

Spec == Init /\ [][Next]_vars

-----------------------------------------------------------------------------
(* Properties.                                                             *)

(* Types; the server keeps @everyone, every member holds it, and a role    *)
(* that somebody holds is there.                                           *)
TypeOK ==
    /\ roles[Everyone] # None
    /\ \A r \in Existing : roles[r] \in [position : Positions, permissions : SUBSET Bits]
    /\ held \in [Users -> SUBSET Roles]
    /\ \A u \in Users : Everyone \in held[u] /\ held[u] \subseteq Existing
    /\ granted \subseteq Bits
    /\ trespasses \subseteq {"let_off", "named_twice", "not_compared"}
    /\ \A p \in Slots : request[p] # None =>
          /\ request[p].actor \in Users
          /\ request[p].permissions = None \/ request[p].permissions \subseteq Bits
          /\ request[p].overtaken \in BOOLEAN
          /\ request[p].at \in DOMAIN Handler[request[p].op] \ {"start"}

(* "Escalation prevention": whatever members do, together or each on       *)
(* roles of his own, no role permits what neither was there at first nor   *)
(* came from the owner.  An administrator has everything to give.          *)
BitsFromOwner ==
    \A r \in Existing : roles[r].permissions \subseteq WithAdministrator(granted)

(* "Cannot modify roles at or above your highest role position": what a    *)
(* handler compared with the position of its actor is still below him when *)
(* it writes, over all the statements in between and the entries of a body *)
(* before it, unless another request has written meanwhile.  Two causes    *)
(* are left out, which the code does not prevent: a member of position     *)
(* i32::MAX is let off as if he were the owner, and a body may name a role *)
(* twice, the second time above the actor.                                 *)
HierarchyKept == "not_compared" \notin trespasses
=============================================================================
