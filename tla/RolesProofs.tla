----------------------------- MODULE RolesProofs -----------------------------
(***************************************************************************)
(* What the two computations of permissions agree on; and that no          *)
(* interleaving of the handlers of roles puts on a role what the owner has *)
(* not, or lets a member change what was compared and is not below him.    *)
(***************************************************************************)
EXTENDS Roles, FiniteSetTheorems, SequenceTheorems, WellFoundedInduction, TLAPS

(* Whoever decides a bit last decides it: the override of the member, else *)
(* those of the roles, of which one that allows is enough, else that of    *)
(* @everyone, else the roles.                                              *)
Mentions(override, b) == b \in override.allow \cup override.deny

Decided(b, member_roles, base, role_override, member_override) ==
    \/ Mentions(member_override, b) /\ b \in member_override.allow
    \/ /\ ~Mentions(member_override, b)
       /\ \E r \in member_roles : b \in role_override[r].allow
    \/ /\ ~Mentions(member_override, b)
       /\ \A r \in member_roles : ~Mentions(role_override[r], b)
       /\ \/ b \in role_override[Everyone].allow
          \/ ~Mentions(role_override[Everyone], b) /\ b \in base

(* "Follows the exact Discord algorithm" (lib.rs:85): for a member who is  *)
(* neither owner nor administrator, compute_permissions decides each bit   *)
(* by the most specific override that mentions it, whatever the roles and  *)
(* the overrides are.                                                      *)
THEOREM MostSpecificDecides ==
    ASSUME NEW member_roles, NEW base_of, NEW role_override, NEW member_override, NEW b,
           role_override # None,
           ADMINISTRATOR \notin base_of[Everyone] \cup UNION {base_of[r] : r \in member_roles}
    PROVE  b \in compute_permissions(FALSE, member_roles, base_of, role_override, member_override)
             <=> Decided(b, member_roles,
                         base_of[Everyone] \cup UNION {base_of[r] : r \in member_roles},
                         role_override, member_override)
  <1> DEFINE base       == base_of[Everyone] \cup UNION {base_of[r] : r \in member_roles}
             everyone   == Overridden(base, role_override[Everyone].allow,
                                            role_override[Everyone].deny)
             role_allow == UNION {role_override[r].allow : r \in member_roles}
             role_deny  == UNION {role_override[r].deny : r \in member_roles}
             inner      == Overridden(everyone, role_allow, role_deny)
  <1>1. compute_permissions(FALSE, member_roles, base_of, role_override, member_override)
          = Overridden(inner, member_override.allow, member_override.deny)
    BY DEF compute_permissions
  <1>2. b \in everyone <=> \/ b \in role_override[Everyone].allow
                           \/ ~Mentions(role_override[Everyone], b) /\ b \in base
    BY DEF Overridden, Mentions
  <1>3. b \in role_allow <=> \E r \in member_roles : b \in role_override[r].allow
    OBVIOUS
  <1>4. b \in role_deny <=> \E r \in member_roles : b \in role_override[r].deny
    OBVIOUS
  <1> HIDE DEF base, everyone, role_allow, role_deny
  <1>5. b \in inner <=> \/ \E r \in member_roles : b \in role_override[r].allow
                        \/ /\ \A r \in member_roles : ~Mentions(role_override[r], b)
                           /\ b \in everyone
    BY <1>3, <1>4 DEF Overridden, Mentions
  <1> HIDE DEF inner
  <1>6. b \in Overridden(inner, member_override.allow, member_override.deny)
          <=> \/ Mentions(member_override, b) /\ b \in member_override.allow
              \/ ~Mentions(member_override, b) /\ b \in inner
    BY DEF Overridden, Mentions
  <1> QED BY <1>1, <1>2, <1>5, <1>6 DEF Decided, base

(* get_user_permissions (servers.rs) and compute_permissions without a     *)
(* channel (lib.rs) are two computations of one thing.                     *)
THEOREM SamePermissions ==
    ASSUME NEW u \in Users, TypeOK
    PROVE  get_user_permissions(u)
             = compute_permissions(u = Owner, held[u],
                                   [r \in Roles |-> IF r \in Existing THEN roles[r].permissions ELSE {}],
                                   None, None)
  <1> DEFINE base_of == [r \in Roles |-> IF r \in Existing THEN roles[r].permissions ELSE {}]
  <1>1. Everyone \in Existing /\ held[u] \subseteq Existing
    BY ConstantsAssumption DEF TypeOK, Existing
  <1>2. \A r \in Existing : base_of[r] = roles[r].permissions
    BY DEF Existing
  <1>3. {s \in Existing : s = Everyone \/ s \in held[u]} = {Everyone} \cup held[u]
    BY <1>1
  <1> HIDE DEF base_of
  <1>4. UNION {roles[r].permissions : r \in {s \in Existing : s = Everyone \/ s \in held[u]}}
          = base_of[Everyone] \cup UNION {base_of[r] : r \in held[u]}
    <2>1. UNION {roles[r].permissions : r \in {Everyone} \cup held[u]}
            = UNION {base_of[r] : r \in {Everyone} \cup held[u]}
      BY <1>1, <1>2
    <2>2. UNION {base_of[r] : r \in {Everyone} \cup held[u]}
            = base_of[Everyone] \cup UNION {base_of[r] : r \in held[u]}
      OBVIOUS
    <2> QED BY <1>3, <2>1, <2>2
  <1> QED BY <1>4 DEF get_user_permissions, compute_permissions, WithAdministrator, base_of

-----------------------------------------------------------------------------
(* The inductive invariant.                                                *)

Entries    == [role : Roles, position : Positions]
Causes     == {"let_off", "named_twice", "not_compared"}
Statements == UNION {DOMAIN Handler[op] : op \in DOMAIN Handler}

(* A request has the fields its handler uses; one that deletes is past     *)
(* is_default only with a role other than @everyone, and one that reorders *)
(* ends with its last entry.                                               *)
Fields == [op : DOMAIN Handler, at : Statements, actor : Users, role : Roles \cup {None},
           position : Positions \cup {None}, permissions : {None} \cup SUBSET Bits,
           moves : Seq(Entries), moved : SUBSET Roles,
           member : Users \cup {None}, list : SUBSET Roles,
           highest : Positions, overtaken : BOOLEAN]

RequestOK(r) ==
    /\ r \in Fields
    /\ r.at \in DOMAIN Handler[r.op] \ {"start"}
    /\ r.op = "update_role" => r.role \in Roles
    /\ r.op = "delete_role" =>
          r.role \in Roles /\ (r.at \notin {"permitted", "is_default"} => r.role # Everyone)
    /\ r.op = "create_role" /\ r.at \in {"may_grant", "insert"} => r.position \in Positions
    /\ r.op = "reorder_roles" => r.moves # <<>>
    /\ r.at # "move_each" => r.moved = {}

RowsOK ==
    /\ roles = [r \in Roles |-> roles[r]]
    /\ roles[Everyone] # None
    /\ \A r \in Existing : roles[r] \in [position : Positions, permissions : SUBSET Bits]
    /\ held \in [Users -> SUBSET Roles]
    /\ \A u \in Users : Everyone \in held[u] /\ held[u] \subseteq Existing
    /\ granted \subseteq Bits
    /\ trespasses \subseteq Causes

RequestsOK ==
    /\ request = [p \in Slots |-> request[p]]
    /\ \A p \in Slots : request[p] # None => RequestOK(request[p])

TypeInv == RowsOK /\ RequestsOK

(* What is about to be written has been found with the one who writes it.  *)
WriteGranted ==
    \A p \in Slots :
        /\ request[p] # None /\ request[p].at \in {"insert", "write"}
        /\ Actor(p) # Owner
        => Bitset(request[p].permissions) \subseteq WithAdministrator(granted)

GrantInv == BitsFromOwner /\ WriteGranted

(* Unless another request has written since, or its actor is let off, the  *)
(* position a handler keeps is that of a role of its actor which the body  *)
(* has not moved, and what it has compared with it and not yet moved is    *)
(* still below.                                                            *)
Compared(r) ==
    \/ r.at \in {"write", "delete", "move_each"}
    \/ r.at = "may_grant" /\ r.op = "update_role"

Anchored(r) ==
    \E s \in (held[r.actor] \cap Existing) \ r.moved : roles[s].position >= r.highest

AreBelow(r) ==
    \A s \in (Subjects(r) \ r.moved) \cap Existing : roles[s].position < r.highest

StillBelow ==
    \A p \in Slots :
        /\ request[p] # None
        /\ Actor(p) # Owner /\ ~request[p].overtaken
        /\ request[p].highest # MaxPosition
        => /\ request[p].at = "below" \/ Compared(request[p]) => Anchored(request[p])
           /\ Compared(request[p]) => AreBelow(request[p])

OrderInv == StillBelow /\ HierarchyKept

-----------------------------------------------------------------------------
(* What the tables of the handlers say of a statement s and the next, n.   *)
Placed(op, s, n) ==
    /\ n = "end" \/ n \in DOMAIN Handler[op] \ {"start"}
    /\ s = "insert" => op = "create_role"
    /\ s = "write" => op = "update_role"
    /\ s = "delete" => op = "delete_role"
    /\ s = "move_each" => op = "reorder_roles"
    /\ s \in {"max_position"} => op = "create_role"
    /\ s = "is_default" => op = "delete_role"
    /\ s \in {"clear_roles", "add_roles"} => op = "update_member"
    /\ n \in {"insert", "write"} => s = "may_grant"
    /\ n \in {"delete", "move_each"} => s = "below"
    /\ n = "may_grant" /\ op = "update_role" => s = "below"
    /\ n = "below" => s = "highest"
    /\ s = "highest" => n = "below"
    /\ s \in {"insert", "write", "delete", "move_each"} => n = "end"
    /\ n \in {"may_grant", "insert"} /\ op = "create_role" => s \in {"max_position", "may_grant"}
    /\ n \notin {"permitted", "is_default"} /\ op = "delete_role" => s \notin {"start", "permitted"}

(* The tables of the handlers, statement by statement.                     *)
LEMMA HandlersPlaced ==
    ASSUME NEW op \in DOMAIN Handler, NEW s \in DOMAIN Handler[op]
    PROVE  Placed(op, s, Handler[op][s])
  <1> USE DEF Placed, Handler
  <1>1. CASE op = "create_role"
    BY <1>1 DEF create_role
  <1>2. CASE op = "update_role"
    BY <1>2 DEF update_role
  <1>3. CASE op = "delete_role"
    BY <1>3 DEF delete_role
  <1>4. CASE op = "reorder_roles"
    BY <1>4 DEF reorder_roles
  <1>5. CASE op = "update_member"
    BY <1>5 DEF update_member
  <1>6. DOMAIN Handler = {"create_role", "update_role", "delete_role", "reorder_roles",
                          "update_member"}
    OBVIOUS
  <1> QED BY ONLY <1>1, <1>2, <1>3, <1>4, <1>5, <1>6, op \in DOMAIN Handler

(* A request that goes on is the same at a next statement, and has what    *)
(* that statement needs if it has it when it leaves the two statements     *)
(* that find it.                                                           *)
LEMMA GoingOn ==
    ASSUME NEW r, RequestOK(r),
           r.op = "delete_role" /\ r.at = "is_default" => r.role # Everyone,
           r.op = "create_role" /\ r.at = "max_position" => r.position \in Positions,
           After(r) # None
    PROVE  /\ RequestOK(After(r))
           /\ After(r).at = Handler[r.op][r.at]
           /\ Placed(r.op, r.at, After(r).at)
           /\ \A f \in {"op", "actor", "role", "position", "permissions", "moves", "moved",
                         "member", "list", "highest", "overtaken"} : After(r)[f] = r[f]
  <1> DEFINE n == Handler[r.op][r.at]
             next == [r EXCEPT !.at = n]
  <1>1. r.op \in DOMAIN Handler /\ r.at \in DOMAIN Handler[r.op]
    BY DEF RequestOK, Fields
  <1>2. Placed(r.op, r.at, n)
    BY <1>1, HandlersPlaced
  <1>3. After(r) = next /\ n # "end"
    BY DEF After
  <1> HIDE DEF n
  <1>4. n \in DOMAIN Handler[r.op] \ {"start"}
    BY <1>2, <1>3 DEF Placed
  <1>5. n \in Statements
    BY <1>1, <1>4 DEF Statements
  <1>6. /\ next \in Fields
        /\ next.at = n
        /\ next.op = r.op /\ next.actor = r.actor /\ next.role = r.role
        /\ next.position = r.position /\ next.permissions = r.permissions
        /\ next.moves = r.moves /\ next.moved = r.moved
        /\ next.member = r.member /\ next.list = r.list
        /\ next.highest = r.highest /\ next.overtaken = r.overtaken
    BY <1>5 DEF RequestOK, Fields
  <1> HIDE DEF next
  <1>7. RequestOK(next)
    BY <1>2, <1>3, <1>4, <1>6 DEF RequestOK, Placed
  <1> QED BY <1>2, <1>3, <1>6, <1>7 DEF n, next

(* A request that is marked as overtaken is still one.                     *)
LEMMA OvertakenOK ==
    ASSUME NEW r, RequestOK(r)
    PROVE  RequestOK([r EXCEPT !.overtaken = TRUE])
  <1> DEFINE m == [r EXCEPT !.overtaken = TRUE]
  <1>1. /\ m \in Fields /\ m.op = r.op /\ m.at = r.at /\ m.role = r.role
        /\ m.position = r.position /\ m.moves = r.moves /\ m.moved = r.moved
    BY DEF RequestOK, Fields
  <1> HIDE DEF m
  <1>2. RequestOK(m)
    BY <1>1 DEF RequestOK
  <1> QED BY <1>2 DEF m

(* The least position, 0 and the greatest one.                             *)
LEMMA PositionsInt ==
    /\ MinPosition \in Int /\ MaxPosition \in Int
    /\ {MinPosition, 0, 1, 2, MaxPosition} \subseteq Positions /\ Positions \subseteq Int
  BY ConstantsAssumption DEF Positions

(* A set of positions has a maximum, and Max finds it.                     *)
LEMMA MaxIsMax ==
    ASSUME NEW S \in SUBSET Positions, S # {}
    PROVE  /\ Max(S) \in S /\ Max(S) \in Positions /\ Max(S) \in Int
           /\ \A x \in S : x <= Max(S)
  <1> DEFINE B == MaxPosition
  <1>p. MinPosition \in Int /\ B \in Int /\ \A x \in S : x \in Int /\ x <= B
    BY PositionsInt DEF Positions
  <1> HIDE DEF B
  <1> DEFINE gaps == {n \in Nat : \E x \in S : n = B - x}
  <1>1. gaps \subseteq Nat /\ gaps # {}
    <2>1. PICK x \in S : TRUE
      OBVIOUS
    <2>2. B - x \in gaps
      BY <1>p
    <2> QED BY <2>2
  <1>2. PICK g \in gaps : \A y \in gaps : ~(<<y, g>> \in OpToRel(<, Nat))
    BY <1>1, NatLessThanWellFounded, WFMin
  <1>3. \A y \in gaps : g <= y
    <2> SUFFICES ASSUME NEW y \in gaps, y < g PROVE FALSE
      BY <1>1
    <2>1. OpToRel(<, Nat) = {ss \in Nat \X Nat : ss[1] < ss[2]}
      BY DEF OpToRel
    <2>2. <<y, g>> \in {ss \in Nat \X Nat : ss[1] < ss[2]}
      BY <1>1
    <2> QED BY <1>2, <2>1, <2>2, Zenon
  <1>4. PICK m \in S : g = B - m
    OBVIOUS
  <1>5. \A x \in S : m >= x
    <2> SUFFICES ASSUME NEW x \in S PROVE m >= x
      OBVIOUS
    <2>1. B - x \in gaps
      BY <1>p
    <2> QED BY <2>1, <1>p, <1>3, <1>4
  <1>6. Max(S) \in S /\ \A x \in S : Max(S) >= x
    <2>1. \E x \in S : \A y \in S : x >= y
      BY <1>5
    <2> QED BY <2>1 DEF Max
  <1> QED BY <1>6, <1>p

-----------------------------------------------------------------------------
(* Types.                                                                  *)

(* The rows and the requests in their shape are the declared types.        *)
LEMMA TypeInvSuffices == TypeInv => TypeOK
  BY DEF TypeInv, RowsOK, RequestsOK, RequestOK, Fields, TypeOK, Causes

(* What a step in p does to the requests: that of p becomes r, others are  *)
(* left alone or marked.                                                   *)
Becomes(p, r) ==
    /\ request'[p] = r
    /\ \A q \in Slots \ {p} :
          \/ request'[q] = request[q]
          \/ request[q] # None /\ request'[q] = [request[q] EXCEPT !.overtaken = TRUE]

(* A statement that overtakes nobody changes its own request only.         *)
LEMMA Plainly ==
    ASSUME RequestsOK, NEW p \in Slots, NEW r, r = None \/ RequestOK(r),
           request' = [request EXCEPT ![p] = r]
    PROVE  RequestsOK' /\ Becomes(p, r) /\ \A q \in Slots \ {p} : request'[q] = request[q]
  BY DEF RequestsOK, Becomes

(* A statement that writes roles or holders marks all other requests.      *)
LEMMA ByOvertaking ==
    ASSUME RequestsOK, NEW p \in Slots, NEW r, r = None \/ RequestOK(r),
           request' = Overtaken(p, r)
    PROVE  /\ RequestsOK' /\ Becomes(p, r)
           /\ \A q \in Slots \ {p} : request'[q] # None => request'[q].overtaken = TRUE
  <1>1. \A q \in Slots : request'[q] =
            IF q = p THEN r
            ELSE IF request[q] = None THEN None ELSE [request[q] EXCEPT !.overtaken = TRUE]
    BY DEF Overtaken
  <1>2. \A q \in Slots \ {p} : request'[q] # None =>
            RequestOK(request'[q]) /\ request'[q].overtaken = TRUE
    <2> SUFFICES ASSUME NEW q \in Slots \ {p}, request'[q] # None
                 PROVE  RequestOK(request'[q]) /\ request'[q].overtaken = TRUE
      OBVIOUS
    <2>1. request[q] # None /\ RequestOK(request[q])
          /\ request'[q] = [request[q] EXCEPT !.overtaken = TRUE]
      BY <1>1 DEF RequestsOK
    <2>2. "overtaken" \in DOMAIN request[q]
      BY <2>1 DEF RequestOK, Fields
    <2> QED BY <2>1, <2>2, OvertakenOK
  <1>3. request' = [q \in Slots |-> request'[q]]
    BY DEF Overtaken
  <1> QED BY <1>1, <1>2, <1>3 DEF RequestsOK, Becomes

(* Every body that arrives has what its handler needs.                     *)
LEMMA ArrivalOK ==
    ASSUME NEW op \in DOMAIN Handler, NEW u \in Users, NEW r \in Arrivals(op, u)
    PROVE  RequestOK(r) /\ r.at \in {"permitted", "hierarchy"}
  <1> USE ConstantsAssumption
  <1>1. Existing \subseteq Roles
    BY DEF Existing
  <1>2. /\ Handler[op].start \in DOMAIN Handler[op] \ {"start"}
        /\ Handler[op].start \in {"permitted", "hierarchy"}
    <2> USE DEF Handler
    <2>1. DOMAIN Handler = {"create_role", "update_role", "delete_role", "reorder_roles",
                            "update_member"}
      OBVIOUS
    <2>2. CASE op \in {"create_role", "update_role", "delete_role"}
      BY <2>2, <1>1 DEF create_role, update_role, delete_role
    <2>3. CASE op \in {"reorder_roles", "update_member"}
      BY <2>3 DEF reorder_roles, update_member
    <2> QED BY <2>1, <2>2, <2>3
  <1>3. Handler[op].start \in Statements
    BY <1>2 DEF Statements
  <1> DEFINE extreme == {MinPosition, MaxPosition}
             entries == [role : Existing, position : extreme]
             Body(role, position, permissions, moves, member, list) ==
                [op : {op}, at : {Handler[op].start}, actor : {u}, role : role,
                 position : position, permissions : permissions, moves : moves, moved : {{}},
                 member : member, list : list, highest : {0}, overtaken : {FALSE}]
  <1>e. extreme \subseteq Positions /\ 0 \in Positions
    BY PositionsInt
  <1> DEFINE still == {<<>>}
             pairs == [1 .. 2 -> entries]
  <1>m. still \subseteq Seq(Entries) /\ pairs \subseteq Seq(Entries) /\ \A s \in pairs : s # <<>>
    <2>1. entries \subseteq Entries
      BY <1>1, <1>e DEF Entries
    <2> HIDE DEF entries
    <2>2. ASSUME NEW s \in pairs PROVE s \in Seq(Entries) /\ s # <<>>
      <3>1. s \in [1 .. 2 -> Entries]
        BY <2>1
      <3>2. s \in Seq(Entries)
        BY <3>1, SeqDef
      <3>3. 1 \in DOMAIN s
        BY <3>1
      <3>4. s # <<>>
        BY <3>3
      <3> QED BY <3>2, <3>4
    <2> QED BY <2>2
  <1> HIDE DEF extreme, entries, still, pairs
  <1>b. ASSUME NEW role, role \subseteq Roles \cup {None},
               NEW position, position \subseteq Positions \cup {None},
               NEW permissions, permissions \subseteq {None} \cup SUBSET Bits,
               NEW moves, moves \subseteq Seq(Entries),
               NEW member, member \subseteq Users \cup {None},
               NEW list, list \subseteq SUBSET Roles,
               r \in Body(role, position, permissions, moves, member, list),
               op \in {"update_role", "delete_role"} => role \subseteq Roles,
               op = "reorder_roles" => \A s \in moves : s # <<>>
        PROVE  RequestOK(r) /\ r.at \in {"permitted", "hierarchy"}
    <2>1. /\ r \in Fields
          /\ r.op = op /\ r.at = Handler[op].start /\ r.role \in role
          /\ r.moves \in moves /\ r.moved = {}
      <3>1. r = [op |-> r.op, at |-> r.at, actor |-> r.actor, role |-> r.role,
                 position |-> r.position, permissions |-> r.permissions, moves |-> r.moves,
                 moved |-> r.moved, member |-> r.member, list |-> r.list, highest |-> r.highest,
                 overtaken |-> r.overtaken]
        BY <1>b
      <3>2. /\ r.op = op /\ r.at = Handler[op].start /\ r.actor = u /\ r.role \in role
            /\ r.position \in position /\ r.permissions \in permissions /\ r.moves \in moves
            /\ r.moved = {} /\ r.member \in member /\ r.list \in list /\ r.highest = 0
            /\ r.overtaken = FALSE
        BY <1>b
      <3> HIDE DEF Body
      <3>3. /\ r.op \in DOMAIN Handler /\ r.at \in Statements /\ r.actor \in Users
            /\ r.role \in Roles \cup {None} /\ r.position \in Positions \cup {None}
            /\ r.permissions \in {None} \cup SUBSET Bits /\ r.moves \in Seq(Entries)
            /\ r.moved \in SUBSET Roles
            /\ r.member \in Users \cup {None} /\ r.list \in SUBSET Roles
            /\ r.highest \in Positions /\ r.overtaken \in BOOLEAN
        <4>1. r.op \in DOMAIN Handler /\ r.at \in Statements /\ r.actor \in Users
          BY <3>2, <1>3
        <4>2. r.role \in Roles \cup {None} /\ r.position \in Positions \cup {None}
          BY <3>2, <1>b
        <4>3. r.permissions \in {None} \cup SUBSET Bits
          BY <3>2, <1>b
        <4>4. r.moves \in Seq(Entries) /\ r.member \in Users \cup {None}
          BY <3>2, <1>b, Zenon
        <4>5. r.list \in SUBSET Roles /\ r.moved \in SUBSET Roles
          BY <3>2, <1>b
        <4>6. r.highest \in Positions
          BY <3>2, <1>e
        <4>7. r.overtaken \in BOOLEAN
          BY <3>2, Zenon
        <4> QED BY <4>1, <4>2, <4>3, <4>4, <4>5, <4>6, <4>7
      <3> QED BY <3>1, <3>2, <3>3 DEF Fields
    <2>2. op \in {"create_role", "delete_role", "reorder_roles"} => Handler[op].start = "permitted"
      BY DEF Handler, create_role, delete_role, reorder_roles
    <2> QED BY <2>1, <2>2, <1>2, <1>b DEF RequestOK
  <1> HIDE DEF Body
  <1>4. CASE op = "create_role"
    <2>1. r \in Body({None}, {None}, {None} \cup SUBSET Bits, still, {None}, {{}})
      BY <1>4 DEF Arrivals, Body, still
    <2> QED BY <2>1, <1>1, <1>b, <1>4, <1>m
  <1>5. CASE op = "update_role"
    <2>1. r \in Body(Existing, {None}, SUBSET Bits, still, {None}, {{}})
                  \cup Body(Existing, extreme, {None}, still, {None}, {{}})
      BY <1>5 DEF Arrivals, Body, extreme, still
    <2> QED BY <2>1, <1>1, <1>b, <1>e, <1>5, <1>m
  <1>6. CASE op = "delete_role"
    <2>1. r \in Body(Existing, {None}, {None}, still, {None}, {{}})
      BY <1>6 DEF Arrivals, Body, still
    <2> QED BY <2>1, <1>1, <1>b, <1>6, <1>m
  <1>7. CASE op = "reorder_roles"
    <2>1. r \in Body({None}, {None}, {None}, pairs, {None}, {{}})
      BY <1>7 DEF Arrivals, Body, pairs, entries, extreme
    <2> QED BY <2>1, <1>1, <1>b, <1>7, <1>m
  <1>8. CASE op = "update_member"
    <2>1. r \in Body({None}, {None}, {None}, still, Users, SUBSET Existing)
      BY <1>8 DEF Arrivals, Body, still
    <2> QED BY <2>1, <1>1, <1>b, <1>8, <1>m
  <1>9. DOMAIN Handler = {"create_role", "update_role", "delete_role", "reorder_roles",
                          "update_member"}
    BY DEF Handler
  <1> QED BY <1>4, <1>5, <1>6, <1>7, <1>8, <1>9

(* A server with @everyone and one or two roles, and no request.           *)
LEMMA TypeInvInit == Init => TypeInv
  <1> SUFFICES ASSUME Init PROVE TypeInv
    OBVIOUS
  <1> USE ConstantsAssumption
  <1>1. PICK low \in Roles \ {Everyone}, high \in Roles \ {Everyone}, permissions \in SUBSET Bits :
          \E there \in {{Everyone, low}, {Everyone, low, high}} :
             /\ low # high
             /\ roles = [r \in Roles |->
                    IF r \notin there THEN None
                    ELSE CASE r = Everyone -> [position |-> 0, permissions |-> {}]
                           [] r = low      -> [position |-> 1, permissions |-> permissions]
                           [] OTHER        -> [position |-> 2, permissions |-> {MANAGE_ROLES}]]
             /\ \E h \in [Users -> SUBSET (there \ {Everyone})] :
                    held = [u \in Users |-> IF u = Owner THEN {Everyone} ELSE h[u] \cup {Everyone}]
             /\ granted = UNION {roles[r].permissions : r \in there}
    BY DEF Init
  <1>2. PICK there \in {{Everyone, low}, {Everyone, low, high}} :
             /\ low # high
             /\ roles = [r \in Roles |->
                    IF r \notin there THEN None
                    ELSE CASE r = Everyone -> [position |-> 0, permissions |-> {}]
                           [] r = low      -> [position |-> 1, permissions |-> permissions]
                           [] OTHER        -> [position |-> 2, permissions |-> {MANAGE_ROLES}]]
             /\ \E h \in [Users -> SUBSET (there \ {Everyone})] :
                    held = [u \in Users |-> IF u = Owner THEN {Everyone} ELSE h[u] \cup {Everyone}]
             /\ granted = UNION {roles[r].permissions : r \in there}
    BY <1>1
  <1>3. there \subseteq Roles /\ Everyone \in there
    OBVIOUS
  <1>4. \A r \in there : roles[r] \in [position : Positions, permissions : SUBSET Bits]
    BY <1>2, <1>3, PositionsInt
  <1>5. Existing = there
    BY <1>2, <1>3, <1>4 DEF Existing
  <1>6. held \in [Users -> SUBSET there] /\ \A u \in Users : Everyone \in held[u]
    <2>1. PICK h \in [Users -> SUBSET (there \ {Everyone})] :
              held = [u \in Users |-> IF u = Owner THEN {Everyone} ELSE h[u] \cup {Everyone}]
      BY <1>2
    <2> QED BY <1>3, <2>1
  <1>7. granted \subseteq Bits
    <2>1. granted = UNION {roles[r].permissions : r \in there}
      BY <1>2
    <2>2. \A r \in there : roles[r].permissions \subseteq Bits
      BY <1>4
    <2> QED BY <2>1, <2>2
  <1>8. roles = [r \in Roles |-> roles[r]]
    BY <1>2
  <1>9. RowsOK
    <2>1. roles[Everyone] # None
      BY <1>3, <1>5 DEF Existing
    <2>2. /\ held \in [Users -> SUBSET Roles]
          /\ \A u \in Users : Everyone \in held[u] /\ held[u] \subseteq Existing
      BY <1>3, <1>5, <1>6
    <2>3. trespasses \subseteq Causes
      BY DEF Init
    <2> QED BY <1>4, <1>5, <1>7, <1>8, <2>1, <2>2, <2>3 DEF RowsOK
  <1>10. RequestsOK
    BY DEF Init, RequestsOK
  <1> QED BY <1>9, <1>10 DEF TypeInv

(* A row that is written keeps the types of the rows.                      *)
LEMMA RowWritten ==
    ASSUME RowsOK, NEW r \in Roles,
           NEW row \in [position : Positions, permissions : SUBSET Bits],
           roles' = [roles EXCEPT ![r] = row], held' = held,
           (granted \subseteq Bits)', (trespasses \subseteq Causes)'
    PROVE  /\ RowsOK' /\ Existing' = Existing \cup {r} /\ roles'[r] = row
           /\ \A s \in Roles \ {r} : roles'[s] = roles[s]
  <1> USE ConstantsAssumption
  <1>1. /\ roles' = [s \in Roles |-> roles'[s]] /\ roles'[r] = row
        /\ \A s \in Roles \ {r} : roles'[s] = roles[s]
    BY DEF RowsOK
  <1>2. row # None
    BY DEF Positions
  <1>3. Existing' = Existing \cup {r}
    BY <1>1, <1>2 DEF Existing
  <1>4. \A s \in Existing' : roles'[s] \in [position : Positions, permissions : SUBSET Bits]
    BY <1>1, <1>3 DEF RowsOK, Existing
  <1>5. roles'[Everyone] # None
    BY <1>1, <1>2 DEF RowsOK
  <1>6. \A u \in Users : Everyone \in held'[u] /\ held'[u] \subseteq Existing'
    BY <1>3 DEF RowsOK
  <1> QED BY <1>1, <1>3, <1>4, <1>5, <1>6 DEF RowsOK

(* A statement that only reads keeps the rows as they are.                 *)
LEMMA RowsUnchanged ==
    ASSUME RowsOK, UNCHANGED <<rows, history>>
    PROVE  RowsOK' /\ Existing' = Existing
  BY DEF RowsOK, rows, history, Existing

(* The two histories keep to what they record.                             *)
LEMMA HistoryOK ==
    ASSUME TypeInv, NEW p \in Slots, request[p] # None
    PROVE  /\ \A permissions \in SUBSET Bits : Granted(p, permissions) => granted' \subseteq Bits
           /\ \A r : Trespass(p, r) => trespasses' \subseteq Causes
  BY DEF TypeInv, RowsOK, Granted, Trespass, Trespasses, Existing, Cause, Causes

(* A statement that only reads, and passes or refuses.                     *)
LEMMA CheckStep ==
    ASSUME TypeInv, NEW p \in Slots, NEW statement, NEW passes, Check(p, statement, passes),
           statement # "max_position",
           statement = "is_default" /\ passes => request[p].role # Everyone
    PROVE  /\ TypeInv' /\ Existing' = Existing
           /\ request[p] # None /\ request[p].at = statement /\ RequestOK(request[p])
           /\ Becomes(p, IF passes THEN After(request[p]) ELSE None)
           /\ \A q \in Slots \ {p} : request'[q] = request[q]
  <1> DEFINE r == IF passes THEN After(request[p]) ELSE None
  <1>1. request[p] # None /\ request[p].at = statement /\ RequestOK(request[p])
    BY DEF Check, At, TypeInv, RequestsOK
  <1>2. r = None \/ RequestOK(r)
    BY <1>1, GoingOn
  <1>3. request' = [request EXCEPT ![p] = r]
    BY DEF Check, TypeInv, RequestsOK
  <1> HIDE DEF r
  <1>4. RequestsOK' /\ Becomes(p, r) /\ \A q \in Slots \ {p} : request'[q] = request[q]
    BY <1>2, <1>3, Plainly DEF TypeInv
  <1>5. RowsOK' /\ Existing' = Existing
    BY RowsUnchanged DEF TypeInv, Check
  <1> QED BY <1>1, <1>4, <1>5 DEF TypeInv, r

(* The highest position of a member is that of a role of his, and no role  *)
(* of his stands above it.                                                 *)
LEMMA HighestBounds ==
    ASSUME RowsOK, NEW u \in Users
    PROVE  /\ Highest(u) \in Positions /\ Highest(u) \in Int
           /\ \E r \in held[u] \cap Existing : roles[r].position = Highest(u)
           /\ \A r \in held[u] \cap Existing : roles[r].position <= Highest(u)
  <1> DEFINE S == {roles[r].position : r \in held[u] \cap Existing}
  <1>1. S \in SUBSET Positions
    BY DEF RowsOK
  <1>2. S # {}
    BY DEF RowsOK, Existing
  <1>3. Highest(u) = Max(S)
    BY <1>2 DEF Highest
  <1>4. \A r \in held[u] \cap Existing : roles[r].position \in S
    OBVIOUS
  <1>5. \A n \in S : \E r \in held[u] \cap Existing : roles[r].position = n
    OBVIOUS
  <1> HIDE DEF S
  <1>6. Max(S) \in S /\ Max(S) \in Positions /\ Max(S) \in Int /\ \A x \in S : x <= Max(S)
    BY <1>1, <1>2, MaxIsMax
  <1> QED BY <1>3, <1>4, <1>5, <1>6

(* A request that comes is at the first check of its handler.              *)
LEMMA StartStep ==
    ASSUME TypeInv, NEW p \in Slots, Start(p)
    PROVE  /\ TypeInv' /\ Existing' = Existing /\ UNCHANGED <<rows, history>>
           /\ \A q \in Slots \ {p} : request'[q] = request[q]
           /\ request'[p] # None => request'[p].at \in {"permitted", "hierarchy"}
  <1>1. PICK op \in DOMAIN Handler, u \in Users : \E r \in Arrivals(op, u) :
            request' = [request EXCEPT ![p] = r]
    BY DEF Start
  <1>2. PICK r \in Arrivals(op, u) : request' = [request EXCEPT ![p] = r]
    BY <1>1
  <1>3. RequestOK(r) /\ r.at \in {"permitted", "hierarchy"}
    BY <1>2, ArrivalOK
  <1>4. RequestsOK' /\ request'[p] = r /\ \A q \in Slots \ {p} : request'[q] = request[q]
    BY <1>2, <1>3, Plainly DEF TypeInv, Becomes
  <1> QED BY <1>3, <1>4, RowsUnchanged DEF TypeInv, Start

(* A request that fails is gone and has written nothing.                   *)
LEMMA FailStep ==
    ASSUME TypeInv, NEW p \in Slots, Fail(p)
    PROVE  /\ TypeInv' /\ Existing' = Existing /\ UNCHANGED <<rows, history>>
           /\ \A q \in Slots \ {p} : request'[q] = request[q]
           /\ request'[p] = None
  <1>1. RequestsOK' /\ request'[p] = None /\ \A q \in Slots \ {p} : request'[q] = request[q]
    BY Plainly DEF TypeInv, Fail, Refuse, Becomes
  <1> QED BY <1>1, RowsUnchanged DEF TypeInv, Fail

(* What is kept when a statement has been found to be that of p.           *)
LEMMA AtOK ==
    ASSUME TypeInv, NEW p \in Slots, NEW statement, At(p, statement)
    PROVE  /\ request[p] # None /\ request[p].at = statement /\ RequestOK(request[p])
           /\ request[p].actor \in Users /\ request[p].op \in DOMAIN Handler
           /\ Placed(request[p].op, statement, Handler[request[p].op][statement])
  <1>1. request[p] # None /\ request[p].at = statement /\ RequestOK(request[p])
    BY DEF At, TypeInv, RequestsOK
  <1>2. /\ request[p].actor \in Users /\ request[p].op \in DOMAIN Handler
        /\ statement \in DOMAIN Handler[request[p].op]
    BY <1>1 DEF RequestOK, Fields
  <1> QED BY <1>1, <1>2, HandlersPlaced

(* get_actor_highest_position: the request keeps what it has read.         *)
LEMMA ReadHighestStep ==
    ASSUME TypeInv, NEW p \in Slots, ReadHighest(p)
    PROVE  /\ TypeInv' /\ Existing' = Existing
           /\ \A q \in Slots \ {p} : request'[q] = request[q]
           /\ request'[p] # None =>
                 /\ request'[p].actor = request[p].actor /\ request'[p].actor \in Users
                 /\ request'[p].at = "below" /\ request'[p].moved = {}
                 /\ Actor(p) # Owner => request'[p].highest = Highest(Actor(p))
  <1> DEFINE old == request[p]
             top == IF Actor(p) = Owner THEN MaxPosition ELSE Highest(Actor(p))
             r   == [old EXCEPT !.highest = top, !.overtaken = FALSE]
  <1>1. /\ old # None /\ old.at = "highest" /\ RequestOK(old) /\ old.actor \in Users
        /\ Placed(old.op, "highest", Handler[old.op]["highest"])
    BY AtOK DEF ReadHighest
  <1>2. top \in Positions
    BY <1>1, HighestBounds, PositionsInt DEF TypeInv, Actor
  <1> HIDE DEF top
  <1>3. RequestOK(r) /\ r.at = "highest" /\ r.highest = top /\ r.op = old.op
        /\ r.actor = old.actor /\ r.moved = {}
    BY <1>1, <1>2 DEF RequestOK, Fields
  <1>4. request' = [request EXCEPT ![p] = After(r)]
    BY DEF ReadHighest, TypeInv, RequestsOK, top
  <1> HIDE DEF r
  <1>5. After(r) # None => /\ RequestOK(After(r)) /\ After(r).at = "below"
                           /\ After(r).highest = r.highest /\ After(r).actor = r.actor
                           /\ After(r).moved = r.moved
    BY <1>3, GoingOn DEF Placed
  <1>6. /\ RequestsOK' /\ request'[p] = After(r)
        /\ \A q \in Slots \ {p} : request'[q] = request[q]
    BY <1>4, <1>5, Plainly DEF TypeInv, Becomes
  <1>7. RowsOK' /\ Existing' = Existing
    BY RowsUnchanged DEF TypeInv, ReadHighest
  <1> QED BY <1>1, <1>3, <1>5, <1>6, <1>7 DEF TypeInv, top

(* create_role reads the highest position of the server.                   *)
LEMMA ReadMaxPositionStep ==
    ASSUME TypeInv, NEW p \in Slots, ReadMaxPosition(p)
    PROVE  /\ TypeInv' /\ Existing' = Existing
           /\ \A q \in Slots \ {p} : request'[q] = request[q]
           /\ request'[p] # None =>
                 request'[p].op = "create_role" /\ request'[p].at \notin {"insert", "write"}
  <1> DEFINE old  == request[p]
             S    == {roles[r].position : r \in Existing}
             next == Max(S) + 1
             put  == IF next > MaxPosition THEN MinPosition ELSE next
             r    == [old EXCEPT !.position = put]
  <1>1. /\ old # None /\ old.at = "max_position" /\ RequestOK(old)
        /\ old.op = "create_role"
    BY AtOK DEF ReadMaxPosition, Placed
  <1>2. put \in Positions
    <2>1. Everyone \in Existing /\ \A s \in Existing : roles[s].position \in Positions
      BY ConstantsAssumption DEF TypeInv, RowsOK, Existing
    <2>2. S \in SUBSET Positions /\ S # {}
      BY <2>1
    <2> HIDE DEF S
    <2>3. Max(S) \in Positions /\ Max(S) \in Int
      BY <2>2, MaxIsMax
    <2> QED BY <2>3, PositionsInt DEF Positions
  <1>3. \/ request' = [request EXCEPT ![p] = After(r)]
        \/ request' = [request EXCEPT ![p] = None]
    BY DEF ReadMaxPosition, TypeInv, RequestsOK, Refuse
  <1> HIDE DEF put
  <1>4. /\ RequestOK(r) /\ r.at = "max_position" /\ r.op = "create_role"
        /\ r.position \in Positions
    BY <1>1, <1>2 DEF RequestOK, Fields
  <1> HIDE DEF r
  <1>5. After(r) # None => /\ RequestOK(After(r)) /\ After(r).op = "create_role"
                           /\ After(r).at \notin {"insert", "write"}
    BY <1>4, GoingOn DEF Placed
  <1>6. PICK new \in {After(r), None} : request' = [request EXCEPT ![p] = new]
    BY <1>3
  <1>7. /\ RequestsOK' /\ request'[p] = new
        /\ \A q \in Slots \ {p} : request'[q] = request[q]
    BY <1>5, <1>6, Plainly DEF TypeInv, Becomes
  <1>8. RowsOK' /\ Existing' = Existing
    BY RowsUnchanged DEF TypeInv, ReadMaxPosition
  <1> QED BY <1>5, <1>7, <1>8 DEF TypeInv

(* Statements after which the handler of p ends.                           *)
LEMMA EndsAfter ==
    ASSUME TypeInv, NEW p \in Slots, NEW statement \in {"insert", "write", "delete"},
           At(p, statement)
    PROVE  /\ request[p] # None /\ RequestOK(request[p]) /\ request[p].at = statement
           /\ statement = "insert" => request[p].op = "create_role"
           /\ statement = "write" => request[p].op = "update_role"
           /\ statement = "delete" => request[p].op = "delete_role"
           /\ After(request[p]) = None
  <1>1. /\ request[p] # None /\ request[p].at = statement /\ RequestOK(request[p])
        /\ Placed(request[p].op, statement, Handler[request[p].op][statement])
    BY AtOK
  <1> QED BY <1>1 DEF Placed, After

(* create_role writes its role and ends.                                   *)
LEMMA InsertStep ==
    ASSUME TypeInv, NEW p \in Slots, Insert(p)
    PROVE  /\ TypeInv' /\ request'[p] = None
           /\ \A q \in Slots \ {p} : request'[q] # None => request'[q].overtaken = TRUE
           /\ Becomes(p, None)
  <1>1. /\ request[p] # None /\ RequestOK(request[p]) /\ request[p].at = "insert"
        /\ request[p].op = "create_role" /\ After(request[p]) = None
    BY EndsAfter DEF Insert
  <1>2. RequestsOK' /\ Becomes(p, None)
        /\ \A q \in Slots \ {p} : request'[q] # None => request'[q].overtaken = TRUE
    BY <1>1, ByOvertaking DEF TypeInv, Insert
  <1>3. PICK r \in Roles \ Existing : roles' = [roles EXCEPT ![r] =
            [position |-> request[p].position, permissions |-> Bitset(request[p].permissions)]]
    BY DEF Insert
  <1>4. Bitset(request[p].permissions) \in SUBSET Bits
    BY <1>1 DEF Bitset, RequestOK, Fields
  <1>5. request[p].position \in Positions
    BY <1>1 DEF RequestOK
  <1>6. (granted \subseteq Bits)' /\ (trespasses \subseteq Causes)'
    BY <1>1, <1>4, HistoryOK DEF Insert, TypeInv, RowsOK
  <1>7. RowsOK'
    BY <1>3, <1>4, <1>5, <1>6, RowWritten DEF Insert, TypeInv
  <1> QED BY <1>2, <1>7 DEF TypeInv, Becomes

(* update_role writes its role and ends.                                   *)
LEMMA WriteStep ==
    ASSUME TypeInv, NEW p \in Slots, Write(p)
    PROVE  /\ TypeInv' /\ Existing' = Existing
           /\ Becomes(p, None)
           /\ \A q \in Slots \ {p} :
                 \/ request'[q] = request[q] /\ roles' = roles
                 \/ request'[q] # None => request'[q].overtaken = TRUE
  <1> DEFINE body == request[p]
             r    == body.role
             row  == [position    |-> IF body.position = None THEN roles[r].position ELSE body.position,
                      permissions |-> IF body.permissions = None THEN roles[r].permissions
                                      ELSE body.permissions]
  <1>1. /\ request[p] # None /\ RequestOK(request[p]) /\ request[p].at = "write"
        /\ request[p].op = "update_role" /\ After(request[p]) = None
    BY EndsAfter DEF Write
  <1>2. (trespasses \subseteq Causes)' /\ held' = held
    BY <1>1, HistoryOK DEF Write
  <1>3. CASE r \notin Existing
    <2>1. /\ roles' = roles /\ granted' = granted
          /\ request' = [request EXCEPT ![p] = None]
      BY <1>1, <1>3 DEF Write, TypeInv, RequestsOK
    <2>2. RequestsOK' /\ Becomes(p, None) /\ \A q \in Slots \ {p} : request'[q] = request[q]
      BY <2>1, Plainly DEF TypeInv
    <2>3. RowsOK' /\ Existing' = Existing
      BY <2>1, <1>2 DEF TypeInv, RowsOK, Existing
    <2> QED BY <2>1, <2>2, <2>3 DEF TypeInv
  <1>4. CASE r \in Existing
    <2>1. /\ roles' = [roles EXCEPT ![r] = row]
          /\ Granted(p, Bitset(body.permissions))
          /\ request' = Overtaken(p, None)
      BY <1>1, <1>4 DEF Write
    <2>2. RequestsOK' /\ Becomes(p, None)
          /\ \A q \in Slots \ {p} : request'[q] # None => request'[q].overtaken = TRUE
      BY <2>1, ByOvertaking DEF TypeInv
    <2>3. roles[r] \in [position : Positions, permissions : SUBSET Bits] /\ r \in Roles
      BY <1>4 DEF TypeInv, RowsOK, Existing
    <2>4. /\ body.position = None \/ body.position \in Positions
          /\ body.permissions = None \/ body.permissions \in SUBSET Bits
      BY <1>1 DEF RequestOK, Fields
    <2>5. row \in [position : Positions, permissions : SUBSET Bits]
      BY <2>3, <2>4
    <2>6. (granted \subseteq Bits)'
      BY <2>1, <2>4, <1>1, HistoryOK DEF Bitset
    <2> HIDE DEF row, r
    <2>7. RowsOK' /\ Existing' = Existing \cup {r}
      BY <1>2, <2>1, <2>3, <2>5, <2>6, RowWritten DEF TypeInv
    <2> QED BY <1>4, <2>2, <2>7 DEF TypeInv
  <1> QED BY <1>3, <1>4

(* delete_role takes its role from the server and from its holders.        *)
LEMMA DeleteStep ==
    ASSUME TypeInv, NEW p \in Slots, Delete(p)
    PROVE  /\ TypeInv' /\ Existing' = Existing \ {request[p].role}
           /\ \A r \in Existing' : roles'[r] = roles[r]
           /\ \A q \in Slots \ {p} : request'[q] # None => request'[q].overtaken = TRUE
           /\ Becomes(p, None)
  <1> DEFINE r == request[p].role
  <1>1. /\ request[p] # None /\ RequestOK(request[p]) /\ request[p].at = "delete"
        /\ request[p].op = "delete_role" /\ After(request[p]) = None
    BY EndsAfter DEF Delete
  <1>2. RequestsOK' /\ Becomes(p, None)
        /\ \A q \in Slots \ {p} : request'[q] # None => request'[q].overtaken = TRUE
    BY <1>1, ByOvertaking DEF TypeInv, Delete
  <1>3. r \in Roles \ {Everyone}
    BY <1>1 DEF RequestOK
  <1>4. /\ roles' = [roles EXCEPT ![r] = None] /\ held' = [u \in Users |-> held[u] \ {r}]
        /\ granted' = granted
    BY DEF Delete, StillHeld
  <1>5. trespasses' \subseteq Causes
    BY <1>1, HistoryOK DEF Delete
  <1> HIDE DEF r
  <1>6. Existing' = Existing \ {r} /\ \A s \in Roles \ {r} : roles'[s] = roles[s]
    BY <1>3, <1>4 DEF Existing, TypeInv, RowsOK
  <1>7. RowsOK'
    BY <1>3, <1>4, <1>5, <1>6, ConstantsAssumption DEF RowsOK, Existing, TypeInv
  <1> QED BY <1>2, <1>6, <1>7 DEF TypeInv, r, Existing

(* What is left of a body after its first entry.                           *)
LEMMA TailOfMoves ==
    ASSUME NEW r, RequestOK(r), r.op = "reorder_roles",
           NEW left, left = [r EXCEPT !.moves = Tail(@), !.moved = @ \cup {Head(r.moves).role}]
    PROVE  /\ Head(r.moves) \in Entries /\ Head(r.moves).role \in Subjects(r)
           /\ left \in Fields /\ left.op = r.op /\ left.at = r.at /\ left.actor = r.actor
           /\ left.overtaken = r.overtaken /\ left.highest = r.highest
           /\ left.moved = r.moved \cup {Head(r.moves).role}
           /\ Subjects(left) \subseteq Subjects(r)
  <1> DEFINE m == r.moves
  <1>1. m \in Seq(Entries) /\ m # <<>> /\ r \in Fields
    BY DEF RequestOK, Fields
  <1>2. /\ left.moves = Tail(m) /\ left.moved = r.moved \cup {Head(m).role}
        /\ left.op = r.op /\ left.at = r.at /\ left.actor = r.actor
        /\ left.overtaken = r.overtaken /\ left.highest = r.highest
    BY <1>1 DEF Fields
  <1> HIDE DEF m
  <1>3. Head(m) \in Entries /\ Tail(m) \in Seq(Entries) /\ 1 \in DOMAIN m /\ Head(m) = m[1]
    BY <1>1
  <1>4. \A i \in DOMAIN Tail(m) : i + 1 \in DOMAIN m /\ Tail(m)[i] = m[i + 1]
    BY <1>1
  <1>5. Subjects(r) = {m[i].role : i \in DOMAIN m}
    BY DEF Subjects, m
  <1>6. Subjects(left) = {Tail(m)[i].role : i \in DOMAIN Tail(m)}
    BY <1>2 DEF Subjects
  <1>7. Subjects(left) \subseteq Subjects(r)
    BY <1>4, <1>5, <1>6
  <1>8. left \in Fields
    <2>1. Head(m).role \in Roles
      BY <1>3 DEF Entries
    <2> QED BY <1>1, <1>3, <2>1 DEF Fields, m
  <1> QED BY <1>2, <1>3, <1>5, <1>7, <1>8 DEF m

(* reorder_roles writes one position of its list.                          *)
LEMMA MoveEachStep ==
    ASSUME TypeInv, NEW p \in Slots, MoveEach(p)
    PROVE  /\ TypeInv' /\ Existing' = Existing
           /\ Becomes(p, request'[p])
           /\ \A q \in Slots \ {p} : request'[q] # None => request'[q].overtaken = TRUE
           /\ request[p] # None /\ RequestOK(request[p]) /\ request[p].at = "move_each"
           /\ request[p].op = "reorder_roles"
           /\ \E r \in Subjects(request[p]) :
                 /\ \A s \in Existing \ {r} : roles'[s] = roles[s]
                 /\ r \in Existing => roles'[r].permissions = roles[r].permissions
                 /\ Trespass(p, r)
                 /\ request'[p] # None =>
                       /\ request'[p].actor = request[p].actor
                       /\ request'[p].at = "move_each"
                       /\ request'[p].overtaken = request[p].overtaken
                       /\ request'[p].highest = request[p].highest
                       /\ request'[p].moved = request[p].moved \cup {r}
                       /\ Subjects(request'[p]) \subseteq Subjects(request[p])
  <1> DEFINE old   == request[p]
             entry == Head(old.moves)
             r     == entry.role
             left  == [old EXCEPT !.moves = Tail(@), !.moved = @ \cup {r}]
             new   == IF left.moves = <<>> THEN After(old) ELSE left
  <1>1. /\ old # None /\ old.at = "move_each" /\ RequestOK(old)
        /\ Placed(old.op, "move_each", Handler[old.op]["move_each"])
    BY AtOK DEF MoveEach
  <1>2. old.op = "reorder_roles" /\ After(old) = None
    BY <1>1 DEF Placed, After
  <1>3. /\ roles' = IF r \in Existing THEN [roles EXCEPT ![r].position = entry.position] ELSE roles
        /\ Trespass(p, r) /\ request' = Overtaken(p, new) /\ UNCHANGED <<held, granted>>
    BY DEF MoveEach
  <1>4. /\ entry \in Entries /\ r \in Subjects(old)
        /\ left \in Fields /\ left.op = old.op /\ left.at = old.at /\ left.actor = old.actor
        /\ left.overtaken = old.overtaken /\ left.highest = old.highest
        /\ left.moved = old.moved \cup {r}
        /\ Subjects(left) \subseteq Subjects(old)
    BY <1>1, <1>2, TailOfMoves
  <1>5. r \in Roles /\ entry.position \in Positions
    BY <1>4 DEF Entries
  <1> HIDE DEF left, entry, r
  <1>6. new # None => new = left /\ RequestOK(left)
    BY <1>1, <1>2, <1>4 DEF RequestOK
  <1> HIDE DEF new
  <1>7. /\ RequestsOK' /\ request'[p] = new /\ Becomes(p, request'[p])
        /\ \A q \in Slots \ {p} : request'[q] # None => request'[q].overtaken = TRUE
    BY <1>3, <1>6, ByOvertaking DEF TypeInv, Becomes
  <1>8. (granted \subseteq Bits)' /\ (trespasses \subseteq Causes)' /\ held' = held
    BY <1>1, <1>3, HistoryOK DEF TypeInv, RowsOK
  <1>9. /\ RowsOK' /\ Existing' = Existing
        /\ \A s \in Existing \ {r} : roles'[s] = roles[s]
        /\ r \in Existing => roles'[r].permissions = roles[r].permissions
    <2>1. CASE r \notin Existing
      BY <2>1, <1>3, <1>8 DEF RowsOK, Existing, TypeInv
    <2>2. CASE r \in Existing
      <3> DEFINE row == [roles[r] EXCEPT !.position = entry.position]
      <3>1. roles[r] \in [position : Positions, permissions : SUBSET Bits]
        BY <2>2 DEF TypeInv, RowsOK
      <3>2. /\ row \in [position : Positions, permissions : SUBSET Bits]
            /\ row.permissions = roles[r].permissions
        BY <3>1, <1>5
      <3>3. roles' = [roles EXCEPT ![r] = row]
        BY <1>3, <2>2 DEF TypeInv, RowsOK
      <3> HIDE DEF row
      <3>4. /\ RowsOK' /\ Existing' = Existing \cup {r} /\ roles'[r] = row
            /\ \A s \in Roles \ {r} : roles'[s] = roles[s]
        BY <1>5, <1>8, <3>2, <3>3, RowWritten DEF TypeInv
      <3>5. Existing' = Existing /\ Existing \subseteq Roles
        BY <2>2, <3>4 DEF Existing
      <3> QED BY <3>2, <3>4, <3>5
    <2> QED BY <2>1, <2>2
  <1>10. request'[p] # None =>
            /\ request'[p].actor = old.actor /\ request'[p].at = "move_each"
            /\ request'[p].overtaken = old.overtaken /\ request'[p].highest = old.highest
            /\ request'[p].moved = old.moved \cup {r}
            /\ Subjects(request'[p]) \subseteq Subjects(old)
    BY <1>1, <1>4, <1>6, <1>7
  <1> QED BY <1>1, <1>2, <1>3, <1>4, <1>7, <1>9, <1>10 DEF TypeInv

(* update_member takes all roles from its target.                          *)
LEMMA ClearRolesStep ==
    ASSUME TypeInv, NEW p \in Slots, ClearRoles(p)
    PROVE  /\ TypeInv' /\ Existing' = Existing /\ UNCHANGED <<roles, history>>
           /\ Becomes(p, request'[p])
           /\ \A q \in Slots \ {p} : request'[q] # None => request'[q].overtaken = TRUE
           /\ request'[p] # None =>
                 request'[p].at \notin {"insert", "write", "delete", "move_each", "below", "may_grant"}
  <1>1. /\ request[p] # None /\ request[p].at = "clear_roles" /\ RequestOK(request[p])
        /\ request[p].op = "update_member"
    BY AtOK DEF ClearRoles, Placed
  <1>2. After(request[p]) # None =>
            RequestOK(After(request[p])) /\ After(request[p]).at = "add_roles"
    <2>1. Handler["update_member"]["clear_roles"] = "add_roles"
      BY DEF Handler, update_member
    <2> QED BY <1>1, <2>1, GoingOn
  <1>3. /\ RequestsOK' /\ request'[p] = After(request[p]) /\ Becomes(p, request'[p])
        /\ \A q \in Slots \ {p} : request'[q] # None => request'[q].overtaken = TRUE
    BY <1>2, ByOvertaking DEF TypeInv, ClearRoles, Becomes
  <1>4. Existing' = Existing
    BY DEF ClearRoles, Existing
  <1>6. /\ held' \in [Users -> SUBSET Roles]
        /\ \A u \in Users : Everyone \in held'[u] /\ held'[u] \subseteq Existing
    BY DEF ClearRoles, TypeInv, RowsOK
  <1>5. RowsOK'
    BY <1>4, <1>6 DEF TypeInv, RowsOK, ClearRoles, history, Existing
  <1> QED BY <1>2, <1>3, <1>4, <1>5 DEF TypeInv, ClearRoles

(* update_member gives its target one role of its list.                    *)
LEMMA AddRolesStep ==
    ASSUME TypeInv, NEW p \in Slots, AddRoles(p)
    PROVE  /\ TypeInv' /\ Existing' = Existing /\ UNCHANGED <<roles, history>>
           /\ Becomes(p, request'[p])
           /\ \A q \in Slots \ {p} :
                 \/ request'[q] = request[q] /\ held' = held
                 \/ request'[q] # None => request'[q].overtaken = TRUE
           /\ request'[p] # None =>
                 request'[p].at \notin {"insert", "write", "delete", "move_each", "below", "may_grant"}
  <1> DEFINE old == request[p]
  <1>1. /\ old # None /\ old.at = "add_roles" /\ RequestOK(old) /\ old.op = "update_member"
    BY AtOK DEF AddRoles, Placed
  <1>2. After(old) = None
    BY <1>1 DEF After, Handler, update_member
  <1>3. Existing' = Existing /\ UNCHANGED <<roles, history>>
    BY DEF AddRoles, Existing
  <1>4. CASE UNCHANGED held /\ request' = [request EXCEPT ![p] = None]
    <2>1. RequestsOK' /\ Becomes(p, None) /\ \A q \in Slots \ {p} : request'[q] = request[q]
      BY <1>4, Plainly DEF TypeInv
    <2>2. RowsOK'
      BY <1>3, <1>4, RowsUnchanged DEF TypeInv, rows
    <2> QED BY <1>3, <1>4, <2>1, <2>2 DEF TypeInv, Becomes
  <1>5. ASSUME NEW r \in old.list, r \in Existing,
               held' = [held EXCEPT ![old.member] = @ \cup {r}],
               request' = Overtaken(p, [old EXCEPT !.list = @ \ {r}])
        PROVE  /\ TypeInv' /\ Becomes(p, request'[p])
               /\ \A q \in Slots \ {p} : request'[q] # None => request'[q].overtaken = TRUE
               /\ request'[p].at = "add_roles"
    <2>1. RequestOK([old EXCEPT !.list = @ \ {r}]) /\ [old EXCEPT !.list = @ \ {r}].at = "add_roles"
      BY <1>1 DEF RequestOK, Fields
    <2>2. /\ RequestsOK' /\ request'[p] = [old EXCEPT !.list = @ \ {r}] /\ Becomes(p, request'[p])
          /\ \A q \in Slots \ {p} : request'[q] # None => request'[q].overtaken = TRUE
      BY <1>5, <2>1, ByOvertaking DEF TypeInv, Becomes
    <2>3. r \in Roles
      BY <1>1, <1>5 DEF RequestOK, Fields
    <2>4. /\ held' \in [Users -> SUBSET Roles]
          /\ \A u \in Users : Everyone \in held'[u] /\ held'[u] \subseteq Existing
      BY <1>5, <2>3 DEF TypeInv, RowsOK
    <2>5. RowsOK'
      BY <1>3, <2>4 DEF TypeInv, RowsOK, history
    <2> QED BY <2>1, <2>2, <2>5 DEF TypeInv
  <1>6. CASE old.list = {}
    BY <1>2, <1>4, <1>6 DEF AddRoles, TypeInv, RequestsOK
  <1>7. CASE old.list # {}
    <2>1. PICK r \in old.list :
               IF r \in Existing
               THEN /\ held' = [held EXCEPT ![old.member] = @ \cup {r}]
                    /\ request' = Overtaken(p, [old EXCEPT !.list = @ \ {r}])
               ELSE Refuse(p) /\ UNCHANGED held
      BY <1>7 DEF AddRoles
    <2>2. CASE r \in Existing
      BY <1>3, <1>5, <2>1, <2>2
    <2>3. CASE r \notin Existing
      BY <1>4, <2>1, <2>3 DEF Refuse
    <2> QED BY <2>2, <2>3
  <1> QED BY <1>6, <1>7

(* The checks of permissions and of the hierarchy read only.               *)
LEMMA PermittedStep ==
    ASSUME TypeInv, NEW p \in Slots, Permitted(p) \/ Hierarchy(p)
    PROVE  /\ TypeInv' /\ Existing' = Existing /\ UNCHANGED <<rows, history>>
           /\ \A q \in Slots \ {p} : request'[q] = request[q]
           /\ request'[p] # None =>
                 request'[p].at \notin {"insert", "write", "delete", "move_each", "below"}
           /\ request'[p] # None /\ request'[p].at = "may_grant" => request'[p].op # "update_role"
  <1>1. PICK statement \in {"permitted", "hierarchy"} : \E passes : Check(p, statement, passes)
    BY DEF Permitted, Hierarchy
  <1>2. PICK passes : Check(p, statement, passes)
    BY <1>1
  <1>3. /\ TypeInv' /\ Existing' = Existing
        /\ request[p] # None /\ request[p].at = statement /\ RequestOK(request[p])
        /\ Becomes(p, IF passes THEN After(request[p]) ELSE None)
        /\ \A q \in Slots \ {p} : request'[q] = request[q]
    BY <1>2, CheckStep
  <1>4. After(request[p]) # None => Placed(request[p].op, statement, After(request[p]).at)
        /\ After(request[p]).op = request[p].op
    BY <1>3, GoingOn
  <1>5. UNCHANGED <<rows, history>>
    BY <1>2 DEF Check
  <1> QED BY <1>3, <1>4, <1>5 DEF Placed, Becomes

(* The check for @everyone reads only.                                     *)
LEMMA IsDefaultStep ==
    ASSUME TypeInv, NEW p \in Slots, IsDefault(p)
    PROVE  /\ TypeInv' /\ Existing' = Existing /\ UNCHANGED <<rows, history>>
           /\ \A q \in Slots \ {p} : request'[q] = request[q]
           /\ request'[p] # None =>
                 request'[p].at \notin {"insert", "write", "delete", "move_each", "below", "may_grant"}
  <1> DEFINE passes == request[p].role \in Existing \ {Everyone}
  <1>1. Check(p, "is_default", passes)
    BY DEF IsDefault
  <1>2. passes => request[p].role # Everyone
    OBVIOUS
  <1> HIDE DEF passes
  <1>3. /\ TypeInv' /\ Existing' = Existing
        /\ request[p] # None /\ request[p].at = "is_default" /\ RequestOK(request[p])
        /\ Becomes(p, IF passes THEN After(request[p]) ELSE None)
        /\ \A q \in Slots \ {p} : request'[q] = request[q]
    BY <1>1, <1>2, CheckStep
  <1>4. request[p].op = "delete_role"
    BY <1>1, AtOK DEF Check, Placed
  <1>5. After(request[p]) # None => After(request[p]).at = "highest"
    <2>1. Handler["delete_role"]["is_default"] = "highest"
      BY DEF Handler, delete_role
    <2>2. After(request[p]) # None => After(request[p]).at = Handler[request[p].op]["is_default"]
      BY <1>3 DEF After, RequestOK
    <2> QED BY <2>1, <2>2, <1>4
  <1>6. UNCHANGED <<rows, history>>
    BY <1>1 DEF Check
  <1> QED BY <1>3, <1>5, <1>6 DEF Becomes

(* The comparison of positions reads only.                                 *)
LEMMA BelowStep ==
    ASSUME TypeInv, NEW p \in Slots, Below(p)
    PROVE  /\ TypeInv' /\ Existing' = Existing /\ UNCHANGED <<rows, history>>
           /\ \A q \in Slots \ {p} : request'[q] = request[q]
           /\ request[p] # None /\ request[p].at = "below"
           /\ request'[p] # None =>
                 /\ request'[p].at \notin {"insert", "write", "below"}
                 /\ \A f \in {"op", "actor", "role", "moves", "moved", "highest", "overtaken"} :
                       request'[p][f] = request[p][f]
                 /\ request[p].highest = MaxPosition \/ \A r \in Subjects(request[p]) :
                       r \in Existing /\ IsBelow(roles[r].position, request[p].highest)
  <1> DEFINE compared == \A r \in Subjects(request[p]) :
                             r \in Existing /\ IsBelow(roles[r].position, request[p].highest)
             passes   == \/ /\ request[p].highest = MaxPosition
                            /\ request[p].op = "reorder_roles" \/ request[p].role \in Existing
                         \/ compared
  <1> HIDE DEF compared
  <1>1. Check(p, "below", passes)
    BY DEF Below, compared
  <1>2. passes => request[p].highest = MaxPosition \/ compared
    OBVIOUS
  <1> HIDE DEF passes
  <1>3. /\ TypeInv' /\ Existing' = Existing
        /\ request[p] # None /\ request[p].at = "below" /\ RequestOK(request[p])
        /\ Becomes(p, IF passes THEN After(request[p]) ELSE None)
        /\ \A q \in Slots \ {p} : request'[q] = request[q]
    BY <1>1, CheckStep
  <1>4. After(request[p]) # None =>
            /\ Placed(request[p].op, "below", After(request[p]).at)
            /\ \A f \in {"op", "actor", "role", "moves", "moved", "highest", "overtaken"} :
                  After(request[p])[f] = request[p][f]
    BY <1>3, GoingOn
  <1>5. UNCHANGED <<rows, history>>
    BY <1>1 DEF Check
  <1>6. After(request[p]) # None => After(request[p]).at \notin {"insert", "write", "below"}
    BY <1>4 DEF Placed
  <1> QED BY <1>2, <1>3, <1>4, <1>5, <1>6 DEF Becomes, compared

(* The comparison of permissions reads only.                               *)
LEMMA MayGrantStep ==
    ASSUME TypeInv, NEW p \in Slots, MayGrant(p)
    PROVE  /\ TypeInv' /\ Existing' = Existing /\ UNCHANGED <<rows, history>>
           /\ \A q \in Slots \ {p} : request'[q] = request[q]
           /\ request[p] # None /\ request[p].at = "may_grant"
           /\ request'[p] # None =>
                 /\ request'[p].at \notin {"below", "delete", "move_each", "may_grant"}
                 /\ request'[p].at = "write" => request[p].op = "update_role"
                 /\ \A f \in {"op", "actor", "role", "moves", "moved", "highest",
                               "permissions", "overtaken"} :
                       request'[p][f] = request[p][f]
                 /\ \/ Bitset(request[p].permissions) = {}
                    \/ Bitset(request[p].permissions) \subseteq get_user_permissions(Actor(p))
  <1> DEFINE passes == \/ request[p].permissions \in {None, {}}
                       \/ request[p].permissions \subseteq get_user_permissions(Actor(p))
  <1>1. Check(p, "may_grant", passes)
    BY DEF MayGrant
  <1>2. passes => \/ Bitset(request[p].permissions) = {}
                  \/ Bitset(request[p].permissions) \subseteq get_user_permissions(Actor(p))
    BY DEF Bitset
  <1> HIDE DEF passes
  <1>3. /\ TypeInv' /\ Existing' = Existing
        /\ request[p] # None /\ request[p].at = "may_grant" /\ RequestOK(request[p])
        /\ Becomes(p, IF passes THEN After(request[p]) ELSE None)
        /\ \A q \in Slots \ {p} : request'[q] = request[q]
    BY <1>1, CheckStep
  <1>4. After(request[p]) # None =>
            /\ Placed(request[p].op, "may_grant", After(request[p]).at)
            /\ After(request[p]).at \in DOMAIN Handler[request[p].op]
            /\ \A f \in {"op", "actor", "role", "moves", "moved", "highest",
                          "permissions", "overtaken"} :
                  After(request[p])[f] = request[p][f]
    <2>1. After(request[p]) # None => RequestOK(After(request[p])) /\ After(request[p]).op = request[p].op
      BY <1>3, GoingOn
    <2> QED BY <1>3, GoingOn, <2>1 DEF RequestOK
  <1>5. UNCHANGED <<rows, history>>
    BY <1>1 DEF Check
  <1>6. After(request[p]) # None =>
            /\ After(request[p]).at \notin {"below", "delete", "move_each"}
            /\ After(request[p]).at = "write" => request[p].op = "update_role"
    <2>1. After(request[p]) # None /\ After(request[p]).at = "write" => request[p].op = "update_role"
      <3> SUFFICES ASSUME After(request[p]) # None, After(request[p]).at = "write"
                   PROVE  request[p].op = "update_role"
        OBVIOUS
      <3>1. RequestOK(request[p]) /\ "write" \in DOMAIN Handler[request[p].op]
        BY <1>3, <1>4
      <3> QED BY <3>1, HandlersPlaced DEF RequestOK, Fields, Placed
    <2> QED BY <1>4, <2>1 DEF Placed
  <1>7. After(request[p]) # None => After(request[p]).at # "may_grant"
    <2> SUFFICES ASSUME After(request[p]) # None, After(request[p]).at = "may_grant" PROVE FALSE
      OBVIOUS
    <2>1. Handler[request[p].op]["may_grant"] = "may_grant"
      BY <1>3, GoingOn
    <2>2. request[p].op \in DOMAIN Handler /\ "may_grant" \in DOMAIN Handler[request[p].op]
      BY <1>3 DEF RequestOK, Fields
    <2> QED BY <2>1, <2>2
            DEF Handler, create_role, update_role, delete_role, reorder_roles, update_member
  <1> QED BY <1>2, <1>3, <1>4, <1>5, <1>6, <1>7 DEF Becomes

(* Every step keeps the rows and the requests in their shape.              *)
LEMMA TypeInvNext == TypeInv /\ [Next]_vars => TypeInv'
  <1> SUFFICES ASSUME TypeInv, [Next]_vars PROVE TypeInv'
    OBVIOUS
  <1>1. CASE UNCHANGED vars
    <2>1. RowsOK' /\ request' = request
      BY <1>1, RowsUnchanged DEF TypeInv, vars, rows, history
    <2>2. RequestsOK'
      BY <2>1 DEF TypeInv, RequestsOK
    <2> QED BY <2>1, <2>2 DEF TypeInv
  <1>2. CASE Next
    <2>1. PICK p \in Slots :
            \/ Start(p) \/ Fail(p)
            \/ Permitted(p) \/ Hierarchy(p) \/ IsDefault(p) \/ ReadHighest(p) \/ Below(p)
            \/ MayGrant(p) \/ ReadMaxPosition(p)
            \/ Insert(p) \/ Write(p) \/ Delete(p) \/ MoveEach(p) \/ ClearRoles(p) \/ AddRoles(p)
      BY <1>2 DEF Next
    <2>2. CASE Start(p) \/ Fail(p)
      BY <2>2, StartStep, FailStep
    <2>3. CASE Permitted(p) \/ Hierarchy(p) \/ IsDefault(p)
      BY <2>3, PermittedStep, IsDefaultStep
    <2>4. CASE ReadHighest(p) \/ Below(p) \/ MayGrant(p) \/ ReadMaxPosition(p)
      BY <2>4, ReadHighestStep, BelowStep, MayGrantStep, ReadMaxPositionStep
    <2>5. CASE Insert(p) \/ Write(p) \/ Delete(p)
      BY <2>5, InsertStep, WriteStep, DeleteStep
    <2>6. CASE MoveEach(p) \/ ClearRoles(p) \/ AddRoles(p)
      BY <2>6, MoveEachStep, ClearRolesStep, AddRolesStep
    <2> QED BY <2>1, <2>2, <2>3, <2>4, <2>5, <2>6
  <1> QED BY <1>1, <1>2

(* Types; @everyone cannot be deleted and ON DELETE CASCADE of             *)
(* member_roles leaves no role with a member that is not there.            *)
THEOREM TypeCorrect == Spec => []TypeOK
  <1>1. Init => TypeInv
    BY TypeInvInit
  <1>2. TypeInv /\ [Next]_vars => TypeInv'
    BY TypeInvNext
  <1>3. TypeInv => TypeOK
    BY TypeInvSuffices
  <1> QED BY <1>1, <1>2, <1>3, PTL DEF Spec

-----------------------------------------------------------------------------
(* What is granted.                                                        *)

(* More permissions do not permit less.                                    *)
LEMMA AdministratorMonotone ==
    ASSUME NEW A, NEW B, A \subseteq B, B \subseteq Bits
    PROVE  WithAdministrator(A) \subseteq WithAdministrator(B)
  BY DEF WithAdministrator

(* A member has nothing but what the roles have from the owner.            *)
LEMMA HasFromOwner ==
    ASSUME TypeInv, BitsFromOwner, NEW u, u # Owner
    PROVE  get_user_permissions(u) \subseteq WithAdministrator(granted)
  <1> DEFINE U == UNION {roles[r].permissions : r \in {s \in Existing : s = Everyone \/ s \in held[u]}}
  <1>1. U \subseteq WithAdministrator(granted)
    BY DEF BitsFromOwner
  <1>2. WithAdministrator(U) \subseteq WithAdministrator(granted)
    <2> HIDE DEF U
    <2>1. CASE ADMINISTRATOR \notin U
      BY <1>1, <2>1 DEF WithAdministrator
    <2>2. CASE ADMINISTRATOR \in U
      BY <1>1, <2>2 DEF WithAdministrator
    <2> QED BY <2>1, <2>2
  <1> QED BY <1>2 DEF get_user_permissions

(* A step in p that leaves the requests of others to write what they were  *)
(* about to, and those of p to write what has been found with their actor. *)
LEMMA WritesStayGranted ==
    ASSUME TypeInv, TypeInv', WriteGranted, NEW p \in Slots, Becomes(p, request'[p]),
           granted \subseteq granted',
           /\ request'[p] # None /\ request'[p].at \in {"insert", "write"}
           /\ request'[p].actor # Owner
           => Bitset(request'[p].permissions) \subseteq WithAdministrator(granted')
    PROVE  WriteGranted'
  <1> SUFFICES ASSUME NEW q \in Slots, request'[q] # None,
                      request'[q].at \in {"insert", "write"}, request'[q].actor # Owner
               PROVE  Bitset(request'[q].permissions) \subseteq WithAdministrator(granted')
    BY DEF WriteGranted, Actor, Bitset
  <1>1. CASE q = p
    BY <1>1
  <1>2. CASE q # p
    <2>1. /\ request[q] # None /\ RequestOK(request[q])
          /\ request'[q] = request[q] \/ request'[q] = [request[q] EXCEPT !.overtaken = TRUE]
      BY <1>2 DEF Becomes, TypeInv, RequestsOK
    <2>2. /\ request'[q].at = request[q].at /\ request'[q].actor = request[q].actor
          /\ request'[q].permissions = request[q].permissions
      BY <2>1 DEF RequestOK, Fields
    <2>3. Bitset(request[q].permissions) \subseteq WithAdministrator(granted)
      BY <2>1, <2>2 DEF WriteGranted, Actor
    <2>4. WithAdministrator(granted) \subseteq WithAdministrator(granted')
      BY AdministratorMonotone DEF TypeInv, RowsOK
    <2> QED BY <2>2, <2>3, <2>4
  <1> QED BY <1>1, <1>2

(* Every role keeps what it permits, or gets what is granted.              *)
LEMMA RolesStayGranted ==
    ASSUME TypeInv, TypeInv', BitsFromOwner, granted \subseteq granted',
           \A r \in Existing' :
              \/ r \in Existing /\ roles'[r].permissions = roles[r].permissions
              \/ roles'[r].permissions \subseteq WithAdministrator(granted')
    PROVE  BitsFromOwner'
  <1>1. WithAdministrator(granted) \subseteq WithAdministrator(granted')
    BY AdministratorMonotone DEF TypeInv, RowsOK
  <1>2. \A r \in Existing' : roles'[r].permissions \subseteq WithAdministrator(granted')
    BY <1>1 DEF BitsFromOwner
  <1> QED BY <1>2 DEF BitsFromOwner, Existing, WithAdministrator

(* What p inserts or writes is granted.                                    *)
LEMMA WrittenIsGranted ==
    ASSUME TypeInv, TypeInv', WriteGranted, NEW p \in Slots, request[p] # None,
           request[p].at \in {"insert", "write"},
           Granted(p, Bitset(request[p].permissions))
    PROVE  /\ granted \subseteq granted'
           /\ Bitset(request[p].permissions) \subseteq WithAdministrator(granted')
  <1>1. granted' \subseteq Bits
    BY DEF TypeInv, RowsOK
  <1>2. CASE Actor(p) = Owner
    BY <1>1, <1>2 DEF Granted, WithAdministrator
  <1>3. CASE Actor(p) # Owner
    BY <1>3 DEF Granted, WriteGranted
  <1> QED BY <1>2, <1>3

(* Every step keeps what is, or is about to be, granted within the         *)
(* owner's.                                                                *)
LEMMA GrantInvNext == TypeInv /\ GrantInv /\ [Next]_vars => GrantInv'
  <1> SUFFICES ASSUME TypeInv, BitsFromOwner, WriteGranted, [Next]_vars PROVE GrantInv'
    BY DEF GrantInv
  <1>t. TypeInv'
    BY TypeInvNext
  <1>1. CASE UNCHANGED vars
    BY <1>1 DEF GrantInv, BitsFromOwner, WriteGranted, WithAdministrator, Existing, Actor,
                Bitset, vars, rows, history
  <1>2. CASE Next
    <2>1. PICK p \in Slots :
            \/ Start(p) \/ Fail(p)
            \/ Permitted(p) \/ Hierarchy(p) \/ IsDefault(p) \/ ReadHighest(p) \/ Below(p)
            \/ MayGrant(p) \/ ReadMaxPosition(p)
            \/ Insert(p) \/ Write(p) \/ Delete(p) \/ MoveEach(p) \/ ClearRoles(p) \/ AddRoles(p)
      BY <1>2 DEF Next
    <2>2. ASSUME UNCHANGED <<roles, granted>>, Becomes(p, request'[p]),
                 request'[p] # None => request'[p].at \notin {"insert", "write"}
          PROVE  GrantInv'
      <3>1. WriteGranted'
        BY <1>t, <2>2, WritesStayGranted
      <3>2. BitsFromOwner'
        BY <2>2 DEF BitsFromOwner, Existing, WithAdministrator
      <3> QED BY <3>1, <3>2 DEF GrantInv
    <2>3. CASE Start(p) \/ Fail(p)
      BY <2>2, <2>3, StartStep, FailStep DEF Becomes, rows, history
    <2>4. CASE Permitted(p) \/ Hierarchy(p) \/ IsDefault(p)
      BY <2>2, <2>4, PermittedStep, IsDefaultStep DEF Becomes, rows, history
    <2>5. CASE ReadHighest(p) \/ ReadMaxPosition(p)
      BY <2>2, <2>5, ReadHighestStep, ReadMaxPositionStep
         DEF Becomes, rows, history, ReadHighest, ReadMaxPosition
    <2>6. CASE Below(p)
      BY <2>2, <2>6, BelowStep DEF Becomes, rows, history
    <2>7. CASE ClearRoles(p) \/ AddRoles(p)
      BY <2>2, <2>7, ClearRolesStep, AddRolesStep DEF history
    <2>8. CASE MayGrant(p)
      <3>1. /\ UNCHANGED <<roles, granted>> /\ Becomes(p, request'[p])
            /\ request[p] # None /\ RequestOK(request[p])
        BY <2>8, MayGrantStep DEF Becomes, rows, history, TypeInv, RequestsOK
      <3>2. ASSUME request'[p] # None, request'[p].actor # Owner
            PROVE  Bitset(request'[p].permissions) \subseteq WithAdministrator(granted')
        <4>1. /\ request'[p].permissions = request[p].permissions
              /\ request'[p].actor = request[p].actor
              /\ \/ Bitset(request[p].permissions) = {}
                 \/ Bitset(request[p].permissions) \subseteq get_user_permissions(Actor(p))
          BY <2>8, <3>2, MayGrantStep
        <4>2. get_user_permissions(Actor(p)) \subseteq WithAdministrator(granted)
          BY <3>2, <4>1, HasFromOwner DEF Actor
        <4>3. WithAdministrator(granted') = WithAdministrator(granted)
          BY <3>1
        <4> QED BY <4>1, <4>2, <4>3
      <3>3. WriteGranted'
        BY <1>t, <3>1, <3>2, WritesStayGranted
      <3>4. BitsFromOwner'
        BY <3>1 DEF BitsFromOwner, Existing, WithAdministrator
      <3> QED BY <3>3, <3>4 DEF GrantInv
    <2>9. CASE Insert(p)
      <3>1. request[p] # None /\ request[p].at = "insert"
        BY <2>9 DEF Insert, At
      <3>2. /\ granted \subseteq granted'
            /\ Bitset(request[p].permissions) \subseteq WithAdministrator(granted')
        BY <1>t, <2>9, <3>1, WrittenIsGranted DEF Insert
      <3>3. \A r \in Existing' :
              \/ r \in Existing /\ roles'[r].permissions = roles[r].permissions
              \/ roles'[r].permissions \subseteq WithAdministrator(granted')
        <4>1. PICK r \in Roles \ Existing : roles' = [roles EXCEPT ![r] =
                  [position |-> request[p].position, permissions |-> Bitset(request[p].permissions)]]
          BY <2>9 DEF Insert
        <4>2. roles'[r].permissions = Bitset(request[p].permissions)
          BY <4>1 DEF TypeInv, RowsOK
        <4>3. \A s \in Roles \ {r} : roles'[s] = roles[s]
          BY <4>1 DEF TypeInv, RowsOK
        <4> QED BY <3>2, <4>2, <4>3 DEF Existing
      <3>4. Becomes(p, request'[p]) /\ request'[p] = None
        BY <2>9, InsertStep
      <3> QED BY <1>t, <3>2, <3>3, <3>4, WritesStayGranted, RolesStayGranted DEF GrantInv
    <2>10. CASE Write(p)
      <3> DEFINE body == request[p]
                 r    == body.role
                 row  == [position    |-> IF body.position = None THEN roles[r].position ELSE body.position,
                          permissions |-> IF body.permissions = None THEN roles[r].permissions
                                          ELSE body.permissions]
      <3>1. request[p] # None /\ request[p].at = "write"
        BY <2>10 DEF Write, At
      <3>2. Becomes(p, request'[p]) /\ request'[p] = None
        BY <2>10, WriteStep DEF Becomes
      <3>3. CASE r \notin Existing
        <4>1. UNCHANGED <<roles, granted>>
          BY <2>10, <3>3 DEF Write
        <4> QED BY <2>2, <3>2, <4>1
      <3>4. CASE r \in Existing
        <4>1. roles' = [roles EXCEPT ![r] = row] /\ Granted(p, Bitset(body.permissions))
          BY <2>10, <3>4 DEF Write
        <4>2. /\ granted \subseteq granted'
              /\ Bitset(body.permissions) \subseteq WithAdministrator(granted')
          BY <1>t, <3>1, <4>1, WrittenIsGranted
        <4>3. row.permissions = roles[r].permissions \/ row.permissions = Bitset(body.permissions)
          BY DEF Bitset
        <4> HIDE DEF row, r, body
        <4>4. r \in Roles /\ roles'[r] = row /\ \A s \in Roles \ {r} : roles'[s] = roles[s]
          BY <3>4, <4>1 DEF TypeInv, RowsOK, Existing
        <4>5. \A s \in Existing' :
              \/ s \in Existing /\ roles'[s].permissions = roles[s].permissions
              \/ roles'[s].permissions \subseteq WithAdministrator(granted')
          BY <3>4, <4>2, <4>3, <4>4 DEF Existing
        <4> QED BY <1>t, <3>2, <4>2, <4>5, WritesStayGranted, RolesStayGranted DEF GrantInv
      <3> QED BY <3>3, <3>4
    <2>11. CASE Delete(p)
      <3>1. /\ Becomes(p, request'[p]) /\ request'[p] = None /\ granted' = granted
            /\ Existing' \subseteq Existing /\ \A r \in Existing' : roles'[r] = roles[r]
        BY <2>11, DeleteStep DEF Becomes, Delete
      <3> QED BY <1>t, <3>1, WritesStayGranted, RolesStayGranted DEF GrantInv
    <2>12. CASE MoveEach(p)
      <3>1. /\ Becomes(p, request'[p]) /\ granted' = granted /\ Existing' = Existing
            /\ request'[p] # None => request'[p].at \notin {"insert", "write"}
        BY <2>12, MoveEachStep DEF MoveEach
      <3>3. \A s \in Existing : roles'[s].permissions = roles[s].permissions
        BY <2>12, MoveEachStep
      <3> QED BY <1>t, <3>1, <3>3, WritesStayGranted, RolesStayGranted DEF GrantInv
    <2> QED BY <2>1, <2>3, <2>4, <2>5, <2>6, <2>7, <2>8, <2>9, <2>10, <2>11, <2>12
  <1> QED BY <1>1, <1>2

(* At first every permission of a role counts as granted.                  *)
LEMMA GrantInvInit == Init => GrantInv
  <1> SUFFICES ASSUME Init PROVE GrantInv
    OBVIOUS
  <1>1. PICK there \in SUBSET Roles : /\ \A r \in Roles \ there : roles[r] = None
                                      /\ granted = UNION {roles[r].permissions : r \in there}
    BY ConstantsAssumption DEF Init
  <1>2. granted \subseteq Bits
    BY TypeInvInit DEF TypeInv, RowsOK
  <1>3. BitsFromOwner
    BY <1>1, <1>2 DEF BitsFromOwner, Existing, WithAdministrator
  <1>4. WriteGranted
    BY DEF WriteGranted, Init
  <1> QED BY <1>3, <1>4 DEF GrantInv

(* "Escalation prevention" of create_role and update_role (roles.rs:194,   *)
(* 305) for any number of members, roles, permissions and requests: what   *)
(* was granted when a handler looked is still granted when it writes,      *)
(* since permissions that the owner has put on a role are not forgotten.   *)
THEOREM EscalationPrevented == Spec => []BitsFromOwner
  <1>1. Init => TypeInv /\ GrantInv
    BY TypeInvInit, GrantInvInit
  <1>2. (TypeInv /\ GrantInv) /\ [Next]_vars => (TypeInv /\ GrantInv)'
    BY TypeInvNext, GrantInvNext
  <1>3. GrantInv => BitsFromOwner
    BY DEF GrantInv
  <1> QED BY <1>1, <1>2, <1>3, PTL DEF Spec

-----------------------------------------------------------------------------
(* Who is above whom.                                                      *)

(* What p writes to is below its actor, unless it is the owner, has been   *)
(* overtaken, is let off or has moved it before.                           *)
LEMMA NoTrespass ==
    ASSUME TypeInv, OrderInv, NEW p \in Slots, request[p] # None, Compared(request[p]),
           NEW r \in Subjects(request[p]), Trespass(p, r)
    PROVE  "not_compared" \notin trespasses'
  <1>1. RequestOK(request[p]) /\ request[p].actor \in Users /\ request[p].highest \in Int
    BY PositionsInt DEF TypeInv, RequestsOK, RequestOK, Fields
  <1>2. SUFFICES ASSUME Trespasses(p, r), Cause(request[p], r) = "not_compared" PROVE FALSE
    BY DEF Trespass, OrderInv, HierarchyKept
  <1>3. request[p].highest # MaxPosition /\ r \notin request[p].moved
    BY <1>2 DEF Cause
  <1>4. Anchored(request[p]) /\ AreBelow(request[p])
    BY <1>2, <1>3 DEF OrderInv, StillBelow, Trespasses
  <1>5. PICK s \in held[request[p].actor] \cap Existing : roles[s].position >= request[p].highest
    BY <1>4 DEF Anchored
  <1>6. roles[s].position <= Highest(request[p].actor) /\ Highest(request[p].actor) \in Int
    BY <1>1, HighestBounds DEF TypeInv
  <1>7. r \in Existing /\ roles[r].position >= Highest(request[p].actor)
    BY <1>2 DEF Trespasses, Actor
  <1>8. roles[r].position < request[p].highest
    BY <1>3, <1>4, <1>7 DEF AreBelow
  <1>9. roles[r].position \in Int /\ roles[s].position \in Int
    BY <1>7, PositionsInt DEF TypeInv, RowsOK
  <1> QED BY <1>1, <1>5, <1>6, <1>7, <1>8, <1>9

(* What a request says of rows that stand.                                 *)
LEMMA RowsStand ==
    ASSUME UNCHANGED rows, NEW r
    PROVE  (Anchored(r) => Anchored(r)') /\ (AreBelow(r) => AreBelow(r)')
  BY DEF rows, Anchored, AreBelow, Existing, Subjects

(* What a step in p leaves its own request to rely on.                     *)
Relies(r) ==
    /\ r # None /\ r.actor # Owner /\ ~r.overtaken /\ r.highest # MaxPosition
    => /\ r.at = "below" \/ Compared(r) => Anchored(r)
       /\ Compared(r) => AreBelow(r)

(* Every request relies on its own.                                        *)
LEMMA StillBelowIs == StillBelow <=> \A p \in Slots : Relies(request[p])
  BY DEF StillBelow, Relies, Actor

(* A step in p after which p has found nothing new, and others stand       *)
(* before the same rows or are overtaken.                                  *)
LEMMA OthersStayBelow ==
    ASSUME StillBelow, NEW p \in Slots,
           \A q \in Slots \ {p} :
              \/ request'[q] = request[q] /\ UNCHANGED rows
              \/ request'[q] # None => request'[q].overtaken = TRUE,
           Relies(request[p])'
    PROVE  StillBelow'
  <1>1. \A q \in Slots : Relies(request[q])
    BY StillBelowIs
  <1>2. ASSUME NEW q \in Slots \ {p} PROVE Relies(request[q])'
    <2>1. CASE request'[q] # None => request'[q].overtaken = TRUE
      BY <2>1 DEF Relies
    <2>2. CASE request'[q] = request[q] /\ UNCHANGED rows
      <3>1. PICK r : r = request[q]
        OBVIOUS
      <3>2. Relies(r)
        BY <1>1, <3>1
      <3>3. Relies(r)'
        BY <2>2, <3>2, RowsStand DEF Relies, Compared
      <3> QED BY <2>2, <3>1, <3>3 DEF Relies, Compared, Anchored, AreBelow, Subjects, Existing
    <2> QED BY <1>2, <2>1, <2>2
  <1>3. \A q \in Slots : Relies(request[q])'
    BY <1>2
  <1> QED BY <1>3 DEF StillBelow, Relies, Actor, Compared, Anchored, AreBelow, Subjects, Existing

(* When rows stand, a request that goes on relies on what it relied on.    *)
LEMMA GoesOnRelying ==
    ASSUME UNCHANGED rows, NEW old, NEW new, Relies(old), old # None,
           \A f \in {"op", "actor", "role", "moves", "moved", "highest", "overtaken"} :
              new[f] = old[f],
           old.at = "below" \/ Compared(old),
           Compared(old) \/ (AreBelow(old) \/ old.highest = MaxPosition)
    PROVE  Relies(new)'
  <1>1. /\ new.op = old.op /\ new.actor = old.actor /\ new.role = old.role
        /\ new.moves = old.moves /\ new.moved = old.moved /\ new.highest = old.highest
        /\ new.overtaken = old.overtaken
    OBVIOUS
  <1>2. Subjects(new) = Subjects(old)
    BY <1>1 DEF Subjects
  <1>3. (Anchored(old) => Anchored(new)) /\ (AreBelow(old) => AreBelow(new))
    BY <1>1, <1>2 DEF Anchored, AreBelow
  <1>4. \/ new.actor = Owner \/ new.overtaken \/ new.highest = MaxPosition
        \/ Anchored(new) /\ AreBelow(new)
    BY <1>1, <1>3 DEF Relies
  <1> QED BY <1>4, RowsStand DEF Relies, Compared

(* Every step keeps what was compared below the actor, unless overtaken.   *)
LEMMA OrderInvNext == TypeInv /\ OrderInv /\ [Next]_vars => OrderInv'
  <1> SUFFICES ASSUME TypeInv, StillBelow, HierarchyKept, [Next]_vars
               PROVE  StillBelow' /\ HierarchyKept'
    BY DEF OrderInv
  <1>t. TypeInv'
    BY TypeInvNext
  <1>o. OrderInv
    BY DEF OrderInv
  <1>1. CASE UNCHANGED vars
    BY <1>1 DEF StillBelow, HierarchyKept, Actor, Compared, Anchored, AreBelow, Subjects,
                Existing, vars, rows, history
  <1>2. CASE Next
    <2>1. PICK p \in Slots :
            \/ Start(p) \/ Fail(p)
            \/ Permitted(p) \/ Hierarchy(p) \/ IsDefault(p) \/ ReadHighest(p) \/ Below(p)
            \/ MayGrant(p) \/ ReadMaxPosition(p)
            \/ Insert(p) \/ Write(p) \/ Delete(p) \/ MoveEach(p) \/ ClearRoles(p) \/ AddRoles(p)
      BY <1>2 DEF Next
    <2> DEFINE found == Relies(request[p])'
    <2>2. ASSUME "not_compared" \notin trespasses', found,
                 \A q \in Slots \ {p} :
                    \/ request'[q] = request[q] /\ UNCHANGED rows
                    \/ request'[q] # None => request'[q].overtaken = TRUE
          PROVE  StillBelow' /\ HierarchyKept'
      BY <2>2, OthersStayBelow DEF HierarchyKept
    <2>k. ASSUME UNCHANGED <<rows, history>>, found,
                 \A q \in Slots \ {p} : request'[q] = request[q]
          PROVE  StillBelow' /\ HierarchyKept'
      BY <2>2, <2>k DEF HierarchyKept, history
    <2> HIDE DEF found
    <2>3. CASE \/ Start(p) \/ Fail(p) \/ Permitted(p) \/ Hierarchy(p) \/ IsDefault(p)
      <3>1. /\ \A q \in Slots \ {p} : request'[q] = request[q]
            /\ UNCHANGED <<rows, history>>
            /\ request'[p] # None =>
                  /\ request'[p].at \notin {"write", "delete", "move_each", "below"}
                  /\ request'[p].at = "may_grant" => request'[p].op # "update_role"
        BY <2>3, StartStep, FailStep, PermittedStep, IsDefaultStep
      <3>2. found
        BY <3>1 DEF found, Relies, Compared
      <3> QED BY <2>k, <3>1, <3>2
    <2>4. CASE ReadMaxPosition(p)
      <3>1. /\ \A q \in Slots \ {p} : request'[q] = request[q]
            /\ UNCHANGED <<rows, history>>
            /\ request'[p] # None =>
                  request'[p].op = "create_role" /\ request'[p].at \notin {"insert", "write"}
        BY <2>4, ReadMaxPositionStep DEF ReadMaxPosition
      <3>2. request'[p] # None => request'[p].at \notin {"delete", "move_each", "below"}
        BY <1>t, <3>1 DEF TypeInv, RequestsOK, RequestOK, Handler, create_role
      <3>3. found
        BY <3>1, <3>2 DEF found, Relies, Compared
      <3> QED BY <2>k, <3>1, <3>3
    <2>5. CASE ReadHighest(p)
      <3>1. /\ \A q \in Slots \ {p} : request'[q] = request[q]
            /\ Existing' = Existing /\ UNCHANGED <<rows, history>>
            /\ request'[p] # None =>
                 /\ request'[p].actor = request[p].actor /\ request'[p].actor \in Users
                 /\ request'[p].at = "below" /\ request'[p].moved = {}
                 /\ Actor(p) # Owner => request'[p].highest = Highest(Actor(p))
        BY <2>5, ReadHighestStep DEF ReadHighest
      <3>2. ASSUME request'[p] # None, request'[p].actor # Owner
            PROVE  Anchored(request[p])'
        <4>1. PICK s \in held[request'[p].actor] \cap Existing :
                  roles[s].position = Highest(request'[p].actor)
          BY <3>1, <3>2, HighestBounds DEF TypeInv
        <4>2. request'[p].highest = roles[s].position /\ roles[s].position \in Int
          BY <3>1, <3>2, <4>1, PositionsInt DEF Actor, TypeInv, RowsOK
        <4> QED BY <3>1, <3>2, <4>1, <4>2 DEF Anchored, rows
      <3>3. found
        BY <3>1, <3>2 DEF found, Relies, Compared
      <3> QED BY <2>k, <3>1, <3>3
    <2>6. CASE Below(p)
      <3>1. /\ \A q \in Slots \ {p} : request'[q] = request[q]
            /\ UNCHANGED <<rows, history>>
            /\ request[p] # None /\ request[p].at = "below"
            /\ request'[p] # None =>
                  /\ \A f \in {"op", "actor", "role", "moves", "moved", "highest", "overtaken"} :
                        request'[p][f] = request[p][f]
                  /\ request[p].highest = MaxPosition \/ \A r \in Subjects(request[p]) :
                        r \in Existing /\ IsBelow(roles[r].position, request[p].highest)
        BY <2>6, BelowStep
      <3>2. found
        <4>1. CASE request'[p] = None
          BY <4>1 DEF found, Relies
        <4>2. CASE request'[p] # None
          <5>1. request[p].highest = MaxPosition \/ AreBelow(request[p])
            BY <3>1, <4>2 DEF AreBelow, IsBelow
          <5>2. Relies(request[p])
            BY StillBelowIs
          <5>3. PICK old, new : old = request[p] /\ new = request'[p]
            OBVIOUS
          <5>4. Relies(new)'
            BY <3>1, <4>2, <5>1, <5>2, <5>3, GoesOnRelying
          <5> QED BY <5>3, <5>4 DEF found, Relies, Compared, Anchored, AreBelow, Subjects, Existing
        <4> QED BY <4>1, <4>2
      <3> QED BY <2>k, <3>1, <3>2
    <2>7. CASE MayGrant(p)
      <3>1. /\ \A q \in Slots \ {p} : request'[q] = request[q]
            /\ UNCHANGED <<rows, history>>
            /\ request[p] # None /\ request[p].at = "may_grant"
            /\ request'[p] # None =>
                 /\ request'[p].at \notin {"below", "delete", "move_each", "may_grant"}
                 /\ request'[p].at = "write" => request[p].op = "update_role"
                 /\ \A f \in {"op", "actor", "role", "moves", "moved", "highest",
                               "permissions", "overtaken"} :
                       request'[p][f] = request[p][f]
        BY <2>7, MayGrantStep
      <3>2. found
        <4>1. CASE request'[p] = None \/ request'[p].at # "write"
          BY <3>1, <4>1 DEF found, Relies, Compared
        <4>2. CASE request'[p] # None /\ request'[p].at = "write"
          <5>1. Compared(request[p])
            BY <3>1, <4>2 DEF Compared
          <5>2. Relies(request[p])
            BY StillBelowIs
          <5>3. PICK old, new : old = request[p] /\ new = request'[p]
            OBVIOUS
          <5>4. Relies(new)'
            BY <3>1, <4>2, <5>1, <5>2, <5>3, GoesOnRelying
          <5> QED BY <5>3, <5>4 DEF found, Relies, Compared, Anchored, AreBelow, Subjects, Existing
        <4> QED BY <4>1, <4>2
      <3> QED BY <2>k, <3>1, <3>2
    <2>8. CASE Insert(p)
      <3>1. /\ request'[p] = None /\ trespasses' = trespasses
            /\ \A q \in Slots \ {p} : request'[q] # None => request'[q].overtaken = TRUE
        BY <2>8, InsertStep DEF Insert
      <3>2. found
        BY <3>1 DEF found, Relies
      <3> QED BY <2>2, <3>1, <3>2 DEF HierarchyKept
    <2>9. CASE Write(p)
      <3>1. /\ request[p] # None /\ request[p].at = "write" /\ request[p].op = "update_role"
        BY <2>9, EndsAfter DEF Write
      <3>2. "not_compared" \notin trespasses'
        BY <1>o, <2>9, <3>1, NoTrespass DEF Write, Compared, Subjects
      <3>3. /\ request'[p] = None
            /\ \A q \in Slots \ {p} :
                 \/ request'[q] = request[q] /\ UNCHANGED rows
                 \/ request'[q] # None => request'[q].overtaken = TRUE
        BY <2>9, WriteStep DEF Becomes, Write, rows
      <3>4. found
        BY <3>3 DEF found, Relies
      <3> QED BY <2>2, <3>2, <3>3, <3>4
    <2>10. CASE Delete(p)
      <3>1. /\ request[p] # None /\ request[p].at = "delete" /\ request[p].op = "delete_role"
        BY <2>10, EndsAfter DEF Delete
      <3>2. "not_compared" \notin trespasses'
        BY <1>o, <2>10, <3>1, NoTrespass DEF Delete, Compared, Subjects
      <3>3. /\ request'[p] = None
            /\ \A q \in Slots \ {p} : request'[q] # None => request'[q].overtaken = TRUE
        BY <2>10, DeleteStep DEF Becomes
      <3>4. found
        BY <3>3 DEF found, Relies
      <3> QED BY <2>2, <3>2, <3>3, <3>4
    <2>11. CASE ClearRoles(p) \/ AddRoles(p)
      <3>1. /\ UNCHANGED <<roles, history>>
            /\ \A q \in Slots \ {p} :
                 \/ request'[q] = request[q] /\ UNCHANGED rows
                 \/ request'[q] # None => request'[q].overtaken = TRUE
            /\ request'[p] # None =>
                 request'[p].at \notin {"insert", "write", "delete", "move_each", "below", "may_grant"}
        BY <2>11, ClearRolesStep, AddRolesStep DEF rows
      <3>2. found
        BY <3>1 DEF found, Relies, Compared
      <3> QED BY <2>2, <3>1, <3>2 DEF history, HierarchyKept
    <2>12. CASE MoveEach(p)
      <3>1. /\ Existing' = Existing
            /\ \A q \in Slots \ {p} : request'[q] # None => request'[q].overtaken = TRUE
            /\ request[p] # None /\ RequestOK(request[p]) /\ request[p].at = "move_each"
        BY <2>12, MoveEachStep
      <3>2. PICK r \in Subjects(request[p]) :
                 /\ \A s \in Existing \ {r} : roles'[s] = roles[s]
                 /\ Trespass(p, r)
                 /\ request'[p] # None =>
                       /\ request'[p].actor = request[p].actor
                       /\ request'[p].at = "move_each"
                       /\ request'[p].overtaken = request[p].overtaken
                       /\ request'[p].highest = request[p].highest
                       /\ request'[p].moved = request[p].moved \cup {r}
                       /\ Subjects(request'[p]) \subseteq Subjects(request[p])
        BY <2>12, MoveEachStep
      <3>3. "not_compared" \notin trespasses'
        BY <1>o, <3>1, <3>2, NoTrespass DEF Compared
      <3>4. held' = held
        BY <2>12 DEF MoveEach
      <3>5. ASSUME request'[p] # None, request'[p].actor # Owner, ~request'[p].overtaken,
                   request'[p].highest # MaxPosition
            PROVE  Anchored(request[p])' /\ AreBelow(request[p])'
        <4> DEFINE old == request[p]
        <4>1. Anchored(old) /\ AreBelow(old)
          BY <3>1, <3>2, <3>5 DEF StillBelow, Compared, Actor
        <4>2. PICK s \in (held[old.actor] \cap Existing) \ old.moved :
                  roles[s].position >= old.highest
          BY <4>1 DEF Anchored
        <4>3. roles[s].position \in Int /\ old.highest \in Int
          BY <3>1, <4>2, PositionsInt DEF TypeInv, RowsOK, RequestOK, Fields
        <4>4. s # r
          BY <3>2, <4>1, <4>2, <4>3 DEF AreBelow
        <4>5. Anchored(request[p])'
          BY <3>1, <3>2, <3>4, <3>5, <4>2, <4>4 DEF Anchored
        <4>6. AreBelow(request[p])'
          BY <3>1, <3>2, <3>5, <4>1 DEF AreBelow
        <4> QED BY <4>5, <4>6
      <3>6. found
        BY <3>5 DEF found, Relies
      <3> QED BY <2>2, <3>1, <3>3, <3>6
    <2> QED BY <2>1, <2>3, <2>4, <2>5, <2>6, <2>7, <2>8, <2>9, <2>10, <2>11, <2>12
  <1> QED BY <1>1, <1>2

(* At first there is no request and no trespass.                           *)
LEMMA OrderInvInit == Init => OrderInv
  BY DEF Init, OrderInv, StillBelow, HierarchyKept

(* "Cannot modify roles at or above your highest role position"            *)
(* (roles.rs:263), over all the statements between the reading of the      *)
(* highest position and the last UPDATE of a body, for any number of       *)
(* requests, any positions and any list of moves: a member whose position  *)
(* was read below i32::MAX changes no role that is not below him, but by a *)
(* second entry for it in one body, and a body does not lower its own      *)
(* actor, whose highest role is not among what was compared.               *)
THEOREM HierarchyHolds == Spec => []HierarchyKept
  <1>1. Init => TypeInv /\ OrderInv
    BY TypeInvInit, OrderInvInit
  <1>2. (TypeInv /\ OrderInv) /\ [Next]_vars => (TypeInv /\ OrderInv)'
    BY TypeInvNext, OrderInvNext
  <1>3. OrderInv => HierarchyKept
    BY DEF OrderInv
  <1> QED BY <1>1, <1>2, <1>3, PTL DEF Spec
=============================================================================
