---------------------------- MODULE AuthSessions ----------------------------
(***************************************************************************)
(* Accounts, refresh sessions and the blocking of logins: what the         *)
(* handlers of routes/auth.rs and delete_me and update_me of               *)
(* routes/users.rs do to the table users, to the Redis keys refresh:<jti>  *)
(* and user_sessions:<user> of lumiere-auth, to ip_fail:<ip> and           *)
(* ip_block:<ip> of the rate limiter, and to username_change:<user>.       *)
(*                                                                         *)
(* A handler is a sequence of calls to PostgreSQL and Redis, given by the  *)
(* function named after it; a call is an action, and requests interleave   *)
(* between calls: nothing is a transaction.  All come from one address.    *)
(* A refresh token is told from the others by its jti, which is never      *)
(* drawn twice.  An access token is not looked up anywhere, so a user who  *)
(* was ever given one can log out and delete the account until it expires. *)
(***************************************************************************)
EXTENDS Naturals, FiniteSets

CONSTANTS
    Slots,        \* places for requests being served at once
    Users,
    Tokens,       \* the refresh tokens (jtis) that can be minted
    None,         \* absent: no request, no token, no session
    LoginFailMax, \* LOGIN_FAIL_MAX, 10 in the code
    ChangeMax,    \* changes of a username within an hour, 2 in the code
    MaxRequests,  \* bound on the requests started
    MaxFaults     \* bound on the calls that fail and requests that are dropped

ASSUME ConstantsAssumption ==
    /\ IsFiniteSet(Slots) /\ Slots # {}
    /\ None \notin Users \cup Tokens
    /\ LoginFailMax \in Nat \ {0} /\ ChangeMax \in Nat \ {0}
    /\ MaxRequests \in Nat /\ MaxFaults \in Nat

VARIABLES
    accounts,      \* accounts[u]: "none", "active" or "deleted" (deleted_at is set)
    settings,      \* users with a row of user_settings
    sessions,      \* sessions[t]: whose session refresh:<t> holds, or None
    user_sessions, \* user_sessions[u]: the Redis set of u's tokens
    ip_fail,       \* the counter of failed logins, 0 when the key is absent
    ip_block,      \* "none", or the key is set, "before" or "after" the counter was
    username_change, \* username_change[u]: the counter, 0 when the key is absent
    renames,       \* history: changes of u's name since the counter was last absent
    request,       \* request[p]: the request served in slot p, or None
    held,          \* held[u]: tokens u was given in a response
    minted,        \* tokens that have been created
    dead,          \* history: tokens a completed revocation was to end
    closed,        \* history: users whose deletion has completed
    straddled,     \* history: users with a session made across a revocation
    replayed,      \* history: tokens two refreshes have both read
    successors,    \* history: successors[t]: how often t was exchanged
    guesses,       \* history: wrong passwords since the counter was last absent
    started, faults

stores   == <<accounts, settings, sessions, user_sessions, ip_fail, ip_block>>
history  == <<dead, closed, straddled, replayed, successors, guesses>>
renaming == <<username_change, renames>>
counters == <<started, faults>>
vars == <<stores, request, held, minted, history, renaming, counters>>

-----------------------------------------------------------------------------
(* Deviations: what a plausible slip in the code would make of the         *)
(* definition each is named after.  Nothing below uses them; they show     *)
(* that the properties depend on what the code does.                       *)

(* An account is deleted without its sessions.                             *)
delete_me_KeepsSessions ==
    [start           |-> "verify_password",
     verify_password |-> "owns_none",
     owns_none       |-> "soft_delete",
     soft_delete     |-> "delete_list",
     delete_list     |-> "end"]

(* The old token is revoked only once the new one is stored.               *)
refresh_RevokesLast ==
    [start      |-> "get_key",
     get_key    |-> "set_key",
     set_key    |-> "list_key",
     list_key   |-> "delete_key",
     delete_key |-> "unlist_key",
     unlist_key |-> "end"]

(* The new token is listed without a key.                                  *)
refresh_NoKey ==
    [start      |-> "get_key",
     get_key    |-> "delete_key",
     delete_key |-> "unlist_key",
     unlist_key |-> "list_key",
     list_key   |-> "end"]

(* count > LOGIN_FAIL_MAX.                                                 *)
TooMany_OffByOne(count) == count > LoginFailMax

-----------------------------------------------------------------------------
(* The handlers: from each call to the one after it.                       *)

register ==
    [start           |-> "is_free",
     is_free         |-> "insert_user",
     insert_user     |-> "insert_settings",
     insert_settings |-> "set_key",
     set_key         |-> "list_key",
     list_key        |-> "end"]

login ==
    [start          |-> "not_blocked",
     not_blocked    |-> "find_user",
     find_user      |-> "clear_failures",
     clear_failures |-> "set_key",
     set_key        |-> "list_key",
     list_key       |-> "end",
     record_failure |-> "block",
     block          |-> "end"]

refresh ==
    [start      |-> "get_key",
     get_key    |-> "delete_key",
     delete_key |-> "unlist_key",
     unlist_key |-> "set_key",
     set_key    |-> "list_key",
     list_key   |-> "end"]

(* logout and logout_all do the same.                                      *)
logout ==
    [start       |-> "read_list",
     read_list   |-> "delete_keys",
     delete_keys |-> "delete_list",
     delete_list |-> "end"]

delete_me ==
    [start           |-> "verify_password",
     verify_password |-> "owns_none",
     owns_none       |-> "soft_delete",
     soft_delete     |-> "read_list",
     read_list       |-> "delete_keys",
     delete_keys     |-> "delete_list",
     delete_list     |-> "end"]

(* With a username; what else it sets is a column that nothing here reads. *)
update_me ==
    [start         |-> "count_change",
     count_change  |-> "name_is_free",
     name_is_free  |-> "update_user",
     update_user   |-> "end"]

Handler ==
    [register |-> register, login |-> login, refresh |-> refresh, logout |-> logout,
     logout_all |-> logout, delete_me |-> delete_me, update_me |-> update_me]

(* The calls a request can be at.                                          *)
Calls(op) == DOMAIN Handler[op] \ {"start"}

Requests ==
    [op : DOMAIN Handler, user : Users, old : Tokens \cup {None}, new : Tokens \cup {None},
     todo : SUBSET Tokens, before : SUBSET Tokens, at : UNION {Calls(op) : op \in DOMAIN Handler}]

ASSUME NoneAssumption == None \notin Requests

At(p, call) == request[p] # None /\ request[p].at = call

AtOneOf(p, calls) == request[p] # None /\ request[p].at \in calls

User(p) == request[p].user

(* On to the next call of the handler, or the response.                    *)
After(r) ==
    LET next == Handler[r.op][r.at]
    IN  IF next = "end" THEN None ELSE [r EXCEPT !.at = next]

Proceed(p) == request' = [request EXCEPT ![p] = After(@)]

ProceedWith(p, r) == request' = [request EXCEPT ![p] = After(r)]

GoTo(p, call) == request' = [request EXCEPT ![p].at = call]

Refuse(p) == request' = [request EXCEPT ![p] = None]

Fault == faults < MaxFaults /\ faults' = faults + 1

(* A call that only reads, and the test of what it returns.                *)
Check(p, call, passes) ==
    /\ At(p, call)
    /\ IF passes THEN Proceed(p) ELSE Refuse(p)
    /\ UNCHANGED <<stores, held, minted, history, renaming, counters>>

(* p will store a session for u: it has made the account or is past the    *)
(* check of the password or of the old token, and not yet past SADD.       *)
Creates(p, u) ==
    /\ AtOneOf(p, {"insert_settings", "clear_failures", "delete_key", "unlist_key", "set_key",
                   "list_key"})
    /\ User(p) = u

(* p revokes what SMEMBERS returned of u's tokens.                         *)
Revokes(p, u) == AtOneOf(p, {"delete_keys", "delete_list"}) /\ User(p) = u

(* Some users have an account, and some of them one session each.          *)
Init ==
    /\ accounts \in [Users -> {"none", "active"}]
    /\ settings = {u \in Users : accounts[u] = "active"}
    /\ sessions \in [Tokens -> {None} \cup settings]
    /\ user_sessions = [u \in Users |-> {t \in Tokens : sessions[t] = u}]
    /\ \A u \in Users : Cardinality(user_sessions[u]) <= 1
    /\ held = user_sessions
    /\ minted = UNION {held[u] : u \in Users}
    /\ ip_fail = 0 /\ ip_block = "none" /\ guesses = 0
    /\ username_change = [u \in Users |-> 0] /\ renames = [u \in Users |-> 0]
    /\ request = [p \in Slots |-> None]
    /\ dead = {} /\ closed = {} /\ straddled = {} /\ replayed = {}
    /\ successors = [t \in Tokens |-> 0]
    /\ started = 0 /\ faults = 0

-----------------------------------------------------------------------------
(* Registration.                                                           *)

IsFree(p) == Check(p, "is_free", accounts[User(p)] = "none")

(* Username and email are UNIQUE.                                          *)
InsertUser(p) ==
    /\ At(p, "insert_user")
    /\ IF accounts[User(p)] = "none"
       THEN accounts' = [accounts EXCEPT ![User(p)] = "active"] /\ Proceed(p)
       ELSE UNCHANGED accounts /\ Refuse(p)
    /\ UNCHANGED <<settings, sessions, user_sessions, ip_fail, ip_block, held, minted, history,
                   renaming, counters>>

InsertSettings(p) ==
    /\ At(p, "insert_settings")
    /\ settings' = settings \cup {User(p)}
    /\ Proceed(p)
    /\ UNCHANGED <<accounts, sessions, user_sessions, ip_fail, ip_block, held, minted, history,
                   renaming, counters>>

-----------------------------------------------------------------------------
(* Logging in.                                                             *)

NotBlocked(p) == Check(p, "not_blocked", ip_block = "none")

(* The row of the user, and the password: wrong, or there is no such user, *)
(* or right.                                                               *)
FindUser(p) ==
    /\ At(p, "find_user")
    /\ \/ /\ accounts[User(p)] = "active"
          /\ Proceed(p)
          /\ straddled' = IF \E q \in Slots : Revokes(q, User(p))
                          THEN straddled \cup {User(p)} ELSE straddled
          /\ UNCHANGED guesses
       \/ /\ GoTo(p, "record_failure")
          /\ guesses' = guesses + 1
          /\ UNCHANGED straddled
    /\ UNCHANGED <<stores, held, minted, dead, closed, replayed, successors,
                   renaming, counters>>

TooMany(count) == count >= LoginFailMax

(* INCR, and EXPIRE for the first, in one script; an error is ignored.     *)
RecordFailure(p) ==
    /\ At(p, "record_failure")
    /\ \/ /\ ip_fail' = ip_fail + 1
          /\ ip_block' = IF ip_fail = 0 /\ ip_block = "after" THEN "before" ELSE ip_block
          /\ IF TooMany(ip_fail + 1) THEN GoTo(p, "block") ELSE Refuse(p)
          /\ UNCHANGED faults
       \/ Fault /\ Refuse(p) /\ UNCHANGED <<ip_fail, ip_block>>
    /\ UNCHANGED <<accounts, settings, sessions, user_sessions, held, minted, history,
                   renaming, started>>

(* SET ip_block:<ip> EX; an error is ignored.                              *)
Block(p) ==
    /\ At(p, "block")
    /\ \/ ip_block' = "after" /\ UNCHANGED faults
       \/ Fault /\ UNCHANGED ip_block
    /\ Refuse(p)
    /\ UNCHANGED <<accounts, settings, sessions, user_sessions, ip_fail, held, minted, history,
                   renaming, started>>

(* DEL ip_fail:<ip>; an error is ignored.                                  *)
ClearFailures(p) ==
    /\ At(p, "clear_failures")
    /\ \/ ip_fail' = 0 /\ guesses' = 0 /\ UNCHANGED faults
       \/ Fault /\ UNCHANGED <<ip_fail, guesses>>
    /\ Proceed(p)
    /\ UNCHANGED <<accounts, settings, sessions, user_sessions, ip_block, held, minted, dead,
                   closed, straddled, replayed, successors, renaming, started>>

(* Both keys live as long, from the first failure and from the last block. *)
ExpireFailures ==
    /\ ip_fail > 0
    /\ ip_fail' = 0 /\ guesses' = 0
    /\ UNCHANGED <<accounts, settings, sessions, user_sessions, ip_block, request, held, minted,
                   dead, closed, straddled, replayed, successors, renaming, counters>>

ExpireBlock ==
    /\ ip_block = "before" \/ (ip_block = "after" /\ ip_fail = 0)
    /\ ip_block' = "none"
    /\ UNCHANGED <<accounts, settings, sessions, user_sessions, ip_fail, request, held, minted,
                   history, renaming, counters>>

-----------------------------------------------------------------------------
(* Sessions.                                                               *)

(* get_session; the claims of the token have been verified.                *)
GetKey(p) ==
    LET t == request[p].old
    IN  /\ At(p, "get_key")
        /\ IF sessions[t] # None
           THEN /\ Proceed(p)
                /\ straddled' = IF \E q \in Slots : Revokes(q, User(p))
                                THEN straddled \cup {User(p)} ELSE straddled
                /\ replayed' = IF \E q \in Slots \ {p} :
                                     At(q, "delete_key") /\ request[q].old = t
                               THEN replayed \cup {t} ELSE replayed
           ELSE Refuse(p) /\ UNCHANGED <<straddled, replayed>>
        /\ UNCHANGED <<stores, held, minted, dead, closed, successors, guesses,
                       renaming, counters>>

(* revoke_session: DEL refresh:<jti> ...                                   *)
DeleteKey(p) ==
    /\ At(p, "delete_key")
    /\ sessions' = [sessions EXCEPT ![request[p].old] = None]
    /\ Proceed(p)
    /\ UNCHANGED <<accounts, settings, user_sessions, ip_fail, ip_block, held, minted, history,
                   renaming, counters>>

(* ... and SREM user_sessions:<user>.                                      *)
UnlistKey(p) ==
    /\ At(p, "unlist_key")
    /\ user_sessions' = [user_sessions EXCEPT ![User(p)] = @ \ {request[p].old}]
    /\ Proceed(p)
    /\ UNCHANGED <<accounts, settings, sessions, ip_fail, ip_block, held, minted, history,
                   renaming, counters>>

(* create_session for a new jti: SETEX refresh:<jti> ...                   *)
SetKey(p) ==
    /\ At(p, "set_key")
    /\ \E t \in Tokens \ minted :
          /\ minted' = minted \cup {t}
          /\ sessions' = [sessions EXCEPT ![t] = User(p)]
          /\ ProceedWith(p, [request[p] EXCEPT !.new = t])
    /\ UNCHANGED <<accounts, settings, user_sessions, ip_fail, ip_block, held, history,
                   renaming, counters>>

(* ... and SADD user_sessions:<user>, after which the client is answered.  *)
ListKey(p) ==
    LET t == request[p].new
    IN  /\ At(p, "list_key")
        /\ user_sessions' = [user_sessions EXCEPT ![User(p)] = @ \cup {t}]
        /\ held' = [held EXCEPT ![User(p)] = @ \cup {t}]
        /\ successors' = IF request[p].op = "refresh"
                         THEN [successors EXCEPT ![request[p].old] = @ + 1] ELSE successors
        /\ Proceed(p)
        /\ UNCHANGED <<accounts, settings, sessions, ip_fail, ip_block, minted, dead, closed,
                       straddled, replayed, guesses, renaming, counters>>

(* The key of a session has the lifetime of its token.                     *)
Expire(t) ==
    /\ sessions[t] # None
    /\ sessions' = [sessions EXCEPT ![t] = None]
    /\ UNCHANGED <<accounts, settings, user_sessions, ip_fail, ip_block, request, held, minted,
                   history, renaming, counters>>

-----------------------------------------------------------------------------
(* revoke_all_sessions: SMEMBERS ...                                       *)
ReadList(p) ==
    /\ At(p, "read_list")
    /\ ProceedWith(p, [request[p] EXCEPT !.todo = user_sessions[User(p)]])
    /\ straddled' = IF \E q \in Slots : Creates(q, User(p))
                    THEN straddled \cup {User(p)} ELSE straddled
    /\ UNCHANGED <<stores, held, minted, dead, closed, replayed, successors, guesses,
                   renaming, counters>>

(* ... a DEL for each ...                                                  *)
DeleteEach(p) ==
    LET todo == request[p].todo
    IN  /\ At(p, "delete_keys")
        /\ IF todo = {}
           THEN Proceed(p) /\ UNCHANGED sessions
           ELSE \E t \in todo :
                   /\ sessions' = [sessions EXCEPT ![t] = None]
                   /\ request' = [request EXCEPT ![p].todo = todo \ {t}]
        /\ UNCHANGED <<accounts, settings, user_sessions, ip_fail, ip_block, held, minted,
                       history, renaming, counters>>

(* ... and a DEL of the set.                                               *)
DeleteList(p) ==
    /\ At(p, "delete_list")
    /\ user_sessions' = [user_sessions EXCEPT ![User(p)] = {}]
    /\ Proceed(p)
    /\ dead' = dead \cup request[p].before
    /\ closed' = IF request[p].op = "delete_me" THEN closed \cup {User(p)} ELSE closed
    /\ UNCHANGED <<accounts, settings, sessions, ip_fail, ip_block, held, minted, straddled,
                   replayed, successors, guesses, renaming, counters>>

(* delete_me: the row of an active account, and its password.              *)
VerifyPassword(p) ==
    /\ At(p, "verify_password")
    /\ (accounts[User(p)] = "active" /\ Proceed(p)) \/ Refuse(p)
    /\ UNCHANGED <<stores, held, minted, history, renaming, counters>>

(* Servers are not state here: the user may own one.                       *)
OwnsNone(p) ==
    /\ At(p, "owns_none")
    /\ Proceed(p) \/ Refuse(p)
    /\ UNCHANGED <<stores, held, minted, history, renaming, counters>>

SoftDelete(p) ==
    /\ At(p, "soft_delete")
    /\ accounts' = [accounts EXCEPT ![User(p)] = "deleted"]
    /\ Proceed(p)
    /\ UNCHANGED <<settings, sessions, user_sessions, ip_fail, ip_block, held, minted, history,
                   renaming, counters>>

-----------------------------------------------------------------------------
(* Changing the username.                                                  *)

(* INCR, and EXPIRE for the first, in one script: what is refused later    *)
(* counts too, and an error counts as no change.                           *)
CountChange(p) ==
    LET count == username_change[User(p)] + 1
    IN  /\ At(p, "count_change")
        /\ \/ /\ username_change' = [username_change EXCEPT ![User(p)] = count]
              /\ IF count > ChangeMax THEN Refuse(p) ELSE Proceed(p)
              /\ UNCHANGED faults
           \/ Fault /\ Proceed(p) /\ UNCHANGED username_change
        /\ UNCHANGED <<stores, held, minted, history, renames, started>>

(* Names are not state here: another user may have it.                     *)
NameIsFree(p) ==
    /\ At(p, "name_is_free")
    /\ Proceed(p) \/ Refuse(p)
    /\ UNCHANGED <<stores, held, minted, history, renaming, counters>>

(* UPDATE users ... WHERE deleted_at IS NULL; that another user has taken  *)
(* the name by now, which is UNIQUE, is a statement that fails.            *)
UpdateUser(p) ==
    /\ At(p, "update_user")
    /\ renames' = IF accounts[User(p)] = "active"
                  THEN [renames EXCEPT ![User(p)] = @ + 1] ELSE renames
    /\ Proceed(p)
    /\ UNCHANGED <<stores, held, minted, history, username_change, counters>>

ExpireChanges(u) ==
    /\ username_change[u] > 0
    /\ username_change' = [username_change EXCEPT ![u] = 0]
    /\ renames' = [renames EXCEPT ![u] = 0]
    /\ UNCHANGED <<stores, request, held, minted, history, counters>>

-----------------------------------------------------------------------------
(* A request arrives.  A refresh shows a token its user was given; logging *)
(* out, deletion and a change take an access token, which came with a      *)
(* refresh token.                                                          *)
May(op, u, t) ==
    CASE op = "refresh"             -> t \in held[u]
      [] op \in {"register", "login"} -> t = None
      [] OTHER                      -> t = None /\ held[u] # {}

Start(p) ==
    /\ request[p] = None
    /\ started < MaxRequests
    /\ started' = started + 1
    /\ \E op \in DOMAIN Handler, u \in Users, t \in Tokens \cup {None} :
          /\ May(op, u, t)
          /\ request' = [request EXCEPT ![p] =
                [op |-> op, user |-> u, old |-> t, new |-> None, todo |-> {},
                 before |-> held[u], at |-> Handler[op].start]]
    /\ UNCHANGED <<stores, held, minted, history, renaming, faults>>

(* A call fails whose error the handler returns, or the client goes away   *)
(* and the handler is dropped where it waits.                              *)
Fail(p) ==
    /\ request[p] # None
    /\ Fault
    /\ Refuse(p)
    /\ UNCHANGED <<stores, held, minted, history, renaming, started>>

Serves(p) ==
    \/ IsFree(p) \/ InsertUser(p) \/ InsertSettings(p)
    \/ NotBlocked(p) \/ FindUser(p) \/ RecordFailure(p) \/ Block(p) \/ ClearFailures(p)
    \/ GetKey(p) \/ DeleteKey(p) \/ UnlistKey(p) \/ SetKey(p) \/ ListKey(p)
    \/ ReadList(p) \/ DeleteEach(p) \/ DeleteList(p)
    \/ VerifyPassword(p) \/ OwnsNone(p) \/ SoftDelete(p)
    \/ CountChange(p) \/ NameIsFree(p) \/ UpdateUser(p)

Next ==
    \/ \E p \in Slots : Start(p) \/ Serves(p) \/ Fail(p)
    \/ \E t \in Tokens : Expire(t)
    \/ \E u \in Users : ExpireChanges(u)
    \/ ExpireFailures \/ ExpireBlock

Spec == Init /\ [][Next]_vars
-----------------------------------------------------------------------------
(* Properties.                                                             *)

(* Types; a token belongs to one user, in the keys, in the sets and with   *)
(* the clients.                                                            *)
TypeOK ==
    /\ accounts \in [Users -> {"none", "active", "deleted"}]
    /\ settings \subseteq Users
    /\ sessions \in [Tokens -> Users \cup {None}]
    /\ user_sessions \in [Users -> SUBSET minted]
    /\ ip_fail \in Nat /\ guesses \in Nat
    /\ username_change \in [Users -> Nat] /\ renames \in [Users -> Nat]
    /\ ip_block \in {"none", "before", "after"}
    /\ held \in [Users -> SUBSET minted]
    /\ minted \subseteq Tokens /\ dead \subseteq minted /\ replayed \subseteq minted
    /\ closed \subseteq Users /\ straddled \subseteq Users
    /\ successors \in [Tokens -> Nat]
    /\ started \in 0 .. MaxRequests /\ faults \in 0 .. MaxFaults
    /\ request \in [Slots -> Requests \cup {None}]
    /\ \A p \in Slots : request[p] # None =>
          /\ request[p].at \in Calls(request[p].op)
          /\ request[p].todo \cup request[p].before \subseteq minted
    /\ \A u \in Users : \A t \in held[u] \cup user_sessions[u] : sessions[t] \in {u, None}

Live(u) == {t \in Tokens : sessions[t] = u}

(* Once a logout or a deletion has answered, no token the user held before *)
(* it is good, and none at all after a deletion; and what is still good is *)
(* in the user's set, where the next revocation finds it.  Unless a login  *)
(* or a refresh was under way past its check when the tokens were read:    *)
(* between SMEMBERS and DEL a new one is lost from the set, and no logout  *)
(* ends it.                                                                *)
RevokedStayOut ==
    \A u \in Users \ straddled :
        /\ held[u] \cap dead \cap Live(u) = {}
        /\ u \in closed => held[u] \cap Live(u) = {}
        /\ held[u] \cap Live(u) \subseteq user_sessions[u]

(* Rotation: a refresh token is exchanged once, unless two refreshes have  *)
(* both read its session before either deleted it.                         *)
RotatedOnce == \A t \in Tokens \ replayed : successors[t] <= 1

(* Counters that expire, and whose errors are ignored.  At most            *)
(* LOGIN_FAIL_MAX wrong passwords are tried before the address is blocked, *)
(* but for the requests already past the check and for failures that Redis *)
(* did not count.  A username is changed ChangeMax times before its        *)
(* counter expires, but for the changes it did not count and those counted *)
(* before it last expired and made after.                                  *)
AttemptsBounded ==
    /\ guesses < LoginFailMax + Cardinality(Slots) + faults
    /\ \A u \in Users : renames[u] <= ChangeMax + Cardinality(Slots) + faults
=============================================================================
