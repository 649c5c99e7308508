------------------------- MODULE AuthSessionsProofs -------------------------
(***************************************************************************)
(* What the handlers of accounts and sessions keep true however their      *)
(* calls interleave and fail, for any number of users, tokens and requests *)
(* and any limits.                                                         *)
(***************************************************************************)
EXTENDS AuthSessions, FiniteSetTheorems, TLAPS

-----------------------------------------------------------------------------
(* The inductive invariants.                                               *)

(* A request refreshes a token of its own user, and revokes those that     *)
(* user had been given when it came; the token it is about to hand out is  *)
(* of its user and with nobody yet.                                        *)
OwnTokens ==
    /\ \A p \in Slots : request[p] # None =>
          LET r == request[p]
          IN  /\ r.op = "refresh" => r.old \in held[r.user]
              /\ r.before \subseteq held[r.user]
              /\ r.at = "list_key" =>
                    /\ r.new \in minted
                    /\ sessions[r.new] \in {r.user, None}
                    /\ \A u \in Users : r.new \notin held[u]
    /\ \A p, q \in Slots : At(p, "list_key") /\ At(q, "list_key") /\ p # q =>
          request[p].new # request[q].new
    /\ \A t \in dead : \E u \in Users : t \in held[u]

(* Two refreshes of one token are past the look at its session together    *)
(* only where both read it; once one has deleted it, it stays deleted.     *)
Exchanging(p, t) ==
    /\ AtOneOf(p, {"unlist_key", "set_key", "list_key"})
    /\ request[p].op = "refresh" /\ request[p].old = t

Exchanges(p, t) ==
    \/ At(p, "delete_key") /\ request[p].old = t
    \/ Exchanging(p, t)

ExchangedOnce ==
    \A t \in Tokens :
        /\ successors[t] # 0 => t \in minted /\ sessions[t] = None
        /\ \A p \in Slots : Exchanging(p, t) => sessions[t] = None
        /\ t \notin replayed => \A p, q \in Slots :
              /\ Exchanges(p, t) => successors[t] = 0
              /\ Exchanges(p, t) /\ Exchanges(q, t) => p = q

(* Whoever has a token, or is about to, has an account; an account whose   *)
(* deletion revokes or has revoked its tokens is a deleted one.            *)
Revoking == {"logout", "logout_all", "delete_me"}

Registered ==
    /\ \A u \in Users : held[u] # {} => accounts[u] # "none"
    /\ \A p \in Slots, u \in Users : Creates(p, u) => accounts[u] # "none"
    /\ \A p \in Slots : request[p] # None /\ request[p].op \in Revoking =>
          accounts[User(p)] # "none"
    /\ \A p \in Slots :
          AtOneOf(p, {"read_list", "delete_keys", "delete_list"})
             /\ request[p].op = "delete_me" => accounts[User(p)] = "deleted"
    /\ \A u \in closed : accounts[u] = "deleted"

(* The key of every token SMEMBERS returned is gone before the set is.      *)
KeysBeforeList == \A p \in Slots : At(p, "delete_list") => request[p].todo = {}

(* Of a user nobody straddles, no session is made while tokens are being   *)
(* revoked or after a deletion, and those being revoked are all there are. *)
RevocationsAlone ==
    \A u \in Users \ straddled :
        /\ \A p, q \in Slots : Revokes(p, u) => ~Creates(q, u)
        /\ \A p \in Slots : Revokes(p, u) =>
              held[u] \cap Live(u) \subseteq request[p].todo
        /\ u \in closed => \A p \in Slots : ~Creates(p, u)

(* Wrong passwords are counted, are on their way to being counted, or met  *)
(* a Redis that failed.                                                    *)
Recording == {p \in Slots : At(p, "record_failure")}
Failing   == {p \in Slots : AtOneOf(p, {"record_failure", "block"})}
Trying    == {p \in Slots : At(p, "find_user")}

GuessesCounted ==
    /\ guesses <= ip_fail + Cardinality(Recording) + faults
    /\ IF ip_block = "after"
       THEN guesses + Cardinality(Trying) < LoginFailMax + Cardinality(Slots) + faults
       ELSE guesses < LoginFailMax + Cardinality(Failing) + faults

(* So are changes of a name, but for those allowed by an earlier count.    *)
Renaming(u) == {p \in Slots : AtOneOf(p, {"name_is_free", "update_user"}) /\ User(p) = u}

RenamesCounted ==
    \A u \in Users :
        LET allowed == renames[u] + Cardinality(Renaming(u))
        IN  /\ allowed <= username_change[u] + Cardinality(Slots) + faults
            /\ allowed <= ChangeMax + Cardinality(Slots) + faults

-----------------------------------------------------------------------------
(* The calls in their order.                                               *)

(* The operations there are.                                               *)
LEMMA Operations ==
    DOMAIN Handler = {"register", "login", "refresh", "logout", "logout_all",
                      "delete_me", "update_me"}
  BY DEF Handler

(* The calls of each.                                                      *)
LEMMA CallsOf ==
    /\ Calls("register") = {"is_free", "insert_user", "insert_settings", "set_key", "list_key"}
    /\ Calls("login") = {"not_blocked", "find_user", "clear_failures", "set_key", "list_key",
                         "record_failure", "block"}
    /\ Calls("refresh") = {"get_key", "delete_key", "unlist_key", "set_key", "list_key"}
    /\ Calls("logout") = {"read_list", "delete_keys", "delete_list"}
    /\ Calls("logout_all") = {"read_list", "delete_keys", "delete_list"}
    /\ Calls("delete_me") = {"verify_password", "owns_none", "soft_delete", "read_list",
                             "delete_keys", "delete_list"}
    /\ Calls("update_me") = {"count_change", "name_is_free", "update_user"}
  BY DEF Calls, Handler, register, login, refresh, logout, delete_me, update_me

(* The call after each, whichever operation it is part of.                 *)
LEMMA NextCall ==
    ASSUME NEW op \in DOMAIN Handler, NEW at \in Calls(op)
    PROVE  /\ at = "is_free"         => Handler[op][at] = "insert_user"
           /\ at = "insert_user"     => Handler[op][at] = "insert_settings"
           /\ at = "insert_settings" => Handler[op][at] = "set_key"
           /\ at = "not_blocked"     => Handler[op][at] = "find_user"
           /\ at = "find_user"       => Handler[op][at] = "clear_failures"
           /\ at = "clear_failures"  => Handler[op][at] = "set_key"
           /\ at = "record_failure"  => Handler[op][at] = "block"
           /\ at = "block"           => Handler[op][at] = "end"
           /\ at = "get_key"         => Handler[op][at] = "delete_key"
           /\ at = "delete_key"      => Handler[op][at] = "unlist_key"
           /\ at = "unlist_key"      => Handler[op][at] = "set_key"
           /\ at = "set_key"         => Handler[op][at] = "list_key"
           /\ at = "list_key"        => Handler[op][at] = "end"
           /\ at = "read_list"       => Handler[op][at] = "delete_keys"
           /\ at = "delete_keys"     => Handler[op][at] = "delete_list"
           /\ at = "delete_list"     => Handler[op][at] = "end"
           /\ at = "verify_password" => Handler[op][at] = "owns_none"
           /\ at = "owns_none"       => Handler[op][at] = "soft_delete"
           /\ at = "soft_delete"     => Handler[op][at] = "read_list"
           /\ at = "count_change"    => Handler[op][at] = "name_is_free"
           /\ at = "name_is_free"    => Handler[op][at] = "update_user"
           /\ at = "update_user"     => Handler[op][at] = "end"
  <1>1. CASE op = "register"
    BY <1>1, CallsOf DEF Handler, register
  <1>2. CASE op = "login"
    BY <1>2, CallsOf DEF Handler, login
  <1>3. CASE op = "refresh"
    BY <1>3, CallsOf DEF Handler, refresh
  <1>4. CASE op \in {"logout", "logout_all"}
    BY <1>4, CallsOf DEF Handler, logout
  <1>5. CASE op = "delete_me"
    BY <1>5, CallsOf DEF Handler, delete_me
  <1>6. CASE op = "update_me"
    BY <1>6, CallsOf DEF Handler, update_me
  <1>7. QED
    BY <1>1, <1>2, <1>3, <1>4, <1>5, <1>6, Operations

(* An operation goes on to a call of its own.                              *)
LEMMA StaysCalled ==
    ASSUME NEW op \in DOMAIN Handler, NEW at \in Calls(op), Handler[op][at] # "end"
    PROVE  Handler[op][at] \in Calls(op)
  BY NextCall, CallsOf, Operations

(* Where each begins.                                                      *)
LEMMA FirstCall ==
    ASSUME NEW op \in DOMAIN Handler
    PROVE  /\ Handler[op].start \in Calls(op)
           /\ Handler[op].start \in {"is_free", "not_blocked", "get_key", "read_list",
                                     "verify_password", "count_change"}
           /\ op = "delete_me" => Handler[op].start = "verify_password"
  BY CallsOf, Operations DEF Handler, register, login, refresh, logout, delete_me, update_me

-----------------------------------------------------------------------------
(* The requests after a step.                                              *)

RequestsPlaced ==
    /\ request \in [Slots -> Requests \cup {None}]
    /\ \A p \in Slots : request[p] # None => request[p].at \in Calls(request[p].op)

(* What of a request never changes.                                        *)
Same(r, s) == r.op = s.op /\ r.user = s.user /\ r.old = s.old /\ r.before = s.before

(* The request of slot p is at call `from`, and goes on to a call of `to`  *)
(* or ends.                                                                *)
Takes(p, from, to) ==
    /\ request[p] # None /\ request[p].at = from
    /\ \A q \in Slots \ {p} : request'[q] = request[q]
    /\ request'[p] # None =>
          /\ Same(request'[p], request[p])
          /\ request'[p].at \in to
          /\ request'[p].new = request[p].new \/ from = "set_key"
          /\ request'[p].todo = request[p].todo \/ from \in {"read_list", "delete_keys"}

Moves(p, from, to) == Takes(p, from, to) /\ RequestsPlaced'

(* A request is at a call of its operation.                                *)
LEMMA Placed ==
    ASSUME RequestsPlaced, NEW p \in Slots, request[p] # None
    PROVE  /\ request[p] \in Requests
           /\ request[p].op \in DOMAIN Handler
           /\ request[p].at \in Calls(request[p].op)
  BY DEF RequestsPlaced, Requests

(* Moved to another call, it is a request still.                           *)
LEMMA AtField ==
    ASSUME NEW r \in Requests, NEW at \in Calls(r.op)
    PROVE  /\ [r EXCEPT !.at = at] \in Requests
           /\ [r EXCEPT !.at = at] # None
           /\ Same([r EXCEPT !.at = at], r)
           /\ [r EXCEPT !.at = at].at = at
           /\ [r EXCEPT !.at = at].new = r.new
           /\ [r EXCEPT !.at = at].todo = r.todo
  BY NoneAssumption DEF Requests, Same

(* After the call, with what the call put into the request.                *)
LEMMA Proceeding ==
    ASSUME RequestsPlaced, NEW p \in Slots, NEW from, NEW r, At(p, from),
           r \in Requests, Same(r, request[p]), r.at = from, ProceedWith(p, r)
    PROVE  /\ RequestsPlaced'
           /\ \A q \in Slots \ {p} : request'[q] = request[q]
           /\ request'[p] # None =>
                 /\ Same(request'[p], request[p])
                 /\ request'[p].at = Handler[request[p].op][from]
                 /\ request'[p].new = r.new
                 /\ request'[p].todo = r.todo
           /\ Handler[request[p].op][from] # "end" => request'[p] # None
  <1> DEFINE next == Handler[r.op][r.at]
  <1>1. r.op = request[p].op /\ r.op \in DOMAIN Handler /\ r.at \in Calls(r.op)
    BY Placed DEF At, Same
  <1>2. request' = [request EXCEPT ![p] = IF next = "end" THEN None ELSE [r EXCEPT !.at = next]]
    BY DEF ProceedWith, After
  <1>3. CASE next = "end"
    BY <1>1, <1>2, <1>3 DEF RequestsPlaced
  <1>4. CASE next # "end"
    <2>1. next \in Calls(r.op)
      BY <1>1, <1>4, StaysCalled
    <2> DEFINE s == [r EXCEPT !.at = next]
    <2>2. /\ s \in Requests /\ s # None /\ Same(s, r)
          /\ s.at = next /\ s.new = r.new /\ s.todo = r.todo
      BY <2>1, AtField
    <2>3. request' = [request EXCEPT ![p] = s]
      BY <1>2, <1>4
    <2>4. s.at \in Calls(s.op)
      BY <2>1, <2>2 DEF Same
    <2>5. Same(s, request[p]) /\ next = Handler[request[p].op][from]
      BY <1>1, <2>2 DEF Same
    <2> HIDE DEF s, next
    <2>6. QED
      BY <2>2, <2>3, <2>4, <2>5 DEF RequestsPlaced
  <1>5. QED
    BY <1>3, <1>4

(* A request that ends stays within whatever follows the call.             *)
LEMMA Refusing ==
    ASSUME RequestsPlaced, NEW p \in Slots, NEW from, NEW to, At(p, from), Refuse(p)
    PROVE  Moves(p, from, to)
  BY DEF Refuse, Moves, Takes, At, RequestsPlaced

(* A request that goes on changes only its call.                           *)
LEMMA Following ==
    ASSUME RequestsPlaced, NEW p \in Slots, NEW from, NEW to, At(p, from), Proceed(p),
           Handler[request[p].op][from] \in to \cup {"end"}
    PROVE  Moves(p, from, to) /\ (Handler[request[p].op][from] # "end" => request'[p] # None)
  <1>1. request[p] \in Requests /\ request[p].at = from /\ Same(request[p], request[p])
    BY Placed DEF At, Same
  <1>2. ProceedWith(p, request[p])
    BY DEF Proceed, ProceedWith, RequestsPlaced
  <1>3. Handler[request[p].op][from] = "end" => request'[p] = None
    BY <1>1, <1>2 DEF ProceedWith, After, RequestsPlaced
  <1>4. QED
    BY <1>1, <1>2, <1>3, Proceeding DEF Moves, Takes, At

(* A wrong password takes a login from its handler's order.                *)
LEMMA Leaving ==
    ASSUME RequestsPlaced, NEW p \in Slots, NEW from, NEW call, At(p, from), GoTo(p, call),
           from \in {"find_user", "record_failure"}, call \in {"record_failure", "block"}
    PROVE  Moves(p, from, {call}) /\ request'[p] # None
  <1> DEFINE r == request[p]
             s == [r EXCEPT !.at = call]
  <1>1. r \in Requests /\ r.op \in DOMAIN Handler /\ r.at \in Calls(r.op) /\ r.at = from
    BY Placed DEF At
  <1>2. call \in Calls(r.op)
    BY <1>1, CallsOf, Operations
  <1>3. /\ s \in Requests /\ s # None /\ Same(s, r)
        /\ s.at = call /\ s.new = r.new /\ s.todo = r.todo
    BY <1>1, <1>2, AtField
  <1>4. request' = [request EXCEPT ![p] = s]
    BY DEF GoTo
  <1>5. s.at \in Calls(s.op)
    BY <1>2, <1>3 DEF Same
  <1> HIDE DEF s
  <1>6. QED
    BY <1>3, <1>4, <1>5 DEF RequestsPlaced, Moves, Takes, At

(* Where each action takes the request of its slot.                        *)
LEMMA Registering ==
    ASSUME RequestsPlaced, NEW p \in Slots
    PROVE  /\ IsFree(p) => Moves(p, "is_free", {"insert_user"})
           /\ InsertUser(p) => Moves(p, "insert_user", {"insert_settings"})
           /\ InsertSettings(p) => Moves(p, "insert_settings", {"set_key"})
  <1>1. At(p, "is_free") => Handler[request[p].op]["is_free"] = "insert_user"
    BY Placed, NextCall DEF At
  <1>2. At(p, "insert_user") => Handler[request[p].op]["insert_user"] = "insert_settings"
    BY Placed, NextCall DEF At
  <1>3. At(p, "insert_settings") => Handler[request[p].op]["insert_settings"] = "set_key"
    BY Placed, NextCall DEF At
  <1>4. QED
    BY <1>1, <1>2, <1>3, Refusing, Following DEF IsFree, Check, InsertUser, InsertSettings

(* The same of logging in, where a wrong password is counted.              *)
LEMMA LoggingIn ==
    ASSUME RequestsPlaced, NEW p \in Slots
    PROVE  /\ NotBlocked(p) => Moves(p, "not_blocked", {"find_user"})
           /\ FindUser(p) =>
                 \/ Moves(p, "find_user", {"clear_failures"}) /\ guesses' = guesses
                 \/ /\ Moves(p, "find_user", {"record_failure"}) /\ request'[p] # None
                    /\ guesses' = guesses + 1 /\ straddled' = straddled
           /\ RecordFailure(p) => Moves(p, "record_failure", {"block"})
           /\ Block(p) => Moves(p, "block", {})
           /\ ClearFailures(p) => Moves(p, "clear_failures", {"set_key"})
  <1> DEFINE next == Handler[request[p].op][request[p].at]
  <1>1. /\ At(p, "not_blocked") => next = "find_user"
        /\ At(p, "find_user") => next = "clear_failures"
        /\ At(p, "clear_failures") => next = "set_key"
    BY Placed, NextCall DEF At
  <1>2. NotBlocked(p) => Moves(p, "not_blocked", {"find_user"})
    BY <1>1, Refusing, Following DEF NotBlocked, Check, At
  <1>3. ASSUME FindUser(p)
        PROVE  \/ Moves(p, "find_user", {"clear_failures"}) /\ guesses' = guesses
               \/ /\ Moves(p, "find_user", {"record_failure"}) /\ request'[p] # None
                  /\ guesses' = guesses + 1 /\ straddled' = straddled
    BY <1>1, <1>3, Following, Leaving DEF FindUser, At
  <1>4. RecordFailure(p) => Moves(p, "record_failure", {"block"})
    BY Refusing, Leaving DEF RecordFailure
  <1>5. Block(p) => Moves(p, "block", {})
    BY Refusing DEF Block
  <1>6. ClearFailures(p) => Moves(p, "clear_failures", {"set_key"})
    BY <1>1, Following DEF ClearFailures, At
  <1>7. QED
    BY <1>2, <1>3, <1>4, <1>5, <1>6

(* Of a refresh, and of the answer with the new token.                     *)
LEMMA Exchange ==
    ASSUME RequestsPlaced, NEW p \in Slots
    PROVE  /\ GetKey(p) => Moves(p, "get_key", {"delete_key"})
           /\ DeleteKey(p) => Moves(p, "delete_key", {"unlist_key"})
           /\ UnlistKey(p) => Moves(p, "unlist_key", {"set_key"})
           /\ ListKey(p) => Moves(p, "list_key", {}) /\ request'[p] = None
  <1> DEFINE next == Handler[request[p].op][request[p].at]
  <1>1. /\ At(p, "get_key") => next = "delete_key"
        /\ At(p, "delete_key") => next = "unlist_key"
        /\ At(p, "unlist_key") => next = "set_key"
        /\ At(p, "list_key") => next = "end"
    BY Placed, NextCall DEF At
  <1>2. GetKey(p) => Moves(p, "get_key", {"delete_key"})
    BY <1>1, Refusing, Following DEF GetKey, At
  <1>3. DeleteKey(p) => Moves(p, "delete_key", {"unlist_key"})
    BY <1>1, Following DEF DeleteKey, At
  <1>4. UnlistKey(p) => Moves(p, "unlist_key", {"set_key"})
    BY <1>1, Following DEF UnlistKey, At
  <1>5. ListKey(p) => Moves(p, "list_key", {})
    BY <1>1, Following DEF ListKey, At
  <1>6. QED
    BY <1>2, <1>3, <1>4, <1>5 DEF Moves, Takes, At

(* Of the new token.                                                       *)
LEMMA MakingKey ==
    ASSUME RequestsPlaced, NEW p \in Slots, SetKey(p)
    PROVE  \E t \in Tokens \ minted :
              /\ minted' = minted \cup {t}
              /\ sessions' = [sessions EXCEPT ![t] = User(p)]
              /\ Moves(p, "set_key", {"list_key"})
              /\ request'[p] # None => request'[p].new = t
  <1>1. At(p, "set_key")
    BY DEF SetKey
  <1>2. PICK t \in Tokens \ minted :
           /\ minted' = minted \cup {t}
           /\ sessions' = [sessions EXCEPT ![t] = User(p)]
           /\ ProceedWith(p, [request[p] EXCEPT !.new = t])
    BY DEF SetKey
  <1> DEFINE r == [request[p] EXCEPT !.new = t]
  <1>3. r \in Requests /\ Same(r, request[p]) /\ r.at = "set_key" /\ r.new = t
        /\ r.todo = request[p].todo
    BY <1>1, Placed DEF At, Same, Requests
  <1>4. Handler[request[p].op]["set_key"] = "list_key"
    BY <1>1, Placed, NextCall DEF At
  <1> HIDE DEF r
  <1>5. ProceedWith(p, r)
    BY <1>2 DEF r
  <1>6. Moves(p, "set_key", {"list_key"}) /\ (request'[p] # None => request'[p].new = t)
    BY <1>1, <1>3, <1>4, <1>5, Proceeding DEF Moves, Takes, At
  <1>7. QED
    BY <1>2, <1>6

(* Of SMEMBERS ...                                                         *)
LEMMA ReadingList ==
    ASSUME RequestsPlaced, TypeOK, NEW p \in Slots, ReadList(p)
    PROVE  /\ Moves(p, "read_list", {"delete_keys"})
           /\ request'[p] # None => request'[p].todo = user_sessions[User(p)]
  <1>1. At(p, "read_list")
    BY DEF ReadList
  <1> DEFINE r == [request[p] EXCEPT !.todo = user_sessions[User(p)]]
  <1>2. request[p] \in Requests /\ user_sessions[User(p)] \subseteq Tokens
    BY <1>1, Placed DEF At, User, Requests, TypeOK
  <1>3. r \in Requests /\ Same(r, request[p]) /\ r.at = "read_list"
        /\ r.new = request[p].new /\ r.todo = user_sessions[User(p)]
    BY <1>1, <1>2 DEF At, Same, Requests
  <1>4. Handler[request[p].op]["read_list"] = "delete_keys"
    BY <1>1, Placed, NextCall DEF At
  <1> HIDE DEF r
  <1>5. ProceedWith(p, r)
    BY DEF ReadList, r
  <1>6. QED
    BY <1>1, <1>3, <1>4, <1>5, Proceeding DEF Moves, Takes, At

(* ... and of each DEL.                                                    *)
LEMMA DeletingEach ==
    ASSUME RequestsPlaced, NEW p \in Slots, DeleteEach(p)
    PROVE  \/ /\ request[p].todo = {} /\ UNCHANGED sessions
              /\ Moves(p, "delete_keys", {"delete_list"})
              /\ request'[p] # None => request'[p].todo = {}
           \/ \E t \in request[p].todo :
                 /\ sessions' = [sessions EXCEPT ![t] = None]
                 /\ Moves(p, "delete_keys", {"delete_keys"})
                 /\ request'[p] # None => request'[p].todo = request[p].todo \ {t}
  <1>1. At(p, "delete_keys")
    BY DEF DeleteEach
  <1>2. CASE request[p].todo = {}
    <2>1. Handler[request[p].op]["delete_keys"] = "delete_list"
      BY <1>1, Placed, NextCall DEF At
    <2>2. request[p] \in Requests /\ request[p].at = "delete_keys" /\ Same(request[p], request[p])
      BY <1>1, Placed DEF At, Same
    <2>3. ProceedWith(p, request[p])
      BY <1>2 DEF DeleteEach, Proceed, ProceedWith, RequestsPlaced
    <2>4. QED
      BY <1>1, <1>2, <2>1, <2>2, <2>3, Proceeding DEF DeleteEach, Moves, Takes, At
  <1>3. CASE request[p].todo # {}
    <2>1. PICK t \in request[p].todo :
             /\ sessions' = [sessions EXCEPT ![t] = None]
             /\ request' = [request EXCEPT ![p].todo = request[p].todo \ {t}]
      BY <1>3 DEF DeleteEach
    <2> DEFINE s == [request[p] EXCEPT !.todo = request[p].todo \ {t}]
    <2>2. /\ s \in Requests /\ Same(s, request[p]) /\ s.at = request[p].at
          /\ s.new = request[p].new /\ s.todo = request[p].todo \ {t}
      BY <1>1, Placed DEF At, Same, Requests
    <2>3. request' = [request EXCEPT ![p] = s]
      BY <2>1
    <2>4. s.at \in Calls(s.op) /\ s.at = "delete_keys"
      BY <1>1, <2>2, Placed DEF Same, At
    <2> HIDE DEF s
    <2>5. Moves(p, "delete_keys", {"delete_keys"}) /\ request'[p] = s
      BY <1>1, <2>2, <2>3, <2>4 DEF RequestsPlaced, Moves, Takes, At
    <2>6. QED
      BY <2>1, <2>2, <2>5
  <1>4. QED
    BY <1>2, <1>3

(* Of the rest of a deletion.                                              *)
LEMMA Ending ==
    ASSUME RequestsPlaced, NEW p \in Slots
    PROVE  /\ DeleteList(p) => Moves(p, "delete_list", {}) /\ request'[p] = None
           /\ VerifyPassword(p) => Moves(p, "verify_password", {"owns_none"})
           /\ OwnsNone(p) => Moves(p, "owns_none", {"soft_delete"})
           /\ SoftDelete(p) => Moves(p, "soft_delete", {"read_list"})
  <1> DEFINE next == Handler[request[p].op][request[p].at]
  <1>1. /\ At(p, "delete_list") => next = "end"
        /\ At(p, "verify_password") => next = "owns_none"
        /\ At(p, "owns_none") => next = "soft_delete"
        /\ At(p, "soft_delete") => next = "read_list"
    BY Placed, NextCall DEF At
  <1>2. DeleteList(p) => Moves(p, "delete_list", {})
    BY <1>1, Following DEF DeleteList, At
  <1>3. VerifyPassword(p) => Moves(p, "verify_password", {"owns_none"})
    BY <1>1, Refusing, Following DEF VerifyPassword, At
  <1>4. OwnsNone(p) => Moves(p, "owns_none", {"soft_delete"})
    BY <1>1, Refusing, Following DEF OwnsNone, At
  <1>5. SoftDelete(p) => Moves(p, "soft_delete", {"read_list"})
    BY <1>1, Following DEF SoftDelete, At
  <1>6. QED
    BY <1>2, <1>3, <1>4, <1>5 DEF Moves, Takes, At

(* Of a change of the name.                                                *)
LEMMA ChangingName ==
    ASSUME RequestsPlaced, NEW p \in Slots
    PROVE  /\ CountChange(p) => Moves(p, "count_change", {"name_is_free"})
           /\ NameIsFree(p) => Moves(p, "name_is_free", {"update_user"})
           /\ UpdateUser(p) => Moves(p, "update_user", {}) /\ request'[p] = None
  <1> DEFINE next == Handler[request[p].op][request[p].at]
  <1>1. /\ At(p, "count_change") => next = "name_is_free"
        /\ At(p, "name_is_free") => next = "update_user"
        /\ At(p, "update_user") => next = "end"
    BY Placed, NextCall DEF At
  <1>2. CountChange(p) => Moves(p, "count_change", {"name_is_free"})
    BY <1>1, Refusing, Following DEF CountChange, At
  <1>3. NameIsFree(p) => Moves(p, "name_is_free", {"update_user"})
    BY <1>1, Refusing, Following DEF NameIsFree, At
  <1>4. UpdateUser(p) => Moves(p, "update_user", {})
    BY <1>1, Following DEF UpdateUser, At
  <1>5. QED
    BY <1>2, <1>3, <1>4 DEF Moves, Takes, At

(* A request that has just come.                                           *)
Comes(p) ==
    /\ RequestsPlaced'
    /\ request[p] = None /\ request'[p] # None
    /\ \A q \in Slots \ {p} : request'[q] = request[q]
    /\ LET r == request'[p]
       IN  /\ r.user \in Users
           /\ r.at \in {"is_free", "not_blocked", "get_key", "read_list",
                        "verify_password", "count_change"}
           /\ r.op = "delete_me" => r.at = "verify_password"
           /\ r.op = "refresh" => r.old \in held[r.user]
           /\ r.op \in Revoking => held[r.user] # {}
           /\ r.before = held[r.user]
           /\ r.todo = {}

(* Starting is coming.                                                     *)
LEMMA Coming ==
    ASSUME RequestsPlaced, TypeOK, NEW p \in Slots, Start(p)
    PROVE  Comes(p)
  <1>1. PICK op \in DOMAIN Handler, u \in Users, t \in Tokens \cup {None} :
           /\ May(op, u, t)
           /\ request' = [request EXCEPT ![p] =
                 [op |-> op, user |-> u, old |-> t, new |-> None, todo |-> {},
                  before |-> held[u], at |-> Handler[op].start]]
    BY DEF Start
  <1> DEFINE first == Handler[op].start
             r == [op |-> op, user |-> u, old |-> t, new |-> None, todo |-> {},
                   before |-> held[u], at |-> first]
  <1>2. /\ first \in Calls(op)
        /\ first \in {"is_free", "not_blocked", "get_key", "read_list",
                      "verify_password", "count_change"}
        /\ op = "delete_me" => first = "verify_password"
    BY FirstCall
  <1>3. held[u] \subseteq Tokens
    BY DEF TypeOK
  <1>4. /\ op = "refresh" => t \in held[u]
        /\ op \in Revoking => held[u] # {}
    BY <1>1 DEF May, Revoking
  <1> HIDE DEF first
  <1>5. r \in Requests /\ r # None
    BY <1>2, <1>3, NoneAssumption DEF Requests
  <1>6. request' = [request EXCEPT ![p] = r] /\ request[p] = None
    BY <1>1 DEF first, Start
  <1>7. QED
    BY <1>2, <1>4, <1>5, <1>6 DEF RequestsPlaced, Comes

(* A call that fails ends its request.                                     *)
LEMMA FailingMoves ==
    ASSUME RequestsPlaced, NEW p \in Slots, Fail(p)
    PROVE  Moves(p, request[p].at, {})
  BY Refusing DEF Fail, At

-----------------------------------------------------------------------------
(* Types.                                                                  *)

(* TypeOK places the requests, ...                                         *)
LEMMA PlacedByType == TypeOK => RequestsPlaced
  BY DEF TypeOK, RequestsPlaced

(* What TypeOK says of everything but the requests.                        *)
StoresTyped ==
    /\ accounts \in [Users -> {"none", "active", "deleted"}]
    /\ settings \subseteq Users
    /\ sessions \in [Tokens -> Users \cup {None}]
    /\ user_sessions \in [Users -> SUBSET minted]
    /\ ip_fail \in Nat /\ guesses \in Nat
    /\ username_change \in [Users -> Nat] /\ renames \in [Users -> Nat]
    /\ ip_block \in {"none", "before", "after"}
    /\ held \in [Users -> SUBSET minted]
    /\ minted \subseteq Tokens /\ dead \subseteq minted /\ replayed \subseteq minted
    /\ closed \subseteq Users /\ straddled \subseteq Users
    /\ successors \in [Tokens -> Nat]
    /\ started \in 0 .. MaxRequests /\ faults \in 0 .. MaxFaults
    /\ \A u \in Users : \A t \in held[u] \cup user_sessions[u] : sessions[t] \in {u, None}

(* ... and is that, StoresTyped, and that requests name minted tokens.     *)
LEMMA TypeParts ==
    TypeOK <=>
       /\ StoresTyped /\ RequestsPlaced
       /\ \A p \in Slots : request[p] # None =>
             request[p].todo \cup request[p].before \subseteq minted
  BY DEF TypeOK, StoresTyped, RequestsPlaced

(* What a request is made of.                                              *)
LEMMA Fields ==
    ASSUME RequestsPlaced, NEW p \in Slots, request[p] # None
    PROVE  /\ request[p].user \in Users
           /\ request[p].old \in Tokens \cup {None} /\ request[p].new \in Tokens \cup {None}
           /\ request[p].todo \subseteq Tokens /\ request[p].before \subseteq Tokens
           /\ request[p].op \in DOMAIN Handler
  BY DEF RequestsPlaced, Requests

(* Whose calls they are.                                                   *)
LEMMA CalledBy ==
    ASSUME RequestsPlaced, NEW p \in Slots, request[p] # None
    PROVE  /\ request[p].at \in {"get_key", "delete_key", "unlist_key"}
                 => request[p].op = "refresh"
           /\ request[p].at \in {"read_list", "delete_keys", "delete_list"}
                 => request[p].op \in Revoking
           /\ request[p].op = "refresh" => request[p].at
                 \in {"get_key", "delete_key", "unlist_key", "set_key", "list_key"}
           /\ request[p].op \in Revoking => request[p].at
                 \in {"verify_password", "owns_none", "soft_delete", "read_list",
                      "delete_keys", "delete_list"}
  BY Placed, CallsOf, Operations DEF Revoking

(* Every write is of the declared type, and a token stays with its user.   *)
LEMMA StoresStep ==
    ASSUME OwnTokens, StoresTyped, RequestsPlaced, [Next]_vars
    PROVE  StoresTyped'
  <1> USE DEF StoresTyped
  <1>1. ASSUME NEW p \in Slots, Start(p) PROVE StoresTyped'
    BY <1>1, ConstantsAssumption DEF Start, stores, history, renaming
  <1>2. ASSUME NEW p \in Slots, Fail(p) PROVE StoresTyped'
    BY <1>2, ConstantsAssumption DEF Fail, Fault, stores, history, renaming
  <1>3. ASSUME NEW p \in Slots, IsFree(p) PROVE StoresTyped'
    BY <1>3 DEF IsFree, Check, stores, history, renaming, counters
  <1>4. ASSUME NEW p \in Slots, InsertUser(p) PROVE StoresTyped'
    BY <1>4, Fields DEF InsertUser, At, User, stores, history, renaming, counters
  <1>5. ASSUME NEW p \in Slots, InsertSettings(p) PROVE StoresTyped'
    BY <1>5, Fields DEF InsertSettings, At, User, stores, history, renaming, counters
  <1>6. ASSUME NEW p \in Slots, NotBlocked(p) PROVE StoresTyped'
    BY <1>6 DEF NotBlocked, Check, stores, history, renaming, counters
  <1>7. ASSUME NEW p \in Slots, FindUser(p) PROVE StoresTyped'
    BY <1>7, Fields DEF FindUser, At, User, stores, history, renaming, counters
  <1>8. ASSUME NEW p \in Slots, RecordFailure(p) PROVE StoresTyped'
    BY <1>8, ConstantsAssumption DEF RecordFailure, Fault, stores, history, renaming, counters
  <1>9. ASSUME NEW p \in Slots, Block(p) PROVE StoresTyped'
    BY <1>9, ConstantsAssumption DEF Block, Fault, stores, history, renaming, counters
  <1>10. ASSUME NEW p \in Slots, ClearFailures(p) PROVE StoresTyped'
    BY <1>10, ConstantsAssumption DEF ClearFailures, Fault, stores, history, renaming, counters
  <1>11. ASSUME NEW p \in Slots, GetKey(p) PROVE StoresTyped'
    BY <1>11, Fields, CalledBy DEF GetKey, At, User, OwnTokens, stores, history, renaming,
       counters
  <1>12. ASSUME NEW p \in Slots, DeleteKey(p) PROVE StoresTyped'
    BY <1>12, Fields DEF DeleteKey, At, User, stores, history, renaming, counters
  <1>13. ASSUME NEW p \in Slots, UnlistKey(p) PROVE StoresTyped'
    BY <1>13, Fields DEF UnlistKey, At, User, stores, history, renaming, counters
  <1>14. ASSUME NEW p \in Slots, SetKey(p) PROVE StoresTyped'
    BY <1>14, Fields DEF SetKey, At, User, stores, history, renaming, counters
  <1>15. ASSUME NEW p \in Slots, ListKey(p) PROVE StoresTyped'
    BY <1>15, Fields DEF ListKey, At, User, OwnTokens, stores, history, renaming, counters
  <1>16. ASSUME NEW p \in Slots, ReadList(p) PROVE StoresTyped'
    BY <1>16, Fields DEF ReadList, At, User, stores, history, renaming, counters
  <1>17. ASSUME NEW p \in Slots, DeleteEach(p) PROVE StoresTyped'
    BY <1>17, Fields DEF DeleteEach, At, User, stores, history, renaming, counters
  <1>18. ASSUME NEW p \in Slots, DeleteList(p) PROVE StoresTyped'
    BY <1>18, Fields DEF DeleteList, At, User, OwnTokens, stores, history, renaming, counters
  <1>19. ASSUME NEW p \in Slots, VerifyPassword(p) PROVE StoresTyped'
    BY <1>19 DEF VerifyPassword, stores, history, renaming, counters
  <1>20. ASSUME NEW p \in Slots, OwnsNone(p) PROVE StoresTyped'
    BY <1>20 DEF OwnsNone, stores, history, renaming, counters
  <1>21. ASSUME NEW p \in Slots, SoftDelete(p) PROVE StoresTyped'
    BY <1>21, Fields DEF SoftDelete, At, User, stores, history, renaming, counters
  <1>22. ASSUME NEW p \in Slots, CountChange(p) PROVE StoresTyped'
    BY <1>22, ConstantsAssumption DEF CountChange, Fault, stores, history, renaming, counters
  <1>23. ASSUME NEW p \in Slots, NameIsFree(p) PROVE StoresTyped'
    BY <1>23 DEF NameIsFree, stores, history, renaming, counters
  <1>24. ASSUME NEW p \in Slots, UpdateUser(p) PROVE StoresTyped'
    BY <1>24, Fields DEF UpdateUser, At, User, stores, history, renaming, counters
  <1>25. ASSUME NEW t \in Tokens, Expire(t) PROVE StoresTyped'
    BY <1>25 DEF Expire, stores, history, renaming, counters
  <1>26. ASSUME NEW u \in Users, ExpireChanges(u) PROVE StoresTyped'
    BY <1>26 DEF ExpireChanges, stores, history, renaming, counters
  <1>27. ASSUME ExpireFailures PROVE StoresTyped'
    BY <1>27 DEF ExpireFailures, stores, history, renaming, counters
  <1>28. ASSUME ExpireBlock PROVE StoresTyped'
    BY <1>28 DEF ExpireBlock, stores, history, renaming, counters
  <1>29. CASE UNCHANGED vars
    BY <1>29 DEF vars, stores, history, renaming, counters
  <1>30. QED
    BY <1>1, <1>2, <1>3, <1>4, <1>5, <1>6, <1>7, <1>8, <1>9, <1>10, <1>11, <1>12, <1>13,
       <1>14, <1>15, <1>16, <1>17, <1>18, <1>19, <1>20, <1>21, <1>22, <1>23, <1>24, <1>25,
       <1>26, <1>27, <1>28, <1>29 DEF Next, Serves

-----------------------------------------------------------------------------
(* What the steps do to tokens and accounts.                               *)

tokens == <<accounts, sessions, user_sessions, held, minted, dead, closed, straddled,
            replayed, successors>>

(* A call of slot p that changes none of them, and leads to another whose  *)
(* place says nothing of them.                                             *)
Elsewhere(p) ==
    /\ UNCHANGED tokens
    /\ request[p] # None
    /\ \A q \in Slots \ {p} : request'[q] = request[q]
    /\ request'[p] # None =>
          /\ Same(request'[p], request[p])
          /\ request'[p].new = request[p].new /\ request'[p].todo = request[p].todo
          /\ request'[p].at \in {"insert_user", "find_user", "record_failure", "block",
                                 "owns_none", "soft_delete", "name_is_free", "update_user"}

Storing(p) ==
    \/ InsertUser(p) \/ InsertSettings(p) \/ FindUser(p) \/ ClearFailures(p)
    \/ GetKey(p) \/ DeleteKey(p) \/ UnlistKey(p) \/ SetKey(p) \/ ListKey(p)
    \/ ReadList(p) \/ DeleteEach(p) \/ DeleteList(p) \/ SoftDelete(p)

(* Effects: what a call does to the tokens, its guard and its move.        *)
LEMMA InsertUserEffect ==
    ASSUME RequestsPlaced, NEW p \in Slots, InsertUser(p)
    PROVE  /\ Takes(p, "insert_user", {"insert_settings"})
           /\ \/ UNCHANGED accounts /\ request'[p] = None
              \/ /\ accounts[User(p)] = "none"
                 /\ accounts' = [accounts EXCEPT ![User(p)] = "active"]
           /\ UNCHANGED <<sessions, user_sessions, held, minted, dead, closed, straddled,
                          replayed, successors>>
  BY Registering DEF InsertUser, Moves, Refuse, RequestsPlaced, history

(* The two calls after which a session is made.                            *)
LEMMA SettingsEffect ==
    ASSUME RequestsPlaced, NEW p \in Slots, InsertSettings(p) \/ ClearFailures(p)
    PROVE  /\ Takes(p, "insert_settings", {"set_key"}) \/ Takes(p, "clear_failures", {"set_key"})
           /\ UNCHANGED tokens
  BY Registering, LoggingIn DEF InsertSettings, ClearFailures, Moves, history, tokens

(* A right password, or none.                                              *)
LEMMA FindUserEffect ==
    ASSUME RequestsPlaced, NEW p \in Slots, FindUser(p)
    PROVE  \/ Elsewhere(p)
           \/ /\ Takes(p, "find_user", {"clear_failures"})
              /\ accounts[User(p)] = "active"
              /\ straddled' = IF \E q \in Slots : Revokes(q, User(p))
                              THEN straddled \cup {User(p)} ELSE straddled
              /\ UNCHANGED <<accounts, sessions, user_sessions, held, minted, dead, closed,
                             replayed, successors>>
  <1>1. At(p, "find_user")
    BY DEF FindUser
  <1>2. CASE GoTo(p, "record_failure") /\ straddled' = straddled
    <2>1. Takes(p, "find_user", {"record_failure"})
      BY <1>1, <1>2, Leaving DEF Moves
    <2>2. UNCHANGED tokens
      BY <1>2 DEF FindUser, stores, tokens
    <2>3. QED
      BY <2>1, <2>2 DEF Takes, Elsewhere
  <1>3. CASE /\ Proceed(p) /\ accounts[User(p)] = "active"
             /\ straddled' = IF \E q \in Slots : Revokes(q, User(p))
                             THEN straddled \cup {User(p)} ELSE straddled
    <2>1. Handler[request[p].op]["find_user"] = "clear_failures"
      BY <1>1, Placed, NextCall DEF At
    <2>2. Takes(p, "find_user", {"clear_failures"})
      BY <1>1, <1>3, <2>1, Following DEF Moves
    <2>3. QED
      BY <1>3, <2>2 DEF FindUser, stores
  <1>4. QED
    BY <1>2, <1>3 DEF FindUser

(* The token has a session, or the request is refused.                     *)
LEMMA GetKeyEffect ==
    ASSUME RequestsPlaced, NEW p \in Slots, GetKey(p)
    PROVE  \/ Elsewhere(p)
           \/ /\ Takes(p, "get_key", {"delete_key"}) /\ request[p].op = "refresh"
              /\ sessions[request[p].old] # None
              /\ straddled' = IF \E q \in Slots : Revokes(q, User(p))
                              THEN straddled \cup {User(p)} ELSE straddled
              /\ replayed' = IF \E q \in Slots \ {p} :
                                  At(q, "delete_key") /\ request[q].old = request[p].old
                             THEN replayed \cup {request[p].old} ELSE replayed
              /\ UNCHANGED <<accounts, sessions, user_sessions, held, minted, dead, closed,
                             successors>>
  <1>1. At(p, "get_key") /\ request[p].op = "refresh" /\ Takes(p, "get_key", {"delete_key"})
    BY Exchange, CalledBy DEF GetKey, At, Moves
  <1>2. CASE sessions[request[p].old] # None
    BY <1>1, <1>2 DEF GetKey, stores
  <1>3. CASE sessions[request[p].old] = None
    <2>1. request'[p] = None
      BY <1>3 DEF GetKey, Refuse, RequestsPlaced
    <2>2. UNCHANGED tokens
      BY <1>3 DEF GetKey, stores, tokens
    <2>3. QED
      BY <1>1, <2>1, <2>2 DEF Elsewhere, Takes
  <1>4. QED
    BY <1>2, <1>3

(* DEL.                                                                    *)
LEMMA DeleteKeyEffect ==
    ASSUME RequestsPlaced, NEW p \in Slots, DeleteKey(p)
    PROVE  /\ Takes(p, "delete_key", {"unlist_key"}) /\ request[p].op = "refresh"
           /\ sessions' = [sessions EXCEPT ![request[p].old] = None]
           /\ UNCHANGED <<accounts, user_sessions, held, minted, dead, closed, straddled,
                          replayed, successors>>
  BY Exchange, CalledBy DEF DeleteKey, Moves, At, history

(* SREM.                                                                   *)
LEMMA UnlistKeyEffect ==
    ASSUME RequestsPlaced, NEW p \in Slots, UnlistKey(p)
    PROVE  /\ Takes(p, "unlist_key", {"set_key"}) /\ request[p].op = "refresh"
           /\ user_sessions' = [user_sessions EXCEPT ![User(p)] = @ \ {request[p].old}]
           /\ UNCHANGED <<accounts, sessions, held, minted, dead, closed, straddled,
                          replayed, successors>>
  BY Exchange, CalledBy DEF UnlistKey, Moves, At, history

(* SETEX.                                                                  *)
LEMMA SetKeyEffect ==
    ASSUME RequestsPlaced, NEW p \in Slots, SetKey(p)
    PROVE  \E t \in Tokens \ minted :
              /\ Takes(p, "set_key", {"list_key"})
              /\ request'[p] # None => request'[p].new = t
              /\ minted' = minted \cup {t}
              /\ sessions' = [sessions EXCEPT ![t] = User(p)]
              /\ UNCHANGED <<accounts, user_sessions, held, dead, closed, straddled,
                             replayed, successors>>
  BY MakingKey DEF SetKey, Moves, history

(* SADD.                                                                   *)
LEMMA ListKeyEffect ==
    ASSUME RequestsPlaced, NEW p \in Slots, ListKey(p)
    PROVE  /\ Takes(p, "list_key", {}) /\ request'[p] = None
           /\ user_sessions' = [user_sessions EXCEPT ![User(p)] = @ \cup {request[p].new}]
           /\ held' = [held EXCEPT ![User(p)] = @ \cup {request[p].new}]
           /\ successors' = IF request[p].op = "refresh"
                            THEN [successors EXCEPT ![request[p].old] = @ + 1] ELSE successors
           /\ UNCHANGED <<accounts, sessions, minted, dead, closed, straddled, replayed>>
  BY Exchange DEF ListKey, Moves

(* SMEMBERS.                                                               *)
LEMMA ReadListEffect ==
    ASSUME TypeOK, RequestsPlaced, NEW p \in Slots, ReadList(p)
    PROVE  /\ Takes(p, "read_list", {"delete_keys"}) /\ request[p].op \in Revoking
           /\ request'[p] # None => request'[p].todo = user_sessions[User(p)]
           /\ straddled' = IF \E q \in Slots : Creates(q, User(p))
                           THEN straddled \cup {User(p)} ELSE straddled
           /\ UNCHANGED <<accounts, sessions, user_sessions, held, minted, dead, closed,
                          replayed, successors>>
  BY ReadingList, CalledBy DEF ReadList, Moves, At, stores

(* Each DEL.                                                               *)
LEMMA DeleteEachEffect ==
    ASSUME RequestsPlaced, NEW p \in Slots, DeleteEach(p)
    PROVE  /\ \/ /\ Takes(p, "delete_keys", {"delete_list"}) /\ UNCHANGED sessions
                 /\ request[p].todo = {} /\ (request'[p] # None => request'[p].todo = {})
              \/ \E t \in request[p].todo :
                    /\ Takes(p, "delete_keys", {"delete_keys"})
                    /\ sessions' = [sessions EXCEPT ![t] = None]
                    /\ request'[p] # None => request'[p].todo = request[p].todo \ {t}
           /\ request[p].op \in Revoking
           /\ UNCHANGED <<accounts, user_sessions, held, minted, dead, closed, straddled,
                          replayed, successors>>
  <1>1. request[p].op \in Revoking
    BY CalledBy DEF DeleteEach, At
  <1>2. UNCHANGED <<accounts, user_sessions, held, minted, dead, closed, straddled,
                    replayed, successors>>
    BY DEF DeleteEach, history
  <1>3. QED
    BY <1>1, <1>2, DeletingEach DEF Moves

(* DEL of the set.                                                         *)
LEMMA DeleteListEffect ==
    ASSUME RequestsPlaced, NEW p \in Slots, DeleteList(p)
    PROVE  /\ Takes(p, "delete_list", {}) /\ request'[p] = None
           /\ request[p].op \in Revoking
           /\ user_sessions' = [user_sessions EXCEPT ![User(p)] = {}]
           /\ dead' = dead \cup request[p].before
           /\ closed' = IF request[p].op = "delete_me" THEN closed \cup {User(p)} ELSE closed
           /\ UNCHANGED <<accounts, sessions, held, minted, straddled, replayed, successors>>
  BY Ending, CalledBy DEF DeleteList, Moves, At

(* UPDATE users SET deleted_at.                                            *)
LEMMA SoftDeleteEffect ==
    ASSUME RequestsPlaced, NEW p \in Slots, SoftDelete(p)
    PROVE  /\ Takes(p, "soft_delete", {"read_list"})
           /\ accounts' = [accounts EXCEPT ![User(p)] = "deleted"]
           /\ UNCHANGED <<sessions, user_sessions, held, minted, dead, closed, straddled,
                          replayed, successors>>
  BY Ending DEF SoftDelete, Moves, history

(* The calls that are elsewhere.                                           *)
LEMMA ElsewhereSteps ==
    ASSUME RequestsPlaced, NEW p \in Slots,
           \/ IsFree(p) \/ NotBlocked(p) \/ RecordFailure(p) \/ Block(p) \/ VerifyPassword(p)
           \/ OwnsNone(p) \/ CountChange(p) \/ NameIsFree(p) \/ UpdateUser(p) \/ Fail(p)
    PROVE  Elsewhere(p)
  <1>1. /\ request[p] # None
        /\ \A q \in Slots \ {p} : request'[q] = request[q]
        /\ request'[p] # None =>
              /\ Same(request'[p], request[p])
              /\ request'[p].new = request[p].new /\ request'[p].todo = request[p].todo
              /\ request'[p].at \in {"insert_user", "find_user", "record_failure", "block",
                                     "owns_none", "soft_delete", "name_is_free", "update_user"}
    <2>1. CASE IsFree(p)
      BY <2>1, Registering DEF Moves, Takes
    <2>2. CASE NotBlocked(p) \/ RecordFailure(p) \/ Block(p)
      BY <2>2, LoggingIn DEF Moves, Takes
    <2>3. CASE VerifyPassword(p) \/ OwnsNone(p)
      BY <2>3, Ending DEF Moves, Takes
    <2>4. CASE CountChange(p) \/ NameIsFree(p) \/ UpdateUser(p)
      BY <2>4, ChangingName DEF Moves, Takes
    <2>5. CASE Fail(p)
      BY <2>5, FailingMoves DEF Moves, Takes, Fail
    <2>6. QED
      BY <2>1, <2>2, <2>3, <2>4, <2>5
  <1>2. UNCHANGED tokens
    BY DEF IsFree, NotBlocked, Check, RecordFailure, Block, VerifyPassword, OwnsNone,
           CountChange, NameIsFree, UpdateUser, Fail, stores, history, tokens
  <1>3. QED
    BY <1>1, <1>2 DEF Elsewhere

(* Every step, as far as tokens go.                                        *)
LEMMA TokenSteps ==
    ASSUME TypeOK, [Next]_vars
    PROVE  \/ UNCHANGED <<request, tokens>>
           \/ \E t \in Tokens : Expire(t)
           \/ \E p \in Slots : Comes(p) /\ UNCHANGED tokens
           \/ \E p \in Slots : Elsewhere(p)
           \/ \E p \in Slots : Storing(p)
  <1> USE PlacedByType
  <1>1. ASSUME NEW p \in Slots, Start(p) PROVE Comes(p) /\ UNCHANGED tokens
    BY <1>1, Coming DEF Start, stores, history, tokens
  <1>2. (\E u \in Users : ExpireChanges(u)) \/ ExpireFailures \/ ExpireBlock \/ UNCHANGED vars
           => UNCHANGED <<request, tokens>>
    BY DEF ExpireChanges, ExpireFailures, ExpireBlock, vars, stores, history, tokens
  <1>3. QED
    BY <1>1, <1>2, ElsewhereSteps DEF Next, Serves, Storing

-----------------------------------------------------------------------------
(* Tokens.                                                                 *)

(* Tokens are shown by those who hold them.                                *)
LEMMA OwnTokensStep ==
    ASSUME TypeOK, OwnTokens, [Next]_vars
    PROVE  OwnTokens'
  <1> USE PlacedByType DEF OwnTokens, At, AtOneOf, User
  <1>a. /\ sessions \in [Tokens -> Users \cup {None}] /\ minted \subseteq Tokens
        /\ held \in [Users -> SUBSET minted] /\ dead \subseteq minted
        /\ user_sessions \in [Users -> SUBSET minted]
        /\ successors \in [Tokens -> Nat]
        /\ accounts \in [Users -> {"none", "active", "deleted"}]
        /\ None \notin Tokens
    BY ConstantsAssumption DEF TypeOK
  <1>b. \A p \in Slots : request[p] # None =>
           request[p].user \in Users /\ request[p].old \in Tokens \cup {None}
    BY Fields
  <1>1. CASE UNCHANGED <<request, tokens>>
    BY <1>1, <1>a DEF tokens
  <1>2. ASSUME NEW t \in Tokens, Expire(t) PROVE OwnTokens'
    BY <1>2, <1>a DEF Expire, history
  <1>3. ASSUME NEW p \in Slots, Comes(p), UNCHANGED tokens PROVE OwnTokens'
    BY <1>3, <1>a DEF Comes, tokens
  <1>4. ASSUME NEW p \in Slots, Elsewhere(p) PROVE OwnTokens'
    BY <1>4, <1>a DEF Elsewhere, Same, tokens
  <1>5. ASSUME NEW p \in Slots, InsertUser(p) PROVE OwnTokens'
    BY <1>5, InsertUserEffect, <1>a DEF Takes, Same
  <1>6. ASSUME NEW p \in Slots, InsertSettings(p) \/ ClearFailures(p) PROVE OwnTokens'
    BY <1>6, SettingsEffect, <1>a DEF Takes, Same, tokens
  <1>7. ASSUME NEW p \in Slots, FindUser(p) PROVE OwnTokens'
    BY <1>7, <1>4, FindUserEffect, <1>a DEF Takes, Same
  <1>8. ASSUME NEW p \in Slots, GetKey(p) PROVE OwnTokens'
    BY <1>8, <1>4, GetKeyEffect, <1>a DEF Takes, Same
  <1>9. ASSUME NEW p \in Slots, DeleteKey(p) PROVE OwnTokens'
    BY <1>9, DeleteKeyEffect, <1>a DEF Takes, Same
  <1>10. ASSUME NEW p \in Slots, UnlistKey(p) PROVE OwnTokens'
    BY <1>10, UnlistKeyEffect, <1>a DEF Takes, Same
  <1>11. ASSUME NEW p \in Slots, SetKey(p) PROVE OwnTokens'
    BY <1>11, SetKeyEffect, <1>a DEF Takes, Same
  <1>12. ASSUME NEW p \in Slots, ListKey(p) PROVE OwnTokens'
    BY <1>12, ListKeyEffect, <1>a, <1>b DEF Takes, Same
  <1>13. ASSUME NEW p \in Slots, ReadList(p) PROVE OwnTokens'
    BY <1>13, ReadListEffect, <1>a DEF Takes, Same
  <1>14. ASSUME NEW p \in Slots, DeleteEach(p) PROVE OwnTokens'
    BY <1>14, DeleteEachEffect, <1>a DEF Takes, Same
  <1>15. ASSUME NEW p \in Slots, DeleteList(p) PROVE OwnTokens'
    BY <1>15, DeleteListEffect, <1>a, <1>b DEF Takes, Same
  <1>16. ASSUME NEW p \in Slots, SoftDelete(p) PROVE OwnTokens'
    BY <1>16, SoftDeleteEffect, <1>a DEF Takes, Same
  <1>17. QED
    BY <1>1, <1>2, <1>3, <1>4, <1>5, <1>6, <1>7, <1>8, <1>9, <1>10, <1>11, <1>12, <1>13,
       <1>14, <1>15, <1>16, TokenSteps DEF Storing

(* The loop over the tokens ends when none is left.                        *)
LEMMA ListStep ==
    ASSUME TypeOK, KeysBeforeList, [Next]_vars
    PROVE  KeysBeforeList'
  <1> USE PlacedByType DEF KeysBeforeList, At, AtOneOf, User
  <1>1. CASE UNCHANGED <<request, tokens>>
    BY <1>1 DEF tokens
  <1>2. ASSUME NEW t \in Tokens, Expire(t) PROVE KeysBeforeList'
    BY <1>2 DEF Expire, history
  <1>3. ASSUME NEW p \in Slots, Comes(p), UNCHANGED tokens PROVE KeysBeforeList'
    BY <1>3 DEF Comes, tokens
  <1>4. ASSUME NEW p \in Slots, Elsewhere(p) PROVE KeysBeforeList'
    BY <1>4 DEF Elsewhere, Same, tokens
  <1>5. ASSUME NEW p \in Slots, InsertUser(p) PROVE KeysBeforeList'
    BY <1>5, InsertUserEffect DEF Takes, Same
  <1>6. ASSUME NEW p \in Slots, InsertSettings(p) \/ ClearFailures(p) PROVE KeysBeforeList'
    BY <1>6, SettingsEffect DEF Takes, Same, tokens
  <1>7. ASSUME NEW p \in Slots, FindUser(p) PROVE KeysBeforeList'
    BY <1>7, <1>4, FindUserEffect DEF Takes, Same
  <1>8. ASSUME NEW p \in Slots, GetKey(p) PROVE KeysBeforeList'
    BY <1>8, <1>4, GetKeyEffect DEF Takes, Same
  <1>9. ASSUME NEW p \in Slots, DeleteKey(p) PROVE KeysBeforeList'
    BY <1>9, DeleteKeyEffect DEF Takes, Same
  <1>10. ASSUME NEW p \in Slots, UnlistKey(p) PROVE KeysBeforeList'
    BY <1>10, UnlistKeyEffect DEF Takes, Same
  <1>11. ASSUME NEW p \in Slots, SetKey(p) PROVE KeysBeforeList'
    BY <1>11, SetKeyEffect DEF Takes, Same
  <1>12. ASSUME NEW p \in Slots, ListKey(p) PROVE KeysBeforeList'
    BY <1>12, ListKeyEffect DEF Takes, Same
  <1>13. ASSUME NEW p \in Slots, ReadList(p) PROVE KeysBeforeList'
    BY <1>13, ReadListEffect DEF Takes, Same
  <1>14. ASSUME NEW p \in Slots, DeleteEach(p) PROVE KeysBeforeList'
    BY <1>14, DeleteEachEffect DEF Takes, Same
  <1>15. ASSUME NEW p \in Slots, DeleteList(p) PROVE KeysBeforeList'
    BY <1>15, DeleteListEffect DEF Takes, Same
  <1>16. ASSUME NEW p \in Slots, SoftDelete(p) PROVE KeysBeforeList'
    BY <1>16, SoftDeleteEffect DEF Takes, Same
  <1>17. QED
    BY <1>1, <1>2, <1>3, <1>4, <1>5, <1>6, <1>7, <1>8, <1>9, <1>10, <1>11, <1>12, <1>13,
       <1>14, <1>15, <1>16, TokenSteps DEF Storing

(* One refresh of a token goes on where none read behind another.          *)
LEMMA ExchangedStep ==
    ASSUME TypeOK, OwnTokens, ExchangedOnce, [Next]_vars
    PROVE  ExchangedOnce'
  <1> USE PlacedByType DEF ExchangedOnce, Exchanges, Exchanging, At, AtOneOf, User
  <1>a. /\ sessions \in [Tokens -> Users \cup {None}] /\ minted \subseteq Tokens
        /\ held \in [Users -> SUBSET minted] /\ dead \subseteq minted
        /\ user_sessions \in [Users -> SUBSET minted]
        /\ successors \in [Tokens -> Nat]
        /\ accounts \in [Users -> {"none", "active", "deleted"}]
        /\ None \notin Tokens
    BY ConstantsAssumption DEF TypeOK
  <1>b. \A p \in Slots : request[p] # None =>
           request[p].user \in Users /\ request[p].old \in Tokens \cup {None}
    BY Fields
  <1>1. CASE UNCHANGED <<request, tokens>>
    BY <1>1, <1>a DEF tokens
  <1>2. ASSUME NEW t \in Tokens, Expire(t) PROVE ExchangedOnce'
    BY <1>2, <1>a DEF Expire, history
  <1>3. ASSUME NEW p \in Slots, Comes(p), UNCHANGED tokens PROVE ExchangedOnce'
    BY <1>3, <1>a DEF Comes, tokens
  <1>4. ASSUME NEW p \in Slots, Elsewhere(p) PROVE ExchangedOnce'
    BY <1>4, <1>a DEF Elsewhere, Same, tokens
  <1>5. ASSUME NEW p \in Slots, InsertUser(p) PROVE ExchangedOnce'
    BY <1>5, InsertUserEffect, <1>a DEF Takes, Same
  <1>6. ASSUME NEW p \in Slots, InsertSettings(p) \/ ClearFailures(p) PROVE ExchangedOnce'
    BY <1>6, SettingsEffect, CalledBy DEF Takes, Same, tokens
  <1>7. ASSUME NEW p \in Slots, FindUser(p) PROVE ExchangedOnce'
    BY <1>7, <1>4, FindUserEffect, <1>a DEF Takes, Same
  <1>8. ASSUME NEW p \in Slots, GetKey(p) PROVE ExchangedOnce'
    BY <1>8, <1>4, GetKeyEffect, <1>a DEF Takes, Same
  <1>9. ASSUME NEW p \in Slots, DeleteKey(p) PROVE ExchangedOnce'
    BY <1>9, DeleteKeyEffect, <1>a DEF Takes, Same
  <1>10. ASSUME NEW p \in Slots, UnlistKey(p) PROVE ExchangedOnce'
    BY <1>10, UnlistKeyEffect, <1>a DEF Takes, Same
  <1>11. ASSUME NEW p \in Slots, SetKey(p) PROVE ExchangedOnce'
    BY <1>11, SetKeyEffect, <1>a, <1>b DEF Takes, Same, OwnTokens
  <1>12. ASSUME NEW p \in Slots, ListKey(p) PROVE ExchangedOnce'
    BY <1>12, ListKeyEffect, <1>a, <1>b DEF Takes, Same, OwnTokens
  <1>13. ASSUME NEW p \in Slots, ReadList(p) PROVE ExchangedOnce'
    BY <1>13, ReadListEffect, <1>a DEF Takes, Same
  <1>14. ASSUME NEW p \in Slots, DeleteEach(p) PROVE ExchangedOnce'
    BY <1>14, DeleteEachEffect, <1>a DEF Takes, Same
  <1>15. ASSUME NEW p \in Slots, DeleteList(p) PROVE ExchangedOnce'
    BY <1>15, DeleteListEffect, <1>a DEF Takes, Same
  <1>16. ASSUME NEW p \in Slots, SoftDelete(p) PROVE ExchangedOnce'
    BY <1>16, SoftDeleteEffect, <1>a DEF Takes, Same
  <1>17. QED
    BY <1>1, <1>2, <1>3, <1>4, <1>5, <1>6, <1>7, <1>8, <1>9, <1>10, <1>11, <1>12, <1>13,
       <1>14, <1>15, <1>16, TokenSteps DEF Storing

(* An account is never unmade, and does not come back from deletion.       *)
LEMMA RegisteredStep ==
    ASSUME TypeOK, OwnTokens, Registered, [Next]_vars
    PROVE  Registered'
  <1> USE PlacedByType DEF Registered, Creates, At, AtOneOf, User
  <1>a. /\ sessions \in [Tokens -> Users \cup {None}] /\ minted \subseteq Tokens
        /\ held \in [Users -> SUBSET minted] /\ dead \subseteq minted
        /\ user_sessions \in [Users -> SUBSET minted]
        /\ successors \in [Tokens -> Nat]
        /\ accounts \in [Users -> {"none", "active", "deleted"}]
        /\ None \notin Tokens
    BY ConstantsAssumption DEF TypeOK
  <1>b. \A p \in Slots : request[p] # None =>
           request[p].user \in Users /\ request[p].old \in Tokens \cup {None}
    BY Fields
  <1>1. CASE UNCHANGED <<request, tokens>>
    BY <1>1, <1>a DEF tokens
  <1>2. ASSUME NEW t \in Tokens, Expire(t) PROVE Registered'
    BY <1>2, <1>a DEF Expire, history
  <1>3. ASSUME NEW p \in Slots, Comes(p), UNCHANGED tokens PROVE Registered'
    BY <1>3 DEF Comes, tokens
  <1>4. ASSUME NEW p \in Slots, Elsewhere(p) PROVE Registered'
    BY <1>4, <1>a DEF Elsewhere, Same, tokens
  <1>5. ASSUME NEW p \in Slots, InsertUser(p) PROVE Registered'
    <2>1. \A u \in Users :
             /\ accounts[u] # "none" => accounts'[u] # "none"
             /\ accounts[u] = "deleted" => accounts'[u] = "deleted"
             /\ request'[p] # None /\ u = User(p) => accounts'[u] # "none"
      BY <1>5, InsertUserEffect, <1>a, <1>b DEF Takes
    <2>2. Takes(p, "insert_user", {"insert_settings"}) /\ UNCHANGED <<held, closed>>
      BY <1>5, InsertUserEffect
    <2>3. \A q \in Slots : request'[q] # None =>
             /\ request[q] # None /\ Same(request'[q], request[q])
             /\ q # p => request'[q] = request[q]
             /\ q = p => request'[q].at = "insert_settings"
             /\ request'[q].user \in Users
      BY <2>2, <1>b DEF Takes, Same
    <2>4. \A u \in Users : held'[u] # {} => accounts'[u] # "none"
      BY <2>1, <2>2
    <2>5. \A q \in Slots, u \in Users : Creates(q, u)' => accounts'[u] # "none"
      BY <2>1, <2>3 DEF Same
    <2>6. \A q \in Slots : request'[q] # None /\ request'[q].op \in Revoking =>
             accounts'[request'[q].user] # "none"
      BY <2>1, <2>3 DEF Same
    <2>7. \A q \in Slots : AtOneOf(q, {"read_list", "delete_keys", "delete_list"})'
             /\ request'[q].op = "delete_me" => accounts'[request'[q].user] = "deleted"
      BY <2>1, <2>3 DEF Same
    <2>8. \A u \in closed' : accounts'[u] = "deleted"
      BY <2>1, <2>2 DEF TypeOK
    <2>9. QED
      BY <2>4, <2>5, <2>6, <2>7, <2>8
  <1>6. ASSUME NEW p \in Slots, InsertSettings(p) \/ ClearFailures(p) PROVE Registered'
    BY <1>6, SettingsEffect, <1>a DEF Takes, Same, tokens
  <1>7. ASSUME NEW p \in Slots, FindUser(p) PROVE Registered'
    BY <1>7, <1>4, FindUserEffect, <1>a DEF Takes, Same
  <1>8. ASSUME NEW p \in Slots, GetKey(p) PROVE Registered'
    BY <1>8, <1>4, GetKeyEffect, <1>b DEF Takes, Same, OwnTokens
  <1>9. ASSUME NEW p \in Slots, DeleteKey(p) PROVE Registered'
    BY <1>9, DeleteKeyEffect, <1>a DEF Takes, Same
  <1>10. ASSUME NEW p \in Slots, UnlistKey(p) PROVE Registered'
    BY <1>10, UnlistKeyEffect, <1>a DEF Takes, Same
  <1>11. ASSUME NEW p \in Slots, SetKey(p) PROVE Registered'
    BY <1>11, SetKeyEffect, <1>a DEF Takes, Same
  <1>12. ASSUME NEW p \in Slots, ListKey(p) PROVE Registered'
    BY <1>12, ListKeyEffect, <1>a DEF Takes, Same
  <1>13. ASSUME NEW p \in Slots, ReadList(p) PROVE Registered'
    BY <1>13, ReadListEffect, <1>a DEF Takes, Same
  <1>14. ASSUME NEW p \in Slots, DeleteEach(p) PROVE Registered'
    BY <1>14, DeleteEachEffect, <1>a DEF Takes, Same
  <1>15. ASSUME NEW p \in Slots, DeleteList(p) PROVE Registered'
    BY <1>15, DeleteListEffect, <1>a DEF Takes, Same
  <1>16. ASSUME NEW p \in Slots, SoftDelete(p) PROVE Registered'
    <2>1. \A u \in Users :
             /\ accounts[u] # "none" => accounts'[u] # "none"
             /\ accounts[u] = "deleted" => accounts'[u] = "deleted"
             /\ u = User(p) => accounts'[u] = "deleted"
      BY <1>16, SoftDeleteEffect, <1>a, <1>b DEF Takes
    <2>2. Takes(p, "soft_delete", {"read_list"}) /\ UNCHANGED <<held, closed>>
      BY <1>16, SoftDeleteEffect
    <2>3. \A q \in Slots : request'[q] # None =>
             /\ request[q] # None /\ Same(request'[q], request[q])
             /\ q # p => request'[q] = request[q]
             /\ q = p => request'[q].at = "read_list"
             /\ request'[q].user \in Users
      BY <2>2, <1>b DEF Takes, Same
    <2>4. \A u \in Users : held'[u] # {} => accounts'[u] # "none"
      BY <2>1, <2>2
    <2>5. \A q \in Slots, u \in Users : Creates(q, u)' => accounts'[u] # "none"
      BY <2>1, <2>3 DEF Same
    <2>6. \A q \in Slots : request'[q] # None /\ request'[q].op \in Revoking =>
             accounts'[request'[q].user] # "none"
      BY <2>1, <2>3 DEF Same
    <2>7. \A q \in Slots : AtOneOf(q, {"read_list", "delete_keys", "delete_list"})'
             /\ request'[q].op = "delete_me" => accounts'[request'[q].user] = "deleted"
      BY <2>1, <2>3 DEF Same
    <2>8. \A u \in closed' : accounts'[u] = "deleted"
      BY <2>1, <2>2 DEF TypeOK
    <2>9. QED
      BY <2>4, <2>5, <2>6, <2>7, <2>8
  <1>17. QED
    BY <1>1, <1>2, <1>3, <1>4, <1>5, <1>6, <1>7, <1>8, <1>9, <1>10, <1>11, <1>12, <1>13,
       <1>14, <1>15, <1>16, TokenSteps DEF Storing

-----------------------------------------------------------------------------
(* Revocation.                                                             *)

(* Only a session that is stored becomes live.                             *)
LEMMA LiveShrinks ==
    ASSUME TypeOK, NEW t, sessions' = [sessions EXCEPT ![t] = None]
    PROVE  \A u \in Users : Live(u)' \subseteq Live(u) \ {t}
  BY ConstantsAssumption DEF TypeOK, Live

(* A login or refresh past its check meets no revocation unnoticed.        *)
LEMMA RevocationsStep ==
    ASSUME TypeOK, OwnTokens, Registered, RevocationsAlone, RevokedStayOut, [Next]_vars
    PROVE  RevocationsAlone'
  <1> USE PlacedByType DEF RevocationsAlone, Creates, Revokes, At, AtOneOf, User
  <1>a. /\ sessions \in [Tokens -> Users \cup {None}] /\ minted \subseteq Tokens
        /\ held \in [Users -> SUBSET minted] /\ dead \subseteq minted
        /\ user_sessions \in [Users -> SUBSET minted]
        /\ successors \in [Tokens -> Nat]
        /\ accounts \in [Users -> {"none", "active", "deleted"}]
        /\ None \notin Tokens
    BY ConstantsAssumption DEF TypeOK
  <1>b. \A p \in Slots : request[p] # None =>
           request[p].user \in Users /\ request[p].old \in Tokens \cup {None}
    BY Fields
  <1>1. CASE UNCHANGED <<request, tokens>>
    BY <1>1, <1>a DEF tokens, Live
  <1>2. ASSUME NEW t \in Tokens, Expire(t) PROVE RevocationsAlone'
    <2>1. \A u \in Users : Live(u)' \subseteq Live(u)
      BY <1>2, LiveShrinks DEF Expire
    <2>2. QED
      BY <1>2, <2>1 DEF Expire, history
  <1>3. ASSUME NEW p \in Slots, Comes(p), UNCHANGED tokens PROVE RevocationsAlone'
    BY <1>3, <1>a DEF Comes, tokens, Live
  <1>4. ASSUME NEW p \in Slots, Elsewhere(p) PROVE RevocationsAlone'
    BY <1>4, <1>a DEF Elsewhere, Same, tokens, Live
  <1>5. ASSUME NEW p \in Slots, InsertUser(p) PROVE RevocationsAlone'
    <2>1. request'[p] # None =>
             /\ User(p) \notin closed
             /\ \A q \in Slots : ~Revokes(q, User(p))
      BY <1>5, InsertUserEffect, CalledBy, <1>b DEF Registered, Takes
    <2>2. QED
      BY <1>5, <2>1, InsertUserEffect DEF Takes, Same, Live
  <1>6. ASSUME NEW p \in Slots, InsertSettings(p) \/ ClearFailures(p) PROVE RevocationsAlone'
    BY <1>6, SettingsEffect, <1>a DEF Takes, Same, tokens, Live
  <1>7. ASSUME NEW p \in Slots, FindUser(p) PROVE RevocationsAlone'
    <2>1. CASE Elsewhere(p)
      BY <2>1, <1>4
    <2>2. CASE ~Elsewhere(p)
      <3>1. User(p) \notin closed
        BY <1>7, <2>2, FindUserEffect DEF Registered
      <3>2. User(p) \notin straddled' => \A q \in Slots : ~Revokes(q, User(p))
        BY <1>7, <2>2, FindUserEffect
      <3>3. straddled \subseteq straddled'
        BY <1>7, <2>2, FindUserEffect
      <3>4. QED
        BY <1>7, <2>2, <3>1, <3>2, <3>3, FindUserEffect DEF Takes, Same, Live
    <2>3. QED
      BY <2>1, <2>2
  <1>8. ASSUME NEW p \in Slots, GetKey(p) PROVE RevocationsAlone'
    <2>1. CASE Elsewhere(p)
      BY <2>1, <1>4
    <2>2. CASE ~Elsewhere(p)
      <3>1. Takes(p, "get_key", {"delete_key"}) /\ UNCHANGED <<sessions, held, closed>>
        BY <1>8, <2>2, GetKeyEffect
      <3>2. User(p) \notin straddled => User(p) \notin closed
        <4>1. request[p].old \in held[User(p)] /\ sessions[request[p].old] # None
          BY <1>8, <2>2, GetKeyEffect DEF OwnTokens, Takes
        <4>2. request[p].old \in Live(User(p))
          BY <4>1, <3>1, <1>a, <1>b DEF TypeOK, Takes, Live
        <4>3. QED
          BY <4>1, <4>2, <3>1, <1>b DEF RevokedStayOut, Takes
      <3>3. User(p) \notin straddled' => \A q \in Slots : ~Revokes(q, User(p))
        BY <1>8, <2>2, GetKeyEffect
      <3>4. straddled \subseteq straddled'
        BY <1>8, <2>2, GetKeyEffect
      <3>5. QED
        BY <3>1, <3>2, <3>3, <3>4 DEF Takes, Same, Live
    <2>3. QED
      BY <2>1, <2>2
  <1>9. ASSUME NEW p \in Slots, DeleteKey(p) PROVE RevocationsAlone'
    <2>1. \A u \in Users : Live(u)' \subseteq Live(u)
      BY <1>9, DeleteKeyEffect, LiveShrinks
    <2>2. QED
      BY <1>9, <2>1, DeleteKeyEffect DEF Takes, Same
  <1>10. ASSUME NEW p \in Slots, UnlistKey(p) PROVE RevocationsAlone'
    BY <1>10, UnlistKeyEffect, <1>a DEF Takes, Same, Live
  <1>11. ASSUME NEW p \in Slots, SetKey(p) PROVE RevocationsAlone'
    BY <1>11, SetKeyEffect, <1>a DEF Takes, Same, Live
  <1>12. ASSUME NEW p \in Slots, ListKey(p) PROVE RevocationsAlone'
    BY <1>12, ListKeyEffect, <1>a DEF Takes, Same, Live
  <1>13. ASSUME NEW p \in Slots, ReadList(p) PROVE RevocationsAlone'
    <2>1. /\ Takes(p, "read_list", {"delete_keys"})
          /\ request'[p] # None => request'[p].todo = user_sessions[User(p)]
          /\ UNCHANGED <<sessions, held, closed>>
      BY <1>13, ReadListEffect
    <2>2. User(p) \notin straddled' => \A q \in Slots : ~Creates(q, User(p))
      BY <1>13, ReadListEffect
    <2>3. straddled \subseteq straddled'
      BY <1>13, ReadListEffect
    <2>4. User(p) \notin straddled =>
             held[User(p)] \cap Live(User(p)) \subseteq user_sessions[User(p)]
      BY <2>1, <1>b DEF RevokedStayOut, Takes
    <2>5. QED
      BY <2>1, <2>2, <2>3, <2>4 DEF Takes, Same, Live
  <1>14. ASSUME NEW p \in Slots, DeleteEach(p) PROVE RevocationsAlone'
    <2>1. UNCHANGED <<held, straddled, closed>>
      BY <1>14, DeleteEachEffect
    <2>2. CASE Takes(p, "delete_keys", {"delete_list"}) /\ UNCHANGED sessions
                  /\ (request'[p] # None => request'[p].todo = {}) /\ request[p].todo = {}
      BY <2>1, <2>2 DEF Takes, Same, Live
    <2>3. ASSUME NEW t \in request[p].todo, Takes(p, "delete_keys", {"delete_keys"}),
                 sessions' = [sessions EXCEPT ![t] = None],
                 request'[p] # None => request'[p].todo = request[p].todo \ {t}
          PROVE  RevocationsAlone'
      <3>1. \A u \in Users : Live(u)' \subseteq Live(u) \ {t}
        BY <2>3, LiveShrinks
      <3>2. QED
        BY <2>1, <2>3, <3>1 DEF Takes, Same
    <2>4. QED
      BY <1>14, <2>2, <2>3, DeleteEachEffect
  <1>15. ASSUME NEW p \in Slots, DeleteList(p) PROVE RevocationsAlone'
    BY <1>15, DeleteListEffect, <1>a DEF Takes, Same, Live
  <1>16. ASSUME NEW p \in Slots, SoftDelete(p) PROVE RevocationsAlone'
    BY <1>16, SoftDeleteEffect, <1>a DEF Takes, Same, Live
  <1>17. QED
    BY <1>1, <1>2, <1>3, <1>4, <1>5, <1>6, <1>7, <1>8, <1>9, <1>10, <1>11, <1>12, <1>13,
       <1>14, <1>15, <1>16, TokenSteps DEF Storing

(* When the set goes, nothing that was in it is live.                      *)
LEMMA RevokedStep ==
    ASSUME TypeOK, OwnTokens, ExchangedOnce, KeysBeforeList, RevocationsAlone,
           RevokedStayOut, [Next]_vars
    PROVE  RevokedStayOut'
  <1> USE PlacedByType DEF RevokedStayOut, At, AtOneOf, User
  <1>a. /\ sessions \in [Tokens -> Users \cup {None}] /\ minted \subseteq Tokens
        /\ held \in [Users -> SUBSET minted] /\ dead \subseteq minted
        /\ user_sessions \in [Users -> SUBSET minted]
        /\ successors \in [Tokens -> Nat]
        /\ accounts \in [Users -> {"none", "active", "deleted"}]
        /\ None \notin Tokens
    BY ConstantsAssumption DEF TypeOK
  <1>b. \A p \in Slots : request[p] # None =>
           request[p].user \in Users /\ request[p].old \in Tokens \cup {None}
    BY Fields
  <1>1. CASE UNCHANGED <<request, tokens>>
    BY <1>1, <1>a DEF tokens, Live
  <1>2. ASSUME NEW t \in Tokens, Expire(t) PROVE RevokedStayOut'
    <2>1. \A u \in Users : Live(u)' \subseteq Live(u)
      BY <1>2, LiveShrinks DEF Expire
    <2>2. QED
      BY <1>2, <2>1 DEF Expire, history
  <1>3. ASSUME NEW p \in Slots, Comes(p), UNCHANGED tokens PROVE RevokedStayOut'
    BY <1>3, <1>a DEF Comes, tokens, Live
  <1>4. ASSUME NEW p \in Slots, Elsewhere(p) PROVE RevokedStayOut'
    BY <1>4, <1>a DEF Elsewhere, Same, tokens, Live
  <1>5. ASSUME NEW p \in Slots, InsertUser(p) PROVE RevokedStayOut'
    BY <1>5, InsertUserEffect, <1>a DEF Takes, Same, Live
  <1>6. ASSUME NEW p \in Slots, InsertSettings(p) \/ ClearFailures(p) PROVE RevokedStayOut'
    BY <1>6, SettingsEffect, <1>a DEF Takes, Same, tokens, Live
  <1>7. ASSUME NEW p \in Slots, FindUser(p) PROVE RevokedStayOut'
    BY <1>7, <1>4, FindUserEffect, <1>a DEF Takes, Same, Live
  <1>8. ASSUME NEW p \in Slots, GetKey(p) PROVE RevokedStayOut'
    BY <1>8, <1>4, GetKeyEffect, <1>a DEF Takes, Same, Live
  <1>9. ASSUME NEW p \in Slots, DeleteKey(p) PROVE RevokedStayOut'
    <2>1. \A u \in Users : Live(u)' \subseteq Live(u)
      BY <1>9, DeleteKeyEffect, LiveShrinks
    <2>2. QED
      BY <1>9, <2>1, DeleteKeyEffect DEF Takes, Same
  <1>10. ASSUME NEW p \in Slots, UnlistKey(p) PROVE RevokedStayOut'
    <2>1. sessions[request[p].old] = None
      BY <1>10, UnlistKeyEffect, <1>a, <1>b DEF ExchangedOnce, Exchanging, Takes, OwnTokens
    <2>2. \A u \in Users : held[u] \cap Live(u) \subseteq user_sessions[u]
             => held[u] \cap Live(u) \subseteq user_sessions'[u]
      BY <1>10, <2>1, UnlistKeyEffect, <1>a, <1>b, ConstantsAssumption DEF Live
    <2>3. QED
      BY <1>10, <2>2, UnlistKeyEffect DEF Live
  <1>11. ASSUME NEW p \in Slots, SetKey(p) PROVE RevokedStayOut'
    BY <1>11, SetKeyEffect, <1>a DEF Takes, Same, Live
  <1>12. ASSUME NEW p \in Slots, ListKey(p) PROVE RevokedStayOut'
    <2> DEFINE t == request[p].new
    <2>1. /\ Takes(p, "list_key", {}) /\ UNCHANGED <<sessions, dead, closed, straddled>>
          /\ user_sessions' = [user_sessions EXCEPT ![User(p)] = @ \cup {t}]
          /\ held' = [held EXCEPT ![User(p)] = @ \cup {t}]
      BY <1>12, ListKeyEffect
    <2>2. t \notin dead /\ User(p) \in Users
      BY <2>1, <1>b DEF OwnTokens, Takes
    <2>3. User(p) \notin straddled => User(p) \notin closed
      BY <2>1, <2>2 DEF RevocationsAlone, Creates, Takes
    <2>4. \A u \in Users :
             IF u = User(p)
             THEN held'[u] = held[u] \cup {t} /\ user_sessions'[u] = user_sessions[u] \cup {t}
             ELSE held'[u] = held[u] /\ user_sessions'[u] = user_sessions[u]
      BY <2>1, <2>2, <1>a
    <2> HIDE DEF t
    <2>5. QED
      BY <2>1, <2>2, <2>3, <2>4 DEF Live
  <1>13. ASSUME NEW p \in Slots, ReadList(p) PROVE RevokedStayOut'
    BY <1>13, ReadListEffect, <1>a DEF Takes, Same, Live
  <1>14. ASSUME NEW p \in Slots, DeleteEach(p) PROVE RevokedStayOut'
    <2>1. UNCHANGED <<user_sessions, held, dead, straddled, closed>>
      BY <1>14, DeleteEachEffect
    <2>2. \A u \in Users : Live(u)' \subseteq Live(u)
      BY <1>14, DeleteEachEffect, LiveShrinks DEF Live
    <2>3. QED
      BY <2>1, <2>2
  <1>15. ASSUME NEW p \in Slots, DeleteList(p) PROVE RevokedStayOut'
    <2>1. /\ Takes(p, "delete_list", {}) /\ UNCHANGED <<sessions, held, straddled>>
          /\ user_sessions' = [user_sessions EXCEPT ![User(p)] = {}]
          /\ dead' = dead \cup request[p].before
          /\ closed' = closed \/ closed' = closed \cup {User(p)}
      BY <1>15, DeleteListEffect
    <2>2. User(p) \in Users /\ request[p].before \subseteq held[User(p)]
      BY <2>1, <1>b DEF OwnTokens, Takes
    <2>3. User(p) \notin straddled => held[User(p)] \cap Live(User(p)) = {}
      BY <2>1, <2>2 DEF RevocationsAlone, KeysBeforeList, Revokes, Takes
    <2>4. \A u \in Users \ {User(p)} : request[p].before \cap Live(u) = {}
      BY <2>2, <1>a, ConstantsAssumption DEF TypeOK, Live
    <2>5. \A u \in Users \ {User(p)} : user_sessions'[u] = user_sessions[u]
      BY <2>1, <2>2, <1>a
    <2>6. \A u \in Users : Live(u)' = Live(u)
      BY <2>1 DEF Live
    <2>7. QED
      BY <2>1, <2>2, <2>3, <2>4, <2>5, <2>6
  <1>16. ASSUME NEW p \in Slots, SoftDelete(p) PROVE RevokedStayOut'
    BY <1>16, SoftDeleteEffect, <1>a DEF Takes, Same, Live
  <1>17. QED
    BY <1>1, <1>2, <1>3, <1>4, <1>5, <1>6, <1>7, <1>8, <1>9, <1>10, <1>11, <1>12, <1>13,
       <1>14, <1>15, <1>16, TokenSteps DEF Storing

-----------------------------------------------------------------------------
(* Counting.                                                               *)

(* One slot more, one less, or as many.                                    *)
LEMMA OneSlot ==
    ASSUME NEW S \in SUBSET Slots, NEW T \in SUBSET Slots, NEW p \in Slots,
           S \ {p} = T \ {p}
    PROVE  /\ Cardinality(S) \in Nat /\ Cardinality(T) \in Nat
           /\ p \in T \ S => Cardinality(T) = Cardinality(S) + 1
           /\ p \in S \ T => Cardinality(T) = Cardinality(S) - 1
           /\ (p \in S <=> p \in T) => Cardinality(T) = Cardinality(S)
  <1>1. IsFiniteSet(S) /\ IsFiniteSet(T)
    BY ConstantsAssumption, FS_Subset
  <1>2. Cardinality(S) \in Nat /\ Cardinality(T) \in Nat
    BY <1>1, FS_CardinalityType
  <1>3. CASE p \in T \ S
    <2>1. T = S \cup {p}
      BY <1>3
    <2>2. QED
      BY <1>1, <1>2, <1>3, <2>1, FS_AddElement
  <1>4. CASE p \in S \ T
    <2>1. S = T \cup {p}
      BY <1>4
    <2>2. Cardinality(S) = Cardinality(T) + 1
      BY <1>1, <1>4, <2>1, FS_AddElement
    <2>3. QED
      BY <1>2, <1>4, <2>2
  <1>5. CASE p \in S <=> p \in T
    <2>1. S = T
      BY <1>5
    <2>2. QED
      BY <1>2, <1>5, <2>1
  <1>6. QED
    BY <1>3, <1>4, <1>5

(* No more slots than there are.                                           *)
LEMMA AtMostSlots ==
    /\ Cardinality(Slots) \in Nat
    /\ \A S \in SUBSET Slots : Cardinality(S) \in Nat /\ Cardinality(S) <= Cardinality(Slots)
  BY ConstantsAssumption, FS_CardinalityType, FS_Subset

(* A slot is not at two calls.                                             *)
LEMMA TwoKinds == Cardinality(Trying) + Cardinality(Failing) <= Cardinality(Slots)
  <1>1. Trying \subseteq Slots /\ Failing \subseteq Slots /\ Trying \cap Failing = {}
    BY DEF Trying, Failing, At, AtOneOf
  <1>2. IsFiniteSet(Trying) /\ IsFiniteSet(Failing)
    BY <1>1, ConstantsAssumption, FS_Subset
  <1>3. Cardinality(Trying \cup Failing) = Cardinality(Trying) + Cardinality(Failing)
    <2>1. Cardinality(Trying \cap Failing) = 0
      BY <1>1, FS_EmptySet
    <2>2. Cardinality(Trying \cup Failing)
             = Cardinality(Trying) + Cardinality(Failing) - Cardinality(Trying \cap Failing)
      BY <1>2, FS_Union
    <2>3. Cardinality(Trying) \in Nat /\ Cardinality(Failing) \in Nat
      BY <1>2, FS_CardinalityType
    <2>4. QED
      BY <2>1, <2>2, <2>3
  <1>4. QED
    BY <1>1, <1>3, AtMostSlots

(* Where a wrong password is counted, or not.                              *)
LEMMA RecordFailureEffect ==
    ASSUME RequestsPlaced, NEW p \in Slots, RecordFailure(p)
    PROVE  /\ At(p, "record_failure") /\ \A q \in Slots \ {p} : request'[q] = request[q]
           /\ guesses' = guesses
           /\ \/ /\ ip_fail' = ip_fail + 1 /\ faults' = faults
                 /\ ip_block' = IF ip_fail = 0 /\ ip_block = "after" THEN "before" ELSE ip_block
                 /\ IF ip_fail + 1 >= LoginFailMax
                    THEN At(p, "block")' ELSE request'[p] = None
              \/ /\ UNCHANGED <<ip_fail, ip_block>> /\ faults' = faults + 1
                 /\ request'[p] = None
  <1>1. At(p, "record_failure") /\ (\A q \in Slots \ {p} : request'[q] = request[q])
        /\ guesses' = guesses
    BY LoggingIn DEF RecordFailure, Moves, Takes, history
  <1>2. GoTo(p, "block") => At(p, "block")'
    BY <1>1, Leaving DEF Moves, Takes, At
  <1>3. Refuse(p) => request'[p] = None
    BY DEF Refuse, RequestsPlaced
  <1>4. QED
    BY <1>1, <1>2, <1>3 DEF RecordFailure, TooMany, Fault, counters

(* A call of slot p that leaves the guesses and where they are counted     *)
(* alone, or gives up counting one.                                        *)
Uncounted(p) ==
    /\ \A q \in Slots \ {p} : request'[q] = request[q]
    /\ UNCHANGED <<ip_fail, ip_block, guesses>>
    /\ request'[p] # None => request'[p].at \notin {"find_user", "record_failure", "block"}
    /\ \/ faults' = faults /\ ~AtOneOf(p, {"record_failure", "block"})
       \/ faults' = faults + 1

(* Most calls are such.                                                    *)
LEMMA UncountedSteps ==
    ASSUME TypeOK, NEW p \in Slots,
           \/ Start(p) \/ Fail(p) \/ IsFree(p) \/ InsertUser(p) \/ InsertSettings(p)
           \/ GetKey(p) \/ DeleteKey(p) \/ UnlistKey(p) \/ SetKey(p) \/ ListKey(p)
           \/ ReadList(p) \/ DeleteEach(p) \/ DeleteList(p)
           \/ VerifyPassword(p) \/ OwnsNone(p) \/ SoftDelete(p)
           \/ CountChange(p) \/ NameIsFree(p) \/ UpdateUser(p)
    PROVE  Uncounted(p)
  <1> USE PlacedByType DEF stores, history, counters, Uncounted, AtOneOf
  <1>1. CASE Start(p)
    BY <1>1, Coming DEF Start, Comes
  <1>2. CASE Fail(p)
    BY <1>2, FailingMoves DEF Fail, Fault, Moves, Takes
  <1>3. CASE IsFree(p) \/ InsertUser(p) \/ InsertSettings(p)
    BY <1>3, Registering DEF IsFree, Check, InsertUser, InsertSettings, Moves, Takes
  <1>4. CASE GetKey(p) \/ DeleteKey(p) \/ UnlistKey(p) \/ ListKey(p)
    BY <1>4, Exchange DEF GetKey, DeleteKey, UnlistKey, ListKey, Moves, Takes
  <1>5. CASE SetKey(p)
    BY <1>5, MakingKey DEF SetKey, Moves, Takes
  <1>6. CASE ReadList(p)
    BY <1>6, ReadingList DEF ReadList, Moves, Takes
  <1>7. CASE DeleteEach(p)
    BY <1>7, DeletingEach DEF DeleteEach, Moves, Takes
  <1>8. CASE DeleteList(p) \/ VerifyPassword(p) \/ OwnsNone(p) \/ SoftDelete(p)
    BY <1>8, Ending DEF DeleteList, VerifyPassword, OwnsNone, SoftDelete, Moves, Takes
  <1>9. CASE CountChange(p) \/ NameIsFree(p) \/ UpdateUser(p)
    BY <1>9, ChangingName DEF CountChange, Fault, NameIsFree, UpdateUser, Moves, Takes
  <1>10. QED
    BY <1>1, <1>2, <1>3, <1>4, <1>5, <1>6, <1>7, <1>8, <1>9

(* The three sets change by the slot that steps.                           *)
LEMMA Counted ==
    ASSUME NEW p \in Slots, \A q \in Slots \ {p} : request'[q] = request[q]
    PROVE  /\ Recording \in SUBSET Slots /\ Recording' \in SUBSET Slots
           /\ Failing \in SUBSET Slots /\ Failing' \in SUBSET Slots
           /\ Trying \in SUBSET Slots /\ Trying' \in SUBSET Slots
           /\ Recording \ {p} = Recording' \ {p}
           /\ Failing \ {p} = Failing' \ {p}
           /\ Trying \ {p} = Trying' \ {p}
  BY DEF Recording, Failing, Trying, At, AtOneOf

(* A guess is counted by moving it from a request to the counter.          *)
LEMMA GuessesStep ==
    ASSUME TypeOK, GuessesCounted, [Next]_vars
    PROVE  GuessesCounted'
  <1> USE PlacedByType
  <1> DEFINE R == Cardinality(Recording)
             F == Cardinality(Failing)
             Y == Cardinality(Trying)
             n == Cardinality(Slots)
  <1>a. /\ ip_fail \in Nat /\ guesses \in Nat /\ faults \in Nat /\ LoginFailMax \in Nat \ {0}
        /\ R \in Nat /\ F \in Nat /\ Y \in Nat /\ n \in Nat /\ Y + F <= n /\ R <= F
        /\ ip_block \in {"none", "before", "after"}
    <2>1. Recording \subseteq Failing /\ Failing \subseteq Slots /\ Trying \subseteq Slots
      BY DEF Recording, Failing, Trying, At, AtOneOf
    <2>2. IsFiniteSet(Failing)
      BY <2>1, ConstantsAssumption, FS_Subset
    <2>3. R <= F
      BY <2>1, <2>2, FS_Subset
    <2>4. QED
      BY <2>1, <2>3, TwoKinds, AtMostSlots, ConstantsAssumption DEF TypeOK
  <1>b. /\ guesses <= ip_fail + R + faults
        /\ ip_block = "after" => guesses + Y < LoginFailMax + n + faults
        /\ ip_block # "after" => guesses < LoginFailMax + F + faults
    BY DEF GuessesCounted
  <1> DEFINE Goal ==
        /\ guesses' <= ip_fail' + R' + faults'
        /\ ip_block' = "after" => guesses' + Y' < LoginFailMax + n + faults'
        /\ ip_block' # "after" => guesses' < LoginFailMax + F' + faults'
  <1>c. Goal => GuessesCounted'
    BY DEF GuessesCounted
  <1>d. /\ R' \in Nat /\ F' \in Nat /\ Y' \in Nat /\ Y' <= n
    <2>1. Recording' \subseteq Slots /\ Failing' \subseteq Slots /\ Trying' \subseteq Slots
      BY DEF Recording, Failing, Trying
    <2>2. QED
      BY <2>1, AtMostSlots
  <1>e. ASSUME NEW p \in Slots, \A q \in Slots \ {p} : request'[q] = request[q]
        PROVE  /\ At(p, "record_failure") /\ ~At(p, "record_failure")' => R' = R - 1
               /\ ~At(p, "record_failure") /\ At(p, "record_failure")' => R' = R + 1
               /\ (At(p, "record_failure") <=> At(p, "record_failure")') => R' = R
               /\ AtOneOf(p, {"record_failure", "block"})
                     /\ ~AtOneOf(p, {"record_failure", "block"})' => F' = F - 1
               /\ ~AtOneOf(p, {"record_failure", "block"})
                     /\ AtOneOf(p, {"record_failure", "block"})' => F' = F + 1
               /\ (AtOneOf(p, {"record_failure", "block"})
                     <=> AtOneOf(p, {"record_failure", "block"})') => F' = F
               /\ At(p, "find_user") /\ ~At(p, "find_user")' => Y' = Y - 1
               /\ ~At(p, "find_user") /\ At(p, "find_user")' => Y' = Y + 1
               /\ (At(p, "find_user") <=> At(p, "find_user")') => Y' = Y
    <2>1. /\ p \in Recording <=> At(p, "record_failure")
          /\ p \in Recording' <=> At(p, "record_failure")'
          /\ p \in Failing <=> AtOneOf(p, {"record_failure", "block"})
          /\ p \in Failing' <=> AtOneOf(p, {"record_failure", "block"})'
          /\ p \in Trying <=> At(p, "find_user")
          /\ p \in Trying' <=> At(p, "find_user")'
      BY DEF Recording, Failing, Trying
    <2>2. /\ p \in Recording \ Recording' => R' = R - 1
          /\ p \in Recording' \ Recording => R' = R + 1
          /\ (p \in Recording <=> p \in Recording') => R' = R
      BY <1>e, Counted, OneSlot
    <2>3. /\ p \in Failing \ Failing' => F' = F - 1
          /\ p \in Failing' \ Failing => F' = F + 1
          /\ (p \in Failing <=> p \in Failing') => F' = F
      BY <1>e, Counted, OneSlot
    <2>4. /\ p \in Trying \ Trying' => Y' = Y - 1
          /\ p \in Trying' \ Trying => Y' = Y + 1
          /\ (p \in Trying <=> p \in Trying') => Y' = Y
      BY <1>e, Counted, OneSlot
    <2>5. QED
      BY <2>1, <2>2, <2>3, <2>4
  <1> HIDE DEF R, F, Y, n
  <1>1. ASSUME NEW p \in Slots, Uncounted(p) PROVE Goal
    BY <1>1, <1>a, <1>b, <1>d, <1>e DEF Uncounted, At, AtOneOf
  <1>2. ASSUME NEW p \in Slots, NotBlocked(p) PROVE Goal
    <2>1. Takes(p, "not_blocked", {"find_user"})
          /\ UNCHANGED <<ip_fail, ip_block, guesses, faults>>
      BY <1>2, LoggingIn DEF NotBlocked, Check, Moves, stores, history, counters
    <2>2. ip_block = "none" \/ request'[p] = None
      BY <1>2 DEF NotBlocked, Check, Refuse, RequestsPlaced
    <2>3. QED
      BY <2>1, <2>2, <1>a, <1>b, <1>d, <1>e DEF Takes, At, AtOneOf
  <1>3. ASSUME NEW p \in Slots, FindUser(p) PROVE Goal
    <2>1. \/ Takes(p, "find_user", {"clear_failures"}) /\ guesses' = guesses
          \/ /\ Takes(p, "find_user", {"record_failure"}) /\ request'[p] # None
             /\ guesses' = guesses + 1
      BY <1>3, LoggingIn DEF Moves
    <2>2. UNCHANGED <<ip_fail, ip_block, faults>>
      BY <1>3 DEF FindUser, stores, counters
    <2>3. QED
      BY <2>1, <2>2, <1>a, <1>b, <1>d, <1>e DEF Takes, At, AtOneOf
  <1>4. ASSUME NEW p \in Slots, RecordFailure(p) PROVE Goal
    BY <1>4, <1>a, <1>b, <1>d, <1>e, RecordFailureEffect DEF At, AtOneOf
  <1>5. ASSUME NEW p \in Slots, Block(p) PROVE Goal
    <2>1. Takes(p, "block", {}) /\ guesses' = guesses /\ ip_fail' = ip_fail
      BY <1>5, LoggingIn DEF Block, Moves, history
    <2>2. \/ ip_block' = "after" /\ faults' = faults
          \/ ip_block' = ip_block /\ faults' = faults + 1
      BY <1>5 DEF Block, Fault
    <2>3. QED
      BY <2>1, <2>2, <1>a, <1>b, <1>d, <1>e DEF Takes, At, AtOneOf
  <1>6. ASSUME NEW p \in Slots, ClearFailures(p) PROVE Goal
    <2>1. Takes(p, "clear_failures", {"set_key"}) /\ ip_block' = ip_block
      BY <1>6, LoggingIn DEF ClearFailures, Moves
    <2>2. \/ ip_fail' = 0 /\ guesses' = 0 /\ faults' = faults
          \/ UNCHANGED <<ip_fail, guesses>> /\ faults' = faults + 1
      BY <1>6 DEF ClearFailures, Fault
    <2>3. QED
      BY <2>1, <2>2, <1>a, <1>b, <1>d, <1>e DEF Takes, At, AtOneOf
  <1>7. request' = request => R' = R /\ F' = F /\ Y' = Y
    BY DEF R, F, Y, Recording, Failing, Trying, At, AtOneOf
  <1>8. ASSUME ExpireFailures PROVE Goal
    <2>1. /\ request' = request /\ ip_fail' = 0 /\ guesses' = 0
          /\ UNCHANGED <<ip_block, faults>>
      BY <1>8 DEF ExpireFailures, counters
    <2>2. QED
      BY <2>1, <1>7, <1>a, <1>b
  <1>9. ASSUME ExpireBlock PROVE Goal
    <2>1. /\ request' = request /\ ip_block' = "none" /\ UNCHANGED <<ip_fail, guesses, faults>>
          /\ ip_block = "after" => ip_fail = 0
      BY <1>9 DEF ExpireBlock, history, counters
    <2>2. QED
      BY <2>1, <1>7, <1>a, <1>b
  <1>10. ASSUME \/ \E t \in Tokens : Expire(t)
                \/ \E u \in Users : ExpireChanges(u)
                \/ UNCHANGED vars
         PROVE  Goal
    <2>1. UNCHANGED <<request, ip_fail, ip_block, guesses, faults>>
      BY <1>10 DEF Expire, ExpireChanges, vars, stores, history, counters
    <2>2. QED
      BY <2>1, <1>7, <1>a, <1>b
  <1>11. QED
    BY <1>1, <1>2, <1>3, <1>4, <1>5, <1>6, <1>8, <1>9, <1>10, <1>c, UncountedSteps
    DEF Next, Serves

-----------------------------------------------------------------------------
(* Requests keep their type.                                               *)
LEMMA PlacedStep ==
    ASSUME TypeOK, [Next]_vars
    PROVE  RequestsPlaced'
  <1> USE PlacedByType
  <1>1. ASSUME NEW p \in Slots, Start(p) \/ Fail(p) PROVE RequestsPlaced'
    BY <1>1, Coming, FailingMoves DEF Comes, Moves
  <1>2. ASSUME NEW p \in Slots,
               \/ IsFree(p) \/ InsertUser(p) \/ InsertSettings(p) \/ NotBlocked(p) \/ FindUser(p)
               \/ RecordFailure(p) \/ Block(p) \/ ClearFailures(p)
        PROVE  RequestsPlaced'
    BY <1>2, Registering, LoggingIn DEF Moves
  <1>3. ASSUME NEW p \in Slots,
               \/ GetKey(p) \/ DeleteKey(p) \/ UnlistKey(p) \/ SetKey(p) \/ ListKey(p)
        PROVE  RequestsPlaced'
    BY <1>3, Exchange, MakingKey DEF Moves
  <1>4. ASSUME NEW p \in Slots, ReadList(p) \/ DeleteEach(p) PROVE RequestsPlaced'
    BY <1>4, ReadingList, DeletingEach DEF Moves
  <1>5. ASSUME NEW p \in Slots,
               \/ DeleteList(p) \/ VerifyPassword(p) \/ OwnsNone(p) \/ SoftDelete(p)
               \/ CountChange(p) \/ NameIsFree(p) \/ UpdateUser(p)
        PROVE  RequestsPlaced'
    BY <1>5, Ending, ChangingName DEF Moves
  <1>6. \/ \E t \in Tokens : Expire(t)
        \/ \E u \in Users : ExpireChanges(u)
        \/ ExpireFailures \/ ExpireBlock \/ UNCHANGED vars
        => RequestsPlaced'
    BY DEF Expire, ExpireChanges, ExpireFailures, ExpireBlock, vars, RequestsPlaced
  <1>7. QED
    BY <1>1, <1>2, <1>3, <1>4, <1>5, <1>6 DEF Next, Serves

(* A revocation is about tokens that exist.                                *)
TodoMinted ==
    \A p \in Slots : request[p] # None => request[p].todo \cup request[p].before \subseteq minted

(* Tokens are never unminted.                                              *)
LEMMA TodoStep ==
    ASSUME TypeOK, [Next]_vars
    PROVE  TodoMinted'
  <1> USE PlacedByType DEF TodoMinted, At, AtOneOf, User
  <1>a. /\ sessions \in [Tokens -> Users \cup {None}] /\ minted \subseteq Tokens
        /\ held \in [Users -> SUBSET minted] /\ dead \subseteq minted
        /\ user_sessions \in [Users -> SUBSET minted]
        /\ successors \in [Tokens -> Nat]
        /\ accounts \in [Users -> {"none", "active", "deleted"}]
        /\ None \notin Tokens
    BY ConstantsAssumption DEF TypeOK
  <1>b. \A p \in Slots : request[p] # None =>
           request[p].user \in Users /\ request[p].old \in Tokens \cup {None}
    BY Fields
  <1>c. TodoMinted
    BY TypeParts DEF TodoMinted
  <1>1. CASE UNCHANGED <<request, tokens>>
    BY <1>c, <1>1, <1>a DEF tokens
  <1>2. ASSUME NEW t \in Tokens, Expire(t) PROVE TodoMinted'
    BY <1>c, <1>2, <1>a DEF Expire, history
  <1>3. ASSUME NEW p \in Slots, Comes(p), UNCHANGED tokens PROVE TodoMinted'
    BY <1>c, <1>3, <1>a DEF Comes, tokens
  <1>4. ASSUME NEW p \in Slots, Elsewhere(p) PROVE TodoMinted'
    BY <1>c, <1>4, <1>a DEF Elsewhere, Same, tokens
  <1>5. ASSUME NEW p \in Slots, InsertUser(p) PROVE TodoMinted'
    BY <1>c, <1>5, InsertUserEffect, <1>a DEF Takes, Same
  <1>6. ASSUME NEW p \in Slots, InsertSettings(p) \/ ClearFailures(p) PROVE TodoMinted'
    BY <1>c, <1>6, SettingsEffect, <1>a DEF Takes, Same, tokens
  <1>7. ASSUME NEW p \in Slots, FindUser(p) PROVE TodoMinted'
    BY <1>c, <1>7, <1>4, FindUserEffect, <1>a DEF Takes, Same
  <1>8. ASSUME NEW p \in Slots, GetKey(p) PROVE TodoMinted'
    BY <1>c, <1>8, <1>4, GetKeyEffect, <1>a DEF Takes, Same
  <1>9. ASSUME NEW p \in Slots, DeleteKey(p) PROVE TodoMinted'
    BY <1>c, <1>9, DeleteKeyEffect, <1>a DEF Takes, Same
  <1>10. ASSUME NEW p \in Slots, UnlistKey(p) PROVE TodoMinted'
    BY <1>c, <1>10, UnlistKeyEffect, <1>a DEF Takes, Same
  <1>11. ASSUME NEW p \in Slots, SetKey(p) PROVE TodoMinted'
    BY <1>c, <1>11, SetKeyEffect, <1>a DEF Takes, Same
  <1>12. ASSUME NEW p \in Slots, ListKey(p) PROVE TodoMinted'
    BY <1>c, <1>12, ListKeyEffect, <1>a DEF Takes, Same
  <1>13. ASSUME NEW p \in Slots, ReadList(p) PROVE TodoMinted'
    BY <1>c, <1>13, ReadListEffect, <1>a, <1>b DEF Takes, Same, User
  <1>14. ASSUME NEW p \in Slots, DeleteEach(p) PROVE TodoMinted'
    BY <1>c, <1>14, DeleteEachEffect, <1>a DEF Takes, Same
  <1>15. ASSUME NEW p \in Slots, DeleteList(p) PROVE TodoMinted'
    BY <1>c, <1>15, DeleteListEffect, <1>a DEF Takes, Same
  <1>16. ASSUME NEW p \in Slots, SoftDelete(p) PROVE TodoMinted'
    BY <1>c, <1>16, SoftDeleteEffect, <1>a DEF Takes, Same
  <1>17. QED
    BY <1>1, <1>2, <1>3, <1>4, <1>5, <1>6, <1>7, <1>8, <1>9, <1>10, <1>11, <1>12, <1>13,
       <1>14, <1>15, <1>16, TokenSteps DEF Storing

(* TypeOK is inductive with OwnTokens.                                     *)
LEMMA TypeStep ==
    ASSUME TypeOK, OwnTokens, [Next]_vars
    PROVE  TypeOK'
  <1>1. StoresTyped' /\ RequestsPlaced' /\ TodoMinted'
    BY TypeParts, StoresStep, PlacedStep, TodoStep
  <1>2. QED
    BY <1>1, TypeParts DEF TodoMinted, TypeOK, StoresTyped, RequestsPlaced

-----------------------------------------------------------------------------
(* Rotation.                                                               *)

(* A token is handed out as the successor of one that had none.            *)
LEMMA RotatedStep ==
    ASSUME TypeOK, OwnTokens, ExchangedOnce, RotatedOnce, [Next]_vars
    PROVE  RotatedOnce'
  <1> USE PlacedByType DEF RotatedOnce, At, AtOneOf, User
  <1>a. /\ sessions \in [Tokens -> Users \cup {None}] /\ minted \subseteq Tokens
        /\ held \in [Users -> SUBSET minted] /\ dead \subseteq minted
        /\ user_sessions \in [Users -> SUBSET minted]
        /\ successors \in [Tokens -> Nat]
        /\ accounts \in [Users -> {"none", "active", "deleted"}]
        /\ None \notin Tokens
    BY ConstantsAssumption DEF TypeOK
  <1>b. \A p \in Slots : request[p] # None =>
           request[p].user \in Users /\ request[p].old \in Tokens \cup {None}
    BY Fields
  <1>1. CASE UNCHANGED <<request, tokens>>
    BY <1>1, <1>a DEF tokens
  <1>2. ASSUME NEW t \in Tokens, Expire(t) PROVE RotatedOnce'
    BY <1>2, <1>a DEF Expire, history
  <1>3. ASSUME NEW p \in Slots, Comes(p), UNCHANGED tokens PROVE RotatedOnce'
    BY <1>3, <1>a DEF Comes, tokens
  <1>4. ASSUME NEW p \in Slots, Elsewhere(p) PROVE RotatedOnce'
    BY <1>4, <1>a DEF Elsewhere, Same, tokens
  <1>5. ASSUME NEW p \in Slots, InsertUser(p) PROVE RotatedOnce'
    BY <1>5, InsertUserEffect, <1>a DEF Takes, Same
  <1>6. ASSUME NEW p \in Slots, InsertSettings(p) \/ ClearFailures(p) PROVE RotatedOnce'
    BY <1>6, SettingsEffect, <1>a DEF Takes, Same, tokens
  <1>7. ASSUME NEW p \in Slots, FindUser(p) PROVE RotatedOnce'
    BY <1>7, <1>4, FindUserEffect, <1>a DEF Takes, Same
  <1>8. ASSUME NEW p \in Slots, GetKey(p) PROVE RotatedOnce'
    BY <1>8, <1>4, GetKeyEffect, <1>a DEF Takes, Same
  <1>9. ASSUME NEW p \in Slots, DeleteKey(p) PROVE RotatedOnce'
    BY <1>9, DeleteKeyEffect, <1>a DEF Takes, Same
  <1>10. ASSUME NEW p \in Slots, UnlistKey(p) PROVE RotatedOnce'
    BY <1>10, UnlistKeyEffect, <1>a DEF Takes, Same
  <1>11. ASSUME NEW p \in Slots, SetKey(p) PROVE RotatedOnce'
    BY <1>11, SetKeyEffect, <1>a DEF Takes, Same
  <1>12. ASSUME NEW p \in Slots, ListKey(p) PROVE RotatedOnce'
    BY <1>12, ListKeyEffect, <1>a, <1>b DEF Takes, Same, ExchangedOnce, Exchanges, Exchanging
  <1>13. ASSUME NEW p \in Slots, ReadList(p) PROVE RotatedOnce'
    BY <1>13, ReadListEffect, <1>a DEF Takes, Same
  <1>14. ASSUME NEW p \in Slots, DeleteEach(p) PROVE RotatedOnce'
    BY <1>14, DeleteEachEffect, <1>a DEF Takes, Same
  <1>15. ASSUME NEW p \in Slots, DeleteList(p) PROVE RotatedOnce'
    BY <1>15, DeleteListEffect, <1>a DEF Takes, Same
  <1>16. ASSUME NEW p \in Slots, SoftDelete(p) PROVE RotatedOnce'
    BY <1>16, SoftDeleteEffect, <1>a DEF Takes, Same
  <1>17. QED
    BY <1>1, <1>2, <1>3, <1>4, <1>5, <1>6, <1>7, <1>8, <1>9, <1>10, <1>11, <1>12, <1>13,
       <1>14, <1>15, <1>16, TokenSteps DEF Storing

-----------------------------------------------------------------------------
(* Names.                                                                  *)

(* A call of slot p that neither counts nor makes a change.                *)
Nameless(p) ==
    /\ \A q \in Slots \ {p} : request'[q] = request[q]
    /\ UNCHANGED <<username_change, renames>>
    /\ request'[p] # None => request'[p].at \notin {"name_is_free", "update_user"}
    /\ faults' \in {faults, faults + 1}

(* Most calls are such.                                                    *)
LEMMA NamelessSteps ==
    ASSUME TypeOK, NEW p \in Slots,
           \/ Start(p) \/ Fail(p) \/ IsFree(p) \/ InsertUser(p) \/ InsertSettings(p)
           \/ NotBlocked(p) \/ FindUser(p) \/ RecordFailure(p) \/ Block(p) \/ ClearFailures(p)
           \/ GetKey(p) \/ DeleteKey(p) \/ UnlistKey(p) \/ SetKey(p) \/ ListKey(p)
           \/ ReadList(p) \/ DeleteEach(p) \/ DeleteList(p)
           \/ VerifyPassword(p) \/ OwnsNone(p) \/ SoftDelete(p)
    PROVE  Nameless(p)
  <1> USE PlacedByType DEF renaming, counters, Nameless, AtOneOf
  <1>1. CASE Start(p)
    BY <1>1, Coming DEF Start, Comes
  <1>2. CASE Fail(p)
    BY <1>2, FailingMoves DEF Fail, Fault, Moves, Takes
  <1>3. CASE IsFree(p) \/ InsertUser(p) \/ InsertSettings(p)
    BY <1>3, Registering DEF IsFree, Check, InsertUser, InsertSettings, Moves, Takes
  <1>4. CASE NotBlocked(p) \/ FindUser(p) \/ RecordFailure(p) \/ Block(p) \/ ClearFailures(p)
    BY <1>4, LoggingIn
    DEF NotBlocked, Check, FindUser, RecordFailure, Block, ClearFailures, Fault, Moves, Takes
  <1>5. CASE GetKey(p) \/ DeleteKey(p) \/ UnlistKey(p) \/ ListKey(p)
    BY <1>5, Exchange DEF GetKey, DeleteKey, UnlistKey, ListKey, Moves, Takes
  <1>6. CASE SetKey(p)
    BY <1>6, MakingKey DEF SetKey, Moves, Takes
  <1>7. CASE ReadList(p)
    BY <1>7, ReadingList DEF ReadList, Moves, Takes
  <1>8. CASE DeleteEach(p)
    BY <1>8, DeletingEach DEF DeleteEach, Moves, Takes
  <1>9. CASE DeleteList(p) \/ VerifyPassword(p) \/ OwnsNone(p) \/ SoftDelete(p)
    BY <1>9, Ending DEF DeleteList, VerifyPassword, OwnsNone, SoftDelete, Moves, Takes
  <1>10. QED
    BY <1>1, <1>2, <1>3, <1>4, <1>5, <1>6, <1>7, <1>8, <1>9

(* A change that is counted past the limit is refused.                     *)
LEMMA CountChangeEffect ==
    ASSUME TypeOK, NEW p \in Slots, CountChange(p)
    PROVE  /\ Takes(p, "count_change", {"name_is_free"}) /\ renames' = renames
           /\ \/ /\ username_change' = [username_change EXCEPT ![User(p)] = @ + 1]
                 /\ faults' = faults
                 /\ username_change[User(p)] + 1 > ChangeMax => request'[p] = None
              \/ username_change' = username_change /\ faults' = faults + 1
  <1>1. Takes(p, "count_change", {"name_is_free"}) /\ renames' = renames
    BY PlacedByType, ChangingName DEF CountChange, Moves
  <1>2. Refuse(p) => request'[p] = None
    BY PlacedByType DEF Refuse, RequestsPlaced
  <1>3. QED
    BY <1>1, <1>2 DEF CountChange, Fault

(* A change is counted before it is allowed.                               *)
LEMMA RenamesStep ==
    ASSUME TypeOK, RenamesCounted, [Next]_vars
    PROVE  RenamesCounted'
  <1> DEFINE n == Cardinality(Slots)
             R(u) == Cardinality(Renaming(u))
             Bounded(u) ==
                /\ renames[u] + R(u) <= username_change[u] + n + faults
                /\ renames[u] + R(u) <= ChangeMax + n + faults
  <1>a. /\ username_change \in [Users -> Nat] /\ renames \in [Users -> Nat] /\ faults \in Nat
        /\ ChangeMax \in Nat \ {0} /\ n \in Nat
    BY AtMostSlots, ConstantsAssumption DEF TypeOK
  <1>b. \A u \in Users : R(u) \in Nat /\ R(u) <= n /\ R(u)' \in Nat /\ R(u)' <= n
    <2>1. \A u \in Users : Renaming(u) \subseteq Slots /\ Renaming(u)' \subseteq Slots
      BY DEF Renaming
    <2>2. QED
      BY <2>1, AtMostSlots
  <1>c. \A u \in Users : Bounded(u)
    BY DEF RenamesCounted
  <1>d. (\A u \in Users : Bounded(u)') => RenamesCounted'
    BY DEF RenamesCounted
  <1>e. ASSUME NEW p \in Slots, \A q \in Slots \ {p} : request'[q] = request[q], NEW u \in Users
        PROVE  /\ p \in Renaming(u) /\ p \notin Renaming(u)' => R(u)' = R(u) - 1
               /\ p \notin Renaming(u) /\ p \in Renaming(u)' => R(u)' = R(u) + 1
               /\ (p \in Renaming(u) <=> p \in Renaming(u)') => R(u)' = R(u)
    <2>1. /\ Renaming(u) \in SUBSET Slots /\ Renaming(u)' \in SUBSET Slots
          /\ Renaming(u) \ {p} = Renaming(u)' \ {p}
      BY <1>e DEF Renaming, AtOneOf, User
    <2>2. QED
      BY <2>1, OneSlot
  <1>f. ASSUME NEW p \in Slots, request[p] # None PROVE User(p) \in Users
    BY <1>f, PlacedByType, Fields DEF User
  <1>g. \A p \in Slots, u \in Users :
           /\ p \in Renaming(u) <=> AtOneOf(p, {"name_is_free", "update_user"}) /\ User(p) = u
           /\ p \in Renaming(u)' <=> AtOneOf(p, {"name_is_free", "update_user"})' /\ User(p)' = u
    BY DEF Renaming
  <1> HIDE DEF R, n
  <1>1. ASSUME NEW p \in Slots, Nameless(p), NEW u \in Users PROVE Bounded(u)'
    <2>1. p \notin Renaming(u)'
      BY <1>1, <1>g DEF Nameless, AtOneOf
    <2>2. R(u)' <= R(u)
      BY <1>1, <1>b, <1>e, <2>1 DEF Nameless
    <2>3. QED
      BY <1>1, <1>a, <1>b, <1>c, <2>2 DEF Nameless
  <1>2. ASSUME NEW p \in Slots, CountChange(p), NEW u \in Users PROVE Bounded(u)'
    <2>1. /\ Takes(p, "count_change", {"name_is_free"}) /\ renames' = renames
          /\ \/ /\ username_change' = [username_change EXCEPT ![User(p)] = @ + 1]
                /\ faults' = faults
                /\ username_change[User(p)] + 1 > ChangeMax => request'[p] = None
             \/ username_change' = username_change /\ faults' = faults + 1
      BY <1>2, CountChangeEffect
    <2>2. /\ p \notin Renaming(u)
          /\ p \in Renaming(u)' => u = User(p) /\ request'[p] # None
      BY <2>1, <1>g DEF Takes, Same, AtOneOf, User
    <2>3. p \in Renaming(u)' => R(u)' = R(u) + 1
      BY <2>1, <2>2, <1>e DEF Takes
    <2>4. p \notin Renaming(u)' => R(u)' = R(u)
      BY <2>1, <2>2, <1>e DEF Takes
    <2>5. User(p) \in Users
      BY <2>1, <1>f DEF Takes
    <2>6. \/ username_change'[u] = username_change[u]
          \/ u = User(p) /\ username_change'[u] = username_change[u] + 1
      BY <1>2, <2>1, <2>5, <1>a
    <2>7. CASE p \in Renaming(u)'
      <3>1. \/ /\ username_change'[u] = username_change[u] + 1 /\ faults' = faults
               /\ username_change[u] + 1 <= ChangeMax
            \/ username_change'[u] = username_change[u] /\ faults' = faults + 1
        BY <2>1, <2>2, <2>5, <2>7, <1>a
      <3>2. QED
        BY <2>1, <2>3, <2>7, <3>1, <1>a, <1>b, <1>c
    <2>8. CASE p \notin Renaming(u)'
      BY <2>1, <2>4, <2>6, <2>8, <1>a, <1>b, <1>c
    <2>9. QED
      BY <2>7, <2>8
  <1>3. ASSUME NEW p \in Slots, NameIsFree(p), NEW u \in Users PROVE Bounded(u)'
    <2>1. Takes(p, "name_is_free", {"update_user"})
          /\ UNCHANGED <<username_change, renames, faults>>
      BY <1>3, PlacedByType, ChangingName DEF NameIsFree, Moves, renaming, counters
    <2>2. p \in Renaming(u)' => p \in Renaming(u)
      BY <2>1, <1>g DEF Takes, Same, AtOneOf, User
    <2>3. R(u)' <= R(u)
      BY <2>1, <2>2, <1>b, <1>e DEF Takes
    <2>4. QED
      BY <2>1, <2>3, <1>a, <1>b, <1>c
  <1>4. ASSUME NEW p \in Slots, UpdateUser(p), NEW u \in Users PROVE Bounded(u)'
    <2>1. /\ Takes(p, "update_user", {}) /\ request'[p] = None
          /\ UNCHANGED <<username_change, faults>>
          /\ \/ renames' = [renames EXCEPT ![User(p)] = @ + 1]
             \/ renames' = renames
      BY <1>4, PlacedByType, ChangingName DEF UpdateUser, Moves, counters
    <2>2. p \notin Renaming(u)' /\ (p \in Renaming(u) <=> u = User(p))
      BY <2>1, <1>g DEF Takes, AtOneOf
    <2>3. IF u = User(p) THEN R(u)' = R(u) - 1 ELSE R(u)' = R(u)
      BY <2>1, <2>2, <1>e DEF Takes
    <2>4. \/ renames'[u] = renames[u]
          \/ u = User(p) /\ renames'[u] = renames[u] + 1
      BY <1>4, <2>1, <1>a, <1>f DEF Takes
    <2>5. QED
      BY <2>1, <2>3, <2>4, <1>a, <1>b, <1>c
  <1>5. request' = request => \A u \in Users : R(u)' = R(u)
    BY DEF R, Renaming, AtOneOf, User
  <1>6. ASSUME NEW v \in Users, ExpireChanges(v), NEW u \in Users PROVE Bounded(u)'
    <2>1. /\ request' = request /\ faults' = faults
          /\ username_change' = [username_change EXCEPT ![v] = 0]
          /\ renames' = [renames EXCEPT ![v] = 0]
      BY <1>6 DEF ExpireChanges, counters
    <2>2. QED
      BY <2>1, <1>5, <1>a, <1>b, <1>c
  <1>7. ASSUME \/ \E t \in Tokens : Expire(t)
               \/ ExpireFailures \/ ExpireBlock \/ UNCHANGED vars,
               NEW u \in Users
        PROVE  Bounded(u)'
    <2>1. UNCHANGED <<request, username_change, renames, faults>>
      BY <1>7 DEF Expire, ExpireFailures, ExpireBlock, vars, renaming, counters
    <2>2. QED
      BY <2>1, <1>5, <1>a, <1>b, <1>c
  <1>8. QED
    <2>1. \A p \in Slots, u \in Users : Start(p) \/ Serves(p) \/ Fail(p) => Bounded(u)'
      BY <1>1, <1>2, <1>3, <1>4, NamelessSteps DEF Serves
    <2>2. QED
      BY <1>6, <1>7, <1>d, <2>1 DEF Next

-----------------------------------------------------------------------------
(* The first state.                                                        *)

(* No request yet, and sessions only of those with an account.             *)
LEMMA InitFacts ==
    ASSUME Init
    PROVE  /\ \A p \in Slots : request[p] = None
           /\ \A u \in Users : held[u] = {t \in Tokens : sessions[t] = u}
           /\ \A u \in Users : user_sessions[u] = held[u]
           /\ minted \subseteq Tokens
           /\ \A u \in Users : held[u] # {} => accounts[u] # "none"
           /\ \A t \in Tokens : sessions[t] \in Users \cup {None}
           /\ None \notin Users \cup Tokens
  <1>1. settings \subseteq Users /\ \A u \in settings : accounts[u] = "active"
    BY DEF Init
  <1>2. /\ sessions \in [Tokens -> {None} \cup settings]
        /\ user_sessions = [u \in Users |-> {t \in Tokens : sessions[t] = u}]
        /\ held = user_sessions /\ minted = UNION {held[u] : u \in Users}
        /\ request = [p \in Slots |-> None]
    BY DEF Init
  <1>3. QED
    BY <1>1, <1>2, ConstantsAssumption

(* Types at first, ...                                                     *)
LEMMA TypeInit == Init => TypeOK
  <1> SUFFICES ASSUME Init PROVE TypeOK
    OBVIOUS
  <1>1. /\ accounts \in [Users -> {"none", "active", "deleted"}]
        /\ settings \subseteq Users
        /\ sessions \in [Tokens -> Users \cup {None}]
        /\ ip_fail \in Nat /\ guesses \in Nat
        /\ username_change \in [Users -> Nat] /\ renames \in [Users -> Nat]
        /\ ip_block \in {"none", "before", "after"}
        /\ dead = {} /\ replayed = {} /\ closed = {} /\ straddled = {}
        /\ successors \in [Tokens -> Nat]
        /\ started \in 0 .. MaxRequests /\ faults \in 0 .. MaxFaults
        /\ request \in [Slots -> Requests \cup {None}]
    BY ConstantsAssumption DEF Init
  <1>2. user_sessions \in [Users -> SUBSET minted] /\ held \in [Users -> SUBSET minted]
    <2>1. /\ user_sessions = [u \in Users |-> {t \in Tokens : sessions[t] = u}]
          /\ held = user_sessions /\ minted = UNION {held[u] : u \in Users}
      BY DEF Init
    <2>2. QED
      BY <2>1
  <1>3. minted \subseteq Tokens
        /\ \A u \in Users : \A t \in held[u] \cup user_sessions[u] : sessions[t] \in {u, None}
    BY InitFacts
  <1>4. QED
    BY <1>1, <1>2, <1>3, InitFacts DEF TypeOK

(* ... the rest of the invariant, ...                                      *)
LEMMA TokensInit ==
    Init => /\ OwnTokens /\ KeysBeforeList /\ ExchangedOnce /\ Registered /\ RevocationsAlone
            /\ RevokedStayOut /\ RotatedOnce
  <1> SUFFICES ASSUME Init
               PROVE  /\ OwnTokens /\ KeysBeforeList /\ ExchangedOnce /\ Registered
                      /\ RevocationsAlone /\ RevokedStayOut /\ RotatedOnce
    OBVIOUS
  <1>1. dead = {} /\ closed = {} /\ successors = [t \in Tokens |-> 0]
    BY DEF Init
  <1>2. QED
    BY <1>1, InitFacts
    DEF OwnTokens, KeysBeforeList, ExchangedOnce, Exchanges, Exchanging, Registered, Creates,
        RevocationsAlone, Revokes, RevokedStayOut, RotatedOnce, Live, At, AtOneOf

(* ... and the counts.                                                     *)
LEMMA CountsInit == Init => GuessesCounted /\ RenamesCounted
  <1> SUFFICES ASSUME Init PROVE GuessesCounted /\ RenamesCounted
    OBVIOUS
  <1>1. /\ ip_fail = 0 /\ guesses = 0 /\ faults = 0 /\ ip_block = "none"
        /\ \A u \in Users : renames[u] = 0 /\ username_change[u] = 0
    BY DEF Init
  <1>2. Recording = {} /\ Failing = {} /\ \A u \in Users : Renaming(u) = {}
    BY InitFacts DEF Recording, Failing, Renaming, At, AtOneOf
  <1>3. QED
    BY <1>1, <1>2, FS_EmptySet, AtMostSlots, ConstantsAssumption
    DEF GuessesCounted, RenamesCounted

-----------------------------------------------------------------------------
(* The theorems.                                                           *)

(* What is inductive: each step of a conjunct uses those before it, and    *)
(* what TypeOK says of tokens uses OwnTokens.                              *)
SessionInv ==
    /\ TypeOK /\ OwnTokens
    /\ KeysBeforeList /\ ExchangedOnce /\ Registered /\ RevocationsAlone
    /\ RevokedStayOut

(* It holds throughout.                                                    *)
LEMMA SessionInvariant == Spec => []SessionInv
  <1>1. Init => SessionInv
    BY TypeInit, TokensInit DEF SessionInv
  <1>2. SessionInv /\ [Next]_vars => SessionInv'
    BY TypeStep, OwnTokensStep, ListStep, ExchangedStep, RegisteredStep, RevocationsStep,
       RevokedStep DEF SessionInv
  <1>3. QED
    BY <1>1, <1>2, PTL DEF Spec

(* Every variable keeps its type, and a token belongs to one user in the   *)
(* keys, in the sets and with the clients.                                 *)
THEOREM TypeCorrect == Spec => []TypeOK
  <1>1. SessionInv => TypeOK
    BY DEF SessionInv
  <1>2. QED
    BY <1>1, SessionInvariant, PTL

(* Once a logout or a deletion has answered, no token the user held before *)
(* it is good, none at all after a deletion, and every good one is in the  *)
(* user's set: unless a login or a refresh was under way past its check    *)
(* when the tokens were read.                                              *)
THEOREM RevocationHolds == Spec => []RevokedStayOut
  <1>1. SessionInv => RevokedStayOut
    BY DEF SessionInv
  <1>2. QED
    BY <1>1, SessionInvariant, PTL

(* A refresh token is exchanged once, unless two refreshes have both read  *)
(* its session before either deleted it.                                   *)
THEOREM RotatesOnce == Spec => []RotatedOnce
  <1>1. Init => RotatedOnce
    BY TokensInit
  <1>2. SessionInv /\ RotatedOnce /\ [Next]_vars => RotatedOnce'
    BY RotatedStep DEF SessionInv
  <1>3. QED
    BY <1>1, <1>2, SessionInvariant, PTL DEF Spec

(* At most LOGIN_FAIL_MAX wrong passwords are tried before the address is  *)
(* blocked, and a name is changed ChangeMax times an hour, but for what is *)
(* under way and what Redis failed to count.                               *)
THEOREM AttemptsAreBounded == Spec => []AttemptsBounded
  <1>1. Init => GuessesCounted /\ RenamesCounted
    BY CountsInit
  <1>2. SessionInv /\ GuessesCounted /\ RenamesCounted /\ [Next]_vars
           => GuessesCounted' /\ RenamesCounted'
    BY GuessesStep, RenamesStep DEF SessionInv
  <1>3. SessionInv /\ GuessesCounted /\ RenamesCounted => AttemptsBounded
    <2> SUFFICES ASSUME SessionInv, GuessesCounted, RenamesCounted PROVE AttemptsBounded
      OBVIOUS
    <2>1. /\ guesses \in Nat /\ faults \in Nat /\ LoginFailMax \in Nat
          /\ renames \in [Users -> Nat] /\ ChangeMax \in Nat
      BY ConstantsAssumption DEF SessionInv, TypeOK
    <2>2. /\ Cardinality(Failing) \in Nat /\ Cardinality(Failing) <= Cardinality(Slots)
          /\ Cardinality(Trying) \in Nat /\ Cardinality(Slots) \in Nat
      BY AtMostSlots DEF Failing, Trying
    <2>3. \A u \in Users : Cardinality(Renaming(u)) \in Nat
      BY AtMostSlots DEF Renaming
    <2>4. guesses < LoginFailMax + Cardinality(Slots) + faults
      BY <2>1, <2>2 DEF GuessesCounted
    <2>5. \A u \in Users : renames[u] <= ChangeMax + Cardinality(Slots) + faults
      BY <2>1, <2>2, <2>3 DEF RenamesCounted
    <2>6. QED
      BY <2>4, <2>5 DEF AttemptsBounded
  <1>4. QED
    BY <1>1, <1>2, <1>3, SessionInvariant, PTL DEF Spec

=============================================================================
