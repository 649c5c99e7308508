---------------------------- MODULE DataService ----------------------------
(***************************************************************************)
(* The read path of lumiere-data-services: DataService::get_or_fetch over  *)
(* CoalescingCache::get_or_fetch.  A call looks in Redis, then in the map  *)
(* of fetches in flight; the first call of a key becomes the leader, does  *)
(* the database read, fills Redis and broadcasts the value; the others     *)
(* subscribe to its broadcast channel.                                     *)
(*                                                                         *)
(* Calls run as tasks of a multi-threaded runtime, so an action is one     *)
(* access to the map, to the channel or to Redis.  The future of a call    *)
(* may be dropped at any of its awaits (its client has gone).  The caller  *)
(* that writes the database and then invalidates stands outside the crate. *)
(***************************************************************************)
EXTENDS Naturals, FiniteSets

CONSTANTS
    Callers,      \* calls of get_or_fetch, each made once
    Keys,
    Absent,       \* no entry, no channel
    MaxInFlight,  \* CacheConfig.max_in_flight, 0 for no limit
    MaxWrites,    \* bound on the writes of each key
    MaxFaults     \* bound on failed fetches, failed Redis calls and dropped calls

ASSUME DataAssumption ==
    /\ Absent \notin Callers \cup Nat
    /\ {MaxInFlight, MaxWrites, MaxFaults} \subseteq Nat

VARIABLES
    pc,         \* pc[c]: where call c stands
    key,        \* key[c]: its key
    chan,       \* chan[c]: the channel it uses, named by the leader that made it
    early,      \* early[c]: it subscribed before the leader's send
    val,        \* val[c]: the version of the value it has fetched or received
    outcome,    \* outcome[c]: what it returned
    in_flight,  \* CoalescingCache.in_flight: key -> channel
    sent,       \* channels on which the value has been sent
    cache,      \* Redis: key -> version
    db,         \* the database: key -> version
    dirty,      \* keys written and not yet invalidated
    floor,      \* history: the version the call is entitled to, see Call
    faults      \* how much of MaxFaults is used

calls     == <<pc, key, chan, early, val, outcome, floor>>
data_vars == <<calls, in_flight, sent, cache, db, dirty, faults>>

(* "wait_tx" is the wait of a follower that still owns a clone of the      *)
(* sender: the local `tx` of the slow path lives until the call returns.   *)
Leading   == {"fetch", "cache", "send", "remove", "remove_err"}
Following == {"wait", "wait_tx"}
Labels    == {"new", "redis", "limit", "lookup", "entry", "subscribe", "done"}
                 \cup Leading \cup Following
Outcomes  == {"pending", "ok", "fetch_error", "coalescing_failed", "rejected", "cancelled"}

-----------------------------------------------------------------------------
(* Helpers.                                                                *)

Goto(c, label) == pc' = [pc EXCEPT ![c] = label]
Return(c, how) == Goto(c, "done") /\ outcome' = [outcome EXCEPT ![c] = how]
Fault == faults < MaxFaults /\ faults' = faults + 1

(* A broadcast channel is closed once no sender is left: the leader's own, *)
(* the one in the map, and the clones of slow-path followers.              *)
Closed(ch) ==
    /\ pc[ch] \in {"remove_err", "done"}
    /\ \A k \in Keys : in_flight[k] # ch
    /\ \A c \in Callers : pc[c] \in {"subscribe", "wait_tx"} => chan[c] # ch

DataInit ==
    /\ pc = [c \in Callers |-> "new"]
    /\ key \in [Callers -> Keys]
    /\ chan = [c \in Callers |-> Absent]
    /\ early = [c \in Callers |-> FALSE]
    /\ val = [c \in Callers |-> 0]
    /\ outcome = [c \in Callers |-> "pending"]
    /\ in_flight = [k \in Keys |-> Absent]
    /\ sent = {}
    /\ cache = [k \in Keys |-> Absent]
    /\ db = [k \in Keys |-> 1]
    /\ dirty = {}
    /\ floor = [c \in Callers |-> 0]
    /\ faults = 0

-----------------------------------------------------------------------------
(* Deviations: what a plausible slip in the code would make of the         *)
(* definition each is named after.  Nothing below uses them; they show     *)
(* that the properties depend on what the code does.                       *)

(* Redis filled in the background, after the callers have been answered.   *)
LeaderSteps_CacheLast ==
    [fetch |-> "send", send |-> "remove", remove |-> "cache", cache |-> "done"]

(* get, then insert, in place of the entry API.                            *)
Entry_InsertAnyway(c) ==
    /\ pc[c] = "entry"
    /\ in_flight' = [in_flight EXCEPT ![key[c]] = c]
    /\ chan' = [chan EXCEPT ![c] = c]
    /\ Goto(c, "fetch")
    /\ UNCHANGED <<key, early, val, outcome, floor, sent, cache, db, dirty, faults>>

(* A follower woken by the broadcast reads Redis rather than the value.    *)
Receive_FromRedis(c) ==
    /\ pc[c] \in Following
    /\ LET ch == chan[c]
       IN  IF early[c] /\ ch \in sent
           THEN /\ val' = [val EXCEPT ![c] =
                       IF cache[key[c]] = Absent THEN val[ch] ELSE cache[key[c]]]
                /\ Return(c, "ok")
           ELSE /\ Closed(ch)
                /\ Return(c, "coalescing_failed")
                /\ UNCHANGED val
    /\ UNCHANGED <<key, chan, early, floor, in_flight, sent, cache, db, dirty, faults>>

-----------------------------------------------------------------------------
(* DataService::get_or_fetch up to the coalescing.                         *)

(* The call is made.  It is entitled to the database's version of this     *)
(* moment if no fetch of the key is in flight and Redis has nothing older: *)
(* only a fetch that began earlier could bring back an older version.      *)
Call(c) ==
    /\ pc[c] = "new"
    /\ Goto(c, "redis")
    /\ LET k == key[c]
       IN  floor' = [floor EXCEPT ![c] =
               IF in_flight[k] = Absent /\ cache[k] \in {Absent, db[k]} THEN db[k] ELSE 0]
    /\ UNCHANGED <<key, chan, early, val, outcome, in_flight, sent, cache, db,
                   dirty, faults>>

(* Step 1: redis.get; an error falls through to the database.              *)
GetCached(c) ==
    /\ pc[c] = "redis"
    /\ LET hit == cache[key[c]]
       IN  \/ /\ hit # Absent
              /\ val' = [val EXCEPT ![c] = hit]
              /\ Return(c, "ok")
              /\ UNCHANGED faults
           \/ /\ (hit = Absent /\ UNCHANGED faults) \/ Fault
              /\ Goto(c, "limit")
              /\ UNCHANGED <<val, outcome>>
    /\ UNCHANGED <<key, chan, early, floor, in_flight, sent, cache, db, dirty>>

(* Step 2: in_flight_count() against max_in_flight.                        *)
CheckLimit(c) ==
    /\ pc[c] = "limit"
    /\ IF /\ MaxInFlight > 0
          /\ Cardinality({k \in Keys : in_flight[k] # Absent}) >= MaxInFlight
       THEN Return(c, "rejected")
       ELSE Goto(c, "lookup") /\ UNCHANGED outcome
    /\ UNCHANGED <<key, chan, early, val, floor, in_flight, sent, cache, db, dirty, faults>>

-----------------------------------------------------------------------------
(* CoalescingCache::get_or_fetch.                                          *)

(* Fast path: in_flight.get, subscribing under the shard lock.             *)
Lookup(c) ==
    /\ pc[c] = "lookup"
    /\ LET ch == in_flight[key[c]]
       IN  IF ch = Absent
           THEN Goto(c, "entry") /\ UNCHANGED <<chan, early>>
           ELSE /\ Goto(c, "wait")
                /\ chan' = [chan EXCEPT ![c] = ch]
                /\ early' = [early EXCEPT ![c] = ch \notin sent]
    /\ UNCHANGED <<key, val, outcome, floor, in_flight, sent, cache, db, dirty, faults>>

(* Slow path: the entry API decides who leads; a follower clones the       *)
(* sender under the lock and subscribes after releasing it.                *)
Entry(c) ==
    /\ pc[c] = "entry"
    /\ LET ch == in_flight[key[c]]
       IN  IF ch = Absent
           THEN /\ in_flight' = [in_flight EXCEPT ![key[c]] = c]
                /\ chan' = [chan EXCEPT ![c] = c]
                /\ Goto(c, "fetch")
           ELSE /\ chan' = [chan EXCEPT ![c] = ch]
                /\ Goto(c, "subscribe")
                /\ UNCHANGED in_flight
    /\ UNCHANGED <<key, early, val, outcome, floor, sent, cache, db, dirty, faults>>

Subscribe(c) ==
    /\ pc[c] = "subscribe"
    /\ early' = [early EXCEPT ![c] = chan[c] \notin sent]
    /\ Goto(c, "wait_tx")
    /\ UNCHANGED <<key, chan, val, outcome, floor, in_flight, sent, cache, db,
                   dirty, faults>>

(* rx.recv().await: a value sent after the subscription, or RecvError once *)
(* the channel is closed.                                                  *)
Receive(c) ==
    /\ pc[c] \in Following
    /\ LET ch == chan[c]
       IN  IF early[c] /\ ch \in sent
           THEN /\ val' = [val EXCEPT ![c] = val[ch]]
                /\ Return(c, "ok")
           ELSE /\ Closed(ch)
                /\ Return(c, "coalescing_failed")
                /\ UNCHANGED val
    /\ UNCHANGED <<key, chan, early, floor, in_flight, sent, cache, db, dirty, faults>>

(* What the leader does, and what it does next.                            *)
LeaderSteps ==
    [fetch |-> "cache", cache |-> "send", send |-> "remove", remove |-> "done"]
Advance(c, label) == Goto(c, LeaderSteps[label])

(* fetch().await: the database read.                                       *)
Fetch(c) ==
    /\ pc[c] = "fetch"
    /\ \/ /\ val' = [val EXCEPT ![c] = db[key[c]]]
          /\ Advance(c, "fetch")
          /\ UNCHANGED faults
       \/ Fault /\ Goto(c, "remove_err") /\ UNCHANGED val
    /\ UNCHANGED <<key, chan, early, outcome, floor, in_flight, sent, cache, db,
                   dirty>>

(* Step 4: redis.set, best effort.                                         *)
CacheSet(c) ==
    /\ pc[c] = "cache"
    /\ \/ cache' = [cache EXCEPT ![key[c]] = val[c]] /\ UNCHANGED faults
       \/ Fault /\ UNCHANGED cache
    /\ Advance(c, "cache")
    /\ UNCHANGED <<key, chan, early, val, outcome, floor, in_flight, sent, db,
                   dirty>>

(* tx.send(value)                                                          *)
Send(c) ==
    /\ pc[c] = "send"
    /\ sent' = sent \cup {c}
    /\ Advance(c, "send")
    /\ UNCHANGED <<key, chan, early, val, outcome, floor, in_flight, cache, db,
                   dirty, faults>>

(* in_flight.remove(&key), and the leader returns the value.               *)
RemoveOk(c) ==
    /\ pc[c] = "remove"
    /\ in_flight' = [in_flight EXCEPT ![key[c]] = Absent]
    /\ outcome' = [outcome EXCEPT ![c] = "ok"]
    /\ Advance(c, "remove")
    /\ UNCHANGED <<key, chan, early, val, floor, sent, cache, db, dirty, faults>>

(* drop(tx), in_flight.remove(&key), and the leader returns its error.     *)
RemoveErr(c) ==
    /\ pc[c] = "remove_err"
    /\ in_flight' = [in_flight EXCEPT ![key[c]] = Absent]
    /\ Return(c, "fetch_error")
    /\ UNCHANGED <<key, chan, early, val, floor, sent, cache, db, dirty, faults>>

-----------------------------------------------------------------------------
(* The environment.                                                        *)

(* The future of a call is dropped at an await: its locals go, an entry it *)
(* has in the map stays.  A SET on its way to Redis may still be executed. *)
Cancel(c) ==
    /\ Fault
    /\ pc[c] \in {"redis", "fetch", "cache"} \cup Following
    /\ Return(c, "cancelled")
    /\ \/ UNCHANGED cache
       \/ pc[c] = "cache" /\ cache' = [cache EXCEPT ![key[c]] = val[c]]
    /\ UNCHANGED <<key, chan, early, val, floor, in_flight, sent, db, dirty>>

(* A write of the database, and the invalidate() that follows it.          *)
Write(k) ==
    /\ db[k] <= MaxWrites
    /\ db' = [db EXCEPT ![k] = @ + 1]
    /\ dirty' = dirty \cup {k}
    /\ UNCHANGED <<calls, in_flight, sent, cache, faults>>

Invalidate(k) ==
    /\ k \in dirty
    /\ dirty' = dirty \ {k}
    /\ cache' = [cache EXCEPT ![k] = Absent]
    /\ UNCHANGED <<calls, in_flight, sent, db, faults>>

(* The TTL of the entry.                                                   *)
ExpireCache(k) ==
    /\ cache[k] # Absent
    /\ cache' = [cache EXCEPT ![k] = Absent]
    /\ UNCHANGED <<calls, in_flight, sent, db, dirty, faults>>

Serve(c) ==
    \/ GetCached(c) \/ CheckLimit(c) \/ Lookup(c) \/ Entry(c) \/ Subscribe(c)
    \/ Receive(c) \/ Fetch(c) \/ CacheSet(c) \/ Send(c) \/ RemoveOk(c) \/ RemoveErr(c)

DataNext ==
    \/ \E c \in Callers : Call(c) \/ Serve(c) \/ Cancel(c)
    \/ \E k \in Keys : Write(k) \/ Invalidate(k) \/ ExpireCache(k)

DataSpec == DataInit /\ [][DataNext]_data_vars

(* A task is polled until it returns.                                      *)
DataFairSpec == DataSpec /\ \A c \in Callers : WF_data_vars(Serve(c))

-----------------------------------------------------------------------------
(* Properties.                                                             *)

DataTypeOK ==
    /\ pc \in [Callers -> Labels]
    /\ key \in [Callers -> Keys]
    /\ chan \in [Callers -> Callers \cup {Absent}]
    /\ early \in [Callers -> BOOLEAN]
    /\ val \in [Callers -> Nat]
    /\ outcome \in [Callers -> Outcomes]
    /\ in_flight \in [Keys -> Callers \cup {Absent}]
    /\ sent \subseteq Callers
    /\ cache \in [Keys -> Nat \cup {Absent}]
    /\ db \in [Keys -> Nat]
    /\ dirty \subseteq Keys
    /\ floor \in [Callers -> Nat]
    /\ \A c \in Callers :
          /\ pc[c] \in Leading => chan[c] = c
          /\ pc[c] \in Following \cup {"subscribe"} => chan[c] \in Callers \ {c}
          /\ pc[c] = "done" <=> outcome[c] # "pending"

(* coalescing.rs, "only one fetch executes": at no time do two calls fetch *)
(* the same key, whatever fails or is dropped; and the call that fetches   *)
(* is the one the others are directed to, for as long as it does: the map  *)
(* forgets a fetch when it ends, unless the call was dropped half-way.     *)
OneFetchPerKey ==
    /\ \A c \in Callers : pc[c] \in Leading => in_flight[key[c]] = c
    /\ \A k \in Keys : in_flight[k] # Absent =>
          \/ pc[in_flight[k]] \in Leading
          \/ outcome[in_flight[k]] = "cancelled"

(* What a follower is told, if it is told anything: with "ok" it has its   *)
(* leader's value, whatever Redis and the database hold by then, and it is *)
(* turned away (CoalescingFailed) only if the leader failed or had sent    *)
(* before the follower subscribed.  Whether it is told is WaitersAnswered. *)
FollowersShareOutcome ==
    \A c \in Callers : chan[c] \in Callers \ {c} =>
        /\ outcome[c] = "ok" => val[c] = val[chan[c]] /\ chan[c] \in sent
        /\ outcome[c] = "coalescing_failed" =>
              ~early[c] \/ outcome[chan[c]] = "fetch_error"

(* coalescing.rs:9 says "all waiters receive the result", :93 "all waiting *)
(* receivers will get RecvError": whoever waits is answered some time.     *)
(* The code's follower of the slow path keeps its own clone of the sender  *)
(* open and subscribes after the map is unlocked: if the leader has sent   *)
(* by then, there is neither a value nor an error to wake it.              *)
WaitersAnswered ==
    \A c \in Callers : pc[c] \in Following ~> pc[c] = "done"

(* Coalescing and caching do not serve the past: a call made while no      *)
(* fetch of its key is in flight and Redis has nothing stale returns a     *)
(* version at least as new as the database's when it was made.             *)
NotOlderThanStart ==
    \A c \in Callers : outcome[c] = "ok" => val[c] >= floor[c]
=============================================================================
