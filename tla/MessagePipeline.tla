--------------------------- MODULE MessagePipeline ---------------------------
(***************************************************************************)
(* The messages of one channel with slow mode: the rows and pins in        *)
(* ScyllaDB, last_message_id in PostgreSQL and the slow mode keys in Redis *)
(* that the handlers of routes/messages.rs change; the JetStream stream    *)
(* they publish to; and the three workers that consume it.                 *)
(*                                                                         *)
(* A handler is a sequence of calls to these stores, given by the function *)
(* named after it; a call is an action, and requests interleave between    *)
(* calls.  There is no transaction anywhere.  A request that is refused by *)
(* a permission check changes nothing and is left out; so are the core     *)
(* NATS events for the gateway, which nothing here waits for, and texts,   *)
(* of which only what the search worker looks at is kept.                  *)
(***************************************************************************)
EXTENDS Naturals, Sequences, FiniteSets

CONSTANTS
    Slots,        \* places for requests being served at once
    Users,
    Workers,      \* the workers that run, of the three
    Managers,     \* users with MANAGE_MESSAGES in the channel
    None,         \* absent: no request, no row, no author
    OldIds,       \* the messages the channel holds at first
    MaxIds,       \* bound on the messages
    MaxPins,      \* 50 in the code
    MaxDeliver,   \* deliveries of an event to a worker, 3 in the code
    MaxRequests,  \* bound on the requests started
    MaxFaults     \* bound on the calls, connections and requests that fail

ASSUME ConstantsAssumption ==
    /\ Slots # {} /\ IsFiniteSet(Slots)
    /\ Managers \subseteq Users
    /\ Workers \subseteq {"search-indexer", "push-worker", "read-state-updater"}
    /\ None \notin Users
    /\ OldIds \in Nat /\ MaxIds \in Nat /\ OldIds <= MaxIds
    /\ MaxPins \in Nat \ {0} /\ MaxDeliver \in Nat \ {0}
    /\ MaxRequests \in Nat /\ MaxFaults \in Nat

VARIABLES
    messages,         \* messages[m]: the row of message m, or None
    pins,             \* the table pins
    last_message_id,  \* channels.last_message_id
    slowmode,         \* users with a slow mode key
    request,          \* request[p]: the request served in slot p, or None
    ids_used,         \* the generator's last id
    stream,           \* the events of the stream MESSAGES
    deliveries,       \* deliveries[w][e]: how often event e was delivered to w
    inbox,            \* inbox[w]: events delivered that w has yet to handle
    acked,            \* acked[w]: the events w has acknowledged
    connected,        \* workers with a consumer
    index,            \* messages the search service finds
    pushed,           \* pushed[m]: rounds of push notifications for message m
    in_window,        \* history: in_window[u]: sends since u's key expired
    races,            \* history: the kinds of overlap that have happened
    started, faults   \* how much of each bound is used

rows     == <<messages, pins, last_message_id, slowmode, ids_used, in_window>>
workers  == <<deliveries, inbox, acked, connected, index, pushed>>
counters == <<started, faults>>
vars == <<rows, request, stream, workers, races, counters>>

Ids     == 1 .. MaxIds
Events  == 1 .. MaxRequests

-----------------------------------------------------------------------------
(* Deviations: what a plausible slip in the code would make of the         *)
(* definition each is named after.  Nothing below uses them; they show     *)
(* that the properties depend on what the code does.                       *)

(* The event before the row ...                                            *)
send_message_EventFirst ==
    [start      |-> "check_slow",
     check_slow |-> "next_id",
     next_id    |-> "publish",
     publish    |-> "insert",
     insert     |-> "set_last",
     set_last   |-> "set_slow",
     set_slow   |-> "end"]

(* ... and before the deletion.                                            *)
delete_message_EventFirst ==
    [start       |-> "publish",
     publish     |-> "soft_delete",
     soft_delete |-> "end"]

(* count > 50.                                                             *)
Room_OffByOne(n) == n <= MaxPins

(* A worker that returns instead of starting again.                        *)
Restart_Never(w) == FALSE

(* Bulk deletions that the search worker does not know.                    *)
Removed_SinglesOnly(event) ==
    IF event.type = "MESSAGE_DELETE" THEN event.ids ELSE {}

-----------------------------------------------------------------------------
(* The handlers: from each call to the one after it.                       *)

send_message ==
    [start      |-> "check_slow",
     check_slow |-> "next_id",
     next_id    |-> "insert",
     insert     |-> "set_last",
     set_last   |-> "set_slow",
     set_slow   |-> "publish",
     publish    |-> "end"]

(* Of execute_webhook: no slow mode, no last_message_id, no durable event. *)
execute_webhook ==
    [start   |-> "next_id",
     next_id |-> "insert",
     insert  |-> "end"]

edit_message ==
    [start   |-> "update",
     update  |-> "publish",
     publish |-> "end"]

delete_message ==
    [start       |-> "soft_delete",
     soft_delete |-> "publish",
     publish     |-> "end"]

bulk_delete ==
    [start       |-> "delete_each",
     delete_each |-> "publish",
     publish     |-> "end"]

pin_message ==
    [start      |-> "count_pins",
     count_pins |-> "exists",
     exists     |-> "set_pinned",
     set_pinned |-> "insert_pin",
     insert_pin |-> "end"]

unpin_message ==
    [start        |-> "unset_pinned",
     unset_pinned |-> "delete_pin",
     delete_pin   |-> "end"]

Handler ==
    [send_message    |-> send_message,   execute_webhook |-> execute_webhook,
     edit_message    |-> edit_message,   delete_message  |-> delete_message,
     bulk_delete     |-> bulk_delete,    pin_message     |-> pin_message,
     unpin_message   |-> unpin_message]

Calls(op) == {Handler[op][c] : c \in DOMAIN Handler[op]} \ {"end"}

Row == [author : Users \cup {None}, deleted : BOOLEAN, pinned : BOOLEAN,
        text : {"empty", "text"}]

(* ids are the messages it is about, todo those it has still to delete.    *)
Request ==
    [op : DOMAIN Handler, user : Users \cup {None}, ids : SUBSET Ids, todo : SUBSET Ids,
     text : {"empty", "text"}, at : UNION {Calls(op) : op \in DOMAIN Handler}]

ASSUME NoneAssumption == None \notin Row \cup Request

At(p, call) == request[p] # None /\ request[p].at = call

AtOneOf(p, calls) == request[p] # None /\ request[p].at \in calls

(* The message a request that is not about several is about.               *)
Subject(p) == CHOOSE m \in request[p].ids : TRUE

After(r) ==
    LET next == Handler[r.op][r.at]
    IN  IF next = "end" THEN None ELSE [r EXCEPT !.at = next]

(* The call has succeeded: on to the next one, or the response.            *)
Proceed(p) == request' = [request EXCEPT ![p] = After(@)]

Race(kind, happens) == races' = IF happens THEN races \cup {kind} ELSE races

Fault == faults < MaxFaults /\ faults' = faults + 1

Live == {m \in Ids : messages[m] # None /\ ~messages[m].deleted}

(* The channel holds some messages, served and consumed long ago.          *)
Init ==
    /\ \E author \in Users, pinned \in SUBSET (1 .. OldIds) :
          /\ Cardinality(pinned) <= MaxPins
          /\ messages = [m \in Ids |-> IF m <= OldIds
                 THEN [author |-> author, deleted |-> FALSE, pinned |-> m \in pinned,
                       text |-> "text"]
                 ELSE None]
          /\ pins = pinned
    /\ index = 1 .. OldIds
    /\ last_message_id = OldIds
    /\ ids_used = OldIds
    /\ slowmode = {} /\ in_window = [u \in Users |-> 0]
    /\ request = [p \in Slots |-> None]
    /\ stream = << >>
    /\ deliveries = [w \in Workers |-> [e \in Events |-> 0]]
    /\ inbox = [w \in Workers |-> << >>]
    /\ acked = [w \in Workers |-> {}]
    /\ connected = Workers
    /\ pushed = [m \in Ids |-> 0]
    /\ races = {}
    /\ started = 0 /\ faults = 0

-----------------------------------------------------------------------------
(* Posting.                                                                *)

(* EXISTS slowmode:<channel>:<user>; an error counts as no key.            *)
CheckSlow(p) ==
    LET u == request[p].user
    IN  /\ At(p, "check_slow")
        /\ \/ u \in slowmode /\ request' = [request EXCEPT ![p] = None]
              /\ UNCHANGED <<races, faults>>
           \/ /\ IF u \in slowmode THEN Fault ELSE UNCHANGED faults
              /\ Proceed(p)
              /\ Race("slow", \E q \in Slots \ {p} :
                     /\ AtOneOf(q, {"next_id", "insert", "set_last", "set_slow"})
                     /\ request[q].user = u)
        /\ UNCHANGED <<rows, stream, workers, started>>

NextId(p) ==
    /\ At(p, "next_id")
    /\ ids_used < MaxIds
    /\ ids_used' = ids_used + 1
    /\ request' = [request EXCEPT ![p] = After([@ EXCEPT !.ids = {ids_used + 1}])]
    /\ Race("post", \E q \in Slots \ {p} :
           /\ AtOneOf(q, {"insert", "set_last"})
           /\ request[p].op = "send_message" /\ request[q].op = "send_message")
    /\ UNCHANGED <<messages, pins, last_message_id, slowmode, in_window, stream, workers,
                   counters>>

InsertMessage(p) ==
    LET u == request[p].user
    IN  /\ At(p, "insert")
        /\ messages' = [messages EXCEPT ![Subject(p)] =
               [author |-> u, deleted |-> FALSE, pinned |-> FALSE, text |-> request[p].text]]
        /\ in_window' = IF u = None THEN in_window ELSE [in_window EXCEPT ![u] = @ + 1]
        /\ Proceed(p)
        /\ UNCHANGED <<pins, last_message_id, slowmode, ids_used, stream, workers, races,
                       counters>>

(* UPDATE channels SET last_message_id, whatever it was.                   *)
SetLast(p) ==
    /\ At(p, "set_last")
    /\ last_message_id' = Subject(p)
    /\ Proceed(p)
    /\ UNCHANGED <<messages, pins, slowmode, ids_used, in_window, stream, workers, races,
                   counters>>

(* SET slowmode:<channel>:<user> EX; an error is ignored.                  *)
SetSlow(p) ==
    /\ At(p, "set_slow")
    /\ \/ slowmode' = slowmode \cup {request[p].user} /\ UNCHANGED faults
       \/ Fault /\ UNCHANGED slowmode
    /\ Proceed(p)
    /\ UNCHANGED <<messages, pins, last_message_id, ids_used, in_window, stream, workers,
                   races, started>>

ExpireSlow(u) ==
    /\ u \in slowmode
    /\ slowmode' = slowmode \ {u}
    /\ in_window' = [in_window EXCEPT ![u] = 0]
    /\ UNCHANGED <<messages, pins, last_message_id, ids_used, request, stream, workers, races,
                   counters>>

-----------------------------------------------------------------------------
(* Editing and deleting.                                                   *)

(* Only the author's request may carry a text; a manager's changes none.   *)
UpdateContent(p) ==
    /\ At(p, "update")
    /\ messages' = IF messages[Subject(p)].author = request[p].user
                   THEN [messages EXCEPT ![Subject(p)].text = request[p].text]
                   ELSE messages
    /\ Proceed(p)
    /\ UNCHANGED <<pins, last_message_id, slowmode, ids_used, in_window, stream, workers,
                   races, counters>>

(* The message's own sender has not published it yet.                      *)
Unpublished(m) ==
    \E q \in Slots :
        /\ AtOneOf(q, {"set_last", "set_slow", "publish"})
        /\ request[q].op = "send_message"
        /\ m \in request[q].ids

SoftDelete(p) ==
    /\ At(p, "soft_delete")
    /\ messages' = [messages EXCEPT ![Subject(p)].deleted = TRUE]
    /\ Race("event", Unpublished(Subject(p)))
    /\ Proceed(p)
    /\ UNCHANGED <<pins, last_message_id, slowmode, ids_used, in_window, stream, workers,
                   counters>>

(* The loop of a bulk deletion is done with a message, or with them all.   *)
DoneWithOne(r, m) ==
    LET left == [r EXCEPT !.todo = @ \ {m}]
    IN  IF left.todo = {} THEN After(left) ELSE left

LeftOut(r, m) == [r EXCEPT !.ids = @ \ {m}]

(* One message after the other; one that fails is left out of the event.   *)
DeleteEach(p) ==
    /\ At(p, "delete_each")
    /\ \E m \in request[p].todo :
          \/ /\ messages' = [messages EXCEPT ![m].deleted = TRUE]
             /\ Race("event", Unpublished(m))
             /\ request' = [request EXCEPT ![p] = DoneWithOne(@, m)]
             /\ UNCHANGED faults
          \/ /\ Fault
             /\ request' = [request EXCEPT ![p] = DoneWithOne(LeftOut(@, m), m)]
             /\ UNCHANGED <<messages, races>>
    /\ UNCHANGED <<pins, last_message_id, slowmode, ids_used, in_window, stream, workers,
                   started>>

-----------------------------------------------------------------------------
(* publish_durable: waits for the stream's answer, and ignores an error.   *)

Event(r) ==
    [type |-> CASE r.op = "send_message"   -> "MESSAGE_CREATE"
                [] r.op = "edit_message"   -> "MESSAGE_UPDATE"
                [] r.op = "delete_message" -> "MESSAGE_DELETE"
                [] r.op = "bulk_delete"    -> "MESSAGE_DELETE_BULK",
     ids  |-> r.ids,
     text |-> r.text]

Publish(p) ==
    /\ At(p, "publish")
    /\ \/ stream' = Append(stream, Event(request[p])) /\ UNCHANGED faults
       \/ Fault /\ UNCHANGED stream
    /\ Proceed(p)
    /\ UNCHANGED <<rows, workers, races, started>>

-----------------------------------------------------------------------------
(* Pins.                                                                   *)

Room(n) == n < MaxPins

CountPins(p) ==
    /\ At(p, "count_pins")
    /\ IF Room(Cardinality(pins)) THEN Proceed(p) ELSE request' = [request EXCEPT ![p] = None]
    /\ UNCHANGED <<rows, stream, workers, races, counters>>

CheckExists(p) ==
    /\ At(p, "exists")
    /\ IF Subject(p) \in Live THEN Proceed(p) ELSE request' = [request EXCEPT ![p] = None]
    /\ UNCHANGED <<rows, stream, workers, races, counters>>

SetPinned(p) ==
    /\ At(p, "set_pinned")
    /\ messages' = [messages EXCEPT ![Subject(p)].pinned = TRUE]
    /\ Race("pin", \E q \in Slots : At(q, "delete_pin") /\ request[q].ids = request[p].ids)
    /\ Proceed(p)
    /\ UNCHANGED <<pins, last_message_id, slowmode, ids_used, in_window, stream, workers,
                   counters>>

InsertPin(p) ==
    /\ At(p, "insert_pin")
    /\ pins' = pins \cup {Subject(p)}
    /\ Proceed(p)
    /\ UNCHANGED <<messages, last_message_id, slowmode, ids_used, in_window, stream, workers,
                   races, counters>>

UnsetPinned(p) ==
    /\ At(p, "unset_pinned")
    /\ messages' = [messages EXCEPT ![Subject(p)].pinned = FALSE]
    /\ Race("pin", \E q \in Slots : At(q, "insert_pin") /\ request[q].ids = request[p].ids)
    /\ Proceed(p)
    /\ UNCHANGED <<pins, last_message_id, slowmode, ids_used, in_window, stream, workers,
                   counters>>

DeletePin(p) ==
    /\ At(p, "delete_pin")
    /\ pins' = pins \ {Subject(p)}
    /\ Proceed(p)
    /\ UNCHANGED <<messages, last_message_id, slowmode, ids_used, in_window, stream, workers,
                   races, counters>>

-----------------------------------------------------------------------------
(* A request arrives, from a user who may do what it asks for.  The ids it *)
(* names are ids of rows; a row stays, and its author too.                 *)

Stored == {m \in Ids : messages[m] # None}

IsOne(ids) == Cardinality(ids) = 1

ByAuthor(u, ids) == \A m \in ids : messages[m].author = u

Asks(op, u, ids, text) ==
    CASE op = "send_message"    -> u \in Users /\ ids = {}
      [] op = "execute_webhook" -> u = None /\ ids = {} /\ text = "text"
      [] op = "edit_message"    -> /\ u \in Users /\ IsOne(ids)
                                   /\ ByAuthor(u, ids) \/ (u \in Managers /\ text = "empty")
      [] op = "delete_message"  -> /\ u \in Users /\ IsOne(ids) /\ text = "empty"
                                   /\ ByAuthor(u, ids) \/ u \in Managers
      [] op = "bulk_delete"     -> u \in Managers /\ ids # {} /\ text = "empty"
      [] OTHER                  -> u \in Managers /\ IsOne(ids) /\ text = "empty"

Start(p) ==
    /\ request[p] = None
    /\ started < MaxRequests
    /\ started' = started + 1
    /\ \E op \in DOMAIN Handler, u \in Users \cup {None}, ids \in SUBSET Stored,
          text \in {"empty", "text"} :
          /\ Asks(op, u, ids, text)
          /\ request' = [request EXCEPT ![p] =
                [op |-> op, user |-> u, ids |-> ids, todo |-> ids, text |-> text,
                 at |-> Handler[op].start]]
    /\ UNCHANGED <<rows, stream, workers, races, faults>>

(* A call fails whose error the handler returns, or the client goes away   *)
(* and the handler is dropped where it waits.                              *)
Fail(p) ==
    /\ request[p] # None
    /\ Fault
    /\ request' = [request EXCEPT ![p] = None]
    /\ UNCHANGED <<rows, stream, workers, races, started>>

-----------------------------------------------------------------------------
(* The workers.  Each has a durable pull consumer of its own, whose        *)
(* messages() asks for events ahead: they wait in the worker's inbox until *)
(* it gets to them.  Handling one, from process_message to the ack, is an  *)
(* action, as nobody waits for a worker or sees it at work.                *)

Waiting(w, e) == \E i \in DOMAIN inbox[w] : inbox[w][i] = e

(* The stream hands out events in order, and again, up to max_deliver      *)
(* times, one whose ack_wait has passed since it was delivered: after an   *)
(* error, a lost ack or the end of the connection, or since the worker has *)
(* not got to it in time.                                                  *)
Deliver(w, e) ==
    /\ w \in connected
    /\ e \notin acked[w]
    /\ deliveries[w][e] < MaxDeliver
    /\ \A d \in 1 .. e - 1 : deliveries[w][d] > 0
    /\ deliveries' = [deliveries EXCEPT ![w][e] = @ + 1]
    /\ inbox' = [inbox EXCEPT ![w] = Append(@, e)]
    /\ Race("overdue", Waiting(w, e))
    /\ UNCHANGED <<rows, request, stream, acked, connected, index, pushed, counters>>

Acked(w, e) == acked' = [acked EXCEPT ![w] = @ \cup {e}]

(* An ack that fails is logged.                                            *)
AckedOrNot(w, e) ==
    \/ Acked(w, e) /\ UNCHANGED faults
    \/ Fault /\ UNCHANGED acked

Added(event) ==
    IF event.type = "MESSAGE_CREATE" /\ event.text # "empty" THEN event.ids ELSE {}

Removed(event) ==
    IF event.type \in {"MESSAGE_DELETE", "MESSAGE_DELETE_BULK"} THEN event.ids ELSE {}

Indexed(event, done) ==
    index' = (index \cup (Added(event) \cap done)) \ (Removed(event) \cap done)

(* process_message of search_indexer: a call to the search service that    *)
(* fails is logged, and done with.                                         *)
IndexMessage(e) ==
    LET w == "search-indexer"
    IN  /\ \/ Indexed(stream[e], Ids) /\ AckedOrNot(w, e)
           \/ /\ Fault /\ Acked(w, e)
              /\ \E done \in (SUBSET stream[e].ids) \ {stream[e].ids} : Indexed(stream[e], done)
        /\ UNCHANGED <<pushed, races>>

(* process_message of push_worker: nobody, or those who are offline, are   *)
(* notified; an error of a query comes before and ends in no ack.          *)
PushMessage(e) ==
    LET w == "push-worker"
    IN  /\ \/ /\ stream[e].type = "MESSAGE_CREATE"
              /\ pushed' = [m \in Ids |-> pushed[m] + IF m \in stream[e].ids THEN 1 ELSE 0]
              /\ AckedOrNot(w, e)
              /\ Race("unacked", e \notin acked'[w])
           \/ AckedOrNot(w, e) /\ UNCHANGED <<pushed, races>>
        /\ UNCHANGED index

(* process_message of read_state_worker: with a member to write a row for, *)
(* the first INSERT fails, since PostgreSQL has no table read_states; with *)
(* none, and for other events, there is nothing to do.                     *)
UpdateReadStates(e) ==
    LET w == "read-state-updater"
    IN  /\ \/ stream[e].type = "MESSAGE_CREATE" /\ UNCHANGED <<acked, faults>>
           \/ AckedOrNot(w, e)
        /\ UNCHANGED <<index, pushed, races>>

Handle(w) ==
    /\ inbox[w] # << >>
    /\ inbox' = [inbox EXCEPT ![w] = Tail(@)]
    /\ LET e == Head(inbox[w])
       IN  \/ w = "search-indexer" /\ IndexMessage(e)
           \/ w = "push-worker" /\ PushMessage(e)
           \/ w = "read-state-updater" /\ UpdateReadStates(e)
    /\ UNCHANGED <<rows, request, stream, deliveries, connected, started>>

(* The stream of the consumer ends: run_consumer returns an error, and     *)
(* what it has not handled is gone.                                        *)
Disconnect(w) ==
    /\ w \in connected
    /\ Fault
    /\ connected' = connected \ {w}
    /\ inbox' = [inbox EXCEPT ![w] = << >>]
    /\ UNCHANGED <<rows, request, stream, deliveries, acked, index, pushed, races, started>>

(* start() runs the consumer again after five seconds.                     *)
Restart(w) ==
    /\ w \notin connected
    /\ connected' = connected \cup {w}
    /\ UNCHANGED <<rows, request, stream, deliveries, inbox, acked, index, pushed, races,
                   counters>>

-----------------------------------------------------------------------------
Serves(p) ==
    \/ CheckSlow(p) \/ NextId(p) \/ InsertMessage(p) \/ SetLast(p) \/ SetSlow(p)
    \/ UpdateContent(p) \/ SoftDelete(p) \/ DeleteEach(p) \/ Publish(p)
    \/ CountPins(p) \/ CheckExists(p) \/ SetPinned(p) \/ InsertPin(p)
    \/ UnsetPinned(p) \/ DeletePin(p)

Works(w) == (\E e \in 1 .. Len(stream) : Deliver(w, e)) \/ Handle(w) \/ Restart(w)

Next ==
    \/ \E p \in Slots : Start(p) \/ Serves(p) \/ Fail(p)
    \/ \E u \in Users : ExpireSlow(u)
    \/ \E w \in Workers : Works(w) \/ Disconnect(w)

(* A worker is a task that is polled when it is ready, and the stream      *)
(* delivers again once the ack is overdue.                                 *)
Spec == Init /\ [][Next]_vars /\ \A w \in Workers : WF_vars(Works(w))
-----------------------------------------------------------------------------
(* Properties.                                                             *)

(* Types; every event, pin and index entry is of a message that has been   *)
(* given an id, and a pin of one that has a row.                           *)
TypeOK ==
    /\ messages \in [Ids -> Row \cup {None}]
    /\ pins \subseteq Stored
    /\ last_message_id \in Stored \cup {0}
    /\ slowmode \subseteq Users
    /\ in_window \in [Users -> 0 .. MaxRequests]
    /\ ids_used \in 0 .. MaxIds
    /\ \A p \in Slots : request[p] # None =>
          /\ request[p].op \in DOMAIN Handler
          /\ request[p].user \in Users \cup {None}
          /\ request[p].ids \subseteq 1 .. ids_used
          /\ request[p].todo \subseteq Ids
          /\ request[p].at \in Calls(request[p].op)
    /\ \A e \in 1 .. Len(stream) : stream[e].ids \subseteq Stored
    /\ deliveries \in [Workers -> [Events -> 0 .. MaxDeliver]]
    /\ \A w \in Workers, e \in Events :
          e \in acked[w] \/ Waiting(w, e) => e <= Len(stream) /\ deliveries[w][e] > 0
    /\ connected \subseteq Workers
    /\ index \subseteq Stored
    /\ pushed \in [Ids -> 0 .. MaxDeliver]
    /\ races \subseteq {"slow", "post", "event", "pin", "overdue", "unacked"}
    /\ started \in 0 .. MaxRequests /\ faults \in 0 .. MaxFaults

(* An event follows its row: a deletion that the workers are told of has   *)
(* taken place, so a reader of ScyllaDB never finds more than the index    *)
(* will.                                                                   *)
DeletionsTrue ==
    \A e \in 1 .. Len(stream) : \A m \in Removed(stream[e]) : m \notin Live

(* Limits that are checked some calls before what they limit is written.   *)
(* "Max 50 pins": concurrent requests go over it, but by no more than      *)
(* there are other requests at once.  Slow mode lets one message per user  *)
(* through until the key expires, unless two of the user's sends overlap,  *)
(* or Redis fails.                                                         *)
LimitsWithinReach ==
    /\ Cardinality(pins) < MaxPins + Cardinality(Slots)
    /\ faults = 0 /\ "slow" \notin races => \A u \in Users : in_window[u] <= 1

AllServed == \A p \in Slots : request[p] = None

(* pin_message and unpin_message each write the message and the list.      *)
(* Once all are served the two agree, if nothing failed and no pin and     *)
(* unpin of one message overlapped between their writes.                   *)
PinsSettle ==
    AllServed /\ faults = 0 /\ "pin" \notin races
        => pins = {m \in Stored : messages[m].pinned}

(* last_message_id settles at the newest message that was sent, if nothing *)
(* failed and no message was given its id between another's id and its     *)
(* UPDATE; webhooks do not touch it.                                       *)
LastMessageSettles ==
    AllServed /\ faults = 0 /\ "post" \notin races
        => \A m \in Stored : messages[m].author # None => m <= last_message_id

(* Nothing is left for w to do: every event is acknowledged, or has been   *)
(* delivered as often as it will be and every delivery handled.            *)
DoneWith(w, e) ==
    \/ e \in acked[w]
    \/ deliveries[w][e] = MaxDeliver /\ ~Waiting(w, e)

Drained(w) == w \in Workers /\ inbox[w] = << >> /\ \A e \in 1 .. Len(stream) : DoneWith(w, e)

(* Once all is served and consumed, the deleted messages are not found and *)
(* what a user has sent since is, if nothing failed, no message was        *)
(* deleted before its own sender had published it, and no event was        *)
(* delivered again while it waited in an inbox: the copy of a creation     *)
(* that is handled after the deletion brings the message back.             *)
IndexSettles ==
    AllServed /\ Drained("search-indexer") /\ faults = 0 /\ races \cap {"event", "overdue"} = {}
        => /\ index \subseteq Live
           /\ \A e \in 1 .. Len(stream) : Added(stream[e]) \cap Live \subseteq index

(* The rows, the two databases and the index agree once nothing is under   *)
(* way: what three stores hold of one message is written by several calls  *)
(* of several processes in no transaction.                                 *)
Settles == PinsSettle /\ LastMessageSettles /\ IndexSettles

(* Nobody is notified twice of a message, however often the push worker is *)
(* cut off and taken up again and whatever else fails, unless the ack of   *)
(* the notified event is lost, or an event is delivered again while it     *)
(* waits in an inbox.                                                      *)
PushedOnce == races \cap {"overdue", "unacked"} = {} => \A m \in Ids : pushed[m] <= 1

(* A worker acknowledges every event or is handed it max_deliver times,    *)
(* through lost acks and disconnects, although another worker fails at     *)
(* every message; and no message is pushed twice but for the two causes.   *)
EachConsumed ==
    /\ \A w \in Workers, e \in Events : e <= Len(stream) ~> DoneWith(w, e)
    /\ []PushedOnce
=============================================================================
